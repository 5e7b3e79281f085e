-------------------------- MODULE ControlPlaneProofs --------------------------
(***************************************************************************)
(* Proofs of the safety properties of ControlPlane, for any requests, any  *)
(* of the kinds of request, and any bound on the history of commands.      *)
(***************************************************************************)
EXTENDS ControlPlane, SequenceTheorems, TLAPS

-----------------------------------------------------------------------------
(* The inductive invariant.                                                *)

AtItem == {"snapshot", "exists", "read", "open", "fill", "readLog", "openLog", "fillLog"}
HasCompared == {"open", "fill", "readLog", "openLog", "fillLog"}

(* What may be left to write of each kind of request.                      *)
Agendas(k) ==
  CASE k \in {"save", "apply", "setup"} -> {<<>>, <<"config">>}
    [] k = "docs" -> {<<>>, <<"docs">>}
    [] k = "bundle" -> {<<>>, <<"bundle">>, <<"docs", "bundle">>, <<"config", "docs", "bundle">>}
    [] k = "command" -> {<<>>, <<"actions">>}
    [] k = "profile" -> {<<>>, <<"actions">>, <<"actions", "actions">>}
    [] k = "decide" -> {<<>>, <<"decisions">>}
    [] OTHER -> {<<>>}

(* The step that a request is about to take fits what it asks for.         *)
Placed(q) ==
  /\ serving[q] = "idle" <=> kind[q] = "none"
  /\ agenda[q] \in Agendas(kind[q])
  /\ serving[q] \notin {"idle", "done", "failed"} => agenda[q] # <<>>
  /\ serving[q] = "snapshot" => kind[q] = "apply"
  /\ serving[q] = "outputs" => agenda[q] = <<"config", "docs", "bundle">>
  /\ serving[q] = "exists" => kind[q] \in Setups
  /\ serving[q] \in {"snapshot", "exists", "read", "open", "fill"} => Item(q) \in Files
  /\ serving[q] = "run" => Item(q) = "actions"

(* An open file is spoilt only where handlers have come between others.    *)
SpoiltIsDisturbed(q) ==
  q \in clobbered => serving[q] \in {"fill", "fillLog"} /\ Item(q) \in disturbed

(* What the entries of a file say it is; a log with all that it keeps.     *)
Made(f) == IF appended[f] = <<>> THEN before[f] ELSE Whole(Last(appended[f]).new)
Complete(l) == [torn |-> FALSE, entries |-> Newest(l, appended[l])]

(* How far the one handler at an item is: what it has compared with is     *)
(* what the entries say, its text goes with it, and its log is complete    *)
(* but for the entry that it is about to write.                            *)
InHand(q, l) ==
  /\ serving[q] # "fillLog" => log[l] = Complete(l)
  /\ serving[q] = "fillLog" => log[l].entries = <<>>
  /\ serving[q] \in {"openLog", "fillLog"} =>
       extended[q] = Newest(l, Append(Newest(l, appended[l]), EntryOf(q)))
  /\ l \in Files =>
       /\ serving[q] \in {"snapshot", "exists", "read", "open"} => file[l] = Made(l)
       /\ serving[q] \in HasCompared => against[q] = Made(l)
       /\ serving[q] \in {"readLog", "openLog", "fillLog"} => file[l] = Whole(text[q])
       /\ kind[q] = "apply" /\ serving[q] # "snapshot" => text[q] = Made(l).holds \cup {q}
       /\ kind[q] \in Setups /\ ~forced[q] /\ serving[q] # "exists" => Made(l) = NoFile

(* The entries of a file, each told from the one before.                   *)
Tells(f) ==
  \A i \in 1..Len(appended[f]) :
    LET e == appended[f][i] IN
    /\ e.old = IF i = 1 THEN before[f] ELSE Whole(appended[f][i - 1].new)
    /\ kind[e.by] = "apply" => e.new = e.old.holds \cup {e.by}
    /\ kind[e.by] \in Setups /\ ~forced[e.by] => e.old = NoFile

(* An item that nothing has come between is in at most one hand.           *)
ItemInv(l) ==
  l \notin disturbed =>
    /\ \A p, q \in Busy(l) : p = q
    /\ \A q \in Busy(l) : InHand(q, l)
    /\ Busy(l) = {} => log[l] = Complete(l) /\ (l \in Files => file[l] = Made(l))
    /\ l \in Files => Tells(l)

(* Whatever comes between, logs hold what was written.                     *)
LogInv(l) ==
  /\ \A i \in 1..Len(appended[l]) : serving[appended[l][i].by] # "idle"
  /\ ~log[l].torn => ComesFrom(log[l].entries, appended[l])

ExtendedInv(q) ==
  serving[q] \in {"openLog", "fillLog"} =>
    ComesFrom(extended[q], Append(appended[Item(q)], EntryOf(q)))

ControlInv ==
  /\ ControlTypeOK
  /\ \A q \in Requests : Placed(q) /\ SpoiltIsDisturbed(q) /\ ExtendedInv(q)
  /\ \A l \in Logs : ItemInv(l) /\ LogInv(l)

-----------------------------------------------------------------------------
(* Logs: what is kept of them, and what they come from.                    *)

(* The newest entries of a log are its last ones, and are all of the log   *)
(* unless it is the bounded one.                                           *)
LEMMA NewestAreLast ==
  ASSUME NEW S, NEW s \in Seq(S), NEW l
  PROVE  /\ Newest(l, s) \in Seq(S)
         /\ l # "actions" => Newest(l, s) = s
         /\ Len(Newest(l, s)) <= Len(s)
         /\ \A i \in 1..Len(Newest(l, s)) :
              Newest(l, s)[i] = s[i + (Len(s) - Len(Newest(l, s)))]
         /\ Len(Newest(l, s)) = IF l = "actions" /\ Len(s) > Kept THEN Kept ELSE Len(s)
<1>1. Len(s) \in Nat /\ \A i \in 1..Len(s) : s[i] \in S
  BY LenProperties, ElementOfSeq
<1>2. CASE l = "actions" /\ Len(s) > Kept
  <2> DEFINE m == Len(s) - Kept + 1
  <2>1. m \in 1..Len(s) /\ Kept \in Nat
    BY <1>1, <1>2, ControlAssumption
  <2>2. \A i \in m..Len(s) : s[i] \in S
    BY <1>1, <2>1
  <2>3. /\ SubSeq(s, m, Len(s)) \in Seq(S)
        /\ Len(SubSeq(s, m, Len(s))) = IF m <= Len(s) THEN Len(s) - m + 1 ELSE 0
        /\ \A i \in 1..(Len(s) - m + 1) : SubSeq(s, m, Len(s))[i] = s[m + i - 1]
    BY <1>1, <2>1, <2>2, SubSeqProperties
  <2>4. Newest(l, s) = SubSeq(s, m, Len(s))
    BY <1>2 DEF Newest
  <2>5. Len(Newest(l, s)) = Kept
    BY <1>1, <2>1, <2>3, <2>4
  <2>6. \A i \in 1..Kept : m + i - 1 = i + (Len(s) - Kept)
    BY <1>1, <2>1
  <2> HIDE DEF m
  <2>7. \A i \in 1..Kept : Newest(l, s)[i] = s[i + (Len(s) - Kept)]
    <3>1. Len(s) - m + 1 = Kept
      BY <1>1, <2>1 DEF m
    <3> QED BY <3>1, <2>3, <2>4, <2>6
  <2>8. Kept <= Len(s) /\ ~(l # "actions")
    BY <1>1, <1>2, <2>1
  <2> QED BY <1>2, <2>3, <2>4, <2>5, <2>7, <2>8
<1>3. CASE ~(l = "actions" /\ Len(s) > Kept)
  <2>1. Newest(l, s) = s
    BY <1>3 DEF Newest
  <2>2. \A i \in 1..Len(s) : i + (Len(s) - Len(s)) = i
    BY <1>1
  <2> QED BY <1>1, <1>3, <2>1, <2>2
<1> QED BY <1>2, <1>3

(* To keep the newest, add one and keep the newest again is to add one and *)
(* keep the newest.                                                        *)
LEMMA NewestOfLonger ==
  ASSUME NEW S, NEW s \in Seq(S), NEW e \in S, NEW l
  PROVE  Newest(l, Append(Newest(l, s), e)) = Newest(l, Append(s, e))
<1> DEFINE n == Newest(l, s)
           a == Newest(l, Append(n, e))
           b == Newest(l, Append(s, e))
<1>1. /\ n \in Seq(S) /\ Len(n) \in Nat /\ Len(s) \in Nat
      /\ \A i \in 1..Len(n) : n[i] = s[i + (Len(s) - Len(n))]
      /\ Len(n) = IF l = "actions" /\ Len(s) > Kept THEN Kept ELSE Len(s)
  BY NewestAreLast, LenProperties
<1> HIDE DEF n
<1>2. /\ Append(n, e) \in Seq(S) /\ Len(Append(n, e)) = Len(n) + 1
      /\ \A i \in 1..Len(n) : Append(n, e)[i] = n[i]
      /\ Append(n, e)[Len(n) + 1] = e
  BY <1>1, AppendProperties
<1>3. /\ Append(s, e) \in Seq(S) /\ Len(Append(s, e)) = Len(s) + 1
      /\ \A i \in 1..Len(s) : Append(s, e)[i] = s[i]
      /\ Append(s, e)[Len(s) + 1] = e
  BY AppendProperties
<1>4. /\ a \in Seq(S)
      /\ \A i \in 1..Len(a) : a[i] = Append(n, e)[i + (Len(n) + 1 - Len(a))]
      /\ Len(a) = IF l = "actions" /\ Len(n) + 1 > Kept THEN Kept ELSE Len(n) + 1
  <2> DEFINE t == Append(n, e)
  <2>1. t \in Seq(S) /\ Len(t) = Len(n) + 1
    BY <1>2
  <2> HIDE DEF t
  <2>2. /\ Newest(l, t) \in Seq(S)
        /\ \A i \in 1..Len(Newest(l, t)) :
             Newest(l, t)[i] = t[i + (Len(t) - Len(Newest(l, t)))]
        /\ Len(Newest(l, t)) = IF l = "actions" /\ Len(t) > Kept THEN Kept ELSE Len(t)
    BY <2>1, NewestAreLast
  <2> QED BY <2>1, <2>2 DEF t
<1>5. /\ b \in Seq(S)
      /\ \A i \in 1..Len(b) : b[i] = Append(s, e)[i + (Len(s) + 1 - Len(b))]
      /\ Len(b) = IF l = "actions" /\ Len(s) + 1 > Kept THEN Kept ELSE Len(s) + 1
  <2> DEFINE t == Append(s, e)
  <2>1. t \in Seq(S) /\ Len(t) = Len(s) + 1
    BY <1>3
  <2> HIDE DEF t
  <2>2. /\ Newest(l, t) \in Seq(S)
        /\ \A i \in 1..Len(Newest(l, t)) :
             Newest(l, t)[i] = t[i + (Len(t) - Len(Newest(l, t)))]
        /\ Len(Newest(l, t)) = IF l = "actions" /\ Len(t) > Kept THEN Kept ELSE Len(t)
    BY <2>1, NewestAreLast
  <2> QED BY <2>1, <2>2 DEF t
<1> HIDE DEF a, b
<1>6. Len(a) = Len(b) /\ Len(a) \in Nat /\ Len(a) <= Len(n) + 1 /\ Len(n) <= Len(s)
  BY <1>1, <1>4, <1>5, ControlAssumption
<1>7. ASSUME NEW i \in 1..Len(a) PROVE a[i] = b[i]
  <2>1. a[i] = Append(n, e)[i + (Len(n) + 1 - Len(a))]
    BY <1>4
  <2>2. b[i] = Append(s, e)[i + (Len(s) + 1 - Len(a))]
    BY <1>5, <1>6
  <2>3. CASE i = Len(a)
    <3>1. /\ i + (Len(n) + 1 - Len(a)) = Len(n) + 1
          /\ i + (Len(s) + 1 - Len(a)) = Len(s) + 1
      BY <2>3, <1>1, <1>6
    <3> QED BY <3>1, <2>1, <2>2, <1>2, <1>3
  <2>4. CASE i < Len(a)
    <3> DEFINE j == i + (Len(n) + 1 - Len(a))
    <3>1. /\ j \in 1..Len(n)
          /\ j + (Len(s) - Len(n)) = i + (Len(s) + 1 - Len(a))
          /\ j + (Len(s) - Len(n)) \in 1..Len(s)
      <4>1. /\ i \in Int /\ 1 <= i /\ i < Len(a) /\ Len(a) \in Nat
            /\ Len(n) \in Nat /\ Len(s) \in Nat
            /\ Len(a) <= Len(n) + 1 /\ Len(n) <= Len(s)
        BY <2>4, <1>1, <1>6
      <4> QED BY <4>1
    <3> HIDE DEF j
    <3>2. a[i] = Append(n, e)[j]
      BY <2>1 DEF j
    <3>3. a[i] = s[j + (Len(s) - Len(n))]
      BY <3>1, <3>2, <1>1, <1>2
    <3>4. b[i] = s[j + (Len(s) - Len(n))]
      BY <3>1, <2>2, <1>3
    <3> QED BY <3>3, <3>4
  <2> QED BY <2>3, <2>4, <1>6
<1>8. a = b
  BY <1>4, <1>5, <1>6, <1>7, SeqEqual
<1> QED BY <1>8 DEF a, b, n

(* Entries that come from a log, and one that is written after them.       *)
LEMMA ComesFromLonger ==
  ASSUME NEW S, NEW s \in Seq(S), NEW all \in Seq(S), NEW e \in S, ComesFrom(s, all)
  PROVE  ComesFrom(Append(s, e), Append(all, e))
<1>1. PICK at \in [DOMAIN s -> DOMAIN all] :
        /\ \A i, j \in DOMAIN s : i < j => at[i] < at[j]
        /\ \A i \in DOMAIN s : s[i] = all[at[i]]
  BY DEF ComesFrom
<1>2. /\ DOMAIN s = 1..Len(s) /\ Len(s) \in Nat
      /\ DOMAIN all = 1..Len(all) /\ Len(all) \in Nat
  BY LenProperties
<1>3. /\ Append(s, e) \in Seq(S) /\ Len(Append(s, e)) = Len(s) + 1
      /\ \A i \in 1..Len(s) : Append(s, e)[i] = s[i]
      /\ Append(s, e)[Len(s) + 1] = e
  BY AppendProperties
<1>4. /\ Append(all, e) \in Seq(S) /\ Len(Append(all, e)) = Len(all) + 1
      /\ \A i \in 1..Len(all) : Append(all, e)[i] = all[i]
      /\ Append(all, e)[Len(all) + 1] = e
  BY AppendProperties
<1>5. DOMAIN Append(s, e) = 1..(Len(s) + 1) /\ DOMAIN Append(all, e) = 1..(Len(all) + 1)
  BY <1>3, <1>4, LenProperties
<1> DEFINE to == [i \in 1..(Len(s) + 1) |-> IF i = Len(s) + 1 THEN Len(all) + 1 ELSE at[i]]
<1>6. \A i \in 1..Len(s) : at[i] \in 1..Len(all) /\ to[i] = at[i]
  BY <1>1, <1>2
<1>7. to[Len(s) + 1] = Len(all) + 1
  BY <1>2
<1>8. to \in [1..(Len(s) + 1) -> 1..(Len(all) + 1)]
  BY <1>2, <1>6
<1> HIDE DEF to
<1>9. \A i \in 1..(Len(s) + 1) : i = Len(s) + 1 \/ i \in 1..Len(s)
  BY <1>2
<1>10. ASSUME NEW i \in 1..(Len(s) + 1), NEW j \in 1..(Len(s) + 1), i < j
       PROVE  to[i] < to[j]
  <2>1. i \in 1..Len(s)
    BY <1>2, <1>10
  <2>2. CASE j = Len(s) + 1
    BY <2>1, <2>2, <1>2, <1>6, <1>7
  <2>3. CASE j \in 1..Len(s)
    BY <2>1, <2>3, <1>1, <1>2, <1>6, <1>10
  <2> QED BY <2>2, <2>3, <1>9
<1>11. ASSUME NEW i \in 1..(Len(s) + 1)
       PROVE  Append(s, e)[i] = Append(all, e)[to[i]]
  <2>1. CASE i = Len(s) + 1
    BY <2>1, <1>3, <1>4, <1>7
  <2>2. CASE i \in 1..Len(s)
    BY <2>2, <1>1, <1>2, <1>3, <1>4, <1>6
  <2> QED BY <2>1, <2>2, <1>9
<1> QED BY <1>5, <1>8, <1>10, <1>11 DEF ComesFrom

(* A log comes from itself, and an entry alone from one it ends.           *)
LEMMA ComesFromItself ==
  ASSUME NEW S, NEW all \in Seq(S), NEW e \in S
  PROVE  ComesFrom(<<>>, all) /\ ComesFrom(<<e>>, Append(all, e))
<1>1. ComesFrom(<<>>, all)
  <2>1. DOMAIN <<>> = {}
    OBVIOUS
  <2> DEFINE at == [i \in {} |-> i]
  <2>2. at \in [DOMAIN <<>> -> DOMAIN all]
    BY <2>1
  <2> HIDE DEF at
  <2> QED BY <2>1, <2>2 DEF ComesFrom
<1>2. <<>> \in Seq(S) /\ Append(<<>>, e) = <<e>>
  BY EmptySeq
<1>3. ComesFrom(Append(<<>>, e), Append(all, e))
  BY <1>1, <1>2, ComesFromLonger
<1> QED BY <1>1, <1>2, <1>3

(* Its newest entries come from where a log comes from.                    *)
LEMMA NewestComeFrom ==
  ASSUME NEW S, NEW s \in Seq(S), NEW all \in Seq(S), NEW l, ComesFrom(s, all)
  PROVE  ComesFrom(Newest(l, s), all)
<1>1. PICK at \in [DOMAIN s -> DOMAIN all] :
        /\ \A i, j \in DOMAIN s : i < j => at[i] < at[j]
        /\ \A i \in DOMAIN s : s[i] = all[at[i]]
  BY DEF ComesFrom
<1> DEFINE n == Newest(l, s)
           k == Len(s) - Len(n)
<1>2. /\ n \in Seq(S) /\ Len(n) <= Len(s)
      /\ \A i \in 1..Len(n) : n[i] = s[i + k]
  BY NewestAreLast
<1>3. /\ DOMAIN s = 1..Len(s) /\ Len(s) \in Nat
      /\ DOMAIN n = 1..Len(n) /\ Len(n) \in Nat
  BY <1>2, LenProperties
<1>4. k \in Nat /\ \A i \in 1..Len(n) : i + k \in 1..Len(s)
  BY <1>2, <1>3
<1> DEFINE to == [i \in 1..Len(n) |-> at[i + k]]
<1> HIDE DEF n, k
<1>5. to \in [1..Len(n) -> DOMAIN all]
  BY <1>1, <1>3, <1>4
<1>6. \A i, j \in 1..Len(n) : i < j => i + k < j + k
  BY <1>3, <1>4
<1>7. \A i, j \in 1..Len(n) : i < j => to[i] < to[j]
  BY <1>1, <1>3, <1>4, <1>6
<1>8. \A i \in 1..Len(n) : n[i] = all[to[i]]
  BY <1>1, <1>2, <1>3, <1>4
<1> HIDE DEF to
<1>9. ComesFrom(n, all)
  BY <1>3, <1>5, <1>7, <1>8 DEF ComesFrom
<1> QED BY <1>9 DEF n

(* An entry that another handler writes first changes nothing of this.     *)
LEMMA ComesFromBetween ==
  ASSUME NEW S, NEW s \in Seq(S), NEW all \in Seq(S), NEW e \in S, NEW x \in S,
         ComesFrom(s, Append(all, e))
  PROVE  ComesFrom(s, Append(Append(all, x), e))
<1> DEFINE m == Len(all)
           old == Append(all, e)
           new == Append(Append(all, x), e)
<1>1. m \in Nat
  BY LenProperties
<1>2. /\ old \in Seq(S) /\ Len(old) = m + 1 /\ old[m + 1] = e
      /\ \A i \in 1..m : old[i] = all[i]
  BY AppendProperties
<1>3. /\ Append(all, x) \in Seq(S) /\ Len(Append(all, x)) = m + 1
      /\ \A i \in 1..m : Append(all, x)[i] = all[i]
  BY AppendProperties
<1>4. /\ new \in Seq(S) /\ Len(new) = m + 2 /\ new[m + 2] = e
      /\ \A i \in 1..(m + 1) : new[i] = Append(all, x)[i]
  <2>1. /\ new \in Seq(S) /\ Len(new) = (m + 1) + 1 /\ new[(m + 1) + 1] = e
        /\ \A i \in 1..(m + 1) : new[i] = Append(all, x)[i]
    BY <1>3, AppendProperties
  <2>2. (m + 1) + 1 = m + 2
    BY <1>1
  <2> QED BY <2>1, <2>2
<1>5. DOMAIN old = 1..(m + 1) /\ DOMAIN new = 1..(m + 2) /\ DOMAIN s = 1..Len(s)
      /\ Len(s) \in Nat
  BY <1>2, <1>4, LenProperties
<1> HIDE DEF m, old, new
<1>6. PICK at \in [DOMAIN s -> DOMAIN old] :
        /\ \A i, j \in DOMAIN s : i < j => at[i] < at[j]
        /\ \A i \in DOMAIN s : s[i] = old[at[i]]
  BY DEF ComesFrom, old
<1> DEFINE to == [i \in DOMAIN s |-> IF at[i] = m + 1 THEN m + 2 ELSE at[i]]
<1>7. \A i \in DOMAIN s : /\ at[i] \in 1..(m + 1)
                          /\ to[i] = IF at[i] = m + 1 THEN m + 2 ELSE at[i]
  BY <1>5, <1>6
<1>8. to \in [DOMAIN s -> DOMAIN new]
  BY <1>1, <1>5, <1>7
<1> HIDE DEF to
<1>9. ASSUME NEW i \in DOMAIN s, NEW j \in DOMAIN s, i < j
      PROVE  to[i] < to[j]
  BY <1>1, <1>6, <1>7, <1>9
<1>10. ASSUME NEW i \in DOMAIN s
       PROVE  s[i] = new[to[i]]
  <2>1. CASE at[i] = m + 1
    BY <2>1, <1>2, <1>4, <1>6, <1>7
  <2>2. CASE at[i] # m + 1
    <3>1. at[i] \in 1..m /\ at[i] \in 1..(m + 1)
      BY <2>2, <1>1, <1>7
    <3> QED BY <3>1, <2>2, <1>2, <1>3, <1>4, <1>6, <1>7
  <2> QED BY <2>1, <2>2
<1> QED BY <1>8, <1>9, <1>10 DEF ComesFrom, new

-----------------------------------------------------------------------------
(* Agendas and items.                                                      *)

(* An agenda is a list of items, and so is what follows its first one:     *)
(* another item, unless it is that of a profile.                           *)
LEMMA AgendaItems ==
  ASSUME NEW k, NEW a \in Agendas(k), a # <<>>
  PROVE  /\ Head(a) \in Logs /\ Tail(a) \in Agendas(k)
         /\ Tail(a) # <<>> =>
              /\ Head(Tail(a)) \in {"docs", "bundle", "actions"}
              /\ Head(Tail(a)) = Head(a) => Head(Tail(a)) = "actions"
              /\ Head(Tail(a)) \in Files => k \in Setups
<1>1. a \in {<<"config">>, <<"docs">>, <<"bundle">>, <<"docs", "bundle">>,
             <<"config", "docs", "bundle">>, <<"actions">>, <<"actions", "actions">>,
             <<"decisions">>}
  BY DEF Agendas
<1>2. CASE a \in {<<"config">>, <<"docs">>, <<"bundle">>, <<"actions">>, <<"decisions">>}
  <2>1. PICK x \in {"config", "docs", "bundle", "actions", "decisions"} : a = <<x>>
    BY <1>2
  <2>2. Tail(a) = <<>> /\ Head(a) \in Logs
    BY <2>1 DEF Logs, Files
  <2>3. <<>> \in Agendas(k)
    BY DEF Agendas
  <2> QED BY <2>2, <2>3
<1>3. CASE a \in {<<"docs", "bundle">>, <<"config", "docs", "bundle">>}
  <2>1. k = "bundle"
    <3>1. \A x : a # <<x>> /\ a # <<>> /\ a # <<"actions", "actions">>
      BY <1>3
    <3> QED BY <3>1 DEF Agendas
  <2>2. /\ Head(a) \in Files /\ Tail(a) \in {<<"bundle">>, <<"docs", "bundle">>}
        /\ Head(Tail(a)) \in {"docs", "bundle"} /\ Head(Tail(a)) # Head(a)
    <3>1. CASE a = <<"docs", "bundle">>
      <4>1. Tail(a) = <<"bundle">> /\ Head(a) = "docs" /\ Head(Tail(a)) = "bundle"
        BY <3>1
      <4> QED BY <4>1 DEF Files
    <3>2. CASE a = <<"config", "docs", "bundle">>
      <4>1. Tail(a) = <<"docs", "bundle">> /\ Head(a) = "config" /\ Head(Tail(a)) = "docs"
        BY <3>2
      <4> QED BY <4>1 DEF Files
    <3> QED BY <1>3, <3>1, <3>2
  <2> QED BY <2>1, <2>2 DEF Agendas, Logs, Setups
<1>4. CASE a = <<"actions", "actions">>
  <2>1. k = "profile"
    BY <1>4 DEF Agendas
  <2>2. Head(a) = "actions" /\ Tail(a) = <<"actions">> /\ Head(Tail(a)) = "actions"
    BY <1>4
  <2> QED BY <2>1, <2>2 DEF Agendas, Logs, Files
<1> QED BY <1>1, <1>2, <1>3, <1>4

LEMMA AgendasAreLists ==
  ASSUME NEW k
  PROVE  Agendas(k) \subseteq Seq(Logs)
<1>1. \A x \in Logs : <<x>> \in Seq(Logs)
  OBVIOUS
<1>2. /\ "config" \in Logs /\ "docs" \in Logs /\ "bundle" \in Logs
      /\ "actions" \in Logs /\ "decisions" \in Logs
  BY DEF Logs, Files
<1>3. /\ <<"docs", "bundle">> \in Seq(Logs) /\ <<"actions", "actions">> \in Seq(Logs)
      /\ <<"config", "docs", "bundle">> \in Seq(Logs) /\ <<>> \in Seq(Logs)
  BY <1>2
<1> QED BY <1>1, <1>2, <1>3 DEF Agendas

(* The items that a handler is between its first look at and its last      *)
(* write of.                                                               *)
LEMMA BusyAt ==
  ASSUME ControlTypeOK, NEW q \in Requests, NEW l
  PROVE  q \in Busy(l) <=> agenda[q] # <<>> /\ Item(q) = l /\ serving[q] \in AtItem
BY DEF ControlTypeOK, ControlSteps, Busy, AtItem

LEMMA EntryTyped ==
  ASSUME ControlTypeOK, NEW q \in Requests
  PROVE  EntryOf(q) \in Entries /\ EntryOf(q).by = q
BY DEF ControlTypeOK, EntryOf, Entries, Contents

-----------------------------------------------------------------------------
(* The steps keep the types.                                               *)

LEMMA StepTypes ==
  ASSUME ControlTypeOK, NEW q \in Requests, Placed(q), RequestStep(q)
  PROVE  ControlTypeOK'
<1>1. /\ readOnly \in BOOLEAN /\ serving \in [Requests -> ControlSteps]
      /\ kind \in [Requests -> AllKinds \cup {"none"}] /\ forced \in [Requests -> BOOLEAN]
      /\ agenda \in [Requests -> Seq(Logs)] /\ against \in [Requests -> Contents]
      /\ text \in [Requests -> SUBSET Requests] /\ extended \in [Requests -> Seq(Entries)]
      /\ file \in [Files -> Contents]
      /\ log \in [Logs -> [torn : BOOLEAN, entries : Seq(Entries)]]
      /\ clobbered \in SUBSET Requests /\ disturbed \in SUBSET Logs
      /\ appended \in [Logs -> Seq(Entries)] /\ before \in [Files -> Contents]
  BY DEF ControlTypeOK
<1>2. agenda[q] # <<>> =>
        /\ Item(q) \in Logs /\ Tail(agenda[q]) \in Seq(Logs)
        /\ Tail(agenda[q]) # <<>> => Head(Tail(agenda[q])) \in Logs
  <2>1. agenda[q] \in Agendas(kind[q])
    BY DEF Placed
  <2>2. agenda[q] # <<>> => Head(agenda[q]) \in Logs /\ Tail(agenda[q]) \in Agendas(kind[q])
    BY <2>1, AgendaItems
  <2> QED BY <2>1, <2>2, AgendaItems, AgendasAreLists DEF Item
<1>3. ASSUME NEW step \in ControlSteps, Now(q, step)
      PROVE  serving' \in [Requests -> ControlSteps]
  BY <1>1, <1>3 DEF Now
<1>4. ASSUME NEW item \in Logs, Enters(q, item) PROVE disturbed' \in SUBSET Logs
  BY <1>1, <1>4 DEF Enters
<1>5. ASSUME NEW step, Spoils(q, step) PROVE clobbered' \in SUBSET Requests
  BY <1>1, <1>5 DEF Spoils
<1>6. /\ \A edits \in SUBSET Requests : Whole(edits) \in Contents
      /\ NoFile \in Contents /\ Torn \in Contents
      /\ \A c \in Contents : c.holds \in SUBSET Requests
  <2>1. /\ NoFile.holds = {} /\ Torn.holds = {}
        /\ \A edits : Whole(edits).holds = edits
    BY DEF NoFile, Torn, Whole
  <2> QED BY <2>1 DEF Contents
<1>7. /\ EntryOf(q) \in Entries
      /\ \A l \in Logs : /\ log[l].entries \in Seq(Entries)
                         /\ Append(log[l].entries, EntryOf(q)) \in Seq(Entries)
                         /\ Append(appended[l], EntryOf(q)) \in Seq(Entries)
  BY <1>1, EntryTyped, AppendProperties
<1>8. CASE Arrives(q)
  <2>1. PICK k \in Kinds, force \in BOOLEAN :
          /\ kind' = [kind EXCEPT ![q] = k] /\ forced' = [forced EXCEPT ![q] = force]
          /\ IF readOnly /\ k # "command"
               THEN Now(q, "failed") /\ UNCHANGED agenda
               ELSE /\ Now(q, FirstStep(k))
                    /\ agenda' = [agenda EXCEPT ![q] = Agenda(k)]
          /\ IF ~readOnly /\ FirstStep(k) \notin {"outputs", "run"}
               THEN Enters(q, Head(Agenda(k)))
               ELSE UNCHANGED disturbed
    BY <1>8 DEF Arrives
  <2>2. k \in AllKinds
    BY ControlAssumption
  <2>3. Agenda(k) \in Agendas(k) /\ Agenda(k) # <<>>
    BY <2>2 DEF AllKinds, Agenda, Agendas
  <2>4. Agenda(k) \in Seq(Logs) /\ Head(Agenda(k)) \in Logs
    BY <2>3, AgendaItems, AgendasAreLists
  <2>5. FirstStep(k) \in ControlSteps /\ "failed" \in ControlSteps
    BY DEF FirstStep, ControlSteps
  <2>6. /\ serving' \in [Requests -> ControlSteps] /\ agenda' \in [Requests -> Seq(Logs)]
        /\ kind' \in [Requests -> AllKinds \cup {"none"}] /\ forced' \in [Requests -> BOOLEAN]
    BY <2>1, <2>2, <2>4, <2>5, <1>1, <1>3
  <2>7. disturbed' \in SUBSET Logs
    BY <2>1, <2>4, <1>1, <1>4
  <2> QED BY <1>1, <1>8, <2>6, <2>7 DEF Arrives, record, ControlTypeOK
<1>9. CASE ReadsSnapshot(q)
  <2>1. serving' \in [Requests -> ControlSteps]
    BY <1>9, <1>3 DEF ReadsSnapshot, ControlSteps
  <2>2. text' \in [Requests -> SUBSET Requests]
    <3>1. file["config"].holds \cup {q} \in SUBSET Requests
      BY <1>1, <1>6 DEF Files
    <3> QED BY <1>1, <1>9, <3>1 DEF ReadsSnapshot
  <2> QED BY <1>1, <1>9, <2>1, <2>2 DEF ReadsSnapshot, request, record, past, ControlTypeOK
<1>10. CASE LooksAtOutputs(q)
  <2>1. serving' \in [Requests -> ControlSteps] /\ disturbed' \in SUBSET Logs
    BY <1>1, <1>10, <1>3, <1>4 DEF LooksAtOutputs, ControlSteps, Logs, Files
  <2> QED BY <1>1, <1>10, <2>1 DEF LooksAtOutputs, request, record, ControlTypeOK
<1>11. CASE LooksForFile(q)
  <2>1. serving' \in [Requests -> ControlSteps]
    BY <1>11, <1>3 DEF LooksForFile, ControlSteps
  <2> QED BY <1>1, <1>11, <2>1 DEF LooksForFile, request, record, past, ControlTypeOK
<1>12. CASE ReadsCurrent(q)
  <2>1. serving' \in [Requests -> ControlSteps]
    BY <1>12, <1>3 DEF ReadsCurrent, ControlSteps
  <2>2. against' \in [Requests -> Contents]
    <3>1. Item(q) \in Files
      BY <1>12 DEF ReadsCurrent, Placed
    <3> QED BY <1>1, <1>12, <3>1 DEF ReadsCurrent
  <2> QED BY <1>1, <1>12, <2>1, <2>2 DEF ReadsCurrent, request, record, past, ControlTypeOK
<1>13. CASE OpensFile(q)
  <2>1. serving' \in [Requests -> ControlSteps] /\ clobbered' \in SUBSET Requests
    BY <1>13, <1>3, <1>5 DEF OpensFile, ControlSteps
  <2>2. file' \in [Files -> Contents]
    BY <1>1, <1>13, <1>6 DEF OpensFile
  <2> QED BY <1>1, <1>13, <2>1, <2>2 DEF OpensFile, request, record, past, ControlTypeOK
<1>14. CASE FillsFile(q)
  <2>1. serving' \in [Requests -> ControlSteps] /\ clobbered' \in SUBSET Requests
    BY <1>14, <1>3, <1>5 DEF FillsFile, ControlSteps
  <2>2. file' \in [Files -> Contents]
    <3>1. Whole(text[q]) \in Contents /\ Torn \in Contents
      BY <1>1, <1>6
    <3> QED BY <1>1, <1>14, <3>1 DEF FillsFile
  <2> QED BY <1>1, <1>14, <2>1, <2>2 DEF FillsFile, request, record, past, ControlTypeOK
<1>15. CASE RunsCommand(q)
  <2>1. "actions" \in Logs /\ <<"actions">> \in Seq(Logs)
    BY DEF Logs
  <2>2. serving' \in [Requests -> ControlSteps] /\ disturbed' \in SUBSET Logs
    BY <1>15, <2>1, <1>3, <1>4 DEF RunsCommand, ControlSteps
  <2>3. agenda' \in [Requests -> Seq(Logs)]
    BY <1>1, <1>15, <2>1 DEF RunsCommand
  <2> QED BY <1>1, <1>15, <2>2, <2>3 DEF RunsCommand, request, record, ControlTypeOK
<1>16. CASE ReadsLog(q)
  <2>1. serving' \in [Requests -> ControlSteps]
    BY <1>16, <1>3 DEF ReadsLog, ControlSteps
  <2>2. Item(q) \in Logs
    BY <1>2, <1>16 DEF ReadsLog, Placed
  <2>3. /\ <<EntryOf(q)>> \in Seq(Entries)
        /\ Newest(Item(q), Append(log[Item(q)].entries, EntryOf(q))) \in Seq(Entries)
    <3>1. Append(log[Item(q)].entries, EntryOf(q)) \in Seq(Entries)
      BY <2>2, <1>7
    <3>2. \A s \in Seq(Entries) : \A l : Newest(l, s) \in Seq(Entries)
      BY NewestAreLast
    <3>3. EntryOf(q) \in Entries
      BY <1>7
    <3>4. \A e \in Entries : <<e>> \in Seq(Entries)
      OBVIOUS
    <3> QED BY <3>1, <3>2, <3>3, <3>4
  <2>4. extended' \in [Requests -> Seq(Entries)]
    BY <1>1, <1>16, <2>3 DEF ReadsLog
  <2> QED BY <1>1, <1>16, <2>1, <2>4 DEF ReadsLog, request, record, past, ControlTypeOK
<1>17. CASE OpensLog(q)
  <2>1. serving' \in [Requests -> ControlSteps] /\ clobbered' \in SUBSET Requests
    BY <1>17, <1>3, <1>5 DEF OpensLog, ControlSteps
  <2>2. [torn |-> TRUE, entries |-> <<>>] \in [torn : BOOLEAN, entries : Seq(Entries)]
    BY EmptySeq
  <2>3. log' \in [Logs -> [torn : BOOLEAN, entries : Seq(Entries)]]
    BY <1>1, <1>17, <2>2 DEF OpensLog
  <2> QED BY <1>1, <1>17, <2>1, <2>3 DEF OpensLog, request, past, ControlTypeOK
<1>18. CASE FillsLog(q)
  <2>1. /\ clobbered' \in SUBSET Requests /\ against' \in [Requests -> Contents]
        /\ extended' \in [Requests -> Seq(Entries)]
    BY <1>1, <1>18, <1>5, <1>6, EmptySeq DEF FillsLog
  <2>2. /\ [torn |-> TRUE, entries |-> <<>>] \in [torn : BOOLEAN, entries : Seq(Entries)]
        /\ [torn |-> FALSE, entries |-> extended[q]]
             \in [torn : BOOLEAN, entries : Seq(Entries)]
    BY <1>1, EmptySeq
  <2>3. log' \in [Logs -> [torn : BOOLEAN, entries : Seq(Entries)]]
    BY <1>1, <1>18, <2>2 DEF FillsLog
  <2>4. appended' \in [Logs -> Seq(Entries)]
    <3>1. Item(q) \in Logs
      BY <1>2, <1>18 DEF FillsLog, Placed
    <3> QED BY <1>1, <1>18, <1>7, <3>1 DEF FillsLog
  <2>5. agenda[q] # <<>>
    BY <1>18 DEF FillsLog, Placed
  <2>6. agenda' \in [Requests -> Seq(Logs)] /\ serving' \in [Requests -> ControlSteps]
    <3>1. "done" \in ControlSteps /\ \A item : TaskStep(item) \in ControlSteps
      BY DEF TaskStep, ControlSteps
    <3> QED BY <1>1, <1>2, <1>3, <1>18, <2>5, <3>1 DEF FillsLog, GoesOn
  <2>7. disturbed' \in SUBSET Logs
    BY <1>1, <1>2, <1>4, <1>18, <2>5 DEF FillsLog, GoesOn
  <2> QED BY <1>1, <1>18, <2>1, <2>3, <2>4, <2>6, <2>7 DEF FillsLog, request, ControlTypeOK
<1> QED BY <1>8, <1>9, <1>10, <1>11, <1>12, <1>13, <1>14, <1>15, <1>16, <1>17, <1>18
        DEF RequestStep

-----------------------------------------------------------------------------
(* What a step of one handler leaves alone, and where it takes it.         *)

LEMMA StepLeavesOthers ==
  ASSUME ControlTypeOK, NEW q \in Requests, Placed(q), RequestStep(q)
  PROVE  /\ \A p \in Requests \ {q} :
              /\ serving'[p] = serving[p] /\ kind'[p] = kind[p] /\ forced'[p] = forced[p]
              /\ agenda'[p] = agenda[p] /\ against'[p] = against[p]
              /\ text'[p] = text[p] /\ extended'[p] = extended[p]
         /\ disturbed \subseteq disturbed' /\ before' = before
         /\ serving'[q] # "idle"
         /\ serving[q] # "idle" => kind'[q] = kind[q] /\ forced'[q] = forced[q]
         /\ \A l \in Logs : q \notin Busy(l) =>
              /\ log'[l] = log[l] /\ appended'[l] = appended[l]
              /\ l \in Files => file'[l] = file[l]
<1>1. /\ serving \in [Requests -> ControlSteps]
      /\ kind \in [Requests -> AllKinds \cup {"none"}] /\ forced \in [Requests -> BOOLEAN]
      /\ agenda \in [Requests -> Seq(Logs)] /\ against \in [Requests -> Contents]
      /\ text \in [Requests -> SUBSET Requests] /\ extended \in [Requests -> Seq(Entries)]
      /\ file \in [Files -> Contents]
      /\ log \in [Logs -> [torn : BOOLEAN, entries : Seq(Entries)]]
      /\ appended \in [Logs -> Seq(Entries)]
  BY DEF ControlTypeOK
<1>2. /\ \A step : Now(q, step) =>
           /\ serving'[q] = step
           /\ \A p \in Requests \ {q} : serving'[p] = serving[p]
      /\ \A item : Enters(q, item) => disturbed \subseteq disturbed'
  BY <1>1 DEF Now, Enters
<1>3. \A l \in Logs : q \notin Busy(l) =>
        agenda[q] = <<>> \/ Item(q) # l \/ serving[q] \notin AtItem
  BY BusyAt
<1>4. serving[q] \in AtItem => agenda[q] # <<>>
  BY DEF Placed, AtItem
<1>5. \A item : TaskStep(item) # "idle"
  BY DEF TaskStep
<1>6. CASE Arrives(q)
  <2>1. \A k : FirstStep(k) # "idle"
    BY DEF FirstStep
  <2> QED BY <1>1, <1>2, <1>6, <2>1 DEF Arrives, record
<1>7. CASE ReadsSnapshot(q)
  BY <1>1, <1>2, <1>7 DEF ReadsSnapshot, request, record, past
<1>8. CASE LooksAtOutputs(q)
  BY <1>1, <1>2, <1>8 DEF LooksAtOutputs, request, record
<1>9. CASE LooksForFile(q)
  BY <1>1, <1>2, <1>9 DEF LooksForFile, request, record, past
<1>10. CASE ReadsCurrent(q)
  BY <1>1, <1>2, <1>10 DEF ReadsCurrent, request, record, past
<1>11. CASE OpensFile(q)
  <2>1. \A f \in Files : f # Item(q) => file'[f] = file[f]
    BY <1>1, <1>11 DEF OpensFile
  <2> QED BY <1>1, <1>2, <1>3, <1>4, <1>11, <2>1
          DEF OpensFile, request, record, past, AtItem
<1>12. CASE FillsFile(q)
  <2>1. \A f \in Files : f # Item(q) => file'[f] = file[f]
    BY <1>1, <1>12 DEF FillsFile
  <2> QED BY <1>1, <1>2, <1>3, <1>4, <1>12, <2>1
          DEF FillsFile, request, record, past, AtItem
<1>13. CASE RunsCommand(q)
  BY <1>1, <1>2, <1>13 DEF RunsCommand, request, record
<1>14. CASE ReadsLog(q)
  BY <1>1, <1>2, <1>14 DEF ReadsLog, request, record, past
<1>15. CASE OpensLog(q)
  <2>1. \A l \in Logs : l # Item(q) => log'[l] = log[l]
    BY <1>1, <1>15 DEF OpensLog
  <2> QED BY <1>1, <1>2, <1>3, <1>4, <1>15, <2>1 DEF OpensLog, request, past, AtItem
<1>16. CASE FillsLog(q)
  <2>1. \A l \in Logs : l # Item(q) => log'[l] = log[l] /\ appended'[l] = appended[l]
    BY <1>1, <1>16 DEF FillsLog
  <2>2. /\ disturbed \subseteq disturbed' /\ serving'[q] # "idle"
        /\ \A p \in Requests \ {q} : serving'[p] = serving[p] /\ agenda'[p] = agenda[p]
    <3>1. GoesOn(q)
      BY <1>16 DEF FillsLog
    <3>2. \E step : step # "idle" /\ Now(q, step)
      BY <3>1, <1>5 DEF GoesOn
    <3>3. disturbed' = disturbed \/ \E item : Enters(q, item)
      BY <3>1 DEF GoesOn
    <3>4. agenda' = [agenda EXCEPT ![q] = Tail(agenda[q])]
      BY <3>1 DEF GoesOn
    <3> QED BY <3>2, <3>3, <3>4, <1>1, <1>2
  <2> QED BY <1>1, <1>3, <1>4, <1>16, <2>1, <2>2 DEF FillsLog, request, AtItem
<1> QED BY <1>6, <1>7, <1>8, <1>9, <1>10, <1>11, <1>12, <1>13, <1>14, <1>15, <1>16
        DEF RequestStep

(* A handler comes to an item by a first look at it, or at its log when it *)
(* is no file; and when others are at it already, it disturbs them.        *)
LEMMA StepEnters ==
  ASSUME ControlTypeOK, NEW q \in Requests, Placed(q), RequestStep(q),
         NEW l \in Logs, q \notin Busy(l), q \in Busy(l)'
  PROVE  /\ l \in disturbed' \/ Busy(l) = {}
         /\ \/ serving'[q] \in {"snapshot", "exists"}
            \/ serving'[q] = "read" /\ kind'[q] = "save"
            \/ serving'[q] = "readLog" /\ l \notin Files
<1>1. /\ serving \in [Requests -> ControlSteps]
      /\ kind \in [Requests -> AllKinds \cup {"none"}]
      /\ agenda \in [Requests -> Seq(Logs)]
  BY DEF ControlTypeOK
<1>2. agenda'[q] # <<>> /\ Head(agenda'[q]) = l /\ serving'[q] \in AtItem
  <2>1. serving'[q] \in ControlSteps
    BY StepTypes DEF ControlTypeOK
  <2> QED BY <2>1 DEF Busy, Item, ControlSteps, AtItem
<1>3. agenda[q] = <<>> \/ Head(agenda[q]) # l \/ serving[q] \notin AtItem
  BY BusyAt DEF Item
<1>4. serving[q] \in AtItem => agenda[q] # <<>>
  BY DEF Placed, AtItem
<1>5. Enters(q, l) => l \in disturbed' \/ Busy(l) = {}
  BY DEF Enters
<1>6. \A step : Now(q, step) => serving'[q] = step
  BY <1>1 DEF Now
<1>7. CASE serving[q] \in AtItem /\ agenda' = agenda
  BY <1>2, <1>3, <1>4, <1>7
<1>8. CASE Arrives(q)
  <2>1. PICK k \in Kinds :
          /\ kind' = [kind EXCEPT ![q] = k]
          /\ IF readOnly /\ k # "command"
               THEN Now(q, "failed")
               ELSE /\ Now(q, FirstStep(k))
                    /\ agenda' = [agenda EXCEPT ![q] = Agenda(k)]
          /\ IF ~readOnly /\ FirstStep(k) \notin {"outputs", "run"}
               THEN Enters(q, Head(Agenda(k)))
               ELSE UNCHANGED disturbed
    BY <1>8 DEF Arrives
  <2>2. ~(readOnly /\ k # "command") /\ serving'[q] = FirstStep(k) /\ kind'[q] = k
    BY <2>1, <1>1, <1>2, <1>6 DEF AtItem
  <2>3. FirstStep(k) \notin {"outputs", "run"}
    BY <2>2, <1>2 DEF AtItem
  <2>4. k # "command" /\ k # "profile" /\ k # "bundle"
    BY <2>3 DEF FirstStep
  <2>5. agenda'[q] = Agenda(k) /\ Enters(q, l)
    BY <2>1, <2>2, <2>3, <2>4, <1>1, <1>2
  <2>6. CASE k = "save"
    BY <2>2, <2>5, <2>6, <1>5 DEF FirstStep
  <2>7. CASE k = "decide"
    <3>1. FirstStep(k) = "readLog" /\ Agenda(k) = <<"decisions">>
      BY <2>7 DEF FirstStep, Agenda
    <3>2. l = "decisions"
      BY <3>1, <2>5, <1>2
    <3> QED BY <3>1, <3>2, <2>2, <2>5, <1>5 DEF Files
  <2>8. CASE k \notin {"save", "decide"}
    <3>1. FirstStep(k) \in {"snapshot", "exists"}
      BY <2>4, <2>8, ControlAssumption DEF FirstStep, AllKinds
    <3> QED BY <3>1, <2>2, <2>5, <1>5
  <2> QED BY <2>6, <2>7, <2>8
<1>9. CASE LooksAtOutputs(q)
  <2>1. Head(agenda[q]) = "config" /\ agenda' = agenda
    BY <1>9 DEF LooksAtOutputs, Placed
  <2>2. l = "config"
    BY <2>1, <1>2
  <2>3. serving'[q] = "exists" /\ Enters(q, "config")
    BY <1>2, <1>6, <1>9 DEF LooksAtOutputs, AtItem
  <2> QED BY <2>2, <2>3, <1>5
<1>10. CASE RunsCommand(q)
  <2>1. agenda[q] # <<>> /\ Head(agenda[q]) = "actions"
    BY <1>10 DEF RunsCommand, Placed, Item
  <2>2. agenda'[q] = agenda[q] \/ agenda'[q] = <<"actions">>
    BY <1>1, <1>10 DEF RunsCommand
  <2>3. l = "actions"
    BY <2>1, <2>2, <1>2
  <2>4. serving'[q] = "readLog" /\ Enters(q, "actions")
    BY <1>6, <1>10 DEF RunsCommand
  <2> QED BY <2>3, <2>4, <1>5 DEF Files
<1>11. CASE FillsLog(q)
  <2>1. GoesOn(q)
    BY <1>11 DEF FillsLog
  <2>2. agenda'[q] = Tail(agenda[q]) /\ Tail(agenda[q]) # <<>> /\ Head(Tail(agenda[q])) = l
    BY <2>1, <1>1, <1>2 DEF GoesOn
  <2>3. serving'[q] = TaskStep(l) /\ (l # "actions" => Enters(q, l))
    BY <2>1, <2>2, <1>6 DEF GoesOn
  <2>4. l # "actions"
    BY <2>3, <1>2 DEF TaskStep, Files, AtItem
  <2>5. serving'[q] = IF l \in Files THEN "exists" ELSE "readLog"
    BY <2>3, <2>4 DEF TaskStep, Files
  <2> QED BY <2>3, <2>4, <2>5, <1>5
<1> QED BY <1>7, <1>8, <1>9, <1>10, <1>11
        DEF RequestStep, ReadsSnapshot, LooksForFile, ReadsCurrent, OpensFile, FillsFile,
            ReadsLog, OpensLog, AtItem

(* A log grows only when a handler that is at it has written to it.        *)
LEMMA StepAppends ==
  ASSUME ControlTypeOK, NEW q \in Requests, RequestStep(q), NEW l \in Logs
  PROVE  \/ appended'[l] = appended[l]
         \/ /\ FillsLog(q) /\ l = Item(q)
            /\ appended'[l] = Append(appended[l], EntryOf(q))
<1>1. appended \in [Logs -> Seq(Entries)]
  BY DEF ControlTypeOK
<1>2. CASE FillsLog(q)
  BY <1>1, <1>2 DEF FillsLog
<1>3. CASE ~FillsLog(q)
  BY <1>3 DEF RequestStep, Arrives, ReadsSnapshot, LooksAtOutputs, LooksForFile, ReadsCurrent,
              OpensFile, FillsFile, RunsCommand, ReadsLog, OpensLog, record
<1> QED BY <1>2, <1>3

-----------------------------------------------------------------------------
(* The parts of the invariant that are about one request.                  *)

LEMMA StepPlaced ==
  ASSUME ControlTypeOK, \A p \in Requests : Placed(p), NEW q \in Requests, RequestStep(q)
  PROVE  \A p \in Requests : Placed(p)'
<1>1. /\ serving \in [Requests -> ControlSteps]
      /\ kind \in [Requests -> AllKinds \cup {"none"}]
      /\ agenda \in [Requests -> Seq(Logs)]
  BY DEF ControlTypeOK
<1>2. ASSUME NEW p \in Requests \ {q} PROVE Placed(p)'
  <2>1. /\ serving'[p] = serving[p] /\ kind'[p] = kind[p] /\ agenda'[p] = agenda[p]
    BY StepLeavesOthers
  <2> QED BY <2>1 DEF Placed, Item
<1> SUFFICES Placed(q)'
  BY <1>2
<1>3. \A step : Now(q, step) => serving'[q] = step
  BY <1>1 DEF Now
<1>4. Placed(q)
  OBVIOUS
<1>5. CASE Arrives(q)
  <2>1. PICK k \in Kinds :
          /\ kind' = [kind EXCEPT ![q] = k]
          /\ IF readOnly /\ k # "command"
               THEN Now(q, "failed") /\ UNCHANGED agenda
               ELSE /\ Now(q, FirstStep(k))
                    /\ agenda' = [agenda EXCEPT ![q] = Agenda(k)]
    BY <1>5 DEF Arrives
  <2>2. k \in AllKinds /\ k # "none" /\ kind'[q] = k
    BY <2>1, <1>1, ControlAssumption DEF AllKinds
  <2>3. CASE readOnly /\ k # "command"
    <3>1. agenda'[q] = <<>> /\ serving'[q] = "failed"
      BY <2>1, <2>3, <1>3, <1>4, <1>5 DEF Arrives, Placed, Agendas
    <3>2. <<>> \in Agendas(k)
      BY DEF Agendas
    <3> QED BY <3>1, <3>2, <2>2 DEF Placed
  <2>4. CASE ~(readOnly /\ k # "command")
    <3>1. agenda'[q] = Agenda(k) /\ serving'[q] = FirstStep(k)
      BY <2>1, <2>4, <1>1, <1>3
    <3>2. Agenda(k) \in Agendas(k) /\ Agenda(k) # <<>>
      BY <2>2 DEF AllKinds, Agenda, Agendas
    <3>3. CASE k \in {"save", "apply", "setup", "docs"}
      <4>1. Head(Agenda(k)) \in Files
        BY <3>3 DEF Agenda, Files
      <4>2. /\ FirstStep(k) \in {"read", "snapshot", "exists"}
            /\ FirstStep(k) = "snapshot" => k = "apply"
            /\ FirstStep(k) = "exists" => k \in Setups
        BY <3>3 DEF FirstStep, Setups
      <4> QED BY <3>1, <3>2, <4>1, <4>2, <2>2 DEF Placed, Item
    <3>4. CASE k = "bundle"
      <4>1. Agenda(k) = <<"config", "docs", "bundle">> /\ FirstStep(k) = "outputs"
        BY <3>4 DEF FirstStep, Agenda
      <4> QED BY <3>1, <3>2, <4>1, <2>2 DEF Placed, Item
    <3>5. CASE k \in {"command", "profile"}
      <4>1. Head(Agenda(k)) = "actions" /\ FirstStep(k) = "run"
        BY <3>5 DEF FirstStep, Agenda
      <4> QED BY <3>1, <3>2, <4>1, <2>2 DEF Placed, Item
    <3>6. CASE k = "decide"
      <4>1. FirstStep(k) = "readLog"
        BY <3>6 DEF FirstStep
      <4> QED BY <3>1, <3>2, <4>1, <2>2 DEF Placed, Item
    <3> QED BY <3>3, <3>4, <3>5, <3>6, <2>2 DEF AllKinds
  <2> QED BY <2>3, <2>4
<1>6. CASE ReadsSnapshot(q)
  <2>1. serving'[q] \in {"read", "done", "failed"}
    BY <1>3, <1>6 DEF ReadsSnapshot
  <2> QED BY <2>1, <1>4, <1>6 DEF ReadsSnapshot, request, Placed, Item
<1>7. CASE LooksAtOutputs(q)
  <2>1. serving'[q] \in {"exists", "failed"}
    BY <1>3, <1>7 DEF LooksAtOutputs
  <2>2. kind[q] \in Setups /\ Head(agenda[q]) \in Files /\ agenda' = agenda /\ kind' = kind
    <3>1. agenda[q] = <<"config", "docs", "bundle">> /\ agenda[q] \in Agendas(kind[q])
      BY <1>4, <1>7 DEF LooksAtOutputs, Placed
    <3>2. kind[q] = "bundle"
      <4>1. \A x : agenda[q] # <<x>> /\ agenda[q] # <<>> /\ agenda[q] # <<"actions", "actions">>
        BY <3>1
      <4> QED BY <3>1, <4>1 DEF Agendas
    <3> QED BY <3>1, <3>2, <1>7 DEF LooksAtOutputs, request, Setups, Files
  <2> QED BY <2>1, <2>2, <1>4, <1>7 DEF LooksAtOutputs, Placed, Item
<1>8. CASE LooksForFile(q)
  <2>1. serving'[q] \in {"read", "failed"}
    BY <1>3, <1>8 DEF LooksForFile
  <2> QED BY <2>1, <1>4, <1>8 DEF LooksForFile, request, Placed, Item
<1>9. CASE ReadsCurrent(q)
  <2>1. serving'[q] \in {"open", "failed"}
    BY <1>3, <1>9 DEF ReadsCurrent
  <2> QED BY <2>1, <1>4, <1>9 DEF ReadsCurrent, request, Placed, Item
<1>10. CASE OpensFile(q)
  BY <1>3, <1>4, <1>10 DEF OpensFile, request, Placed, Item
<1>11. CASE FillsFile(q)
  BY <1>3, <1>4, <1>11 DEF FillsFile, request, Placed, Item
<1>12. CASE RunsCommand(q)
  <2>1. agenda[q] # <<>> /\ Head(agenda[q]) = "actions" /\ agenda[q] \in Agendas(kind[q])
    BY <1>4, <1>12 DEF RunsCommand, Placed, Item
  <2>2. kind[q] \in {"command", "profile"}
    <3>1. \A x : agenda[q] = <<x>> => x = "actions"
      BY <2>1
    <3>2. agenda[q] # <<"docs", "bundle">> /\ agenda[q] # <<"config", "docs", "bundle">>
      BY <2>1
    <3> QED BY <2>1, <3>1, <3>2 DEF Agendas
  <2>3. agenda'[q] = agenda[q] \/ agenda'[q] = <<"actions">>
    BY <1>1, <1>12 DEF RunsCommand
  <2>4. agenda'[q] \in Agendas(kind[q]) /\ agenda'[q] # <<>>
    <3>1. <<"actions">> \in Agendas("command") /\ <<"actions">> \in Agendas("profile")
      BY DEF Agendas
    <3>2. <<"actions">> # <<>>
      OBVIOUS
    <3> QED BY <3>1, <3>2, <2>1, <2>2, <2>3
  <2>5. serving'[q] = "readLog" /\ kind' = kind
    BY <1>3, <1>12 DEF RunsCommand, request
  <2> QED BY <2>4, <2>5, <1>4, <1>12 DEF RunsCommand, Placed
<1>13. CASE ReadsLog(q)
  <2>1. serving'[q] \in {"openLog", "failed"}
    BY <1>3, <1>13 DEF ReadsLog
  <2> QED BY <2>1, <1>4, <1>13 DEF ReadsLog, request, Placed
<1>14. CASE OpensLog(q)
  BY <1>3, <1>4, <1>14 DEF OpensLog, request, Placed
<1>15. CASE FillsLog(q)
  <2>1. agenda[q] \in Agendas(kind[q]) /\ agenda[q] # <<>> /\ kind[q] # "none"
    BY <1>4, <1>15 DEF FillsLog, Placed
  <2> DEFINE rest == Tail(agenda[q])
  <2>2. /\ rest \in Agendas(kind[q])
        /\ rest # <<>> => /\ Head(rest) \in {"docs", "bundle", "actions"}
                          /\ Head(rest) \in Files => kind[q] \in Setups
    BY <2>1, AgendaItems
  <2> HIDE DEF rest
  <2>3. agenda'[q] = rest /\ kind' = kind
    BY <1>1, <1>15 DEF FillsLog, GoesOn, request, rest
  <2>4. CASE rest = <<>>
    <3>1. serving'[q] = "done"
      BY <2>4, <1>3, <1>15 DEF FillsLog, GoesOn, rest
    <3> QED BY <3>1, <2>1, <2>2, <2>3, <2>4 DEF Placed
  <2>5. CASE rest # <<>>
    <3>1. serving'[q] = TaskStep(Head(rest))
      BY <2>5, <1>3, <1>15 DEF FillsLog, GoesOn, rest
    <3>2. /\ serving'[q] \in {"exists", "run", "readLog"}
          /\ serving'[q] = "exists" => Head(rest) \in Files
          /\ serving'[q] = "run" => Head(rest) = "actions"
      BY <3>1 DEF TaskStep
    <3> QED BY <3>2, <2>1, <2>2, <2>3, <2>5 DEF Placed, Item
  <2> QED BY <2>4, <2>5
<1> QED
  BY <1>5, <1>6, <1>7, <1>8, <1>9, <1>10, <1>11, <1>12, <1>13, <1>14, <1>15 DEF RequestStep

(* An open file is spoilt by a handler at the same item.                   *)
LEMMA StepSpoils ==
  ASSUME ControlTypeOK, \A p \in Requests : Placed(p) /\ SpoiltIsDisturbed(p),
         \A l \in Logs : ItemInv(l), NEW q \in Requests, RequestStep(q)
  PROVE  \A p \in Requests : SpoiltIsDisturbed(p)'
<1>1. /\ disturbed \subseteq disturbed' /\ \A p \in Requests \ {q} :
           serving'[p] = serving[p] /\ agenda'[p] = agenda[p]
  BY StepLeavesOthers
<1>2. ASSUME NEW p \in Requests \ {q}, p \in clobbered PROVE SpoiltIsDisturbed(p)'
  BY <1>1, <1>2 DEF SpoiltIsDisturbed, Item
<1>3. ASSUME NEW step \in {"fill", "fillLog"}, Spoils(q, step),
             serving[q] \in {"open", "fill", "openLog", "fillLog"}
      PROVE  \A p \in Requests : SpoiltIsDisturbed(p)'
  <2>1. ASSUME NEW p \in Requests \ {q}, serving[p] = step, Item(p) = Item(q)
        PROVE  SpoiltIsDisturbed(p)'
    <3>1. agenda[q] # <<>> /\ agenda[p] # <<>>
      BY <1>3, <2>1 DEF Placed
    <3>2. p \in Busy(Item(q)) /\ q \in Busy(Item(q)) /\ Item(q) \in Logs
      <4>1. serving[q] \in AtItem /\ serving[p] \in AtItem
        BY <1>3, <2>1 DEF AtItem
      <4>2. agenda[q] \in Agendas(kind[q])
        BY DEF Placed
      <4> QED BY <4>1, <4>2, <3>1, <2>1, BusyAt, AgendaItems DEF Item
    <3>3. Item(p) \in disturbed
      BY <3>2, <2>1 DEF ItemInv
    <3> QED BY <3>3, <1>1, <2>1 DEF SpoiltIsDisturbed, Item
  <2>2. \A p \in Requests : p \in clobbered' =>
          p # q /\ (p \in clobbered \/ (serving[p] = step /\ Item(p) = Item(q)))
    BY <1>3 DEF Spoils
  <2>3. ASSUME NEW p \in Requests PROVE SpoiltIsDisturbed(p)'
    <3>1. CASE p \in clobbered'
      BY <3>1, <2>1, <2>2, <1>2
    <3>2. CASE p \notin clobbered'
      BY <3>2 DEF SpoiltIsDisturbed
    <3> QED BY <3>1, <3>2
  <2> QED BY <2>3
<1>4. ASSUME UNCHANGED clobbered, serving[q] \notin {"fill", "fillLog"}
      PROVE  \A p \in Requests : SpoiltIsDisturbed(p)'
  <2>1. q \notin clobbered'
    BY <1>4 DEF SpoiltIsDisturbed
  <2>2. ASSUME NEW p \in Requests PROVE SpoiltIsDisturbed(p)'
    <3>1. CASE p \in clobbered'
      BY <3>1, <2>1, <1>2, <1>4
    <3>2. CASE p \notin clobbered'
      BY <3>2 DEF SpoiltIsDisturbed
    <3> QED BY <3>1, <3>2
  <2> QED BY <2>2
<1>5. CASE OpensFile(q) \/ FillsFile(q) \/ OpensLog(q) \/ FillsLog(q)
  BY <1>3, <1>5 DEF OpensFile, FillsFile, OpensLog, FillsLog
<1>6. CASE ~(OpensFile(q) \/ FillsFile(q) \/ OpensLog(q) \/ FillsLog(q))
  BY <1>4, <1>6 DEF RequestStep, Arrives, ReadsSnapshot, LooksAtOutputs, LooksForFile,
                    ReadsCurrent, RunsCommand, ReadsLog
<1> QED BY <1>5, <1>6

(* What a handler is about to write of a log comes from what was written   *)
(* to it, and its own entry, however many others write first.              *)
LEMMA StepExtends ==
  ASSUME ControlTypeOK, \A p \in Requests : Placed(p) /\ ExtendedInv(p),
         \A l \in Logs : LogInv(l), NEW q \in Requests, RequestStep(q)
  PROVE  \A p \in Requests : ExtendedInv(p)'
<1>1. /\ serving \in [Requests -> ControlSteps] /\ extended \in [Requests -> Seq(Entries)]
      /\ \A l \in Logs : appended[l] \in Seq(Entries) /\ log[l].entries \in Seq(Entries)
  BY DEF ControlTypeOK
<1>2. ASSUME NEW p \in Requests, serving[p] \in {"readLog", "openLog", "fillLog"}
      PROVE  Item(p) \in Logs /\ EntryOf(p) \in Entries
  <2>1. agenda[p] # <<>> /\ agenda[p] \in Agendas(kind[p])
    BY <1>2 DEF Placed
  <2> QED BY <2>1, AgendaItems, EntryTyped DEF Item
<1>3. ASSUME NEW p \in Requests \ {q} PROVE ExtendedInv(p)'
  <2>1. /\ serving'[p] = serving[p] /\ agenda'[p] = agenda[p] /\ against'[p] = against[p]
        /\ text'[p] = text[p] /\ extended'[p] = extended[p]
    BY StepLeavesOthers
  <2>2. Item(p)' = Item(p) /\ EntryOf(p)' = EntryOf(p)
    BY <2>1 DEF Item, EntryOf
  <2>3. SUFFICES ASSUME serving[p] \in {"openLog", "fillLog"}
                 PROVE  ComesFrom(extended[p], Append(appended'[Item(p)], EntryOf(p)))
    BY <2>1, <2>2 DEF ExtendedInv, ComesFrom
  <2>4. ComesFrom(extended[p], Append(appended[Item(p)], EntryOf(p)))
    BY <2>3 DEF ExtendedInv
  <2>5. Item(p) \in Logs /\ EntryOf(p) \in Entries
    BY <2>3, <1>2
  <2>6. CASE appended'[Item(p)] = appended[Item(p)]
    BY <2>4, <2>6
  <2>7. CASE FillsLog(q) /\ appended'[Item(p)] = Append(appended[Item(p)], EntryOf(q))
    <3>1. EntryOf(q) \in Entries
      BY <2>7, <1>2 DEF FillsLog
    <3> QED BY <2>4, <2>5, <2>7, <3>1, <1>1, ComesFromBetween
  <2> QED BY <2>5, <2>6, <2>7, StepAppends
<1>4. ExtendedInv(q)'
  <2>1. SUFFICES ASSUME serving'[q] \in {"openLog", "fillLog"} PROVE ExtendedInv(q)'
    BY DEF ExtendedInv
  <2>2. \A step : Now(q, step) => serving'[q] = step
    BY <1>1 DEF Now
  <2>3. \A k : FirstStep(k) \notin {"openLog", "fillLog"}
    BY DEF FirstStep
  <2>4. \A item : TaskStep(item) \notin {"openLog", "fillLog"}
    BY DEF TaskStep
  <2>5. ReadsLog(q) \/ OpensLog(q)
    <3>1. ~Arrives(q) /\ ~ReadsSnapshot(q) /\ ~LooksAtOutputs(q) /\ ~LooksForFile(q)
      BY <2>1, <2>2, <2>3 DEF Arrives, ReadsSnapshot, LooksAtOutputs, LooksForFile
    <3>2. ~ReadsCurrent(q) /\ ~OpensFile(q) /\ ~FillsFile(q) /\ ~RunsCommand(q)
      BY <2>1, <2>2 DEF ReadsCurrent, OpensFile, FillsFile, RunsCommand
    <3>3. ~FillsLog(q)
      BY <2>1, <2>2, <2>4 DEF FillsLog, GoesOn
    <3> QED BY <3>1, <3>2, <3>3 DEF RequestStep
  <2>6. Item(q) \in Logs /\ EntryOf(q) \in Entries
    BY <2>5, <1>2 DEF ReadsLog, OpensLog
  <2>7. Item(q)' = Item(q) /\ EntryOf(q)' = EntryOf(q) /\ appended' = appended
    BY <2>5 DEF ReadsLog, OpensLog, Item, EntryOf, record
  <2>8. ComesFrom(extended'[q], Append(appended[Item(q)], EntryOf(q)))
    <3>1. CASE OpensLog(q)
      BY <3>1 DEF OpensLog, ExtendedInv
    <3>2. CASE ReadsLog(q) /\ log[Item(q)].torn
      <4>1. extended'[q] = <<EntryOf(q)>>
        BY <3>2, <2>1, <2>2, <1>1 DEF ReadsLog
      <4> QED BY <4>1, <2>6, <1>1, ComesFromItself
    <3>3. CASE ReadsLog(q) /\ ~log[Item(q)].torn
      <4> DEFINE longer == Append(log[Item(q)].entries, EntryOf(q))
                 all == Append(appended[Item(q)], EntryOf(q))
      <4>1. extended'[q] = Newest(Item(q), longer)
        BY <3>3, <1>1 DEF ReadsLog
      <4>2. ComesFrom(log[Item(q)].entries, appended[Item(q)])
        BY <3>3, <2>6 DEF LogInv
      <4>3. ComesFrom(longer, all)
        BY <4>2, <2>6, <1>1, ComesFromLonger
      <4>4. longer \in Seq(Entries) /\ all \in Seq(Entries)
        BY <2>6, <1>1, AppendProperties
      <4> HIDE DEF longer, all
      <4>5. ComesFrom(Newest(Item(q), longer), all)
        BY <4>3, <4>4, NewestComeFrom
      <4> QED BY <4>1, <4>5 DEF all
    <3> QED BY <3>1, <3>2, <3>3, <2>5
  <2> QED BY <2>7, <2>8 DEF ExtendedInv, ComesFrom
<1> QED BY <1>3, <1>4

-----------------------------------------------------------------------------
(* The parts of the invariant that are about one log.                      *)

(* A log that can be read holds entries that were written.                 *)
LEMMA StepLogs ==
  ASSUME ControlTypeOK, \A p \in Requests : Placed(p) /\ ExtendedInv(p),
         \A l \in Logs : LogInv(l), NEW q \in Requests, RequestStep(q)
  PROVE  \A l \in Logs : LogInv(l)'
<1>1. /\ serving \in [Requests -> ControlSteps]
      /\ log \in [Logs -> [torn : BOOLEAN, entries : Seq(Entries)]]
      /\ \A l \in Logs : appended[l] \in Seq(Entries)
  BY DEF ControlTypeOK
<1> TAKE l \in Logs
<1>2. /\ \A p \in Requests : serving[p] # "idle" => serving'[p] # "idle"
      /\ q \notin Busy(l) => log'[l] = log[l] /\ appended'[l] = appended[l]
  BY StepLeavesOthers
<1>3. \A i \in 1..Len(appended[l]) :
        appended[l][i].by \in Requests /\ serving[appended[l][i].by] # "idle"
  <2>1. \A i \in 1..Len(appended[l]) : appended[l][i] \in Entries
    BY <1>1, ElementOfSeq
  <2>2. \A e \in Entries : e.by \in Requests
    BY DEF Entries
  <2> QED BY <2>1, <2>2 DEF LogInv
<1>4. CASE FillsLog(q) /\ l = Item(q)
  <2>1. appended'[l] = Append(appended[l], EntryOf(q))
    BY <1>4 DEF FillsLog, ControlTypeOK
  <2>2. EntryOf(q) \in Entries /\ EntryOf(q).by = q /\ serving'[q] # "idle"
    BY EntryTyped, StepLeavesOthers
  <2>3. \A i \in 1..Len(appended'[l]) : serving'[appended'[l][i].by] # "idle"
    <3>1. /\ Len(appended'[l]) = Len(appended[l]) + 1 /\ Len(appended[l]) \in Nat
          /\ \A i \in 1..Len(appended[l]) : appended'[l][i] = appended[l][i]
          /\ appended'[l][Len(appended[l]) + 1] = EntryOf(q)
      BY <2>1, <2>2, <1>1, AppendProperties, LenProperties
    <3>2. \A i \in 1..Len(appended'[l]) :
            i = Len(appended[l]) + 1 \/ i \in 1..Len(appended[l])
      BY <3>1
    <3> QED BY <3>1, <3>2, <2>2, <1>2, <1>3
  <2>4. ~log'[l].torn => log'[l].entries = extended[q]
    BY <1>1, <1>4 DEF FillsLog
  <2>5. ComesFrom(extended[q], appended'[l])
    BY <2>1, <1>4 DEF FillsLog, ExtendedInv
  <2> QED BY <2>3, <2>4, <2>5 DEF LogInv
<1>5. CASE ~(FillsLog(q) /\ l = Item(q))
  <2>1. appended'[l] = appended[l]
    BY <1>5, StepAppends
  <2>2. log'[l] = log[l] \/ log'[l].torn
    BY <1>1, <1>5 DEF RequestStep, Arrives, ReadsSnapshot, LooksAtOutputs, LooksForFile,
           ReadsCurrent, OpensFile, FillsFile, RunsCommand, ReadsLog, OpensLog, FillsLog, record
  <2>3. \A i \in 1..Len(appended'[l]) : serving'[appended'[l][i].by] # "idle"
    BY <2>1, <1>2, <1>3
  <2>4. ~log'[l].torn => ComesFrom(log'[l].entries, appended'[l])
    BY <2>1, <2>2 DEF LogInv
  <2> QED BY <2>3, <2>4 DEF LogInv
<1> QED BY <1>4, <1>5

-----------------------------------------------------------------------------
(* The part of the invariant that is about an item.                        *)

(* A step that begins away from an item keeps it, even if it ends there.   *)
LEMMA ItemElsewhere ==
  ASSUME ControlTypeOK, \A p \in Requests : Placed(p), NEW q \in Requests, RequestStep(q),
         NEW l \in Logs, ItemInv(l), LogInv(l), q \notin Busy(l)
  PROVE  ItemInv(l)'
<1>1. /\ \A p \in Requests \ {q} :
           /\ serving'[p] = serving[p] /\ kind'[p] = kind[p] /\ forced'[p] = forced[p]
           /\ agenda'[p] = agenda[p] /\ against'[p] = against[p]
           /\ text'[p] = text[p] /\ extended'[p] = extended[p]
      /\ disturbed \subseteq disturbed' /\ before' = before
      /\ serving[q] # "idle" => kind'[q] = kind[q] /\ forced'[q] = forced[q]
      /\ log'[l] = log[l] /\ appended'[l] = appended[l]
      /\ l \in Files => file'[l] = file[l]
  BY StepLeavesOthers
<1>2. SUFFICES ASSUME l \notin disturbed'
               PROVE  /\ \A p, r \in Busy(l)' : p = r
                      /\ \A p \in Busy(l)' : InHand(p, l)'
                      /\ Busy(l)' = {} =>
                           log'[l] = Complete(l)' /\ (l \in Files => file'[l] = Made(l)')
                      /\ l \in Files => Tells(l)'
  BY DEF ItemInv
<1>3. l \notin disturbed
  BY <1>1, <1>2
<1>4. \A p \in Requests \ {q} : p \in Busy(l)' <=> p \in Busy(l)
  BY <1>1 DEF Busy, Item
<1>5. Complete(l)' = Complete(l) /\ Made(l)' = Made(l)
  BY <1>1 DEF Complete, Made, Newest
<1>6. l \in Files => Tells(l)'
  <2>1. SUFFICES ASSUME l \in Files PROVE Tells(l)'
    OBVIOUS
  <2>2. \A i \in 1..Len(appended[l]) : appended[l][i].by \in Requests
    <3>1. appended[l] \in Seq(Entries) /\ \A e \in Entries : e.by \in Requests
      BY DEF ControlTypeOK, Entries
    <3> QED BY <3>1, ElementOfSeq
  <2>3. \A i \in 1..Len(appended[l]) :
          /\ kind'[appended[l][i].by] = kind[appended[l][i].by]
          /\ forced'[appended[l][i].by] = forced[appended[l][i].by]
    BY <2>2, <1>1 DEF LogInv
  <2>4. Tells(l)
    BY <2>1, <1>3 DEF ItemInv
  <2> QED BY <2>3, <2>4, <1>1 DEF Tells, Whole
<1>7. ASSUME NEW p \in Busy(l) PROVE InHand(p, l)'
  <2>1. p \in Requests \ {q} /\ InHand(p, l)
    BY <1>3, <1>7 DEF ItemInv, Busy
  <2>2. EntryOf(p)' = EntryOf(p)
    BY <2>1, <1>1 DEF EntryOf, Item
  <2>3. Newest(l, Append(Newest(l, appended[l]), EntryOf(p)))'
          = Newest(l, Append(Newest(l, appended[l]), EntryOf(p)))
    BY <2>2, <1>1 DEF Newest
  <2> QED BY <2>1, <2>3, <1>1, <1>5 DEF InHand, Whole
<1>8. CASE q \notin Busy(l)'
  <2>1. Busy(l)' = Busy(l)
    BY <1>4, <1>8 DEF Busy
  <2> QED BY <2>1, <1>1, <1>3, <1>5, <1>6, <1>7 DEF ItemInv
<1>9. CASE q \in Busy(l)'
  <2>1. /\ Busy(l) = {}
        /\ \/ serving'[q] \in {"snapshot", "exists"}
           \/ serving'[q] = "read" /\ kind'[q] = "save"
           \/ serving'[q] = "readLog" /\ l \notin Files
    BY <1>2, <1>9, StepEnters
  <2>2. Busy(l)' = {q}
    BY <2>1, <1>4, <1>9 DEF Busy
  <2>3. log'[l] = Complete(l)' /\ (l \in Files => file'[l] = Made(l)')
    BY <2>1, <1>1, <1>3, <1>5 DEF ItemInv
  <2>4. /\ serving'[q] = "snapshot" => kind'[q] = "apply"
        /\ serving'[q] = "exists" => kind'[q] \in Setups
    BY StepPlaced DEF Placed
  <2>5. InHand(q, l)'
    BY <2>1, <2>3, <2>4 DEF InHand, Setups, HasCompared
  <2> QED BY <2>2, <2>5, <1>6
<1> QED BY <1>8, <1>9

(* The one handler at an item.                                             *)
LEMMA ItemAlone ==
  ASSUME ControlTypeOK, \A p \in Requests : Placed(p) /\ SpoiltIsDisturbed(p),
         NEW q \in Requests, RequestStep(q),
         NEW l \in Logs, ItemInv(l), q \in Busy(l), l \notin disturbed'
  PROVE  /\ l = Item(q) /\ agenda[q] # <<>> /\ serving[q] \in AtItem
         /\ InHand(q, l) /\ q \notin clobbered /\ (l \in Files => Tells(l))
         /\ Busy(l)' \subseteq {q}
<1>1. l \notin disturbed /\ \A p \in Requests \ {q} :
        serving'[p] = serving[p] /\ agenda'[p] = agenda[p]
  BY StepLeavesOthers
<1>2. l = Item(q) /\ agenda[q] # <<>> /\ serving[q] \in AtItem
  BY BusyAt
<1>3. \A p \in Busy(l) : p = q
  BY <1>1 DEF ItemInv
<1>4. \A p \in Requests \ {q} : p \in Busy(l)' <=> p \in Busy(l)
  BY <1>1 DEF Busy, Item
<1>5. Busy(l)' \subseteq {q}
  BY <1>3, <1>4 DEF Busy
<1>6. q \notin clobbered
  BY <1>1, <1>2 DEF SpoiltIsDisturbed
<1>7. InHand(q, l) /\ (l \in Files => Tells(l))
  BY <1>1 DEF ItemInv
<1> QED BY <1>2, <1>5, <1>6, <1>7

(* A handler that goes on with its item keeps it.                          *)
LEMMA ItemGoesOn ==
  ASSUME ControlTypeOK, \A p \in Requests : Placed(p) /\ SpoiltIsDisturbed(p),
         NEW q \in Requests, RequestStep(q), ~FillsLog(q),
         NEW l \in Logs, ItemInv(l), q \in Busy(l)
  PROVE  ItemInv(l)'
<1>1. /\ serving \in [Requests -> ControlSteps] /\ against \in [Requests -> Contents]
      /\ text \in [Requests -> SUBSET Requests] /\ extended \in [Requests -> Seq(Entries)]
      /\ file \in [Files -> Contents]
      /\ log \in [Logs -> [torn : BOOLEAN, entries : Seq(Entries)]]
  BY DEF ControlTypeOK
<1>2. SUFFICES ASSUME l \notin disturbed' PROVE ItemInv(l)'
  BY DEF ItemInv
<1>3. /\ l = Item(q) /\ agenda[q] # <<>> /\ serving[q] \in AtItem
      /\ InHand(q, l) /\ q \notin clobbered /\ (l \in Files => Tells(l))
      /\ Busy(l)' \subseteq {q}
  BY <1>2, ItemAlone
<1>4. \A step : Now(q, step) => serving'[q] = step
  BY <1>1 DEF Now
<1>5. Placed(q)
  OBVIOUS
<1>6. /\ ReadsSnapshot(q) \/ LooksForFile(q) \/ ReadsCurrent(q) \/ OpensFile(q)
         \/ FillsFile(q) \/ ReadsLog(q) \/ OpensLog(q)
  BY <1>3 DEF RequestStep, AtItem, Arrives, LooksAtOutputs, RunsCommand
<1>7. /\ agenda' = agenda /\ appended' = appended /\ before' = before
      /\ kind' = kind /\ forced' = forced
  BY <1>6 DEF ReadsSnapshot, LooksForFile, ReadsCurrent, OpensFile, FillsFile, ReadsLog,
              OpensLog, request, record, past
<1>8. Complete(l)' = Complete(l) /\ Made(l)' = Made(l) /\ (l \in Files => Tells(l)')
  BY <1>3, <1>7 DEF Complete, Made, Newest, Tells, Whole
<1>9. Item(q)' = l /\ agenda'[q] # <<>>
  BY <1>3, <1>7 DEF Item
<1>10. q \in Busy(l)' => serving'[q] \notin {"failed", "done"}
  BY DEF Busy
<1>11. ASSUME q \in Busy(l)' => InHand(q, l)',
              q \notin Busy(l)' =>
                log'[l] = Complete(l)' /\ (l \in Files => file'[l] = Made(l)')
       PROVE  ItemInv(l)'
  BY <1>3, <1>8, <1>11 DEF ItemInv
<1>12. ASSUME serving'[q] \in AtItem PROVE q \in Busy(l)'
  BY <1>9, <1>12 DEF Busy, AtItem
<1>13. CASE ReadsSnapshot(q)
  <2>1. l = "config"
    <3>1. kind[q] = "apply" /\ agenda[q] \in Agendas("apply") /\ agenda[q] # <<>>
      BY <1>3, <1>5, <1>13 DEF ReadsSnapshot, Placed
    <3>2. agenda[q] = <<"config">>
      BY <3>1 DEF Agendas
    <3> QED BY <3>2, <1>3 DEF Item
  <2>2. l \in Files /\ kind[q] = "apply"
    BY <2>1, <1>5, <1>13 DEF Files, ReadsSnapshot, Placed
  <2>3. log'[l] = Complete(l)' /\ file'[l] = Made(l)'
    BY <2>2, <1>3, <1>8, <1>13 DEF ReadsSnapshot, InHand, record
  <2>4. serving'[q] = "read" => text'[q] = Made(l)'.holds \cup {q}
    BY <2>1, <2>2, <2>3, <1>1, <1>4, <1>13 DEF ReadsSnapshot
  <2>5. serving'[q] \in {"read", "done", "failed"}
    BY <1>4, <1>13 DEF ReadsSnapshot
  <2>6. q \in Busy(l)' => InHand(q, l)'
    BY <2>2, <2>3, <2>4, <2>5, <1>7, <1>10 DEF InHand, HasCompared, Setups
  <2> QED BY <2>3, <2>6, <1>11
<1>14. CASE LooksForFile(q)
  <2>1. l \in Files /\ kind[q] \in Setups
    BY <1>3, <1>5, <1>14 DEF LooksForFile, Placed
  <2>2. log'[l] = Complete(l)' /\ file'[l] = Made(l)' /\ file' = file
    BY <2>1, <1>3, <1>8, <1>14 DEF LooksForFile, InHand, record
  <2>3. serving'[q] \in {"read", "failed"}
    BY <1>4, <1>14 DEF LooksForFile
  <2>4. serving'[q] = "read" /\ ~forced[q] => Made(l)' = NoFile
    <3>1. SUFFICES ASSUME serving'[q] = "read", ~forced[q] PROVE file[l] = NoFile
      BY <2>2
    <3>2. file[l].is = "absent" /\ file[l] \in Contents
      BY <3>1, <2>1, <1>1, <1>3, <1>4, <1>14 DEF LooksForFile
    <3> QED BY <3>2 DEF Contents, NoFile, Torn, Whole
  <2>5. q \in Busy(l)' => InHand(q, l)'
    BY <2>1, <2>2, <2>3, <2>4, <1>7, <1>10 DEF InHand, HasCompared, Setups
  <2> QED BY <2>2, <2>5, <1>11
<1>15. CASE ReadsCurrent(q)
  <2>1. l \in Files
    BY <1>3, <1>5, <1>15 DEF ReadsCurrent, Placed
  <2>2. log'[l] = Complete(l)' /\ file'[l] = Made(l)' /\ against'[q] = Made(l)' /\ text' = text
    BY <2>1, <1>1, <1>3, <1>8, <1>15 DEF ReadsCurrent, InHand, record
  <2>3. serving'[q] \in {"open", "failed"}
    BY <1>4, <1>15 DEF ReadsCurrent
  <2>4. /\ kind'[q] = "apply" => text'[q] = Made(l)'.holds \cup {q}
        /\ kind'[q] \in Setups /\ ~forced'[q] => Made(l)' = NoFile
    BY <2>1, <2>2, <1>3, <1>7, <1>8, <1>15 DEF ReadsCurrent, InHand
  <2>5. q \in Busy(l)' => InHand(q, l)'
    BY <2>2, <2>3, <2>4, <1>10 DEF InHand
  <2> QED BY <2>2, <2>5, <1>11
<1>16. CASE OpensFile(q) \/ FillsFile(q)
  <2>1. l \in Files
    BY <1>3, <1>5, <1>16 DEF OpensFile, FillsFile, Placed
  <2>2. serving'[q] = IF serving[q] = "open" THEN "fill" ELSE "readLog"
    BY <1>4, <1>16 DEF OpensFile, FillsFile
  <2>3. log'[l] = Complete(l)' /\ against'[q] = Made(l)' /\ text' = text
    BY <2>1, <1>3, <1>8, <1>16 DEF OpensFile, FillsFile, InHand, HasCompared, record
  <2>4. /\ kind'[q] = "apply" => text'[q] = Made(l)'.holds \cup {q}
        /\ kind'[q] \in Setups /\ ~forced'[q] => Made(l)' = NoFile
    BY <2>1, <2>3, <1>3, <1>7, <1>8, <1>16 DEF OpensFile, FillsFile, InHand
  <2>5. serving'[q] = "readLog" => file'[l] = Whole(text[q])'
    BY <2>1, <2>2, <2>3, <1>1, <1>3, <1>16 DEF OpensFile, FillsFile, Whole
  <2>6. InHand(q, l)'
    BY <2>2, <2>3, <2>4, <2>5 DEF InHand
  <2>7. q \in Busy(l)'
    BY <2>2, <1>12 DEF AtItem
  <2> QED BY <2>6, <2>7, <1>11
<1>17. CASE ReadsLog(q) \/ OpensLog(q)
  <2>1. file' = file /\ against' = against /\ text' = text
    BY <1>17 DEF ReadsLog, OpensLog
  <2>2. EntryOf(q)' = EntryOf(q)
    BY <2>1, <1>7 DEF EntryOf, Item
  <2> DEFINE longer == Newest(l, Append(Newest(l, appended[l]), EntryOf(q)))
  <2>3. longer' = longer
    BY <2>2, <1>7 DEF Newest
  <2>4. CASE ReadsLog(q)
    <3>1. log[l] = Complete(l)
      BY <2>4, <1>3 DEF ReadsLog, InHand
    <3>2. serving'[q] = "openLog" /\ extended'[q] = longer /\ log' = log
      BY <2>4, <3>1, <1>1, <1>3, <1>4 DEF ReadsLog, Complete, record
    <3>3. InHand(q, l)
      BY <1>3
    <3> HIDE DEF longer
    <3>4. InHand(q, l)'
      BY <2>1, <2>3, <2>4, <3>1, <3>2, <3>3, <1>7, <1>8
         DEF InHand, ReadsLog, HasCompared, Whole, longer
    <3>5. q \in Busy(l)'
      BY <3>2, <1>12 DEF AtItem
    <3> QED BY <3>4, <3>5, <1>11
  <2>5. CASE OpensLog(q)
    <3>1. serving'[q] = "fillLog" /\ extended' = extended /\ log'[l].entries = <<>>
      BY <2>5, <1>1, <1>3, <1>4 DEF OpensLog
    <3>2. InHand(q, l)
      BY <1>3
    <3> HIDE DEF longer
    <3>3. InHand(q, l)'
      BY <2>1, <2>3, <2>5, <3>1, <3>2, <1>7, <1>8
         DEF InHand, OpensLog, HasCompared, Whole, longer
    <3>4. q \in Busy(l)'
      BY <3>1, <1>12 DEF AtItem
    <3> QED BY <3>3, <3>4, <1>11
  <2> QED BY <2>4, <2>5, <1>17
<1> QED BY <1>6, <1>13, <1>14, <1>15, <1>16, <1>17

(* The entry that a handler has written continues those of its file.       *)
LEMMA TellsMore ==
  ASSUME ControlTypeOK, NEW q \in Requests, NEW l \in Files, Tells(l), Item(q) = l,
         appended' = [appended EXCEPT ![l] = Append(@, EntryOf(q))],
         UNCHANGED <<before, kind, forced>>,
         against[q] = Made(l),
         kind[q] = "apply" => text[q] = Made(l).holds \cup {q},
         kind[q] \in Setups /\ ~forced[q] => Made(l) = NoFile
  PROVE  Tells(l)' /\ Made(l)' = Whole(text[q])
<1> DEFINE old == appended[l]
           new == appended'[l]
           n == Len(old)
<1>1. l \in Logs /\ appended \in [Logs -> Seq(Entries)]
  BY DEF Logs, ControlTypeOK
<1>2. old \in Seq(Entries) /\ new = Append(old, EntryOf(q)) /\ EntryOf(q) \in Entries
  BY <1>1, EntryTyped
<1>3. EntryOf(q) = [by |-> q, old |-> Made(l), new |-> text[q]]
  BY DEF EntryOf
<1> HIDE DEF old, new
<1>4. /\ n \in Nat /\ Len(new) = n + 1 /\ new[n + 1] = EntryOf(q) /\ new \in Seq(Entries)
      /\ \A i \in 1..n : new[i] = old[i]
  BY <1>2, AppendProperties, LenProperties
<1>5. Made(l) = IF n = 0 THEN before[l] ELSE Whole(old[n].new)
  <2>1. n = 0 <=> old = <<>>
    BY <1>2, EmptySeq
  <2>2. Last(old) = old[n]
    BY DEF Last
  <2> QED BY <2>1, <2>2 DEF Made, old
<1> HIDE DEF n
<1>6. Made(l)' = Whole(text[q])
  <2>1. new # <<>> /\ Last(new) = new[n + 1]
    BY <1>4, EmptySeq DEF Last
  <2>2. Whole(Last(new).new) = Whole(text[q])
    BY <2>1, <1>3, <1>4
  <2> QED BY <2>1, <2>2 DEF Made, new, Whole
<1>7. \A i \in 1..(n + 1) : i = n + 1 \/ i \in 1..n
  BY <1>4
<1>8. ASSUME NEW i \in 1..(n + 1)
      PROVE  /\ new[i].old = IF i = 1 THEN before[l] ELSE Whole(new[i - 1].new)
             /\ kind[new[i].by] = "apply" => new[i].new = new[i].old.holds \cup {new[i].by}
             /\ kind[new[i].by] \in Setups /\ ~forced[new[i].by] => new[i].old = NoFile
  <2>1. CASE i \in 1..n
    <3>1. new[i] = old[i] /\ (i # 1 => new[i - 1] = old[i - 1])
      <4>1. i # 1 => i - 1 \in 1..n
        BY <2>1, <1>4
      <4> QED BY <2>1, <4>1, <1>4
    <3>2. /\ old[i].old = IF i = 1 THEN before[l] ELSE Whole(old[i - 1].new)
          /\ kind[old[i].by] = "apply" => old[i].new = old[i].old.holds \cup {old[i].by}
          /\ kind[old[i].by] \in Setups /\ ~forced[old[i].by] => old[i].old = NoFile
      BY <2>1 DEF Tells, old, n
    <3> QED BY <3>1, <3>2
  <2>2. CASE i = n + 1
    <3>1. new[i].by = q /\ new[i].old = Made(l) /\ new[i].new = text[q]
      BY <2>2, <1>3, <1>4
    <3>2. Made(l) = IF i = 1 THEN before[l] ELSE Whole(new[i - 1].new)
      <4>1. CASE n = 0
        BY <4>1, <2>2, <1>5
      <4>2. CASE n # 0
        <5>1. i # 1 /\ i - 1 = n /\ n \in 1..n
          BY <4>2, <2>2, <1>4
        <5> QED BY <5>1, <4>2, <1>4, <1>5
      <4> QED BY <4>1, <4>2
    <3> QED BY <3>1, <3>2
  <2> QED BY <2>1, <2>2, <1>7
<1>9. Tells(l)'
  <2>1. before' = before /\ kind' = kind /\ forced' = forced
    OBVIOUS
  <2>2. \A i \in 1..Len(new) :
          /\ new[i].old = IF i = 1 THEN before'[l] ELSE Whole(new[i - 1].new)
          /\ kind'[new[i].by] = "apply" => new[i].new = new[i].old.holds \cup {new[i].by}
          /\ kind'[new[i].by] \in Setups /\ ~forced'[new[i].by] => new[i].old = NoFile
    BY <2>1, <1>4, <1>8
  <2> QED BY <2>2 DEF Tells, new, Whole, NoFile
<1> QED BY <1>6, <1>9

(* A handler that completes its item leaves it settled.                    *)
LEMMA ItemCompleted ==
  ASSUME ControlTypeOK, \A p \in Requests : Placed(p) /\ SpoiltIsDisturbed(p),
         NEW q \in Requests, RequestStep(q), FillsLog(q),
         NEW l \in Logs, ItemInv(l), q \in Busy(l)
  PROVE  ItemInv(l)'
<1>1. /\ serving \in [Requests -> ControlSteps] /\ agenda \in [Requests -> Seq(Logs)]
      /\ log \in [Logs -> [torn : BOOLEAN, entries : Seq(Entries)]]
      /\ appended \in [Logs -> Seq(Entries)]
  BY DEF ControlTypeOK
<1>2. SUFFICES ASSUME l \notin disturbed' PROVE ItemInv(l)'
  BY DEF ItemInv
<1>3. /\ l = Item(q) /\ agenda[q] # <<>> /\ serving[q] = "fillLog"
      /\ InHand(q, l) /\ q \notin clobbered /\ (l \in Files => Tells(l))
      /\ Busy(l)' \subseteq {q}
  BY <1>2, ItemAlone DEF FillsLog
<1>4. Busy(l)' = {}
  <2>1. q \notin Busy(l)'
    <3>1. GoesOn(q) /\ agenda[q] \in Agendas(kind[q])
      BY DEF FillsLog, Placed
    <3> DEFINE rest == Tail(agenda[q])
    <3>2. rest # <<>> /\ Head(rest) = l => Head(rest) = "actions"
      BY <1>3, <3>1, AgendaItems DEF Item
    <3>3. agenda'[q] = rest
      BY <3>1, <1>1 DEF GoesOn
    <3>4. rest # <<>> => serving'[q] = TaskStep(Head(rest))
      BY <3>1, <1>1 DEF GoesOn, Now
    <3> HIDE DEF rest
    <3>5. CASE rest = <<>> \/ Head(rest) # l
      BY <3>3, <3>5 DEF Busy, Item
    <3>6. CASE rest # <<>> /\ Head(rest) = l
      BY <3>2, <3>4, <3>6 DEF TaskStep, Files, Busy
    <3> QED BY <3>5, <3>6
  <2> QED BY <2>1, <1>3
<1>5. log'[l] = Complete(l)'
  <2>1. EntryOf(q) \in Entries /\ appended[l] \in Seq(Entries)
    BY <1>1, EntryTyped
  <2>2. extended[q] = Newest(l, Append(appended[l], EntryOf(q)))
    <3>1. extended[q] = Newest(l, Append(Newest(l, appended[l]), EntryOf(q)))
      BY <1>3 DEF InHand
    <3> QED BY <3>1, <2>1, NewestOfLonger
  <2>3. appended'[l] = Append(appended[l], EntryOf(q))
    BY <1>1, <1>3 DEF FillsLog
  <2>4. log'[l] = [torn |-> FALSE, entries |-> extended[q]]
    BY <1>1, <1>3 DEF FillsLog
  <2> QED BY <2>2, <2>3, <2>4 DEF Complete, Newest
<1>6. CASE l \in Files
  <2>1. /\ against[q] = Made(l) /\ file[l] = Whole(text[q])
        /\ kind[q] = "apply" => text[q] = Made(l).holds \cup {q}
        /\ kind[q] \in Setups /\ ~forced[q] => Made(l) = NoFile
    BY <1>3, <1>6 DEF InHand, HasCompared
  <2>2. /\ appended' = [appended EXCEPT ![l] = Append(@, EntryOf(q))]
        /\ UNCHANGED <<before, kind, forced>> /\ file' = file
    BY <1>3 DEF FillsLog, request
  <2>3. Tells(l)' /\ Made(l)' = Whole(text[q])
    BY <2>1, <2>2, <1>3, <1>6, TellsMore
  <2> QED BY <2>1, <2>2, <2>3, <1>4, <1>5 DEF ItemInv
<1>7. CASE l \notin Files
  BY <1>4, <1>5, <1>7 DEF ItemInv
<1> QED BY <1>6, <1>7

-----------------------------------------------------------------------------
(* The invariant holds at first, and every step keeps it.                  *)

LEMMA ControlInitInv ==
  ControlInit => ControlInv
<1> SUFFICES ASSUME ControlInit PROVE ControlInv
  OBVIOUS
<1>1. /\ serving = [q \in Requests |-> "idle"] /\ kind = [q \in Requests |-> "none"]
      /\ agenda = [q \in Requests |-> <<>>] /\ clobbered = {} /\ disturbed = {}
      /\ log = [l \in Logs |-> [torn |-> FALSE, entries |-> <<>>]]
      /\ appended = [l \in Logs |-> <<>>] /\ before = file
  BY DEF ControlInit
<1>2. ControlTypeOK
  <2>1. <<>> \in Seq(Entries) /\ <<>> \in Seq(Logs)
    BY EmptySeq
  <2>2. NoFile \in Contents /\ Whole({}) \in Contents
    BY DEF Contents
  <2>3. file \in [Files -> Contents]
    BY <2>2 DEF ControlInit
  <2>4. "idle" \in ControlSteps
    BY DEF ControlSteps
  <2> QED BY <1>1, <2>1, <2>2, <2>3, <2>4 DEF ControlInit, ControlTypeOK
<1>3. ASSUME NEW q \in Requests PROVE Placed(q) /\ SpoiltIsDisturbed(q) /\ ExtendedInv(q)
  BY <1>1 DEF Placed, Agendas, SpoiltIsDisturbed, ExtendedInv
<1>4. ASSUME NEW l \in Logs PROVE ItemInv(l) /\ LogInv(l)
  <2>1. Len(<<>>) = 0 /\ 1..0 = {}
    OBVIOUS
  <2>2. appended[l] = <<>> /\ Busy(l) = {}
    BY <1>1 DEF Busy
  <2>3. Newest(l, <<>>) = <<>>
    BY <2>1, ControlAssumption DEF Newest
  <2>4. ComesFrom(<<>>, <<>>)
    <3>1. <<>> \in Seq({0})
      BY EmptySeq
    <3> QED BY <3>1, ComesFromItself
  <2> QED BY <1>1, <2>1, <2>2, <2>3, <2>4 DEF ItemInv, LogInv, Complete, Made, Tells
<1> QED BY <1>2, <1>3, <1>4 DEF ControlInv

LEMMA RestartKeeps ==
  ASSUME ControlInv, Restarts
  PROVE  ControlInv'
<1>1. /\ serving \in [Requests -> ControlSteps] /\ disturbed \in SUBSET Logs
      /\ \A q \in Requests : Placed(q) /\ SpoiltIsDisturbed(q)
      /\ \A l \in Logs : ItemInv(l) /\ LogInv(l)
      /\ ControlTypeOK
  BY DEF ControlInv, ControlTypeOK
<1>2. /\ disturbed' = disturbed \cup
           {Item(q) : q \in {p \in Requests :
                               serving[p] \in {"fill", "readLog", "openLog", "fillLog"}}}
      /\ serving' = [q \in Requests |->
                       IF serving[q] \in {"idle", "done"} THEN serving[q] ELSE "failed"]
      /\ agenda' = [q \in Requests |-> <<>>] /\ clobbered' = {}
      /\ extended' = [q \in Requests |-> <<>>] /\ against' = [q \in Requests |-> NoFile]
      /\ UNCHANGED <<readOnly, kind, forced, text, file, log, appended, before>>
  BY DEF Restarts, request, record
<1>3. \A q \in Requests : /\ serving'[q] \in {"idle", "done", "failed"}
                          /\ serving'[q] = "idle" <=> serving[q] = "idle"
  BY <1>2
<1>4. ControlTypeOK'
  <2>1. \A q \in Requests : serving[q] \in {"fill", "readLog", "openLog", "fillLog"} =>
          Item(q) \in Logs
    <3> SUFFICES ASSUME NEW q \in Requests,
                        serving[q] \in {"fill", "readLog", "openLog", "fillLog"}
                 PROVE  Item(q) \in Logs
      OBVIOUS
    <3>1. agenda[q] # <<>> /\ agenda[q] \in Agendas(kind[q])
      BY <1>1 DEF Placed
    <3> QED BY <3>1, AgendaItems DEF Item
  <2>2. disturbed' \in SUBSET Logs
    BY <1>1, <1>2, <2>1
  <2>3. serving' \in [Requests -> ControlSteps]
    BY <1>1, <1>2 DEF ControlSteps
  <2>4. <<>> \in Seq(Entries) /\ <<>> \in Seq(Logs) /\ NoFile \in Contents
    BY EmptySeq DEF Contents
  <2> QED BY <1>1, <1>2, <2>2, <2>3, <2>4 DEF ControlTypeOK
<1>5. ASSUME NEW q \in Requests PROVE Placed(q)' /\ SpoiltIsDisturbed(q)' /\ ExtendedInv(q)'
  <2>1. <<>> \in Agendas(kind[q])
    BY DEF Agendas
  <2> QED BY <1>1, <1>2, <1>3, <2>1 DEF Placed, SpoiltIsDisturbed, ExtendedInv
<1>6. ASSUME NEW l \in Logs PROVE LogInv(l)'
  <2>1. \A i \in 1..Len(appended[l]) : appended[l][i].by \in Requests
    <3>1. appended[l] \in Seq(Entries) /\ \A e \in Entries : e.by \in Requests
      BY <1>1 DEF ControlTypeOK, Entries
    <3> QED BY <3>1, ElementOfSeq
  <2> QED BY <1>1, <1>2, <1>3, <2>1 DEF LogInv, ComesFrom
<1>7. ASSUME NEW l \in Logs PROVE ItemInv(l)'
  <2>1. SUFFICES ASSUME l \notin disturbed' PROVE ItemInv(l)'
    BY DEF ItemInv
  <2>2. l \notin disturbed /\ \A q \in Requests :
          Item(q) = l => serving[q] \notin {"fill", "readLog", "openLog", "fillLog"}
    BY <1>2, <2>1
  <2>3. Busy(l)' = {}
    BY <1>3 DEF Busy
  <2>4. log[l] = Complete(l) /\ (l \in Files => file[l] = Made(l))
    <3>1. CASE Busy(l) = {}
      BY <3>1, <1>1, <2>2 DEF ItemInv
    <3>2. CASE Busy(l) # {}
      <4>1. PICK q \in Busy(l) : TRUE
        BY <3>2
      <4>2. q \in Requests /\ Item(q) = l /\ serving[q] \in AtItem
        BY <4>1, <1>1, BusyAt DEF Busy
      <4>3. serving[q] \in {"snapshot", "exists", "read", "open"}
        BY <4>2, <2>2 DEF AtItem
      <4>4. InHand(q, l)
        BY <4>1, <1>1, <2>2 DEF ItemInv
      <4> QED BY <4>3, <4>4 DEF InHand
    <3> QED BY <3>1, <3>2
  <2>5. Complete(l)' = Complete(l) /\ Made(l)' = Made(l)
    BY <1>2 DEF Complete, Made, Newest
  <2>6. l \in Files => Tells(l)'
    BY <1>1, <1>2, <2>2 DEF ItemInv, Tells, Whole
  <2> QED BY <1>2, <2>3, <2>4, <2>5, <2>6 DEF ItemInv
<1> QED BY <1>4, <1>5, <1>6, <1>7 DEF ControlInv

LEMMA ControlNextInv ==
  ControlInv /\ [ControlNext]_controlVars => ControlInv'
<1> SUFFICES ASSUME ControlInv, [ControlNext]_controlVars PROVE ControlInv'
  OBVIOUS
<1>1. /\ ControlTypeOK
      /\ \A q \in Requests : Placed(q) /\ SpoiltIsDisturbed(q) /\ ExtendedInv(q)
      /\ \A l \in Logs : ItemInv(l) /\ LogInv(l)
  BY DEF ControlInv
<1>2. CASE \E q \in Requests : RequestStep(q)
  <2>1. PICK q \in Requests : RequestStep(q)
    BY <1>2
  <2>2. ControlTypeOK'
    BY <1>1, <2>1, StepTypes
  <2>3. \A p \in Requests : Placed(p)' /\ SpoiltIsDisturbed(p)' /\ ExtendedInv(p)'
    BY <1>1, <2>1, StepPlaced, StepSpoils, StepExtends
  <2>4. ASSUME NEW l \in Logs PROVE ItemInv(l)'
    <3>1. CASE q \notin Busy(l)
      BY <3>1, <1>1, <2>1, ItemElsewhere
    <3>2. CASE q \in Busy(l) /\ FillsLog(q)
      BY <3>2, <1>1, <2>1, ItemCompleted
    <3>3. CASE q \in Busy(l) /\ ~FillsLog(q)
      BY <3>3, <1>1, <2>1, ItemGoesOn
    <3> QED BY <3>1, <3>2, <3>3
  <2>5. \A l \in Logs : LogInv(l)'
    BY <1>1, <2>1, StepLogs
  <2> QED BY <2>2, <2>3, <2>4, <2>5 DEF ControlInv
<1>3. CASE Restarts
  BY <1>3, RestartKeeps
<1>4. CASE UNCHANGED controlVars
  <2>1. /\ UNCHANGED <<readOnly, serving, kind, forced, agenda, against, text, extended>>
        /\ UNCHANGED <<file, log, clobbered, disturbed, appended, before>>
    BY <1>4 DEF controlVars
  <2>2. ControlTypeOK'
    BY <1>1, <2>1 DEF ControlTypeOK
  <2>3. ASSUME NEW q \in Requests PROVE Placed(q)' /\ SpoiltIsDisturbed(q)' /\ ExtendedInv(q)'
    <3>1. Item(q)' = Item(q) /\ EntryOf(q)' = EntryOf(q)
      BY <2>1 DEF Item, EntryOf
    <3>2. Placed(q)' /\ SpoiltIsDisturbed(q)'
      BY <1>1, <2>1, <3>1 DEF Placed, SpoiltIsDisturbed
    <3>3. ExtendedInv(q)'
      BY <1>1, <2>1, <3>1 DEF ExtendedInv, ComesFrom
    <3> QED BY <3>2, <3>3
  <2>4. ASSUME NEW l \in Logs PROVE LogInv(l)'
    BY <1>1, <2>1 DEF LogInv, ComesFrom
  <2>5. ASSUME NEW l \in Logs PROVE ItemInv(l)'
    <3>1. Busy(l)' = Busy(l) /\ Complete(l)' = Complete(l) /\ Made(l)' = Made(l)
      BY <2>1 DEF Busy, Item, Complete, Made, Newest
    <3>2. \A q \in Requests : InHand(q, l)' <=> InHand(q, l)
      BY <2>1, <3>1 DEF InHand, EntryOf, Item, Newest, Whole
    <3>3. Tells(l)' <=> Tells(l)
      BY <2>1 DEF Tells, Whole
    <3>4. Busy(l) \subseteq Requests
      BY DEF Busy
    <3> QED BY <1>1, <2>1, <3>1, <3>2, <3>3, <3>4 DEF ItemInv
  <2> QED BY <2>2, <2>3, <2>4, <2>5 DEF ControlInv
<1> QED BY <1>2, <1>3, <1>4 DEF ControlNext

-----------------------------------------------------------------------------
(* Every variable has its type.                                            *)
THEOREM ControlTyped == ControlSpec => []ControlTypeOK
<1>1. ControlInv => ControlTypeOK
  BY DEF ControlInv
<1> QED BY <1>1, ControlInitInv, ControlNextInv, PTL DEF ControlSpec

LEMMA LogsKeepFollows ==
  ControlInv => LogsKeep
<1> SUFFICES ASSUME ControlInv, NEW l \in Logs
             PROVE  /\ ~log[l].torn => ComesFrom(log[l].entries, appended[l])
                    /\ l \notin disturbed /\ (\A q \in Busy(l) : serving[q] # "fillLog") =>
                         log[l] = [torn |-> FALSE, entries |-> Newest(l, appended[l])]
  BY DEF LogsKeep
<1>1. ItemInv(l) /\ LogInv(l)
  BY DEF ControlInv
<1> QED BY <1>1 DEF ItemInv, LogInv, InHand, Complete

(* The logs hold what was written, in order, whatever comes between, and   *)
(* all that fits of it when nothing does.                                  *)
THEOREM ControlLogsKeep == ControlSpec => []LogsKeep
BY LogsKeepFollows, ControlInitInv, ControlNextInv, PTL DEF ControlSpec


(* The log of an undisturbed file is all that was written to it, unless it *)
(* is open to be written.                                                  *)
LEMMA LogOfFile ==
  ASSUME ControlInv, NEW f \in Files \ disturbed
  PROVE  /\ log[f].entries \in {appended[f], <<>>}
         /\ Busy(f) = {} => log[f].entries = appended[f] /\ file[f] = Made(f)
         /\ Tells(f)
<1>1. f \in Logs /\ f # "actions"
  BY DEF Logs, Files
<1>2. ItemInv(f)
  BY <1>1 DEF ControlInv
<1>3. Newest(f, appended[f]) = appended[f]
  BY <1>1 DEF Newest
<1>4. Complete(f).entries = appended[f]
  BY <1>3 DEF Complete
<1>5. log[f].entries \in {appended[f], <<>>}
  <2>1. CASE Busy(f) = {}
    BY <2>1, <1>2, <1>4 DEF ItemInv
  <2>2. CASE Busy(f) # {}
    <3>1. PICK q \in Busy(f) : InHand(q, f)
      BY <2>2, <1>2 DEF ItemInv
    <3> QED BY <3>1, <1>4 DEF InHand
  <2> QED BY <2>1, <2>2
<1> QED BY <1>2, <1>4, <1>5 DEF ItemInv

LEMMA AuditReplaysFollows ==
  ControlInv => AuditReplays
<1> SUFFICES ASSUME ControlInv, NEW f \in Files \ disturbed
             PROVE  LET e == log[f].entries IN
                    /\ \A i \in 1..Len(e) :
                         /\ e[i].old = IF i = 1 THEN before[f] ELSE Whole(e[i - 1].new)
                         /\ kind[e[i].by] = "apply" =>
                              e[i].new = e[i].old.holds \cup {e[i].by}
                    /\ Busy(f) = {} =>
                         file[f] = IF e = <<>> THEN before[f] ELSE Whole(Last(e).new)
  BY DEF AuditReplays
<1>1. /\ log[f].entries \in {appended[f], <<>>}
      /\ Busy(f) = {} => log[f].entries = appended[f] /\ file[f] = Made(f)
      /\ Tells(f)
  BY LogOfFile
<1>2. CASE log[f].entries = appended[f]
  BY <1>1, <1>2 DEF Tells, Made
<1>3. CASE log[f].entries # appended[f]
  <2>1. Len(<<>>) = 0 /\ 1..0 = {}
    OBVIOUS
  <2> QED BY <1>1, <1>3, <2>1
<1> QED BY <1>2, <1>3

(* The audit log of a file replays to what is there.                       *)
THEOREM ControlAuditReplays == ControlSpec => []AuditReplays
BY AuditReplaysFollows, ControlInitInv, ControlNextInv, PTL DEF ControlSpec

LEMMA UnforcedSparesFollows ==
  ControlInv => UnforcedSpares
<1> SUFFICES ASSUME ControlInv, NEW f \in Files \ disturbed, NEW e \in Range(log[f].entries),
                    kind[e.by] \in Setups, ~forced[e.by]
             PROVE  e.old = NoFile
  BY DEF UnforcedSpares
<1>1. log[f].entries \in {appended[f], <<>>} /\ Tells(f)
  BY LogOfFile
<1>2. PICK i \in DOMAIN log[f].entries : e = log[f].entries[i]
  BY DEF Range
<1>3. log[f].entries = appended[f]
  <2>1. DOMAIN <<>> = {}
    OBVIOUS
  <2> QED BY <2>1, <1>1, <1>2
<1>4. DOMAIN appended[f] = 1..Len(appended[f])
  BY LenProperties DEF ControlInv, ControlTypeOK, Logs
<1> QED BY <1>1, <1>2, <1>3, <1>4 DEF Tells

(* The setup overwrites only what it is forced to, unless something came   *)
(* between.                                                                *)
THEOREM ControlUnforcedSpares == ControlSpec => []UnforcedSpares
BY UnforcedSparesFollows, ControlInitInv, ControlNextInv, PTL DEF ControlSpec
=============================================================================
