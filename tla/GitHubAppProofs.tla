--------------------------- MODULE GitHubAppProofs ---------------------------
(***************************************************************************)
(* Proofs of the safety properties of GitHubApp, for any deliveries,       *)
(* repositories and findings, and any size of a page.                      *)
(***************************************************************************)
EXTENDS GitHubApp, FiniteSetTheorems, SequenceTheorems, WellFoundedInduction, TLAPS

-----------------------------------------------------------------------------
(* The inductive invariant.                                                *)

Working == {"owner", "search", "write"}
About(r, n, f) == n \in DOMAIN issues[r] /\ issues[r][n] = f

(* A handler under way has an action to handle.                            *)
HasAction == \A d \in Deliveries : handling[d] \in Working \cup {"token"} => actions[d] # <<>>

(* What a handler knows of the owner is still within its delivery.         *)
KnowsOwner ==
  \A d \in Deliveries :
    /\ d \in Open => Unmarked \subseteq unowned[d]
    /\ handling[d] \in {"search", "write"} => Current(d).repo \in unowned[d]

(* What was asked for has an outcome or is still to be done.               *)
Accounted ==
  \A d \in Deliveries :
    /\ handling[d] \in {"idle", "token"} => outcomes[d] = {}
    /\ handling[d] \in Working \cup {"token"} =>
         {o.action : o \in outcomes[d]} \cup Range(actions[d]) = asked[d]
    /\ handling[d] = "done" => {o.action : o \in outcomes[d]} = asked[d]

(* An issue that was found, or reported, is there.                         *)
IsThere ==
  \A d \in Deliveries :
    /\ handling[d] = "write" /\ found[d] # 0 =>
         About(Current(d).repo, found[d], Current(d).finding)
    /\ \A o \in outcomes[d] : o.published =>
         \E n \in Nat : About(o.action.repo, n, o.action.finding)

(* A handler that found nothing is the only one to have looked, and there  *)
(* is still nothing on the page.                                           *)
FoundNothing ==
  \A d \in Deliveries : handling[d] = "write" /\ Current(d) \notin tangled =>
    /\ found[d] = 0 => Matches(Current(d)) = {}
    /\ \A e \in Deliveries : handling[e] = "write" /\ Current(e) = Current(d) => e = d

AppInv ==
  AppTypeOK /\ HasAction /\ KnowsOwner /\ Accounted /\ IsThere /\ FoundNothing /\ OneIssue

-----------------------------------------------------------------------------
(* Facts about sequences and numbers.                                      *)

(* What is in a sequence is its head or in its tail.                       *)
LEMMA RangeTail ==
  ASSUME NEW S, NEW s \in Seq(S), s # <<>>
  PROVE  /\ Head(s) \in S /\ Tail(s) \in Seq(S)
         /\ Range(s) = {Head(s)} \cup Range(Tail(s))
<1>1. /\ Len(s) \in Nat \ {0} /\ DOMAIN s = 1..Len(s)
      /\ Head(s) = s[1]
  BY EmptySeq, LenProperties
<1>2. /\ Head(s) \in S /\ Tail(s) \in Seq(S) /\ Len(Tail(s)) = Len(s) - 1
      /\ \A i \in 1..Len(Tail(s)) : Tail(s)[i] = s[i + 1]
  BY HeadTailProperties
<1>3. DOMAIN Tail(s) = 1..(Len(s) - 1)
  BY <1>2, LenProperties
<1>4. ASSUME NEW x \in Range(s) PROVE x \in {Head(s)} \cup Range(Tail(s))
  <2>1. PICK i \in 1..Len(s) : x = s[i]
    BY <1>1, <1>4 DEF Range
  <2>2. CASE i = 1 BY <2>1, <2>2, <1>1
  <2>3. CASE i # 1
    <3>1. i - 1 \in 1..(Len(s) - 1) /\ Tail(s)[i - 1] = s[i]
      BY <2>1, <2>3, <1>1, <1>2
    <3> QED BY <3>1, <2>1, <1>3 DEF Range
  <2> QED BY <2>2, <2>3
<1>5. ASSUME NEW x \in Range(Tail(s)) PROVE x \in Range(s)
  <2>1. PICK i \in 1..(Len(s) - 1) : x = Tail(s)[i]
    BY <1>3, <1>5 DEF Range
  <2>2. i + 1 \in 1..Len(s) /\ x = s[i + 1]
    BY <2>1, <1>1, <1>2
  <2> QED BY <2>2, <1>1 DEF Range
<1>6. Head(s) \in Range(s)
  BY <1>1 DEF Range
<1> QED BY <1>2, <1>4, <1>5, <1>6

(* A non-empty set of numbers up to a bound has a greatest one.            *)
LEMMA GreatestOfBounded ==
  ASSUME NEW L \in Nat, NEW S, S \subseteq 1..L, S # {}
  PROVE  \E x \in S : \A y \in S : y <= x
<1> DEFINE T == {L - x : x \in S}
<1>1. T \subseteq Nat /\ T # {}
  <2>1. \A x \in S : L - x \in Nat
    OBVIOUS
  <2>2. PICK x \in S : TRUE
    OBVIOUS
  <2> QED BY <2>1, <2>2
<1>2. PICK t \in T : \A u \in T : ~(<<u, t>> \in OpToRel(<, Nat))
  BY <1>1, NatLessThanWellFounded, WFMin
<1>3. ASSUME NEW u \in T, u < t PROVE FALSE
  <2>1. <<u, t>> \in Nat \X Nat /\ <<u, t>>[1] < <<u, t>>[2]
    BY <1>1, <1>3
  <2>2. <<u, t>> \in OpToRel(<, Nat)
    BY <2>1, Zenon DEF OpToRel
  <2> QED BY <1>2, <2>2
<1>4. PICK x \in S : t = L - x
  OBVIOUS
<1>5. ASSUME NEW y \in S PROVE y <= x
  <2>1. L - y \in T /\ ~(L - y < t)
    BY <1>3
  <2> QED BY <2>1, <1>4
<1> QED BY <1>5

(* The listing of a repository is within its issues, and what is found is  *)
(* about the finding that was looked for.                                  *)
LEMMA FindsIssue ==
  ASSUME AppTypeOK, NEW a \in Actions
  PROVE  /\ Finds(a) \in Nat
         /\ Finds(a) # 0 => About(a.repo, Finds(a), a.finding)
         /\ Finds(a) = 0 => Matches(a) = {}
<1>1. /\ a.repo \in Repos /\ issues[a.repo] \in Seq(Findings \cup {Setup})
      /\ Len(issues[a.repo]) \in Nat /\ DOMAIN issues[a.repo] = 1..Len(issues[a.repo])
  BY LenProperties DEF AppTypeOK, Actions
<1>2. Matches(a) \subseteq 1..Len(issues[a.repo])
  BY <1>1 DEF Matches, Listed
<1>3. CASE Matches(a) = {}
  BY <1>3 DEF Finds
<1>4. CASE Matches(a) # {}
  <2>1. \E n \in Matches(a) : \A m \in Matches(a) : m <= n
    BY <1>1, <1>2, <1>4, GreatestOfBounded
  <2>2. Finds(a) \in Matches(a)
    BY <2>1, <1>4 DEF Finds
  <2> QED BY <2>2, <1>1, <1>2, <1>4 DEF Matches, Listed, About
<1> QED BY <1>3, <1>4

(* What an installation asks for is a list of actions, and is not empty.   *)
LEMMA ListOfActions ==
  ASSUME NEW list \in SetToSeqs({[repo |-> r, finding |-> Setup] : r \in Repos})
                      \cup {<<a>> : a \in Actions}
  PROVE  list \in Seq(Actions) /\ list # <<>> /\ Range(list) \subseteq Actions
<1> DEFINE All == {[repo |-> r, finding |-> Setup] : r \in Repos}
<1>1. All \subseteq Actions /\ All # {}
  <2>1. PICK r \in Repos : TRUE
    BY AppAssumption
  <2>2. [repo |-> r, finding |-> Setup] \in All
    BY <2>1
  <2>3. \A q \in Repos : [repo |-> q, finding |-> Setup] \in Actions
    BY DEF Actions
  <2> QED BY <2>2, <2>3
<1>2. IsFiniteSet(All)
  <2> DEFINE f == [r \in Repos |-> [repo |-> r, finding |-> Setup]]
  <2>1. f \in Surjection(Repos, All)
    BY DEF Surjection
  <2> HIDE DEF f
  <2> QED BY <2>1, AppAssumption, FS_Surjection
<1>3. Cardinality(All) \in Nat /\ Cardinality(All) # 0
  <2> HIDE DEF All
  <2> QED BY <1>1, <1>2, FS_CardinalityType, FS_EmptySet
<1>4. list \in Seq(Actions) /\ list # <<>>
  <2>1. CASE list \in SetToSeqs(All)
    <3>1. list \in [1..Cardinality(All) -> Actions]
      BY <2>1, <1>1 DEF SetToSeqs
    <3> HIDE DEF All
    <3>2. DOMAIN list = 1..Cardinality(All) /\ 1 \in 1..Cardinality(All)
      BY <3>1, <1>3
    <3>3. list \in Seq(Actions)
      BY <3>1, <1>3, IsASeq
    <3>4. DOMAIN <<>> = {}
      OBVIOUS
    <3> QED BY <3>2, <3>3, <3>4
  <2>2. CASE list \in {<<a>> : a \in Actions}
    <3>1. PICK a \in Actions : list = <<a>>
      BY <2>2
    <3> QED BY <3>1
  <2> QED BY <2>1, <2>2
<1>5. DOMAIN list = 1..Len(list) /\ \A i \in 1..Len(list) : list[i] \in Actions
  BY <1>4, LenProperties, ElementOfSeq
<1> QED BY <1>4, <1>5 DEF Range

-----------------------------------------------------------------------------
(* The steps that every handler takes at the end of an action.             *)

(* The action under way.                                                   *)
LEMMA CurrentIsAction ==
  ASSUME AppTypeOK, HasAction, NEW d \in Deliveries, handling[d] \in Working \cup {"token"}
  PROVE  /\ actions[d] \in Seq(Actions) /\ actions[d] # <<>>
         /\ Current(d) \in Actions /\ Tail(actions[d]) \in Seq(Actions)
         /\ Range(actions[d]) = {Current(d)} \cup Range(Tail(actions[d]))
<1>1. actions[d] \in Seq(Actions) /\ actions[d] # <<>>
  BY DEF AppTypeOK, HasAction
<1> QED BY <1>1, RangeTail DEF Current

(* The issues of a repository only ever grow, by one of the given finding. *)
LEMMA IssuesGrow ==
  ASSUME AppTypeOK, NEW a \in Actions,
         issues' = [issues EXCEPT ![a.repo] = Append(@, a.finding)]
  PROVE  /\ issues' \in [Repos -> Seq(Findings \cup {Setup})]
         /\ \A r \in Repos : Len(issues[r]) \in Nat /\ DOMAIN issues[r] = 1..Len(issues[r])
         /\ \A r \in Repos : DOMAIN issues'[r] = 1..Len(issues'[r])
         /\ Len(issues'[a.repo]) = Len(issues[a.repo]) + 1
         /\ issues'[a.repo][Len(issues[a.repo]) + 1] = a.finding
         /\ \A r \in Repos \ {a.repo} : issues'[r] = issues[r]
         /\ \A r \in Repos : \A n \in DOMAIN issues[r] : issues'[r][n] = issues[r][n]
         /\ \A r \in Repos : Len(issues[r]) <= Len(issues'[r])
<1>1. a.repo \in Repos /\ a.finding \in Findings \cup {Setup}
  BY DEF Actions
<1>2. \A r \in Repos : /\ issues[r] \in Seq(Findings \cup {Setup})
                       /\ Len(issues[r]) \in Nat /\ DOMAIN issues[r] = 1..Len(issues[r])
  BY LenProperties DEF AppTypeOK
<1>3. issues'[a.repo] = Append(issues[a.repo], a.finding)
  BY <1>1 DEF AppTypeOK
<1>4. /\ issues'[a.repo] \in Seq(Findings \cup {Setup})
      /\ Len(issues'[a.repo]) = Len(issues[a.repo]) + 1
      /\ \A i \in 1..Len(issues[a.repo]) : issues'[a.repo][i] = issues[a.repo][i]
      /\ issues'[a.repo][Len(issues[a.repo]) + 1] = a.finding
  BY <1>1, <1>2, <1>3, AppendProperties
<1>5. \A r \in Repos \ {a.repo} : issues'[r] = issues[r]
  BY DEF AppTypeOK
<1>6. issues' \in [Repos -> Seq(Findings \cup {Setup})]
  BY <1>1, <1>2, <1>4 DEF AppTypeOK
<1>7. \A r \in Repos : DOMAIN issues'[r] = 1..Len(issues'[r])
  BY <1>6, LenProperties
<1> QED BY <1>1, <1>2, <1>4, <1>5, <1>6, <1>7

Others(d) ==
  \A e \in Deliveries \ {d} :
    /\ handling'[e] = handling[e] /\ actions'[e] = actions[e] /\ found'[e] = found[e]
    /\ outcomes'[e] = outcomes[e] /\ unowned'[e] = unowned[e]

(* A handler that reports an outcome and goes on, or throws.               *)
LEMMA HandlerGoesOn ==
  ASSUME AppInv, NEW d \in Deliveries, handling[d] \in Working,
         (\E published \in BOOLEAN : Reports(d, published)) \/ Throws(d),
         UNCHANGED <<enabled, marker, asked>>
  PROVE  /\ handling' \in [Deliveries -> AppSteps]
         /\ actions' \in [Deliveries -> Seq(Actions)]
         /\ found' \in [Deliveries -> Nat]
         /\ outcomes' \in [Deliveries -> SUBSET Outcomes]
         /\ unowned' \in [Deliveries -> SUBSET Repos]
         /\ handling'[d] \in {"owner", "done", "error"}
         /\ Others(d)
         /\ HasAction' /\ KnowsOwner' /\ Accounted'
<1> USE DEF AppInv
<1>c. /\ actions[d] \in Seq(Actions) /\ actions[d] # <<>>
      /\ Current(d) \in Actions /\ Tail(actions[d]) \in Seq(Actions)
      /\ Range(actions[d]) = {Current(d)} \cup Range(Tail(actions[d]))
  BY CurrentIsAction
<1>1. ASSUME NEW published \in BOOLEAN, Reports(d, published)
      PROVE  /\ outcomes'[d] = outcomes[d]
                   \cup {[action |-> Current(d), published |-> published]}
             /\ actions'[d] = Tail(actions[d])
             /\ \/ handling'[d] = "done" /\ Tail(actions[d]) = <<>>
                \/ /\ handling'[d] = "owner" /\ Tail(actions[d]) # <<>>
                   /\ unowned'[d] = unowned[d]
             /\ Others(d)
             /\ handling' \in [Deliveries -> AppSteps]
             /\ actions' \in [Deliveries -> Seq(Actions)]
             /\ found' \in [Deliveries -> Nat]
             /\ unowned' \in [Deliveries -> SUBSET Repos]
             /\ outcomes' \in [Deliveries -> SUBSET Outcomes]
  <2> USE <1>c, <1>1 DEF Reports, Ends, Handles, AppTypeOK, AppSteps, Others
  <2>1. [action |-> Current(d), published |-> published] \in Outcomes
    BY DEF Outcomes
  <2>2. outcomes' \in [Deliveries -> SUBSET Outcomes]
    BY <2>1
  <2>3. /\ outcomes'[d] = outcomes[d]
             \cup {[action |-> Current(d), published |-> published]}
        /\ actions'[d] = Tail(actions[d])
        /\ actions' \in [Deliveries -> Seq(Actions)]
        /\ found' \in [Deliveries -> Nat]
    OBVIOUS
  <2>4. CASE Tail(actions[d]) = <<>>
    BY <2>2, <2>3, <2>4
  <2>5. CASE Tail(actions[d]) # <<>>
    BY <2>2, <2>3, <2>5
  <2> QED BY <2>4, <2>5
<1>2. ASSUME Throws(d)
      PROVE  /\ handling'[d] = "error" /\ actions'[d] = <<>> /\ outcomes' = outcomes
             /\ Others(d)
             /\ handling' \in [Deliveries -> AppSteps]
             /\ actions' \in [Deliveries -> Seq(Actions)]
             /\ found' \in [Deliveries -> Nat]
             /\ unowned' \in [Deliveries -> SUBSET Repos]
  BY <1>2 DEF Throws, Ends, Handles, AppTypeOK, AppSteps, Others
<1>3. CASE \E published \in BOOLEAN : Reports(d, published)
  <2>1. PICK published \in BOOLEAN : Reports(d, published)
    BY <1>3
  <2>2. HasAction'
    BY <2>1, <1>1 DEF HasAction, Others, Working
  <2>3. KnowsOwner'
    BY <2>1, <1>1 DEF KnowsOwner, Others, Working, Open, Unmarked, Current
  <2>4. {o.action : o \in outcomes'[d]} = {o.action : o \in outcomes[d]} \cup {Current(d)}
    <3> DEFINE new == [action |-> Current(d), published |-> published]
    <3>1. new.action = Current(d)
      OBVIOUS
    <3>2. outcomes'[d] = outcomes[d] \cup {new}
      BY <2>1, <1>1
    <3> HIDE DEF new
    <3> QED BY <3>1, <3>2
  <2>5. Range(<<>>) = {}
    BY DEF Range
  <2>6. {o.action : o \in outcomes'[d]} \cup Range(actions'[d]) = asked[d]
    BY <2>1, <2>4, <1>1, <1>c DEF Accounted
  <2>7. Accounted'
    BY <2>1, <2>5, <2>6, <1>1 DEF Accounted, Others, Working
  <2> QED BY <2>1, <2>2, <2>3, <2>7, <1>1
<1>4. CASE Throws(d)
  <2>1. HasAction' /\ KnowsOwner'
    BY <1>2, <1>4 DEF HasAction, KnowsOwner, Others, Working, Open, Unmarked, Current
  <2>2. Accounted'
    BY <1>2, <1>4 DEF Accounted, Others, Working
  <2> QED BY <2>1, <2>2, <1>2, <1>4 DEF AppTypeOK
<1> QED BY <1>3, <1>4

(* What is reported as published is so of the action under way.            *)
LEMMA ReportsOutcome ==
  ASSUME AppInv, NEW d \in Deliveries, handling[d] \in Working,
         NEW published \in BOOLEAN, Reports(d, published)
  PROVE  \A e \in Deliveries : \A o \in outcomes'[e] :
           o.published => o \in outcomes[e] \/ (published /\ o.action = Current(d))
<1> DEFINE new == [action |-> Current(d), published |-> published]
<1>1. outcomes' = [outcomes EXCEPT ![d] = @ \cup {new}]
  BY DEF Reports
<1>2. new.published = published /\ new.action = Current(d)
  OBVIOUS
<1> HIDE DEF new
<1>3. ASSUME NEW e \in Deliveries, NEW o \in outcomes'[e], o.published, o \notin outcomes[e]
      PROVE  published /\ o.action = Current(d)
  <2>1. o = new
    BY <1>1, <1>3 DEF AppInv, AppTypeOK
  <2> QED BY <2>1, <1>2, <1>3
<1> QED BY <1>3

(* A handler that is not about to write disturbs none that is.             *)
LEMMA OtherWriters ==
  ASSUME AppInv, NEW d \in Deliveries, Others(d), handling'[d] # "write",
         issues' = issues, tangled \subseteq tangled'
  PROVE  /\ FoundNothing' /\ OneIssue'
         /\ \A e \in Deliveries : handling'[e] = "write" /\ found'[e] # 0 =>
              About(Current(e).repo, found[e], Current(e).finding)'
<1> USE DEF AppInv
<1>1. \A a : Matches(a)' = Matches(a)
  BY DEF Matches, Listed
<1>2. \A e \in Deliveries : handling'[e] = "write" =>
        e # d /\ handling[e] = "write" /\ Current(e)' = Current(e) /\ found'[e] = found[e]
  BY DEF Others, Current
<1>3. FoundNothing'
  BY <1>1, <1>2 DEF FoundNothing
<1>4. OneIssue'
  BY DEF OneIssue
<1> QED BY <1>2, <1>3, <1>4 DEF IsThere, About

-----------------------------------------------------------------------------
(* Each action keeps the invariant.                                        *)

LEMMA ReceivesKeeps == ASSUME AppInv, NEW d \in Deliveries, Receives(d) PROVE AppInv'
<1> USE DEF AppInv, Receives, Handles
<1>0. PICK list \in SetToSeqs({[repo |-> r, finding |-> Setup] : r \in Repos})
                     \cup {<<a>> : a \in Actions} :
        /\ actions' = [actions EXCEPT ![d] = list]
        /\ asked' = [asked EXCEPT ![d] = Range(list)]
  OBVIOUS
<1>l. list \in Seq(Actions) /\ list # <<>> /\ Range(list) \subseteq Actions
  BY ListOfActions
<1>t. AppTypeOK'
  BY <1>0, <1>l DEF AppTypeOK, AppSteps, Unmarked
<1>o. Others(d) /\ \A e \in Deliveries \ {d} : asked'[e] = asked[e]
  BY <1>0 DEF Others, AppTypeOK
<1>d. /\ handling'[d] = "token" /\ actions'[d] = list /\ asked'[d] = Range(list)
      /\ outcomes' = outcomes /\ unowned'[d] = Unmarked
  BY <1>0 DEF AppTypeOK
<1>1. HasAction' BY <1>d, <1>o, <1>l DEF HasAction, Others, Working
<1>2. KnowsOwner'
  BY <1>d, <1>o DEF KnowsOwner, Others, Open, Unmarked, Current
<1>3. Accounted'
  BY <1>d, <1>o DEF Accounted, Others, Working
<1>4. /\ FoundNothing' /\ OneIssue'
      /\ \A e \in Deliveries : handling'[e] = "write" /\ found'[e] # 0 =>
           About(Current(e).repo, found[e], Current(e).finding)'
  BY <1>d, <1>o, OtherWriters
<1>5. IsThere'
  BY <1>d, <1>4 DEF IsThere, About
<1> QED BY <1>t, <1>1, <1>2, <1>3, <1>4, <1>5

LEMMA GetsTokenKeeps == ASSUME AppInv, NEW d \in Deliveries, GetsToken(d) PROVE AppInv'
<1> USE DEF AppInv
<1>c. actions[d] \in Seq(Actions) /\ handling[d] = "token"
  BY DEF AppTypeOK, GetsToken
<1>r. Range(actions[d]) \subseteq Actions /\ Range(actions[d]) = asked[d] /\ outcomes[d] = {}
  <2>1. {o.action : o \in outcomes[d]} \cup Range(actions[d]) = asked[d] /\ outcomes[d] = {}
    BY <1>c DEF Accounted
  <2> QED BY <2>1 DEF AppTypeOK
<1>e. UNCHANGED <<enabled, issues, marker, asked, tangled>>
  BY DEF GetsToken
<1>1. CASE enabled /\ Handles(d, "owner") /\ UNCHANGED <<actions, found, outcomes, unowned>>
  <2> USE <1>1, <1>e DEF Handles
  <2>t. AppTypeOK' BY DEF AppTypeOK, AppSteps
  <2>d. handling'[d] = "owner" /\ \A e \in Deliveries \ {d} : handling'[e] = handling[e]
    BY DEF AppTypeOK
  <2>1. HasAction' BY <2>d, <1>c DEF HasAction, Working
  <2>2. KnowsOwner' BY <2>d, <1>c DEF KnowsOwner, Open, Unmarked, Current
  <2>3. Accounted' BY <2>d, <1>r, <1>c DEF Accounted, Working
  <2>4. IsThere' /\ OneIssue' BY <2>d DEF IsThere, OneIssue, About, Current
  <2>5. FoundNothing' BY <2>d DEF FoundNothing, Matches, Listed, Current
  <2> QED BY <2>t, <2>1, <2>2, <2>3, <2>4, <2>5
<1>2. CASE /\ outcomes' = [outcomes EXCEPT
                 ![d] = [action : Range(actions[d]), published : {FALSE}]]
           /\ actions' = [actions EXCEPT ![d] = <<>>]
           /\ Ends(d, "done")
           /\ UNCHANGED found
  <2> DEFINE none == [action : Range(actions[d]), published : {FALSE}]
  <2>n. none \subseteq Outcomes /\ \A o \in none : ~o.published
    BY <1>r DEF Outcomes
  <2>a. {o.action : o \in none} = asked[d]
    <3>1. \A a \in Range(actions[d]) :
            /\ [action |-> a, published |-> FALSE] \in none
            /\ [action |-> a, published |-> FALSE].action = a
      OBVIOUS
    <3>2. \A o \in none : o.action \in Range(actions[d])
      OBVIOUS
    <3> HIDE DEF none
    <3> QED BY <3>1, <3>2, <1>r
  <2>o. outcomes' = [outcomes EXCEPT ![d] = none]
    BY <1>2
  <2> HIDE DEF none
  <2> USE <1>e DEF Ends, Handles
  <2>t. AppTypeOK'
    <3>1. <<>> \in Seq(Actions)
      OBVIOUS
    <3>2. actions' \in [Deliveries -> Seq(Actions)]
      BY <3>1, <1>2 DEF AppTypeOK
    <3>3. outcomes' \in [Deliveries -> SUBSET Outcomes]
      BY <2>o, <2>n DEF AppTypeOK
    <3> QED BY <1>2, <3>2, <3>3 DEF AppTypeOK, AppSteps
  <2>d. /\ handling'[d] = "done" /\ Others(d)
        /\ outcomes'[d] = none
    BY <1>2, <2>o DEF AppTypeOK, Others
  <2>1. HasAction' BY <2>d DEF HasAction, Working, Others
  <2>2. KnowsOwner' BY <2>d DEF KnowsOwner, Open, Unmarked, Current, Others
  <2>3. Accounted' BY <2>d, <2>a DEF Accounted, Working, Others
  <2>4. /\ FoundNothing' /\ OneIssue'
        /\ \A e \in Deliveries : handling'[e] = "write" /\ found'[e] # 0 =>
             About(Current(e).repo, found[e], Current(e).finding)'
    BY <2>d, OtherWriters
  <2>5. IsThere'
    BY <2>d, <2>n, <2>4 DEF IsThere, About, Others
  <2> QED BY <2>t, <2>1, <2>2, <2>3, <2>4, <2>5
<1>3. CASE Throws(d)
  <2>d. /\ handling'[d] = "error" /\ Others(d) /\ outcomes' = outcomes
    BY <1>3 DEF AppTypeOK, Others, Throws, Ends, Handles
  <2>t. AppTypeOK'
    BY <1>3, <1>e DEF AppTypeOK, AppSteps, Throws, Ends, Handles
  <2>1. HasAction' BY <2>d DEF HasAction, Working, Others
  <2>2. KnowsOwner' BY <2>d, <1>e DEF KnowsOwner, Open, Unmarked, Current, Others
  <2>3. Accounted' BY <2>d, <1>e DEF Accounted, Working, Others
  <2>4. /\ FoundNothing' /\ OneIssue'
        /\ \A e \in Deliveries : handling'[e] = "write" /\ found'[e] # 0 =>
             About(Current(e).repo, found[e], Current(e).finding)'
    BY <2>d, <1>e, OtherWriters
  <2>5. IsThere'
    BY <2>d, <2>4, <1>e DEF IsThere, About, Others
  <2> QED BY <2>t, <2>1, <2>2, <2>3, <2>4, <2>5
<1> QED BY <1>1, <1>2, <1>3 DEF GetsToken

LEMMA ChecksOwnerKeeps == ASSUME AppInv, NEW d \in Deliveries, ChecksOwner(d) PROVE AppInv'
<1> USE DEF AppInv
<1>h. handling[d] = "owner" /\ UNCHANGED <<enabled, issues, marker, asked, tangled>>
  BY DEF ChecksOwner
<1>1. CASE /\ Current(d).repo \notin marker
           /\ Handles(d, "search")
           /\ UNCHANGED <<actions, found, outcomes, unowned>>
  <2> USE <1>1, <1>h DEF Handles
  <2>t. AppTypeOK' BY DEF AppTypeOK, AppSteps
  <2>d. handling'[d] = "search" /\ \A e \in Deliveries \ {d} : handling'[e] = handling[e]
    BY DEF AppTypeOK
  <2>1. HasAction' BY <2>d DEF HasAction, Working
  <2>2. KnowsOwner'
    <3>1. Current(d).repo \in Unmarked
      BY CurrentIsAction DEF Unmarked, Actions, Working
    <3> QED BY <2>d, <3>1 DEF KnowsOwner, Open, Unmarked, Current
  <2>3. Accounted' BY <2>d DEF Accounted, Working
  <2>4. IsThere' /\ OneIssue' BY <2>d DEF IsThere, OneIssue, About, Current
  <2>5. FoundNothing' BY <2>d DEF FoundNothing, Matches, Listed, Current
  <2> QED BY <2>t, <2>1, <2>2, <2>3, <2>4, <2>5
<1>2. CASE Reports(d, FALSE)
  <2>1. /\ handling' \in [Deliveries -> AppSteps]
        /\ actions' \in [Deliveries -> Seq(Actions)]
        /\ found' \in [Deliveries -> Nat]
        /\ outcomes' \in [Deliveries -> SUBSET Outcomes]
        /\ unowned' \in [Deliveries -> SUBSET Repos]
        /\ handling'[d] \in {"owner", "done", "error"}
        /\ Others(d)
        /\ HasAction' /\ KnowsOwner' /\ Accounted'
    BY <1>h, <1>2, HandlerGoesOn DEF Working
  <2>2. AppTypeOK' BY <2>1, <1>h DEF AppTypeOK
  <2>3. /\ FoundNothing' /\ OneIssue'
        /\ \A e \in Deliveries : handling'[e] = "write" /\ found'[e] # 0 =>
             About(Current(e).repo, found[e], Current(e).finding)'
    BY <2>1, <1>h, OtherWriters
  <2>4. IsThere'
    BY <2>1, <2>3, <1>h, <1>2, ReportsOutcome DEF IsThere, About, Working
  <2> QED BY <2>1, <2>2, <2>3, <2>4
<1> QED BY <1>1, <1>2 DEF ChecksOwner

LEMMA SearchesKeeps == ASSUME AppInv, NEW d \in Deliveries, Searches(d) PROVE AppInv'
<1> USE DEF AppInv
<1>h. handling[d] = "search" /\ UNCHANGED <<enabled, issues, marker, asked>>
  BY DEF Searches
<1>1. CASE /\ found' = [found EXCEPT ![d] = Finds(Current(d))]
           /\ Handles(d, "write")
           /\ tangled' = tangled \cup {a \in {Current(d)} : SameSearch(d) # {}}
           /\ UNCHANGED <<actions, outcomes, unowned>>
  <2> USE <1>h DEF Handles
  <2>c. Current(d) \in Actions
    BY CurrentIsAction DEF Working
  <2>f. /\ Finds(Current(d)) \in Nat
        /\ Finds(Current(d)) # 0 =>
             About(Current(d).repo, Finds(Current(d)), Current(d).finding)
        /\ Finds(Current(d)) = 0 => Matches(Current(d)) = {}
    BY <2>c, FindsIssue
  <2>t. AppTypeOK' BY <1>1, <2>c, <2>f DEF AppTypeOK, AppSteps
  <2>d. /\ handling'[d] = "write" /\ found'[d] = Finds(Current(d))
        /\ \A e \in Deliveries \ {d} : handling'[e] = handling[e] /\ found'[e] = found[e]
    BY <1>1 DEF AppTypeOK
  <2>k. \A e \in Deliveries : Current(e)' = Current(e)
    BY <1>1 DEF Current
  <2>1. HasAction' BY <2>d, <1>1 DEF HasAction, Working
  <2>2. KnowsOwner' BY <2>d, <2>k, <1>1 DEF KnowsOwner, Open, Unmarked
  <2>3. Accounted' BY <2>d, <1>1 DEF Accounted, Working
  <2>4. IsThere' /\ OneIssue'
    BY <2>d, <2>k, <2>f, <1>1 DEF IsThere, OneIssue, About
  <2>5. FoundNothing'
    <3>1. \A a : Matches(a)' = Matches(a)
      BY DEF Matches, Listed
    <3>2. ASSUME NEW e \in Deliveries, e # d, handling[e] = "write", Current(e) = Current(d)
          PROVE  Current(d) \in tangled'
      <4>1. e \in SameSearch(d)
        BY <3>2 DEF SameSearch
      <4> QED BY <4>1, <1>1
    <3> QED BY <3>1, <3>2, <2>d, <2>k, <2>f, <1>1 DEF FoundNothing
  <2> QED BY <2>t, <2>1, <2>2, <2>3, <2>4, <2>5
<1>2. CASE (Reports(d, FALSE) \/ Throws(d)) /\ UNCHANGED tangled
  <2>1. /\ handling' \in [Deliveries -> AppSteps]
        /\ actions' \in [Deliveries -> Seq(Actions)]
        /\ found' \in [Deliveries -> Nat]
        /\ outcomes' \in [Deliveries -> SUBSET Outcomes]
        /\ unowned' \in [Deliveries -> SUBSET Repos]
        /\ handling'[d] \in {"owner", "done", "error"}
        /\ Others(d)
        /\ HasAction' /\ KnowsOwner' /\ Accounted'
    BY <1>h, <1>2, HandlerGoesOn DEF Working
  <2>2. AppTypeOK' BY <2>1, <1>h, <1>2 DEF AppTypeOK
  <2>3. /\ FoundNothing' /\ OneIssue'
        /\ \A e \in Deliveries : handling'[e] = "write" /\ found'[e] # 0 =>
             About(Current(e).repo, found[e], Current(e).finding)'
    BY <2>1, <1>h, <1>2, OtherWriters
  <2>4. \A e \in Deliveries : \A o \in outcomes'[e] : o.published => o \in outcomes[e]
    BY <1>h, <1>2, ReportsOutcome DEF Working, Throws
  <2>5. IsThere'
    BY <2>3, <2>4, <1>h DEF IsThere, About
  <2> QED BY <2>1, <2>2, <2>3, <2>5
<1> QED BY <1>1, <1>2 DEF Searches

LEMMA WritesIssueKeeps == ASSUME AppInv, NEW d \in Deliveries, WritesIssue(d) PROVE AppInv'
<1> USE DEF AppInv
<1> DEFINE a == Current(d)
<1>h. handling[d] = "write" /\ UNCHANGED <<enabled, marker, asked, tangled>>
  BY DEF WritesIssue
<1>s. (\E published \in BOOLEAN : Reports(d, published)) \/ Throws(d)
  BY DEF WritesIssue
<1>c. a \in Actions
  BY <1>h, CurrentIsAction DEF Working
<1>1. /\ handling' \in [Deliveries -> AppSteps]
      /\ actions' \in [Deliveries -> Seq(Actions)]
      /\ found' \in [Deliveries -> Nat]
      /\ outcomes' \in [Deliveries -> SUBSET Outcomes]
      /\ unowned' \in [Deliveries -> SUBSET Repos]
      /\ handling'[d] \in {"owner", "done", "error"}
      /\ Others(d)
      /\ HasAction' /\ KnowsOwner' /\ Accounted'
  BY <1>h, <1>s, HandlerGoesOn DEF Working
<1>2. CASE (Reports(d, FALSE) \/ Throws(d)) /\ issues' = issues
  <2>2. AppTypeOK' BY <1>1, <1>h, <1>2 DEF AppTypeOK
  <2>3. /\ FoundNothing' /\ OneIssue'
        /\ \A e \in Deliveries : handling'[e] = "write" /\ found'[e] # 0 =>
             About(Current(e).repo, found[e], Current(e).finding)'
    BY <1>1, <1>h, <1>2, OtherWriters
  <2>4. \A e \in Deliveries : \A o \in outcomes'[e] : o.published => o \in outcomes[e]
    BY <1>h, <1>2, ReportsOutcome DEF Working, Throws
  <2>5. IsThere'
    BY <2>3, <2>4, <1>2 DEF IsThere, About
  <2> QED BY <1>1, <2>2, <2>3, <2>5
<1>3. CASE Reports(d, TRUE) /\ found[d] # 0 /\ issues' = issues
  <2>2. AppTypeOK' BY <1>1, <1>h, <1>3 DEF AppTypeOK
  <2>3. /\ FoundNothing' /\ OneIssue'
        /\ \A e \in Deliveries : handling'[e] = "write" /\ found'[e] # 0 =>
             About(Current(e).repo, found[e], Current(e).finding)'
    BY <1>1, <1>h, <1>3, OtherWriters
  <2>4. \A e \in Deliveries : \A o \in outcomes'[e] :
          o.published => o \in outcomes[e] \/ o.action = a
    BY <1>h, <1>3, ReportsOutcome DEF Working
  <2>5. found[d] \in Nat /\ About(a.repo, found[d], a.finding)
    BY <1>h, <1>3 DEF IsThere, AppTypeOK
  <2>6. IsThere'
    BY <2>3, <2>4, <2>5, <1>3 DEF IsThere, About
  <2> QED BY <1>1, <2>2, <2>3, <2>6
<1>4. CASE /\ Reports(d, TRUE) \/ Throws(d)
           /\ found[d] = 0
           /\ issues' = [issues EXCEPT ![a.repo] = Append(@, a.finding)]
  <2>g. /\ issues' \in [Repos -> Seq(Findings \cup {Setup})]
        /\ \A r \in Repos : Len(issues[r]) \in Nat /\ DOMAIN issues[r] = 1..Len(issues[r])
        /\ \A r \in Repos : DOMAIN issues'[r] = 1..Len(issues'[r])
        /\ Len(issues'[a.repo]) = Len(issues[a.repo]) + 1
        /\ issues'[a.repo][Len(issues[a.repo]) + 1] = a.finding
        /\ \A r \in Repos \ {a.repo} : issues'[r] = issues[r]
        /\ \A r \in Repos : \A n \in DOMAIN issues[r] : issues'[r][n] = issues[r][n]
        /\ \A r \in Repos : Len(issues[r]) <= Len(issues'[r])
    BY <1>c, <1>4, IssuesGrow
  <2>r. a.repo \in Repos /\ \A b \in Actions : b.repo = a.repo /\ b.finding = a.finding => b = a
    BY <1>c DEF Actions
  <2>p. Page \in Nat \ {0}
    BY AppAssumption
  <2>t. AppTypeOK' BY <1>1, <1>h, <2>g DEF AppTypeOK
  <2>w. ASSUME NEW e \in Deliveries, handling'[e] = "write"
        PROVE  /\ e # d /\ handling[e] = "write" /\ found'[e] = found[e]
               /\ Current(e)' = Current(e) /\ Current(e) \in Actions
    <3>1. e # d /\ handling[e] = "write" /\ found'[e] = found[e] /\ Current(e)' = Current(e)
      BY <1>1, <2>w DEF Others, Current
    <3> QED BY <3>1, CurrentIsAction DEF Working
  <2>n. ASSUME NEW r \in Repos, NEW n, NEW f, About(r, n, f) PROVE About(r, n, f)'
    BY <2>n, <2>g DEF About
  <2>1. IsThere'
    <3>1. \A e \in Deliveries : \A o \in outcomes'[e] :
            o.published => o \in outcomes[e] \/ o.action = a
      BY <1>h, <1>4, ReportsOutcome DEF Working, Throws
    <3>2. PICK i \in Nat :
            i \in DOMAIN issues'[a.repo] /\ issues'[a.repo][i] = a.finding
      <4>1. Len(issues[a.repo]) + 1 \in 1..Len(issues'[a.repo])
        BY <2>g, <2>r
      <4> QED BY <4>1, <2>g, <2>r
    <3>3. ASSUME NEW e \in Deliveries, NEW o \in outcomes'[e], o.published
          PROVE  \E n \in Nat : About(o.action.repo, n, o.action.finding)'
      <4>1. CASE o.action = a
        BY <4>1, <3>2 DEF About
      <4>2. CASE o \in outcomes[e]
        <5>1. o.action.repo \in Repos
          BY <4>2 DEF AppTypeOK, Outcomes, Actions
        <5>2. PICK n \in Nat : About(o.action.repo, n, o.action.finding)
          BY <4>2, <3>3 DEF IsThere
        <5> QED BY <5>1, <5>2, <2>n
      <4> QED BY <3>1, <3>3, <4>1, <4>2
    <3>4. ASSUME NEW e \in Deliveries, handling'[e] = "write", found'[e] # 0
          PROVE  About(Current(e).repo, found[e], Current(e).finding)'
      <4>1. About(Current(e).repo, found[e], Current(e).finding)
        BY <2>w, <3>4 DEF IsThere
      <4>2. Current(e).repo \in Repos
        BY <2>w, <3>4 DEF Actions
      <4> QED BY <4>1, <4>2, <2>g, <2>w, <3>4 DEF About
    <3> QED BY <3>3, <3>4 DEF IsThere, About
  <2>2. FoundNothing'
    <3>1. ASSUME NEW e \in Deliveries, handling'[e] = "write", Current(e) \notin tangled
          PROVE  Current(e) # a
      BY <3>1, <2>w, <1>h DEF FoundNothing
    <3>2. ASSUME NEW b \in Actions, b # a, Matches(b) = {} PROVE Matches(b)' = {}
      <4>1. b.repo \in Repos
        BY DEF Actions
      <4>2. ASSUME NEW n \in Matches(b)' PROVE FALSE
        <5>1. /\ n \in DOMAIN issues'[b.repo] /\ n > Len(issues'[b.repo]) - Page
              /\ issues'[b.repo][n] = b.finding
          BY <4>2 DEF Matches, Listed
        <5>2. CASE n \in DOMAIN issues[b.repo]
          <6>1. n > Len(issues[b.repo]) - Page /\ issues[b.repo][n] = b.finding
            BY <5>1, <5>2, <4>1, <2>g, <2>p
          <6> QED BY <6>1, <5>2, <3>2 DEF Matches, Listed
        <5>3. CASE n \notin DOMAIN issues[b.repo]
          <6>1. b.repo = a.repo /\ n = Len(issues[a.repo]) + 1
            BY <5>1, <5>3, <4>1, <2>g
          <6> QED BY <6>1, <5>1, <2>g, <2>r, <3>2
        <5> QED BY <5>2, <5>3
      <4> QED BY <4>2
    <3>3. ASSUME NEW e \in Deliveries, handling'[e] = "write", Current(e) \notin tangled,
                 found[e] = 0
          PROVE  Matches(Current(e))' = {}
      <4>1. Matches(Current(e)) = {}
        BY <3>3, <2>w DEF FoundNothing
      <4>2. \A b \in Actions : b = Current(e) => Matches(b)' = {}
        BY <3>1, <3>2, <3>3, <4>1
      <4> QED BY <4>2, <2>w, <3>3 DEF Matches, Listed
    <3> QED BY <3>3, <2>w, <1>h DEF FoundNothing
  <2>3. OneIssue'
    <3> SUFFICES ASSUME NEW b \in Actions \ tangled',
                        NEW i \in DOMAIN issues'[b.repo], NEW j \in DOMAIN issues'[b.repo],
                        i < j, issues'[b.repo][i] = b.finding, issues'[b.repo][j] = b.finding
                 PROVE  j - i > Page
      BY DEF OneIssue
    <3>1. b.repo \in Repos /\ b \notin tangled
      BY <1>h DEF Actions
    <3>2. CASE j \in DOMAIN issues[b.repo]
      <4>1. i \in DOMAIN issues[b.repo]
        BY <3>1, <3>2, <2>g
      <4>2. issues[b.repo][i] = b.finding /\ issues[b.repo][j] = b.finding
        BY <3>1, <3>2, <4>1, <2>g
      <4> QED BY <3>1, <3>2, <4>1, <4>2 DEF OneIssue
    <3>3. CASE j \notin DOMAIN issues[b.repo]
      <4>1. b = a /\ j = Len(issues[a.repo]) + 1 /\ i \in DOMAIN issues[a.repo]
        BY <3>1, <3>3, <2>g, <2>r
      <4>2. Matches(a) = {}
        BY <4>1, <3>1, <1>h, <1>4 DEF FoundNothing
      <4>3. ~(i > Len(issues[a.repo]) - Page)
        BY <4>1, <4>2, <2>g, <2>r DEF Matches, Listed
      <4> QED BY <4>1, <4>3, <2>g, <2>r, <2>p
    <3> QED BY <3>2, <3>3
  <2> QED BY <1>1, <2>t, <2>1, <2>2, <2>3
<1> QED BY <1>2, <1>3, <1>4 DEF WritesIssue, Writes

LEMMA MarkerKeeps ==
  ASSUME AppInv, NEW r \in Repos, MarkerComes(r) \/ MarkerGoes(r) PROVE AppInv'
<1> USE DEF AppInv
<1>1. UNCHANGED <<enabled, handling, actions, found, outcomes, issues, asked, tangled>>
  BY DEF MarkerComes, MarkerGoes
<1>t. AppTypeOK'
  BY DEF AppTypeOK, MarkerComes, MarkerGoes
<1>2. KnowsOwner'
  <2>1. CASE MarkerComes(r)
    BY <2>1, <1>1 DEF MarkerComes, KnowsOwner, Open, Unmarked, Current
  <2>2. CASE MarkerGoes(r)
    BY <2>2, <1>1 DEF MarkerGoes, KnowsOwner, Open, Unmarked, Current, AppTypeOK
  <2> QED BY <2>1, <2>2
<1>3. HasAction' /\ Accounted'
  BY <1>1 DEF HasAction, Accounted
<1>4. IsThere' /\ OneIssue'
  BY <1>1 DEF IsThere, OneIssue, About, Current
<1>5. FoundNothing'
  BY <1>1 DEF FoundNothing, Matches, Listed, Current
<1> QED BY <1>t, <1>2, <1>3, <1>4, <1>5

(* The issues there may be at first are without a double.                  *)
LEMMA IssuesAtFirst ==
  ASSUME NEW F \in SUBSET (Findings \cup {Setup}), NEW s \in SetToSeqs(F)
  PROVE  /\ s \in Seq(Findings \cup {Setup})
         /\ \A i, j \in DOMAIN s : s[i] = s[j] => i = j
<1>1. Cardinality(F) \in Nat
  <2>1. IsFiniteSet({Setup})
    BY FS_Singleton
  <2>2. IsFiniteSet(Findings \cup {Setup})
    BY <2>1, AppAssumption, FS_Union
  <2> QED BY <2>2, FS_Subset, FS_CardinalityType
<1>2. s \in [1..Cardinality(F) -> Findings \cup {Setup}]
  BY DEF SetToSeqs
<1>3. \A i, j \in DOMAIN s : s[i] = s[j] => i = j
  BY <1>2 DEF SetToSeqs
<1> QED BY <1>1, <1>2, <1>3, IsASeq

LEMMA AppInitially == AppInit => AppInv
<1> SUFFICES ASSUME AppInit PROVE AppInv
  OBVIOUS
<1> USE DEF AppInit
<1>1. ASSUME NEW r \in Repos
      PROVE  /\ issues[r] \in Seq(Findings \cup {Setup})
             /\ \A i, j \in DOMAIN issues[r] : issues[r][i] = issues[r][j] => i = j
  <2>1. PICK F \in SUBSET (Findings \cup {Setup}) : issues[r] \in SetToSeqs(F)
    OBVIOUS
  <2> QED BY <2>1, IssuesAtFirst
<1>2. issues \in [Repos -> Seq(Findings \cup {Setup})]
  <2>1. DOMAIN issues = Repos /\ issues = [r \in Repos |-> issues[r]]
    OBVIOUS
  <2> QED BY <2>1, <1>1
<1>3. AppTypeOK
  <2>1. <<>> \in Seq(Actions)
    OBVIOUS
  <2>2. actions \in [Deliveries -> Seq(Actions)]
    BY <2>1
  <2> QED BY <1>2, <2>2 DEF AppTypeOK, AppSteps
<1>4. OneIssue
  BY <1>1, <1>2 DEF OneIssue, Actions
<1>5. HasAction /\ KnowsOwner /\ IsThere /\ FoundNothing
  BY DEF HasAction, KnowsOwner, IsThere, FoundNothing, Working, Open
<1>6. Accounted
  BY DEF Accounted, Working
<1> QED BY <1>3, <1>4, <1>5, <1>6 DEF AppInv

THEOREM AppInvariant == AppSpec => []AppInv
<1>1. AppInv /\ [AppNext]_appVars => AppInv'
  <2> SUFFICES ASSUME AppInv, [AppNext]_appVars PROVE AppInv'
    OBVIOUS
  <2>1. CASE UNCHANGED appVars
    <3>1. AppTypeOK' /\ HasAction' /\ Accounted'
      BY <2>1 DEF appVars, AppInv, AppTypeOK, HasAction, Accounted
    <3>2. KnowsOwner' /\ IsThere' /\ OneIssue'
      BY <2>1 DEF appVars, AppInv, KnowsOwner, IsThere, OneIssue, About, Open, Unmarked,
                  Current
    <3>3. FoundNothing'
      BY <2>1 DEF appVars, AppInv, FoundNothing, Matches, Listed, Current
    <3> QED BY <3>1, <3>2, <3>3 DEF AppInv
  <2>2. ASSUME NEW d \in Deliveries, DeliveryStep(d) PROVE AppInv'
    BY <2>2, ReceivesKeeps, GetsTokenKeeps, ChecksOwnerKeeps, SearchesKeeps,
       WritesIssueKeeps DEF DeliveryStep
  <2> QED BY <2>1, <2>2, MarkerKeeps DEF AppNext
<1> QED BY <1>1, AppInitially, PTL DEF AppSpec

-----------------------------------------------------------------------------
(* The state of the webhook server always has its type.                    *)
THEOREM AppTypes == AppSpec => []AppTypeOK
<1>1. AppInv => AppTypeOK BY DEF AppInv
<1> QED BY <1>1, AppInvariant, PTL

(* However deliveries overlap and calls fail, no finding gets a second     *)
(* issue but for two handlers that looked at once, or a page left behind.  *)
THEOREM FindingHasOneIssue == AppSpec => []OneIssue
<1>1. AppInv => OneIssue BY DEF AppInv
<1> QED BY <1>1, AppInvariant, PTL

(* No delivery touches an issue of a repository that Hive has owned for as *)
(* long as it was handled.                                                 *)
THEOREM OwnerIsRespected == AppSpec => []HiveRespected
<1>1. AppInv => HiveRespected BY DEF AppInv, KnowsOwner, HiveRespected
<1> QED BY <1>1, AppInvariant, PTL

(* Every action of an answered delivery has an outcome, and what is said   *)
(* to be published is there.                                               *)
THEOREM DeliveriesAnswered == AppSpec => []AllAnswered
<1>1. AppInv => AllAnswered BY DEF AppInv, Accounted, IsThere, About, AllAnswered
<1> QED BY <1>1, AppInvariant, PTL
=============================================================================
