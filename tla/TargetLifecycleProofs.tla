------------------------ MODULE TargetLifecycleProofs ------------------------
(***************************************************************************)
(* Proofs of the safety properties of TargetLifecycle, for any commands,   *)
(* targets and services.                                                   *)
(***************************************************************************)
EXTENDS TargetLifecycle, SequenceTheorems, TLAPS

-----------------------------------------------------------------------------
(* Facts about the sequences that commands keep.                           *)

LEMMA HeadAndTail ==
  ASSUME NEW S, NEW s \in Seq(S), s # <<>>
  PROVE  /\ Head(s) \in S /\ Tail(s) \in Seq(S)
         /\ Range(s) = {Head(s)} \cup Range(Tail(s))
         /\ IsInjective(s) => IsInjective(Tail(s)) /\ Head(s) \notin Range(Tail(s))
<1>1. Len(s) \in Nat \ {0} /\ DOMAIN s = 1..Len(s) /\ Head(s) = s[1]
  BY EmptySeq, LenProperties
<1>2. /\ Head(s) \in S /\ Tail(s) \in Seq(S) /\ Len(Tail(s)) = Len(s) - 1
      /\ \A i \in 1..Len(Tail(s)) : Tail(s)[i] = s[i + 1]
  BY HeadTailProperties
<1>3. DOMAIN Tail(s) = 1..(Len(s) - 1) /\ \A i \in 1..(Len(s) - 1) : i + 1 \in 1..Len(s)
  BY <1>1, <1>2, LenProperties
<1>4. ASSUME NEW x \in Range(s) PROVE x \in {Head(s)} \cup Range(Tail(s))
  <2>1. PICK i \in 1..Len(s) : x = s[i]
    BY <1>1, <1>4 DEF Range
  <2>2. CASE i = 1 BY <2>1, <2>2, <1>1
  <2>3. CASE i # 1
    <3>1. i - 1 \in 1..(Len(s) - 1) /\ Tail(s)[i - 1] = s[i]
      BY <2>1, <2>3, <1>1, <1>2
    <3> QED BY <3>1, <2>1, <1>3 DEF Range
  <2> QED BY <2>2, <2>3
<1>5. Range(Tail(s)) \subseteq Range(s) /\ Head(s) \in Range(s)
  BY <1>1, <1>2, <1>3 DEF Range
<1>6. ASSUME IsInjective(s) PROVE IsInjective(Tail(s)) /\ Head(s) \notin Range(Tail(s))
  <2>1. \A i, j \in 1..(Len(s) - 1) : s[i + 1] = s[j + 1] => i = j
    BY <1>1, <1>3, <1>6 DEF IsInjective
  <2>2. \A i \in 1..(Len(s) - 1) : s[i + 1] # s[1]
    BY <1>1, <1>3, <1>6 DEF IsInjective
  <2> QED BY <2>1, <2>2, <1>1, <1>2, <1>3 DEF IsInjective, Range
<1> QED BY <1>2, <1>4, <1>5, <1>6

LEMMA FrontAndLast ==
  ASSUME NEW S, NEW s \in Seq(S), s # <<>>
  PROVE  /\ Last(s) \in S /\ Front(s) \in Seq(S)
         /\ Range(s) = {Last(s)} \cup Range(Front(s))
         /\ IsInjective(s) => IsInjective(Front(s)) /\ Last(s) \notin Range(Front(s))
<1>1. Len(s) \in Nat \ {0} /\ DOMAIN s = 1..Len(s) /\ \A i \in 1..Len(s) : s[i] \in S
  BY EmptySeq, LenProperties, ElementOfSeq
<1>2. /\ Front(s) \in Seq(S) /\ Len(Front(s)) = Len(s) - 1
      /\ \A i \in 1..(Len(s) - 1) : Front(s)[i] = s[i]
  <2>1. 1 \in 1..(Len(s) + 1) /\ Len(s) - 1 \in 0..Len(s) /\ 1 <= (Len(s) - 1) + 1
    BY <1>1
  <2>2. IF 1 <= Len(s) - 1 THEN Len(s) - 1 - 1 + 1 = Len(s) - 1 ELSE Len(s) - 1 = 0
    BY <1>1
  <2>3. Front(s) = SubSeq(s, 1, Len(s) - 1)
    BY DEF Front
  <2>4. /\ SubSeq(s, 1, Len(s) - 1) \in Seq(S)
        /\ Len(SubSeq(s, 1, Len(s) - 1)) = Len(s) - 1
        /\ \A i \in 1..(Len(s) - 1) : SubSeq(s, 1, Len(s) - 1)[i] = s[i]
    BY <1>1, SMT
  <2> QED BY <2>3, <2>4
<1>3. DOMAIN Front(s) = 1..(Len(s) - 1) /\ Last(s) = s[Len(s)]
  BY <1>2, LenProperties DEF Last
<1>4. /\ Len(s) \in 1..Len(s)
      /\ \A i \in 1..Len(s) : i # Len(s) => i \in 1..(Len(s) - 1)
      /\ \A i \in 1..(Len(s) - 1) : i \in 1..Len(s)
  <2> DEFINE n == Len(s)
  <2>1. n \in Nat /\ n # 0
    BY <1>1
  <2> HIDE DEF n
  <2>2. /\ n \in 1..n
        /\ \A i \in 1..n : i # n => i \in 1..(n - 1)
        /\ \A i \in 1..(n - 1) : i \in 1..n
    BY <2>1
  <2> QED BY <2>2 DEF n
<1>5. Range(s) = {Last(s)} \cup Range(Front(s))
  <2>1. ASSUME NEW x \in Range(s) PROVE x \in {Last(s)} \cup Range(Front(s))
    <3>1. PICK i \in 1..Len(s) : x = s[i]
      BY <2>1, <1>1 DEF Range
    <3>2. CASE i = Len(s) BY <3>1, <3>2, <1>3
    <3>3. CASE i # Len(s) BY <3>1, <3>3, <1>2, <1>3, <1>4 DEF Range
    <3> QED BY <3>2, <3>3
  <2>2. Last(s) \in Range(s) /\ Range(Front(s)) \subseteq Range(s)
    BY <1>1, <1>2, <1>3, <1>4 DEF Range
  <2> QED BY <2>1, <2>2
<1>6. ASSUME IsInjective(s) PROVE IsInjective(Front(s)) /\ Last(s) \notin Range(Front(s))
  <2>1. \A i, j \in 1..(Len(s) - 1) : s[i] = s[j] => i = j
    BY <1>1, <1>6 DEF IsInjective
  <2>2. \A i \in 1..(Len(s) - 1) : s[i] # s[Len(s)]
    BY <1>1, <1>6 DEF IsInjective
  <2> QED BY <2>1, <2>2, <1>2, <1>3 DEF IsInjective, Range
<1> QED BY <1>1, <1>2, <1>3, <1>4, <1>5, <1>6

LEMMA AppendOne ==
  ASSUME NEW S, NEW s \in Seq(S), NEW e \in S
  PROVE  /\ Append(s, e) \in Seq(S)
         /\ Range(Append(s, e)) = Range(s) \cup {e}
         /\ IsInjective(s) /\ e \notin Range(s) => IsInjective(Append(s, e))
<1>1. Len(s) \in Nat /\ DOMAIN s = 1..Len(s)
  BY LenProperties
<1>2. /\ Append(s, e) \in Seq(S) /\ Len(Append(s, e)) = Len(s) + 1
      /\ \A i \in 1..Len(s) : Append(s, e)[i] = s[i]
      /\ Append(s, e)[Len(s) + 1] = e
  BY AppendProperties
<1>3. DOMAIN Append(s, e) = 1..(Len(s) + 1)
  BY <1>2, LenProperties
<1>4. /\ Len(s) + 1 \in 1..(Len(s) + 1)
      /\ \A i \in 1..(Len(s) + 1) : i \in 1..Len(s) \/ i = Len(s) + 1
      /\ 1..Len(s) \subseteq 1..(Len(s) + 1)
  BY <1>1
<1>5. ASSUME NEW x \in Range(Append(s, e)) PROVE x \in Range(s) \cup {e}
  BY <1>5, <1>1, <1>2, <1>3, <1>4 DEF Range
<1>6. Range(s) \subseteq Range(Append(s, e)) /\ e \in Range(Append(s, e))
  BY <1>1, <1>2, <1>3, <1>4 DEF Range
<1>7. ASSUME IsInjective(s), e \notin Range(s) PROVE IsInjective(Append(s, e))
  <2>1. \A i \in 1..Len(s) : s[i] # e
    BY <1>1, <1>7 DEF Range
  <2> QED BY <2>1, <1>1, <1>2, <1>3, <1>4, <1>7 DEF IsInjective
<1> QED BY <1>2, <1>5, <1>6, <1>7

-----------------------------------------------------------------------------
(* The types, and the sequences a command takes the first element of.      *)

HasTarget ==
  \A c \in Commands :
    /\ stage[c] \in {"setup", "launch", "probe", "spawn", "ready"} => pending[c] # <<>>
    /\ stage[c] \in {"probe", "spawn", "ready"} => needed[c] # <<>>

TypedTargets == TargetTypeOK /\ HasTarget

LEMMA MeetsTypes ==
  ASSUME trouble \in [Commands -> SUBSET Troubles], NEW c \in Commands,
         NEW kind \in Troubles, Meets(c, kind)
  PROVE  /\ trouble' \in [Commands -> SUBSET Troubles]
         /\ \A d \in Commands : trouble'[d] = IF d = c THEN trouble[c] \cup {kind} ELSE trouble[d]
BY DEF Meets

LEMMA FailedTypes ==
  ASSUME TypedTargets, TargetAssumption, NEW c \in Commands, TargetFails(c), pending[c] # <<>>
  PROVE  /\ pending' \in [Commands -> Seq(Targets)]
         /\ needed' \in [Commands -> Seq(Services)]
         /\ trouble' \in [Commands -> SUBSET Troubles]
         /\ stage' \in [Commands -> Stages]
         /\ HasTarget'
<1>1. pending[c] \in Seq(Targets) /\ Tail(pending[c]) \in Seq(Targets)
  BY HeadAndTail DEF TypedTargets, TargetTypeOK
<1>2. /\ pending' \in [Commands -> Seq(Targets)]
      /\ needed' \in [Commands -> Seq(Services)]
  BY <1>1, EmptySeq DEF TypedTargets, TargetTypeOK, TargetFails
<1>3. /\ trouble' \in [Commands -> SUBSET Troubles]
      /\ stage' \in [Commands -> Stages]
  BY DEF TypedTargets, TargetTypeOK, TargetFails, Meets, Turn, Troubles, Stages
<1>4. HasTarget'
  BY DEF TypedTargets, TargetTypeOK, HasTarget, TargetFails, Turn
<1> QED BY <1>2, <1>3, <1>4

LEMMA StepTypes ==
  ASSUME TargetAssumption, TypedTargets, [TargetNext]_targetVars
  PROVE  TypedTargets'
<1> USE DEF TypedTargets
<1>1. ASSUME NEW c \in Commands, stage[c] \in {"setup", "launch", "probe", "spawn", "ready"}
      PROVE  /\ pending[c] # <<>>
             /\ Head(pending[c]) \in Targets /\ Tail(pending[c]) \in Seq(Targets)
             /\ Uses[Head(pending[c])] \in Seq(Services)
  <2>1. pending[c] \in Seq(Targets) /\ pending[c] # <<>>
    BY <1>1 DEF HasTarget, TargetTypeOK
  <2>2. Head(pending[c]) \in Targets /\ Tail(pending[c]) \in Seq(Targets)
    BY <2>1, HeadAndTail
  <2> QED BY <2>1, <2>2 DEF TargetAssumption
<1>2. ASSUME NEW c \in Commands, stage[c] \in {"probe", "spawn", "ready"}
      PROVE  Head(needed[c]) \in Services /\ Tail(needed[c]) \in Seq(Services)
  <2>1. needed[c] \in Seq(Services) /\ needed[c] # <<>>
    BY <1>2 DEF HasTarget, TargetTypeOK
  <2> QED BY <2>1, HeadAndTail
<1>3. ASSUME NEW c \in Commands, NEW s \in Services,
             Stopped(c, s) \/ NotStopped(c, s)
      PROVE  /\ child' \in [Commands -> [Services -> Children]]
             /\ answers' \in [Services -> Commands \cup {Outsider, Nobody}]
             /\ survived' \in [Commands -> SUBSET Services]
  <2>1. child' \in [Commands -> [Services -> Children]]
    <3>1. Dead(c, s) \/ child' = child
      BY <1>3 DEF Stopped, NotStopped
    <3>2. CASE child' = child BY <3>2 DEF TargetTypeOK
    <3>3. CASE Dead(c, s) BY <3>3 DEF TargetTypeOK, Dead, Children
    <3> QED BY <3>1, <3>2, <3>3
  <2>2. answers' \in [Services -> Commands \cup {Outsider, Nobody}]
    BY <1>3 DEF TargetTypeOK, Stopped, NotStopped, Frees
  <2>3. survived' \in [Commands -> SUBSET Services]
    <3>1. survived' = [survived EXCEPT ![c] = @ \cup {s}] \/ survived' = survived
      BY <1>3 DEF Stopped, NotStopped
    <3>2. CASE survived' = survived BY <3>2 DEF TargetTypeOK
    <3>3. CASE survived' = [survived EXCEPT ![c] = @ \cup {s}] BY <3>3 DEF TargetTypeOK
    <3> QED BY <3>1, <3>2, <3>3
  <2> QED BY <2>1, <2>2, <2>3
<1>a. "execution" \in Troubles /\ "cleanup" \in Troubles
  BY DEF Troubles
<1>4. ASSUME NEW c \in Commands, Begins(c) PROVE TypedTargets'
  BY <1>4 DEF TargetTypeOK, HasTarget, Begins, Turn, Stages, TargetAssumption
<1>5. ASSUME NEW c \in Commands, Installs(c) PROVE TypedTargets'
  <2>1. trouble' \in [Commands -> SUBSET Troubles]
    BY <1>5, <1>a, MeetsTypes DEF TargetTypeOK, Installs
  <2>2. stage' \in [Commands -> Stages] /\ HasTarget'
    BY <1>5 DEF TargetTypeOK, HasTarget, Installs, Turn, Stages
  <2> QED BY <1>5, <2>1, <2>2 DEF TargetTypeOK, Installs
<1>6. ASSUME NEW c \in Commands, NextTarget(c) PROVE TypedTargets'
  <2>1. CASE pending[c] = <<>>
    BY <1>6, <2>1 DEF TargetTypeOK, HasTarget, NextTarget, Turn, Stages
  <2>2. CASE pending[c] # <<>>
    <3>1. Head(pending[c]) \in Targets
      BY <2>2, HeadAndTail DEF TargetTypeOK
    <3>2. Uses[Head(pending[c])] \in Seq(Services)
      BY <3>1 DEF TargetAssumption
    <3> QED BY <1>6, <2>2, <3>2 DEF TargetTypeOK, HasTarget, NextTarget, Turn, Stages
  <2> QED BY <2>1, <2>2
<1>7. ASSUME NEW c \in Commands, SetsUp(c) PROVE TypedTargets'
  <2>1. stage[c] = "setup" /\ pending[c] # <<>>
    BY <1>7 DEF SetsUp, HasTarget
  <2>2. CASE TargetFails(c)
    BY <1>7, <2>1, <2>2, FailedTypes DEF TargetTypeOK, SetsUp
  <2>3. CASE ~TargetFails(c)
    BY <1>7, <2>1, <2>3 DEF TargetTypeOK, HasTarget, SetsUp, Turn, Stages
  <2> QED BY <2>2, <2>3
<1>8. ASSUME NEW c \in Commands, Launches(c) PROVE TypedTargets'
  <2>1. /\ stage[c] = "launch"
        /\ Head(pending[c]) \in Targets /\ Tail(pending[c]) \in Seq(Targets)
        /\ teardowns[c] \in Seq(Targets)
    BY <1>8, <1>1 DEF Launches, TargetTypeOK
  <2>2. Append(teardowns[c], Head(pending[c])) \in Seq(Targets)
    BY <2>1, AppendOne
  <2>3. CASE needed[c] # <<>> /\ Turn(c, "probe") /\ UNCHANGED <<pending, ready, teardowns>>
    BY <1>8, <2>1, <2>3 DEF TargetTypeOK, HasTarget, Launches, Turn, Stages
  <2>4. CASE TargetStarted(c) /\ Notes(c)
    <3>1. stage' \in [Commands -> Stages] /\ HasTarget'
      BY <1>8, <2>4 DEF TargetTypeOK, HasTarget, Launches, TargetStarted, Turn, Stages
    <3>2. /\ teardowns' \in [Commands -> Seq(Targets)] /\ pending' \in [Commands -> Seq(Targets)]
          /\ ready' \in [Commands -> SUBSET Targets]
      BY <2>1, <2>2, <2>4 DEF TargetTypeOK, TargetStarted, Notes
    <3> QED BY <1>8, <3>1, <3>2 DEF TargetTypeOK, Launches
  <2> QED BY <1>8, <2>3, <2>4 DEF Launches
<1>9. ASSUME NEW c \in Commands, Probes(c) PROVE TypedTargets'
  <2>1. stage[c] = "probe" /\ pending[c] # <<>>
    BY <1>9 DEF Probes, HasTarget
  <2>2. Head(needed[c]) \in Services
    BY <1>9, <1>2 DEF Probes
  <2>3. raced' \in [Commands -> SUBSET Services]
    <3> DEFINE taken == {x \in {Head(needed[c])} : answers[x] # Nobody}
    <3>1. raced' = raced \/ raced' = [raced EXCEPT ![c] = @ \cup taken]
      BY <1>9 DEF Probes
    <3>2. taken \subseteq Services /\ raced \in [Commands -> SUBSET Services]
      BY <2>2 DEF TargetTypeOK
    <3> HIDE DEF taken
    <3>3. raced[c] \cup taken \in SUBSET Services
      BY <3>2
    <3>4. [raced EXCEPT ![c] = @ \cup taken] \in [Commands -> SUBSET Services]
      BY <3>2, <3>3
    <3> QED BY <3>1, <3>2, <3>4
  <2>4. CASE TargetFails(c)
    BY <1>9, <2>1, <2>3, <2>4, FailedTypes DEF TargetTypeOK, Probes
  <2>5. CASE ~TargetFails(c)
    BY <1>9, <2>1, <2>3, <2>5 DEF TargetTypeOK, HasTarget, Probes, Turn, Stages
  <2> QED BY <2>4, <2>5
<1>10. ASSUME NEW c \in Commands, Spawns(c) PROVE TypedTargets'
  <2>1. Head(needed[c]) \in Services
    BY <1>10, <1>2 DEF Spawns
  <2> QED BY <1>10, <2>1 DEF TargetTypeOK, HasTarget, Spawns, Turn, Stages, Children
<1>11. ASSUME NEW c \in Commands, BecomesReady(c) PROVE TypedTargets'
  <2>1. Head(needed[c]) \in Services /\ Tail(needed[c]) \in Seq(Services)
    BY <1>11, <1>2 DEF BecomesReady
  <2>2. Append(started[c], Head(needed[c])) \in Seq(Services)
    BY <2>1, AppendOne DEF TargetTypeOK
  <2> QED BY <1>11, <2>1, <2>2 DEF TargetTypeOK, HasTarget, BecomesReady, Turn, Stages
<1>12. ASSUME NEW c \in Commands, NeverReady(c) PROVE TypedTargets'
  <2>1. /\ stage[c] = "ready" /\ pending[c] # <<>> /\ Head(needed[c]) \in Services
        /\ TargetFails(c) /\ Forgets(c, Head(needed[c]))
    BY <1>12, <1>1, <1>2 DEF NeverReady
  <2>2. /\ child' \in [Commands -> [Services -> Children]]
        /\ answers' \in [Services -> Commands \cup {Outsider, Nobody}]
        /\ survived' \in [Commands -> SUBSET Services]
    BY <1>12, <2>1, <1>3 DEF NeverReady
  <2>3. raced' \in [Commands -> SUBSET Services]
    BY <2>1 DEF TargetTypeOK, Forgets
  <2> QED BY <1>12, <2>1, <2>2, <2>3, FailedTypes DEF TargetTypeOK, NeverReady
<1>13. ASSUME NEW c \in Commands, Checks(c) PROVE TypedTargets'
  <2>1. trouble' \in [Commands -> SUBSET Troubles]
    BY <1>13, <1>a, MeetsTypes DEF TargetTypeOK, Checks
  <2>2. stage' \in [Commands -> Stages] /\ HasTarget'
    BY <1>13 DEF TargetTypeOK, HasTarget, Checks, Turn, Stages
  <2> QED BY <1>13, <2>1, <2>2 DEF TargetTypeOK, Checks
<1>14. ASSUME NEW c \in Commands, Tests(c) PROVE TypedTargets'
  <2>1. trouble' \in [Commands -> SUBSET Troubles]
    BY <1>14, <1>a, MeetsTypes DEF TargetTypeOK, Tests
  <2>2. stage' \in [Commands -> Stages] /\ HasTarget'
    BY <1>14 DEF TargetTypeOK, HasTarget, Tests, Turn, Stages
  <2> QED BY <1>14, <2>1, <2>2 DEF TargetTypeOK, Tests
<1>15. ASSUME NEW c \in Commands, Stops(c) PROVE TypedTargets'
  <2>1. started[c] \in Seq(Services) /\ started[c] # <<>>
    BY <1>15 DEF Stops, TargetTypeOK
  <2>2. Last(started[c]) \in Services /\ Front(started[c]) \in Seq(Services)
    BY <2>1, FrontAndLast
  <2>3. /\ child' \in [Commands -> [Services -> Children]]
        /\ answers' \in [Services -> Commands \cup {Outsider, Nobody}]
        /\ survived' \in [Commands -> SUBSET Services]
    BY <1>15, <2>2, <1>3 DEF Stops
  <2>4. started' \in [Commands -> Seq(Services)] /\ raced' \in [Commands -> SUBSET Services]
    BY <1>15, <2>2 DEF TargetTypeOK, Stops, Forgets
  <2>5. trouble' \in [Commands -> SUBSET Troubles]
    BY <1>15, <1>a, MeetsTypes DEF TargetTypeOK, Stops
  <2>6. stage' \in [Commands -> Stages] /\ HasTarget'
    BY <1>15 DEF TargetTypeOK, HasTarget, Stops, Turn, Stages
  <2> QED BY <1>15, <2>3, <2>4, <2>5, <2>6 DEF TargetTypeOK, Stops
<1>16. ASSUME NEW c \in Commands, AllStopped(c) PROVE TypedTargets'
  BY <1>16 DEF TargetTypeOK, HasTarget, AllStopped, Turn, Stages
<1>17. ASSUME NEW c \in Commands, TearsDown(c) PROVE TypedTargets'
  <2>1. teardowns[c] \in Seq(Targets) /\ teardowns[c] # <<>>
    BY <1>17 DEF TearsDown, TargetTypeOK
  <2>2. Last(teardowns[c]) \in Targets /\ Front(teardowns[c]) \in Seq(Targets)
    BY <2>1, FrontAndLast
  <2>3. teardowns' \in [Commands -> Seq(Targets)] /\ torn' \in [Commands -> SUBSET Targets]
    BY <1>17, <2>2 DEF TargetTypeOK, TearsDown
  <2>4. trouble' \in [Commands -> SUBSET Troubles]
    BY <1>17, <1>a, MeetsTypes DEF TargetTypeOK, TearsDown
  <2>6. stage' \in [Commands -> Stages] /\ HasTarget'
    BY <1>17 DEF TargetTypeOK, HasTarget, TearsDown, Turn, Stages
  <2> QED BY <1>17, <2>3, <2>4, <2>6 DEF TargetTypeOK, TearsDown
<1>18. ASSUME NEW c \in Commands, TargetDone(c) PROVE TypedTargets'
  BY <1>18 DEF TargetTypeOK, HasTarget, TargetDone, Turn, Stages
<1>19. ASSUME NEW c \in Commands, NEW s \in Services, ChildBinds(c, s) PROVE TypedTargets'
  BY <1>19 DEF TargetTypeOK, HasTarget, ChildBinds, Binds
<1>20. ASSUME NEW c \in Commands, NEW s \in Services, ChildDies(c, s) PROVE TypedTargets'
  BY <1>20 DEF TargetTypeOK, HasTarget, ChildDies, Dead, Frees, Children
<1>21. ASSUME NEW s \in Services, OutsiderBinds(s) PROVE TypedTargets'
  BY <1>21 DEF TargetTypeOK, HasTarget, OutsiderBinds, Binds
<1>22. ASSUME NEW s \in Services, OutsiderLeaves(s) PROVE TypedTargets'
  BY <1>22 DEF TargetTypeOK, HasTarget, OutsiderLeaves
<1>23. CASE UNCHANGED targetVars
  BY <1>23 DEF TargetTypeOK, HasTarget, targetVars
<1> QED BY <1>4, <1>5, <1>6, <1>7, <1>8, <1>9, <1>10, <1>11, <1>12, <1>13, <1>14, <1>15,
            <1>16, <1>17, <1>18, <1>19, <1>20, <1>21, <1>22, <1>23
        DEF TargetNext, TargetStep

-----------------------------------------------------------------------------
(* What single steps do, seen from any command.                            *)

(* Errors are only added.                                                  *)
LEMMA TroubleGrows ==
  ASSUME TypedTargets, [TargetNext]_targetVars, NEW c \in Commands
  PROVE  trouble[c] \subseteq trouble'[c]
<1>1. ASSUME NEW d \in Commands, NEW kind \in Troubles, Meets(d, kind) PROVE trouble[c] \subseteq trouble'[c]
  BY <1>1 DEF TypedTargets, TargetTypeOK, Meets
<1>2. UNCHANGED trouble \/ \E d \in Commands, kind \in Troubles : Meets(d, kind)
  <2>1. ASSUME NEW d \in Commands, TargetStep(d)
        PROVE  UNCHANGED trouble \/ Meets(d, "target") \/ Meets(d, "execution") \/ Meets(d, "cleanup")
    BY <2>1 DEF TargetStep, Begins, Installs, NextTarget, SetsUp, Launches, Probes, Spawns,
                BecomesReady, NeverReady, Checks, Tests, Stops, AllStopped, TearsDown,
                TargetDone, TargetFails
  <2>2. "target" \in Troubles /\ "execution" \in Troubles /\ "cleanup" \in Troubles
    BY DEF Troubles
  <2>3. ASSUME NEW d \in Commands, TargetStep(d) PROVE <1>2!1 \/ <1>2!2
    BY <2>1, <2>2, <2>3
  <2> QED BY <2>3 DEF TargetNext, ChildBinds, ChildDies, OutsiderBinds, OutsiderLeaves, targetVars
<1> QED BY <1>1, <1>2

(* A stop ends the child or notes that it outlived it, and at most frees   *)
(* the address.                                                            *)
LEMMA StopOutcome ==
  ASSUME TypedTargets, NEW c \in Commands, NEW s \in Services,
         Stopped(c, s) \/ NotStopped(c, s)
  PROVE  /\ \A d \in Commands, x \in Services : d # c \/ x # s => child'[d][x] = child[d][x]
         /\ \A d \in Commands : survived[d] \subseteq survived'[d]
         /\ child'[c][s] = "dead" \/ (s \in survived'[c] /\ answers' = answers)
         /\ \A x \in Services : \/ answers'[x] = answers[x]
                                \/ answers[x] = c /\ x = s /\ child'[c][s] = "dead"
<1> USE DEF TypedTargets, TargetTypeOK
<1>1. CASE Dead(c, s) /\ Frees(c, s) /\ UNCHANGED survived
  <2>1. /\ \A d \in Commands, x \in Services : d # c \/ x # s => child'[d][x] = child[d][x]
        /\ child'[c][s] = "dead"
    BY <1>1 DEF Dead
  <2>2. \A x \in Services : answers'[x] = answers[x] \/ (answers[x] = c /\ x = s)
    BY <1>1 DEF Frees
  <2> QED BY <1>1, <2>1, <2>2
<1>2. CASE survived' = [survived EXCEPT ![c] = @ \cup {s}] /\ UNCHANGED <<child, answers>>
  BY <1>2
<1> QED BY <1>1, <1>2 DEF Stopped, NotStopped

-----------------------------------------------------------------------------
(* Every child that is alive is accounted for.                             *)

Accounted(c, s) ==
  \/ s \in Range(started[c])
  \/ stage[c] = "ready" /\ s = Head(needed[c])
  \/ s \in survived[c] /\ trouble[c] # {}
  \/ c \in Mutates /\ "cleanup" \in trouble[c]

AllAccounted ==
  /\ \A c \in Commands, s \in Services : child[c][s] = "alive" => Accounted(c, s)
  /\ \A c \in Commands : stage[c] \in {"teardown", "done"} =>
       started[c] = <<>> \/ (c \in Mutates /\ "cleanup" \in trouble[c])

(* A step that leaves the children, their records and the stages that count*)
(* alone accounts for them as before.                                      *)
LEMMA AccountsKept ==
  ASSUME TypedTargets, TypedTargets', AllAccounted, [TargetNext]_targetVars,
         NEW c \in Commands,
         UNCHANGED started,
         \A d \in Commands, x \in Services : child'[d][x] = "alive" =>
           child[d][x] = "alive" /\ (x \in survived[d] => x \in survived'[d]),
         \A d \in Commands : stage[d] = "ready" =>
           stage'[d] = "ready" /\ needed'[d] = needed[d],
         \A d \in Commands : stage'[d] \in {"teardown", "done"} =>
           \/ stage[d] \in {"teardown", "done"}
           \/ started[d] = <<>>
           \/ d \in Mutates /\ "cleanup" \in trouble'[d]
  PROVE  AllAccounted'
<1>1. \A d \in Commands : trouble[d] \subseteq trouble'[d]
  BY TroubleGrows
<1>2. ASSUME NEW d \in Commands, NEW x \in Services, child'[d][x] = "alive"
      PROVE  Accounted(d, x)'
  <2>1. Accounted(d, x) /\ (x \in survived[d] => x \in survived'[d])
    BY <1>2 DEF AllAccounted
  <2> QED BY <2>1, <1>1 DEF Accounted
<1>3. ASSUME NEW d \in Commands, stage'[d] \in {"teardown", "done"}
      PROVE  started'[d] = <<>> \/ (d \in Mutates /\ "cleanup" \in trouble'[d])
  BY <1>1, <1>3 DEF AllAccounted
<1> QED BY <1>2, <1>3 DEF AllAccounted

LEMMA StepAccounts ==
  ASSUME TypedTargets, TypedTargets', AllAccounted, [TargetNext]_targetVars
  PROVE  AllAccounted'
<1> USE DEF TypedTargets, TargetTypeOK
<1>1. \A c \in Commands : trouble[c] \subseteq trouble'[c]
  BY TroubleGrows
<1>2. ASSUME NEW c \in Commands,
             \/ Begins(c) \/ Installs(c) \/ NextTarget(c) \/ SetsUp(c) \/ Launches(c)
             \/ Probes(c) \/ Checks(c) \/ Tests(c) \/ AllStopped(c)
             \/ TearsDown(c) \/ TargetDone(c)
      PROVE  AllAccounted'
  <2>1. UNCHANGED <<started, child, survived>> /\ stage[c] # "ready"
    BY <1>2 DEF Begins, Installs, NextTarget, SetsUp, Launches, Probes, Checks, Tests,
                AllStopped, TearsDown, TargetDone
  <2>2. \A d \in Commands : d # c => stage'[d] = stage[d] /\ needed'[d] = needed[d]
    BY <1>2 DEF Begins, Installs, NextTarget, SetsUp, Launches, Probes, Checks, Tests,
                AllStopped, TearsDown, TargetDone, TargetFails, TargetStarted, Turn
  <2>3. stage'[c] \in {"teardown", "done"} => stage[c] \in {"teardown", "done"} \/ started[c] = <<>>
    BY <1>2 DEF Begins, Installs, NextTarget, SetsUp, Launches, Probes, Checks, Tests,
                AllStopped, TearsDown, TargetDone, TargetFails, TargetStarted, Turn
  <2> QED BY <2>1, <2>2, <2>3, AccountsKept
<1>3. ASSUME NEW c \in Commands, Spawns(c) PROVE AllAccounted'
  <2>1. /\ stage[c] = "spawn" /\ stage'[c] = "ready"
        /\ \A d \in Commands : d # c => stage'[d] = stage[d]
        /\ UNCHANGED <<needed, started, trouble, survived>>
    BY <1>3 DEF Spawns, Turn
  <2>2. \A d \in Commands, x \in Services : child'[d][x] = child[d][x] \/ (d = c /\ x = Head(needed[c]))
    BY <1>3 DEF Spawns
  <2>3. ASSUME NEW d \in Commands, NEW x \in Services, child'[d][x] = "alive"
        PROVE  Accounted(d, x)'
    <3>1. CASE d = c /\ x = Head(needed[c])
      BY <2>1, <3>1 DEF Accounted
    <3>2. CASE ~(d = c /\ x = Head(needed[c]))
      <4>1. Accounted(d, x) /\ ~(d = c /\ stage[d] = "ready")
        BY <2>1, <2>2, <2>3, <3>2 DEF AllAccounted
      <4> QED BY <4>1, <2>1 DEF Accounted
    <3> QED BY <3>1, <3>2
  <2> QED BY <2>1, <2>3 DEF AllAccounted
<1>4. ASSUME NEW c \in Commands, BecomesReady(c) PROVE AllAccounted'
  <2>1. /\ stage[c] = "ready" /\ stage'[c] = "launch" /\ needed[c] # <<>>
        /\ \A d \in Commands : d # c =>
             stage'[d] = stage[d] /\ needed'[d] = needed[d] /\ started'[d] = started[d]
        /\ started'[c] = Append(started[c], Head(needed[c]))
        /\ UNCHANGED <<child, trouble, survived>>
    BY <1>4 DEF BecomesReady, Turn, HasTarget
  <2>2. Range(started'[c]) = Range(started[c]) \cup {Head(needed[c])}
    <3>1. Head(needed[c]) \in Services
      BY <2>1, HeadAndTail
    <3> QED BY <2>1, <3>1, AppendOne
  <2> QED BY <2>1, <2>2 DEF AllAccounted, Accounted
<1>5. ASSUME NEW c \in Commands, NeverReady(c) PROVE AllAccounted'
  <2>1. /\ stage[c] = "ready" /\ Head(needed[c]) \in Services
        /\ Stopped(c, Head(needed[c])) \/ NotStopped(c, Head(needed[c]))
        /\ stage'[c] \in {"stop", "next"} /\ "target" \in trouble'[c] /\ UNCHANGED started
        /\ \A d \in Commands : d # c => stage'[d] = stage[d] /\ needed'[d] = needed[d]
    BY <1>5, HeadAndTail DEF NeverReady, TargetFails, Turn, Meets, HasTarget
  <2>2. /\ \A d \in Commands, x \in Services :
             d # c \/ x # Head(needed[c]) => child'[d][x] = child[d][x]
        /\ \A d \in Commands : survived[d] \subseteq survived'[d]
        /\ child'[c][Head(needed[c])] = "dead" \/ Head(needed[c]) \in survived'[c]
    <3> HIDE DEF TypedTargets, TargetTypeOK
    <3> QED BY <2>1, StopOutcome
  <2>3. ASSUME NEW d \in Commands, NEW x \in Services, child'[d][x] = "alive"
        PROVE  Accounted(d, x)'
    <3>1. CASE d = c /\ x = Head(needed[c])
      BY <2>1, <2>2, <2>3, <3>1 DEF Accounted
    <3>2. CASE ~(d = c /\ x = Head(needed[c]))
      <4>1. Accounted(d, x)
        BY <2>2, <2>3, <3>2 DEF AllAccounted
      <4> QED BY <4>1, <3>2, <2>1, <2>2, <1>1 DEF Accounted
    <3> QED BY <3>1, <3>2
  <2> QED BY <2>1, <2>3, <1>1 DEF AllAccounted
<1>6. ASSUME NEW c \in Commands, Stops(c) PROVE AllAccounted'
  <2> DEFINE s == Last(started[c])
  <2>1. /\ stage[c] = "stop" /\ started[c] # <<>>
        /\ started' = [started EXCEPT ![c] = Front(@)]
        /\ Stopped(c, s) \/ NotStopped(c, s)
        /\ NotStopped(c, s) => Meets(c, "cleanup") \/ Stopped(c, s)
        /\ UNCHANGED needed
    BY <1>6 DEF Stops
  <2>2. s \in Services /\ Range(started[c]) = {s} \cup Range(Front(started[c]))
    <3>1. started[c] \in Seq(Services) /\ started[c] # <<>>
      BY <2>1
    <3> HIDE DEF TypedTargets, TargetTypeOK
    <3> QED BY <3>1, FrontAndLast
  <2> HIDE DEF s
  <2>3. /\ \A d \in Commands, x \in Services : d # c \/ x # s => child'[d][x] = child[d][x]
        /\ \A d \in Commands : survived[d] \subseteq survived'[d]
        /\ child'[c][s] = "dead" \/ s \in survived'[c]
    <3> HIDE DEF TypedTargets, TargetTypeOK
    <3> QED BY <2>1, <2>2, StopOutcome
  <2>4. child'[c][s] = "dead" \/ "cleanup" \in trouble'[c]
    <3>1. Stopped(c, s) => child'[c][s] = "dead"
      BY <2>2 DEF Stopped, Dead
    <3>2. Meets(c, "cleanup") => "cleanup" \in trouble'[c]
      BY DEF Meets
    <3> QED BY <2>1, <3>1, <3>2
  <2>5. /\ stage'[c] = "stop" \/ (stage'[c] = "done" /\ c \in Mutates /\ "cleanup" \in trouble'[c])
        /\ \A d \in Commands : d # c => stage'[d] = stage[d]
    BY <1>6 DEF Stops, Turn, Meets
  <2>6. ASSUME NEW d \in Commands, NEW x \in Services, child'[d][x] = "alive"
        PROVE  Accounted(d, x)'
    <3>1. CASE d = c /\ x = s
      BY <2>3, <2>4, <2>6, <3>1 DEF Accounted
    <3>2. CASE ~(d = c /\ x = s)
      <4>1. Accounted(d, x)
        BY <2>3, <2>6, <3>2 DEF AllAccounted
      <4>2. x \in Range(started[d]) => x \in Range(started'[d])
        BY <2>1, <2>2, <3>2
      <4> QED BY <4>1, <4>2, <2>1, <2>3, <2>5, <1>1 DEF Accounted
    <3> QED BY <3>1, <3>2
  <2> QED BY <2>1, <2>5, <2>6, <1>1 DEF AllAccounted
<1>7. ASSUME NEW c \in Commands, NEW s \in Services, ChildDies(c, s) PROVE AllAccounted'
  <2>1. /\ UNCHANGED <<stage, needed, started, trouble>>
        /\ \A d \in Commands, x \in Services : child'[d][x] = "alive" =>
             child[d][x] = "alive" /\ (x \in survived[d] => x \in survived'[d])
    BY <1>7 DEF ChildDies, Dead
  <2> QED BY <2>1 DEF AllAccounted, Accounted
<1>8. ASSUME NEW c \in Commands, NEW s \in Services,
             ChildBinds(c, s) \/ OutsiderBinds(s) \/ OutsiderLeaves(s)
      PROVE AllAccounted'
  BY <1>8 DEF ChildBinds, OutsiderBinds, OutsiderLeaves, AllAccounted, Accounted
<1>9. CASE UNCHANGED targetVars
  BY <1>9 DEF targetVars, AllAccounted, Accounted
<1>10. ASSUME NEW s \in Services, OutsiderBinds(s) \/ OutsiderLeaves(s) PROVE AllAccounted'
  BY <1>10 DEF OutsiderBinds, OutsiderLeaves, AllAccounted, Accounted
<1> QED BY <1>2, <1>3, <1>4, <1>5, <1>6, <1>7, <1>8, <1>9, <1>10 DEF TargetNext, TargetStep

(* A command's step leaves the records of the other commands alone.        *)
LEMMA OthersKept ==
  ASSUME TypedTargets, NEW c \in Commands, TargetStep(c), NEW d \in Commands, d # c
  PROVE  /\ stage'[d] = stage[d] /\ pending'[d] = pending[d] /\ needed'[d] = needed[d]
         /\ started'[d] = started[d] /\ teardowns'[d] = teardowns[d] /\ ready'[d] = ready[d]
         /\ torn'[d] = torn[d] /\ child'[d] = child[d] /\ raced'[d] = raced[d]
         /\ d \in dipped' <=> d \in dipped
<1> USE DEF TypedTargets, TargetTypeOK
<1>1. CASE Begins(c) \/ Installs(c) \/ NextTarget(c) \/ SetsUp(c) \/ Launches(c)
  BY <1>1 DEF Begins, Installs, NextTarget, SetsUp, Launches, TargetFails, TargetStarted, Notes, Turn
<1>2. CASE Probes(c) \/ Spawns(c) \/ BecomesReady(c)
  BY <1>2 DEF Probes, Spawns, BecomesReady, TargetFails, Turn
<1>3. CASE Checks(c) \/ Tests(c) \/ AllStopped(c) \/ TearsDown(c) \/ TargetDone(c)
  BY <1>3 DEF Checks, Tests, AllStopped, TearsDown, TargetDone, Turn
<1>4. CASE NeverReady(c) \/ Stops(c)
  <2>1. child'[d] = child[d]
    BY <1>4 DEF NeverReady, Stops, Stopped, NotStopped, Dead
  <2> QED BY <1>4, <2>1 DEF NeverReady, Stops, TargetFails, Turn, Forgets
<1> QED BY <1>1, <1>2, <1>3, <1>4 DEF TargetStep

-----------------------------------------------------------------------------
(* The targets a command started are those it has torn down or noted.      *)

TeardownsKept ==
  \A c \in Commands :
    /\ ready[c] = torn[c] \cup Range(teardowns[c])
    /\ stage[c] = "done" =>
         teardowns[c] = <<>> \/ (c \in Mutates /\ "cleanup" \in trouble[c])

LEMMA StepTeardowns ==
  ASSUME TypedTargets, TeardownsKept, [TargetNext]_targetVars
  PROVE  TeardownsKept'
<1> USE DEF TypedTargets, TargetTypeOK
<1>1. \A c \in Commands : trouble[c] \subseteq trouble'[c]
  BY TroubleGrows
<1>2. ASSUME NEW c \in Commands,
             /\ ready'[c] = torn'[c] \cup Range(teardowns'[c])
             /\ stage'[c] = "done" =>
                  teardowns'[c] = <<>> \/ (c \in Mutates /\ "cleanup" \in trouble'[c]),
             TargetStep(c)
      PROVE  TeardownsKept'
  BY <1>1, <1>2, OthersKept DEF TeardownsKept
<1>3. ASSUME NEW c \in Commands,
             \/ Begins(c) \/ Installs(c) \/ NextTarget(c) \/ SetsUp(c)
             \/ Probes(c) \/ Spawns(c) \/ BecomesReady(c) \/ NeverReady(c)
             \/ Checks(c) \/ Tests(c) \/ Stops(c) \/ AllStopped(c)
      PROVE  TeardownsKept'
  <2>1. UNCHANGED <<ready, torn, teardowns>>
    BY <1>3 DEF Begins, Installs, NextTarget, SetsUp, Probes, Spawns, BecomesReady, NeverReady,
                Checks, Tests, Stops, AllStopped
  <2>2. stage'[c] = "done" => c \in Mutates /\ "cleanup" \in trouble'[c]
    BY <1>3 DEF Begins, Installs, NextTarget, SetsUp, Probes, Spawns, BecomesReady, NeverReady,
                Checks, Tests, Stops, AllStopped, TargetFails, Turn, Meets
  <2>3. TargetStep(c)
    BY <1>3 DEF TargetStep
  <2> QED BY <2>1, <2>2, <2>3, <1>2 DEF TeardownsKept
<1>4. ASSUME NEW c \in Commands, Launches(c) PROVE TeardownsKept'
  <2>1. stage[c] = "launch" /\ pending[c] # <<>> /\ UNCHANGED torn /\ TargetStep(c)
    BY <1>4 DEF Launches, HasTarget, TargetStep
  <2>2. CASE Turn(c, "probe") /\ UNCHANGED <<pending, ready, teardowns>>
    BY <2>1, <2>2, <1>2 DEF TeardownsKept, Turn
  <2>3. CASE TargetStarted(c) /\ Notes(c)
    <3>1. Range(Append(teardowns[c], Head(pending[c]))) = Range(teardowns[c]) \cup {Head(pending[c])}
      BY <2>1, HeadAndTail, AppendOne
    <3>2. /\ ready'[c] = ready[c] \cup {Head(pending[c])}
          /\ teardowns'[c] = Append(teardowns[c], Head(pending[c]))
          /\ stage'[c] = "next"
      BY <2>3 DEF TargetStarted, Notes, Turn
    <3> QED BY <2>1, <3>1, <3>2, <1>2 DEF TeardownsKept
  <2> QED BY <1>4, <2>2, <2>3 DEF Launches
<1>5. ASSUME NEW c \in Commands, TearsDown(c) PROVE TeardownsKept'
  <2>1. /\ teardowns[c] # <<>> /\ TargetStep(c) /\ UNCHANGED ready
        /\ teardowns'[c] = Front(teardowns[c])
        /\ torn'[c] = torn[c] \cup {Last(teardowns[c])}
        /\ stage'[c] = "done" => c \in Mutates /\ "cleanup" \in trouble'[c]
    BY <1>5 DEF TearsDown, TargetStep, Turn, Meets
  <2>2. Range(teardowns[c]) = {Last(teardowns[c])} \cup Range(Front(teardowns[c]))
    <3>1. teardowns[c] \in Seq(Targets) /\ teardowns[c] # <<>>
      BY <2>1
    <3> HIDE DEF TypedTargets, TargetTypeOK
    <3> QED BY <3>1, FrontAndLast
  <2> QED BY <2>1, <2>2, <1>2 DEF TeardownsKept
<1>6. ASSUME NEW c \in Commands, TargetDone(c) PROVE TeardownsKept'
  <2>1. TargetStep(c) /\ teardowns[c] = <<>> /\ UNCHANGED <<teardowns, ready, torn>>
    BY <1>6 DEF TargetDone, TargetStep
  <2> QED BY <2>1, <1>2 DEF TeardownsKept
<1>7. CASE UNCHANGED <<stage, teardowns, ready, torn>>
  BY <1>1, <1>7 DEF TeardownsKept
<1> QED BY <1>3, <1>4, <1>5, <1>6, <1>7
        DEF TargetNext, TargetStep, ChildBinds, ChildDies, OutsiderBinds, OutsiderLeaves, targetVars

-----------------------------------------------------------------------------
(* A `run` that lost a server either is still testing without it or has    *)
(* met an error.                                                           *)

DipsNoticed ==
  \A c \in Commands \ Mutates :
    c \in dipped => trouble[c] # {} \/ (stage[c] = "test" /\ ~AllAlive(c))

LEMMA StepDips ==
  ASSUME TypedTargets, DipsNoticed, [TargetNext]_targetVars
  PROVE  DipsNoticed'
<1> USE DEF TypedTargets, TargetTypeOK
<1>1. \A c \in Commands : trouble[c] \subseteq trouble'[c]
  BY TroubleGrows
<1>2. ASSUME NEW c \in Commands, TargetStep(c),
             c \notin Mutates /\ c \in dipped' => trouble'[c] # {}
      PROVE  DipsNoticed'
  <2>1. ASSUME NEW d \in Commands \ Mutates, d # c, d \in dipped'
        PROVE  trouble'[d] # {} \/ (stage'[d] = "test" /\ ~AllAlive(d)')
    <3>1. /\ stage'[d] = stage[d] /\ started'[d] = started[d] /\ child'[d] = child[d]
          /\ d \in dipped
      BY <2>1, <1>2, OthersKept
    <3>2. AllAlive(d)' <=> AllAlive(d)
      BY <3>1 DEF AllAlive
    <3> QED BY <2>1, <3>1, <3>2, <1>1 DEF DipsNoticed
  <2> QED BY <1>2, <2>1 DEF DipsNoticed
<1>3. ASSUME NEW c \in Commands, Checks(c) PROVE DipsNoticed'
  <2>1. c \notin Mutates /\ c \in dipped' => trouble'[c] # {}
    BY <1>1, <1>3 DEF Checks, DipsNoticed, Meets
  <2> QED BY <2>1, <1>3, <1>2 DEF TargetStep
<1>4. ASSUME NEW c \in Commands, Tests(c) PROVE DipsNoticed'
  <2>1. c \notin Mutates /\ c \in dipped' => trouble'[c] # {}
    BY <1>1, <1>4 DEF Tests, DipsNoticed, Meets
  <2> QED BY <2>1, <1>4, <1>2 DEF TargetStep
<1>5. ASSUME NEW c \in Commands, TargetStep(c), ~Checks(c), ~Tests(c) PROVE DipsNoticed'
  <2>1. UNCHANGED dipped /\ stage[c] # "test"
    BY <1>5 DEF TargetStep, Begins, Installs, NextTarget, SetsUp, Launches, Probes, Spawns,
                BecomesReady, NeverReady, Stops, AllStopped, TearsDown, TargetDone
  <2> QED BY <2>1, <1>1, <1>2, <1>5 DEF DipsNoticed
<1>6. ASSUME NEW c \in Commands, NEW s \in Services, ChildDies(c, s) PROVE DipsNoticed'
  <2>1. /\ UNCHANGED <<stage, started, trouble>> /\ child'[c][s] = "dead"
        /\ \A d \in Commands, x \in Services : child'[d][x] = "alive" => child[d][x] = "alive"
    BY <1>6 DEF ChildDies, Dead
  <2>2. \A d \in Commands : Range(started[d]) \subseteq Services
    BY ElementOfSeq, LenProperties DEF Range
  <2>3. \A d \in Commands : ~AllAlive(d) => ~AllAlive(d)'
    BY <2>1, <2>2 DEF AllAlive
  <2>4. ASSUME NEW d \in Commands, d \in dipped', d \notin dipped
        PROVE  stage'[d] = "test" /\ ~AllAlive(d)'
    <3>1. d = c /\ stage[c] = "test" /\ s \in Range(started[c])
      BY <1>6, <2>4 DEF ChildDies
    <3> QED BY <2>1, <3>1 DEF AllAlive
  <2> QED BY <2>1, <2>3, <2>4 DEF DipsNoticed
<1>7. CASE UNCHANGED <<stage, started, child, trouble, dipped>>
  BY <1>7 DEF DipsNoticed, AllAlive
<1> QED BY <1>3, <1>4, <1>5, <1>6, <1>7
        DEF TargetNext, ChildBinds, OutsiderBinds, OutsiderLeaves, targetVars

-----------------------------------------------------------------------------
(* A command starts no service twice.                                      *)

Starters == {"setup", "launch", "probe", "spawn", "ready"}

Free(c, t) == Range(Uses[t]) \cap Range(started[c]) = {}

Apart(c) ==
  /\ IsInjective(pending[c]) /\ IsInjective(needed[c]) /\ IsInjective(started[c])
  /\ Range(started[c]) \cap Range(needed[c]) = {}
  /\ stage[c] = "idle" => started[c] = <<>> /\ needed[c] = <<>>
  /\ stage[c] \in {"install", "next"} => \A t \in Range(pending[c]) : Free(c, t)
  /\ stage[c] \in Starters =>
       /\ Range(needed[c]) \subseteq Range(Uses[Head(pending[c])])
       /\ \A t \in Range(Tail(pending[c])) : Free(c, t)

AllApart == \A c \in Commands : Apart(c)

LEMMA EmptyApart ==
  /\ IsInjective(<<>>)
  /\ Range(<<>>) = {}
BY DEF IsInjective, Range

LEMMA StepApart ==
  ASSUME TargetAssumption, TypedTargets, AllApart, [TargetNext]_targetVars
  PROVE  AllApart'
<1> USE DEF TypedTargets, TargetTypeOK
<1>1. ASSUME NEW c \in Commands, TargetStep(c), Apart(c)' PROVE AllApart'
  <2>1. ASSUME NEW d \in Commands, d # c PROVE Apart(d)'
    <3>1. /\ stage'[d] = stage[d] /\ pending'[d] = pending[d] /\ needed'[d] = needed[d]
          /\ started'[d] = started[d]
      BY <2>1, <1>1, OthersKept
    <3> QED BY <3>1 DEF AllApart, Apart, Free
  <2> QED BY <1>1, <2>1 DEF AllApart
<1>2. ASSUME NEW c \in Commands, stage[c] \in Starters
      PROVE  /\ pending[c] # <<>>
             /\ Head(pending[c]) \in Targets /\ Head(pending[c]) \notin Range(Tail(pending[c]))
             /\ Range(pending[c]) = {Head(pending[c])} \cup Range(Tail(pending[c]))
             /\ IsInjective(Tail(pending[c])) /\ Range(Tail(pending[c])) \subseteq Targets
  <2>1. pending[c] \in Seq(Targets) /\ pending[c] # <<>> /\ IsInjective(pending[c])
    BY <1>2 DEF HasTarget, AllApart, Apart, Starters
  <2>2. Tail(pending[c]) \in Seq(Targets)
    BY <2>1, HeadAndTail
  <2>3. Range(Tail(pending[c])) \subseteq Targets
    BY <2>2, ElementOfSeq, LenProperties DEF Range
  <2> QED BY <2>1, <2>3, HeadAndTail
(* A target that fails: what follows it is as far from the started ones.   *)
<1>3. ASSUME NEW c \in Commands, TargetFails(c), stage[c] \in Starters, UNCHANGED started
      PROVE  Apart(c)'
  <2>1. /\ pending'[c] = Tail(pending[c]) /\ needed'[c] = <<>> /\ started'[c] = started[c]
        /\ stage'[c] \in {"stop", "next"}
    BY <1>3 DEF TargetFails, Turn
  <2>2. Apart(c)
    BY DEF AllApart
  <2> QED BY <2>1, <2>2, <1>2, <1>3, EmptyApart DEF Apart, Free, Starters
<1>4. ASSUME NEW c \in Commands, Begins(c) PROVE AllApart'
  <2>1. /\ stage'[c] \in {"install", "next"} /\ pending'[c] = Plan
        /\ started'[c] = <<>> /\ needed'[c] = <<>> /\ TargetStep(c)
    BY <1>4 DEF Begins, Turn, AllApart, Apart, TargetStep
  <2>2. Apart(c)'
    BY <2>1, EmptyApart DEF Apart, Free, TargetAssumption, Starters
  <2> QED BY <2>1, <2>2, <1>1
<1>5. ASSUME NEW c \in Commands, Installs(c) PROVE AllApart'
  <2>1. /\ stage[c] = "install" /\ stage'[c] \in {"next", "stop"} /\ TargetStep(c)
        /\ UNCHANGED <<pending, needed, started>>
    BY <1>5 DEF Installs, Turn, TargetStep
  <2>2. Apart(c)'
    BY <2>1 DEF AllApart, Apart, Free, Starters
  <2> QED BY <2>1, <2>2, <1>1
<1>6. ASSUME NEW c \in Commands, NextTarget(c) PROVE AllApart'
  <2>1. stage[c] = "next" /\ UNCHANGED <<pending, started>> /\ TargetStep(c) /\ Apart(c)
    BY <1>6 DEF NextTarget, TargetStep, AllApart
  <2>2. CASE pending[c] # <<>>
    <3>1. stage'[c] = "setup" /\ needed'[c] = Uses[Head(pending[c])]
      BY <1>6, <2>2 DEF NextTarget, Turn
    <3>2. /\ Head(pending[c]) \in Targets
          /\ Range(pending[c]) = {Head(pending[c])} \cup Range(Tail(pending[c]))
      BY <2>2, HeadAndTail
    <3>3. IsInjective(Uses[Head(pending[c])])
      BY <3>2 DEF TargetAssumption
    <3>4. Apart(c)'
      BY <2>1, <3>1, <3>2, <3>3 DEF Apart, Free, Starters
    <3> QED BY <2>1, <3>4, <1>1
  <2>3. CASE pending[c] = <<>>
    <3>1. stage'[c] = "check" /\ UNCHANGED needed
      BY <1>6, <2>3 DEF NextTarget, Turn
    <3>2. Apart(c)'
      BY <2>1, <3>1 DEF Apart, Free, Starters
    <3> QED BY <2>1, <3>2, <1>1
  <2> QED BY <2>2, <2>3
<1>7. ASSUME NEW c \in Commands, SetsUp(c) \/ Probes(c) \/ Spawns(c) \/ NeverReady(c)
      PROVE  AllApart'
  <2>1. TargetStep(c) /\ stage[c] \in Starters /\ UNCHANGED started
    BY <1>7 DEF SetsUp, Probes, Spawns, NeverReady, Starters, TargetStep
  <2>2. CASE TargetFails(c)
    BY <2>1, <2>2, <1>1, <1>3
  <2>3. CASE ~TargetFails(c)
    <3>1. UNCHANGED <<pending, needed>> /\ stage'[c] \in Starters
      BY <1>7, <2>3 DEF SetsUp, Probes, Spawns, NeverReady, Turn, Starters
    <3>2. Apart(c)'
      BY <2>1, <3>1 DEF AllApart, Apart, Free, Starters
    <3> QED BY <2>1, <3>2, <1>1
  <2> QED BY <2>2, <2>3
<1>8. ASSUME NEW c \in Commands, Launches(c) PROVE AllApart'
  <2>1. stage[c] = "launch" /\ UNCHANGED <<needed, started>> /\ TargetStep(c) /\ Apart(c)
    BY <1>8 DEF Launches, TargetStep, AllApart
  <2>2. CASE Turn(c, "probe") /\ UNCHANGED pending
    <3>1. Apart(c)'
      BY <2>1, <2>2 DEF Apart, Free, Starters, Turn
    <3> QED BY <2>1, <3>1, <1>1
  <2>3. CASE TargetStarted(c)
    <3>1. pending'[c] = Tail(pending[c]) /\ stage'[c] = "next"
      BY <2>3 DEF TargetStarted, Turn
    <3>2. Apart(c)'
      BY <2>1, <3>1, <1>2 DEF Apart, Free, Starters
    <3> QED BY <2>1, <3>2, <1>1
  <2> QED BY <1>8, <2>2, <2>3 DEF Launches
<1>9. ASSUME NEW c \in Commands, BecomesReady(c) PROVE AllApart'
  <2> DEFINE s == Head(needed[c])
             t == Head(pending[c])
  <2>1. /\ stage[c] = "ready" /\ stage'[c] = "launch" /\ needed[c] # <<>> /\ UNCHANGED pending
        /\ started'[c] = Append(started[c], s) /\ needed'[c] = Tail(needed[c])
        /\ TargetStep(c) /\ Apart(c)
    BY <1>9 DEF BecomesReady, Turn, HasTarget, TargetStep, AllApart
  <2>2. /\ s \in Services /\ Tail(needed[c]) \in Seq(Services)
        /\ Range(needed[c]) = {s} \cup Range(Tail(needed[c]))
        /\ IsInjective(Tail(needed[c])) /\ s \notin Range(Tail(needed[c]))
    BY <2>1, HeadAndTail DEF Apart
  <2>3. s \notin Range(started[c])
    BY <2>1, <2>2 DEF Apart
  <2>4. Range(Append(started[c], s)) = Range(started[c]) \cup {s} /\ IsInjective(Append(started[c], s))
    BY <2>1, <2>2, <2>3, AppendOne DEF Apart
  <2>5. s \in Range(Uses[t]) /\ Range(Tail(needed[c])) \subseteq Range(Uses[t])
    BY <2>1, <2>2 DEF Apart, Starters
  <2>6. ASSUME NEW u \in Range(Tail(pending[c])) PROVE Free(c, u)'
    <3>1. u # t /\ u \in Targets /\ t \in Targets
      BY <2>1, <2>6, <1>2 DEF Starters
    <3>2. s \notin Range(Uses[u])
      BY <3>1, <2>5 DEF TargetAssumption
    <3>3. Free(c, u)
      BY <2>1, <2>6 DEF Apart, Starters
    <3> QED BY <3>2, <3>3, <2>1, <2>4 DEF Free
  <2>7. Apart(c)'
    <3>1. Range(started'[c]) \cap Range(needed'[c]) = {}
      BY <2>1, <2>2, <2>4 DEF Apart
    <3> QED BY <2>1, <2>2, <2>4, <2>5, <2>6, <3>1 DEF Apart, Starters
  <2> QED BY <2>1, <2>7, <1>1
<1>10. ASSUME NEW c \in Commands, Stops(c) PROVE AllApart'
  <2>1. /\ started[c] # <<>> /\ started'[c] = Front(started[c]) /\ UNCHANGED <<pending, needed>>
        /\ stage'[c] \in {"stop", "done"} /\ TargetStep(c) /\ Apart(c)
    BY <1>10 DEF Stops, Turn, TargetStep, AllApart
  <2>2. Range(Front(started[c])) \subseteq Range(started[c]) /\ IsInjective(Front(started[c]))
    <3>1. IsInjective(started[c]) /\ started[c] \in Seq(Services)
      BY <2>1 DEF Apart
    <3> HIDE DEF TypedTargets, TargetTypeOK
    <3>2. Range(started[c]) = {Last(started[c])} \cup Range(Front(started[c]))
      BY <2>1, <3>1, FrontAndLast
    <3>3. IsInjective(Front(started[c]))
      BY <2>1, <3>1, FrontAndLast
    <3> QED BY <3>2, <3>3
  <2>3. Apart(c)'
    BY <2>1, <2>2 DEF Apart, Starters
  <2> QED BY <2>1, <2>3, <1>1
<1>11. ASSUME NEW c \in Commands,
              Checks(c) \/ Tests(c) \/ AllStopped(c) \/ TearsDown(c) \/ TargetDone(c)
      PROVE  AllApart'
  <2>1. /\ UNCHANGED <<pending, needed, started>> /\ TargetStep(c) /\ Apart(c)
        /\ stage'[c] \in {"test", "stop", "teardown", "done"}
    BY <1>11 DEF Checks, Tests, AllStopped, TearsDown, TargetDone, Turn, TargetStep, AllApart
  <2>2. Apart(c)'
    BY <2>1 DEF Apart, Starters
  <2> QED BY <2>1, <2>2, <1>1
<1>12. CASE UNCHANGED <<stage, pending, needed, started>>
  BY <1>12 DEF AllApart, Apart, Free
<1> QED BY <1>4, <1>5, <1>6, <1>7, <1>8, <1>9, <1>10, <1>11, <1>12
        DEF TargetNext, TargetStep, ChildBinds, ChildDies, OutsiderBinds, OutsiderLeaves, targetVars
-----------------------------------------------------------------------------
(* A started server answers itself, and so will one that is being started, *)
(* unless its address was bound meanwhile, or before without being noticed.*)

Serves(c) ==
  /\ \A s \in Range(started[c]) \ raced[c] : child[c][s] = "alive" => answers[s] = c
  /\ stage[c] \in {"spawn", "ready"} /\ Head(needed[c]) \notin raced[c] =>
       answers[Head(needed[c])] \in {Nobody, c}

AllServe == \A c \in Commands : Serves(c)

LEMMA StepServes ==
  ASSUME TargetAssumption, TypedTargets, AllApart, AllServe, [TargetNext]_targetVars
  PROVE  AllServe'
<1> USE DEF TypedTargets, TargetTypeOK
<1>1. /\ \A d \in Commands : Range(started[d]) \subseteq Services
      /\ \A d \in Commands : stage[d] \in {"probe", "spawn", "ready"} => Head(needed[d]) \in Services
  <2>1. \A d \in Commands : Range(started[d]) \subseteq Services
    BY ElementOfSeq, LenProperties DEF Range
  <2>2. ASSUME NEW d \in Commands, stage[d] \in {"probe", "spawn", "ready"}
        PROVE  Head(needed[d]) \in Services
    BY <2>2, HeadAndTail DEF HasTarget
  <2> QED BY <2>1, <2>2
<1>2. ASSUME NEW c \in Commands, TargetStep(c), Serves(c)',
             \A x \in Services : answers'[x] = answers[x] \/ (answers[x] = c /\ answers'[x] = Nobody)
      PROVE  AllServe'
  <2>1. ASSUME NEW d \in Commands, d # c PROVE Serves(d)'
    <3>1. /\ stage'[d] = stage[d] /\ needed'[d] = needed[d] /\ started'[d] = started[d]
          /\ child'[d] = child[d] /\ raced'[d] = raced[d]
      BY <2>1, <1>2, OthersKept
    <3>2. \A x \in Services : answers[x] = d => answers'[x] = d
      BY <2>1, <1>2
    <3>3. \A x \in Services : answers[x] \in {Nobody, d} => answers'[x] \in {Nobody, d}
      BY <2>1, <1>2
    <3> QED BY <3>1, <3>2, <3>3, <1>1 DEF AllServe, Serves
  <2> QED BY <1>2, <2>1 DEF AllServe
<1>3. ASSUME NEW c \in Commands,
             \/ Begins(c) \/ Installs(c) \/ NextTarget(c) \/ SetsUp(c) \/ Launches(c)
             \/ Checks(c) \/ Tests(c) \/ AllStopped(c) \/ TearsDown(c) \/ TargetDone(c)
      PROVE  AllServe'
  <2>1. UNCHANGED <<started, child, answers, raced>> /\ TargetStep(c)
    BY <1>3 DEF Begins, Installs, NextTarget, SetsUp, Launches, Checks, Tests, AllStopped,
                TearsDown, TargetDone, TargetStep
  <2>2. stage'[c] \notin {"spawn", "ready"}
    BY <1>3 DEF Begins, Installs, NextTarget, SetsUp, Launches, Checks, Tests, AllStopped,
                TearsDown, TargetDone, TargetFails, TargetStarted, Turn
  <2>3. Serves(c)'
    BY <2>1, <2>2 DEF AllServe, Serves
  <2> QED BY <2>1, <2>3, <1>2
<1>p. ASSUME NEW c \in Commands, Probes(c) PROVE AllServe'
  <2>1. UNCHANGED <<started, child, answers>> /\ TargetStep(c)
    BY <1>p DEF Probes, TargetStep
  <2>2. /\ stage'[c] # "ready" /\ raced[c] \subseteq raced'[c]
        /\ stage'[c] = "spawn" =>
             /\ needed'[c] = needed[c]
             /\ Head(needed[c]) \notin raced'[c] => answers[Head(needed[c])] = Nobody
    BY <1>p DEF Probes, TargetFails, Turn
  <2>3. Serves(c)'
    BY <2>1, <2>2 DEF AllServe, Serves
  <2> QED BY <2>1, <2>3, <1>2
<1>4. ASSUME NEW c \in Commands, Spawns(c) PROVE AllServe'
  <2>1. /\ stage[c] = "spawn" /\ stage'[c] = "ready" /\ needed[c] # <<>> /\ TargetStep(c)
        /\ UNCHANGED <<needed, started, answers, raced>>
        /\ \A x \in Services : x # Head(needed[c]) => child'[c][x] = child[c][x]
    BY <1>4 DEF Spawns, Turn, HasTarget, TargetStep
  <2>2. Head(needed[c]) \notin Range(started[c])
    BY <2>1, HeadAndTail DEF AllApart, Apart
  <2>3. Serves(c)'
    BY <2>1, <2>2, <1>1 DEF AllServe, Serves
  <2> QED BY <2>1, <2>3, <1>2
<1>5. ASSUME NEW c \in Commands, BecomesReady(c) PROVE AllServe'
  <2>1. /\ stage[c] = "ready" /\ stage'[c] = "launch" /\ TargetStep(c)
        /\ answers[Head(needed[c])] # Nobody
        /\ started'[c] = Append(started[c], Head(needed[c]))
        /\ UNCHANGED <<child, answers, raced>>
    BY <1>5 DEF BecomesReady, Turn, TargetStep
  <2>2. Range(started'[c]) = Range(started[c]) \cup {Head(needed[c])}
    BY <2>1, <1>1, AppendOne
  <2>3. Serves(c)'
    BY <2>1, <2>2 DEF AllServe, Serves
  <2> QED BY <2>1, <2>3, <1>2
<1>6. ASSUME NEW c \in Commands, NEW s \in Services, TargetStep(c),
             Stopped(c, s) \/ NotStopped(c, s), Forgets(c, s),
             Range(started'[c]) \subseteq Range(started[c]) \ {s},
             stage'[c] \notin {"spawn", "ready"}
      PROVE  AllServe'
  <2>1. /\ \A x \in Services : x # s => child'[c][x] = child[c][x] /\ answers'[x] = answers[x]
        /\ \A x \in Services : answers'[x] = answers[x] \/ answers[x] = c
    BY <1>6, StopOutcome
  <2>2. \A x \in Services : answers'[x] = answers[x] \/ (answers[x] = c /\ answers'[x] = Nobody)
    BY <1>6, <2>1 DEF Stopped, NotStopped, Frees
  <2>3. raced'[c] = raced[c] \ {s}
    BY <1>6 DEF Forgets
  <2>4. Serves(c)'
    BY <1>1, <1>6, <2>1, <2>3 DEF AllServe, Serves
  <2> QED BY <1>6, <2>2, <2>4, <1>2
<1>7. ASSUME NEW c \in Commands, NeverReady(c) PROVE AllServe'
  <2>1. /\ stage[c] = "ready" /\ needed[c] # <<>> /\ TargetStep(c) /\ UNCHANGED started
        /\ Stopped(c, Head(needed[c])) \/ NotStopped(c, Head(needed[c]))
        /\ Forgets(c, Head(needed[c])) /\ stage'[c] \in {"stop", "next"}
    BY <1>7 DEF NeverReady, HasTarget, TargetFails, Turn, TargetStep
  <2>2. Head(needed[c]) \notin Range(started[c])
    BY <2>1, HeadAndTail DEF AllApart, Apart
  <2> QED BY <2>1, <2>2, <1>1, <1>6
<1>8. ASSUME NEW c \in Commands, Stops(c) PROVE AllServe'
  <2> DEFINE s == Last(started[c])
  <2>1. /\ started[c] # <<>> /\ started'[c] = Front(started[c]) /\ TargetStep(c)
        /\ Stopped(c, s) \/ NotStopped(c, s)
        /\ Forgets(c, s) /\ stage'[c] \in {"stop", "done"}
    BY <1>8 DEF Stops, Turn, TargetStep
  <2>2. started[c] \in Seq(Services) /\ IsInjective(started[c])
    BY DEF AllApart, Apart
  <2>3. s \in Services /\ Range(Front(started[c])) \subseteq Range(started[c]) \ {s}
    <3> HIDE DEF TypedTargets, TargetTypeOK
    <3>1. s \in Services /\ Range(started[c]) = {s} \cup Range(Front(started[c]))
      BY <2>1, <2>2, FrontAndLast
    <3>2. s \notin Range(Front(started[c]))
      BY <2>1, <2>2, FrontAndLast
    <3> HIDE DEF s
    <3> QED BY <3>1, <3>2
  <2> HIDE DEF s
  <2> QED BY <2>1, <2>3, <1>6
<1>9. ASSUME NEW s \in Services, NEW owner \in Commands \cup {Outsider}, Binds(owner, s),
             UNCHANGED <<stage, needed, started, child>>
      PROVE  AllServe'
  <2>1. /\ answers[s] = Nobody
        /\ \A x \in Services : x # s => answers'[x] = answers[x]
        /\ answers'[s] = owner
        /\ \A d \in Commands : raced[d] \subseteq raced'[d]
        /\ \A d \in Commands : d # owner /\ Starting(d, s) => s \in raced'[d]
    BY <1>9 DEF Binds
  <2>2. ASSUME NEW d \in Commands PROVE Serves(d)'
    <3>1. \A x \in Services : answers[x] = d => answers'[x] = d
      BY <2>1, <2>2 DEF TargetAssumption
    <3>2. stage[d] \in {"spawn", "ready"} /\ Head(needed[d]) \notin raced'[d] =>
            answers'[Head(needed[d])] \in {Nobody, d}
      <4> SUFFICES ASSUME stage[d] \in {"spawn", "ready"}, Head(needed[d]) \notin raced'[d]
                   PROVE  answers'[Head(needed[d])] \in {Nobody, d}
        OBVIOUS
      <4>1. Head(needed[d]) \in Services /\ answers[Head(needed[d])] \in {Nobody, d}
        BY <2>1, <1>1 DEF AllServe, Serves
      <4>2. CASE Head(needed[d]) = s
        BY <2>1, <4>2 DEF Starting
      <4>3. CASE Head(needed[d]) # s
        BY <2>1, <4>1, <4>3
      <4> QED BY <4>2, <4>3
    <3> QED BY <1>1, <1>9, <2>1, <3>1, <3>2 DEF AllServe, Serves
  <2> QED BY <2>2 DEF AllServe
<1>10. ASSUME NEW c \in Commands, NEW s \in Services, ChildBinds(c, s) PROVE AllServe'
  BY <1>9, <1>10 DEF ChildBinds
<1>11. ASSUME NEW s \in Services, OutsiderBinds(s) PROVE AllServe'
  BY <1>9, <1>11 DEF OutsiderBinds
<1>12. ASSUME NEW s \in Services, OutsiderLeaves(s) PROVE AllServe'
  <2>1. /\ UNCHANGED <<stage, needed, started, child, raced>>
        /\ \A x \in Services : \/ answers'[x] = answers[x]
                               \/ answers[x] = Outsider /\ answers'[x] = Nobody
    BY <1>12 DEF OutsiderLeaves
  <2>2. \A d \in Commands, x \in Services : answers[x] = d => answers'[x] = d
    BY <2>1 DEF TargetAssumption
  <2> QED BY <2>1, <2>2, <1>1 DEF AllServe, Serves
<1>13. ASSUME NEW c \in Commands, NEW s \in Services, ChildDies(c, s) PROVE AllServe'
  <2>1. /\ UNCHANGED <<stage, needed, started, raced>> /\ child'[c][s] = "dead"
        /\ \A d \in Commands, x \in Services : child'[d][x] = "alive" => child[d][x] = "alive"
        /\ \A x \in Services : \/ answers'[x] = answers[x]
                               \/ x = s /\ answers[x] = c /\ answers'[x] = Nobody
    BY <1>13 DEF ChildDies, Dead, Frees
  <2>2. ASSUME NEW d \in Commands, NEW x \in Range(started[d]) \ raced[d], child'[d][x] = "alive"
        PROVE  answers'[x] = d
    <3>1. x \in Services /\ answers[x] = d
      BY <1>1, <2>1, <2>2 DEF AllServe, Serves
    <3> QED BY <2>1, <2>2, <3>1
  <2> QED BY <2>1, <2>2, <1>1 DEF AllServe, Serves
<1>14. CASE UNCHANGED targetVars
  BY <1>14 DEF targetVars, AllServe, Serves
<1> QED BY <1>3, <1>p, <1>4, <1>5, <1>7, <1>8, <1>10, <1>11, <1>12, <1>13, <1>14
        DEF TargetNext, TargetStep

-----------------------------------------------------------------------------
(* The inductive invariant and what follows from it.                       *)

TargetInv ==
  TypedTargets /\ AllAccounted /\ TeardownsKept /\ DipsNoticed /\ AllApart /\ AllServe

(* The inductive invariant holds in every reachable state.                 *)
THEOREM TargetInvariant == TargetSpec => []TargetInv
<1> USE TargetAssumption
<1>1. TargetInit => TargetInv
  <2> SUFFICES ASSUME TargetInit PROVE TargetInv
    OBVIOUS
  <2>1. TypedTargets
    BY EmptySeq DEF TargetInit, TypedTargets, TargetTypeOK, HasTarget, Stages, Children
  <2>2. AllAccounted /\ DipsNoticed
    BY DEF TargetInit, AllAccounted, DipsNoticed
  <2>3. TeardownsKept
    BY EmptyApart DEF TargetInit, TeardownsKept
  <2>4. AllApart /\ AllServe
    BY EmptyApart DEF TargetInit, AllApart, Apart, AllServe, Serves, Starters
  <2> QED BY <2>1, <2>2, <2>3, <2>4 DEF TargetInv
<1>2. TargetInv /\ [TargetNext]_targetVars => TargetInv'
  BY StepTypes, StepAccounts, StepTeardowns, StepDips, StepApart, StepServes DEF TargetInv
<1> QED BY <1>1, <1>2, PTL DEF TargetSpec

(* Commands, services and targets keep their types.                        *)
THEOREM TargetTypes == TargetSpec => []TargetTypeOK
<1>1. TargetInv => TargetTypeOK
  BY DEF TargetInv, TypedTargets
<1> QED BY <1>1, TargetInvariant, PTL

(* What a finished command leaves running is reported.                     *)
THEOREM LeftoversReported == TargetSpec => []LeftoverReported
<1>1. TargetInv => LeftoverReported
  <2> SUFFICES ASSUME TargetInv, NEW c \in Commands, NEW s \in Services,
                      stage[c] = "done", child[c][s] = "alive"
               PROVE  \/ s \in survived[c] /\ trouble[c] # {}
                      \/ c \in Mutates /\ "cleanup" \in trouble[c]
    BY DEF LeftoverReported
  <2>1. Accounted(c, s) /\ (started[c] = <<>> \/ (c \in Mutates /\ "cleanup" \in trouble[c]))
    BY DEF TargetInv, AllAccounted
  <2> QED BY <2>1, EmptyApart DEF Accounted
<1> QED BY <1>1, TargetInvariant, PTL

(* What was started is torn down, or the mutation reports its cleanup.     *)
THEOREM TargetsTornDown == TargetSpec => []TeardownsTried
<1>1. TargetInv => TeardownsTried
  BY EmptyApart DEF TargetInv, TeardownsKept, TeardownsTried
<1> QED BY <1>1, TargetInvariant, PTL

(* A `run` without errors had all its servers while it tested.             *)
THEOREM PassedRunsServed == TargetSpec => []PassedServed
<1>1. TargetInv => PassedServed
  BY DEF TargetInv, DipsNoticed, PassedServed
<1> QED BY <1>1, TargetInvariant, PTL

(* A ready server is the one the command spawned, unless another took its  *)
(* address while it was starting or went unnoticed there.                  *)
THEOREM ServersAreOwn == TargetSpec => []OwnServer
<1>1. TargetInv => OwnServer
  BY DEF TargetInv, AllServe, Serves, OwnServer
<1> QED BY <1>1, TargetInvariant, PTL
=============================================================================
