------------------------ MODULE RepairCaptureProofs ------------------------
(***************************************************************************)
(* Proofs of the safety properties of RepairCapture, for every set of      *)
(* invocations and every archive limit.                                    *)
(***************************************************************************)
EXTENDS RepairCapture, FiniteSetTheorems, WellFoundedInduction, TLAPS

-----------------------------------------------------------------------------
(* The inductive invariant.                                                *)

Owning   == {"intent", "failure"} \cup Executing
Claiming == {"removeExec", "chooseArchive", "mark", "rename"}

(* Nothing is left of a directory that was archived, and a chosen archive  *)
(* name is within the limit.                                               *)
Tidy ==
  /\ ~exists => maker = None /\ file = NoFiles /\ bundle = {} /\ marks = {}
  /\ \A p \in Procs : pc[p] \in {"mark", "rename"}
                        => claim[p].ordinal \in 1..ArchiveLimit

(* What an invocation that was not robbed has written is still there.      *)
Keeps(p) ==
  /\ pc[p] \in Owning => exists /\ maker = p
  /\ pc[p] \in Executing => file["intent"] = p
  /\ pc[p] \in {"context", "inventory", "bundle", "authorize", "complete"}
       => file["report"] = p
  /\ pc[p] \in {"inventory", "bundle", "authorize", "complete"}
       => file["context"] = p
  /\ pc[p] \in {"authorize", "complete"} => bundle = {p}

KeepsDirectory == \A p \in Procs : p \notin robbed => Keeps(p)

(* While nothing is disturbed, recoveries are after ended owners only.     *)
RecoversEnded ==
  Undisturbed =>
    /\ robbed = {}
    /\ \A p \in Procs : pc[p] \in Claiming =>
         claim[p].owner \in Procs /\ ~Running(claim[p].owner)
    /\ file["intent"] \in Procs => maker = file["intent"]
    /\ "failure" \in marks => maker \in Procs /\ ~Running(maker)

(* A returned capture is the one in the directory.                         *)
ReturnsWhatIsThere ==
  Undisturbed =>
    \A p \in Procs : result[p] # None => exists /\ file["completion"] = result[p]

(* An execution directory is removed only after its owner has ended.       *)
KeepsExecution ==
  Undisturbed =>
    \A p \in Procs : pc[p] \in Executing \ {"execute"} => p \in exec

(* Without a cut, a directory has its owner's intent or will have it, and  *)
(* a completion is whole.                                                  *)
HasIntent ==
  exists => maker \in Procs /\ (file["intent"] = maker \/ pc[maker] = "intent")

IntentIsNext == \A p \in Procs : pc[p] = "intent" => file["intent"] = None

CompletionIsWhole ==
  file["completion"] # None =>
    file["completion"] \in Procs /\ Verified(file["completion"])

NothingHalfWritten ==
  Undisturbed /\ ~cut => HasIntent /\ IntentIsNext /\ CompletionIsWhole

Inv ==
  /\ TypeOK
  /\ Tidy
  /\ KeepsDirectory
  /\ RecoversEnded
  /\ ReturnsWhatIsThere
  /\ KeepsExecution
  /\ NothingHalfWritten

-----------------------------------------------------------------------------
(* The state keeps its type, and an archived directory leaves nothing.     *)

(* A non-empty set of ordinals has a least one.                            *)
LEMMA MinIsElement == ASSUME NEW S, S \subseteq Nat, S # {} PROVE Min(S) \in S
<1>1. PICK x \in S : \A y \in S : ~(<<y, x>> \in OpToRel(<, Nat))
  BY NatLessThanWellFounded, WFMin
<1>2. ASSUME NEW y \in S, y < x PROVE FALSE
  <2>1. <<y, x>> \in Nat \X Nat /\ <<y, x>>[1] < <<y, x>>[2]
    BY <1>2
  <2>2. <<y, x>> \in OpToRel(<, Nat)
    BY <2>1, Zenon DEF OpToRel
  <2> QED
    BY <1>1, <2>2
<1>3. \A y \in S : x =< y
  BY <1>2
<1> QED
  BY <1>3 DEF Min

(* The archive name chosen is a free one within the limit.                 *)
LEMMA ChosenOrdinal ==
  ASSUME NEW reason, FreeOrdinals(reason) # {}
  PROVE  Min(FreeOrdinals(reason)) \in 1..ArchiveLimit
<1>1. FreeOrdinals(reason) \subseteq 1..ArchiveLimit /\ 1..ArchiveLimit \subseteq Nat
  BY CaptureAssumption DEF FreeOrdinals
<1> QED
  BY <1>1, MinIsElement

(* The recovery of an interrupted capture keeps the types.                 *)
LEMMA TypeRecovery ==
  ASSUME TypeOK, Tidy, NEW p \in Procs, Recovery(p)
  PROVE  TypeOK'
<1> USE CaptureAssumption DEF TypeOK, Goto, dirVars, history
<1> USE DEF Steps, Looking, Executing, Terminal
<1>1. CASE Look(p)
  BY <1>1 DEF Look
<1>2. CASE Reuse(p)
  BY <1>2 DEF Reuse
<1>3. CASE Judge(p)
  BY <1>3 DEF Judge, ReasonNow, Claims, Reasons
<1>4. CASE RemoveExec(p)
  BY <1>4 DEF RemoveExec
<1>5. CASE ChooseArchive(p)
  <2>1. CASE exists /\ FreeOrdinals(claim[p].reason) # {}
    <3>1. Min(FreeOrdinals(claim[p].reason)) \in Nat
      BY <2>1, ChosenOrdinal
    <3>2. claim' = [claim EXCEPT ![p].ordinal = Min(FreeOrdinals(claim[p].reason))]
      BY <1>5, <2>1 DEF ChooseArchive
    <3>3. claim' \in [Procs -> Claims]
      BY <3>1, <3>2 DEF Claims
    <3> QED
      BY <1>5, <2>1, <3>3 DEF ChooseArchive
  <2>2. CASE ~exists \/ FreeOrdinals(claim[p].reason) = {}
    BY <1>5, <2>2 DEF ChooseArchive, NoClaim, Claims, Reasons
  <2> QED
    BY <2>1, <2>2
<1>6. CASE MarkInterrupted(p)
  BY <1>6 DEF MarkInterrupted, Ensure
<1>7. CASE RenameAway(p)
  <2>1. claim[p].reason \in Reasons /\ claim[p].ordinal \in 1..ArchiveLimit
    BY <1>7 DEF RenameAway, Tidy, Claims
  <2>2. claim' \in [Procs -> Claims]
    BY <1>7 DEF RenameAway, NoClaim, Claims, Reasons
  <2>3. archived' \subseteq Reasons \X (1..ArchiveLimit)
    BY <1>7, <2>1 DEF RenameAway
  <2>4. maker' \in Procs \cup {None} /\ bundle' \subseteq Procs
    BY <1>7 DEF RenameAway
  <2>5. file' \in [Files -> Procs \cup {None, Torn}]
    BY <1>7 DEF RenameAway, NoFiles
  <2>6. marks' \subseteq {"failure", "interruption"}
    BY <1>7 DEF RenameAway
  <2>7. pc' \in [Procs -> Steps]
    BY <1>7 DEF RenameAway
  <2>8. robbed' \subseteq Procs
    BY <1>7 DEF RenameAway
  <2>9. exists' \in BOOLEAN
    BY <1>7 DEF RenameAway
  <2>10. stale' \in BOOLEAN /\ cut' \in BOOLEAN
    BY <1>7 DEF RenameAway
  <2>11. UNCHANGED <<again, result, exec, expired>>
    BY <1>7 DEF RenameAway
  <2> QED
    BY <2>2, <2>3, <2>4, <2>5, <2>6, <2>7, <2>8, <2>9, <2>10, <2>11
<1> QED
  BY <1>1, <1>2, <1>3, <1>4, <1>5, <1>6, <1>7 DEF Recovery

(* So does a capture, ...                                                  *)
LEMMA TypeCapture ==
  ASSUME TypeOK, NEW p \in Procs, Capture(p)
  PROVE  TypeOK'
<1> USE CaptureAssumption DEF TypeOK, Goto, Ensure, dirVars, history
<1> USE DEF Steps, Looking, Executing, Terminal, Files
<1>1. CASE MakeDirectory(p)
  BY <1>1 DEF MakeDirectory
<1>2. CASE WriteIntent(p)
  BY <1>2 DEF WriteIntent
<1>3. CASE IntentFails(p)
  <2>1. exists' \in BOOLEAN
    BY <1>3 DEF IntentFails
  <2>2. file' \in [Files -> Procs \cup {None, Torn}]
    BY <1>3 DEF IntentFails
  <2>3. PICK step \in {"failed", "crashed"} : pc' = [pc EXCEPT ![p] = step]
    BY <1>3 DEF IntentFails
  <2> QED
    BY <1>3, <2>1, <2>2, <2>3 DEF IntentFails
<1>4. CASE StartExecution(p)
  BY <1>4 DEF StartExecution
<1>5. CASE FinishExecution(p)
  BY <1>5 DEF FinishExecution, Authorized
<1>6. CASE WriteReport(p)
  BY <1>6 DEF WriteReport, WriteFile
<1>7. CASE WriteContext(p)
  BY <1>7 DEF WriteContext, WriteFile
<1>8. CASE CheckInventory(p)
  BY <1>8 DEF CheckInventory, Authorized
<1>9. CASE WriteBundle(p)
  BY <1>9 DEF WriteBundle, Readable
<1>10. CASE Authorize(p)
  BY <1>10 DEF Authorize, Authorized
<1>11. CASE Complete(p)
  BY <1>11 DEF Complete, WriteFile
<1>12. CASE CompletionTorn(p)
  BY <1>12 DEF CompletionTorn
<1>13. CASE ExecutionFails(p)
  BY <1>13 DEF ExecutionFails
<1>14. CASE MarkFailure(p)
  BY <1>14 DEF MarkFailure
<1> QED
  BY <1>1, <1>2, <1>3, <1>4, <1>5, <1>6, <1>7, <1>8, <1>9, <1>10, <1>11,
     <1>12, <1>13, <1>14 DEF Capture

(* ... and every step.                                                     *)
LEMMA TypeStep == ASSUME TypeOK, Tidy, [Next]_vars PROVE TypeOK'
<1>1. CASE UNCHANGED vars
  BY <1>1 DEF TypeOK, vars, dirVars, history
<1>2. ASSUME NEW p \in Procs, Stops(p) PROVE TypeOK'
  BY <1>2 DEF TypeOK, Stops, Goto, NoClaim, Claims, Reasons, dirVars, history,
              Steps, Terminal
<1>3. ASSUME NEW p \in Procs, Expire(p) PROVE TypeOK'
  BY <1>3 DEF TypeOK, Expire, dirVars, history
<1> QED
  BY <1>1, <1>2, <1>3, TypeRecovery, TypeCapture DEF Next

(* Only the rename ends a directory, and it leaves nothing of it.          *)
LEMMA TidyStep == ASSUME TypeOK, Tidy, [Next]_vars PROVE Tidy'
<1> USE DEF TypeOK, Tidy, Goto, Ensure, dirVars, history
<1> USE DEF Looking, Executing, Terminal
<1>1. CASE UNCHANGED vars
  BY <1>1 DEF vars
<1>2. ASSUME NEW p \in Procs, Recovery(p) PROVE Tidy'
  <2>1. CASE ChooseArchive(p)
    <3>1. ASSUME FreeOrdinals(claim[p].reason) # {}
          PROVE  Min(FreeOrdinals(claim[p].reason)) \in 1..ArchiveLimit
      BY <3>1, ChosenOrdinal
    <3> QED
      BY <2>1, <3>1 DEF ChooseArchive, Claims
  <2>2. CASE RenameAway(p)
    BY <2>2 DEF RenameAway
  <2>3. CASE Judge(p)
    BY <2>3 DEF Judge
  <2>4. CASE Look(p) \/ Reuse(p) \/ RemoveExec(p) \/ MarkInterrupted(p)
    BY <2>4 DEF Look, Reuse, RemoveExec, MarkInterrupted
  <2> QED
    BY <1>2, <2>1, <2>2, <2>3, <2>4 DEF Recovery
<1>3. ASSUME NEW p \in Procs, Capture(p) PROVE Tidy'
  <2>1. CASE \/ MakeDirectory(p) \/ WriteIntent(p) \/ IntentFails(p)
             \/ StartExecution(p) \/ FinishExecution(p)
    BY <2>1 DEF MakeDirectory, WriteIntent, IntentFails, StartExecution,
                FinishExecution, Authorized
  <2>2. CASE \/ WriteReport(p) \/ WriteContext(p) \/ CheckInventory(p)
             \/ WriteBundle(p) \/ Authorize(p)
    BY <2>2 DEF WriteReport, WriteContext, WriteFile, CheckInventory, WriteBundle,
                Authorize, Authorized
  <2>3. CASE \/ Complete(p) \/ CompletionTorn(p) \/ ExecutionFails(p)
             \/ MarkFailure(p)
    BY <2>3 DEF Complete, WriteFile, CompletionTorn, ExecutionFails, MarkFailure
  <2> QED
    BY <1>3, <2>1, <2>2, <2>3 DEF Capture
<1>4. ASSUME NEW p \in Procs, Stops(p) \/ Expire(p) PROVE Tidy'
  BY <1>4 DEF Stops, Expire
<1> QED
  BY <1>1, <1>2, <1>3, <1>4 DEF Next

-----------------------------------------------------------------------------
(* An invocation that was not robbed finds in its directory what it wrote. *)

(* A recovery by anyone: only the rename touches a directory, and it robs  *)
(* the running owner of the one it takes.                                  *)
LEMMA KeepsRecovery ==
  ASSUME TypeOK, KeepsDirectory, NEW p \in Procs, Recovery(p)
  PROVE  KeepsDirectory'
<1> SUFFICES ASSUME NEW q \in Procs, q \notin robbed' PROVE Keeps(q)'
  BY DEF KeepsDirectory
<1> USE CaptureAssumption DEF TypeOK, Goto, Ensure, dirVars, history
<1> USE DEF Keeps, Owning, Looking, Executing, Terminal
<1>1. q \notin robbed => Keeps(q)
  BY DEF KeepsDirectory
<1>2. CASE Look(p) \/ Reuse(p) \/ Judge(p) \/ RemoveExec(p) \/ ChooseArchive(p)
  BY <1>1, <1>2 DEF Look, Reuse, Judge, RemoveExec, ChooseArchive
<1>3. CASE MarkInterrupted(p)
  BY <1>1, <1>3 DEF MarkInterrupted
<1>4. CASE RenameAway(p)
  <2>1. robbed \subseteq robbed'
    BY <1>4 DEF RenameAway
  <2>2. pc'[q] \in Owning => pc'[q] = pc[q]
    BY <1>4 DEF RenameAway
  <2>3. CASE exists' = exists /\ UNCHANGED <<maker, file, bundle>>
    BY <1>1, <2>1, <2>2, <2>3
  <2>4. CASE exists /\ robbed' = robbed \cup {r \in Procs : r = maker /\ Running(r)}
    BY <1>1, <2>2, <2>4 DEF Running
  <2> QED
    BY <1>4, <2>3, <2>4 DEF RenameAway
<1> QED
  BY <1>2, <1>3, <1>4 DEF Recovery

(* A capture by anyone: nobody writes over a file that is there.           *)
LEMMA KeepsCapture ==
  ASSUME TypeOK, Tidy, KeepsDirectory, NEW p \in Procs, Capture(p)
  PROVE  KeepsDirectory'
<1> SUFFICES ASSUME NEW q \in Procs, q \notin robbed' PROVE Keeps(q)'
  BY DEF KeepsDirectory
<1> USE CaptureAssumption DEF TypeOK, Goto, Ensure, dirVars, history
<1> USE DEF Keeps, Owning, Executing, Terminal, Files
<1>1. Keeps(q)
  <2>1. robbed' = robbed
    BY DEF Capture, MakeDirectory, WriteIntent, IntentFails, StartExecution,
           FinishExecution, WriteReport, WriteContext, CheckInventory,
           WriteBundle, Authorize, Complete, CompletionTorn, ExecutionFails,
           MarkFailure
  <2> QED
    BY <2>1, Zenon DEF KeepsDirectory
<1>2. CASE MakeDirectory(p)
  BY <1>1, <1>2 DEF MakeDirectory
<1>3. CASE WriteIntent(p)
  BY <1>1, <1>3 DEF WriteIntent
<1>4. CASE IntentFails(p)
  BY <1>1, <1>4 DEF IntentFails
<1>5. CASE StartExecution(p) \/ FinishExecution(p)
  BY <1>1, <1>5 DEF StartExecution, FinishExecution, Authorized
<1>6. CASE WriteReport(p)
  BY <1>1, <1>6 DEF WriteReport, WriteFile
<1>7. CASE WriteContext(p)
  BY <1>1, <1>7 DEF WriteContext, WriteFile
<1>8. CASE CheckInventory(p) \/ Authorize(p)
  BY <1>1, <1>8 DEF CheckInventory, Authorize, Authorized
<1>9. CASE WriteBundle(p)
  <2>1. UNCHANGED <<maker, file>> /\ exists'
    BY <1>9 DEF WriteBundle
  <2>2. bundle # {} => bundle' = bundle
    BY <1>9 DEF WriteBundle
  <2>3. pc'[q] \in Owning => pc'[q] = pc[q] \/ p = q
    BY <1>9 DEF WriteBundle
  <2>4. CASE p # q
    BY <1>1, <2>1, <2>2, <2>3, <2>4
  <2>5. CASE p = q
    <3>1. Keeps(p) /\ Sources = {p}
      BY <1>1, <1>9, <2>5 DEF WriteBundle, Sources
    <3>2. pc'[p] = "failure" \/ (pc'[p] = "authorize" /\ bundle' = {p})
      BY <1>9, <3>1 DEF WriteBundle
    <3> QED
      BY <1>9, <2>1, <2>5, <3>1, <3>2 DEF WriteBundle
  <2> QED
    BY <2>4, <2>5
<1>10. CASE Complete(p)
  BY <1>1, <1>10 DEF Complete, WriteFile
<1>11. CASE CompletionTorn(p)
  BY <1>1, <1>11 DEF CompletionTorn
<1>12. CASE ExecutionFails(p) \/ MarkFailure(p)
  BY <1>1, <1>12 DEF ExecutionFails, MarkFailure
<1> QED
  BY <1>2, <1>3, <1>4, <1>5, <1>6, <1>7, <1>8, <1>9, <1>10, <1>11, <1>12 DEF Capture

LEMMA KeepsStep ==
  ASSUME TypeOK, Tidy, KeepsDirectory, [Next]_vars
  PROVE  KeepsDirectory'
<1> USE DEF KeepsDirectory, Keeps, Owning, Executing, Terminal
<1>1. CASE UNCHANGED vars
  BY <1>1 DEF vars, dirVars, history
<1>2. ASSUME NEW p \in Procs, Stops(p) PROVE KeepsDirectory'
  BY <1>2 DEF Stops, Goto, TypeOK, dirVars, history, Looking
<1>3. ASSUME NEW p \in Procs, Expire(p) PROVE KeepsDirectory'
  BY <1>3 DEF Expire, dirVars, history
<1> QED
  BY <1>1, <1>2, <1>3, KeepsRecovery, KeepsCapture DEF Next

-----------------------------------------------------------------------------
(* The lease protects its owner.                                           *)

(* What disturbs, disturbs for good, ...                                   *)
LEMMA UndisturbedBefore == ASSUME [Next]_vars, Undisturbed' PROVE Undisturbed
<1> USE DEF Undisturbed, dirVars, history
<1>1. CASE UNCHANGED vars
  BY <1>1 DEF vars
<1>2. ASSUME NEW p \in Procs, Recovery(p) PROVE Undisturbed
  <2>1. CASE Look(p) \/ Reuse(p) \/ Judge(p) \/ ChooseArchive(p)
    BY <2>1 DEF Look, Reuse, Judge, ChooseArchive
  <2>2. CASE RemoveExec(p) \/ MarkInterrupted(p)
    BY <2>2 DEF RemoveExec, MarkInterrupted
  <2>3. CASE RenameAway(p)
    <3>1. CASE UNCHANGED stale
      BY <2>3, <3>1 DEF RenameAway
    <3>2. CASE stale' = (stale \/ Misses(p))
      BY <2>3, <3>2 DEF RenameAway
    <3> QED
      BY <2>3, <3>1, <3>2, Zenon DEF RenameAway
  <2> QED
    BY <1>2, <2>1, <2>2, <2>3 DEF Recovery
<1>3. ASSUME NEW p \in Procs, Capture(p) PROVE Undisturbed
  BY <1>3 DEF Capture, MakeDirectory, WriteIntent, IntentFails, StartExecution,
              FinishExecution, WriteReport, WriteContext, CheckInventory,
              WriteBundle, Authorize, Complete, CompletionTorn, ExecutionFails,
              MarkFailure
<1>4. ASSUME NEW p \in Procs, Stops(p) \/ Expire(p) PROVE Undisturbed
  BY <1>4 DEF Stops, Expire
<1> QED
  BY <1>1, <1>2, <1>3, <1>4 DEF Next

(* ... and an invocation that has ended takes no step.                     *)
LEMMA EndedStays ==
  ASSUME TypeOK, [Next]_vars, NEW q \in Procs, ~Running(q)
  PROVE  ~Running(q)'
<1> USE DEF TypeOK, Running, Goto, Looking, Executing, Terminal
<1>1. CASE UNCHANGED vars
  BY <1>1 DEF vars
<1>2. ASSUME NEW p \in Procs, Recovery(p) PROVE ~Running(q)'
  BY <1>2 DEF Recovery, Look, Reuse, Judge, RemoveExec, ChooseArchive,
              MarkInterrupted, RenameAway
<1>3. ASSUME NEW p \in Procs, Capture(p) PROVE ~Running(q)'
  <2>1. CASE \/ MakeDirectory(p) \/ WriteIntent(p) \/ IntentFails(p)
             \/ StartExecution(p) \/ FinishExecution(p)
    BY <2>1 DEF MakeDirectory, WriteIntent, IntentFails, StartExecution,
                FinishExecution, Authorized
  <2>2. CASE \/ WriteReport(p) \/ WriteContext(p) \/ CheckInventory(p)
             \/ WriteBundle(p) \/ Authorize(p)
    BY <2>2 DEF WriteReport, WriteContext, WriteFile, CheckInventory, WriteBundle,
                Authorize, Authorized
  <2>3. CASE \/ Complete(p) \/ CompletionTorn(p) \/ ExecutionFails(p)
             \/ MarkFailure(p)
    BY <2>3 DEF Complete, WriteFile, CompletionTorn, ExecutionFails, MarkFailure
  <2> QED
    BY <1>3, <2>1, <2>2, <2>3 DEF Capture
<1>4. ASSUME NEW p \in Procs, Stops(p) \/ Expire(p) PROVE ~Running(q)'
  BY <1>4 DEF Stops, Expire
<1> QED
  BY <1>1, <1>2, <1>3, <1>4 DEF Next

(* A recovery begins on an intent whose owner has ended, and what it does  *)
(* to a directory it does to that owner's.                                 *)
LEMMA EndedRecovery ==
  ASSUME TypeOK, Tidy, RecoversEnded, NEW p \in Procs, Recovery(p),
         Undisturbed, Undisturbed'
  PROVE  RecoversEnded'
<1> USE CaptureAssumption DEF TypeOK, Goto, Ensure, dirVars, history
<1> USE DEF Claiming, Looking, Executing, Terminal
<1>1. ASSUME NEW q \in Procs, pc[q] \in Terminal PROVE pc'[q] \in Terminal
  <2>1. Next
    BY DEF Next
  <2> QED
    BY <1>1, <2>1, EndedStays DEF Running
<1>2. /\ robbed = {}
      /\ \A q \in Procs : pc[q] \in Claiming =>
           claim[q].owner \in Procs /\ pc'[claim[q].owner] \in Terminal
      /\ file["intent"] \in Procs => maker = file["intent"]
      /\ "failure" \in marks => maker \in Procs /\ pc'[maker] \in Terminal
  BY <1>1 DEF RecoversEnded, Running
<1>3. SUFFICES /\ robbed' = {}
               /\ \A q \in Procs : pc'[q] \in Claiming =>
                    claim'[q].owner \in Procs /\ pc'[claim'[q].owner] \in Terminal
               /\ file'["intent"] \in Procs => maker' = file'["intent"]
               /\ "failure" \in marks' => maker' \in Procs /\ pc'[maker'] \in Terminal
  BY DEF RecoversEnded, Running
<1>4. CASE Look(p) \/ Reuse(p)
  BY <1>2, <1>4 DEF Look, Reuse
<1>5. CASE Judge(p)
  <2>1. ASSUME file["intent"] \in Procs, MayBeRecovered(file["intent"])
        PROVE  pc'[file["intent"]] \in Terminal
    BY <1>1, <1>2, <2>1 DEF MayBeRecovered, Undisturbed, Running
  <2> QED
    BY <1>2, <1>5, <2>1 DEF Judge
<1>6. CASE RemoveExec(p)
  BY <1>2, <1>6 DEF RemoveExec
<1>7. CASE ChooseArchive(p)
  BY <1>2, <1>7 DEF ChooseArchive, Claims
<1>8. CASE MarkInterrupted(p)
  BY <1>2, <1>8 DEF MarkInterrupted
<1>9. CASE RenameAway(p)
  <2>1. \A q \in Procs : pc'[q] \in Claiming => pc[q] \in Claiming /\ claim'[q] = claim[q]
    BY <1>9 DEF RenameAway
  <2>2. CASE UNCHANGED <<robbed, maker, file, marks>>
    BY <1>2, <2>1, <2>2
  <2>3. CASE /\ stale' = (stale \/ Misses(p))
             /\ robbed' = robbed \cup {q \in Procs : q = maker /\ Running(q)}
             /\ file' = NoFiles
             /\ marks' = {}
    <3>1. ~Misses(p)
      BY <2>3 DEF Undisturbed
    <3>2. maker \in Procs /\ ~Running(maker)
      BY <1>9, <3>1 DEF Misses, RecoversEnded, RenameAway
    <3>3. robbed' = {}
      BY <1>2, <2>3, <3>2
    <3>4. file'["intent"] \notin Procs
      BY <2>3 DEF NoFiles, Files
    <3> QED
      BY <1>2, <2>1, <2>3, <3>3, <3>4
  <2> QED
    BY <1>9, <2>2, <2>3 DEF RenameAway
<1> QED
  BY <1>4, <1>5, <1>6, <1>7, <1>8, <1>9 DEF Recovery

(* An undisturbed capture writes its intent and its failure marker into    *)
(* the directory it made.                                                  *)
LEMMA EndedCapture ==
  ASSUME TypeOK, Tidy, KeepsDirectory, RecoversEnded, NEW p \in Procs, Capture(p),
         Undisturbed
  PROVE  RecoversEnded'
<1> USE CaptureAssumption DEF TypeOK, Goto, Ensure, dirVars, history
<1> USE DEF Claiming, Looking, Executing, Terminal, Files
<1>1. ASSUME NEW q \in Procs, pc[q] \in Terminal PROVE pc'[q] \in Terminal
  <2>1. Next
    BY DEF Next
  <2> QED
    BY <1>1, <2>1, EndedStays DEF Running
<1>2. /\ robbed = {}
      /\ \A q \in Procs : pc[q] \in Claiming =>
           claim[q].owner \in Procs /\ pc'[claim[q].owner] \in Terminal
      /\ file["intent"] \in Procs => maker = file["intent"]
      /\ "failure" \in marks => maker \in Procs /\ pc'[maker] \in Terminal
  BY <1>1 DEF RecoversEnded, Running
<1>3. pc[p] \in Owning => exists /\ maker = p
  BY <1>2, Zenon DEF KeepsDirectory, Keeps
<1>4. SUFFICES /\ robbed' = {}
               /\ \A q \in Procs : pc'[q] \in Claiming =>
                    claim'[q].owner \in Procs /\ pc'[claim'[q].owner] \in Terminal
               /\ file'["intent"] \in Procs => maker' = file'["intent"]
               /\ "failure" \in marks' => maker' \in Procs /\ pc'[maker'] \in Terminal
  BY DEF RecoversEnded, Running
<1>5. CASE MakeDirectory(p)
  <2>1. ~exists => marks = {} /\ file["intent"] = None
    BY DEF Tidy, NoFiles
  <2> QED
    BY <1>2, <1>5, <2>1 DEF MakeDirectory
<1>6. CASE WriteIntent(p) \/ IntentFails(p)
  BY <1>2, <1>3, <1>6 DEF WriteIntent, IntentFails, Owning
<1>7. CASE StartExecution(p) \/ FinishExecution(p) \/ CheckInventory(p) \/ Authorize(p)
  BY <1>2, <1>7 DEF StartExecution, FinishExecution, CheckInventory, Authorize,
                    Authorized
<1>8. CASE WriteReport(p) \/ WriteContext(p) \/ WriteBundle(p)
  BY <1>2, <1>8 DEF WriteReport, WriteContext, WriteFile, WriteBundle
<1>9. CASE Complete(p) \/ CompletionTorn(p) \/ ExecutionFails(p)
  BY <1>2, <1>9 DEF Complete, WriteFile, CompletionTorn, ExecutionFails
<1>10. CASE MarkFailure(p)
  <2>1. maker' = p /\ pc'[p] \in Terminal
    BY <1>3, <1>10 DEF MarkFailure, Owning
  <2> QED
    BY <1>2, <1>10, <2>1 DEF MarkFailure
<1> QED
  BY <1>5, <1>6, <1>7, <1>8, <1>9, <1>10 DEF Capture

LEMMA EndedStep ==
  ASSUME TypeOK, Tidy, KeepsDirectory, RecoversEnded, [Next]_vars
  PROVE  RecoversEnded'
<1> SUFFICES ASSUME Undisturbed' PROVE RecoversEnded'
  BY DEF RecoversEnded, Running
<1>1. Undisturbed
  BY UndisturbedBefore
<1>2. CASE UNCHANGED vars
  BY <1>1, <1>2 DEF RecoversEnded, Running, vars, dirVars, history
<1>3. ASSUME NEW p \in Procs, Stops(p) \/ Expire(p) PROVE RecoversEnded'
  <2>1. UNCHANGED <<robbed, maker, file, marks>>
    BY <1>3 DEF Stops, Expire, dirVars, history
  <2>2. \A q \in Procs : pc'[q] \in Claiming => pc[q] \in Claiming /\ claim'[q] = claim[q]
    BY <1>3 DEF Stops, Expire, Goto, TypeOK, Claiming
  <2>3. ASSUME NEW q \in Procs, pc[q] \in Terminal PROVE pc'[q] \in Terminal
    BY <2>3, EndedStays DEF Running
  <2> QED
    BY <1>1, <2>1, <2>2, <2>3 DEF RecoversEnded, Running
<1> QED
  BY <1>1, <1>2, <1>3, EndedRecovery, EndedCapture DEF Next

-----------------------------------------------------------------------------
(* A returned capture stays the one in the directory.                      *)

LEMMA ReturnsRecovery ==
  ASSUME TypeOK, Tidy, ReturnsWhatIsThere, NEW p \in Procs, Recovery(p),
         Undisturbed, Undisturbed'
  PROVE  ReturnsWhatIsThere'
<1> USE CaptureAssumption DEF TypeOK, Goto, Ensure, dirVars, history
<1> USE DEF ReturnsWhatIsThere
<1>1. CASE \/ Look(p) \/ Judge(p) \/ RemoveExec(p) \/ ChooseArchive(p)
           \/ MarkInterrupted(p)
  BY <1>1 DEF Look, Judge, RemoveExec, ChooseArchive, MarkInterrupted
<1>2. CASE Reuse(p)
  <2>1. file["completion"] \in Procs => exists
    BY DEF Tidy, NoFiles, Files
  <2> QED
    BY <1>2, <2>1 DEF Reuse
<1>3. CASE RenameAway(p)
  <2>1. CASE UNCHANGED <<exists, file>>
    BY <1>3, <2>1 DEF RenameAway
  <2>2. CASE stale' = (stale \/ Misses(p))
    <3>1. \A q \in Procs : result[q] = None
      BY <2>2 DEF Undisturbed, Misses
    <3> QED
      BY <1>3, <3>1 DEF RenameAway
  <2> QED
    BY <1>3, <2>1, <2>2 DEF RenameAway
<1> QED
  BY <1>1, <1>2, <1>3 DEF Recovery

LEMMA ReturnsCapture ==
  ASSUME TypeOK, ReturnsWhatIsThere, NEW p \in Procs, Capture(p), Undisturbed
  PROVE  ReturnsWhatIsThere'
<1> USE CaptureAssumption DEF TypeOK, Goto, Ensure, dirVars, history, Files
<1> USE DEF ReturnsWhatIsThere
<1>1. CASE \/ MakeDirectory(p) \/ WriteIntent(p) \/ IntentFails(p)
           \/ StartExecution(p) \/ FinishExecution(p)
  BY <1>1 DEF MakeDirectory, WriteIntent, IntentFails, StartExecution,
              FinishExecution
<1>2. CASE \/ WriteReport(p) \/ WriteContext(p) \/ CheckInventory(p)
           \/ WriteBundle(p) \/ Authorize(p)
  BY <1>2 DEF WriteReport, WriteContext, WriteFile, CheckInventory, WriteBundle,
              Authorize
<1>3. CASE Complete(p) \/ CompletionTorn(p)
  BY <1>3 DEF Complete, WriteFile, CompletionTorn
<1>4. CASE ExecutionFails(p) \/ MarkFailure(p)
  BY <1>4 DEF ExecutionFails, MarkFailure
<1> QED
  BY <1>1, <1>2, <1>3, <1>4 DEF Capture

LEMMA ReturnsStep ==
  ASSUME TypeOK, Tidy, ReturnsWhatIsThere, [Next]_vars
  PROVE  ReturnsWhatIsThere'
<1> SUFFICES ASSUME Undisturbed' PROVE ReturnsWhatIsThere'
  BY DEF ReturnsWhatIsThere
<1>1. Undisturbed
  BY UndisturbedBefore
<1>2. CASE UNCHANGED vars
  BY <1>1, <1>2 DEF ReturnsWhatIsThere, vars, dirVars
<1>3. ASSUME NEW p \in Procs, Stops(p) \/ Expire(p) PROVE ReturnsWhatIsThere'
  BY <1>1, <1>3 DEF ReturnsWhatIsThere, Stops, Expire, dirVars
<1> QED
  BY <1>1, <1>2, <1>3, ReturnsRecovery, ReturnsCapture DEF Next

-----------------------------------------------------------------------------
(* An execution directory is there as long as its invocation needs it.     *)
LEMMA ExecutionStep ==
  ASSUME TypeOK, RecoversEnded, KeepsExecution, [Next]_vars
  PROVE  KeepsExecution'
<1> SUFFICES ASSUME Undisturbed',
                    NEW q \in Procs, pc'[q] \in Executing \ {"execute"}
             PROVE  q \in exec'
  BY DEF KeepsExecution
<1>1. Undisturbed
  BY UndisturbedBefore
<1>2. pc[q] \in Executing \ {"execute"} => q \in exec
  BY <1>1 DEF KeepsExecution
<1> USE DEF TypeOK, Goto, Looking, Executing, Terminal
<1>3. CASE UNCHANGED vars
  BY <1>2, <1>3 DEF vars
<1>4. ASSUME NEW p \in Procs, Recovery(p) PROVE q \in exec'
  <2>1. CASE RemoveExec(p)
    <3>1. q # claim[p].owner
      BY <1>1, <2>1 DEF RecoversEnded, RemoveExec, Claiming, Running
    <3> QED
      BY <1>2, <2>1, <3>1 DEF RemoveExec
  <2>2. CASE \/ Look(p) \/ Reuse(p) \/ Judge(p) \/ ChooseArchive(p)
             \/ MarkInterrupted(p) \/ RenameAway(p)
    BY <1>2, <2>2 DEF Look, Reuse, Judge, ChooseArchive, MarkInterrupted, RenameAway
  <2> QED
    BY <1>4, <2>1, <2>2 DEF Recovery
<1>5. ASSUME NEW p \in Procs, Capture(p) PROVE q \in exec'
  <2>1. CASE \/ MakeDirectory(p) \/ WriteIntent(p) \/ IntentFails(p)
             \/ StartExecution(p) \/ FinishExecution(p)
    BY <1>2, <2>1 DEF MakeDirectory, WriteIntent, IntentFails, StartExecution,
                      FinishExecution, Authorized
  <2>2. CASE \/ WriteReport(p) \/ WriteContext(p) \/ CheckInventory(p)
             \/ WriteBundle(p) \/ Authorize(p)
    BY <1>2, <2>2 DEF WriteReport, WriteContext, WriteFile, CheckInventory,
                      WriteBundle, Authorize, Authorized
  <2>3. CASE \/ Complete(p) \/ CompletionTorn(p) \/ ExecutionFails(p)
             \/ MarkFailure(p)
    BY <1>2, <2>3 DEF Complete, WriteFile, CompletionTorn, ExecutionFails, MarkFailure
  <2> QED
    BY <1>5, <2>1, <2>2, <2>3 DEF Capture
<1>6. ASSUME NEW p \in Procs, Stops(p) \/ Expire(p) PROVE q \in exec'
  BY <1>2, <1>6 DEF Stops, Expire
<1> QED
  BY <1>3, <1>4, <1>5, <1>6 DEF Next

-----------------------------------------------------------------------------
(* Without a cut nothing is left half written.                             *)

LEMMA WholeRecovery ==
  ASSUME TypeOK, Tidy, RecoversEnded, NothingHalfWritten, NEW p \in Procs,
         Recovery(p), Undisturbed, Undisturbed', ~cut
  PROVE  NothingHalfWritten'
<1> USE CaptureAssumption DEF TypeOK, Goto, Ensure, dirVars, history
<1> USE DEF NothingHalfWritten, HasIntent, IntentIsNext, CompletionIsWhole, Verified
<1>1. CASE Look(p) \/ Reuse(p) \/ Judge(p) \/ ChooseArchive(p)
  BY <1>1 DEF Look, Reuse, Judge, ChooseArchive
<1>2. CASE RemoveExec(p)
  <2>1. file["completion"] = None
    BY <1>2 DEF RemoveExec, Misses, Undisturbed
  <2> QED
    BY <1>2, <2>1 DEF RemoveExec
<1>3. CASE MarkInterrupted(p)
  <2>1. exists
    BY <1>3 DEF MarkInterrupted, Misses, Undisturbed
  <2> QED
    BY <1>3, <2>1 DEF MarkInterrupted
<1>4. CASE RenameAway(p)
  <2>1. \A q \in Procs : pc'[q] = pc[q] \/ pc[q] = "rename"
    BY <1>4 DEF RenameAway
  <2>2. \A q \in Procs : pc'[q] = "intent" => pc[q] = "intent"
    BY <1>4 DEF RenameAway
  <2>3. CASE UNCHANGED <<exists, maker, file, bundle, exec>>
    BY <2>1, <2>2, <2>3
  <2>4. CASE ~exists' /\ file' = NoFiles
    BY <2>4 DEF NoFiles, Files
  <2> QED
    BY <1>4, <2>3, <2>4 DEF RenameAway
<1> QED
  BY <1>1, <1>2, <1>3, <1>4 DEF Recovery

(* The bundle of a whole capture holds no more than its intent, so there   *)
(* is an intent, and it is not written again.                              *)
LEMMA WholeCapture ==
  ASSUME TypeOK, Tidy, KeepsDirectory, KeepsExecution, NothingHalfWritten,
         robbed = {}, NEW p \in Procs, Capture(p), Undisturbed, ~cut, ~cut'
  PROVE  NothingHalfWritten'
<1> USE CaptureAssumption DEF TypeOK, Goto, Ensure, dirVars, history, Files
<1> USE DEF HasIntent, IntentIsNext, CompletionIsWhole, Verified
<1>1. HasIntent /\ IntentIsNext /\ CompletionIsWhole
  BY DEF NothingHalfWritten
<1>2. \A q \in Procs : Keeps(q)
  BY Zenon DEF KeepsDirectory
<1>3. SUFFICES HasIntent' /\ IntentIsNext' /\ CompletionIsWhole'
  BY DEF NothingHalfWritten
<1>4. CASE MakeDirectory(p)
  <2>1. ~exists => file = NoFiles
    BY DEF Tidy
  <2> QED
    BY <1>1, <1>4, <2>1 DEF MakeDirectory, NoFiles
<1>5. CASE WriteIntent(p)
  <2>1. maker = p /\ \A q \in Procs : pc[q] = "intent" => q = p
    BY <1>2, <1>5 DEF WriteIntent, Keeps, Owning
  <2> QED
    BY <1>1, <1>5, <2>1 DEF WriteIntent
<1>6. CASE IntentFails(p) \/ CompletionTorn(p)
  BY <1>6 DEF IntentFails, CompletionTorn
<1>7. CASE \/ StartExecution(p) \/ FinishExecution(p) \/ CheckInventory(p)
           \/ Authorize(p) \/ ExecutionFails(p)
  BY <1>1, <1>7 DEF StartExecution, FinishExecution, CheckInventory, Authorize,
                    ExecutionFails, Authorized, Executing
<1>8. CASE WriteReport(p) \/ WriteContext(p) \/ WriteBundle(p) \/ MarkFailure(p)
  <2>1. exists
    BY <1>2, <1>8 DEF WriteReport, WriteContext, WriteBundle, MarkFailure, Keeps,
                      Owning, Executing
  <2>2. CASE WriteReport(p) \/ WriteContext(p)
    BY <1>1, <2>1, <2>2 DEF WriteReport, WriteContext, WriteFile
  <2>3. CASE WriteBundle(p) \/ MarkFailure(p)
    BY <1>1, <2>1, <2>3 DEF WriteBundle, MarkFailure
  <2> QED
    BY <1>8, <2>2, <2>3
<1>9. CASE Complete(p)
  <2>1. /\ exists
        /\ p \in exec
        /\ file["intent"] = p
        /\ file["report"] = p
        /\ file["context"] = p
        /\ bundle = {p}
    BY <1>2, <1>9 DEF Complete, Keeps, Owning, Executing, KeepsExecution
  <2> QED
    BY <1>1, <1>9, <2>1 DEF Complete, WriteFile
<1> QED
  BY <1>4, <1>5, <1>6, <1>7, <1>8, <1>9 DEF Capture

LEMMA WholeStep ==
  ASSUME Inv, [Next]_vars
  PROVE  NothingHalfWritten'
<1> SUFFICES ASSUME Undisturbed', ~cut' PROVE NothingHalfWritten'
  BY DEF NothingHalfWritten
<1>1. Undisturbed
  BY UndisturbedBefore
<1>2. CASE UNCHANGED vars
  BY <1>1, <1>2 DEF Inv, NothingHalfWritten, HasIntent, IntentIsNext,
                    CompletionIsWhole, Verified, vars, dirVars, history
<1>3. ASSUME NEW p \in Procs, Recovery(p) PROVE NothingHalfWritten'
  <2>1. UNCHANGED cut
    BY <1>3 DEF Recovery, Look, Reuse, Judge, RemoveExec, ChooseArchive,
                MarkInterrupted, RenameAway, history
  <2> QED
    BY <1>1, <1>3, <2>1, WholeRecovery DEF Inv
<1>4. ASSUME NEW p \in Procs, Capture(p) PROVE NothingHalfWritten'
  <2>1. ~cut
    BY <1>4 DEF Capture, MakeDirectory, WriteIntent, IntentFails, StartExecution,
                FinishExecution, WriteReport, WriteContext, CheckInventory,
                WriteBundle, Authorize, Complete, CompletionTorn, ExecutionFails,
                MarkFailure, history
  <2>2. robbed = {}
    BY <1>1 DEF Inv, RecoversEnded
  <2> QED
    BY <1>1, <1>4, <2>1, <2>2, WholeCapture DEF Inv
<1>5. ASSUME NEW p \in Procs, Stops(p) \/ Expire(p) PROVE NothingHalfWritten'
  BY <1>1, <1>5 DEF Inv, TypeOK, NothingHalfWritten, HasIntent, IntentIsNext,
                    CompletionIsWhole, Verified, Stops, Expire, Goto, dirVars, history
<1> QED
  BY <1>2, <1>3, <1>4, <1>5 DEF Next

-----------------------------------------------------------------------------
(* The inductive invariant holds in every state.                           *)

LEMMA Initially == Init => Inv
<1> SUFFICES ASSUME Init PROVE Inv
  OBVIOUS
<1> USE CaptureAssumption DEF Init, NoFiles, Files
<1>1. TypeOK
  BY DEF TypeOK, NoClaim, Claims, Reasons, Steps, Looking
<1>2. Tidy /\ KeepsDirectory
  BY DEF Tidy, KeepsDirectory, Keeps, Owning, Executing
<1>3. RecoversEnded /\ ReturnsWhatIsThere /\ KeepsExecution
  BY DEF RecoversEnded, ReturnsWhatIsThere, KeepsExecution, Claiming, Executing
<1>4. NothingHalfWritten
  BY DEF NothingHalfWritten, HasIntent, IntentIsNext, CompletionIsWhole
<1> QED
  BY <1>1, <1>2, <1>3, <1>4 DEF Inv

LEMMA Invariance == Spec => []Inv
<1>1. ASSUME Inv, [Next]_vars PROVE Inv'
  <2>1. TypeOK' /\ Tidy'
    BY <1>1, TypeStep, TidyStep DEF Inv
  <2>2. KeepsDirectory' /\ RecoversEnded'
    BY <1>1, KeepsStep, EndedStep DEF Inv
  <2>3. ReturnsWhatIsThere' /\ KeepsExecution' /\ NothingHalfWritten'
    BY <1>1, ReturnsStep, ExecutionStep, WholeStep DEF Inv
  <2> QED
    BY <2>1, <2>2, <2>3 DEF Inv
<1> QED
  BY <1>1, Initially, PTL DEF Spec

-----------------------------------------------------------------------------
(* The model is well typed: an archive name is within the limit, and a     *)
(* bundle never takes in what was not written by an invocation.            *)
THEOREM TypeCorrect == Spec => []TypeOK
<1>1. Inv => TypeOK
  BY DEF Inv
<1> QED
  BY <1>1, Invariance, PTL

(* Undisturbed, archiveInterruptedCapture renames no directory whose owner *)
(* still runs.                                                             *)
THEOREM OwnersAreProtected == Spec => []LeaseProtectsOwner
<1>1. Inv => LeaseProtectsOwner
  BY DEF Inv, RecoversEnded, LeaseProtectsOwner
<1> QED
  BY <1>1, Invariance, PTL

(* Undisturbed, any number of invocations of runPlaywrightRepairCapture    *)
(* for one request return one capture.                                     *)
THEOREM CaptureIsIdempotent == Spec => []Idempotent
<1>1. Inv => Idempotent
  BY Zenon DEF Inv, ReturnsWhatIsThere, Idempotent
<1> QED
  BY <1>1, Invariance, PTL

(* Undisturbed, and with no write cut short, loadExistingCapture meets no  *)
(* directory that it refuses for good until archiveInterruptedCapture has  *)
(* used up its names.                                                      *)
THEOREM CaptureIsRetriable == Spec => []Retriable
<1>1. Inv => Retriable
  <2> SUFFICES ASSUME Inv, Undisturbed, ~cut, Blocked,
                      FreeOrdinals(ReasonNow) # {}
               PROVE  FALSE
    BY DEF Retriable
  <2>1. HasIntent /\ CompletionIsWhole
    BY DEF Inv, NothingHalfWritten
  <2>2. maker \in Procs /\ ~Running(maker)
    BY <2>1 DEF Blocked, HasIntent
  <2>3. file["intent"] \in Procs
    BY <2>1, <2>2 DEF Blocked, HasIntent, Running, Terminal
  <2> QED
    BY <2>1, <2>3 DEF Blocked, CompletionIsWhole
<1> QED
  BY <1>1, Invariance, PTL

(* An invocation that completes in the directory it made leaves nothing    *)
(* there but its own files: executeCapture, whatever else runs.            *)
THEOREM FreshCaptures == Spec => FreshCaptureIsOwn
<1>1. ASSUME Inv, [Next]_vars, NEW p \in Procs PROVE CapturesItsOwn(p)
  <2> SUFFICES ASSUME pc[p] = "complete", pc'[p] = "captured", p \notin robbed
               PROVE  (\A f \in Files : file'[f] = p) /\ bundle' = {p}
    BY DEF CapturesItsOwn
  <2> USE <1>1 DEF Inv, TypeOK, Goto, Files
  <2>1. /\ file["intent"] = p
        /\ file["report"] = p
        /\ file["context"] = p
        /\ bundle = {p}
    BY Zenon DEF KeepsDirectory, Keeps, Executing
  <2>2. Complete(p)
    <3>1. PICK q \in Procs : Recovery(q) \/ Capture(q) \/ Stops(q) \/ Expire(q)
      BY DEF Next, vars
    <3>2. CASE Recovery(q)
      BY <3>2 DEF Recovery, Look, Reuse, Judge, RemoveExec, ChooseArchive,
                  MarkInterrupted, RenameAway
    <3>3. CASE Stops(q) \/ Expire(q)
      BY <3>3 DEF Stops, Expire
    <3>4. CASE Capture(q)
      BY <3>4 DEF Capture, MakeDirectory, WriteIntent, IntentFails, StartExecution,
                  FinishExecution, WriteReport, WriteContext, CheckInventory,
                  WriteBundle, Authorize, Complete, CompletionTorn, ExecutionFails,
                  MarkFailure, WriteFile, Authorized
    <3> QED
      BY <3>1, <3>2, <3>3, <3>4
  <2> QED
    BY <2>1, <2>2 DEF Complete, WriteFile, Ensure
<1>2. Inv /\ [Next]_vars => [\A p \in Procs : CapturesItsOwn(p)]_vars
  BY <1>1
<1> QED
  BY <1>2, Invariance, PTL DEF Spec, FreshCaptureIsOwn

-----------------------------------------------------------------------------
(* The refinement: invocations choose one capture.                         *)

(* An invocation answers when it ends, ...                                 *)
AnswersLast == \A p \in Procs : Running(p) => result[p] = None

(* ... and undisturbed, a completion by an invocation stands over its      *)
(* whole capture, torn files elsewhere or not.                             *)
CompletedIsWhole ==
  Undisturbed /\ file["completion"] \in Procs => Verified(file["completion"])

(* Only a reuse and a completion change what was returned.                 *)
LEMMA ResultsStay ==
  ASSUME [Next]_vars, \A p \in Procs : ~Reuse(p) /\ ~Complete(p)
  PROVE  result' = result
<1>1. CASE UNCHANGED vars
  BY <1>1 DEF vars
<1>2. ASSUME NEW p \in Procs, Recovery(p) \/ Capture(p) \/ Stops(p) \/ Expire(p)
     PROVE  result' = result
  BY <1>2 DEF Recovery, Capture, Look, Judge, RemoveExec, ChooseArchive,
     MarkInterrupted, RenameAway, MakeDirectory, WriteIntent, IntentFails,
     StartExecution, FinishExecution, WriteReport, WriteContext, CheckInventory,
     WriteBundle, Authorize, CompletionTorn, ExecutionFails, MarkFailure,
     Stops, Expire
<1> QED
  BY <1>1, <1>2 DEF Next

LEMMA AnswersStep ==
  ASSUME TypeOK, AnswersLast, [Next]_vars
  PROVE  AnswersLast'
<1> SUFFICES ASSUME NEW q \in Procs, Running(q)' PROVE result'[q] = None
  BY DEF AnswersLast
<1>1. Running(q) /\ result[q] = None
  BY EndedStays DEF AnswersLast
<1>2. CASE \A p \in Procs : ~Reuse(p) /\ ~Complete(p)
  BY <1>1, <1>2, ResultsStay
<1>3. ASSUME NEW p \in Procs, Reuse(p) PROVE result'[q] = None
  BY <1>1, <1>3 DEF Reuse, Goto, Running, Terminal, TypeOK
<1>4. ASSUME NEW p \in Procs, Complete(p) PROVE result'[q] = None
  BY <1>1, <1>4 DEF Complete, WriteFile, Goto, Running, Terminal, TypeOK
<1> QED
  BY <1>2, <1>3, <1>4

(* What a verified capture is made of is in place: no exclusive write      *)
(* meets an empty place in it.                                             *)
LEMMA VerifiedIsFull ==
  ASSUME TypeOK, file["completion"] \in Procs, Verified(file["completion"])
  PROVE  file["intent"] # None /\ file["report"] # None /\ file["context"] # None
         /\ bundle # {}
  BY CaptureAssumption DEF TypeOK, Verified

(* A completion is written over a whole capture, undisturbed.              *)
LEMMA CompletesWhole ==
  ASSUME Inv, Undisturbed, NEW p \in Procs, Complete(p), file["completion"] = None
  PROVE  /\ file'["completion"] = p
         /\ Verified(p)'
         /\ result' = [result EXCEPT ![p] = p]
<1>1. /\ p \in exec
      /\ file["intent"] = p
      /\ file["report"] = p
      /\ file["context"] = p
      /\ bundle = {p}
  <2>1. Keeps(p)
    BY DEF Inv, KeepsDirectory, RecoversEnded
  <2>2. pc[p] = "complete"
    BY DEF Complete
  <2>3. p \in exec
    BY <2>2 DEF Inv, KeepsExecution, Executing
  <2> QED
    BY <2>1, <2>2, <2>3 DEF Keeps, Executing
<1> QED
  BY <1>1 DEF Inv, TypeOK, Complete, WriteFile, Verified, Files

LEMMA WholeStays ==
  ASSUME Inv, CompletedIsWhole, [Next]_vars
  PROVE  CompletedIsWhole'
<1> SUFFICES ASSUME Undisturbed', file'["completion"] \in Procs
             PROVE  Verified(file["completion"])'
  BY DEF CompletedIsWhole
<1>1. Undisturbed
  BY UndisturbedBefore
<1>2. TypeOK
  BY DEF Inv
<1>3. file["completion"] \in Procs =>
        /\ Verified(file["completion"])
        /\ file["intent"] # None /\ file["report"] # None /\ file["context"] # None
        /\ bundle # {}
  BY <1>1, <1>2, VerifiedIsFull DEF CompletedIsWhole
<1>4. ASSUME UNCHANGED <<file, bundle>>, exec \subseteq exec'
     PROVE  Verified(file["completion"])'
  BY <1>3, <1>4 DEF Verified
<1>5. ASSUME NEW p \in Procs, Recovery(p) PROVE Verified(file["completion"])'
  <2>1. CASE Look(p) \/ Reuse(p) \/ Judge(p) \/ ChooseArchive(p) \/ MarkInterrupted(p)
    BY <1>4, <2>1 DEF Look, Reuse, Judge, ChooseArchive, MarkInterrupted, dirVars
  <2>2. CASE RemoveExec(p)
    BY <1>2, <2>2, CaptureAssumption
       DEF RemoveExec, Misses, Undisturbed, dirVars
  <2>3. CASE RenameAway(p)
    <3>1. CASE file' = NoFiles
      BY <3>1, CaptureAssumption DEF NoFiles, Files
    <3>2. CASE UNCHANGED <<dirVars, archived, robbed, stale>>
      BY <1>4, <2>3, <3>2 DEF RenameAway, dirVars
    <3> QED
      BY <2>3, <3>1, <3>2 DEF RenameAway
  <2> QED
    BY <1>5, <2>1, <2>2, <2>3 DEF Recovery
<1>6. ASSUME NEW p \in Procs, Capture(p) PROVE Verified(file["completion"])'
  <2> USE CaptureAssumption, <1>2 DEF TypeOK, Files
  <2>1. CASE \/ MakeDirectory(p) \/ StartExecution(p) \/ FinishExecution(p)
             \/ CheckInventory(p) \/ Authorize(p) \/ ExecutionFails(p)
             \/ MarkFailure(p)
    BY <1>4, <2>1 DEF MakeDirectory, StartExecution, FinishExecution, CheckInventory,
       Authorize, ExecutionFails, MarkFailure, dirVars
  <2>2. CASE WriteIntent(p) \/ IntentFails(p)
    <3>1. CASE file' = file
      BY <1>4, <2>2, <3>1 DEF WriteIntent, IntentFails
    <3>2. CASE file["intent"] = None
      BY <1>3, <2>2, <3>2 DEF WriteIntent, IntentFails
    <3> QED
      BY <2>2, <3>1, <3>2 DEF WriteIntent, IntentFails
  <2>3. CASE WriteReport(p)
    BY <1>3, <1>4, <2>3 DEF WriteReport, WriteFile
  <2>4. CASE WriteContext(p)
    BY <1>3, <1>4, <2>4 DEF WriteContext, WriteFile
  <2>5. CASE WriteBundle(p)
    BY <1>3, <1>4, <2>5 DEF WriteBundle
  <2>6. CASE Complete(p)
    <3>1. CASE file["completion"] = None
      BY <1>1, <2>6, <3>1, CompletesWhole
    <3>2. CASE file["completion"] # None
      BY <1>4, <2>6, <3>2 DEF Complete, WriteFile
    <3> QED BY <3>1, <3>2
  <2>7. CASE CompletionTorn(p)
    BY <2>7 DEF CompletionTorn
  <2> QED
    BY <1>6, <2>1, <2>2, <2>3, <2>4, <2>5, <2>6, <2>7 DEF Capture
<1>7. ASSUME NEW p \in Procs, Stops(p) \/ Expire(p)
     PROVE  Verified(file["completion"])'
  BY <1>4, <1>7 DEF Stops, Expire, dirVars
<1>8. CASE UNCHANGED vars
  BY <1>4, <1>8 DEF vars, dirVars
<1> QED
  BY <1>5, <1>6, <1>7, <1>8 DEF Next

(* Undisturbed, the capture that can be returned changes only when one is  *)
(* completed.                                                              *)
LEMMA ChosenStays ==
  ASSUME Inv, CompletedIsWhole, CompletedIsWhole', Undisturbed, Undisturbed',
         [Next]_vars,
         \A p \in Procs : Complete(p) => file["completion"] # None
  PROVE  Chosen' = Chosen
<1> USE CaptureAssumption DEF Inv, TypeOK, Files
<1>1. /\ Chosen = IF file["completion"] \in Procs THEN file["completion"] ELSE None
      /\ Chosen' = IF file'["completion"] \in Procs THEN file'["completion"] ELSE None
  BY Zenon DEF Chosen, CompletedIsWhole
<1>2. ASSUME file'["completion"] = file["completion"] PROVE Chosen' = Chosen
  BY <1>1, <1>2
<1>3. ASSUME file["completion"] = None, file'["completion"] \in {None, Torn}
     PROVE  Chosen' = Chosen
  BY <1>1, <1>3
<1>4. ASSUME NEW p \in Procs, Recovery(p) PROVE Chosen' = Chosen
  <2>1. CASE \/ Look(p) \/ Reuse(p) \/ Judge(p) \/ RemoveExec(p)
             \/ ChooseArchive(p) \/ MarkInterrupted(p)
    BY <1>2, <2>1 DEF Look, Reuse, Judge, RemoveExec, ChooseArchive, MarkInterrupted,
       dirVars
  <2>2. CASE RenameAway(p)
    <3>1. CASE UNCHANGED <<dirVars, archived, robbed, stale>>
      BY <1>2, <3>1 DEF dirVars
    <3>2. CASE file' = NoFiles /\ stale' = (stale \/ Misses(p))
      BY <1>3, <3>2 DEF NoFiles, Misses, Undisturbed
    <3> QED
      BY <2>2, <3>1, <3>2 DEF RenameAway
  <2> QED
    BY <1>4, <2>1, <2>2 DEF Recovery
<1>5. ASSUME NEW p \in Procs, Capture(p) PROVE Chosen' = Chosen
  <2>1. CASE \/ MakeDirectory(p) \/ WriteIntent(p) \/ IntentFails(p)
             \/ StartExecution(p) \/ FinishExecution(p)
    BY <1>2, <2>1 DEF MakeDirectory, WriteIntent, IntentFails, StartExecution,
       FinishExecution, dirVars
  <2>2. CASE \/ WriteReport(p) \/ WriteContext(p) \/ CheckInventory(p)
             \/ WriteBundle(p) \/ Authorize(p)
    BY <1>2, <2>2 DEF WriteReport, WriteContext, WriteFile, CheckInventory,
       WriteBundle, Authorize, dirVars
  <2>3. CASE Complete(p)
    BY <1>2, <2>3 DEF Complete, WriteFile
  <2>4. CASE CompletionTorn(p)
    BY <1>3, <2>4 DEF CompletionTorn
  <2>5. CASE ExecutionFails(p) \/ MarkFailure(p)
    BY <1>2, <2>5 DEF ExecutionFails, MarkFailure, dirVars
  <2> QED
    BY <1>5, <2>1, <2>2, <2>3, <2>4, <2>5 DEF Capture
<1>6. ASSUME NEW p \in Procs, Stops(p) \/ Expire(p) PROVE Chosen' = Chosen
  BY <1>2, <1>6 DEF Stops, Expire, dirVars
<1>7. CASE UNCHANGED vars
  BY <1>2, <1>7 DEF vars, dirVars
<1> QED
  BY <1>4, <1>5, <1>6, <1>7 DEF Next

(* Every step chooses a capture, returns the chosen one, disturbs, or      *)
(* leaves things as they are, for any number of invocations that crash,    *)
(* fail, expire and recover one another.                                   *)
THEOREM OneIsChosen == Spec => ChoosesOnce
<1> USE CaptureAssumption
<1>1. Init => Choice!ChoiceInit
  BY DEF Init, NoFiles, Files, Undisturbed, Chosen, Choice!ChoiceInit
<1>2. ASSUME Inv, AnswersLast, CompletedIsWhole, CompletedIsWhole', [Next]_vars
     PROVE  [Choice!ChoiceNext]_Choice!choiceVars
  <2> USE <1>2
  <2>1. /\ Chosen \in Choice!Captures /\ Chosen' \in Choice!Captures
        /\ Undisturbed \in BOOLEAN /\ Undisturbed' \in BOOLEAN
    BY DEF Chosen, Choice!Captures, Undisturbed
  <2>2. ASSUME NEW p \in Procs, Reuse(p) \/ Complete(p)
       PROVE  result[p] = None /\ expired' = expired /\ stale' = stale
    BY <2>2 DEF Reuse, Complete, AnswersLast, Running, Terminal, history
  <2>3. ASSUME NEW p \in Procs, Reuse(p), result' # result
       PROVE  /\ Chosen \in Procs /\ Chosen' = Chosen
              /\ Choice!Answers(p, Chosen)
    <3>1. /\ file["completion"] \in Procs /\ Verified(file["completion"])
          /\ result' = [result EXCEPT ![p] = file["completion"]]
          /\ UNCHANGED <<dirVars, exec>>
      BY <2>3 DEF Reuse
    <3>2. Chosen = file["completion"] /\ Chosen' = Chosen
      BY <3>1 DEF Chosen, Verified, dirVars
    <3> QED
      BY <2>2, <2>3, <3>1, <3>2 DEF Choice!Answers
  <2>4. ASSUME NEW p \in Procs, Complete(p), result' # result
       PROVE  file["completion"] = None /\ Choice!Answers(p, p)
    <3>1. file["completion"] = None
      BY <2>4 DEF Complete, Inv, TypeOK
    <3> QED
      BY <2>2, <2>4, <3>1 DEF Complete, Choice!Answers
  <2>5. CASE Undisturbed'
    <3>1. Undisturbed
      BY <2>5, UndisturbedBefore
    <3>2. ASSUME NEW p \in Procs, Complete(p), file["completion"] = None
         PROVE  Choice!ChoiceNext
      <4>1. Chosen = None /\ Chosen' = p
        BY <2>5, <3>1, <3>2, CompletesWhole DEF Chosen
      <4>2. Choice!Answers(p, p)
        BY <2>2, <3>1, <3>2, CompletesWhole DEF Choice!Answers
      <4>3. Choice!Choose(p)
        BY <2>1, <2>5, <3>1, <4>1, <4>2 DEF Choice!Choose
      <4> QED
        BY <4>3 DEF Choice!ChoiceNext
    <3>3. ASSUME \A p \in Procs : Complete(p) => file["completion"] # None
         PROVE  [Choice!ChoiceNext]_Choice!choiceVars
      <4>1. Chosen' = Chosen
        BY <2>5, <3>1, <3>3, ChosenStays
      <4>2. CASE result' = result
        BY <2>1, <2>5, <3>1, <4>1, <4>2 DEF Choice!choiceVars
      <4>3. CASE result' # result
        <5>1. PICK p \in Procs : Reuse(p)
          BY <2>4, <3>3, <4>3, ResultsStay
        <5>2. Choice!Return(p)
          BY <2>1, <2>3, <2>5, <3>1, <4>3, <5>1 DEF Choice!Return
        <5> QED
          BY <5>2 DEF Choice!ChoiceNext
      <4> QED
        BY <4>2, <4>3
    <3> QED
      BY <3>2, <3>3
  <2>6. CASE ~Undisturbed' /\ Undisturbed
    <3>1. result' = result
      BY <2>2, <2>6, ResultsStay DEF Undisturbed
    <3>2. Choice!Disturb
      BY <2>1, <2>6, <3>1 DEF Choice!Disturb
    <3> QED
      BY <3>2 DEF Choice!ChoiceNext
  <2>7. CASE ~Undisturbed' /\ ~Undisturbed
    <3>1. result' = result \/ \E p, q \in Procs : Choice!Answers(p, q)
      BY <2>3, <2>4, ResultsStay
    <3>2. Choice!Unsettled
      BY <2>1, <2>7, <3>1 DEF Choice!Unsettled
    <3> QED
      BY <3>2 DEF Choice!ChoiceNext
  <2> QED
    BY <2>5, <2>6, <2>7
<1>3. Init => AnswersLast /\ CompletedIsWhole
  BY DEF Init, AnswersLast, CompletedIsWhole, NoFiles, Files
<1>4. Inv /\ AnswersLast /\ CompletedIsWhole /\ [Next]_vars
        => AnswersLast' /\ CompletedIsWhole'
  BY AnswersStep, WholeStays DEF Inv
<1> QED
  BY <1>1, <1>2, <1>3, <1>4, Invariance, PTL
     DEF Spec, ChoosesOnce, Choice!ChoiceSpec
=============================================================================
