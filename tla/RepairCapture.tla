--------------------------- MODULE RepairCapture ---------------------------
(***************************************************************************)
(* The immutable capture directory of one Hive validation request:         *)
(* runPlaywrightRepairCapture of packages/playwright-adapter/src/repairRun.ts.*)
(*                                                                         *)
(* Every process is one invocation for the same request with the same      *)
(* inputs.  It reuses a completed capture, recovers an interrupted one by  *)
(* archiving its directory, or makes the directory, writes its intent,     *)
(* runs the browser, writes the evidence and, last, the completion.        *)
(*                                                                         *)
(* Every file is written with the exclusive flag, so the name of a file's  *)
(* writer stands for its content: no two invocations write the same bytes. *)
(* All paths are resolved again at each step: a process whose directory    *)
(* was archived goes on writing into whatever is now at the path.          *)
(***************************************************************************)
EXTENDS Naturals, FiniteSetsExt

CONSTANTS
  Procs,        \* invocations, each with a process id and a lease of its own
  None,         \* no writer
  Torn,         \* the content of a file whose writer died while writing it
  ArchiveLimit  \* archives kept for each reason; 8 in the code

ASSUME CaptureAssumption ==
  None \notin Procs /\ Torn \notin Procs /\ None # Torn /\ ArchiveLimit \in Nat

VARIABLES
  pc,        \* the step each process is about to take
  again,     \* processes on the second look, after losing the race to mkdir
  claim,     \* the owner, reason and ordinal of the archive a process makes
  result,    \* the invocation whose capture each process returns
  exists,    \* the run directory exists
  maker,     \* history: who made it, None when a file write re-created it
  file,      \* the writer of each file in it
  bundle,    \* the writers of the bundle and of what the bundle holds
  marks,     \* the failure and interruption markers in it
  archived,  \* the archive names taken
  exec,      \* the processes whose execution directory exists
  expired,   \* running processes whose lease and deadline have passed
  robbed,    \* history: processes whose directory was archived while running
  stale,     \* history: a recovery went on though its judgement had gone stale
  cut        \* history: an intent or a completion was not written whole

dirVars == <<exists, maker, file, bundle, marks>>
history == <<robbed, stale, cut>>
vars == <<pc, again, claim, result, dirVars, archived, exec, expired, history>>

-----------------------------------------------------------------------------
Files     == {"intent", "report", "context", "completion"}
Reasons   == {"failed", "interrupted"}
Claims    == [owner : Procs \cup {None}, reason : Reasons, ordinal : Nat]
NoClaim   == [owner |-> None, reason |-> "interrupted", ordinal |-> 0]
Looking   == {"look", "judge", "removeExec", "chooseArchive", "mark", "rename",
              "reuse", "mkdir"}
Executing == {"execute", "finish", "report", "context", "inventory", "bundle",
              "authorize", "complete"}
Terminal  == {"captured", "reused", "failed", "crashed"}
Steps     == Looking \cup {"intent", "failure"} \cup Executing \cup Terminal

Running(p) == pc[p] \notin Terminal
Goto(p, step) == pc' = [pc EXCEPT ![p] = step]
NoFiles == [f \in Files |-> None]

Init ==
  /\ pc = [p \in Procs |-> "look"]
  /\ again = {}
  /\ claim = [p \in Procs |-> NoClaim]
  /\ result = [p \in Procs |-> None]
  /\ exists = FALSE
  /\ maker = None
  /\ file = NoFiles
  /\ bundle = {}
  /\ marks = {}
  /\ archived = {}
  /\ exec = {}
  /\ expired = {}
  /\ robbed = {}
  /\ stale = FALSE
  /\ cut = FALSE

-----------------------------------------------------------------------------
(* loadExistingCapture: nothing there, a completed capture, or one that    *)
(* has to be judged.  A second look that finds nothing gives up.           *)
Look(p) ==
  /\ pc[p] = "look"
  /\ Goto(p, CASE exists /\ file["completion"] # None -> "reuse"
               [] exists /\ file["completion"] = None -> "judge"
               [] ~exists /\ p \notin again -> "mkdir"
               [] ~exists /\ p \in again -> "failed")
  /\ UNCHANGED <<again, claim, result, dirVars, archived, exec, expired, history>>

(* A capture is returned again when every digest in its completion agrees  *)
(* with the files at their paths, the execution directory included.        *)
Verified(q) ==
  /\ q \in exec
  /\ file["report"] = q
  /\ file["context"] = q
  /\ bundle = {q, file["intent"]}

Reuse(p) ==
  /\ pc[p] = "reuse"
  /\ \/ /\ file["completion"] \in Procs
        /\ Verified(file["completion"])
        /\ result' = [result EXCEPT ![p] = file["completion"]]
        /\ Goto(p, "reused")
     \/ /\ ~(file["completion"] \in Procs /\ Verified(file["completion"]))
        /\ Goto(p, "failed")
        /\ UNCHANGED result
  /\ UNCHANGED <<again, claim, dirVars, archived, exec, expired, history>>

(* The owner named by the intent still holds its lease when no failure is  *)
(* recorded, its process id is alive and its lease has time left.  The id  *)
(* of an owner that has ended may be dead, or alive in a host process or   *)
(* an unrelated one until the lease runs out.                              *)
MayBeActive(q) == "failure" \notin marks /\ q \notin expired

(* Mutant of MayBeRecovered: nobody asks whether the owner still runs.     *)
RecoveredWhileRunning(q) == q \in Procs

MayBeRecovered(q) == "failure" \in marks \/ q \in expired \/ ~Running(q)

(* What archiveInterruptedCapture would call what is there now.            *)
ReasonNow == IF "failure" \in marks THEN "failed" ELSE "interrupted"

Judge(p) ==
  /\ pc[p] = "judge"
  /\ \/ /\ file["intent"] \in Procs
        /\ MayBeRecovered(file["intent"])
        /\ claim' = [claim EXCEPT ![p] =
             [owner |-> file["intent"], reason |-> ReasonNow, ordinal |-> 0]]
        /\ Goto(p, "removeExec")
     \/ /\ file["intent"] \in Procs => MayBeActive(file["intent"])
        /\ Goto(p, "failed")
        /\ UNCHANGED claim
  /\ UNCHANGED <<again, result, dirVars, archived, exec, expired, history>>

(* The recovery no longer acts on the interrupted capture it means to      *)
(* recover: another one is there, or its owner has completed it after all. *)
Misses(p) == ~exists \/ maker # claim[p].owner \/ file["completion"] # None

(* removeInterruptedExecutionDirectory.                                    *)
RemoveExec(p) ==
  /\ pc[p] = "removeExec"
  /\ exec' = exec \ {claim[p].owner}
  /\ stale' = (stale \/ Misses(p))
  /\ Goto(p, "chooseArchive")
  /\ UNCHANGED <<again, claim, result, dirVars, archived, expired, robbed, cut>>

(* Mutant of FreeOrdinals: the bound is off by one.                        *)
FreeOrdinalsPastLimit(reason) ==
  {n \in 1..(ArchiveLimit + 1) : <<reason, n>> \notin archived}

(* archiveInterruptedCapture: the first free name for this reason ...      *)
FreeOrdinals(reason) == {n \in 1..ArchiveLimit : <<reason, n>> \notin archived}

ChooseArchive(p) ==
  /\ pc[p] = "chooseArchive"
  /\ LET free == FreeOrdinals(claim[p].reason) IN
       \/ /\ exists
          /\ free # {}
          /\ claim' = [claim EXCEPT ![p].ordinal = Min(free)]
          /\ Goto(p, "mark")
       \/ /\ ~exists \/ free = {}
          /\ claim' = [claim EXCEPT ![p] = NoClaim]
          /\ Goto(p, "failed")
  /\ UNCHANGED <<again, result, dirVars, archived, exec, expired, history>>

(* Writing a file makes the run directory anew when it is missing.         *)
Ensure == exists' = TRUE /\ UNCHANGED maker

(* ... a marker that says so, unless there is one ...                      *)
MarkInterrupted(p) ==
  /\ pc[p] = "mark"
  /\ Ensure
  /\ marks' = marks \cup {"interruption"}
  /\ stale' = (stale \/ Misses(p))
  /\ Goto(p, "rename")
  /\ UNCHANGED <<again, claim, result, file, bundle, archived, exec, expired,
                 robbed, cut>>

(* ... and the rename, of whatever directory is there by now.              *)
RenameAway(p) ==
  /\ pc[p] = "rename"
  /\ LET name == <<claim[p].reason, claim[p].ordinal>> IN
       \/ /\ exists
          /\ name \notin archived
          /\ archived' = archived \cup {name}
          /\ exists' = FALSE
          /\ maker' = None
          /\ file' = NoFiles
          /\ bundle' = {}
          /\ marks' = {}
          /\ stale' = (stale \/ Misses(p))
          /\ robbed' = robbed \cup {q \in Procs : q = maker /\ Running(q)}
          /\ Goto(p, IF p \in again THEN "failed" ELSE "mkdir")
       \/ /\ ~exists \/ name \in archived
          /\ Goto(p, "failed")
          /\ UNCHANGED <<dirVars, archived, robbed, stale>>
  /\ claim' = [claim EXCEPT ![p] = NoClaim]
  /\ UNCHANGED <<again, result, exec, expired, cut>>

-----------------------------------------------------------------------------
(* Mutant of MakeDirectory: the execution starts without an intent.        *)
MakeDirectoryOnly(p) ==
  /\ pc[p] = "mkdir"
  /\ ~exists
  /\ exists' = TRUE
  /\ maker' = p
  /\ Goto(p, "execute")
  /\ UNCHANGED <<again, claim, result, file, bundle, marks, archived, exec,
                 expired, history>>

(* mkdir decides who owns the request; the loser looks a second time.      *)
MakeDirectory(p) ==
  /\ pc[p] = "mkdir"
  /\ \/ /\ ~exists
        /\ exists' = TRUE
        /\ maker' = p
        /\ Goto(p, "intent")
        /\ UNCHANGED again
     \/ /\ exists
        /\ again' = again \cup {p}
        /\ Goto(p, "look")
        /\ UNCHANGED <<exists, maker>>
  /\ UNCHANGED <<claim, result, file, bundle, marks, archived, exec, expired,
                 history>>

(* The intent is written before the try block: its failure is not caught.  *)
WriteIntent(p) ==
  /\ pc[p] = "intent"
  /\ Ensure
  /\ \/ /\ file["intent"] = None
        /\ file' = [file EXCEPT !["intent"] = p]
        /\ Goto(p, "execute")
     \/ /\ file["intent"] # None
        /\ Goto(p, "failed")
        /\ UNCHANGED file
  /\ UNCHANGED <<again, claim, result, bundle, marks, archived, exec, expired,
                 history>>

(* An I/O error, or a crash halfway, leaves no intent or a torn one.       *)
IntentFails(p) ==
  /\ pc[p] = "intent"
  /\ file["intent"] = None
  /\ \/ UNCHANGED <<exists, file>>
     \/ exists' = TRUE /\ file' = [file EXCEPT !["intent"] = Torn]
  /\ \E step \in {"failed", "crashed"} : Goto(p, step)
  /\ cut' = TRUE
  /\ UNCHANGED <<again, claim, result, maker, bundle, marks, archived, exec,
                 expired, robbed, stale>>

-----------------------------------------------------------------------------
(* executeCapture.                                                         *)

(* runPlaywrightContracts makes the execution directory as it goes.        *)
StartExecution(p) ==
  /\ pc[p] = "execute"
  /\ exec' = exec \cup {p}
  /\ Goto(p, "finish")
  /\ UNCHANGED <<again, claim, result, dirVars, archived, expired, history>>

(* assertCaptureStillAuthorized, checked here and twice more.              *)
Authorized(p, next) == Goto(p, IF p \in expired THEN "failure" ELSE next)

FinishExecution(p) ==
  /\ pc[p] = "finish"
  /\ Authorized(p, "report")
  /\ UNCHANGED <<again, claim, result, dirVars, archived, exec, expired, history>>

(* Mutant of WriteFile: the exclusive flag is dropped.                     *)
WriteFileOver(p, name, next) ==
  /\ Ensure
  /\ file' = [file EXCEPT ![name] = p]
  /\ Goto(p, next)

(* writeFileExclusive: an existing file makes it fail.                     *)
WriteFile(p, name, next) ==
  /\ Ensure
  /\ \/ /\ file[name] = None
        /\ file' = [file EXCEPT ![name] = p]
        /\ Goto(p, next)
     \/ /\ file[name] # None
        /\ Goto(p, "failure")
        /\ UNCHANGED file

WriteReport(p) ==
  /\ pc[p] = "report"
  /\ WriteFile(p, "report", "context")
  /\ UNCHANGED <<again, claim, result, bundle, marks, archived, exec, expired,
                 history>>

(* run-context.json and capture-metadata.json, as one file.                *)
WriteContext(p) ==
  /\ pc[p] = "context"
  /\ WriteFile(p, "context", "inventory")
  /\ UNCHANGED <<again, claim, result, bundle, marks, archived, exec, expired,
                 history>>

(* Everything the bundle takes in can be read, whoever wrote it.           *)
Sources == {file["intent"], file["report"], file["context"]}
Readable(p) == exists /\ p \in exec /\ Sources \subseteq Procs

CheckInventory(p) ==
  /\ pc[p] = "inventory"
  /\ \/ Readable(p) /\ Authorized(p, "bundle")
     \/ ~Readable(p) /\ Goto(p, "failure")
  /\ UNCHANGED <<again, claim, result, dirVars, archived, exec, expired, history>>

(* writeVisualHiveBundle copies them and publishes the bundle directory    *)
(* by a rename that fails when there is one already.                       *)
WriteBundle(p) ==
  /\ pc[p] = "bundle"
  /\ Ensure
  /\ \/ /\ Readable(p)
        /\ bundle = {}
        /\ bundle' = Sources \cup {p}
        /\ Goto(p, "authorize")
     \/ /\ ~Readable(p) \/ bundle # {}
        /\ Goto(p, "failure")
        /\ UNCHANGED bundle
  /\ UNCHANGED <<again, claim, result, file, marks, archived, exec, expired,
                 history>>

Authorize(p) ==
  /\ pc[p] = "authorize"
  /\ Authorized(p, "complete")
  /\ UNCHANGED <<again, claim, result, dirVars, archived, exec, expired, history>>

(* Mutant of Complete: an error of the completion write is swallowed.      *)
CompleteBestEffort(p) ==
  /\ pc[p] = "complete"
  /\ \/ WriteFile(p, "completion", "captured")
     \/ Goto(p, "captured") /\ UNCHANGED <<exists, maker, file>>
  /\ result' = [result EXCEPT ![p] = p]
  /\ UNCHANGED <<again, claim, bundle, marks, archived, exec, expired, history>>

Complete(p) ==
  /\ pc[p] = "complete"
  /\ WriteFile(p, "completion", "captured")
  /\ result' = [result EXCEPT ![p] = IF file["completion"] = None THEN p ELSE @]
  /\ UNCHANGED <<again, claim, bundle, marks, archived, exec, expired, history>>

(* An I/O error or a crash halfway through the completion.                 *)
CompletionTorn(p) ==
  /\ pc[p] = "complete"
  /\ file["completion"] = None
  /\ Ensure
  /\ file' = [file EXCEPT !["completion"] = Torn]
  /\ \E step \in {"failure", "crashed"} : Goto(p, step)
  /\ cut' = TRUE
  /\ UNCHANGED <<again, claim, result, bundle, marks, archived, exec, expired,
                 robbed, stale>>

(* Any step of the execution can throw.                                    *)
ExecutionFails(p) ==
  /\ pc[p] \in Executing
  /\ Goto(p, "failure")
  /\ UNCHANGED <<again, claim, result, dirVars, archived, exec, expired, history>>

(* The catch block: writeFailureMarker, at the path, not in the directory  *)
(* the invocation made.                                                    *)
MarkFailure(p) ==
  /\ pc[p] = "failure"
  /\ Ensure
  /\ marks' = marks \cup {"failure"}
  /\ Goto(p, "failed")
  /\ UNCHANGED <<again, claim, result, file, bundle, archived, exec, expired,
                 history>>

-----------------------------------------------------------------------------
(* A look, a recovery or the marker itself can fail on an I/O error, and   *)
(* any process can crash; neither leaves more than the steps taken so far. *)
Stops(p) ==
  /\ Running(p)
  /\ pc[p] # "intent"
  /\ \/ Goto(p, "crashed")
     \/ pc[p] \in Looking \cup {"failure"} /\ Goto(p, "failed")
  /\ claim' = [claim EXCEPT ![p] = NoClaim]
  /\ UNCHANGED <<again, result, dirVars, archived, exec, expired, history>>

(* The lease written in the intent and the deadline the owner checks are   *)
(* the same instant.  For an owner that has ended the clock changes        *)
(* nothing: its capture may be recovered already.                          *)
Expire(p) ==
  /\ Running(p)
  /\ expired' = expired \cup {p}
  /\ UNCHANGED <<pc, again, claim, result, dirVars, archived, exec, history>>

Recovery(p) ==
  \/ Look(p) \/ Reuse(p) \/ Judge(p) \/ RemoveExec(p) \/ ChooseArchive(p)
  \/ MarkInterrupted(p) \/ RenameAway(p)

Capture(p) ==
  \/ MakeDirectory(p) \/ WriteIntent(p) \/ IntentFails(p)
  \/ StartExecution(p) \/ FinishExecution(p)
  \/ WriteReport(p) \/ WriteContext(p) \/ CheckInventory(p) \/ WriteBundle(p)
  \/ Authorize(p) \/ Complete(p) \/ CompletionTorn(p)
  \/ ExecutionFails(p) \/ MarkFailure(p)

Next == \E p \in Procs : Recovery(p) \/ Capture(p) \/ Stops(p) \/ Expire(p)

Spec == Init /\ [][Next]_vars

-----------------------------------------------------------------------------
TypeOK ==
  /\ pc \in [Procs -> Steps]
  /\ again \subseteq Procs
  /\ claim \in [Procs -> Claims]
  /\ result \in [Procs -> Procs \cup {None}]
  /\ exists \in BOOLEAN
  /\ maker \in Procs \cup {None}
  /\ file \in [Files -> Procs \cup {None, Torn}]
  /\ bundle \subseteq Procs
  /\ marks \subseteq {"failure", "interruption"}
  /\ archived \subseteq Reasons \X (1..ArchiveLimit)
  /\ exec \subseteq Procs
  /\ expired \subseteq Procs
  /\ robbed \subseteq Procs
  /\ stale \in BOOLEAN
  /\ cut \in BOOLEAN

(* Nobody ran past its deadline, and no recovery acted on anything but the *)
(* interrupted capture it had judged.                                      *)
Undisturbed == expired = {} /\ ~stale

(* Then no running invocation loses its directory to a recovery, whatever  *)
(* crashed, failed or was retried: the lease protects its owner.           *)
LeaseProtectsOwner == Undisturbed => robbed = {}

(* Then the command is idempotent: all invocations that return a capture   *)
(* return the same one.                                                    *)
Idempotent ==
  Undisturbed =>
    \A p, q \in Procs : result[p] # None /\ result[q] # None => result[p] = result[q]

(* The completed capture that an invocation would return now.              *)
Chosen == IF file["completion"] \in Procs /\ Verified(file["completion"])
          THEN file["completion"] ELSE None

Choice == INSTANCE CaptureChoice
          WITH kept <- Undisturbed, chosen <- Chosen, returned <- result

(* The directory, its intent, the recovery and the exclusive writes make   *)
(* invocations choose one capture: while nothing is disturbed a completed  *)
(* one stays whole, evidence and all, and is what every other returns; and *)
(* no invocation ever answers twice.                                       *)
ChoosesOnce == Choice!ChoiceSpec

(* Every later invocation fails on what is there: a completion it cannot   *)
(* verify, an intent it cannot read, or an interrupted capture it cannot   *)
(* archive because every name for that is taken.                           *)
Blocked ==
  /\ exists
  /\ \A p \in Procs : Running(p) => maker # p
  /\ \/ /\ file["completion"] # None
        /\ ~(file["completion"] \in Procs /\ Verified(file["completion"]))
     \/ /\ file["completion"] = None
        /\ \/ file["intent"] \notin Procs
           \/ FreeOrdinals(ReasonNow) = {}

(* Then a request can be retried as often as there are archive names left  *)
(* for the outcome of its last attempt, unless an intent or a completion   *)
(* was not written whole: no other crash or failure leaves a directory     *)
(* that every later invocation refuses.                                    *)
Retriable == Undisturbed /\ ~cut /\ Blocked => FreeOrdinals(ReasonNow) = {}

(* An invocation that kept its directory and reports a fresh capture left  *)
(* it whole: every file of it its own, even with others writing at the     *)
(* same path.                                                              *)
CapturesItsOwn(p) ==
  pc[p] = "complete" /\ pc'[p] = "captured" /\ p \notin robbed
    => /\ \A f \in Files : file'[f] = p
       /\ bundle' = {p}

FreshCaptureIsOwn == [][\A p \in Procs : CapturesItsOwn(p)]_vars

(* docs/repair-session-integration.md: "The capture commands are           *)
(* idempotent only for the same exact request and immutable inputs."       *)
OneResult ==
  \A p, q \in Procs : result[p] # None /\ result[q] # None => result[p] = result[q]

(* docs/repair-session-integration.md: "Failed attempts retain a durable   *)
(* intent that names their random execution directory and bounded lease".  *)
FailureKeepsIntent == exists /\ "failure" \in marks => file["intent"] # None
=============================================================================
