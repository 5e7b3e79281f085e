----------------------------- MODULE RepairStore -----------------------------
(***************************************************************************)
(* The stored session of one repair task: runRepairTaskContextCommand,     *)
(* which puts the task and its assets there, and runRepairValidateCommand, *)
(* which adds the immutable receipt of a validation, both under            *)
(* packages/cli/src/commands.                                              *)
(*                                                                         *)
(* All invocations name the same task and the same validation, so they     *)
(* mean the same directory and the same receipt file.  The task is what    *)
(* the directory's name is the digest of, hence its content is the same    *)
(* for all; a receipt's bytes are those of its inputs and of the time it   *)
(* was generated.  Any operation on a file may fail, also to remove one.   *)
(***************************************************************************)
EXTENDS FiniteSets

CONSTANTS
  Ingests,     \* invocations of `repair task-context`
  Validators,  \* invocations of `repair validate`, each with a clock reading
  Inputs,      \* what a validator is given to compare
  Absent       \* no file, no reading

ASSUME StoreAssumption ==
  /\ Ingests \cap Validators = {}
  /\ Absent \notin Validators
  /\ Absent \notin [time : Validators, input : Inputs]

VARIABLES
  doing,     \* the step each invocation is about to take
  session,   \* the session directory
  staged,    \* the temporary directory of each ingest
  returned,  \* what each ingest returns, once it knows
  input,     \* what each validator compares
  time,      \* the generation time each validator has settled on
  receipt,   \* the published receipt
  aliases,   \* validators whose temporary file is a link to it
  scratch,   \* validators whose temporary file exists
  late,      \* history: validators that began after the receipt was published
  erred,     \* history: ingests that met a failing operation
  stuck      \* history: invocations that could not remove their temporary name

storeVars == <<doing, session, staged, returned, input, time, receipt, aliases, scratch,
               late, erred, stuck>>

-----------------------------------------------------------------------------
(* The session directory: not there, there but empty, with nothing but the *)
(* directory for receipts, or with the task and its assets.                *)
Sessions == {"absent", "empty", "bare", "stored"}
IngestSteps == {"look", "stage", "fill", "rename", "lookAgain", "clean"}
ValidatorSteps == {"begin", "receipts", "time", "build", "write", "scratch", "link",
                   "compare", "discard", "unlink", "published"}
Ended == {"done", "failed", "crashed"}
Receipts == [time : Validators, input : Inputs]

StoreTypeOK ==
  /\ doing \in [Ingests \cup Validators -> IngestSteps \cup ValidatorSteps \cup Ended]
  /\ session \in Sessions
  /\ staged \in [Ingests -> {"none", "part", "whole"}]
  /\ returned \in [Ingests -> {"none", "created", "reused"}]
  /\ input \in [Validators -> Inputs]
  /\ time \in [Validators -> Validators \cup {Absent}]
  /\ receipt \in Receipts \cup {Absent}
  /\ aliases \in SUBSET Validators
  /\ scratch \in SUBSET Validators
  /\ late \in SUBSET Validators
  /\ erred \in SUBSET Ingests
  /\ stuck \in SUBSET (Ingests \cup Validators)

StoreInit ==
  /\ doing = [p \in Ingests \cup Validators |-> IF p \in Ingests THEN "look" ELSE "begin"]
  /\ session = "absent"
  /\ staged = [i \in Ingests |-> "none"]
  /\ returned = [i \in Ingests |-> "none"]
  /\ input \in [Validators -> Inputs]
  /\ time = [v \in Validators |-> Absent]
  /\ receipt = Absent
  /\ aliases = {}
  /\ scratch = {}
  /\ late = {}
  /\ erred = {}
  /\ stuck = {}

Does(p, step) == doing' = [doing EXCEPT ![p] = step]
Returns(i, what) == returned' = [returned EXCEPT ![i] = what]
Errs(i) == erred' = erred \cup {i}
validation == <<input, time, receipt, aliases, scratch, late>>
ingestion == <<staged, returned, erred>>

-----------------------------------------------------------------------------
(* verifyExistingSession: a whole session is used again, a directory       *)
(* without the task is an error, and only nothing at all is nothing.       *)
LooksForSession(i) ==
  /\ doing[i] = "look"
  /\ \/ session = "absent" /\ Does(i, "stage") /\ UNCHANGED returned
     \/ session = "stored" /\ Does(i, "done") /\ Returns(i, "reused")
     \/ session \in {"empty", "bare"} /\ Does(i, "failed") /\ UNCHANGED returned
  /\ UNCHANGED <<session, staged, erred, stuck, validation>>

(* A temporary directory of its own ...                                    *)
Stages(i) ==
  /\ doing[i] = "stage"
  /\ staged' = [staged EXCEPT ![i] = "part"]
  /\ Does(i, "fill")
  /\ UNCHANGED <<session, returned, erred, stuck, validation>>

(* Mutant of Fills: a write that fails ends the ingest there and then.     *)
FillsOrLeaves(i) ==
  /\ doing[i] = "fill"
  /\ \/ staged' = [staged EXCEPT ![i] = "whole"] /\ Does(i, "rename") /\ UNCHANGED erred
     \/ Errs(i) /\ Does(i, "failed") /\ UNCHANGED staged
  /\ UNCHANGED <<session, returned, stuck, validation>>

(* ... takes the assets and then the task, as far as they can be written,  *)
Fills(i) ==
  /\ doing[i] = "fill"
  /\ \/ staged' = [staged EXCEPT ![i] = "whole"] /\ Does(i, "rename") /\ UNCHANGED erred
     \/ Errs(i) /\ Does(i, "clean") /\ UNCHANGED staged
  /\ UNCHANGED <<session, returned, stuck, validation>>

Stores(i) ==
  /\ session \in {"absent", "empty"}
  /\ session' = "stored"
  /\ staged' = [staged EXCEPT ![i] = "none"]
  /\ Returns(i, "created")
  /\ Does(i, "done")

(* Mutant of Renames: the loser of the race fails without a second look.   *)
RenamesOrFails(i) ==
  /\ doing[i] = "rename"
  /\ \/ Stores(i) /\ UNCHANGED erred
     \/ /\ Does(i, "clean")
        /\ (session \notin {"absent", "empty"} /\ UNCHANGED erred) \/ Errs(i)
        /\ UNCHANGED <<session, staged, returned>>
  /\ UNCHANGED <<stuck, validation>>

(* ... and is renamed.  That fails when there is a directory with anything *)
(* in it, or for another reason: then a second look decides, unless that   *)
(* fails too.                                                              *)
Renames(i) ==
  /\ doing[i] = "rename"
  /\ \/ Stores(i) /\ UNCHANGED erred
     \/ /\ Does(i, "lookAgain")
        /\ (session \notin {"absent", "empty"} /\ UNCHANGED erred) \/ Errs(i)
        /\ UNCHANGED <<session, staged, returned>>
  /\ UNCHANGED <<stuck, validation>>

LooksAgain(i) ==
  /\ doing[i] = "lookAgain"
  /\ \/ session = "stored" /\ Returns(i, "reused") /\ UNCHANGED erred
     \/ session # "stored" /\ UNCHANGED <<returned, erred>>
     \/ Errs(i) /\ UNCHANGED returned
  /\ Does(i, "clean")
  /\ UNCHANGED <<session, staged, stuck, validation>>

(* Whoever has not renamed the directory removes it; who could have used   *)
(* the session again and fails to, fails after a second attempt.           *)
Cleans(i) ==
  /\ doing[i] = "clean"
  /\ \/ /\ staged' = [staged EXCEPT ![i] = "none"]
        /\ Does(i, IF returned[i] = "reused" THEN "done" ELSE "failed")
        /\ UNCHANGED <<returned, erred, stuck>>
     \/ /\ Errs(i)
        /\ IF returned[i] = "reused"
           THEN Returns(i, "none") /\ UNCHANGED <<doing, stuck>>
           ELSE Does(i, "failed") /\ stuck' = stuck \cup {i} /\ UNCHANGED returned
        /\ UNCHANGED staged
  /\ UNCHANGED <<session, validation>>

-----------------------------------------------------------------------------
(* existingValidationTime makes the directories down to the receipts',     *)
(* whether or not the task has been put there ...                          *)
MakesSession(v) ==
  /\ doing[v] = "begin"
  /\ session' = IF session = "absent" THEN "empty" ELSE session
  /\ late' = late \cup {x \in {v} : receipt # Absent}
  /\ Does(v, "receipts")
  /\ UNCHANGED <<ingestion, stuck, input, time, receipt, aliases, scratch>>

MakesReceipts(v) ==
  /\ doing[v] = "receipts"
  /\ session' = IF session = "stored" THEN "stored" ELSE "bare"
  /\ Does(v, "time")
  /\ UNCHANGED <<ingestion, stuck, validation>>

(* Mutant of SettlesTime: every validation is generated anew.              *)
SettlesOwnTime(v) ==
  /\ doing[v] = "time"
  /\ time' = [time EXCEPT ![v] = v]
  /\ Does(v, "build")
  /\ UNCHANGED <<session, ingestion, stuck, input, receipt, aliases, scratch, late>>

(* ... and takes the time of a receipt that is there, which is an error    *)
(* when that is later than the clock the validation read as it began.      *)
SettlesTime(v) ==
  /\ doing[v] = "time"
  /\ \/ /\ time' = [time EXCEPT ![v] = IF receipt = Absent THEN v ELSE receipt.time]
        /\ Does(v, "build")
     \/ receipt # Absent /\ Does(v, "failed") /\ UNCHANGED time
  /\ UNCHANGED <<session, ingestion, stuck, input, receipt, aliases, scratch, late>>

(* The inputs may not make a receipt at all.                               *)
BuildsReceipt(v) ==
  /\ doing[v] = "build"
  /\ Does(v, "write") \/ Does(v, "failed")
  /\ UNCHANGED <<session, ingestion, stuck, validation>>

Bytes(v) == [time |-> time[v], input |-> input[v]]

(* writeImmutable: a receipt that is there must be the same, ...           *)
WritesReceipt(v) ==
  /\ doing[v] = "write"
  /\ Does(v, CASE receipt = Absent -> "scratch"
               [] receipt = Bytes(v) -> "published"
               [] OTHER -> "failed")
  /\ UNCHANGED <<session, ingestion, stuck, validation>>

(* ... a new one is written under a name of its own, ...                   *)
WritesScratch(v) ==
  /\ doing[v] = "scratch"
  /\ \/ scratch' = scratch \cup {v} /\ Does(v, "link")
     \/ scratch' \in {scratch, scratch \cup {v}} /\ Does(v, "discard")
  /\ UNCHANGED <<session, ingestion, stuck, input, time, receipt, aliases, late>>

(* Mutant of Links: the file is renamed, over whatever is there.           *)
LinksOver(v) ==
  /\ doing[v] = "link"
  /\ receipt' = Bytes(v)
  /\ aliases' = {v}
  /\ Does(v, "unlink")
  /\ UNCHANGED <<session, ingestion, stuck, input, time, scratch, late>>

(* ... which it gets by a link, that fails if there is one already, ...    *)
Links(v) ==
  /\ doing[v] = "link"
  /\ \/ /\ receipt = Absent
        /\ receipt' = Bytes(v)
        /\ aliases' = {v}
        /\ Does(v, "unlink")
     \/ /\ (receipt # Absent /\ Does(v, "compare")) \/ Does(v, "discard")
        /\ UNCHANGED <<receipt, aliases>>
  /\ UNCHANGED <<session, ingestion, stuck, input, time, scratch, late>>

Compares(v) ==
  /\ doing[v] = "compare"
  /\ (receipt = Bytes(v) /\ Does(v, "unlink")) \/ Does(v, "discard")
  /\ UNCHANGED <<session, ingestion, stuck, validation>>

(* ... the temporary name goes, whatever happened, ...                     *)
Unlinks(v) ==
  /\ doing[v] \in {"unlink", "discard"}
  /\ \/ /\ scratch' = scratch \ {v}
        /\ aliases' = aliases \ {v}
        /\ Does(v, IF doing[v] = "unlink" THEN "published" ELSE "failed")
        /\ UNCHANGED stuck
     \/ /\ Does(v, "failed")
        /\ stuck' = stuck \cup {v}
        /\ UNCHANGED <<scratch, aliases>>
  /\ UNCHANGED <<session, ingestion, input, time, receipt, late>>

(* ... and the receipt must be without another name after a short wait.    *)
Published(v) ==
  /\ doing[v] = "published"
  /\ \/ aliases = {} /\ Does(v, "done")
     \/ aliases # {} /\ Does(v, "failed")
  /\ UNCHANGED <<session, ingestion, stuck, validation>>

-----------------------------------------------------------------------------
(* An operation that fails while there is nothing to remove ends the       *)
(* invocation: to read, or to make a directory.                            *)
GivesUp(p) ==
  /\ doing[p] \in {"look", "stage", "begin", "receipts", "time", "write", "published"}
  /\ Does(p, "failed")
  /\ erred' = erred \cup (Ingests \cap {p})
  /\ UNCHANGED <<session, staged, returned, stuck, validation>>

Crashes(p) ==
  /\ doing[p] \notin Ended
  /\ Does(p, "crashed")
  /\ UNCHANGED <<session, ingestion, stuck, validation>>

IngestStep(i) ==
  LooksForSession(i) \/ Stages(i) \/ Fills(i) \/ Renames(i) \/ LooksAgain(i) \/ Cleans(i)

ValidatorStep(v) ==
  \/ MakesSession(v) \/ MakesReceipts(v) \/ SettlesTime(v) \/ BuildsReceipt(v)
  \/ WritesReceipt(v) \/ WritesScratch(v) \/ Links(v) \/ Compares(v) \/ Unlinks(v)
  \/ Published(v)

StoreNext ==
  \/ \E i \in Ingests : IngestStep(i)
  \/ \E v \in Validators : ValidatorStep(v)
  \/ \E p \in Ingests \cup Validators : GivesUp(p) \/ Crashes(p)

StoreSpec == StoreInit /\ [][StoreNext]_storeVars

-----------------------------------------------------------------------------
(* Ingests of one task do not disturb each other: at most one creates the  *)
(* session, all that return find it whole, and one whose own operations    *)
(* succeed fails only when a validation has made the directory before.     *)
IngestedOnce ==
  /\ \A i, j \in Ingests :
       returned[i] = "created" /\ returned[j] = "created" => i = j
  /\ \A i \in Ingests : returned[i] # "none" => session = "stored"
  /\ (\A v \in Validators : doing[v] = "begin") =>
       \A i \in Ingests \ erred : doing[i] # "failed"

(* The receipt is agreed upon: one is published and never replaced, and a  *)
(* validation that returns has it with its own bytes, whoever wrote it and *)
(* whoever crashed.                                                        *)
Agreement == INSTANCE ReceiptAgreement WITH
  Proposers <- Validators, Receivable <- Receipts, None <- Absent,
  published <- receipt,
  agreed <- [v \in Validators |-> IF doing[v] = "done" THEN Bytes(v) ELSE Absent]

StoreAgrees == Agreement!AgreementSpec

(* A validation that began after a receipt for the same inputs had been    *)
(* published makes that receipt again, byte for byte.                      *)
ReceiptRepeats ==
  \A v \in late : time[v] # Absent /\ input[v] = receipt.input => Bytes(v) = receipt

(* An invocation that has ended, also because something could not be       *)
(* written, has left neither a temporary directory nor a temporary file,   *)
(* nor a second name of the receipt that would make every later validation *)
(* fail: except by a crash, and where it could not remove that name.       *)
NothingLeft ==
  /\ \A i \in Ingests \ stuck : doing[i] \in {"done", "failed"} => staged[i] = "none"
  /\ \A v \in Validators \ stuck :
       doing[v] \in {"done", "failed"} => v \notin scratch \cup aliases
=============================================================================
