---------------------------- MODULE ArtifactSeal ----------------------------
(***************************************************************************)
(* The artifact-index seal of packages/cli/src/commands/artifacts.ts.      *)
(*                                                                         *)
(* Every process is one invocation of runArtifactsCommand.  A "complete"   *)
(* invocation takes the lock file .visual-hive-artifacts-index.lock, posts *)
(* an in-progress receipt over any earlier seal, enumerates the artifact   *)
(* tree, publishes the index and releases the lock.  A "plain" invocation  *)
(* enumerates and publishes without the lock.                              *)
(*                                                                         *)
(* A process creates at most one lock file, so a lock file is named by its *)
(* creator: the name stands for the random token in its payload.  The      *)
(* inode number is modelled apart from it because a file system may hand   *)
(* a freed number to the next file created.                                *)
(***************************************************************************)
EXTENDS FiniteSets, Naturals

CONSTANTS
  Procs,    \* invocations of the command, each with a process id of its own
  Inodes,   \* inode numbers the file system can hand out
  None      \* no file, no inode, no writer

ASSUME SealAssumption == None \notin Procs /\ None \notin Inodes

VARIABLES
  mode,      \* "complete" or "plain", the --complete option of each process
  pc,        \* the step each process is about to take
  attempt,   \* the attempt counter of acquireArtifactSealLock
  seen,      \* the inode identity each process read from a stale lock
  file,      \* the payload of the lock file each process created
  ino,       \* the inode number of that file
  lock,      \* the creator of the file now at lockPath
  aside,     \* the creator of the file each process moved to its private path
  alive,     \* the process ids for which kill(pid, 0) succeeds
  index,     \* artifacts-index.json: who published it, and what it says
  result,    \* what the enumeration of each process found
  receipted, \* history: processes that published a receipt, in-progress or failed
  before,    \* history: <<p, q>> when q created its lock file after p did
  overlap    \* history: <<p, q>> when p still held its lock at that moment

lockVars == <<attempt, seen, file, ino, lock, aside>>
history  == <<before, overlap>>
vars == <<mode, pc, lockVars, alive, index, result, receipted, history>>

-----------------------------------------------------------------------------
Indexing  == {"receipt", "receiptCheck", "enumerate", "publish",
              "publishCheck", "failure"}
Releasing == {"releaseRead", "releaseRename", "releaseCheck"}
Acquiring == {"open", "readLock", "quarantine", "checkStale"}
Terminal  == {"sealed", "listed", "failed", "crashed"}

(* From the creation of its lock file to the check that opens its release, *)
(* a complete invocation takes the index for its own.                      *)
Sealing(p) == mode[p] = "complete"
              /\ pc[p] \in Indexing \cup {"writeLock", "releaseRead"}

Created == {p \in Procs : file[p] # "none"}

(* Numbers the file system may not hand out: those of files that still     *)
(* have a name or an open handle.                                          *)
UsedInodes == {ino[p] : p \in {q \in Procs : file[q] \in {"empty", "written"}}}

Goto(p, step) == pc' = [pc EXCEPT ![p] = step]

Init ==
  /\ mode \in [Procs -> {"complete", "plain"}]
  /\ pc = [p \in Procs |-> IF mode[p] = "complete" THEN "open" ELSE "enumerate"]
  /\ attempt = [p \in Procs |-> 0]
  /\ seen = [p \in Procs |-> None]
  /\ file = [p \in Procs |-> "none"]
  /\ ino = [p \in Procs |-> None]
  /\ lock = None
  /\ aside = [p \in Procs |-> None]
  /\ alive = Procs
  /\ index = [by |-> None, kind |-> "absent"]
  /\ result = [p \in Procs |-> "none"]
  /\ receipted = {}
  /\ before = {}
  /\ overlap = {}

-----------------------------------------------------------------------------
(* acquireArtifactSealLock: open(lockPath, "wx") creates the file ...      *)
CreateLock(p) ==
  /\ pc[p] = "open"
  /\ lock = None
  /\ \E i \in Inodes \ UsedInodes : ino' = [ino EXCEPT ![p] = i]
  /\ file' = [file EXCEPT ![p] = "empty"]
  /\ lock' = p
  /\ Goto(p, "writeLock")
  /\ before' = before \cup {<<q, p>> : q \in Created}
  /\ overlap' = overlap \cup {<<q, p>> : q \in {r \in Procs : Sealing(r)}}
  /\ UNCHANGED <<mode, attempt, seen, aside, alive, index, result, receipted>>

(* ... or fails with EEXIST and the existing lock is read next.            *)
LockExists(p) ==
  /\ pc[p] = "open"
  /\ lock # None
  /\ Goto(p, "readLock")
  /\ UNCHANGED <<mode, lockVars, alive, index, result, receipted, history>>

(* The payload is written and synced after the file already exists.        *)
WriteLock(p) ==
  /\ pc[p] = "writeLock"
  /\ file' = [file EXCEPT ![p] = "written"]
  /\ Goto(p, "receipt")
  /\ UNCHANGED <<mode, attempt, seen, ino, lock, aside, alive, index, result,
                 receipted, history>>

(* A failed write or sync throws and leaves the file behind.               *)
WriteLockFails(p) ==
  /\ pc[p] = "writeLock"
  /\ Goto(p, "failed")
  /\ UNCHANGED <<mode, lockVars, alive, index, result, receipted, history>>

(* Mutant of Stale: the recovery is tried again on every attempt.          *)
StaleOnEveryAttempt(p) ==
  /\ lock # None
  /\ file[lock] = "written"
  /\ lock \notin alive

(* A lock may be recovered when its payload parses, its process is dead    *)
(* and this is the first attempt.                                          *)
Stale(p) ==
  /\ lock # None
  /\ file[lock] = "written"
  /\ lock \notin alive
  /\ attempt[p] = 0

ReadLock(p) ==
  /\ pc[p] = "readLock"
  /\ \/ /\ Stale(p)
        /\ seen' = [seen EXCEPT ![p] = ino[lock]]
        /\ Goto(p, "quarantine")
     \/ /\ ~Stale(p)
        /\ Goto(p, "failed")
        /\ UNCHANGED seen
  /\ UNCHANGED <<mode, attempt, file, ino, lock, aside, alive, index, result,
                 receipted, history>>

(* quarantineStaleArtifactSealLock renames whatever is at lockPath now.    *)
Quarantine(p) ==
  /\ pc[p] = "quarantine"
  /\ \/ /\ lock # None
        /\ aside' = [aside EXCEPT ![p] = lock]
        /\ lock' = None
        /\ Goto(p, "checkStale")
     \/ /\ lock = None
        /\ Goto(p, "failed")
        /\ UNCHANGED <<aside, lock>>
  /\ UNCHANGED <<mode, attempt, seen, file, ino, alive, index, result,
                 receipted, history>>

(* The file moved aside is the one read before when its inode agrees.      *)
SameAsSeen(p) == file[aside[p]] = "written" /\ ino[aside[p]] = seen[p]

CheckStale(p) ==
  /\ pc[p] = "checkStale"
  /\ \/ /\ SameAsSeen(p)
        /\ file' = [file EXCEPT ![aside[p]] = "gone"]
        /\ aside' = [aside EXCEPT ![p] = None]
        /\ attempt' = [attempt EXCEPT ![p] = @ + 1]
        /\ Goto(p, "open")
     \/ /\ ~SameAsSeen(p)
        /\ Goto(p, "failed")
        /\ UNCHANGED <<file, aside, attempt>>
  /\ UNCHANGED <<mode, seen, ino, lock, alive, index, result, receipted,
                 history>>

-----------------------------------------------------------------------------
(* writeArtifactIndexAtomic renames a private file over the index and then *)
(* checks that the published bytes are its own.                            *)
Publishes(p, kind) == index' = [by |-> p, kind |-> kind]
StillMine(p, kind) == index = [by |-> p, kind |-> kind]

(* Where a failed step of the body leads: a complete invocation publishes  *)
(* a failure receipt first, a plain one only rethrows.                     *)
Rethrow(p) == Goto(p, IF mode[p] = "complete" THEN "failure" ELSE "failed")

(* Mutant of PublishReceipt: an index that is already there is kept.       *)
PublishReceiptIfAbsent(p) ==
  /\ pc[p] = "receipt"
  /\ IF index.kind = "absent" THEN Publishes(p, "sealing") ELSE UNCHANGED index
  /\ receipted' = receipted \cup {p}
  /\ Goto(p, "receiptCheck")
  /\ UNCHANGED <<mode, lockVars, alive, result, history>>

PublishReceipt(p) ==
  /\ pc[p] = "receipt"
  /\ Publishes(p, "sealing")
  /\ receipted' = receipted \cup {p}
  /\ Goto(p, "receiptCheck")
  /\ UNCHANGED <<mode, lockVars, alive, result, history>>

CheckReceipt(p) ==
  /\ pc[p] = "receiptCheck"
  /\ Goto(p, IF StillMine(p, "sealing") THEN "enumerate" ELSE "failure")
  /\ UNCHANGED <<mode, lockVars, alive, index, result, receipted, history>>

(* indexArtifacts: every artifact listed, some omitted, or an error.       *)
Enumerate(p) ==
  /\ pc[p] = "enumerate"
  /\ \/ /\ \E r \in {"complete", "partial"} : result' = [result EXCEPT ![p] = r]
        /\ Goto(p, "publish")
     \/ /\ Rethrow(p)
        /\ UNCHANGED result
  /\ UNCHANGED <<mode, lockVars, alive, index, receipted, history>>

PublishIndex(p) ==
  /\ pc[p] = "publish"
  /\ Publishes(p, result[p])
  /\ Goto(p, "publishCheck")
  /\ UNCHANGED <<mode, lockVars, alive, result, receipted, history>>

CheckPublished(p) ==
  /\ pc[p] = "publishCheck"
  /\ IF StillMine(p, result[p])
     THEN Goto(p, IF mode[p] = "complete" THEN "releaseRead" ELSE "listed")
     ELSE Rethrow(p)
  /\ UNCHANGED <<mode, lockVars, alive, index, result, receipted, history>>

(* A publication can also fail before its rename and change nothing.       *)
PublicationFails(p) ==
  /\ pc[p] \in {"receipt", "publish"}
  /\ Rethrow(p)
  /\ UNCHANGED <<mode, lockVars, alive, index, result, receipted, history>>

(* The catch block of runArtifactsCommand; whether or not the failure      *)
(* receipt can be published, the finally block then releases the lock.     *)
PublishFailure(p) ==
  /\ pc[p] = "failure"
  /\ \/ Publishes(p, "failed") /\ receipted' = receipted \cup {p}
     \/ UNCHANGED <<index, receipted>>
  /\ result' = [result EXCEPT ![p] = "error"]
  /\ Goto(p, "releaseRead")
  /\ UNCHANGED <<mode, lockVars, alive, history>>

-----------------------------------------------------------------------------
(* Mutant of OwnLock: whatever complete lock is there will do.             *)
OwnLockIsAnyLock(p, f) == f # None /\ file[f] = "written"

(* releaseArtifactSealLock compares both the token and the inode.          *)
OwnLock(p, f) ==
  /\ f # None
  /\ file[f] = "written"
  /\ f = p
  /\ ino[f] = ino[p]

ReadOwnLock(p) ==
  /\ pc[p] = "releaseRead"
  /\ Goto(p, IF OwnLock(p, lock) THEN "releaseRename" ELSE "failed")
  /\ UNCHANGED <<mode, lockVars, alive, index, result, receipted, history>>

RenameOwnLock(p) ==
  /\ pc[p] = "releaseRename"
  /\ \/ /\ lock # None
        /\ aside' = [aside EXCEPT ![p] = lock]
        /\ lock' = None
        /\ Goto(p, "releaseCheck")
     \/ /\ lock = None
        /\ Goto(p, "failed")
        /\ UNCHANGED <<aside, lock>>
  /\ UNCHANGED <<mode, attempt, seen, file, ino, alive, index, result,
                 receipted, history>>

(* Mutant of CheckReleased: the omissions of the index are forgotten.      *)
CheckReleasedOnly(p) ==
  /\ pc[p] = "releaseCheck"
  /\ \/ /\ OwnLock(p, aside[p])
        /\ file' = [file EXCEPT ![p] = "gone"]
        /\ aside' = [aside EXCEPT ![p] = None]
        /\ Goto(p, "sealed")
     \/ /\ ~OwnLock(p, aside[p])
        /\ Goto(p, "failed")
        /\ UNCHANGED <<file, aside>>
  /\ UNCHANGED <<mode, attempt, seen, ino, lock, alive, index, result,
                 receipted, history>>

(* The command succeeds when the lock it removed was its own and its index *)
(* left nothing out.                                                       *)
CheckReleased(p) ==
  /\ pc[p] = "releaseCheck"
  /\ \/ /\ OwnLock(p, aside[p])
        /\ file' = [file EXCEPT ![p] = "gone"]
        /\ aside' = [aside EXCEPT ![p] = None]
        /\ Goto(p, IF result[p] = "complete" THEN "sealed" ELSE "failed")
     \/ /\ ~OwnLock(p, aside[p])
        /\ Goto(p, "failed")
        /\ UNCHANGED <<file, aside>>
  /\ UNCHANGED <<mode, attempt, seen, ino, lock, alive, index, result,
                 receipted, history>>

-----------------------------------------------------------------------------
Crash(p) ==
  /\ pc[p] \notin Terminal
  /\ Goto(p, "crashed")
  /\ alive' = alive \ {p}
  /\ UNCHANGED <<mode, lockVars, index, result, receipted, history>>

(* isProcessAlive asks for a process id: the invocation may have ended     *)
(* while its host process goes on, and after the host exits the id may     *)
(* be given to an unrelated process.                                       *)
PidChanges(p) ==
  /\ pc[p] \in Terminal
  /\ alive' = IF p \in alive THEN alive \ {p} ELSE alive \cup {p}
  /\ UNCHANGED <<mode, pc, lockVars, index, result, receipted, history>>

Step(p) ==
  \/ CreateLock(p) \/ LockExists(p) \/ WriteLock(p) \/ WriteLockFails(p)
  \/ ReadLock(p) \/ Quarantine(p) \/ CheckStale(p)
  \/ PublishReceipt(p) \/ CheckReceipt(p) \/ Enumerate(p)
  \/ PublishIndex(p) \/ CheckPublished(p) \/ PublicationFails(p)
  \/ PublishFailure(p)
  \/ ReadOwnLock(p) \/ RenameOwnLock(p) \/ CheckReleased(p)

Next == \E p \in Procs : Step(p) \/ Crash(p) \/ PidChanges(p)

Spec == Init /\ [][Next]_vars

-----------------------------------------------------------------------------
Steps == Acquiring \cup {"writeLock"} \cup Indexing \cup Releasing \cup Terminal

TypeOK ==
  /\ mode \in [Procs -> {"complete", "plain"}]
  /\ pc \in [Procs -> Steps]
  /\ attempt \in [Procs -> {0, 1}]
  /\ seen \in [Procs -> Inodes \cup {None}]
  /\ file \in [Procs -> {"none", "empty", "written", "gone"}]
  /\ ino \in [Procs -> Inodes \cup {None}]
  /\ lock \in Procs \cup {None}
  /\ aside \in [Procs -> Procs \cup {None}]
  /\ alive \subseteq Procs
  /\ index \in [by : Procs \cup {None},
                kind : {"absent", "sealing", "complete", "partial", "failed"}]
  /\ result \in [Procs -> {"none", "complete", "partial", "error"}]
  /\ receipted \subseteq Procs
  /\ before \subseteq Procs \X Procs
  /\ overlap \subseteq before

(* The command's own claim when it finds a live lock ("Complete artifact   *)
(* indexing is already running") is that two complete invocations never    *)
(* index at once.                                                          *)
OneSealer == Cardinality({p \in Procs : Sealing(p) /\ pc[p] \in Indexing}) <= 1

(* What survives a lock stolen during stale-lock recovery: an invocation   *)
(* that was still sealing when another one created its lock never reports  *)
(* success, so two successful seals were never in progress together.       *)
OvertakenNeverSeals == \A p, q \in Procs : <<p, q>> \in overlap => pc[p] # "sealed"

(* Once an invocation has posted a receipt, no complete seal of an earlier *)
(* invocation is on disk, not even after a crash or an error, unless the   *)
(* earlier one was overtaken while it was sealing.                         *)
EarlierSealRevoked ==
  \A p, q \in Procs :
    /\ <<q, p>> \in before
    /\ p \in receipted
    /\ index = [by |-> q, kind |-> "complete"]
    => <<q, p>> \in overlap

(* A successful seal stays on disk, whole, until a later invocation posts  *)
(* its receipt; only a plain invocation or an overtaken one can replace    *)
(* it before that.                                                         *)
SealStands ==
  \A p \in Procs :
    /\ pc[p] = "sealed"
    /\ \A q \in Procs : mode[q] = "complete" /\ <<q, p>> \notin overlap
    /\ \A q \in receipted : <<p, q>> \notin before
    => index = [by |-> p, kind |-> "complete"]

(* The turn of an invocation begins with its lock file, is lost to the     *)
(* next one that makes a lock file, and is closed by renaming its own lock *)
(* file away.                                                              *)
Turn(p) ==
  CASE file[p] = "none"                               -> "waiting"
    [] file[p] # "none" /\ pc[p] = "sealed"           -> "sealed"
    [] file[p] # "none" /\ pc[p] \in Terminal \ {"sealed"} -> "over"
    [] file[p] # "none" /\ pc[p] \notin Terminal      ->
         IF pc[p] = "releaseCheck" /\ aside[p] = p THEN "closed"
         ELSE IF \E q \in Procs : <<p, q>> \in before THEN "lost" ELSE "sealing"

Turns == INSTANCE SealTurns WITH turn <- [p \in Procs |-> Turn(p)]

(* Locks, their recovery and their release together make invocations seal  *)
(* in turn: none succeeds once another one has begun, at any point up to   *)
(* the rename that gives up its own lock, even if its lock was stolen.     *)
SealsInTurn == Turns!TurnsSpec
=============================================================================
