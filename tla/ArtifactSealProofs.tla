------------------------- MODULE ArtifactSealProofs -------------------------
(***************************************************************************)
(* Proofs of the safety properties of ArtifactSeal, for every set of       *)
(* invocations and every set of inode numbers.                             *)
(***************************************************************************)
EXTENDS ArtifactSeal, TLAPS

-----------------------------------------------------------------------------
(* The inductive invariant.                                                *)

(* An invocation has a lock file only after it stopped trying to get one,  *)
(* and it posts no receipt before; the recovery of a stale lock is tried   *)
(* on the first attempt only.                                              *)
Bookkeeping ==
  \A p \in Procs :
    /\ file[p] # "none" => mode[p] = "complete" /\ pc[p] \notin Acquiring
    /\ p \in receipted => pc[p] \notin Acquiring
    /\ pc[p] \in {"quarantine", "checkStale"} => attempt[p] = 0
    /\ /\ mode[p] = "complete"
       /\ pc[p] \in Indexing \cup Releasing \cup {"writeLock", "sealed"}
       => file[p] # "none"
    /\ mode[p] = "plain"
         => pc[p] \in {"enumerate", "publish", "publishCheck",
                       "listed", "failed", "crashed"}
    /\ pc[p] \in {"publish", "publishCheck"}
         => result[p] \in {"complete", "partial"}
    /\ /\ mode[p] = "complete"
       /\ pc[p] \in {"receiptCheck", "enumerate", "publish", "publishCheck"}
       => p \in receipted

(* The lock files are created one after the other.                         *)
CreationOrder ==
  /\ \A p, q \in Procs : <<p, q>> \in before => file[p] # "none" /\ file[q] # "none"
  /\ \A p, q \in Procs :
       file[p] # "none" /\ file[q] # "none" /\ p # q
         => <<p, q>> \in before \/ <<q, p>> \in before
  /\ \A p \in Procs : <<p, p>> \notin before

(* An overtaken invocation no longer has the lock, so it cannot get past   *)
(* the check that opens its release.                                       *)
OvertakenHasNoLock ==
  \A p, q \in Procs : <<p, q>> \in overlap =>
    /\ lock # p
    /\ pc[p] \notin Acquiring \cup {"releaseRename", "releaseCheck", "sealed"}

(* An invocation that was not overtaken by a later one had done with the   *)
(* index when the later one began.                                         *)
EarlierIsDone ==
  \A p, q \in Procs : <<q, p>> \in before /\ <<q, p>> \notin overlap =>
    pc[q] \in {"releaseRename", "releaseCheck"} \cup Terminal

(* SealStands, from the check of the published index on.                   *)
PublishedStands ==
  \A p \in Procs :
    /\ mode[p] = "complete"
    /\ pc[p] \in Releasing \cup {"sealed"}
    /\ result[p] = "complete"
    /\ \A q \in Procs : mode[q] = "complete" /\ <<q, p>> \notin overlap
    /\ \A q \in receipted : <<p, q>> \notin before
    => index = [by |-> p, kind |-> "complete"]

SealedIsComplete ==
  \A p \in Procs : pc[p] = "sealed" => mode[p] = "complete" /\ result[p] = "complete"

Inv ==
  /\ TypeOK
  /\ Bookkeeping
  /\ CreationOrder
  /\ OvertakenHasNoLock
  /\ EarlierIsDone
  /\ EarlierSealRevoked
  /\ PublishedStands
  /\ SealedIsComplete

-----------------------------------------------------------------------------
(* Every step keeps the types.                                             *)
LEMMA TypeStep == Inv /\ [Next]_vars => TypeOK'
<1> SUFFICES ASSUME Inv, [Next]_vars PROVE TypeOK'
  OBVIOUS
<1> USE SealAssumption
    DEF Inv, TypeOK, Bookkeeping, Steps, Acquiring, Indexing, Releasing,
        Terminal, Goto, lockVars, history
<1>1. ASSUME NEW p \in Procs, CreateLock(p) PROVE TypeOK'
  BY <1>1 DEF CreateLock, Created, Sealing
<1>2. ASSUME NEW p \in Procs,
            WriteLock(p) \/ WriteLockFails(p) \/ LockExists(p)
     PROVE  TypeOK'
  BY <1>2 DEF WriteLock, WriteLockFails, LockExists
<1>3. ASSUME NEW p \in Procs, ReadLock(p) PROVE TypeOK'
  BY <1>3 DEF ReadLock, Stale
<1>4. ASSUME NEW p \in Procs, Quarantine(p) PROVE TypeOK'
  BY <1>4 DEF Quarantine
<1>5. ASSUME NEW p \in Procs, CheckStale(p) PROVE TypeOK'
  BY <1>5 DEF CheckStale, SameAsSeen
<1>6. ASSUME NEW p \in Procs,
            PublishReceipt(p) \/ CheckReceipt(p) \/ PublicationFails(p)
     PROVE  TypeOK'
  BY <1>6 DEF PublishReceipt, Publishes, CheckReceipt, PublicationFails,
     Rethrow
<1>7. ASSUME NEW p \in Procs,
            Enumerate(p) \/ PublishIndex(p) \/ CheckPublished(p)
     PROVE  TypeOK'
  BY <1>7 DEF Enumerate, Rethrow, PublishIndex, Publishes, CheckPublished,
     StillMine
<1>8. ASSUME NEW p \in Procs, PublishFailure(p) PROVE TypeOK'
  BY <1>8 DEF PublishFailure, Publishes
<1>9. ASSUME NEW p \in Procs,
            ReadOwnLock(p) \/ RenameOwnLock(p) \/ CheckReleased(p)
     PROVE  TypeOK'
  BY <1>9 DEF ReadOwnLock, OwnLock, RenameOwnLock, CheckReleased
<1>10. ASSUME NEW p \in Procs, Crash(p) \/ PidChanges(p) PROVE TypeOK'
  BY <1>10 DEF Crash, PidChanges
<1>11. CASE UNCHANGED vars
  BY <1>11 DEF vars
<1> QED
  BY <1>1, <1>2, <1>3, <1>4, <1>5, <1>6, <1>7, <1>8, <1>9, <1>10, <1>11 DEF
     Next, Step

(* Every step keeps the relation between a step, its lock file and receipt.*)
LEMMA BookkeepingStep == Inv /\ [Next]_vars => Bookkeeping'
<1> SUFFICES ASSUME Inv, [Next]_vars PROVE Bookkeeping'
  OBVIOUS
<1> USE SealAssumption
    DEF Inv, TypeOK, Bookkeeping, Steps, Acquiring, Indexing, Releasing,
        Terminal, Goto, lockVars, history
<1>1. ASSUME NEW p \in Procs, CreateLock(p) PROVE Bookkeeping'
  BY <1>1 DEF CreateLock, Created, Sealing
<1>2. ASSUME NEW p \in Procs,
            LockExists(p) \/ WriteLock(p) \/ WriteLockFails(p)
     PROVE  Bookkeeping'
  BY <1>2 DEF LockExists, WriteLock, WriteLockFails
<1>3. ASSUME NEW p \in Procs, ReadLock(p) PROVE Bookkeeping'
  BY <1>3 DEF ReadLock, Stale
<1>4. ASSUME NEW p \in Procs, Quarantine(p) PROVE Bookkeeping'
  BY <1>4 DEF Quarantine
<1>5. ASSUME NEW p \in Procs, CheckStale(p) PROVE Bookkeeping'
  BY <1>5 DEF CheckStale, SameAsSeen
<1>6. ASSUME NEW p \in Procs, PublishReceipt(p) \/ CheckReceipt(p) PROVE Bookkeeping'
  BY <1>6 DEF PublishReceipt, Publishes, CheckReceipt
<1>7. ASSUME NEW p \in Procs, Enumerate(p) PROVE Bookkeeping'
  BY <1>7 DEF Enumerate, Rethrow
<1>8. ASSUME NEW p \in Procs, PublishIndex(p) \/ CheckPublished(p) PROVE Bookkeeping'
  BY <1>8 DEF PublishIndex, Publishes, CheckPublished, StillMine, Rethrow
<1>9. ASSUME NEW p \in Procs, PublicationFails(p) PROVE Bookkeeping'
  BY <1>9 DEF PublicationFails, Rethrow
<1>10. ASSUME NEW p \in Procs, PublishFailure(p) PROVE Bookkeeping'
  BY <1>10 DEF PublishFailure, Publishes
<1>11. ASSUME NEW p \in Procs, ReadOwnLock(p) \/ RenameOwnLock(p) PROVE Bookkeeping'
  BY <1>11 DEF ReadOwnLock, OwnLock, RenameOwnLock
<1>12. ASSUME NEW p \in Procs, CheckReleased(p) PROVE Bookkeeping'
  BY <1>12 DEF CheckReleased
<1>13. ASSUME NEW p \in Procs, Crash(p) \/ PidChanges(p) PROVE Bookkeeping'
  BY <1>13 DEF Crash, PidChanges
<1>14. CASE UNCHANGED vars
  BY <1>14 DEF vars
<1> QED
  BY <1>1, <1>2, <1>3, <1>4, <1>5, <1>6, <1>7, <1>8, <1>9, <1>10, <1>11,
     <1>12, <1>13, <1>14 DEF Next, Step

(* Every step keeps the lock files ordered by creation.                    *)
LEMMA CreationOrderStep == Inv /\ [Next]_vars => CreationOrder'
<1> SUFFICES ASSUME Inv, [Next]_vars PROVE CreationOrder'
  OBVIOUS
<1> USE SealAssumption
    DEF Inv, TypeOK, Bookkeeping, CreationOrder, Steps, Acquiring, Indexing,
        Releasing, Terminal, Goto, lockVars, history
<1>1. ASSUME NEW p \in Procs, CreateLock(p) PROVE CreationOrder'
  BY <1>1 DEF CreateLock, Created, Sealing
<1>2. ASSUME NEW p \in Procs, WriteLock(p) PROVE CreationOrder'
  BY <1>2 DEF WriteLock
<1>3. ASSUME NEW p \in Procs, CheckStale(p) PROVE CreationOrder'
  BY <1>3 DEF CheckStale, SameAsSeen
<1>4. ASSUME NEW p \in Procs, CheckReleased(p) PROVE CreationOrder'
  BY <1>4 DEF CheckReleased
<1>5. ASSUME NEW p \in Procs,
            LockExists(p) \/ WriteLockFails(p) \/ ReadLock(p) \/
            Quarantine(p) \/ PublishReceipt(p) \/ CheckReceipt(p) \/
            Enumerate(p) \/ PublishIndex(p) \/ CheckPublished(p) \/
            PublicationFails(p) \/ PublishFailure(p) \/ ReadOwnLock(p)
            \/ RenameOwnLock(p) \/ Crash(p) \/ PidChanges(p)
     PROVE  CreationOrder'
  BY <1>5 DEF LockExists, WriteLockFails, ReadLock, Stale, Quarantine,
     PublishReceipt, Publishes, CheckReceipt, Enumerate, Rethrow,
     PublishIndex, CheckPublished, StillMine, PublicationFails,
     PublishFailure, ReadOwnLock, OwnLock, RenameOwnLock, Crash, PidChanges
<1>6. CASE UNCHANGED vars
  BY <1>6 DEF vars
<1> QED
  BY <1>1, <1>2, <1>3, <1>4, <1>5, <1>6 DEF Next, Step

(* No step gives an overtaken invocation its lock, or its success, back.   *)
LEMMA OvertakenStep == Inv /\ [Next]_vars => OvertakenHasNoLock'
<1> SUFFICES ASSUME Inv, [Next]_vars PROVE OvertakenHasNoLock'
  OBVIOUS
<1> USE SealAssumption
    DEF Inv, TypeOK, Bookkeeping, OvertakenHasNoLock, CreationOrder, Steps,
        Acquiring, Indexing, Releasing, Terminal, Goto, lockVars, history
<1>1. ASSUME NEW p \in Procs, CreateLock(p) PROVE OvertakenHasNoLock'
  BY <1>1 DEF CreateLock, Created, Sealing
<1>2. ASSUME NEW p \in Procs, Quarantine(p) PROVE OvertakenHasNoLock'
  BY <1>2 DEF Quarantine
<1>3. ASSUME NEW p \in Procs, ReadOwnLock(p) PROVE OvertakenHasNoLock'
  BY <1>3 DEF ReadOwnLock, OwnLock
<1>4. ASSUME NEW p \in Procs, RenameOwnLock(p) PROVE OvertakenHasNoLock'
  BY <1>4 DEF RenameOwnLock
<1>5. ASSUME NEW p \in Procs,
            LockExists(p) \/ WriteLock(p) \/ WriteLockFails(p) \/
            ReadLock(p) \/ CheckStale(p) \/ PublishReceipt(p) \/
            CheckReceipt(p) \/ Enumerate(p) \/ PublishIndex(p) \/
            CheckPublished(p) \/ PublicationFails(p) \/
            PublishFailure(p) \/ CheckReleased(p) \/ Crash(p) \/
            PidChanges(p)
     PROVE  OvertakenHasNoLock'
  BY <1>5 DEF LockExists, WriteLock, WriteLockFails, ReadLock, Stale,
     CheckStale, SameAsSeen, PublishReceipt, Publishes, CheckReceipt,
     Enumerate, Rethrow, PublishIndex, CheckPublished, StillMine,
     PublicationFails, PublishFailure, CheckReleased, Crash, PidChanges
<1>6. CASE UNCHANGED vars
  BY <1>6 DEF vars
<1> QED
  BY <1>1, <1>2, <1>3, <1>4, <1>5, <1>6 DEF Next, Step

(* No step lets an invocation index again after a later one began.         *)
LEMMA EarlierStep == Inv /\ [Next]_vars => EarlierIsDone'
<1> SUFFICES ASSUME Inv, [Next]_vars PROVE EarlierIsDone'
  OBVIOUS
<1> USE SealAssumption
    DEF Inv, TypeOK, Bookkeeping, EarlierIsDone, CreationOrder, Steps,
        Acquiring, Indexing, Releasing, Terminal, Goto, lockVars, history
<1>1. ASSUME NEW p \in Procs, CreateLock(p) PROVE EarlierIsDone'
  BY <1>1 DEF CreateLock, Created, Sealing
<1>2. ASSUME NEW p \in Procs,
            LockExists(p) \/ WriteLock(p) \/ WriteLockFails(p) \/
            ReadLock(p) \/ Quarantine(p) \/ CheckStale(p) \/
            PublishReceipt(p) \/ CheckReceipt(p) \/ Enumerate(p) \/
            PublishIndex(p) \/ CheckPublished(p) \/ PublicationFails(p)
            \/ PublishFailure(p) \/ ReadOwnLock(p) \/ RenameOwnLock(p)
            \/ CheckReleased(p) \/ Crash(p) \/ PidChanges(p)
     PROVE  EarlierIsDone'
  BY <1>2 DEF LockExists, WriteLock, WriteLockFails, ReadLock, Stale,
     Quarantine, CheckStale, SameAsSeen, PublishReceipt, Publishes,
     CheckReceipt, Enumerate, Rethrow, PublishIndex, CheckPublished,
     StillMine, PublicationFails, PublishFailure, ReadOwnLock, OwnLock,
     RenameOwnLock, CheckReleased, Crash, PidChanges
<1>3. CASE UNCHANGED vars
  BY <1>3 DEF vars
<1> QED
  BY <1>1, <1>2, <1>3 DEF Next, Step

(* No step brings an earlier seal back over a receipt.                     *)
LEMMA RevokedStep == Inv /\ [Next]_vars => EarlierSealRevoked'
<1> SUFFICES ASSUME Inv, [Next]_vars PROVE EarlierSealRevoked'
  OBVIOUS
<1> USE SealAssumption
    DEF Inv, TypeOK, Bookkeeping, EarlierSealRevoked, EarlierIsDone,
        CreationOrder, Steps, Acquiring, Indexing, Releasing, Terminal,
        Goto, lockVars, history
<1>1. ASSUME NEW p \in Procs, CreateLock(p) PROVE EarlierSealRevoked'
  BY <1>1 DEF CreateLock, Created, Sealing
<1>2. ASSUME NEW p \in Procs, PublishReceipt(p) PROVE EarlierSealRevoked'
  BY <1>2 DEF PublishReceipt, Publishes
<1>3. ASSUME NEW p \in Procs, PublishIndex(p) PROVE EarlierSealRevoked'
  BY <1>3 DEF PublishIndex, Publishes
<1>4. ASSUME NEW p \in Procs, PublishFailure(p) PROVE EarlierSealRevoked'
  BY <1>4 DEF PublishFailure, Publishes
<1>5. ASSUME NEW p \in Procs,
            LockExists(p) \/ WriteLock(p) \/ WriteLockFails(p) \/
            ReadLock(p) \/ Quarantine(p) \/ CheckStale(p) \/
            CheckReceipt(p) \/ Enumerate(p) \/ CheckPublished(p) \/
            PublicationFails(p) \/ ReadOwnLock(p) \/ RenameOwnLock(p) \/
            CheckReleased(p) \/ Crash(p) \/ PidChanges(p)
     PROVE  EarlierSealRevoked'
  BY <1>5 DEF LockExists, WriteLock, WriteLockFails, ReadLock, Stale,
     Quarantine, CheckStale, SameAsSeen, CheckReceipt, Enumerate, Rethrow,
     CheckPublished, StillMine, PublicationFails, ReadOwnLock, OwnLock,
     RenameOwnLock, CheckReleased, Crash, PidChanges
<1>6. CASE UNCHANGED vars
  BY <1>6 DEF vars
<1> QED
  BY <1>1, <1>2, <1>3, <1>4, <1>5, <1>6 DEF Next, Step

(* An invocation still indexing next to one that has already published,    *)
(* and that was not overtaken by it, is the later of the two.              *)
LEMMA StillIndexingIsLater ==
  ASSUME Inv, NEW p \in Procs, NEW r \in Procs,
         mode[p] = "complete", pc[p] \in Indexing,
         mode[r] = "complete", pc[r] \in Releasing \cup {"sealed"},
         <<p, r>> \notin overlap
  PROVE  <<r, p>> \in before
<1>1. p # r
  BY DEF Indexing, Releasing
<1>2. file[p] # "none" /\ file[r] # "none"
  BY DEF Inv, Bookkeeping
<1>3. <<p, r>> \in before \/ <<r, p>> \in before
  BY <1>1, <1>2 DEF Inv, CreationOrder
<1>4. <<p, r>> \notin before
  BY DEF Inv, EarlierIsDone, Indexing, Releasing, Terminal
<1> QED
  BY <1>3, <1>4

(* No step replaces a seal that was published and that nothing revoked.    *)
LEMMA StandsStep == Inv /\ [Next]_vars => PublishedStands'
<1> SUFFICES ASSUME Inv, [Next]_vars PROVE PublishedStands'
  OBVIOUS
<1> USE SealAssumption
    DEF Inv, TypeOK, Bookkeeping, PublishedStands, EarlierIsDone,
        CreationOrder, Steps, Acquiring, Indexing, Releasing, Terminal,
        Goto, lockVars, history
<1>1. ASSUME NEW p \in Procs, CreateLock(p) PROVE PublishedStands'
  BY <1>1 DEF CreateLock, Created, Sealing
<1>2. ASSUME NEW p \in Procs, PublishReceipt(p) PROVE PublishedStands'
  <2> SUFFICES ASSUME NEW r \in Procs,
                      mode'[r] = "complete",
                      pc'[r] \in Releasing \cup {"sealed"},
                      result'[r] = "complete",
                      \A q \in Procs : mode'[q] = "complete" /\ <<q, r>> \notin overlap',
                      \A q \in receipted' : <<r, q>> \notin before'
               PROVE  index' = [by |-> r, kind |-> "complete"]
    BY DEF PublishedStands
  <2>1. r # p /\ mode[p] = "complete" /\ mode[r] = "complete"
    BY <1>2 DEF PublishReceipt
  <2>2. pc[p] \in Indexing /\ pc[r] \in Releasing \cup {"sealed"} /\ <<p, r>> \notin overlap
    BY <1>2, <2>1 DEF PublishReceipt
  <2>3. <<r, p>> \in before
    BY <2>1, <2>2, StillIndexingIsLater
  <2>4. p \in receipted'
    BY <1>2, <2>1 DEF PublishReceipt
  <2> QED
    BY <1>2, <2>3, <2>4 DEF PublishReceipt
<1>3. ASSUME NEW p \in Procs, Enumerate(p) PROVE PublishedStands'
  BY <1>3 DEF Enumerate, Rethrow
<1>4. ASSUME NEW p \in Procs, PublishIndex(p) PROVE PublishedStands'
  <2> SUFFICES ASSUME NEW r \in Procs,
                      mode'[r] = "complete",
                      pc'[r] \in Releasing \cup {"sealed"},
                      result'[r] = "complete",
                      \A q \in Procs : mode'[q] = "complete" /\ <<q, r>> \notin overlap',
                      \A q \in receipted' : <<r, q>> \notin before'
               PROVE  index' = [by |-> r, kind |-> "complete"]
    BY DEF PublishedStands
  <2> pc'[p] = "publishCheck" /\ mode' = mode
    BY <1>4 DEF PublishIndex
  <2>1. r # p /\ mode[p] = "complete" /\ mode[r] = "complete"
    OBVIOUS
  <2>2. pc[p] \in Indexing /\ pc[r] \in Releasing \cup {"sealed"} /\ <<p, r>> \notin overlap
    BY <1>4, <2>1 DEF PublishIndex
  <2>3. <<r, p>> \in before
    BY <2>1, <2>2, StillIndexingIsLater
  <2>4. p \in receipted'
    BY <1>4, <2>1 DEF PublishIndex
  <2> QED
    BY <1>4, <2>3, <2>4 DEF PublishIndex
<1>5. ASSUME NEW p \in Procs, CheckPublished(p) PROVE PublishedStands'
  BY <1>5 DEF CheckPublished, StillMine, Rethrow
<1>6. ASSUME NEW p \in Procs, PublishFailure(p) PROVE PublishedStands'
  <2> SUFFICES ASSUME NEW r \in Procs,
                      mode'[r] = "complete",
                      pc'[r] \in Releasing \cup {"sealed"},
                      result'[r] = "complete",
                      \A q \in Procs : mode'[q] = "complete" /\ <<q, r>> \notin overlap',
                      \A q \in receipted' : <<r, q>> \notin before'
               PROVE  index' = [by |-> r, kind |-> "complete"]
    BY DEF PublishedStands
  <2>1. r # p /\ mode[p] = "complete" /\ mode[r] = "complete"
    BY <1>6 DEF PublishFailure
  <2>2. pc[p] \in Indexing /\ pc[r] \in Releasing \cup {"sealed"} /\ <<p, r>> \notin overlap
    BY <1>6, <2>1 DEF PublishFailure
  <2>3. <<r, p>> \in before
    BY <2>1, <2>2, StillIndexingIsLater
  <2>4. p \notin receipted'
    BY <1>6, <2>3 DEF PublishFailure
  <2>5. UNCHANGED <<index, receipted>>
    BY <1>6, <2>4 DEF PublishFailure
  <2>6. result[r] = "complete"
    BY <1>6, <2>1 DEF PublishFailure
  <2>7. \A q \in Procs : mode[q] = "complete" /\ <<q, r>> \notin overlap
    BY <1>6 DEF PublishFailure
  <2>8. \A q \in receipted : <<r, q>> \notin before
    BY <1>6, <2>5 DEF PublishFailure
  <2> QED
    BY <2>1, <2>2, <2>5, <2>6, <2>7, <2>8
<1>7. ASSUME NEW p \in Procs,
            LockExists(p) \/ WriteLock(p) \/ WriteLockFails(p) \/
            ReadLock(p) \/ Quarantine(p) \/ CheckStale(p) \/
            CheckReceipt(p) \/ PublicationFails(p) \/ ReadOwnLock(p) \/
            RenameOwnLock(p) \/ CheckReleased(p) \/ Crash(p) \/
            PidChanges(p)
     PROVE  PublishedStands'
  BY <1>7 DEF LockExists, WriteLock, WriteLockFails, ReadLock, Stale,
     Quarantine, CheckStale, SameAsSeen, CheckReceipt, PublicationFails,
     Rethrow, ReadOwnLock, OwnLock, RenameOwnLock, CheckReleased, Crash,
     PidChanges
<1>8. CASE UNCHANGED vars
  BY <1>8 DEF vars
<1> QED
  BY <1>1, <1>2, <1>3, <1>4, <1>5, <1>6, <1>7, <1>8 DEF Next, Step

(* A success is only reported for an index that left nothing out.          *)
LEMMA SealedStep == Inv /\ [Next]_vars => SealedIsComplete'
<1> SUFFICES ASSUME Inv, [Next]_vars PROVE SealedIsComplete'
  OBVIOUS
<1> USE SealAssumption
    DEF Inv, TypeOK, Bookkeeping, SealedIsComplete, Steps, Acquiring,
        Indexing, Releasing, Terminal, Goto, lockVars, history
<1>1. ASSUME NEW p \in Procs, Enumerate(p) PROVE SealedIsComplete'
  BY <1>1 DEF Enumerate, Rethrow
<1>2. ASSUME NEW p \in Procs, PublishFailure(p) PROVE SealedIsComplete'
  BY <1>2 DEF PublishFailure, Publishes
<1>3. ASSUME NEW p \in Procs, CheckReleased(p) PROVE SealedIsComplete'
  BY <1>3 DEF CheckReleased
<1>4. ASSUME NEW p \in Procs,
            CreateLock(p) \/ LockExists(p) \/ WriteLock(p) \/
            WriteLockFails(p) \/ ReadLock(p) \/ Quarantine(p) \/
            CheckStale(p) \/ PublishReceipt(p) \/ CheckReceipt(p) \/
            PublishIndex(p) \/ CheckPublished(p) \/ PublicationFails(p)
            \/ ReadOwnLock(p) \/ RenameOwnLock(p) \/ Crash(p) \/
            PidChanges(p)
     PROVE  SealedIsComplete'
  BY <1>4 DEF CreateLock, LockExists, WriteLock, WriteLockFails, ReadLock,
     Stale, Quarantine, CheckStale, SameAsSeen, PublishReceipt, Publishes,
     CheckReceipt, PublishIndex, CheckPublished, StillMine, Rethrow,
     PublicationFails, ReadOwnLock, OwnLock, RenameOwnLock, Crash,
     PidChanges
<1>5. CASE UNCHANGED vars
  BY <1>5 DEF vars
<1> QED
  BY <1>1, <1>2, <1>3, <1>4, <1>5 DEF Next, Step

-----------------------------------------------------------------------------
(* The inductive invariant holds before anything runs.                     *)
LEMMA InitInv == Init => Inv
  BY SealAssumption
     DEF Init, Inv, TypeOK, Bookkeeping, CreationOrder, OvertakenHasNoLock,
         EarlierIsDone, EarlierSealRevoked, PublishedStands, SealedIsComplete,
         Steps, Acquiring, Indexing, Releasing, Terminal

(* The inductive invariant always holds.                                   *)
LEMMA Invariance == Spec => []Inv
<1>1. Inv /\ [Next]_vars => Inv'
  BY TypeStep, BookkeepingStep, CreationOrderStep, OvertakenStep, EarlierStep,
     RevokedStep, StandsStep, SealedStep DEF Inv
<1> QED
  BY InitInv, <1>1, PTL DEF Spec

(* Every variable of the seal keeps its type.                              *)
THEOREM TypeCorrect == Spec => []TypeOK
<1>1. Inv => TypeOK
  BY DEF Inv
<1> QED
  BY Invariance, <1>1, PTL

(* An invocation that another one overtook while it was sealing never      *)
(* reports success, however many invocations recover, crash or reuse       *)
(* process ids and inode numbers.                                          *)
THEOREM OvertakenFails == Spec => []OvertakenNeverSeals
<1>1. Inv => OvertakenNeverSeals
  BY DEF Inv, OvertakenHasNoLock, OvertakenNeverSeals
<1> QED
  BY Invariance, <1>1, PTL

(* A receipt revokes the complete seals of all earlier invocations that    *)
(* were not overtaken.                                                     *)
THEOREM ReceiptRevokes == Spec => []EarlierSealRevoked
<1>1. Inv => EarlierSealRevoked
  BY DEF Inv
<1> QED
  BY Invariance, <1>1, PTL

(* A successful seal is the index on disk until a later receipt.           *)
THEOREM SealIsKept == Spec => []SealStands
<1>1. Inv => SealStands
  BY DEF Inv, SealedIsComplete, PublishedStands, SealStands
<1> QED
  BY Invariance, <1>1, PTL

-----------------------------------------------------------------------------
(* The refinement: invocations seal in turn.                               *)

(* The lock file at the path is the last one made, so whoever renames its  *)
(* own away has not been followed by another.                              *)
LockIsLast == \A q \in Procs : lock # None => <<lock, q>> \notin before

LEMMA LockIsLastStep == Inv /\ LockIsLast /\ [Next]_vars => LockIsLast'
<1> SUFFICES ASSUME Inv, LockIsLast, [Next]_vars PROVE LockIsLast'
  OBVIOUS
<1> USE SealAssumption DEF Inv, TypeOK, Bookkeeping, CreationOrder, LockIsLast
<1>1. ASSUME NEW p \in Procs, CreateLock(p) PROVE LockIsLast'
  BY <1>1 DEF CreateLock, Created, Acquiring
<1>2. ASSUME before' = before, lock' \in {lock, None} PROVE LockIsLast'
  BY <1>2
<1>3. ASSUME NEW p \in Procs, Step(p), ~CreateLock(p)
     PROVE  before' = before /\ lock' \in {lock, None}
  BY <1>3 DEF Step, LockExists, WriteLock, WriteLockFails, ReadLock, Quarantine,
     CheckStale, PublishReceipt, CheckReceipt, Enumerate, PublishIndex,
     CheckPublished, PublicationFails, PublishFailure, ReadOwnLock,
     RenameOwnLock, CheckReleased, lockVars, history
<1>4. ASSUME NEW p \in Procs, Crash(p) \/ PidChanges(p)
     PROVE  before' = before /\ lock' = lock
  BY <1>4 DEF Crash, PidChanges, lockVars, history
<1>5. UNCHANGED vars => before' = before /\ lock' = lock
  BY DEF vars, lockVars, history
<1> QED
  BY <1>1, <1>2, <1>3, <1>4, <1>5 DEF Next

(* The turn of an invocation that takes no step changes only when it is    *)
(* followed by another.                                                    *)
LEMMA TurnStays ==
  ASSUME NEW q \in Procs,
         file[q] = "none" <=> file'[q] = "none",
         pc'[q] = pc[q], aside'[q] = aside[q],
         (\E r \in Procs : <<q, r>> \in before) <=> (\E r \in Procs : <<q, r>> \in before')
  PROVE  Turn(q)' = Turn(q)
  BY DEF Turn, Terminal

(* A step that leaves the order of the lock files alone, and neither       *)
(* enters nor passes the check of the release, at most gives up.           *)
LEMMA TurnGoesOn ==
  ASSUME TypeOK, NEW p \in Procs,
         pc[p] \notin Terminal \cup {"releaseCheck"},
         pc'[p] \notin {"releaseCheck", "sealed"},
         \A q \in Procs : q # p => pc'[q] = pc[q] /\ aside'[q] = aside[q],
         \A q \in Procs : file[q] = "none" <=> file'[q] = "none",
         before' = before
  PROVE  \/ \A q \in Procs : Turn(q)' = Turn(q)
         \/ /\ Turn(p) \in {"sealing", "lost"}
            /\ Turn(p)' = "over"
            /\ \A q \in Procs : q # p => Turn(q)' = Turn(q)
<1>1. \A q \in Procs : q # p => Turn(q)' = Turn(q)
  BY TurnStays
<1>2. CASE file[p] = "none" \/ pc'[p] \notin Terminal
  <2>1. Turn(p)' = Turn(p)
    BY <1>2 DEF Turn, Terminal
  <2> QED BY <1>1, <2>1
<1>3. CASE file[p] # "none" /\ pc'[p] \in Terminal
  <2>1. Turn(p) \in {"sealing", "lost"} /\ Turn(p)' = "over"
    BY <1>3 DEF Turn, Terminal
  <2> QED BY <1>1, <2>1
<1> QED BY <1>2, <1>3

(* The locks of `artifacts --complete` implement sealing in turn, for any  *)
(* number of invocations that recover, steal, crash and reuse numbers.     *)
THEOREM SealsAreInTurn == Spec => SealsInTurn
<1> USE SealAssumption
<1> DEFINE T == [p \in Procs |-> Turn(p)]
<1>1. Init => Turns!TurnsInit
  BY DEF Init, Turns!TurnsInit, Turn
<1>2. ASSUME Inv, LockIsLast, [Next]_vars PROVE [Turns!TurnsNext]_T
  <2> USE <1>2 DEF Inv
  <2> DEFINE Lets(p, from, to) ==
        /\ Turn(p) = from
        /\ Turn(p)' = to
        /\ \A q \in Procs : q # p => Turn(q)' = Turn(q)
  <2>1. ASSUME NEW p \in Procs, NEW from, NEW to, Lets(p, from, to)
       PROVE  Turns!Moves(p, from, to)
    BY <2>1 DEF Turns!Moves
  <2>2. (\A q \in Procs : Turn(q)' = Turn(q)) => [Turns!TurnsNext]_T
    OBVIOUS
  <2>3. ASSUME NEW p \in Procs, NEW from \in {"sealing", "lost", "closed"},
              Lets(p, from, "over")
       PROVE  Turns!TurnsNext
    BY <2>1, <2>3 DEF Turns!TurnsNext, Turns!GiveUp
  <2>4. ASSUME NEW p \in Procs, CreateLock(p) PROVE Turns!TurnsNext
    <3> USE <2>4 DEF CreateLock
    <3>1. /\ file[p] = "none" /\ file' = [file EXCEPT ![p] = "empty"]
          /\ pc' = [pc EXCEPT ![p] = "writeLock"] /\ aside' = aside
          /\ before' = before \cup {<<q, p>> : q \in {r \in Procs : file[r] # "none"}}
      BY DEF Bookkeeping, Acquiring, Goto, Created
    <3>2. Turn(p) = "waiting"
      BY <3>1 DEF Turn
    <3>3. Turn(p)' = "sealing"
      <4>1. \A q \in Procs : <<p, q>> \notin before'
        BY <3>1 DEF CreationOrder
      <4> QED BY <3>1, <4>1 DEF Turn, Terminal, TypeOK
    <3>4. ASSUME NEW q \in Procs, q # p
         PROVE  Turn(q)' = IF Turn(q) = "sealing" THEN "lost" ELSE Turn(q)
      <4>1. pc'[q] = pc[q] /\ file'[q] = file[q] /\ aside'[q] = aside[q]
        BY <3>1, <3>4 DEF TypeOK
      <4>2. file[q] # "none" => <<q, p>> \in before'
        BY <3>1
      <4>3. \A r \in Procs : <<q, r>> \in before => <<q, r>> \in before'
        BY <3>1
      <4> QED BY <4>1, <4>2, <4>3 DEF Turn, Terminal
    <3>5. Turns!Begin(p)
      BY <3>2, <3>3, <3>4 DEF Turns!Begin
    <3> QED BY <3>5 DEF Turns!TurnsNext
  <2>5. ASSUME NEW p \in Procs, RenameOwnLock(p) PROVE [Turns!TurnsNext]_T
    <3> USE <2>5 DEF RenameOwnLock
    <3>1. /\ pc[p] = "releaseRename" /\ file[p] # "none" /\ file' = file /\ before' = before
          /\ \A q \in Procs : q # p => pc'[q] = pc[q] /\ aside'[q] = aside[q]
      <4>1. pc[p] = "releaseRename" /\ file' = file /\ before' = before
        BY DEF history
      <4>2. file[p] # "none"
        BY <4>1 DEF Bookkeeping, Releasing, TypeOK
      <4>3. \A q \in Procs : q # p => pc'[q] = pc[q] /\ aside'[q] = aside[q]
        BY DEF Goto, TypeOK
      <4> QED BY <4>1, <4>2, <4>3
    <3>2. \A q \in Procs : q # p => Turn(q)' = Turn(q)
      BY <3>1, TurnStays DEF TypeOK
    <3>3. CASE lock = p
      <4>1. pc'[p] = "releaseCheck" /\ aside'[p] = p
        BY <3>1, <3>3 DEF Goto, TypeOK
      <4>2. Turn(p) = "sealing"
        BY <3>1, <3>3 DEF Turn, Terminal, LockIsLast
      <4>3. Turn(p)' = "closed"
        BY <3>1, <4>1 DEF Turn, Terminal
      <4>4. Turns!Close(p)
        BY <2>1, <3>2, <4>2, <4>3 DEF Turns!Close
      <4> QED BY <4>4 DEF Turns!TurnsNext
    <3>4. CASE lock # p /\ lock # None
      <4>1. pc'[p] = "releaseCheck" /\ aside'[p] # p
        BY <3>1, <3>4 DEF Goto, TypeOK
      <4>2. Turn(p)' = Turn(p)
        BY <3>1, <4>1 DEF Turn, Terminal
      <4> QED BY <2>2, <3>2, <4>2
    <3>5. CASE lock = None
      <4>1. pc'[p] = "failed"
        BY <3>1, <3>5 DEF Goto, TypeOK
      <4>2. Turn(p) \in {"sealing", "lost"} /\ Turn(p)' = "over"
        BY <3>1, <4>1 DEF Turn, Terminal
      <4> QED BY <2>3, <3>2, <4>2
    <3> QED BY <3>3, <3>4, <3>5
  <2>6. ASSUME NEW p \in Procs, CheckReleased(p) PROVE [Turns!TurnsNext]_T
    <3> USE <2>6 DEF CheckReleased
    <3>1. /\ pc[p] = "releaseCheck" /\ file[p] # "none" /\ before' = before
          /\ pc'[p] \in {"sealed", "failed"}
          /\ \A q \in Procs : q # p => pc'[q] = pc[q] /\ aside'[q] = aside[q]
          /\ \A q \in Procs : file[q] = "none" <=> file'[q] = "none"
      <4>1. pc[p] = "releaseCheck" /\ before' = before
        BY DEF history
      <4>2. file[p] # "none"
        BY <4>1 DEF Bookkeeping, Releasing, TypeOK
      <4>3. pc'[p] \in {"sealed", "failed"}
        BY DEF Goto, TypeOK
      <4>4. \A q \in Procs : q # p => pc'[q] = pc[q] /\ aside'[q] = aside[q]
        BY DEF Goto, TypeOK
      <4>5. \A q \in Procs : file[q] = "none" <=> file'[q] = "none"
        BY <4>2 DEF TypeOK
      <4> QED BY <4>1, <4>2, <4>3, <4>4, <4>5
    <3>2. \A q \in Procs : q # p => Turn(q)' = Turn(q)
      BY <3>1, TurnStays DEF TypeOK
    <3>3. CASE pc'[p] = "sealed"
      <4>1. aside[p] = p
        BY <3>3 DEF OwnLock, Goto, TypeOK
      <4>2. Turn(p) = "closed" /\ Turn(p)' = "sealed"
        BY <3>1, <3>3, <4>1 DEF Turn, Terminal
      <4>3. Turns!Seal(p)
        BY <2>1, <3>2, <4>2 DEF Turns!Seal
      <4> QED BY <4>3 DEF Turns!TurnsNext
    <3>4. CASE pc'[p] = "failed"
      <4>1. Turn(p) \in {"sealing", "lost", "closed"} /\ Turn(p)' = "over"
        BY <3>1, <3>4 DEF Turn, Terminal
      <4> QED BY <2>3, <3>2, <4>1
    <3> QED BY <3>1, <3>3, <3>4
  <2>7. ASSUME NEW p \in Procs, Crash(p) PROVE [Turns!TurnsNext]_T
    <3> USE <2>7 DEF Crash, lockVars, history
    <3>1. pc' = [pc EXCEPT ![p] = "crashed"] /\ UNCHANGED <<file, aside, before>>
      BY DEF Goto
    <3>2. \A q \in Procs : q # p => Turn(q)' = Turn(q)
      BY <3>1, TurnStays DEF TypeOK
    <3>3. CASE file[p] = "none"
      <4>1. Turn(p)' = Turn(p)
        BY <3>1, <3>3 DEF Turn
      <4> QED BY <2>2, <3>2, <4>1
    <3>4. CASE file[p] # "none"
      <4>1. Turn(p) \in {"sealing", "lost", "closed"} /\ Turn(p)' = "over"
        BY <3>1, <3>4 DEF Turn, Terminal, TypeOK
      <4> QED BY <2>3, <3>2, <4>1
    <3> QED BY <3>3, <3>4
  <2>8. ASSUME NEW p \in Procs, UNCHANGED <<pc, file, aside, before>>
       PROVE  [Turns!TurnsNext]_T
    BY <2>8, <2>2, TurnStays
  <2>9. ASSUME NEW p \in Procs, Step(p),
              ~CreateLock(p), ~RenameOwnLock(p), ~CheckReleased(p)
       PROVE  [Turns!TurnsNext]_T
    <3>1. /\ pc[p] \notin Terminal \cup {"releaseCheck"}
          /\ pc' = [pc EXCEPT ![p] = pc'[p]]
          /\ pc'[p] \notin {"releaseCheck", "sealed"}
      BY <2>9 DEF Step, Goto, TypeOK, Terminal, LockExists, WriteLock,
         WriteLockFails, ReadLock, Quarantine, CheckStale, PublishReceipt,
         CheckReceipt, Enumerate, PublishIndex, CheckPublished, Rethrow,
         PublicationFails, PublishFailure, ReadOwnLock
    <3>2. before' = before /\ \A q \in Procs : q # p => aside'[q] = aside[q]
      BY <2>9 DEF Step, TypeOK, LockExists, WriteLock,
         WriteLockFails, ReadLock, Quarantine, CheckStale, PublishReceipt,
         CheckReceipt, Enumerate, PublishIndex, CheckPublished,
         PublicationFails, PublishFailure, ReadOwnLock, lockVars, history
    <3>3. \A q \in Procs : file[q] = "none" <=> file'[q] = "none"
      <4>1. CASE WriteLock(p)
        BY <4>1 DEF WriteLock, Bookkeeping, TypeOK
      <4>2. CASE CheckStale(p)
        BY <4>2 DEF CheckStale, SameAsSeen, TypeOK
      <4>3. CASE ~WriteLock(p) /\ ~CheckStale(p)
        <5>1. file' = file
          BY <2>9, <4>3 DEF Step, LockExists, WriteLockFails, ReadLock,
             Quarantine, PublishReceipt, CheckReceipt, Enumerate,
             PublishIndex, CheckPublished, PublicationFails, PublishFailure,
             ReadOwnLock, lockVars
        <5> QED BY <5>1
      <4> QED BY <4>1, <4>2, <4>3
    <3>4. \A q \in Procs : q # p => pc'[q] = pc[q]
      BY <3>1 DEF TypeOK
    <3>5. \/ \A q \in Procs : Turn(q)' = Turn(q)
          \/ /\ Turn(p) \in {"sealing", "lost"}
             /\ Turn(p)' = "over"
             /\ \A q \in Procs : q # p => Turn(q)' = Turn(q)
      BY <3>1, <3>2, <3>3, <3>4, TurnGoesOn
    <3> QED BY <2>2, <2>3, <3>5
  <2>10. ASSUME NEW p \in Procs, PidChanges(p) PROVE [Turns!TurnsNext]_T
    BY <2>10, <2>8 DEF PidChanges, lockVars, history
  <2>11. CASE UNCHANGED vars
    BY <2>11, <2>2, TurnStays DEF vars, lockVars, history
  <2> QED
    BY <2>4, <2>5, <2>6, <2>7, <2>9, <2>10, <2>11 DEF Next
<1>3. Init => LockIsLast
  BY DEF Init, LockIsLast
<1> QED
  BY <1>1, <1>2, <1>3, Invariance, LockIsLastStep, PTL
  DEF Spec, SealsInTurn, Turns!TurnsSpec
=============================================================================
