---------------------------- MODULE ServersProofs ----------------------------
(***************************************************************************)
(* Proofs about the stored repair session, for any number of invocations,  *)
(* and about the plans of one configuration, for any contracts, targets    *)
(* and files; and that the four components of MCServers, one at a time,    *)
(* each behave as their own specification says.                            *)
(***************************************************************************)
EXTENDS MCServers, ControlPlaneProofs, GitHubAppProofs, TLAPS

(***************************************************************************)
(* The stored session.                                                     *)
(***************************************************************************)
-----------------------------------------------------------------------------
(* The inductive invariant.                                                *)

Timed == {"build", "write", "scratch", "link", "compare", "unlink", "published", "done"}

(* A validator has settled on a time from then on and not before, and      *)
(* whoever is past the comparison has the bytes of the receipt.            *)
Settled ==
  \A v \in Validators :
    /\ doing[v] \in Timed => time[v] \in Validators
    /\ doing[v] \in {"begin", "receipts", "time"} => time[v] = Absent
    /\ doing[v] \in {"unlink", "published", "done"} => receipt = Bytes(v)

(* What was there when a validator began is what it has taken.             *)
TakesTime ==
  \A v \in late :
    receipt # Absent /\ (time[v] # Absent => time[v] = receipt.time)

(* Temporary files and directories belong to invocations under way, or to  *)
(* those that could not remove them.                                       *)
Owned ==
  /\ \A i \in Ingests \ stuck :
       staged[i] # "none" => doing[i] \in {"fill", "rename", "lookAgain", "clean", "crashed"}
  /\ \A v \in scratch \ stuck :
       doing[v] \in {"link", "compare", "discard", "unlink", "crashed"}
  /\ \A v \in aliases \ stuck : doing[v] \in {"unlink", "crashed"}

(* A session that an ingest has returned is there, by one of them; and the *)
(* directory of an ingest that failed without an error of its own was made *)
(* by a validator.                                                         *)
Stored ==
  /\ \A i, j \in Ingests :
       returned[i] = "created" /\ returned[j] = "created" => i = j
  /\ \A i \in Ingests : returned[i] # "none" => session = "stored"
  /\ (\A v \in Validators : doing[v] = "begin") =>
       /\ session \in {"absent", "stored"}
       /\ \A i \in Ingests \ erred :
            /\ doing[i] # "failed"
            /\ doing[i] = "lookAgain" => session = "stored"
            /\ doing[i] = "clean" => returned[i] = "reused"

StoreInv == StoreTypeOK /\ Settled /\ TakesTime /\ Owned /\ Stored

-----------------------------------------------------------------------------
(* Every step keeps the types: a receipt that is published has a time.     *)
LEMMA StoreTypeStep ==
  ASSUME StoreTypeOK, Settled, [StoreNext]_storeVars PROVE StoreTypeOK'
<1> USE StoreAssumption DEF StoreTypeOK, Does, Returns, validation, ingestion
<1> USE DEF Sessions, IngestSteps, ValidatorSteps, Ended, Receipts
<1>1. ASSUME NEW i \in Ingests, IngestStep(i) PROVE StoreTypeOK'
  <2>1. CASE LooksForSession(i) BY <2>1 DEF LooksForSession
  <2>2. CASE Stages(i) BY <2>2 DEF Stages
  <2>3. CASE Fills(i) BY <2>3 DEF Fills, Errs
  <2>4. CASE Renames(i) BY <2>4 DEF Renames, Stores, Errs
  <2>5. CASE LooksAgain(i) BY <2>5 DEF LooksAgain, Errs
  <2>6. CASE Cleans(i) BY <2>6 DEF Cleans, Errs
  <2> QED BY <1>1, <2>1, <2>2, <2>3, <2>4, <2>5, <2>6 DEF IngestStep
<1>2. ASSUME NEW v \in Validators, ValidatorStep(v) PROVE StoreTypeOK'
  <2>1. CASE MakesSession(v) BY <2>1 DEF MakesSession
  <2>2. CASE MakesReceipts(v) BY <2>2 DEF MakesReceipts
  <2>3. CASE SettlesTime(v) BY <2>3 DEF SettlesTime
  <2>4. CASE BuildsReceipt(v) BY <2>4 DEF BuildsReceipt
  <2>5. CASE WritesReceipt(v) BY <2>5 DEF WritesReceipt
  <2>6. CASE WritesScratch(v) BY <2>6 DEF WritesScratch
  <2>7. CASE Links(v) BY <2>7 DEF Links, Bytes, Settled, Timed
  <2>8. CASE Compares(v) BY <2>8 DEF Compares
  <2>9. CASE Unlinks(v) BY <2>9 DEF Unlinks
  <2>10. CASE Published(v) BY <2>10 DEF Published
  <2> QED
    BY <1>2, <2>1, <2>2, <2>3, <2>4, <2>5, <2>6, <2>7, <2>8, <2>9, <2>10
    DEF ValidatorStep
<1>3. ASSUME NEW p \in Ingests \cup Validators, GivesUp(p) \/ Crashes(p) PROVE StoreTypeOK'
  BY <1>3 DEF GivesUp, Crashes
<1>4. CASE UNCHANGED storeVars BY <1>4 DEF storeVars
<1> QED BY <1>1, <1>2, <1>3, <1>4 DEF StoreNext

LEMMA StoreInitially == StoreInit => StoreInv
<1> USE StoreAssumption DEF StoreInit, Sessions, IngestSteps, ValidatorSteps, Ended
<1> SUFFICES ASSUME StoreInit PROVE StoreInv
  OBVIOUS
<1>1. StoreTypeOK BY DEF StoreTypeOK
<1>2. Settled BY DEF Settled, Timed
<1>3. TakesTime /\ Owned BY DEF TakesTime, Owned
<1>4. Stored BY DEF Stored
<1> QED BY <1>1, <1>2, <1>3, <1>4 DEF StoreInv

(* A step of an ingest leaves the validators alone.                        *)
LEMMA IngestLeaves ==
  ASSUME StoreTypeOK, NEW i \in Ingests, IngestStep(i)
  PROVE  /\ UNCHANGED validation
         /\ \A p \in (Ingests \cup Validators) \ {i} : doing'[p] = doing[p]
         /\ \A j \in Ingests \ {i} : staged'[j] = staged[j] /\ returned'[j] = returned[j]
         /\ session' \in {session, "stored"}
         /\ erred \subseteq erred' /\ erred' \subseteq erred \cup {i}
         /\ stuck \subseteq stuck' /\ stuck' \subseteq stuck \cup {i}
<1> USE DEF StoreTypeOK, Does, Returns, Errs, validation
<1>1. CASE LooksForSession(i) BY <1>1 DEF LooksForSession
<1>2. CASE Stages(i) BY <1>2 DEF Stages
<1>3. CASE Fills(i) BY <1>3 DEF Fills
<1>4. CASE Renames(i) BY <1>4 DEF Renames, Stores
<1>5. CASE LooksAgain(i) BY <1>5 DEF LooksAgain
<1>6. CASE Cleans(i) BY <1>6 DEF Cleans
<1> QED BY <1>1, <1>2, <1>3, <1>4, <1>5, <1>6 DEF IngestStep

(* A step of a validator leaves the ingests and the others' data alone.    *)
LEMMA ValidatorLeaves ==
  ASSUME StoreTypeOK, NEW v \in Validators, ValidatorStep(v)
  PROVE  /\ UNCHANGED <<ingestion, input>>
         /\ \A p \in (Ingests \cup Validators) \ {v} : doing'[p] = doing[p]
         /\ \A w \in Validators \ {v} : time'[w] = time[w]
         /\ receipt # Absent => receipt' = receipt
         /\ session = "stored" => session' = "stored"
         /\ doing'[v] # "begin"
         /\ stuck \subseteq stuck' /\ stuck' \subseteq stuck \cup {v}
<1> USE DEF StoreTypeOK, Does, ingestion, validation
<1>1. CASE MakesSession(v) BY <1>1 DEF MakesSession
<1>2. CASE MakesReceipts(v) BY <1>2 DEF MakesReceipts
<1>3. CASE SettlesTime(v) BY <1>3 DEF SettlesTime
<1>4. CASE BuildsReceipt(v) BY <1>4 DEF BuildsReceipt
<1>5. CASE WritesReceipt(v) BY <1>5 DEF WritesReceipt
<1>6. CASE WritesScratch(v) BY <1>6 DEF WritesScratch
<1>7. CASE Links(v) BY <1>7 DEF Links
<1>8. CASE Compares(v) BY <1>8 DEF Compares
<1>9. CASE Unlinks(v) BY <1>9 DEF Unlinks
<1>10. CASE Published(v) BY <1>10 DEF Published
<1> QED
  BY <1>1, <1>2, <1>3, <1>4, <1>5, <1>6, <1>7, <1>8, <1>9, <1>10 DEF ValidatorStep

-----------------------------------------------------------------------------
(* A step of an ingest keeps the invariant.                                *)
LEMMA IngestKeeps ==
  ASSUME StoreInv, NEW i \in Ingests, IngestStep(i), StoreTypeOK'
  PROVE  StoreInv'
<1> USE StoreAssumption DEF StoreInv
<1>l. /\ UNCHANGED validation
      /\ \A p \in (Ingests \cup Validators) \ {i} : doing'[p] = doing[p]
      /\ \A j \in Ingests \ {i} : staged'[j] = staged[j] /\ returned'[j] = returned[j]
      /\ session' \in {session, "stored"}
      /\ erred \subseteq erred' /\ erred' \subseteq erred \cup {i}
      /\ stuck \subseteq stuck' /\ stuck' \subseteq stuck \cup {i}
  BY IngestLeaves
<1>v. \A v \in Validators : doing'[v] = doing[v]
  BY <1>l
<1>1. Settled' /\ TakesTime'
  BY <1>l, <1>v DEF Settled, TakesTime, Bytes, validation, StoreTypeOK
<1>2. i \notin stuck' /\ staged'[i] # "none" =>
        doing'[i] \in {"fill", "rename", "lookAgain", "clean", "crashed"}
  <2> USE DEF Owned, StoreTypeOK, Does, Returns, Errs
  <2>1. CASE LooksForSession(i) BY <2>1 DEF LooksForSession
  <2>2. CASE Stages(i) BY <2>2 DEF Stages
  <2>3. CASE Fills(i) BY <2>3 DEF Fills
  <2>4. CASE Renames(i) BY <2>4 DEF Renames, Stores
  <2>5. CASE LooksAgain(i) BY <2>5 DEF LooksAgain
  <2>6. CASE Cleans(i) BY <2>6 DEF Cleans
  <2> QED BY <2>1, <2>2, <2>3, <2>4, <2>5, <2>6 DEF IngestStep
<1>3. Owned'
  BY <1>l, <1>v, <1>2 DEF Owned, validation, StoreTypeOK
<1>4. Stored'
  <2> USE DEF Stored, StoreTypeOK, Does, Returns, Errs
  <2>1. CASE LooksForSession(i) BY <2>1, <1>v DEF LooksForSession
  <2>2. CASE Stages(i) BY <2>2, <1>v DEF Stages
  <2>3. CASE Fills(i) BY <2>3, <1>v DEF Fills
  <2>4. CASE Renames(i) BY <2>4, <1>v DEF Renames, Stores
  <2>5. CASE LooksAgain(i) BY <2>5, <1>v DEF LooksAgain
  <2>6. CASE Cleans(i) BY <2>6, <1>v DEF Cleans
  <2> QED BY <2>1, <2>2, <2>3, <2>4, <2>5, <2>6 DEF IngestStep
<1> QED BY <1>1, <1>3, <1>4

(* A step of a validator keeps the invariant.                              *)
LEMMA ValidatorKeeps ==
  ASSUME StoreInv, NEW v \in Validators, ValidatorStep(v), StoreTypeOK'
  PROVE  StoreInv'
<1> USE StoreAssumption DEF StoreInv
<1>l. /\ UNCHANGED <<ingestion, input>>
      /\ \A p \in (Ingests \cup Validators) \ {v} : doing'[p] = doing[p]
      /\ \A w \in Validators \ {v} : time'[w] = time[w]
      /\ receipt # Absent => receipt' = receipt
      /\ session = "stored" => session' = "stored"
      /\ doing'[v] # "begin"
      /\ stuck \subseteq stuck' /\ stuck' \subseteq stuck \cup {v}
  BY ValidatorLeaves
<1>i. \A i \in Ingests : doing'[i] = doing[i]
  BY <1>l
<1>n. \A w \in Validators : doing[w] \in Timed => Bytes(w) # Absent
  BY DEF Settled, Bytes, StoreTypeOK
<1>1. /\ doing'[v] \in Timed => time'[v] \in Validators
      /\ doing'[v] \in {"begin", "receipts", "time"} => time'[v] = Absent
      /\ doing'[v] \in {"unlink", "published", "done"} => receipt' = Bytes(v)'
  <2> USE DEF Settled, Timed, Bytes, StoreTypeOK, Does, validation, Receipts
  <2>1. CASE MakesSession(v) BY <2>1 DEF MakesSession
  <2>2. CASE MakesReceipts(v) BY <2>2 DEF MakesReceipts
  <2>3. CASE SettlesTime(v) BY <2>3 DEF SettlesTime
  <2>4. CASE BuildsReceipt(v) BY <2>4 DEF BuildsReceipt
  <2>5. CASE WritesReceipt(v) BY <2>5 DEF WritesReceipt
  <2>6. CASE WritesScratch(v) BY <2>6 DEF WritesScratch
  <2>7. CASE Links(v) BY <2>7 DEF Links
  <2>8. CASE Compares(v) BY <2>8 DEF Compares
  <2>9. CASE Unlinks(v) BY <2>9 DEF Unlinks
  <2>10. CASE Published(v) BY <2>10 DEF Published
  <2> QED
    BY <2>1, <2>2, <2>3, <2>4, <2>5, <2>6, <2>7, <2>8, <2>9, <2>10 DEF ValidatorStep
<1>2. Settled'
  <2>1. ASSUME NEW w \in Validators \ {v}, doing[w] \in {"unlink", "published", "done"}
        PROVE  receipt' = Bytes(w)'
    BY <1>l, <1>n, <2>1 DEF Settled, Bytes, Timed
  <2> QED BY <1>1, <1>l, <2>1 DEF Settled
<1>3. TakesTime'
  <2> USE DEF TakesTime, Settled, StoreTypeOK, Does, validation
  <2>1. CASE MakesSession(v) BY <2>1 DEF MakesSession
  <2>2. CASE MakesReceipts(v) BY <2>2 DEF MakesReceipts
  <2>3. CASE SettlesTime(v) BY <2>3 DEF SettlesTime
  <2>4. CASE BuildsReceipt(v) BY <2>4 DEF BuildsReceipt
  <2>5. CASE WritesReceipt(v) BY <2>5 DEF WritesReceipt
  <2>6. CASE WritesScratch(v) BY <2>6 DEF WritesScratch
  <2>7. CASE Links(v) BY <2>7 DEF Links
  <2>8. CASE Compares(v) BY <2>8 DEF Compares
  <2>9. CASE Unlinks(v) BY <2>9 DEF Unlinks
  <2>10. CASE Published(v) BY <2>10 DEF Published
  <2> QED
    BY <2>1, <2>2, <2>3, <2>4, <2>5, <2>6, <2>7, <2>8, <2>9, <2>10 DEF ValidatorStep
<1>4. Owned'
  <2> USE <1>i, <1>l DEF Owned, StoreTypeOK, Does, validation, ingestion
  <2>1. CASE MakesSession(v) BY <2>1 DEF MakesSession
  <2>2. CASE MakesReceipts(v) BY <2>2 DEF MakesReceipts
  <2>3. CASE SettlesTime(v) BY <2>3 DEF SettlesTime
  <2>4. CASE BuildsReceipt(v) BY <2>4 DEF BuildsReceipt
  <2>5. CASE WritesReceipt(v) BY <2>5 DEF WritesReceipt
  <2>6. CASE WritesScratch(v) BY <2>6 DEF WritesScratch
  <2>7. CASE Links(v) BY <2>7 DEF Links
  <2>8. CASE Compares(v) BY <2>8 DEF Compares
  <2>9. CASE Unlinks(v) BY <2>9 DEF Unlinks
  <2>10. CASE Published(v) BY <2>10 DEF Published
  <2> QED
    BY <2>1, <2>2, <2>3, <2>4, <2>5, <2>6, <2>7, <2>8, <2>9, <2>10 DEF ValidatorStep
<1>5. Stored'
  BY <1>l, <1>i DEF Stored, ingestion
<1> QED BY <1>2, <1>3, <1>4, <1>5

LEMMA EndKeeps ==
  ASSUME StoreInv, NEW p \in Ingests \cup Validators, GivesUp(p) \/ Crashes(p), StoreTypeOK'
  PROVE  StoreInv'
<1> USE StoreAssumption
    DEF StoreInv, GivesUp, Crashes, Does, Ended, validation, ingestion, StoreTypeOK
<1>1. Settled' BY DEF Settled, Bytes, Timed
<1>2. TakesTime' BY DEF TakesTime
<1>3. Owned' BY DEF Owned
<1>4. Stored' BY DEF Stored
<1> QED BY <1>1, <1>2, <1>3, <1>4

THEOREM StoreInvariant == StoreSpec => []StoreInv
<1>1. StoreInv /\ [StoreNext]_storeVars => StoreInv'
  <2> SUFFICES ASSUME StoreInv, [StoreNext]_storeVars PROVE StoreInv'
    OBVIOUS
  <2>1. StoreTypeOK' BY StoreTypeStep DEF StoreInv
  <2>2. CASE UNCHANGED storeVars
    BY <2>2, <2>1 DEF storeVars, StoreInv, Settled, TakesTime, Owned, Stored, Bytes
  <2> QED BY <2>1, <2>2, IngestKeeps, ValidatorKeeps, EndKeeps DEF StoreNext
<1> QED BY <1>1, StoreInitially, PTL DEF StoreSpec

-----------------------------------------------------------------------------
(* The state of the repair session always has its type.                    *)
THEOREM StoreTypes == StoreSpec => []StoreTypeOK
<1>1. StoreInv => StoreTypeOK BY DEF StoreInv
<1> QED BY <1>1, StoreInvariant, PTL

(* However many ingests race, one creates the session, whoever returns     *)
(* finds it, and none fails but for an error of its own or a validator's   *)
(* directory.                                                              *)
THEOREM SessionIngestedOnce == StoreSpec => []IngestedOnce
<1>1. StoreInv => IngestedOnce BY DEF StoreInv, Stored, IngestedOnce
<1> QED BY <1>1, StoreInvariant, PTL

(* However many validators began after a receipt for their inputs, each    *)
(* makes that receipt again.                                               *)
THEOREM ReceiptsRepeat == StoreSpec => []ReceiptRepeats
<1>1. StoreInv => ReceiptRepeats
  <2> SUFFICES ASSUME StoreInv, NEW v \in late, time[v] # Absent, input[v] = receipt.input
               PROVE  Bytes(v) = receipt
    BY DEF ReceiptRepeats
  <2> QED BY DEF StoreInv, TakesTime, StoreTypeOK, Receipts, Bytes
<1> QED BY <1>1, StoreInvariant, PTL

(* Whatever has ended without a crash, also in an error, has left nothing  *)
(* behind but what could not be removed.                                   *)
THEOREM NothingIsLeft == StoreSpec => []NothingLeft
<1>1. StoreInv => NothingLeft BY DEF StoreInv, Owned, NothingLeft, StoreTypeOK
<1> QED BY <1>1, StoreInvariant, PTL

(* The files implement the agreement on one receipt: every step publishes  *)
(* one where there is none, or returns the one that is published, or       *)
(* changes nothing that the agreement speaks of.                           *)
THEOREM StoreImplements == StoreSpec => StoreAgrees
<1> USE StoreAssumption
<1> DEFINE Agreed == [v \in Validators |-> IF doing[v] = "done" THEN Bytes(v) ELSE Absent]
<1>1. StoreInit => Agreement!AgreementInit
  BY DEF StoreInit, Agreement!AgreementInit
<1>2. ASSUME StoreInv, StoreInv', [StoreNext]_storeVars
      PROVE  [Agreement!AgreementNext]_Agreement!agreementVars
  <2> USE <1>2 DEF StoreInv
  <2> SUFFICES Agreement!AgreementNext \/ (receipt' = receipt /\ Agreed' = Agreed)
    BY DEF Agreement!agreementVars
  <2>1. ASSUME receipt' = receipt,
               \A v \in Validators : doing[v] = "done" <=> doing'[v] = "done",
               \A v \in Validators : doing[v] = "done" => time'[v] = time[v],
               input' = input
        PROVE  receipt' = receipt /\ Agreed' = Agreed
    BY <2>1 DEF Bytes
  <2>2. CASE UNCHANGED storeVars
    BY <2>2, <2>1 DEF storeVars
  <2>3. ASSUME NEW i \in Ingests, IngestStep(i)
        PROVE  receipt' = receipt /\ Agreed' = Agreed
    BY <2>3, <2>1, IngestLeaves DEF validation
  <2>4. ASSUME NEW p \in Ingests \cup Validators, GivesUp(p) \/ Crashes(p)
        PROVE  receipt' = receipt /\ Agreed' = Agreed
    BY <2>4, <2>1 DEF GivesUp, Crashes, Does, Ended, validation, StoreTypeOK
  <2>5. ASSUME NEW v \in Validators, ValidatorStep(v), ~Links(v), ~Published(v)
        PROVE  receipt' = receipt /\ Agreed' = Agreed
    <3> USE DEF StoreTypeOK, Does, validation
    <3>1. receipt' = receipt /\ doing[v] # "done" /\ doing'[v] # "done" /\ input' = input
      BY <2>5 DEF ValidatorStep, MakesSession, MakesReceipts, SettlesTime, BuildsReceipt,
                  WritesReceipt, WritesScratch, Compares, Unlinks
    <3> QED BY <2>5, <3>1, <2>1, ValidatorLeaves
  <2>6. ASSUME NEW v \in Validators, Links(v)
        PROVE  Agreement!AgreementNext \/ (receipt' = receipt /\ Agreed' = Agreed)
    <3>1. /\ doing[v] = "link" /\ doing'[v] # "done" /\ UNCHANGED <<time, input>>
          /\ \A w \in Validators \ {v} : doing'[w] = doing[w]
      BY <2>6 DEF Links, Does, StoreTypeOK
    <3>2. Agreed' = Agreed
      BY <3>1 DEF Bytes
    <3>3. CASE receipt' = receipt
      BY <3>2, <3>3
    <3>4. CASE receipt' # receipt
      <4>1. receipt = Absent /\ receipt' = Bytes(v)
        BY <2>6, <3>4 DEF Links
      <4>2. receipt' \in Receipts
        BY <4>1, <3>1 DEF Bytes, Receipts, Settled, Timed, StoreTypeOK
      <4> QED BY <4>1, <4>2, <3>2 DEF Agreement!AgreementNext, Agreement!Publish
    <3> QED BY <3>3, <3>4
  <2>7. ASSUME NEW v \in Validators, Published(v)
        PROVE  Agreement!AgreementNext \/ (receipt' = receipt /\ Agreed' = Agreed)
    <3>1. /\ doing[v] = "published" /\ UNCHANGED <<receipt, time, input>>
          /\ \A w \in Validators \ {v} : doing'[w] = doing[w]
      BY <2>7 DEF Published, Does, StoreTypeOK, validation
    <3>2. receipt = Bytes(v) /\ receipt # Absent
      BY <3>1 DEF Settled, Timed, Bytes, Receipts, StoreTypeOK
    <3>3. CASE doing'[v] = "done"
      <4>1. Agreed[v] = Absent /\ Agreed' = [Agreed EXCEPT ![v] = receipt]
        BY <3>1, <3>2, <3>3 DEF Bytes
      <4> QED BY <4>1, <3>1, <3>2 DEF Agreement!AgreementNext, Agreement!Agree
    <3>4. CASE doing'[v] # "done"
      BY <3>1, <3>4, <2>1
    <3> QED BY <3>3, <3>4
  <2> QED
    BY <2>2, <2>3, <2>4, <2>5, <2>6, <2>7 DEF StoreNext
<1> QED
  BY <1>1, <1>2, StoreInvariant, PTL
  DEF StoreSpec, StoreAgrees, Agreement!AgreementSpec

-----------------------------------------------------------------------------
(***************************************************************************)
(* The plans of one configuration.  The invariant beneath is that          *)
(* plan.json is what the command selects; the rest is about the selection  *)
(* alone.                                                                  *)
(***************************************************************************)
PlanInv ==
  /\ PlanTypeOK
  /\ outcome = "written" =>
       /\ written = Selected(setting, ask)
       /\ written # {} \/ OnlyIgnored(ask)

(* Writing the plan keeps its type and writes what is selected.            *)
LEMMA PlanStep == ASSUME PlanInv, [PlanNext]_planVars PROVE PlanInv'
<1>1. CASE PlansContracts
  <2>1. ask' \in Asks /\ setting' = setting BY <1>1 DEF PlansContracts
  <2>2. Selected(setting, ask') \in SUBSET Candidates BY DEF Selected
  <2>3. \/ outcome' = "failed" /\ written' = written
        \/ /\ outcome' = "written" /\ written' = Selected(setting, ask')
           /\ Selected(setting, ask') # {} \/ OnlyIgnored(ask')
    BY <1>1 DEF PlansContracts
  <2> QED BY <2>1, <2>2, <2>3 DEF PlanInv, PlanTypeOK
<1>2. CASE UNCHANGED planVars BY <1>2 DEF planVars, PlanInv, PlanTypeOK
<1> QED BY <1>1, <1>2 DEF PlanNext

THEOREM PlanInvariant == PlanSpec => []PlanInv
<1>1. PlanInit => PlanInv
  BY DEF PlanInit, PlanInv, PlanTypeOK, Defaults, Asks, Modes
<1> QED BY <1>1, PlanStep, PTL DEF PlanSpec

(* The state of the plan keeps its type.                                   *)
THEOREM PlanTypes == PlanSpec => []PlanTypeOK
<1>1. PlanInv => PlanTypeOK BY DEF PlanInv
<1> QED BY <1>1, PlanInvariant, PTL

-----------------------------------------------------------------------------
(* A full run selects what a run of a narrower mode does: every contract   *)
(* is of its mode, and its targets are kept out for the same reasons.      *)
LEMMA FullCovers ==
  ASSUME NEW s, NEW a \in Asks, a.mode \in {"pr", "canary", "mutation"}
  PROVE  Selected(s, a) \subseteq Selected(s, [a EXCEPT !.mode = "full"])
<1> DEFINE full == [a EXCEPT !.mode = "full"]
<1>1. /\ full.mode = "full" /\ full.changed = a.changed /\ full.unsafe = a.unsafe
      /\ full.with = a.with /\ full.without = a.without
  BY DEF Asks
<1>2. ~OnlyIgnored(full) BY <1>1 DEF OnlyIgnored
<1>3. ASSUME NEW c \in Selected(s, a) PROVE c \in Selected(s, full)
  <2>1. c \in Candidates /\ ~Names(a.without, c) /\ ~Unfit(s, a, PlaceOf[c])
    BY <1>3 DEF Selected
  <2>2. OfMode(s, full, c) BY <1>1 DEF OfMode
  <2>3. ~Unfit(s, full, PlaceOf[c]) BY <1>1, <2>1 DEF Unfit
  <2> QED BY <1>1, <1>2, <2>1, <2>2, <2>3 DEF Selected
<1> QED BY <1>3

(* Next to a file that is not ignored, those that are make no difference.  *)
LEMMA IgnoredIgnored ==
  ASSUME NEW s, NEW a \in Asks, Effective(a) # {}
  PROVE  Selected(s, a) = Selected(s, [a EXCEPT !.changed = Effective(a)])
<1> DEFINE less == [a EXCEPT !.changed = Effective(a)]
<1>1. /\ less.mode = a.mode /\ less.changed = Effective(a) /\ less.unsafe = a.unsafe
      /\ less.with = a.with /\ less.without = a.without
  BY DEF Asks
<1>2. Effective(less) = Effective(a) BY <1>1 DEF Effective
<1>3. ~OnlyIgnored(a) /\ ~OnlyIgnored(less) BY <1>2 DEF OnlyIgnored
<1>4. ASSUME NEW c \in Candidates
      PROVE  /\ OfMode(s, a, c) <=> OfMode(s, less, c)
             /\ OfRule(s, a, c) <=> OfRule(s, less, c)
             /\ Unfit(s, a, PlaceOf[c]) <=> Unfit(s, less, PlaceOf[c])
  BY <1>1, <1>2 DEF OfMode, OfRule, Unfit
<1> QED BY <1>1, <1>3, <1>4 DEF Selected

(* Without the ignored files, an empty plan selects contracts that run on  *)
(* pull requests and are not asked for by name.                            *)
LEMMA EmptiedByIgnoring ==
  ASSUME NEW s, NEW a \in Asks, OnlyIgnored(a), Selected(s, a) = {},
         NEW c \in Selected(s, [a EXCEPT !.changed = {}])
  PROVE  ~Names(a.with, c) /\ c \in s.pullRequest
<1> DEFINE none == [a EXCEPT !.changed = {}]
<1>1. /\ none.mode = a.mode /\ none.changed = {} /\ none.unsafe = a.unsafe
      /\ none.with = a.with /\ none.without = a.without
  BY DEF Asks
<1>2. /\ c \in Candidates /\ ~Names(a.without, c)
      /\ OfMode(s, none, c) \/ OfRule(s, none, c) \/ Names(a.with, c)
      /\ ~Unfit(s, none, PlaceOf[c])
  BY <1>1 DEF Selected
<1>3. ~Unfit(s, a, PlaceOf[c]) BY <1>1, <1>2 DEF Unfit
<1>4. ~Names(a.with, c) BY <1>2, <1>3 DEF Selected
<1>5. ~OfRule(s, none, c) BY <1>1 DEF OfRule, Effective
<1>6. OfMode(s, none, c) BY <1>2, <1>4, <1>5
<1>7. none.mode = "pr" BY <1>1 DEF OnlyIgnored
<1>8. c \in s.pullRequest BY <1>6, <1>7 DEF OfMode
<1> QED BY <1>4, <1>8

(* The plans of one configuration relate as the modes and the ignored      *)
(* files say.                                                              *)
THEOREM PlansAreRelated == PlanSpec => []PlansRelate
<1>1. ASSUME PlanInv PROVE PlansRelate
  <2> SUFFICES ASSUME outcome = "written" PROVE PlansRelate BY DEF PlansRelate
  <2>1. ask \in Asks /\ written = Selected(setting, ask)
    BY <1>1 DEF PlanInv, PlanTypeOK
  <2>2. written = {} => OnlyIgnored(ask) BY <1>1 DEF PlanInv
  <2>3. ask.mode \in {"pr", "canary", "mutation"} =>
          written \subseteq Selected(setting, [ask EXCEPT !.mode = "full"])
    BY <2>1, FullCovers
  <2>4. Effective(ask) # {} =>
          written = Selected(setting, [ask EXCEPT !.changed = Effective(ask)])
    BY <2>1, IgnoredIgnored
  <2>5. written = {} =>
          \A c \in Selected(setting, [ask EXCEPT !.changed = {}]) :
            ~Names(ask.with, c) /\ c \in setting.pullRequest
    BY <2>1, <2>2, EmptiedByIgnoring
  <2> QED BY <2>3, <2>4, <2>5 DEF PlansRelate
<1> QED BY <1>1, PlanInvariant, PTL

-----------------------------------------------------------------------------
(***************************************************************************)
(* The components together.                                                *)
(***************************************************************************)

(* A behaviour of the four, one at a time, is for each of them a behaviour *)
(* of its own: what the others do leaves it as it is.                      *)
THEOREM ServersCompose ==
  ServersSpec => ControlSpec /\ AppSpec /\ StoreSpec /\ PlanSpec
<1>1. ServersInit => ControlInit /\ AppInit /\ StoreInit /\ PlanInit
  BY DEF ServersInit
<1>2. [ServersNext]_<<running, controlVars, appVars, storeVars, planVars>> =>
        /\ [ControlNext]_controlVars /\ [AppNext]_appVars
        /\ [StoreNext]_storeVars /\ [PlanNext]_planVars
  BY DEF ServersNext
<1> QED BY <1>1, <1>2, PTL DEF ServersSpec, ControlSpec, AppSpec, StoreSpec, PlanSpec

(* All the variables of the four components keep their types.              *)
THEOREM ServersTypes == ServersSpec => []ServersTyped
<1>1. ControlTypeOK /\ AppTypeOK /\ StoreTypeOK /\ PlanTypeOK => ServersTyped
  BY DEF ServersTyped
<1> QED BY <1>1, ServersCompose, ControlTyped, AppTypes, StoreTypes, PlanTypes, PTL
=============================================================================
