-------------------------- MODULE BrowserRunsProofs --------------------------
(***************************************************************************)
(* Proofs of the properties of BoundRun, for any number of runs and        *)
(* mutations and any contracts; and that the two components of             *)
(* MCBrowserRuns, one at a time, each behave as their own specification    *)
(* says.                                                                   *)
(***************************************************************************)
EXTENDS MCBrowserRuns, TargetLifecycleProofs, TLAPS

-----------------------------------------------------------------------------
(* The inductive invariant.                                                *)

(* A report is of a run that is done, made of that run's own result files, *)
(* and says passed only when the run's browser passed every contract.      *)
Own(rep) ==
  rep.by # Nothing =>
    /\ rep.by \in Runs /\ at[rep.by] = "done"
    /\ \A c \in Contracts : rep.from[c] \in {rep.by, Nothing}
    /\ rep.passed =>
         \A c \in scope[rep.by] : rep.from[c] = rep.by /\ verdicts[rep.by][c] = "passed"

OwnReports == Own(report) /\ \A m \in Mutations : Own(saved[m])

(* No screenshot that may be approved is of a mutated page, nor a baseline *)
(* but one that was made between two looks.                                *)
NoMutatedImage ==
  ~visual.update /\ visual.failMissing =>
    \A c \in Contracts :
      actual[c] # "mutated" /\ (c \notin crossed => baseline[c] # "mutated")

(* What a mutation has read is what is there, unless it could not.         *)
SavedIsThere ==
  /\ \A m \in Mutations : at[m] = "idle" => saved[m] = NoReport /\ m \notin unread
  /\ \A m \in Mutating \ overlap : saved[m] = IF m \in unread THEN NoReport ELSE report

BoundInv == BoundTypeOK /\ OwnReports /\ NoMutatedImage /\ SavedIsThere

-----------------------------------------------------------------------------
(* Every step keeps the types.                                             *)

LEMMA StepTyped ==
  ASSUME BoundTypeOK, NEW p \in Invocations, NEW step \in RunSteps \cup MutationSteps,
         Step(p, step)
  PROVE  at' \in [Invocations -> RunSteps \cup MutationSteps]
BY DEF BoundTypeOK, Step

LEMMA AwayTyped ==
  ASSUME BoundTypeOK, NEW p \in Invocations, LooksAway(p)
  PROVE  looked' \in [Invocations -> Contracts \cup {Nothing}]
BY DEF BoundTypeOK, LooksAway

(* A report is written, or lost by a write that fails.                     *)
LEMMA WriteTyped ==
  ASSUME BoundTypeOK, NEW p \in Invocations, NEW rep \in Reports, WritesReport(p, rep)
  PROVE  /\ at' \in [Invocations -> RunSteps \cup MutationSteps]
         /\ report' \in Reports
         /\ overlap' \in SUBSET Mutations
<1>1. NoReport \in Reports
  BY DEF NoReport, Reports
<1>2. Step(p, "done") \/ Step(p, "failed")
  BY DEF WritesReport
<1>3. "done" \in RunSteps /\ "failed" \in RunSteps
  BY DEF RunSteps
<1> QED BY <1>1, <1>2, <1>3, StepTyped DEF WritesReport, Mutating, BoundTypeOK

LEMMA BoundTypeRun ==
  ASSUME BoundTypeOK, NEW r \in Runs, RunStep(r) PROVE BoundTypeOK'
<1>r. r \in Invocations
  BY DEF Invocations
<1>s. {"generate", "readBack", "load", "bind", "test", "verify", "build", "clear", "done",
       "failed"} \subseteq RunSteps \cup MutationSteps
  BY DEF RunSteps
<1>1. CASE ReadsPlan(r)
  <2>1. at' \in [Invocations -> RunSteps \cup MutationSteps]
    BY <1>1, <1>r, <1>s, StepTyped DEF ReadsPlan
  <2> QED BY <1>1, <2>1 DEF ReadsPlan, BoundTypeOK
<1>2. CASE ClearsResults(r)
  <2>1. at' \in [Invocations -> RunSteps \cup MutationSteps]
    BY <1>2, <1>r, <1>s, StepTyped DEF ClearsResults
  <2>2. NoResults \in [Contracts -> ResultFiles]
    BY DEF NoResults, NoResult, ResultFiles, Verdicts
  <2> QED BY <1>2, <2>1, <2>2 DEF ClearsResults, BoundTypeOK
<1>3. CASE Generates(r)
  <2>1. at' \in [Invocations -> RunSteps \cup MutationSteps]
    BY <1>3, <1>r, <1>s, StepTyped DEF Generates
  <2> QED BY <1>3, <2>1 DEF Generates, BoundTypeOK
<1>4. CASE ReadsBack(r)
  <2>1. at' \in [Invocations -> RunSteps \cup MutationSteps]
    BY <1>4, <1>r, <1>s, StepTyped DEF ReadsBack
  <2>2. broken' \in SUBSET Runs
    BY <1>4 DEF ReadsBack, Breaks, BoundTypeOK
  <2> QED BY <1>4, <2>1, <2>2 DEF ReadsBack, BoundTypeOK
<1>5. CASE Loads(r)
  <2>1. at' \in [Invocations -> RunSteps \cup MutationSteps]
    BY <1>5, <1>r, <1>s, StepTyped DEF Loads
  <2>2. loaded' \in [Runs -> SUBSET Contracts]
    BY <1>5 DEF Loads, BoundTypeOK
  <2> QED BY <1>5, <2>1, <2>2 DEF Loads, BoundTypeOK
<1>6. CASE ChecksBinding(r)
  <2>1. at' \in [Invocations -> RunSteps \cup MutationSteps]
    BY <1>6, <1>r, <1>s, StepTyped DEF ChecksBinding
  <2>2. verdicts' \in [Runs -> [Contracts -> Verdicts]]
    BY <1>6 DEF ChecksBinding, BoundTypeOK, Verdicts
  <2>3. loaded' \in [Runs -> SUBSET Contracts]
    BY <1>6 DEF ChecksBinding, BoundTypeOK
  <2> QED BY <1>6, <2>1, <2>2, <2>3 DEF ChecksBinding, BoundTypeOK
<1>7. ASSUME NEW c \in Contracts, TestsContract(r, c) PROVE BoundTypeOK'
  <2>1. verdicts' \in [Runs -> [Contracts -> Verdicts]]
    BY <1>7 DEF TestsContract, BoundTypeOK, Verdicts
  <2>2. results' \in [Contracts -> ResultFiles]
    <3>1. \A v \in {"passed", "failed"} : [by |-> r, status |-> v] \in ResultFiles
      BY DEF ResultFiles, Verdicts
    <3>2. PICK v \in {"passed", "failed"} :
            results' = [results EXCEPT ![c] = [by |-> r, status |-> v]] \/ results' = results
      BY <1>7 DEF TestsContract
    <3> QED BY <3>1, <3>2 DEF BoundTypeOK
  <2>3. actual' \in [Contracts -> Images] /\ baseline' \in [Contracts -> Images]
    <3>1. \/ actual' = actual /\ baseline' = baseline
          \/ actual' = [actual EXCEPT ![c] = "page"] /\ Shoots(r, "page", c, r \in ci)
      BY <1>7 DEF TestsContract
    <3>2. baseline \in [Contracts -> Images] /\ actual \in [Contracts -> Images] /\ "page" \in Images
      BY DEF BoundTypeOK, Images
    <3>3. CASE Shoots(r, "page", c, r \in ci)
      <4>1. baseline' = baseline \/ baseline' = [baseline EXCEPT ![c] = "page"]
        BY <3>3 DEF Shoots
      <4> QED BY <4>1, <3>1, <3>2
    <3> QED BY <3>1, <3>2, <3>3
  <2>4. looked' \in [Invocations -> Contracts \cup {Nothing}]
    BY <1>7, <1>r, AwayTyped DEF TestsContract
  <2> QED BY <1>7, <2>1, <2>2, <2>3, <2>4 DEF TestsContract, BoundTypeOK
<1>8. CASE BrowserEnds(r)
  <2>1. at' \in [Invocations -> RunSteps \cup MutationSteps]
    BY <1>8, <1>r, <1>s, StepTyped DEF BrowserEnds
  <2>2. broken' \in SUBSET Runs /\ ci' \in SUBSET Runs
    BY <1>8 DEF BrowserEnds, Breaks, BoundTypeOK
  <2>3. looked' \in [Invocations -> Contracts \cup {Nothing}]
    BY <1>8, <1>r, AwayTyped DEF BrowserEnds
  <2> QED BY <1>8, <2>1, <2>2, <2>3 DEF BrowserEnds, BoundTypeOK
<1>9. CASE Verifies(r)
  <2>1. at' \in [Invocations -> RunSteps \cup MutationSteps]
    BY <1>9, <1>r, <1>s, StepTyped DEF Verifies
  <2>2. broken' \in SUBSET Runs
    BY <1>9 DEF Verifies, Breaks, BoundTypeOK
  <2> QED BY <1>9, <2>1, <2>2 DEF Verifies, BoundTypeOK
<1>10. CASE Builds(r)
  <2>1. ReportOf(r) \in Reports
    BY DEF ReportOf, Reports, Passes, BoundTypeOK, ResultFiles
  <2>2. /\ at' \in [Invocations -> RunSteps \cup MutationSteps]
        /\ report' \in Reports
        /\ overlap' \in SUBSET Mutations
    <3>1. CASE WritesReport(r, ReportOf(r))
      BY <2>1, <3>1, <1>r, WriteTyped
    <3>2. CASE Step(r, "failed") /\ UNCHANGED <<report, overlap>>
      BY <3>2, <1>r, <1>s, StepTyped DEF BoundTypeOK
    <3> QED BY <1>10, <3>1, <3>2 DEF Builds
  <2>3. scope' \in [Runs -> SUBSET Contracts] /\ verdicts' \in [Runs -> [Contracts -> Verdicts]]
    <3>1. NoVerdicts \in [Contracts -> Verdicts]
      BY DEF NoVerdicts, Verdicts
    <3> QED BY <1>10, <3>1 DEF Builds, BoundTypeOK
  <2>4. broken' \in SUBSET Runs /\ ci' \in SUBSET Runs
    BY <1>10 DEF Builds, BoundTypeOK
  <2> QED BY <1>10, <2>2, <2>3, <2>4 DEF Builds, BoundTypeOK
<1>11. CASE ReportsNothing(r)
  <2>1. [NoReport EXCEPT !.by = r, !.passed = TRUE] \in Reports
    BY DEF NoReport, Reports
  <2>2. /\ at' \in [Invocations -> RunSteps \cup MutationSteps]
        /\ report' \in Reports
        /\ overlap' \in SUBSET Mutations
    BY <1>11, <1>r, <2>1, WriteTyped DEF ReportsNothing
  <2>3. scope' \in [Runs -> SUBSET Contracts]
    BY <1>11 DEF ReportsNothing, BoundTypeOK
  <2> QED BY <1>11, <2>2, <2>3 DEF ReportsNothing, BoundTypeOK
<1> QED
  BY <1>1, <1>2, <1>3, <1>4, <1>5, <1>6, <1>7, <1>8, <1>9, <1>10, <1>11 DEF RunStep

LEMMA BoundTypeMutation ==
  ASSUME BoundTypeOK, NEW m \in Mutations, MutationStep(m) PROVE BoundTypeOK'
<1>i. m \in Invocations
  BY DEF Invocations
<1>1. CASE MutationBegins(m)
  <2>1. at' \in [Invocations -> RunSteps \cup MutationSteps]
    BY <1>1, <1>i, StepTyped DEF MutationBegins, MutationSteps
  <2>2. saved' \in [Mutations -> Reports] /\ unread' \in SUBSET Mutations
    BY <1>1 DEF MutationBegins, BoundTypeOK
  <2> QED BY <1>1, <2>1, <2>2 DEF MutationBegins, BoundTypeOK
<1>2. ASSUME NEW c \in Contracts, TestsMutant(m, c) PROVE BoundTypeOK'
  <2>1. looked' \in [Invocations -> Contracts \cup {Nothing}]
    BY <1>2, <1>i, AwayTyped DEF TestsMutant
  <2>2. baseline' \in [Contracts -> Images] /\ crossed' \in SUBSET Contracts
    BY <1>2 DEF TestsMutant, Shoots, BoundTypeOK, Images
  <2> QED BY <1>2, <2>1, <2>2 DEF TestsMutant, BoundTypeOK
<1>3. CASE MutationEnds(m)
  <2>1. saved[m] \in Reports /\ NoReport \in Reports
    BY DEF BoundTypeOK, NoReport, Reports
  <2>2. /\ at' \in [Invocations -> RunSteps \cup MutationSteps]
        /\ report' \in Reports
        /\ overlap' \in SUBSET Mutations
    BY <1>3, <1>i, <2>1, WriteTyped DEF MutationEnds
  <2>3. looked' \in [Invocations -> Contracts \cup {Nothing}]
    BY <1>3, <1>i, AwayTyped DEF MutationEnds
  <2>4. saved' \in [Mutations -> Reports] /\ unread' \in SUBSET Mutations
    BY <1>3, <2>1 DEF MutationEnds, BoundTypeOK
  <2> QED BY <1>3, <2>2, <2>3, <2>4 DEF MutationEnds, BoundTypeOK
<1> QED BY <1>1, <1>2, <1>3 DEF MutationStep

LEMMA BoundTypeStep == ASSUME BoundTypeOK, [BoundNext]_boundVars PROVE BoundTypeOK'
<1>1. ASSUME NEW c \in Contracts, Approves(c) PROVE BoundTypeOK'
  BY <1>1 DEF Approves, BoundTypeOK
<1>2. ASSUME NEW p \in Invocations, NEW c \in Contracts, LooksForBaseline(p, c)
      PROVE  BoundTypeOK'
  BY <1>2 DEF LooksForBaseline, BoundTypeOK
<1>3. CASE UNCHANGED boundVars BY <1>3 DEF boundVars, BoundTypeOK
<1> QED BY <1>1, <1>2, <1>3, BoundTypeRun, BoundTypeMutation DEF BoundNext

LEMMA BoundInitially == BoundInit => BoundInv
<1> SUFFICES ASSUME BoundInit PROVE BoundInv
  OBVIOUS
<1>1. NoResults \in [Contracts -> ResultFiles] /\ NoReport \in Reports
  BY DEF NoResults, NoResult, ResultFiles, NoReport, Reports, Verdicts
<1>2. BoundTypeOK
  BY <1>1
  DEF BoundInit, BoundTypeOK, Invocations, RunSteps, MutationSteps, Verdicts, NoVerdicts, Images
<1>3. OwnReports
  BY DEF BoundInit, OwnReports, Own, NoReport
<1>4. NoMutatedImage
  BY DEF BoundInit, NoMutatedImage
<1>5. SavedIsThere
  BY DEF BoundInit, SavedIsThere, Mutating, Invocations
<1> QED BY <1>2, <1>3, <1>4, <1>5 DEF BoundInv

-----------------------------------------------------------------------------
(* A step of a run other than its last leaves the reports as they are, and *)
(* what is said of a run that is done.                                     *)
LEMMA RunLeaves ==
  ASSUME BoundTypeOK, NEW r \in Runs, RunStep(r)
  PROVE  /\ at[r] # "done" /\ UNCHANGED <<visual, saved, unread, crossed>>
         /\ \A p \in Invocations \ {r} : at'[p] = at[p]
         /\ \A q \in Runs \ {r} : scope'[q] = scope[q] /\ verdicts'[q] = verdicts[q]
         /\ Builds(r) \/ ReportsNothing(r) \/ (UNCHANGED <<report, overlap>>)
<1> USE DEF BoundTypeOK, Step, WritesReport
<1>1. CASE ReadsPlan(r) BY <1>1 DEF ReadsPlan
<1>2. CASE ClearsResults(r) BY <1>2 DEF ClearsResults
<1>3. CASE Generates(r) BY <1>3 DEF Generates
<1>4. CASE ReadsBack(r) BY <1>4 DEF ReadsBack
<1>5. CASE Loads(r) BY <1>5 DEF Loads
<1>6. CASE ChecksBinding(r) BY <1>6 DEF ChecksBinding
<1>7. ASSUME NEW c \in Contracts, TestsContract(r, c)
      PROVE  /\ at[r] # "done"
             /\ UNCHANGED <<visual, saved, unread, crossed, at, scope, report, overlap>>
             /\ \A q \in Runs \ {r} : verdicts'[q] = verdicts[q]
  BY <1>7, BoundAssumption DEF TestsContract, Testing
<1>8. CASE BrowserEnds(r) BY <1>8 DEF BrowserEnds
<1>9. CASE Verifies(r) BY <1>9 DEF Verifies
<1>10. CASE Builds(r) BY <1>10 DEF Builds
<1>11. CASE ReportsNothing(r) BY <1>11 DEF ReportsNothing
<1> QED
  BY <1>1, <1>2, <1>3, <1>4, <1>5, <1>6, <1>7, <1>8, <1>9, <1>10, <1>11 DEF RunStep

LEMMA RunKeepsImages ==
  ASSUME BoundInv, NEW r \in Runs, RunStep(r) PROVE NoMutatedImage'
<1> USE DEF BoundInv, NoMutatedImage
<1>1. visual' = visual /\ crossed' = crossed
  BY RunLeaves
<1>2. ASSUME NEW c \in Contracts, TestsContract(r, c) PROVE NoMutatedImage'
  BY <1>2, <1>1 DEF TestsContract, Shoots, BoundTypeOK
<1>3. CASE \A c \in Contracts : ~TestsContract(r, c)
  <2>1. baseline' = baseline /\ actual' = actual
    BY <1>3 DEF RunStep, ReportsNothing, ReadsPlan, ClearsResults, Generates, ReadsBack, Loads,
                ChecksBinding, BrowserEnds, Verifies, Builds
  <2> QED BY <2>1, <1>1
<1> QED BY <1>2, <1>3

(* The report that a run builds is its own.                                *)
LEMMA BuildsOwn ==
  ASSUME BoundTypeOK, NEW r \in Runs, Complete(r) \/ results = NoResults
  PROVE  LET rep == ReportOf(r) IN
           /\ rep.by = r
           /\ \A c \in Contracts : rep.from[c] \in {r, Nothing}
           /\ rep.passed => \A c \in scope[r] : rep.from[c] = r /\ verdicts[r][c] = "passed"
<1>1. \A c \in scope[r] : c \in Contracts
  BY DEF BoundTypeOK
<1>2. CASE Complete(r)
  BY <1>1, <1>2 DEF Complete, ReportOf, Passes
<1>3. CASE results = NoResults
  BY <1>1, <1>3 DEF NoResults, NoResult, ReportOf, Passes
<1> QED BY <1>2, <1>3

LEMMA RunKeeps == ASSUME BoundInv, NEW r \in Runs, RunStep(r) PROVE BoundInv'
<1> USE BoundAssumption
<1>t. BoundTypeOK /\ BoundTypeOK'
  BY BoundTypeRun DEF BoundInv
<1>l. /\ at[r] # "done" /\ UNCHANGED <<visual, saved, unread, crossed>>
      /\ \A p \in Invocations \ {r} : at'[p] = at[p]
      /\ \A q \in Runs \ {r} : scope'[q] = scope[q] /\ verdicts'[q] = verdicts[q]
      /\ Builds(r) \/ ReportsNothing(r) \/ (UNCHANGED <<report, overlap>>)
  BY <1>t, RunLeaves
<1>i. Runs \subseteq Invocations /\ \A m \in Mutations : m \in Invocations \ {r}
  BY DEF Invocations
<1>1. ASSUME NEW rep, Own(rep) PROVE Own(rep)'
  BY <1>1, <1>l, <1>i DEF Own
<1>2. \A m \in Mutations : Own(saved[m])'
  <2>1. saved' = saved /\ \A m \in Mutations : Own(saved[m])
    BY <1>l DEF BoundInv, OwnReports
  <2>2. \A rep \in {saved[m] : m \in Mutations} : Own(rep)'
    BY <2>1, <1>1
  <2> QED BY <2>1, <2>2 DEF Own
<1>3. Own(report)'
  <2>1. CASE report' = report
    BY <2>1, <1>1 DEF BoundInv, OwnReports, Own
  <2>2. CASE report' = NoReport
    BY <2>2 DEF Own, NoReport
  <2>3. CASE Builds(r) /\ report' # report /\ report' # NoReport
    <3>1. /\ report' = ReportOf(r)
          /\ Complete(r) \/ results = NoResults
          /\ at'[r] = "done"
          /\ Passes(r) => UNCHANGED <<scope, verdicts>>
      BY <2>3, <1>t, <1>i DEF Builds, WritesReport, Step, BoundTypeOK
    <3>2. /\ report'.by = r
          /\ \A c \in Contracts : report'.from[c] \in {r, Nothing}
          /\ report'.passed =>
               \A c \in scope[r] : report'.from[c] = r /\ verdicts[r][c] = "passed"
      BY <3>1, <1>t, BuildsOwn
    <3>3. report'.passed => Passes(r)
      BY <3>1 DEF ReportOf
    <3> QED BY <3>1, <3>2, <3>3 DEF Own
  <2>4. CASE ReportsNothing(r) /\ report' # NoReport
    <3>1. /\ report'.by = r /\ \A c \in Contracts : report'.from[c] = Nothing
          /\ Step(r, "done")
      BY <2>4 DEF ReportsNothing, WritesReport, NoReport
    <3>2. at'[r] = "done" /\ scope'[r] = {}
      BY <2>4, <3>1, <1>t, <1>i DEF ReportsNothing, Step, BoundTypeOK
    <3> QED BY <3>1, <3>2 DEF Own
  <2> QED BY <1>l, <2>1, <2>2, <2>3, <2>4
<1>4. SavedIsThere'
  <2>1. Mutating' = Mutating /\ \A m \in Mutations : at'[m] = at[m]
    BY <1>l, <1>i DEF Mutating
  <2>2. CASE UNCHANGED <<report, overlap>>
    BY <2>1, <2>2, <1>l DEF BoundInv, SavedIsThere
  <2>3. CASE Mutating \subseteq overlap'
    BY <2>1, <2>3, <1>l DEF BoundInv, SavedIsThere
  <2>4. Mutating \subseteq overlap' \/ UNCHANGED <<report, overlap>>
    <3>1. r \notin Mutations
      BY BoundAssumption
    <3> QED BY <1>l, <3>1 DEF Builds, ReportsNothing, WritesReport, Mutating
  <2> QED BY <2>2, <2>3, <2>4
<1> QED BY <1>t, <1>2, <1>3, <1>4, RunKeepsImages DEF BoundInv, OwnReports

LEMMA MutationKeeps == ASSUME BoundInv, NEW m \in Mutations, MutationStep(m) PROVE BoundInv'
<1> USE BoundAssumption
<1>t. BoundTypeOK /\ BoundTypeOK'
  BY BoundTypeMutation DEF BoundInv
<1>i. m \in Invocations /\ \A q \in Runs : q \in Invocations /\ q # m
  BY DEF Invocations
<1>l. /\ UNCHANGED <<visual, scope, verdicts, actual>>
      /\ \A p \in Invocations \ {m} : at'[p] = at[p]
  BY <1>t, <1>i
  DEF MutationStep, MutationBegins, TestsMutant, MutationEnds, WritesReport, Step, BoundTypeOK
<1>o. ASSUME NEW rep, Own(rep) PROVE Own(rep)'
  BY <1>o, <1>l, <1>i DEF Own
<1>n. Own(NoReport)
  BY DEF Own, NoReport
<1>1. CASE MutationBegins(m)
  <2>1. OwnReports'
    <3>1. report' = report /\ \A n \in Mutations : saved'[n] \in {saved[n], report}
      BY <1>1, <1>t DEF MutationBegins, BoundTypeOK
    <3>2. \A rep \in {saved[n] : n \in Mutations} \cup {report} : Own(rep)'
      BY <1>o DEF BoundInv, OwnReports
    <3> QED BY <3>1, <3>2 DEF OwnReports, Own
  <2>2. NoMutatedImage'
    BY <1>1 DEF MutationBegins, BoundInv, NoMutatedImage
  <2>3. SavedIsThere'
    BY <1>1, <1>l, <1>i, <1>t
    DEF MutationBegins, Step, BoundInv, SavedIsThere, Mutating, BoundTypeOK, Invocations
  <2> QED BY <1>t, <2>1, <2>2, <2>3 DEF BoundInv
<1>2. ASSUME NEW c \in Contracts, TestsMutant(m, c) PROVE BoundInv'
  <2>1. OwnReports' /\ SavedIsThere'
    BY <1>2, <1>o DEF TestsMutant, BoundInv, OwnReports, Own, SavedIsThere, Mutating
  <2>2. NoMutatedImage'
    BY <1>2 DEF TestsMutant, Shoots, Creates, Missing, BoundInv, NoMutatedImage, BoundTypeOK
  <2> QED BY <1>t, <2>1, <2>2 DEF BoundInv
<1>3. CASE MutationEnds(m)
  <2>1. OwnReports'
    <3>1. /\ report' \in {saved[m], NoReport}
          /\ \A n \in Mutations : saved'[n] \in {saved[n], NoReport}
      BY <1>3, <1>t DEF MutationEnds, WritesReport, BoundTypeOK
    <3>2. \A rep \in {saved[n] : n \in Mutations} \cup {NoReport} : Own(rep)'
      BY <1>o, <1>n DEF BoundInv, OwnReports
    <3> QED BY <3>1, <3>2 DEF OwnReports, Own
  <2>2. NoMutatedImage'
    BY <1>3 DEF MutationEnds, BoundInv, NoMutatedImage
  <2>3. SavedIsThere'
    <3>1. at'[m] \in {"done", "failed"} /\ Mutating' \ overlap' = {}
      BY <1>3, <1>l, <1>i, <1>t
      DEF MutationEnds, WritesReport, Mutating, Step, BoundTypeOK, Invocations
    <3>2. ASSUME NEW n \in Mutations, at'[n] = "idle"
          PROVE  saved'[n] = NoReport /\ n \notin unread'
      <4>1. n # m /\ at[n] = "idle"
        BY <1>l, <3>1, <3>2 DEF Invocations
      <4> QED BY <1>3, <1>t, <4>1 DEF MutationEnds, BoundInv, SavedIsThere, BoundTypeOK
    <3> QED BY <3>1, <3>2 DEF SavedIsThere
  <2> QED BY <1>t, <2>1, <2>2, <2>3 DEF BoundInv
<1> QED BY <1>1, <1>2, <1>3 DEF MutationStep

THEOREM BoundInvariant == BoundSpec => []BoundInv
<1>1. BoundInv /\ [BoundNext]_boundVars => BoundInv'
  <2> SUFFICES ASSUME BoundInv, [BoundNext]_boundVars PROVE BoundInv'
    OBVIOUS
  <2>1. ASSUME NEW c \in Contracts, Approves(c) PROVE BoundInv'
    <3>1. BoundTypeOK'
      BY <2>1, BoundTypeStep DEF BoundInv, BoundNext
    <3>2. OwnReports' /\ SavedIsThere'
      BY <2>1 DEF Approves, BoundInv, OwnReports, Own, SavedIsThere, Mutating
    <3>3. NoMutatedImage'
      BY <2>1 DEF Approves, BoundInv, NoMutatedImage, BoundTypeOK
    <3> QED BY <3>1, <3>2, <3>3 DEF BoundInv
  <2>2. ASSUME NEW p \in Invocations, NEW c \in Contracts, LooksForBaseline(p, c)
        PROVE  BoundInv'
    <3>1. BoundTypeOK'
      BY <2>2, BoundTypeStep DEF BoundInv, BoundNext
    <3>2. OwnReports' /\ NoMutatedImage' /\ SavedIsThere'
      BY <2>2 DEF LooksForBaseline, BoundInv, OwnReports, Own, NoMutatedImage, SavedIsThere,
                  Mutating
    <3> QED BY <3>1, <3>2 DEF BoundInv
  <2>3. CASE UNCHANGED boundVars
    BY <2>3
    DEF boundVars, BoundInv, BoundTypeOK, OwnReports, Own, NoMutatedImage, SavedIsThere,
        Mutating
  <2> QED BY <2>1, <2>2, <2>3, RunKeeps, MutationKeeps DEF BoundNext
<1> QED BY <1>1, BoundInitially, PTL DEF BoundSpec

-----------------------------------------------------------------------------
(* The state of the evidence always has its type.                          *)
THEOREM BoundTypes == BoundSpec => []BoundTypeOK
<1>1. BoundInv => BoundTypeOK BY DEF BoundInv
<1> QED BY <1>1, BoundInvariant, PTL

(* However runs and mutations overlap, the report is of its own run.       *)
THEOREM ReportsAreOwn == BoundSpec => []ReportIsOwn
<1>1. BoundInv => ReportIsOwn BY DEF BoundInv, OwnReports, Own, ReportIsOwn
<1> QED BY <1>1, BoundInvariant, PTL

(* No mutated page becomes a baseline, unless the configuration says so or *)
(* one is made between the two looks for it.                               *)
THEOREM BaselinesUnmutated == BoundSpec => []NoMutatedBaseline
<1>1. BoundInv => NoMutatedBaseline
  BY DEF BoundInv, NoMutatedImage, NoMutatedBaseline
<1> QED BY <1>1, BoundInvariant, PTL

(* However many mutations overlap, one that was alone with the report      *)
(* leaves it as it is, or removes it when it could not read it.            *)
THEOREM MutationsKeepReport == BoundSpec => MutationKeepsReport
<1>1. ASSUME BoundInv, [BoundNext]_boundVars
      PROVE  [\A m \in Mutations :
                at[m] = "mutating" /\ at'[m] = "done" /\ m \notin overlap =>
                  report' = IF m \in unread THEN NoReport ELSE report]_boundVars
  <2> SUFFICES ASSUME BoundNext, NEW m \in Mutations,
                      at[m] = "mutating", at'[m] = "done", m \notin overlap
               PROVE  report' = IF m \in unread THEN NoReport ELSE report
    BY <1>1
  <2> USE <1>1, BoundAssumption DEF BoundInv
  <2>i. m \in Invocations /\ m \notin Runs
    BY DEF Invocations
  <2>1. ASSUME NEW r \in Runs, RunStep(r) PROVE FALSE
    BY <2>1, <2>i, RunLeaves
  <2>2. ASSUME NEW p \in Invocations, NEW c \in Contracts,
               Approves(c) \/ LooksForBaseline(p, c)
        PROVE  FALSE
    BY <2>2 DEF Approves, LooksForBaseline
  <2>3. ASSUME NEW n \in Mutations, MutationStep(n)
        PROVE  report' = IF m \in unread THEN NoReport ELSE report
    <3>1. MutationEnds(n) /\ n = m /\ Step(m, "done")
      BY <2>3, <2>i DEF MutationStep, MutationBegins, TestsMutant, MutationEnds, WritesReport,
                        Step, BoundTypeOK
    <3>2. report' = saved[m]
      BY <2>i, <3>1 DEF MutationEnds, WritesReport, Step, BoundTypeOK
    <3> QED BY <3>2 DEF SavedIsThere, Mutating
  <2> QED BY <2>i, <2>1, <2>2, <2>3 DEF BoundNext
<1> QED BY <1>1, BoundInvariant, PTL DEF BoundSpec, MutationKeepsReport

-----------------------------------------------------------------------------
(* A behaviour of the two, one at a time, is for each of them a behaviour  *)
(* of its own: what the other does leaves it as it is.                     *)
THEOREM BrowserCompose == BrowserSpec => BoundSpec /\ TargetSpec
<1>1. BrowserInit => BoundInit /\ TargetInit
  BY DEF BrowserInit
<1>2. [BrowserNext]_<<running, boundVars, targetVars>> =>
        [BoundNext]_boundVars /\ [TargetNext]_targetVars
  BY DEF BrowserNext
<1> QED BY <1>1, <1>2, PTL DEF BrowserSpec, BoundSpec, TargetSpec

(* All the variables of both components keep their types.                  *)
THEOREM BrowserTypes == BrowserSpec => []BrowserTyped
<1>1. BoundTypeOK /\ TargetTypeOK => BrowserTyped
  BY DEF BrowserTyped
<1> QED BY <1>1, BrowserCompose, BoundTypes, TargetTypes, PTL
=============================================================================
