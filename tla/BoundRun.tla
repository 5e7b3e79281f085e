------------------------------ MODULE BoundRun ------------------------------
(***************************************************************************)
(* The evidence of browser runs in one workspace: `visual-hive run`, which *)
(* generates a specification, has the browser write one result file per    *)
(* contract and builds report.json from them; `visual-hive mutate`, which  *)
(* tests mutated pages and puts report.json back; and the approval of a    *)
(* screenshot as baseline.                                                 *)
(*                                                                         *)
(* Runs may overlap: the control plane starts one per request.  They share *)
(* the specification, the result directory and the screenshots.            *)
(*                                                                         *)
(* A specification stands for its contracts, a result file and a report    *)
(* for the run that made it, a screenshot for the kind of page it shows:   *)
(* two screenshots of one contract may or may not be equal.                *)
(***************************************************************************)
CONSTANTS
  Runs,       \* invocations of `visual-hive run`
  Mutations,  \* invocations of `visual-hive mutate`
  Contracts,  \* the contracts of the configuration
  Nothing     \* no run, no contract

ASSUME BoundAssumption ==
  /\ Runs \cap Mutations = {}
  /\ Nothing \notin Runs \cup Mutations \cup Contracts

VARIABLES
  at,        \* the step each command is about to take
  visual,    \* the configured handling of baselines
  ci,        \* the runs under way that were started with --ci
  scope,     \* the contracts of the plan each run has read
  loaded,    \* the contracts of the specification its browser has loaded
  verdicts,  \* what its browser has reported of each contract
  broken,    \* the runs that have met an execution error
  looked,    \* the contract each command has found without a baseline so far
  spec,      \* the generated specification
  results,   \* the result file of each contract
  actual,    \* the last screenshot of each contract
  baseline,  \* the baseline of each contract
  report,    \* report.json
  saved,     \* the report each mutation has read
  overlap,   \* history: the mutations during which another command has written it
  unread,    \* history: the mutations that could not read it
  crossed    \* history: contracts whose baseline was made between two looks for it

boundVars == <<at, visual, ci, scope, loaded, verdicts, broken, looked, spec,
               results, actual, baseline, report, saved, overlap, unread, crossed>>

-----------------------------------------------------------------------------
Invocations == Runs \cup Mutations
RunSteps == {"idle", "clear", "generate", "readBack", "load", "bind", "test",
             "verify", "build", "done", "failed"}
MutationSteps == {"idle", "mutating", "done", "failed"}
Verdicts == {"none", "passed", "failed"}
NoVerdicts == [c \in Contracts |-> "none"]
Images == {"none", "page", "mutated"}

(* A result file: the run whose binding it carries, and its status.        *)
NoResult == [by |-> Nothing, status |-> "none"]
ResultFiles == [by : Runs \cup {Nothing}, status : Verdicts]
NoResults == [c \in Contracts |-> NoResult]

(* A report: who wrote it, what it says, whose result files it is made of. *)
(* One that was cut short is none: nobody can read it.                     *)
NoReport == [by |-> Nothing, passed |-> FALSE, from |-> [c \in Contracts |-> Nothing]]
Reports == [by : Runs \cup {Nothing}, passed : BOOLEAN,
            from : [Contracts -> Runs \cup {Nothing}]]

BoundTypeOK ==
  /\ at \in [Invocations -> RunSteps \cup MutationSteps]
  /\ visual \in [update : BOOLEAN, failMissing : BOOLEAN]
  /\ ci \in SUBSET Runs
  /\ scope \in [Runs -> SUBSET Contracts]
  /\ loaded \in [Runs -> SUBSET Contracts]
  /\ verdicts \in [Runs -> [Contracts -> Verdicts]]
  /\ broken \in SUBSET Runs
  /\ looked \in [Invocations -> Contracts \cup {Nothing}]
  /\ spec \in SUBSET Contracts
  /\ results \in [Contracts -> ResultFiles]
  /\ actual \in [Contracts -> Images]
  /\ baseline \in [Contracts -> Images]
  /\ report \in Reports
  /\ saved \in [Mutations -> Reports]
  /\ overlap \in SUBSET Mutations
  /\ unread \in SUBSET Mutations
  /\ crossed \in SUBSET Contracts

(* An empty workspace, any configuration; nothing has been run yet.        *)
BoundInit ==
  /\ at = [p \in Invocations |-> "idle"]
  /\ visual \in [update : BOOLEAN, failMissing : BOOLEAN]
  /\ ci = {}
  /\ scope = [r \in Runs |-> {}]
  /\ loaded = [r \in Runs |-> {}]
  /\ verdicts = [r \in Runs |-> NoVerdicts]
  /\ broken = {}
  /\ looked = [p \in Invocations |-> Nothing]
  /\ spec = {}
  /\ results = NoResults
  /\ actual = [c \in Contracts |-> "none"]
  /\ baseline = [c \in Contracts |-> "none"]
  /\ report = NoReport
  /\ saved = [m \in Mutations |-> NoReport]
  /\ overlap = {}
  /\ unread = {}
  /\ crossed = {}

Step(p, step) == at' = [at EXCEPT ![p] = step]
Breaks(r) == broken' = broken \cup {r}
LooksAway(p) == looked' = [looked EXCEPT ![p] = Nothing]
Mutating == {m \in Mutations : at[m] = "mutating"}

(* writeJson truncates the file and then writes it: when that fails, what  *)
(* was there is gone.                                                      *)
WritesReport(p, rep) ==
  /\ \/ report' = rep /\ Step(p, "done")
     \/ report' = NoReport /\ Step(p, "failed")
  /\ overlap' = (overlap \cup Mutating) \ {p}

-----------------------------------------------------------------------------
(* runDeterministicCommand reads the plan.  One that is empty because all  *)
(* changed files are ignored is reported as passed without a browser; any  *)
(* other empty plan is an error.                                           *)
ReportsNothing(r) ==
  /\ at[r] = "idle"
  /\ scope' = [scope EXCEPT ![r] = {}]
  /\ WritesReport(r, [NoReport EXCEPT !.by = r, !.passed = TRUE])
  /\ UNCHANGED <<visual, ci, loaded, verdicts, broken, looked, spec, results, actual,
                 baseline, saved, unread, crossed>>

ReadsPlan(r) ==
  /\ at[r] = "idle"
  /\ \E plan \in SUBSET Contracts \ {{}} : scope' = [scope EXCEPT ![r] = plan]
  /\ \E flag \in BOOLEAN : ci' = IF flag THEN ci \cup {r} ELSE ci
  /\ Step(r, "clear")
  /\ UNCHANGED <<visual, loaded, verdicts, broken, looked, spec, results, actual,
                 baseline, report, saved, overlap, unread, crossed>>

(* prepareBoundExecution removes the result directory ...                  *)
ClearsResults(r) ==
  /\ at[r] = "clear"
  /\ results' = NoResults
  /\ Step(r, "generate")
  /\ UNCHANGED <<visual, ci, scope, loaded, verdicts, broken, looked, spec, actual,
                 baseline, report, saved, overlap, unread, crossed>>

(* ... writes the specification for the plan ...                           *)
Generates(r) ==
  /\ at[r] = "generate"
  /\ spec' = scope[r]
  /\ Step(r, "readBack")
  /\ UNCHANGED <<visual, ci, scope, loaded, verdicts, broken, looked, results, actual,
                 baseline, report, saved, overlap, unread, crossed>>

(* ... and reads it back to bind the execution to it.                      *)
ReadsBack(r) ==
  /\ at[r] = "readBack"
  /\ \/ spec = scope[r] /\ Step(r, "load") /\ UNCHANGED broken
     \/ spec # scope[r] /\ Step(r, "build") /\ Breaks(r)
  /\ UNCHANGED <<visual, ci, scope, loaded, verdicts, looked, spec, results, actual,
                 baseline, report, saved, overlap, unread, crossed>>

(* The browser loads the specification that is there ...                   *)
Loads(r) ==
  /\ at[r] = "load"
  /\ loaded' = [loaded EXCEPT ![r] = spec]
  /\ Step(r, "bind")
  /\ UNCHANGED <<visual, ci, scope, verdicts, broken, looked, spec, results, actual,
                 baseline, report, saved, overlap, unread, crossed>>

(* ... and, before the first test, compares what it has loaded and what is *)
(* there now with the binding.  Without it no test passes or is recorded.  *)
ChecksBinding(r) ==
  /\ at[r] = "bind"
  /\ \/ /\ loaded[r] = scope[r] /\ spec = scope[r]
        /\ Step(r, "test")
        /\ UNCHANGED verdicts
     \/ /\ ~(loaded[r] = scope[r] /\ spec = scope[r])
        /\ verdicts' = [verdicts EXCEPT ![r] =
             [c \in Contracts |-> IF c \in loaded[r] THEN "failed" ELSE "none"]]
        /\ Step(r, "verify")
  /\ loaded' = [loaded EXCEPT ![r] = {}]
  /\ UNCHANGED <<visual, ci, scope, broken, looked, spec, results, actual, baseline,
                 report, saved, overlap, unread, crossed>>

-----------------------------------------------------------------------------
Untested(r) == {c \in scope[r] : verdicts[r][c] = "none"}

Testing(p, c) == IF p \in Runs THEN at[p] = "test" /\ c \in Untested(p)
                 ELSE at[p] = "mutating"

(* compareScreenshot asks whether there is a baseline ...                  *)
LooksForBaseline(p, c) ==
  /\ Testing(p, c)
  /\ looked[p] = Nothing
  /\ ~visual.update
  /\ baseline[c] = "none"
  /\ looked' = [looked EXCEPT ![p] = c]
  /\ UNCHANGED <<at, visual, ci, scope, loaded, verdicts, broken, spec, results, actual,
                 baseline, report, saved, overlap, unread, crossed>>

(* ... and, when there was none, asks again whether one is missing, which  *)
(* --ci may forbid.  If not, or when baselines are to be updated, it is    *)
(* made from the screenshot, whatever is there by now.                     *)
Missing(p, c, inCI) ==
  looked[p] = c /\ baseline[c] = "none" /\ inCI /\ visual.failMissing

Creates(p, c, inCI) == visual.update \/ (looked[p] = c /\ ~Missing(p, c, inCI))

Shoots(p, image, c, inCI) ==
  /\ looked[p] = c \/ (looked[p] = Nothing /\ (visual.update \/ baseline[c] # "none"))
  /\ baseline' = IF Creates(p, c, inCI) THEN [baseline EXCEPT ![c] = image] ELSE baseline

(* The browser tests one contract: it takes the screenshot, compares it and*)
(* writes the result file, over another run's if there is one.  A contract *)
(* that fails does so for its screenshot, for its result file or for       *)
(* anything else; with no baseline where one is required it cannot pass.   *)
TestsContract(r, c) ==
  /\ Testing(r, c)
  /\ looked[r] \in {Nothing, c}
  /\ \E v \in {"passed", "failed"} :
       /\ \/ /\ Shoots(r, "page", c, r \in ci)
             /\ actual' = [actual EXCEPT ![c] = "page"]
             /\ v = "passed" => ~Missing(r, c, r \in ci)
          \/ v = "failed" /\ UNCHANGED <<actual, baseline>>
       /\ verdicts' = [verdicts EXCEPT ![r][c] = v]
       /\ \/ results' = [results EXCEPT ![c] = [by |-> r, status |-> v]]
          \/ v = "failed" /\ UNCHANGED results
  /\ LooksAway(r)
  /\ UNCHANGED <<at, visual, ci, scope, loaded, broken, spec, report, saved, overlap,
                 unread, crossed>>

(* The browser is through, or dies, or a server it needs is gone.          *)
BrowserEnds(r) ==
  /\ at[r] = "test"
  /\ \/ Untested(r) = {} /\ Step(r, "verify") /\ UNCHANGED broken
     \/ Step(r, "build") /\ Breaks(r)
  /\ ci' = ci \ {r}
  /\ LooksAway(r)
  /\ UNCHANGED <<visual, scope, loaded, verdicts, spec, results, actual,
                 baseline, report, saved, overlap, unread, crossed>>

(* verifyPreparedExecutionUnchanged.                                       *)
Verifies(r) ==
  /\ at[r] = "verify"
  /\ Step(r, "build")
  /\ \/ spec = scope[r] /\ UNCHANGED broken
     \/ spec # scope[r] /\ Breaks(r)
  /\ UNCHANGED <<visual, ci, scope, loaded, verdicts, looked, spec, results, actual,
                 baseline, report, saved, overlap, unread, crossed>>

-----------------------------------------------------------------------------
(* Mutant of Complete: the binding of the result files is not compared.    *)
CompleteWhoever(r) ==
  \A c \in Contracts : (results[c].by # Nothing) <=> (c \in scope[r])

(* readStructuredContractResults: one file for every contract of the plan, *)
(* every file bound to this execution, and no other.                       *)
Complete(r) ==
  \A c \in Contracts : results[c].by = IF c \in scope[r] THEN r ELSE Nothing

(* A contract has passed when the browser and its result file say so.      *)
Passes(r) ==
  /\ r \notin broken
  /\ \A c \in scope[r] : verdicts[r][c] = "passed" /\ results[c].status = "passed"

ReportOf(r) ==
  [by |-> r, passed |-> Passes(r), from |-> [c \in Contracts |-> results[c].by]]

(* A run that finds its result directory gone reports that all has failed; *)
(* any other fault of the files ends it without a report.  What it knew of *)
(* its contracts goes with it, and stays here only to be compared with a   *)
(* report that says passed.                                                *)
Builds(r) ==
  /\ at[r] = "build"
  /\ \/ /\ Complete(r) \/ results = NoResults
        /\ WritesReport(r, ReportOf(r))
     \/ /\ ~Complete(r)
        /\ Step(r, "failed")
        /\ UNCHANGED <<report, overlap>>
  /\ IF at'[r] = "done" /\ Passes(r)
     THEN UNCHANGED <<scope, verdicts>>
     ELSE /\ scope' = [scope EXCEPT ![r] = {}]
          /\ verdicts' = [verdicts EXCEPT ![r] = NoVerdicts]
  /\ broken' = broken \ {r}
  /\ ci' = ci \ {r}
  /\ UNCHANGED <<visual, loaded, looked, spec, results, actual, baseline, saved,
                 unread, crossed>>

-----------------------------------------------------------------------------
(* runMutateCommand reads the report and clears its own output directory.  *)
(* readOptionalReport takes one that cannot be read for none.              *)
MutationBegins(m) ==
  /\ at[m] = "idle"
  /\ \/ saved' = [saved EXCEPT ![m] = report] /\ UNCHANGED unread
     \/ report # NoReport /\ unread' = unread \cup {m} /\ UNCHANGED saved
  /\ Step(m, "mutating")
  /\ UNCHANGED <<visual, ci, scope, loaded, verdicts, broken, looked, spec, results,
                 actual, baseline, report, overlap, crossed>>

(* Mutant of TestsMutant: the output of the mutation is not kept apart.    *)
TestsMutantInPlace(m, c) ==
  /\ Testing(m, c)
  /\ Shoots(m, "mutated", c, TRUE)
  /\ actual' = [actual EXCEPT ![c] = "mutated"]
  /\ LooksAway(m)
  /\ UNCHANGED <<at, visual, ci, scope, loaded, verdicts, broken, spec, results,
                 report, saved, overlap, unread, crossed>>

(* A mutated page is tested in CI mode.  Specification, result files and   *)
(* screenshots are in the mutation's directory, the baselines are not.     *)
TestsMutant(m, c) ==
  /\ Testing(m, c)
  /\ Shoots(m, "mutated", c, TRUE)
  /\ crossed' = crossed \cup {x \in {c} : looked[m] = x /\ baseline[x] # "none"}
  /\ LooksAway(m)
  /\ UNCHANGED <<at, visual, ci, scope, loaded, verdicts, broken, spec, results,
                 actual, report, saved, overlap, unread>>

(* Mutant of MutationEnds: the report is removed, as if none was there.    *)
MutationEndsRemoving(m) ==
  /\ at[m] = "mutating"
  /\ WritesReport(m, NoReport)
  /\ saved' = [saved EXCEPT ![m] = NoReport]
  /\ unread' = unread \ {m}
  /\ LooksAway(m)
  /\ UNCHANGED <<visual, ci, scope, loaded, verdicts, broken, spec, results, actual,
                 baseline, crossed>>

(* However it ends, it puts back the report it has read, and removes one   *)
(* that it could not read.                                                 *)
MutationEnds(m) ==
  /\ at[m] = "mutating"
  /\ WritesReport(m, saved[m])
  /\ saved' = [saved EXCEPT ![m] = NoReport]
  /\ unread' = unread \ {m}
  /\ LooksAway(m)
  /\ UNCHANGED <<visual, ci, scope, loaded, verdicts, broken, spec, results, actual,
                 baseline, crossed>>

(* approveBaseline copies the screenshot that is now where the report says *)
(* it was.                                                                 *)
Approves(c) ==
  /\ report.from[c] # Nothing
  /\ actual[c] # "none"
  /\ baseline' = [baseline EXCEPT ![c] = actual[c]]
  /\ UNCHANGED <<at, visual, ci, scope, loaded, verdicts, broken, looked, spec, results,
                 actual, report, saved, overlap, unread, crossed>>

-----------------------------------------------------------------------------
RunStep(r) ==
  \/ ReportsNothing(r) \/ ReadsPlan(r) \/ ClearsResults(r) \/ Generates(r)
  \/ ReadsBack(r) \/ Loads(r) \/ ChecksBinding(r) \/ (\E c \in Contracts : TestsContract(r, c))
  \/ BrowserEnds(r) \/ Verifies(r) \/ Builds(r)

MutationStep(m) ==
  MutationBegins(m) \/ (\E c \in Contracts : TestsMutant(m, c)) \/ MutationEnds(m)

BoundNext ==
  \/ \E r \in Runs : RunStep(r)
  \/ \E m \in Mutations : MutationStep(m)
  \/ \E p \in Invocations, c \in Contracts : LooksForBaseline(p, c)
  \/ \E c \in Contracts : Approves(c)

BoundSpec == BoundInit /\ [][BoundNext]_boundVars

-----------------------------------------------------------------------------
(* A report is made of result files of its own run, and when it says that  *)
(* the run has passed there is one for every contract of the plan and its  *)
(* own browser has passed each, whatever other runs did to the files.      *)
ReportIsOwn ==
  LET r == report.by IN r # Nothing =>
    /\ \A c \in Contracts : report.from[c] \in {r, Nothing}
    /\ report.passed =>
         \A c \in scope[r] : report.from[c] = r /\ verdicts[r][c] = "passed"

(* Unless the configuration updates baselines, or allows them to be made   *)
(* in CI, no baseline shows a mutated page, whether it was made by a test  *)
(* or approved: except that one which somebody makes between the two looks *)
(* of a mutation is overwritten by the mutated page.                       *)
NoMutatedBaseline ==
  ~visual.update /\ visual.failMissing =>
    \A c \in Contracts \ crossed : baseline[c] # "mutated"

(* A mutation that ends without an error leaves report.json as it is, or   *)
(* removes it when it could not read it, unless another command has        *)
(* written it in the meantime; it never leaves a report of its own.        *)
MutationKeepsReport ==
  [][\A m \in Mutations :
       at[m] = "mutating" /\ at'[m] = "done" /\ m \notin overlap =>
         report' = IF m \in unread THEN NoReport ELSE report]_boundVars
=============================================================================
