---------------------------- MODULE ContractPlan ----------------------------
(***************************************************************************)
(* `visual-hive plan`: which contracts a run will test, as createPlan      *)
(* (packages/core/src/planner) selects them from the configuration, the    *)
(* changed files and what was asked for by name, and runPlanCommand        *)
(* (packages/cli/src/commands/plan.ts) writes them to plan.json.           *)
(*                                                                         *)
(* A glob pattern stands for the files that match it.  Reasons, severities *)
(* and the providers' policy, which select nothing, are left out.          *)
(***************************************************************************)
EXTENDS FiniteSets

CONSTANTS
  Candidates,  \* the contracts of the configuration
  Places,      \* its targets
  PlaceOf,     \* the target of each contract
  Changeable,  \* the files of the repository
  Ignorable    \* those that selection.ignoreChangedFiles matches

ASSUME PlanAssumption ==
  /\ PlaceOf \in [Candidates -> Places]
  /\ Ignorable \subseteq Changeable

VARIABLES
  setting,  \* the configuration
  ask,      \* the options of the command
  written,  \* the contracts in plan.json
  outcome   \* how the command has ended

planVars == <<setting, ask, written, outcome>>

-----------------------------------------------------------------------------
Modes == {"pr", "schedule", "manual", "canary", "mutation", "full"}

(* The contracts that run on pull requests and on schedules, those that an *)
(* enabled mutation operator is mapped to, and those that the rule for a   *)
(* changed file names; and the targets that are safe for pull requests,    *)
(* have a schedule, are expensive, and have a URL.                         *)
Settings ==
  [pullRequest : SUBSET Candidates, schedule : SUBSET Candidates,
   mutated : SUBSET Candidates, rule : [Changeable -> SUBSET Candidates],
   prSafe : SUBSET Places, timed : SUBSET Places, expensive : SUBSET Places,
   resolved : SUBSET Places]

Asks ==
  [mode : Modes, changed : SUBSET Changeable, unsafe : BOOLEAN,
   with : SUBSET (Candidates \cup Places), without : SUBSET (Candidates \cup Places)]

Defaults ==
  [mode |-> "pr", changed |-> {}, unsafe |-> FALSE, with |-> {}, without |-> {}]

(* getIgnoredChangedFiles takes the ignored files out of the changed ones. *)
Effective(a) == a.changed \ Ignorable

(* Nothing but ignored files: a plan of nothing is then intended.          *)
OnlyIgnored(a) == a.mode = "pr" /\ a.changed # {} /\ Effective(a) = {}

Names(some, c) == c \in some \/ PlaceOf[c] \in some

(* The contracts that a mode selects of itself.                            *)
OfMode(s, a, c) ==
  \/ a.mode = "pr" /\ c \in s.pullRequest
  \/ a.mode = "schedule" /\ c \in s.schedule
  \/ a.mode = "canary" /\ c \in s.schedule /\ PlaceOf[c] \in s.timed
  \/ a.mode = "mutation" /\ c \in s.mutated
  \/ a.mode \in {"manual", "full"}

(* Mutant of OfRule: the files are not the effective ones.                 *)
OfAnyRule(s, a, c) ==
  /\ a.mode \in {"pr", "schedule", "manual"}
  /\ \E f \in a.changed : c \in s.rule[f]

(* A rule for a changed file selects; in the other modes it only explains. *)
OfRule(s, a, c) ==
  /\ a.mode \in {"pr", "schedule", "manual"}
  /\ \E f \in Effective(a) : c \in s.rule[f]

(* What keeps a target out: targetExclusionReasons, and a missing URL.     *)
Unfit(s, a, t) ==
  \/ a.mode \in {"pr", "canary", "mutation", "full"} /\ ~a.unsafe /\ t \notin s.prSafe
  \/ a.mode = "canary" /\ t \in s.expensive
  \/ t \notin s.resolved

Selected(s, a) ==
  {c \in Candidates :
     /\ ~Names(a.without, c)
     /\ ~(OnlyIgnored(a) /\ c \in s.pullRequest /\ ~Names(a.with, c))
     /\ OfMode(s, a, c) \/ OfRule(s, a, c) \/ Names(a.with, c)
     /\ ~Unfit(s, a, PlaceOf[c])}

-----------------------------------------------------------------------------
PlanTypeOK ==
  /\ setting \in Settings
  /\ ask \in Asks
  /\ written \in SUBSET Candidates
  /\ outcome \in {"none", "written", "failed"}

PlanInit ==
  /\ setting \in Settings
  /\ ask = Defaults
  /\ written = {}
  /\ outcome = "none"

(* runPlanCommand writes the plan, or fails when it selects nothing and    *)
(* that is not what ignored files are meant to do.                         *)
PlansContracts ==
  /\ outcome = "none"
  /\ ask' \in Asks
  /\ IF Selected(setting, ask') = {} /\ ~OnlyIgnored(ask')
       THEN outcome' = "failed" /\ UNCHANGED written
       ELSE outcome' = "written" /\ written' = Selected(setting, ask')
  /\ UNCHANGED setting

PlanNext == PlansContracts

PlanSpec == PlanInit /\ [][PlanNext]_planVars

-----------------------------------------------------------------------------
(* What plans of the same configuration have to do with each other.  What  *)
(* a pull request, a canary or a mutation run tests, a full run tests too. *)
(* Ignored files make no difference next to others.  And an empty plan,    *)
(* which `run` reports as passed without a browser, is the ignored files'  *)
(* doing: without them the command would select contracts that run on pull *)
(* requests at most, and none that it asks for by name.                    *)
PlansRelate ==
  outcome = "written" =>
    /\ ask.mode \in {"pr", "canary", "mutation"} =>
         written \subseteq Selected(setting, [ask EXCEPT !.mode = "full"])
    /\ Effective(ask) # {} =>
         written = Selected(setting, [ask EXCEPT !.changed = Effective(ask)])
    /\ written = {} =>
         \A c \in Selected(setting, [ask EXCEPT !.changed = {}]) :
           ~Names(ask.with, c) /\ c \in setting.pullRequest
=============================================================================
