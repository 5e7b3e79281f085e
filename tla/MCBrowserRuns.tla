--------------------------- MODULE MCBrowserRuns ---------------------------
(* The evidence of browser runs and the servers they test against, one at  *)
(* a time: the first state chooses which of the two a behaviour is about,  *)
(* while the other stays as it began.                                      *)
EXTENDS BoundRun, TargetLifecycle, TLC

CONSTANTS run, mutate, t1, t2, s1, s2

VARIABLE running

MCPlan == <<t1, t2>>
MCUses == (t1 :> <<s1, s2>>) @@ (t2 :> <<>>)

BrowserSymmetry == Permutations(Runs) \cup Permutations(Contracts)

(* A component that stays as it began stays in one state.  A missing       *)
(* baseline fails in CI, as it does unless configured otherwise; where     *)
(* baselines are updated that makes no difference.                         *)
BrowserInit ==
  /\ running \in {"BoundRun", "TargetLifecycle"}
  /\ BoundInit
  /\ TargetInit
  /\ visual.failMissing
  /\ running # "BoundRun" => ~visual.update

BrowserNext ==
  /\ \/ running = "BoundRun" /\ BoundNext /\ UNCHANGED targetVars
     \/ running = "TargetLifecycle" /\ TargetNext /\ UNCHANGED boundVars
  /\ UNCHANGED running

BrowserSpec == BrowserInit /\ [][BrowserNext]_<<running, boundVars, targetVars>>

(* Every variable of both components has its type.                         *)
BrowserTyped == BoundTypeOK /\ TargetTypeOK
=============================================================================
