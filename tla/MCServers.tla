----------------------------- MODULE MCServers -----------------------------
(* The control plane, the webhook server, the stored repair session and    *)
(* the planner, one at a time: the first state chooses which of them a     *)
(* behaviour is about, while the others stay as they began.                *)
EXTENDS ControlPlane, GitHubApp, RepairStore, ContractPlan, TLC

CONSTANTS contract, target

MCPlaceOf == contract :> target

VARIABLE running

(* Only one component moves, so the pairs of all may change places at once. *)
Alike == Requests \cup Deliveries \cup Ingests

ServersSymmetry ==
  {p \in Permutations(Alike) :
     /\ \A S \in {Requests, Deliveries, Ingests} : \A x \in S : p[x] \in S
     /\ (\A x \in Alike : p[x] = x) \/ (\A x \in Alike : p[x] # x)}

NoSetting ==
  [field \in {"pullRequest", "schedule", "mutated", "prSafe", "timed", "expensive",
              "resolved"} |-> {}] @@ ("rule" :> [f \in Changeable |-> {}])

(* A component that stays as it began stays in one state.  What the first  *)
(* validator compares makes no difference, only whether the other compares *)
(* the same.                                                               *)
ServersInit ==
  /\ running \in {"ControlPlane", "GitHubApp", "RepairStore", "ContractPlan"}
  /\ ControlInit
  /\ AppInit
  /\ StoreInit
  /\ running # "ControlPlane" => ~readOnly /\ before = [f \in Files |-> NoFile]
  /\ running # "GitHubApp" =>
       ~enabled /\ marker = {} /\ issues = [r \in Repos |-> <<>>]
  /\ LET first == CHOOSE i \in Inputs : TRUE IN
       /\ input[CHOOSE v \in Validators : TRUE] = first
       /\ running # "RepairStore" => input = [v \in Validators |-> first]
  /\ setting \in IF running = "ContractPlan" THEN Settings ELSE {NoSetting}
  /\ PlanInit

ServersNext ==
  /\ \/ running = "ControlPlane" /\ ControlNext /\ UNCHANGED <<appVars, storeVars, planVars>>
     \/ running = "GitHubApp" /\ AppNext /\ UNCHANGED <<controlVars, storeVars, planVars>>
     \/ running = "RepairStore" /\ StoreNext /\ UNCHANGED <<controlVars, appVars, planVars>>
     \/ running = "ContractPlan" /\ PlanNext /\ UNCHANGED <<controlVars, appVars, storeVars>>
  /\ UNCHANGED running

ServersSpec ==
  ServersInit /\ [][ServersNext]_<<running, controlVars, appVars, storeVars, planVars>>

(* Every variable of the four components has its type.                     *)
ServersTyped == ControlTypeOK /\ AppTypeOK /\ StoreTypeOK /\ PlanTypeOK
=============================================================================
