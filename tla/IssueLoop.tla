------------------------------ MODULE IssueLoop ------------------------------
(***************************************************************************)
(* The issue loop of Visual Hive, from evidence on disk to GitHub issues:  *)
(* packages/core/src/issues/build.ts derives .visual-hive/issues.json from *)
(* the artifacts and from its own previous content, and                    *)
(* packages/core/src/issues/publish.ts publishes it in live mode.          *)
(*                                                                         *)
(* A finding is named by its dedupe fingerprint.  The deriver is one       *)
(* process; each publisher is an invocation slot of the publish command,   *)
(* and its GitHub calls interleave with everything else.                   *)
(***************************************************************************)
EXTENDS FiniteSetsExt, Sequences

CONSTANTS
  Findings,    \* the dedupe fingerprints
  Gaps,        \* those of kind test_adequacy_gap, read from the test-creation plan
  Publishers,  \* invocation slots of "issues publish --live"
  Unreadable,  \* issues.json missing, empty or cut short
  Serial,      \* TRUE when the commands on a workspace run one after another
  ListLimit,   \* open issues the discovery of the publisher can see
  MaxIssues,   \* bound: GitHub issues created
  MaxChanges,  \* bound: events outside the program (product, humans, Hive, runners)
  MaxFaults    \* bound: failed calls, partial runs and crashes

ASSUME FindingsAssumption == IsFiniteSet(Findings) /\ Gaps \subseteq Findings
ASSUME BoundsAssumption ==
  {ListLimit, MaxIssues, MaxChanges, MaxFaults} \subseteq Nat /\ Serial \in BOOLEAN

VARIABLES
  defect,     \* the findings the product really has
  covered,    \* findings the evidence on disk can speak for
  found,      \* findings the evidence on disk names
  suppressed, \* findings with an entry in issue-suppressions.json
  hive,       \* .hive/integrated.json is present
  report,     \* issues.json
  draft,      \* the report being written, or Unreadable when none is
  issues,     \* GitHub: the issues, by number
  pc,         \* the step each publisher is about to take
  known,      \* the open issue each publisher has for a finding, 0 for none
  plan,       \* the statuses each publisher planned from
  left,       \* decisions of the plan not yet carried out
  clean,      \* history: no fault or human touched this publication
  changes,    \* outside events so far
  faults      \* faults so far

publisherVars == <<pc, known, plan, left>>
worldVars     == <<defect, covered, found, suppressed, hive>>
bounds        == <<changes, faults>>
vars == <<worldVars, report, draft, issues, publisherVars, clean, bounds>>

-----------------------------------------------------------------------------
Status == {"absent", "open_candidate", "update_candidate",
           "resolved_candidate", "blocked", "suppressed"}
Issue  == [finding : Findings, open : BOOLEAN, label : {"active", "resolved"}]
Report == [status : [Findings -> Status], managed : BOOLEAN]

ASSUME UnreadableAssumption == Unreadable \notin Report

NoStatus == [f \in Findings |-> "absent"]
NoIssues == [f \in Findings |-> 0]

Init ==
  /\ defect \in SUBSET Findings
  /\ covered = {}
  /\ found = {}
  /\ suppressed = {}
  /\ hive \in BOOLEAN
  /\ report = Unreadable
  /\ draft = Unreadable
  /\ issues = <<>>
  /\ pc = [p \in Publishers |-> "idle"]
  /\ known = [p \in Publishers |-> NoIssues]
  /\ plan = [p \in Publishers |-> NoStatus]
  /\ left = [p \in Publishers |-> {}]
  /\ clean = [p \in Publishers |-> FALSE]
  /\ changes = 0
  /\ faults = 0

AllIdle == \A p \in Publishers : pc[p] = "idle"

OutsideEvent == changes < MaxChanges /\ changes' = changes + 1 /\ UNCHANGED faults
Fault        == faults < MaxFaults /\ faults' = faults + 1 /\ UNCHANGED changes

-----------------------------------------------------------------------------
(* The world outside the program.                                          *)

ProductChanges(f) ==
  /\ OutsideEvent
  /\ defect' = IF f \in defect THEN defect \ {f} ELSE defect \cup {f}
  /\ UNCHANGED <<covered, found, suppressed, hive, report, draft, issues,
                 publisherVars, clean>>

EditSuppression(f) ==
  /\ OutsideEvent
  /\ suppressed' = IF f \in suppressed THEN suppressed \ {f} ELSE suppressed \cup {f}
  /\ UNCHANGED <<defect, covered, found, hive, report, draft, issues,
                 publisherVars, clean>>

InstallHive ==
  /\ OutsideEvent
  /\ ~hive
  /\ hive' = TRUE
  /\ UNCHANGED <<defect, covered, found, suppressed, report, draft, issues,
                 publisherVars, clean>>

HumanCloses(i) ==
  /\ OutsideEvent
  /\ issues[i].open
  /\ issues' = [issues EXCEPT ![i].open = FALSE]
  /\ clean' = [p \in Publishers |-> FALSE]
  /\ UNCHANGED <<worldVars, report, draft, publisherVars>>

(* The next job gets a runner of its own: a checkout brings the            *)
(* suppressions and the marker back, but nothing under .visual-hive.       *)
FreshWorkspace ==
  /\ OutsideEvent
  /\ report # Unreadable \/ covered # {}
  /\ draft = Unreadable
  /\ AllIdle
  /\ report' = Unreadable
  /\ covered' = {}
  /\ found' = {}
  /\ UNCHANGED <<defect, suppressed, hive, draft, issues, publisherVars, clean>>

(* A detection run leaves evidence that names the defects it looked for.   *)
(* A plan that is not eligible covers no gap; the recommendations of it    *)
(* that are grounded all the same are still named.                         *)
Inspect(scope, grounded) ==
  /\ covered' = scope
  /\ found' = defect \cap (scope \cup grounded)
  /\ UNCHANGED <<defect, suppressed, hive, report, draft, issues,
                 publisherVars, clean>>

InspectAll == Inspect(Findings, {}) /\ UNCHANGED bounds

(* Only some contracts selected, or report.json missing or torn.           *)
InspectSome ==
  /\ Fault
  /\ \E scope \in SUBSET Findings, grounded \in SUBSET Gaps :
       /\ scope \cap Gaps \in {{}, Gaps}
       /\ Inspect(scope, grounded)

-----------------------------------------------------------------------------
(* buildIssuesReport.                                                      *)

CanResolveTestAdequacy == Gaps \subseteq covered

(* What the previous report says of a finding; none that cannot be read.   *)
Previous(f) == IF report = Unreadable THEN "absent" ELSE report.status[f]

WasLive(f) == Previous(f) \in {"open_candidate", "update_candidate", "blocked"}

(* The keyed map: current findings, then previous ones no longer current.  *)
Keyed(f) ==
  CASE f \in found /\ ~WasLive(f) -> "open_candidate"
    [] f \in found /\ WasLive(f)  -> "update_candidate"
    [] f \notin found /\ ~WasLive(f) -> "absent"
    [] f \notin found /\ WasLive(f) /\ (f \notin Gaps \/ CanResolveTestAdequacy)
         -> "resolved_candidate"
    [] f \notin found /\ WasLive(f) /\ f \in Gaps /\ ~CanResolveTestAdequacy
         -> "blocked"

ApplySuppression(f, status) ==
  IF f \in suppressed /\ status # "absent" THEN "suppressed" ELSE status

BuildIssuesReport ==
  /\ draft = Unreadable
  /\ Serial => AllIdle
  /\ draft' = [status  |-> [f \in Findings |-> ApplySuppression(f, Keyed(f))],
               managed |-> hive]
  /\ UNCHANGED <<worldVars, report, issues, publisherVars, clean, bounds>>

(* writeJson truncates the file and then writes it.                        *)
TruncateReport ==
  /\ draft # Unreadable
  /\ report # Unreadable
  /\ report' = Unreadable
  /\ UNCHANGED <<worldVars, draft, issues, publisherVars, clean, bounds>>

WriteReport ==
  /\ draft # Unreadable
  /\ report = Unreadable
  /\ report' = draft
  /\ draft' = Unreadable
  /\ UNCHANGED <<worldVars, issues, publisherVars, clean, bounds>>

DeriverDies ==
  /\ Fault
  /\ draft # Unreadable
  /\ draft' = Unreadable
  /\ UNCHANGED <<worldVars, report, issues, publisherVars, clean>>

-----------------------------------------------------------------------------
(* writeIssuePublishArtifacts in live mode.                                *)

Goto(p, step) == pc' = [pc EXCEPT ![p] = step]

(* The marker and the report are read; either can say that Hive owns the   *)
(* lifecycle, and a report that cannot be read ends the command.           *)
StartPublish(p) ==
  /\ pc[p] = "idle"
  /\ Serial => draft = Unreadable
  /\ ~hive
  /\ report # Unreadable
  /\ ~report.managed
  /\ Goto(p, "list")
  /\ UNCHANGED <<worldVars, report, draft, issues, known, plan, left, clean, bounds>>

(* listOpenIssues, newest first and at most ListLimit of them.  The last   *)
(* one listed for a fingerprint is kept, which is the oldest.              *)
Open == {i \in DOMAIN issues : issues[i].open}
Listed == {i \in Open : Cardinality({j \in Open : j > i}) < ListLimit}
ListedFor(f) == {i \in Listed : issues[i].finding = f}
Existing(f) == IF ListedFor(f) = {} THEN 0 ELSE Min(ListedFor(f))

ListOpenIssues(p) ==
  /\ pc[p] = "list"
  /\ known' = [known EXCEPT ![p] = [f \in Findings |-> Existing(f)]]
  /\ clean' = [clean EXCEPT ![p] = TRUE]
  /\ Goto(p, "plan")
  /\ UNCHANGED <<worldVars, report, draft, issues, plan, left, bounds>>

(* The invocation ends: the next one starts afresh.                        *)
Forget(p) ==
  /\ Goto(p, "idle")
  /\ known' = [known EXCEPT ![p] = NoIssues]
  /\ plan' = [plan EXCEPT ![p] = NoStatus]
  /\ left' = [left EXCEPT ![p] = {}]
  /\ clean' = [clean EXCEPT ![p] = FALSE]
  /\ UNCHANGED <<worldVars, report, draft, issues>>

(* A failed discovery blocks the whole plan.                               *)
ListingFails(p) == pc[p] = "list" /\ Fault /\ Forget(p)

(* Mutant of Creates: the status is trusted instead of the listing.        *)
CreatesByStatus(status, number) ==
  status = "open_candidate" \/ (status = "update_candidate" /\ number = 0)

(* Mutant of Creates: an update candidate is taken to exist on GitHub.     *)
CreatesOnlyNew(status, number) == status = "open_candidate" /\ number = 0

(* Mutant of Updates: resolved candidates are skipped.                     *)
UpdatesOnlyActive(status, number) ==
  status \in {"open_candidate", "update_candidate"} /\ number # 0

(* decisionForIssue: what a status calls for, given the number of the      *)
(* existing issue.  Every other finding is skipped or blocked.             *)
Creates(status, number) ==
  status \in {"open_candidate", "update_candidate"} /\ number = 0
Updates(status, number) ==
  /\ status \in {"open_candidate", "update_candidate", "resolved_candidate"}
  /\ number # 0

(* buildIssuePublishPlan reads the report again; its new lifecycle is      *)
(* recorded in the plan but no longer blocks it.                           *)
BuildIssuePublishPlan(p) ==
  /\ pc[p] = "plan"
  /\ report # Unreadable
  /\ plan' = [plan EXCEPT ![p] = report.status]
  /\ left' = [left EXCEPT ![p] =
                {f \in Findings : \/ Creates(report.status[f], known[p][f])
                                  \/ Updates(report.status[f], known[p][f])}]
  /\ Goto(p, "publish")
  /\ UNCHANGED <<worldVars, report, draft, issues, known, clean, bounds>>

PlanUnreadable(p) ==
  /\ pc[p] = "plan"
  /\ report = Unreadable
  /\ Forget(p)
  /\ UNCHANGED bounds

(* The loop of buildLiveResult tries every decision, one call at a time.   *)
(* A call whose response is lost has done its work all the same: for       *)
(* GitHub it is a call that succeeded.                                     *)
Attempt(p, f) ==
  /\ pc[p] = "publish"
  /\ f \in left[p]
  /\ left' = [left EXCEPT ![p] = @ \ {f}]
  /\ UNCHANGED <<worldVars, report, draft, pc, known, plan>>

(* Mutant of LabelFor: the status itself becomes the label.                *)
LabelIsStatus(status) == status

LabelFor(status) == IF status = "resolved_candidate" THEN "resolved" ELSE "active"

CreateIssue(p, f) ==
  /\ Attempt(p, f)
  /\ Creates(plan[p][f], known[p][f])
  /\ Len(issues) < MaxIssues
  /\ issues' = Append(issues, [finding |-> f, open |-> TRUE, label |-> "active"])
  /\ UNCHANGED <<clean, bounds>>

UpdateIssue(p, f) ==
  /\ Attempt(p, f)
  /\ Updates(plan[p][f], known[p][f])
  /\ issues' = [issues EXCEPT ![known[p][f]].label = LabelFor(plan[p][f])]
  /\ UNCHANGED <<clean, bounds>>

CallFails(p, f) ==
  /\ Fault
  /\ Attempt(p, f)
  /\ clean' = [clean EXCEPT ![p] = FALSE]
  /\ UNCHANGED issues

Finish(p) ==
  /\ pc[p] = "publish"
  /\ left[p] = {}
  /\ Forget(p)
  /\ UNCHANGED bounds

PublisherDies(p) == pc[p] # "idle" /\ Fault /\ Forget(p)

-----------------------------------------------------------------------------
World ==
  \/ \E f \in Findings : ProductChanges(f) \/ EditSuppression(f)
  \/ InstallHive
  \/ FreshWorkspace
  \/ \E i \in DOMAIN issues : HumanCloses(i)
  \/ InspectAll
  \/ InspectSome

Deriver == BuildIssuesReport \/ TruncateReport \/ WriteReport \/ DeriverDies

Publisher(p) ==
  \/ StartPublish(p) \/ ListOpenIssues(p) \/ ListingFails(p)
  \/ BuildIssuePublishPlan(p) \/ PlanUnreadable(p)
  \/ \E f \in Findings : CreateIssue(p, f) \/ UpdateIssue(p, f) \/ CallFails(p, f)
  \/ Finish(p) \/ PublisherDies(p)

Next == World \/ Deriver \/ \E p \in Publishers : Publisher(p)

Spec == Init /\ [][Next]_vars

(* A command that was started goes on to its end.  Nothing in the program  *)
(* starts one: not the detection, the derivation or the publication.       *)
Fairness ==
  /\ WF_vars(TruncateReport \/ WriteReport)
  /\ \A p \in Publishers :
       /\ WF_vars(ListOpenIssues(p) \/ BuildIssuePublishPlan(p) \/ Finish(p))
       /\ WF_vars(\E f \in Findings : CreateIssue(p, f) \/ UpdateIssue(p, f))

FairSpec == Spec /\ Fairness

-----------------------------------------------------------------------------
TypeOK ==
  /\ defect \subseteq Findings
  /\ covered \subseteq Findings
  /\ found \subseteq Findings
  /\ suppressed \subseteq Findings
  /\ hive \in BOOLEAN
  /\ report \in Report \cup {Unreadable}
  /\ draft \in Report \cup {Unreadable}
  /\ issues \in Seq(Issue)
  /\ pc \in [Publishers -> {"idle", "list", "plan", "publish"}]
  /\ known \in [Publishers -> [Findings -> 0..Len(issues)]]
  /\ plan \in [Publishers -> [Findings -> Status]]
  /\ left \in [Publishers -> SUBSET Findings]
  /\ clean \in [Publishers -> BOOLEAN]
  /\ changes \in Nat
  /\ faults \in Nat

(* A single publisher never leaves two open GitHub issues for one finding, *)
(* whatever fails, is lost or crashes between its listing and its calls.   *)
OneOpenIssue ==
  \A i, j \in Open : issues[i].finding = issues[j].finding => i = j

(* A publication that no fault and no human touched leaves GitHub saying   *)
(* what its plan says: an open issue labelled active for every active      *)
(* finding, and no open issue labelled active for a resolved one.          *)
Labelled(f, label) ==
  {i \in Open : issues[i].finding = f /\ issues[i].label = label}

Mirrors(status, f) ==
  /\ status \in {"open_candidate", "update_candidate"} => Labelled(f, "active") # {}
  /\ status = "resolved_candidate" => Labelled(f, "active") = {}

CleanPublicationMirrors ==
  \A p \in Publishers :
    pc[p] = "publish" /\ left[p] = {} /\ clean[p]
      => \A f \in Findings : Mirrors(plan[p][f], f)

(* docs/issue-centric-architecture.md says of resolved candidates that     *)
(* they are "findings that disappeared after rerun": a derived report      *)
(* calls a finding resolved only when the evidence it was derived from     *)
(* can speak for that finding.                                             *)
ResolvesOnlyCovered ==
  draft = Unreadable /\ draft' # Unreadable
    => \A f \in Findings : draft'.status[f] = "resolved_candidate" => f \in covered

ResolvedOnlyAfterRerun == [][ResolvesOnlyCovered]_vars

(* Whoever operates the loop keeps it going on this workspace: full        *)
(* detections, derivations and publications that get through all of their  *)
(* decisions recur.  The generated workflows do not see to it.             *)
Completed(p) == pc[p] = "publish" /\ left[p] = {}

Repeated ==
  /\ []<>(covered = Findings /\ found = defect)
  /\ []<>(draft # Unreadable)
  /\ []<>(\E p \in Publishers : Completed(p))

(* A loop that is kept going ends up with an open issue labelled active,   *)
(* and keeps it, for a finding that stays in the product, unsuppressed and *)
(* not under Hive, whatever failed or was lost before.                     *)
ActiveIsPublished ==
  \A f \in Findings :
    Repeated /\ <>[](f \in defect /\ f \notin suppressed /\ ~hive)
      => <>[](Labelled(f, "active") # {})

(* docs/issue-publishing-policy.md: "resolved_candidate: update the        *)
(* existing issue with resolved-candidate evidence and labels".  A loop    *)
(* that is kept going ends up without an open issue labelled active for a  *)
(* finding that stays out of the product.                                  *)
ResolutionReachesIssue ==
  \A f \in Findings :
    Repeated /\ <>[](f \notin defect /\ f \notin suppressed /\ ~hive)
      => <>[](Labelled(f, "active") = {})

(* docs/issue-publishing-policy.md: "Reappearing findings reuse the same   *)
(* fingerprint and update the existing issue rather than creating          *)
(* duplicates".                                                            *)
ReappearingReusesIssue ==
  \A i, j \in DOMAIN issues : issues[i].finding = issues[j].finding => i = j
=============================================================================
