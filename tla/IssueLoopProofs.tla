--------------------------- MODULE IssueLoopProofs ---------------------------
(***************************************************************************)
(* Proofs of the safety properties of IssueLoop, for every set of findings *)
(* and all bounds.  The two about GitHub hold for a single publisher that  *)
(* lists every open issue.                                                 *)
(***************************************************************************)
EXTENDS IssueLoop, FiniteSetTheorems, SequenceTheorems,
        WellFoundedInduction, TLAPS

SinglePublisher == \A p, q \in Publishers : p = q
ListsEveryIssue == MaxIssues <= ListLimit

-----------------------------------------------------------------------------
(* The inductive invariant.                                                *)

WithinBound == Len(issues) <= MaxIssues

NoOpenIssue(f) == \A i \in Open : issues[i].finding # f

(* When the publisher has yet to create an issue there is no open one.     *)
UnknownMeansNone ==
  \A p \in Publishers, f \in Findings :
    /\ known[p][f] = 0
    /\ pc[p] = "plan" \/ (pc[p] = "publish" /\ f \in left[p])
    => NoOpenIssue(f)

(* As long as nobody closed an issue, the ones the publisher knows are     *)
(* open and about the finding it knows them for.                           *)
KnownIsOpen ==
  \A p \in Publishers, f \in Findings :
    /\ pc[p] \in {"plan", "publish"}
    /\ clean[p]
    /\ known[p][f] # 0
    => known[p][f] \in Open /\ issues[known[p][f]].finding = f

(* What is no longer left to do, GitHub says already.                      *)
DoneMirrors ==
  \A p \in Publishers, f \in Findings :
    pc[p] = "publish" /\ clean[p] /\ f \notin left[p] => Mirrors(plan[p][f], f)

Inv ==
  /\ TypeOK
  /\ WithinBound
  /\ OneOpenIssue
  /\ UnknownMeansNone
  /\ KnownIsOpen
  /\ DoneMirrors

-----------------------------------------------------------------------------
(* Facts about the listing.                                                *)

(* A non-empty set of issue numbers has a least one.                       *)
LEMMA MinIsElement == ASSUME NEW S, S \subseteq Nat, S # {} PROVE Min(S) \in S
<1>1. PICK x \in S : \A y \in S : ~(<<y, x>> \in OpToRel(<, Nat))
  BY NatLessThanWellFounded, WFMin
<1>2. ASSUME NEW y \in S, y < x PROVE FALSE
  <2>1. <<y, x>> \in Nat \X Nat /\ <<y, x>>[1] < <<y, x>>[2]
    BY <1>2
  <2>2. <<y, x>> \in OpToRel(<, Nat)
    BY <2>1, Zenon DEF OpToRel
  <2> QED
    BY <1>1, <2>2
<1>3. \A y \in S : x =< y
  BY <1>2
<1> QED
  BY <1>3 DEF Min

(* An existing issue is an open one about the finding.                     *)
LEMMA ExistingIsOpen ==
  ASSUME TypeOK, NEW f \in Findings
  PROVE  /\ Existing(f) \in 0..Len(issues)
         /\ Existing(f) # 0 => Existing(f) \in Open /\ issues[Existing(f)].finding = f
<1>1. CASE ListedFor(f) = {}
  BY <1>1 DEF Existing, TypeOK
<1>2. CASE ListedFor(f) # {}
  <2>1. ListedFor(f) \subseteq {i \in 1..Len(issues) :
                                  issues[i].open /\ issues[i].finding = f}
    BY DEF ListedFor, Listed, Open, TypeOK
  <2>2. Existing(f) \in ListedFor(f)
    BY <1>2, <2>1, MinIsElement DEF Existing
  <2> QED
    BY <2>1, <2>2 DEF Open, TypeOK
<1> QED
  BY <1>1, <1>2

(* Within the limit, the listing leaves no open issue out.                 *)
LEMMA ListedIsOpen == ASSUME TypeOK, WithinBound, ListsEveryIssue PROVE Listed = Open
<1> SUFFICES ASSUME NEW i \in Open
             PROVE  Cardinality({j \in Open : j > i}) < ListLimit
  BY DEF Listed
<1>1. Len(issues) \in Nat /\ MaxIssues \in Nat /\ ListLimit \in Nat
  BY BoundsAssumption DEF TypeOK
<1>2. i \in 1..Len(issues) /\ Open \subseteq 1..Len(issues)
  BY DEF Open, TypeOK
<1> DEFINE last == Len(issues)
<1> HIDE DEF last
<1>3. {j \in Open : j > i} \subseteq (i + 1)..last
  <2> SUFFICES ASSUME NEW j \in 1..last, j > i PROVE j \in (i + 1)..last
    BY <1>2 DEF last
  <2> QED
    BY <1>1, <1>2 DEF last
<1>4. /\ IsFiniteSet((i + 1)..last)
      /\ Cardinality((i + 1)..last) =
           IF i + 1 > last THEN 0 ELSE last - (i + 1) + 1
  <2>1. i + 1 \in Int /\ last \in Int
    BY <1>1, <1>2 DEF last
  <2> QED
    BY <2>1, FS_Interval
<1>5. /\ IsFiniteSet({j \in Open : j > i})
      /\ Cardinality({j \in Open : j > i}) <= Cardinality((i + 1)..last)
  BY <1>3, <1>4, FS_Subset
<1>6. Cardinality({j \in Open : j > i}) \in Nat
  BY <1>5, FS_CardinalityType
<1> QED
  BY <1>1, <1>2, <1>4, <1>5, <1>6 DEF WithinBound, ListsEveryIssue, last

(* So a finding without an existing issue has no open one.                 *)
LEMMA NothingListed ==
  ASSUME TypeOK, WithinBound, ListsEveryIssue, NEW f \in Findings, Existing(f) = 0
  PROVE  NoOpenIssue(f)
<1>1. ListedFor(f) \subseteq 1..Len(issues)
  BY DEF ListedFor, Listed, Open, TypeOK
<1>2. ListedFor(f) = {}
  <2> SUFFICES ASSUME ListedFor(f) # {} PROVE FALSE
    OBVIOUS
  <2>1. Min(ListedFor(f)) \in ListedFor(f)
    BY <1>1, MinIsElement
  <2> QED
    BY <1>1, <2>1 DEF Existing
<1> QED
  BY <1>2, ListedIsOpen DEF ListedFor, NoOpenIssue

-----------------------------------------------------------------------------
(* The steps.                                                              *)

(* The world, but for a closed issue, and the deriver leave the publishers *)
(* and GitHub alone.                                                       *)
Elsewhere ==
  \/ \E f \in Findings : ProductChanges(f) \/ EditSuppression(f)
  \/ InstallHive \/ FreshWorkspace \/ InspectAll \/ InspectSome
  \/ Deriver

LEMMA ElsewhereLeavesIssues ==
  Elsewhere \/ UNCHANGED vars => UNCHANGED <<issues, publisherVars, clean>>
<1> USE DEF Elsewhere, vars, publisherVars
<1>1. ASSUME NEW f \in Findings, ProductChanges(f) \/ EditSuppression(f)
      PROVE  UNCHANGED <<issues, publisherVars, clean>>
  BY <1>1 DEF ProductChanges, EditSuppression
<1>2. CASE InstallHive \/ FreshWorkspace \/ InspectAll \/ InspectSome
  BY <1>2 DEF InstallHive, FreshWorkspace, InspectAll, InspectSome, Inspect
<1>3. CASE Deriver
  BY <1>3 DEF Deriver, BuildIssuesReport, TruncateReport, WriteReport, DeriverDies
<1> QED
  BY <1>1, <1>2, <1>3

(* Editing one issue keeps the type and the number of issues.              *)
LEMMA EditIssue ==
  ASSUME TypeOK, NEW i \in 1..Len(issues), NEW e \in Issue
  PROVE  /\ [issues EXCEPT ![i] = e] \in Seq(Issue)
         /\ Len([issues EXCEPT ![i] = e]) = Len(issues)
  BY ExceptSeq DEF TypeOK

(* Every step keeps the types.                                             *)
LEMMA TypeStep == TypeOK /\ [Next]_vars => TypeOK'
<1> SUFFICES ASSUME TypeOK, [Next]_vars PROVE TypeOK'
  OBVIOUS
<1> USE FindingsAssumption, BoundsAssumption
    DEF TypeOK, worldVars, publisherVars, bounds, OutsideEvent, Fault, Goto
<1>1. ASSUME NEW f \in Findings, ProductChanges(f) \/ EditSuppression(f)
      PROVE  TypeOK'
  BY <1>1 DEF ProductChanges, EditSuppression
<1>2. CASE InstallHive \/ FreshWorkspace
  <2>1. CASE InstallHive
    BY <2>1 DEF InstallHive
  <2>2. CASE FreshWorkspace
    BY <2>2 DEF FreshWorkspace
  <2> QED
    BY <1>2, <2>1, <2>2
<1>3. CASE InspectAll \/ InspectSome
  BY <1>3 DEF InspectAll, InspectSome, Inspect
<1>4. ASSUME NEW i \in DOMAIN issues, HumanCloses(i) PROVE TypeOK'
  <2>1. i \in 1..Len(issues) /\ [issues[i] EXCEPT !.open = FALSE] \in Issue
    <3>1. i \in 1..Len(issues) /\ issues[i] \in Issue
      OBVIOUS
    <3> QED
      BY <3>1 DEF Issue
  <2>2. issues' = [issues EXCEPT ![i] = [issues[i] EXCEPT !.open = FALSE]]
    BY <1>4 DEF HumanCloses
  <2>3. issues' \in Seq(Issue) /\ Len(issues') = Len(issues)
    BY <2>1, <2>2, EditIssue
  <2> QED
    BY <1>4, <2>3 DEF HumanCloses
<1>5. CASE BuildIssuesReport
  <2>1. \A f \in Findings : ApplySuppression(f, Keyed(f)) \in Status
    BY DEF ApplySuppression, Keyed, Status
  <2>2. draft' \in Report
    BY <1>5, <2>1 DEF BuildIssuesReport, Report
  <2> QED
    BY <1>5, <2>2 DEF BuildIssuesReport
<1>6. CASE TruncateReport \/ WriteReport \/ DeriverDies
  BY <1>6 DEF TruncateReport, WriteReport, DeriverDies
<1>7. ASSUME NEW p \in Publishers, StartPublish(p) PROVE TypeOK'
  BY <1>7 DEF StartPublish
<1>8. ASSUME NEW p \in Publishers, ListOpenIssues(p) PROVE TypeOK'
  <2>1. [f \in Findings |-> Existing(f)] \in [Findings -> 0..Len(issues)]
    BY ExistingIsOpen
  <2> QED
    BY <1>8, <2>1 DEF ListOpenIssues
<1>9. ASSUME NEW p \in Publishers, BuildIssuePublishPlan(p) PROVE TypeOK'
  BY <1>9 DEF BuildIssuePublishPlan, Report
<1>10. ASSUME NEW p \in Publishers, NEW f \in Findings, CreateIssue(p, f)
       PROVE  TypeOK'
  <2>1. issues' \in Seq(Issue) /\ Len(issues') = Len(issues) + 1
    BY <1>10 DEF CreateIssue, Issue
  <2>2. known' \in [Publishers -> [Findings -> 0..Len(issues')]]
    BY <1>10, <2>1 DEF CreateIssue, Attempt
  <2> QED
    BY <1>10, <2>1, <2>2 DEF CreateIssue, Attempt
<1>11. ASSUME NEW p \in Publishers, NEW f \in Findings, UpdateIssue(p, f)
       PROVE  TypeOK'
  <2>1. known[p][f] \in 1..Len(issues)
    BY <1>11 DEF UpdateIssue, Updates
  <2> DEFINE i == known[p][f]
             e == [issues[i] EXCEPT !.label = LabelFor(plan[p][f])]
  <2>2. e \in Issue
    <3>1. issues[i] \in Issue
      BY <2>1
    <3> QED
      BY <3>1 DEF Issue, LabelFor
  <2>3. issues' = [issues EXCEPT ![i] = e]
    BY <1>11 DEF UpdateIssue
  <2>4. issues' \in Seq(Issue) /\ Len(issues') = Len(issues)
    BY <2>1, <2>2, <2>3, EditIssue
  <2> QED
    BY <1>11, <2>4 DEF UpdateIssue, Attempt
<1>12. ASSUME NEW p \in Publishers, NEW f \in Findings, CallFails(p, f)
       PROVE  TypeOK'
  BY <1>12 DEF CallFails, Attempt
<1>13. ASSUME NEW p \in Publishers,
              ListingFails(p) \/ PlanUnreadable(p) \/ Finish(p) \/ PublisherDies(p)
       PROVE  TypeOK'
  <2>1. Forget(p)
    BY <1>13 DEF ListingFails, PlanUnreadable, Finish, PublisherDies
  <2>2. changes' \in Nat /\ faults' \in Nat
    BY <1>13 DEF ListingFails, PlanUnreadable, Finish, PublisherDies
  <2>3. NoIssues \in [Findings -> 0..Len(issues)] /\ NoStatus \in [Findings -> Status]
    BY DEF NoIssues, NoStatus, Status
  <2> QED
    BY <2>1, <2>2, <2>3 DEF Forget
<1>14. CASE UNCHANGED vars
  BY <1>14 DEF vars
<1> QED
  BY <1>1, <1>2, <1>3, <1>4, <1>5, <1>6, <1>7, <1>8, <1>9, <1>10, <1>11, <1>12,
     <1>13, <1>14 DEF Next, World, Deriver, Publisher

-----------------------------------------------------------------------------
(* What the three actions that change GitHub do to the open issues.        *)

(* A human closes one of them.                                             *)
LEMMA CloseEffect ==
  ASSUME TypeOK, NEW i \in DOMAIN issues, HumanCloses(i)
  PROVE  /\ Open' = Open \ {i}
         /\ Len(issues') = Len(issues)
         /\ \A j \in Open' : issues'[j] = issues[j]
  BY DEF HumanCloses, TypeOK, Open, Issue

(* A creation adds one, about the finding and labelled active.             *)
LEMMA CreateEffect ==
  ASSUME TypeOK, NEW p \in Publishers, NEW f \in Findings, CreateIssue(p, f)
  PROVE  /\ Len(issues') = Len(issues) + 1
         /\ Len(issues') \notin Open
         /\ Open' = Open \cup {Len(issues')}
         /\ \A j \in Open : issues'[j] = issues[j]
         /\ issues'[Len(issues')].finding = f
         /\ issues'[Len(issues')].label = "active"
  BY DEF CreateIssue, TypeOK, Open

(* An update sets the label of the known issue and changes nothing else.   *)
LEMMA UpdateEffect ==
  ASSUME TypeOK, NEW p \in Publishers, NEW f \in Findings, UpdateIssue(p, f)
  PROVE  /\ Len(issues') = Len(issues)
         /\ Open' = Open
         /\ \A j \in Open : issues'[j].finding = issues[j].finding
         /\ \A j \in Open : j # known[p][f] => issues'[j] = issues[j]
         /\ known[p][f] \in Open =>
              issues'[known[p][f]].label = LabelFor(plan[p][f])
  BY DEF UpdateIssue, Updates, TypeOK, Open, Issue

(* The other actions of a publisher leave GitHub alone.                    *)
Quiet(p) ==
  \/ StartPublish(p) \/ ListOpenIssues(p) \/ ListingFails(p)
  \/ BuildIssuePublishPlan(p) \/ PlanUnreadable(p)
  \/ \E f \in Findings : CallFails(p, f)
  \/ Finish(p) \/ PublisherDies(p)

LEMMA QuietLeavesIssues == ASSUME NEW p \in Publishers, Quiet(p) PROVE issues' = issues
  BY DEF Quiet, StartPublish, ListOpenIssues, ListingFails, BuildIssuePublishPlan,
         PlanUnreadable, CallFails, Finish, PublisherDies, Forget

(* Every step is one of these.                                             *)
LEMMA StepCases ==
  [Next]_vars =>
    \/ Elsewhere \/ UNCHANGED vars
    \/ \E i \in DOMAIN issues : HumanCloses(i)
    \/ \E p \in Publishers : Quiet(p)
    \/ \E p \in Publishers, f \in Findings : CreateIssue(p, f) \/ UpdateIssue(p, f)
  BY DEF Next, World, Elsewhere, Publisher, Quiet

-----------------------------------------------------------------------------
(* No step creates more issues than the bound.                             *)
LEMMA BoundStep == Inv /\ [Next]_vars => WithinBound'
<1> SUFFICES ASSUME Inv, [Next]_vars PROVE WithinBound'
  OBVIOUS
<1> USE DEF Inv, WithinBound
<1>1. CASE issues' = issues
  BY <1>1
<1>2. ASSUME NEW i \in DOMAIN issues, HumanCloses(i) PROVE WithinBound'
  BY <1>2, CloseEffect
<1>3. ASSUME NEW p \in Publishers, NEW f \in Findings, CreateIssue(p, f)
      PROVE  WithinBound'
  BY <1>3, CreateEffect, BoundsAssumption DEF CreateIssue, TypeOK
<1>4. ASSUME NEW p \in Publishers, NEW f \in Findings, UpdateIssue(p, f)
      PROVE  WithinBound'
  BY <1>4, UpdateEffect
<1> QED
  BY <1>1, <1>2, <1>3, <1>4, StepCases, ElsewhereLeavesIssues, QuietLeavesIssues

(* No step opens a second issue for a finding: the publisher that creates  *)
(* one has seen that there is none, and nobody else creates any.           *)
LEMMA OneOpenStep == Inv /\ [Next]_vars => OneOpenIssue'
<1> SUFFICES ASSUME Inv, [Next]_vars PROVE OneOpenIssue'
  OBVIOUS
<1> USE DEF Inv, OneOpenIssue
<1>1. CASE issues' = issues
  BY <1>1 DEF Open
<1>2. ASSUME NEW i \in DOMAIN issues, HumanCloses(i) PROVE OneOpenIssue'
  BY <1>2, CloseEffect
<1>3. ASSUME NEW p \in Publishers, NEW f \in Findings, CreateIssue(p, f)
      PROVE  OneOpenIssue'
  <2>1. NoOpenIssue(f)
    BY <1>3 DEF CreateIssue, Attempt, Creates, UnknownMeansNone
  <2> QED
    BY <1>3, <2>1, CreateEffect DEF NoOpenIssue
<1>4. ASSUME NEW p \in Publishers, NEW f \in Findings, UpdateIssue(p, f)
      PROVE  OneOpenIssue'
  BY <1>4, UpdateEffect
<1> QED
  BY <1>1, <1>2, <1>3, <1>4, StepCases, ElsewhereLeavesIssues, QuietLeavesIssues

(* No step makes the publisher's belief that a finding has no issue wrong. *)
LEMMA UnknownStep ==
  ASSUME SinglePublisher, ListsEveryIssue, Inv, [Next]_vars
  PROVE  UnknownMeansNone'
<1> SUFFICES ASSUME NEW r \in Publishers, NEW g \in Findings,
                    known'[r][g] = 0,
                    pc'[r] = "plan" \/ (pc'[r] = "publish" /\ g \in left'[r])
             PROVE  NoOpenIssue(g)'
  BY DEF UnknownMeansNone
<1> USE DEF Inv, UnknownMeansNone, NoOpenIssue
<1>1. CASE UNCHANGED <<issues, publisherVars, clean>>
  BY <1>1 DEF publisherVars, Open
<1>2. ASSUME NEW i \in DOMAIN issues, HumanCloses(i) PROVE NoOpenIssue(g)'
  BY <1>2, CloseEffect DEF HumanCloses, publisherVars
<1>3. ASSUME NEW p \in Publishers, Quiet(p) PROVE NoOpenIssue(g)'
  <2>1. p = r /\ issues' = issues /\ Open' = Open
    BY <1>3, QuietLeavesIssues DEF SinglePublisher, Open
  <2>2. CASE ListOpenIssues(p)
    BY <2>1, <2>2, NothingListed DEF ListOpenIssues, TypeOK
  <2>3. CASE BuildIssuePublishPlan(p)
    BY <2>1, <2>3 DEF BuildIssuePublishPlan, Goto, TypeOK
  <2>4. CASE \E f \in Findings : CallFails(p, f)
    BY <2>1, <2>4 DEF CallFails, Attempt, TypeOK
  <2>5. CASE StartPublish(p)
    BY <2>1, <2>5 DEF StartPublish, Goto, TypeOK
  <2>6. CASE ListingFails(p) \/ PlanUnreadable(p) \/ Finish(p) \/ PublisherDies(p)
    BY <2>1, <2>6 DEF ListingFails, PlanUnreadable, Finish, PublisherDies, Forget,
                      Goto, TypeOK
  <2> QED
    BY <1>3, <2>2, <2>3, <2>4, <2>5, <2>6 DEF Quiet
<1>4. ASSUME NEW p \in Publishers, NEW f \in Findings, CreateIssue(p, f)
      PROVE  NoOpenIssue(g)'
  <2>1. p = r
    BY DEF SinglePublisher
  <2>2. g # f /\ NoOpenIssue(g)
    BY <1>4, <2>1 DEF CreateIssue, Attempt, TypeOK
  <2> QED
    BY <1>4, <2>2, CreateEffect
<1>5. ASSUME NEW p \in Publishers, NEW f \in Findings, UpdateIssue(p, f)
      PROVE  NoOpenIssue(g)'
  <2>1. p = r
    BY DEF SinglePublisher
  <2>2. NoOpenIssue(g)
    BY <1>5, <2>1 DEF UpdateIssue, Attempt, TypeOK
  <2> QED
    BY <1>5, <2>2, UpdateEffect
<1> QED
  BY <1>1, <1>2, <1>3, <1>4, <1>5, StepCases, ElsewhereLeavesIssues

(* No step but a human's closes an issue the publisher knows, and a human  *)
(* spoils the publication.                                                 *)
LEMMA KnownStep == ASSUME SinglePublisher, Inv, [Next]_vars PROVE KnownIsOpen'
<1> SUFFICES ASSUME NEW r \in Publishers, NEW g \in Findings,
                    pc'[r] \in {"plan", "publish"}, clean'[r], known'[r][g] # 0
             PROVE  known'[r][g] \in Open' /\ issues'[known'[r][g]].finding = g
  BY DEF KnownIsOpen
<1> DEFINE Goal == known'[r][g] \in Open' /\ issues'[known'[r][g]].finding = g
<1> USE DEF Inv, KnownIsOpen
<1>1. CASE UNCHANGED <<issues, publisherVars, clean>>
  BY <1>1 DEF publisherVars, Open
<1>2. ASSUME NEW i \in DOMAIN issues, HumanCloses(i) PROVE Goal
  BY <1>2 DEF HumanCloses
<1>3. ASSUME NEW p \in Publishers, Quiet(p) PROVE Goal
  <2>1. p = r /\ issues' = issues /\ Open' = Open
    BY <1>3, QuietLeavesIssues DEF SinglePublisher, Open
  <2>2. CASE ListOpenIssues(p)
    BY <2>1, <2>2, ExistingIsOpen DEF ListOpenIssues, TypeOK
  <2>3. CASE BuildIssuePublishPlan(p)
    BY <2>1, <2>3 DEF BuildIssuePublishPlan, Goto, TypeOK
  <2>4. CASE \E f \in Findings : CallFails(p, f)
    BY <2>1, <2>4 DEF CallFails, TypeOK
  <2>5. CASE StartPublish(p)
    BY <2>1, <2>5 DEF StartPublish, Goto, TypeOK
  <2>6. CASE ListingFails(p) \/ PlanUnreadable(p) \/ Finish(p) \/ PublisherDies(p)
    BY <2>1, <2>6 DEF ListingFails, PlanUnreadable, Finish, PublisherDies, Forget,
                      Goto, TypeOK
  <2> QED
    BY <1>3, <2>2, <2>3, <2>4, <2>5, <2>6 DEF Quiet
<1>4. ASSUME NEW p \in Publishers, NEW f \in Findings, CreateIssue(p, f)
      PROVE  Goal
  BY <1>4, CreateEffect DEF CreateIssue, Attempt
<1>5. ASSUME NEW p \in Publishers, NEW f \in Findings, UpdateIssue(p, f)
      PROVE  Goal
  BY <1>5, UpdateEffect DEF UpdateIssue, Attempt
<1> QED
  BY <1>1, <1>2, <1>3, <1>4, <1>5, StepCases, ElsewhereLeavesIssues

(* Planning leaves nothing out that GitHub does not say already.           *)
LEMMA PlanMirrors ==
  ASSUME Inv, NEW p \in Publishers, NEW g \in Findings,
         BuildIssuePublishPlan(p), g \notin left'[p]
  PROVE  Mirrors(plan[p][g], g)'
<1>1. plan'[p][g] = report.status[g] /\ Open' = Open /\ issues' = issues
  BY DEF BuildIssuePublishPlan, Inv, TypeOK, Open
<1>2. ~Creates(report.status[g], known[p][g]) /\ ~Updates(report.status[g], known[p][g])
  BY DEF BuildIssuePublishPlan, Inv, TypeOK
<1>3. CASE report.status[g] = "resolved_candidate"
  <2>1. known[p][g] = 0 /\ pc[p] = "plan"
    BY <1>2, <1>3 DEF Updates, BuildIssuePublishPlan
  <2>2. NoOpenIssue(g)
    BY <2>1 DEF Inv, UnknownMeansNone
  <2> QED
    BY <1>1, <1>3, <2>2 DEF NoOpenIssue, Mirrors, Labelled
<1>4. CASE report.status[g] # "resolved_candidate"
  BY <1>1, <1>2, <1>4 DEF Creates, Updates, Mirrors
<1> QED
  BY <1>3, <1>4

(* Every call makes GitHub say what it was about, and leaves what GitHub   *)
(* says of the other findings as it is.                                    *)
LEMMA MirrorStep == ASSUME SinglePublisher, Inv, [Next]_vars PROVE DoneMirrors'
<1> SUFFICES ASSUME NEW r \in Publishers, NEW g \in Findings,
                    pc'[r] = "publish", clean'[r], g \notin left'[r]
             PROVE  Mirrors(plan[r][g], g)'
  BY DEF DoneMirrors
<1> USE DEF Inv, DoneMirrors
<1>1. CASE UNCHANGED <<issues, publisherVars, clean>>
  BY <1>1 DEF publisherVars, Mirrors, Labelled, Open
<1>2. ASSUME NEW i \in DOMAIN issues, HumanCloses(i) PROVE Mirrors(plan[r][g], g)'
  BY <1>2 DEF HumanCloses
<1>3. ASSUME NEW p \in Publishers, Quiet(p) PROVE Mirrors(plan[r][g], g)'
  <2>1. p = r
    BY DEF SinglePublisher
  <2>2. CASE BuildIssuePublishPlan(p)
    BY <2>1, <2>2, PlanMirrors
  <2>3. CASE \E f \in Findings : CallFails(p, f)
    BY <2>1, <2>3 DEF CallFails, TypeOK
  <2>4. CASE StartPublish(p) \/ ListOpenIssues(p)
    BY <2>1, <2>4 DEF StartPublish, ListOpenIssues, Goto, TypeOK
  <2>5. CASE ListingFails(p) \/ PlanUnreadable(p) \/ Finish(p) \/ PublisherDies(p)
    BY <2>1, <2>5 DEF ListingFails, PlanUnreadable, Finish, PublisherDies, Forget,
                      Goto, TypeOK
  <2> QED
    BY <1>3, <2>2, <2>3, <2>4, <2>5 DEF Quiet
<1>4. ASSUME NEW p \in Publishers, NEW f \in Findings, CreateIssue(p, f)
      PROVE  Mirrors(plan[r][g], g)'
  <2>1. p = r /\ clean[p] /\ pc[p] = "publish" /\ plan' = plan
    BY <1>4 DEF SinglePublisher, CreateIssue, Attempt
  <2>2. CASE g = f
    <3>1. Len(issues') \in Labelled(f, "active")'
      BY <1>4, CreateEffect DEF Labelled
    <3> QED
      BY <1>4, <2>1, <2>2, <3>1 DEF CreateIssue, Creates, Mirrors
  <2>3. CASE g # f
    <3>1. g \notin left[p]
      BY <1>4, <2>1, <2>3 DEF CreateIssue, Attempt, TypeOK
    <3>2. Labelled(g, "active")' = Labelled(g, "active")
      BY <1>4, <2>3, CreateEffect DEF Labelled
    <3> QED
      BY <2>1, <3>1, <3>2 DEF Mirrors
  <2> QED
    BY <2>2, <2>3
<1>5. ASSUME NEW p \in Publishers, NEW f \in Findings, UpdateIssue(p, f)
      PROVE  Mirrors(plan[r][g], g)'
  <2>1. p = r /\ clean[p] /\ pc[p] = "publish" /\ plan' = plan
    BY <1>5 DEF SinglePublisher, UpdateIssue, Attempt
  <2> DEFINE k == known[p][f]
  <2>2. k \in Open /\ issues[k].finding = f
    BY <1>5, <2>1 DEF KnownIsOpen, UpdateIssue, Updates
  <2>3. CASE g = f
    <3>1. issues'[k].label = LabelFor(plan[p][f]) /\ k \in Open'
      BY <1>5, <2>2, UpdateEffect
    <3>2. \A j \in Open' : issues'[j].finding = f => j = k
      BY <1>5, <2>2, UpdateEffect DEF OneOpenIssue
    <3>3. CASE plan[p][f] = "resolved_candidate"
      BY <2>1, <2>3, <3>1, <3>2, <3>3 DEF Mirrors, Labelled, LabelFor
    <3>4. CASE plan[p][f] # "resolved_candidate"
      <4>1. k \in Labelled(f, "active")'
        BY <1>5, <2>2, <3>1, <3>4, UpdateEffect DEF Labelled, LabelFor
      <4> QED
        BY <2>1, <2>3, <3>4, <4>1 DEF Mirrors
    <3> QED
      BY <3>3, <3>4
  <2>4. CASE g # f
    <3>1. g \notin left[p]
      BY <1>5, <2>1, <2>4 DEF UpdateIssue, Attempt, TypeOK
    <3>2. Labelled(g, "active")' = Labelled(g, "active")
      BY <1>5, <2>2, <2>4, UpdateEffect DEF Labelled
    <3> QED
      BY <2>1, <3>1, <3>2 DEF Mirrors
  <2> QED
    BY <2>3, <2>4
<1> QED
  BY <1>1, <1>2, <1>3, <1>4, <1>5, StepCases, ElsewhereLeavesIssues

-----------------------------------------------------------------------------
(* The inductive invariant holds before anything runs ...                  *)
LEMMA InitInv == Init => Inv
<1> SUFFICES ASSUME Init PROVE Inv
  OBVIOUS
<1>1. NoIssues \in [Findings -> 0..0] /\ NoStatus \in [Findings -> Status]
  BY DEF NoIssues, NoStatus, Status
<1>2. issues \in Seq(Issue) /\ Len(issues) = 0 /\ Open = {}
  BY DEF Init, Open
<1>3. TypeOK
  BY <1>1, <1>2 DEF Init, TypeOK
<1>4. WithinBound
  BY <1>2, BoundsAssumption DEF WithinBound
<1> QED
  BY <1>2, <1>3, <1>4
     DEF Inv, Init, OneOpenIssue, UnknownMeansNone, KnownIsOpen, DoneMirrors

(* ... and always, for a single publisher that lists every open issue.     *)
LEMMA Invariance == ASSUME SinglePublisher, ListsEveryIssue PROVE Spec => []Inv
<1>1. Inv /\ [Next]_vars => Inv'
  BY TypeStep, BoundStep, OneOpenStep, UnknownStep, KnownStep, MirrorStep DEF Inv
<1> QED
  BY InitInv, <1>1, PTL DEF Spec

(* Every variable of the loop keeps its type, whatever the publishers do.  *)
THEOREM TypeCorrect == Spec => []TypeOK
<1>1. Init => TypeOK
  BY InitInv DEF Inv
<1> QED
  BY <1>1, TypeStep, PTL DEF Spec

(* A single publisher never leaves two open issues for one finding.        *)
THEOREM NoDuplicateOpenIssue ==
  ASSUME SinglePublisher, ListsEveryIssue PROVE Spec => []OneOpenIssue
<1>1. Inv => OneOpenIssue
  BY DEF Inv
<1> QED
  BY Invariance, <1>1, PTL

(* A publication without faults leaves GitHub saying what its plan says.   *)
THEOREM GitHubMirrorsPlan ==
  ASSUME SinglePublisher, ListsEveryIssue PROVE Spec => []CleanPublicationMirrors
<1>1. Inv => CleanPublicationMirrors
  BY DEF Inv, DoneMirrors, CleanPublicationMirrors
<1> QED
  BY Invariance, <1>1, PTL
=============================================================================
