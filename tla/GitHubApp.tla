------------------------------ MODULE GitHubApp ------------------------------
(***************************************************************************)
(* The webhook server of the GitHub App (packages/github-app/src): what it *)
(* makes of a delivery, and the live publishing of the issues that follow  *)
(* from it, one repository after another.                                  *)
(*                                                                         *)
(* Deliveries are handled at the same time, and GitHub may deliver one     *)
(* again: the identity of a delivery is written down but never compared.   *)
(* A call may fail, and an answer may be lost after the call was obeyed.   *)
(*                                                                         *)
(* An issue stands for the finding whose fingerprint, or for the setup the *)
(* title, it carries; its number is its place in the sequence.             *)
(***************************************************************************)
EXTENDS Integers, Sequences, SequencesExt

CONSTANTS
  Deliveries,  \* webhook deliveries
  Repos,       \* the repositories the app is installed in
  Findings,    \* what the artifacts of workflow runs are about
  Setup,       \* the setup issue of a repository
  Page         \* how many issues a listing returns

ASSUME AppAssumption ==
  /\ Page \in Nat \ {0}
  /\ Setup \notin Findings
  /\ IsFiniteSet(Findings)
  /\ IsFiniteSet(Repos) /\ Repos # {}

VARIABLES
  enabled,   \* credentials and the write guard are there
  handling,  \* the step each delivery's handler is about to take
  actions,   \* the actions it has still to publish
  found,     \* the number of the issue it has found, or 0
  outcomes,  \* what it says it has done
  issues,    \* the issues of each repository
  marker,    \* repositories with .hive/integrated.json, valid or not
  asked,     \* history: the actions the delivery asked for
  unowned,   \* history: repositories without a marker at some time since then
  tangled    \* history: issues two handlers looked for before either had made it

appVars == <<enabled, handling, actions, found, outcomes, issues, marker, asked, unowned,
             tangled>>

-----------------------------------------------------------------------------
AppSteps == {"idle", "token", "owner", "search", "write", "done", "error"}
Actions == [repo : Repos, finding : Findings \cup {Setup}]
(* What is reported: "updated" and "created" are published; "skipped",      *)
(* "blocked" and "failed" are not.                                         *)
Outcomes == [action : Actions, published : BOOLEAN]

AppTypeOK ==
  /\ enabled \in BOOLEAN
  /\ handling \in [Deliveries -> AppSteps]
  /\ actions \in [Deliveries -> Seq(Actions)]
  /\ found \in [Deliveries -> Nat]
  /\ outcomes \in [Deliveries -> SUBSET Outcomes]
  /\ issues \in [Repos -> Seq(Findings \cup {Setup})]
  /\ marker \in SUBSET Repos
  /\ asked \in [Deliveries -> SUBSET Actions]
  /\ unowned \in [Deliveries -> SUBSET Repos]
  /\ tangled \in SUBSET Actions

(* Earlier deliveries may have made an issue of any finding.               *)
AppInit ==
  /\ enabled \in BOOLEAN
  /\ handling = [d \in Deliveries |-> "idle"]
  /\ actions = [d \in Deliveries |-> <<>>]
  /\ found = [d \in Deliveries |-> 0]
  /\ outcomes = [d \in Deliveries |-> {}]
  /\ issues \in [Repos -> UNION {SetToSeqs(F) : F \in SUBSET (Findings \cup {Setup})}]
  /\ marker \in SUBSET Repos
  /\ asked = [d \in Deliveries |-> {}]
  /\ unowned = [d \in Deliveries |-> {}]
  /\ tangled = {}

Handles(d, step) == handling' = [handling EXCEPT ![d] = step]
Ends(d, step) == Handles(d, step) /\ unowned' = [unowned EXCEPT ![d] = {}]
Current(d) == Head(actions[d])
Unmarked == Repos \ marker

-----------------------------------------------------------------------------
(* actionsForEvent: an installation asks for the setup issue of every      *)
(* repository in it, a workflow run for the issue of its artifact.  Other  *)
(* deliveries, also those whose artifact Hive owns, ask for nothing.       *)
Receives(d) ==
  /\ handling[d] = "idle"
  /\ \E list \in SetToSeqs({[repo |-> r, finding |-> Setup] : r \in Repos})
                 \cup {<<a>> : a \in Actions} :
       /\ actions' = [actions EXCEPT ![d] = list]
       /\ asked' = [asked EXCEPT ![d] = Range(list)]
  /\ unowned' = [unowned EXCEPT ![d] = Unmarked]
  /\ Handles(d, "token")
  /\ UNCHANGED <<enabled, found, outcomes, issues, marker, tangled>>

(* A call whose failure is not caught ends the handler with an error.      *)
Throws(d) ==
  /\ Ends(d, "error")
  /\ actions' = [actions EXCEPT ![d] = <<>>]
  /\ found' = [found EXCEPT ![d] = 0]
  /\ UNCHANGED outcomes

(* One token for all of the actions; without it, or without credentials,   *)
(* none of them is tried.  An answer that does not parse is an error.      *)
GetsToken(d) ==
  /\ handling[d] = "token"
  /\ \/ enabled /\ Handles(d, "owner") /\ UNCHANGED <<actions, found, outcomes, unowned>>
     \/ /\ outcomes' = [outcomes EXCEPT ![d] =
             [action : Range(actions[d]), published : {FALSE}]]
        /\ actions' = [actions EXCEPT ![d] = <<>>]
        /\ Ends(d, "done")
        /\ UNCHANGED found
     \/ enabled /\ Throws(d)
  /\ UNCHANGED <<enabled, issues, marker, asked, tangled>>

(* The loop of publishGitHubAppIssuesFromWebhookResult.                    *)
Reports(d, published) ==
  /\ outcomes' = [outcomes EXCEPT
       ![d] = @ \cup {[action |-> Current(d), published |-> published]}]
  /\ actions' = [actions EXCEPT ![d] = Tail(@)]
  /\ found' = [found EXCEPT ![d] = 0]
  /\ IF Tail(actions[d]) = <<>> THEN Ends(d, "done")
                                ELSE Handles(d, "owner") /\ UNCHANGED unowned

(* Mutant of ChecksOwner: the first repository speaks for all.             *)
ChecksFirstOwner(d) ==
  /\ handling[d] = "owner"
  /\ \/ /\ Current(d).repo \notin marker \/ \E o \in outcomes[d] : o.published
        /\ Handles(d, "search")
        /\ UNCHANGED <<actions, found, outcomes, unowned>>
     \/ Reports(d, FALSE)
  /\ UNCHANGED <<enabled, issues, marker, asked, tangled>>

(* verifyProtectedLifecycleOwner: only a repository that is known to have  *)
(* no marker is published to; a valid marker, any other, and a failed call *)
(* are refused.                                                            *)
ChecksOwner(d) ==
  /\ handling[d] = "owner"
  /\ \/ /\ Current(d).repo \notin marker
        /\ Handles(d, "search")
        /\ UNCHANGED <<actions, found, outcomes, unowned>>
     \/ Reports(d, FALSE)
  /\ UNCHANGED <<enabled, issues, marker, asked, tangled>>

-----------------------------------------------------------------------------
(* The newest issues come first, and only one page of them.                *)
Listed(r) == {n \in DOMAIN issues[r] : n > Len(issues[r]) - Page}
Matches(a) == {n \in Listed(a.repo) : issues[a.repo][n] = a.finding}

(* Mutant of Finds: nothing found is -1, as findIndex has it.              *)
FindsIndex(a) ==
  IF Matches(a) = {} THEN -1
  ELSE CHOOSE n \in Matches(a) : \A m \in Matches(a) : m <= n

Finds(a) ==
  IF Matches(a) = {} THEN 0
  ELSE CHOOSE n \in Matches(a) : \A m \in Matches(a) : m <= n

SameSearch(d) ==
  {e \in Deliveries \ {d} : handling[e] = "write" /\ Current(e) = Current(d)}

(* Mutant of Searches: the first failure ends the loop.                    *)
SearchesOrStops(d) ==
  /\ handling[d] = "search"
  /\ \/ /\ found' = [found EXCEPT ![d] = Finds(Current(d))]
        /\ Handles(d, "write")
        /\ tangled' = tangled \cup {a \in {Current(d)} : SameSearch(d) # {}}
        /\ UNCHANGED <<actions, outcomes, unowned>>
     \/ /\ Handles(d, "done")
        /\ UNCHANGED <<actions, found, outcomes, tangled, unowned>>
  /\ UNCHANGED <<enabled, issues, marker, asked>>

(* createOrUpdateIssue looks for the issue ...                             *)
Searches(d) ==
  /\ handling[d] = "search"
  /\ \/ /\ found' = [found EXCEPT ![d] = Finds(Current(d))]
        /\ Handles(d, "write")
        /\ tangled' = tangled \cup {a \in {Current(d)} : SameSearch(d) # {}}
        /\ UNCHANGED <<actions, outcomes, unowned>>
     \/ Reports(d, FALSE) /\ UNCHANGED tangled
     \/ Throws(d) /\ UNCHANGED tangled
  /\ UNCHANGED <<enabled, issues, marker, asked>>

Writes(d) ==
  issues' = IF found[d] # 0 THEN issues
            ELSE [issues EXCEPT ![Current(d).repo] = Append(@, Current(d).finding)]

(* Mutant of WritesIssue: an issue is created for every delivery.          *)
WritesNewIssue(d) ==
  LET a == Current(d) IN
  /\ handling[d] = "write"
  /\ issues' = [issues EXCEPT ![a.repo] = Append(@, a.finding)]
  /\ Reports(d, TRUE)
  /\ UNCHANGED <<enabled, marker, asked, tangled>>

(* ... and changes it, or makes it.                                        *)
WritesIssue(d) ==
  /\ handling[d] = "write"
  /\ \/ Writes(d) /\ Reports(d, TRUE)
     \/ Reports(d, FALSE) /\ UNCHANGED issues
     \/ Throws(d) /\ (Writes(d) \/ UNCHANGED issues)
  /\ UNCHANGED <<enabled, marker, asked, tangled>>

Open == {d \in Deliveries : handling[d] \in {"token", "owner", "search", "write"}}

(* Hive is installed in a repository, or removed from it.                  *)
MarkerComes(r) ==
  /\ r \notin marker
  /\ marker' = marker \cup {r}
  /\ UNCHANGED <<enabled, handling, actions, found, outcomes, issues, asked, unowned,
                 tangled>>

MarkerGoes(r) ==
  /\ r \in marker
  /\ marker' = marker \ {r}
  /\ unowned' = [d \in Deliveries |-> IF d \in Open THEN unowned[d] \cup {r} ELSE unowned[d]]
  /\ UNCHANGED <<enabled, handling, actions, found, outcomes, issues, asked, tangled>>

-----------------------------------------------------------------------------
DeliveryStep(d) ==
  \/ Receives(d) \/ GetsToken(d) \/ ChecksOwner(d) \/ Searches(d)
  \/ WritesIssue(d)

AppNext ==
  \/ \E d \in Deliveries : DeliveryStep(d)
  \/ \E r \in Repos : MarkerComes(r) \/ MarkerGoes(r)

AppSpec == AppInit /\ [][AppNext]_appVars

-----------------------------------------------------------------------------
(* A finding has one issue in a repository, however often and in whatever  *)
(* order it is delivered, and whatever answers are lost, unless two        *)
(* handlers looked for it at once or it has left the page.                 *)
OneIssue ==
  \A a \in Actions \ tangled : \A i, j \in DOMAIN issues[a.repo] :
    i < j /\ issues[a.repo][i] = a.finding /\ issues[a.repo][j] = a.finding
      => j - i > Page

(* No handler touches an issue of a repository that Hive has owned, or     *)
(* that had a marker of any kind, ever since the delivery came in.         *)
HiveRespected ==
  \A d \in Deliveries : handling[d] = "write" => Current(d).repo \in unowned[d]

(* A handler that answers has an outcome for every action, whatever became *)
(* of the others, and a reported issue is there.                           *)
AllAnswered ==
  \A d \in Deliveries :
    /\ handling[d] = "done" => {o.action : o \in outcomes[d]} = asked[d]
    /\ \A o \in outcomes[d] : o.published =>
         \E n \in DOMAIN issues[o.action.repo] : issues[o.action.repo][n] = o.action.finding
=============================================================================
