--------------------------- MODULE CaptureChoice ---------------------------
(***************************************************************************)
(* What a repair capture promises of the invocations for one request, with *)
(* nothing said of directories, leases or archives: as long as nothing     *)
(* disturbs them they choose one capture, which is there for good, and     *)
(* whoever returns a capture returns that one.  Disturbed or not, what an  *)
(* invocation has returned is its only answer.                             *)
(***************************************************************************)
CONSTANTS
  Procs,  \* the invocations, each of which may make a capture
  None    \* no capture

VARIABLES
  kept,     \* nothing has disturbed them so far
  chosen,   \* the capture that can be returned again
  returned  \* the capture each has returned

choiceVars == <<kept, chosen, returned>>

Captures == Procs \cup {None}

ChoiceInit ==
  /\ kept = TRUE
  /\ chosen = None
  /\ returned = [p \in Procs |-> None]

Answers(p, q) ==
  /\ returned[p] = None
  /\ returned' = [returned EXCEPT ![p] = q]

(* One makes a capture, if there is none, and returns it.                  *)
Choose(p) ==
  /\ kept
  /\ chosen = None
  /\ chosen' = p
  /\ Answers(p, p)
  /\ UNCHANGED kept

(* One returns the capture that is there.                                  *)
Return(p) ==
  /\ kept
  /\ chosen # None
  /\ Answers(p, chosen)
  /\ UNCHANGED <<kept, chosen>>

(* A capture can be lost only by a disturbance, and from then on ...       *)
Disturb ==
  /\ kept
  /\ kept' = FALSE
  /\ chosen' \in Captures
  /\ UNCHANGED returned

(* ... there can be several, one after the other.                          *)
Unsettled ==
  /\ ~kept
  /\ chosen' \in Captures
  /\ UNCHANGED returned \/ \E p, q \in Procs : Answers(p, q)
  /\ UNCHANGED kept

ChoiceNext ==
  \/ \E p \in Procs : Choose(p) \/ Return(p)
  \/ Disturb
  \/ Unsettled

ChoiceSpec == ChoiceInit /\ [][ChoiceNext]_choiceVars
=============================================================================
