-------------------------- MODULE ReceiptAgreement --------------------------
(***************************************************************************)
(* What `repair validate` promises of the receipt of one validation, with  *)
(* nothing said of files: one value is published, once and for all, and    *)
(* whoever returns has agreed to that value.                               *)
(***************************************************************************)
CONSTANTS
  Proposers,  \* who validates
  Receivable, \* the receipts there may be
  None        \* no receipt

VARIABLES
  published,  \* the receipt
  agreed      \* the receipt each proposer has returned with

agreementVars == <<published, agreed>>

AgreementInit ==
  /\ published = None
  /\ agreed = [p \in Proposers |-> None]

(* Somebody's receipt is published, if there is none.                      *)
Publish ==
  /\ published = None
  /\ published' \in Receivable
  /\ UNCHANGED agreed

(* One returns with the receipt that is published.                         *)
Agree(p) ==
  /\ published # None
  /\ agreed[p] = None
  /\ agreed' = [agreed EXCEPT ![p] = published]
  /\ UNCHANGED published

AgreementNext == Publish \/ \E p \in Proposers : Agree(p)

AgreementSpec == AgreementInit /\ [][AgreementNext]_agreementVars
=============================================================================
