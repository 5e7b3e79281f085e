---------------------------- MODULE MCIssueLoop ----------------------------
(* Small instances of IssueLoop: one contract finding and one              *)
(* test-adequacy gap, so both rules of resolution are exercised.           *)
EXTENDS IssueLoop

CONSTANTS contract, gap

MCFindings == {contract, gap}
MCGaps == {gap}
=============================================================================
