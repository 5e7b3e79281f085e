-------------------------- MODULE MCRepairCapture --------------------------
(* RepairCapture for TLC: the invocations are interchangeable.             *)
EXTENDS RepairCapture, TLC

Symmetry == Permutations(Procs)
=============================================================================
