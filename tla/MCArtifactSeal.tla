--------------------------- MODULE MCArtifactSeal ---------------------------
(* Small instances of ArtifactSeal. Processes and inode numbers are         *)
(* interchangeable model values, so both sets are symmetric.                *)
EXTENDS ArtifactSeal, TLC

Symmetry == Permutations(Procs) \cup Permutations(Inodes)
=============================================================================
