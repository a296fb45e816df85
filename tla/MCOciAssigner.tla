----------------------------- MODULE MCOciAssigner -----------------------------
(* Small instances of OciAssigner for TLC.                                 *)
EXTENDS OciAssigner, TLC

PoolSymmetry == Permutations(Nodes) \cup Permutations(Pool)

=============================================================================
