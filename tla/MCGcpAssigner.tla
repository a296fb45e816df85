----------------------------- MODULE MCGcpAssigner -----------------------------
(* Small instances of GcpAssigner for TLC.                                 *)
EXTENDS GcpAssigner, TLC

PoolSymmetry == Permutations(Nodes) \cup Permutations(IPs)

=============================================================================
