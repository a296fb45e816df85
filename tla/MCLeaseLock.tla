------------------------------ MODULE MCLeaseLock ------------------------------
(* Small instances of LeaseLock for TLC.                                   *)
EXTENDS LeaseLock, TLC

AgentSymmetry == Permutations(Agents)

=============================================================================
