------------------------------ MODULE ClusterLock ------------------------------
(***************************************************************************)
(* What the lock of cmd/main.go promises to the code that runs under it    *)
(* ("cluster wide lock"): at most one agent is inside at any time, and the *)
(* one that is inside leaves before another gets in.                       *)
(***************************************************************************)
CONSTANT Agents

VARIABLE inside   \* the agents between Lock and Unlock

Init == inside = {}

Enter(a) == inside = {} /\ inside' = {a}

Leave(a) == a \in inside /\ inside' = inside \ {a}

Next == \E a \in Agents : Enter(a) \/ Leave(a)

Spec == Init /\ [][Next]_inside

=============================================================================
