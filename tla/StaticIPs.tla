------------------------------- MODULE StaticIPs -------------------------------
(***************************************************************************)
(* What an assigner promises, whatever the cloud (internal/address): the   *)
(* static IPs of a pool are handed out to nodes, no IP to two of them, and *)
(* a node whose agent relies on its IP keeps it until that agent releases  *)
(* it.  No other agent ever takes it away.  An agent that has lost track   *)
(* of a change it asked for is unsure until it starts afresh: its node may *)
(* gain or lose an IP meanwhile.                                           *)
(***************************************************************************)
CONSTANTS
    Nodes,   \* nodes, each with its agent
    IPs,     \* the static IPs they share
    NoIP     \* no static IP

VARIABLES
    addr,    \* addr[n]: the static IP of node n, or NoIP
    phase    \* phase[n]: what the agent of n is doing about it

Phases == {"assigning", "keeping", "releasing", "unsure"}

Init ==
    /\ addr = [n \in Nodes |-> NoIP]
    /\ phase = [n \in Nodes |-> "assigning"]

Enters(n, p) == phase' = [phase EXCEPT ![n] = p]

\* An agent without one attaches an IP that is free, in exchange for one it may have
\* attached without noticing.
Attach(n, ip) ==
    /\ phase[n] \in {"assigning", "unsure"}
    /\ \A m \in Nodes : addr[m] # ip
    /\ addr' = [addr EXCEPT ![n] = ip]
    /\ UNCHANGED phase \/ Enters(n, "keeping")

\* It relies on the one the node has.
Keep(n) ==
    /\ phase[n] = "assigning" /\ addr[n] # NoIP
    /\ Enters(n, "keeping")
    /\ UNCHANGED addr

Release(n) ==
    /\ phase[n] = "keeping"
    /\ Enters(n, "releasing")
    /\ UNCHANGED addr

Detach(n) ==
    /\ phase[n] \in {"releasing", "unsure"}
    /\ addr' = [addr EXCEPT ![n] = NoIP]
    /\ UNCHANGED phase \/ Enters(n, "assigning")

\* It loses track of a change it has asked for.
Doubt(n) ==
    /\ Enters(n, "unsure")
    /\ UNCHANGED addr

\* The agent ends; its successor begins.
End(n) ==
    /\ Enters(n, "assigning")
    /\ UNCHANGED addr

Next ==
    \E n \in Nodes :
        (\E ip \in IPs : Attach(n, ip)) \/ Keep(n) \/ Release(n) \/ Detach(n)
        \/ Doubt(n) \/ End(n)

Spec == Init /\ [][Next]_<<addr, phase>>

=============================================================================
