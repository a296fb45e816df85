------------------------------ MODULE OciAssigner ------------------------------
(***************************************************************************)
(* The Oracle Cloud assigner (internal/address/oci.go) on several nodes    *)
(* that share one pool of reserved IPs.  Assign runs under the cluster-    *)
(* wide lock, Unassign does not (releaseIP of cmd/main.go).                *)
(*                                                                         *)
(* Each request to the OCI API is one step.  UpdatePublicIP moves a public *)
(* IP to the given node even if another node has it, so that nothing but   *)
(* the check before it and the lock around both keeps one node from taking *)
(* the IP of another.                                                      *)
(***************************************************************************)
EXTENDS Naturals

CONSTANTS
    Nodes,          \* instances, each with its agent and one primary VNIC
    Pool,           \* the reserved IPs that match the filters
    Foreign,        \* the reserved IPs that do not
    Ephemeral,      \* an ephemeral public IP
    Unlisted,       \* a public IP that is in no list of the compartment
    NoIP,           \* no public IP
    FaultKinds,     \* what the environment may inflict on the assigners
    MaxFaults       \* how often it may do so

ASSUME OciAssumption ==
    /\ Pool \cap Foreign = {}
    /\ {Ephemeral, Unlisted, NoIP} \cap (Pool \cup Foreign) = {}
    /\ Ephemeral # NoIP /\ Unlisted \notin {Ephemeral, NoIP}
    /\ Pool \cap {"none", "already", "ok", "error"} = {}
    /\ FaultKinds \subseteq {"error", "lost", "crash"}
    /\ MaxFaults \in Nat

VARIABLES
    pub,      \* pub[n]: the public IP of the primary VNIC of n
    pc,       \* pc[n]: where the assigner of n is in Assign or Unassign
    vnic,     \* vnic[n]: the public IP of the VNIC it has read
    todo,     \* todo[n]: available IPs it has not tried yet
    target,   \* target[n]: the IP it is about to move
    result,   \* result[n]: what the last Assign or Unassign of n returned
    inside,   \* the holder of the cluster-wide lock
    faults    \* faults inflicted so far

vars == <<pub, pc, vnic, todo, target, result, inside, faults>>

ClusterWide == INSTANCE ClusterLock WITH Agents <- Nodes

ReservedIPs == Pool \cup Foreign
PublicIPs == ReservedIPs \cup {Ephemeral, Unlisted, NoIP}

PCs == {"idle", "vnic", "case1", "case2", "case2Update", "case3", "case3Delete", "private",
        "list", "try", "update", "assigned", "unVnic", "unList", "unUpdate", "down"}

TypeOK ==
    /\ pub \in [Nodes -> PublicIPs]
    /\ pc \in [Nodes -> PCs]
    /\ vnic \in [Nodes -> PublicIPs]
    /\ todo \in [Nodes -> SUBSET Pool]
    /\ target \in [Nodes -> Pool \cup {NoIP}]
    /\ result \in [Nodes -> Pool \cup {"none", "already", "ok", "error"}]
    /\ inside \subseteq Nodes
    /\ faults \in 0..MaxFaults

Init ==
    /\ pub \in [Nodes -> Foreign \cup {Ephemeral, Unlisted, NoIP}]
    /\ \A m, n \in Nodes : pub[m] = pub[n] /\ pub[n] \in Foreign => m = n
    /\ pc = [n \in Nodes |-> "idle"]
    /\ vnic = [n \in Nodes |-> NoIP]
    /\ todo = [n \in Nodes |-> {}]
    /\ target = [n \in Nodes |-> NoIP]
    /\ result = [n \in Nodes |-> "none"]
    /\ ClusterWide!Init
    /\ faults = 0

-----------------------------------------------------------------------------
(* The OCI API                                                             *)

Fault(kind) == kind \in FaultKinds /\ faults < MaxFaults /\ faults' = faults + 1

Goto(n, l) == pc' = [pc EXCEPT ![n] = l]

\* Reserved IPs in state ASSIGNED, and those in state AVAILABLE.
Assigned == {pub[n] : n \in Nodes} \cap ReservedIPs
Available == ReservedIPs \ Assigned

\* UpdatePublicIP with a private IP: off the node that has the IP, and onto this one,
\* unless it has a public IP already.
MoveTo(n, ip) ==
    /\ pub[n] = NoIP
    /\ pub' = [m \in Nodes |-> IF m = n THEN ip ELSE IF pub[m] = ip THEN NoIP ELSE pub[m]]

\* UpdatePublicIP with the empty private IP, and DeletePublicIP.
TakeOff(ip) == pub' = [m \in Nodes |-> IF pub[m] = ip THEN NoIP ELSE pub[m]]

Drop(n) == pub' = [pub EXCEPT ![n] = NoIP]

\* A request that changes something fails, before or after it was executed.
Fails(request) == \/ Fault("error") /\ UNCHANGED pub
                  \/ Fault("lost") /\ request

-----------------------------------------------------------------------------
(* Assign, between Lock and Unlock                                         *)

\* The local variables of Assign and Unassign go with the call.
Forget(n) ==
    /\ vnic' = [vnic EXCEPT ![n] = NoIP]
    /\ todo' = [todo EXCEPT ![n] = {}]
    /\ target' = [target EXCEPT ![n] = NoIP]

Return(n, r) ==
    /\ result' = [result EXCEPT ![n] = r]
    /\ Goto(n, IF r = "error" THEN "idle" ELSE "assigned")
    /\ ClusterWide!Leave(n)
    /\ Forget(n)

\* Mutant: no Unlock after an error.
FailLocked(n) ==
    /\ result' = [result EXCEPT ![n] = "error"]
    /\ Goto(n, "idle")
    /\ Forget(n)
    /\ UNCHANGED inside

Fail(n) == Return(n, "error")

\* The call goes on with other local variables, or with the same.
Proceed(n, l) == Goto(n, l) /\ UNCHANGED <<result, inside>>
Continue(n, l) == Proceed(n, l) /\ UNCHANGED <<vnic, todo, target>>

\* Mutant: nobody waits for the lock.
LockAtOnce(n) ==
    /\ pc[n] = "idle"
    /\ inside' = inside \cup {n}
    /\ Goto(n, "vnic")
    /\ UNCHANGED <<pub, vnic, todo, target, result, faults>>

\* One iteration of assignAddress begins: Lock.
Lock(n) ==
    /\ pc[n] = "idle"
    /\ ClusterWide!Enter(n)
    /\ Goto(n, "vnic")
    /\ UNCHANGED <<pub, vnic, todo, target, result, faults>>

\* getPrimaryVnicOfInstance
GetVnic(n) ==
    /\ pc[n] = "vnic"
    /\ \/ /\ vnic' = [vnic EXCEPT ![n] = pub[n]]
          /\ Proceed(n, IF pub[n] = NoIP THEN "private" ELSE "case1")
          /\ UNCHANGED <<todo, target, faults>>
       \/ Fault("error") /\ Fail(n)
    /\ UNCHANGED pub

\* Case 1: an IP of the pool is already assigned to the node.
Case1(n) ==
    /\ pc[n] = "case1"
    /\ \/ vnic[n] \in Pool \cap Assigned /\ Return(n, "already") /\ UNCHANGED faults
       \/ vnic[n] \notin Pool \cap Assigned /\ Continue(n, "case2") /\ UNCHANGED faults
       \/ Fault("error") /\ Fail(n)
    /\ UNCHANGED pub

\* Case 2: another reserved IP is, and is taken off.
Case2(n) ==
    /\ pc[n] = "case2"
    /\ \/ vnic[n] \in Assigned /\ Continue(n, "case2Update") /\ UNCHANGED faults
       \/ vnic[n] \notin Assigned /\ Continue(n, "case3") /\ UNCHANGED faults
       \/ Fault("error") /\ Fail(n)
    /\ UNCHANGED pub

Case2Update(n) ==
    /\ pc[n] = "case2Update"
    /\ \/ TakeOff(vnic[n]) /\ Continue(n, "private") /\ UNCHANGED faults
       \/ Fails(TakeOff(vnic[n])) /\ Fail(n)

\* Case 3: the IP is ephemeral, and is deleted.  Case 4: it is none of these.
Case3(n) ==
    /\ pc[n] = "case3"
    /\ \/ vnic[n] = Ephemeral /\ pub[n] = Ephemeral /\ Continue(n, "case3Delete") /\ UNCHANGED faults
       \/ ~(vnic[n] = Ephemeral /\ pub[n] = Ephemeral) /\ Fail(n) /\ UNCHANGED faults
       \/ Fault("error") /\ Fail(n)
    /\ UNCHANGED pub

\* Mutant: the ephemeral IP is left in place.
Case3DeleteNot(n) ==
    /\ pc[n] = "case3Delete"
    /\ Continue(n, "private")
    /\ UNCHANGED <<pub, faults>>

Case3Delete(n) ==
    /\ pc[n] = "case3Delete"
    /\ \/ Drop(n) /\ Continue(n, "private") /\ UNCHANGED faults
       \/ Fails(Drop(n)) /\ Fail(n)

\* The primary private IP, and the available IPs of the pool.
GetPrivateIP(n) ==
    /\ pc[n] = "private"
    /\ \/ Continue(n, "list") /\ UNCHANGED faults
       \/ Fault("error") /\ Fail(n)
    /\ UNCHANGED pub

\* Mutant: the list is not filtered.
ListUnfiltered(n) ==
    /\ pc[n] = "list"
    /\ \/ /\ Available # {}
          /\ todo' = [todo EXCEPT ![n] = Available]
          /\ Proceed(n, "try")
          /\ UNCHANGED <<vnic, target, faults>>
       \/ Available = {} /\ Fail(n) /\ UNCHANGED faults
       \/ Fault("error") /\ Fail(n)
    /\ UNCHANGED pub

List(n) ==
    /\ pc[n] = "list"
    /\ \/ /\ Pool \cap Available # {}
          /\ todo' = [todo EXCEPT ![n] = Pool \cap Available]
          /\ Proceed(n, "try")
          /\ UNCHANGED <<vnic, target, faults>>
       \/ Pool \cap Available = {} /\ Fail(n) /\ UNCHANGED faults
       \/ Fault("error") /\ Fail(n)
    /\ UNCHANGED pub

TryEnd(n) ==
    /\ pc[n] = "try" /\ todo[n] = {}
    /\ Fail(n)
    /\ UNCHANGED <<pub, faults>>

\* tryAssignAddress of the next IP: GetPublicIP, then UpdatePublicIP.
Try(n, ip) ==
    /\ pc[n] = "try"
    /\ ip \in todo[n]
    /\ todo' = [todo EXCEPT ![n] = @ \ {ip}]
    /\ \/ /\ ip \in Available
          /\ target' = [target EXCEPT ![n] = ip]
          /\ Proceed(n, "update")
          /\ UNCHANGED faults
       \/ ip \notin Available /\ Proceed(n, "try") /\ UNCHANGED <<target, faults>>
       \/ Fault("error") /\ Proceed(n, "try") /\ UNCHANGED target
    /\ UNCHANGED <<pub, vnic>>

\* Mutant: an error is taken for success.
UpdateIgnoring(n) ==
    /\ pc[n] = "update"
    /\ \/ MoveTo(n, target[n]) /\ UNCHANGED faults
       \/ pub[n] # NoIP /\ UNCHANGED <<pub, faults>>
       \/ Fails(MoveTo(n, target[n]))
    /\ Return(n, target[n])

Update(n) ==
    /\ pc[n] = "update"
    /\ \/ MoveTo(n, target[n]) /\ Return(n, target[n]) /\ UNCHANGED faults
       \/ pub[n] # NoIP /\ Continue(n, "try") /\ UNCHANGED <<pub, faults>>
       \/ Fails(MoveTo(n, target[n])) /\ Continue(n, "try")

-----------------------------------------------------------------------------
(* Unassign, without the lock                                              *)

\* The agent is terminated, or could not remove the taint: releaseIP.
Unassign(n) ==
    /\ pc[n] = "assigned"
    /\ Continue(n, "unVnic")
    /\ UNCHANGED <<pub, faults>>

\* Unassign returns, and the process ends.
UnReturn(n, r) ==
    /\ result' = [result EXCEPT ![n] = r]
    /\ Goto(n, "down")
    /\ Forget(n)
    /\ UNCHANGED inside

UnGetVnic(n) ==
    /\ pc[n] = "unVnic"
    /\ \/ /\ pub[n] # NoIP
          /\ vnic' = [vnic EXCEPT ![n] = pub[n]]
          /\ Proceed(n, "unList")
          /\ UNCHANGED <<todo, target, faults>>
       \/ pub[n] = NoIP /\ UnReturn(n, "error") /\ UNCHANGED faults
       \/ Fault("error") /\ UnReturn(n, "error")
    /\ UNCHANGED pub

UnList(n) ==
    /\ pc[n] = "unList"
    /\ \/ vnic[n] \in Pool \cap Assigned /\ Continue(n, "unUpdate") /\ UNCHANGED faults
       \/ vnic[n] \notin Pool \cap Assigned /\ UnReturn(n, "error") /\ UNCHANGED faults
       \/ Fault("error") /\ UnReturn(n, "error")
    /\ UNCHANGED pub

UnUpdate(n) ==
    /\ pc[n] = "unUpdate"
    /\ \/ TakeOff(vnic[n]) /\ UnReturn(n, "ok") /\ UNCHANGED faults
       \/ Fails(TakeOff(vnic[n])) /\ UnReturn(n, "error")

-----------------------------------------------------------------------------

\* The agent is killed, and its lease runs out.
Crash(n) ==
    /\ pc[n] # "down"
    /\ Fault("crash")
    /\ Goto(n, "down")
    /\ result' = [result EXCEPT ![n] = "error"]
    /\ inside' = inside \ {n}
    /\ Forget(n)
    /\ UNCHANGED pub

\* The DaemonSet starts the agent anew.
Restart(n) ==
    /\ pc[n] = "down"
    /\ Continue(n, "idle")
    /\ UNCHANGED <<pub, faults>>

Step(n) ==
    \/ GetVnic(n) \/ Case1(n) \/ Case2(n) \/ Case2Update(n) \/ Case3(n) \/ Case3Delete(n)
    \/ GetPrivateIP(n) \/ List(n) \/ TryEnd(n) \/ (\E ip \in Pool : Try(n, ip)) \/ Update(n)
    \/ UnGetVnic(n) \/ UnList(n) \/ UnUpdate(n)

Next == \E n \in Nodes : Lock(n) \/ Step(n) \/ Unassign(n) \/ Crash(n) \/ Restart(n)

Spec == Init /\ [][Next]_vars

\* Requests are answered, agents that have ended are restarted, and an agent that
\* keeps trying gets the lock.  Unassign is not fair.
FairSpec ==
    /\ Spec
    /\ \A n \in Nodes : SF_vars(Lock(n)) /\ WF_vars(Step(n)) /\ WF_vars(Restart(n))

-----------------------------------------------------------------------------
(* Properties                                                              *)

\* The assigner hands out the pool as it promises: a node loses an IP only to its own
\* Unassign, although UpdatePublicIP would move one from any node (tryAssignAddress).
StaticIP == [n \in Nodes |-> IF pub[n] \in Pool THEN pub[n] ELSE NoIP]
PhaseAt(l) == CASE l = "assigned" -> "keeping"
                [] l \in {"unVnic", "unList", "unUpdate"} -> "releasing"
                [] OTHER -> "assigning"
Phase == [n \in Nodes |-> PhaseAt(pc[n])]
Promise == INSTANCE StaticIPs WITH IPs <- Pool, addr <- StaticIP, phase <- Phase
ImplementsStaticIPs == Promise!Spec

\* An agent that relies on the result of Assign has that IP, or has the one it found.
AssignedIsAttached ==
    \A n \in Nodes : pc[n] = "assigned" =>
        pub[n] \in Pool /\ (result[n] \in Pool => pub[n] = result[n])

\* Whatever fails, Assign comes to an end and gives the lock back.
LockReleased == \A n \in Nodes : n \in inside ~> n \notin inside

\* With an IP for every node, every agent that starts gets one, unless the node has
\* a public IP that the assigner knows nothing about (case 4).
EveryNodeServed ==
    \A n \in Nodes : pc[n] = "idle" /\ pub[n] # Unlisted ~> (pc[n] = "assigned" /\ pub[n] \in Pool)

=============================================================================
