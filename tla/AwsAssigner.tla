------------------------------ MODULE AwsAssigner ------------------------------
(***************************************************************************)
(* The AWS assigner (internal/address/aws.go, internal/cloud/aws_*.go) on  *)
(* several nodes that share one pool of elastic IPs.  Assign runs under    *)
(* the cluster-wide lock, Unassign does not (releaseIP of cmd/main.go).    *)
(*                                                                         *)
(* Each request to EC2 is one step.  An elastic IP is associated without   *)
(* leave to reassociate it, so that EC2 refuses one that has been taken    *)
(* since it was checked: the lock may run out under an agent.              *)
(***************************************************************************)
EXTENDS Naturals

CONSTANTS
    Nodes,          \* instances, each with its agent and one primary network interface
    Public,         \* the nodes whose subnet gives them a public IP of its own
    Pool,           \* the elastic IPs that match the filters (see Selection)
    SubnetIP,       \* a public IP of the subnet's choice
    NoIP,           \* no public IP
    FaultKinds,     \* what the environment may inflict on the assigners
    MaxFaults       \* how often it may do so

ASSUME AwsAssumption ==
    /\ Public \subseteq Nodes
    /\ SubnetIP \notin Pool /\ NoIP \notin Pool /\ SubnetIP # NoIP
    /\ Pool \cap {"none", "already", "ok", "error"} = {}
    /\ FaultKinds \subseteq {"error", "lost", "gone", "expire", "crash"}
    /\ MaxFaults \in Nat

VARIABLES
    pub,      \* pub[n]: the public IP of the primary network interface of n
    pc,       \* pc[n]: where the assigner of n is in Assign or Unassign
    todo,     \* todo[n]: available elastic IPs it has not tried yet
    target,   \* target[n]: the elastic IP it is about to associate or disassociate
    result,   \* result[n]: what the last Assign or Unassign of n returned
    inside,   \* the holders of the cluster-wide lock
    faults    \* faults inflicted so far

vars == <<pub, pc, todo, target, result, inside, faults>>

ClusterWide == INSTANCE ClusterLock WITH Agents <- Nodes

PCs == {"idle", "check", "list", "instance", "try", "associate", "assigned",
        "unList", "unDisassociate", "down"}

TypeOK ==
    /\ pub \in [Nodes -> Pool \cup {SubnetIP, NoIP}]
    /\ pc \in [Nodes -> PCs]
    /\ todo \in [Nodes -> SUBSET Pool]
    /\ target \in [Nodes -> Pool \cup {NoIP}]
    /\ result \in [Nodes -> Pool \cup {"none", "already", "ok", "error"}]
    /\ inside \subseteq Nodes
    /\ faults \in 0..MaxFaults

\* What the network interface has without an elastic IP.
Without(n) == IF n \in Public THEN SubnetIP ELSE NoIP

Init ==
    /\ pub = [n \in Nodes |-> Without(n)]
    /\ pc = [n \in Nodes |-> "idle"]
    /\ todo = [n \in Nodes |-> {}]
    /\ target = [n \in Nodes |-> NoIP]
    /\ result = [n \in Nodes |-> "none"]
    /\ ClusterWide!Init
    /\ faults = 0

-----------------------------------------------------------------------------
(* EC2                                                                     *)

Fault(kind) == kind \in FaultKinds /\ faults < MaxFaults /\ faults' = faults + 1

Goto(n, l) == pc' = [pc EXCEPT ![n] = l]

\* Elastic IPs with and without an association.
InUse == {pub[n] : n \in Nodes} \cap Pool
Available == Pool \ InUse

\* Mutant: AllowReassociation is true.
Reassociate(n, ip) ==
    pub' = [m \in Nodes |-> IF m = n THEN ip ELSE IF pub[m] = ip THEN Without(m) ELSE pub[m]]

\* AssociateAddress, AllowReassociation false; it replaces what the interface has.
AssociateAddress(n, ip) ==
    /\ ip \notin InUse
    /\ pub' = [pub EXCEPT ![n] = ip]

\* DisassociateAddress of the association of n and ip.
DisassociateAddress(n, ip) ==
    /\ pub[n] = ip
    /\ pub' = [pub EXCEPT ![n] = Without(n)]

\* A request that changes something fails, before or after it was executed.
Fails(request) == \/ Fault("error") /\ UNCHANGED pub
                  \/ Fault("lost") /\ request

-----------------------------------------------------------------------------
(* Assign, between Lock and Unlock                                         *)

\* The deferred Unlock, which finds nothing to do if the lease has run out.
Unlock(n) == inside' = inside \ {n}

\* The local variables of Assign and Unassign go with the call.
Forget(n) ==
    /\ todo' = [todo EXCEPT ![n] = {}]
    /\ target' = [target EXCEPT ![n] = NoIP]

Return(n, r) ==
    /\ result' = [result EXCEPT ![n] = r]
    /\ Goto(n, IF r = "error" THEN "idle" ELSE "assigned")
    /\ Unlock(n)
    /\ Forget(n)

Fail(n) == Return(n, "error")

\* The call goes on with other local variables, or with the same.
Proceed(n, l) == Goto(n, l) /\ UNCHANGED <<result, inside>>
Continue(n, l) == Proceed(n, l) /\ UNCHANGED <<todo, target>>

\* One iteration of assignAddress begins: Lock.
Lock(n) ==
    /\ pc[n] = "idle"
    /\ ClusterWide!Enter(n)
    /\ Goto(n, "check")
    /\ UNCHANGED <<pub, todo, target, result, faults>>

\* Mutant: the addresses of the instance that are not in use, of which there are none.
CheckNone(n) ==
    /\ pc[n] = "check"
    /\ \/ Continue(n, "list") /\ UNCHANGED faults
       \/ Fault("error") /\ Fail(n)
    /\ UNCHANGED pub

\* checkElasticIPAssigned: any elastic IP of the instance will do.
Check(n) ==
    /\ pc[n] = "check"
    /\ \/ pub[n] \in InUse /\ Return(n, "already") /\ UNCHANGED faults
       \/ pub[n] \notin InUse /\ Continue(n, "list") /\ UNCHANGED faults
       \/ Fault("error") /\ Fail(n)
    /\ UNCHANGED pub

\* getAvailableElasticIPs
List(n) ==
    /\ pc[n] = "list"
    /\ \/ /\ Available # {}
          /\ todo' = [todo EXCEPT ![n] = Available]
          /\ Proceed(n, "instance")
          /\ UNCHANGED <<target, faults>>
       \/ Available = {} /\ Fail(n) /\ UNCHANGED faults
       \/ Fault("error") /\ Fail(n)
    /\ UNCHANGED pub

\* Mutant: the panic leaves the lock behind.
PanicLocked(n) ==
    /\ Goto(n, "down")
    /\ result' = [result EXCEPT ![n] = "error"]
    /\ Forget(n)
    /\ UNCHANGED inside

\* A nil instance is dereferenced: the process ends, after the deferred Unlock.
Panic(n) ==
    /\ Goto(n, "down")
    /\ result' = [result EXCEPT ![n] = "error"]
    /\ Forget(n)
    /\ Unlock(n)

\* instanceGetter.Get, which returns nil for an instance EC2 does not list, and
\* getNetworkInterfaceID: the primary interface, if it has a public IP.
GetInstance(n) ==
    /\ pc[n] = "instance"
    /\ \/ pub[n] # NoIP /\ Continue(n, "try") /\ UNCHANGED faults
       \/ pub[n] = NoIP /\ Fail(n) /\ UNCHANGED faults
       \/ Fault("gone") /\ Panic(n)
       \/ Fault("error") /\ Fail(n)
    /\ UNCHANGED pub

\* Mutant: the last error is not looked at after the loop.
TryEndIgnoring(n) ==
    /\ pc[n] = "try" /\ todo[n] = {}
    /\ Return(n, NoIP)
    /\ UNCHANGED <<pub, faults>>

TryEnd(n) ==
    /\ pc[n] = "try" /\ todo[n] = {}
    /\ Fail(n)
    /\ UNCHANGED <<pub, faults>>

\* tryAssignAddress of the next elastic IP begins with forceCheckAddressAssigned.
Try(n, ip) ==
    /\ pc[n] = "try"
    /\ ip \in todo[n]
    /\ todo' = [todo EXCEPT ![n] = @ \ {ip}]
    /\ \/ /\ ip \in Available
          /\ target' = [target EXCEPT ![n] = ip]
          /\ Proceed(n, "associate")
          /\ UNCHANGED faults
       \/ ip \notin Available /\ Proceed(n, "try") /\ UNCHANGED <<target, faults>>
       \/ Fault("error") /\ Proceed(n, "try") /\ UNCHANGED target
    /\ UNCHANGED pub

\* Mutant: an error is taken for success.
AssociateIgnoring(n) ==
    /\ pc[n] = "associate"
    /\ \/ AssociateAddress(n, target[n]) /\ UNCHANGED faults
       \/ target[n] \in InUse /\ UNCHANGED <<pub, faults>>
       \/ Fails(AssociateAddress(n, target[n]))
    /\ Return(n, target[n])

Associate(n) ==
    /\ pc[n] = "associate"
    /\ \/ AssociateAddress(n, target[n]) /\ Return(n, target[n]) /\ UNCHANGED faults
       \/ target[n] \in InUse /\ Continue(n, "try") /\ UNCHANGED <<pub, faults>>
       \/ Fails(AssociateAddress(n, target[n])) /\ Continue(n, "try")

-----------------------------------------------------------------------------
(* Unassign, without the lock                                              *)

\* The agent is terminated, or could not remove the taint: releaseIP.
Unassign(n) ==
    /\ pc[n] = "assigned"
    /\ Continue(n, "unList")
    /\ UNCHANGED <<pub, faults>>

\* Unassign returns, and the process ends.
UnReturn(n, r) ==
    /\ result' = [result EXCEPT ![n] = r]
    /\ Goto(n, "down")
    /\ Forget(n)
    /\ UNCHANGED inside

\* getAssignedElasticIP
UnList(n) ==
    /\ pc[n] = "unList"
    /\ \/ /\ pub[n] \in InUse
          /\ target' = [target EXCEPT ![n] = pub[n]]
          /\ Proceed(n, "unDisassociate")
          /\ UNCHANGED <<todo, faults>>
       \/ pub[n] \notin InUse /\ UnReturn(n, "error") /\ UNCHANGED faults
       \/ Fault("error") /\ UnReturn(n, "error")
    /\ UNCHANGED pub

UnDisassociate(n) ==
    /\ pc[n] = "unDisassociate"
    /\ \/ DisassociateAddress(n, target[n]) /\ UnReturn(n, "ok") /\ UNCHANGED faults
       \/ pub[n] # target[n] /\ UnReturn(n, "error") /\ UNCHANGED <<pub, faults>>
       \/ Fails(DisassociateAddress(n, target[n])) /\ UnReturn(n, "error")

-----------------------------------------------------------------------------

\* The lease runs out under its holder (see LeaseLock).
Expire(n) ==
    /\ n \in inside
    /\ Fault("expire")
    /\ Unlock(n)
    /\ UNCHANGED <<pub, pc, todo, target, result>>

\* The agent is killed, and its lease runs out.
Crash(n) ==
    /\ pc[n] # "down"
    /\ Fault("crash")
    /\ Panic(n)
    /\ UNCHANGED pub

\* The DaemonSet starts the agent anew.
Restart(n) ==
    /\ pc[n] = "down"
    /\ Goto(n, "idle")
    /\ result' = [result EXCEPT ![n] = "none"]
    /\ UNCHANGED <<pub, todo, target, inside, faults>>

Step(n) ==
    \/ Check(n) \/ List(n) \/ GetInstance(n) \/ TryEnd(n) \/ (\E ip \in Pool : Try(n, ip))
    \/ Associate(n) \/ UnList(n) \/ UnDisassociate(n)

Next == \E n \in Nodes :
    Lock(n) \/ Step(n) \/ Unassign(n) \/ Expire(n) \/ Crash(n) \/ Restart(n)

Spec == Init /\ [][Next]_vars

\* Requests are answered, agents that have ended are restarted, and an agent that
\* keeps trying gets the lock.  Unassign is not fair.
FairSpec ==
    /\ Spec
    /\ \A n \in Nodes : SF_vars(Lock(n)) /\ WF_vars(Step(n)) /\ WF_vars(Restart(n))

-----------------------------------------------------------------------------
(* Properties                                                              *)

\* The assigner hands out the pool as it promises, also when the lock has run out
\* under an agent and several of them are in Assign at once.
StaticIP == [n \in Nodes |-> IF pub[n] \in Pool THEN pub[n] ELSE NoIP]
PhaseAt(l) == CASE l = "assigned" -> "keeping"
                [] l \in {"unList", "unDisassociate"} -> "releasing"
                [] OTHER -> "assigning"
Phase == [n \in Nodes |-> PhaseAt(pc[n])]
Promise == INSTANCE StaticIPs WITH IPs <- Pool, addr <- StaticIP, phase <- Phase
ImplementsStaticIPs == Promise!Spec

\* An agent that relies on the result of Assign has that IP, or has the one it found.
AssignedIsAttached ==
    \A n \in Nodes : pc[n] = "assigned" =>
        pub[n] \in Pool /\ (result[n] \in Pool => pub[n] = result[n])

\* Whatever fails, and when Assign panics too, the lock is given back.
LockReleased == \A n \in Nodes : n \in inside ~> n \notin inside

\* With an elastic IP for every node, every agent of a node with a public IP gets one
\* in the end, however many agents that cannot get one keep asking.
EveryNodeServed ==
    \A n \in Public : pc[n] = "idle" ~> (pc[n] = "assigned" /\ pub[n] \in Pool)

=============================================================================
