------------------------------ MODULE GcpAssigner ------------------------------
(***************************************************************************)
(* The Google Cloud assigner (internal/address/gcp.go) on several nodes    *)
(* that share one pool of reserved IPs.  Assign runs under the cluster-    *)
(* wide lock, Unassign does not (releaseIP of cmd/main.go).                *)
(*                                                                         *)
(* Each request to the Compute API is one step.  Adding or deleting the    *)
(* access config of a node is an operation the cloud executes some time    *)
(* after it has accepted the request; the assigner waits for it, but goes  *)
(* on when the waiting itself fails, as it does when the context is done,  *)
(* so that operations nobody waits for any more may still be executed.     *)
(***************************************************************************)
EXTENDS Naturals

CONSTANTS
    Nodes,          \* instances, each with its agent
    IPs,            \* the static IPs of the region that match the filter
    Ephemeral,      \* a public IP of the cloud's choice
    NoIP,           \* no access config
    Shared,         \* those that instances outside the cluster may use as well
    MaxRetries,     \* maxRetries: attempts to add an ephemeral IP
    FaultKinds,     \* what the environment may inflict on the assigners
    Faulty,         \* the nodes whose assigners it may hit
    MaxFaults       \* how often it may do so

ASSUME GcpAssumption ==
    /\ Ephemeral \notin IPs /\ NoIP \notin IPs /\ Ephemeral # NoIP
    /\ IPs \cap {"none", "ok", "error"} = {}
    /\ Shared \subseteq IPs
    /\ MaxRetries \in Nat \ {0}
    /\ FaultKinds \subseteq {"error", "lost", "op", "wait", "cancel", "expire", "crash"}
    /\ Faulty \subseteq Nodes
    /\ MaxFaults \in Nat

VARIABLES
    conf,     \* conf[n]: the access config of node n in the cloud
    others,   \* the IPs that instances outside the cluster use
    op,       \* op[n]: status of the operation the assigner of n waits for
    want,     \* want[n]: the access config that operation is to bring about
    late,     \* operations that nobody waits for any more
    waited,   \* waited[n], a history: since the last Lock of n that found none of its
              \* operations late, every operation of n was waited for to its end
    ctx,      \* ctx[n]: the context of Assign, then that of Unassign
    pc,       \* pc[n]: where the assigner of n is in Assign or Unassign
    inst,     \* inst[n]: the access config in the instance it has read
    todo,     \* todo[n]: available addresses it has not tried yet
    tries,    \* tries[n]: attempts to add an ephemeral IP
    result,   \* result[n]: what the last Assign or Unassign of n returned
    inside,   \* the holders of the cluster-wide lock
    faults    \* faults inflicted so far

cloud == <<conf, others, op, late, waited>>
locals == <<want, inst, todo>>
vars == <<cloud, ctx, pc, locals, tries, result, inside, faults>>

ClusterWide == INSTANCE ClusterLock WITH Agents <- Nodes

PublicIPs == IPs \cup {Ephemeral, NoIP}

PCs == {"idle", "check", "checkList", "list", "delete", "deleteWait", "refresh", "try",
        "add", "addWait", "assigned", "unGet", "unList", "unDelete", "unDeleteWait",
        "unRefresh", "unAdd", "unAddWait", "down"}

TypeOK ==
    /\ conf \in [Nodes -> PublicIPs]
    /\ op \in [Nodes -> {"none", "running", "done", "error"}]
    /\ want \in [Nodes -> PublicIPs]
    /\ late \subseteq Nodes \X PublicIPs
    /\ others \subseteq IPs
    /\ waited \in [Nodes -> BOOLEAN]
    /\ ctx \in [Nodes -> {"live", "done"}]
    /\ pc \in [Nodes -> PCs]
    /\ inst \in [Nodes -> PublicIPs]
    /\ todo \in [Nodes -> SUBSET IPs]
    /\ tries \in [Nodes -> 0..MaxRetries]
    /\ result \in [Nodes -> IPs \cup {"none", "ok", "error"}]
    /\ inside \subseteq Nodes
    /\ faults \in 0..MaxFaults

Init ==
    /\ conf = [n \in Nodes |-> Ephemeral]
    /\ op = [n \in Nodes |-> "none"]
    /\ want = [n \in Nodes |-> NoIP]
    /\ late = {}
    /\ others \in SUBSET Shared
    /\ waited = [n \in Nodes |-> TRUE]
    /\ ctx = [n \in Nodes |-> "live"]
    /\ pc = [n \in Nodes |-> "idle"]
    /\ inst = [n \in Nodes |-> NoIP]
    /\ todo = [n \in Nodes |-> {}]
    /\ tries = [n \in Nodes |-> 0]
    /\ result = [n \in Nodes |-> "none"]
    /\ ClusterWide!Init
    /\ faults = 0

-----------------------------------------------------------------------------
(* The Compute API                                                         *)

Fault(n, kind) ==
    n \in Faulty /\ kind \in FaultKinds /\ faults < MaxFaults /\ faults' = faults + 1

Goto(n, l) == pc' = [pc EXCEPT ![n] = l]

\* Addresses with status IN_USE, and RESERVED.
InUse == ({conf[n] : n \in Nodes} \cup others) \cap IPs
Reserved == IPs \ InUse

\* An access config is deleted where there is one, and added where there is none;
\* an address serves one node.
Executable(n, c) == IF c = NoIP THEN conf[n] # NoIP ELSE conf[n] = NoIP /\ c \notin InUse

Execute(n) ==
    /\ op[n] = "running"
    /\ \/ Executable(n, want[n]) /\ conf' = [conf EXCEPT ![n] = want[n]]
            /\ op' = [op EXCEPT ![n] = "done"] /\ UNCHANGED faults
       \/ ~Executable(n, want[n]) /\ op' = [op EXCEPT ![n] = "error"] /\ UNCHANGED <<conf, faults>>
       \/ Fault(n, "op") /\ op' = [op EXCEPT ![n] = "error"] /\ UNCHANGED conf
    /\ UNCHANGED <<others, late, waited, ctx, locals, pc, tries, result, inside>>

ExecuteLate(n, c) ==
    /\ <<n, c>> \in late
    /\ late' = late \ {<<n, c>>}
    /\ conf' = IF Executable(n, c) THEN [conf EXCEPT ![n] = c] ELSE conf
    /\ UNCHANGED <<others, op, waited, ctx, locals, pc, tries, result, inside, faults>>

\* The call goes on with other local variables, or with the same.
Proceed(n, l) == Goto(n, l) /\ UNCHANGED <<result, inside>>
Continue(n, l) == Proceed(n, l) /\ UNCHANGED locals

\* A request for an operation: accepted, and waited for; refused; or accepted with the
\* answer lost.
Submit(n, c, wait, refused) ==
    \/ /\ op' = [op EXCEPT ![n] = "running"]
       /\ want' = [want EXCEPT ![n] = c]
       /\ Proceed(n, wait)
       /\ UNCHANGED <<late, waited, inst, todo, faults>>
    \/ Fault(n, "error") /\ refused /\ UNCHANGED <<op, late, waited>>
    \/ /\ Fault(n, "lost") /\ refused
       /\ late' = late \cup {<<n, c>>}
       /\ waited' = [waited EXCEPT ![n] = FALSE]
       /\ UNCHANGED op

\* waitForOperation: the operation is done, has failed, or the waiting fails.
Forget(n) == op' = [op EXCEPT ![n] = "none"]

Done(n) == ctx[n] = "live" /\ op[n] = "done" /\ Forget(n) /\ UNCHANGED <<late, waited, faults>>

OperationError(n) ==
    ctx[n] = "live" /\ op[n] = "error" /\ Forget(n) /\ UNCHANGED <<late, waited, faults>>

Abandon(n) ==
    /\ Forget(n)
    /\ late' = IF op[n] = "running" THEN late \cup {<<n, want[n]>>} ELSE late
    /\ waited' = IF op[n] = "none" THEN waited ELSE [waited EXCEPT ![n] = FALSE]

\* Wait fails by itself, or because the context is done or runs out in it.
WaitError(n) == ((ctx[n] = "done" /\ UNCHANGED faults) \/ Fault(n, "wait")) /\ Abandon(n)

\* An error of the waiting is logged and otherwise ignored.
Waited(n) == Done(n) \/ WaitError(n)

-----------------------------------------------------------------------------
(* Assign, between Lock and Unlock                                         *)

\* The deferred Unlock, which finds nothing to do if the lease has run out.
Unlock(n) == inside' = inside \ {n}

\* The local variables of Assign and Unassign go with the call.
EndCall(n) ==
    /\ want' = [want EXCEPT ![n] = NoIP]
    /\ inst' = [inst EXCEPT ![n] = NoIP]
    /\ todo' = [todo EXCEPT ![n] = {}]

Return(n, r) ==
    /\ result' = [result EXCEPT ![n] = r]
    /\ Goto(n, IF r \in IPs THEN "assigned" ELSE "idle")
    /\ Unlock(n)
    /\ EndCall(n)

Fail(n) == Return(n, "error")

NoneLate(n) == \A c \in PublicIPs : <<n, c>> \notin late

\* Mutant: nobody waits for the lock.
LockAtOnce(n) ==
    /\ pc[n] = "idle" /\ ctx[n] = "live"
    /\ inside' = inside \cup {n}
    /\ Goto(n, "check")
    /\ waited' = [waited EXCEPT ![n] = NoneLate(n)]
    /\ UNCHANGED <<conf, others, op, late, ctx, locals, tries, result, faults>>

\* One iteration of assignAddress begins: Lock.
Lock(n) ==
    /\ pc[n] = "idle" /\ ctx[n] = "live"
    /\ ClusterWide!Enter(n)
    /\ Goto(n, "check")
    /\ waited' = [waited EXCEPT ![n] = NoneLate(n)]
    /\ UNCHANGED <<conf, others, op, late, ctx, locals, tries, result, faults>>

\* instanceGetter.Get
ReadInstance(n) == inst' = [inst EXCEPT ![n] = conf[n]] /\ UNCHANGED <<want, todo>>

\* checkStaticIPAssigned: the instance, and the addresses in use with their users.
CheckGet(n) ==
    /\ pc[n] = "check"
    /\ \/ Proceed(n, "checkList") /\ ReadInstance(n) /\ UNCHANGED faults
       \/ Fault(n, "error") /\ Fail(n)
    /\ UNCHANGED <<cloud, ctx, tries>>

\* Mutant: the node's own static IP is not looked for.
CheckListNot(n) ==
    /\ pc[n] = "checkList"
    /\ Continue(n, "list")
    /\ UNCHANGED <<cloud, ctx, tries, faults>>

CheckList(n) ==
    /\ pc[n] = "checkList"
    /\ \/ conf[n] \in IPs /\ Return(n, conf[n]) /\ UNCHANGED faults
       \/ conf[n] \notin IPs /\ Continue(n, "list") /\ UNCHANGED faults
       \/ Fault(n, "error") /\ Fail(n)
    /\ UNCHANGED <<cloud, ctx, tries>>

List(n) ==
    /\ pc[n] = "list"
    /\ \/ Reserved # {} /\ Proceed(n, "delete") /\ todo' = [todo EXCEPT ![n] = Reserved]
            /\ UNCHANGED <<want, inst, faults>>
       \/ Reserved = {} /\ Fail(n) /\ UNCHANGED faults
       \/ Fault(n, "error") /\ Fail(n)
    /\ UNCHANGED <<cloud, ctx, tries>>

\* Mutant: a node without a public IP is an error.
DeleteStrict(n) ==
    /\ pc[n] = "delete"
    /\ \/ inst[n] = NoIP /\ Fail(n) /\ UNCHANGED <<op, late, waited, faults>>
       \/ inst[n] # NoIP /\ Submit(n, NoIP, "deleteWait", Fail(n))
    /\ UNCHANGED <<conf, others, ctx, tries>>

\* DeleteInstanceAddress of the current IP, if the instance had one.
Delete(n) ==
    /\ pc[n] = "delete"
    /\ \/ inst[n] = NoIP /\ Continue(n, "refresh") /\ UNCHANGED <<op, late, waited, faults>>
       \/ inst[n] # NoIP /\ Submit(n, NoIP, "deleteWait", Fail(n))
    /\ UNCHANGED <<conf, others, ctx, tries>>

DeleteWait(n) ==
    /\ pc[n] = "deleteWait"
    /\ \/ Waited(n) /\ Continue(n, "refresh")
       \/ OperationError(n) /\ Fail(n)
    /\ UNCHANGED <<conf, others, ctx, tries>>

\* The instance is read again.
Refresh(n) ==
    /\ pc[n] = "refresh"
    /\ \/ Proceed(n, "try") /\ ReadInstance(n) /\ UNCHANGED faults
       \/ Fault(n, "error") /\ Fail(n)
    /\ UNCHANGED <<cloud, ctx, tries>>

\* The loop over the available addresses ends without success, or the context does.
TryEnd(n) ==
    /\ pc[n] = "try"
    /\ todo[n] = {} \/ ctx[n] = "done"
    /\ Fail(n)
    /\ UNCHANGED <<cloud, ctx, tries, faults>>

\* tryAssignAddress of the next one begins with CheckAddressAssigned.
TryAddress(n, ip) ==
    /\ pc[n] = "try" /\ ctx[n] = "live"
    /\ ip \in todo[n]
    /\ todo' = [todo EXCEPT ![n] = @ \ {ip}]
    /\ \/ /\ ip \notin InUse
          /\ Proceed(n, "add")
          /\ want' = [want EXCEPT ![n] = ip]
          /\ UNCHANGED faults
       \/ ip \in InUse /\ Proceed(n, "try") /\ UNCHANGED <<want, faults>>
       \/ Fault(n, "error") /\ Proceed(n, "try") /\ UNCHANGED want
    /\ UNCHANGED <<cloud, ctx, inst, tries>>

\* AddInstanceAddress of the address that was free when it was checked.
Add(n) ==
    /\ pc[n] = "add"
    /\ Submit(n, want[n], "addWait", Continue(n, "try"))
    /\ UNCHANGED <<conf, others, ctx, tries>>

\* Mutants: the error of the operation is ignored, or waited out for ever.
AddWaitIgnoring(n) ==
    /\ pc[n] = "addWait"
    /\ (Waited(n) \/ OperationError(n)) /\ Return(n, want[n])
    /\ UNCHANGED <<conf, others, ctx, tries>>

AddWaitForDone(n) ==
    /\ pc[n] = "addWait"
    /\ Waited(n) /\ Return(n, want[n])
    /\ UNCHANGED <<conf, others, ctx, tries>>

AddWait(n) ==
    /\ pc[n] = "addWait"
    /\ \/ Waited(n) /\ Return(n, want[n])
       \/ OperationError(n) /\ Continue(n, "try")
    /\ UNCHANGED <<conf, others, ctx, tries>>

-----------------------------------------------------------------------------
(* Unassign, without the lock                                              *)

\* The agent is terminated, or could not remove the taint: releaseIP, with a context of
\* its own.
Unassign(n) ==
    /\ pc[n] = "assigned"
    /\ Continue(n, "unGet")
    /\ ctx' = [ctx EXCEPT ![n] = "live"]
    /\ UNCHANGED <<cloud, tries, faults>>

\* Unassign returns, and the process ends.
UnReturn(n, r) ==
    /\ result' = [result EXCEPT ![n] = r]
    /\ Goto(n, "down")
    /\ EndCall(n)
    /\ UNCHANGED inside

UnGet(n) ==
    /\ pc[n] = "unGet"
    /\ \/ Proceed(n, "unList") /\ ReadInstance(n) /\ UNCHANGED faults
       \/ Fault(n, "error") /\ UnReturn(n, "error")
    /\ UNCHANGED <<cloud, ctx, tries>>

\* No address in use is an error; none that is used by this node is not.
UnList(n) ==
    /\ pc[n] = "unList"
    /\ \/ InUse = {} /\ UnReturn(n, "error") /\ UNCHANGED faults
       \/ InUse # {} /\ conf[n] \notin IPs /\ UnReturn(n, "ok") /\ UNCHANGED faults
       \/ conf[n] \in IPs /\ Continue(n, "unDelete") /\ UNCHANGED faults
       \/ Fault(n, "error") /\ UnReturn(n, "error")
    /\ UNCHANGED <<cloud, ctx, tries>>

UnDelete(n) ==
    /\ pc[n] = "unDelete"
    /\ \/ inst[n] = NoIP /\ UnReturn(n, "error") /\ UNCHANGED <<op, late, waited, faults>>
       \/ inst[n] # NoIP /\ Submit(n, NoIP, "unDeleteWait", UnReturn(n, "error"))
    /\ UNCHANGED <<conf, others, ctx, tries>>

UnDeleteWait(n) ==
    /\ pc[n] = "unDeleteWait"
    /\ \/ Waited(n) /\ Continue(n, "unRefresh")
       \/ OperationError(n) /\ UnReturn(n, "error")
    /\ UNCHANGED <<conf, others, ctx, tries>>

UnRefresh(n) ==
    /\ pc[n] = "unRefresh"
    /\ \/ Proceed(n, "unAdd") /\ ReadInstance(n) /\ UNCHANGED faults
       \/ Fault(n, "error") /\ UnReturn(n, "error")
    /\ UNCHANGED <<cloud, ctx, tries>>

\* Mutant: one retry too many.
UnAddOnceMore(n) ==
    /\ pc[n] = "unAdd"
    /\ \/ /\ tries[n] <= MaxRetries /\ ctx[n] = "live"
          /\ tries' = [tries EXCEPT ![n] = @ + 1]
          /\ Submit(n, Ephemeral, "unAddWait", Continue(n, "unAdd"))
       \/ /\ tries[n] > MaxRetries \/ ctx[n] = "done"
          /\ UnReturn(n, "error")
          /\ UNCHANGED <<op, late, waited, tries, faults>>
    /\ UNCHANGED <<conf, others, ctx>>

\* retryAddEphemeralAddress
UnAdd(n) ==
    /\ pc[n] = "unAdd"
    /\ \/ /\ tries[n] < MaxRetries /\ ctx[n] = "live"
          /\ tries' = [tries EXCEPT ![n] = @ + 1]
          /\ Submit(n, Ephemeral, "unAddWait", Continue(n, "unAdd"))
       \/ /\ tries[n] = MaxRetries \/ ctx[n] = "done"
          /\ UnReturn(n, "error")
          /\ UNCHANGED <<op, late, waited, tries, faults>>
    /\ UNCHANGED <<conf, others, ctx>>

\* Mutant: the error of the operation is ignored.
UnAddWaitIgnoring(n) ==
    /\ pc[n] = "unAddWait"
    /\ (Waited(n) \/ OperationError(n)) /\ UnReturn(n, "ok")
    /\ UNCHANGED <<conf, others, ctx, tries>>

UnAddWait(n) ==
    /\ pc[n] = "unAddWait"
    /\ \/ Waited(n) /\ UnReturn(n, "ok")
       \/ OperationError(n) /\ Continue(n, "unAdd")
    /\ UNCHANGED <<conf, others, ctx, tries>>

-----------------------------------------------------------------------------

\* The lease runs out under its holder (see LeaseLock).
Expire(n) ==
    /\ n \in inside
    /\ Fault(n, "expire")
    /\ Unlock(n)
    /\ UNCHANGED <<cloud, ctx, locals, pc, tries, result>>

\* SIGTERM ends the context of Assign, a timeout of five minutes that of Unassign, at any
\* time: also while an operation is waited for.
Cancel(n) ==
    /\ pc[n] # "down" /\ ctx[n] = "live"
    /\ Fault(n, "cancel")
    /\ ctx' = [ctx EXCEPT ![n] = "done"]
    /\ UNCHANGED <<cloud, locals, pc, tries, result, inside>>

\* run returns: assignAddress gives up, or no release on exit is configured.
Exit(n) ==
    /\ pc[n] \in {"idle", "assigned"} /\ ctx[n] = "done"
    /\ Goto(n, "down")
    /\ result' = [result EXCEPT ![n] = "none"]
    /\ UNCHANGED <<cloud, ctx, locals, tries, inside, faults>>

\* The agent is killed; its lease runs out.
Crash(n) ==
    /\ pc[n] # "down"
    /\ Fault(n, "crash")
    /\ Abandon(n)
    /\ Goto(n, "down")
    /\ result' = [result EXCEPT ![n] = "error"]
    /\ Unlock(n)
    /\ EndCall(n)
    /\ UNCHANGED <<conf, others, ctx, tries>>

\* The DaemonSet starts the agent anew.
Restart(n) ==
    /\ pc[n] = "down"
    /\ Goto(n, "idle")
    /\ ctx' = [ctx EXCEPT ![n] = "live"]
    /\ tries' = [tries EXCEPT ![n] = 0]
    /\ result' = [result EXCEPT ![n] = "none"]
    /\ UNCHANGED <<cloud, locals, inside, faults>>

Step(n) ==
    \/ CheckGet(n) \/ CheckList(n) \/ List(n) \/ Delete(n) \/ DeleteWait(n) \/ Refresh(n)
    \/ TryEnd(n) \/ (\E ip \in IPs : TryAddress(n, ip)) \/ Add(n) \/ AddWait(n)
    \/ UnGet(n) \/ UnList(n) \/ UnDelete(n) \/ UnDeleteWait(n) \/ UnRefresh(n)
    \/ UnAdd(n) \/ UnAddWait(n)

Next ==
    \E n \in Nodes :
        \/ Lock(n) \/ Step(n) \/ Unassign(n) \/ Expire(n) \/ Cancel(n) \/ Exit(n)
        \/ Crash(n) \/ Restart(n) \/ Execute(n) \/ \E c \in PublicIPs : ExecuteLate(n, c)

Spec == Init /\ [][Next]_vars

\* Requests and operations are answered, agents whose context is done end, agents that
\* have ended are restarted, and an agent that keeps trying gets the lock
\* (WaitersGetThrough of LeaseLock gives it to some agent; the jitter of the back-off makes
\* it fair).  Unassign is not fair.
FairSpec ==
    /\ Spec
    /\ \A n \in Nodes : /\ SF_vars(Lock(n))
                        /\ WF_vars(Step(n))
                        /\ WF_vars(Execute(n))
                        /\ WF_vars(Exit(n))
                        /\ WF_vars(Restart(n))

-----------------------------------------------------------------------------
(* Properties                                                              *)

\* The assigner hands out the addresses as it promises, also when the lock has run out
\* under an agent and several of them are in Assign at once; and an agent that has not
\* waited for an operation of its own may be unsure of its address, but takes it from no
\* other node.
StaticIP == [n \in Nodes |-> IF conf[n] \in IPs THEN conf[n] ELSE NoIP]
PhaseAt(l) == CASE l = "assigned" -> "keeping"
                [] l \in {"unGet", "unList", "unDelete", "unDeleteWait", "unRefresh",
                           "unAdd", "unAddWait"} -> "releasing"
                [] OTHER -> "assigning"
Phase == [n \in Nodes |-> IF waited[n] THEN PhaseAt(pc[n]) ELSE "unsure"]
Promise == INSTANCE StaticIPs WITH addr <- StaticIP, phase <- Phase
ImplementsStaticIPs == Promise!Spec

\* What Assign returned is the address the node has, as long as the agent relies on it,
\* whatever the other agents assign and release, whichever requests and operations fail
\* and whenever contexts end, unless an operation on the node was not waited for.
AssignedIsAttached ==
    \A n \in Nodes : pc[n] = "assigned" /\ waited[n] => conf[n] = result[n]

\* A node whose Unassign succeeded has an ephemeral IP in place of the static one, unless
\* an operation on it was not waited for.
ReleasedIsEphemeral ==
    \A n \in Nodes : pc[n] = "down" /\ result[n] = "ok" /\ waited[n] => conf[n] = Ephemeral

\* As long as nothing fails, an Assign that finds no address has not cost the node
\* its ephemeral IP: under the lock, the addresses it has listed before it deletes
\* the ephemeral IP are still there when it tries them.
NeverWithoutAddress ==
    faults = 0 => \A n \in Nodes : pc[n] \in {"idle", "assigned", "down"} => conf[n] # NoIP

\* Whatever fails, Assign comes to an end and gives the lock back.
LockReleased == \A n \in Nodes : n \in inside ~> n \notin inside

\* With an address for every node, every agent that starts gets one attached, unless a
\* Wait fails by itself: then it may rely on an address it never gets.  An agent that was
\* terminated while it waited recovers when it is started anew.
EveryNodeServed ==
    others = {} =>
        \A n \in Nodes :
            pc[n] = "idle" ~> /\ pc[n] = "assigned"
                              /\ conf[n] = result[n] \/ (~waited[n] /\ ctx[n] = "live")

=============================================================================
