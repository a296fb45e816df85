------------------------------- MODULE LeaseLock -------------------------------
(***************************************************************************)
(* The cluster-wide lock of kubeip (internal/lease/lock.go).  Every agent  *)
(* runs Lock, a critical section (Assigner.Assign, see cmd/main.go) and    *)
(* Unlock against one Lease object of the Kubernetes API server, and a     *)
(* renewal goroutine runs beside the critical section.                     *)
(*                                                                         *)
(* Each call to the API server is one step, so the calls of all agents and *)
(* of their renewal goroutines interleave freely.  Agents may crash, be    *)
(* asked to terminate (the context of every later call is then cancelled), *)
(* restart under the same holder identity, and see calls fail; a call that *)
(* changes the Lease may fail before or after the server applied it.       *)
(*                                                                         *)
(* Time is counted in half seconds.  Only differences matter, so the Lease *)
(* carries the age of its RenewTime instead of the RenewTime itself.       *)
(***************************************************************************)
EXTENDS Naturals

CONSTANTS
    Agents,         \* holder identities: node.Instance, one agent per node
    NoHolder,       \* "there is no Lease object"
    LeaseDuration,  \* cfg.LeaseDuration, in seconds
    Steps,          \* how many times the back-off lets Lock try: 21 times, since wait.Backoff
                    \* has no steps left once the delay, 1.5^21 s, exceeds the cap
    MaxDelay,       \* how late, in half seconds, a renewal or an Unlock may run
    FaultKinds,     \* what the environment may inflict on the agents
    MaxFaults       \* how often it may do so

ASSUME LeaseAssumption ==
    /\ NoHolder \notin Agents
    /\ LeaseDuration \in Nat \ {0}
    /\ Steps \in Nat \ {0}
    /\ MaxDelay \in Nat
    /\ FaultKinds \subseteq {"crash", "term", "error"}
    /\ MaxFaults \in Nat

VARIABLES
    holder,   \* HolderIdentity of the Lease, or NoHolder
    age,      \* time since the RenewTime of the Lease
    pc,       \* pc[a]: where agent a is in Lock, Assign and Unlock
    tries,    \* tries[a]: attempts the current Lock has made
    renewer,  \* renewer[a]: the goroutine started by the last Lock of a
    timer,    \* timer[a]: time since a's last renewal tick, or since its Create or
              \*           its Unlock began
    current,  \* agents that have read the Lease to renew it, and whose Update of what
              \*           they have read would still succeed
    ctxDone,  \* agents whose context is cancelled
    faults    \* faults inflicted so far

leaseVars == <<holder, age, current>>
vars == <<holder, age, pc, tries, renewer, timer, current, ctxDone, faults>>

\* Twice as many half seconds; every age beyond the duration is as good as any other.
Duration == 2 * LeaseDuration
MaxAge == Duration + 1
Older(t) == IF t < MaxAge THEN t + 1 ELSE t

PCs == {"idle", "create", "get", "delete", "sleep", "failed",
        "crit", "unlockGet", "unlockDelete", "down"}

TypeOK ==
    /\ holder \in Agents \cup {NoHolder}
    /\ age \in 0..MaxAge
    /\ pc \in [Agents -> PCs]
    /\ tries \in [Agents -> 1..Steps]
    /\ renewer \in [Agents -> {"off", "wait", "update"}]
    /\ timer \in [Agents -> 0..MaxAge]
    /\ current \subseteq Agents
    /\ ctxDone \subseteq Agents
    /\ faults \in 0..MaxFaults

Init ==
    /\ holder = NoHolder
    /\ age = 0
    /\ pc = [a \in Agents |-> "idle"]
    /\ tries = [a \in Agents |-> 1]
    /\ renewer = [a \in Agents |-> "off"]
    /\ timer = [a \in Agents |-> 0]
    /\ current = {}
    /\ ctxDone = {}
    /\ faults = 0

-----------------------------------------------------------------------------
(* The API server and the calls made to it.                                *)

Fault(kind) == kind \in FaultKinds /\ faults < MaxFaults /\ faults' = faults + 1

CallWorks(a) == a \notin ctxDone /\ UNCHANGED faults

CallFails(a) == \/ a \in ctxDone /\ UNCHANGED faults
                \/ Fault("error")

\* Every write gives the Lease a new resourceVersion.
WriteLease(h, t) ==
    /\ holder' = h
    /\ age' = t
    /\ current' = {}

\* The RenewTime of a new Lease is taken before the call that creates it.
CreateLease(a) == holder = NoHolder /\ WriteLease(a, timer[a])

\* Leases().Delete by name, with no precondition on what is deleted.
DeleteLease == holder # NoHolder /\ WriteLease(NoHolder, 0)

\* Mutant: a patch that does not carry the resourceVersion.
PatchLease(a, t) == WriteLease(a, t)

\* Leases().Update of the object the goroutine has read: refused on a conflict.
UpdateLease(a, t) == a \in current /\ WriteLease(a, t)

\* Mutant: half the duration.
ExpiredEarly == age > LeaseDuration

Expired == age > Duration

Goto(a, l) == pc' = [pc EXCEPT ![a] = l]

StopRenewer(a) == renewer' = [renewer EXCEPT ![a] = "off"]

-----------------------------------------------------------------------------
(* Lock                                                                    *)

\* One iteration of assignAddress calls Lock.
Start(a) ==
    /\ pc[a] \in {"idle", "failed"}
    /\ tries' = [tries EXCEPT ![a] = 1]
    /\ timer' = [timer EXCEPT ![a] = 0]
    /\ Goto(a, "create")
    /\ UNCHANGED <<leaseVars, renewer, ctxDone, faults>>

\* The condition function returned (false, nil): sleep, even after the last attempt.
BackOff(a) == Goto(a, "sleep")

\* Create: on success the lock is held and the renewal goroutine runs.
LockCreate(a) ==
    /\ pc[a] = "create"
    /\ \/ /\ CallWorks(a)
          /\ CreateLease(a)
          /\ renewer' = [renewer EXCEPT ![a] = "wait"]
          /\ timer' = [timer EXCEPT ![a] = 0]
          /\ Goto(a, "crit")
       \/ /\ CallWorks(a)
          /\ holder # NoHolder
          /\ Goto(a, "get")
          /\ UNCHANGED <<leaseVars, renewer, timer>>
       \/ /\ CallFails(a)
          /\ UNCHANGED leaseVars \/ CreateLease(a)
          /\ Goto(a, "failed")
          /\ UNCHANGED <<renewer, timer>>
    /\ UNCHANGED <<tries, ctxDone>>

\* Get after AlreadyExists.  The Lease may be gone by now, which is an error.
LockGet(a) ==
    /\ pc[a] = "get"
    /\ \/ /\ CallWorks(a)
          /\ \/ holder = NoHolder /\ Goto(a, "failed")
             \/ holder # NoHolder /\ Expired /\ Goto(a, "delete")
             \/ holder \notin {NoHolder, a} /\ ~Expired /\ BackOff(a)
             \/ holder = a /\ ~Expired /\ Goto(a, "crit")
       \/ CallFails(a) /\ Goto(a, "failed")
    /\ UNCHANGED <<leaseVars, tries, renewer, timer, ctxDone>>

\* Mutant: the expired Lease is left to its holder.
LockDeleteNot(a) ==
    /\ pc[a] = "delete"
    /\ BackOff(a)
    /\ UNCHANGED <<leaseVars, tries, renewer, timer, ctxDone, faults>>

\* Delete of a Lease that was seen expired.
LockDelete(a) ==
    /\ pc[a] = "delete"
    /\ \/ CallWorks(a) /\ DeleteLease /\ BackOff(a)
       \/ CallWorks(a) /\ holder = NoHolder /\ Goto(a, "failed") /\ UNCHANGED leaseVars
       \/ CallFails(a) /\ Goto(a, "failed") /\ (UNCHANGED leaseVars \/ DeleteLease)
    /\ UNCHANGED <<tries, renewer, timer, ctxDone>>

TryAgain(a) ==
    /\ tries' = [tries EXCEPT ![a] = @ + 1]
    /\ timer' = [timer EXCEPT ![a] = 0]
    /\ Goto(a, "create")

TimeOut(a) == Goto(a, "failed") /\ UNCHANGED <<tries, timer>>

\* Mutant: one attempt too many.
WakeOnceMore(a) ==
    /\ pc[a] = "sleep"
    /\ \/ tries[a] <= Steps /\ TryAgain(a)
       \/ tries[a] > Steps /\ TimeOut(a)
    /\ UNCHANGED <<leaseVars, renewer, ctxDone, faults>>

\* The sleep of the back-off ends, which does not look at the context: another attempt,
\* or ErrWaitTimeout.
Wake(a) ==
    /\ pc[a] = "sleep"
    /\ \/ tries[a] < Steps /\ TryAgain(a)
       \/ tries[a] = Steps /\ TimeOut(a)
    /\ UNCHANGED <<leaseVars, renewer, ctxDone, faults>>

-----------------------------------------------------------------------------
(* Renewal goroutine                                                       *)

\* The ticker fires: Get, and stop for good unless the Lease is still a's.  The
\* ticker keeps its schedule, so a tick that was served late is followed by one
\* that comes early.
RenewGet(a) ==
    /\ renewer[a] = "wait"
    /\ timer[a] + MaxDelay >= LeaseDuration
    /\ \/ /\ CallWorks(a)
          /\ holder = a
          /\ renewer' = [renewer EXCEPT ![a] = "update"]
          /\ timer' = [timer EXCEPT ![a] = 0]
          /\ current' = current \cup {a}
       \/ /\ CallWorks(a) /\ holder # a
          /\ StopRenewer(a)
          /\ UNCHANGED <<timer, current>>
       \/ /\ CallFails(a)
          /\ StopRenewer(a)
          /\ UNCHANGED <<timer, current>>
    /\ UNCHANGED <<holder, age, pc, tries, ctxDone>>

\* Mutant: the goroutine renews once and returns.
RenewUpdateOnce(a) ==
    /\ renewer[a] = "update"
    /\ \/ CallWorks(a) /\ UpdateLease(a, timer[a])
       \/ CallWorks(a) /\ a \notin current /\ UNCHANGED leaseVars
       \/ CallFails(a) /\ (UNCHANGED leaseVars \/ UpdateLease(a, timer[a]))
    /\ StopRenewer(a)
    /\ UNCHANGED <<pc, tries, timer, ctxDone>>

\* Update with the RenewTime taken after the Get; its result is ignored.
RenewUpdate(a) ==
    /\ renewer[a] = "update"
    /\ \/ CallWorks(a) /\ UpdateLease(a, timer[a])
       \/ CallWorks(a) /\ a \notin current /\ UNCHANGED leaseVars
       \/ CallFails(a) /\ (UNCHANGED leaseVars \/ UpdateLease(a, timer[a]))
    /\ renewer' = [renewer EXCEPT ![a] = "wait"]
    /\ UNCHANGED <<pc, tries, timer, ctxDone>>

\* An Update whose goroutine was cancelled, or gave up on it, reaches the server.
UpdateLands(a) ==
    /\ renewer[a] # "update"
    /\ \E t \in 0..age : UpdateLease(a, t)
    /\ UNCHANGED <<pc, tries, renewer, timer, ctxDone, faults>>

-----------------------------------------------------------------------------
(* Unlock                                                                  *)

\* Mutant: cancelFunc is not called.
UnlockWithoutCancel(a) ==
    /\ pc[a] = "crit"
    /\ timer' = [timer EXCEPT ![a] = 0]
    /\ Goto(a, "unlockGet")
    /\ UNCHANGED <<leaseVars, tries, renewer, ctxDone, faults>>

\* Assign returned; the deferred Unlock first cancels the goroutine.
Unlock(a) ==
    /\ pc[a] = "crit"
    /\ StopRenewer(a)
    /\ timer' = [timer EXCEPT ![a] = 0]
    /\ Goto(a, "unlockGet")
    /\ UNCHANGED <<leaseVars, tries, ctxDone, faults>>

UnlockGet(a) ==
    /\ pc[a] = "unlockGet"
    /\ \/ CallWorks(a) /\ Goto(a, IF holder = a THEN "unlockDelete" ELSE "idle")
       \/ CallFails(a) /\ Goto(a, "idle")
    /\ UNCHANGED <<leaseVars, tries, renewer, timer, ctxDone>>

UnlockDelete(a) ==
    /\ pc[a] = "unlockDelete"
    /\ \/ CallWorks(a) /\ DeleteLease
       \/ CallWorks(a) /\ holder = NoHolder /\ UNCHANGED leaseVars
       \/ CallFails(a) /\ (UNCHANGED leaseVars \/ DeleteLease)
    /\ Goto(a, "idle")
    /\ UNCHANGED <<tries, renewer, timer, ctxDone>>

-----------------------------------------------------------------------------
(* The process the lock lives in, and time                                 *)

\* SIGTERM or SIGINT: the context is cancelled, and the goroutine's with it.
Terminate(a) ==
    /\ pc[a] # "down" /\ a \notin ctxDone
    /\ Fault("term")
    /\ ctxDone' = ctxDone \cup {a}
    /\ StopRenewer(a)
    /\ UNCHANGED <<leaseVars, pc, tries, timer>>

\* A cancelled agent, or one whose attempts are used up, ends its process.
Exit(a) ==
    /\ pc[a] = "failed" \/ (pc[a] = "idle" /\ a \in ctxDone)
    /\ Goto(a, "down")
    /\ UNCHANGED <<leaseVars, tries, renewer, timer, ctxDone, faults>>

\* The container is killed or its node reboots.
Crash(a) ==
    /\ pc[a] # "down"
    /\ Fault("crash")
    /\ StopRenewer(a)
    /\ Goto(a, "down")
    /\ UNCHANGED <<leaseVars, tries, timer, ctxDone>>

\* The DaemonSet starts a new agent on the same node: same holder identity.
Restart(a) ==
    /\ pc[a] = "down"
    /\ ctxDone' = ctxDone \ {a}
    /\ Goto(a, "idle")
    /\ UNCHANGED <<leaseVars, tries, renewer, timer, faults>>

\* A renewal starts, and a Create, an Update and an Unlock complete, at most
\* MaxDelay late; nothing else is bounded in time.
Timed(a) == renewer[a] # "off" \/ pc[a] \in {"create", "unlockGet", "unlockDelete"}

OnTime(a) ==
    Timed(a) => timer[a] < MaxDelay + (IF renewer[a] = "wait" THEN LeaseDuration ELSE 0)

Tick ==
    /\ \A a \in Agents : OnTime(a)
    /\ age' = IF holder = NoHolder THEN age ELSE Older(age)
    /\ timer' = [a \in Agents |-> IF Timed(a) THEN Older(timer[a]) ELSE timer[a]]
    /\ UNCHANGED <<holder, pc, tries, renewer, current, ctxDone, faults>>

-----------------------------------------------------------------------------

\* Steps a running agent takes by itself, apart from a further call of Lock.
LockStep(a) ==
    \/ LockCreate(a) \/ LockGet(a) \/ LockDelete(a) \/ Wake(a)
    \/ Unlock(a) \/ UnlockGet(a) \/ UnlockDelete(a)

Renew(a) == RenewGet(a) \/ RenewUpdate(a)

Environment(a) == UpdateLands(a) \/ Terminate(a) \/ Crash(a) \/ Restart(a)

Next ==
    \/ Tick
    \/ \E a \in Agents : Start(a) \/ LockStep(a) \/ Renew(a) \/ Exit(a) \/ Environment(a)

Spec == Init /\ [][Next]_vars

\* Retrying a failed Lock is the loop of assignAddress, so it is fair.  Its select
\* may prefer the ticker to a cancelled context, but not for ever.  Calling Lock
\* from "idle", giving up and being restarted are not fair.
FairSpec ==
    /\ Spec
    /\ WF_vars(Tick)
    /\ \A a \in Agents : /\ WF_vars(LockStep(a))
                         /\ WF_vars(Renew(a))
                         /\ WF_vars(pc[a] = "failed" /\ Start(a))
                         /\ SF_vars(a \in ctxDone /\ Exit(a))

-----------------------------------------------------------------------------
(* Properties                                                              *)

\* The goroutine of renewLeasePeriodically never outlives the critical section
\* it was started for, whatever crashed, failed or was cancelled: a leaked one
\* would keep the lock of an agent that no longer works under it.
RenewerInsideCriticalSection ==
    \A a \in Agents : renewer[a] # "off" => pc[a] = "crit"

\* A Lease never passes from one holder to another without being deleted, and
\* comes into being only through the Create of Lock: a renewal that is late, or
\* that lands after its goroutine was cancelled, neither revives a Lease that was
\* deleted nor takes over one that another agent has created since.
LeaseWrittenByHolder ==
    [][holder' # NoHolder /\ holder' # holder =>
          holder = NoHolder /\ pc[holder'] = "create"]_vars

\* At most one agent runs Assign at a time ("cluster wide lock", cmd/main.go).
MutualExclusion ==
    \A a, b \in Agents : pc[a] = "crit" /\ pc[b] = "crit" => a = b

\* The Lease, its renewals and its deletions implement the abstract lock: an agent
\* gets into Assign only when no other agent is in there.
Inside == {a \in Agents : pc[a] = "crit"}
Cluster == INSTANCE ClusterLock WITH inside <- Inside
ImplementsClusterLock == Cluster!Spec

\* Lock waits for the lock: as long as no call fails it gives up only when the
\* back-off is used up.
LockWaitsUntilAcquired ==
    \A a \in Agents : pc[a] = "failed" => tries[a] = Steps

\* Unlock never deletes a Lease held by another agent, although the renewal is off
\* and time passes between its Get and its Delete.
UnlockKeepsOthersLease ==
    [][\A a \in Agents : pc[a] = "unlockDelete" /\ pc'[a] = "idle" /\ holder' # holder
                            => holder = a]_vars

\* A Lease left behind by an agent that crashed, was cancelled or could not
\* delete it does not block the others for ever: while some agent is trying to
\* lock, some agent gets into the critical section.
Locking(a) == pc[a] \in {"create", "get", "delete", "sleep", "failed"}
WaitersGetThrough ==
    \A a \in Agents : Locking(a) ~> (pc[a] = "down" \/ \E b \in Agents : pc[b] = "crit")

=============================================================================
