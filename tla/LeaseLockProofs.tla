---------------------------- MODULE LeaseLockProofs ----------------------------
(***************************************************************************)
(* What LeaseLock guarantees for every number of agents, lease duration,   *)
(* number of attempts, delay and fault budget.                             *)
(***************************************************************************)
EXTENDS LeaseLock, TLAPS

\* An Update that can still succeed is an Update of the agent's own Lease.
CurrentIsOwn == \A a \in current : holder = a

\* The inductive invariant behind what holds whatever the environment does.
SafeInv == TypeOK /\ RenewerInsideCriticalSection /\ CurrentIsOwn

LEMMA SafeInvInit == Init => SafeInv
  BY LeaseAssumption
     DEF Init, SafeInv, TypeOK, RenewerInsideCriticalSection, CurrentIsOwn, PCs, MaxAge, Duration

\* Time that passes stays in range.
LEMMA OlderInRange == \A t \in 0..MaxAge : Older(t) \in 0..MaxAge /\ Older(t) >= t
  BY LeaseAssumption DEF Older, MaxAge, Duration

LEMMA SafeInvStep == SafeInv /\ [Next]_vars => SafeInv'
<1> SUFFICES ASSUME SafeInv, [Next]_vars PROVE SafeInv'
  OBVIOUS
<1> USE LeaseAssumption
        DEF SafeInv, TypeOK, RenewerInsideCriticalSection, CurrentIsOwn, PCs,
            leaseVars, Fault, CallWorks, CallFails, WriteLease, Goto, StopRenewer
<1>0. 0 \in 0..MaxAge
  BY DEF MaxAge, Duration
<1>1. CASE Tick
  BY <1>1, OlderInRange DEF Tick
<1>2. ASSUME NEW a \in Agents, Start(a) PROVE SafeInv'
  BY <1>0, <1>2 DEF Start
<1>3. ASSUME NEW a \in Agents, LockCreate(a) PROVE SafeInv'
  BY <1>0, <1>3 DEF LockCreate, CreateLease
<1>4. ASSUME NEW a \in Agents, LockGet(a) PROVE SafeInv'
  BY <1>4 DEF LockGet, BackOff
<1>5. ASSUME NEW a \in Agents, LockDelete(a) PROVE SafeInv'
  BY <1>0, <1>5 DEF LockDelete, DeleteLease, BackOff
<1>6. ASSUME NEW a \in Agents, Wake(a) PROVE SafeInv'
  BY <1>0, <1>6 DEF Wake, TryAgain, TimeOut
<1>7. ASSUME NEW a \in Agents, RenewGet(a) PROVE SafeInv'
  BY <1>0, <1>7 DEF RenewGet
<1>8. ASSUME NEW a \in Agents, RenewUpdate(a) PROVE SafeInv'
  BY <1>8 DEF RenewUpdate, UpdateLease
<1>8a. ASSUME NEW a \in Agents, UpdateLands(a) PROVE SafeInv'
  <2>1. PICK t \in 0..age : UpdateLease(a, t)
    BY <1>8a DEF UpdateLands
  <2>2. t \in 0..MaxAge
    BY DEF MaxAge, Duration
  <2>3. QED
    BY <1>8a, <2>1, <2>2 DEF UpdateLands, UpdateLease
<1>9. ASSUME NEW a \in Agents, Unlock(a) PROVE SafeInv'
  BY <1>0, <1>9 DEF Unlock
<1>10. ASSUME NEW a \in Agents, UnlockGet(a) PROVE SafeInv'
  BY <1>10 DEF UnlockGet
<1>11. ASSUME NEW a \in Agents, UnlockDelete(a) PROVE SafeInv'
  BY <1>0, <1>11 DEF UnlockDelete, DeleteLease
<1>12. ASSUME NEW a \in Agents, Terminate(a) PROVE SafeInv'
  BY <1>12 DEF Terminate
<1>13. ASSUME NEW a \in Agents, Exit(a) PROVE SafeInv'
  BY <1>13 DEF Exit
<1>14. ASSUME NEW a \in Agents, Crash(a) PROVE SafeInv'
  BY <1>14 DEF Crash
<1>15. ASSUME NEW a \in Agents, Restart(a) PROVE SafeInv'
  BY <1>15 DEF Restart
<1>16. CASE UNCHANGED vars
  BY <1>16 DEF vars
<1>17. QED
  BY <1>1, <1>2, <1>3, <1>4, <1>5, <1>6, <1>7, <1>8, <1>8a, <1>9, <1>10, <1>11, <1>12,
     <1>13, <1>14, <1>15, <1>16 DEF Next, LockStep, Renew, Environment

-----------------------------------------------------------------------------

\* Whatever crashes, fails or is cancelled, the lock stays well typed: no age or
\* timer leaves its range, and the back-off never exceeds its attempts.
THEOREM TypeCorrect == Spec => []TypeOK
<1>1. SafeInv => TypeOK
  BY DEF SafeInv
<1>2. QED
  BY <1>1, SafeInvInit, SafeInvStep, PTL DEF Spec

\* The renewal goroutine of lock.go never outlives its critical section.
THEOREM RenewerConfined == Spec => []RenewerInsideCriticalSection
<1>1. SafeInv => RenewerInsideCriticalSection
  BY DEF SafeInv
<1>2. QED
  BY <1>1, SafeInvInit, SafeInvStep, PTL DEF Spec

\* A step that gives the Lease a new holder is the Create of that holder's Lock.
LEMMA HolderStep ==
  ASSUME SafeInv, [Next]_vars, holder' # NoHolder, holder' # holder
  PROVE  holder = NoHolder /\ pc[holder'] = "create"
<1> USE LeaseAssumption DEF SafeInv, CurrentIsOwn, leaseVars, WriteLease
<1>1. ASSUME NEW a \in Agents, LockCreate(a)
      PROVE  holder = NoHolder /\ pc[holder'] = "create"
  BY <1>1 DEF LockCreate, CreateLease
<1>2. ASSUME NEW a \in Agents, Renew(a) \/ UpdateLands(a) PROVE holder' = holder
  BY <1>2 DEF Renew, RenewGet, RenewUpdate, UpdateLands, UpdateLease
<1>3. ASSUME NEW a \in Agents, LockDelete(a) \/ UnlockDelete(a)
      PROVE  holder' \in {holder, NoHolder}
  BY <1>3 DEF LockDelete, UnlockDelete, DeleteLease
<1>4. ASSUME NEW a \in Agents,
             \/ Start(a) \/ LockGet(a) \/ Wake(a) \/ Unlock(a) \/ UnlockGet(a)
             \/ Exit(a) \/ Terminate(a) \/ Crash(a) \/ Restart(a)
      PROVE  holder' = holder
  BY <1>4 DEF Start, LockGet, Wake, TryAgain, TimeOut, Unlock, UnlockGet, Exit, Terminate, Crash, Restart
<1>5. CASE Tick \/ UNCHANGED vars
  BY <1>5 DEF Tick, vars
<1>6. QED
  BY <1>1, <1>2, <1>3, <1>4, <1>5 DEF Next, LockStep, Environment

\* A late renewal neither revives a deleted Lease nor takes over another's.
THEOREM HandOverByDeletion == Spec => LeaseWrittenByHolder
<1>1. SafeInv /\ [Next]_vars =>
        [holder' # NoHolder /\ holder' # holder =>
            holder = NoHolder /\ pc[holder'] = "create"]_vars
  BY HolderStep
<1>2. QED
  BY <1>1, SafeInvInit, SafeInvStep, PTL DEF Spec, LeaseWrittenByHolder

-----------------------------------------------------------------------------
(* Mutual exclusion.  It needs agents that neither crash nor fail, and     *)
(* renewals and unlocks that are at most an eighth of the lease duration   *)
(* late: between the RenewTime of one renewal and the success of the next, *)
(* or the Delete of Unlock, four of these delays can add up.               *)

Timely == FaultKinds = {} /\ 4 * MaxDelay <= LeaseDuration

Holding(a) == pc[a] \in {"crit", "unlockGet", "unlockDelete"}

\* The Lease is exactly the lock, and nobody is about to delete it as expired.
LeaseIsLock == /\ \A a \in Agents : Holding(a) <=> holder = a
               /\ \A a \in Agents : pc[a] # "delete"

\* The holder has a goroutine at work, whose Update will succeed.
RenewerAlive == /\ ctxDone = {}
                /\ \A a \in Agents : pc[a] = "crit" => renewer[a] # "off"
                /\ \A a \in Agents : renewer[a] = "update" => a \in current

Deadline(a) == MaxDelay + (IF renewer[a] = "wait" THEN LeaseDuration ELSE 0)

TimersInBounds == \A a \in Agents : Timed(a) => timer[a] <= Deadline(a)

\* How old the Lease can be, counted along one round of renewal and through Unlock.
LeaseFresh ==
    \A a \in Agents : holder = a =>
        /\ renewer[a] = "wait" => age <= timer[a] + MaxDelay
        /\ renewer[a] = "update" => age <= LeaseDuration + 2 * MaxDelay + timer[a]
        /\ pc[a] \in {"unlockGet", "unlockDelete"} =>
               age <= LeaseDuration + 3 * MaxDelay + timer[a]

MutexInv == SafeInv /\ LeaseIsLock /\ RenewerAlive /\ TimersInBounds /\ LeaseFresh

LEMMA MutexInvInit == Init => MutexInv
<1> SUFFICES ASSUME Init PROVE MutexInv
  OBVIOUS
<1>1. SafeInv
  BY SafeInvInit
<1>2. QED
  BY <1>1, LeaseAssumption
     DEF Init, MutexInv, LeaseIsLock, RenewerAlive, TimersInBounds, LeaseFresh, Holding,
         Timed, Deadline

\* The bound that keeps a held Lease from expiring.
LEMMA HeldLeaseNotExpired ==
  ASSUME Timely, MutexInv, holder # NoHolder PROVE ~Expired
<1>1. PICK a \in Agents : holder = a
  BY DEF MutexInv, SafeInv, TypeOK
<1>2. timer[a] \in Nat /\ age \in Nat
  BY LeaseAssumption DEF MutexInv, SafeInv, TypeOK, MaxAge, Duration
<1>3. renewer[a] \in {"wait", "update"} \/ pc[a] \in {"unlockGet", "unlockDelete"}
  BY <1>1 DEF MutexInv, SafeInv, TypeOK, LeaseIsLock, RenewerAlive, Holding
<1>4. timer[a] <= Deadline(a)
  BY <1>3 DEF MutexInv, TimersInBounds, Timed
<1>5. age <= LeaseDuration + 4 * MaxDelay
  BY <1>1, <1>2, <1>3, <1>4, LeaseAssumption
     DEF MutexInv, SafeInv, RenewerInsideCriticalSection, LeaseFresh, Deadline
<1>6. QED
  BY <1>2, <1>5, LeaseAssumption DEF Timely, Expired, Duration

LEMMA MutexInvStep ==
  ASSUME Timely PROVE MutexInv /\ [Next]_vars => MutexInv'
<1> SUFFICES ASSUME MutexInv, [Next]_vars PROVE MutexInv'
  OBVIOUS
<1>0. SafeInv /\ SafeInv'
  BY SafeInvStep DEF MutexInv
<1>a. /\ \A kind : ~Fault(kind)
      /\ \A a \in Agents : ~CallFails(a)
  BY DEF Timely, Fault, CallFails, MutexInv, RenewerAlive
<1>b. holder # NoHolder => ~Expired
  BY HeldLeaseNotExpired
<1>c. /\ LeaseDuration \in Nat /\ MaxDelay \in Nat /\ NoHolder \notin Agents
      /\ age \in Nat /\ age' \in Nat
      /\ \A a \in Agents : timer[a] \in Nat /\ timer'[a] \in Nat
  BY <1>0, LeaseAssumption DEF SafeInv, TypeOK, MaxAge, Duration
<1> USE <1>0, <1>c DEF LeaseIsLock, RenewerAlive, TimersInBounds, LeaseFresh, Holding,
        Timed, Deadline, leaseVars, WriteLease, Goto, StopRenewer
<1>1. CASE Tick
  <2>1. age' <= age + 1
    BY <1>1 DEF Tick, Older
  <2>2. \A a \in Agents : Timed(a) => timer'[a] = timer[a] + 1
    BY <1>1, LeaseAssumption DEF Tick, OnTime, Older, MaxAge, Duration, Timely
  <2>3. TimersInBounds'
    BY <1>1, <2>2 DEF Tick, OnTime
  <2>4. LeaseFresh'
    BY <1>1, <2>1, <2>2 DEF Tick, MutexInv
  <2>5. QED
    BY <1>1, <2>3, <2>4 DEF Tick, MutexInv
<1>2. ASSUME NEW a \in Agents, Start(a) PROVE MutexInv'
  BY <1>2 DEF Start, MutexInv, SafeInv, TypeOK, RenewerInsideCriticalSection
<1>3. ASSUME NEW a \in Agents, LockCreate(a) PROVE MutexInv'
  <2>1. CASE holder = NoHolder
    BY <1>a, <1>3, <2>1
       DEF LockCreate, CreateLease, MutexInv, SafeInv, TypeOK, RenewerInsideCriticalSection
  <2>2. CASE holder # NoHolder
    BY <1>a, <1>3, <2>2
       DEF LockCreate, CreateLease, MutexInv, SafeInv, TypeOK, RenewerInsideCriticalSection
  <2>3. QED
    BY <2>1, <2>2
<1>4. ASSUME NEW a \in Agents, LockGet(a) PROVE MutexInv'
  BY <1>a, <1>b, <1>4 DEF LockGet, BackOff, MutexInv, SafeInv, TypeOK
<1>5. ASSUME NEW a \in Agents, LockDelete(a) PROVE MutexInv'
  BY <1>5 DEF LockDelete, MutexInv
<1>6. ASSUME NEW a \in Agents, Wake(a) PROVE MutexInv'
  BY <1>6 DEF Wake, TryAgain, TimeOut, MutexInv, SafeInv, TypeOK, RenewerInsideCriticalSection
<1>7. ASSUME NEW a \in Agents, RenewGet(a) PROVE MutexInv'
  BY <1>a, <1>7 DEF RenewGet, MutexInv, SafeInv, TypeOK, RenewerInsideCriticalSection
<1>8. ASSUME NEW a \in Agents, RenewUpdate(a) PROVE MutexInv'
  BY <1>a, <1>8 DEF RenewUpdate, UpdateLease, MutexInv, SafeInv, TypeOK,
                    RenewerInsideCriticalSection, CurrentIsOwn
<1>9. ASSUME NEW a \in Agents, UpdateLands(a) PROVE MutexInv'
  BY <1>9 DEF UpdateLands, UpdateLease, MutexInv, SafeInv, TypeOK, CurrentIsOwn
<1>10. ASSUME NEW a \in Agents, Unlock(a) PROVE MutexInv'
  BY <1>10 DEF Unlock, MutexInv, SafeInv, TypeOK
<1>11. ASSUME NEW a \in Agents, UnlockGet(a) PROVE MutexInv'
  BY <1>a, <1>11 DEF UnlockGet, MutexInv, SafeInv, TypeOK
<1>12. ASSUME NEW a \in Agents, UnlockDelete(a) PROVE MutexInv'
  BY <1>a, <1>12 DEF UnlockDelete, DeleteLease, MutexInv, SafeInv, TypeOK,
                     RenewerInsideCriticalSection
<1>13. ASSUME NEW a \in Agents, Terminate(a) \/ Crash(a) PROVE MutexInv'
  BY <1>a, <1>13 DEF Terminate, Crash
<1>14. ASSUME NEW a \in Agents, Exit(a) \/ Restart(a) PROVE MutexInv'
  BY <1>14 DEF Exit, Restart, MutexInv, SafeInv, TypeOK
<1>15. CASE UNCHANGED vars
  BY <1>15 DEF vars, MutexInv
<1>16. QED
  BY <1>1, <1>2, <1>3, <1>4, <1>5, <1>6, <1>7, <1>8, <1>9, <1>10, <1>11, <1>12,
     <1>13, <1>14, <1>15 DEF Next, LockStep, Renew, Environment

\* At most one agent is inside Assign, for any number of agents, any duration of
\* the lease and any number of attempts.
THEOREM Mutex ==
  ASSUME Timely PROVE Spec => []MutualExclusion
<1>1. MutexInv => MutualExclusion
  BY DEF MutexInv, LeaseIsLock, Holding, MutualExclusion
<1>2. QED
  BY <1>1, MutexInvInit, MutexInvStep, PTL DEF Spec

\* The Lease that Unlock deletes is the agent's own, which it holds from its Get to
\* its Delete although the renewal is off.
THEOREM UnlockDeletesOwn ==
  ASSUME Timely PROVE Spec => UnlockKeepsOthersLease
<1>1. MutexInv /\ [Next]_vars =>
        [\A a \in Agents : pc[a] = "unlockDelete" /\ pc'[a] = "idle" /\ holder' # holder
                              => holder = a]_vars
  BY DEF MutexInv, LeaseIsLock, Holding
<1>2. QED
  BY <1>1, MutexInvInit, MutexInvStep, PTL DEF Spec, UnlockKeepsOthersLease

\* Every step of the lock is a step of the abstract lock, or leaves it alone.
LEMMA ClusterStep ==
  ASSUME MutexInv, MutexInv', [Next]_vars PROVE [Cluster!Next]_Inside
<1> USE DEF MutexInv, SafeInv, TypeOK, LeaseIsLock, Holding, Inside, Goto
<1>1. ASSUME NEW a \in Agents, LockCreate(a) \/ LockGet(a), Inside' # Inside
      PROVE  Inside = {} /\ Inside' = {a}
  <2>1. holder' = a /\ pc'[a] = "crit" /\ (holder = NoHolder \/ holder = a)
    BY <1>1 DEF LockCreate, LockGet, CreateLease, WriteLease, BackOff
  <2>2. pc[a] # "crit" /\ ~Holding(a)
    BY <1>1 DEF LockCreate, LockGet
  <2>3. QED
    BY <2>1, <2>2, LeaseAssumption
<1>2. ASSUME NEW a \in Agents, Unlock(a) \/ Crash(a), Inside' # Inside
      PROVE  a \in Inside /\ Inside' = Inside \ {a}
  BY <1>2 DEF Unlock, Crash
<1>3. ASSUME NEW a \in Agents,
             \/ Start(a) \/ LockDelete(a) \/ Wake(a) \/ UnlockGet(a) \/ UnlockDelete(a)
             \/ Exit(a) \/ Restart(a)
      PROVE  Inside' = Inside
  BY <1>3 DEF Start, LockDelete, Wake, TryAgain, TimeOut, UnlockGet, UnlockDelete, Exit, Restart, BackOff
<1>4. ASSUME NEW a \in Agents, Renew(a) \/ UpdateLands(a) \/ Terminate(a)
      PROVE  Inside' = Inside
  BY <1>4 DEF Renew, RenewGet, RenewUpdate, UpdateLands, Terminate
<1>5. CASE Tick \/ UNCHANGED vars
  BY <1>5 DEF Tick, vars
<1>6. QED
  BY <1>1, <1>2, <1>3, <1>4, <1>5
     DEF Next, LockStep, Environment, Cluster!Next, Cluster!Enter, Cluster!Leave

\* The lease implements the lock that the code under it relies on.
THEOREM LeaseImplementsLock ==
  ASSUME Timely PROVE Spec => ImplementsClusterLock
<1>1. Init => Cluster!Init
  BY DEF Init, Cluster!Init, Inside
<1>2. QED
  BY <1>1, MutexInvInit, MutexInvStep, ClusterStep, PTL
     DEF Spec, ImplementsClusterLock, Cluster!Spec

=============================================================================
