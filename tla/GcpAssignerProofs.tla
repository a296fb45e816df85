--------------------------- MODULE GcpAssignerProofs ---------------------------
(***************************************************************************)
(* What the Google Cloud assigner guarantees for every set of nodes and    *)
(* addresses and every fault budget: in three layers, whatever happens; on *)
(* a node whose operations were all waited for; and as long as nothing     *)
(* fails.                                                                  *)
(***************************************************************************)
EXTENDS GcpAssigner, TLAPS

(* Whatever happens                                                        *)

\* The access config asked for is the one that the place in the code calls for.
WantFits ==
    \A n \in Nodes :
        /\ pc[n] \in {"add", "addWait"} => want[n] \in IPs
        /\ pc[n] \in {"deleteWait", "unDeleteWait"} => want[n] = NoIP
        /\ pc[n] = "unAddWait" => want[n] = Ephemeral

\* There is an operation to wait for exactly where the code waits for one.
Waits == {"deleteWait", "addWait", "unDeleteWait", "unAddWait"}
OpIsAwaited == \A n \in Nodes : op[n] # "none" <=> pc[n] \in Waits

\* An operation that runs late is one its agent did not wait for.
LateIsUnwaited == \A n \in Nodes : waited[n] => NoneLate(n)

SafeInv == TypeOK /\ WantFits /\ OpIsAwaited /\ LateIsUnwaited

LEMMA SafeInvInit == Init => SafeInv
  BY GcpAssumption
     DEF Init, SafeInv, TypeOK, WantFits, OpIsAwaited, Waits, LateIsUnwaited, NoneLate, PCs,
         PublicIPs, ClusterWide!Init

\* What is late, and what was waited for.
LateInv ==
    /\ late \subseteq Nodes \X PublicIPs
    /\ waited \in [Nodes -> BOOLEAN]
    /\ LateIsUnwaited

LEMMA LateInvStep ==
  ASSUME TypeOK, WantFits, LateIsUnwaited, [Next]_vars PROVE LateInv'
<1> USE DEF TypeOK, LateInv, LateIsUnwaited, NoneLate
<1>1. ASSUME NEW n \in Nodes, NEW c \in PublicIPs,
             late' = late \cup {<<n, c>>}, waited' = [waited EXCEPT ![n] = FALSE]
      PROVE  LateInv'
  BY <1>1
<1>2. ASSUME UNCHANGED <<late, waited>> PROVE LateInv'
  BY <1>2
<1>3. ASSUME NEW n \in Nodes, Abandon(n) PROVE LateInv'
  <2>1. CASE op[n] = "none"
    BY <1>2, <1>3, <2>1 DEF Abandon
  <2>2. CASE op[n] = "running"
    BY <1>1, <1>3, <2>2 DEF Abandon
  <2>3. CASE op[n] \in {"done", "error"}
    BY <1>3, <2>3 DEF Abandon
  <2>4. QED
    BY <2>1, <2>2, <2>3
<1>4. ASSUME NEW n \in Nodes, Lock(n) PROVE LateInv'
  BY <1>4 DEF Lock
<1>5. ASSUME NEW n \in Nodes, NEW c \in PublicIPs, ExecuteLate(n, c) PROVE LateInv'
  BY <1>5 DEF ExecuteLate
<1>6. ASSUME NEW n \in Nodes,
             \/ CheckGet(n) \/ CheckList(n) \/ List(n) \/ Refresh(n) \/ TryEnd(n)
             \/ (\E ip \in IPs : TryAddress(n, ip)) \/ Unassign(n) \/ UnGet(n) \/ UnList(n)
             \/ UnRefresh(n) \/ Expire(n) \/ Cancel(n) \/ Exit(n) \/ Restart(n) \/ Execute(n)
      PROVE  UNCHANGED <<late, waited>>
  BY <1>6 DEF CheckGet, CheckList, List, Refresh, TryEnd, TryAddress, Unassign, UnGet, UnList,
              UnRefresh, Expire, Cancel, Exit, Restart, Execute, cloud
<1>7. ASSUME NEW n \in Nodes, NEW c \in PublicIPs, NEW l, NEW refused, Submit(n, c, l, refused)
      PROVE  LateInv'
  BY <1>1, <1>2, <1>7 DEF Submit
<1>8. ASSUME NEW n \in Nodes, Delete(n) \/ Add(n) \/ UnDelete(n) \/ UnAdd(n) PROVE LateInv'
  <2>1. CASE Delete(n)
    BY <1>2, <1>7, <2>1 DEF Delete, PublicIPs
  <2>2. CASE Add(n)
    BY <1>7, <2>2 DEF Add, PublicIPs
  <2>3. CASE UnDelete(n)
    BY <1>2, <1>7, <2>3 DEF UnDelete, PublicIPs
  <2>4. CASE UnAdd(n)
    BY <1>2, <1>7, <2>4 DEF UnAdd, PublicIPs
  <2>5. QED
    BY <1>8, <2>1, <2>2, <2>3, <2>4
<1>9. ASSUME NEW n \in Nodes, DeleteWait(n) \/ AddWait(n) \/ UnDeleteWait(n) \/ UnAddWait(n)
      PROVE  LateInv'
  BY <1>2, <1>3, <1>9 DEF DeleteWait, AddWait, UnDeleteWait, UnAddWait, Waited, WaitError, Done,
                          OperationError
<1>10. ASSUME NEW n \in Nodes, Crash(n) PROVE LateInv'
  BY <1>3, <1>10 DEF Crash
<1>11. CASE UNCHANGED vars
  BY <1>2, <1>11 DEF vars, cloud
<1>12. QED
  BY <1>2, <1>4, <1>5, <1>6, <1>8, <1>9, <1>10, <1>11 DEF Next, Step

LEMMA SafeInvStep == SafeInv /\ [Next]_vars => SafeInv'
<1> SUFFICES ASSUME SafeInv, [Next]_vars PROVE SafeInv'
  OBVIOUS
<1>0. LateInv'
  BY LateInvStep DEF SafeInv
<1> USE <1>0, GcpAssumption
        DEF SafeInv, LateInv, TypeOK, WantFits, OpIsAwaited, Waits,
            cloud, locals, PCs, PublicIPs, InUse, Reserved,
            Fault, Goto, Proceed, Continue, ReadInstance, Submit, Forget, Done, OperationError,
            Abandon, WaitError, Waited, Unlock, EndCall, Return, Fail, UnReturn
<1>1. ASSUME NEW n \in Nodes, Lock(n) PROVE SafeInv'
  BY <1>1, SMTT(30) DEF Lock, ClusterWide!Enter
<1>2. ASSUME NEW n \in Nodes, CheckGet(n) PROVE SafeInv'
  BY <1>2, SMTT(30) DEF CheckGet
<1>3. ASSUME NEW n \in Nodes, CheckList(n) PROVE SafeInv'
  BY <1>3, SMTT(30) DEF CheckList
<1>4. ASSUME NEW n \in Nodes, List(n) PROVE SafeInv'
  BY <1>4, SMTT(30) DEF List
<1>5. ASSUME NEW n \in Nodes, Delete(n) PROVE SafeInv'
  BY <1>5, SMTT(30) DEF Delete
<1>6. ASSUME NEW n \in Nodes, DeleteWait(n) PROVE SafeInv'
  BY <1>6, SMTT(30) DEF DeleteWait
<1>7. ASSUME NEW n \in Nodes, Refresh(n) PROVE SafeInv'
  BY <1>7, SMTT(30) DEF Refresh
<1>8. ASSUME NEW n \in Nodes, TryEnd(n) PROVE SafeInv'
  BY <1>8, SMTT(30) DEF TryEnd
<1>9. ASSUME NEW n \in Nodes, NEW ip \in IPs, TryAddress(n, ip) PROVE SafeInv'
  BY <1>9, SMTT(30) DEF TryAddress
<1>10. ASSUME NEW n \in Nodes, Add(n) PROVE SafeInv'
  BY <1>10, SMTT(30) DEF Add
<1>11. ASSUME NEW n \in Nodes, AddWait(n) PROVE SafeInv'
  BY <1>11, SMTT(30) DEF AddWait
<1>12. ASSUME NEW n \in Nodes, Unassign(n) PROVE SafeInv'
  BY <1>12, SMTT(30) DEF Unassign
<1>13. ASSUME NEW n \in Nodes, UnGet(n) PROVE SafeInv'
  BY <1>13, SMTT(30) DEF UnGet
<1>14. ASSUME NEW n \in Nodes, UnList(n) PROVE SafeInv'
  BY <1>14, SMTT(30) DEF UnList
<1>15. ASSUME NEW n \in Nodes, UnDelete(n) PROVE SafeInv'
  BY <1>15, SMTT(30) DEF UnDelete
<1>16. ASSUME NEW n \in Nodes, UnDeleteWait(n) PROVE SafeInv'
  BY <1>16, SMTT(30) DEF UnDeleteWait
<1>17. ASSUME NEW n \in Nodes, UnRefresh(n) PROVE SafeInv'
  BY <1>17, SMTT(30) DEF UnRefresh
<1>18. ASSUME NEW n \in Nodes, UnAdd(n) PROVE SafeInv'
  BY <1>18, SMTT(30) DEF UnAdd
<1>19. ASSUME NEW n \in Nodes, UnAddWait(n) PROVE SafeInv'
  BY <1>19, SMTT(30) DEF UnAddWait
<1>20. ASSUME NEW n \in Nodes, Expire(n) PROVE SafeInv'
  BY <1>20, SMTT(30) DEF Expire
<1>21. ASSUME NEW n \in Nodes, Cancel(n) PROVE SafeInv'
  BY <1>21, SMTT(30) DEF Cancel
<1>22. ASSUME NEW n \in Nodes, Exit(n) PROVE SafeInv'
  BY <1>22, SMTT(30) DEF Exit
<1>23. ASSUME NEW n \in Nodes, Crash(n) PROVE SafeInv'
  BY <1>23, SMTT(30) DEF Crash
<1>24. ASSUME NEW n \in Nodes, Restart(n) PROVE SafeInv'
  BY <1>24, SMTT(30) DEF Restart
<1>25. ASSUME NEW n \in Nodes, Execute(n) PROVE SafeInv'
  BY <1>25, SMTT(30) DEF Execute, Executable
<1>26. ASSUME NEW n \in Nodes, NEW c \in PublicIPs, ExecuteLate(n, c) PROVE SafeInv'
  BY <1>26, SMTT(30) DEF ExecuteLate, Executable
<1>27. CASE UNCHANGED vars
  BY <1>27 DEF vars
<1>28. QED
  BY <1>1, <1>2, <1>3, <1>4, <1>5, <1>6, <1>7, <1>8, <1>9, <1>10, <1>11, <1>12, <1>13, <1>14,
     <1>15, <1>16, <1>17, <1>18, <1>19, <1>20, <1>21, <1>22, <1>23, <1>24, <1>25, <1>26, <1>27
     DEF Next, Step

-----------------------------------------------------------------------------
(* On a node whose operations were all waited for                          *)

\* What an operation has done is there until the assigner has noticed.
DoneIsThere == \A n \in Nodes : waited[n] /\ op[n] = "done" => conf[n] = want[n]

\* An Assign that looks for an address has none it could lose.
NoneToLose ==
    \A n \in Nodes :
        /\ waited[n]
        /\ \/ pc[n] \in {"list", "delete", "deleteWait", "refresh", "try", "add"}
           \/ pc[n] = "addWait" /\ op[n] # "done"
        => conf[n] \notin IPs

\* Until an Unassign deletes it, the address that was assigned is there.
StillThere ==
    \A n \in Nodes : waited[n] /\ pc[n] \in {"assigned", "unGet", "unList"} => conf[n] \in IPs

OrderlyInv == DoneIsThere /\ NoneToLose /\ StillThere /\ AssignedIsAttached /\ ReleasedIsEphemeral

LEMMA OrderlyInvInit == Init => OrderlyInv
  BY GcpAssumption
     DEF Init, OrderlyInv, DoneIsThere, NoneToLose, StillThere, AssignedIsAttached,
         ReleasedIsEphemeral

LEMMA OrderlyInvStep == SafeInv /\ OrderlyInv /\ [Next]_vars => OrderlyInv'
<1> SUFFICES ASSUME SafeInv, OrderlyInv, [Next]_vars PROVE OrderlyInv'
  OBVIOUS
<1> USE GcpAssumption
        DEF SafeInv, TypeOK, WantFits, OpIsAwaited, Waits, LateIsUnwaited, OrderlyInv, DoneIsThere,
            NoneToLose, StillThere, AssignedIsAttached, ReleasedIsEphemeral,
            cloud, locals, PCs, PublicIPs, InUse, Reserved,
            Fault, Goto, Proceed, Continue, ReadInstance, Submit, Forget, Done, OperationError,
            Abandon, WaitError, Waited, Unlock, EndCall, Return, Fail, UnReturn
<1>1. ASSUME NEW n \in Nodes, Lock(n) PROVE OrderlyInv'
  BY <1>1, SMTT(30) DEF Lock, ClusterWide!Enter, NoneLate
<1>2. ASSUME NEW n \in Nodes, CheckGet(n) PROVE OrderlyInv'
  BY <1>2, SMTT(30) DEF CheckGet
<1>3. ASSUME NEW n \in Nodes, CheckList(n) PROVE OrderlyInv'
  BY <1>3, SMTT(30) DEF CheckList
<1>4. ASSUME NEW n \in Nodes, List(n) PROVE OrderlyInv'
  BY <1>4, SMTT(30) DEF List
<1>5. ASSUME NEW n \in Nodes, Delete(n) PROVE OrderlyInv'
  BY <1>5, SMTT(30) DEF Delete
<1>6. ASSUME NEW n \in Nodes, DeleteWait(n) PROVE OrderlyInv'
  BY <1>6, SMTT(30) DEF DeleteWait
<1>7. ASSUME NEW n \in Nodes, Refresh(n) PROVE OrderlyInv'
  BY <1>7, SMTT(30) DEF Refresh
<1>8. ASSUME NEW n \in Nodes, TryEnd(n) PROVE OrderlyInv'
  BY <1>8, SMTT(30) DEF TryEnd
<1>9. ASSUME NEW n \in Nodes, NEW ip \in IPs, TryAddress(n, ip) PROVE OrderlyInv'
  BY <1>9, SMTT(30) DEF TryAddress
<1>10. ASSUME NEW n \in Nodes, Add(n) PROVE OrderlyInv'
  BY <1>10, SMTT(30) DEF Add
<1>11. ASSUME NEW n \in Nodes, AddWait(n) PROVE OrderlyInv'
  BY <1>11, SMTT(30) DEF AddWait
<1>12. ASSUME NEW n \in Nodes, Unassign(n) PROVE OrderlyInv'
  BY <1>12, SMTT(30) DEF Unassign
<1>13. ASSUME NEW n \in Nodes, UnGet(n) PROVE OrderlyInv'
  BY <1>13, SMTT(30) DEF UnGet
<1>14. ASSUME NEW n \in Nodes, UnList(n) PROVE OrderlyInv'
  BY <1>14, SMTT(30) DEF UnList
<1>15. ASSUME NEW n \in Nodes, UnDelete(n) PROVE OrderlyInv'
  BY <1>15, SMTT(30) DEF UnDelete
<1>16. ASSUME NEW n \in Nodes, UnDeleteWait(n) PROVE OrderlyInv'
  BY <1>16, SMTT(30) DEF UnDeleteWait
<1>17. ASSUME NEW n \in Nodes, UnRefresh(n) PROVE OrderlyInv'
  BY <1>17, SMTT(30) DEF UnRefresh
<1>18. ASSUME NEW n \in Nodes, UnAdd(n) PROVE OrderlyInv'
  BY <1>18, SMTT(30) DEF UnAdd
<1>19. ASSUME NEW n \in Nodes, UnAddWait(n) PROVE OrderlyInv'
  BY <1>19, SMTT(30) DEF UnAddWait
<1>20. ASSUME NEW n \in Nodes, Expire(n) PROVE OrderlyInv'
  BY <1>20, SMTT(30) DEF Expire
<1>21. ASSUME NEW n \in Nodes, Cancel(n) PROVE OrderlyInv'
  BY <1>21, SMTT(30) DEF Cancel
<1>22. ASSUME NEW n \in Nodes, Exit(n) PROVE OrderlyInv'
  BY <1>22, SMTT(30) DEF Exit
<1>23. ASSUME NEW n \in Nodes, Crash(n) PROVE OrderlyInv'
  BY <1>23, SMTT(30) DEF Crash
<1>24. ASSUME NEW n \in Nodes, Restart(n) PROVE OrderlyInv'
  BY <1>24, SMTT(30) DEF Restart
<1>25. ASSUME NEW n \in Nodes, Execute(n) PROVE OrderlyInv'
  BY <1>25, SMTT(30) DEF Execute, Executable
<1>26. ASSUME NEW n \in Nodes, NEW c \in PublicIPs, ExecuteLate(n, c) PROVE OrderlyInv'
  BY <1>26, SMTT(30) DEF ExecuteLate, Executable, NoneLate
<1>27. CASE UNCHANGED vars
  BY <1>27 DEF vars
<1>28. QED
  BY <1>1, <1>2, <1>3, <1>4, <1>5, <1>6, <1>7, <1>8, <1>9, <1>10, <1>11, <1>12, <1>13, <1>14,
     <1>15, <1>16, <1>17, <1>18, <1>19, <1>20, <1>21, <1>22, <1>23, <1>24, <1>25, <1>26, <1>27
     DEF Next, Step

-----------------------------------------------------------------------------
(* As long as nothing fails                                                *)

\* Where an agent is in Assign, and holds the lock alone.
InAssign == {"check", "checkList", "list", "delete", "deleteWait", "refresh", "try", "add", "addWait"}
AssignUnderLock == \A n \in Nodes : pc[n] \in InAssign => inside = {n}

\* Where a node has an access config, and where it has none.
ConfFits ==
    \A n \in Nodes :
        /\ \/ pc[n] \in {"idle", "assigned", "down", "check", "checkList", "list", "delete",
                         "unDelete"}
           \/ pc[n] \in {"deleteWait", "unDeleteWait"} /\ op[n] = "running"
           => conf[n] # NoIP
        /\ \/ pc[n] \in {"refresh", "try", "add", "unRefresh", "unAdd"}
           \/ pc[n] \in {"addWait", "unAddWait"} /\ op[n] = "running"
           => conf[n] = NoIP
        /\ pc[n] \in {"checkList", "list", "delete", "unList", "unDelete"} => inst[n] # NoIP

\* No operation fails, and none has to be asked for again.
OpSucceeds ==
    \A n \in Nodes :
        /\ pc[n] \in Waits => op[n] \in {"running", "done"}
        /\ pc[n] \notin {"unAddWait", "down"} => tries[n] = 0

\* An Assign that has deleted the ephemeral IP has an address to replace it, and all
\* that it knows of are free.
TodoIsFree ==
    \A n \in Nodes :
        /\ pc[n] \in {"delete", "deleteWait", "refresh", "try"} =>
              todo[n] # {} /\ todo[n] \cap InUse = {}
        /\ pc[n] = "add" \/ (pc[n] = "addWait" /\ op[n] = "running") =>
              want[n] \notin InUse

\* Contexts last, and every operation is waited for.
Undisturbed == late = {} /\ \A n \in Nodes : ctx[n] = "live" /\ waited[n]

CalmInv == faults = 0 => Undisturbed /\ AssignUnderLock /\ ConfFits /\ OpSucceeds /\ TodoIsFree

LEMMA CalmInvInit == Init => CalmInv
  BY GcpAssumption
     DEF Init, CalmInv, Undisturbed, AssignUnderLock, ConfFits, OpSucceeds, TodoIsFree, InAssign, Waits

\* A step counts the fault it suffers.  Without one, nothing is disturbed.
LEMMA FaultsStep ==
  ASSUME SafeInv, [Next]_vars
  PROVE  /\ faults' \in {faults, faults + 1}
         /\ Undisturbed /\ faults' = faults => Undisturbed'
<1> DEFINE Counted == /\ faults' \in {faults, faults + 1}
                      /\ Undisturbed /\ faults' = faults => Undisturbed'
<1> USE GcpAssumption DEF SafeInv, TypeOK, Undisturbed, cloud, Fault
<1>1. ASSUME NEW n \in Nodes,
             \/ Lock(n) \/ CheckGet(n) \/ CheckList(n) \/ List(n) \/ Refresh(n) \/ TryEnd(n)
             \/ (\E ip \in IPs : TryAddress(n, ip)) \/ Unassign(n) \/ UnGet(n) \/ UnList(n)
             \/ UnRefresh(n) \/ Expire(n) \/ Cancel(n) \/ Exit(n) \/ Restart(n) \/ Execute(n)
      PROVE  Counted
  BY <1>1 DEF Lock, NoneLate, CheckGet, CheckList, List, Refresh, TryEnd, TryAddress, Unassign,
              UnGet, UnList, UnRefresh, Expire, Cancel, Exit, Restart, Execute
<1>2. ASSUME NEW n \in Nodes, Delete(n) \/ Add(n) \/ UnDelete(n) \/ UnAdd(n) PROVE Counted
  BY <1>2 DEF Delete, Add, UnDelete, UnAdd, Submit
<1>3. ASSUME NEW n \in Nodes, DeleteWait(n) \/ AddWait(n) \/ UnDeleteWait(n) \/ UnAddWait(n)
      PROVE  Counted
  BY <1>3 DEF DeleteWait, AddWait, UnDeleteWait, UnAddWait, Waited, WaitError, Done, OperationError
<1>4. ASSUME NEW n \in Nodes, Crash(n) PROVE Counted
  BY <1>4 DEF Crash
<1>5. ASSUME NEW n \in Nodes, NEW c \in PublicIPs, ExecuteLate(n, c) PROVE Counted
  BY <1>5 DEF ExecuteLate
<1>6. CASE UNCHANGED vars
  BY <1>6 DEF vars
<1>7. QED
  BY <1>1, <1>2, <1>3, <1>4, <1>5, <1>6 DEF Next, Step

LEMMA CalmInvStep == SafeInv /\ OrderlyInv /\ CalmInv /\ [Next]_vars => CalmInv'
<1> SUFFICES ASSUME SafeInv, OrderlyInv, CalmInv, [Next]_vars, faults' = 0 PROVE CalmInv'
  BY DEF CalmInv
<1>a. faults = 0
  BY FaultsStep, GcpAssumption DEF SafeInv, TypeOK
<1>b. Undisturbed'
  BY <1>a, FaultsStep DEF CalmInv
<1> DEFINE Calm == AssignUnderLock /\ ConfFits /\ OpSucceeds /\ TodoIsFree
<1>0. ASSUME UNCHANGED vars PROVE Calm'
  BY <1>0, <1>a DEF vars, cloud, locals, CalmInv, AssignUnderLock, ConfFits, OpSucceeds, TodoIsFree,
                    InUse
<1> HIDE DEF Calm
<1> USE <1>a, GcpAssumption
        DEF Calm, SafeInv, TypeOK, WantFits, OpIsAwaited, Waits, CalmInv, Undisturbed, OrderlyInv,
            DoneIsThere, NoneToLose, StillThere, AssignedIsAttached, AssignUnderLock, InAssign,
            ConfFits, OpSucceeds, TodoIsFree,
            cloud, locals, PCs, PublicIPs, InUse, Reserved,
            Fault, Goto, Proceed, Continue, ReadInstance, Submit, Forget, Done, OperationError,
            Abandon, WaitError, Waited, Unlock, EndCall, Return, Fail, UnReturn
<1>1. ASSUME NEW n \in Nodes, Lock(n) PROVE Calm'
  BY <1>1, SMTT(30) DEF Lock, ClusterWide!Enter
<1>2. ASSUME NEW n \in Nodes, CheckGet(n) PROVE Calm'
  BY <1>2, SMTT(30) DEF CheckGet
<1>3. ASSUME NEW n \in Nodes, CheckList(n) PROVE Calm'
  BY <1>3, SMTT(30) DEF CheckList
<1>4. ASSUME NEW n \in Nodes, List(n) PROVE Calm'
  BY <1>4, SMTT(30) DEF List
<1>5. ASSUME NEW n \in Nodes, Delete(n) PROVE Calm'
  BY <1>5, SMTT(30) DEF Delete
<1>6. ASSUME NEW n \in Nodes, DeleteWait(n) PROVE Calm'
  BY <1>6, SMTT(30) DEF DeleteWait
<1>7. ASSUME NEW n \in Nodes, Refresh(n) PROVE Calm'
  BY <1>7, SMTT(30) DEF Refresh
<1>8. ASSUME NEW n \in Nodes, TryEnd(n) PROVE Calm'
  BY <1>8, SMTT(30) DEF TryEnd
<1>9. ASSUME NEW n \in Nodes, NEW ip \in IPs, TryAddress(n, ip) PROVE Calm'
  BY <1>9, SMTT(30) DEF TryAddress
<1>10. ASSUME NEW n \in Nodes, Add(n) PROVE Calm'
  BY <1>10, SMTT(30) DEF Add
<1>11. ASSUME NEW n \in Nodes, AddWait(n) PROVE Calm'
  BY <1>11, SMTT(30) DEF AddWait
<1>12. ASSUME NEW n \in Nodes, Unassign(n) PROVE Calm'
  BY <1>12, SMTT(30) DEF Unassign
<1>13. ASSUME NEW n \in Nodes, UnGet(n) PROVE Calm'
  BY <1>13, SMTT(30) DEF UnGet
<1>14. ASSUME NEW n \in Nodes, UnList(n) PROVE Calm'
  BY <1>14, SMTT(30) DEF UnList
<1>15. ASSUME NEW n \in Nodes, UnDelete(n) PROVE Calm'
  <2>1. Submit(n, NoIP, "unDeleteWait", UnReturn(n, "error")) /\ UNCHANGED <<conf, others, ctx, tries>>
    BY <1>15 DEF UnDelete
  <2>2. /\ Proceed(n, "unDeleteWait") /\ op' = [op EXCEPT ![n] = "running"]
        /\ UNCHANGED <<inst, todo>> /\ want' = [want EXCEPT ![n] = NoIP]
    BY <2>1
  <2>3. AssignUnderLock' /\ OpSucceeds'
    BY <1>15, <2>1, <2>2 DEF UnDelete
  <2>4. ConfFits'
    BY <1>15, <2>1, <2>2 DEF UnDelete
  <2>5. TodoIsFree'
    BY <1>15, <2>1, <2>2 DEF UnDelete
  <2>6. QED
    BY <2>3, <2>4, <2>5
<1>16. ASSUME NEW n \in Nodes, UnDeleteWait(n) PROVE Calm'
  BY <1>16, SMTT(30) DEF UnDeleteWait
<1>17. ASSUME NEW n \in Nodes, UnRefresh(n) PROVE Calm'
  BY <1>17, SMTT(30) DEF UnRefresh
<1>18. ASSUME NEW n \in Nodes, UnAdd(n) PROVE Calm'
  BY <1>18, SMTT(30) DEF UnAdd
<1>19. ASSUME NEW n \in Nodes, UnAddWait(n) PROVE Calm'
  BY <1>19, SMTT(30) DEF UnAddWait
<1>20. ASSUME NEW n \in Nodes, Expire(n) PROVE Calm'
  BY <1>20, SMTT(30) DEF Expire
<1>21. ASSUME NEW n \in Nodes, Cancel(n) PROVE Calm'
  BY <1>21, SMTT(30) DEF Cancel
<1>22. ASSUME NEW n \in Nodes, Exit(n) PROVE Calm'
  BY <1>22, SMTT(30) DEF Exit
<1>23. ASSUME NEW n \in Nodes, Crash(n) PROVE Calm'
  BY <1>23, SMTT(30) DEF Crash
<1>24. ASSUME NEW n \in Nodes, Restart(n) PROVE Calm'
  BY <1>24, SMTT(30) DEF Restart
<1>25. ASSUME NEW n \in Nodes, Execute(n) PROVE Calm'
  <2>1. Executable(n, want[n])
    BY <1>25 DEF Execute, Executable
  <2>2. conf' = [conf EXCEPT ![n] = want[n]] /\ op' = [op EXCEPT ![n] = "done"]
    BY <1>25, <2>1 DEF Execute
  <2>3. AssignUnderLock' /\ OpSucceeds'
    BY <1>25, <2>2 DEF Execute
  <2>4. ConfFits'
    BY <1>25, <2>2 DEF Execute
  <2>5. TodoIsFree'
    <3>1. \A m \in Nodes : pc[m] \in InAssign /\ want[n] \in IPs => m = n /\ pc[n] = "addWait"
      BY <1>25, SMTT(30) DEF Execute
    <3>2. /\ UNCHANGED <<pc, todo, want, others>> /\ op'[n] = "done"
          /\ \A m \in Nodes \ {n} : op'[m] = op[m]
      BY <1>25, <2>2 DEF Execute
    <3>3. \A ip \in InUse' : ip \in InUse \/ ip = want[n]
      BY <2>2, <3>2
    <3>4. ASSUME NEW m \in Nodes, pc[m] \in {"delete", "deleteWait", "refresh", "try"}
          PROVE  todo[m] # {} /\ todo[m] \cap InUse' = {}
      <4>1. want[n] \notin IPs /\ todo[m] \in SUBSET IPs
        BY <3>1, <3>4
      <4>2. todo[m] # {} /\ todo[m] \cap InUse = {}
        BY <3>4
      <4>3. QED
        BY <3>3, <4>1, <4>2
    <3>5. ASSUME NEW m \in Nodes, pc[m] = "add" \/ (pc[m] = "addWait" /\ op'[m] = "running")
          PROVE  want[m] \notin InUse'
      <4>1. m # n /\ want[m] \in IPs /\ want[n] \notin IPs
        BY <1>25, <3>1, <3>2, <3>5 DEF Execute
      <4>2. want[m] \notin InUse
        BY <3>2, <3>5, <4>1
      <4>3. QED
        BY <3>3, <4>1, <4>2
    <3>6. QED
      BY <3>2, <3>4, <3>5
  <2>6. QED
    BY <2>3, <2>4, <2>5
<1>26. ASSUME NEW n \in Nodes, NEW c \in PublicIPs, ExecuteLate(n, c) PROVE Calm'
  BY <1>26, SMTT(30) DEF ExecuteLate, Executable
<1>27. Calm'
  BY <1>0, <1>1, <1>2, <1>3, <1>4, <1>5, <1>6, <1>7, <1>8, <1>9, <1>10, <1>11, <1>12, <1>13, <1>14,
     <1>15, <1>16, <1>17, <1>18, <1>19, <1>20, <1>21, <1>22, <1>23, <1>24, <1>25, <1>26
     DEF Next, Step
<1>28. QED
  BY <1>b, <1>27 DEF Calm

-----------------------------------------------------------------------------
(* The theorems                                                            *)

\* Whatever fails, is lost, expires, is cancelled or crashes, the assigners stay well typed:
\* tries never passes maxRetries, and Assign returns nothing but an address or an error.
THEOREM GcpTypeCorrect == Spec => []TypeOK
<1>1. SafeInv => TypeOK
  BY DEF SafeInv
<1>2. QED
  BY <1>1, SafeInvInit, SafeInvStep, PTL DEF Spec

\* An agent that relies on the result of Assign has that address, whatever fails and
\* although the lock may run out under it, unless it did not wait for an operation.
THEOREM GcpAssignedIsAttached == Spec => []AssignedIsAttached
<1>1. OrderlyInv => AssignedIsAttached
  BY DEF OrderlyInv
<1>2. QED
  BY <1>1, SafeInvInit, SafeInvStep, OrderlyInvInit, OrderlyInvStep, PTL DEF Spec

\* Under the same proviso, a node whose Unassign succeeded has an ephemeral IP again.
THEOREM GcpReleasedIsEphemeral == Spec => []ReleasedIsEphemeral
<1>1. OrderlyInv => ReleasedIsEphemeral
  BY DEF OrderlyInv
<1>2. QED
  BY <1>1, SafeInvInit, SafeInvStep, OrderlyInvInit, OrderlyInvStep, PTL DEF Spec

\* As long as nothing fails, no Assign and no Unassign leaves a node without a public IP,
\* whatever the other agents assign and release in between.
THEOREM GcpNeverWithoutAddress == Spec => []NeverWithoutAddress
<1>1. CalmInv => NeverWithoutAddress
  BY DEF CalmInv, ConfFits, NeverWithoutAddress
<1>2. QED
  BY <1>1, SafeInvInit, SafeInvStep, OrderlyInvInit, OrderlyInvStep, CalmInvInit, CalmInvStep, PTL
     DEF Spec

-----------------------------------------------------------------------------
(* The refinement of StaticIPs                                             *)

\* What the agent of n is doing, in the terms of StaticIPs.
PhaseOf(l, w) == IF w THEN PhaseAt(l) ELSE "unsure"

\* A step of one assigner that leaves its node's access config alone, seen from StaticIPs.
LEMMA GcpPhaseOnly ==
  ASSUME SafeInv, NEW n \in Nodes, NEW l, NEW w \in BOOLEAN,
         Goto(n, l), waited' = [waited EXCEPT ![n] = w], UNCHANGED conf,
         \/ ~w
         \/ PhaseAt(l) = "assigning"
         \/ waited[n] /\ PhaseAt(l) = PhaseAt(pc[n])
         \/ waited[n] /\ PhaseAt(pc[n]) = "assigning" /\ PhaseAt(l) = "keeping" /\ conf[n] \in IPs
         \/ waited[n] /\ PhaseAt(pc[n]) = "keeping" /\ PhaseAt(l) = "releasing"
  PROVE  [Promise!Next]_<<StaticIP, Phase>>
<1>1. Phase' = [Phase EXCEPT ![n] = PhaseOf(l, w)] /\ StaticIP' = StaticIP
  BY DEF SafeInv, TypeOK, Goto, Phase, PhaseOf, StaticIP
<1>2. Phase[n] = PhaseOf(pc[n], waited[n]) /\ Phase = [Phase EXCEPT ![n] = Phase[n]]
  BY DEF Phase, PhaseOf
<1>3. StaticIP[n] = IF conf[n] \in IPs THEN conf[n] ELSE NoIP
  BY DEF StaticIP
<1>4. CASE ~w
  <2>1. Promise!Doubt(n)
    BY <1>1, <1>4 DEF Promise!Doubt, Promise!Enters, PhaseOf
  <2>2. QED
    BY <2>1 DEF Promise!Next
<1>5. CASE w /\ PhaseAt(l) = "assigning"
  <2>1. Promise!End(n)
    BY <1>1, <1>5 DEF Promise!End, Promise!Enters, PhaseOf
  <2>2. QED
    BY <2>1 DEF Promise!Next
<1>6. CASE w /\ waited[n] /\ PhaseAt(l) = PhaseAt(pc[n])
  <2>1. Phase' = Phase
    BY <1>1, <1>2, <1>6 DEF PhaseOf
  <2>2. QED
    BY <1>1, <2>1
<1>7. CASE w /\ waited[n] /\ PhaseAt(pc[n]) = "assigning" /\ PhaseAt(l) = "keeping" /\ conf[n] \in IPs
  <2>1. Promise!Keep(n)
    BY <1>1, <1>2, <1>3, <1>7, GcpAssumption DEF Promise!Keep, Promise!Enters, PhaseOf
  <2>2. QED
    BY <2>1 DEF Promise!Next
<1>8. CASE w /\ waited[n] /\ PhaseAt(pc[n]) = "keeping" /\ PhaseAt(l) = "releasing"
  <2>1. Promise!Release(n)
    BY <1>1, <1>2, <1>8 DEF Promise!Release, Promise!Enters, PhaseOf
  <2>2. QED
    BY <2>1 DEF Promise!Next
<1>9. QED
  BY <1>4, <1>5, <1>6, <1>7, <1>8

\* The cloud gives a node an address no other has, or takes its own from it, when its agent
\* asks for it or is unsure.
LEMMA GcpConfOnly ==
  ASSUME SafeInv, NEW n \in Nodes, NEW c \in PublicIPs, Executable(n, c),
         conf' = [conf EXCEPT ![n] = c], UNCHANGED <<pc, waited>>,
         c \in IPs => Phase[n] \in {"assigning", "unsure"},
         c \notin IPs => Phase[n] \in {"releasing", "unsure"} \/ conf[n] \notin IPs
  PROVE  [Promise!Next]_<<StaticIP, Phase>>
<1> USE GcpAssumption DEF SafeInv, TypeOK, PublicIPs
<1>1. Phase' = Phase /\ StaticIP' = [StaticIP EXCEPT ![n] = IF c \in IPs THEN c ELSE NoIP]
  BY DEF Phase, StaticIP
<1>2. CASE c \in IPs
  <2>1. \A m \in Nodes : StaticIP[m] # c
    BY <1>2 DEF Executable, InUse, StaticIP
  <2>2. Promise!Attach(n, c)
    BY <1>1, <1>2, <2>1 DEF Promise!Attach
  <2>3. QED
    BY <1>2, <2>2 DEF Promise!Next
<1>3. CASE c \notin IPs /\ Phase[n] \in {"releasing", "unsure"}
  <2>1. Promise!Detach(n)
    BY <1>1, <1>3 DEF Promise!Detach
  <2>2. QED
    BY <2>1 DEF Promise!Next
<1>4. CASE c \notin IPs /\ conf[n] \notin IPs
  <2>1. StaticIP' = StaticIP
    BY <1>1, <1>4 DEF StaticIP
  <2>2. QED
    BY <1>1, <2>1
<1>5. QED
  BY <1>2, <1>3, <1>4

\* The execution of an operation: the ephemeral IP that Assign deletes and the one that
\* Unassign adds are no matter of StaticIPs, the others attach and detach.
LEMMA GcpExecutePromised ==
  ASSUME SafeInv, OrderlyInv, NEW n \in Nodes, Execute(n)
  PROVE  [Promise!Next]_<<StaticIP, Phase>>
<1> USE GcpAssumption DEF SafeInv, TypeOK, PublicIPs
<1>1. UNCHANGED <<pc, waited>> /\ op[n] = "running" /\ pc[n] \in Waits /\ want[n] \in PublicIPs
  BY DEF Execute, OpIsAwaited
<1>2. CASE UNCHANGED conf
  BY <1>1, <1>2 DEF StaticIP, Phase
<1>3. CASE Executable(n, want[n]) /\ conf' = [conf EXCEPT ![n] = want[n]]
  <2>1. Phase[n] = PhaseOf(pc[n], waited[n])
    BY DEF Phase, PhaseOf
  <2>2. want[n] \in IPs => pc[n] = "addWait"
    BY <1>1 DEF WantFits, Waits
  <2>3. want[n] \in IPs => Phase[n] \in {"assigning", "unsure"}
    BY <2>1, <2>2 DEF PhaseOf, PhaseAt
  <2>4. waited[n] /\ pc[n] = "deleteWait" => conf[n] \notin IPs
    BY DEF OrderlyInv, NoneToLose
  <2>5. want[n] \notin IPs => Phase[n] \in {"releasing", "unsure"} \/ conf[n] \notin IPs
    BY <1>1, <2>1, <2>4 DEF PhaseOf, PhaseAt, Waits, WantFits
  <2>6. QED
    BY <1>1, <1>3, <2>3, <2>5, GcpConfOnly
<1>4. QED
  BY <1>2, <1>3 DEF Execute

LEMMA GcpLatePromised ==
  ASSUME SafeInv, NEW n \in Nodes, NEW c \in PublicIPs, ExecuteLate(n, c)
  PROVE  [Promise!Next]_<<StaticIP, Phase>>
<1>1. UNCHANGED <<pc, waited>>
  BY DEF ExecuteLate
<1>2. Phase[n] = "unsure"
  BY DEF SafeInv, LateIsUnwaited, NoneLate, ExecuteLate, Phase
<1>3. CASE Executable(n, c)
  <2>1. conf' = [conf EXCEPT ![n] = c]
    BY <1>3 DEF ExecuteLate
  <2>2. QED
    BY <1>1, <1>2, <1>3, <2>1, GcpConfOnly
<1>4. CASE ~Executable(n, c)
  BY <1>1, <1>4 DEF ExecuteLate, StaticIP, Phase
<1>5. QED
  BY <1>3, <1>4

\* Every step of the assigners is a step of StaticIPs, or none.
LEMMA GcpPromiseStep ==
  ASSUME SafeInv, OrderlyInv, [Next]_vars
  PROVE  [Promise!Next]_<<StaticIP, Phase>>
<1> DEFINE Promised == [Promise!Next]_<<StaticIP, Phase>>
<1> HIDE DEF Promised
<1> USE DEF cloud, SafeInv, TypeOK
<1>1. ASSUME NEW n \in Nodes,
             \/ Lock(n) \/ CheckGet(n) \/ List(n) \/ Refresh(n) \/ TryEnd(n) \/ Exit(n)
             \/ (\E ip \in IPs : TryAddress(n, ip)) \/ Restart(n)
      PROVE  Promised
  <2>1. PICK l \in {"check", "checkList", "delete", "refresh", "try", "add", "down", "idle"} : Goto(n, l)
    BY <1>1, GcpAssumption
       DEF Lock, CheckGet, List, Refresh, TryEnd, TryAddress, Exit, Restart, Fail, Return, Continue,
           Proceed
  <2>2. PhaseAt(l) = "assigning"
    BY <2>1 DEF PhaseAt
  <2>3. PICK w \in BOOLEAN : waited' = [waited EXCEPT ![n] = w]
    <3>1. CASE UNCHANGED waited
      BY <3>1
    <3>2. CASE Lock(n)
      BY <3>2 DEF Lock, NoneLate
    <3>3. QED
      BY <1>1, <3>1, <3>2 DEF CheckGet, List, Refresh, TryEnd, TryAddress, Exit, Restart
  <2>4. UNCHANGED conf
    BY <1>1 DEF Lock, CheckGet, List, Refresh, TryEnd, TryAddress, Exit, Restart
  <2>5. QED
    BY <2>1, <2>2, <2>3, <2>4, GcpPhaseOnly DEF Promised
<1>2. ASSUME NEW n \in Nodes, Delete(n) \/ DeleteWait(n) \/ Add(n) \/ Crash(n) PROVE Promised
  <2>1. PICK l \in {"deleteWait", "refresh", "addWait", "try", "down", "idle"} : Goto(n, l)
    BY <1>2, GcpAssumption
       DEF Delete, DeleteWait, Add, Crash, Submit, Fail, Return, Continue, Proceed
  <2>2. PhaseAt(l) = "assigning"
    BY <2>1 DEF PhaseAt
  <2>3. PICK w \in BOOLEAN : waited' = [waited EXCEPT ![n] = w]
    <3>1. CASE UNCHANGED waited
      BY <3>1
    <3>2. CASE waited' = [waited EXCEPT ![n] = FALSE]
      BY <3>2
    <3>3. QED
      BY <1>2, <3>1, <3>2
         DEF Delete, DeleteWait, Add, Crash, Submit, Waited, WaitError, Done, OperationError, Abandon
  <2>4. UNCHANGED conf
    BY <1>2 DEF Delete, DeleteWait, Add, Crash
  <2>5. QED
    BY <2>1, <2>2, <2>3, <2>4, GcpPhaseOnly DEF Promised
<1>3. ASSUME NEW n \in Nodes, CheckList(n) \/ AddWait(n) PROVE Promised
  <2>1. PICK l \in {"assigned", "idle", "list", "try"}, w \in BOOLEAN :
          /\ Goto(n, l) /\ waited' = [waited EXCEPT ![n] = w]
          /\ w /\ l = "assigned" => waited[n] /\ conf[n] \in IPs
    <3>1. CASE CheckList(n)
      <4>1. PICK l \in {"assigned", "idle", "list"} : Goto(n, l) /\ (l = "assigned" => conf[n] \in IPs)
        BY <3>1, GcpAssumption DEF CheckList, Fail, Return, Continue, Proceed
      <4>2. waited' = [waited EXCEPT ![n] = waited[n]] /\ waited[n] \in BOOLEAN
        BY <3>1 DEF CheckList
      <4>3. CASE waited[n]
        BY <4>1, <4>2, <4>3
      <4>4. CASE ~waited[n]
        BY <4>1, <4>2, <4>4
      <4>5. QED
        BY <4>3, <4>4
    <3>2. CASE AddWait(n) /\ Done(n)
      <4>1. conf[n] = want[n] \/ ~waited[n]
        BY <3>2 DEF Done, OrderlyInv, DoneIsThere
      <4>2. want[n] \in IPs /\ Goto(n, "assigned")
        BY <3>2, GcpAssumption
           DEF AddWait, Done, OperationError, WaitError, Waited, Return, Continue, Proceed, WantFits
      <4>3. waited' = [waited EXCEPT ![n] = waited[n]] /\ waited[n] \in BOOLEAN
        BY <3>2 DEF Done
      <4>4. QED
        BY <4>1, <4>2, <4>3
    <3>3. CASE AddWait(n) /\ OperationError(n)
      <4>1. waited' = [waited EXCEPT ![n] = waited[n]] /\ waited[n] \in BOOLEAN
        BY <3>3 DEF OperationError
      <4>2. op[n] = "error"
        BY <3>3 DEF OperationError
      <4>3. CASE Goto(n, "try")
        BY <4>1, <4>3
      <4>4. CASE WaitError(n) /\ Return(n, want[n])
        <5>1. waited' = [waited EXCEPT ![n] = FALSE] /\ Goto(n, "assigned")
          BY <3>3, <4>2, <4>4 DEF WaitError, Abandon, Return, AddWait, WantFits
        <5>2. QED
          BY <5>1
      <4>5. QED
        BY <3>3, <4>2, <4>3, <4>4 DEF AddWait, Waited, Done, Continue, Proceed
    <3>4. CASE AddWait(n) /\ WaitError(n)
      <4>1. op[n] # "none"
        BY <3>4 DEF AddWait, OpIsAwaited, Waits
      <4>2. waited' = [waited EXCEPT ![n] = FALSE]
        BY <3>4, <4>1 DEF WaitError, Abandon
      <4>3. \E l \in {"assigned", "try"} : Goto(n, l)
        BY <3>4, GcpAssumption DEF AddWait, Return, Continue, Proceed, WantFits
      <4>4. QED
        BY <4>2, <4>3
    <3>5. QED
      BY <1>3, <3>1, <3>2, <3>3, <3>4 DEF AddWait, Waited
  <2>2. UNCHANGED conf /\ PhaseAt(pc[n]) = "assigning"
    BY <1>3 DEF CheckList, AddWait, PhaseAt
  <2>3. PhaseAt(l) = IF l = "assigned" THEN "keeping" ELSE "assigning"
    BY <2>1 DEF PhaseAt
  <2>4. QED
    BY <2>1, <2>2, <2>3, GcpPhaseOnly DEF Promised
<1>4. ASSUME NEW n \in Nodes,
             \/ Unassign(n) \/ UnGet(n) \/ UnList(n) \/ UnDelete(n) \/ UnDeleteWait(n)
             \/ UnRefresh(n) \/ UnAdd(n) \/ UnAddWait(n)
      PROVE  Promised
  <2>1. PICK l \in {"unGet", "unList", "unDelete", "unDeleteWait", "unRefresh", "unAdd", "unAddWait",
                    "down"} : Goto(n, l)
    BY <1>4 DEF Unassign, UnGet, UnList, UnDelete, UnDeleteWait, UnRefresh, UnAdd, UnAddWait,
                Submit, UnReturn, Continue, Proceed
  <2>2. UNCHANGED conf /\ PhaseAt(pc[n]) \in {"keeping", "releasing"}
    BY <1>4 DEF Unassign, UnGet, UnList, UnDelete, UnDeleteWait, UnRefresh, UnAdd, UnAddWait, PhaseAt
  <2>3. PICK w \in BOOLEAN : waited' = [waited EXCEPT ![n] = w] /\ (w => waited[n])
    <3>1. CASE UNCHANGED waited
      BY <3>1
    <3>2. CASE waited' = [waited EXCEPT ![n] = FALSE]
      BY <3>2
    <3>3. QED
      BY <1>4, <3>1, <3>2
         DEF Unassign, UnGet, UnList, UnDelete, UnDeleteWait, UnRefresh, UnAdd, UnAddWait,
             Submit, Waited, WaitError, Done, OperationError, Abandon
  <2>4. PhaseAt(l) \in {"assigning", "releasing"}
    BY <2>1 DEF PhaseAt
  <2>5. QED
    BY <2>1, <2>2, <2>3, <2>4, GcpPhaseOnly DEF Promised
<1>5. ASSUME NEW n \in Nodes, Execute(n) PROVE Promised
  BY <1>5, GcpExecutePromised DEF Promised
<1>6. ASSUME NEW n \in Nodes, NEW c \in PublicIPs, ExecuteLate(n, c) PROVE Promised
  BY <1>6, GcpLatePromised DEF Promised
<1>7. ASSUME UNCHANGED <<conf, pc, waited>> PROVE Promised
  BY <1>7 DEF StaticIP, Phase, Promised
<1>8. QED
  BY <1>1, <1>2, <1>3, <1>4, <1>5, <1>6, <1>7 DEF Next, Step, Expire, Cancel, vars, Promised

\* The Google Cloud assigner hands out the addresses as StaticIPs promises, also if the lock
\* runs out under an agent, operations run late and contexts end: an agent may be mistaken
\* about its own address, but takes that of no other node.
THEOREM GcpImplementsStaticIPs == Spec => ImplementsStaticIPs
<1>1. Init => Promise!Init
  BY GcpAssumption DEF Init, Promise!Init, StaticIP, Phase, PhaseAt
<1>2. SafeInv /\ OrderlyInv /\ [Next]_vars => [Promise!Next]_<<StaticIP, Phase>>
  BY GcpPromiseStep
<1>3. QED
  BY <1>1, <1>2, SafeInvInit, SafeInvStep, OrderlyInvInit, OrderlyInvStep, PTL
     DEF Spec, ImplementsStaticIPs, Promise!Spec

=============================================================================
