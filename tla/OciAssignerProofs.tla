--------------------------- MODULE OciAssignerProofs ---------------------------
(***************************************************************************)
(* What the Oracle Cloud assigner guarantees for every set of nodes and    *)
(* reserved IPs and every fault budget.  UpdatePublicIP moves an IP from   *)
(* whatever node has it, so everything rests on the lock, and on what an   *)
(* agent has read being true until it acts on it.                          *)
(***************************************************************************)
EXTENDS OciAssigner, TLAPS

\* A reserved IP serves one node.
NoneShared == \A m, n \in Nodes : pub[m] = pub[n] /\ pub[n] \in ReservedIPs => m = n

\* Where an agent is in Assign, and holds the lock alone.
InAssign == {"vnic", "case1", "case2", "case2Update", "case3", "case3Delete", "private", "list",
             "try", "update"}
AssignUnderLock == \A n \in Nodes : pc[n] \in InAssign => inside = {n}

\* The IP that has been checked is still free when it is moved.
TargetIsFree ==
    \A n \in Nodes : pc[n] = "update" =>
        target[n] \in Pool /\ \A m \in Nodes : pub[m] # target[n]

\* The VNIC that has been read is what the node still has.
VnicIsCurrent ==
    \A n \in Nodes :
        pc[n] \in {"case1", "case2", "case2Update", "case3", "case3Delete", "unList", "unUpdate"}
            => vnic[n] = pub[n]

\* Only an IP that is not of the pool is replaced, and only one of the pool released.
VnicFitsCase ==
    \A n \in Nodes :
        /\ pc[n] \in {"case2", "case2Update", "case3", "case3Delete"} => vnic[n] \notin Pool
        /\ pc[n] = "case2Update" => vnic[n] \in Foreign
        /\ pc[n] = "unUpdate" => vnic[n] \in Pool

OciInv ==
    /\ TypeOK /\ NoneShared /\ AssignUnderLock /\ TargetIsFree /\ VnicIsCurrent /\ VnicFitsCase
    /\ AssignedIsAttached

LEMMA OciInvInit == Init => OciInv
  BY OciAssumption
     DEF Init, OciInv, TypeOK, NoneShared, AssignUnderLock, TargetIsFree, VnicIsCurrent,
         VnicFitsCase, AssignedIsAttached, PCs, InAssign, ReservedIPs, PublicIPs, ClusterWide!Init

LEMMA OciInvStep == OciInv /\ [Next]_vars => OciInv'
<1> SUFFICES ASSUME OciInv, [Next]_vars PROVE OciInv'
  OBVIOUS
<1> USE OciAssumption
        DEF OciInv, TypeOK, NoneShared, AssignUnderLock, TargetIsFree, VnicIsCurrent, VnicFitsCase,
            AssignedIsAttached, PCs, InAssign, ReservedIPs, PublicIPs, Assigned, Available,
            Fault, Goto, Proceed, Continue, Forget, Return, Fail, UnReturn, ClusterWide!Leave
<1>1. ASSUME NEW n \in Nodes, Lock(n) PROVE OciInv'
  BY <1>1 DEF Lock, ClusterWide!Enter
<1>2. ASSUME NEW n \in Nodes, GetVnic(n) PROVE OciInv'
  BY <1>2 DEF GetVnic
<1>3. ASSUME NEW n \in Nodes, Case1(n) PROVE OciInv'
  BY <1>3 DEF Case1
<1>4. ASSUME NEW n \in Nodes, Case2(n) PROVE OciInv'
  BY <1>4 DEF Case2
<1>5. ASSUME NEW n \in Nodes, Case2Update(n) PROVE OciInv'
  BY <1>5, SMTT(30) DEF Case2Update, TakeOff, Fails
<1>6. ASSUME NEW n \in Nodes, Case3(n) PROVE OciInv'
  BY <1>6 DEF Case3
<1>7. ASSUME NEW n \in Nodes, Case3Delete(n) PROVE OciInv'
  BY <1>7 DEF Case3Delete, Drop, Fails
<1>8. ASSUME NEW n \in Nodes, GetPrivateIP(n) PROVE OciInv'
  BY <1>8 DEF GetPrivateIP
<1>9. ASSUME NEW n \in Nodes, List(n) PROVE OciInv'
  BY <1>9 DEF List
<1>10. ASSUME NEW n \in Nodes, TryEnd(n) PROVE OciInv'
  BY <1>10 DEF TryEnd
<1>11. ASSUME NEW n \in Nodes, NEW ip \in Pool, Try(n, ip) PROVE OciInv'
  BY <1>11 DEF Try
<1>12. ASSUME NEW n \in Nodes, Update(n) PROVE OciInv'
  <2>1. pc[n] = "update" /\ target[n] \in Pool /\ \A m \in Nodes : pub[m] # target[n]
    BY <1>12 DEF Update
  <2>2. CASE UNCHANGED pub /\ Continue(n, "try") /\ faults' \in 0..MaxFaults
    BY <2>1, <2>2
  <2>3. CASE MoveTo(n, target[n]) /\ Continue(n, "try") /\ faults' \in 0..MaxFaults
    <3>1. pub' = [pub EXCEPT ![n] = target[n]]
      BY <2>1, <2>3 DEF MoveTo
    <3>2. QED
      BY <2>1, <2>3, <3>1
  <2>4. CASE MoveTo(n, target[n]) /\ Return(n, target[n]) /\ faults' \in 0..MaxFaults
    <3>1. pub' = [pub EXCEPT ![n] = target[n]]
      BY <2>1, <2>4 DEF MoveTo
    <3>2. QED
      BY <2>1, <2>4, <3>1
  <2>5. QED
    BY <1>12, <2>2, <2>3, <2>4 DEF Update, Fails
<1>13. ASSUME NEW n \in Nodes, Unassign(n) PROVE OciInv'
  BY <1>13 DEF Unassign
<1>14. ASSUME NEW n \in Nodes, UnGetVnic(n) PROVE OciInv'
  BY <1>14, SMTT(30) DEF UnGetVnic
<1>15. ASSUME NEW n \in Nodes, UnList(n) PROVE OciInv'
  BY <1>15 DEF UnList
<1>16. ASSUME NEW n \in Nodes, UnUpdate(n) PROVE OciInv'
  BY <1>16 DEF UnUpdate, TakeOff, Fails
<1>17. ASSUME NEW n \in Nodes, Crash(n) PROVE OciInv'
  BY <1>17 DEF Crash
<1>18. ASSUME NEW n \in Nodes, Restart(n) PROVE OciInv'
  BY <1>18 DEF Restart
<1>19. CASE UNCHANGED vars
  BY <1>19 DEF vars
<1>20. QED
  BY <1>1, <1>2, <1>3, <1>4, <1>5, <1>6, <1>7, <1>8, <1>9, <1>10, <1>11, <1>12, <1>13, <1>14,
     <1>15, <1>16, <1>17, <1>18, <1>19
     DEF Next, Step

-----------------------------------------------------------------------------

\* Whatever fails, is lost or crashes, the assigners stay well typed.
THEOREM OciTypeCorrect == Spec => []TypeOK
<1>1. OciInv => TypeOK
  BY DEF OciInv
<1>2. QED
  BY <1>1, OciInvInit, OciInvStep, PTL DEF Spec

\* An agent that relies on the result of Assign has that reserved IP: no other agent's
\* UpdatePublicIP has moved it in the meantime.
THEOREM OciAssignedIsAttached == Spec => []AssignedIsAttached
<1>1. OciInv => AssignedIsAttached
  BY DEF OciInv
<1>2. QED
  BY <1>1, OciInvInit, OciInvStep, PTL DEF Spec

-----------------------------------------------------------------------------
(* The refinement of StaticIPs                                             *)

\* What the agent of n does next is all that a move of its assigner changes of Phase.
LEMMA OciPhaseMoves ==
  ASSUME OciInv, NEW n \in Nodes, NEW l, Goto(n, l)
  PROVE  Phase' = [Phase EXCEPT ![n] = PhaseAt(l)]
  BY DEF OciInv, TypeOK, Goto, Phase

\* A step of one assigner that leaves the IPs of the pool alone, seen from StaticIPs.
LEMMA OciPhaseOnly ==
  ASSUME OciInv, NEW n \in Nodes, NEW l \in PCs, Goto(n, l), StaticIP' = StaticIP,
         \/ PhaseAt(l) = PhaseAt(pc[n])
         \/ PhaseAt(l) = "assigning"
         \/ PhaseAt(pc[n]) = "assigning" /\ PhaseAt(l) = "keeping" /\ pub[n] \in Pool
         \/ PhaseAt(pc[n]) = "keeping" /\ PhaseAt(l) = "releasing"
  PROVE  [Promise!Next]_<<StaticIP, Phase>>
<1>1. Phase' = [Phase EXCEPT ![n] = PhaseAt(l)]
  BY OciPhaseMoves
<1>2. Phase \in [Nodes -> {"assigning", "keeping", "releasing"}] /\ Phase[n] = PhaseAt(pc[n])
  BY DEF Phase, PhaseAt
<1>3. StaticIP[n] = IF pub[n] \in Pool THEN pub[n] ELSE NoIP
  BY DEF StaticIP
<1>4. CASE PhaseAt(l) = PhaseAt(pc[n])
  BY <1>1, <1>2, <1>4
<1>5. CASE PhaseAt(l) = "assigning"
  <2>1. Promise!End(n)
    BY <1>1, <1>5 DEF Promise!End, Promise!Enters
  <2>2. QED
    BY <2>1 DEF Promise!Next
<1>6. CASE PhaseAt(pc[n]) = "assigning" /\ PhaseAt(l) = "keeping" /\ pub[n] \in Pool
  <2>1. Promise!Keep(n)
    BY <1>1, <1>2, <1>3, <1>6, OciAssumption DEF Promise!Keep, Promise!Enters
  <2>2. QED
    BY <2>1 DEF Promise!Next
<1>7. CASE PhaseAt(pc[n]) = "keeping" /\ PhaseAt(l) = "releasing"
  <2>1. Promise!Release(n)
    BY <1>1, <1>2, <1>7 DEF Promise!Release, Promise!Enters
  <2>2. QED
    BY <2>1 DEF Promise!Next
<1>8. QED
  BY <1>4, <1>5, <1>6, <1>7

\* Taking an IP that is not of the pool off the node that has it is no matter of StaticIPs.
LEMMA OciNotOfPool ==
  ASSUME OciInv, NEW n \in Nodes, pub[n] \notin Pool, Drop(n) \/ TakeOff(pub[n])
  PROVE  StaticIP' = StaticIP
  BY OciAssumption DEF OciInv, TypeOK, Drop, TakeOff, StaticIP

\* Every step of the assigners is a step of StaticIPs, or none.
LEMMA OciPromiseStep ==
  ASSUME OciInv, [Next]_vars
  PROVE  [Promise!Next]_<<StaticIP, Phase>>
<1> DEFINE Promised == [Promise!Next]_<<StaticIP, Phase>>
<1> USE DEF OciInv, TypeOK
<1> HIDE DEF Promised
<1>1. ASSUME NEW n \in Nodes, NEW l \in PCs, Goto(n, l), StaticIP' = StaticIP,
             PhaseAt(l) = "assigning"
      PROVE  Promised
  BY <1>1, OciPhaseOnly DEF Promised
<1>2. UNCHANGED pub => StaticIP' = StaticIP
  BY DEF StaticIP
<1>3. ASSUME NEW n \in Nodes,
             \/ Lock(n) \/ GetVnic(n) \/ Case2(n) \/ Case3(n) \/ GetPrivateIP(n) \/ List(n)
             \/ TryEnd(n) \/ (\E ip \in Pool : Try(n, ip)) \/ Crash(n) \/ Restart(n)
      PROVE  Promised
  <2>1. PICK l \in PCs : Goto(n, l) /\ PhaseAt(l) = "assigning"
    BY <1>3 DEF PCs, PhaseAt, Lock, GetVnic, Case2, Case3, GetPrivateIP, List, TryEnd, Try, Crash,
                Restart, Fail, Return, Continue, Proceed
  <2>2. UNCHANGED pub
    BY <1>3 DEF Lock, GetVnic, Case2, Case3, GetPrivateIP, List, TryEnd, Try, Crash, Restart
  <2>3. QED
    BY <1>1, <1>2, <2>1, <2>2
<1>4. ASSUME NEW n \in Nodes, Case1(n) PROVE Promised
  <2>1. PICK l \in {"idle", "assigned", "case2"} : Goto(n, l) /\ (l = "assigned" => pub[n] \in Pool)
    BY <1>4 DEF Case1, Fail, Return, Continue, Proceed, VnicIsCurrent
  <2>2. QED
    BY <1>2, <1>4, <2>1, OciPhaseOnly DEF Case1, PhaseAt, PCs, Promised
<1>5. ASSUME NEW n \in Nodes, Case2Update(n) \/ Case3Delete(n) PROVE Promised
  <2>1. pub[n] = vnic[n] /\ pub[n] \notin Pool
    BY <1>5 DEF Case2Update, Case3Delete, VnicIsCurrent, VnicFitsCase
  <2>2. StaticIP' = StaticIP
    BY <1>2, <1>5, <2>1, OciNotOfPool DEF Case2Update, Case3Delete, Fails
  <2>3. PICK l \in {"private", "idle"} : Goto(n, l)
    BY <1>5 DEF Case2Update, Case3Delete, Fail, Return, Continue, Proceed
  <2>4. QED
    BY <1>1, <2>2, <2>3 DEF PhaseAt, PCs
<1>6. ASSUME NEW n \in Nodes, Update(n) PROVE Promised
  <2>1. target[n] \in Pool /\ (\A m \in Nodes : pub[m] # target[n]) /\ PhaseAt(pc[n]) = "assigning"
    BY <1>6 DEF Update, TargetIsFree, PhaseAt
  <2>2. PICK l \in {"assigned", "try"} :
          Goto(n, l) /\ (l = "assigned" => MoveTo(n, target[n]))
    BY <1>6, <2>1, OciAssumption DEF Update, Return, Continue, Proceed
  <2>3. CASE MoveTo(n, target[n])
    <3>1. \A m \in Nodes : StaticIP[m] # target[n]
      BY <2>1, OciAssumption DEF StaticIP
    <3>2. StaticIP' = [StaticIP EXCEPT ![n] = target[n]]
      BY <2>1, <2>3 DEF MoveTo, StaticIP
    <3>3. Phase' = [Phase EXCEPT ![n] = PhaseAt(l)]
      BY <2>2, OciPhaseMoves
    <3>4. Phase[n] = "assigning" /\ [Phase EXCEPT ![n] = "assigning"] = Phase
      BY <2>1 DEF Phase
    <3>5. Phase' = Phase \/ Phase' = [Phase EXCEPT ![n] = "keeping"]
      BY <2>2, <3>3, <3>4 DEF PhaseAt
    <3>6. Promise!Attach(n, target[n])
      BY <3>1, <3>2, <3>4, <3>5 DEF Promise!Attach, Promise!Enters
    <3>7. QED
      BY <2>1, <3>6 DEF Promise!Next, Promised
  <2>4. CASE UNCHANGED pub /\ l = "try"
    BY <1>1, <1>2, <2>2, <2>4 DEF PhaseAt, PCs
  <2>5. QED
    BY <1>6, <2>2, <2>3, <2>4 DEF Update, Fails
<1>7. ASSUME NEW n \in Nodes, Unassign(n) \/ UnGetVnic(n) \/ UnList(n) PROVE Promised
  <2>1. PICK l \in {"unVnic", "unList", "unUpdate", "down"} :
          Goto(n, l) /\ (l # "down" => PhaseAt(pc[n]) \in {"keeping", "releasing"})
    BY <1>7 DEF Unassign, UnGetVnic, UnList, Continue, Proceed, UnReturn, PhaseAt
  <2>2. UNCHANGED pub
    BY <1>7 DEF Unassign, UnGetVnic, UnList
  <2>3. QED
    BY <1>2, <2>1, <2>2, OciPhaseOnly DEF PhaseAt, PCs, Promised
<1>8. ASSUME NEW n \in Nodes, UnUpdate(n) PROVE Promised
  <2>1. Goto(n, "down") /\ PhaseAt("down") = "assigning"
    BY <1>8 DEF UnUpdate, UnReturn, PhaseAt
  <2>2. CASE TakeOff(vnic[n])
    <3>1. \A m \in Nodes : pub[m] = vnic[n] <=> m = n
      BY <1>8 DEF UnUpdate, VnicIsCurrent, VnicFitsCase, NoneShared, ReservedIPs
    <3>2. StaticIP' = [StaticIP EXCEPT ![n] = NoIP]
      BY <2>2, <3>1, OciAssumption DEF TakeOff, StaticIP
    <3>3. Phase[n] = "releasing" /\ Phase' = [Phase EXCEPT ![n] = "assigning"]
      BY <1>8, <2>1, OciPhaseMoves DEF UnUpdate, Phase, PhaseAt
    <3>4. Promise!Detach(n)
      BY <3>2, <3>3 DEF Promise!Detach, Promise!Enters
    <3>5. QED
      BY <3>4 DEF Promise!Next, Promised
  <2>3. CASE UNCHANGED pub
    BY <1>1, <1>2, <2>1, <2>3 DEF PCs
  <2>4. QED
    BY <1>8, <2>2, <2>3 DEF UnUpdate, Fails
<1>9. CASE UNCHANGED vars
  BY <1>9 DEF StaticIP, Phase, Promised, vars
<1>10. QED
  BY <1>3, <1>4, <1>5, <1>6, <1>7, <1>8, <1>9 DEF Next, Step, Promised

\* The Oracle Cloud assigner hands out the pool as StaticIPs promises: under the lock, a
\* node loses an IP only to its own Unassign.
THEOREM OciImplementsStaticIPs == Spec => ImplementsStaticIPs
<1>1. Init => Promise!Init
  BY OciAssumption DEF Init, Promise!Init, StaticIP, Phase, PhaseAt
<1>2. OciInv /\ [Next]_vars => [Promise!Next]_<<StaticIP, Phase>>
  BY OciPromiseStep
<1>3. QED
  BY <1>1, <1>2, OciInvInit, OciInvStep, PTL DEF Spec, ImplementsStaticIPs, Promise!Spec

=============================================================================
