--------------------------- MODULE AwsAssignerProofs ---------------------------
(***************************************************************************)
(* What the AWS assigner guarantees for every set of nodes and elastic IPs *)
(* and every fault budget: also when the lock runs out under an agent.     *)
(***************************************************************************)
EXTENDS AwsAssigner, TLAPS

\* EC2 keeps one association per elastic IP.
NoneShared == \A m, n \in Nodes : pub[m] = pub[n] /\ pub[n] \in Pool => m = n

\* The elastic IP that is about to be associated or disassociated is one of the pool.
TargetInPool == \A n \in Nodes : pc[n] \in {"associate", "unDisassociate"} => target[n] \in Pool

AwsInv == TypeOK /\ NoneShared /\ TargetInPool /\ AssignedIsAttached

LEMMA AwsInvInit == Init => AwsInv
  BY AwsAssumption
     DEF Init, AwsInv, TypeOK, NoneShared, TargetInPool, AssignedIsAttached, PCs, Without,
         ClusterWide!Init

LEMMA AwsInvStep == AwsInv /\ [Next]_vars => AwsInv'
<1> SUFFICES ASSUME AwsInv, [Next]_vars PROVE AwsInv'
  OBVIOUS
<1> USE AwsAssumption
        DEF AwsInv, TypeOK, NoneShared, TargetInPool, AssignedIsAttached, PCs, InUse, Available,
            Fault, Goto, Proceed, Continue, Forget, Unlock, Return, Fail, UnReturn, Panic
<1>1. ASSUME NEW n \in Nodes, Lock(n) PROVE AwsInv'
  BY <1>1 DEF Lock, ClusterWide!Enter
<1>2. ASSUME NEW n \in Nodes, Check(n) PROVE AwsInv'
  BY <1>2 DEF Check
<1>3. ASSUME NEW n \in Nodes, List(n) PROVE AwsInv'
  BY <1>3 DEF List
<1>4. ASSUME NEW n \in Nodes, GetInstance(n) PROVE AwsInv'
  BY <1>4 DEF GetInstance
<1>5. ASSUME NEW n \in Nodes, TryEnd(n) PROVE AwsInv'
  BY <1>5 DEF TryEnd
<1>6. ASSUME NEW n \in Nodes, NEW ip \in Pool, Try(n, ip) PROVE AwsInv'
  BY <1>6 DEF Try
<1>7. ASSUME NEW n \in Nodes, Associate(n) PROVE AwsInv'
  BY <1>7 DEF Associate, AssociateAddress, Fails
<1>8. ASSUME NEW n \in Nodes, Unassign(n) PROVE AwsInv'
  BY <1>8 DEF Unassign
<1>9. ASSUME NEW n \in Nodes, UnList(n) PROVE AwsInv'
  BY <1>9 DEF UnList
<1>10. ASSUME NEW n \in Nodes, UnDisassociate(n) PROVE AwsInv'
  BY <1>10 DEF UnDisassociate, DisassociateAddress, Fails, Without
<1>11. ASSUME NEW n \in Nodes, Expire(n) PROVE AwsInv'
  BY <1>11 DEF Expire
<1>12. ASSUME NEW n \in Nodes, Crash(n) PROVE AwsInv'
  BY <1>12 DEF Crash
<1>13. ASSUME NEW n \in Nodes, Restart(n) PROVE AwsInv'
  BY <1>13 DEF Restart
<1>14. CASE UNCHANGED vars
  BY <1>14 DEF vars
<1>15. QED
  BY <1>1, <1>2, <1>3, <1>4, <1>5, <1>6, <1>7, <1>8, <1>9, <1>10, <1>11, <1>12, <1>13, <1>14
     DEF Next, Step

-----------------------------------------------------------------------------

\* Whatever fails, expires, panics or crashes, the assigners stay well typed.
THEOREM AwsTypeCorrect == Spec => []TypeOK
<1>1. AwsInv => TypeOK
  BY DEF AwsInv
<1>2. QED
  BY <1>1, AwsInvInit, AwsInvStep, PTL DEF Spec

\* An agent that relies on the result of Assign has that elastic IP, even if the lock
\* has run out under it and others were in Assign at the same time.
THEOREM AwsAssignedIsAttached == Spec => []AssignedIsAttached
<1>1. AwsInv => AssignedIsAttached
  BY DEF AwsInv
<1>2. QED
  BY <1>1, AwsInvInit, AwsInvStep, PTL DEF Spec

-----------------------------------------------------------------------------
(* The refinement of StaticIPs                                             *)

\* What the agent of n does next is all that a move of its assigner changes of Phase.
LEMMA AwsPhaseMoves ==
  ASSUME AwsInv, NEW n \in Nodes, NEW l, Goto(n, l)
  PROVE  Phase' = [Phase EXCEPT ![n] = PhaseAt(l)]
  BY DEF AwsInv, TypeOK, Goto, Phase

\* As long as the interfaces keep their addresses, so do the nodes of StaticIPs.
LEMMA AwsStaticIPKept == UNCHANGED pub => StaticIP' = StaticIP
  BY DEF StaticIP

\* A new address of one interface is all that changes of StaticIP.
LEMMA AwsStaticIPChanged ==
  ASSUME AwsInv, NEW n \in Nodes, NEW ip, pub' = [pub EXCEPT ![n] = ip]
  PROVE  StaticIP' = [StaticIP EXCEPT ![n] = IF ip \in Pool THEN ip ELSE NoIP]
  BY DEF AwsInv, TypeOK, StaticIP

\* A step of one assigner that leaves its interface alone, seen from StaticIPs.
LEMMA AwsPhaseOnly ==
  ASSUME AwsInv, NEW n \in Nodes, NEW l \in PCs, Goto(n, l), UNCHANGED pub,
         \/ PhaseAt(l) = PhaseAt(pc[n])
         \/ PhaseAt(l) = "assigning"
         \/ PhaseAt(pc[n]) = "assigning" /\ PhaseAt(l) = "keeping" /\ pub[n] \in Pool
         \/ PhaseAt(pc[n]) = "keeping" /\ PhaseAt(l) = "releasing"
  PROVE  [Promise!Next]_<<StaticIP, Phase>>
<1>1. Phase' = [Phase EXCEPT ![n] = PhaseAt(l)] /\ StaticIP' = StaticIP
  BY AwsPhaseMoves, AwsStaticIPKept
<1>2. Phase \in [Nodes -> {"assigning", "keeping", "releasing"}] /\ Phase[n] = PhaseAt(pc[n])
  BY DEF Phase, PhaseAt
<1>3. StaticIP[n] = IF pub[n] \in Pool THEN pub[n] ELSE NoIP
  BY DEF StaticIP
<1>4. CASE PhaseAt(l) = PhaseAt(pc[n])
  BY <1>1, <1>2, <1>4
<1>5. CASE PhaseAt(l) = "assigning"
  <2>1. Promise!End(n)
    BY <1>1, <1>5 DEF Promise!End, Promise!Enters
  <2>2. QED
    BY <2>1 DEF Promise!Next
<1>6. CASE PhaseAt(pc[n]) = "assigning" /\ PhaseAt(l) = "keeping" /\ pub[n] \in Pool
  <2>1. Promise!Keep(n)
    BY <1>1, <1>2, <1>3, <1>6, AwsAssumption DEF Promise!Keep, Promise!Enters
  <2>2. QED
    BY <2>1 DEF Promise!Next
<1>7. CASE PhaseAt(pc[n]) = "keeping" /\ PhaseAt(l) = "releasing"
  <2>1. Promise!Release(n)
    BY <1>1, <1>2, <1>7 DEF Promise!Release, Promise!Enters
  <2>2. QED
    BY <2>1 DEF Promise!Next
<1>8. QED
  BY <1>4, <1>5, <1>6, <1>7

\* Every step of the assigners is a step of StaticIPs, or none.
LEMMA AwsPromiseStep ==
  ASSUME AwsInv, [Next]_vars
  PROVE  [Promise!Next]_<<StaticIP, Phase>>
<1> DEFINE Promised == [Promise!Next]_<<StaticIP, Phase>>
<1> USE DEF AwsInv, TypeOK
<1> HIDE DEF Promised
<1>1. ASSUME NEW n \in Nodes, NEW l \in PCs, Goto(n, l), UNCHANGED pub,
             PhaseAt(l) = "assigning"
      PROVE  Promised
  BY <1>1, AwsPhaseOnly DEF Promised
<1>2. ASSUME NEW n \in Nodes,
             Lock(n) \/ List(n) \/ GetInstance(n) \/ TryEnd(n) \/ (\E ip \in Pool : Try(n, ip))
                     \/ Crash(n) \/ Restart(n)
      PROVE  Promised
  <2>1. PICK l \in {"idle", "check", "instance", "try", "associate", "down"} : Goto(n, l)
    BY <1>2 DEF Lock, List, GetInstance, TryEnd, Try, Crash, Restart, Fail, Return, Panic,
                Continue, Proceed
  <2>2. QED
    BY <1>1, <1>2, <2>1
       DEF PhaseAt, PCs, Lock, List, GetInstance, TryEnd, Try, Crash, Restart
<1>3. ASSUME NEW n \in Nodes, Check(n) PROVE Promised
  <2>1. PICK l \in {"idle", "assigned", "list"} : Goto(n, l) /\ (l = "assigned" => pub[n] \in Pool)
    BY <1>3 DEF Check, Fail, Return, Continue, Proceed, InUse
  <2>2. QED
    BY <1>3, <2>1, AwsPhaseOnly DEF Check, PhaseAt, PCs, Promised
<1>4. ASSUME NEW n \in Nodes, Unassign(n) \/ UnList(n) PROVE Promised
  <2>1. PICK l \in {"unList", "unDisassociate", "down"} :
          Goto(n, l) /\ (l # "down" => PhaseAt(pc[n]) \in {"keeping", "releasing"})
    BY <1>4 DEF Unassign, UnList, Continue, Proceed, UnReturn, PhaseAt
  <2>2. QED
    BY <1>4, <2>1, AwsPhaseOnly DEF Unassign, UnList, PhaseAt, PCs, Promised
<1>5. ASSUME NEW n \in Nodes, Associate(n) PROVE Promised
  <2>1. target[n] \in Pool /\ PhaseAt(pc[n]) = "assigning"
    BY <1>5 DEF Associate, TargetInPool, PhaseAt
  <2>2. PICK l \in {"assigned", "try"} :
          Goto(n, l) /\ (l = "assigned" => AssociateAddress(n, target[n]))
    BY <1>5, <2>1, AwsAssumption DEF Associate, Return, Continue, Proceed
  <2>3. CASE AssociateAddress(n, target[n])
    <3>1. \A m \in Nodes : StaticIP[m] # target[n]
      BY <2>1, <2>3, AwsAssumption DEF AssociateAddress, InUse, StaticIP
    <3>2. StaticIP' = [StaticIP EXCEPT ![n] = target[n]]
      BY <2>1, <2>3, AwsStaticIPChanged DEF AssociateAddress
    <3>3. Phase' = [Phase EXCEPT ![n] = PhaseAt(l)]
      BY <2>2, AwsPhaseMoves
    <3>4. Phase[n] = "assigning" /\ [Phase EXCEPT ![n] = "assigning"] = Phase
      BY <2>1 DEF Phase
    <3>5. Phase' = Phase \/ Phase' = [Phase EXCEPT ![n] = "keeping"]
      BY <2>2, <3>3, <3>4 DEF PhaseAt
    <3>6. Promise!Attach(n, target[n])
      BY <3>1, <3>2, <3>4, <3>5 DEF Promise!Attach, Promise!Enters
    <3>7. QED
      BY <2>1, <3>6 DEF Promise!Next, Promised
  <2>4. CASE UNCHANGED pub /\ l = "try"
    BY <1>1, <2>2, <2>4 DEF PhaseAt, PCs
  <2>5. QED
    BY <1>5, <2>2, <2>3, <2>4 DEF Associate, Fails
<1>6. ASSUME NEW n \in Nodes, UnDisassociate(n) PROVE Promised
  <2>1. Goto(n, "down") /\ PhaseAt("down") = "assigning"
    BY <1>6 DEF UnDisassociate, UnReturn, PhaseAt
  <2>2. CASE DisassociateAddress(n, target[n])
    <3>1. StaticIP' = [StaticIP EXCEPT ![n] = NoIP]
      BY <2>2, AwsStaticIPChanged, AwsAssumption DEF DisassociateAddress, Without
    <3>2. Phase[n] = "releasing" /\ Phase' = [Phase EXCEPT ![n] = "assigning"]
      BY <1>6, <2>1, AwsPhaseMoves DEF UnDisassociate, Phase, PhaseAt
    <3>3. Promise!Detach(n)
      BY <3>1, <3>2 DEF Promise!Detach, Promise!Enters
    <3>4. QED
      BY <3>3 DEF Promise!Next, Promised
  <2>3. CASE UNCHANGED pub
    BY <1>1, <2>1, <2>3 DEF PCs
  <2>4. QED
    BY <1>6, <2>2, <2>3 DEF UnDisassociate, Fails
<1>7. ASSUME UNCHANGED <<pub, pc>> PROVE Promised
  BY <1>7 DEF StaticIP, Phase, Promised
<1>8. QED
  BY <1>2, <1>3, <1>4, <1>5, <1>6, <1>7 DEF Next, Step, Expire, vars, Promised

\* The AWS assigner hands out the pool as StaticIPs promises: no elastic IP to two nodes,
\* and none taken from a node but by its own agent, also if the lock runs out.
THEOREM AwsImplementsStaticIPs == Spec => ImplementsStaticIPs
<1>1. Init => Promise!Init
  BY AwsAssumption DEF Init, Promise!Init, StaticIP, Phase, PhaseAt, Without
<1>2. AwsInv /\ [Next]_vars => [Promise!Next]_<<StaticIP, Phase>>
  BY AwsPromiseStep
<1>3. QED
  BY <1>1, <1>2, AwsInvInit, AwsInvStep, PTL DEF Spec, ImplementsStaticIPs, Promise!Spec

=============================================================================
