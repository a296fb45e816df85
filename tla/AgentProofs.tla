------------------------------ MODULE AgentProofs ------------------------------
(***************************************************************************)
(* What the agent guarantees for every provider, configuration, pool of    *)
(* IPs, set of foreign taints and fault budget.                            *)
(***************************************************************************)
EXTENDS Agent, TLAPS

\* An operation that is late was not waited for, and there are none but with GCP.
LateIsUnwaited ==
    /\ waited => late = {}
    /\ Provider # "gcp" => late = {} /\ waited

\* While run waits for the report, its address is empty or the node's own.
AddressIsNodes ==
    waited /\ pc \in {"report", "reportWait"} =>
        address = NoIP \/ (address = nodeIP /\ nodeIP \in IPs)

\* RemoveTaintKey runs only on a node that reports the static IP it has.
ReadyForTaint ==
    waited /\ pc \in {"taintGet", "taintPatch"} => nodeIP \in IPs /\ reported = nodeIP

\* run gets to releaseIP only where the configuration asks for it.
ReleasesAsConfigured ==
    /\ pc = "release" => ReleaseOnExit /\ ctx = "done"
    /\ pc \in {"report", "reportWait", "taintGet", "taintPatch", "undo"} => TaintKey # NoKey

\* The Azure assigner assigns nothing, so that it has nothing to release.
NothingOnAzure == Provider = "azure" => nodeIP \notin IPs

AgentInv ==
    /\ TypeOK /\ LateIsUnwaited /\ AddressIsNodes /\ ReadyForTaint
    /\ ReleasesAsConfigured /\ NothingOnAzure /\ CleanExitReleases

LEMMA AgentInvInit == Init => AgentInv
  BY AgentAssumption
     DEF Init, AgentInv, TypeOK, LateIsUnwaited, AddressIsNodes, ReadyForTaint, ReleasesAsConfigured,
         NothingOnAzure, CleanExitReleases, PCs, PublicIPs, Taints, NodeFacts, Provider

\* What a GCP operation leaves that nobody waits for.
LEMMA StandsType ==
  ASSUME NEW s \in PublicIPs \X SUBSET PublicIPs, NEW c \in PublicIPs, NEW t \in Stands(s, c)
  PROVE  t \in PublicIPs \X SUBSET PublicIPs
  BY DEF Stands

\* What an Assign leaves, however it ends: no late operation but with GCP, no static IP
\* with Azure, and the static IP it has found.
LEMMA AssigningType ==
  ASSUME TypeOK, NEW s \in Assigning
  PROVE  /\ s \in PublicIPs \X SUBSET PublicIPs
         /\ Provider # "gcp" => s[2] = late
         /\ Provider = "azure" \/ nodeIP \in IPs => s = Now
<1> USE DEF TypeOK, PublicIPs, Now
<1>1. CASE nodeIP \in IPs \/ Provider = "azure"
  BY <1>1 DEF Assigning
<1>2. CASE nodeIP \notin IPs /\ Provider = "gcp"
  <2>1. PICK d \in Deleting, ip \in IPs : s \in Stands(d, ip)
    BY <1>2 DEF Assigning
  <2>2. d \in PublicIPs \X SUBSET PublicIPs
    BY StandsType DEF Deleting
  <2>3. QED
    BY <1>2, <2>1, <2>2, StandsType
<1>3. CASE nodeIP \notin IPs /\ Provider \notin {"gcp", "azure"}
  BY <1>3 DEF Assigning, Dropped
<1>4. QED
  BY <1>1, <1>2, <1>3

\* What an Unassign leaves, however it ends.
LEMMA UnassigningType ==
  ASSUME TypeOK, NEW s \in Unassigning
  PROVE  /\ s \in PublicIPs \X SUBSET PublicIPs
         /\ Provider # "gcp" => s[2] = late
         /\ Provider = "azure" => s = Now
<1> USE DEF TypeOK, PublicIPs, Now
<1>1. CASE nodeIP \notin IPs \/ Provider = "azure"
  BY <1>1 DEF Unassigning
<1>2. CASE nodeIP \in IPs /\ Provider = "gcp"
  <2>1. PICK d \in Stands(Now, NoIP) : s \in Stands(d, Ephemeral)
    BY <1>2 DEF Unassigning
  <2>2. d \in PublicIPs \X SUBSET PublicIPs
    BY StandsType
  <2>3. QED
    BY <1>2, <2>1, <2>2, StandsType
<1>3. CASE nodeIP \in IPs /\ Provider \notin {"gcp", "azure"}
  BY <1>3 DEF Unassigning, Released
<1>4. QED
  BY <1>1, <1>2, <1>3

\* How the cloud stands after a call that did not succeed.
CloudFits ==
    /\ nodeIP \in PublicIPs
    /\ late \subseteq PublicIPs
    /\ waited \in BOOLEAN
    /\ LateIsUnwaited

LEMMA LeavesType ==
  ASSUME TypeOK, LateIsUnwaited, NEW outcomes, Leaves(outcomes), UNCHANGED cfg,
         \A s \in outcomes :
            s \in PublicIPs \X SUBSET PublicIPs /\ (Provider # "gcp" => s[2] = late)
  PROVE  CloudFits' /\ (waited' => waited)
<1>1. PICK s \in outcomes : nodeIP' = s[1] /\ late' = s[2]
  BY DEF Leaves, Becomes
<1>2. waited \in BOOLEAN /\ waited' = (waited /\ late' = {})
  BY DEF Leaves, TypeOK
<1>3. /\ waited' \in BOOLEAN
      /\ waited' => waited /\ late' = {}
      /\ waited /\ late' = {} => waited'
  BY <1>2, Zenon
<1>4. QED
  BY <1>1, <1>3 DEF CloudFits, LateIsUnwaited, Provider

LEMMA AgentInvStep == AgentInv /\ [Next]_vars => AgentInv'
<1> SUFFICES ASSUME AgentInv, [Next]_vars PROVE AgentInv'
  OBVIOUS
<1> USE AgentAssumption
        DEF AgentInv, TypeOK, LateIsUnwaited, AddressIsNodes, ReadyForTaint, ReleasesAsConfigured,
            NothingOnAzure, CleanExitReleases, PCs, PublicIPs, Taints, NodeFacts, Provider,
            TaintKey, ReleaseOnExit, cluster, cloud, Fault, CallWorks, CallFails, Return,
            CloudFits, Now
<1>1. CASE Discover
  BY <1>1 DEF Discover
<1>2. CASE Lock
  BY <1>2 DEF Lock
<1>3. CASE LockFails
  BY <1>3 DEF LockFails
<1>4. CASE Assign
  <2>1. ASSUME NEW ip \in IPs, AssignedUnwaited(ip)
        PROVE  nodeIP' \in PublicIPs /\ late' \in SUBSET PublicIPs
    <3>1. PICK d \in {<<NoIP, late>>} \cup Deleting :
            \E s \in Stands(d, ip) : nodeIP' = s[1] /\ late' = s[2]
      <4>1. CASE Becomes(Stands(<<NoIP, late>>, ip))
        BY <4>1 DEF Becomes
      <4>2. CASE Becomes(UNION {Stands(s, ip) : s \in Deleting})
        <5>1. PICK t \in UNION {Stands(s, ip) : s \in Deleting} : nodeIP' = t[1] /\ late' = t[2]
          BY <4>2 DEF Becomes
        <5>2. QED
          BY <5>1
      <4>3. QED
        BY <2>1, <4>1, <4>2 DEF AssignedUnwaited
    <3>2. d \in PublicIPs \X SUBSET PublicIPs
      BY StandsType DEF Deleting
    <3>3. QED
      BY <3>1, <3>2, StandsType
  <2>2. CASE \E ip \in IPs : AssignedUnwaited(ip)
    <3>1. PICK ip \in IPs : AssignedUnwaited(ip)
      BY <2>2
    <3>2. waited' = FALSE /\ Provider = "gcp" /\ address' = ip /\ faults' \in 0..MaxFaults
      BY <3>1 DEF AssignedUnwaited
    <3>3. nodeIP' \in PublicIPs /\ late' \in SUBSET PublicIPs
      BY <2>1, <3>1
    <3>4. /\ UNCHANGED <<cfg, cluster, seen, ctx, exit>>
          /\ pc' \in {"report", "pause"} /\ retries' = 0
          /\ pc' = "report" => TaintKey # NoKey
      BY <1>4 DEF Assign, AfterAssign
    <3>5. ~waited' /\ waited' \in BOOLEAN
      BY <3>2, Zenon
    <3>6. TypeOK'
      BY <3>2, <3>3, <3>4, <3>5
    <3>7. LateIsUnwaited' /\ AddressIsNodes' /\ ReadyForTaint' /\ NothingOnAzure'
      BY <3>2, <3>4, <3>5
    <3>8. ReleasesAsConfigured' /\ CleanExitReleases'
      BY <3>4, <3>5
    <3>9. QED
      BY <3>6, <3>7, <3>8
  <2>3. CASE \/ Provider # "azure" /\ (AlreadyAssigned \/ \E ip \in IPs : NewlyAssigned(ip))
             \/ Provider = "azure" /\ NothingAssigned
    BY <1>4, <2>3 DEF Assign, AlreadyAssigned, NewlyAssigned, NothingAssigned, AfterAssign
  <2>4. QED
    BY <1>4, <2>2, <2>3 DEF Assign
<1>5. CASE AssignFails
  <2>1. \A s \in Deleting : s \in PublicIPs \X SUBSET PublicIPs
    BY StandsType DEF Deleting
  <2>2. \A s \in Dropped \X {late} : s \in PublicIPs \X SUBSET PublicIPs /\ s[2] = late
    BY DEF Dropped
  <2>3. CloudFits'
    BY <1>5, <2>1, <2>2, AssigningType, LeavesType DEF AssignFails
  <2>4. QED
    BY <1>5, <2>3 DEF AssignFails
<1>6. CASE AssignRetry
  BY <1>6 DEF AssignRetry, Select
<1>7. CASE Report
  BY <1>7 DEF Report, ExternalIPs
<1>8. CASE ReportRetry
  BY <1>8 DEF ReportRetry, Select
<1>9. CASE TaintGet
  BY <1>9 DEF TaintGet
<1>10. CASE TaintPatch
  BY <1>10 DEF TaintPatch, PatchTaints
<1>11. CASE Undo
  <2>1. CASE nodeIP' = Released /\ UNCHANGED <<late, waited, faults>>
    BY <1>11, <2>1, SMTT(30) DEF Undo, Released
  <2>2. CASE Provider = "gcp" /\ Becomes(Unassigning) /\ waited' = FALSE /\ faults' \in 0..MaxFaults
    <3>1. nodeIP' \in PublicIPs /\ late' \in SUBSET PublicIPs
      BY <2>2, UnassigningType DEF Becomes
    <3>2. QED
      BY <1>11, <2>2, <3>1 DEF Undo
  <2>3. CASE UnassignFails
    <3>1. CloudFits'
      BY <1>11, <2>3, UnassigningType, LeavesType DEF Undo, UnassignFails
    <3>2. exit' = "error" /\ pc' = "down"
      BY <1>11, <2>3 DEF Undo
    <3>3. QED
      BY <1>11, <2>3, <3>1, <3>2 DEF Undo, UnassignFails
  <2>4. \A k : Fault(k) => faults' \in 0..MaxFaults
    OBVIOUS
  <2> HIDE DEF Fault
  <2>5. Unassigned =>
          \/ nodeIP' = Released /\ UNCHANGED <<late, waited, faults>>
          \/ /\ Provider = "gcp" /\ Becomes(Unassigning) /\ waited' = FALSE
             /\ faults' \in 0..MaxFaults
    BY <2>4 DEF Unassigned
  <2>6. QED
    BY <1>11, <2>1, <2>2, <2>3, <2>5 DEF Undo
<1>12. CASE Pause
  BY <1>12 DEF Pause
<1>13. CASE Release
  <2>1. CASE nodeIP' = Released /\ UNCHANGED <<late, waited, faults>>
    BY <1>13, <2>1, SMTT(30) DEF Release, Released
  <2>2. CASE Provider = "gcp" /\ Becomes(Unassigning) /\ waited' = FALSE /\ faults' \in 0..MaxFaults
    <3>1. nodeIP' \in PublicIPs /\ late' \in SUBSET PublicIPs
      BY <2>2, UnassigningType DEF Becomes
    <3>2. QED
      BY <1>13, <2>2, <3>1 DEF Release
  <2>3. CASE UnassignFails /\ Return("error")
    <3>1. CloudFits'
      BY <1>13, <2>3, UnassigningType, LeavesType DEF Release, UnassignFails
    <3>2. exit' = "error" /\ pc' = "down"
      BY <1>13, <2>3 DEF Release
    <3>3. QED
      BY <1>13, <2>3, <3>1, <3>2 DEF Release, UnassignFails
  <2>4. \A k : Fault(k) => faults' \in 0..MaxFaults
    OBVIOUS
  <2> HIDE DEF Fault
  <2>5. Unassigned =>
          \/ nodeIP' = Released /\ UNCHANGED <<late, waited, faults>>
          \/ /\ Provider = "gcp" /\ Becomes(Unassigning) /\ waited' = FALSE
             /\ faults' \in 0..MaxFaults
    BY <2>4 DEF Unassigned
  <2>6. QED
    BY <1>13, <2>1, <2>2, <2>3, <2>5 DEF Release
<1>14. CASE Terminate
  BY <1>14 DEF Terminate
<1>15. CASE Crash
  <2>1. CloudFits'
    BY <1>15, AssigningType, UnassigningType, LeavesType DEF Crash
  <2>2. Provider = "azure" => nodeIP' = nodeIP
    BY <1>15, AssigningType, UnassigningType DEF Crash, Leaves, Becomes
  <2>3. QED
    BY <1>15, <2>1, <2>2 DEF Crash
<1>16. CASE Restart
  BY <1>16 DEF Restart
<1>17. CASE ReportAddress
  BY <1>17 DEF ReportAddress
<1>18. ASSUME NEW c \in PublicIPs, ExecuteLate(c) PROVE AgentInv'
  BY <1>18 DEF ExecuteLate
<1>19. ASSUME NEW t \in OtherTaints, ChangeTaint(t) PROVE AgentInv'
  BY <1>19 DEF ChangeTaint
<1>20. ASSUME NEW f \in NodeFacts, Initialize(f) PROVE AgentInv'
  BY <1>20 DEF Initialize
<1>21. CASE UNCHANGED vars
  BY <1>21 DEF vars
<1>22. QED
  BY <1>1, <1>2, <1>3, <1>4, <1>5, <1>6, <1>7, <1>8, <1>9, <1>10, <1>11, <1>12,
     <1>13, <1>14, <1>15, <1>16, <1>17, <1>18, <1>19, <1>20, <1>21
     DEF Next, AgentStep, Environment

\* The agent stays well typed, whatever fails.
THEOREM AgentTypeCorrect == Spec => []TypeOK
<1>1. AgentInv => TypeOK
  BY DEF AgentInv
<1>2. QED
  BY <1>1, AgentInvInit, AgentInvStep, PTL DEF Spec

\* A run that ends without an error has released the IP, if it is configured to, unless the
\* GCP assigner did not wait for an operation.
THEOREM CleanExit == Spec => []CleanExitReleases
<1>1. AgentInv => CleanExitReleases
  BY DEF AgentInv
<1>2. QED
  BY <1>1, AgentInvInit, AgentInvStep, PTL DEF Spec

\* Only the patch of RemoveTaintKey takes the taint away.
LEMMA TaintStep ==
  ASSUME AgentInv, [Next]_vars, waited, TaintKey \in taints, TaintKey \notin taints'
  PROVE  nodeIP \in IPs /\ reported = nodeIP
<1>1. ASSUME NEW t \in OtherTaints, ChangeTaint(t) PROVE FALSE
  BY <1>1, AgentAssumption DEF ChangeTaint, TaintKey, AgentInv, TypeOK
<1>2. CASE TaintPatch
  BY <1>2 DEF TaintPatch, AgentInv, ReadyForTaint
<1>3. ASSUME \/ Discover \/ Lock \/ LockFails \/ Assign \/ AssignFails \/ AssignRetry
             \/ Report \/ ReportRetry \/ TaintGet \/ Undo \/ Pause \/ Release
             \/ Terminate \/ Crash \/ Restart \/ ReportAddress
             \/ \E c \in PublicIPs : ExecuteLate(c)
      PROVE  FALSE
  BY <1>3 DEF Discover, Lock, LockFails, Assign, AssignFails, AssignRetry, Report, ReportRetry,
              Select, ExecuteLate, TaintGet, Undo, Pause, Release, Terminate, Crash, Restart,
              ReportAddress, cluster
<1>4. ASSUME NEW f \in NodeFacts, Initialize(f) PROVE FALSE
  BY <1>4 DEF Initialize
<1>5. CASE UNCHANGED vars
  BY <1>5 DEF vars, cluster
<1>6. QED
  BY <1>1, <1>2, <1>3, <1>4, <1>5 DEF Next, AgentStep, Environment

\* The taint protects the node until it has, and reports, its static IP, unless the GCP
\* assigner did not wait for an operation.
THEOREM TaintIsLast == Spec => TaintGoesLast
<1>1. AgentInv /\ [Next]_vars =>
        [(waited /\ TaintKey \in taints /\ TaintKey \notin taints') =>
            (nodeIP \in IPs /\ reported = nodeIP)]_vars
  BY TaintStep
<1>2. QED
  BY <1>1, AgentInvInit, AgentInvStep, PTL DEF Spec, TaintGoesLast

\* Assign leaves alone the static IP it finds; only releaseIP, and a delete that is late,
\* take it away.
LEMMA ReleaseStep ==
  ASSUME AgentInv, [Next]_vars, nodeIP \in IPs, nodeIP' # nodeIP
  PROVE  \/ ReleaseOnExit /\ ctx = "done" /\ pc = "release"
         \/ TaintKey # NoKey /\ pc = "undo"
         \/ NoIP \in late \ late'
<1>1. CASE Assign \/ AssignFails
  BY <1>1, AssigningType
     DEF Assign, AssignFails, AlreadyAssigned, NewlyAssigned, AssignedUnwaited, NothingAssigned,
         Leaves, Becomes, Now, AgentInv, cloud
<1>2. CASE Undo \/ Release
  BY <1>2 DEF Undo, Release, AgentInv, ReleasesAsConfigured
<1>3. CASE Crash
  <2>1. pc \in {"assigning", "undo", "release"}
    BY <1>3 DEF Crash, Leaves, Becomes, Now
  <2>2. pc # "assigning"
    BY <1>3, AssigningType DEF Crash, Leaves, Becomes, Now, AgentInv
  <2>3. QED
    BY <2>1, <2>2 DEF AgentInv, ReleasesAsConfigured
<1>4. ASSUME NEW c \in PublicIPs, ExecuteLate(c) PROVE NoIP \in late \ late'
  BY <1>4, AgentAssumption DEF ExecuteLate
<1>5. ASSUME \/ Discover \/ Lock \/ LockFails \/ AssignRetry \/ Report \/ ReportRetry
             \/ TaintGet \/ TaintPatch \/ Pause \/ Terminate \/ Restart \/ ReportAddress
      PROVE  FALSE
  BY <1>5 DEF Discover, Lock, LockFails, AssignRetry, Report, ReportRetry, Select, TaintGet,
              TaintPatch, Pause, Terminate, Restart, ReportAddress, cloud
<1>6. ASSUME NEW t \in OtherTaints, ChangeTaint(t) PROVE FALSE
  BY <1>6 DEF ChangeTaint, cloud
<1>7. ASSUME NEW f \in NodeFacts, Initialize(f) PROVE FALSE
  BY <1>7 DEF Initialize, cloud
<1>8. CASE UNCHANGED vars
  BY <1>8 DEF vars, cloud
<1>9. QED
  BY <1>1, <1>2, <1>3, <1>4, <1>5, <1>6, <1>7, <1>8 DEF Next, AgentStep, Environment

\* The node keeps its static IP until its agent releases it as configured, or GCP executes
\* a delete that nobody waited for.
THEOREM StaticIPKept == Spec => AddressKept
<1>1. AgentInv /\ [Next]_vars =>
        [(nodeIP \in IPs /\ nodeIP' # nodeIP) =>
            \/ ReleaseOnExit /\ ctx = "done" /\ pc = "release"
            \/ TaintKey # NoKey /\ pc = "undo"
            \/ NoIP \in late \ late']_vars
  BY ReleaseStep
<1>2. QED
  BY <1>1, AgentInvInit, AgentInvStep, PTL DEF Spec, AddressKept

=============================================================================
