--------------------------------- MODULE Agent ---------------------------------
(***************************************************************************)
(* The kubeip agent of one node (run of cmd/main.go with the tainter of    *)
(* internal/node): discover the node, assign a static public IP, wait      *)
(* until the node reports it, remove a taint, pause, release the IP.       *)
(*                                                                         *)
(* The calls of Lock, Assign and Unassign are one step each here, with the *)
(* results each cloud provider can give; LeaseLock and the assigner        *)
(* modules look inside.  With Google Cloud a call may succeed without      *)
(* having waited for the operations it asked for, which are executed later *)
(* or never.  The rest of the cluster changes the taints and reports the   *)
(* address of the node in between, and the agent may crash, be terminated  *)
(* and be restarted at any point.                                          *)
(***************************************************************************)
EXTENDS Naturals

CONSTANTS
    IPs,            \* the reserved static public IPs that match the filter
    Ephemeral,      \* a public IP of the cloud provider's choice
    NoIP,           \* no public IP at all; the empty string as an address
    Configs,        \* what the agent may find itself configured for
    NoKey,          \* no taint key
    OtherTaints,    \* taints the rest of the cluster adds and removes
    RetryAttempts,  \* cfg.RetryAttempts
    FaultKinds,     \* what the environment may inflict on the agent
    MaxFaults       \* how often it may do so

ASSUME AgentAssumption ==
    /\ Ephemeral \notin IPs /\ NoIP \notin IPs /\ Ephemeral # NoIP
    /\ \A c \in Configs : /\ c.provider \in {"gcp", "aws", "oci", "azure"}
                          /\ c.taintKey \notin OtherTaints
                          /\ c.releaseOnExit \in BOOLEAN
    /\ RetryAttempts \in Nat
    /\ FaultKinds \subseteq {"crash", "term", "error", "wait"}
    /\ MaxFaults \in Nat

VARIABLES
    cfg,       \* the configuration, and the provider GetNode finds
    known,     \* what the cloud controller has put into the Kubernetes node
    pc,        \* where run is
    retries,   \* retryCounter of the loop run is in
    address,   \* assignedAddress
    nodeIP,    \* the public IP the node has in the cloud
    late,      \* operations of GCP on it that nobody waits for: the IPs they are to bring
    waited,    \* a history: none was late at the last Lock, and none has become so since
    reported,  \* the external IP in the status of the Kubernetes node
    taints,    \* the taints of the Kubernetes node
    seen,      \* the taints RemoveTaintKey has read
    ctx,       \* the context of run: live, or done by SIGTERM or SIGINT
    exit,      \* how the last run ended
    faults     \* faults inflicted so far

cloud == <<nodeIP, late, waited>>
cluster == <<known, reported, taints>>
vars == <<cfg, cluster, cloud, pc, retries, address, seen, ctx, exit, faults>>

Provider == cfg.provider
TaintKey == cfg.taintKey
ReleaseOnExit == cfg.releaseOnExit

PCs == {"down", "discover", "assign", "assigning", "assignWait", "report", "reportWait",
        "taintGet", "taintPatch", "undo", "pause", "release"}

PublicIPs == IPs \cup {Ephemeral, NoIP}
Taints == OtherTaints \cup {TaintKey}

\* What GetNode needs to find in the Kubernetes node.
NodeFacts == {"providerID", "region", "zone", "pool"}

TypeOK ==
    /\ cfg \in Configs
    /\ known \subseteq NodeFacts
    /\ pc \in PCs
    /\ retries \in 0..RetryAttempts
    /\ address \in IPs \cup {NoIP}
    /\ nodeIP \in PublicIPs
    /\ late \subseteq PublicIPs
    /\ waited \in BOOLEAN
    /\ reported \in PublicIPs
    /\ taints \subseteq Taints
    /\ seen \subseteq Taints
    /\ ctx \in {"live", "done"}
    /\ exit \in {"none", "ok", "error"}
    /\ faults \in 0..MaxFaults

\* A new node: it has an ephemeral IP, and the taint the agent is to remove.
Init ==
    /\ cfg \in Configs
    /\ known = {}
    /\ pc = "discover"
    /\ retries = 0
    /\ address = NoIP
    /\ nodeIP = Ephemeral
    /\ late = {}
    /\ waited = TRUE
    /\ reported = Ephemeral
    /\ taints = {TaintKey} \ {NoKey}
    /\ seen = {}
    /\ ctx = "live"
    /\ exit = "none"
    /\ faults = 0

-----------------------------------------------------------------------------

Fault(kind) == kind \in FaultKinds /\ faults < MaxFaults /\ faults' = faults + 1

\* A call under the context of run.
CallWorks == ctx = "live" /\ UNCHANGED faults

CallFails == \/ ctx = "done" /\ UNCHANGED faults
             \/ Fault("error")

\* run returns, and the process ends.
Return(result) == pc' = "down" /\ exit' = result

\* GetNode of a node that the cloud controller has not yet finished with fails.
NodeFound == known = NodeFacts

\* kubernetes client, GetNode and NewAssigner
Discover ==
    /\ pc = "discover"
    /\ \/ CallWorks /\ NodeFound /\ pc' = "assign" /\ UNCHANGED exit
       \/ CallWorks /\ ~NodeFound /\ Return("error")
       \/ CallFails /\ Return("error")
    /\ UNCHANGED <<cfg, retries, address, cluster, cloud, seen, ctx>>

-----------------------------------------------------------------------------
(* What the calls of the cloud do to the public IP of the node             *)

Now == <<nodeIP, late>>

\* What there may be after a GCP operation that nobody waits for: it is refused or fails,
\* is still to be executed, or has been.  An IP is added only where there is none.
Stands(s, c) ==
    {s, <<s[1], s[2] \cup {c}>>} \cup (IF c = NoIP \/ s[1] = NoIP THEN {<<c, s[2]>>} ELSE {})

\* Before they assign, the GCP and the OCI assigner delete the ephemeral IP.
Dropped == IF Provider \in {"gcp", "oci"} /\ nodeIP = Ephemeral THEN {nodeIP, NoIP}
                                                               ELSE {nodeIP}

\* The GCP assigner does, and does not wait for it.
Deleting == IF nodeIP = Ephemeral THEN Stands(Now, NoIP) ELSE {Now}

\* What an Assign may leave that is cut off, or whose calls fail before or after the cloud
\* has executed them.
Assigning ==
    IF nodeIP \in IPs \/ Provider = "azure" THEN {Now}
    ELSE IF Provider = "gcp" THEN UNION {Stands(s, ip) : s \in Deleting, ip \in IPs}
    ELSE (Dropped \cup IPs) \X {late}

\* What is left on the node without its static IP.  The Azure assigner does nothing, that
\* of GCP nothing where the node is not the user of an address.
Released == CASE Provider = "azure" \/ (Provider = "gcp" /\ nodeIP \notin IPs) -> nodeIP
              [] Provider = "oci" -> NoIP
              [] OTHER -> Ephemeral

\* What an Unassign may leave that is cut off, or whose calls fail.
Unassigning ==
    IF nodeIP \notin IPs \/ Provider = "azure" THEN {Now}
    ELSE IF Provider = "gcp" THEN UNION {Stands(s, Ephemeral) : s \in Stands(Now, NoIP)}
    ELSE {nodeIP, NoIP, Released} \X {late}

Becomes(outcomes) == \E s \in outcomes : nodeIP' = s[1] /\ late' = s[2]

\* What a call leaves that did not succeed.
Leaves(outcomes) == Becomes(outcomes) /\ waited' = (waited /\ late' = {})

\* The cloud executes an operation nobody waits for, if it can.
ExecuteLate(c) ==
    /\ c \in late
    /\ late' = late \ {c}
    /\ nodeIP' \in {nodeIP} \cup (IF c = NoIP \/ nodeIP = NoIP THEN {c} ELSE {})
    /\ UNCHANGED <<cfg, cluster, waited, pc, retries, address, seen, ctx, exit, faults>>

-----------------------------------------------------------------------------
(* assignAddress                                                           *)

Lock ==
    /\ pc = "assign"
    /\ CallWorks
    /\ pc' = "assigning"
    /\ waited' = (late = {})
    /\ UNCHANGED <<cfg, cluster, nodeIP, late, retries, address, seen, ctx, exit>>

\* The lock is not acquired.
LockFails ==
    /\ pc = "assign"
    /\ pc' = "assignWait"
    /\ UNCHANGED <<cfg, cluster, cloud, retries, address, seen, ctx, exit, faults>>

AfterAssign ==
    /\ pc' = IF TaintKey # NoKey THEN "report" ELSE "pause"
    /\ retries' = 0

\* Mutant: the address found is dropped, whatever the provider.
AlreadyAssignedDropped ==
    /\ ctx = "live" \/ Provider = "gcp"
    /\ nodeIP \in IPs
    /\ address' = NoIP
    /\ UNCHANGED <<cloud, faults>>

\* The GCP assigner, whose lists heed no context, returns the address an earlier run has
\* assigned.  The others return ErrStaticIPAlreadyAssigned, for which assignAddress
\* returns no error and the empty address.
AlreadyAssigned ==
    /\ ctx = "live" \/ Provider = "gcp"
    /\ nodeIP \in IPs
    /\ address' = IF Provider = "gcp" THEN nodeIP ELSE NoIP
    /\ UNCHANGED <<cloud, faults>>

\* Mutant: no check for an address the node already has.
NewlyAssignedUnchecked(ip) ==
    /\ CallWorks
    /\ nodeIP' = ip
    /\ address' = ip
    /\ UNCHANGED <<late, waited>>

NewlyAssigned(ip) ==
    /\ CallWorks
    /\ nodeIP \notin IPs
    /\ nodeIP' = ip
    /\ address' = ip
    /\ UNCHANGED <<late, waited>>

\* The GCP assigner takes a failed Wait for success: the context is done while it waits for
\* the address to be added, or some Wait fails by itself.
AssignedUnwaited(ip) ==
    /\ Provider = "gcp" /\ nodeIP \notin IPs
    /\ address' = ip
    /\ waited' = FALSE
    /\ \/ /\ ctx = "done" /\ UNCHANGED faults
          /\ Becomes(Stands(<<NoIP, late>>, ip))
       \/ Fault("wait") /\ Becomes(UNION {Stands(s, ip) : s \in Deleting})

\* The Azure assigner does nothing, and returns the empty address without an error.
NothingAssigned == address' = NoIP /\ UNCHANGED <<cloud, faults>>

\* One iteration that assigns, or finds, the address.
Assign ==
    /\ pc = "assigning"
    /\ \/ /\ Provider # "azure"
          /\ AlreadyAssigned \/ \E ip \in IPs : NewlyAssigned(ip) \/ AssignedUnwaited(ip)
       \/ Provider = "azure" /\ NothingAssigned
    /\ AfterAssign
    /\ UNCHANGED <<cfg, cluster, seen, ctx, exit>>

\* One that does not: no IP is available, the context is done, or a call fails.
AssignFails ==
    /\ pc = "assigning" /\ Provider # "azure"
    /\ \/ nodeIP \notin IPs /\ Leaves(Dropped \X {late}) /\ UNCHANGED faults
       \/ /\ ctx = "done" /\ UNCHANGED faults
          /\ \/ Provider = "gcp" /\ nodeIP \notin IPs /\ Leaves(Deleting)
             \/ Provider # "gcp" /\ Leaves(Assigning)
       \/ Fault("error") /\ Leaves(Assigning)
    /\ pc' = "assignWait"
    /\ UNCHANGED <<cfg, cluster, retries, address, seen, ctx, exit>>

\* Mutant: one iteration too many.
SelectOnceMore(again) ==
    /\ \/ retries <= RetryAttempts /\ retries' = retries + 1 /\ pc' = again /\ UNCHANGED exit
       \/ (retries > RetryAttempts \/ ctx = "done") /\ Return("error") /\ UNCHANGED retries
    /\ UNCHANGED <<cfg, address, cluster, cloud, seen, ctx, faults>>

\* The select at the end of an iteration: the ticker, or the end of the context.
Select(again) ==
    /\ \/ retries < RetryAttempts /\ retries' = retries + 1 /\ pc' = again /\ UNCHANGED exit
       \/ (retries = RetryAttempts \/ ctx = "done") /\ Return("error") /\ UNCHANGED retries
    /\ UNCHANGED <<cfg, address, cluster, cloud, seen, ctx, faults>>

AssignRetry == pc = "assignWait" /\ Select("assign")

-----------------------------------------------------------------------------
(* waitForAddressToBeReported                                              *)

ExternalIPs == {reported} \ {NoIP}

\* Mutant: any external IP will do.
ReportAny ==
    /\ pc = "report"
    /\ \/ CallWorks /\ pc' = IF ExternalIPs # {} THEN "taintGet" ELSE "reportWait"
       \/ CallFails /\ pc' = "reportWait"
    /\ UNCHANGED <<cfg, retries, address, cluster, cloud, seen, ctx, exit>>

Report ==
    /\ pc = "report"
    /\ \/ CallWorks /\ pc' = IF address \in ExternalIPs THEN "taintGet" ELSE "reportWait"
       \/ CallFails /\ pc' = "reportWait"
    /\ UNCHANGED <<cfg, retries, address, cluster, cloud, seen, ctx, exit>>

ReportRetry == pc = "reportWait" /\ Select("report")

-----------------------------------------------------------------------------
(* RemoveTaintKey                                                          *)

TaintGet ==
    /\ pc = "taintGet"
    /\ \/ CallWorks /\ seen' = taints /\ pc' = IF TaintKey \in taints THEN "taintPatch" ELSE "pause"
       \/ CallFails /\ pc' = "undo" /\ UNCHANGED seen
    /\ UNCHANGED <<cfg, retries, address, cluster, cloud, ctx, exit>>

\* deleteTaintsByKey, and the merge patch that replaces the whole list of taints.
PatchTaints == taints' = seen \ {TaintKey}

TaintPatch ==
    /\ pc = "taintPatch"
    /\ \/ CallWorks /\ PatchTaints /\ pc' = "pause"
       \/ CallFails /\ (UNCHANGED taints \/ PatchTaints) /\ pc' = "undo"
    /\ UNCHANGED <<cfg, known, retries, address, cloud, reported, seen, ctx, exit>>

-----------------------------------------------------------------------------
(* releaseIP, whose context is its own, and the pause before it            *)

\* The IP is off the node; or, with GCP, a Wait has failed, which is not an error either.
Unassigned ==
    \/ nodeIP' = Released /\ UNCHANGED <<late, waited, faults>>
    \/ /\ Provider = "gcp" /\ nodeIP \in IPs
       /\ Fault("wait") /\ Becomes(Unassigning) /\ waited' = FALSE

\* A call fails; or, with GCP, an operation that runs late gets in the way, or no address
\* is in use.
UnassignFails ==
    /\ Provider # "azure"
    /\ \/ Fault("error")
       \/ Provider = "gcp" /\ (nodeIP \notin IPs \/ late # {}) /\ UNCHANGED faults
    /\ Leaves(Unassigning)

\* RemoveTaintKey has failed: run returns its error whatever comes of releaseIP.
Undo ==
    /\ pc = "undo"
    /\ Unassigned \/ UnassignFails
    /\ Return("error")
    /\ UNCHANGED <<cfg, cluster, retries, address, seen, ctx>>

\* <-ctx.Done()
Pause ==
    /\ pc = "pause" /\ ctx = "done"
    /\ \/ ReleaseOnExit /\ pc' = "release" /\ UNCHANGED exit
       \/ ~ReleaseOnExit /\ Return("ok")
    /\ UNCHANGED <<cfg, retries, address, cluster, cloud, seen, ctx, faults>>

\* Mutant: the error of releaseIP is swallowed.
ReleaseQuietly ==
    /\ pc = "release"
    /\ Unassigned \/ UnassignFails
    /\ Return("ok")
    /\ UNCHANGED <<cfg, cluster, retries, address, seen, ctx>>

Release ==
    /\ pc = "release"
    /\ \/ Unassigned /\ Return("ok")
       \/ UnassignFails /\ Return("error")
    /\ UNCHANGED <<cfg, cluster, retries, address, seen, ctx>>

-----------------------------------------------------------------------------
(* The process and its surroundings                                        *)

\* SIGTERM or SIGINT
Terminate ==
    /\ pc # "down" /\ ctx = "live"
    /\ Fault("term")
    /\ ctx' = "done"
    /\ UNCHANGED <<cfg, pc, retries, address, cluster, cloud, seen, exit>>

\* SIGKILL, for one when the grace period of the pod ends before releaseIP does; Assign or
\* Unassign may be half way through.
Crash ==
    /\ pc # "down"
    /\ Fault("crash")
    /\ Return("error")
    /\ Leaves(CASE pc = "assigning" -> Assigning
                [] pc \in {"undo", "release"} -> Unassigning
                [] OTHER -> {Now})
    /\ UNCHANGED <<cfg, retries, address, cluster, seen, ctx>>

\* The DaemonSet starts the agent anew.
Restart ==
    /\ pc = "down"
    /\ pc' = "discover"
    /\ retries' = 0
    /\ address' = NoIP
    /\ ctx' = "live"
    /\ UNCHANGED <<cfg, cluster, cloud, seen, exit, faults>>

\* The cloud controller sets the provider ID or a label of a new node.
Initialize(f) ==
    /\ f \notin known
    /\ known' = known \cup {f}
    /\ UNCHANGED <<cfg, cloud, pc, retries, address, reported, taints, seen, ctx, exit, faults>>

\* The cloud controller brings the status of the node up to date.
ReportAddress ==
    /\ reported # nodeIP
    /\ reported' = nodeIP
    /\ UNCHANGED <<cfg, known, cloud, pc, retries, address, taints, seen, ctx, exit, faults>>

\* Another controller adds or removes a taint of its own.
ChangeTaint(t) ==
    /\ taints' = IF t \in taints THEN taints \ {t} ELSE taints \cup {t}
    /\ UNCHANGED <<cfg, known, cloud, pc, retries, address, reported, seen, ctx, exit, faults>>

-----------------------------------------------------------------------------

AgentStep ==
    \/ Discover \/ Lock \/ LockFails \/ Assign \/ AssignFails \/ AssignRetry
    \/ Report \/ ReportRetry
    \/ TaintGet \/ TaintPatch \/ Undo \/ Pause \/ Release

Environment ==
    \/ Terminate \/ Crash \/ Restart \/ ReportAddress
    \/ \E c \in PublicIPs : ExecuteLate(c)
    \/ \E t \in OtherTaints : ChangeTaint(t)
    \/ \E f \in NodeFacts : Initialize(f)

Next == AgentStep \/ Environment

Spec == Init /\ [][Next]_vars

\* The agent goes on, an agent that has ended is restarted, the lock and a static IP become
\* available again and again, and the Kubernetes node catches up.  GCP need not execute
\* what nobody waits for.
FairSpec ==
    /\ Spec
    /\ WF_vars(AgentStep)
    /\ SF_vars(Lock)
    /\ SF_vars(Assign)
    /\ WF_vars(Restart)
    /\ WF_vars(ReportAddress)
    /\ \A f \in NodeFacts : WF_vars(Initialize(f))

-----------------------------------------------------------------------------
(* Properties                                                              *)

\* The taint goes only from a node that has a static IP and reports it, in whatever state
\* an earlier run has left the node (run, RemoveTaintKey), unless the GCP assigner did not
\* wait for an operation.
TaintGoesLast ==
    [][(waited /\ TaintKey \in taints /\ TaintKey \notin taints') =>
          (nodeIP \in IPs /\ reported = nodeIP)]_vars

\* With release-on-exit an agent that ends without an error leaves no static IP behind,
\* also when a cloud call failed half way through Unassign, unless the GCP assigner did
\* not wait for an operation.
CleanExitReleases ==
    pc = "down" /\ exit = "ok" /\ ReleaseOnExit /\ waited => nodeIP \notin IPs

\* A node loses its static IP only to an agent that is configured to release it and
\* is terminated, or that could not remove a taint it is configured to remove, or to a delete
\* nobody waited for that GCP executes late: a new run recognises what an earlier one,
\* crashed or terminated, has assigned.
AddressKept ==
    [][(nodeIP \in IPs /\ nodeIP' # nodeIP) =>
          \/ ReleaseOnExit /\ ctx = "done" /\ pc = "release"
          \/ TaintKey # NoKey /\ pc = "undo"
          \/ NoIP \in late \ late']_vars

\* Once faults stop, the node ends up with a static IP, without the taint, and with
\* an agent that waits for its termination: with the provider that tells the agent
\* which address it has found, or where there is no taint to remove; not with Azure.
\* Only an operation of GCP that was not waited for may leave the agent pausing without.
NodeReady == pc = "pause" /\ nodeIP \in IPs /\ TaintKey \notin taints
Settled == NodeReady \/ (pc = "pause" /\ ~waited)
NodeGetsReady ==
    Provider = "gcp" \/ (TaintKey = NoKey /\ Provider # "azure") => <>[]Settled

\* The same whatever the provider is: the taint goes once the static IP is assigned.
EveryNodeGetsReady == <>[]Settled

\* An agent that is terminated releases the static IP it has assigned when it exits.
ReleasedOnTermination ==
    [][ReleaseOnExit /\ ctx = "done" /\ address \in IPs /\ pc # "down" /\ pc' = "down" =>
          nodeIP' \notin IPs]_vars

=============================================================================
