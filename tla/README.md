# A verification of kubeip in TLA+

kubeip runs one agent on every node of a Kubernetes cluster. The agent takes a
static public IP from a pool the nodes share, puts it on its node, removes a
taint once the node reports it, and gives it back when it is terminated. The
agents have nothing in common but the cloud's API, one Lease object that serves
as a lock, and the node objects of the API server. This directory models that
system, model-checks it with TLC on small instances, and proves the safety
properties of every part with TLAPS for instances of any size.

## 1. Inventory

| Component (source) | State | Operations | Interacts with |
|---|---|---|---|
| Lease lock (`internal/lease/lock.go`) | the Lease (holder, renew time), a cancel function, a goroutine | `Lock`, `renewLeasePeriodically`, `Unlock` | API server; called around `Assign` |
| Agent (`cmd/main.go`) | retry counters, the assigned address, a context | `run`, `assignAddress`, `waitForAddressToBeReported`, `releaseIP` | all of the others; signals; restarted by a DaemonSet |
| Tainter (`internal/node/tainter.go`) | none; the taints of the node | `RemoveTaintKey` | API server, other controllers |
| Explorer (`internal/node/explorer.go`) | none; provider ID, labels, addresses of the node | `GetNode` | API server; what the cloud controller has set so far |
| Google Cloud assigner (`internal/address/gcp.go`, `internal/cloud/gcp_*.go`) | the access config of each instance, operations | `Assign`, `Unassign`, `waitForOperation`, `listAddresses` | Compute API |
| Oracle Cloud assigner (`internal/address/oci.go`, `internal/cloud/oci_*.go`) | the public IP of each primary VNIC | `Assign` (four cases), `Unassign`, `fetchPublicIps` | OCI API |
| AWS assigner (`internal/address/aws.go`, `internal/cloud/aws_*.go`) | the elastic IP of each instance | `Assign`, `Unassign`, filters, sorting | EC2 API |
| Azure assigner (`internal/address/azure.go`) | none | a stub: both operations return at once | |
| Assigner factory (`internal/address/assigner.go`) | none | the choice of an assigner | explorer, agent |
| OCI filters (`internal/types/filters.go`) | none | parsing and comparing tags | OCI assigner |
| Configuration (`internal/config/config.go`) | provider settings, filters, retries, taint key | `NewConfig` | all of the others |
| Command line, logging, chart, examples | none | | |

What is hard here:

* **Interleaving.** Every agent has two threads (the agent and the renewal
  goroutine), all agents share one Lease and one pool, and no call to the API
  server or to a cloud is atomic with the one before it. Several of them are
  check-then-act: Get then Delete of the Lease, the state of an IP then its
  assignment, Get then patch of the taints.
* **Failure.** A call may fail before or after it was executed; agents are
  killed, and come back with the same identity to what their predecessor left;
  a cloud operation goes on when nobody waits for it any more.
* **Time.** The lock is only as good as its renewal is punctual.
* **Selection.** Which addresses an agent tries depends on filters that replace
  each other, on lists that come in pages, and on a comparison that is no order.
* **Termination.** SIGTERM may come anywhere, cancels the context of most
  calls, and is not looked at by others.

What makes the components correct: the lock excludes, and is not blocked by the
dead; the taint goes last; an agent that exits cleanly has released its IP and
one that is restarted finds it again; an assigner reports what the cloud has,
never takes an IP from another node, costs no node its connection for nothing,
tries every free address that matches and no other, and always gives the lock
back. `PROJECT.json` lists the hazards at their lines.

## 2. Modules

| Module | Models | Size of the state |
|---|---|---|
| `ClusterLock` | what the lock promises: one agent inside at a time | the set of agents inside |
| `LeaseLock` | the lock of `lock.go` and the loop around it | the Lease, one record of variables per agent |
| `LeaseLockProofs` | theorems about it | |
| `Agent` | `run` and all it calls in `main.go` and `tainter.go` | one agent, its node, its cloud instance |
| `AgentProofs` | theorems about it | |
| `StaticIPs` | what an assigner promises: no IP on two nodes, none lost but to its own agent | the static IP of each node, what its agent does about it |
| `GcpAssigner` | `Assign` and `Unassign` of `gcp.go` on several nodes | access configs, operations, one program counter per node |
| `GcpAssignerProofs` | theorems about it | |
| `OciAssigner` | `Assign` and `Unassign` of `oci.go` on several nodes | public IPs, one program counter per node |
| `OciAssignerProofs` | theorems about it | |
| `AwsAssigner` | `Assign` and `Unassign` of `aws.go` on several nodes | public IPs, one program counter per node |
| `AwsAssignerProofs` | theorems about it | |
| `Selection` | parsing filters, listing, filtering and sorting addresses, for three providers | one configuration, the addresses of the cloud, the list that is made |
| `SelectionProofs` | theorems about it | |
| `MC*` | symmetry sets, configurations and tags of TLC's instances | |

How they fit together: `LeaseLock` is shown to implement `ClusterLock`
(`Inside`, the agents in the critical section, is the refinement mapping). The
three assigner modules are composed with `ClusterLock`: `Lock` is its `Enter`,
the end of `Assign` its `Leave`. Each is shown to implement `StaticIPs`, with the
static IP its nodes have in the cloud as `addr` and the part of the program the
agent is in as `phase`: while the agent relies on the IP (`"keeping"`) nothing
may change it, while it assigns it may only get one that no node has. An agent of
the Google Cloud assigner that has not waited for an operation is `"unsure"`
until it starts afresh: its own node may gain or lose an IP, that of no other may.
`Selection` explains the pools of the assigners: what they call available and matching is
the list it makes. `Agent` treats `Assign` and `Unassign` as steps whose outcomes
are those of the assigners: done; failed, with any part of the work done; and on
Google Cloud also reported as done although an operation was not waited for,
which is then executed later or never.

Actions whose comment starts with *Mutant* are not part of any specification.
Each is a plausible mistake in the definition next to it; substituting it makes
TLC find the property that guards against it violated.

### LeaseLock

Each action is one call to the API server with the code up to the next call.
`pc[a]` names the call `a` makes next; `"crit"` stands for the whole of
`Assign`, `"failed"` for an iteration of `assignAddress` that ended without the
lock, `"idle"` for the time outside. `renewer[a]` is the goroutine: `"wait"` for
its ticker, or `"update"` between its Get and its Update.

* *Time* is counted in half seconds, because the goroutine renews every half of
  the lease duration. The Lease carries the age of its RenewTime, capped just
  above the duration. `Tick` may not happen while some agent is more than
  `MaxDelay` late with a renewal, a Create or an Unlock: that is the only
  assumption on time, and `MaxDelay` is a constant: `lease_faults` gives it a
  value larger than the lease duration, so that Leases expire while they are
  held. Clocks are assumed to agree.
* *Optimistic concurrency.* `current` holds the agents whose Update would not
  meet a conflict. Every write empties it. A cancelled Update may still reach
  the server (`UpdateLands`).
* *Failure.* `FaultKinds` and `MaxFaults` bound what the environment may do:
  crash an agent, terminate it (every later call under its context fails), fail
  a call, with or without effect.
* *Back-off.* `tries` counts the attempts of `wait.ExponentialBackoff`. The code
  sets `Steps` to 100, but the cap of one hour ends the loop when the delay
  reaches it: 1.5^n seconds exceed an hour after the 21st attempt, so that 21 is
  the number of attempts `Steps` stands for. After the last attempt Lock sleeps
  once more before it gives up, and no sleep looks at the context; a sleep may
  last any time here.
* *Abstracted*: Lease fields that are nil.

### Agent

`pc` follows `run`; a call is an action, the selects at the end of the two retry
loops are `Select`. `Restart` is the DaemonSet. `nodeIP` is the truth in the
cloud, `reported` what the node object says, `address` what the agent believes.
The configuration (`cfg`: provider, taint key, release on exit) is chosen from
the constant `Configs` in `Init` and never changes, so that one run covers all
sixteen. The provider decides what `Assign` returns for an IP it finds already
there: the address (Google Cloud), or `ErrStaticIPAlreadyAssigned`, which
`assignAddress` turns into the empty address (AWS, OCI). On Azure both
operations do nothing and `Assign` returns the empty address. On Google Cloud a
failed Wait is taken for success (`gcp.go:172-180`, `198-206`), and a context that
ends in the wait is one: `AssignedUnwaited` is an `Assign` that reports an address
which is attached by then, later or never, and `Unassigned` and `UnassignFails`
have the same outcomes, also where the node is not yet the user of the address
(`gcp.go:350`). `late` holds the operations nobody waits for, `ExecuteLate`
executes one, if it still can be. `waited` is a history variable: no operation was
late when the agent last took the lock, and every one since was waited for to its
end. `CleanExitReleases`, `TaintGoesLast` and `NodeGetsReady` except what happens
while it is false, and nothing else: with the other providers it never is. That a node keeps or
gets an ephemeral IP when the static one is taken off an AWS instance is an
assumption about EC2.

`known` is what `GetNode` finds of its node: the provider ID, the two labels and
the pool, which the cloud controller sets one by one (`Initialize`). Until all
are there `Discover` ends the run with an error, and the DaemonSet starts the
next.

### GcpAssigner

`Submit` is a request for an operation, `Execute` its execution in the cloud,
the `...Wait` actions are `waitForOperation`. An operation whose waiting failed,
or whose agent died, moves to `late` and is executed at any later time, if it
still can be, or never. `Unassign` runs outside the lock, as in the code. Fault
kinds: `error` (a request is refused), `lost` (accepted, the answer lost), `op` (the
operation fails), `wait` (the waiting fails), `cancel` (the context ends),
`expire` (the lock runs out under its holder), `crash`. Faults hit the nodes of the
constant `Faulty`.

* `ctx[n]` is the context: that of `run` for `Assign`, one of five minutes for
  `Unassign`. `Cancel` ends it at any point. The code sees it at the two
  `ctx.Err()` checks (`gcp.go:258`, `gcp.go:417`), where the call fails, and in every
  Wait, where it is an error that is logged and taken for success: `WaitError`
  needs no other fault then. Lists, reads and requests do not look at it.
* `waited[n]` is a history variable: since the last `Lock` of `n` that found none of
  its operations late, each was waited for to its end. `AssignedIsAttached` and
  `ReleasedIsEphemeral` say what is true of a node as long as it holds; the
  refinement maps a node for which it does not to `"unsure"`.
* `others` are addresses of the constant `Shared` that instances outside the
  cluster use, so that one instance has both enough addresses and too few.

Left out: the fingerprint of the network interface that guards IPv6 updates (a
stale one makes the cloud refuse a request, which is `error`), an operation that
has already failed when the request returns (taken for success at `gcp.go:134`,
like a Wait that fails), and static IPs outside the filter.

### OciAssigner

`Case1` to `Case3Delete` are the cases of `handlePublicIPAlreadyAssignedCase`;
`MoveTo` is `UpdatePublicIP`, which takes an IP from whoever has it. Nodes start
with an ephemeral IP, a reserved one that does not match the filters, one the
assigner can find in no list, or none. Fault kinds: `error` (a request fails
without effect), `lost` (it is executed, the answer lost), `crash`. Left out: the
states between AVAILABLE and ASSIGNED, requests that a killed agent left on
their way, and a lock that runs out (section 5).

### AwsAssigner

`Check` to `Associate` are the requests of `Assign`, `UnList` and
`UnDisassociate` those of `Unassign`. `Public` are the nodes whose subnet gives
them a public IP: `getNetworkInterfaceID` refuses an interface without one.
`AssociateAddress` refuses an IP that is associated, and replaces the one the
interface has, so that an association whose answer was lost is exchanged for the
next address of the loop. Fault kinds: `error`, `lost`, `gone` (EC2 does not list
the instance: `Get` returns nil without an error, and `Assign` panics; the
deferred `Unlock` still runs), `expire`, `crash`.

### Selection

One call of `getAvailableElasticIPs`, `listAddresses` or `fetchPublicIps`,
together with the parsing of the filters before it. `Init` chooses the provider,
the filters, the order and what each address is like: without tags, with tags
but not the one to sort by, with it, or in use. A string that is a filter is
abstracted to the key and the values it asks for, or to `Invalid`. The actions
follow the loops: over filters (`Parse`), over pages (`NextPage`, `LastPage`),
over the list (`Swap`, `Inserted`). `AddPage` says what one answer adds: the
wanted addresses of the page, in the order of the cloud, behind those before. `sort.Slice` is a library: up to twelve
elements it sorts by insertion, which is what the actions do; for longer lists
nothing is claimed. Other fields `order-by` accepts behave like `AllocationId`
(always set) or `AssociationId` (nil unless the address is associated).

In the assigner modules a crash gives the lock back at once, which stands for
the Lease running out.

## 3. Runs

The instances have two agents or nodes (three for the exclusion of the lock, so
that a second waiter competes with the first, and on AWS, where one node cannot
have an IP), and none to three faults. In `gcp_assign` they hit the agent of one of
the two nodes, `Faulty`; the other one competes and is harmed, or not. The nodes
are alike but for that, and the theorems are about faults on all of them. One holder and two waiters, two nodes with
two addresses or one, and one repetition of a loop are enough for every branch
of the code: every disjunct of every action is taken in some passing run.
`RetryAttempts = 1`, `Steps = 2` and `MaxRetries = 2` (60 by default, 21
and 10 in the code) let loops repeat and run out. In `selection` three addresses
on pages of two make a second page and a list in which one address stands
between two others; two filters can replace each other.

| Run | Checks | Instance | Shows |
|---|---|---|---|
| `lease_faults` | `TypeOK`, `RenewerInsideCriticalSection`, `LeaseWrittenByHolder`, `WaitersGetThrough` | 2 agents, 1 fault of any kind, delays longer than the lease, fair | the goroutine never leaks, no late renewal revives or takes over a Lease, and a Lease left behind blocks nobody for ever |
| `lease_mutex` | `MutualExclusion`, `ImplementsClusterLock`, `UnlockKeepsOthersLease` | 3 agents, no faults, `LeaseDuration = 4`, `MaxDelay = 1` | with punctual agents the Lease is the abstract lock |
| `agent_faults` | `TypeOK`, `CleanExitReleases`, `TaintGoesLast`, `AddressKept`, `NodeGetsReady` | all 16 configurations, 3 faults of any kind, failed waits included, fair | unless an operation of Google Cloud was not waited for: the taint goes last, the IP is released as configured and in no other way, and the node gets ready once faults stop and the cloud controller has done its part |
| `gcp_assign` | `TypeOK`, `AssignedIsAttached`, `ReleasedIsEphemeral`, `NeverWithoutAddress`, `ImplementsStaticIPs`, `EveryNodeServed`, `LockReleased` | 2 nodes, 2 addresses, one of which may be in use elsewhere, 2 faults of any kind on one node, fair | what is reported is what the cloud has where every operation was waited for; no agent ever takes the address of another, even without the lock; `Assign` always gives the lock back; as long as nothing fails the loser of the competition keeps its ephemeral IP; every agent gets an address, those terminated in a wait after their restart |
| `oci_assign` | `TypeOK`, `AssignedIsAttached`, `ImplementsStaticIPs`, `EveryNodeServed`, `LockReleased` | 2 nodes, 2 addresses, 3 faults of any kind, fair | under the lock nobody takes an IP from another node, whatever public IP the nodes start with |
| `aws_assign` | `TypeOK`, `AssignedIsAttached`, `ImplementsStaticIPs`, `EveryNodeServed`, `LockReleased` | 3 nodes (2 with a public IP), 2 addresses, 2 faults of any kind, fair | also without the lock EC2 gives no IP to two nodes; a panic gives the lock back; a node that cannot have an IP does not keep the others from theirs |
| `selection` | `TypeOK`, `OnlyMatching`, `NoneForgotten`, `UntaggedLast`, `SortedBetween`, `Terminates` | 3 providers, 3 addresses of 6 kinds, 2 filters, pages of 2, fair; it ends, so deadlock is not checked | the list has every free address that matches, once, and, unless a filter replaces another, no other; addresses without tags come last, and tags are in order where no address without the tag stands between |

Runs that are expected to fail each show one disagreement between the code and
something the repository says of it; `PROJECT.json` quotes both.

| Run | Property violated | In short |
|---|---|---|
| `lease_restart` | `MutualExclusion` | an agent restarted after a crash re-enters on its old Lease and does not renew it |
| `lease_lock_error` | `LockWaitsUntilAcquired` | a Lease deleted between Create and Get makes Lock fail at its first attempt |
| `agent_empty_address` | `EveryNodeGetsReady` | on AWS and OCI a restarted agent waits for the address "" |
| `selection_filters` | `AllFiltersApply` | on AWS and OCI a second filter with the name of the first replaces it, instead of being joined with it by AND |
| `agent_terminated` | `ReleasedOnTermination` | SIGTERM before the pause: the IP is not released |

### Fairness

* `LeaseLock`: time passes; a running agent and its goroutine make their next
  call; the loop of `assignAddress` calls `Lock` again after a failure. An agent
  whose context is cancelled ends eventually (strong fairness: Go's `select`
  picks a ready case at random). Nobody is forced to call `Lock` from idle, to
  give up or to be restarted.
* `Agent`: the agent goes on, the DaemonSet restarts it, the cloud controller
  reports the address, and the lock and an address become available again and
  again (strong fairness of `Lock` and `Assign`; without it an agent runs out of
  attempts for ever). Operations nobody waits for need not be executed.
  The cloud controller sets what is missing in a new node.
* `Selection`: the call goes on. That a request fails is no part of what is
  relied on.
* Assigners: requests are answered, operations that are waited for executed, an
  agent whose context is done ends (`Exit`), agents are restarted, and
  an agent that keeps trying gets the lock (strong fairness of `Lock`). The
  lease itself only guarantees that *some* waiter gets through
  (`WaitersGetThrough`); the jitter of the back-off makes it fair in practice.
  `Unassign` and faults are never forced, and faults are bounded in number.

## 4. Proofs

TLAPS checks the theorems of the six `...Proofs` modules for every value of the
constants, under the named assumption of each component (`LeaseAssumption`,
`AgentAssumption`, `GcpAssumption`, ...). They give the constants their types,
keep model values apart, and keep the IPs of a pool apart from the words a
result may also be (`"ok"`, `"already"`, ...), as Go's types do. Each invariant
below was first checked by TLC on the instances of section 3.

### The lock

* **`TypeCorrect`, `RenewerConfined`, `HandOverByDeletion`** hold whatever the
  environment does. They rest on `SafeInv`, which adds one fact to the types and to
  `RenewerInsideCriticalSection`: an Update that can still succeed is of the
  agent's own Lease (`CurrentIsOwn`). Without it a late renewal could write
  another agent's Lease.
* **`Mutex`** assumes `Timely`: no faults, and `4 * MaxDelay <= LeaseDuration`,
  which in the units of the code means that no Create, renewal or Unlock is
  later than an eighth of the lease duration. `MutexInv` says that the Lease is
  exactly the lock (`LeaseIsLock`), that its holder has a goroutine whose Update
  will succeed (`RenewerAlive`), and how old the Lease may be at each point of a
  round of renewal and of Unlock (`LeaseFresh`): the Update of one renewal, the
  tick of the next, its Update, and the Unlock that cancels it may each be one
  `MaxDelay` late. Hence it does not expire while held
  (`HeldLeaseNotExpired`). The bound is the one the proof needs: with three
  delays in place of four it fails. `lease_restart` shows that the absence of
  faults cannot be dropped.
* **`UnlockDeletesOwn`**, from the same invariant: between the Get and the Delete
  of Unlock the Lease does not change hands.
* **`LeaseImplementsLock`**: under `Timely` every step of `LeaseLock` is a step
  of `ClusterLock` or leaves `Inside` alone. This justifies composing the
  assigners with `ClusterLock` while agents are punctual and restarts do not
  re-enter on an old Lease; where the lock itself fails (`lease_restart`), what
  the assigner runs show is not claimed.
### The agent

* **`AgentTypeCorrect`, `CleanExit`, `TaintIsLast`, `StaticIPKept`** hold for
  every configuration and whatever fails: the first without a proviso,
  the last but for a late delete, the other two as long as `waited` holds. `AgentInv` adds to the types
  that a late operation was not waited for and is one of Google Cloud
  (`LateIsUnwaited`), that an address the agent has is the one of the node
  (`AddressIsNodes`), that it is reported when the taint is about to go (`ReadyForTaint`), that no node on Azure
  ever has one (`NothingOnAzure`), and that `run` gets
  to a release only where the configuration asks for it
  (`ReleasesAsConfigured`). `TaintIsLast` needs
  `AddressIsNodes` and `ReadyForTaint`, `CleanExit` needs `NothingOnAzure` (Azure's
  `Unassign` takes nothing off), `StaticIPKept` the last, and that `Assign` leaves
  alone what it finds, however it ends (`AssigningType`).

### The assigners

All three are shown to implement `StaticIPs`: the initial states map to initial
states, and each action to a step of `StaticIPs` or to a stutter. What that takes
differs as much as the clouds do.

* **AWS: `AwsTypeCorrect`, `AwsAssignedIsAttached`, `AwsImplementsStaticIPs`** hold
  whatever fails, also if the lock runs out. `AwsInv` needs only that no elastic
  IP is on two instances (`NoneShared`), which EC2 keeps by refusing to
  associate one that is, and that the IP in hand is one of the pool
  (`TargetInPool`). The lock occurs nowhere in the invariant: on AWS it avoids
  failed requests and is not needed for safety.
* **Oracle Cloud: `OciTypeCorrect`, `OciAssignedIsAttached`,
  `OciImplementsStaticIPs`** hold whatever request fails and whoever crashes, but
  rest on the lock: `UpdatePublicIP` takes an IP from whoever has it. `OciInv`
  says that only the holder of the lock is in `Assign` (`AssignUnderLock`), that
  an IP which was checked is still free when it is moved (`TargetIsFree`), that
  the VNIC which was read is still what the node has (`VnicIsCurrent`), and that
  only a foreign IP is taken off in case 2 and only one of the pool by
  `Unassign` (`VnicFitsCase`). Dropping `AssignUnderLock` breaks `TargetIsFree`,
  and that the refinement.
* **Google Cloud** has three layers. *Whatever happens* (`SafeInv`): an operation
  asks for what its place in the code calls for (`WantFits`), is the one its agent
  waits for (`OpIsAwaited`), and is late only where it was not waited for
  (`LateIsUnwaited`): `GcpTypeCorrect`. *Of each node whose operations were waited
  for* (`OrderlyInv`, conditional on `waited`): an operation that is done has had
  its effect (`DoneIsThere`), and no access config is there to be lost, or still
  is, where the code relies on it (`NoneToLose`, `StillThere`). From the two follow
  `GcpAssignedIsAttached`, `GcpReleasedIsEphemeral` and `GcpImplementsStaticIPs`, for
  every fault, ended contexts, failed waits, lost answers and crashes included; none
  needs the lock. *As long as nothing fails* (`CalmInv`): under the lock the
  addresses still to be tried are free (`TodoIsFree`), so that the operation that
  adds the first of them succeeds (`OpSucceeds`). Hence `GcpNeverWithoutAddress`:
  whoever finds no address still has its ephemeral one.

### Selection

`SelectionInv` has a part for each loop.

* `FilterInv`: after `k` filters, what was parsed is among the filters of the
  configuration, and where none replaces another (`NoneReplaced`) has all of the
  first `k` (`ParsedUpTo`); `ParseOne` is the step of that loop.
* `ListInv`: the list holds what is wanted of the addresses seen so far (`Seen`),
  each once. `AddPageList` shows it for one page, `ListStep` also for a swap,
  which only permutes. **`SelectionOnlyMatching`** and
  **`SelectionNoneForgotten`** follow from these two, for any number of filters
  and addresses and any page size.
* `SortInv`: the first `i` addresses are sorted but for the one at `j`
  (`SortedBut`), which is before all that it has come past. "Sorted" has to be
  stated for a relation that is neither transitive nor total: untagged addresses
  last, and tags in order along every stretch of addresses that have the tag,
  where the address under way may stand in between. The usual invariant of an
  insertion sort, that neighbours are in order, does not give
  **`SelectionUntaggedLast`** and **`SelectionSortedBetween`** here.
  `SortedButSwap` and `SortedButNext` are its two steps.

**`SelectionTypeCorrect`** needs all parts: the counters stay in bounds because
the list is no longer than what was seen, and `j` no further than `i`.

### Only model-checked

Every safety property of a passing run is stated by a theorem. Liveness
(`WaitersGetThrough`, `NodeGetsReady`, `EveryNodeServed`, `LockReleased`,
`Terminates`) is out of the prover's reach and stays with TLC, and so do the
five runs that show a violation.

## 5. Limits of the code that no run is about

The models contain, or deliberately leave out, these behaviours; the properties
above are stated so that they hold in spite of them.

* One failed Get ends the renewal of a Lease that is still held
  (`lock.go:107`), and Lock and Unlock delete a Lease without a precondition
  after they have read it (`lock.go:74`, `lock.go:134`). With a failing call or a
  late one two agents may be inside: `Mutex` and `UnlockDeletesOwn` assume
  `Timely`, and in `lease_mutex` no Lease expires; `lease_restart` has one that does.
* The role that the README documents (`README.md:69-71`), and the one of the chart
  (`clusterrole.yaml:17-18`), have no `update` on leases.
  An agent deployed so cannot renew: the error of the Update is not looked at
  (`lock.go:112`), and every Lease runs out after its duration, held or not. The
  runs and `Timely` assume that the API server accepts renewals; what the assigners
  guarantee without the lock is said in section 4.
* When the answer to the patch of the taints is lost, `run` releases the IP of a
  node that has lost its taint (`main.go:246`). `TaintGoesLast` is about the
  moment the taint goes.
* The merge patch replaces the list of taints and carries no resource version
  (`tainter.go:67`): a taint added between Get and Patch is lost. `ChangeTaint`
  interleaves with both, and no property speaks of the other taints.
* On Google Cloud a Wait that fails, because its context ends for instance, is taken
  for success (`gcp.go:198`). `Assign` then reports an address that is attached later
  or never, `Unassign` a release that comes later or never, and an agent without a
  taint key may pause for ever without a static IP, or exit cleanly before the
  address it asked for is attached. `waited` is false then, and the properties of
  `GcpAssigner` and `Agent` say what holds before and after. `EveryNodeServed` holds
  also for agents terminated in a wait, once they are started anew; not for one
  whose Wait fails by itself.
* On Oracle Cloud an UpdatePublicIP that is delayed until after its agent was
  killed, or that is sent after the lock has run out, would take the IP from a
  node that got it since (`oci.go:310`), and case 1 compares addresses only
  (`oci.go:196`). Neither is modelled: `ImplementsStaticIPs` of `OciAssigner`
  rests on the lock, where those of the other two do not.
* The AWS assigner takes any elastic IP of an instance for the one it has assigned
  (`aws.go:257-282`), also one outside the filter or on another interface.
  `AwsAssigner` has neither: its instances have one interface, and elastic IPs of
  the pool or none.
* `ListPublicIps` asks for no second page (`oci_network_service.go:39`), and an IP
  without tags matches no set of filters, not even the empty one
  (`filters.go:23`). `NoneForgotten` excepts both.
* Sorting by a field that only an associated address has (`aws.go:115-138`) is a
  nil dereference as soon as two addresses are available: `Panic` of `Selection`.
* An address with tags but without the one to sort by is neither before nor
  after another with tags (`aws.go:96`), and may keep two others from being
  compared. `SortedBetween` is what remains true.

## 6. Not modelled, and the plan

What is left to prove:

1. What `StaticIPs` and `ClusterLock` themselves guarantee (no IP on two nodes, at
   most one agent inside), so that the refinements carry it over by name.
2. The safety halves of the liveness properties: that the lock is always held by
   an agent that is on a path which gives it back (for `LockReleased`), and that
   each loop of `Selection` makes a bounded measure smaller (for `Terminates`).

Nothing else is left that has state of its own. Not modelled: flag parsing,
logging, the chart and the examples; how provider IDs and filter strings are taken
apart character by character; defined tags, a stub in the code
(`filters.go:51-64`); the metadata server from which `NewGCPAssigner` takes a
project and a region; the IPv6 fingerprint, for the reason given above.
