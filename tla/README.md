# Formal model of the KINX IKS v2 cloud controller manager

The program under `src/` is a Kubernetes cloud controller manager for an OpenStack cloud. Kubernetes
calls it about Services of type LoadBalancer, about nodes, and (nominally) about routes; it answers by
reading and writing OpenStack: load balancers through LBaaS v2, instances through Nova, routers and ports
through Neutron. It keeps almost no state: everything that must survive a crash is in the cloud, in the
Kubernetes API, or in the names of the resources. That is what makes it hard to get right. Any pass may end
between any two calls, and the next one has only what it can list.

This directory holds TLA+ modules translated from that code, TLC configurations that check them on small
instances, theorems checked by TLAPS, and `PROJECT.json`, which maps each definition to its source lines
and lists the hazards of the code with the properties that cover them.

Contents: [inventory](#inventory), [plan](#plan), [the modules](#the-modules),
[the runs](#the-runs), [bounds](#bounds), [fairness](#fairness), [proofs](#proofs),
[what the code does that its comments do not say](#divergences), [not modelled](#not-modelled).

Paths below without a directory are in `src/pkg/cloudprovider/providers/kinx/`.

## Inventory

| Component | State | Operations | Hard behaviour | Correct when |
|---|---|---|---|---|
| Load balancer passes, `kinx_loadbalancer.go` | none of its own; load balancer, listeners, pools, members, monitors in LBaaS; local lists of a pass | `EnsureLoadBalancer`, `EnsureLoadBalancerDeleted`, `GetLoadBalancer` | 10 to 100 calls per pass, each asynchronous (PENDING states, 409), each may fail or lose its reply; crash anywhere; lists go stale during the pass | one load balancer per Service, no orphans, finalizer outlives the cloud resources, retries converge, traffic is not interrupted by a change |
| Listener and pool protocols | in the listener and pool | choice of protocol, description and TLS reference from annotations | created by different passes under different annotations, never recreated | pool speaks what its listener forwards; two passes settle |
| Node updates, `UpdateLoadBalancer` | members | member phase for a new node list | runs next to `EnsureLoadBalancer` of the same Service, without a lock | members are the nodes; a stable node never loses its member |
| Polling loops | number of steps, delay | `waitLoadbalancerActiveProvisioningStatus`, `waitLoadbalancerDeleted` | exponential delays, time-outs | a change is noticed promptly, no early give-up |
| Service patcher, `kinx_loadbalancer_service_patcher.go` | two copies of the Service, one of them the informer's own object | `updateServiceAnnotation`, `Patch` | concurrent edits, watch events, failed or unanswered patches, crashes | the ID is recorded, edits survive, the error of the pass is returned |
| Instances and zones, `kinx_instances.go`, `kinx_zones.go` | none | `NodeAddresses(ByProviderID)`, `InstanceExistsByProviderID`, `InstanceID`, `GetZoneByProviderID`, `GetZoneByNodeName`, ... | answers combine two documents read one after the other; errors against "not found"; fall-backs from ID to name | a live node is never deleted; addresses are exact and end up right; the zone is that of the instance |
| Subnet lookup and `lbaas.opts.SubnetID` | one field shared by all passes | `getSubnetIDForLB` | written by one pass, read calls later by another | a member is created in its own subnet |
| Routes, `kinx_routes.go` | the router's list of routes, the ports' address pairs | `ListRoutes`, `CreateRoute`, `DeleteRoute` | read-modify-write of a whole list, concurrent goroutines, undo | no route lost, of others least of all; a route has its address pair; an operation that is alone does its own work only |
| Metadata, `src/pkg/util/metadata` | one document, kept after the first read | `Get` in a search order | I/O | not modelled, see the end |
| Provider set-up, metrics, mount, block devices, start-up | configuration | parsing, authentication, system calls | I/O | not modelled, see the end |

How they interact. The Kubernetes service controller (v1.18.0) owns a queue with one key per Service, and
workers that process different keys concurrently but one key at a time. A key that failed is queued again. It
adds its finalizer before `EnsureLoadBalancer` and removes it after `EnsureLoadBalancerDeleted`, or after
`GetLoadBalancer` reports that nothing exists. A separate goroutine, the node loop, calls `UpdateLoadBalancer`
for every Service whenever the node list changes, concurrently with the workers, and keeps the Services (as
objects of that time) whose update failed. The object handed to a pass is the very object in the informer's
store. The cloud node controller and the node lifecycle controller poll `Instances`: the one writes node
addresses, which `getSubnetIDForLB` and `nodeAddressForLB` later use in a load balancer pass; the other
deletes nodes. The route controller would call `Routes` in rounds, with a goroutine per route. These
controllers, the Kubernetes API and OpenStack are not under `src/`; the map marks what models them as
external.

## Plan

Order, by what matters most for users of a Service:

1. `LoadBalancer`: both passes, one API call per step, faults, crashes, the queue. **Done.**
2. `ResourceTree`: the abstract promise (resources grow and shrink at the leaves), which 1 implements. **Done.**
3. `LoadBalancerInv`, `LoadBalancerProofs`: inductive invariants and proofs of type correctness, no orphans,
   single load balancer, finalizer. **Done.**
4. `ListenerConfig`, `ListenerProtocol`: what the annotations make of a listener and its pool, used by 1 for a few
   annotations and many ports, and checked here for all annotations and one port. **Done.**
5. `ServicePatch`: recording the load balancer's ID. **Done.**
6. `ProvisioningWait` with proofs: the waits that 1 abstracts to one step. **Done.**
7. `MemberSync`: `UpdateLoadBalancer` next to `EnsureLoadBalancer`. **Done.**
8. `NodeAddresses`, `NodeController`: addresses, lookups by name and ID, node deletion. **Done.**
9. `Routes`, with the next hop in `NodeAddresses`: the router's list and the address pairs, rounds of concurrent
   creations and deletions, undo. **Done.**
10. Proofs about each component: `RoutesProofs`, `ServicePatchProofs`, `MemberSyncProofs`,
    `ListenerProtocolProofs`, `NodeControllerProofs`. **Done.**
11. The remaining theorems about 1: what a pass has established, that it makes before it breaks, that every call
    repairs, that the quiet controller has reconciled, and that it implements 2. **Done.**
12. `FoldLemmas` (induction over data), and with it what the address list of 8 contains; how much an Ensure pass
    can do. **Done.**

Three parts once planned were given up, with reasons under [not modelled](#not-modelled): the shared
`lbaas.opts.SubnetID`, the metadata service, and ports that differ only in TCP/UDP.

Composition: `LoadBalancer` instantiates `ResourceTree` under a refinement mapping (live resources are the
entries of the tree of the load balancer). `LoadBalancerInv` and the proofs extend `LoadBalancer`.
`LoadBalancer` and `ListenerProtocol` extend `ListenerConfig`, so that a listener is created and updated by the
same operators in both. `NodeController` extends `NodeAddresses`. `FoldLemmas` belongs to no component: the
proofs about `NodeController` extend it. The other modules each take one abstraction that `LoadBalancer` makes
and look into it: the wait (`ProvisioningWait`), `EnsureReturns` (`ServicePatch`), a member phase nobody else
disturbs (`MemberSync`), the "precheck" that may refuse a pass (`NodeController`). `NodeAddresses` also has the
address and port lookups of `Routes`, where a next hop is identified with the server that `getAddressByName` and
`getPortIDByIP` lead to.

## The modules

**LoadBalancer.** One Service. `status` and `tree` are the cloud: per load balancer identity its provisioning
status, and per service port its listener configuration, pool configuration, monitor and members. `want`,
`finalizer` and `queued` are Kubernetes. `pass` is the local state of the running pass, named after the
variables of the Go function (`old` is `oldListeners`, `stale` is `members`, ...). Each action is the code from
one API call to the next:

- `Goto`, `Call` and `Fail` say how a step ends. `Call` is a mutating LBaaS call: refused with an error unless
  the load balancer is ACTIVE, or failing as a fault, or taking effect and putting the load balancer into
  PENDING_UPDATE with its reply delivered or lost. After a reply the pass is `waiting`
  (`waitLoadbalancerActiveProvisioningStatus`) until the API settles, or times out. The pool update of line 570
  has no wait after it, and neither has the model.
- `Lookup`, `CreateLoadBalancer`, `ListListeners`, `EnsureListener`, `EnsurePool`, `UpdatePool`,
  `ListMembers`, `EnsureMember`, `DropMember`, `EnsureMonitor`, `DropOldMonitor` to `DropOldListener` and
  `EnsureReturns` are `EnsureLoadBalancer` from top to bottom. `EnsureRejected` is a pass that is refused
  before its first call.
- `BeginDelete`, `ListForDelete` and the `Delete...` actions are `EnsureLoadBalancerDeleted`, which takes its
  lists first and then deletes monitors, members and pools, listeners, and the load balancer.
- `Edit` is the user, `Settle` and `SettleError` the cloud, `Crash` and `Restart` the process.

A listener is its protocol, description and TLS containers, and what a pass makes of it is `AskedListener`: a new
one with `NewListener`, whose description is chosen before a TLS container forces the protocol (lines 464-481), or
the one that was found with `UpdatedListener`, which keeps its protocol (441-454). A pool is its protocol, method
and description. Properties therefore say that a load balancer *serves* a Service (`Matches`): an existing
listener or pool keeps the protocol it was made with, whatever the annotations say now, and everything else of it
is as its own protocol and the annotations want it; a listener that was just created may instead have the
description of another protocol (`ListenerServes`), which only a later pass corrects.

The status "RELAPSED" is the API's ERROR for a load balancer whose deletion was accepted and failed later. The
passes cannot tell it from ERROR; the properties can, see under proofs.

Abstractions. Session persistence, which is set when a pool is created and never compared, is left out; the TLS
containers of a listener (the default one and the list for SNI) are one value. A lost reply takes effect at
once. The node list of a pass is any member of `HostSets`. Deleting a resource deletes it alone: the API of the
model does *not* clean up children, so that `NoOrphans` is the code's doing. The lookup by legacy name is part
of the lookup by name.

**ResourceTree.** A set of live resources; `Add` below a live parent, `Remove` of a leaf.

**ListenerConfig.** The helpers (`normalizeBackendProtocol`, `getListenerProtocol`,
`backendProtocolFromListenerProtocol`, `getPoolProtocol`, `getListenerDescription`, `getPoolDescription`) as
operators of the same shape, and the listener that a pass creates or updates from the annotations.

**ListenerProtocol.** The annotations, one listener, its pool, and the pass between them.

**ProvisioningWait.** One run of one of the two polling loops, with time in milliseconds. `Loops` gives each
loop's first delay and number of steps; `wait.ExponentialBackoff` of apimachinery 0.18 reads N times and
sleeps N-1 times, with a factor of 1.2.

**ServicePatch.** The Service in the API, the watch events under way, the object in the informer's store,
whether the pass still holds that very object, and the pass. The passes write the annotation into `updated`,
and so into the store while it is shared.

**MemberSync.** One pool. Two actors, `ensure` and `update`, each with its own list of nodes, node port and
lists of members to add and to drop; Kubernetes with its node list, the node loop's `known` hosts and its
`retry` of a Service as it was. The difference in code between the two actors is kept: `ensure` identifies
members by address and port, `update` by address only. The process may crash in any state, and does when the
node list is empty (`nodes[0]`, line 751); it starts again with an empty cache and no known hosts. `beyond` is
a history variable: whether the two operations have run at once ("overlap"), the node list has changed and
changed back between two looks of the node loop ("missed"), or the loop has repeated an update for a Service
as it no longer was ("stale").

**NodeAddresses.** The list computed by `nodeAddresses` as folds of `AddInterface` (one round of the first loop)
and `Place` (one round of the last), which are made of `Add` (`AddToNodeAddresses`) and `Drop`
(`RemoveFromNodeAddresses`), and the consumer side (`nodeAddressForLB`, `getSubnetIDForLB`, which prefer an
InternalIP to an ExternalIP: `PreferInternal`). `TypesOf` is the reference: the types an address should have,
without loops. An interface has one fixed address; host names are left out. `AddressByName` and `OnPort` are
what the routes ask of it: the next hop of a node, and the port that has it.

**NodeController.** One node name, instances that carry it, and the passes of the node controller and of the
lifecycle monitor, one Nova call per step. `ByName` is `getServerByName` (nobody, an error for two, or the
one); errors end where the callers of the code and the Kubernetes controllers let them end. An instance is
created, destroyed, and changes its ports, floating IP and access addresses in between; names do not change and
IDs are not reused. A new node also gets its zone, by ID or else by name; each instance is its own zone.

**Routes.** The router's list of routes as a set (with `last`, whether the victim of a deletion is its last
element, which the undo depends on), the ports' address pairs, and one operation record per kind and route.
`ListServers` and `ListRoutes` are the two reads of `ListRoutes` and the controller's choice; `ReadRouter`,
`PutRoutes`, `ReadPort`, `PutPairs` and `Undo` are `CreateRoute` and `DeleteRoute` from one API call to the
next, and interleave with those of the other operations of the round. `torn`, `added`, `raced` and `clean` are
history variables: they say which of the things that the code does not guard against have happened. The pairs'
own unwinders never run, because nothing after them can fail.

## The runs

| Run | Expect | What it shows |
|---|---|---|
| `LoadBalancerSafety` | pass | `SingleLoadBalancer`, `NoOrphans`, `FinalizerGuardsCloud`, `QuietMeansReconciled`; `EnsureEstablishes`: a pass that succeeds leaves a load balancer that serves what it was given, with nothing missing, stale or surplus; `EveryCallRepairs`: no call of it is useless or spoils anything; `MakeBeforeBreak`: members and old ports go only after their replacements are complete. Under two faults, one ERROR and two edits, with refused Services and a node without address. The inductive invariants of the proofs, `Discipline`, `Ownership`, `Achievement` and `Errand`, are checked along |
| `LoadBalancerLive` | pass | `Convergence`: in the end the cloud is what the Service asks for, or a load balancer is in ERROR; `GrowsAndShrinksAtLeaves`: the passes implement `ResourceTree` |
| `LoadBalancerPanic` | violation of `ProcessSurvives` | without a fault or crash: the lb-method of a two-port Service changes, nothing waits after the update of the first pool, that of the second is refused with 409, and the error path dereferences a nil pool (line 575) |
| `ListenerProtocol` | pass | `SettlesInTwo`, `PoolFollowsListener`, for all sequences of edits over 28 sets of annotations |
| `ServicePatch` | pass | `RecordedWhenQuiet`, `StoreAgrees` (both as long as no patch failed), `UserEditsSurvive` |
| `ServicePatchLost` | violation of `AlwaysRecorded` | after one failed patch the ID may never be recorded |
| `ServicePatchErrors` | violation of `FailureIsReturned` | a pass that failed returns no error, because the patch of its annotation succeeded |
| `ProvisioningWait` | pass | `NoticedPromptly`, and the inductive invariant `Backoff`, for the real constants of the code |
| `MemberSync` | pass | `StableNodesKeepServing` under any interleaving; `QuietMeansMembers` unless one of the three things in `beyond` has happened. With a crash, and an empty node list |
| `MemberSyncLost` | violation of `EveryNodeServed` | a node joins while `EnsureLoadBalancer` runs with the old list, which deletes the member that `UpdateLoadBalancer` has just created: the node is without traffic for good |
| `NodeController` | pass | `ListIsExact`, `InterfaceOrderWins`, `SubnetResolves`, `RouteHopHasPort`, `ZoneIsOwn`, `LiveNodeStays`, `AddressesConverge` |
| `Routes` | pass | `PairsComplete`, `AloneIsExact`, `ForeignRoutesStay`, `RoutesConverge`: rounds of concurrent operations on one list |

Every property of a passing run has a mutant in `PROJECT.json`: a plausible bug in a mapped definition that
breaks it under the same configuration. The mutants are the definitions `Mut...` in the modules; nothing else
uses them.

Deadlock is not checked in runs whose system may stop: the user's edits and the faults are bounded, and a
reconciled Service leaves the controller with nothing to do. Only `ListenerProtocol`, where a user may always
edit, checks it.

## Bounds

- `LoadBalancer`: two ports, so that one may be kept while the other comes or goes; two nodes, and in `Safety`
  a third that has no address; two node ports, methods and sets of annotations, so that each may change or not.
  One set asks for HTTP; the other for TCP with the proxy protocol and a TLS container, so that a listener may be
  created with the wrong description, keep the wrong protocol, or be settled. Two load balancer identities, one
  more than a Service should ever have. Two edits allow create, change and delete, or create, delete and create
  again. Two faults allow a fault in the retry of a fault (a lost creation and then a crash), and one provisioning
  or deletion may end in ERROR. `Specs` are two to six records that differ wherever a pass has to tell them apart.
  `Safety` has six Services and three node lists; `Live` the two Services that differ most and one node list;
  `Panic` two Services that differ in their lb-method, and no faults.
- `ListenerProtocol`: nothing is bounded but the annotations (28 records, two TLS containers) and the count of
  successful passes, at two, where the property looks.
- `ServicePatch`: two faults (one that spoils a patch, one in its retry) and two user edits.
- `ProvisioningWait`: the constants of the code; the time at which the load balancer gets ready is any
  instant between reads.
- `MemberSync`: three nodes, of which one is in every list; two changes of the list, to none at all as well;
  one change of the node port; one fault or crash, which is enough for a retry to meet the other operation.
- `NodeController`: two instances (a second of the same name is what makes the lookup by name fail, or find
  another); two ports in two networks, one of them IPv6, which can be attached in either order; two changes,
  which allow an instance to be replaced, or a port to be attached and another one to go down; one fault.
- `Routes`: two nodes and two pod networks, so that a network can move from one node to the other, with up to
  four operations at once; one route of somebody else, there from the beginning or added later; one fault or
  crash, one change. Two operations are what an overwritten list takes, and the fault makes one of them undo.

## Fairness

- `LoadBalancer`: weak fairness of the controller (workers take keys from the queue for ever, and a pass goes on
  by itself), of `Restart` (the process is run by a Deployment or static pod that restarts it) and of `Settle`
  for every load balancer (LBaaS finishes what it accepted). No fairness for edits, faults, or `SettleError`.
  `Convergence` therefore ends in one of two ways: reconciled, or with a load balancer in ERROR, about which the
  code does nothing until somebody deletes it.
- `NodeController`: weak fairness of the node controller's loop (`wait.Until` over all nodes), nothing else: the
  monitor, the kubelet and the cloud need not do anything.
- `Routes`: weak fairness of the controller's rounds (`wait.NonSlidingUntil`) and of every operation's next
  step (a goroutine with time-outs on its calls). None for edits, faults and crashes.
- The other modules claim safety only.

## Proofs

Every theorem holds for all values of the constants that the named assumptions of its module allow: any number
of ports, nodes, Services, load balancers, instances, routes, faults and edits. The assumptions are of three
kinds: what a constant is made of (`SpecsAssumption`: Services have ports; `NodesAssumption`: node lists are
sets of nodes; `AddressesAssumption`: ports have addresses of their own, ...); and that the marker `None` is not
an element of the sets it marks the absence in (`NoneAssumption`, `ListenersAssumption`, `RootAssumption`,
`ServersAssumption`). TLC evaluates them in the runs.

`LoadBalancerProofs` (about 5,000 lines, most of them one step per action and conjunct):

- `DisciplineHolds`: `Spec => []Discipline`. `NoOrphans` is not inductive: deleting a pool keeps it only because
  the pass knows that the pool has no members or monitor left, and that knowledge is in its local variables. So
  `Discipline` ties `pass` to the tree: in each step, what the pass has in hand is there (`EnsureKnows`: the
  pool step has a listener, the member step a pool), and what it has listed still covers what is below the load
  balancer (`DeleteKnows`: in `dPools`, every pool of the tree is in `todo`, ...). It also says that a load
  balancer that is not valid has an empty tree. `TypesHold` and `NoOrphansEver` follow.
- `OwnershipHolds`: `Spec => []Ownership`. While a pass works on a load balancer, no other is found; a pass that
  is about to create one, or waits for one to disappear, does so while none is found; and without the finalizer
  none is found and the pass at hand is a deletion (`goal = Gone`), which creates none. Each of the three has one
  exception, the load balancers in `Relapsed`: the lookup ignores PENDING_DELETE, so that a deletion that timed out
  is over for the retry, and when the API then fails at it, that load balancer is back in ERROR without an owner.
  The invariant is about everything else that happens meanwhile: it also says that those load balancers have
  nothing below them. `SingleLoadBalancerEver` and `FinalizerGuardsCloudEver` follow, with the same exception
  and without any assumption about what deletions do.
- `AchievementHolds`: `Spec => []Achievement`. What a pass returns with is decided by what it found ports and
  calls earlier, so the invariant says what it has achieved at each step: every port it has dealt with is
  complete (`Complete`), a listener is on the list of old ones or belongs to a port dealt with, and for the
  port in hand, the members are those of the nodes visited so far and the stale ones that the list still has.
  `EnsureEstablishesEver` is the case of the last step: the load balancer serves the Service, in the sense
  above. `MakeBeforeBreakEver` and `EveryCallRepairsEver` need it too: a deletion is right only because of what
  was completed before, and a call repairs something because of what was listed.
- `ErrandHolds`: `Spec => []Errand`. An errand that is out of date is in the queue again, a deletion is for a
  Service that was gone, and a pass with a load balancer in hand has one that still exists.
  `QuietMeansReconciledEver` is a part of it, which is kept where a pass returns because of `Achievement`.
- `PassesImplementTree`: `Spec => GrowsAndShrinksAtLeaves`, the refinement of `ResourceTree`. By `Discipline`
  a call adds below something live and removes something without live children, and a call touches one
  resource (`OnlyOne`); the lemma `TakesIsAbstract` turns that into a step of the abstract tree.
  `ParentsLiveEver` is what the passes inherit from it: the abstract tree keeps its promise
  (`TreeKeepsParents`), and so every live resource reaches a live load balancer.
- `CallsRunOut`: in a finite cluster, each call of an Ensure pass that changes the cloud strictly lowers the
  number of resources that are wrong. It follows from `EveryCallRepairsEver`. This is the variant
  of a pass: the lists it works off are finite, and so is the number of changes it can make, whatever fails on
  the way. (That it also ends is liveness.)

Actions that only move the pass (`Goto`), and calls that change one component of the tree, share lemmas.

`MemberSyncProofs`: `StableNodesKeepServingEver` by `PortInv` (until the node port is edited, everything
anybody knows or holds is at that port, so a pass drops members of nodes outside its list only);
`QuietMeansMembersEver` by `SyncInv`, which says of the histories without overlap, missed change or stale
retry that one pass at most runs, that it works on the port as it stands, and that its list, what it has to
add and what it has to drop account for all members.

`ServicePatchProofs`: `UserEditsSurviveEver` (`NotesInv`: the two copies of a pass differ in what it wrote
only); `StoreAgreesEver` (`StoreInv`: while a pass shares the store's object, its own copy has what the API
has); `RecordedWhenQuietEver` (`RecordInv`: a pass is due, or the store has been told the ID or will be).

`ListenerProtocolProofs`: `PoolFollowsListenerEver` by `ProtocolInv` (between its two creations a pass
remembers the protocol of the very listener); `SettlesInTwoEver` by `SettleInv` (after one pass the pool is
right, after a second the listener). Two passes are needed because a listener's description follows its own
protocol only when it is found, not when it is made.

`RoutesProofs`: `ForeignRoutesStayEver`, `AloneIsExactEver` and `PairsCompleteEver`. The last needs to know
what the operations of one round may be (`RoundInv`: a creation and a deletion of one route run at once only
when the deletion is that of a black hole) and what they hold (`PairInv`: a route on the router has its pair
or an operation that is about to add it, as long as no step has torn the two apart).

`NodeControllerProofs`: `ZoneIsOwnEver` and `LiveNodeStaysEver`, by `LookupInv`: what a pass has read about an
instance stays true of it, since IDs are not reused and instances do not come back; a zone read by name is
that of the instance in hand, or the instance in hand is gone.

The rest of `NodeControllerProofs` is about the list of addresses, in three layers.

- Folds. `FoldLeft` of the community modules goes through a recursive function on the subsets of `1..n`, chosen
  by `CHOOSE`; that such a function exists has to be shown before anything can be said of the fold.
  `FoldLemmas` does it once. The provers cannot instantiate an induction theorem that takes an operator, so
  induction is stated about a set: a set of naturals with 0 and the successor of each of its elements is `Nat`
  (`Induction`, from `LeastNatural`). `FoldExists` and `RecursionExists` follow, and `FlattenRounds` for
  `FlattenSeq`; a proof about a fold picks the function of its rounds and does induction over them.
- The loops. For each loop of `nodeAddresses` a lemma says what it leaves, for lists of any length: `DropIs`
  (all the others, in their order), `AfterInterfacesIs` (the types of each address, without repetition, in the
  order of the interfaces), `AfterAccessIs`, `PlaceIs`, and `AddressesAre` for the complete list: its types are
  `TypesOf`, nothing is in it twice, and the private addresses keep the order of the interfaces. The two
  documents are any two, except that a server document has no address twice (`GoodDocument`).
- The state. `StateInv` says that the documents that a pass holds, and those of the cloud, are of that kind:
  an instance has a port at most once, so that its document, flattened network by network, has each address
  once (`DocumentIs`). Nothing relates the interfaces in hand to the document in hand, which may have been read
  before and after a change. `StateHolds` proves it for every step. `TypesHold`, `ListIsExactEver`,
  `InterfaceOrderWinsEver`, `SubnetResolvesEver` and `RouteHopHasPortEver` follow from the two layers.

`ProvisioningWaitProofs`: `BackoffHolds` and `NoticedPromptlyEver`, for any first delay and number of steps. The
invariant `Backoff` bounds the delay by a fifth of the time slept and the first delay, which is what makes the lag
proportional; it is inductive because delays only grow by a fifth of themselves.

Only model-checked: liveness (`Convergence`, `AddressesConverge`, `RoutesConverge`), since the prover handles
neither fairness nor `ENABLED`. Every other property that a passing run checks is a theorem too.

## Divergences

Those with a run are the findings of `PROJECT.json`. Others, met while modelling:

- `kinx_loadbalancer.go:588-594`: the comment says a node without an address is skipped ("Node failure, do not
  create member"), the code fails the pass at the first port. The model has it: `EnsureMember`.
- `kinx_loadbalancer.go:38-49`: the constants say 57 steps where the comment says 19 steps and 128 s. The wait
  for ACTIVE sleeps for about 37.7 hours before it gives up, and a worker is busy all the time; the wait for a
  deletion lasts 39.6 s where the comment says 32 s. No property is about it: it is the sum of a schedule.
- `kinx_loadbalancer_service_patcher.go:76`: a patch that fails is returned as the error of a pass that succeeded,
  against the same comment (line 39) that the finding about line 49 quotes. The model has it (`Patch`).
- `kinx_loadbalancer.go:1425`: a deletion that outlasts its wait is over for the retry, which does not see load
  balancers in PENDING_DELETE and lets the finalizer go. If the deletion fails after that, the load balancer is
  left in ERROR, empty, and nothing in Kubernetes refers to it; a later Service of the same name is refused by the
  lookup (two results) if it exists by then, or meets it in ERROR. `Relapsed` in `LoadBalancer`.
- `kinx_loadbalancer.go:478-481`: a TLS container makes the listener TERMINATED_HTTPS whatever the
  backend-protocol annotation says, although `src/README.md:12` says that the containers are used with
  terminated_https only. The pool of the same pass follows the annotation: with tcp it speaks TCP for ever, though
  `kinx_loadbalancer_test.go:71` has "terminated_https uses HTTP on the pool side". In `ListenerProtocol` this is
  the history variable `stray`, and the exception in `PoolFollowsListener`.
- `kinx_loadbalancer.go:464-465`: the description of such a listener is chosen before its protocol is forced, so
  it is that of another protocol. The next pass corrects it (line 507), but after one that succeeded none is due.
  In `LoadBalancer` this is the second half of `ListenerServes`.
- `kinx_loadbalancer.go:444-458`: the protocol of a listener that exists is kept whatever the annotation says, with
  a warning in the log, and without the annotation it is kept or tcp, although `src/README.md:11` calls the
  annotation required.
- `kinx_loadbalancer.go:751`: `nodes[0]` of an empty node list panics in the node loop (`EnsureLoadBalancer`
  has a guard, `UpdateLoadBalancer` has none). In `MemberSync` the node loop then goes down.
- `kinx_loadbalancer.go:833`: the members are kept in a map by address, so of two members of a node, at the old
  and the new node port, `UpdateLoadBalancer` sees one.
- The node loop retries with the Service object of the failed update; after an edit of the node port in
  between it moves the members back to the old port. Also, a node list that changes and changes back between
  two looks is no change for it. Both are the service controller's doing, and exceptions in
  `QuietMeansMembers` ("stale" and "missed"; "overlap" is the third).
- `kinx_loadbalancer.go:83-86` says the load-balancer-id annotation is there after `EnsureLoadBalancer`
  completes successfully; line 429 records it much earlier, for a pass that may fail.
- `kinx_loadbalancer.go:637-640`: monitors of UDP pools are UDP-CONNECT, while `src/README.md` says that health
  checks are fixed to TCP on the node port.
- `kinx_loadbalancer.go:1309-1315`: the ExternalIP fallback of `nodeAddressForLB` does not help
  `getSubnetIDForLB`, which looks for the address among the fixed addresses and returns `ErrNotFound` for a
  floating one. A node initialised without a provider ID fails there too.
- `kinx_instances.go:296`: interfaces whose port is not ACTIVE are left out of the first phase, but their
  addresses are in the server document and come back, at the end, in the last one. So the filter only changes
  the order of the list (`TypesOf`, `InterfaceOrderWins`).
- `kinx_routes.go:336`: `updateRoutes` keeps `router.Routes` for the undo without copying its array, and
  `DeleteRoute` has just overwritten the victim's element with the last one. The undo therefore puts back a
  list without the victim and with another route twice, unless the victim was the last. In `Routes`:
  `Restored`, and the exception in `AloneIsExact`.
- `kinx_routes.go:126`: `CreateRoute` returns as soon as the route exists, and so never adds an address pair
  that is missing (after a crash, or a lost update, between the two). In `Routes`: `torn` in `PairsComplete`.
  The controller lists routes, not pairs.
- `kinx_routes.go:132`: Neutron's list of routes is replaced as a whole, without a revision, by goroutines
  that run at once. A round may lose another operation's route, which the next round repairs
  (`RoutesConverge`), or a route that somebody else added meanwhile, which nothing repairs (`raced` in
  `ForeignRoutesStay`).
- `kinx_loadbalancer.go:344`: every pass writes `lbaas.opts.SubnetID`, and reads it again when it creates
  members, calls later. Passes for other Services and the node loop write it in between, so a member may be
  created in the subnet of another Service's first node.
- `kinx_loadbalancer.go:1223`: `getListenerForPort` compares port numbers only. Kubernetes 1.18 refuses a load
  balancer Service that mixes TCP and UDP; a UDP Service gets a listener for TCP, as the protocol is chosen
  from annotations, with a UDP-CONNECT monitor.
- `kinx.go:601`: `readInstanceID` answers an empty ID without an error for a file whose ID it does not accept.
  Only `GetZone` depends on it, which the controllers of this program do not call.
- `kinx.go`: nothing ever sets `networkingOpts` or `routeOpts`, although `src/` has example configurations
  with a `[Networking]` section. The options of `nodeAddresses` are always zero, and `Routes()` always answers
  that routes are not supported; `Routes` is the code as it would run. `NodeController` checks the zero
  options and one of each kind.

## Not modelled

- `lbaas.opts.SubnetID`, shared by concurrent passes: no lock, call or message orders its accesses, so that
  every interleaving of the writes and reads is possible, and no property holds of it that a model could
  break. The hazard is listed, with what it leads to under divergences.
- Service ports that differ only in TCP/UDP: Kubernetes 1.18 does not admit them for one load balancer, so the
  states in which the comparison of port numbers would matter are not states the program can be in.
- Metadata: HTTP requests, mounts of the config drive, and the parsing of what they give. Its state is one
  document read when the first caller asks and kept, and its callers do not depend on each other.
- The VIP of a new load balancer, `loadBalancerIP` and floating networks: parameters of one call.
- `GetZone` and `CurrentNodeName`: not called by the controllers of this program.
  `InstanceShutdownByProviderID`: a read that nothing here depends on.
- Provider set-up, authentication, configuration files, command line, start-up: run once, without interleaving.
- Mounting of the config drive, block devices, HTTP, network sets, metrics, version: I/O, small stateless
  helpers, and counters that nothing reads.
