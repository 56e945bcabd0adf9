---------------------------- MODULE LoadBalancer ----------------------------
(***************************************************************************)
(* The passes of the cloud controller manager over ONE Service of type     *)
(* LoadBalancer: EnsureLoadBalancer and EnsureLoadBalancerDeleted of       *)
(* kinx_loadbalancer.go, one API call per step, against the OpenStack      *)
(* LBaaS v2 API, which works asynchronously and may refuse, fail or lose a *)
(* call.  The Kubernetes service controller runs one pass at a time for a  *)
(* Service, retries a pass that failed, and starts afresh after a crash.   *)
(*                                                                         *)
(* The API is permissive about children on purpose: it lets a pool be      *)
(* deleted under its members.  That no resource outlives its parent is     *)
(* the code's own doing, and what the properties are about.                *)
(***************************************************************************)
EXTENDS Naturals, ListenerConfig

CONSTANTS
  Ports,          \* service ports a Service may list
  Nodes,          \* cluster nodes
  NodePorts,      \* node ports Kubernetes may allocate
  LBs,            \* identities the API may give a load balancer
  Methods,        \* valid lb-method values
  Specs,          \* Service objects users may write
  HostSets,       \* node lists the service controller may pass
  Addressless,    \* nodes without an InternalIP or ExternalIP
  CreateMonitor,  \* cloud-config create-monitor
  Gone,           \* no Service wants a load balancer any more
  MaxFaults,      \* bound: failed calls, lost replies, timeouts, crashes
  MaxErrors,      \* bound: load balancers that go into ERROR
  MaxEdits        \* bound: user edits of the Service

\* An invalid Service is named by the check that refuses it; "precheck" is also the
\* backend protocol that means nothing.
Defects == {"none", "precheck", "method", "health"}

SpecRecords ==
  [ports : SUBSET Ports, np : NodePorts, ann : SupportedAnnotations,
   method : Methods, defect : Defects]

Pools == [protocol : Protocols, method : Methods, desc : {"", "proxy"}]

ASSUME SpecsAssumption ==
  /\ Specs \subseteq SpecRecords
  /\ \A s \in Specs : s.ports # {}
  /\ Gone \notin Specs

ASSUME NodesAssumption ==
  /\ HostSets \subseteq SUBSET Nodes
  /\ Addressless \subseteq Nodes

ASSUME NoneAssumption ==
  None \notin Pools \cup Ports \cup LBs \cup BackendProtocols

ASSUME OptionsAssumption ==
  /\ CreateMonitor \in BOOLEAN
  /\ MaxFaults \in Nat
  /\ MaxErrors \in Nat
  /\ MaxEdits \in Nat

VARIABLES
  status,     \* provisioning status of every load balancer
  tree,       \* the resources below every load balancer
  want,       \* the Service as it stands in Kubernetes, or Gone
  finalizer,  \* does the Service carry the load balancer finalizer
  queued,     \* is the Service in the controller's work queue
  pass,       \* the local variables of the running pass
  faults, errors, edits   \* how much of each bound is used

vars == <<status, tree, want, finalizer, queued, pass, faults, errors, edits>>

cloud == <<status, tree>>

\* "DELETED" stands for every identity the API no longer, or does not yet, know.
\* "RELAPSED" is the API's ERROR as well: it remembers that the load balancer was
\* being deleted when that failed, which no step of the passes can see.
Statuses == {"PENDING_CREATE", "ACTIVE", "PENDING_UPDATE", "ERROR", "RELAPSED",
             "PENDING_DELETE", "DELETED"}

InError(s) == s \in {"ERROR", "RELAPSED"}

Backends == Nodes \X NodePorts

Trees ==
  [listener : [Ports -> Listeners \cup {None}],
   pool     : [Ports -> Pools \cup {None}],
   monitor  : SUBSET Ports,
   member   : SUBSET (Ports \X Backends)]

EmptyTree ==
  [listener |-> [p \in Ports |-> None], pool |-> [p \in Ports |-> None],
   monitor |-> {}, member |-> {}]

EnsureSteps ==
  {"create", "list", "port", "pool", "settings", "members", "add", "drop",
   "monitor", "obsolete", "oldMonitor", "oldMembers", "oldPool",
   "oldListener", "done"}

DeleteSteps ==
  {"snapshot", "dMonitors", "dPools", "dMembers", "dListeners", "dLB", "gone"}

Passes ==
  [pc : EnsureSteps \cup DeleteSteps \cup {"idle", "lookup", "down"},
   waiting : BOOLEAN,             \* in waitLoadbalancerActiveProvisioningStatus
   goal : Specs \cup {Gone},      \* apiService, as the pass was given it
   hosts : SUBSET Nodes,          \* nodes, as the pass was given them
   lb : LBs \cup {None},          \* loadbalancer
   todo : SUBSET Ports,           \* ports, or poolIDs, not dealt with yet
   cur : Ports \cup {None},       \* the port whose resources are in hand
   backend : BackendProtocols \cup {None},  \* effectiveBackendProtocol
   old : SUBSET Ports,            \* oldListeners, or listenerList
   mons : SUBSET Ports,           \* monitorIDs
   stale : SUBSET Backends,       \* members
   left : SUBSET Nodes]           \* nodes the member loop has still to visit

Idle ==
  [pc |-> "idle", waiting |-> FALSE, goal |-> Gone, hosts |-> {}, lb |-> None,
   todo |-> {}, cur |-> None, backend |-> None, old |-> {}, mons |-> {},
   stale |-> {}, left |-> {}]

TypeOK ==
  /\ status \in [LBs -> Statuses]
  /\ tree \in [LBs -> Trees]
  /\ want \in Specs \cup {Gone}
  /\ finalizer \in BOOLEAN
  /\ queued \in BOOLEAN
  /\ pass \in Passes
  /\ faults \in 0..MaxFaults
  /\ errors \in 0..MaxErrors
  /\ edits \in 0..MaxEdits

Init ==
  /\ status = [l \in LBs |-> "DELETED"]
  /\ tree = [l \in LBs |-> EmptyTree]
  /\ want = Gone
  /\ finalizer = FALSE
  /\ queued = FALSE
  /\ pass = Idle
  /\ faults = 0
  /\ errors = 0
  /\ edits = 0

-----------------------------------------------------------------------------
(* How a step of a pass ends.                                              *)

At(pc) == pass.pc = pc /\ ~pass.waiting

Tree == tree[pass.lb]

Fault == faults < MaxFaults /\ faults' = faults + 1

\* The step changes nothing in the cloud: the pass goes on.
Goto(next) == pass' = next /\ UNCHANGED <<cloud, queued, faults>>

\* The pass returns an error: the work queue holds the Service again.
Fail == pass' = Idle /\ queued' = TRUE

\* A nil pointer is dereferenced: the process is gone.
Panic == pass' = [Idle EXCEPT !.pc = "down"] /\ UNCHANGED queued

(* One mutating call below pass.lb, after which the tree would be t and the *)
(* pass would be at next.  The API takes it only while the load balancer    *)
(* is ACTIVE and answers 409 otherwise; a call may fail, and a call that    *)
(* went through may lose its reply.                                         *)
CallElse(t, next, onError) ==
  \/ /\ status[pass.lb] = "ACTIVE"
     /\ tree' = [tree EXCEPT ![pass.lb] = t]
     /\ status' = [status EXCEPT ![pass.lb] = "PENDING_UPDATE"]
     /\ \/ pass' = next /\ UNCHANGED <<queued, faults>>
        \/ Fault /\ onError
  \/ /\ \/ status[pass.lb] # "ACTIVE" /\ UNCHANGED faults
        \/ Fault
     /\ onError
     /\ UNCHANGED cloud

\* A call followed by waitLoadbalancerActiveProvisioningStatus.
Call(t, next) == CallElse(t, [next EXCEPT !.waiting = TRUE], Fail)

\* The wait sees ACTIVE.
WaitReady ==
  /\ pass.waiting
  /\ status[pass.lb] = "ACTIVE"
  /\ Goto([pass EXCEPT !.waiting = FALSE])

\* The wait sees ERROR, runs out of steps, or cannot read the status.
WaitFails ==
  /\ pass.waiting
  /\ \/ InError(status[pass.lb]) /\ UNCHANGED faults
     \/ Fault
  /\ Fail
  /\ UNCHANGED cloud

\* A GET of the step in hand fails.
ReadFails ==
  /\ ~pass.waiting
  /\ pass.pc \in {"lookup", "list", "pool", "members", "oldMonitor",
                  "oldMembers", "snapshot", "dPools"}
  /\ Fault
  /\ Fail
  /\ UNCHANGED cloud

-----------------------------------------------------------------------------
(* Both passes: finding the load balancer.                                 *)

\* Mutant: a load balancer still being created does not count.
MutValid(s) == s \notin {"DELETED", "PENDING_DELETE", "PENDING_CREATE"}

\* The provisioning statuses getLoadbalancerByName accepts.
Valid(s) == s \notin {"DELETED", "PENDING_DELETE"}

Found == {l \in LBs : Valid(status[l])}

\* Two valid load balancers: ErrMultipleResults, whatever the pass.
LookupAmbiguous ==
  /\ At("lookup")
  /\ \E i, j \in Found : i # j
  /\ Fail
  /\ UNCHANGED <<cloud, finalizer, faults>>

LookupFinds(l) ==
  /\ At("lookup")
  /\ Found = {l}
  /\ IF pass.goal = Gone
     THEN Goto([pass EXCEPT !.pc = "snapshot", !.lb = l])
     ELSE Goto([pass EXCEPT !.pc = "list", !.lb = l, !.waiting = TRUE])
  /\ UNCHANGED finalizer

\* Nothing to delete: the service controller takes its finalizer away.
LookupFindsNone ==
  /\ At("lookup")
  /\ Found = {}
  /\ IF pass.goal = Gone
     THEN Goto(Idle) /\ finalizer' = FALSE
     ELSE Goto([pass EXCEPT !.pc = "create"]) /\ UNCHANGED finalizer

-----------------------------------------------------------------------------
(* EnsureLoadBalancer.                                                     *)

\* The service controller adds its finalizer and calls EnsureLoadBalancer
\* with the Service and the nodes it knows; the checks before the first call
\* to the load balancer API pass.
BeginEnsure(hosts) ==
  /\ pass.pc = "idle" /\ queued /\ want # Gone
  /\ finalizer' = TRUE
  /\ want.defect # "precheck"
  /\ \E n \in hosts : n \notin Addressless
  /\ queued' = FALSE
  /\ pass' = [Idle EXCEPT !.pc = "lookup", !.goal = want, !.hosts = hosts]
  /\ UNCHANGED <<cloud, faults>>

\* One of those checks refuses the Service (backend protocol, ports, session
\* affinity), or the first node has no address; or, as a fault, the list of
\* nodes is empty or the GET of a subnet or TLS container fails.  The pass fails
\* before it has called the load balancer API.
EnsureRejected(hosts) ==
  /\ pass.pc = "idle" /\ queued /\ want # Gone
  /\ finalizer' = TRUE
  /\ \/ /\ want.defect = "precheck" \/ \E n \in hosts : n \in Addressless
        /\ UNCHANGED faults
     \/ Fault
  /\ UNCHANGED <<cloud, queued, pass>>

CreateLoadBalancer ==
  /\ At("create")
  /\ \/ \E l \in LBs :
          /\ status[l] = "DELETED"
          /\ status' = [status EXCEPT ![l] = "PENDING_CREATE"]
          /\ tree' = [tree EXCEPT ![l] = EmptyTree]
          /\ \/ /\ pass' = [pass EXCEPT !.pc = "list", !.lb = l,
                                        !.waiting = TRUE]
                /\ UNCHANGED <<queued, faults>>
             \/ Fault /\ Fail
     \/ Fault /\ Fail /\ UNCHANGED cloud

ListListeners ==
  /\ At("list")
  /\ Goto([pass EXCEPT !.pc = "port", !.todo = pass.goal.ports,
             !.old = {p \in Ports : Tree.listener[p] # None}])

FoundListener(p) == IF p \in pass.old THEN Tree.listener[p] ELSE None

\* The listener as the pass wants it: a new one, or the one found brought up to date.
AskedListener(p) ==
  IF FoundListener(p) = None
  THEN NewListener(pass.goal.ann)
  ELSE UpdatedListener(FoundListener(p), pass.goal.ann)

WithListener(p) ==
  [pass EXCEPT !.pc = "pool", !.cur = p, !.todo = @ \ {p}, !.old = @ \ {p},
               !.backend = EffectiveBackend(FoundListener(p), pass.goal.ann)]

\* Mutant: a listener that is there already is left as it is.
MutEnsureListener(p) ==
  /\ At("port") /\ p \in pass.todo
  /\ IF FoundListener(p) # None
     THEN Goto(WithListener(p))
     ELSE Call([Tree EXCEPT !.listener[p] = AskedListener(p)], WithListener(p))

\* The listener of the next port: create it, or update it, or leave it; it is
\* no longer one of the old listeners.
EnsureListener(p) ==
  /\ At("port") /\ p \in pass.todo
  /\ IF FoundListener(p) = AskedListener(p)
     THEN Goto(WithListener(p))
     ELSE Call([Tree EXCEPT !.listener[p] = AskedListener(p)], WithListener(p))

\* A new pool speaks the protocol found for the listener, and has no description.
NewPool ==
  [protocol |-> PoolProtocolOf(pass.backend), method |-> pass.goal.method,
   desc |-> ""]

\* The lb-method is only checked here, once the listener exists.
EnsurePool ==
  /\ At("pool")
  /\ \/ /\ pass.goal.defect = "method"
        /\ Fail
        /\ UNCHANGED <<cloud, faults>>
     \/ /\ pass.goal.defect # "method"
        /\ LET next == [pass EXCEPT !.pc = "settings", !.backend = None] IN
           IF Tree.pool[pass.cur] # None
           THEN Goto(next)
           ELSE Call([Tree EXCEPT !.pool[pass.cur] = NewPool], next)

UpdatedPool(x, s) ==
  [x EXCEPT !.method = s.method, !.desc = PoolDescription(x.protocol, s.ann)]

\* Mutant: the pool is updated whether it differs or not.
MutUpdatePoolAlways ==
  /\ At("settings")
  /\ CallElse([Tree EXCEPT !.pool[pass.cur] = UpdatedPool(@, pass.goal)],
              [pass EXCEPT !.pc = "members"], Panic)

\* The update of a pool is not followed by a wait, and its error path reads
\* the ID of the pool the failed call did not return.
UpdatePool ==
  LET old == Tree.pool[pass.cur]
      new == UpdatedPool(old, pass.goal)
      next == [pass EXCEPT !.pc = "members"]
  IN /\ At("settings")
     /\ IF old = new
        THEN Goto(next)
        ELSE CallElse([Tree EXCEPT !.pool[pass.cur] = new], next, Panic)

\* Mutant: the members are taken together with their pool.
MutMembersOf(p) == {m \in Tree.member : m[1] = p}

MembersOf(p) == {b \in Backends : <<p, b>> \in Tree.member}

ListMembers ==
  /\ At("members")
  /\ Goto([pass EXCEPT !.pc = "add", !.left = pass.hosts,
                       !.stale = MembersOf(pass.cur)])

\* Mutant: a member of the node counts whatever its port, as it would in
\* UpdateLoadBalancer's map by address.
MutEnsureMemberByAddress(n) ==
  LET b == <<n, pass.goal.np>>
      mine == {x \in pass.stale : x[1] = n}
      next == [pass EXCEPT !.left = @ \ {n}]
  IN /\ At("add") /\ n \in pass.left /\ n \notin Addressless
     /\ IF mine # {}
        THEN Goto([next EXCEPT !.stale = @ \ mine])
        ELSE Call([Tree EXCEPT !.member = @ \cup {<<pass.cur, b>>}], next)

\* Mutant: an existing member is not popped from the members to delete.
MutEnsureMemberNoPop(n) ==
  LET b == <<n, pass.goal.np>>
      next == [pass EXCEPT !.left = @ \ {n}]
  IN /\ At("add") /\ n \in pass.left /\ n \notin Addressless
     /\ IF b \in pass.stale
        THEN Goto(next)
        ELSE Call([Tree EXCEPT !.member = @ \cup {<<pass.cur, b>>}], next)

\* One node of the member loop.  A node without an address fails the pass.
EnsureMember(n) ==
  LET b == <<n, pass.goal.np>>
      next == [pass EXCEPT !.left = @ \ {n}]
  IN /\ At("add") /\ n \in pass.left
     /\ \/ /\ n \in Addressless
           /\ Fail
           /\ UNCHANGED <<cloud, faults>>
        \/ /\ n \notin Addressless
           /\ IF b \in pass.stale
              THEN Goto([next EXCEPT !.stale = @ \ {b}])
              ELSE Call([Tree EXCEPT !.member = @ \cup {<<pass.cur, b>>}], next)

MembersEnsured ==
  /\ At("add") /\ pass.left = {}
  /\ Goto([pass EXCEPT !.pc = "drop"])

\* Delete one of the members in hand.
DeleteMember(b) ==
  /\ b \in pass.stale
  /\ Call([Tree EXCEPT !.member = @ \ {<<pass.cur, b>>}],
          [pass EXCEPT !.stale = @ \ {b}])

DropMember == At("drop") /\ \E b \in pass.stale : DeleteMember(b)

MembersDropped ==
  /\ At("drop") /\ pass.stale = {}
  /\ Goto([pass EXCEPT !.pc = "monitor"])

EnsureMonitor ==
  /\ At("monitor")
  /\ LET next == [pass EXCEPT !.pc = "port", !.cur = None] IN
     IF pass.cur \in Tree.monitor \/ ~CreateMonitor
     THEN Goto(next)
     ELSE \/ /\ pass.goal.defect = "health"
             /\ Fail
             /\ UNCHANGED <<cloud, faults>>
          \/ /\ pass.goal.defect # "health"
             /\ Call([Tree EXCEPT !.monitor = @ \cup {pass.cur}], next)

\* Mutant: obsolete listeners are not left until all ports are done.
MutPortsEnsured == At("port") /\ Goto([pass EXCEPT !.pc = "obsolete"])

PortsEnsured ==
  /\ At("port") /\ pass.todo = {}
  /\ Goto([pass EXCEPT !.pc = "obsolete"])

PickObsolete(p) ==
  /\ At("obsolete") /\ p \in pass.old
  /\ Goto([pass EXCEPT !.pc = "oldMonitor", !.cur = p])

\* Mutant: the monitor is expected to go with its pool.
MutDropOldMonitor ==
  /\ At("oldMonitor")
  /\ Goto([pass EXCEPT !.pc = IF Tree.pool[pass.cur] = None
                              THEN "oldListener" ELSE "oldMembers"])

\* With the pool of the obsolete listener read: its monitor.
DropOldMonitor ==
  /\ At("oldMonitor")
  /\ IF Tree.pool[pass.cur] = None
     THEN Goto([pass EXCEPT !.pc = "oldListener"])
     ELSE LET next == [pass EXCEPT !.pc = "oldMembers"] IN
          IF pass.cur \in Tree.monitor
          THEN Call([Tree EXCEPT !.monitor = @ \ {pass.cur}], next)
          ELSE Goto(next)

ListOldMembers ==
  /\ At("oldMembers")
  /\ Goto([pass EXCEPT !.pc = "oldPool", !.stale = MembersOf(pass.cur)])

DropOldMember == At("oldPool") /\ \E b \in pass.stale : DeleteMember(b)

\* Mutant: the pool goes while members are left in it.
MutDropOldPool ==
  /\ At("oldPool")
  /\ Call([Tree EXCEPT !.pool[pass.cur] = None],
          [pass EXCEPT !.pc = "oldListener"])

DropOldPool ==
  /\ At("oldPool") /\ pass.stale = {}
  /\ Call([Tree EXCEPT !.pool[pass.cur] = None],
          [pass EXCEPT !.pc = "oldListener"])

DropOldListener ==
  /\ At("oldListener")
  /\ Call([Tree EXCEPT !.listener[pass.cur] = None],
          [pass EXCEPT !.pc = "obsolete", !.old = @ \ {pass.cur},
                       !.cur = None])

ObsoleteDropped ==
  /\ At("obsolete") /\ pass.old = {}
  /\ Goto([pass EXCEPT !.pc = "done"])

\* The pass returns; recording the annotation may still fail it.
EnsureReturns ==
  /\ At("done")
  /\ \/ Goto(Idle)
     \/ Fault /\ Fail /\ UNCHANGED cloud

-----------------------------------------------------------------------------
(* EnsureLoadBalancerDeleted.                                              *)

BeginDelete ==
  /\ pass.pc = "idle" /\ queued /\ want = Gone
  /\ queued' = FALSE
  /\ pass' = [Idle EXCEPT !.pc = "lookup"]
  /\ UNCHANGED <<cloud, finalizer, faults>>

\* Mutant: only listeners with a pool are listed.
MutListForDelete ==
  /\ At("snapshot")
  /\ LET ps == {p \in Ports : Tree.pool[p] # None}
     IN Goto([pass EXCEPT !.pc = "dMonitors", !.old = ps, !.todo = ps,
                          !.mons = ps \cap Tree.monitor])

\* Listeners, pools and monitors are listed once, before anything is deleted.
ListForDelete ==
  /\ At("snapshot")
  /\ LET ls == {p \in Ports : Tree.listener[p] # None}
         ps == {p \in ls : Tree.pool[p] # None}
     IN Goto([pass EXCEPT !.pc = "dMonitors", !.old = ls, !.todo = ps,
                          !.mons = ps \cap Tree.monitor])

DeleteMonitor(p) ==
  /\ At("dMonitors") /\ p \in pass.mons
  /\ Call([Tree EXCEPT !.monitor = @ \ {p}], [pass EXCEPT !.mons = @ \ {p}])

MonitorsDeleted ==
  /\ At("dMonitors") /\ pass.mons = {}
  /\ Goto([pass EXCEPT !.pc = "dPools"])

PickPool(p) ==
  /\ At("dPools") /\ p \in pass.todo
  /\ Goto([pass EXCEPT !.pc = "dMembers", !.cur = p, !.stale = MembersOf(p)])

DeletePoolMember == At("dMembers") /\ \E b \in pass.stale : DeleteMember(b)

DeletePool ==
  /\ At("dMembers") /\ pass.stale = {}
  /\ Call([Tree EXCEPT !.pool[pass.cur] = None],
          [pass EXCEPT !.pc = "dPools", !.todo = @ \ {pass.cur}, !.cur = None])

PoolsDeleted ==
  /\ At("dPools") /\ pass.todo = {}
  /\ Goto([pass EXCEPT !.pc = "dListeners"])

DeleteListener(p) ==
  /\ At("dListeners") /\ p \in pass.old
  /\ Call([Tree EXCEPT !.listener[p] = None], [pass EXCEPT !.old = @ \ {p}])

ListenersDeleted ==
  /\ At("dListeners") /\ pass.old = {}
  /\ Goto([pass EXCEPT !.pc = "dLB"])

\* The API deletes a load balancer that is ACTIVE or in ERROR.
DeleteLoadBalancer ==
  /\ At("dLB")
  /\ \/ /\ status[pass.lb] = "ACTIVE" \/ InError(status[pass.lb])
        /\ status' = [status EXCEPT ![pass.lb] = "PENDING_DELETE"]
        /\ \/ pass' = [pass EXCEPT !.pc = "gone"] /\ UNCHANGED <<queued, faults>>
           \/ Fault /\ Fail
        /\ UNCHANGED tree
     \/ /\ \/ /\ status[pass.lb] # "ACTIVE" /\ ~InError(status[pass.lb])
              /\ UNCHANGED faults
           \/ Fault
        /\ Fail
        /\ UNCHANGED cloud

\* waitLoadbalancerDeleted sees a 404; the finalizer is taken away.
DeleteReturns ==
  /\ At("gone")
  /\ status[pass.lb] = "DELETED"
  /\ Goto(Idle)
  /\ finalizer' = FALSE

\* waitLoadbalancerDeleted runs out of steps, or cannot read the status.
DeleteTimesOut ==
  /\ At("gone")
  /\ \/ InError(status[pass.lb]) /\ UNCHANGED faults
     \/ Fault
  /\ Fail
  /\ UNCHANGED cloud

-----------------------------------------------------------------------------
(* The process and its environment.                                        *)

\* The steps of a running pass that leave the finalizer alone.
PassStep ==
  \/ WaitReady \/ WaitFails \/ ReadFails \/ CreateLoadBalancer \/ ListListeners
  \/ \E p \in Ports : EnsureListener(p)
  \/ EnsurePool \/ UpdatePool \/ ListMembers
  \/ \E n \in Nodes : EnsureMember(n)
  \/ MembersEnsured \/ DropMember \/ MembersDropped \/ EnsureMonitor
  \/ PortsEnsured
  \/ \E p \in Ports : PickObsolete(p)
  \/ DropOldMonitor \/ ListOldMembers \/ DropOldMember \/ DropOldPool
  \/ DropOldListener \/ ObsoleteDropped \/ EnsureReturns
  \/ ListForDelete
  \/ \E p \in Ports : DeleteMonitor(p) \/ PickPool(p) \/ DeleteListener(p)
  \/ MonitorsDeleted \/ DeletePoolMember \/ DeletePool \/ PoolsDeleted
  \/ ListenersDeleted \/ DeleteLoadBalancer \/ DeleteTimesOut

Controller ==
  \/ \E hosts \in HostSets : BeginEnsure(hosts) \/ EnsureRejected(hosts)
  \/ BeginDelete
  \/ LookupAmbiguous \/ (\E l \in LBs : LookupFinds(l)) \/ LookupFindsNone
  \/ DeleteReturns
  \/ PassStep /\ UNCHANGED finalizer

\* The user creates, changes or deletes the Service, or changes its type.
Edit ==
  /\ edits < MaxEdits /\ edits' = edits + 1
  /\ want' \in (Specs \cup {Gone}) \ {want}
  /\ queued' = TRUE
  /\ UNCHANGED <<cloud, finalizer, pass, faults, errors>>

\* The API finishes what it was asked to do.
Settle(l) ==
  /\ \/ /\ status[l] \in {"PENDING_CREATE", "PENDING_UPDATE"}
        /\ status' = [status EXCEPT ![l] = "ACTIVE"]
     \/ /\ status[l] = "PENDING_DELETE"
        /\ status' = [status EXCEPT ![l] = "DELETED"]
  /\ UNCHANGED <<tree, want, finalizer, queued, pass, faults, errors, edits>>

\* The API fails at it.
SettleError(l) ==
  /\ errors < MaxErrors /\ errors' = errors + 1
  /\ \/ /\ status[l] \in {"PENDING_CREATE", "PENDING_UPDATE"}
        /\ status' = [status EXCEPT ![l] = "ERROR"]
     \/ /\ status[l] = "PENDING_DELETE"
        /\ status' = [status EXCEPT ![l] = "RELAPSED"]
  /\ UNCHANGED <<tree, want, finalizer, queued, pass, faults, edits>>

Crash ==
  /\ pass.pc # "down"
  /\ Fault
  /\ Panic
  /\ UNCHANGED <<cloud, want, finalizer, errors, edits>>

\* The first listing of the informer queues every Service there is.
Restart ==
  /\ pass.pc = "down"
  /\ pass' = Idle
  /\ queued' = (want # Gone \/ finalizer)
  /\ UNCHANGED <<cloud, want, finalizer, faults, errors, edits>>

Next ==
  \/ Controller /\ UNCHANGED <<want, errors, edits>>
  \/ Edit
  \/ \E l \in LBs : Settle(l) \/ SettleError(l)
  \/ Crash
  \/ Restart

Spec == Init /\ [][Next]_vars

\* The worker runs, the process is restarted, and the API finishes its work.
FairSpec ==
  /\ Spec
  /\ WF_vars(Controller /\ UNCHANGED <<want, errors, edits>>)
  /\ WF_vars(Restart)
  /\ \A l \in LBs : WF_vars(Settle(l))

-----------------------------------------------------------------------------
(* Safety.                                                                 *)

\* The listener x has the TLS containers of the annotations a, and the description
\* that its own protocol wants, which is kept from when it was created.
ListenerSettled(x, a) ==
  x # None /\ x.tls = a.tls /\ x.desc = ListenerDescription(x.protocol, a)

\* The listener x is one that a pass over the annotations a leaves behind.  One that
\* the pass has created may still have the description of another protocol, that of
\* the annotation, which nothing but another pass will correct.
ListenerServes(x, a) == ListenerSettled(x, a) \/ x = NewListener(a)

\* The pool x balances as the Service s asks for, in the protocol it was made with.
PoolServes(x, s) ==
  /\ x # None
  /\ x.method = s.method
  /\ x.desc = PoolDescription(x.protocol, s.ann)

\* The tree is one that serves the Service s when hosts are the nodes.
Matches(t, s, hosts) ==
  /\ \A p \in Ports : IF p \in s.ports
                      THEN ListenerServes(t.listener[p], s.ann) /\ PoolServes(t.pool[p], s)
                      ELSE t.listener[p] = None /\ t.pool[p] = None
  /\ t.monitor = IF CreateMonitor THEN s.ports ELSE {}
  /\ t.member = s.ports \X (hosts \X {s.np})

\* The load balancers that are back because their deletion failed.
Relapsed == {l \in LBs : status[l] = "RELAPSED"}

\* At most one load balancer of the Service is live, but for those whose deletion
\* failed: no interleaving of lost replies, crashes, retries and deletions makes a
\* pass create a second one, which getLoadbalancerByName would then refuse for ever
\* (ErrMultipleResults).  It does so when the lookup has passed over a load balancer
\* in PENDING_DELETE which then comes back in ERROR.
SingleLoadBalancer == \A i, j \in Found \ Relapsed : i = j

\* No resource outlives its parent: members and monitors have a pool, a pool has
\* a listener, and listeners a load balancer that is not on its way out.
NoOrphans ==
  \A l \in LBs :
    /\ \A m \in tree[l].member : tree[l].pool[m[1]] # None
    /\ \A p \in tree[l].monitor : tree[l].pool[p] # None
    /\ \A p \in Ports : tree[l].pool[p] # None => tree[l].listener[p] # None
    /\ ~Valid(status[l]) => tree[l] = EmptyTree

\* The service controller's finalizer is the only trace that a Service owns a
\* load balancer: without it no resource below one is left, and no load balancer is
\* live but one whose deletion had been accepted and failed later.
FinalizerGuardsCloud ==
  ~finalizer => Found \subseteq Relapsed /\ \A l \in LBs : tree[l] = EmptyTree

\* When EnsureLoadBalancer returns without error, the cloud serves the Service and
\* the nodes of that pass: the old listeners and members it listed before its own
\* calls have led to no missing, stale or surplus resource.
EnsureEstablishes ==
  pass.pc = "done" => Matches(Tree, pass.goal, pass.hosts)

\* When nothing is queued and no pass runs, the Service is gone and so is its load
\* balancer, or its load balancer serves it, as the last pass could leave it.
QuietMeansReconciled ==
  pass.pc = "idle" /\ ~queued =>
    IF want = Gone
    THEN ~finalizer
    ELSE \E l \in Found, hosts \in HostSets : Matches(tree[l], want, hosts)

-----------------------------------------------------------------------------
(* What a step of EnsureLoadBalancer may never do.                         *)

Ensuring == pass.pc \in EnsureSteps

\* The resources by which tree t differs from what the Service s asks for.
Wrong(t, s, hosts) ==
  LET wantedMembers == s.ports \X (hosts \X {s.np})
      wantedMonitors == IF CreateMonitor THEN s.ports ELSE {}
      xor(a, b) == (a \ b) \cup (b \ a)
  IN {<<"listener", p>> : p \in
        {q \in Ports : (t.listener[q] = None) = (q \in s.ports)}}
     \cup {<<"options", p>> : p \in
        {q \in s.ports : ~ListenerSettled(t.listener[q], s.ann)}}
     \cup {<<"pool", p>> : p \in
        {q \in Ports : (t.pool[q] = None) = (q \in s.ports)}}
     \cup {<<"settings", p>> : p \in
        {q \in s.ports : ~PoolServes(t.pool[q], s)}}
     \cup {<<"monitor", p>> : p \in xor(t.monitor, wantedMonitors)}
     \cup {<<"member", m>> : m \in xor(t.member, wantedMembers)}

\* Every call of an Ensure pass that changes the cloud repairs something and
\* spoils nothing: a pass over a cloud that already agrees makes no call, and a
\* retried pass never undoes or repeats what an earlier one did.
EveryCallRepairs ==
  [][Ensuring /\ pass.lb # None /\ Tree # tree'[pass.lb] =>
       LET before == Wrong(Tree, pass.goal, pass.hosts)
           after == Wrong(tree'[pass.lb], pass.goal, pass.hosts)
       IN after \subseteq before /\ after # before]_vars

\* A Service keeps serving while it is changed: a member goes from a port that
\* is still wanted only when every wanted backend of the port is a member, and
\* an old port loses anything only when every wanted port is complete.
MakeBeforeBreak ==
  [][Ensuring /\ pass.lb # None =>
       LET g == pass.goal
           t == Tree
           u == tree'[pass.lb]
       IN /\ \A m \in t.member \ u.member :
               m[1] \in g.ports =>
                 {m[1]} \X (pass.hosts \X {g.np}) \subseteq t.member
          /\ (\/ \E m \in t.member \ u.member : m[1] \notin g.ports
              \/ \E p \in Ports : \/ t.pool[p] # None /\ u.pool[p] = None
                                  \/ t.listener[p] # None /\ u.listener[p] = None
              \/ t.monitor \ u.monitor # {})
             => \A p \in g.ports :
                  /\ ListenerServes(t.listener[p], g.ann)
                  /\ PoolServes(t.pool[p], g)
                  /\ {p} \X (pass.hosts \X {g.np}) \subseteq t.member]_vars

-----------------------------------------------------------------------------
(* The abstract specification: a tree that grows at its leaves and is cut  *)
(* at its leaves.  A resource is its kind, load balancer, port and backend. *)

Resources ==
  {<<"loadbalancer", l, None, None>> : l \in LBs}
  \cup ({"listener", "pool", "monitor"} \X LBs \X Ports \X {None})
  \cup ({"member"} \X LBs \X Ports \X Backends)

ASSUME RootAssumption == None \notin Resources

Parent ==
  [r \in Resources |->
     CASE r[1] = "loadbalancer" -> None
       [] r[1] = "listener" -> <<"loadbalancer", r[2], None, None>>
       [] r[1] = "pool" -> <<"listener", r[2], r[3], None>>
       [] OTHER -> <<"pool", r[2], r[3], None>>]

Live(r) ==
  LET t == tree[r[2]] IN
  CASE r[1] = "loadbalancer" -> status[r[2]] # "DELETED"
    [] r[1] = "listener" -> t.listener[r[3]] # None
    [] r[1] = "pool" -> t.pool[r[3]] # None
    [] r[1] = "monitor" -> r[3] \in t.monitor
    [] OTHER -> <<r[3], r[4]>> \in t.member

RT == INSTANCE ResourceTree
        WITH Root <- None, live <- {r \in Resources : Live(r)}

\* Every step of the passes, whatever fails on the way, is a step of the
\* abstract tree or leaves it alone: EnsureLoadBalancer builds listener, pool,
\* member and monitor in that order, and what is deleted goes leaves first.
GrowsAndShrinksAtLeaves == RT!Spec

-----------------------------------------------------------------------------
(* Liveness.                                                               *)

\* The cloud agrees with the Service, or the Service is one that is refused.
Converged ==
  IF want = Gone
  THEN ~finalizer /\ \A l \in LBs : status[l] = "DELETED"
  ELSE \/ want.defect # "none"
       \/ \E l \in Found, hosts \in HostSets : Matches(tree[l], want, hosts)

\* Once the user stops editing and the faults stop, retries bring the cloud to
\* what the Service asks for, and it stays there; a load balancer in ERROR is
\* beyond the code, which waits for somebody to delete it.
Convergence == <>[](Converged \/ \E l \in LBs : InError(status[l]))

\* The process survives an API error: "failed to update pool" is an error that
\* EnsureLoadBalancer returns.
ProcessSurvives == pass.pc # "down"
=============================================================================
