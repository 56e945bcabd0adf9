-------------------------- MODULE LoadBalancerInv --------------------------
(***************************************************************************)
(* The inductive invariants of LoadBalancer: what every step of a pass may  *)
(* rely on, about the tree below its load balancer and about the Service's *)
(* claim to that load balancer.                                            *)
(***************************************************************************)
EXTENDS LoadBalancer

\* Every resource of the tree t has its parent.
Shape(t) ==
  /\ \A m \in t.member : t.pool[m[1]] # None
  /\ \A p \in t.monitor : t.pool[p] # None
  /\ \A p \in Ports : t.pool[p] # None => t.listener[p] # None

\* The steps at which the pass has a load balancer in hand.
Working == (EnsureSteps \ {"create"}) \cup DeleteSteps

\* What the pass p knows of the tree t below its load balancer.
EnsureKnows(p, t) ==
  /\ p.pc \in {"pool", "settings", "members", "add", "drop", "monitor",
               "oldMonitor", "oldMembers", "oldPool", "oldListener"}
       => p.cur \in Ports
  /\ p.pc = "pool" => t.listener[p.cur] # None /\ p.backend \in BackendProtocols
  /\ p.pc \in {"settings", "members", "add", "drop", "monitor"}
       => t.pool[p.cur] # None
  /\ p.pc \in {"oldMembers", "oldPool"} => p.cur \notin t.monitor
  /\ p.pc = "oldPool" =>
       \A b \in Backends : <<p.cur, b>> \in t.member => b \in p.stale
  /\ p.pc = "oldListener" => t.pool[p.cur] = None

\* What EnsureLoadBalancerDeleted listed still covers all that is there.
DeleteKnows(p, t) ==
  /\ p.pc \in {"dMonitors", "dPools", "dMembers", "dListeners"} =>
       \A q \in Ports : t.listener[q] # None => q \in p.old
  /\ p.pc \in {"dMonitors", "dPools", "dMembers"} =>
       \A q \in Ports : t.pool[q] # None => q \in p.todo
  /\ p.pc = "dMonitors" => t.monitor \subseteq p.mons
  /\ p.pc \in {"dPools", "dMembers", "dListeners"} => t.monitor = {}
  /\ p.pc = "dMembers" =>
       /\ p.cur \in Ports
       /\ \A b \in Backends : <<p.cur, b>> \in t.member => b \in p.stale
  /\ p.pc = "dListeners" => \A q \in Ports : t.pool[q] = None
  /\ p.pc = "dLB" => t = EmptyTree

PassOK(p, trees) ==
  /\ p.pc \in EnsureSteps => p.goal \in Specs
  /\ p.waiting => p.pc \in Working
  /\ p.pc \in Working =>
       /\ p.lb \in LBs
       /\ EnsureKnows(p, trees[p.lb])
       /\ DeleteKnows(p, trees[p.lb])

\* The discipline of the passes towards the tree: the inductive invariant
\* behind TypeOK and NoOrphans.
Discipline ==
  /\ TypeOK
  /\ \A l \in LBs : Shape(tree[l])
  /\ \A l \in LBs : ~Valid(status[l]) => tree[l] = EmptyTree
  /\ PassOK(pass, tree)

\* Who owns the load balancer: the inductive invariant behind
\* SingleLoadBalancer and FinalizerGuardsCloud, where the load balancers that are
\* live are counted without those whose deletion has failed.  A pass that is about to
\* create one, or waits for one to disappear, does so while there is none, and one
\* that works on one does so while there is no other; a Service without the finalizer
\* has none, and its passes only delete.  One whose deletion failed has nothing below
\* it.
Ownership ==
  /\ SingleLoadBalancer
  /\ \A l \in Relapsed : tree[l] = EmptyTree
  /\ pass.pc \in Working => Found \ {pass.lb} \subseteq Relapsed
  /\ pass.pc \in {"create", "gone"} => Found \subseteq Relapsed
  /\ ~finalizer => Found \subseteq Relapsed /\ pass.goal = Gone

-----------------------------------------------------------------------------
(* What an Ensure pass has achieved so far: the inductive invariant behind *)
(* EnsureEstablishes and MakeBeforeBreak.                                  *)

\* The steps that deal with a port that the Service lists, and those that deal
\* with one that it does not.
PortSteps == {"pool", "settings", "members", "add", "drop", "monitor"}

OldSteps == {"oldMonitor", "oldMembers", "oldPool", "oldListener"}

\* The port q of the tree t is as the Service s asks for.
Complete(q, t, s, hosts) ==
  /\ ListenerServes(t.listener[q], s.ann)
  /\ PoolServes(t.pool[q], s)
  /\ CreateMonitor => q \in t.monitor
  /\ \A b \in Backends : <<q, b>> \in t.member <=> b \in hosts \X {s.np}

\* The backends of the port in hand that the member loop is done with.
Visited(p) == (IF p.pc = "add" THEN p.hosts \ p.left ELSE p.hosts) \X {p.goal.np}

\* The port in hand: the members that are there are the visited ones and those that
\* are still to be dropped.
PortAchieved(p, t) ==
  /\ p.pc \in PortSteps =>
       /\ p.cur \in p.goal.ports \ p.todo
       /\ ListenerServes(t.listener[p.cur], p.goal.ann)
  /\ p.pc \in {"members", "add", "drop", "monitor"} => PoolServes(t.pool[p.cur], p.goal)
  /\ p.pc \in {"add", "drop", "monitor"} =>
       /\ \A b \in Backends : <<p.cur, b>> \in t.member <=> b \in p.stale \/ b \in Visited(p)
       /\ \A b \in p.stale : b \notin Visited(p)
  /\ p.pc = "add" => p.left \subseteq p.hosts
  /\ p.pc = "monitor" => p.stale = {}

\* The other ports: the listeners that are there belong to the Service or are known
\* to be old, and the ports that were dealt with are complete.
PortsAchieved(p, t) ==
  /\ p.todo \subseteq p.goal.ports
  /\ p.old \cap (p.goal.ports \ p.todo) = {}
  /\ \A q \in Ports : t.listener[q] # None => q \in p.old \cup (p.goal.ports \ p.todo)
  /\ \A q \in p.goal.ports \ p.todo :
       (p.pc \in PortSteps /\ q = p.cur) \/ Complete(q, t, p.goal, p.hosts)

Achieved(p, t) ==
  /\ p.pc \in PortSteps \cup OldSteps \cup {"port", "obsolete", "done"} => PortsAchieved(p, t)
  /\ PortAchieved(p, t)
  /\ p.pc \in OldSteps \cup {"obsolete", "done"} => p.todo = {}
  /\ p.pc \in OldSteps => p.cur \in p.old
  /\ p.pc = "done" => p.old = {}

Achievement ==
  /\ Achieved(pass, Tree)
  /\ ~CreateMonitor => \A l \in LBs : tree[l].monitor = {}

\* What a pass is about: the inductive invariant behind QuietMeansReconciled.  A pass
\* works on the Service as it stands, or the Service is queued again.
Errand ==
  /\ pass.pc \in DeleteSteps => pass.goal = Gone
  /\ ~queued => pass.pc \in {"idle", "down"} \/ pass.goal = want
  /\ pass.goal # Gone => pass.hosts \in HostSets
  /\ pass.pc \in EnsureSteps \ {"create"} => Valid(status[pass.lb])
  /\ QuietMeansReconciled
=============================================================================
