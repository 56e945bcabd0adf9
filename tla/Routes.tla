------------------------------- MODULE Routes -------------------------------
(***************************************************************************)
(* The routes of kinx_routes.go: the list of routes on the cluster's       *)
(* router, which every operation reads, changes and writes back as a       *)
(* whole, and the allowed address pairs of the nodes' ports.  The          *)
(* Kubernetes route controller works in rounds: it lists the routes, runs  *)
(* a goroutine for every route to create or to delete, and waits for all.  *)
(* A next hop is identified with the server that has the address.          *)
(***************************************************************************)
EXTENDS Naturals, FiniteSets

CONSTANTS
  Nodes,      \* nodes of the cluster, and servers of the cloud
  CIDRs,      \* pod networks that nodes may be given
  Earlier,    \* the pod networks of the nodes when an earlier process saw them
  Foreign,    \* routes of the router that are none of the cluster's
  None,       \* no node (CIDR not assigned), no listing, no element
  MaxFaults,  \* bound: failed calls, lost replies, crashes
  MaxEdits    \* bound: changes of nodes, servers and foreign routes

Managed == Nodes \X CIDRs   \* a route's next hop and its destination

ASSUME ConstantsAssumption ==
  /\ Foreign \cap Managed = {}
  /\ Earlier \subseteq [Nodes -> CIDRs \cup {None}]
  /\ None \notin Nodes /\ None \notin CIDRs /\ None \notin Managed \cup Foreign
  /\ MaxFaults \in Nat /\ MaxEdits \in Nat

VARIABLES
  routes,   \* the router's list of routes
  pairs,    \* allowed address pairs, as <<node of the port, CIDR>>
  servers,  \* the nodes whose server exists
  cidr,     \* podCIDR of each node known to Kubernetes
  listed,   \* servers seen by the listing under way, if one is
  op,       \* the operations of the round
  torn,     \* history: a step has left a route without its pair (see Tears)
  added,    \* history: foreign routes put on the router so far
  raced,    \* history: those put there while an operation was under way
  faults, edits   \* how much of each bound is used

vars == <<routes, pairs, servers, cidr, listed, op, torn, added, raced, faults, edits>>

cloud == <<routes, pairs, servers>>
cluster == <<cidr, edits>>
history == <<added, raced>>

Kinds == {"create", "delete"}

\* An operation is named by its kind and its route.
Ops == Kinds \X Managed

Route(o) == o[2]
NodeOf(o) == Route(o)[1]

Records ==
  [pc : {"idle", "router", "put", "port", "pair", "undo", "done", "failed"},
   hole : BOOLEAN,                        \* route.Blackhole
   read : SUBSET (Managed \cup Foreign),    \* router.Routes
   last : BOOLEAN,                        \* is Route(o) its last element
   had : SUBSET Managed,                  \* port.AllowedAddressPairs
   clean : BOOLEAN]   \* history: nobody else has changed anything since the
                      \* router was read, and no call has ended in doubt

Idle == [pc |-> "idle", hole |-> FALSE, read |-> {}, last |-> FALSE, had |-> {},
         clean |-> FALSE]

Over == {"idle", "done", "failed"}
Running(o) == op[o].pc \notin Over

TypeOK ==
  /\ routes \subseteq Managed \cup Foreign
  /\ pairs \subseteq Managed
  /\ servers \subseteq Nodes
  /\ cidr \in [Nodes -> CIDRs \cup {None}]
  /\ listed = None \/ listed \subseteq Nodes
  /\ op \in [Ops -> Records]
  /\ \A o \in Ops : \A p \in op[o].had : p[1] = NodeOf(o)
  /\ torn \in BOOLEAN
  /\ raced \subseteq added /\ added \subseteq Foreign
  /\ faults \in 0..MaxFaults /\ edits \in 0..MaxEdits

\* No two nodes have one pod network.
Assignments ==
  {f \in [Nodes -> CIDRs \cup {None}] :
     \A n, m \in Nodes : f[n] = f[m] => n = m \/ f[n] = None}

Of(assignment) == {r \in Managed : assignment[r[1]] = r[2]}

Init ==
  /\ \E f \in Earlier : pairs = Of(f)
  /\ added \in SUBSET Foreign
  /\ routes = pairs \cup added
  /\ servers = Nodes
  /\ cidr \in Assignments
  /\ listed = None
  /\ op = [o \in Ops |-> Idle]
  /\ torn = FALSE /\ raced = {}
  /\ faults = 0 /\ edits = 0

-----------------------------------------------------------------------------
(* How the steps of an operation end.                                      *)

\* An operation that is over is remembered as long as it is clean.
Kept(r) == IF r.pc \in Over /\ ~r.clean THEN Idle ELSE r

Disturbed(r) == Kept([r EXCEPT !.clean = FALSE])

\* The operation goes on with r.  A change of the router or of a port is seen
\* by all the others, which are no longer alone.
Goes(o, r) ==
  op' = [p \in Ops |-> IF p = o THEN Kept(r)
                       ELSE IF UNCHANGED cloud THEN op[p] ELSE Disturbed(op[p])]

Goto(o, pc) == [op[o] EXCEPT !.pc = pc]
InDoubt(o, pc) == [op[o] EXCEPT !.pc = pc, !.clean = FALSE]

Fault == faults < MaxFaults /\ faults' = faults + 1

\* The two ways to leave a route without its pair behind other operations'
\* backs: to write a list of routes in which one is that the router no longer
\* has, and to write a list of pairs in which one is missing that the port has.
Tears(o) ==
  \/ ~(routes' \subseteq routes \cup {Route(o)})
  \/ ~(pairs \subseteq pairs' \cup {Route(o)})

Unless(o) == torn' = (torn \/ Tears(o))

-----------------------------------------------------------------------------
(* CreateRoute and DeleteRoute, one API call per step.                     *)

\* Nothing to do: the route is there already, or is not there any more.
Skips(o) == (Route(o) \in routes) = (o[1] = "create")

\* getAddressByName, which needs the server, and then the list of the router,
\* whose last element may be any.
ReadRouter(o) ==
  /\ op[o].pc = "router"
  /\ UNCHANGED <<cloud, cluster, listed, torn, history>>
  /\ \/ /\ NodeOf(o) \in servers \/ op[o].hole
        /\ \E last \in IF Skips(o) \/ o[1] = "create" THEN {FALSE}
                      ELSE {routes = {Route(o)}, TRUE} :
             Goes(o, [op[o] EXCEPT !.read = routes, !.clean = TRUE, !.last = last,
                                   !.pc = IF Skips(o) THEN "done" ELSE "put"])
        /\ UNCHANGED faults
     \/ /\ \/ NodeOf(o) \notin servers /\ ~op[o].hole /\ UNCHANGED faults
           \/ Fault
        /\ Goes(o, Goto(o, "failed"))

\* Mutant: the slice is cut without the last element taking the victim's place.
MutWritten(o) ==
  IF o[1] = "create" THEN op[o].read \cup {Route(o)}
  ELSE op[o].read \ {IF op[o].last THEN Route(o)
                     ELSE CHOOSE r \in op[o].read \ {Route(o)} : TRUE}

\* The list of routes the operation writes.
Written(o) ==
  IF o[1] = "create" THEN op[o].read \cup {Route(o)} ELSE op[o].read \ {Route(o)}

PutRoutes(o) ==
  /\ op[o].pc = "put"
  /\ UNCHANGED <<pairs, servers, cluster, listed, history>>
  /\ \/ /\ routes' = Written(o)
        /\ Goes(o, Goto(o, IF op[o].hole THEN "done" ELSE "port"))
        /\ Unless(o) /\ UNCHANGED faults
     \/ Fault /\ routes' = Written(o) /\ Goes(o, InDoubt(o, "failed")) /\ torn' = TRUE
     \/ Fault /\ UNCHANGED <<routes, torn>> /\ Goes(o, Goto(o, "failed"))

\* Mutant: any port that has the pair will do.
MutPairsOf(n) == pairs

PairsOf(n) == {p \in pairs : p[1] = n}

\* getPortIDByIP and getPortByID.
ReadPort(o) ==
  /\ op[o].pc = "port"
  /\ UNCHANGED <<cloud, cluster, listed, torn, history>>
  /\ \/ /\ NodeOf(o) \in servers
        /\ Goes(o, [op[o] EXCEPT !.had = PairsOf(NodeOf(o)),
                      !.pc = IF (Route(o) \in pairs) = (o[1] = "create")
                             THEN "done" ELSE "pair"])
        /\ UNCHANGED faults
     \/ NodeOf(o) \notin servers /\ Goes(o, Goto(o, "undo")) /\ UNCHANGED faults
     \/ Fault /\ Goes(o, Goto(o, "undo"))

PairsWritten(o) ==
  (pairs \ PairsOf(NodeOf(o))) \cup
  (IF o[1] = "create" THEN op[o].had \cup {Route(o)} ELSE op[o].had \ {Route(o)})

\* Mutant: a failed update of the port ends the operation as it is.
MutPutPairs(o) ==
  /\ op[o].pc = "pair"
  /\ UNCHANGED <<routes, servers, cluster, listed, history>>
  /\ \/ /\ NodeOf(o) \in servers
        /\ pairs' = PairsWritten(o)
        /\ Goes(o, Goto(o, "done"))
        /\ Unless(o) /\ UNCHANGED faults
     \/ /\ \/ NodeOf(o) \notin servers /\ UNCHANGED faults
           \/ Fault
        /\ UNCHANGED <<pairs, torn>> /\ Goes(o, Goto(o, "failed"))

PutPairs(o) ==
  /\ op[o].pc = "pair"
  /\ UNCHANGED <<routes, servers, cluster, listed, history>>
  /\ \/ /\ NodeOf(o) \in servers
        /\ pairs' = PairsWritten(o)
        /\ Goes(o, Goto(o, "done"))
        /\ Unless(o) /\ UNCHANGED faults
     \/ /\ NodeOf(o) \in servers
        /\ Fault /\ pairs' = PairsWritten(o) /\ Goes(o, InDoubt(o, "undo")) /\ torn' = TRUE
     \/ /\ \/ NodeOf(o) \notin servers /\ UNCHANGED faults
           \/ Fault
        /\ UNCHANGED <<pairs, torn>> /\ Goes(o, Goto(o, "undo"))

\* The victim was not the last: the list to put back has another route twice.
Twice(o) == o[1] = "delete" /\ ~op[o].last

\* Mutant: the list just written is the one that is put back.
MutRestored(o) == Written(o)

\* What the undo of updateRoutes puts back.  origRoutes shares its array with
\* the list that DeleteRoute has edited: the victim's element holds the last
\* one by now.
Restored(o) == IF Twice(o) THEN op[o].read \ {Route(o)} ELSE op[o].read

\* The deferred call of the undo.  Neutron may refuse a list with a duplicate.
Undo(o) ==
  /\ op[o].pc = "undo"
  /\ UNCHANGED <<pairs, servers, cluster, listed, history>>
  /\ \/ /\ routes' = Restored(o)
        /\ Goes(o, Goto(o, "failed")) /\ Unless(o) /\ UNCHANGED faults
     \/ /\ Twice(o)
        /\ UNCHANGED <<routes, torn, faults>> /\ Goes(o, Goto(o, "failed"))
     \/ Fault /\ UNCHANGED routes /\ Goes(o, InDoubt(o, "failed")) /\ torn' = TRUE

OpStep(o) ==
  \/ ReadRouter(o) \/ PutRoutes(o) \/ ReadPort(o) \/ PutPairs(o) \/ Undo(o)

-----------------------------------------------------------------------------
(* The rounds of the route controller.                                     *)

Wanted == Of(cidr)

\* ListRoutes, first half: the servers and their addresses.
ListServers ==
  /\ listed = None
  /\ \A o \in Ops : ~Running(o)
  /\ listed' = servers
  /\ op' = [o \in Ops |-> Idle]
  /\ UNCHANGED <<cloud, cluster, torn, history, faults>>

\* Mutant: a route whose next hop has no server is one of its node all the same.
MutHole(r) == FALSE

\* A next hop that no server has makes the route a black hole.
Hole(r) == r[1] \notin listed

\* Listed with its node's name, so that the controller sees what it is for.
Has(r) == r \in routes /\ ~Hole(r)

\* ListRoutes, second half, and the controller's choice.  Routes outside the
\* cluster's networks are left alone.
ListRoutes ==
  /\ listed # None
  /\ listed' = None
  /\ op' = [o \in Ops |->
              CASE o[1] = "create" /\ Route(o) \in Wanted /\ ~Has(Route(o)) ->
                     [Idle EXCEPT !.pc = "router"]
                [] o[1] = "delete" /\ Route(o) \in routes /\ Hole(Route(o)) ->
                     [Idle EXCEPT !.pc = "router", !.hole = TRUE]
                [] o[1] = "delete" /\ Has(Route(o)) /\ Route(o) \notin Wanted ->
                     [Idle EXCEPT !.pc = "router"]
                [] OTHER -> Idle]
  /\ UNCHANGED <<cloud, cluster, torn, history, faults>>

-----------------------------------------------------------------------------
(* Everything else.                                                        *)

NoteChange == op' = [o \in Ops |-> Disturbed(op[o])]

\* A node is given a pod network that is free, or goes.
ChangeNode ==
  /\ edits < MaxEdits /\ edits' = edits + 1
  /\ \E n \in Nodes :
       \/ cidr[n] # None /\ cidr' = [cidr EXCEPT ![n] = None]
       \/ \E c \in CIDRs : /\ \A m \in Nodes : cidr[m] # c
                           /\ cidr' = [cidr EXCEPT ![n] = c]
  /\ UNCHANGED <<cloud, listed, op, torn, history, faults>>

\* A server goes, and its port with it.
Destroy ==
  /\ edits < MaxEdits /\ edits' = edits + 1
  /\ \E n \in servers :
       servers' = servers \ {n} /\ pairs' = pairs \ PairsOf(n)
  /\ NoteChange
  /\ UNCHANGED <<routes, cidr, listed, torn, history, faults>>

\* Somebody adds a route that is none of the cluster's.
AddForeign ==
  /\ edits < MaxEdits /\ edits' = edits + 1
  /\ \E f \in Foreign \ added :
       /\ routes' = routes \cup {f}
       /\ added' = added \cup {f}
       /\ raced' = IF \E o \in Ops : Running(o) THEN raced \cup {f} ELSE raced
  /\ NoteChange
  /\ UNCHANGED <<pairs, servers, cidr, listed, torn, faults>>

\* The process dies with the round, and is started again.
Crash ==
  /\ Fault
  /\ torn' = (torn \/ \E o \in Ops : Running(o))
  /\ listed' = None
  /\ op' = [o \in Ops |-> Idle]
  /\ UNCHANGED <<cloud, cluster, history>>

Controller == ListServers \/ ListRoutes

Next ==
  \/ Controller
  \/ \E o \in Ops : OpStep(o)
  \/ ChangeNode \/ Destroy \/ AddForeign \/ Crash

Fairness == WF_vars(Controller) /\ \A o \in Ops : WF_vars(OpStep(o))

Spec == Init /\ [][Next]_vars /\ Fairness

-----------------------------------------------------------------------------
(* Properties.                                                             *)

\* A route of a node has its address pair, without which the port drops the
\* pods' packets, as soon as no operation on it is running: the route is not
\* put on the router for good before the port is updated, and a failed update
\* takes it back.  CreateRoute never looks at the pair of a route that exists,
\* so whatever leaves one without its pair leaves it so for good; what does is
\* a crash, a lost reply, a failed undo, or a write of a stale list.
PairsComplete ==
  torn \/ \A r \in routes \cap Managed :
            \/ r \in pairs
            \/ r[1] \notin servers
            \/ \E k \in Kinds : Running(<<k, r>>)

\* An operation that nobody interfered with and whose calls all had an answer
\* has changed its own route and pair only, or, when it failed, nothing; except
\* that a failed DeleteRoute puts the route back only when it was the last of
\* the list (line 336), and otherwise leaves it deleted and the pair there.
AloneIsExact ==
  \A o \in Ops : op[o].clean =>
    LET there == o[1] = "create"
        changed == IF there THEN op[o].read \cup {Route(o)} ELSE op[o].read \ {Route(o)}
    IN  /\ op[o].pc = "done" =>
             /\ routes = changed
             /\ op[o].read # changed /\ ~op[o].hole => (Route(o) \in pairs) = there
        /\ op[o].pc = "failed" =>
             routes = op[o].read \/ (Twice(o) /\ routes = changed)

\* Routes of others stay, whatever the cluster's operations do at once, fail to
\* do or undo; only one that is added under a running operation may be lost
\* with that operation's write of the list it had read.
ForeignRoutesStay == added \ raced \subseteq routes

\* However the rounds' operations overwrite each other's lists and undo their
\* own, in the end the routes are those of the nodes that have a server.
RoutesConverge ==
  <>[](routes \cap Managed = {r \in Wanted : r[1] \in servers})
=============================================================================
