----------------------------- MODULE MemberSync -----------------------------
(***************************************************************************)
(* The members of one pool, and the two operations of                      *)
(* kinx_loadbalancer.go that write them: EnsureLoadBalancer, called by a   *)
(* worker of the Kubernetes service controller, and UpdateLoadBalancer,    *)
(* called by its node loop.  Nothing keeps the two apart.  A pass of       *)
(* either is its member phase: list the members, create the missing ones,  *)
(* delete the obsolete ones.                                               *)
(***************************************************************************)
EXTENDS Naturals

CONSTANTS
  Nodes,      \* cluster nodes; each has one address
  NodePorts,  \* node ports Kubernetes may allocate to the Service
  HostSets,   \* node lists the cluster may have
  NoPort,     \* no Service remembered
  MaxFaults,  \* bound: reads, calls and waits that fail
  MaxEdits,   \* bound: changes of the Service's node port
  MaxMoves    \* bound: changes of the cluster's node list

ASSUME ConstantsAssumption ==
  /\ HostSets \subseteq SUBSET Nodes
  /\ NoPort \notin NodePorts
  /\ MaxFaults \in Nat /\ MaxEdits \in Nat /\ MaxMoves \in Nat

VARIABLES
  nodes,    \* the cluster's nodes
  port,     \* the Service's node port
  queued,   \* is the Service in the controller's work queue
  cached,   \* node port of the Service in the controller's cache
  known,    \* knownHosts of the node loop
  retry,    \* node port of the Service in the node loop's servicesToUpdate
  members,  \* members of the pool
  busy,     \* is the load balancer in PENDING_UPDATE
  pass,     \* the local variables of the running passes
  beyond,   \* history: what has happened that is beyond each operation's own doing
  faults, edits, moves   \* how much of each bound is used

vars == <<nodes, port, queued, cached, known, retry, members, busy, pass,
          beyond, faults, edits, moves>>

cluster == <<nodes, port, edits, moves>>

Actors == {"ensure", "update"}

Backends == Nodes \X NodePorts

\* Both operations have run at once; the node list has changed and changed back
\* before the node loop looked at it; the node loop has repeated an update for a Service as
\* it no longer was.
Beyond == {"overlap", "missed", "stale"}

Passes ==
  [pc : {"idle", "list", "sync", "down"},
   waiting : BOOLEAN,          \* in waitLoadbalancerActiveProvisioningStatus
   np : NodePorts \cup {NoPort},   \* port.NodePort, as the pass was given it
   hosts : SUBSET Nodes,       \* nodes, as the pass was given them
   add : SUBSET Backends,      \* members to create
   drop : SUBSET Backends]     \* members to delete

Idle == [pc |-> "idle", waiting |-> FALSE, np |-> NoPort, hosts |-> {},
         add |-> {}, drop |-> {}]

\* A pass creates members for its own nodes and node port only.
TypeOK ==
  /\ nodes \in HostSets
  /\ port \in NodePorts
  /\ queued \in BOOLEAN
  /\ {cached, retry} \subseteq NodePorts \cup {NoPort}
  /\ known \subseteq Nodes
  /\ members \subseteq Backends
  /\ busy \in BOOLEAN
  /\ pass \in [Actors -> Passes]
  /\ beyond \subseteq Beyond
  /\ \A a \in Actors : pass[a].add \subseteq pass[a].hosts \X {pass[a].np}
  /\ faults \in 0..MaxFaults /\ edits \in 0..MaxEdits /\ moves \in 0..MaxMoves

Init ==
  /\ nodes \in HostSets \ {{}}
  /\ port \in NodePorts
  /\ queued = TRUE
  /\ cached = NoPort
  /\ known = {}
  /\ retry = NoPort
  /\ members = {}
  /\ busy = FALSE
  /\ pass = [a \in Actors |-> Idle]
  /\ beyond = {}
  /\ faults = 0 /\ edits = 0 /\ moves = 0

-----------------------------------------------------------------------------
(* The pass.                                                               *)

Started(a, np) ==
  pass' = [pass EXCEPT ![a] = [Idle EXCEPT !.pc = "list", !.np = np, !.hosts = nodes]]

Noted(what, happened) == IF happened THEN {what} ELSE {}

Overlaps(a) == Noted("overlap", \E b \in Actors \ {a} : pass[b].pc # "idle")

\* A worker takes the Service from the queue; a pass without nodes is refused,
\* and retried.
BeginEnsure ==
  /\ queued
  /\ pass["ensure"].pc = "idle"
  /\ cached' = port
  /\ IF nodes = {}
     THEN UNCHANGED <<queued, pass, beyond>>
     ELSE /\ queued' = FALSE /\ Started("ensure", port)
          /\ beyond' = beyond \cup Overlaps("ensure")
  /\ UNCHANGED <<cluster, known, retry, members, busy, faults>>

\* The node loop: nodes have changed, or the last update failed, in which case
\* it is repeated for the Service as it was then.  UpdateLoadBalancer takes the
\* first of the nodes, and panics when there is none.
BeginUpdate ==
  /\ pass["update"].pc = "idle"
  /\ \E np \in {IF nodes # known THEN cached ELSE retry} \ {NoPort} :
       IF nodes = {}
       THEN pass' = [pass EXCEPT !["update"].pc = "down"] /\ UNCHANGED beyond
       ELSE /\ Started("update", np)
            /\ beyond' = beyond \cup Overlaps("update") \cup Noted("stale", np # cached)
  /\ known' = nodes
  /\ retry' = NoPort
  /\ UNCHANGED <<cluster, queued, cached, members, busy, faults>>

\* The node loop has no Service to update yet.
NothingToUpdate ==
  /\ pass["update"].pc = "idle"
  /\ cached = NoPort
  /\ known' = nodes
  /\ UNCHANGED <<cluster, queued, cached, retry, members, busy, pass, faults, beyond>>

\* The process starts again with an empty cache, and every Service in its queue.
StartsAgain ==
  /\ pass' = [a \in Actors |-> Idle]
  /\ queued' = TRUE
  /\ cached' = NoPort /\ known' = {} /\ retry' = NoPort
  /\ UNCHANGED <<cluster, members, busy, beyond>>

Restart == pass["update"].pc = "down" /\ StartsAgain /\ UNCHANGED faults

Crash == faults < MaxFaults /\ faults' = faults + 1 /\ StartsAgain

Ready(a) == pass[a].pc \in {"list", "sync"} /\ ~pass[a].waiting

\* The pass returns an error, and is repeated.
Fails(a) ==
  /\ pass' = [pass EXCEPT ![a] = Idle]
  /\ IF a = "ensure"
     THEN queued' = TRUE /\ UNCHANGED retry
     ELSE retry' = pass[a].np /\ UNCHANGED queued

\* UpdateLoadBalancer keeps the members in a map by address: of two members
\* with one address it sees either.
Views(a) ==
  IF a = "ensure"
  THEN {members}
  ELSE {view \in SUBSET members :
          \A m \in members : \E v \in view : v[1] = m[1]
                                  /\ \A w \in view : w[1] = v[1] => w = v}

\* Mutant: the loop runs over all the nodes the cluster may have.
MutToAdd(view, hosts, np) == (Nodes \X {np}) \ view

ToAdd(view, hosts, np) == (hosts \X {np}) \ view

\* Mutant: nothing is obsolete.
MutToDropNone(view, hosts, np) == {}

\* Mutant: popMember, or the second test of the map, is left out.
MutToDropAll(view, hosts, np) == view

ToDrop(view, hosts, np) == view \ (hosts \X {np})

List(a) ==
  /\ Ready(a) /\ pass[a].pc = "list"
  /\ \E view \in Views(a) :
       pass' = [pass EXCEPT
         ![a].pc = "sync",
         ![a].add = ToAdd(view, pass[a].hosts, pass[a].np),
         ![a].drop = ToDrop(view, pass[a].hosts, pass[a].np)]
  /\ UNCHANGED <<cluster, queued, cached, known, retry, members, busy, faults, beyond>>

\* v2pools.CreateMember, refused while the load balancer is PENDING_UPDATE, and
\* for a member that exists.
Create(a) ==
  /\ Ready(a)
  /\ \E m \in pass[a].add :
       \/ /\ ~busy /\ m \notin members
          /\ members' = members \cup {m}
          /\ busy' = TRUE
          /\ pass' = [pass EXCEPT ![a].waiting = TRUE, ![a].add = @ \ {m}]
          /\ UNCHANGED <<queued, retry>>
       \/ /\ busy \/ m \in members
          /\ Fails(a)
          /\ UNCHANGED <<members, busy>>
  /\ UNCHANGED <<cluster, cached, known, faults, beyond>>

\* v2pools.DeleteMember, after the last CreateMember; a member that is gone
\* already is no error.
Delete(a) ==
  /\ Ready(a) /\ pass[a].add = {}
  /\ \E m \in pass[a].drop :
       \/ /\ ~busy \/ m \notin members
          /\ members' = members \ {m}
          /\ busy' = (busy \/ m \in members)
          /\ pass' = [pass EXCEPT ![a].waiting = TRUE, ![a].drop = @ \ {m}]
          /\ UNCHANGED <<queued, retry>>
       \/ /\ busy
          /\ Fails(a)
          /\ UNCHANGED <<members, busy>>
  /\ UNCHANGED <<cluster, cached, known, faults, beyond>>

\* The wait sees ACTIVE.
Waited(a) ==
  /\ pass[a].waiting /\ ~busy
  /\ pass' = [pass EXCEPT ![a].waiting = FALSE]
  /\ UNCHANGED <<cluster, queued, cached, known, retry, members, busy, faults, beyond>>

Finished(a) ==
  pass[a].pc = "sync" /\ ~pass[a].waiting /\ pass[a].add = {} /\ pass[a].drop = {}

Return(a) ==
  /\ Finished(a)
  /\ pass' = [pass EXCEPT ![a] = Idle]
  /\ UNCHANGED <<cluster, queued, cached, known, retry, members, busy, faults, beyond>>

\* A read, a call or a wait of a pass fails; a call may have had its effect.
Fault(a) ==
  /\ faults < MaxFaults
  /\ pass[a].pc \in {"list", "sync"}
  /\ Fails(a)
  /\ faults' = faults + 1
  /\ UNCHANGED <<cluster, cached, known, members, busy, beyond>>

-----------------------------------------------------------------------------
(* The API and the cluster.                                                *)

Settle ==
  /\ busy
  /\ busy' = FALSE
  /\ UNCHANGED <<cluster, queued, cached, known, retry, members, pass, faults, beyond>>

EditPort ==
  /\ edits < MaxEdits
  /\ port' \in NodePorts \ {port}
  /\ queued' = TRUE
  /\ edits' = edits + 1
  /\ UNCHANGED <<nodes, moves, cached, known, retry, members, busy, pass, faults, beyond>>

MoveNodes ==
  /\ moves < MaxMoves
  /\ nodes' \in HostSets \ {nodes}
  /\ moves' = moves + 1
  /\ beyond' = beyond \cup Noted("missed", nodes # known /\ nodes' = known)
  /\ UNCHANGED <<port, edits, queued, cached, known, retry, members, busy, pass, faults>>

Running == pass["update"].pc # "down"

PassStep(a) == List(a) \/ Create(a) \/ Delete(a) \/ Waited(a) \/ Return(a) \/ Fault(a)

Next ==
  \/ Running /\ (BeginEnsure \/ BeginUpdate \/ NothingToUpdate \/ Crash)
  \/ \E a \in Actors : Running /\ PassStep(a)
  \/ Restart
  \/ Settle
  \/ EditPort
  \/ MoveNodes

Spec == Init /\ [][Next]_vars

-----------------------------------------------------------------------------
(* What the two operations promise together.                               *)

Quiet ==
  /\ ~queued
  /\ \A a \in Actors : pass[a].pc = "idle"
  /\ nodes = known
  /\ retry = NoPort

\* Once nobody has anything left to do, every node of the cluster is a member of
\* the pool: the members a pass deletes are obsolete ones.
EveryNodeServed == Quiet => nodes \X {port} \subseteq members

\* Once nobody has anything left to do, the pool has exactly the nodes of the
\* cluster as members, at the Service's node port, whatever failed or went down in
\* between, unless the operations have run at once, or the node loop has looked too
\* late or repeated what was asked of it before.
QuietMeansMembers == Quiet /\ beyond = {} => members = nodes \X {port}

\* A node that is in every list the cluster has keeps its member, as long as
\* the node port does not change, whatever runs next to whatever else.
StableNodesKeepServing ==
  [][edits = 0 =>
       \A m \in members \ members' :
         \E hosts \in HostSets \ {{}} : m[1] \notin hosts]_vars
=============================================================================
