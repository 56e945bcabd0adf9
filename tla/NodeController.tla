--------------------------- MODULE NodeController ----------------------------
(***************************************************************************)
(* One Kubernetes node, the instances that may stand behind its name, and  *)
(* the two controllers that call kinx_instances.go about it: the node      *)
(* controller, which initialises the node and keeps its addresses, and the *)
(* lifecycle monitor, which deletes the node of an instance that is gone.  *)
(* Every call of the compute API is a step; the cloud changes in between.  *)
(* The controllers are those of Kubernetes 1.18 (external); what the calls *)
(* return, and what becomes of an error, is kinx_instances.go.             *)
(***************************************************************************)
EXTENDS NodeAddresses

CONSTANTS
  ServerIDs,     \* instances, all with the name of the node, each in a zone of its
                 \* own; IDs are not reused
  Ports,         \* ports an instance may have: records [addr, subnet, net]
  Networks,      \* sequence of the networks' names, sorted
  Floating,      \* the floating IP
  Access4, Access6,   \* values accessIPv4 and accessIPv6 may have (with None)
  Options,       \* the networking options to check
  MaxPorts,      \* bound: ports of an instance
  MaxChanges,    \* bound: changes of the instances
  MaxFaults      \* bound: reads that fail, and restarts

ASSUME ServersAssumption ==
  /\ IsFiniteSet(ServerIDs)
  /\ None \notin ServerIDs
  /\ "error" \notin ServerIDs \cup {None}

\* The addresses of ports and the floating IP are all different.  A network is listed once.
ASSUME AddressesAssumption ==
  /\ \A p, q \in Ports : p.addr = q.addr => p = q
  /\ \A p \in Ports : p.addr \notin {None, Floating}
  /\ Floating # None
  /\ None \in Access4 /\ None \in Access6
  /\ Networks \in Seq(ToSet(Networks)) /\ IsInjective(Networks)

ASSUME OptionsAssumption == \A o \in Options : o.noV6 \in BOOLEAN

ASSUME BoundsAssumption ==
  MaxPorts \in Nat \ {0} /\ MaxChanges \in Nat /\ MaxFaults \in Nat

VARIABLES
  cloud,    \* the instances
  opts,     \* networking options of the program
  node,     \* the Kubernetes node
  update,   \* the running pass of the node controller
  monitor,  \* the running pass of the lifecycle monitor
  changes, faults   \* how much of each bound is used

vars == <<cloud, opts, node, update, monitor, changes, faults>>
world == <<cloud, opts, changes>>

Attached == {[port |-> p, active |-> b] : p \in Ports, b \in BOOLEAN}

Servers ==
  [state : {"unborn", "up", "gone"},
   ports : SeqOf(Attached, MaxPorts),
   floating : BOOLEAN,     \* has the first port the floating IP
   access4 : Access4,
   access6 : Access6]

Unborn == [state |-> "unborn", ports |-> <<>>, floating |-> FALSE,
           access4 |-> None, access6 |-> None]

Interfaces(s) ==
  [k \in DOMAIN s.ports |->
     [addr |-> s.ports[k].port.addr, subnet |-> s.ports[k].port.subnet,
      active |-> s.ports[k].active]]

\* The entries of one network: the fixed addresses, then the floating one.
FixedOn(net, ports) ==
  FoldLeft(LAMBDA entries, x :
             IF x.port.net # net THEN entries
             ELSE Append(entries, [net |-> net, floating |-> FALSE, addr |-> x.port.addr]),
           <<>>, ports)

EntriesOn(net, s) ==
  IF s.floating /\ s.ports[1].port.net = net
  THEN Append(FixedOn(net, s.ports), [net |-> net, floating |-> TRUE, addr |-> Floating])
  ELSE FixedOn(net, s.ports)

Document(s) ==
  [access4 |-> s.access4, access6 |-> s.access6,
   addresses |-> FlattenSeq([k \in DOMAIN Networks |-> EntriesOn(Networks[k], s)])]

NoDocument == Document(Unborn)

Up == {i \in ServerIDs : cloud[i].state = "up"}

IdleUpdate == [pc |-> "idle", new |-> FALSE, pid |-> None, id |-> None, zone |-> None,
               server |-> NoDocument, interfaces |-> <<>>]
IdleMonitor == [pc |-> "idle", id |-> None, before |-> {}]
NoNode == [status |-> "absent", pid |-> None, zone |-> None, addrs |-> <<>>]

\* A pass works for the instance it looked up, and a document outlives only
\* the read of the interfaces.
TypeOK ==
  /\ cloud \in [ServerIDs -> Servers]
  /\ opts \in Options
  /\ node.status \in {"absent", "tainted", "ready"}
  /\ node.pid \in ServerIDs \cup {None}
  /\ node.status = "tainted" => node.pid = None /\ node.zone = None
  /\ {node.zone, update.zone} \subseteq ServerIDs \cup {None}
  /\ \A x \in ToSet(node.addrs) : x.type \in Types /\ x.addr # None
  /\ update.pc \in {"idle", "identify", "vouch", "zone", "zoneByName", "initialise",
                    "exists", "get", "byName", "interfaces", "publish"}
  /\ {update.pid, update.id} \subseteq ServerIDs \cup {None}
  /\ update.pc \in {"interfaces", "publish"} => update.id # None
  /\ monitor.pc \in {"idle", "identify", "exists", "delete"}
  /\ monitor.id \in ServerIDs \cup {None} /\ monitor.before \subseteq ServerIDs
  /\ changes \in 0..MaxChanges /\ faults \in 0..MaxFaults

Init ==
  /\ \E first \in ServerIDs, p \in Ports :
       cloud = [i \in ServerIDs |->
                  IF i = first
                  THEN [Unborn EXCEPT !.state = "up",
                                      !.ports = <<[port |-> p, active |-> TRUE]>>]
                  ELSE Unborn]
  /\ opts \in Options
  /\ node = NoNode
  /\ update = IdleUpdate /\ monitor = IdleMonitor
  /\ changes = 0 /\ faults = 0
------------------------------------------------------------------------------
(* The environment.                                                        *)

InUse == UNION {{x.port : x \in ToSet(cloud[i].ports)} : i \in Up}

\* What one call of somebody else may make of an instance that is up.
Altered(s) ==
  {[s EXCEPT !.state = "gone", !.ports = <<>>, !.floating = FALSE]}
  \cup {[s EXCEPT !.ports = Append(@, x)] :
          x \in {y \in Attached : Len(s.ports) < MaxPorts /\ y.port \notin InUse}}
  \cup {[s EXCEPT !.ports = RemoveAt(@, k), !.floating = s.floating /\ k # 1] :
          k \in DOMAIN s.ports}
  \cup {[s EXCEPT !.ports[k].active = ~@] : k \in DOMAIN s.ports}
  \cup {[s EXCEPT !.floating = ~@] : x \in IF s.ports = <<>> THEN {} ELSE {1}}
  \cup {[s EXCEPT !.access4 = a] : a \in Access4}
  \cup {[s EXCEPT !.access6 = a] : a \in Access6}

CloudChange ==
  /\ changes < MaxChanges /\ changes' = changes + 1
  /\ \E i \in ServerIDs :
       \/ i \in Up /\ \E s \in Altered(cloud[i]) : cloud' = [cloud EXCEPT ![i] = s]
       \/ cloud[i].state = "unborn" /\ cloud' = [cloud EXCEPT ![i].state = "up"]
  /\ UNCHANGED <<opts, node, update, monitor, faults>>

\* The kubelet of some instance registers the node.
Register ==
  /\ node.status = "absent" /\ Up # {}
  /\ node' = [NoNode EXCEPT !.status = "tainted"]
  /\ UNCHANGED <<world, update, monitor, faults>>

\* A read that fails is an error of its caller, whatever the cloud holds.
Faulty(faulty) ==
  IF faulty THEN faults < MaxFaults /\ faults' = faults + 1
  ELSE UNCHANGED faults

Restart ==
  /\ Faulty(TRUE)
  /\ update' = IdleUpdate /\ monitor' = IdleMonitor
  /\ UNCHANGED <<world, node>>
------------------------------------------------------------------------------
(* The calls of kinx_instances.go.                                         *)

\* Mutant: the first of the list will do.
MutByName(faulty) ==
  CASE faulty -> "error"
    [] ~faulty /\ Up = {} -> None
    [] OTHER -> CHOOSE i \in Up : TRUE

\* getServerByName: nobody, an error, or the one instance of that name.
ByName(faulty) ==
  CASE faulty \/ Cardinality(Up) > 1 -> "error"
    [] ~faulty /\ Up = {} -> None
    [] OTHER -> CHOOSE i \in ServerIDs : i \in Up

\* InstanceID, with InstanceNotFound as None.
InstanceID(faulty) == ByName(faulty)

\* Mutant: any error means that there is no instance.
MutInstanceExists(id, faulty) == IF id \in Up /\ ~faulty THEN "yes" ELSE "no"

InstanceExistsByProviderID(id, faulty) ==
  CASE faulty -> "error"
    [] ~faulty /\ id \in Up -> "yes"
    [] OTHER -> "no"

\* Mutant: the provider ID, which InstanceID gave without a scheme, is refused.
MutServerOf(pid, faulty) == "error"

\* servers.Get, in NodeAddressesByProviderID.  There is no ID in an empty
\* provider ID.
ServerOf(pid, faulty) == IF pid \in Up /\ ~faulty THEN pid ELSE "error"
------------------------------------------------------------------------------
(* The node controller.                                                    *)

BeginUpdate ==
  /\ update.pc = "idle" /\ node.status # "absent"
  /\ update' = [update EXCEPT
       !.pid = node.pid, !.id = node.pid, !.new = (node.status = "tainted"),
       !.pc = IF node.pid = None THEN "identify" ELSE "exists"]
  /\ UNCHANGED <<world, node, monitor, faults>>

\* A node without provider ID: to be initialised, it may get one; later, the
\* ID is only used to see whether the instance exists.
Identify ==
  /\ update.pc = "identify"
  /\ \E faulty \in BOOLEAN :
       /\ Faulty(faulty)
       /\ LET i == InstanceID(faulty)
          IN  update' =
                CASE update.new ->
                       [update EXCEPT !.pid = IF i = "error" THEN None ELSE i,
                                      !.pc = "vouch"]
                  [] ~update.new /\ i = "error" ->
                       [update EXCEPT !.pc = "get"]
                  [] ~update.new /\ i = None -> IdleUpdate
                  [] OTHER -> [update EXCEPT !.id = i, !.pc = "exists"]
  /\ UNCHANGED <<world, node, monitor>>

\* Addresses and instance type are read by ID or else by name; without them the
\* node is not initialised.
Vouch ==
  /\ update.pc = "vouch"
  /\ \E faulty \in BOOLEAN :
       /\ Faulty(faulty)
       /\ update' = IF ServerOf(update.pid, faulty) # "error"
                       \/ ByName(faulty) \in ServerIDs
                    THEN [update EXCEPT !.pc = "zone"] ELSE IdleUpdate
  /\ UNCHANGED <<world, node, monitor>>

\* GetZoneByProviderID.
ReadZone ==
  /\ update.pc = "zone"
  /\ \E faulty \in BOOLEAN :
       /\ Faulty(faulty)
       /\ update' = IF ServerOf(update.pid, faulty) = "error"
                    THEN [update EXCEPT !.pc = "zoneByName"]
                    ELSE [update EXCEPT !.pc = "initialise", !.zone = update.pid]
  /\ UNCHANGED <<world, node, monitor>>

\* GetZoneByNodeName.
ReadZoneByName ==
  /\ update.pc = "zoneByName"
  /\ \E faulty \in BOOLEAN :
       /\ Faulty(faulty)
       /\ update' = IF ByName(faulty) \notin ServerIDs THEN IdleUpdate
                    ELSE [update EXCEPT !.pc = "initialise", !.zone = ByName(faulty)]
  /\ UNCHANGED <<world, node, monitor>>

\* The zone becomes a label that nothing corrects later.
Initialise ==
  /\ update.pc = "initialise"
  /\ node' = IF node.status # "tainted" THEN node
             ELSE [node EXCEPT !.status = "ready", !.pid = update.pid,
                                 !.zone = update.zone]
  /\ update' = IdleUpdate
  /\ UNCHANGED <<world, monitor, faults>>

\* Only a node that is sure to be gone is left alone.
CheckExists ==
  /\ update.pc = "exists"
  /\ \E faulty \in BOOLEAN :
       /\ Faulty(faulty)
       /\ update' = IF InstanceExistsByProviderID(update.id, faulty) = "no"
                    THEN IdleUpdate ELSE [update EXCEPT !.pc = "get"]
  /\ UNCHANGED <<world, node, monitor>>

\* NodeAddressesByProviderID, up to the server; its errors end in
\* NodeAddresses, by name.
GetServer ==
  /\ update.pc = "get"
  /\ \E faulty \in BOOLEAN :
       /\ Faulty(faulty)
       /\ LET i == ServerOf(update.pid, faulty)
          IN  update' = IF i = "error" THEN [update EXCEPT !.pc = "byName"]
                        ELSE [update EXCEPT !.id = i, !.pc = "interfaces",
                                            !.server = Document(cloud[i])]
  /\ UNCHANGED <<world, node, monitor>>

\* getAddressesByName, up to the server.
GetServerByName ==
  /\ update.pc = "byName"
  /\ \E faulty \in BOOLEAN :
       /\ Faulty(faulty)
       /\ LET i == ByName(faulty)
          IN  update' = IF i \notin ServerIDs THEN IdleUpdate
                        ELSE [update EXCEPT !.pid = None, !.id = i, !.pc = "interfaces",
                                            !.server = Document(cloud[i])]
  /\ UNCHANGED <<world, node, monitor>>

\* getAttachedInterfacesByID for the server that was read.
ListInterfaces ==
  /\ update.pc = "interfaces"
  /\ \E faulty \in BOOLEAN :
       /\ Faulty(faulty)
       /\ update' =
            CASE ~faulty /\ update.id \in Up ->
                   [update EXCEPT !.pc = "publish",
                                  !.interfaces = Interfaces(cloud[update.id])]
              [] (faulty \/ update.id \notin Up) /\ update.pid # None ->
                   [update EXCEPT !.pc = "byName", !.server = NoDocument]
              [] OTHER -> IdleUpdate
  /\ UNCHANGED <<world, node, monitor>>

Result == Addresses(update.server, update.interfaces, opts)

\* An empty list is not written.
Publish ==
  /\ update.pc = "publish"
  /\ \E addrs \in {Result} :
       node' = IF node.status = "absent" \/ addrs = <<>> THEN node
               ELSE [node EXCEPT !.addrs = addrs]
  /\ update' = IdleUpdate
  /\ UNCHANGED <<world, monitor, faults>>

Updating ==
  \/ BeginUpdate \/ Identify \/ Vouch \/ ReadZone \/ ReadZoneByName \/ Initialise
  \/ CheckExists \/ GetServer \/ GetServerByName \/ ListInterfaces \/ Publish
------------------------------------------------------------------------------
(* The lifecycle monitor, for a node that does not report as ready.        *)

BeginMonitor ==
  /\ monitor.pc = "idle" /\ node.status # "absent"
  /\ monitor' = [pc |-> IF node.pid = None THEN "identify" ELSE "exists",
                 id |-> node.pid,
                 before |-> IF node.pid = None THEN Up ELSE {node.pid}]
  /\ UNCHANGED <<world, node, update, faults>>

MonitorIdentifies ==
  /\ monitor.pc = "identify"
  /\ \E faulty \in BOOLEAN :
       /\ Faulty(faulty)
       /\ LET i == InstanceID(faulty)
          IN  monitor' = CASE i = "error" -> IdleMonitor
                           [] i = None -> [monitor EXCEPT !.pc = "delete"]
                           [] OTHER -> [monitor EXCEPT !.pc = "exists", !.id = i]
  /\ UNCHANGED <<world, node, update>>

MonitorChecks ==
  /\ monitor.pc = "exists"
  /\ \E faulty \in BOOLEAN :
       /\ Faulty(faulty)
       /\ monitor' = IF InstanceExistsByProviderID(monitor.id, faulty) = "no"
                     THEN [monitor EXCEPT !.pc = "delete"] ELSE IdleMonitor
  /\ UNCHANGED <<world, node, update>>

DeleteNode ==
  /\ monitor.pc = "delete"
  /\ node' = NoNode
  /\ monitor' = IdleMonitor
  /\ UNCHANGED <<world, update, faults>>

Monitoring == BeginMonitor \/ MonitorIdentifies \/ MonitorChecks \/ DeleteNode

Next == CloudChange \/ Register \/ Restart \/ Updating \/ Monitoring

Spec == Init /\ [][Next]_vars

\* The node controller goes through the nodes in an endless loop.
FairSpec == Spec /\ WF_vars(Updating)
------------------------------------------------------------------------------
(* Properties.                                                             *)

Addrs == ({p.addr : p \in Ports} \cup Access4 \cup Access6 \cup {Floating}) \ {None}

\* The list about to be published has every address in exactly the types that
\* the two documents give it, and nothing twice: what AddToNodeAddresses and
\* RemoveFromNodeAddresses leave does not depend on the order of the loops.
\* (The Kubernetes controller relies on it when it looks for changes.)
ListIsExact ==
  update.pc = "publish" =>
    /\ IsInjective(Result)
    /\ \A a \in Addrs :
         {t \in Types : Contains(Result, NodeAddress(t, a))}
           = TypesOf(a, update.server, update.interfaces, opts)

\* The load balancer reaches a node at the private address of its first
\* active interface, whatever the networks are called and whatever floating
\* and access addresses come and go: those must not move the members.
InterfaceOrderWins ==
  update.pc = "publish" =>
    LET private(i) ==
          "InternalIP" \in TypesOf(i.addr, update.server, update.interfaces, opts)
        first == SelectInSeq(update.interfaces, LAMBDA i : i.active /\ private(i))
    IN  first # 0 => AddressForLB(Result) = update.interfaces[first].addr

Current(i) == Addresses(Document(cloud[i]), Interfaces(cloud[i]), opts)

\* While a node's addresses are up to date, EnsureLoadBalancer finds the subnet
\* of the address it uses, even if the port of that address is down.
SubnetResolves ==
  (/\ node.pid \in Up /\ node.addrs = Current(node.pid)
   /\ \E x \in ToSet(node.addrs) : x.type = "InternalIP")
  => \E x \in ToSet(cloud[node.pid].ports) :
       /\ x.port.addr = AddressForLB(node.addrs)
       /\ x.port.subnet = SubnetOf(AddressForLB(node.addrs), Interfaces(cloud[node.pid]))

\* A node with a private address of some family is reached by routes of that
\* family through such an address, and its port is found: otherwise CreateRoute
\* would put the route on the router and take it back in every round.
RouteHopHasPort ==
  \A i \in Up :
    LET server == Document(cloud[i])
        interfaces == Interfaces(cloud[i])
        addrs == Addresses(server, interfaces, opts)
    IN  \A k \in DOMAIN interfaces :
          LET a == interfaces[k].addr
              hop == AddressByName(addrs, a \in V6, opts)
          IN  "InternalIP" \in TypesOf(a, server, interfaces, opts)
                => OnPort(hop, interfaces) /\ (hop \in V6 <=> a \in V6)

\* The zone of a node is that of its instance, although it may have been read by
\* name while another instance had the name too.  (It is the instance here.)
ZoneIsOwn == node.status = "ready" /\ node.pid \in Up => node.zone = node.pid

\* A node is deleted only if every instance it could have stood for when the
\* monitor began is gone: a read that fails, or a name that is not unique,
\* deletes nothing.
LiveNodeStays ==
  [][node.status # "absent" /\ node'.status = "absent"
       => monitor.before \cap Up = {}]_vars

\* The instances whose addresses a node should have.
Own == CASE node.pid # None -> {node.pid} \cap Up
         [] node.pid = None /\ Cardinality(Up) = 1 -> Up
         [] OTHER -> {}

\* Once the cloud is quiet, the addresses of a node that has its instance
\* become those of the instance, and stay.
AddressesConverge ==
  <>[](node.status = "ready" =>
         \A i \in Own :
           LET addrs == Current(i) IN addrs # <<>> => node.addrs = addrs)
==============================================================================
