------------------------ MODULE NodeControllerProofs ------------------------
(***************************************************************************)
(* Proofs about NodeController.  First, no instance that a name may have   *)
(* stood for loses its node, and the zone of a node is that of its         *)
(* instance.  Then the list of addresses: what each of its loops leaves,   *)
(* by induction over the rounds (FoldLemmas); that the documents of an     *)
(* instance give no address twice, which the exact list depends on; and    *)
(* the type of the state with the properties of the list, of the subnet    *)
(* and of the next hop that follow.                                        *)
(***************************************************************************)
EXTENDS NodeController, FoldLemmas, FiniteSetTheorems, TLAPS

\* The fields of the records that the proofs are about, whatever the others hold.
CloudShape ==
  /\ cloud = [i \in ServerIDs |-> cloud[i]]
  /\ \A i \in ServerIDs : "state" \in DOMAIN cloud[i]

NodeShape == {"status", "pid", "zone"} \subseteq DOMAIN node

UpdateShape == {"pc", "pid", "zone"} \subseteq DOMAIN update

MonitorShape == {"pc", "id", "before"} \subseteq DOMAIN monitor

Shapes == CloudShape /\ NodeShape /\ UpdateShape /\ MonitorShape

\* The instances there are or have been: from these, nobody becomes up again.
Born == {i \in ServerIDs : cloud[i].state # "unborn"}

\* A zone that was read for a provider ID is its own, if the instance is still up.
IsOwn(pid, zone) == pid \in Up => zone = pid

\* The instances that have been looked up are born; the zone that is about to be
\* written, or was, is right; and the monitor knows of no other instance than the one it
\* asks for.
Lookups ==
  /\ {node.pid, update.pid} \subseteq Born \cup {None}
  /\ update.pc = "initialise" => IsOwn(update.pid, update.zone)
  /\ node.status = "ready" => IsOwn(node.pid, node.zone)
  /\ node.status # "ready" => node.pid = None
  /\ monitor.before \subseteq Born
  /\ monitor.pc = "exists" => monitor.before \cap Up \subseteq {monitor.id}
  /\ monitor.pc = "delete" => monitor.before \cap Up = {}

LookupInv == Shapes /\ Lookups

-----------------------------------------------------------------------------
\* An instance that is up is born, and instances never come back.
LEMMA UpFacts == Up \subseteq Born /\ Born \subseteq ServerIDs
BY DEF Up, Born

LEMMA AlteredKeeps ==
  ASSUME NEW s, "state" \in DOMAIN s, s.state = "up", NEW t \in Altered(s)
  PROVE  "state" \in DOMAIN t /\ t.state \in {"up", "gone"}
<1> DEFINE Good(x) == "state" \in DOMAIN x /\ x.state \in {"up", "gone"}
<1>1. Good([s EXCEPT !.state = "gone", !.ports = <<>>, !.floating = FALSE])
  OBVIOUS
<1>2. \A ports : Good([s EXCEPT !.ports = ports])
  OBVIOUS
<1>3. \A k : Good([s EXCEPT !.ports = RemoveAt(@, k), !.floating = s.floating /\ k # 1])
  OBVIOUS
<1>4. \A floating : Good([s EXCEPT !.floating = floating])
  OBVIOUS
<1>5. \A a : Good([s EXCEPT !.access4 = a]) /\ Good([s EXCEPT !.access6 = a])
  OBVIOUS
<1> HIDE DEF Good
<1> DEFINE Deleted == {[s EXCEPT !.state = "gone", !.ports = <<>>, !.floating = FALSE]}
           Plugged == {[s EXCEPT !.ports = Append(@, x)] :
                         x \in {y \in Attached : Len(s.ports) < MaxPorts /\ y.port \notin InUse}}
           Unplugged == {[s EXCEPT !.ports = RemoveAt(@, k), !.floating = s.floating /\ k # 1] :
                           k \in DOMAIN s.ports}
           Switched == {[s EXCEPT !.ports[k].active = ~@] : k \in DOMAIN s.ports}
           Floated == {[s EXCEPT !.floating = ~@] : x \in IF s.ports = <<>> THEN {} ELSE {1}}
           Accessed4 == {[s EXCEPT !.access4 = a] : a \in Access4}
           Accessed6 == {[s EXCEPT !.access6 = a] : a \in Access6}
<1>6. \A u \in Deleted : Good(u)
  BY <1>1, Zenon
<1>7. \A u \in Plugged : Good(u)
  <2>1. \A u \in Plugged : \E x : u = [s EXCEPT !.ports = Append(@, x)]
    OBVIOUS
  <2> QED  BY <1>2, <2>1
<1>8. \A u \in Unplugged : Good(u)
  <2>1. \A u \in Unplugged : \E k :
          u = [s EXCEPT !.ports = RemoveAt(@, k), !.floating = s.floating /\ k # 1]
    OBVIOUS
  <2> QED  BY <1>3, <2>1, Zenon
<1>9. \A u \in Switched : Good(u)
  <2>1. \A u \in Switched : \E k : u = [s EXCEPT !.ports[k].active = ~@]
    OBVIOUS
  <2> QED  BY <1>2, <2>1
<1>10. \A u \in Floated : Good(u)
  <2>1. \A u \in Floated : u = [s EXCEPT !.floating = ~@]
    OBVIOUS
  <2> QED  BY <1>4, <2>1
<1>11. \A u \in Accessed4 \cup Accessed6 : Good(u)
  BY <1>5
<1>12. Altered(s) = Deleted \cup Plugged \cup Unplugged \cup Switched \cup Floated
                     \cup Accessed4 \cup Accessed6
  BY Zenon DEF Altered
<1> HIDE DEF Deleted, Plugged, Unplugged, Switched, Floated, Accessed4, Accessed6
<1>13. Good(t)
  BY <1>6, <1>7, <1>8, <1>9, <1>10, <1>11, <1>12
<1> QED  BY <1>13 DEF Good

LEMMA CloudSteps ==
  ASSUME CloudShape, CloudChange
  PROVE  CloudShape' /\ Born \subseteq Born' /\ Born \cap Up' \subseteq Up
<1>1. PICK i \in ServerIDs :
        \/ i \in Up /\ \E s \in Altered(cloud[i]) : cloud' = [cloud EXCEPT ![i] = s]
        \/ cloud[i].state = "unborn" /\ cloud' = [cloud EXCEPT ![i].state = "up"]
  BY DEF CloudChange
<1>2. CASE i \in Up /\ \E s \in Altered(cloud[i]) : cloud' = [cloud EXCEPT ![i] = s]
  <2>1. PICK s \in Altered(cloud[i]) : cloud' = [cloud EXCEPT ![i] = s]
    BY <1>2
  <2>2. "state" \in DOMAIN s /\ s.state \in {"up", "gone"}
    BY <1>2, AlteredKeeps DEF Up, CloudShape
  <2>3. \A j \in ServerIDs : cloud'[j] = IF j = i THEN s ELSE cloud[j]
    BY <2>1 DEF CloudShape
  <2>4. cloud' = [j \in ServerIDs |-> cloud'[j]]
    BY <2>1 DEF CloudShape
  <2> QED  BY <1>2, <2>2, <2>3, <2>4 DEF CloudShape, Born, Up
<1>3. CASE cloud[i].state = "unborn" /\ cloud' = [cloud EXCEPT ![i].state = "up"]
  <2>1. \A j \in ServerIDs :
          cloud'[j] = IF j = i THEN [cloud[j] EXCEPT !.state = "up"] ELSE cloud[j]
    BY <1>3 DEF CloudShape
  <2>2. cloud' = [j \in ServerIDs |-> cloud'[j]]
    BY <1>3 DEF CloudShape
  <2>3. \A j \in ServerIDs :
          /\ "state" \in DOMAIN cloud'[j]
          /\ cloud'[j].state = IF j = i THEN "up" ELSE cloud[j].state
    BY <2>1 DEF CloudShape
  <2> QED  BY <1>3, <2>2, <2>3 DEF CloudShape, Born, Up
<1> QED  BY <1>1, <1>2, <1>3

\* A name is one instance's, nobody's, or an error.
LEMMA ByNameIs ==
  ASSUME NEW faulty \in BOOLEAN
  PROVE  /\ ByName(faulty) \in ServerIDs \cup {None, "error"}
         /\ ByName(faulty) = None => Up = {}
         /\ ByName(faulty) \in ServerIDs => Up = {ByName(faulty)}
<1>1. IsFiniteSet(Up) /\ Up \subseteq ServerIDs
  BY FS_Subset, ServersAssumption DEF Up
<1>2. CASE faulty \/ Cardinality(Up) > 1
  BY <1>2, ServersAssumption DEF ByName
<1>3. CASE ~faulty /\ ~(Cardinality(Up) > 1) /\ Up = {}
  BY <1>3, ServersAssumption DEF ByName
<1>4. CASE ~faulty /\ ~(Cardinality(Up) > 1) /\ Up # {}
  <2>1. Cardinality(Up) \in Nat /\ Cardinality(Up) # 0
    BY <1>1, <1>4, FS_CardinalityType, FS_EmptySet
  <2>2. Cardinality(Up) = 1
    BY <1>4, <2>1
  <2>3. PICK i : Up = {i}
    BY <1>1, <2>2, FS_Singleton
  <2>4. ByName(faulty) = CHOOSE j \in ServerIDs : j \in Up
    BY <1>4 DEF ByName
  <2>5. ByName(faulty) = i /\ i \in ServerIDs
    BY <1>1, <2>3, <2>4
  <2> QED  BY <2>3, <2>5, ServersAssumption
<1> QED  BY <1>2, <1>3, <1>4

-----------------------------------------------------------------------------
(* The invariant.                                                          *)

\* A step of the node controller that writes nothing to the node.
LEMMA UpdateOnly ==
  ASSUME LookupInv, UNCHANGED <<cloud, node, monitor>>, UpdateShape',
         update'.pid \in Born \cup {None},
         update'.pc = "initialise" => IsOwn(update'.pid, update'.zone)
  PROVE  LookupInv'
BY DEF LookupInv, Shapes, Lookups, CloudShape, NodeShape, MonitorShape, Born, Up, IsOwn

LEMMA IdleUpdateHolds ==
  ASSUME update' = IdleUpdate
  PROVE  UpdateShape' /\ update'.pid = None /\ update'.pc = "idle"
BY DEF IdleUpdate, UpdateShape

LEMMA IdleMonitorHolds ==
  ASSUME monitor' = IdleMonitor
  PROVE  MonitorShape' /\ monitor'.pc = "idle" /\ monitor'.before = {}
BY DEF IdleMonitor, MonitorShape

\* A name that is one instance's gives one that is born.
LEMMA NameIsBorn ==
  ASSUME NEW faulty \in BOOLEAN, ByName(faulty) # "error"
  PROVE  ByName(faulty) \in Born \cup {None}
BY ByNameIs, UpFacts

LEMMA UpdatingKept ==
  ASSUME LookupInv, Updating
  PROVE  LookupInv'
<1>0. /\ UpdateShape /\ NodeShape /\ update.pid \in Born \cup {None}
      /\ node.pid \in Born \cup {None}
  BY DEF LookupInv, Shapes, Lookups
<1>i. ASSUME UNCHANGED <<cloud, node, monitor>>, update' = IdleUpdate PROVE LookupInv'
  BY <1>i, IdleUpdateHolds, UpdateOnly
<1>k. ASSUME UNCHANGED <<cloud, node, monitor>>, UpdateShape', update'.pid = update.pid,
             update'.pc # "initialise"
      PROVE  LookupInv'
  BY <1>0, <1>k, UpdateOnly
<1>1. CASE BeginUpdate
  <2>1. UNCHANGED <<cloud, node, monitor>>
    BY <1>1 DEF BeginUpdate, world
  <2>2. UpdateShape' /\ update'.pid = node.pid /\ update'.pc # "initialise"
    BY <1>0, <1>1 DEF BeginUpdate, UpdateShape
  <2> QED  BY <1>0, <2>1, <2>2, UpdateOnly
<1>2. CASE Identify
  <2>1. PICK faulty \in BOOLEAN :
          LET i == InstanceID(faulty)
          IN  update' =
                CASE update.new ->
                       [update EXCEPT !.pid = IF i = "error" THEN None ELSE i,
                                      !.pc = "vouch"]
                  [] ~update.new /\ i = "error" ->
                       [update EXCEPT !.pc = "get"]
                  [] ~update.new /\ i = None -> IdleUpdate
                  [] OTHER -> [update EXCEPT !.id = i, !.pc = "exists"]
    BY <1>2 DEF Identify
  <2>2. UNCHANGED <<cloud, node, monitor>>
    BY <1>2 DEF Identify, world
  <2>3. CASE update.new
    <3>1. update' = [update EXCEPT !.pid = IF ByName(faulty) = "error" THEN None
                                           ELSE ByName(faulty),
                                   !.pc = "vouch"]
      BY <2>1, <2>3 DEF InstanceID
    <3>2. /\ UpdateShape' /\ update'.pc = "vouch"
          /\ update'.pid = IF ByName(faulty) = "error" THEN None ELSE ByName(faulty)
      BY <1>0, <3>1 DEF UpdateShape
    <3>3. update'.pid \in Born \cup {None}
      BY <3>2, NameIsBorn
    <3> QED  BY <2>2, <3>2, <3>3, UpdateOnly
  <2>4. CASE ~update.new
    <3>1. \/ update' = [update EXCEPT !.pc = "get"]
          \/ update' = IdleUpdate
          \/ update' = [update EXCEPT !.id = InstanceID(faulty), !.pc = "exists"]
      <4>1. CASE InstanceID(faulty) = "error"
        BY <2>1, <2>4, <4>1, ServersAssumption
      <4>2. CASE InstanceID(faulty) = None
        BY <2>1, <2>4, <4>2, ServersAssumption
      <4>3. CASE InstanceID(faulty) \notin {None, "error"}
        BY <2>1, <2>4, <4>3
      <4> QED  BY <4>1, <4>2, <4>3
    <3>2. CASE update' # IdleUpdate
      <4>1. UpdateShape' /\ update'.pid = update.pid /\ update'.pc # "initialise"
        BY <1>0, <3>1, <3>2 DEF UpdateShape
      <4> QED  BY <1>k, <2>2, <4>1
    <3> QED  BY <1>i, <2>2, <3>2
  <2> QED  BY <2>3, <2>4
<1>3. CASE Vouch
  <2>1. UNCHANGED <<cloud, node, monitor>>
        /\ update' \in {IdleUpdate, [update EXCEPT !.pc = "zone"]}
    BY <1>3 DEF Vouch, world
  <2>2. CASE update' = [update EXCEPT !.pc = "zone"]
    <3>1. UpdateShape' /\ update'.pid = update.pid /\ update'.pc # "initialise"
      BY <1>0, <2>2 DEF UpdateShape
    <3> QED  BY <1>k, <2>1, <3>1
  <2> QED  BY <1>i, <2>1, <2>2
<1>4. CASE ReadZone
  <2>1. UNCHANGED <<cloud, node, monitor>>
        /\ update' \in {[update EXCEPT !.pc = "zoneByName"],
                        [update EXCEPT !.pc = "initialise", !.zone = update.pid]}
    BY <1>4 DEF ReadZone, world
  <2>2. /\ UpdateShape' /\ update'.pid = update.pid
        /\ update'.pc = "initialise" => update'.zone = update.pid
    BY <1>0, <2>1 DEF UpdateShape
  <2> QED  BY <1>0, <2>1, <2>2, UpdateOnly DEF IsOwn
<1>5. CASE ReadZoneByName
  <2>1. PICK faulty \in BOOLEAN :
          update' = IF ByName(faulty) \notin ServerIDs THEN IdleUpdate
                    ELSE [update EXCEPT !.pc = "initialise", !.zone = ByName(faulty)]
    BY <1>5 DEF ReadZoneByName
  <2>2. UNCHANGED <<cloud, node, monitor>>
    BY <1>5 DEF ReadZoneByName, world
  <2>3. CASE ByName(faulty) \in ServerIDs
    <3>1. UpdateShape' /\ update'.pid = update.pid /\ update'.zone = ByName(faulty)
      BY <1>0, <2>1, <2>3 DEF UpdateShape
    <3>2. IsOwn(update'.pid, update'.zone)
      BY <2>3, <3>1, ByNameIs DEF IsOwn
    <3> QED  BY <1>0, <2>2, <3>1, <3>2, UpdateOnly
  <2> QED  BY <1>i, <2>1, <2>2, <2>3
<1>6. CASE Initialise
  <2>1. /\ update.pc = "initialise" /\ update' = IdleUpdate /\ UNCHANGED <<cloud, monitor>>
        /\ node' = IF node.status # "tainted" THEN node
                   ELSE [node EXCEPT !.status = "ready", !.pid = update.pid,
                                     !.zone = update.zone]
    BY <1>6 DEF Initialise, world
  <2>2. CASE node' = node
    BY <1>i, <2>1, <2>2
  <2>3. CASE node' = [node EXCEPT !.status = "ready", !.pid = update.pid, !.zone = update.zone]
    <3>1. NodeShape' /\ node'.status = "ready" /\ node'.pid = update.pid /\ node'.zone = update.zone
      BY <1>0, <2>3 DEF NodeShape
    <3>2. UpdateShape' /\ update'.pid = None /\ update'.pc = "idle"
      BY <2>1, IdleUpdateHolds
    <3>3. IsOwn(update.pid, update.zone)
      BY <2>1 DEF LookupInv, Lookups
    <3>4. Shapes' /\ Born' = Born /\ Up' = Up
      BY <2>1, <3>1, <3>2 DEF LookupInv, Shapes, CloudShape, MonitorShape, Born, Up
    <3> QED
      BY <1>0, <2>1, <3>1, <3>2, <3>3, <3>4 DEF LookupInv, Lookups, IsOwn
  <2> QED  BY <2>1, <2>2, <2>3
<1>7. CASE CheckExists
  <2>1. UNCHANGED <<cloud, node, monitor>>
        /\ update' \in {IdleUpdate, [update EXCEPT !.pc = "get"]}
    BY <1>7 DEF CheckExists, world
  <2>2. CASE update' = [update EXCEPT !.pc = "get"]
    <3>1. UpdateShape' /\ update'.pid = update.pid /\ update'.pc # "initialise"
      BY <1>0, <2>2 DEF UpdateShape
    <3> QED  BY <1>k, <2>1, <3>1
  <2> QED  BY <1>i, <2>1, <2>2
<1>8. CASE GetServer
  <2>1. UNCHANGED <<cloud, node, monitor>>
        /\ \/ update' = [update EXCEPT !.pc = "byName"]
           \/ \E i, server : update' = [update EXCEPT !.id = i, !.pc = "interfaces",
                                                      !.server = server]
    BY <1>8 DEF GetServer, world
  <2>2. UpdateShape' /\ update'.pid = update.pid /\ update'.pc # "initialise"
    BY <1>0, <2>1 DEF UpdateShape
  <2> QED  BY <1>k, <2>1, <2>2
<1>9. CASE GetServerByName
  <2>1. UNCHANGED <<cloud, node, monitor>>
        /\ \/ update' = IdleUpdate
           \/ \E i, server : update' = [update EXCEPT !.pid = None, !.id = i,
                                          !.pc = "interfaces", !.server = server]
    BY <1>9 DEF GetServerByName, world
  <2>2. CASE update' # IdleUpdate
    <3>1. UpdateShape' /\ update'.pid = None /\ update'.pc # "initialise"
      BY <1>0, <2>1, <2>2 DEF UpdateShape
    <3> QED  BY <2>1, <3>1, UpdateOnly
  <2> QED  BY <1>i, <2>1, <2>2
<1>10. CASE ListInterfaces
  <2>1. UNCHANGED <<cloud, node, monitor>>
        /\ \/ update' = IdleUpdate
           \/ \E list : update' = [update EXCEPT !.pc = "publish", !.interfaces = list]
           \/ update' = [update EXCEPT !.pc = "byName", !.server = NoDocument]
    BY <1>10 DEF ListInterfaces, world
  <2>2. CASE update' # IdleUpdate
    <3>1. UpdateShape' /\ update'.pid = update.pid /\ update'.pc # "initialise"
      BY <1>0, <2>1, <2>2 DEF UpdateShape
    <3> QED  BY <1>k, <2>1, <3>1
  <2> QED  BY <1>i, <2>1, <2>2
<1>11. CASE Publish
  <2>1. /\ update' = IdleUpdate /\ UNCHANGED <<cloud, monitor>>
        /\ node' = node \/ node' = [node EXCEPT !.addrs = Result]
    BY <1>11 DEF Publish, world
  <2>2. NodeShape' /\ node'.status = node.status /\ node'.pid = node.pid /\ node'.zone = node.zone
    BY <1>0, <2>1 DEF NodeShape
  <2>3. UpdateShape' /\ update'.pid = None /\ update'.pc = "idle"
    BY <2>1, IdleUpdateHolds
  <2>4. Shapes' /\ Born' = Born /\ Up' = Up
    BY <2>1, <2>2, <2>3 DEF LookupInv, Shapes, CloudShape, MonitorShape, Born, Up
  <2> QED  BY <2>1, <2>2, <2>3, <2>4 DEF LookupInv, Lookups, IsOwn
<1> QED
  BY <1>1, <1>2, <1>3, <1>4, <1>5, <1>6, <1>7, <1>8, <1>9, <1>10, <1>11 DEF Updating

\* The monitor only ever knows of instances that are born.
LEMMA MonitorOnly ==
  ASSUME LookupInv, UNCHANGED <<cloud, node, update>>, MonitorShape',
         monitor'.before \subseteq Born,
         monitor'.pc = "exists" => monitor'.before \cap Up \subseteq {monitor'.id},
         monitor'.pc = "delete" => monitor'.before \cap Up = {}
  PROVE  LookupInv'
BY DEF LookupInv, Shapes, Lookups, CloudShape, NodeShape, UpdateShape, Born, Up, IsOwn

LEMMA MonitoringKept ==
  ASSUME LookupInv, Monitoring
  PROVE  LookupInv'
<1>0. /\ MonitorShape /\ monitor.before \subseteq Born /\ node.pid \in Born \cup {None}
      /\ monitor.pc = "exists" => monitor.before \cap Up \subseteq {monitor.id}
  BY DEF LookupInv, Shapes, Lookups
<1>i. ASSUME UNCHANGED <<cloud, node, update>>, monitor' = IdleMonitor PROVE LookupInv'
  BY <1>i, IdleMonitorHolds, MonitorOnly
<1>1. CASE BeginMonitor
  <2>1. /\ UNCHANGED <<cloud, node, update>> /\ MonitorShape'
        /\ monitor'.pc = IF node.pid = None THEN "identify" ELSE "exists"
        /\ monitor'.id = node.pid
        /\ monitor'.before = IF node.pid = None THEN Up ELSE {node.pid}
    BY <1>1 DEF BeginMonitor, MonitorShape, world
  <2>2. monitor'.before \subseteq Born
    BY <1>0, <2>1, UpFacts
  <2> QED  BY <2>1, <2>2, MonitorOnly
<1>2. CASE MonitorIdentifies
  <2>1. PICK faulty \in BOOLEAN :
          LET i == InstanceID(faulty)
          IN  monitor' = CASE i = "error" -> IdleMonitor
                           [] i = None -> [monitor EXCEPT !.pc = "delete"]
                           [] OTHER -> [monitor EXCEPT !.pc = "exists", !.id = i]
    BY <1>2 DEF MonitorIdentifies
  <2>2. UNCHANGED <<cloud, node, update>>
    BY <1>2 DEF MonitorIdentifies, world
  <2>3. CASE ByName(faulty) = "error"
    BY <1>i, <2>1, <2>2, <2>3, ServersAssumption DEF InstanceID
  <2>4. CASE ByName(faulty) = None
    <3>1. monitor' = [monitor EXCEPT !.pc = "delete"]
      BY <2>1, <2>4, ServersAssumption DEF InstanceID
    <3>2. MonitorShape' /\ monitor'.pc = "delete" /\ monitor'.before = monitor.before
      BY <1>0, <3>1 DEF MonitorShape
    <3>3. Up = {}
      BY <2>4, ByNameIs
    <3> QED  BY <1>0, <2>2, <3>2, <3>3, MonitorOnly
  <2>5. CASE ByName(faulty) \in ServerIDs
    <3>1. monitor' = [monitor EXCEPT !.pc = "exists", !.id = ByName(faulty)]
      BY <2>1, <2>5, ServersAssumption DEF InstanceID
    <3>2. /\ MonitorShape' /\ monitor'.pc = "exists" /\ monitor'.id = ByName(faulty)
          /\ monitor'.before = monitor.before
      BY <1>0, <3>1 DEF MonitorShape
    <3>3. Up = {ByName(faulty)}
      BY <2>5, ByNameIs
    <3> QED  BY <1>0, <2>2, <3>2, <3>3, MonitorOnly
  <2> QED  BY <2>3, <2>4, <2>5, ByNameIs
<1>3. CASE MonitorChecks
  <2>1. PICK faulty \in BOOLEAN :
          monitor' = IF InstanceExistsByProviderID(monitor.id, faulty) = "no"
                     THEN [monitor EXCEPT !.pc = "delete"] ELSE IdleMonitor
    BY <1>3 DEF MonitorChecks
  <2>2. UNCHANGED <<cloud, node, update>> /\ monitor.pc = "exists"
    BY <1>3 DEF MonitorChecks, world
  <2>3. CASE InstanceExistsByProviderID(monitor.id, faulty) = "no"
    <3>1. monitor.id \notin Up
      BY <2>3 DEF InstanceExistsByProviderID
    <3>2. MonitorShape' /\ monitor'.pc = "delete" /\ monitor'.before = monitor.before
      BY <1>0, <2>1, <2>3 DEF MonitorShape
    <3> QED  BY <1>0, <2>2, <3>1, <3>2, MonitorOnly
  <2> QED  BY <1>i, <2>1, <2>2, <2>3
<1>4. CASE DeleteNode
  <2>1. node' = NoNode /\ monitor' = IdleMonitor /\ UNCHANGED <<cloud, update>>
    BY <1>4 DEF DeleteNode, world
  <2>2. NodeShape' /\ node'.status = "absent" /\ node'.pid = None
    BY <2>1 DEF NodeShape, NoNode
  <2>3. MonitorShape' /\ monitor'.pc = "idle" /\ monitor'.before = {}
    BY <2>1, IdleMonitorHolds
  <2>4. Shapes' /\ Born' = Born /\ Up' = Up
    BY <2>1, <2>2, <2>3 DEF LookupInv, Shapes, CloudShape, UpdateShape, Born, Up
  <2> QED  BY <2>1, <2>2, <2>3, <2>4 DEF LookupInv, Lookups, IsOwn
<1> QED  BY <1>1, <1>2, <1>3, <1>4 DEF Monitoring

LEMMA LookupKept == LookupInv /\ [Next]_vars => LookupInv'
<1> SUFFICES ASSUME LookupInv, [Next]_vars PROVE LookupInv'
  OBVIOUS
<1>1. CASE CloudChange
  <2>1. CloudShape' /\ Born \subseteq Born' /\ Born \cap Up' \subseteq Up
    BY <1>1, CloudSteps DEF LookupInv, Shapes
  <2>2. UNCHANGED <<node, update, monitor>>
    BY <1>1 DEF CloudChange
  <2>3. Shapes'
    BY <2>1, <2>2 DEF LookupInv, Shapes, NodeShape, UpdateShape, MonitorShape
  <2>4. None \notin Up'
    BY ServersAssumption DEF Up
  <2> QED  BY <2>1, <2>2, <2>3, <2>4 DEF LookupInv, Lookups, IsOwn
<1>2. CASE Register
  <2>1. node' = [NoNode EXCEPT !.status = "tainted"] /\ UNCHANGED <<cloud, update, monitor>>
    BY <1>2 DEF Register, world
  <2>2. NodeShape' /\ node'.status = "tainted" /\ node'.pid = None
    BY <2>1 DEF NodeShape, NoNode
  <2>3. Shapes' /\ Born' = Born /\ Up' = Up
    BY <2>1, <2>2 DEF LookupInv, Shapes, CloudShape, UpdateShape, MonitorShape, Born, Up
  <2> QED  BY <2>1, <2>2, <2>3 DEF LookupInv, Lookups, IsOwn
<1>3. CASE Restart
  <2>1. update' = IdleUpdate /\ monitor' = IdleMonitor /\ UNCHANGED <<cloud, node>>
    BY <1>3 DEF Restart, world
  <2>2. /\ UpdateShape' /\ update'.pid = None /\ update'.pc = "idle"
        /\ MonitorShape' /\ monitor'.pc = "idle" /\ monitor'.before = {}
    BY <2>1, IdleUpdateHolds, IdleMonitorHolds
  <2>3. Shapes' /\ Born' = Born /\ Up' = Up
    BY <2>1, <2>2 DEF LookupInv, Shapes, CloudShape, NodeShape, Born, Up
  <2> QED  BY <2>1, <2>2, <2>3 DEF LookupInv, Lookups, IsOwn
<1>4. CASE UNCHANGED vars
  <2>1. UNCHANGED <<cloud, node, update, monitor>>
    BY <1>4 DEF vars, world
  <2>2. Shapes' /\ Born' = Born /\ Up' = Up
    BY <2>1 DEF LookupInv, Shapes, CloudShape, NodeShape, UpdateShape, MonitorShape, Born, Up
  <2> QED  BY <2>1, <2>2 DEF LookupInv, Lookups, IsOwn
<1> QED  BY <1>1, <1>2, <1>3, <1>4, UpdatingKept, MonitoringKept DEF Next

LEMMA LookupInit == Init => LookupInv
<1> SUFFICES ASSUME Init PROVE LookupInv
  OBVIOUS
<1>1. PICK first, ports :
        cloud = [i \in ServerIDs |->
                   IF i = first THEN [Unborn EXCEPT !.state = "up", !.ports = ports] ELSE Unborn]
  BY DEF Init
<1>2. CloudShape
  <2>1. /\ "state" \in DOMAIN Unborn
        /\ "state" \in DOMAIN [Unborn EXCEPT !.state = "up", !.ports = ports]
    BY DEF Unborn
  <2> QED  BY <1>1, <2>1 DEF CloudShape
<1>3. NodeShape /\ node.status = "absent" /\ node.pid = None
  BY DEF Init, NoNode, NodeShape
<1>4. UpdateShape /\ update.pc = "idle" /\ update.pid = None
  BY DEF Init, IdleUpdate, UpdateShape
<1>5. MonitorShape /\ monitor.pc = "idle" /\ monitor.before = {}
  BY DEF Init, IdleMonitor, MonitorShape
<1> QED  BY <1>2, <1>3, <1>4, <1>5 DEF LookupInv, Shapes, Lookups

\* The zone of a node is that of its instance, whatever instances bore the name while
\* the node was initialised.
THEOREM ZoneIsOwnEver == Spec => []ZoneIsOwn
<1>1. LookupInv => ZoneIsOwn
  BY DEF LookupInv, Lookups, IsOwn, ZoneIsOwn
<1> QED  BY <1>1, LookupInit, LookupKept, PTL DEF Spec

\* A node is deleted only when every instance that it could have stood for is gone.
THEOREM LiveNodeStaysEver == Spec => LiveNodeStays
<1>1. LookupInv /\ [Next]_vars =>
        [node.status # "absent" /\ node'.status = "absent" => monitor.before \cap Up = {}]_vars
  <2> SUFFICES ASSUME LookupInv, [Next]_vars, node.status # "absent", node'.status = "absent"
               PROVE  monitor.before \cap Up = {}
    OBVIOUS
  <2>0. NodeShape
    BY DEF LookupInv, Shapes
  <2>1. ~Register
    <3>1. [NoNode EXCEPT !.status = "tainted"].status = "tainted"
      BY DEF NoNode
    <3> QED  BY <3>1 DEF Register
  <2>2. ~Initialise /\ ~Publish
    BY <2>0 DEF Initialise, Publish, NodeShape
  <2>3. DeleteNode
    BY <2>1, <2>2 DEF Next, CloudChange, Restart, Updating, BeginUpdate, Identify, Vouch, ReadZone,
      ReadZoneByName, CheckExists, GetServer, GetServerByName, ListInterfaces, Monitoring,
      BeginMonitor, MonitorIdentifies, MonitorChecks, vars, world
  <2> QED  BY <2>3 DEF DeleteNode, LookupInv, Lookups
<1> QED  BY <1>1, LookupInit, LookupKept, PTL DEF Spec, LiveNodeStays

-----------------------------------------------------------------------------
(***************************************************************************)
(* The list of addresses, for whatever documents.  A is a set of addresses,*)
(* and E one of list elements.                                             *)
(***************************************************************************)
Elements(A) == [type : Types, addr : A]
InterfacesOver(A, S) == [addr : A, subnet : S, active : BOOLEAN]
EntriesOver(A, N) == [net : N, floating : BOOLEAN, addr : A]

\* What the list says of an address.
TypesIn(addrs, a) == {t \in Types : Contains(addrs, NodeAddress(t, a))}

\* The private addresses of the active interfaces come before all other private addresses,
\* in the order of the interfaces.
InOrder(addrs, interfaces) ==
  \A i, j \in 1..Len(addrs), k \in 1..Len(interfaces) :
    /\ j < i /\ interfaces[k].active
    /\ addrs[i] = NodeAddress("InternalIP", interfaces[k].addr)
    /\ addrs[j].type = "InternalIP"
    => \E m \in 1..(k - 1) :
         /\ interfaces[m].active
         /\ addrs[j] = NodeAddress("InternalIP", interfaces[m].addr)

LEMMA NodeAddressIs ==
  ASSUME NEW A, NEW a \in A, NEW t \in Types
  PROVE  /\ NodeAddress(t, a) \in Elements(A)
         /\ NodeAddress(t, a).type = t /\ NodeAddress(t, a).addr = a
BY DEF NodeAddress, Elements

LEMMA ElementIs ==
  ASSUME NEW A, NEW x \in Elements(A)
  PROVE  x.type \in Types /\ x.addr \in A /\ x = NodeAddress(x.type, x.addr)
BY DEF NodeAddress, Elements

LEMMA SameElement ==
  ASSUME NEW t, NEW a, NEW u, NEW b
  PROVE  NodeAddress(t, a) = NodeAddress(u, b) <=> t = u /\ a = b
<1>1. NodeAddress(t, a).type = t /\ NodeAddress(t, a).addr = a
  BY DEF NodeAddress
<1>2. NodeAddress(u, b).type = u /\ NodeAddress(u, b).addr = b
  BY DEF NodeAddress
<1> QED  BY <1>1, <1>2

\* Sequences as sets.
LEMMA SequenceFacts ==
  ASSUME NEW E, NEW s \in Seq(E)
  PROVE  /\ DOMAIN s = 1..Len(s) /\ Len(s) \in Nat
         /\ ToSet(s) \subseteq E
         /\ \A x : x \in ToSet(s) <=> \E i \in 1..Len(s) : s[i] = x
         /\ \A x : x \in ToSet(s) <=> Contains(s, x)
         /\ IsInjective(s) <=> \A i, j \in 1..Len(s) : s[i] = s[j] => i = j
BY DEF ToSet, Contains, IsInjective

LEMMA AppendIs ==
  ASSUME NEW E, NEW s \in Seq(E), NEW x \in E
  PROVE  /\ Append(s, x) \in Seq(E)
         /\ ToSet(Append(s, x)) = ToSet(s) \cup {x}
         /\ IsInjective(s) /\ x \notin ToSet(s) => IsInjective(Append(s, x))
         /\ Len(Append(s, x)) = Len(s) + 1
         /\ \A i \in 1..Len(s) : Append(s, x)[i] = s[i]
         /\ Append(s, x)[Len(s) + 1] = x
<1> DEFINE t == Append(s, x)
<1>1. /\ t \in Seq(E) /\ Len(t) = Len(s) + 1 /\ Len(s) \in Nat
      /\ \A i \in 1..Len(s) : t[i] = s[i]
      /\ t[Len(s) + 1] = x
  OBVIOUS
<1> HIDE DEF t
<1>2. \A i \in 1..Len(t) : i \in 1..Len(s) \/ i = Len(s) + 1
  BY <1>1
<1>3. \A y : y \in ToSet(t) <=> y \in ToSet(s) \cup {x}
  <2>1. \A y : y \in ToSet(t) <=> \E i \in 1..Len(t) : t[i] = y
    BY <1>1, SequenceFacts
  <2>2. \A y : y \in ToSet(s) <=> \E i \in 1..Len(s) : s[i] = y
    BY SequenceFacts
  <2>3. Len(s) + 1 \in 1..Len(t) /\ \A i \in 1..Len(s) : i \in 1..Len(t)
    BY <1>1
  <2> QED  BY <1>1, <1>2, <2>1, <2>2, <2>3
<1>4. ASSUME IsInjective(s), x \notin ToSet(s) PROVE IsInjective(t)
  <2>1. \A i, j \in 1..Len(s) : s[i] = s[j] => i = j
    BY <1>4, SequenceFacts
  <2>2. \A i \in 1..Len(s) : s[i] # x
    BY <1>4, SequenceFacts
  <2>3. \A i, j \in 1..Len(t) : t[i] = t[j] => i = j
    BY <1>1, <1>2, <2>1, <2>2
  <2> QED  BY <1>1, <2>3, SequenceFacts
<1> QED  BY <1>1, <1>3, <1>4 DEF t

\* What Drop leaves: the elements of other addresses, in their order.
\* The rounds of Drop: what has been kept so far.
DropRun(run, E, addrs, a) ==
  /\ run \in [0..Len(addrs) -> Seq(E)]
  /\ run[0] = <<>>
  /\ \A k \in 1..Len(addrs) :
       run[k] = IF addrs[k].addr = a THEN run[k - 1] ELSE Append(run[k - 1], addrs[k])
  /\ Drop(addrs, a) = run[Len(addrs)]

LEMMA DropRounds ==
  ASSUME NEW E, NEW addrs \in Seq(E), NEW a
  PROVE  \E run : DropRun(run, E, addrs, a)
<1> DEFINE n == Len(addrs)
           V == Seq(E)
           base == <<>>
           Step(v, x) == IF x.addr = a THEN v ELSE Append(v, x)
           step == [k \in 1..n |-> [v \in V |-> Step(v, addrs[k])]]
           Round(it, s) == IF s = {} THEN base ELSE Step(it[s \ {Max(s)}], addrs[Max(s)])
           iter == CHOOSE it : it = [s \in SUBSET (1..n) |-> Round(it, s)]
<1>1. n \in Nat /\ DOMAIN addrs = 1..n /\ \A k \in 1..n : addrs[k] \in E
  OBVIOUS
<1>2. \A k \in 1..n : \A v \in V : Step(v, addrs[k]) \in V
  BY <1>1
<1>3. step \in [1..n -> [V -> V]]
  BY <1>2, Zenon
<1>4. Drop(addrs, a) = iter[1..n]
  BY <1>1 DEF Drop, FoldLeft, MapThenFoldSet
<1>5. \A k \in 1..n : \A v \in V : step[k][v] = Step(v, addrs[k])
  OBVIOUS
<1>6. base \in V
  OBVIOUS
<1> HIDE DEF n, V, base, Step, step
<1>7. PICK it : it \in FoldFunctions(V, base, step, n)
  BY <1>1, <1>3, <1>6, FoldExists
<1>8. ASSUME NEW s \in SUBSET (1..n) PROVE it[s] = Round(it, s)
  <2>1. it[s] = IF s = {} THEN base ELSE step[Max(s)][it[s \ {Max(s)}]]
    BY <1>7 DEF FoldFunctions
  <2>2. it[s \ {Max(s)}] \in V
    BY <1>7 DEF FoldFunctions
  <2>3. s # {} => Max(s) \in 1..n
    BY <1>1, MaxOfFinite
  <2> QED  BY <1>5, <2>1, <2>2, <2>3
<1>9. it = [s \in SUBSET (1..n) |-> Round(it, s)]
  <2> HIDE DEF Round
  <2>1. it \in [SUBSET (1..n) -> V]
    BY <1>7 DEF FoldFunctions
  <2> QED  BY <1>8, <2>1
<1>10. \A s \in SUBSET (1..n) : iter[s] = Round(iter, s)
  <2> HIDE DEF Round
  <2>1. iter = [s \in SUBSET (1..n) |-> Round(iter, s)]
    BY <1>9
  <2> HIDE DEF iter
  <2> QED  BY <2>1
<1> HIDE DEF iter
<1> HIDE DEF iter
<1> DEFINE run == [k \in 0..n |-> iter[1..k]]
<1>11. run[0] = base /\ run[n] = iter[1..n] /\ run = [k \in 0..n |-> run[k]]
  <2>1. 1..0 = {} /\ 1..0 \in SUBSET (1..n) /\ run[0] = iter[1..0]
    BY <1>1
  <2>2. iter[1..0] = base
    BY <1>10, <2>1
  <2> QED  BY <1>1, <2>1, <2>2
<1>12. ASSUME NEW k \in 1..n PROVE run[k] = Step(run[k - 1], addrs[k])
  <2>1. run[k] = iter[1..k] /\ run[k - 1] = iter[1..(k - 1)]
    BY <1>1
  <2> HIDE DEF run
  <2>2. iter[1..k] = Round(iter, 1..k)
    <3> HIDE DEF Round
    <3> QED  BY <1>1, <1>10, InitialIntervals
  <2>3. Round(iter, 1..k) = Step(iter[1..(k - 1)], addrs[k])
    BY <1>1, InitialIntervals
  <2> QED  BY <2>1, <2>2, <2>3
<1> HIDE DEF run
<1>13. \A k \in 0..n : run[k] \in V
  <2>1. \A k \in 1..n : run[k - 1] \in V => run[k] \in V
    BY <1>2, <1>12
  <2> QED  BY <1>1, <1>6, <1>11, <2>1, RoundsIn
<1>14. run \in [0..n -> V]
  BY <1>11, <1>13
<1> QED  BY <1>4, <1>11, <1>12, <1>14 DEF n, V, base, Step, DropRun

LEMMA DropIs ==
  ASSUME NEW E, NEW addrs \in Seq(E), NEW a
  PROVE  /\ Drop(addrs, a) \in Seq(E)
         /\ ToSet(Drop(addrs, a)) = {x \in ToSet(addrs) : x.addr # a}
         /\ \A i, j \in 1..Len(Drop(addrs, a)) : j < i =>
              \E p, q \in 1..Len(addrs) :
                q < p /\ addrs[p] = Drop(addrs, a)[i] /\ addrs[q] = Drop(addrs, a)[j]
<1>1. Len(addrs) \in Nat /\ \A k \in 1..Len(addrs) : addrs[k] \in E
  OBVIOUS
<1>r. PICK run : DropRun(run, E, addrs, a)
  BY DropRounds
<1>2. /\ run \in [0..Len(addrs) -> Seq(E)]
      /\ run[0] = <<>>
      /\ \A k \in 1..Len(addrs) :
           run[k] = IF addrs[k].addr = a THEN run[k - 1] ELSE Append(run[k - 1], addrs[k])
      /\ Drop(addrs, a) = run[Len(addrs)]
  BY <1>r DEF DropRun
<1> DEFINE Kept(k) ==
             \A x : x \in ToSet(run[k]) <=> \E m \in 1..k : addrs[m] = x /\ x.addr # a
           Order(k) ==
             \A i, j \in 1..Len(run[k]) : j < i =>
               \E p, q \in 1..k : q < p /\ addrs[p] = run[k][i] /\ addrs[q] = run[k][j]
           T == {k \in 0..Len(addrs) : Kept(k) /\ Order(k)}
<1>3. 0 \in T
  <2>1. ToSet(<<>>) = {} /\ Len(<<>>) = 0
    BY DEF ToSet
  <2>2. Kept(0) /\ Order(0)
    BY <1>2, <2>1
  <2> HIDE DEF Kept, Order
  <2> QED  BY <1>1, <2>2
<1>4. ASSUME NEW k \in 1..Len(addrs), k - 1 \in T PROVE k \in T
  <2>1. Kept(k - 1) /\ Order(k - 1) /\ k - 1 \in 0..Len(addrs) /\ k \in 0..Len(addrs)
    <3> HIDE DEF Kept, Order
    <3> QED  BY <1>1, <1>4
  <2>2. run[k - 1] \in Seq(E) /\ run[k] \in Seq(E)
    BY <1>2, <2>1
  <2>3. CASE addrs[k].addr = a
    <3>1. run[k] = run[k - 1]
      BY <1>2, <2>3
    <3>2. \A m \in 1..k : m \in 1..(k - 1) \/ m = k
      BY <1>1
    <3>3. \A m \in 1..(k - 1) : m \in 1..k
      BY <1>1
    <3>4. Kept(k)
      BY <2>1, <2>3, <3>1, <3>2, <3>3
    <3>5. Order(k)
      BY <2>1, <3>1, <3>3
    <3> HIDE DEF Kept, Order
    <3> QED  BY <2>1, <3>4, <3>5
  <2>4. CASE addrs[k].addr # a
    <3> DEFINE r == run[k - 1]
    <3>1. run[k] = Append(r, addrs[k])
      BY <1>2, <2>4
    <3> HIDE DEF r
    <3>2. /\ ToSet(run[k]) = ToSet(r) \cup {addrs[k]}
          /\ Len(run[k]) = Len(r) + 1 /\ Len(r) \in Nat
          /\ \A i \in 1..Len(r) : run[k][i] = r[i]
          /\ run[k][Len(r) + 1] = addrs[k]
      <4>1. r \in Seq(E) /\ addrs[k] \in E
        BY <1>1, <2>2 DEF r
      <4> QED  BY <3>1, <4>1, AppendIs, SequenceFacts
    <3>3. \A x : x \in ToSet(r) <=> \E m \in 1..(k - 1) : addrs[m] = x /\ x.addr # a
      BY <2>1 DEF r
    <3>4. \A i, j \in 1..Len(r) : j < i =>
            \E p, q \in 1..(k - 1) : q < p /\ addrs[p] = r[i] /\ addrs[q] = r[j]
      BY <2>1 DEF r
    <3>5. \A m \in 1..k : m \in 1..(k - 1) \/ m = k
      BY <1>1
    <3>6. k \in 1..k /\ \A m \in 1..(k - 1) : m \in 1..k /\ m < k
      BY <1>1
    <3>7. Kept(k)
      BY <2>4, <3>2, <3>3, <3>5, <3>6
    <3>8. Order(k)
      <4> SUFFICES ASSUME NEW i \in 1..Len(run[k]), NEW j \in 1..Len(run[k]), j < i
                   PROVE  \E p, q \in 1..k :
                            q < p /\ addrs[p] = run[k][i] /\ addrs[q] = run[k][j]
        OBVIOUS
      <4>1. j \in 1..Len(r) /\ run[k][j] = r[j]
        BY <3>2
      <4>2. CASE i \in 1..Len(r)
        BY <3>2, <3>4, <3>6, <4>1, <4>2
      <4>3. CASE i = Len(r) + 1
        <5>1. r[j] \in ToSet(r)
          BY <2>2, <4>1, SequenceFacts DEF r
        <5>2. PICK q \in 1..(k - 1) : addrs[q] = r[j]
          BY <3>3, <5>1
        <5> QED  BY <3>2, <3>6, <4>1, <4>3, <5>2
      <4>4. i \in 1..Len(r) \/ i = Len(r) + 1
        <5>1. Len(r) \in Nat /\ i \in 1..(Len(r) + 1)
          BY <3>2
        <5> QED  BY <5>1
      <4> QED  BY <4>2, <4>3, <4>4
    <3> HIDE DEF Kept, Order
    <3> QED  BY <2>1, <3>7, <3>8
  <2> QED  BY <2>3, <2>4
<1>5. Len(addrs) \in T
  <2> HIDE DEF T
  <2>1. 0..Len(addrs) \subseteq T
    BY <1>1, <1>3, <1>4, BoundedInduction
  <2> QED  BY <1>1, <2>1
<1>6. Kept(Len(addrs)) /\ Order(Len(addrs))
  BY <1>5
<1>7. run[Len(addrs)] \in Seq(E)
  BY <1>1, <1>2
<1>8. ToSet(run[Len(addrs)]) = {x \in ToSet(addrs) : x.addr # a}
  <2>1. \A x : x \in ToSet(addrs) <=> \E m \in 1..Len(addrs) : addrs[m] = x
    BY SequenceFacts
  <2> QED  BY <1>6, <2>1
<1> QED  BY <1>2, <1>6, <1>7, <1>8

LEMMA DropKeeps ==
  ASSUME NEW A, NEW addrs \in Seq(Elements(A)), NEW a
  PROVE  /\ IsInjective(addrs) => IsInjective(Drop(addrs, a))
         /\ TypesIn(Drop(addrs, a), a) = {}
         /\ \A b : b # a => TypesIn(Drop(addrs, a), b) = TypesIn(addrs, b)
         /\ \A interfaces : InOrder(addrs, interfaces) => InOrder(Drop(addrs, a), interfaces)
<1> DEFINE d == Drop(addrs, a)
<1>1. /\ d \in Seq(Elements(A))
      /\ ToSet(d) = {x \in ToSet(addrs) : x.addr # a}
      /\ \A i, j \in 1..Len(d) : j < i =>
           \E p, q \in 1..Len(addrs) : q < p /\ addrs[p] = d[i] /\ addrs[q] = d[j]
  BY DropIs
<1> HIDE DEF d
<1>0. Len(d) \in Nat /\ Len(addrs) \in Nat
  BY <1>1, SequenceFacts
<1>2. ASSUME IsInjective(addrs) PROVE IsInjective(d)
  <2>1. \A i, j \in 1..Len(addrs) : addrs[i] = addrs[j] => i = j
    BY <1>2, SequenceFacts
  <2>2. \A i, j \in 1..Len(d) : j < i => d[i] # d[j]
    BY <1>1, <2>1
  <2>3. \A i, j \in 1..Len(d) : d[i] = d[j] => i = j
    BY <1>0, <2>2
  <2> QED  BY <1>1, <2>3, SequenceFacts
<1>3. \A x : Contains(d, x) <=> Contains(addrs, x) /\ x.addr # a
  <2>1. \A x : x \in ToSet(d) <=> Contains(d, x)
    BY <1>1, SequenceFacts
  <2>2. \A x : x \in ToSet(addrs) <=> Contains(addrs, x)
    BY SequenceFacts
  <2> QED  BY <1>1, <2>1, <2>2
<1>4. \A t, b : NodeAddress(t, b).addr = b
  BY DEF NodeAddress
<1>5. TypesIn(d, a) = {} /\ \A b : b # a => TypesIn(d, b) = TypesIn(addrs, b)
  BY <1>3, <1>4 DEF TypesIn
<1>6. ASSUME NEW interfaces, InOrder(addrs, interfaces) PROVE InOrder(d, interfaces)
  <2> SUFFICES ASSUME NEW i \in 1..Len(d), NEW j \in 1..Len(d), NEW k \in 1..Len(interfaces),
                      j < i, interfaces[k].active,
                      d[i] = NodeAddress("InternalIP", interfaces[k].addr),
                      d[j].type = "InternalIP"
               PROVE  \E m \in 1..(k - 1) :
                        /\ interfaces[m].active
                        /\ d[j] = NodeAddress("InternalIP", interfaces[m].addr)
    BY DEF InOrder
  <2>1. PICK p, q \in 1..Len(addrs) : q < p /\ addrs[p] = d[i] /\ addrs[q] = d[j]
    BY <1>1
  <2> QED  BY <1>6, <2>1 DEF InOrder
<1> QED  BY <1>2, <1>5, <1>6 DEF d

\* What Add leaves: one element more, unless the list has it.
LEMMA AddIs ==
  ASSUME NEW A, NEW addrs \in Seq(Elements(A)), NEW new \in Elements(A)
  PROVE  /\ Add(addrs, new) \in Seq(Elements(A))
         /\ ToSet(Add(addrs, new)) = ToSet(addrs) \cup {new}
         /\ IsInjective(addrs) => IsInjective(Add(addrs, new))
<1>1. CASE Contains(addrs, new)
  <2>1. Add(addrs, new) = addrs
    BY <1>1 DEF Add
  <2>2. new \in ToSet(addrs)
    BY <1>1, SequenceFacts
  <2> QED  BY <2>1, <2>2
<1>2. CASE ~Contains(addrs, new)
  <2>1. Add(addrs, new) = Append(addrs, new)
    BY <1>2 DEF Add
  <2>2. new \notin ToSet(addrs)
    BY <1>2, SequenceFacts
  <2> QED  BY <2>1, <2>2, AppendIs
<1> QED  BY <1>1, <1>2

LEMMA AddTypes ==
  ASSUME NEW A, NEW addrs \in Seq(Elements(A)), NEW t \in Types, NEW a \in A
  PROVE  /\ TypesIn(Add(addrs, NodeAddress(t, a)), a) = TypesIn(addrs, a) \cup {t}
         /\ \A b : b # a => TypesIn(Add(addrs, NodeAddress(t, a)), b) = TypesIn(addrs, b)
<1> DEFINE new == NodeAddress(t, a)
<1>0. new \in Elements(A)
  BY NodeAddressIs
<1>1. \A x : Contains(Add(addrs, new), x) <=> Contains(addrs, x) \/ x = new
  <2>1. Add(addrs, new) \in Seq(Elements(A)) /\ ToSet(Add(addrs, new)) = ToSet(addrs) \cup {new}
    BY <1>0, AddIs
  <2> HIDE DEF new
  <2>2. \A x : x \in ToSet(Add(addrs, new)) <=> Contains(Add(addrs, new), x)
    BY <2>1, SequenceFacts
  <2>3. \A x : x \in ToSet(addrs) <=> Contains(addrs, x)
    BY SequenceFacts
  <2> QED  BY <2>1, <2>2, <2>3
<1>2. \A u, b : NodeAddress(u, b) = new <=> u = t /\ b = a
  BY SameElement
<1> HIDE DEF new
<1>3. \A u \in Types : \A b :
        u \in TypesIn(Add(addrs, new), b) <=> u \in TypesIn(addrs, b) \/ (u = t /\ b = a)
  BY <1>1, <1>2 DEF TypesIn
<1>4. \A b : TypesIn(Add(addrs, new), b) \subseteq Types /\ TypesIn(addrs, b) \subseteq Types
  BY DEF TypesIn
<1>5. TypesIn(Add(addrs, new), a) = TypesIn(addrs, a) \cup {t}
  BY <1>3, <1>4
<1>6. ASSUME NEW b, b # a PROVE TypesIn(Add(addrs, new), b) = TypesIn(addrs, b)
  <2>1. \A u \in Types : u \in TypesIn(Add(addrs, new), b) <=> u \in TypesIn(addrs, b)
    BY <1>3, <1>6
  <2> QED  BY <1>4, <2>1
<1> QED  BY <1>5, <1>6 DEF new

\* An element that is not a private address of an active interface can be added at any time.
LEMMA AddInOrder ==
  ASSUME NEW A, NEW addrs \in Seq(Elements(A)), NEW new \in Elements(A), NEW interfaces,
         InOrder(addrs, interfaces),
         \/ new \in ToSet(addrs)
         \/ \A k \in 1..Len(interfaces) :
              interfaces[k].active => new # NodeAddress("InternalIP", interfaces[k].addr)
  PROVE  InOrder(Add(addrs, new), interfaces)
<1>1. CASE Contains(addrs, new)
  BY <1>1 DEF Add
<1>2. CASE ~Contains(addrs, new)
  <2> DEFINE s == Append(addrs, new)
  <2>1. /\ Len(s) = Len(addrs) + 1 /\ Len(addrs) \in Nat
        /\ \A i \in 1..Len(addrs) : s[i] = addrs[i]
        /\ s[Len(addrs) + 1] = new
    BY AppendIs, SequenceFacts
  <2>2. Add(addrs, new) = s /\ new \notin ToSet(addrs)
    BY <1>2, SequenceFacts DEF Add
  <2> HIDE DEF s
  <2> SUFFICES ASSUME NEW i \in 1..Len(s), NEW j \in 1..Len(s), NEW k \in 1..Len(interfaces),
                      j < i, interfaces[k].active,
                      s[i] = NodeAddress("InternalIP", interfaces[k].addr),
                      s[j].type = "InternalIP"
               PROVE  \E m \in 1..(k - 1) :
                        /\ interfaces[m].active
                        /\ s[j] = NodeAddress("InternalIP", interfaces[m].addr)
    BY <2>2 DEF InOrder
  <2>3. i # Len(addrs) + 1
    BY <2>1, <2>2
  <2>4. i \in 1..Len(addrs) /\ j \in 1..Len(addrs)
    BY <2>1, <2>3
  <2> QED  BY <2>1, <2>4 DEF InOrder
<1> QED  BY <1>1, <1>2

LEMMA AddSupportedIn ==
  ASSUME NEW A, NEW addrs \in Seq(Elements(A)), NEW t \in Types, NEW a \in A, NEW given
  PROVE  /\ AddSupported(addrs, t, a, given) \in Seq(Elements(A))
         /\ IsInjective(addrs) => IsInjective(AddSupported(addrs, t, a, given))
         /\ TypesIn(AddSupported(addrs, t, a, given), a) =
              TypesIn(addrs, a) \cup (IF Supported(a, given) THEN {t} ELSE {})
         /\ \A b : b # a => TypesIn(AddSupported(addrs, t, a, given), b) = TypesIn(addrs, b)
<1>1. CASE Supported(a, given)
  BY <1>1, NodeAddressIs, AddIs, AddTypes DEF AddSupported
<1>2. CASE ~Supported(a, given)
  BY <1>2 DEF AddSupported
<1> QED  BY <1>1, <1>2

LEMMA AddInterfaceIn ==
  ASSUME NEW A, NEW S, NEW i \in InterfacesOver(A, S), NEW given,
         NEW addrs \in Seq(Elements(A))
  PROVE  AddInterface(addrs, i, given) \in Seq(Elements(A))
<1>1. i.addr \in A /\ "InternalIP" \in Types
  BY DEF InterfacesOver, Types
<1> QED  BY <1>1, AddSupportedIn DEF AddInterface

\* The rounds of the loop over the interfaces.
InterfacesRun(run, A, interfaces, given) ==
  /\ run \in [0..Len(interfaces) -> Seq(Elements(A))]
  /\ run[0] = <<>>
  /\ \A k \in 1..Len(interfaces) :
       run[k] = AddInterface(run[k - 1], interfaces[k], given)
  /\ AfterInterfaces(interfaces, given) = run[Len(interfaces)]

LEMMA InterfaceRounds ==
  ASSUME NEW A, NEW S, NEW interfaces \in Seq(InterfacesOver(A, S)), NEW given
  PROVE  \E run : InterfacesRun(run, A, interfaces, given)
<1> DEFINE n == Len(interfaces)
           V == Seq(Elements(A))
           base == <<>>
           Step(v, x) == AddInterface(v, x, given)
           step == [k \in 1..n |-> [v \in V |-> Step(v, interfaces[k])]]
           Round(it, s) == IF s = {} THEN base ELSE Step(it[s \ {Max(s)}], interfaces[Max(s)])
           iter == CHOOSE it : it = [s \in SUBSET (1..n) |-> Round(it, s)]
<1>1. n \in Nat /\ DOMAIN interfaces = 1..n
      /\ \A k \in 1..n : interfaces[k] \in InterfacesOver(A, S)
  OBVIOUS
<1>2. \A k \in 1..n : \A v \in V : Step(v, interfaces[k]) \in V
  BY <1>1, AddInterfaceIn
<1>3. step \in [1..n -> [V -> V]]
  BY <1>2, Zenon
<1>4. AfterInterfaces(interfaces, given) = iter[1..n]
  BY <1>1 DEF AfterInterfaces, FoldLeft, MapThenFoldSet
<1>5. \A k \in 1..n : \A v \in V : step[k][v] = Step(v, interfaces[k])
  OBVIOUS
<1>6. base \in V
  OBVIOUS
<1> HIDE DEF n, V, base, Step, step
<1>7. PICK it : it \in FoldFunctions(V, base, step, n)
  BY <1>1, <1>3, <1>6, FoldExists
<1>8. ASSUME NEW s \in SUBSET (1..n) PROVE it[s] = Round(it, s)
  <2>1. it[s] = IF s = {} THEN base ELSE step[Max(s)][it[s \ {Max(s)}]]
    BY <1>7 DEF FoldFunctions
  <2>2. it[s \ {Max(s)}] \in V
    BY <1>7 DEF FoldFunctions
  <2>3. s # {} => Max(s) \in 1..n
    BY <1>1, MaxOfFinite
  <2> QED  BY <1>5, <2>1, <2>2, <2>3
<1>9. it = [s \in SUBSET (1..n) |-> Round(it, s)]
  <2> HIDE DEF Round
  <2>1. it \in [SUBSET (1..n) -> V]
    BY <1>7 DEF FoldFunctions
  <2> QED  BY <1>8, <2>1
<1>10. \A s \in SUBSET (1..n) : iter[s] = Round(iter, s)
  <2> HIDE DEF Round
  <2>1. iter = [s \in SUBSET (1..n) |-> Round(iter, s)]
    BY <1>9
  <2> HIDE DEF iter
  <2> QED  BY <2>1
<1> HIDE DEF iter
<1> HIDE DEF iter
<1> DEFINE run == [k \in 0..n |-> iter[1..k]]
<1>11. run[0] = base /\ run[n] = iter[1..n] /\ run = [k \in 0..n |-> run[k]]
  <2>1. 1..0 = {} /\ 1..0 \in SUBSET (1..n) /\ run[0] = iter[1..0]
    BY <1>1
  <2>2. iter[1..0] = base
    BY <1>10, <2>1
  <2> QED  BY <1>1, <2>1, <2>2
<1>12. ASSUME NEW k \in 1..n PROVE run[k] = Step(run[k - 1], interfaces[k])
  <2>1. run[k] = iter[1..k] /\ run[k - 1] = iter[1..(k - 1)]
    BY <1>1
  <2> HIDE DEF run
  <2>2. iter[1..k] = Round(iter, 1..k)
    <3> HIDE DEF Round
    <3> QED  BY <1>1, <1>10, InitialIntervals
  <2>3. Round(iter, 1..k) = Step(iter[1..(k - 1)], interfaces[k])
    BY <1>1, InitialIntervals
  <2> QED  BY <2>1, <2>2, <2>3
<1> HIDE DEF run
<1>13. \A k \in 0..n : run[k] \in V
  <2>1. \A k \in 1..n : run[k - 1] \in V => run[k] \in V
    BY <1>2, <1>12
  <2> QED  BY <1>1, <1>6, <1>11, <2>1, RoundsIn
<1>14. run \in [0..n -> V]
  BY <1>11, <1>13
<1> QED  BY <1>4, <1>11, <1>12, <1>14 DEF n, V, base, Step, InterfacesRun

\* What the interfaces give: their private addresses, each once, in their order.
LEMMA AfterInterfacesIs ==
  ASSUME NEW A, NEW S, NEW interfaces \in Seq(InterfacesOver(A, S)), NEW given
  PROVE  LET addrs == AfterInterfaces(interfaces, given)
         IN  /\ addrs \in Seq(Elements(A))
             /\ IsInjective(addrs)
             /\ InOrder(addrs, interfaces)
             /\ \A a : TypesIn(addrs, a) =
                  {t \in Types : /\ t = "InternalIP" /\ Supported(a, given)
                                 /\ \E i \in ToSet(interfaces) : i.active /\ i.addr = a}
<1>1. /\ Len(interfaces) \in Nat
      /\ \A k \in 1..Len(interfaces) :
           interfaces[k].addr \in A /\ interfaces[k].active \in BOOLEAN
  <2>1. \A k \in 1..Len(interfaces) : interfaces[k] \in InterfacesOver(A, S)
    OBVIOUS
  <2> QED  BY <2>1 DEF InterfacesOver
<1>r. PICK run : InterfacesRun(run, A, interfaces, given)
  BY InterfaceRounds
<1>2. /\ run \in [0..Len(interfaces) -> Seq(Elements(A))]
      /\ run[0] = <<>>
      /\ \A k \in 1..Len(interfaces) : run[k] = AddInterface(run[k - 1], interfaces[k], given)
      /\ AfterInterfaces(interfaces, given) = run[Len(interfaces)]
  BY <1>r DEF InterfacesRun
<1> DEFINE Private(a, k) ==
             /\ Supported(a, given)
             /\ \E m \in 1..k : interfaces[m].active /\ interfaces[m].addr = a
           Exact(k) ==
             \A a : TypesIn(run[k], a) = {t \in Types : t = "InternalIP" /\ Private(a, k)}
           T == {k \in 0..Len(interfaces) :
                   IsInjective(run[k]) /\ InOrder(run[k], interfaces) /\ Exact(k)}
<1>3. 0 \in T
  <2>1. Len(<<>>) = 0 /\ <<>> \in Seq(Elements(A)) /\ 1..0 = {}
    OBVIOUS
  <2>a. InOrder(<<>>, interfaces)
    BY <2>1 DEF InOrder
  <2>b. IsInjective(<<>>)
    BY <2>1, SequenceFacts
  <2>2. IsInjective(<<>>) /\ InOrder(<<>>, interfaces)
    BY <2>a, <2>b
  <2>3. \A a : TypesIn(<<>>, a) = {}
    BY <2>1 DEF TypesIn, Contains
  <2>4. \A a : ~Private(a, 0)
    OBVIOUS
  <2>5. Exact(0)
    <3> HIDE DEF Private
    <3> QED  BY <1>2, <2>3, <2>4
  <2> HIDE DEF Exact
  <2> QED  BY <1>1, <1>2, <2>2, <2>5
<1>4. ASSUME NEW k \in 1..Len(interfaces), k - 1 \in T PROVE k \in T
  <2> DEFINE r == run[k - 1]
             i == interfaces[k]
             new == NodeAddress("InternalIP", i.addr)
  <2>1. /\ k \in 0..Len(interfaces) /\ k - 1 \in 0..Len(interfaces)
        /\ IsInjective(r) /\ InOrder(r, interfaces) /\ Exact(k - 1)
    <3> HIDE DEF Exact
    <3> QED  BY <1>1, <1>4
  <2>2. r \in Seq(Elements(A)) /\ i.addr \in A /\ i.active \in BOOLEAN /\ "InternalIP" \in Types
    BY <1>1, <1>2, <2>1 DEF Types
  <2>3. run[k] = AddInterface(r, i, given)
    BY <1>2
  <2>4. \A m \in 1..k : m \in 1..(k - 1) \/ m = k
    BY <1>1
  <2>5. k \in 1..k /\ \A m \in 1..(k - 1) : m \in 1..k
    BY <1>1
  <2>6. \A a : Private(a, k) <=>
               Private(a, k - 1) \/ (i.active /\ Supported(a, given) /\ a = i.addr)
    BY <2>4, <2>5
  <2>7. \A a : TypesIn(r, a) = {t \in Types : t = "InternalIP" /\ Private(a, k - 1)}
    BY <2>1
  <2> HIDE DEF r
  <2>8. CASE ~(i.active /\ Supported(i.addr, given))
    <3>1. run[k] = r
      BY <2>3, <2>8 DEF AddInterface, AddSupported
    <3>2. \A a : Private(a, k) <=> Private(a, k - 1)
      <4> HIDE DEF Private
      <4> QED  BY <2>6, <2>8
    <3>3. Exact(k)
      <4> HIDE DEF Private
      <4> QED  BY <2>7, <3>1, <3>2
    <3> HIDE DEF Exact
    <3> QED  BY <2>1, <3>1, <3>3
  <2>9. CASE i.active /\ Supported(i.addr, given)
    <3>1. run[k] = Add(r, new)
      BY <2>3, <2>9 DEF AddInterface, AddSupported
    <3>2. IsInjective(run[k])
      BY <2>1, <2>2, <3>1, NodeAddressIs, AddIs
    <3>3. Exact(k)
      <4>1. /\ TypesIn(run[k], i.addr) = TypesIn(r, i.addr) \cup {"InternalIP"}
            /\ \A b : b # i.addr => TypesIn(run[k], b) = TypesIn(r, b)
        BY <2>2, <3>1, AddTypes
      <4>2. \A a : Private(a, k) <=> Private(a, k - 1) \/ a = i.addr
        <5> HIDE DEF Private
        <5> QED  BY <2>6, <2>9
      <4> HIDE DEF Private
      <4>3. ASSUME NEW a 
                     PROVE TypesIn(run[k], a) = {t \in Types : t = "InternalIP" /\ Private(a, k)}
        <5>1. CASE a = i.addr
          BY <2>2, <2>7, <4>1, <4>2, <5>1
        <5>2. CASE a # i.addr
          BY <2>7, <4>1, <4>2, <5>2
        <5> QED  BY <5>1, <5>2
      <4> QED  BY <4>3
    <3>4. InOrder(run[k], interfaces)
      <4>1. CASE new \in ToSet(r)
        BY <2>1, <2>2, <3>1, <4>1, NodeAddressIs, AddInOrder
      <4>2. CASE new \notin ToSet(r)
        <5> DEFINE s == Append(r, new)
        <5>1. /\ Len(s) = Len(r) + 1 /\ Len(r) \in Nat
              /\ \A p \in 1..Len(r) : s[p] = r[p]
              /\ s[Len(r) + 1] = new
          BY <2>2, NodeAddressIs, AppendIs, SequenceFacts
        <5>2. run[k] = s
          <6>1. ~Contains(r, new)
            BY <2>2, <4>2, SequenceFacts
          <6> QED  BY <3>1, <6>1 DEF Add
        <5> HIDE DEF s
        <5> SUFFICES InOrder(s, interfaces)
          BY <5>2
        <5> SUFFICES ASSUME NEW p \in 1..Len(s), NEW q \in 1..Len(s),
                            NEW l \in 1..Len(interfaces),
                            q < p, interfaces[l].active,
                            s[p] = NodeAddress("InternalIP", interfaces[l].addr),
                            s[q].type = "InternalIP"
                     PROVE  \E m \in 1..(l - 1) :
                              /\ interfaces[m].active
                              /\ s[q] = NodeAddress("InternalIP", interfaces[m].addr)
          BY DEF InOrder
        <5>6. p \in 1..Len(r) \/ p = Len(r) + 1
          BY <5>1
        <5>3. q \in 1..Len(r) /\ s[q] = r[q]
          BY <5>1
        <5>4. CASE p \in 1..Len(r)
          <6>1. r[p] = NodeAddress("InternalIP", interfaces[l].addr) /\ r[q].type = "InternalIP"
            BY <5>1, <5>3, <5>4
          <6>2. InOrder(r, interfaces)
            <7> HIDE DEF Exact
            <7> QED  BY <2>1
          <6> QED  BY <5>3, <5>4, <6>1, <6>2 DEF InOrder
        <5>5. CASE p = Len(r) + 1
          <6>1. interfaces[l].addr = i.addr
            BY <5>1, <5>5, SameElement
          <6>2. l >= k
            <7> SUFFICES ASSUME l < k PROVE FALSE
              BY <1>1
            <7>1. l \in 1..(k - 1)
              BY <1>1
            <7>2. Private(i.addr, k - 1)
              BY <2>9, <6>1, <7>1
            <7>3. "InternalIP" \in TypesIn(r, i.addr)
              <8> HIDE DEF Private
              <8> QED  BY <2>2, <2>7, <7>2
            <7>4. Contains(r, new)
              BY <7>3 DEF TypesIn
            <7> QED  BY <2>2, <4>2, <7>4, SequenceFacts
          <6>3. r[q] \in Elements(A) /\ r[q].type = "InternalIP"
            BY <2>2, <5>3
          <6>4. r[q] = NodeAddress("InternalIP", r[q].addr)
            BY <6>3, ElementIs
          <6>5. Contains(r, NodeAddress("InternalIP", r[q].addr))
            BY <5>3, <6>4 DEF Contains
          <6>6. "InternalIP" \in TypesIn(r, r[q].addr)
            BY <2>2, <6>5 DEF TypesIn
          <6>7. Private(r[q].addr, k - 1)
            <7> HIDE DEF Private
            <7> QED  BY <2>7, <6>6
          <6>8. PICK m \in 1..(k - 1) : interfaces[m].active /\ interfaces[m].addr = r[q].addr
            BY <6>7
          <6>9. m \in 1..(l - 1)
            BY <1>1, <6>2
          <6> QED  BY <5>3, <6>4, <6>8, <6>9
        <5> QED  BY <5>4, <5>5, <5>6
      <4> QED  BY <4>1, <4>2
    <3> HIDE DEF Exact
    <3> QED  BY <2>1, <3>2, <3>3, <3>4
  <2> QED  BY <2>8, <2>9
<1>5. Len(interfaces) \in T
  <2> HIDE DEF T
  <2>1. 0..Len(interfaces) \subseteq T
    BY <1>1, <1>3, <1>4, BoundedInduction
  <2> QED  BY <1>1, <2>1
<1> DEFINE addrs == run[Len(interfaces)]
<1>6. addrs \in Seq(Elements(A)) /\ IsInjective(addrs) /\ InOrder(addrs, interfaces)
  <2> HIDE DEF Exact
  <2> QED  BY <1>1, <1>2, <1>5
<1>7. \A a : TypesIn(addrs, a) = {t \in Types : t = "InternalIP" /\ Private(a, Len(interfaces))}
  BY <1>5
<1>8. \A a : (\E i \in ToSet(interfaces) : i.active /\ i.addr = a) <=>
             \E m \in 1..Len(interfaces) : interfaces[m].active /\ interfaces[m].addr = a
  BY SequenceFacts
<1> HIDE DEF addrs
<1>9. \A a : TypesIn(addrs, a) =
        {t \in Types : /\ t = "InternalIP" /\ Supported(a, given)
                       /\ \E i \in ToSet(interfaces) : i.active /\ i.addr = a}
  BY <1>7, <1>8
<1> QED  BY <1>2, <1>6, <1>9 DEF addrs

LEMMA AddExternalInOrder ==
  ASSUME NEW A, NEW addrs \in Seq(Elements(A)), NEW a \in A, NEW interfaces,
         InOrder(addrs, interfaces)
  PROVE  InOrder(Add(addrs, NodeAddress("ExternalIP", a)), interfaces)
<1> DEFINE new == NodeAddress("ExternalIP", a)
<1>1. new \in Elements(A)
  BY NodeAddressIs DEF Types
<1>2. \A b : new # NodeAddress("InternalIP", b)
  BY SameElement
<1> HIDE DEF new
<1>3. InOrder(Add(addrs, new), interfaces)
  BY <1>1, <1>2, AddInOrder
<1> QED  BY <1>3 DEF new

\* The access addresses, where they are set, are external ones besides.
LEMMA AfterAccessIs ==
  ASSUME NEW A, None \notin A, NEW S, NEW interfaces \in Seq(InterfacesOver(A, S)),
         NEW given, given.noV6 \in BOOLEAN,
         NEW server, server.access4 \in A \cup {None}, server.access6 \in A \cup {None}
  PROVE  LET addrs == AfterAccess(server, interfaces, given)
         IN  /\ addrs \in Seq(Elements(A))
             /\ IsInjective(addrs)
             /\ InOrder(addrs, interfaces)
             /\ \A a \in A : TypesIn(addrs, a) = TypesBefore(a, server, interfaces, given)
<1> DEFINE private == AfterInterfaces(interfaces, given)
           four == NodeAddress("ExternalIP", server.access4)
           six == NodeAddress("ExternalIP", server.access6)
           with4 == IF server.access4 = None THEN private ELSE Add(private, four)
           all == IF server.access6 = None \/ given.noV6 THEN with4 ELSE Add(with4, six)
           Private(a) == /\ Supported(a, given)
                         /\ \E i \in ToSet(interfaces) : i.active /\ i.addr = a
<1>t. "ExternalIP" \in Types /\ "InternalIP" \in Types
  BY DEF Types
<1>1. /\ private \in Seq(Elements(A)) /\ IsInjective(private) /\ InOrder(private, interfaces)
      /\ \A a : TypesIn(private, a) = {t \in Types : t = "InternalIP" /\ Private(a)}
  BY AfterInterfacesIs
<1>2. AfterAccess(server, interfaces, given) = all
  BY DEF AfterAccess
<1> HIDE DEF private, Private
<1>3. /\ with4 \in Seq(Elements(A)) /\ IsInjective(with4) /\ InOrder(with4, interfaces)
      /\ \A a \in A : TypesIn(with4, a) =
           TypesIn(private, a) \cup (IF a = server.access4 THEN {"ExternalIP"} ELSE {})
  <2>1. CASE server.access4 = None
    BY <1>1, <2>1
  <2>2. CASE server.access4 # None
    <3>1. server.access4 \in A /\ with4 = Add(private, four)
      BY <2>2
    <3>2. four \in Elements(A)
      BY <1>t, <3>1, NodeAddressIs
    <3>3. with4 \in Seq(Elements(A)) /\ IsInjective(with4)
      <4> HIDE DEF four, with4
      <4> QED  BY <1>1, <3>1, <3>2, AddIs
    <3>4. InOrder(with4, interfaces)
      BY <1>1, <3>1, AddExternalInOrder
    <3>5. /\ TypesIn(with4, server.access4) = TypesIn(private, server.access4) \cup {"ExternalIP"}
          /\ \A b : b # server.access4 => TypesIn(with4, b) = TypesIn(private, b)
      BY <1>1, <1>t, <3>1, AddTypes
    <3> HIDE DEF with4
    <3> QED  BY <3>3, <3>4, <3>5
  <2> QED  BY <2>1, <2>2
<1> HIDE DEF with4
<1>4. /\ all \in Seq(Elements(A)) /\ IsInjective(all) /\ InOrder(all, interfaces)
      /\ \A a \in A : TypesIn(all, a) =
           TypesIn(with4, a)
             \cup (IF a = server.access6 /\ ~given.noV6 THEN {"ExternalIP"} ELSE {})
  <2>1. CASE server.access6 = None \/ given.noV6
    BY <1>3, <2>1
  <2>2. CASE ~(server.access6 = None \/ given.noV6)
    <3>1. server.access6 \in A /\ ~given.noV6 /\ all = Add(with4, six)
      BY <2>2
    <3>2. six \in Elements(A)
      BY <1>t, <3>1, NodeAddressIs
    <3>3. all \in Seq(Elements(A)) /\ IsInjective(all)
      <4> HIDE DEF six, all
      <4> QED  BY <1>3, <3>1, <3>2, AddIs
    <3>4. InOrder(all, interfaces)
      BY <1>3, <3>1, AddExternalInOrder
    <3>5. /\ TypesIn(all, server.access6) = TypesIn(with4, server.access6) \cup {"ExternalIP"}
          /\ \A b : b # server.access6 => TypesIn(all, b) = TypesIn(with4, b)
      BY <1>3, <1>t, <3>1, AddTypes
    <3> HIDE DEF all
    <3> QED  BY <3>1, <3>3, <3>4, <3>5
  <2> QED  BY <2>1, <2>2
<1> HIDE DEF all
<1>5. ASSUME NEW a \in A PROVE TypesIn(all, a) = TypesBefore(a, server, interfaces, given)
  <2>1. TypesBefore(a, server, interfaces, given) =
          {t \in Types : \/ t = "InternalIP" /\ Private(a)
                         \/ t = "ExternalIP" /\ a = server.access4
                         \/ t = "ExternalIP" /\ a = server.access6 /\ ~given.noV6}
    BY DEF TypesBefore, Private
  <2>2. TypesIn(all, a) =
          {t \in Types : t = "InternalIP" /\ Private(a)}
            \cup (IF a = server.access4 THEN {"ExternalIP"} ELSE {})
            \cup (IF a = server.access6 /\ ~given.noV6 THEN {"ExternalIP"} ELSE {})
    BY <1>1, <1>3, <1>4
  <2> QED  BY <1>t, <2>1, <2>2
<1> QED  BY <1>2, <1>4, <1>5

-----------------------------------------------------------------------------
\* The types of the address of an entry, once the entry has been placed.
PlacedTypes(before, e, given) ==
  LET only(T) == IF Supported(e.addr, given) THEN T ELSE {}
  IN  IF e.floating THEN before \cup only({"ExternalIP"})
      ELSE IF e.net \in given.public THEN only({"ExternalIP"})
      ELSE IF Ignored(e.net, given) THEN {}
      ELSE before \cup only({"InternalIP"})

LEMMA PlaceIs ==
  ASSUME NEW A, NEW N, NEW addrs \in Seq(Elements(A)), NEW e \in EntriesOver(A, N), NEW given
  PROVE  /\ Place(addrs, e, given) \in Seq(Elements(A))
         /\ IsInjective(addrs) => IsInjective(Place(addrs, e, given))
         /\ TypesIn(Place(addrs, e, given), e.addr)
              = PlacedTypes(TypesIn(addrs, e.addr), e, given)
         /\ \A b : b # e.addr => TypesIn(Place(addrs, e, given), b) = TypesIn(addrs, b)
<1>1. "ExternalIP" \in Types /\ "InternalIP" \in Types /\ e.addr \in A /\ e.floating \in BOOLEAN
  BY DEF Types, EntriesOver
<1> DEFINE d == Drop(addrs, e.addr)
<1>2. /\ d \in Seq(Elements(A))
      /\ IsInjective(addrs) => IsInjective(d)
      /\ TypesIn(d, e.addr) = {}
      /\ \A b : b # e.addr => TypesIn(d, b) = TypesIn(addrs, b)
  BY DropIs, DropKeeps
<1> HIDE DEF d
<1>3. CASE e.floating
  <2>1. Place(addrs, e, given) = AddSupported(addrs, "ExternalIP", e.addr, given)
    BY <1>3 DEF Place
  <2> QED  BY <1>1, <1>3, <2>1, AddSupportedIn DEF PlacedTypes
<1>4. CASE ~e.floating /\ e.net \in given.public
  <2>1. Place(addrs, e, given) = AddSupported(d, "ExternalIP", e.addr, given)
    BY <1>1, <1>4 DEF Place, Ignored, d
  <2>2. PlacedTypes(TypesIn(addrs, e.addr), e, given) =
          {} \cup (IF Supported(e.addr, given) THEN {"ExternalIP"} ELSE {})
    BY <1>4 DEF PlacedTypes
  <2> DEFINE s == AddSupported(d, "ExternalIP", e.addr, given)
  <2>3. /\ s \in Seq(Elements(A))
        /\ IsInjective(d) => IsInjective(s)
        /\ TypesIn(s, e.addr) =
             TypesIn(d, e.addr) \cup (IF Supported(e.addr, given) THEN {"ExternalIP"} ELSE {})
        /\ \A b : b # e.addr => TypesIn(s, b) = TypesIn(d, b)
    <3>1. d \in Seq(Elements(A))
      BY <1>2
    <3> QED  BY <1>1, <3>1, AddSupportedIn
  <2> HIDE DEF s
  <2>4. Place(addrs, e, given) = s
    BY <2>1 DEF s
  <2> QED  BY <1>2, <2>2, <2>3, <2>4
<1>5. CASE ~e.floating /\ e.net \notin given.public /\ Ignored(e.net, given)
  <2>1. Place(addrs, e, given) = d
    BY <1>1, <1>5 DEF Place, Ignored, d
  <2>2. PlacedTypes(TypesIn(addrs, e.addr), e, given) = {}
    BY <1>5 DEF PlacedTypes
  <2> QED  BY <1>2, <2>1, <2>2
<1>6. CASE ~e.floating /\ e.net \notin given.public /\ ~Ignored(e.net, given)
  <2>1. Place(addrs, e, given) = AddSupported(addrs, "InternalIP", e.addr, given)
    BY <1>6 DEF Place
  <2>2. PlacedTypes(TypesIn(addrs, e.addr), e, given) =
          TypesIn(addrs, e.addr) \cup (IF Supported(e.addr, given) THEN {"InternalIP"} ELSE {})
    BY <1>6 DEF PlacedTypes
  <2> QED  BY <1>1, <2>1, <2>2, AddSupportedIn
<1> QED  BY <1>1, <1>3, <1>4, <1>5, <1>6

LEMMA PlaceIn ==
  ASSUME NEW A, NEW N, NEW e \in EntriesOver(A, N), NEW given, NEW addrs \in Seq(Elements(A))
  PROVE  Place(addrs, e, given) \in Seq(Elements(A))
BY PlaceIs

\* Placing an entry disturbs no order, for the address of an active interface is in the list.
LEMMA PlaceInOrder ==
  ASSUME NEW A, NEW N, NEW addrs \in Seq(Elements(A)), NEW e \in EntriesOver(A, N), NEW given,
         NEW interfaces, InOrder(addrs, interfaces),
         \A k \in 1..Len(interfaces) :
           interfaces[k].active /\ interfaces[k].addr = e.addr /\ Supported(e.addr, given)
             => "InternalIP" \in TypesIn(addrs, e.addr)
  PROVE  InOrder(Place(addrs, e, given), interfaces)
<1>1. "ExternalIP" \in Types /\ "InternalIP" \in Types /\ e.addr \in A /\ e.floating \in BOOLEAN
  BY DEF Types, EntriesOver
<1> DEFINE d == Drop(addrs, e.addr)
<1>2. d \in Seq(Elements(A)) /\ InOrder(d, interfaces)
  BY DropIs, DropKeeps
<1> HIDE DEF d
<1>3. CASE e.floating
  <2>1. Place(addrs, e, given) = AddSupported(addrs, "ExternalIP", e.addr, given)
    BY <1>3 DEF Place
  <2> QED  BY <1>1, <2>1, AddExternalInOrder DEF AddSupported
<1>4. CASE ~e.floating /\ e.net \in given.public
  <2>1. Place(addrs, e, given) = AddSupported(d, "ExternalIP", e.addr, given)
    BY <1>1, <1>4 DEF Place, Ignored, d
  <2> QED  BY <1>1, <1>2, <2>1, AddExternalInOrder DEF AddSupported
<1>5. CASE ~e.floating /\ e.net \notin given.public /\ Ignored(e.net, given)
  <2>1. Place(addrs, e, given) = d
    BY <1>1, <1>5 DEF Place, Ignored, d
  <2> QED  BY <1>2, <2>1
<1>6. CASE ~e.floating /\ e.net \notin given.public /\ ~Ignored(e.net, given)
  <2> DEFINE new == NodeAddress("InternalIP", e.addr)
  <2>1. Place(addrs, e, given) = AddSupported(addrs, "InternalIP", e.addr, given)
    BY <1>6 DEF Place
  <2>2. CASE Supported(e.addr, given)
    <3>1. Place(addrs, e, given) = Add(addrs, new)
      BY <2>1, <2>2 DEF AddSupported
    <3>2. new \in Elements(A)
      BY <1>1, NodeAddressIs
    <3>3. CASE "InternalIP" \in TypesIn(addrs, e.addr)
      <4>1. Contains(addrs, new)
        BY <3>3 DEF TypesIn
      <4> QED  BY <3>1, <4>1 DEF Add
    <3>4. CASE "InternalIP" \notin TypesIn(addrs, e.addr)
      <4>1. \A k \in 1..Len(interfaces) :
              interfaces[k].active => new # NodeAddress("InternalIP", interfaces[k].addr)
        BY <2>2, <3>4, SameElement
      <4> HIDE DEF new
      <4> QED  BY <3>1, <3>2, <4>1, AddInOrder
    <3> QED  BY <3>3, <3>4
  <2>3. CASE ~Supported(e.addr, given)
    BY <2>1, <2>3 DEF AddSupported
  <2> QED  BY <2>2, <2>3
<1> QED  BY <1>1, <1>3, <1>4, <1>5, <1>6

\* The rounds of the loop over the addresses of the server document.
PlaceRun(run, A, server, interfaces, given) ==
  /\ run \in [0..Len(server.addresses) -> Seq(Elements(A))]
  /\ run[0] = AfterAccess(server, interfaces, given)
  /\ \A k \in 1..Len(server.addresses) :
       run[k] = Place(run[k - 1], server.addresses[k], given)
  /\ Addresses(server, interfaces, given) = run[Len(server.addresses)]

LEMMA PlaceRounds ==
  ASSUME NEW A, NEW N, NEW server, NEW interfaces, NEW given,
         server.addresses \in Seq(EntriesOver(A, N)),
         AfterAccess(server, interfaces, given) \in Seq(Elements(A))
  PROVE  \E run : PlaceRun(run, A, server, interfaces, given)
<1> DEFINE n == Len(server.addresses)
           V == Seq(Elements(A))
           base == AfterAccess(server, interfaces, given)
           Step(v, x) == Place(v, x, given)
           step == [k \in 1..n |-> [v \in V |-> Step(v, server.addresses[k])]]
           Round(it, s) == IF s = {} THEN base ELSE Step(it[s \ {Max(s)}], server.addresses[Max(s)])
           iter == CHOOSE it : it = [s \in SUBSET (1..n) |-> Round(it, s)]
<1>1. n \in Nat /\ DOMAIN server.addresses = 1..n
      /\ \A k \in 1..n : server.addresses[k] \in EntriesOver(A, N)
  OBVIOUS
<1>2. \A k \in 1..n : \A v \in V : Step(v, server.addresses[k]) \in V
  BY <1>1, PlaceIn
<1>3. step \in [1..n -> [V -> V]]
  BY <1>2, Zenon
<1>4. Addresses(server, interfaces, given) = iter[1..n]
  BY <1>1 DEF Addresses, FoldLeft, MapThenFoldSet
<1>5. \A k \in 1..n : \A v \in V : step[k][v] = Step(v, server.addresses[k])
  OBVIOUS
<1>6. base \in V
  OBVIOUS
<1> HIDE DEF n, V, base, Step, step
<1>7. PICK it : it \in FoldFunctions(V, base, step, n)
  BY <1>1, <1>3, <1>6, FoldExists
<1>8. ASSUME NEW s \in SUBSET (1..n) PROVE it[s] = Round(it, s)
  <2>1. it[s] = IF s = {} THEN base ELSE step[Max(s)][it[s \ {Max(s)}]]
    BY <1>7 DEF FoldFunctions
  <2>2. it[s \ {Max(s)}] \in V
    BY <1>7 DEF FoldFunctions
  <2>3. s # {} => Max(s) \in 1..n
    BY <1>1, MaxOfFinite
  <2> QED  BY <1>5, <2>1, <2>2, <2>3
<1>9. it = [s \in SUBSET (1..n) |-> Round(it, s)]
  <2> HIDE DEF Round
  <2>1. it \in [SUBSET (1..n) -> V]
    BY <1>7 DEF FoldFunctions
  <2> QED  BY <1>8, <2>1
<1>10. \A s \in SUBSET (1..n) : iter[s] = Round(iter, s)
  <2> HIDE DEF Round
  <2>1. iter = [s \in SUBSET (1..n) |-> Round(iter, s)]
    BY <1>9
  <2> HIDE DEF iter
  <2> QED  BY <2>1
<1> HIDE DEF iter
<1> HIDE DEF iter
<1> DEFINE run == [k \in 0..n |-> iter[1..k]]
<1>11. run[0] = base /\ run[n] = iter[1..n] /\ run = [k \in 0..n |-> run[k]]
  <2>1. 1..0 = {} /\ 1..0 \in SUBSET (1..n) /\ run[0] = iter[1..0]
    BY <1>1
  <2>2. iter[1..0] = base
    BY <1>10, <2>1
  <2> QED  BY <1>1, <2>1, <2>2
<1>12. ASSUME NEW k \in 1..n PROVE run[k] = Step(run[k - 1], server.addresses[k])
  <2>1. run[k] = iter[1..k] /\ run[k - 1] = iter[1..(k - 1)]
    BY <1>1
  <2> HIDE DEF run
  <2>2. iter[1..k] = Round(iter, 1..k)
    <3> HIDE DEF Round
    <3> QED  BY <1>1, <1>10, InitialIntervals
  <2>3. Round(iter, 1..k) = Step(iter[1..(k - 1)], server.addresses[k])
    BY <1>1, InitialIntervals
  <2> QED  BY <2>1, <2>2, <2>3
<1> HIDE DEF run
<1>13. \A k \in 0..n : run[k] \in V
  <2>1. \A k \in 1..n : run[k - 1] \in V => run[k] \in V
    BY <1>2, <1>12
  <2> QED  BY <1>1, <1>6, <1>11, <2>1, RoundsIn
<1>14. run \in [0..n -> V]
  BY <1>11, <1>13
<1> QED  BY <1>4, <1>11, <1>12, <1>14 DEF n, V, base, Step, PlaceRun

\* What the list says of the address of an entry, if no other entry has that address.
LEMMA TypesOfIs ==
  ASSUME NEW server, NEW interfaces, NEW given, NEW E, server.addresses \in Seq(E),
         NEW k \in 1..Len(server.addresses),
         \A m \in 1..Len(server.addresses) :
           server.addresses[m].addr = server.addresses[k].addr => m = k
  PROVE  LET e == server.addresses[k]
         IN  TypesOf(e.addr, server, interfaces, given)
               = PlacedTypes(TypesBefore(e.addr, server, interfaces, given), e, given)
<1> DEFINE e == server.addresses[k]
<1>1. EntriesOf(e.addr, server) = {e}
  <2>1. \A x : x \in ToSet(server.addresses)
               <=> \E m \in 1..Len(server.addresses) : server.addresses[m] = x
    BY SequenceFacts
  <2> QED  BY <2>1 DEF EntriesOf
<1>2. (CHOOSE x \in EntriesOf(e.addr, server) : TRUE) = e
  BY <1>1
<1> HIDE DEF e
<1>3. TypesOf(e.addr, server, interfaces, given)
        = PlacedTypes(TypesBefore(e.addr, server, interfaces, given), e, given)
  BY <1>1, <1>2 DEF TypesOf, PlacedTypes
<1> QED  BY <1>3 DEF e

LEMMA TypesOfOthers ==
  ASSUME NEW server, NEW interfaces, NEW given, NEW E, server.addresses \in Seq(E), NEW a,
         \A m \in 1..Len(server.addresses) : server.addresses[m].addr # a
  PROVE  TypesOf(a, server, interfaces, given) = TypesBefore(a, server, interfaces, given)
<1>1. \A x : x \in ToSet(server.addresses)
             <=> \E m \in 1..Len(server.addresses) : server.addresses[m] = x
  BY SequenceFacts
<1>2. EntriesOf(a, server) = {}
  BY <1>1 DEF EntriesOf
<1> QED  BY <1>2 DEF TypesOf

\* A server document: no address is in it twice.
GoodDocument(server, A, N) ==
  /\ server.access4 \in A \cup {None} /\ server.access6 \in A \cup {None}
  /\ server.addresses \in Seq(EntriesOver(A, N))
  /\ \A i, j \in 1..Len(server.addresses) :
       server.addresses[i].addr = server.addresses[j].addr => i = j

\* What the whole list is, for whatever two documents.
LEMMA AddressesAre ==
  ASSUME NEW A, None \notin A, NEW S, NEW interfaces \in Seq(InterfacesOver(A, S)),
         NEW given, given.noV6 \in BOOLEAN,
         NEW N, NEW server, GoodDocument(server, A, N)
  PROVE  LET addrs == Addresses(server, interfaces, given)
         IN  /\ addrs \in Seq(Elements(A))
             /\ IsInjective(addrs)
             /\ InOrder(addrs, interfaces)
             /\ \A a \in A : TypesIn(addrs, a) = TypesOf(a, server, interfaces, given)
<1> DEFINE entries == server.addresses
           Before(a) == TypesBefore(a, server, interfaces, given)
           Final(a) == TypesOf(a, server, interfaces, given)
<1>1. /\ entries \in Seq(EntriesOver(A, N)) /\ Len(entries) \in Nat
      /\ \A k \in 1..Len(entries) : entries[k] \in EntriesOver(A, N)
      /\ \A i, j \in 1..Len(entries) : entries[i].addr = entries[j].addr => i = j
  BY DEF GoodDocument
<1>2. /\ AfterAccess(server, interfaces, given) \in Seq(Elements(A))
      /\ IsInjective(AfterAccess(server, interfaces, given))
      /\ InOrder(AfterAccess(server, interfaces, given), interfaces)
      /\ \A a \in A : TypesIn(AfterAccess(server, interfaces, given), a) = Before(a)
  BY AfterAccessIs DEF GoodDocument
<1>3. PICK run : PlaceRun(run, A, server, interfaces, given)
  BY <1>1, <1>2, PlaceRounds
<1>4. /\ run \in [0..Len(entries) -> Seq(Elements(A))]
      /\ run[0] = AfterAccess(server, interfaces, given)
      /\ \A k \in 1..Len(entries) : run[k] = Place(run[k - 1], entries[k], given)
      /\ Addresses(server, interfaces, given) = run[Len(entries)]
  BY <1>3 DEF PlaceRun
<1>5. \A k \in 1..Len(entries) :
        Final(entries[k].addr) = PlacedTypes(Before(entries[k].addr), entries[k], given)
  BY <1>1, TypesOfIs
<1>6. \A a : (\A m \in 1..Len(entries) : entries[m].addr # a) => Final(a) = Before(a)
  BY <1>1, TypesOfOthers
<1>7. \A a : \A k \in 1..Len(interfaces) :
        interfaces[k].active /\ interfaces[k].addr = a /\ Supported(a, given)
          => "InternalIP" \in Before(a)
  <2>1. \A x : x \in ToSet(interfaces) <=> \E m \in 1..Len(interfaces) : interfaces[m] = x
    BY SequenceFacts
  <2> QED  BY <2>1 DEF TypesBefore, Types
<1> HIDE DEF entries, Before, Final
<1> DEFINE Visited(a, k) == \E m \in 1..k : entries[m].addr = a
           Exact(k) ==
             \A a \in A : TypesIn(run[k], a) = IF Visited(a, k) THEN Final(a) ELSE Before(a)
           T == {k \in 0..Len(entries) :
                   IsInjective(run[k]) /\ InOrder(run[k], interfaces) /\ Exact(k)}
<1>8. 0 \in T
  <2>1. \A a : ~Visited(a, 0)
    OBVIOUS
  <2>2. Exact(0)
    <3> HIDE DEF Visited
    <3> QED  BY <1>2, <1>4, <2>1
  <2> HIDE DEF Exact
  <2> QED  BY <1>1, <1>2, <1>4, <2>2
<1>9. ASSUME NEW k \in 1..Len(entries), k - 1 \in T PROVE k \in T
  <2> DEFINE r == run[k - 1]
             e == entries[k]
  <2>1. /\ k \in 0..Len(entries) /\ k - 1 \in 0..Len(entries)
        /\ IsInjective(r) /\ InOrder(r, interfaces) /\ Exact(k - 1)
    <3> HIDE DEF Exact
    <3> QED  BY <1>1, <1>9
  <2>2. r \in Seq(Elements(A)) /\ e \in EntriesOver(A, N) /\ e.addr \in A
    <3>1. r \in Seq(Elements(A)) /\ e \in EntriesOver(A, N)
      BY <1>1, <1>4, <2>1
    <3> QED  BY <3>1 DEF EntriesOver
  <2>3. run[k] = Place(r, e, given)
    BY <1>4
  <2>4. \A a : Visited(a, k) <=> Visited(a, k - 1) \/ a = e.addr
    <3>1. \A m \in 1..k : m \in 1..(k - 1) \/ m = k
      BY <1>1
    <3>2. k \in 1..k /\ \A m \in 1..(k - 1) : m \in 1..k
      BY <1>1
    <3> QED  BY <3>1, <3>2
  <2>5. ~Visited(e.addr, k - 1)
    <3> SUFFICES ASSUME NEW m \in 1..(k - 1), entries[m].addr = e.addr PROVE FALSE
      OBVIOUS
    <3>1. m \in 1..Len(entries) /\ m # k
      BY <1>1
    <3> QED  BY <1>1, <3>1
  <2>6. TypesIn(r, e.addr) = Before(e.addr)
    <3> HIDE DEF Visited
    <3> QED  BY <2>1, <2>2, <2>5
  <2>7. Final(e.addr) = PlacedTypes(Before(e.addr), e, given)
    BY <1>5
  <2>8. \A a \in A : TypesIn(r, a) = IF Visited(a, k - 1) THEN Final(a) ELSE Before(a)
    BY <2>1
  <2> HIDE DEF r, e, Visited
  <2>9. /\ IsInjective(r) => IsInjective(run[k])
        /\ TypesIn(run[k], e.addr) = PlacedTypes(TypesIn(r, e.addr), e, given)
        /\ \A b : b # e.addr => TypesIn(run[k], b) = TypesIn(r, b)
    BY <2>2, <2>3, PlaceIs
  <2>10. InOrder(run[k], interfaces)
    BY <1>7, <2>1, <2>2, <2>3, <2>6, PlaceInOrder
  <2>11. Exact(k)
    <3> SUFFICES ASSUME NEW a \in A
                 PROVE  TypesIn(run[k], a) = IF Visited(a, k) THEN Final(a) ELSE Before(a)
      OBVIOUS
    <3>1. CASE a = e.addr
      BY <2>4, <2>6, <2>7, <2>9, <3>1
    <3>2. CASE a # e.addr
      BY <2>4, <2>8, <2>9, <3>2
    <3> QED  BY <3>1, <3>2
  <2> HIDE DEF Exact
  <2> QED  BY <2>1, <2>9, <2>10, <2>11
<1>10. Len(entries) \in T
  <2> HIDE DEF T
  <2>1. 0..Len(entries) \subseteq T
    BY <1>1, <1>8, <1>9, BoundedInduction
  <2> QED  BY <1>1, <2>1
<1> DEFINE addrs == run[Len(entries)]
<1>11. addrs \in Seq(Elements(A)) /\ IsInjective(addrs) /\ InOrder(addrs, interfaces)
  <2> HIDE DEF Exact
  <2> QED  BY <1>1, <1>4, <1>10
<1>12. ASSUME NEW a \in A PROVE TypesIn(addrs, a) = Final(a)
  <2>1. TypesIn(addrs, a) = IF Visited(a, Len(entries)) THEN Final(a) ELSE Before(a)
    BY <1>10
  <2>2. ~Visited(a, Len(entries)) => Final(a) = Before(a)
    BY <1>6
  <2> HIDE DEF Visited
  <2> QED  BY <2>1, <2>2
<1> HIDE DEF addrs
<1>13. Addresses(server, interfaces, given) = addrs
  BY <1>4 DEF addrs
<1> QED  BY <1>11, <1>12, <1>13 DEF Final

-----------------------------------------------------------------------------
\* What the choice of an address returns, if there is a private one to choose.
LEMMA PreferInternalIs ==
  ASSUME NEW A, NEW addrs \in Seq(Elements(A)), NEW among,
         \E i \in 1..Len(addrs) : addrs[i].type = "InternalIP" /\ addrs[i].addr \in among
  PROVE  \E i \in 1..Len(addrs) :
           /\ addrs[i].type = "InternalIP" /\ addrs[i].addr \in among
           /\ PreferInternal(addrs, among) = addrs[i].addr
           /\ \A j \in 1..Len(addrs) : addrs[j].type = "InternalIP" /\ addrs[j].addr \in among
                                         => i <= j
<1> DEFINE private == {i \in 1..Len(addrs) : addrs[i].type = "InternalIP"
                                             /\ addrs[i].addr \in among}
<1>1. private \in SUBSET Nat /\ private # {}
  OBVIOUS
<1>2. Min(private) \in private /\ \A j \in private : Min(private) <= j
  <2> HIDE DEF private
  <2> QED  BY <1>1, MinIs
<1>3. SelectInSeq(addrs, LAMBDA x : x.type = "InternalIP" /\ x.addr \in among) = Min(private)
  BY <1>1 DEF SelectInSeq
<1>4. Min(private) # 0 /\ Min(private) \in 1..Len(addrs)
  BY <1>2
<1>5. PreferInternal(addrs, among) = addrs[Min(private)].addr
  <2> HIDE DEF private
  <2> QED  BY <1>3, <1>4 DEF PreferInternal
<1> QED  BY <1>2, <1>4, <1>5

\* The first active interface with a private address gives the load balancer its address.
LEMMA FirstInterfaceWins ==
  ASSUME NEW A, None \notin A, NEW S, NEW interfaces \in Seq(InterfacesOver(A, S)),
         NEW given, given.noV6 \in BOOLEAN,
         NEW N, NEW server, GoodDocument(server, A, N),
         NEW k \in 1..Len(interfaces), interfaces[k].active,
         "InternalIP" \in TypesOf(interfaces[k].addr, server, interfaces, given),
         \A m \in 1..Len(interfaces) :
           /\ interfaces[m].active
           /\ "InternalIP" \in TypesOf(interfaces[m].addr, server, interfaces, given)
           => k <= m
  PROVE  AddressForLB(Addresses(server, interfaces, given)) = interfaces[k].addr
<1> DEFINE addrs == Addresses(server, interfaces, given)
           a == interfaces[k].addr
<1>1. /\ addrs \in Seq(Elements(A)) /\ InOrder(addrs, interfaces)
      /\ \A b \in A : TypesIn(addrs, b) = TypesOf(b, server, interfaces, given)
  BY AddressesAre
<1>2. Len(interfaces) \in Nat /\ \A m \in 1..Len(interfaces) : interfaces[m].addr \in A
  <2>1. \A m \in 1..Len(interfaces) : interfaces[m] \in InterfacesOver(A, S)
    OBVIOUS
  <2> QED  BY <2>1 DEF InterfacesOver
<1> HIDE DEF addrs
<1>3. Contains(addrs, NodeAddress("InternalIP", a))
  BY <1>1, <1>2 DEF TypesIn
<1>4. PICK p \in 1..Len(addrs) : addrs[p] = NodeAddress("InternalIP", a)
  BY <1>3 DEF Contains
<1>5. addrs[p].type = "InternalIP" /\ addrs[p].addr = a
  BY <1>4 DEF NodeAddress
<1>6. \A i \in 1..Len(addrs) : addrs[i].addr \in AddressesIn(addrs)
  <2>1. \A x : x \in ToSet(addrs) <=> \E i \in 1..Len(addrs) : addrs[i] = x
    BY <1>1, SequenceFacts
  <2> QED  BY <2>1 DEF AddressesIn
<1>7. \E i \in 1..Len(addrs) : addrs[i].type = "InternalIP" /\ addrs[i].addr \in AddressesIn(addrs)
  BY <1>5, <1>6
<1>8. PICK i \in 1..Len(addrs) :
        /\ addrs[i].type = "InternalIP"
        /\ PreferInternal(addrs, AddressesIn(addrs)) = addrs[i].addr
        /\ \A j \in 1..Len(addrs) :
             addrs[j].type = "InternalIP" /\ addrs[j].addr \in AddressesIn(addrs) => i <= j
  BY <1>1, <1>7, PreferInternalIs
<1>9. i <= p
  BY <1>5, <1>6, <1>8
<1>10. i = p
  <2> SUFFICES ASSUME i # p PROVE FALSE
    OBVIOUS
  <2>1. i < p /\ Len(addrs) \in Nat
    BY <1>1, <1>9
  <2>2. PICK m \in 1..(k - 1) :
          /\ interfaces[m].active
          /\ addrs[i] = NodeAddress("InternalIP", interfaces[m].addr)
    BY <1>1, <1>4, <1>8, <2>1 DEF InOrder
  <2>3. m \in 1..Len(interfaces) /\ ~(k <= m)
    BY <1>2
  <2>4. Contains(addrs, NodeAddress("InternalIP", interfaces[m].addr))
    BY <2>2 DEF Contains
  <2>5. "InternalIP" \in TypesIn(addrs, interfaces[m].addr)
    BY <2>4 DEF TypesIn, Types
  <2> QED  BY <1>1, <1>2, <2>2, <2>3, <2>5
<1>11. AddressForLB(addrs) = a
  BY <1>5, <1>8, <1>10 DEF AddressForLB
<1> QED  BY <1>11 DEF addrs

\* The subnet of an address, if no two interfaces have the address.
LEMMA SubnetOfIs ==
  ASSUME NEW A, NEW S, NEW interfaces \in Seq(InterfacesOver(A, S)), NEW k \in 1..Len(interfaces),
         \A m \in 1..Len(interfaces) : interfaces[m].addr = interfaces[k].addr => m = k
  PROVE  SubnetOf(interfaces[k].addr, interfaces) = interfaces[k].subnet
<1> DEFINE I == {m \in 1..Len(interfaces) : interfaces[m].addr = interfaces[k].addr}
<1>1. I = {k} /\ k \in Nat /\ k # 0
  OBVIOUS
<1>2. Min(I) = k
  BY <1>1, MinIs
<1>3. SelectInSeq(interfaces, LAMBDA i : i.addr = interfaces[k].addr) = k
  BY <1>1, <1>2 DEF SelectInSeq
<1> QED  BY <1>1, <1>3 DEF SubnetOf

-----------------------------------------------------------------------------
(***************************************************************************)
(* The documents of an instance.                                           *)
(***************************************************************************)
Nets == ToSet(Networks)
Subnets == {p.subnet : p \in Ports}

\* The ports of an instance are different ones.
GoodPorts(ports) ==
  /\ ports \in Seq(Attached)
  /\ \A i, j \in 1..Len(ports) : ports[i].port = ports[j].port => i = j

LEMMA PortFacts ==
  ASSUME NEW ports, GoodPorts(ports)
  PROVE  /\ Len(ports) \in Nat /\ DOMAIN ports = 1..Len(ports)
         /\ \A k \in 1..Len(ports) :
              /\ ports[k] \in Attached /\ ports[k].port \in Ports /\ ports[k].active \in BOOLEAN
              /\ ports[k].port.addr \in Addrs /\ ports[k].port.addr # Floating
              /\ ports[k].port.addr # None /\ ports[k].port.subnet \in Subnets
         /\ \A i, j \in 1..Len(ports) : ports[i].port.addr = ports[j].port.addr => i = j
<1>1. /\ Len(ports) \in Nat /\ DOMAIN ports = 1..Len(ports)
      /\ \A k \in 1..Len(ports) : ports[k] \in Attached
      /\ \A i, j \in 1..Len(ports) : ports[i].port = ports[j].port => i = j
  BY DEF GoodPorts
<1>2. \A x \in Attached : x.port \in Ports /\ x.active \in BOOLEAN
  BY DEF Attached
<1>3. \A p \in Ports : p.addr \in Addrs /\ p.addr # Floating /\ p.addr # None
                         /\ p.subnet \in Subnets
  BY AddressesAssumption DEF Addrs, Subnets
<1>4. \A p, q \in Ports : p.addr = q.addr => p = q
  BY AddressesAssumption
<1> QED  BY <1>1, <1>2, <1>3, <1>4

\* The rounds of FixedOn: the addresses so far.
FixedRun(run, net, ports) ==
  /\ run \in [0..Len(ports) -> Seq(EntriesOver(Addrs, Nets))]
  /\ run[0] = <<>>
  /\ \A k \in 1..Len(ports) :
       run[k] = IF ports[k].port.net # net THEN run[k - 1]
           ELSE Append(run[k - 1], [net |-> net, floating |-> FALSE, addr |-> ports[k].port.addr])
  /\ FixedOn(net, ports) = run[Len(ports)]

LEMMA FixedRounds ==
  ASSUME NEW net \in Nets, NEW ports \in Seq(Attached)
  PROVE  \E run : FixedRun(run, net, ports)
<1> DEFINE n == Len(ports)
           V == Seq(EntriesOver(Addrs, Nets))
           base == <<>>
           Step(v, x) == IF x.port.net # net THEN v
           ELSE Append(v, [net |-> net, floating |-> FALSE, addr |-> x.port.addr])
           step == [k \in 1..n |-> [v \in V |-> Step(v, ports[k])]]
           Round(it, s) == IF s = {} THEN base ELSE Step(it[s \ {Max(s)}], ports[Max(s)])
           iter == CHOOSE it : it = [s \in SUBSET (1..n) |-> Round(it, s)]
<1>1. n \in Nat /\ DOMAIN ports = 1..n /\ \A k \in 1..n : ports[k] \in Attached
  OBVIOUS
<1>2. \A k \in 1..n : \A v \in V : Step(v, ports[k]) \in V
  <2>1. \A x \in Attached : x.port.addr \in Addrs
    BY AddressesAssumption DEF Attached, Addrs
  <2>2. \A x \in Attached :
          [net |-> net, floating |-> FALSE, addr |-> x.port.addr] \in EntriesOver(Addrs, Nets)
    BY <2>1 DEF EntriesOver
  <2> QED  BY <1>1, <2>2
<1>3. step \in [1..n -> [V -> V]]
  BY <1>2, Zenon
<1>4. FixedOn(net, ports) = iter[1..n]
  BY <1>1 DEF FixedOn, FoldLeft, MapThenFoldSet
<1>5. \A k \in 1..n : \A v \in V : step[k][v] = Step(v, ports[k])
  OBVIOUS
<1>6. base \in V
  OBVIOUS
<1> HIDE DEF n, V, base, Step, step
<1>7. PICK it : it \in FoldFunctions(V, base, step, n)
  BY <1>1, <1>3, <1>6, FoldExists
<1>8. ASSUME NEW s \in SUBSET (1..n) PROVE it[s] = Round(it, s)
  <2>1. it[s] = IF s = {} THEN base ELSE step[Max(s)][it[s \ {Max(s)}]]
    BY <1>7 DEF FoldFunctions
  <2>2. it[s \ {Max(s)}] \in V
    BY <1>7 DEF FoldFunctions
  <2>3. s # {} => Max(s) \in 1..n
    BY <1>1, MaxOfFinite
  <2> QED  BY <1>5, <2>1, <2>2, <2>3
<1>9. it = [s \in SUBSET (1..n) |-> Round(it, s)]
  <2> HIDE DEF Round
  <2>1. it \in [SUBSET (1..n) -> V]
    BY <1>7 DEF FoldFunctions
  <2> QED  BY <1>8, <2>1
<1>10. \A s \in SUBSET (1..n) : iter[s] = Round(iter, s)
  <2> HIDE DEF Round
  <2>1. iter = [s \in SUBSET (1..n) |-> Round(iter, s)]
    BY <1>9
  <2> HIDE DEF iter
  <2> QED  BY <2>1
<1> HIDE DEF iter
<1> HIDE DEF iter
<1> DEFINE run == [k \in 0..n |-> iter[1..k]]
<1>11. run[0] = base /\ run[n] = iter[1..n] /\ run = [k \in 0..n |-> run[k]]
  <2>1. 1..0 = {} /\ 1..0 \in SUBSET (1..n) /\ run[0] = iter[1..0]
    BY <1>1
  <2>2. iter[1..0] = base
    BY <1>10, <2>1
  <2> QED  BY <1>1, <2>1, <2>2
<1>12. ASSUME NEW k \in 1..n PROVE run[k] = Step(run[k - 1], ports[k])
  <2>1. run[k] = iter[1..k] /\ run[k - 1] = iter[1..(k - 1)]
    BY <1>1
  <2> HIDE DEF run
  <2>2. iter[1..k] = Round(iter, 1..k)
    <3> HIDE DEF Round
    <3> QED  BY <1>1, <1>10, InitialIntervals
  <2>3. Round(iter, 1..k) = Step(iter[1..(k - 1)], ports[k])
    BY <1>1, InitialIntervals
  <2> QED  BY <2>1, <2>2, <2>3
<1> HIDE DEF run
<1>13. \A k \in 0..n : run[k] \in V
  <2>1. \A k \in 1..n : run[k - 1] \in V => run[k] \in V
    BY <1>2, <1>12
  <2> QED  BY <1>1, <1>6, <1>11, <2>1, RoundsIn
<1>14. run \in [0..n -> V]
  BY <1>11, <1>13
<1> QED  BY <1>4, <1>11, <1>12, <1>14 DEF n, V, base, Step, FixedRun

\* The fixed addresses of one network are those of the ports there, each once.
LEMMA FixedOnIs ==
  ASSUME NEW net \in Nets, NEW ports, GoodPorts(ports)
  PROVE  LET fixed == FixedOn(net, ports)
         IN  /\ fixed \in Seq(EntriesOver(Addrs, Nets))
             /\ \A i \in 1..Len(fixed) :
                  /\ fixed[i].net = net /\ fixed[i].floating = FALSE
                  /\ \E m \in 1..Len(ports) :
                       ports[m].port.addr = fixed[i].addr /\ ports[m].port.net = net
             /\ \A i, j \in 1..Len(fixed) : fixed[i].addr = fixed[j].addr => i = j
<1> DEFINE n == Len(ports)
           E == EntriesOver(Addrs, Nets)
           entry(k) == [net |-> net, floating |-> FALSE, addr |-> ports[k].port.addr]
<1>0. ports \in Seq(Attached)
  BY DEF GoodPorts
<1>1. n \in Nat /\ \A i, j \in 1..n : ports[i].port.addr = ports[j].port.addr => i = j
  BY PortFacts
<1>2. PICK run : FixedRun(run, net, ports)
  BY <1>0, FixedRounds
<1>3. /\ run \in [0..n -> Seq(E)] /\ run[0] = <<>> /\ FixedOn(net, ports) = run[n]
      /\ \A k \in 1..n :
           run[k] = IF ports[k].port.net # net THEN run[k - 1] ELSE Append(run[k - 1], entry(k))
  BY <1>2 DEF FixedRun
<1> HIDE DEF n
<1> DEFINE Fixed(s, k) ==
             /\ \A i \in 1..Len(s) :
                  /\ s[i].net = net /\ s[i].floating = FALSE
                  /\ \E m \in 1..k : ports[m].port.addr = s[i].addr /\ ports[m].port.net = net
             /\ \A i, j \in 1..Len(s) : s[i].addr = s[j].addr => i = j
           T == {k \in 0..n : Fixed(run[k], k)}
<1>4. 0 \in T
  <2>1. Len(<<>>) = 0
    OBVIOUS
  <2> QED  BY <1>1, <1>3, <2>1
<1>5. ASSUME NEW k \in 1..n, k - 1 \in T PROVE k \in T
  <2> DEFINE r == run[k - 1]
  <2>1. k \in 0..n /\ k - 1 \in 0..n /\ Fixed(r, k - 1)
    <3> HIDE DEF Fixed
    <3> QED  BY <1>1, <1>5
  <2>2. r \in Seq(E)
    BY <1>3, <2>1
  <2>3. k \in 1..k /\ \A m \in 1..(k - 1) : m \in 1..k /\ m \in 1..n /\ m # k
    BY <1>1
  <2> HIDE DEF r
  <2>4. CASE ports[k].port.net # net
    <3>1. run[k] = r
      BY <1>3, <2>4 DEF r
    <3>2. Fixed(r, k)
      BY <2>1, <2>3
    <3> HIDE DEF Fixed
    <3> QED  BY <2>1, <3>1, <3>2
  <2>5. CASE ports[k].port.net = net
    <3> DEFINE s == Append(r, entry(k))
    <3>1. run[k] = s
      BY <1>3, <2>5 DEF r
    <3>2. entry(k) \in E
      BY PortFacts DEF EntriesOver, n
    <3>3. /\ Len(s) = Len(r) + 1 /\ Len(r) \in Nat /\ s[Len(r) + 1] = entry(k)
          /\ \A i \in 1..Len(r) : s[i] = r[i]
      <4> HIDE DEF E, entry
      <4> QED  BY <2>2, <3>2, AppendIs, SequenceFacts
    <3>4. entry(k).addr = ports[k].port.addr /\ entry(k).net = net /\ entry(k).floating = FALSE
      OBVIOUS
    <3> HIDE DEF s, entry
    <3>5. \A i \in 1..Len(s) : i \in 1..Len(r) \/ i = Len(r) + 1
      BY <3>3
    <3>6. \A i \in 1..Len(r) :
            /\ r[i].net = net /\ r[i].floating = FALSE
            /\ \E m \in 1..(k - 1) : ports[m].port.addr = r[i].addr /\ ports[m].port.net = net
      BY <2>1
    <3>7. \A i \in 1..Len(s) :
            /\ s[i].net = net /\ s[i].floating = FALSE
            /\ \E m \in 1..k : ports[m].port.addr = s[i].addr /\ ports[m].port.net = net
      BY <2>3, <2>5, <3>3, <3>4, <3>5, <3>6
    <3>8. \A i \in 1..Len(r) : r[i].addr # ports[k].port.addr
      BY <1>1, <2>3, <3>6
    <3>9. \A i, j \in 1..Len(s) : s[i].addr = s[j].addr => i = j
      BY <2>1, <3>3, <3>4, <3>5, <3>8
    <3>10. Fixed(run[k], k)
      BY <3>1, <3>7, <3>9
    <3> HIDE DEF Fixed
    <3> QED  BY <2>1, <3>10
  <2> QED  BY <2>4, <2>5
<1>6. n \in T
  <2> HIDE DEF T
  <2>1. 0..n \subseteq T
    BY <1>1, <1>4, <1>5, BoundedInduction
  <2> QED  BY <1>1, <2>1
<1>7. Fixed(run[n], n) /\ run[n] \in Seq(E)
  <2> HIDE DEF Fixed
  <2> QED  BY <1>1, <1>3, <1>6
<1> QED  BY <1>3, <1>7 DEF n

\* The addresses of a fixed entry's port, or of the floating IP's.
EntryOf(e, s) ==
  IF e.floating THEN e.addr = Floating /\ s.floating /\ s.ports[1].port.net = e.net
  ELSE \E m \in 1..Len(s.ports) : s.ports[m].port.addr = e.addr /\ s.ports[m].port.net = e.net

LEMMA EntriesOnAre ==
  ASSUME NEW net \in Nets, NEW s, GoodPorts(s.ports), s.floating \in BOOLEAN
  PROVE  LET entries == EntriesOn(net, s)
         IN  /\ entries \in Seq(EntriesOver(Addrs, Nets))
             /\ \A i \in 1..Len(entries) : entries[i].net = net /\ EntryOf(entries[i], s)
             /\ \A i, j \in 1..Len(entries) : entries[i].addr = entries[j].addr => i = j
<1> DEFINE E == EntriesOver(Addrs, Nets)
           fixed == FixedOn(net, s.ports)
           last == [net |-> net, floating |-> TRUE, addr |-> Floating]
           Good(t) == /\ \A i \in 1..Len(t) : t[i].net = net /\ EntryOf(t[i], s)
                      /\ \A i, j \in 1..Len(t) : t[i].addr = t[j].addr => i = j
<1>1. /\ fixed \in Seq(E) /\ Len(fixed) \in Nat
      /\ \A i \in 1..Len(fixed) :
           /\ fixed[i].net = net /\ fixed[i].floating = FALSE
           /\ \E m \in 1..Len(s.ports) :
                s.ports[m].port.addr = fixed[i].addr /\ s.ports[m].port.net = net
      /\ \A i, j \in 1..Len(fixed) : fixed[i].addr = fixed[j].addr => i = j
  <2>1. fixed \in Seq(E)
    BY FixedOnIs
  <2>2. Len(fixed) \in Nat
    <3> HIDE DEF fixed, E
    <3> QED  BY <2>1
  <2> QED  BY <2>1, <2>2, FixedOnIs
<1> HIDE DEF fixed
<1>2. Good(fixed)
  BY <1>1 DEF EntryOf
<1>3. CASE s.floating /\ s.ports[1].port.net = net
  <2> DEFINE t == Append(fixed, last)
  <2>1. EntriesOn(net, s) = t
    BY <1>3 DEF EntriesOn, fixed
  <2>2. last \in E
    BY AddressesAssumption DEF EntriesOver, Addrs
  <2>3. last.net = net /\ last.addr = Floating /\ last.floating = TRUE
    OBVIOUS
  <2> HIDE DEF last
  <2>4. EntryOf(last, s)
    BY <1>3, <2>3 DEF EntryOf
  <2>5. /\ t \in Seq(E) /\ Len(t) = Len(fixed) + 1 /\ t[Len(fixed) + 1] = last
        /\ \A i \in 1..Len(fixed) : t[i] = fixed[i]
    <3> HIDE DEF E
    <3> QED  BY <1>1, <2>2, AppendIs
  <2>6. \A i \in 1..Len(fixed) : fixed[i].addr # Floating
    BY <1>1, PortFacts
  <2> HIDE DEF t
  <2>7. \A i \in 1..Len(t) : i \in 1..Len(fixed) \/ i = Len(fixed) + 1
    BY <1>1, <2>5
  <2>8. \A i \in 1..Len(t) : t[i].net = net /\ EntryOf(t[i], s)
    BY <1>2, <2>3, <2>4, <2>5, <2>7
  <2>9. \A i, j \in 1..Len(t) : t[i].addr = t[j].addr => i = j
    BY <1>1, <2>3, <2>5, <2>6, <2>7
  <2> QED  BY <2>1, <2>5, <2>8, <2>9
<1>4. CASE ~(s.floating /\ s.ports[1].port.net = net)
  <2>1. EntriesOn(net, s) = fixed
    BY <1>4 DEF EntriesOn, fixed
  <2> QED  BY <1>1, <1>2, <2>1
<1> QED  BY <1>3, <1>4

\* An address is of one network.
LEMMA EntriesDiffer ==
  ASSUME NEW s, GoodPorts(s.ports), NEW e, NEW f, EntryOf(e, s), EntryOf(f, s), e.addr = f.addr
  PROVE  e.net = f.net
<1>1. CASE e.floating /\ f.floating
  BY <1>1 DEF EntryOf
<1>2. CASE e.floating /\ ~f.floating
  BY <1>2, PortFacts DEF EntryOf
<1>3. CASE ~e.floating /\ f.floating
  BY <1>3, PortFacts DEF EntryOf
<1>4. CASE ~e.floating /\ ~f.floating
  BY <1>4, PortFacts DEF EntryOf
<1> QED  BY <1>1, <1>2, <1>3, <1>4

\* An instance as the compute API may give it.
GoodServer(s) ==
  /\ GoodPorts(s.ports) /\ s.floating \in BOOLEAN
  /\ s.access4 \in Access4 /\ s.access6 \in Access6

\* What the flattened document holds.
LEMMA AddressEntriesAre ==
  ASSUME NEW s, GoodServer(s)
  PROVE  LET all == Document(s).addresses
         IN  /\ all \in Seq(EntriesOver(Addrs, Nets))
             /\ \A i \in 1..Len(all) : EntryOf(all[i], s)
             /\ \A i, j \in 1..Len(all) : all[i].addr = all[j].addr => i = j
<1> DEFINE n == Len(Networks)
           E == EntriesOver(Addrs, Nets)
           seqs == [k \in DOMAIN Networks |-> EntriesOn(Networks[k], s)]
<1>0. /\ n \in Nat /\ DOMAIN Networks = 1..n
      /\ \A k \in 1..n : Networks[k] \in Nets
      /\ \A k, m \in 1..n : Networks[k] = Networks[m] => k = m
  BY AddressesAssumption DEF Nets, IsInjective
<1>1. Document(s).addresses = FlattenSeq(seqs)
  BY DEF Document
<1>2. \A k \in 1..n :
        /\ seqs[k] = EntriesOn(Networks[k], s) /\ seqs[k] \in Seq(E)
        /\ \A i \in 1..Len(seqs[k]) : seqs[k][i].net = Networks[k] /\ EntryOf(seqs[k][i], s)
        /\ \A i, j \in 1..Len(seqs[k]) : seqs[k][i].addr = seqs[k][j].addr => i = j
  BY <1>0, EntriesOnAre DEF GoodServer
<1>3. seqs \in Seq(Seq(E)) /\ Len(seqs) = n
  <2>1. \A k \in 1..n : EntriesOn(Networks[k], s) \in Seq(E)
    BY <1>2
  <2> HIDE DEF E
  <2> QED  BY <1>0, <2>1
<1> HIDE DEF seqs, n
<1>4. CASE n = 0
  <2>1. FlattenSeq(seqs) = seqs
    BY <1>3, <1>4 DEF FlattenSeq
  <2>2. seqs \in Seq(E)
    BY <1>3, <1>4
  <2> QED  BY <1>1, <1>3, <1>4, <2>1, <2>2
<1>5. CASE n # 0
  <2>1. PICK run : FlattenRun(run, E, seqs)
    <3> HIDE DEF E
    <3> QED  BY <1>3, <1>5, FlattenRounds
  <2>2. /\ run \in [1..n -> Seq(E)] /\ run[1] = seqs[1] /\ FlattenSeq(seqs) = run[n]
        /\ \A k \in 2..n : run[k] = run[k - 1] \o seqs[k]
    BY <1>3, <2>1 DEF FlattenRun
  <2> DEFINE Good(t, k) ==
               /\ \A i \in 1..Len(t) : EntryOf(t[i], s) /\ \E m \in 1..k : t[i].net = Networks[m]
               /\ \A i, j \in 1..Len(t) : t[i].addr = t[j].addr => i = j
             T == {0} \cup {k \in 1..n : Good(run[k], k)}
  <2>3. ASSUME NEW k \in 1..n, k - 1 \in T PROVE k \in T
    <3>1. CASE k = 1
      <4>1. Good(seqs[1], 1)
        BY <1>0, <1>2, <3>1
      <4>2. Good(run[1], 1)
        <5> HIDE DEF Good
        <5> QED  BY <2>2, <4>1
      <4> HIDE DEF Good
      <4> QED  BY <3>1, <4>2
    <3>2. CASE k # 1
      <4> DEFINE r == run[k - 1]
                 q == seqs[k]
                 t == r \o q
      <4>1. k \in 2..n /\ k - 1 \in 1..n /\ k - 1 # 0
        BY <1>0, <3>2
      <4>2. Good(r, k - 1)
        <5> HIDE DEF Good
        <5> QED  BY <2>3, <4>1
      <4>3. run[k] = t
        BY <2>2, <4>1
      <4>4. r \in Seq(E) /\ q \in Seq(E)
        BY <1>2, <2>2, <4>1
      <4>5. /\ \A i \in 1..Len(q) : q[i].net = Networks[k] /\ EntryOf(q[i], s)
            /\ \A i, j \in 1..Len(q) : q[i].addr = q[j].addr => i = j
        BY <1>2
      <4> HIDE DEF r, q
      <4>6. /\ Len(t) = Len(r) + Len(q) /\ Len(r) \in Nat /\ Len(q) \in Nat
            /\ \A i \in 1..Len(r) : t[i] = r[i]
            /\ \A i \in 1..Len(q) : t[Len(r) + i] = q[i]
        <5> HIDE DEF E
        <5>1. Len(r) \in Nat /\ Len(q) \in Nat
          BY <4>4
        <5> QED  BY <4>4, <5>1
      <4> HIDE DEF t
      <4>7. \A i \in 1..Len(t) : \/ i \in 1..Len(r)
                                 \/ i - Len(r) \in 1..Len(q) /\ i = Len(r) + (i - Len(r))
        BY <4>6
      <4>8. \A i \in 1..Len(t) : EntryOf(t[i], s) /\ \E m \in 1..k : t[i].net = Networks[m]
        <5> SUFFICES ASSUME NEW i \in 1..Len(t)
                     PROVE  EntryOf(t[i], s) /\ \E m \in 1..k : t[i].net = Networks[m]
          OBVIOUS
        <5>1. CASE i \in 1..Len(r)
          <6>1. EntryOf(r[i], s) /\ \E m \in 1..(k - 1) : r[i].net = Networks[m]
            BY <4>2, <5>1
          <6>2. \A m \in 1..(k - 1) : m \in 1..k
            BY <1>0
          <6> QED  BY <4>6, <5>1, <6>1, <6>2
        <5>2. CASE i - Len(r) \in 1..Len(q) /\ i = Len(r) + (i - Len(r))
          <6>1. t[i] = q[i - Len(r)]
            BY <4>6, <5>2
          <6>2. k \in 1..k
            BY <1>0
          <6> QED  BY <4>5, <5>2, <6>1, <6>2
        <5> QED  BY <4>7, <5>1, <5>2
      <4>9. \A i \in 1..Len(r) : \A j \in 1..Len(q) : r[i].addr # q[j].addr
        <5> SUFFICES ASSUME NEW i \in 1..Len(r), NEW j \in 1..Len(q), r[i].addr = q[j].addr
                     PROVE  FALSE
          OBVIOUS
        <5>1. PICK m \in 1..(k - 1) : r[i].net = Networks[m]
          BY <4>2
        <5>2. r[i].net = q[j].net
          BY <4>2, <4>5, EntriesDiffer DEF GoodServer
        <5>3. m \in 1..n /\ m # k
          BY <1>0
        <5>4. Networks[m] = Networks[k]
          BY <4>5, <5>1, <5>2
        <5> QED  BY <1>0, <5>3, <5>4
      <4>10. ASSUME NEW i \in 1..Len(t), NEW j \in 1..Len(t), t[i].addr = t[j].addr PROVE i = j
        <5>1. CASE i \in 1..Len(r) /\ j \in 1..Len(r)
          BY <4>2, <4>6, <4>10, <5>1
        <5>2. CASE i \in 1..Len(r) /\ j \notin 1..Len(r)
          <6>1. j - Len(r) \in 1..Len(q) /\ t[j] = q[j - Len(r)] /\ t[i] = r[i]
            BY <4>6, <4>7, <5>2
          <6> QED  BY <4>9, <4>10, <5>2, <6>1
        <5>3. CASE i \notin 1..Len(r) /\ j \in 1..Len(r)
          <6>1. i - Len(r) \in 1..Len(q) /\ t[i] = q[i - Len(r)] /\ t[j] = r[j]
            BY <4>6, <4>7, <5>3
          <6> QED  BY <4>9, <4>10, <5>3, <6>1
        <5>4. CASE i \notin 1..Len(r) /\ j \notin 1..Len(r)
          <6>1. i - Len(r) \in 1..Len(q) /\ j - Len(r) \in 1..Len(q)
            BY <4>7, <5>4
          <6>2. t[i] = q[i - Len(r)] /\ t[j] = q[j - Len(r)]
            BY <4>6, <4>7, <5>4
          <6>3. i - Len(r) = j - Len(r)
            BY <4>5, <4>10, <6>1, <6>2
          <6> QED  BY <4>6, <6>3
        <5> QED  BY <5>1, <5>2, <5>3, <5>4
      <4>11. Good(t, k)
        BY <4>8, <4>10
      <4> HIDE DEF Good
      <4> QED  BY <4>3, <4>11
    <3> QED  BY <3>1, <3>2
  <2>4. n \in T
    <3> HIDE DEF T
    <3>1. 0 \in T
      BY DEF T
    <3>2. 0..n \subseteq T
      BY <1>0, <2>3, <3>1, BoundedInduction
    <3> QED  BY <1>0, <3>2
  <2>5. Good(run[n], n) /\ run[n] \in Seq(E)
    <3> HIDE DEF Good
    <3> QED  BY <1>0, <1>5, <2>2, <2>4
  <2> QED  BY <1>1, <2>2, <2>5
<1> QED  BY <1>4, <1>5

LEMMA DocumentIs ==
  ASSUME NEW s, GoodServer(s)
  PROVE  /\ GoodDocument(Document(s), Addrs, Nets)
         /\ \A i \in 1..Len(Document(s).addresses) : EntryOf(Document(s).addresses[i], s)
<1>1. Document(s).access4 = s.access4 /\ Document(s).access6 = s.access6
  BY DEF Document
<1>2. s.access4 \in Addrs \cup {None} /\ s.access6 \in Addrs \cup {None}
  BY DEF GoodServer, Addrs
<1> QED  BY <1>1, <1>2, AddressEntriesAre DEF GoodDocument

LEMMA InterfacesAre ==
  ASSUME NEW s, GoodPorts(s.ports)
  PROVE  /\ Interfaces(s) \in Seq(InterfacesOver(Addrs, Subnets))
         /\ Len(Interfaces(s)) = Len(s.ports)
         /\ \A k \in 1..Len(s.ports) :
              /\ Interfaces(s)[k].addr = s.ports[k].port.addr
              /\ Interfaces(s)[k].subnet = s.ports[k].port.subnet
              /\ Interfaces(s)[k].active = s.ports[k].active
<1> DEFINE i(k) == [addr |-> s.ports[k].port.addr, subnet |-> s.ports[k].port.subnet,
                    active |-> s.ports[k].active]
<1>1. Len(s.ports) \in Nat /\ DOMAIN s.ports = 1..Len(s.ports)
  BY PortFacts
<1>2. \A k \in 1..Len(s.ports) : i(k) \in InterfacesOver(Addrs, Subnets)
  BY PortFacts DEF InterfacesOver
<1>3. Interfaces(s) = [k \in 1..Len(s.ports) |-> i(k)]
  BY <1>1 DEF Interfaces
<1>4. Interfaces(s) \in Seq(InterfacesOver(Addrs, Subnets)) /\ Len(Interfaces(s)) = Len(s.ports)
  <2> HIDE DEF i
  <2> QED  BY <1>1, <1>2, <1>3
<1> QED  BY <1>3, <1>4

-----------------------------------------------------------------------------
(***************************************************************************)
(* What the environment makes of an instance.                              *)
(***************************************************************************)
LEMMA SeqOfIs ==
  ASSUME NEW E, NEW n \in Nat, NEW s
  PROVE  s \in SeqOf(E, n) <=> s \in Seq(E) /\ Len(s) <= n
<1>1. ASSUME s \in SeqOf(E, n) PROVE s \in Seq(E) /\ Len(s) <= n
  <2>1. PICK m \in 0..n : s \in [1..m -> E]
    BY <1>1 DEF SeqOf
  <2> QED  BY <2>1
<1>2. ASSUME s \in Seq(E), Len(s) <= n PROVE s \in SeqOf(E, n)
  <2>1. Len(s) \in 0..n /\ s \in [1..Len(s) -> E]
    BY <1>2
  <2> QED  BY <2>1 DEF SeqOf
<1> QED  BY <1>1, <1>2

LEMMA RemoveAtIs ==
  ASSUME NEW E, NEW s \in Seq(E), NEW k \in 1..Len(s)
  PROVE  /\ RemoveAt(s, k) \in Seq(E) /\ Len(RemoveAt(s, k)) = Len(s) - 1
         /\ \A i \in 1..(Len(s) - 1) : RemoveAt(s, k)[i] = IF i < k THEN s[i] ELSE s[i + 1]
<1> DEFINE before == SubSeq(s, 1, k - 1)
           after == SubSeq(s, k + 1, Len(s))
<1>1. Len(s) \in Nat /\ k \in Nat
  OBVIOUS
<1>2. before \in Seq(E) /\ Len(before) = k - 1 /\ \A i \in 1..(k - 1) : before[i] = s[i]
  BY <1>1
<1>3. /\ after \in Seq(E) /\ Len(after) = Len(s) - k
      /\ \A i \in 1..(Len(s) - k) : after[i] = s[k + i]
  BY <1>1
<1>4. RemoveAt(s, k) = before \o after
  BY DEF RemoveAt
<1> HIDE DEF before, after
<1>5. before \o after \in Seq(E) /\ Len(before \o after) = Len(s) - 1
  <2>1. before \in Seq(E) /\ after \in Seq(E)
    BY <1>2, <1>3
  <2>2. Len(before) + Len(after) = Len(s) - 1
    BY <1>1, <1>2, <1>3
  <2>3. before \o after \in Seq(E) /\ Len(before \o after) = Len(before) + Len(after)
    BY <2>1
  <2> QED  BY <2>2, <2>3
<1>6. ASSUME NEW i \in 1..(Len(s) - 1)
      PROVE  (before \o after)[i] = IF i < k THEN s[i] ELSE s[i + 1]
  <2>1. CASE i < k
    <3>1. i \in 1..Len(before)
      BY <1>1, <1>2, <2>1
    <3> QED  BY <1>2, <1>3, <2>1, <3>1
  <2>2. CASE ~(i < k)
    <3>1. i - (k - 1) \in 1..(Len(s) - k) /\ k + (i - (k - 1)) = i + 1
      BY <1>1, <2>2
    <3>2. (before \o after)[i] = after[i - (k - 1)]
      BY <1>1, <1>2, <1>3, <2>2, <3>1
    <3> QED  BY <1>3, <2>2, <3>1, <3>2
  <2> QED  BY <2>1, <2>2
<1> QED  BY <1>4, <1>5, <1>6

\* The changes of the ports of an instance.
LEMMA PlugKeeps ==
  ASSUME NEW ports, GoodPorts(ports), NEW x \in Attached,
         \A k \in 1..Len(ports) : ports[k].port # x.port
  PROVE  GoodPorts(Append(ports, x)) /\ Len(Append(ports, x)) = Len(ports) + 1
<1>1. /\ ports \in Seq(Attached) /\ Len(ports) \in Nat
      /\ \A i, j \in 1..Len(ports) : ports[i].port = ports[j].port => i = j
  BY DEF GoodPorts
<1> DEFINE s == Append(ports, x)
<1>2. /\ s \in Seq(Attached) /\ Len(s) = Len(ports) + 1 /\ s[Len(ports) + 1] = x
      /\ \A i \in 1..Len(ports) : s[i] = ports[i]
  BY <1>1, AppendIs
<1> HIDE DEF s
<1>3. \A i \in 1..Len(s) : i \in 1..Len(ports) \/ i = Len(ports) + 1
  BY <1>1, <1>2
<1>4. \A i, j \in 1..Len(s) : s[i].port = s[j].port => i = j
  BY <1>1, <1>2, <1>3
<1> QED  BY <1>2, <1>4 DEF GoodPorts, s

LEMMA UnplugKeeps ==
  ASSUME NEW ports, GoodPorts(ports), NEW k \in 1..Len(ports)
  PROVE  GoodPorts(RemoveAt(ports, k)) /\ Len(RemoveAt(ports, k)) = Len(ports) - 1
<1>1. /\ ports \in Seq(Attached) /\ Len(ports) \in Nat
      /\ \A i, j \in 1..Len(ports) : ports[i].port = ports[j].port => i = j
  BY DEF GoodPorts
<1> DEFINE s == RemoveAt(ports, k)
<1>2. /\ s \in Seq(Attached) /\ Len(s) = Len(ports) - 1
      /\ \A i \in 1..(Len(ports) - 1) : s[i] = IF i < k THEN ports[i] ELSE ports[i + 1]
  BY <1>1, RemoveAtIs
<1> HIDE DEF s
<1>3. \A i \in 1..Len(s) : i \in 1..Len(ports) /\ i + 1 \in 1..Len(ports)
  BY <1>1, <1>2
<1>4. ASSUME NEW i \in 1..Len(s), NEW j \in 1..Len(s), s[i].port = s[j].port PROVE i = j
  <2>1. /\ s[i] = IF i < k THEN ports[i] ELSE ports[i + 1]
        /\ s[j] = IF j < k THEN ports[j] ELSE ports[j + 1]
    BY <1>2
  <2>2. (IF i < k THEN i ELSE i + 1) = (IF j < k THEN j ELSE j + 1)
    BY <1>1, <1>3, <1>4, <2>1
  <2> QED  BY <1>1, <1>3, <2>2
<1> QED  BY <1>2, <1>4 DEF GoodPorts, s

LEMMA SwitchKeeps ==
  ASSUME NEW ports, GoodPorts(ports), NEW k \in 1..Len(ports)
  PROVE  LET s == [ports EXCEPT ![k].active = ~@]
         IN  GoodPorts(s) /\ Len(s) = Len(ports)
<1> DEFINE x == [ports[k] EXCEPT !.active = ~@]
           s == [ports EXCEPT ![k] = x]
<1>1. /\ ports \in Seq(Attached) /\ Len(ports) \in Nat
      /\ \A i, j \in 1..Len(ports) : ports[i].port = ports[j].port => i = j
  BY DEF GoodPorts
<1>2. ports[k] \in Attached /\ x.port = ports[k].port
  <2>1. ports[k] \in Attached
    BY <1>1
  <2> QED  BY <2>1 DEF Attached
<1>3. x \in Attached
  <2>1. PICK p \in Ports, b \in BOOLEAN : ports[k] = [port |-> p, active |-> b]
    BY <1>2 DEF Attached
  <2>2. x = [port |-> p, active |-> ~b]
    BY <2>1
  <2>3. PICK c \in BOOLEAN : c = ~b
    OBVIOUS
  <2>4. x = [port |-> p, active |-> c]
    BY <2>2, <2>3
  <2> HIDE DEF x
  <2> QED  BY <2>4 DEF Attached
<1> HIDE DEF x
<1>4. s \in Seq(Attached) /\ Len(s) = Len(ports)
  BY <1>1, <1>3
<1>5. \A i \in 1..Len(ports) : s[i].port = ports[i].port
  BY <1>1, <1>2
<1>6. [ports EXCEPT ![k].active = ~@] = s
  BY DEF x
<1> HIDE DEF s
<1>7. GoodPorts(s)
  BY <1>1, <1>4, <1>5 DEF GoodPorts
<1> QED  BY <1>4, <1>6, <1>7

\* A well-formed instance, with no port twice.
SoundServer(s) == s \in Servers /\ GoodPorts(s.ports)

LEMMA SoundIsGood ==
  ASSUME NEW s, SoundServer(s)
  PROVE  GoodServer(s) /\ Len(s.ports) \in Nat /\ Len(s.ports) <= MaxPorts
<1>1. s.ports \in SeqOf(Attached, MaxPorts) /\ MaxPorts \in Nat
  BY BoundsAssumption DEF SoundServer, Servers
<1>2. Len(s.ports) <= MaxPorts /\ Len(s.ports) \in Nat
  BY <1>1, SeqOfIs
<1> QED  BY <1>2 DEF SoundServer, GoodServer, Servers

LEMMA PortsSound ==
  ASSUME NEW s, SoundServer(s), NEW state \in {"unborn", "up", "gone"}, NEW ports, GoodPorts(ports),
         Len(ports) <= MaxPorts, NEW floating \in BOOLEAN
  PROVE  SoundServer([s EXCEPT !.state = state, !.ports = ports, !.floating = floating])
<1> DEFINE t == [s EXCEPT !.state = state, !.ports = ports, !.floating = floating]
<1>1. ports \in SeqOf(Attached, MaxPorts)
  BY SeqOfIs, BoundsAssumption DEF GoodPorts
<1>2. t \in Servers /\ t.ports = ports
  BY <1>1 DEF SoundServer, Servers
<1> QED  BY <1>2 DEF SoundServer

LEMMA AlteredSound ==
  ASSUME NEW i \in Up, SoundServer(cloud[i]), NEW t \in Altered(cloud[i])
  PROVE  SoundServer(t)
<1> DEFINE s == cloud[i]
           With(state, ports, floating) ==
             [s EXCEPT !.state = state, !.ports = ports, !.floating = floating]
           Deleted == {[s EXCEPT !.state = "gone", !.ports = <<>>, !.floating = FALSE]}
           Plugged == {[s EXCEPT !.ports = Append(@, x)] :
                         x \in {y \in Attached : Len(s.ports) < MaxPorts /\ y.port \notin InUse}}
           Unplugged == {[s EXCEPT !.ports = RemoveAt(@, k), !.floating = s.floating /\ k # 1] :
                           k \in DOMAIN s.ports}
           Switched == {[s EXCEPT !.ports[k].active = ~@] : k \in DOMAIN s.ports}
           Floated == {[s EXCEPT !.floating = ~@] : x \in IF s.ports = <<>> THEN {} ELSE {1}}
           Accessed4 == {[s EXCEPT !.access4 = a] : a \in Access4}
           Accessed6 == {[s EXCEPT !.access6 = a] : a \in Access6}
<1>a. Altered(s) = Deleted \cup Plugged \cup Unplugged \cup Switched \cup Floated
                     \cup Accessed4 \cup Accessed6
  BY Zenon DEF Altered
<1>u. \A k \in 1..Len(s.ports) : s.ports[k].port \in InUse
  <2> SUFFICES ASSUME NEW k \in 1..Len(s.ports) PROVE s.ports[k].port \in InUse
    OBVIOUS
  <2>1. s.ports[k] \in ToSet(s.ports)
    BY SequenceFacts DEF SoundServer, GoodPorts
  <2>2. s.ports[k].port \in {x.port : x \in ToSet(cloud[i].ports)}
    BY <2>1
  <2> QED  BY <2>2, Zenon DEF InUse
<1>0. /\ SoundServer(s) /\ s \in Servers /\ GoodPorts(s.ports) /\ s.floating \in BOOLEAN
      /\ s.state \in {"unborn", "up", "gone"}
      /\ DOMAIN s.ports = 1..Len(s.ports) /\ Len(s.ports) \in Nat /\ Len(s.ports) <= MaxPorts
      /\ MaxPorts \in Nat
  BY SoundIsGood, PortFacts, BoundsAssumption DEF SoundServer, Servers
<1> HIDE DEF s
<1>w. \A state, ports, floating :
        /\ state \in {"unborn", "up", "gone"} /\ floating \in BOOLEAN
        /\ GoodPorts(ports) /\ Len(ports) <= MaxPorts
        => SoundServer(With(state, ports, floating))
  BY <1>0, PortsSound
<1>r. s = [state |-> s.state, ports |-> s.ports, floating |-> s.floating,
           access4 |-> s.access4, access6 |-> s.access6]
  BY <1>0 DEF Servers
<1>1. CASE t \in Deleted
  <2>1. t = With("gone", <<>>, FALSE)
    BY <1>1
  <2>2. GoodPorts(<<>>) /\ Len(<<>>) <= MaxPorts
    BY <1>0 DEF GoodPorts
  <2> HIDE DEF With
  <2> QED  BY <1>w, <2>1, <2>2
<1>2. CASE t \in Plugged
  <2>1. PICK x \in Attached : /\ Len(s.ports) < MaxPorts /\ x.port \notin InUse
                              /\ t = [s EXCEPT !.ports = Append(@, x)]
    BY <1>2
  <2>2. t = With(s.state, Append(s.ports, x), s.floating)
    BY <1>r, <2>1
  <2>3. GoodPorts(Append(s.ports, x)) /\ Len(Append(s.ports, x)) = Len(s.ports) + 1
    BY <1>0, <1>u, <2>1, PlugKeeps
  <2>4. Len(Append(s.ports, x)) <= MaxPorts
    BY <1>0, <2>1, <2>3
  <2> HIDE DEF With
  <2>5. SoundServer(With(s.state, Append(s.ports, x), s.floating))
    BY <1>0, <1>w, <2>3, <2>4
  <2> QED  BY <2>2, <2>5
<1>3. CASE t \in Unplugged
  <2>1. PICK k \in 1..Len(s.ports) :
          t = [s EXCEPT !.ports = RemoveAt(@, k), !.floating = s.floating /\ k # 1]
    BY <1>0, <1>3
  <2>2. t = With(s.state, RemoveAt(s.ports, k), s.floating /\ k # 1)
    BY <1>r, <2>1
  <2>3. GoodPorts(RemoveAt(s.ports, k)) /\ Len(RemoveAt(s.ports, k)) = Len(s.ports) - 1
    BY <1>0, UnplugKeeps
  <2>4. (s.floating /\ k # 1) \in BOOLEAN
    OBVIOUS
  <2>5. Len(RemoveAt(s.ports, k)) <= MaxPorts
    BY <1>0, <2>3
  <2> HIDE DEF With
  <2>6. SoundServer(With(s.state, RemoveAt(s.ports, k), s.floating /\ k # 1))
    BY <1>0, <1>w, <2>3, <2>4, <2>5
  <2> QED  BY <2>2, <2>6
<1>4. CASE t \in Switched
  <2>1. PICK k \in 1..Len(s.ports) : t = [s EXCEPT !.ports[k].active = ~@]
    BY <1>0, <1>4
  <2> DEFINE ports == [s.ports EXCEPT ![k].active = ~@]
  <2>2. GoodPorts(ports) /\ Len(ports) = Len(s.ports)
    BY <1>0, SwitchKeeps
  <2>3. t = [s EXCEPT !.ports = ports]
    BY <2>1
  <2> HIDE DEF ports
  <2>4. t = With(s.state, ports, s.floating)
    BY <1>r, <2>3
  <2> HIDE DEF With
  <2> QED  BY <1>0, <1>w, <2>2, <2>4
<1>5. CASE t \in Floated
  <2>1. t = [s EXCEPT !.floating = ~@]
    BY <1>5
  <2>2. t = With(s.state, s.ports, ~s.floating)
    BY <1>r, <2>1
  <2> HIDE DEF With
  <2> QED  BY <1>0, <1>w, <2>2
<1>6. CASE t \in Accessed4 \cup Accessed6
  <2>1. t \in Servers /\ t.ports = s.ports
    BY <1>0, <1>6 DEF Servers
  <2> QED  BY <1>0, <2>1 DEF SoundServer
<1>7. t \in Altered(s)
  BY DEF s
<1> HIDE DEF Deleted, Plugged, Unplugged, Switched, Floated, Accessed4, Accessed6
<1> QED  BY <1>a, <1>1, <1>2, <1>3, <1>4, <1>5, <1>6, <1>7

-----------------------------------------------------------------------------
(***************************************************************************)
(* The private addresses in the list of an instance are supported ones of  *)
(* its ports.                                                              *)
(***************************************************************************)
LEMMA InternalIsPort ==
  ASSUME NEW s, GoodServer(s), NEW o, NEW a,
         "InternalIP" \in TypesOf(a, Document(s), Interfaces(s), o)
  PROVE  Supported(a, o) /\ \E m \in 1..Len(s.ports) : s.ports[m].port.addr = a
<1> DEFINE server == Document(s)
           interfaces == Interfaces(s)
           Port(b) == \E m \in 1..Len(s.ports) : s.ports[m].port.addr = b
<1>1. /\ server.addresses \in Seq(EntriesOver(Addrs, Nets))
      /\ \A i \in 1..Len(server.addresses) : EntryOf(server.addresses[i], s)
      /\ \A i, j \in 1..Len(server.addresses) :
           server.addresses[i].addr = server.addresses[j].addr => i = j
  BY DocumentIs DEF GoodDocument
<1>2. /\ interfaces \in Seq(InterfacesOver(Addrs, Subnets)) /\ Len(interfaces) = Len(s.ports)
      /\ \A k \in 1..Len(s.ports) : interfaces[k].addr = s.ports[k].port.addr
  BY InterfacesAre DEF GoodServer
<1>3. "InternalIP" \in TypesOf(a, server, interfaces, o)
  OBVIOUS
<1> HIDE DEF server, interfaces
<1>4. ASSUME "InternalIP" \in TypesBefore(a, server, interfaces, o)
      PROVE  Supported(a, o) /\ Port(a)
  <2>1. Supported(a, o) /\ \E i \in ToSet(interfaces) : i.active /\ i.addr = a
    BY <1>4 DEF TypesBefore
  <2>2. \A x : x \in ToSet(interfaces) <=> \E m \in 1..Len(interfaces) : interfaces[m] = x
    BY <1>2, SequenceFacts
  <2> QED  BY <1>2, <2>1, <2>2
<1>5. CASE \A m \in 1..Len(server.addresses) : server.addresses[m].addr # a
  <2>1. TypesOf(a, server, interfaces, o) = TypesBefore(a, server, interfaces, o)
    BY <1>1, <1>5, TypesOfOthers
  <2> QED  BY <1>3, <1>4, <2>1
<1>6. CASE \E m \in 1..Len(server.addresses) : server.addresses[m].addr = a
  <2>1. PICK m \in 1..Len(server.addresses) : server.addresses[m].addr = a
    BY <1>6
  <2> DEFINE e == server.addresses[m]
  <2>2. \A k \in 1..Len(server.addresses) : server.addresses[k].addr = e.addr => k = m
    BY <1>1
  <2>3. TypesOf(e.addr, server, interfaces, o)
          = PlacedTypes(TypesBefore(e.addr, server, interfaces, o), e, o)
    BY <1>1, <2>2, TypesOfIs
  <2>4. EntryOf(e, s) /\ e.addr = a
    BY <1>1, <2>1
  <2> HIDE DEF e
  <2>5. "InternalIP" \in PlacedTypes(TypesBefore(a, server, interfaces, o), e, o)
    BY <1>3, <2>3, <2>4
  <2>6. CASE "InternalIP" \in TypesBefore(a, server, interfaces, o)
    BY <1>4, <2>6
  <2>7. CASE "InternalIP" \notin TypesBefore(a, server, interfaces, o)
    <3>1. ~e.floating /\ Supported(e.addr, o)
      BY <2>5, <2>7 DEF PlacedTypes
    <3> QED  BY <2>4, <3>1 DEF EntryOf
  <2> QED  BY <2>6, <2>7
<1> QED  BY <1>5, <1>6

\* What is known of the current list of a well-formed instance.
LEMMA CurrentIs ==
  ASSUME NEW s, GoodServer(s), NEW o, o.noV6 \in BOOLEAN
  PROVE  LET addrs == Addresses(Document(s), Interfaces(s), o)
         IN  /\ addrs \in Seq(Elements(Addrs))
             /\ \A a \in Addrs :
                  TypesIn(addrs, a) = TypesOf(a, Document(s), Interfaces(s), o)
             /\ \A i \in 1..Len(addrs) :
                  addrs[i].type = "InternalIP" =>
                    \E m \in 1..Len(s.ports) : s.ports[m].port.addr = addrs[i].addr
<1> DEFINE addrs == Addresses(Document(s), Interfaces(s), o)
<1>1. None \notin Addrs
  BY DEF Addrs
<1>2. GoodDocument(Document(s), Addrs, Nets)
  BY DocumentIs
<1>3. Interfaces(s) \in Seq(InterfacesOver(Addrs, Subnets))
  BY InterfacesAre DEF GoodServer
<1>4. /\ addrs \in Seq(Elements(Addrs))
      /\ \A a \in Addrs : TypesIn(addrs, a) = TypesOf(a, Document(s), Interfaces(s), o)
  BY <1>1, <1>2, <1>3, AddressesAre
<1> HIDE DEF addrs
<1>5. ASSUME NEW i \in 1..Len(addrs), addrs[i].type = "InternalIP"
      PROVE  \E m \in 1..Len(s.ports) : s.ports[m].port.addr = addrs[i].addr
  <2>1. addrs[i] \in Elements(Addrs)
    BY <1>4
  <2>2. addrs[i].addr \in Addrs /\ addrs[i] = NodeAddress("InternalIP", addrs[i].addr)
    BY <1>5, <2>1, ElementIs
  <2>3. Contains(addrs, NodeAddress("InternalIP", addrs[i].addr))
    BY <2>2 DEF Contains
  <2>4. "InternalIP" \in TypesIn(addrs, addrs[i].addr)
    BY <2>3 DEF TypesIn, Types
  <2> QED  BY <1>4, <2>2, <2>4, InternalIsPort
<1> QED  BY <1>4, <1>5 DEF addrs

LEMMA SubnetIsOfPort ==
  ASSUME NEW s, GoodServer(s), NEW o, o.noV6 \in BOOLEAN,
         \E x \in ToSet(Addresses(Document(s), Interfaces(s), o)) : x.type = "InternalIP"
  PROVE  LET a == AddressForLB(Addresses(Document(s), Interfaces(s), o))
         IN  \E x \in ToSet(s.ports) :
               x.port.addr = a /\ x.port.subnet = SubnetOf(a, Interfaces(s))
<1> DEFINE addrs == Addresses(Document(s), Interfaces(s), o)
<1>1. /\ addrs \in Seq(Elements(Addrs))
      /\ \A i \in 1..Len(addrs) :
           addrs[i].type = "InternalIP" =>
             \E m \in 1..Len(s.ports) : s.ports[m].port.addr = addrs[i].addr
  BY CurrentIs
<1>2. \E x \in ToSet(addrs) : x.type = "InternalIP"
  OBVIOUS
<1> HIDE DEF addrs
<1>3. \A x : x \in ToSet(addrs) <=> \E i \in 1..Len(addrs) : addrs[i] = x
  BY <1>1, SequenceFacts
<1>4. \E i \in 1..Len(addrs) : addrs[i].type = "InternalIP" /\ addrs[i].addr \in AddressesIn(addrs)
  BY <1>2, <1>3 DEF AddressesIn
<1>5. PICK i \in 1..Len(addrs) :
        /\ addrs[i].type = "InternalIP"
        /\ PreferInternal(addrs, AddressesIn(addrs)) = addrs[i].addr
  BY <1>1, <1>4, PreferInternalIs
<1>6. PICK m \in 1..Len(s.ports) : s.ports[m].port.addr = addrs[i].addr
  BY <1>1, <1>5
<1>7. AddressForLB(addrs) = s.ports[m].port.addr
  BY <1>5, <1>6 DEF AddressForLB
<1>8. /\ Interfaces(s) \in Seq(InterfacesOver(Addrs, Subnets))
      /\ Len(Interfaces(s)) = Len(s.ports)
      /\ \A k \in 1..Len(s.ports) : /\ Interfaces(s)[k].addr = s.ports[k].port.addr
                                    /\ Interfaces(s)[k].subnet = s.ports[k].port.subnet
  BY InterfacesAre DEF GoodServer
<1>9. \A k \in 1..Len(s.ports) : s.ports[k].port.addr = s.ports[m].port.addr => k = m
  BY PortFacts DEF GoodServer
<1>10. SubnetOf(s.ports[m].port.addr, Interfaces(s)) = s.ports[m].port.subnet
  <2> DEFINE interfaces == Interfaces(s)
  <2>1. /\ interfaces \in Seq(InterfacesOver(Addrs, Subnets)) /\ m \in 1..Len(interfaces)
        /\ \A k \in 1..Len(interfaces) : interfaces[k].addr = interfaces[m].addr => k = m
        /\ interfaces[m].addr = s.ports[m].port.addr
        /\ interfaces[m].subnet = s.ports[m].port.subnet
    BY <1>8, <1>9
  <2> HIDE DEF interfaces
  <2>2. SubnetOf(interfaces[m].addr, interfaces) = interfaces[m].subnet
    BY <2>1, SubnetOfIs
  <2>3. SubnetOf(s.ports[m].port.addr, interfaces) = s.ports[m].port.subnet
    BY <2>1, <2>2
  <2> QED  BY <2>3 DEF interfaces
<1>11. s.ports[m] \in ToSet(s.ports)
  BY SequenceFacts DEF GoodServer, GoodPorts
<1> QED  BY <1>7, <1>10, <1>11 DEF addrs

LEMMA HopIsPort ==
  ASSUME NEW s, GoodServer(s), NEW o, o.noV6 \in BOOLEAN, NEW k \in 1..Len(s.ports),
         "InternalIP" \in TypesOf(s.ports[k].port.addr, Document(s), Interfaces(s), o)
  PROVE  LET a == s.ports[k].port.addr
             hop == AddressByName(Addresses(Document(s), Interfaces(s), o), a \in V6, o)
         IN  OnPort(hop, Interfaces(s)) /\ (hop \in V6 <=> a \in V6)
<1> DEFINE a == s.ports[k].port.addr
           addrs == Addresses(Document(s), Interfaces(s), o)
           among == {b \in AddressesIn(addrs) : b \in V6 <=> a \in V6}
<1>1. /\ addrs \in Seq(Elements(Addrs))
      /\ \A b \in Addrs : TypesIn(addrs, b) = TypesOf(b, Document(s), Interfaces(s), o)
      /\ \A i \in 1..Len(addrs) :
           addrs[i].type = "InternalIP" =>
             \E m \in 1..Len(s.ports) : s.ports[m].port.addr = addrs[i].addr
  BY CurrentIs
<1>2. a \in Addrs
  BY PortFacts DEF GoodServer
<1>3. Supported(a, o)
  BY InternalIsPort
<1>4. AddressByName(addrs, a \in V6, o) = PreferInternal(addrs, among)
  BY <1>3 DEF Supported, AddressByName
<1>5. "InternalIP" \in TypesIn(addrs, a)
  BY <1>1, <1>2
<1> HIDE DEF addrs
<1>6. PICK p \in 1..Len(addrs) : addrs[p] = NodeAddress("InternalIP", a)
  BY <1>5 DEF TypesIn, Contains
<1>7. addrs[p].type = "InternalIP" /\ addrs[p].addr = a
  BY <1>6 DEF NodeAddress
<1>8. \A x : x \in ToSet(addrs) <=> \E i \in 1..Len(addrs) : addrs[i] = x
  BY <1>1, SequenceFacts
<1>9. addrs[p].addr \in among
  BY <1>7, <1>8 DEF AddressesIn
<1>10. PICK i \in 1..Len(addrs) : /\ addrs[i].type = "InternalIP" /\ addrs[i].addr \in among
                                  /\ PreferInternal(addrs, among) = addrs[i].addr
  <2> HIDE DEF among
  <2> QED  BY <1>1, <1>7, <1>9, PreferInternalIs
<1> DEFINE hop == addrs[i].addr
<1>11. hop \in V6 <=> a \in V6
  BY <1>10
<1>12. PICK m \in 1..Len(s.ports) : s.ports[m].port.addr = hop
  BY <1>1, <1>10
<1>13. /\ DOMAIN Interfaces(s) = 1..Len(s.ports)
       /\ \A j \in 1..Len(s.ports) : Interfaces(s)[j].addr = s.ports[j].port.addr
  BY InterfacesAre, SequenceFacts DEF GoodServer
<1>14. OnPort(hop, Interfaces(s))
  BY <1>12, <1>13 DEF OnPort
<1> QED  BY <1>4, <1>10, <1>11, <1>14 DEF addrs

-----------------------------------------------------------------------------
(***************************************************************************)
(* The shape of the state: instances with distinct ports, and documents    *)
(* that give no address twice.                                             *)
(***************************************************************************)
IDs == ServerIDs \cup {None}
Documents == [access4 : Addrs \cup {None}, access6 : Addrs \cup {None},
              addresses : Seq(EntriesOver(Addrs, Nets))]

NodeRecords ==
  [status : {"absent", "tainted", "ready"}, pid : IDs, zone : IDs, addrs : Seq(Elements(Addrs))]

UpdateRecords ==
  [pc : {"idle", "identify", "vouch", "zone", "zoneByName", "initialise",
         "exists", "get", "byName", "interfaces", "publish"},
   new : BOOLEAN, pid : IDs, id : IDs, zone : IDs,
   server : Documents, interfaces : Seq(InterfacesOver(Addrs, Subnets))]

MonitorRecords ==
  [pc : {"idle", "identify", "exists", "delete"}, id : IDs, before : SUBSET ServerIDs]

CloudInv == cloud \in [ServerIDs -> Servers] /\ \A i \in ServerIDs : SoundServer(cloud[i])

NodeInv(n) == n \in NodeRecords /\ (n.status = "tainted" => n.pid = None /\ n.zone = None)

UpdateInv(u) ==
  /\ u \in UpdateRecords /\ GoodDocument(u.server, Addrs, Nets)
  /\ u.pc \in {"interfaces", "publish"} => u.id # None

CountInv == changes \in 0..MaxChanges /\ faults \in 0..MaxFaults

StateInv ==
  /\ CloudInv /\ opts \in Options /\ NodeInv(node) /\ UpdateInv(update)
  /\ monitor \in MonitorRecords /\ CountInv

LEMMA UnbornSound == SoundServer(Unborn)
<1>1. <<>> \in SeqOf(Attached, MaxPorts)
  <2>1. <<>> \in Seq(Attached) /\ Len(<<>>) <= MaxPorts
    BY BoundsAssumption
  <2> QED  BY <2>1, SeqOfIs, BoundsAssumption
<1>2. Unborn \in Servers
  BY <1>1, AddressesAssumption DEF Unborn, Servers
<1> QED  BY <1>2 DEF SoundServer, GoodPorts, Unborn

LEMMA DocumentsAre ==
  ASSUME NEW s, SoundServer(s)
  PROVE  Document(s) \in Documents /\ GoodDocument(Document(s), Addrs, Nets)
<1>1. GoodServer(s)
  BY SoundIsGood
<1>2. GoodDocument(Document(s), Addrs, Nets)
  BY <1>1, DocumentIs
<1>3. Document(s) = [access4 |-> Document(s).access4, access6 |-> Document(s).access6,
                     addresses |-> Document(s).addresses]
  BY DEF Document
<1> QED  BY <1>2, <1>3 DEF GoodDocument, Documents

LEMMA IdleUpdateInv == UpdateInv(IdleUpdate)
<1>1. NoDocument \in Documents /\ GoodDocument(NoDocument, Addrs, Nets)
  BY UnbornSound, DocumentsAre DEF NoDocument
<1>2. IdleUpdate \in UpdateRecords
  BY <1>1 DEF IdleUpdate, UpdateRecords, IDs
<1> QED  BY <1>1, <1>2 DEF UpdateInv, IdleUpdate

LEMMA IdleMonitorInv == IdleMonitor \in MonitorRecords
BY DEF IdleMonitor, MonitorRecords, IDs

LEMMA NoNodeInv == NodeInv(NoNode)
<1>1. NoNode \in NodeRecords
  BY DEF NoNode, NodeRecords, IDs
<1> QED  BY <1>1 DEF NodeInv, NoNode

LEMMA FaultsIn ==
  ASSUME NEW faulty \in BOOLEAN, Faulty(faulty), faults \in 0..MaxFaults
  PROVE  faults' \in 0..MaxFaults
BY BoundsAssumption DEF Faulty

LEMMA LookedUp ==
  ASSUME NEW pid \in IDs, NEW faulty \in BOOLEAN
  PROVE  /\ ByName(faulty) \in ServerIDs \cup {None, "error"}
         /\ ServerOf(pid, faulty) # "error" => ServerOf(pid, faulty) = pid /\ pid \in ServerIDs
BY ByNameIs DEF ServerOf, Up

\* A step of the node controller that writes nothing to the node.
LEMMA UpdateStep ==
  ASSUME StateInv, UNCHANGED <<world, node, monitor>>, UpdateInv(update'),
         faults' \in 0..MaxFaults
  PROVE  StateInv'
<1>1. UNCHANGED <<cloud, opts, node, monitor, changes>>
  BY DEF world
<1>2. CloudInv'
  BY <1>1 DEF StateInv, CloudInv
<1>3. CountInv'
  BY <1>1 DEF StateInv, CountInv
<1>4. NodeInv(node)'
  BY <1>1 DEF StateInv, NodeInv
<1>5. UpdateInv(update)'
  BY DEF UpdateInv
<1> QED  BY <1>1, <1>2, <1>3, <1>4, <1>5 DEF StateInv

LEMMA NextUpdate ==
  ASSUME UpdateInv(update), NEW pc \in {"vouch", "zone", "zoneByName", "initialise",
                                        "exists", "get", "byName", "identify"}
  PROVE  /\ UpdateInv([update EXCEPT !.pc = pc])
         /\ \A pid \in IDs : UpdateInv([update EXCEPT !.pid = pid, !.pc = pc])
         /\ \A id \in IDs : UpdateInv([update EXCEPT !.id = id, !.pc = pc])
         /\ \A zone \in IDs : UpdateInv([update EXCEPT !.pc = pc, !.zone = zone])
         /\ \A pid \in IDs : \A new \in BOOLEAN :
              UpdateInv([update EXCEPT !.pid = pid, !.id = pid, !.new = new, !.pc = pc])
         /\ UpdateInv([update EXCEPT !.pc = pc, !.server = NoDocument])
<1>1. update \in UpdateRecords /\ GoodDocument(update.server, Addrs, Nets)
  BY DEF UpdateInv
<1>2. NoDocument \in Documents /\ GoodDocument(NoDocument, Addrs, Nets)
  BY UnbornSound, DocumentsAre DEF NoDocument
<1>3. UpdateInv([update EXCEPT !.pc = pc])
  BY <1>1 DEF UpdateInv, UpdateRecords
<1>4. ASSUME NEW id \in IDs
      PROVE  /\ UpdateInv([update EXCEPT !.pid = id, !.pc = pc])
             /\ UpdateInv([update EXCEPT !.id = id, !.pc = pc])
             /\ UpdateInv([update EXCEPT !.pc = pc, !.zone = id])
  <2>1. UpdateInv([update EXCEPT !.pid = id, !.pc = pc])
    BY <1>1 DEF UpdateInv, UpdateRecords
  <2>2. UpdateInv([update EXCEPT !.id = id, !.pc = pc])
    BY <1>1 DEF UpdateInv, UpdateRecords
  <2>3. UpdateInv([update EXCEPT !.pc = pc, !.zone = id])
    BY <1>1 DEF UpdateInv, UpdateRecords
  <2> QED  BY <2>1, <2>2, <2>3
<1>5. ASSUME NEW pid \in IDs, NEW new \in BOOLEAN
      PROVE  UpdateInv([update EXCEPT !.pid = pid, !.id = pid, !.new = new, !.pc = pc])
  BY <1>1 DEF UpdateInv, UpdateRecords
<1>6. UpdateInv([update EXCEPT !.pc = pc, !.server = NoDocument])
  <2>1. [update EXCEPT !.pc = pc, !.server = NoDocument] \in UpdateRecords
    BY <1>1, <1>2 DEF UpdateRecords
  <2>2. /\ [update EXCEPT !.pc = pc, !.server = NoDocument].server = NoDocument
        /\ [update EXCEPT !.pc = pc, !.server = NoDocument].pc = pc
    BY <1>1 DEF UpdateRecords
  <2> QED  BY <1>2, <2>1, <2>2 DEF UpdateInv
<1> QED  BY <1>3, <1>4, <1>5, <1>6

\* The document of an instance that was looked up.
LEMMA DocumentRead ==
  ASSUME UpdateInv(update), CloudInv, NEW i \in ServerIDs, NEW pid \in IDs
  PROVE  UpdateInv([update EXCEPT !.pid = pid, !.id = i, !.pc = "interfaces",
                                  !.server = Document(cloud[i])])
<1> DEFINE server == Document(cloud[i])
           u == [update EXCEPT !.pid = pid, !.id = i, !.pc = "interfaces", !.server = server]
<1>1. server \in Documents /\ GoodDocument(server, Addrs, Nets)
  BY DocumentsAre DEF CloudInv
<1> HIDE DEF server
<1>2. i # None /\ i \in IDs
  BY ServersAssumption DEF IDs
<1>3. u \in UpdateRecords /\ u.server = server /\ u.id = i
  BY <1>1, <1>2 DEF UpdateInv, UpdateRecords
<1>4. UpdateInv(u)
  BY <1>1, <1>2, <1>3 DEF UpdateInv
<1> QED  BY <1>4 DEF server

LEMMA UpdatingSound ==
  ASSUME StateInv, Updating
  PROVE  StateInv'
<1>0. /\ CloudInv /\ UpdateInv(update) /\ NodeInv(node) /\ faults \in 0..MaxFaults
      /\ update.pid \in IDs /\ update.id \in IDs /\ update.zone \in IDs /\ node.pid \in IDs
      /\ update \in UpdateRecords /\ node \in NodeRecords /\ opts \in Options
  BY DEF StateInv, CountInv, UpdateInv, NodeInv, UpdateRecords, NodeRecords
<1>1. CASE BeginUpdate
  <2>1. /\ UNCHANGED <<world, node, monitor>> /\ faults' = faults
        /\ update' = [update EXCEPT
             !.pid = node.pid, !.id = node.pid, !.new = (node.status = "tainted"),
             !.pc = IF node.pid = None THEN "identify" ELSE "exists"]
    BY <1>1 DEF BeginUpdate
  <2>2. PICK new \in BOOLEAN : new = (node.status = "tainted")
    OBVIOUS
  <2>3. UpdateInv(update')
    BY <1>0, <2>1, <2>2, NextUpdate
  <2> QED  BY <1>0, <2>1, <2>3, UpdateStep
<1>2. CASE Identify
  <2>1. PICK faulty \in BOOLEAN :
          /\ Faulty(faulty)
          /\ LET i == InstanceID(faulty)
             IN  update' =
                   CASE update.new ->
                          [update EXCEPT !.pid = IF i = "error" THEN None ELSE i,
                                         !.pc = "vouch"]
                     [] ~update.new /\ i = "error" ->
                          [update EXCEPT !.pc = "get"]
                     [] ~update.new /\ i = None -> IdleUpdate
                     [] OTHER -> [update EXCEPT !.id = i, !.pc = "exists"]
    BY <1>2 DEF Identify
  <2>2. UNCHANGED <<world, node, monitor>>
    BY <1>2 DEF Identify
  <2> DEFINE i == InstanceID(faulty)
  <2>3. i \in ServerIDs \cup {None, "error"}
    BY <1>0, LookedUp DEF InstanceID
  <2>4. \/ update' = [update EXCEPT !.pid = IF i = "error" THEN None ELSE i, !.pc = "vouch"]
        \/ update' = [update EXCEPT !.pc = "get"]
        \/ update' = IdleUpdate
        \/ i \in ServerIDs /\ update' = [update EXCEPT !.id = i, !.pc = "exists"]
    <3> HIDE DEF i
    <3>1. CASE update.new
      BY <2>1, <3>1 DEF i
    <3>2. CASE ~update.new /\ i = "error"
      BY <2>1, <3>2, ServersAssumption DEF i
    <3>3. CASE ~update.new /\ i = None
      BY <2>1, <3>3, ServersAssumption DEF i
    <3>4. CASE ~update.new /\ i \in ServerIDs
      BY <2>1, <3>4, ServersAssumption DEF i
    <3> QED  BY <2>3, <3>1, <3>2, <3>3, <3>4
  <2>5. (IF i = "error" THEN None ELSE i) \in IDs
    BY <2>3 DEF IDs
  <2> HIDE DEF i
  <2>6. UpdateInv(update')
    <3>1. CASE update' = [update EXCEPT !.pid = IF i = "error" THEN None ELSE i, !.pc = "vouch"]
      BY <1>0, <2>5, <3>1, NextUpdate
    <3>2. CASE update' = [update EXCEPT !.pc = "get"]
      BY <1>0, <3>2, NextUpdate
    <3>3. CASE update' = IdleUpdate
      BY <3>3, IdleUpdateInv
    <3>4. CASE i \in ServerIDs /\ update' = [update EXCEPT !.id = i, !.pc = "exists"]
      <4>1. i \in IDs
        BY <3>4 DEF IDs
      <4> QED  BY <1>0, <3>4, <4>1, NextUpdate
    <3> QED  BY <2>4, <3>1, <3>2, <3>3, <3>4
  <2> QED  BY <1>0, <2>1, <2>2, <2>6, FaultsIn, UpdateStep
<1>3. CASE Vouch
  <2>1. PICK faulty \in BOOLEAN :
          /\ Faulty(faulty)
          /\ update' \in {IdleUpdate, [update EXCEPT !.pc = "zone"]}
    BY <1>3 DEF Vouch
  <2>2. UNCHANGED <<world, node, monitor>>
    BY <1>3 DEF Vouch
  <2>3. UpdateInv(update')
    BY <1>0, <2>1, NextUpdate, IdleUpdateInv
  <2> QED  BY <1>0, <2>1, <2>2, <2>3, FaultsIn, UpdateStep
<1>4. CASE ReadZone
  <2>1. PICK faulty \in BOOLEAN :
          /\ Faulty(faulty)
          /\ update' \in {[update EXCEPT !.pc = "zoneByName"],
                          [update EXCEPT !.pc = "initialise", !.zone = update.pid]}
    BY <1>4 DEF ReadZone
  <2>2. UNCHANGED <<world, node, monitor>>
    BY <1>4 DEF ReadZone
  <2>3. CASE update' = [update EXCEPT !.pc = "zoneByName"]
    <3>1. UpdateInv(update')
      BY <1>0, <2>3, NextUpdate
    <3> QED  BY <1>0, <2>1, <2>2, <3>1, FaultsIn, UpdateStep
  <2>4. CASE update' = [update EXCEPT !.pc = "initialise", !.zone = update.pid]
    <3>1. UpdateInv(update')
      BY <1>0, <2>4, NextUpdate
    <3> QED  BY <1>0, <2>1, <2>2, <3>1, FaultsIn, UpdateStep
  <2> QED  BY <2>1, <2>3, <2>4
<1>5. CASE ReadZoneByName
  <2>1. PICK faulty \in BOOLEAN :
          /\ Faulty(faulty)
          /\ update' = IF ByName(faulty) \notin ServerIDs THEN IdleUpdate
                       ELSE [update EXCEPT !.pc = "initialise", !.zone = ByName(faulty)]
    BY <1>5 DEF ReadZoneByName
  <2>2. UNCHANGED <<world, node, monitor>>
    BY <1>5 DEF ReadZoneByName
  <2>3. CASE ByName(faulty) \in ServerIDs
    <3>1. ByName(faulty) \in IDs
      BY <2>3 DEF IDs
    <3>2. UpdateInv(update')
      BY <1>0, <2>1, <2>3, <3>1, NextUpdate
    <3> QED  BY <1>0, <2>1, <2>2, <3>2, FaultsIn, UpdateStep
  <2>4. CASE ByName(faulty) \notin ServerIDs
    <3>1. UpdateInv(update')
      BY <2>1, <2>4, IdleUpdateInv
    <3> QED  BY <1>0, <2>1, <2>2, <3>1, FaultsIn, UpdateStep
  <2> QED  BY <2>3, <2>4
<1>6. CASE Initialise
  <2>1. /\ update' = IdleUpdate /\ UNCHANGED <<cloud, opts, changes, monitor, faults>>
        /\ node' = IF node.status # "tainted" THEN node
                   ELSE [node EXCEPT !.status = "ready", !.pid = update.pid,
                                     !.zone = update.zone]
    BY <1>6 DEF Initialise, world
  <2>2. NodeInv(node')
    BY <1>0, <2>1 DEF NodeInv, NodeRecords
  <2>3. UpdateInv(update')
    BY <2>1, IdleUpdateInv
  <2>4. CloudInv' /\ CountInv'
    BY <2>1 DEF StateInv, CloudInv, CountInv
  <2>5. NodeInv(node)' /\ UpdateInv(update)'
    BY <2>2, <2>3 DEF NodeInv, UpdateInv
  <2> QED  BY <2>1, <2>4, <2>5 DEF StateInv
<1>7. CASE CheckExists
  <2>1. PICK faulty \in BOOLEAN :
          /\ Faulty(faulty)
          /\ update' \in {IdleUpdate, [update EXCEPT !.pc = "get"]}
    BY <1>7 DEF CheckExists
  <2>2. UNCHANGED <<world, node, monitor>>
    BY <1>7 DEF CheckExists
  <2>3. UpdateInv(update')
    BY <1>0, <2>1, NextUpdate, IdleUpdateInv
  <2> QED  BY <1>0, <2>1, <2>2, <2>3, FaultsIn, UpdateStep
<1>8. CASE GetServer
  <2>1. PICK faulty \in BOOLEAN :
          /\ Faulty(faulty)
          /\ update' = IF ServerOf(update.pid, faulty) = "error"
                       THEN [update EXCEPT !.pc = "byName"]
                       ELSE [update EXCEPT !.id = ServerOf(update.pid, faulty),
                               !.pc = "interfaces",
                               !.server = Document(cloud[ServerOf(update.pid, faulty)])]
    BY <1>8 DEF GetServer
  <2>2. UNCHANGED <<world, node, monitor>>
    BY <1>8 DEF GetServer
  <2>3. CASE ServerOf(update.pid, faulty) = "error"
    <3>1. UpdateInv(update')
      BY <1>0, <2>1, <2>3, NextUpdate
    <3> QED  BY <1>0, <2>1, <2>2, <3>1, FaultsIn, UpdateStep
  <2>4. CASE ServerOf(update.pid, faulty) # "error"
    <3>1. ServerOf(update.pid, faulty) = update.pid /\ update.pid \in ServerIDs
      BY <1>0, <2>4, LookedUp
    <3>2. update' = [update EXCEPT !.id = update.pid, !.pc = "interfaces",
                                   !.server = Document(cloud[update.pid])]
      BY <2>1, <2>4, <3>1
    <3>3. update' = [update EXCEPT !.pid = update.pid, !.id = update.pid, !.pc = "interfaces",
                                   !.server = Document(cloud[update.pid])]
      BY <1>0, <3>2 DEF UpdateRecords
    <3>4. UpdateInv(update')
      BY <1>0, <3>1, <3>3, DocumentRead
    <3> QED  BY <1>0, <2>1, <2>2, <3>4, FaultsIn, UpdateStep
  <2> QED  BY <2>3, <2>4
<1>9. CASE GetServerByName
  <2>1. PICK faulty \in BOOLEAN :
          /\ Faulty(faulty)
          /\ update' = IF ByName(faulty) \notin ServerIDs THEN IdleUpdate
                       ELSE [update EXCEPT !.pid = None, !.id = ByName(faulty),
                               !.pc = "interfaces",
                               !.server = Document(cloud[ByName(faulty)])]
    BY <1>9 DEF GetServerByName
  <2>2. UNCHANGED <<world, node, monitor>>
    BY <1>9 DEF GetServerByName
  <2>3. CASE ByName(faulty) \in ServerIDs
    <3>1. None \in IDs
      BY DEF IDs
    <3>2. UpdateInv(update')
      BY <1>0, <2>1, <2>3, <3>1, DocumentRead
    <3> QED  BY <1>0, <2>1, <2>2, <3>2, FaultsIn, UpdateStep
  <2>4. CASE ByName(faulty) \notin ServerIDs
    <3>1. UpdateInv(update')
      BY <2>1, <2>4, IdleUpdateInv
    <3> QED  BY <1>0, <2>1, <2>2, <3>1, FaultsIn, UpdateStep
  <2> QED  BY <2>3, <2>4
<1>10. CASE ListInterfaces
  <2>1. PICK faulty \in BOOLEAN :
          /\ update.pc = "interfaces" /\ Faulty(faulty)
          /\ update' =
               CASE ~faulty /\ update.id \in Up ->
                      [update EXCEPT !.pc = "publish",
                                     !.interfaces = Interfaces(cloud[update.id])]
                 [] (faulty \/ update.id \notin Up) /\ update.pid # None ->
                      [update EXCEPT !.pc = "byName", !.server = NoDocument]
                 [] OTHER -> IdleUpdate
    BY <1>10 DEF ListInterfaces
  <2>2. UNCHANGED <<world, node, monitor>>
    BY <1>10 DEF ListInterfaces
  <2>3. CASE ~faulty /\ update.id \in Up
    <3>1. update.id \in ServerIDs /\ update.id # None
      BY <2>3, ServersAssumption DEF Up
    <3>2. GoodPorts(cloud[update.id].ports)
      BY <1>0, <3>1 DEF CloudInv, SoundServer
    <3>3. Interfaces(cloud[update.id]) \in Seq(InterfacesOver(Addrs, Subnets))
      BY <3>2, InterfacesAre
    <3>4. update' = [update EXCEPT !.pc = "publish", !.interfaces = Interfaces(cloud[update.id])]
      BY <2>1, <2>3
    <3>5. /\ update' \in UpdateRecords /\ update'.server = update.server
          /\ update'.id = update.id
      BY <1>0, <3>3, <3>4 DEF UpdateRecords
    <3>6. UpdateInv(update')
      BY <1>0, <3>1, <3>5 DEF UpdateInv
    <3> QED  BY <1>0, <2>1, <2>2, <3>6, FaultsIn, UpdateStep
  <2>4. CASE ~(~faulty /\ update.id \in Up) /\ update.pid # None
    <3>1. update' = [update EXCEPT !.pc = "byName", !.server = NoDocument]
      BY <2>1, <2>4
    <3>2. UpdateInv(update')
      BY <1>0, <3>1, NextUpdate
    <3> QED  BY <1>0, <2>1, <2>2, <3>2, FaultsIn, UpdateStep
  <2>5. CASE ~(~faulty /\ update.id \in Up) /\ update.pid = None
    <3>1. update' = IdleUpdate
      BY <2>1, <2>5
    <3>2. UpdateInv(update')
      BY <3>1, IdleUpdateInv
    <3> QED  BY <1>0, <2>1, <2>2, <3>2, FaultsIn, UpdateStep
  <2> QED  BY <2>3, <2>4, <2>5
<1>11. CASE Publish
  <2>1. /\ update' = IdleUpdate /\ UNCHANGED <<cloud, opts, changes, monitor, faults>>
        /\ node' = node \/ node' = [node EXCEPT !.addrs = Result]
    BY <1>11 DEF Publish, world
  <2>2. Result \in Seq(Elements(Addrs))
    <3>1. opts.noV6 \in BOOLEAN
      BY <1>0, OptionsAssumption
    <3>2. None \notin Addrs
      BY DEF Addrs
    <3>3. update.interfaces \in Seq(InterfacesOver(Addrs, Subnets))
      BY <1>0 DEF UpdateRecords
    <3> QED  BY <1>0, <3>1, <3>2, <3>3, AddressesAre DEF Result, UpdateInv
  <2>3. NodeInv(node')
    BY <1>0, <2>1, <2>2 DEF NodeInv, NodeRecords
  <2>4. UpdateInv(update')
    BY <2>1, IdleUpdateInv
  <2>5. CloudInv' /\ CountInv'
    BY <2>1 DEF StateInv, CloudInv, CountInv
  <2>6. NodeInv(node)' /\ UpdateInv(update)'
    BY <2>3, <2>4 DEF NodeInv, UpdateInv
  <2> QED  BY <2>1, <2>5, <2>6 DEF StateInv
<1> QED
  BY <1>1, <1>2, <1>3, <1>4, <1>5, <1>6, <1>7, <1>8, <1>9, <1>10, <1>11 DEF Updating

LEMMA MonitoringSound ==
  ASSUME StateInv, Monitoring
  PROVE  StateInv'
<1>0. /\ node.pid \in IDs /\ monitor \in MonitorRecords /\ faults \in 0..MaxFaults
      /\ Up \subseteq ServerIDs
  BY DEF StateInv, CountInv, NodeInv, NodeRecords, Up
<1>s. ASSUME UNCHANGED <<world, node, update>>, monitor' \in MonitorRecords,
             faults' \in 0..MaxFaults
      PROVE  StateInv'
  <2>1. UNCHANGED <<cloud, opts, node, update, changes>>
    BY <1>s DEF world
  <2>2. CloudInv' /\ CountInv' /\ NodeInv(node)' /\ UpdateInv(update)'
    BY <1>s, <2>1 DEF StateInv, CloudInv, CountInv, NodeInv, UpdateInv
  <2> QED  BY <1>s, <2>1, <2>2 DEF StateInv
<1>1. CASE BeginMonitor
  <2>1. /\ UNCHANGED <<world, node, update>> /\ faults' = faults
        /\ monitor' = [pc |-> IF node.pid = None THEN "identify" ELSE "exists",
                       id |-> node.pid,
                       before |-> IF node.pid = None THEN Up ELSE {node.pid}]
    BY <1>1 DEF BeginMonitor
  <2>2. (IF node.pid = None THEN Up ELSE {node.pid}) \in SUBSET ServerIDs
    BY <1>0 DEF IDs
  <2>3. monitor' \in MonitorRecords
    BY <1>0, <2>1, <2>2 DEF MonitorRecords
  <2> QED  BY <1>0, <1>s, <2>1, <2>3
<1>2. CASE MonitorIdentifies
  <2>1. PICK faulty \in BOOLEAN :
          /\ Faulty(faulty)
          /\ LET i == InstanceID(faulty)
             IN  monitor' = CASE i = "error" -> IdleMonitor
                              [] i = None -> [monitor EXCEPT !.pc = "delete"]
                              [] OTHER -> [monitor EXCEPT !.pc = "exists", !.id = i]
    BY <1>2 DEF MonitorIdentifies
  <2>2. UNCHANGED <<world, node, update>>
    BY <1>2 DEF MonitorIdentifies
  <2>3. ByName(faulty) \in ServerIDs \cup {None, "error"}
    BY ByNameIs
  <2>4. CASE ByName(faulty) = "error"
    <3>1. monitor' = IdleMonitor
      BY <2>1, <2>4, ServersAssumption DEF InstanceID
    <3> QED  BY <1>0, <1>s, <2>1, <2>2, <3>1, IdleMonitorInv, FaultsIn
  <2>5. CASE ByName(faulty) = None
    <3>1. monitor' = [monitor EXCEPT !.pc = "delete"]
      BY <2>1, <2>5, ServersAssumption DEF InstanceID
    <3>2. monitor' \in MonitorRecords
      BY <1>0, <3>1 DEF MonitorRecords
    <3> QED  BY <1>0, <1>s, <2>1, <2>2, <3>2, FaultsIn
  <2>6. CASE ByName(faulty) \in ServerIDs
    <3>1. monitor' = [monitor EXCEPT !.pc = "exists", !.id = ByName(faulty)]
      BY <2>1, <2>6, ServersAssumption DEF InstanceID
    <3>2. monitor' \in MonitorRecords
      BY <1>0, <2>6, <3>1 DEF MonitorRecords, IDs
    <3> QED  BY <1>0, <1>s, <2>1, <2>2, <3>2, FaultsIn
  <2> QED  BY <2>3, <2>4, <2>5, <2>6
<1>3. CASE MonitorChecks
  <2>1. PICK faulty \in BOOLEAN :
          /\ Faulty(faulty)
          /\ monitor' \in {IdleMonitor, [monitor EXCEPT !.pc = "delete"]}
    BY <1>3 DEF MonitorChecks
  <2>2. UNCHANGED <<world, node, update>>
    BY <1>3 DEF MonitorChecks
  <2>3. monitor' \in MonitorRecords
    BY <1>0, <2>1, IdleMonitorInv DEF MonitorRecords
  <2> QED  BY <1>0, <1>s, <2>1, <2>2, <2>3, FaultsIn
<1>4. CASE DeleteNode
  <2>1. /\ node' = NoNode /\ monitor' = IdleMonitor
        /\ UNCHANGED <<cloud, opts, changes, update, faults>>
    BY <1>4 DEF DeleteNode, world
  <2>2. CloudInv' /\ CountInv' /\ UpdateInv(update)'
    BY <2>1 DEF StateInv, CloudInv, CountInv, UpdateInv
  <2>3. NodeInv(node)'
    BY <2>1, NoNodeInv DEF NodeInv
  <2> QED  BY <2>1, <2>2, <2>3, IdleMonitorInv DEF StateInv
<1> QED  BY <1>1, <1>2, <1>3, <1>4 DEF Monitoring

LEMMA CloudSound ==
  ASSUME CloudInv, CloudChange
  PROVE  CloudInv'
<1>1. PICK i \in ServerIDs :
        \/ i \in Up /\ \E s \in Altered(cloud[i]) : cloud' = [cloud EXCEPT ![i] = s]
        \/ cloud[i].state = "unborn" /\ cloud' = [cloud EXCEPT ![i].state = "up"]
  BY DEF CloudChange
<1>2. \E s : SoundServer(s) /\ cloud' = [cloud EXCEPT ![i] = s]
  <2>1. CASE i \in Up /\ \E s \in Altered(cloud[i]) : cloud' = [cloud EXCEPT ![i] = s]
    BY <2>1, AlteredSound DEF CloudInv
  <2>2. CASE cloud' = [cloud EXCEPT ![i].state = "up"]
    <3>1. SoundServer([cloud[i] EXCEPT !.state = "up"])
      BY DEF CloudInv, SoundServer, Servers
    <3> QED  BY <2>2, <3>1
  <2> QED  BY <1>1, <2>1, <2>2
<1>3. PICK s : SoundServer(s) /\ cloud' = [cloud EXCEPT ![i] = s]
  BY <1>2
<1>4. cloud' \in [ServerIDs -> Servers]
  BY <1>3 DEF CloudInv, SoundServer
<1>5. \A j \in ServerIDs : cloud'[j] = IF j = i THEN s ELSE cloud[j]
  BY <1>3 DEF CloudInv
<1>6. \A j \in ServerIDs : SoundServer(cloud'[j])
  BY <1>3, <1>5 DEF CloudInv
<1> QED  BY <1>4, <1>6 DEF CloudInv, SoundServer, GoodPorts

LEMMA StateInit == Init => StateInv
<1> SUFFICES ASSUME Init PROVE StateInv
  OBVIOUS
<1>1. PICK first \in ServerIDs, p \in Ports :
        cloud = [i \in ServerIDs |->
                   IF i = first
                   THEN [Unborn EXCEPT !.state = "up", !.ports = <<[port |-> p, active |-> TRUE]>>]
                   ELSE Unborn]
  BY DEF Init
<1> DEFINE x == [port |-> p, active |-> TRUE]
           s == [Unborn EXCEPT !.state = "up", !.ports = <<x>>]
<1>2. SoundServer(s)
  <2>1. x \in Attached
    <3>1. PICK b \in BOOLEAN : b = TRUE
      OBVIOUS
    <3>2. [port |-> p, active |-> b] \in Attached
      BY DEF Attached
    <3> QED  BY <3>1, <3>2
  <2> HIDE DEF x
  <2>2. <<x>> \in Seq(Attached) /\ Len(<<x>>) = 1
    BY <2>1
  <2>3. GoodPorts(<<x>>)
    BY <2>2 DEF GoodPorts
  <2>4. <<x>> \in SeqOf(Attached, MaxPorts)
    <3>1. Len(<<x>>) <= MaxPorts /\ MaxPorts \in Nat
      BY <2>2, BoundsAssumption
    <3> QED  BY <2>2, <3>1, SeqOfIs
  <2>5. Unborn \in Servers
    BY UnbornSound DEF SoundServer
  <2>6. s \in Servers /\ s.ports = <<x>>
    BY <2>4, <2>5 DEF Servers
  <2> HIDE DEF s
  <2> QED  BY <2>3, <2>6 DEF SoundServer
<1> HIDE DEF s
<1>3. \A i \in ServerIDs : SoundServer(cloud[i]) /\ cloud[i] = IF i = first THEN s ELSE Unborn
  BY <1>1, <1>2, UnbornSound DEF s
<1>4. cloud \in [ServerIDs -> Servers]
  <2>1. s \in Servers /\ Unborn \in Servers
    BY <1>2, UnbornSound DEF SoundServer
  <2> QED  BY <1>1, <2>1 DEF s
<1>5. CloudInv
  BY <1>3, <1>4 DEF CloudInv
<1>6. CountInv
  BY BoundsAssumption DEF Init, CountInv
<1>7. node = NoNode /\ update = IdleUpdate /\ monitor = IdleMonitor /\ opts \in Options
  BY DEF Init
<1> QED  BY <1>5, <1>6, <1>7, NoNodeInv, IdleUpdateInv, IdleMonitorInv DEF StateInv

LEMMA StateKept == StateInv /\ [Next]_vars => StateInv'
<1> SUFFICES ASSUME StateInv, [Next]_vars PROVE StateInv'
  OBVIOUS
<1>1. CASE CloudChange
  <2>1. CloudInv'
    BY <1>1, CloudSound DEF StateInv
  <2>2. CountInv'
    BY <1>1, BoundsAssumption DEF StateInv, CountInv, CloudChange
  <2>3. UNCHANGED <<opts, node, update, monitor>>
    BY <1>1 DEF CloudChange
  <2>4. NodeInv(node)' /\ UpdateInv(update)'
    BY <2>3 DEF StateInv, NodeInv, UpdateInv
  <2> QED  BY <2>1, <2>2, <2>3, <2>4 DEF StateInv
<1>2. CASE Register
  <2>1. /\ node' = [NoNode EXCEPT !.status = "tainted"]
        /\ UNCHANGED <<cloud, opts, changes, update, monitor, faults>>
    BY <1>2 DEF Register, world
  <2>2. NodeInv([NoNode EXCEPT !.status = "tainted"])
    <3>1. NoNode \in NodeRecords /\ NoNode.pid = None /\ NoNode.zone = None
      BY NoNodeInv DEF NodeInv, NoNode
    <3> QED  BY <3>1 DEF NodeInv, NodeRecords
  <2>3. CloudInv' /\ CountInv' /\ UpdateInv(update)' /\ NodeInv(node)'
    BY <2>1, <2>2 DEF StateInv, CloudInv, CountInv, UpdateInv, NodeInv
  <2> QED  BY <2>1, <2>3 DEF StateInv
<1>3. CASE Restart
  <2>1. /\ Faulty(TRUE) /\ update' = IdleUpdate /\ monitor' = IdleMonitor
        /\ UNCHANGED <<cloud, opts, changes, node>>
    BY <1>3 DEF Restart, world
  <2>2. CountInv'
    BY <2>1, FaultsIn DEF StateInv, CountInv
  <2>3. CloudInv' /\ NodeInv(node)'
    BY <2>1 DEF StateInv, CloudInv, NodeInv
  <2>4. UpdateInv(update)'
    BY <2>1, IdleUpdateInv DEF UpdateInv
  <2> QED  BY <2>1, <2>2, <2>3, <2>4, IdleMonitorInv DEF StateInv
<1>4. CASE UNCHANGED vars
  BY <1>4 DEF vars, StateInv, CloudInv, CountInv, NodeInv, UpdateInv
<1> QED  BY <1>1, <1>2, <1>3, <1>4, UpdatingSound, MonitoringSound DEF Next

LEMMA StateHolds == Spec => []StateInv
BY StateInit, StateKept, PTL DEF Spec

\* Every variable has its type, and a pass that is about to read the interfaces, or to
\* write the addresses, has an instance.
THEOREM TypesHold == Spec => []TypeOK
<1>1. StateInv => TypeOK
  <2> SUFFICES ASSUME StateInv PROVE TypeOK
    OBVIOUS
  <2>1. /\ node.status \in {"absent", "tainted", "ready"}
        /\ node.pid \in ServerIDs \cup {None} /\ node.zone \in ServerIDs \cup {None}
        /\ node.addrs \in Seq(Elements(Addrs))
        /\ node.status = "tainted" => node.pid = None /\ node.zone = None
    BY DEF StateInv, NodeInv, NodeRecords, IDs
  <2>2. \A x \in ToSet(node.addrs) : x.type \in Types /\ x.addr # None
    <3>1. ToSet(node.addrs) \subseteq Elements(Addrs)
      BY <2>1, SequenceFacts
    <3>2. None \notin Addrs
      BY DEF Addrs
    <3> QED  BY <3>1, <3>2, ElementIs
  <2>3. /\ update.pc \in {"idle", "identify", "vouch", "zone", "zoneByName", "initialise",
                          "exists", "get", "byName", "interfaces", "publish"}
        /\ {update.pid, update.id, update.zone} \subseteq ServerIDs \cup {None}
        /\ update.pc \in {"interfaces", "publish"} => update.id # None
    BY DEF StateInv, UpdateInv, UpdateRecords, IDs
  <2>4. /\ monitor.pc \in {"idle", "identify", "exists", "delete"}
        /\ monitor.id \in ServerIDs \cup {None} /\ monitor.before \subseteq ServerIDs
    BY DEF StateInv, MonitorRecords, IDs
  <2> QED  BY <2>1, <2>2, <2>3, <2>4 DEF StateInv, CloudInv, CountInv, TypeOK
<1> QED  BY <1>1, StateHolds, PTL

LEMMA AboutToPublish ==
  ASSUME StateInv
  PROVE  /\ None \notin Addrs /\ opts.noV6 \in BOOLEAN
         /\ update.interfaces \in Seq(InterfacesOver(Addrs, Subnets))
         /\ GoodDocument(update.server, Addrs, Nets)
BY OptionsAssumption DEF StateInv, UpdateInv, UpdateRecords, Addrs

\* The list that is about to be written has every address in exactly the types that the
\* two documents give it, whatever the number and order of networks, ports and entries.
THEOREM ListIsExactEver == Spec => []ListIsExact
<1>1. StateInv => ListIsExact
  <2> SUFFICES ASSUME StateInv PROVE ListIsExact
    OBVIOUS
  <2>1. /\ IsInjective(Result)
        /\ \A a \in Addrs :
             TypesIn(Result, a) = TypesOf(a, update.server, update.interfaces, opts)
    BY AboutToPublish, AddressesAre DEF Result
  <2> QED  BY <2>1 DEF ListIsExact, TypesIn
<1> QED  BY <1>1, StateHolds, PTL

\* The members of the load balancer get the private address of the first active
\* interface that has one, whatever floating and access addresses come and go.
THEOREM InterfaceOrderWinsEver == Spec => []InterfaceOrderWins
<1>1. StateInv => InterfaceOrderWins
  <2> SUFFICES ASSUME StateInv PROVE InterfaceOrderWins
    OBVIOUS
  <2> DEFINE list == update.interfaces
             private(i) == "InternalIP" \in TypesOf(i.addr, update.server, list, opts)
             I == {k \in 1..Len(list) : list[k].active /\ private(list[k])}
             first == SelectInSeq(list, LAMBDA i : i.active /\ private(i))
  <2>1. first = IF I # {} THEN Min(I) ELSE 0
    BY DEF SelectInSeq
  <2>2. I \in SUBSET Nat
    OBVIOUS
  <2>3. ASSUME I # {} PROVE AddressForLB(Result) = list[Min(I)].addr
    <3>1. Min(I) \in I /\ \A k \in I : Min(I) <= k
      <4> HIDE DEF I
      <4> QED  BY <2>2, <2>3, MinIs
    <3>2. PICK k \in 1..Len(list) :
            /\ k = Min(I) /\ list[k].active /\ private(list[k])
            /\ \A m \in 1..Len(list) : list[m].active /\ private(list[m]) => k <= m
      BY <3>1
    <3> HIDE DEF I
    <3> QED  BY <3>2, AboutToPublish, FirstInterfaceWins DEF Result
  <2>4. first # 0 => AddressForLB(Result) = list[first].addr
    <3> HIDE DEF I, first
    <3> QED  BY <2>1, <2>3
  <2> QED  BY <2>4 DEF InterfaceOrderWins
<1> QED  BY <1>1, StateHolds, PTL

\* While the addresses of a node are up to date, the subnet of the address that the load
\* balancer uses is found.
THEOREM SubnetResolvesEver == Spec => []SubnetResolves
<1>1. StateInv => SubnetResolves
  <2> SUFFICES ASSUME StateInv, node.pid \in Up, node.addrs = Current(node.pid),
                      \E x \in ToSet(node.addrs) : x.type = "InternalIP"
               PROVE  \E x \in ToSet(cloud[node.pid].ports) :
                        /\ x.port.addr = AddressForLB(node.addrs)
                        /\ x.port.subnet = SubnetOf(AddressForLB(node.addrs),
                                                    Interfaces(cloud[node.pid]))
    BY DEF SubnetResolves
  <2> DEFINE s == cloud[node.pid]
  <2>1. GoodServer(s) /\ opts.noV6 \in BOOLEAN
    BY SoundIsGood, OptionsAssumption DEF StateInv, CloudInv, Up
  <2>2. node.addrs = Addresses(Document(s), Interfaces(s), opts)
    BY DEF Current
  <2> HIDE DEF s
  <2>3. \E x \in ToSet(s.ports) :
          /\ x.port.addr = AddressForLB(node.addrs)
          /\ x.port.subnet = SubnetOf(AddressForLB(node.addrs), Interfaces(s))
    BY <2>1, <2>2, SubnetIsOfPort
  <2> QED  BY <2>3 DEF s
<1> QED  BY <1>1, StateHolds, PTL

\* A node with a private address of some family has a next hop of that family on one of
\* its own ports.
THEOREM RouteHopHasPortEver == Spec => []RouteHopHasPort
<1>1. StateInv => RouteHopHasPort
  <2> SUFFICES ASSUME StateInv, NEW i \in Up,
                      NEW k \in DOMAIN Interfaces(cloud[i]),
                      "InternalIP" \in TypesOf(Interfaces(cloud[i])[k].addr, Document(cloud[i]),
                                               Interfaces(cloud[i]), opts)
               PROVE  LET a == Interfaces(cloud[i])[k].addr
                          hop == AddressByName(Addresses(Document(cloud[i]),
                                                         Interfaces(cloud[i]), opts),
                                               a \in V6, opts)
                      IN  OnPort(hop, Interfaces(cloud[i])) /\ (hop \in V6 <=> a \in V6)
    BY DEF RouteHopHasPort
  <2> DEFINE s == cloud[i]
  <2>1. GoodServer(s) /\ opts.noV6 \in BOOLEAN
    BY SoundIsGood, OptionsAssumption DEF StateInv, CloudInv, Up
  <2> HIDE DEF s
  <2>2. k \in 1..Len(s.ports) /\ Interfaces(s)[k].addr = s.ports[k].port.addr
    <3>1. k \in DOMAIN Interfaces(s)
      BY DEF s
    <3>2. DOMAIN Interfaces(s) = 1..Len(s.ports)
      BY <2>1, InterfacesAre, SequenceFacts DEF GoodServer
    <3> QED  BY <2>1, <3>1, <3>2, InterfacesAre DEF GoodServer
  <2>3. "InternalIP" \in TypesOf(s.ports[k].port.addr, Document(s), Interfaces(s), opts)
    BY <2>2 DEF s
  <2> QED  BY <2>1, <2>2, <2>3, HopIsPort DEF s
<1> QED  BY <1>1, StateHolds, PTL
=============================================================================
