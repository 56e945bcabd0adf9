-------------------------- MODULE MemberSyncProofs --------------------------
(***************************************************************************)
(* Proofs about MemberSync: what the two operations may do to a member,    *)
(* and that the members are the nodes when neither has anything left to    *)
(* do and nothing was beyond their own doing.                              *)
(***************************************************************************)
EXTENDS MemberSync, TLAPS

Going(a) == pass[a].pc \in {"list", "sync"}

\* A pass that runs was given a node port and a list of nodes that is not empty;
\* it has something to do and to wait for only after it has listed the members.
Given ==
  \A a \in Actors :
    /\ Going(a) => pass[a].np \in NodePorts /\ pass[a].hosts \in HostSets \ {{}}
    /\ pass[a].pc # "sync" => pass[a].add = {} /\ pass[a].drop = {} /\ ~pass[a].waiting

Types == TypeOK /\ Given

Same(a) == pass'[a].pc = "sync" /\ pass'[a].np = pass[a].np /\ pass'[a].hosts = pass[a].hosts

\* What the steps of a pass do.
Lists(a) ==
  /\ pass[a].pc = "list" /\ Same(a)
  /\ \E view \in Views(a) :
       /\ pass'[a].add = ToAdd(view, pass[a].hosts, pass[a].np)
       /\ pass'[a].drop = ToDrop(view, pass[a].hosts, pass[a].np)
  /\ UNCHANGED <<members, queued, retry>>

Creates(a) ==
  /\ pass[a].pc = "sync" /\ Same(a)
  /\ \E m \in pass[a].add :
       /\ members' = members \cup {m}
       /\ pass'[a].add = pass[a].add \ {m} /\ pass'[a].drop = pass[a].drop
  /\ UNCHANGED <<queued, retry>>

Deletes(a) ==
  /\ pass[a].pc = "sync" /\ Same(a)
  /\ \E m \in pass[a].drop :
       /\ members' = members \ {m}
       /\ pass'[a].add = pass[a].add /\ pass'[a].drop = pass[a].drop \ {m}
  /\ UNCHANGED <<queued, retry>>

Waits(a) ==
  /\ pass[a].pc = "sync" /\ Same(a)
  /\ pass'[a].add = pass[a].add /\ pass'[a].drop = pass[a].drop
  /\ UNCHANGED <<members, queued, retry>>

Returns(a) == Finished(a) /\ pass'[a] = Idle /\ UNCHANGED <<members, queued, retry>>

Errs(a) == Going(a) /\ Fails(a) /\ pass'[a] = Idle /\ UNCHANGED members

LEMMA IdleFields ==
  /\ Idle \in Passes /\ Idle.pc = "idle" /\ Idle.add = {} /\ Idle.drop = {} /\ Idle.waiting = FALSE
BY DEF Idle, Passes

LEMMA PassSteps ==
  ASSUME Types, NEW a \in Actors, PassStep(a)
  PROVE  /\ Going(a)
         /\ pass' \in [Actors -> Passes]
         /\ \A b \in Actors \ {a} : pass'[b] = pass[b]
         /\ UNCHANGED <<cluster, cached, known, beyond>>
         /\ faults' \in 0..MaxFaults /\ busy' \in BOOLEAN
         /\ Lists(a) \/ Creates(a) \/ Deletes(a) \/ Waits(a) \/ Returns(a) \/ Errs(a)
<1>0. /\ pass \in [Actors -> Passes] /\ pass[a] \in Passes /\ Idle \in Passes
      /\ busy \in BOOLEAN /\ faults \in 0..MaxFaults
  BY IdleFields DEF Types, TypeOK
<1>1. UNCHANGED <<cluster, cached, known, beyond>>
  BY DEF PassStep, List, Create, Delete, Waited, Return, Fault
<1>2. faults' \in 0..MaxFaults /\ busy' \in BOOLEAN
  <2>1. faults' \in {faults, faults + 1} /\ (faults' # faults => faults < MaxFaults)
    BY DEF PassStep, List, Create, Delete, Waited, Return, Fault
  <2>2. busy' \in BOOLEAN
    BY <1>0 DEF PassStep, List, Create, Delete, Waited, Return, Fault
  <2> QED  BY <1>0, <2>1, <2>2, ConstantsAssumption
<1>f. ASSUME Fails(a)
      PROVE  pass' \in [Actors -> Passes] /\ pass'[a] = Idle
             /\ \A b \in Actors \ {a} : pass'[b] = pass[b]
  BY <1>0, <1>f DEF Fails
<1>3. CASE List(a)
  <2>1. /\ pass[a].pc = "list" /\ pass[a].np \in NodePorts /\ pass[a].hosts \subseteq Nodes
        /\ UNCHANGED <<members, queued, retry>>
    BY <1>0, <1>3 DEF List, Going, Types, Given, Passes
  <2>2. PICK view \in Views(a) :
          pass' = [pass EXCEPT
            ![a].pc = "sync",
            ![a].add = ToAdd(view, pass[a].hosts, pass[a].np),
            ![a].drop = ToDrop(view, pass[a].hosts, pass[a].np)]
    BY <1>3 DEF List
  <2>3. view \subseteq Backends
    BY <2>2 DEF Views, Types, TypeOK
  <2>4. /\ ToAdd(view, pass[a].hosts, pass[a].np) \in SUBSET Backends
        /\ ToDrop(view, pass[a].hosts, pass[a].np) \in SUBSET Backends
    BY <2>1, <2>3 DEF ToAdd, ToDrop, Backends
  <2>5. /\ pass' \in [Actors -> Passes] /\ \A b \in Actors \ {a} : pass'[b] = pass[b]
        /\ Same(a)
        /\ pass'[a].add = ToAdd(view, pass[a].hosts, pass[a].np)
        /\ pass'[a].drop = ToDrop(view, pass[a].hosts, pass[a].np)
    BY <1>0, <2>2, <2>4 DEF Passes, Same
  <2> QED  BY <1>1, <1>2, <2>1, <2>5 DEF Lists, Going
<1>4. CASE Create(a)
  <2>1. PICK m \in pass[a].add :
          \/ /\ members' = members \cup {m}
             /\ pass' = [pass EXCEPT ![a].waiting = TRUE, ![a].add = @ \ {m}]
             /\ UNCHANGED <<queued, retry>>
          \/ Fails(a) /\ UNCHANGED members
    BY <1>4 DEF Create
  <2>2. pass[a].pc = "sync"
    BY <2>1 DEF Types, Given
  <2>3. CASE pass' = [pass EXCEPT ![a].waiting = TRUE, ![a].add = @ \ {m}]
             /\ members' = members \cup {m} /\ UNCHANGED <<queued, retry>>
    <3>1. /\ pass' \in [Actors -> Passes] /\ \A b \in Actors \ {a} : pass'[b] = pass[b]
          /\ Same(a) /\ pass'[a].add = pass[a].add \ {m} /\ pass'[a].drop = pass[a].drop
      BY <1>0, <2>2, <2>3 DEF Passes, Same
    <3> QED  BY <1>1, <1>2, <2>2, <2>3, <3>1 DEF Creates, Going
  <2>4. CASE Fails(a) /\ UNCHANGED members
    BY <1>1, <1>2, <1>f, <2>2, <2>4 DEF Errs, Going
  <2> QED  BY <2>1, <2>3, <2>4
<1>5. CASE Delete(a)
  <2>1. PICK m \in pass[a].drop :
          \/ /\ members' = members \ {m}
             /\ pass' = [pass EXCEPT ![a].waiting = TRUE, ![a].drop = @ \ {m}]
             /\ UNCHANGED <<queued, retry>>
          \/ Fails(a) /\ UNCHANGED members
    BY <1>5 DEF Delete
  <2>2. pass[a].pc = "sync"
    BY <2>1 DEF Types, Given
  <2>3. CASE pass' = [pass EXCEPT ![a].waiting = TRUE, ![a].drop = @ \ {m}]
             /\ members' = members \ {m} /\ UNCHANGED <<queued, retry>>
    <3>1. /\ pass' \in [Actors -> Passes] /\ \A b \in Actors \ {a} : pass'[b] = pass[b]
          /\ Same(a) /\ pass'[a].add = pass[a].add /\ pass'[a].drop = pass[a].drop \ {m}
      BY <1>0, <2>2, <2>3 DEF Passes, Same
    <3> QED  BY <1>1, <1>2, <2>2, <2>3, <3>1 DEF Deletes, Going
  <2>4. CASE Fails(a) /\ UNCHANGED members
    BY <1>1, <1>2, <1>f, <2>2, <2>4 DEF Errs, Going
  <2> QED  BY <2>1, <2>3, <2>4
<1>6. CASE Waited(a)
  <2>1. pass[a].pc = "sync" /\ pass' = [pass EXCEPT ![a].waiting = FALSE]
        /\ UNCHANGED <<members, queued, retry>>
    BY <1>6 DEF Waited, Types, Given
  <2>2. /\ pass' \in [Actors -> Passes] /\ \A b \in Actors \ {a} : pass'[b] = pass[b]
        /\ Same(a) /\ pass'[a].add = pass[a].add /\ pass'[a].drop = pass[a].drop
    BY <1>0, <2>1 DEF Passes, Same
  <2> QED  BY <1>1, <1>2, <2>1, <2>2 DEF Waits, Going
<1>7. CASE Return(a)
  <2>1. /\ pass' \in [Actors -> Passes] /\ \A b \in Actors \ {a} : pass'[b] = pass[b]
        /\ pass'[a] = Idle
    BY <1>0, <1>7 DEF Return
  <2> QED  BY <1>1, <1>2, <1>7, <2>1 DEF Return, Returns, Finished, Going
<1>8. CASE Fault(a)
  BY <1>1, <1>2, <1>8, <1>f DEF Fault, Errs, Going
<1> QED  BY <1>3, <1>4, <1>5, <1>6, <1>7, <1>8 DEF PassStep

\* The records a pass is started with.
StartRecord(np) == [Idle EXCEPT !.pc = "list", !.np = np, !.hosts = nodes]

LEMMA StartSteps ==
  ASSUME Types, NEW a \in Actors, NEW np \in NodePorts, Started(a, np)
  PROVE  /\ pass' \in [Actors -> Passes]
         /\ \A b \in Actors \ {a} : pass'[b] = pass[b]
         /\ pass'[a].pc = "list" /\ pass'[a].np = np /\ pass'[a].hosts = nodes
         /\ pass'[a].add = {} /\ pass'[a].drop = {} /\ ~pass'[a].waiting
<1>1. /\ StartRecord(np) \in Passes
      /\ StartRecord(np).pc = "list" /\ StartRecord(np).np = np /\ StartRecord(np).hosts = nodes
      /\ StartRecord(np).add = {} /\ StartRecord(np).drop = {} /\ StartRecord(np).waiting = FALSE
  BY ConstantsAssumption DEF StartRecord, Idle, Passes, Types, TypeOK
<1>2. pass' = [pass EXCEPT ![a] = StartRecord(np)]
  BY DEF Started, StartRecord
<1> QED  BY <1>1, <1>2 DEF Types, TypeOK

\* The beginnings, with the node port and the nodes that they are given.
LEMMA BeginEnsureSteps ==
  ASSUME Types, BeginEnsure
  PROVE  /\ queued /\ pass["ensure"].pc = "idle" /\ cached' = port
         /\ UNCHANGED <<cluster, known, retry, members, busy, faults>>
         /\ \/ UNCHANGED <<queued, pass, beyond>>
            \/ /\ nodes # {} /\ queued' = FALSE /\ Started("ensure", port)
               /\ beyond' = beyond \cup Overlaps("ensure")
BY DEF BeginEnsure

LEMMA BeginUpdateSteps ==
  ASSUME Types, BeginUpdate
  PROVE  /\ pass["update"].pc = "idle" /\ known' = nodes /\ retry' = NoPort
         /\ UNCHANGED <<cluster, queued, cached, members, busy, faults>>
         /\ \/ /\ pass' = [pass EXCEPT !["update"].pc = "down"] /\ UNCHANGED beyond
            \/ \E np \in {cached, retry} \ {NoPort} :
                 /\ nodes # {} /\ Started("update", np)
                 /\ beyond' = beyond \cup Overlaps("update") \cup Noted("stale", np # cached)
BY DEF BeginUpdate

LEMMA DownSteps ==
  ASSUME Types, pass["update"].pc = "idle", pass' = [pass EXCEPT !["update"].pc = "down"]
  PROVE  /\ pass' \in [Actors -> Passes] /\ pass'["ensure"] = pass["ensure"]
         /\ pass'["update"].pc = "down"
         /\ pass'["update"].add = {} /\ pass'["update"].drop = {} /\ ~pass'["update"].waiting
BY DEF Types, TypeOK, Given, Actors, Passes

-----------------------------------------------------------------------------
(* Types.                                                                  *)

GivenAt(a) ==
  /\ Going(a) => pass[a].np \in NodePorts /\ pass[a].hosts \in HostSets \ {{}}
  /\ pass[a].pc # "sync" => pass[a].add = {} /\ pass[a].drop = {} /\ ~pass[a].waiting
  /\ pass[a].add \subseteq pass[a].hosts \X {pass[a].np}

LEMMA IdleGiven == ASSUME NEW a, pass'[a] = Idle PROVE GivenAt(a)'
BY IdleFields DEF GivenAt, Going

LEMMA PassTypes ==
  ASSUME Types, NEW a \in Actors, PassStep(a)
  PROVE  Types'
<1>1. \A b \in Actors : GivenAt(b)
  BY DEF Types, TypeOK, Given, GivenAt
<1>2. /\ Going(a) /\ pass' \in [Actors -> Passes]
      /\ \A b \in Actors \ {a} : pass'[b] = pass[b]
      /\ UNCHANGED <<cluster, cached, known, beyond>>
      /\ faults' \in 0..MaxFaults /\ busy' \in BOOLEAN
      /\ Lists(a) \/ Creates(a) \/ Deletes(a) \/ Waits(a) \/ Returns(a) \/ Errs(a)
  BY PassSteps
<1>3. \A b \in Actors \ {a} : GivenAt(b)'
  BY <1>1, <1>2 DEF GivenAt, Going
<1>4. /\ pass[a] \in Passes /\ pass[a].np \in NodePorts
      /\ pass[a].add \subseteq Backends /\ members \subseteq Backends
      /\ queued \in BOOLEAN /\ retry \in NodePorts \cup {NoPort}
  BY <1>2 DEF Types, TypeOK, Given, Passes
<1>5. GivenAt(a)'
  <2>1. CASE Returns(a) \/ Errs(a)
    BY <2>1, IdleGiven DEF Returns, Errs
  <2>2. CASE Lists(a) \/ Creates(a) \/ Deletes(a) \/ Waits(a)
    <3>1. /\ Same(a)
          /\ pass'[a].add \subseteq pass[a].hosts \X {pass[a].np}
      BY <1>1, <2>2 DEF Lists, Creates, Deletes, Waits, ToAdd, GivenAt
    <3> QED  BY <1>1, <1>2, <3>1 DEF Same, GivenAt, Going
  <2> QED  BY <1>2, <2>1, <2>2
<1>6. members' \subseteq Backends
  BY <1>2, <1>4 DEF Lists, Creates, Deletes, Waits, Returns, Errs
<1>7. queued' \in BOOLEAN /\ retry' \in NodePorts \cup {NoPort}
  BY <1>2, <1>4 DEF Lists, Creates, Deletes, Waits, Returns, Errs, Fails
<1> QED  BY <1>2, <1>3, <1>5, <1>6, <1>7 DEF Types, TypeOK, Given, GivenAt, Going, cluster

LEMMA TypesKept == Types /\ [Next]_vars => Types'
<1> SUFFICES ASSUME Types, [Next]_vars PROVE Types'
  OBVIOUS
<1> USE ConstantsAssumption
<1>0. \A b \in Actors : GivenAt(b)
  BY DEF Types, TypeOK, Given, GivenAt
<1>a. ASSUME pass' \in [Actors -> Passes], \A b \in Actors : GivenAt(b)',
             nodes' \in HostSets, port' \in NodePorts, queued' \in BOOLEAN,
             {cached', retry'} \subseteq NodePorts \cup {NoPort}, known' \subseteq Nodes,
             members' \subseteq Backends, busy' \in BOOLEAN, beyond' \subseteq Beyond,
             faults' \in 0..MaxFaults, edits' \in 0..MaxEdits, moves' \in 0..MaxMoves
      PROVE  Types'
  BY <1>a DEF Types, TypeOK, Given, GivenAt
<1>b. \A b \in Actors : pass'[b] = pass[b] => GivenAt(b)'
  BY <1>0 DEF GivenAt, Going
<1>c. \A what \in Beyond, happened \in BOOLEAN : Noted(what, happened) \subseteq Beyond
  BY DEF Noted
<1>1. CASE BeginEnsure
  <2>1. CASE UNCHANGED <<queued, pass, beyond>>
    BY <1>1, <1>a, <1>b, <2>1, BeginEnsureSteps DEF Types, TypeOK, cluster
  <2>2. CASE /\ nodes # {} /\ queued' = FALSE /\ Started("ensure", port)
             /\ beyond' = beyond \cup Overlaps("ensure")
    <3>1. beyond' \subseteq Beyond
      BY <2>2 DEF Overlaps, Noted, Beyond, Types, TypeOK
    <3>2. /\ pass' \in [Actors -> Passes] /\ pass'["update"] = pass["update"]
          /\ GivenAt("ensure")'
      BY <2>2, StartSteps DEF GivenAt, Going, Types, TypeOK, Actors
    <3> QED  BY <1>1, <1>a, <1>b, <2>2, <3>1, <3>2, BeginEnsureSteps DEF Types, TypeOK, cluster, Actors
  <2> QED  BY <1>1, <2>1, <2>2, BeginEnsureSteps
<1>2. CASE BeginUpdate
  <2>0. known' \subseteq Nodes
    BY <1>2, BeginUpdateSteps DEF Types, TypeOK
  <2>1. CASE pass' = [pass EXCEPT !["update"].pc = "down"] /\ UNCHANGED beyond
    <3>1. pass["update"].pc = "idle"
      BY <1>2, BeginUpdateSteps
    <3>2. pass' \in [Actors -> Passes] /\ GivenAt("update")' /\ pass'["ensure"] = pass["ensure"]
      BY <2>1, <3>1, DownSteps DEF GivenAt, Going
    <3> QED  BY <1>2, <1>a, <1>b, <2>0, <2>1, <3>2, BeginUpdateSteps DEF Types, TypeOK, cluster, Actors
  <2>2. ASSUME NEW np \in {cached, retry} \ {NoPort}, nodes # {}, Started("update", np),
               beyond' = beyond \cup Overlaps("update") \cup Noted("stale", np # cached)
        PROVE  Types'
    <3>0. np \in NodePorts
      BY DEF Types, TypeOK
    <3>1. beyond' \subseteq Beyond
      BY <2>2 DEF Overlaps, Noted, Beyond, Types, TypeOK
    <3>2. /\ pass' \in [Actors -> Passes] /\ pass'["ensure"] = pass["ensure"]
          /\ GivenAt("update")'
      BY <2>2, <3>0, StartSteps DEF GivenAt, Going, Types, TypeOK, Actors
    <3> QED  BY <1>2, <1>a, <1>b, <2>0, <3>1, <3>2, BeginUpdateSteps DEF Types, TypeOK, cluster, Actors
  <2> QED  BY <1>2, <2>1, <2>2, BeginUpdateSteps
<1>3. CASE NothingToUpdate
  <2>1. known' \subseteq Nodes
    BY <1>3 DEF NothingToUpdate, Types, TypeOK
  <2> QED  BY <1>3, <1>a, <1>b, <2>1 DEF NothingToUpdate, Types, TypeOK, cluster
<1>4. CASE StartsAgain /\ faults' \in 0..MaxFaults
  <2>1. pass' \in [Actors -> Passes] /\ \A b \in Actors : GivenAt(b)'
    BY <1>4, IdleFields, IdleGiven DEF StartsAgain
  <2> QED  BY <1>4, <1>a, <2>1 DEF StartsAgain, Types, TypeOK, cluster
<1>5. CASE Restart \/ Crash
  <2>1. faults' \in 0..MaxFaults
    BY <1>5 DEF Restart, Crash, Types, TypeOK
  <2> QED  BY <1>4, <1>5, <2>1 DEF Restart, Crash
<1>6. CASE Settle
  BY <1>6, <1>a, <1>b DEF Settle, Types, TypeOK, cluster
<1>7. CASE EditPort
  <2>1. edits' \in 0..MaxEdits
    BY <1>7 DEF EditPort, Types, TypeOK
  <2> QED  BY <1>7, <1>a, <1>b, <2>1 DEF EditPort, Types, TypeOK
<1>8. CASE MoveNodes
  <2>1. moves' \in 0..MaxMoves
    BY <1>8 DEF MoveNodes, Types, TypeOK
  <2>2. beyond' \subseteq Beyond
    BY <1>8 DEF MoveNodes, Noted, Beyond, Types, TypeOK
  <2> QED  BY <1>8, <1>a, <1>b, <2>1, <2>2 DEF MoveNodes, Types, TypeOK
<1>9. CASE UNCHANGED vars
  BY <1>9, <1>a, <1>b DEF vars, Types, TypeOK
<1> QED  BY <1>1, <1>2, <1>3, <1>5, <1>6, <1>7, <1>8, <1>9, PassTypes DEF Next

LEMMA TypesInit == Init => Types
<1> SUFFICES ASSUME Init PROVE Types
  OBVIOUS
<1>1. \A a \in Actors : pass[a] = Idle
  BY DEF Init
<1>2. pass \in [Actors -> Passes]
  BY IdleFields DEF Init
<1>3. \A a \in Actors : pass[a].add = {} /\ pass[a].drop = {} /\ ~pass[a].waiting /\ pass[a].pc = "idle"
  BY <1>1, IdleFields
<1>4. faults \in 0..MaxFaults /\ edits \in 0..MaxEdits /\ moves \in 0..MaxMoves
  BY ConstantsAssumption DEF Init
<1> QED  BY <1>2, <1>3, <1>4 DEF Init, Types, TypeOK, Given, Going

\* Every variable keeps its type; in particular, a pass creates members for its own
\* nodes and node port only.
THEOREM TypesHold == Spec => []TypeOK
<1>1. Types => TypeOK
  BY DEF Types
<1> QED  BY <1>1, TypesInit, TypesKept, PTL DEF Spec

-----------------------------------------------------------------------------
(* A node that stays keeps its member.                                     *)

\* As long as the node port has not changed, everybody works with it, and what a
\* pass deletes is not one of its own nodes.
PortAt(a) ==
  /\ Going(a) => pass[a].np = port
  /\ \A m \in pass[a].drop : m[2] = port /\ m[1] \notin pass[a].hosts

PortKnown ==
  /\ {cached, retry} \subseteq {port, NoPort}
  /\ members \subseteq Nodes \X {port}
  /\ \A a \in Actors : PortAt(a)

PortInv == edits = 0 => PortKnown

LEMMA IdlePort == ASSUME NEW a, pass'[a] = Idle PROVE PortAt(a)'
BY IdleFields DEF PortAt, Going

LEMMA PassPort ==
  ASSUME Types, PortKnown, NEW a \in Actors, PassStep(a)
  PROVE  PortKnown'
<1>1. /\ Going(a) /\ pass' \in [Actors -> Passes]
      /\ \A b \in Actors \ {a} : pass'[b] = pass[b]
      /\ UNCHANGED <<cluster, cached, known, beyond>>
      /\ Lists(a) \/ Creates(a) \/ Deletes(a) \/ Waits(a) \/ Returns(a) \/ Errs(a)
  BY PassSteps
<1>2. /\ pass[a].np = port /\ PortAt(a) /\ members \subseteq Nodes \X {port}
      /\ pass[a].add \subseteq pass[a].hosts \X {pass[a].np}
      /\ pass[a].hosts \subseteq Nodes /\ port' = port
  <2>1. pass[a].hosts \subseteq Nodes
    BY <1>1 DEF Types, TypeOK, Passes
  <2> QED  BY <1>1, <2>1 DEF PortKnown, PortAt, Types, TypeOK, cluster
<1>3. members' \subseteq Nodes \X {port}
  BY <1>1, <1>2 DEF Lists, Creates, Deletes, Waits, Returns, Errs
<1>4. retry' \in {port, NoPort}
  BY <1>1, <1>2 DEF Lists, Creates, Deletes, Waits, Returns, Errs, Fails, PortKnown
<1>5. PortAt(a)'
  <2>1. CASE Returns(a) \/ Errs(a)
    BY <2>1, IdlePort DEF Returns, Errs
  <2>2. CASE Creates(a) \/ Deletes(a) \/ Waits(a)
    BY <1>2, <2>2 DEF Creates, Deletes, Waits, Same, PortAt, Going
  <2>3. CASE Lists(a)
    <3>1. PICK view \in Views(a) : pass'[a].drop = ToDrop(view, pass[a].hosts, pass[a].np)
      BY <2>3 DEF Lists
    <3>2. view \subseteq Nodes \X {port}
      BY <1>2, <3>1 DEF Views
    <3>3. \A m \in pass'[a].drop : m[2] = port /\ m[1] \notin pass[a].hosts
      BY <1>2, <3>1, <3>2 DEF ToDrop
    <3> QED  BY <1>2, <2>3, <3>3 DEF Lists, Same, PortAt, Going
  <2> QED  BY <1>1, <2>1, <2>2, <2>3
<1>6. \A b \in Actors \ {a} : PortAt(b)'
  BY <1>1, <1>2 DEF PortKnown, PortAt, Going
<1> QED  BY <1>1, <1>2, <1>3, <1>4, <1>5, <1>6 DEF PortKnown

LEMMA PortKept == Types /\ PortInv /\ [Next]_vars => PortInv'
<1> SUFFICES ASSUME Types, PortInv, [Next]_vars, edits' = 0 PROVE PortKnown'
  BY DEF PortInv
<1>0. edits \in Nat
  BY DEF Types, TypeOK
<1>1. ~EditPort
  BY <1>0 DEF EditPort
<1>2. edits = 0 /\ PortKnown /\ port' = port
  <2>1. CASE \E a \in Actors : PassStep(a)
    BY <2>1, PassSteps DEF PortInv, cluster
  <2>2. CASE ~\E a \in Actors : PassStep(a)
    BY <1>1, <2>2 DEF PortInv, Next, BeginEnsure, BeginUpdate, NothingToUpdate, Crash, Restart,
      StartsAgain, Settle, MoveNodes, cluster, vars
  <2> QED  BY <2>1, <2>2
<1>a. ASSUME {cached', retry'} \subseteq {port, NoPort}, UNCHANGED members,
             \A b \in Actors : PortAt(b)'
      PROVE  PortKnown'
  BY <1>2, <1>a DEF PortKnown
<1>b. \A b \in Actors : pass'[b] = pass[b] => PortAt(b)'
  BY <1>2 DEF PortKnown, PortAt, Going
<1>c. ASSUME NEW a \in Actors, Started(a, port), port \in NodePorts PROVE \A b \in Actors : PortAt(b)'
  <2>1. PortAt(a)'
    BY <1>2, <1>c, StartSteps DEF PortAt, Going
  <2> QED  BY <1>b, <1>c, <2>1, StartSteps
<1>d. port \in NodePorts /\ port # NoPort
  BY ConstantsAssumption DEF Types, TypeOK
<1>3. CASE BeginEnsure
  <2>1. \A b \in Actors : PortAt(b)'
    BY <1>3, <1>b, <1>c, <1>d, BeginEnsureSteps DEF Actors
  <2> QED  BY <1>2, <1>3, <1>a, <2>1, BeginEnsureSteps DEF PortKnown
<1>4. CASE BeginUpdate
  <2>1. \A b \in Actors : PortAt(b)'
    <3>1. CASE pass' = [pass EXCEPT !["update"].pc = "down"]
      <4>1. PortAt("update")'
        BY <1>4, <3>1, BeginUpdateSteps, DownSteps DEF PortAt, Going
      <4> QED  BY <1>4, <1>b, <3>1, <4>1, BeginUpdateSteps, DownSteps DEF Actors
    <3>2. CASE \E np \in {cached, retry} \ {NoPort} : Started("update", np)
      <4>1. Started("update", port)
        BY <1>2, <3>2 DEF PortKnown
      <4> QED  BY <1>c, <1>d, <4>1 DEF Actors
    <3> QED  BY <1>4, <3>1, <3>2, BeginUpdateSteps
  <2> QED  BY <1>2, <1>4, <1>a, <2>1, BeginUpdateSteps DEF PortKnown
<1>5. CASE StartsAgain
  <2>1. \A b \in Actors : PortAt(b)'
    BY <1>5, IdlePort DEF StartsAgain
  <2> QED  BY <1>5, <1>a, <2>1 DEF StartsAgain
<1>6. CASE NothingToUpdate \/ Settle \/ MoveNodes \/ UNCHANGED vars
  BY <1>2, <1>6, <1>a, <1>b DEF NothingToUpdate, Settle, MoveNodes, vars, PortKnown
<1> QED
  BY <1>1, <1>2, <1>3, <1>4, <1>5, <1>6, PassPort DEF Next, Restart, Crash

LEMMA PortInit == Init => PortInv
<1> SUFFICES ASSUME Init PROVE PortKnown
  BY DEF PortInv
<1>1. \A a \in Actors : PortAt(a)
  BY IdleFields DEF Init, PortAt, Going
<1> QED  BY <1>1 DEF Init, PortKnown

\* The step property: a member goes only when a pass deletes it, and then its node
\* is not in the list that the pass was given.
LEMMA MemberGoesStep ==
  ASSUME Types, PortInv, [Next]_vars, edits = 0, NEW m \in members \ members'
  PROVE  \E hosts \in HostSets \ {{}} : m[1] \notin hosts
<1>1. PICK a \in Actors : PassStep(a)
  BY DEF Next, BeginEnsure, BeginUpdate, NothingToUpdate, Crash, Restart, StartsAgain, Settle,
    EditPort, MoveNodes, vars
<1>2. Deletes(a)
  BY <1>1, PassSteps DEF Lists, Creates, Waits, Returns, Errs
<1>3. m \in pass[a].drop
  BY <1>2 DEF Deletes
<1>4. pass[a].hosts \in HostSets \ {{}}
  BY <1>2 DEF Deletes, Types, Given, Going
<1>5. m[1] \notin pass[a].hosts
  BY <1>3 DEF PortInv, PortKnown, PortAt
<1> QED  BY <1>4, <1>5

\* A node that is in every list the cluster may have keeps its member, as long as the
\* Service's node port does not change: whatever the worker and the node loop do at once.
THEOREM StableNodesKeepServingEver == Spec => StableNodesKeepServing
<1>1. Types /\ PortInv /\ [Next]_vars =>
        [edits = 0 => \A m \in members \ members' :
           \E hosts \in HostSets \ {{}} : m[1] \notin hosts]_vars
  BY MemberGoesStep
<1> QED  BY <1>1, TypesInit, TypesKept, PortInit, PortKept, PTL DEF Spec, StableNodesKeepServing

-----------------------------------------------------------------------------
(* The members are the nodes when nobody has anything left to do.          *)

\* Nothing having been beyond the operations' own doing, one of them runs at a time,
Alone == ~(Going("ensure") /\ Going("update"))

\* with the nodes the node loop knows, unless the node loop will look again,
Fresh ==
  /\ Going("ensure") =>
       /\ cached # NoPort
       /\ pass["update"].pc = "idle" => pass["ensure"].hosts = known \/ nodes # known
  /\ Going("update") => pass["update"].hosts = known

\* what a pass has to add and to delete accounts for the members there are,
Accounts(a) ==
  pass[a].pc = "sync" =>
    /\ pass[a].hosts \X {pass[a].np} \subseteq members \cup pass[a].add
    /\ members \subseteq (pass[a].hosts \X {pass[a].np}) \cup pass[a].drop
    /\ pass[a].drop \cap (pass[a].hosts \X {pass[a].np}) = {}

\* and a Service that is out of the queue is served at the node port it has.
Served ==
  /\ cached = port
  /\ \A a \in Actors : Going(a) => pass[a].np = port
  /\ ~Going("ensure") => members \subseteq Nodes \X {port}
  /\ \A a \in Actors : Accounts(a)
  /\ Quiet => members = nodes \X {port}

SyncInv == beyond = {} => Alone /\ Fresh /\ (~queued => Served)

\* What a step of a pass leaves of the account.
LEMMA AccountsKept ==
  ASSUME Types, NEW a \in Actors, Accounts(a),
         Creates(a) \/ Deletes(a) \/ Waits(a)
  PROVE  Accounts(a)'
<1>1. pass[a].add \subseteq pass[a].hosts \X {pass[a].np}
  BY DEF Types, TypeOK
<1>2. CASE Creates(a)
  BY <1>1, <1>2 DEF Creates, Same, Accounts
<1>3. CASE Deletes(a)
  BY <1>1, <1>3 DEF Deletes, Same, Accounts
<1>4. CASE Waits(a)
  BY <1>4 DEF Waits, Same, Accounts
<1> QED  BY <1>2, <1>3, <1>4

LEMMA AccountsListed ==
  ASSUME Types, NEW a \in Actors, Lists(a),
         a = "update" => members \subseteq Nodes \X {port}
  PROVE  Accounts(a)'
<1>1. PICK view \in Views(a) :
        /\ pass'[a].add = ToAdd(view, pass[a].hosts, pass[a].np)
        /\ pass'[a].drop = ToDrop(view, pass[a].hosts, pass[a].np)
  BY DEF Lists
<1>2. view = members
  <2>1. CASE a = "ensure"
    BY <1>1, <2>1 DEF Views
  <2>2. CASE a = "update"
    <3>1. /\ view \subseteq members
          /\ \A m \in members : \E v \in view : v[1] = m[1]
      BY <1>1, <2>2 DEF Views
    <3>2. \A m, v \in Nodes \X {port} : v[1] = m[1] => v = m
      OBVIOUS
    <3> QED  BY <2>2, <3>1, <3>2
  <2> QED  BY <2>1, <2>2 DEF Actors
<1> QED  BY <1>1, <1>2 DEF Lists, Same, ToAdd, ToDrop, Accounts

LEMMA PassAlone ==
  ASSUME Types, NEW a \in Actors, PassStep(a), Alone, Fresh
  PROVE  Alone' /\ Fresh'
<1>1. /\ Going(a)
      /\ \A b \in Actors \ {a} : pass'[b] = pass[b]
      /\ UNCHANGED <<nodes, cached, known>>
      /\ Lists(a) \/ Creates(a) \/ Deletes(a) \/ Waits(a) \/ Returns(a) \/ Errs(a)
  BY PassSteps DEF cluster
<1>2. \/ Going(a)' /\ pass'[a].hosts = pass[a].hosts
      \/ ~Going(a)'
  BY <1>1, IdleFields DEF Lists, Creates, Deletes, Waits, Returns, Errs, Same, Going
<1>3. CASE a = "ensure"
  <2>1. pass'["update"] = pass["update"]
    BY <1>1, <1>3 DEF Actors
  <2> QED  BY <1>1, <1>2, <1>3, <2>1 DEF Alone, Fresh, Going
<1>4. CASE a = "update"
  <2>1. pass'["ensure"] = pass["ensure"]
    BY <1>1, <1>4 DEF Actors
  <2> QED  BY <1>1, <1>2, <1>4, <2>1 DEF Alone, Fresh, Going
<1> QED  BY <1>3, <1>4 DEF Actors

LEMMA PassServed ==
  ASSUME Types, NEW a \in Actors, PassStep(a), Alone, Fresh, Served, ~queued, ~queued'
  PROVE  Served'
<1>1. /\ Going(a) /\ UNCHANGED <<nodes, port, cached, known>>
      /\ \A b \in Actors \ {a} : pass'[b] = pass[b]
      /\ Lists(a) \/ Creates(a) \/ Deletes(a) \/ Waits(a) \/ Returns(a) \/ Errs(a)
  BY PassSteps DEF cluster
<1>2. /\ pass[a].np = port /\ port \in NodePorts /\ pass[a].hosts \subseteq Nodes
      /\ pass[a].add \subseteq pass[a].hosts \X {port}
      /\ \A b \in Actors : Going(b) => b = a
  BY <1>1 DEF Served, Types, TypeOK, Passes, Alone, Actors
<1>3. \A b \in Actors \ {a} : ~Going(b)' /\ Accounts(b)'
  BY <1>1, <1>2 DEF Going, Accounts
<1>4. a = "update" => members \subseteq Nodes \X {port}
  BY <1>2 DEF Served, Actors
<1>5. CASE Lists(a) \/ Creates(a) \/ Deletes(a) \/ Waits(a)
  <2>1. Same(a)
    BY <1>5 DEF Lists, Creates, Deletes, Waits
  <2>2. Going(a)' /\ pass'[a].np = port
    BY <1>2, <2>1 DEF Same, Going
  <2>3. ~Quiet'
    BY <2>1 DEF Same, Quiet
  <2>4. a = "update" => members' \subseteq Nodes \X {port}
    BY <1>2, <1>4, <1>5 DEF Lists, Creates, Deletes, Waits
  <2>5. ~Going("ensure")' => a = "update"
    BY <2>2 DEF Actors
  <2>6. Accounts(a)'
    BY <1>4, <1>5, AccountsKept, AccountsListed DEF Served
  <2> QED  BY <1>1, <1>3, <2>2, <2>3, <2>4, <2>5, <2>6 DEF Served
<1>6. CASE Returns(a)
  <2>1. members = pass[a].hosts \X {port}
    BY <1>2, <1>6 DEF Returns, Finished, Served, Accounts
  <2>2. ~Going(a)' /\ Accounts(a)' /\ members' = members
    BY <1>6, IdleFields DEF Returns, Going, Accounts
  <2>3. members' \subseteq Nodes \X {port}
    BY <1>2, <2>1, <2>2
  <2>4. Quiet' => pass[a].hosts = nodes
    <3>1. CASE a = "ensure"
      BY <1>1, <3>1 DEF Quiet, Fresh, Actors
    <3>2. CASE a = "update"
      BY <1>1, <3>2 DEF Quiet, Fresh
    <3> QED  BY <3>1, <3>2 DEF Actors
  <2> QED  BY <1>1, <1>3, <2>1, <2>2, <2>3, <2>4 DEF Served
<1>7. CASE Errs(a)
  <2>1. a = "update" /\ retry' = port
    BY <1>2, <1>7 DEF Errs, Fails, Actors
  <2>2. ~Quiet'
    BY <1>2, <2>1, ConstantsAssumption DEF Quiet
  <2>3. ~Going(a)' /\ Accounts(a)' /\ members' = members
    BY <1>7, IdleFields DEF Errs, Going, Accounts
  <2> QED  BY <1>1, <1>3, <1>4, <2>1, <2>2, <2>3 DEF Served
<1> QED  BY <1>1, <1>5, <1>6, <1>7

\* A pass that starts without noting anything starts alone.
LEMMA StartAlone ==
  ASSUME NEW a \in Actors, Overlaps(a) = {}
  PROVE  \A b \in Actors \ {a} : pass[b].pc = "idle"
BY DEF Overlaps, Noted

LEMMA BeginEnsureSync ==
  ASSUME Types, BeginEnsure, Running, SyncInv, beyond' = {}
  PROVE  Alone' /\ Fresh' /\ (~queued' => Served')
<1>0. /\ queued /\ pass["ensure"].pc = "idle" /\ cached' = port
      /\ UNCHANGED <<cluster, known, retry, members, busy, faults>>
      /\ port \in NodePorts /\ port # NoPort
  BY BeginEnsureSteps, ConstantsAssumption DEF Types, TypeOK
<1>1. CASE UNCHANGED <<queued, pass, beyond>>
  <2>1. Alone /\ Fresh
    BY <1>1 DEF SyncInv
  <2> QED  BY <1>0, <1>1, <2>1 DEF Alone, Fresh, Going, cluster
<1>2. CASE /\ nodes # {} /\ queued' = FALSE /\ Started("ensure", port)
           /\ beyond' = beyond \cup Overlaps("ensure")
  <2>1. pass["update"].pc = "idle"
    <3>1. Overlaps("ensure") = {}
      BY <1>2
    <3> QED  BY <3>1, StartAlone DEF Actors
  <2>2. /\ pass'["update"] = pass["update"] /\ pass'["ensure"].pc = "list"
        /\ pass'["ensure"].np = port /\ pass'["ensure"].hosts = nodes
    BY <1>0, <1>2, StartSteps DEF Actors
  <2>3. Alone' /\ Fresh'
    BY <1>0, <2>1, <2>2 DEF Alone, Fresh, Going, cluster
  <2>4. Going("ensure")' /\ ~Going("update")' /\ ~Quiet'
        /\ \A b \in Actors : Accounts(b)'
    BY <2>1, <2>2 DEF Going, Quiet, Accounts, Actors
  <2>5. Served'
    BY <1>0, <2>2, <2>4 DEF Served, cluster, Actors
  <2> QED  BY <2>3, <2>5
<1> QED  BY <1>1, <1>2, BeginEnsureSteps

LEMMA BeginUpdateSync ==
  ASSUME Types, BeginUpdate, SyncInv, beyond' = {}
  PROVE  Alone' /\ Fresh' /\ (~queued' => Served')
<1>0. /\ pass["update"].pc = "idle" /\ known' = nodes /\ retry' = NoPort
      /\ UNCHANGED <<cluster, queued, cached, members, busy, faults>>
  BY BeginUpdateSteps
<1>1. CASE pass' = [pass EXCEPT !["update"].pc = "down"] /\ UNCHANGED beyond
  <2>1. /\ pass'["ensure"] = pass["ensure"] /\ pass'["update"].pc = "down"
        /\ Alone /\ Fresh /\ (~queued => Served)
    BY <1>0, <1>1, DownSteps DEF SyncInv
  <2>2. Alone' /\ Fresh' /\ ~Quiet'
    BY <1>0, <2>1 DEF Alone, Fresh, Going, Quiet, Actors
  <2>3. \A b \in Actors : (Going(b)' => Going(b) /\ pass'[b].np = pass[b].np)
                           /\ (Accounts(b) => Accounts(b)')
    BY <1>0, <2>1 DEF Going, Accounts, Actors
  <2>4. Going("ensure")' <=> Going("ensure")
    BY <2>1 DEF Going
  <2>5. ~queued' => Served'
    BY <1>0, <2>1, <2>2, <2>3, <2>4 DEF Served, cluster
  <2> QED  BY <2>2, <2>5
<1>2. ASSUME NEW np \in {cached, retry} \ {NoPort}, nodes # {}, Started("update", np),
             beyond' = beyond \cup Overlaps("update") \cup Noted("stale", np # cached)
      PROVE  Alone' /\ Fresh' /\ (~queued' => Served')
  <2>0. np \in NodePorts /\ Alone /\ Fresh /\ (~queued => Served)
    BY <1>2 DEF Types, TypeOK, SyncInv
  <2>1. np = cached /\ pass["ensure"].pc = "idle"
    <3>1. Overlaps("update") = {} /\ Noted("stale", np # cached) = {}
      BY <1>2
    <3> QED  BY <3>1, StartAlone DEF Actors, Noted
  <2>2. /\ pass'["ensure"] = pass["ensure"] /\ pass'["update"].pc = "list"
        /\ pass'["update"].np = np /\ pass'["update"].hosts = nodes
    BY <1>2, <2>0, StartSteps DEF Actors
  <2>3. Alone' /\ Fresh'
    BY <1>0, <2>1, <2>2 DEF Alone, Fresh, Going
  <2>4. ~Going("ensure")' /\ ~Going("ensure") /\ ~Quiet' /\ \A b \in Actors : Accounts(b)'
    BY <2>1, <2>2 DEF Going, Quiet, Accounts, Actors
  <2>5. ~queued' => Served'
    BY <1>0, <2>0, <2>1, <2>2, <2>4 DEF Served, cluster, Actors
  <2> QED  BY <2>3, <2>5
<1> QED  BY <1>1, <1>2, BeginUpdateSteps

LEMMA OtherSync ==
  ASSUME Types, SyncInv, beyond' = {},
         NothingToUpdate \/ Settle \/ EditPort \/ MoveNodes \/ UNCHANGED vars
  PROVE  Alone' /\ Fresh' /\ (~queued' => Served')
<1>0. beyond = {} /\ UNCHANGED <<pass, members, retry, cached>>
  BY DEF NothingToUpdate, Settle, EditPort, MoveNodes, vars
<1>1. Alone /\ Fresh /\ (~queued => Served)
  BY <1>0 DEF SyncInv
<1>2. CASE NothingToUpdate
  <2>1. queued
    BY <1>1, <1>2, ConstantsAssumption DEF NothingToUpdate, Served, Types, TypeOK
  <2>2. ~Going("ensure") /\ ~Going("update")
    BY <1>1, <1>2 DEF NothingToUpdate, Fresh, Going
  <2> QED  BY <1>0, <1>2, <2>1, <2>2 DEF NothingToUpdate, Alone, Fresh, Going
<1>3. CASE Settle \/ UNCHANGED vars
  BY <1>0, <1>1, <1>3 DEF Settle, vars, cluster, Alone, Fresh, Served, Accounts, Quiet, Going
<1>4. CASE EditPort
  BY <1>0, <1>1, <1>4 DEF EditPort, Alone, Fresh, Going
<1>5. CASE MoveNodes
  <2>1. nodes # known => nodes' # known
    BY <1>5 DEF MoveNodes, Noted
  <2>2. nodes = known => nodes' # known
    BY <1>5 DEF MoveNodes
  <2>3. UNCHANGED <<port, queued, known>>
    BY <1>5 DEF MoveNodes
  <2>4. Alone' /\ Fresh'
    BY <1>0, <1>1, <2>1, <2>2, <2>3 DEF Alone, Fresh, Going
  <2>5. ~Quiet'
    BY <2>1, <2>2, <2>3 DEF Quiet
  <2>6. ~queued' => Served'
    BY <1>0, <1>1, <2>3, <2>5 DEF Served, Accounts, Going
  <2> QED  BY <2>4, <2>6
<1> QED  BY <1>2, <1>3, <1>4, <1>5

LEMMA SyncKept == Types /\ SyncInv /\ [Next]_vars => SyncInv'
<1> SUFFICES ASSUME Types, SyncInv, [Next]_vars, beyond' = {}
             PROVE  Alone' /\ Fresh' /\ (~queued' => Served')
  BY DEF SyncInv
<1>1. CASE BeginEnsure /\ Running
  BY <1>1, BeginEnsureSync
<1>2. CASE BeginUpdate
  BY <1>2, BeginUpdateSync
<1>3. CASE NothingToUpdate \/ Settle \/ EditPort \/ MoveNodes \/ UNCHANGED vars
  BY <1>3, OtherSync
<1>4. CASE StartsAgain
  <2>1. \A a \in Actors : ~Going(a)'
    BY <1>4, IdleFields DEF StartsAgain, Going
  <2> QED  BY <1>4, <2>1 DEF StartsAgain, Alone, Fresh, Actors
<1>5. ASSUME NEW a \in Actors, PassStep(a)
      PROVE  Alone' /\ Fresh' /\ (~queued' => Served')
  <2>1. beyond = {}
    BY <1>5, PassSteps
  <2>2. Alone /\ Fresh /\ (~queued => Served)
    BY <2>1 DEF SyncInv
  <2>3. ~queued' => ~queued
    BY <1>5, PassSteps DEF Lists, Creates, Deletes, Waits, Returns, Errs, Fails
  <2> QED  BY <1>5, <2>2, <2>3, PassAlone, PassServed
<1> QED  BY <1>1, <1>2, <1>3, <1>4, <1>5 DEF Next, Restart, Crash

LEMMA SyncInit == Init => SyncInv
<1> SUFFICES ASSUME Init PROVE SyncInv
  OBVIOUS
<1>1. \A a \in Actors : ~Going(a)
  BY IdleFields DEF Init, Going
<1> QED  BY <1>1 DEF Init, SyncInv, Alone, Fresh, Actors

\* Whatever failed or went down before: when nobody has anything left to do, and nothing
\* was beyond the operations' own doing, the members are the cluster's nodes at the node
\* port of the Service.
THEOREM QuietMeansMembersEver == Spec => []QuietMeansMembers
<1>1. SyncInv => QuietMeansMembers
  BY DEF SyncInv, Served, Quiet, QuietMeansMembers
<1> QED  BY <1>1, TypesInit, TypesKept, SyncInit, SyncKept, PTL DEF Spec
=============================================================================
