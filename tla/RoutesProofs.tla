---------------------------- MODULE RoutesProofs ----------------------------
(***************************************************************************)
(* Proofs about Routes: types, the routes of others, what an operation     *)
(* that is alone does, and that a route has its address pair.              *)
(***************************************************************************)
EXTENDS Routes, TLAPS

Begun(o) == op[o].pc \in {"put", "port", "pair", "undo"}

\* How an operation goes on: what a step leaves in op.
LEMMA GoesTo ==
  ASSUME op \in [Ops -> Records], NEW o \in Ops, NEW r \in Records, Goes(o, r)
  PROVE  /\ op' \in [Ops -> Records]
         /\ op'[o] = Kept(r)
         /\ \A p \in Ops \ {o} : op'[p] \in {op[p], Disturbed(op[p])}
         /\ \A p \in Ops \ {o} : op'[p].clean => op[p] = op'[p] /\ UNCHANGED cloud
BY DEF Goes, Kept, Disturbed, Records, Idle, Over

\* The others keep where they are, what they have read and what they are.
LEMMA OthersGoOn ==
  ASSUME op \in [Ops -> Records], NEW p \in Ops, op'[p] \in {op[p], Disturbed(op[p])}
  PROVE  /\ Running(p)' = Running(p)
         /\ Begun(p)' = Begun(p)
         /\ Running(p) => /\ op'[p].pc = op[p].pc /\ op'[p].hole = op[p].hole
                          /\ op'[p].read = op[p].read /\ op'[p].last = op[p].last
         /\ op'[p].had \in {op[p].had, {}}
BY DEF Disturbed, Kept, Records, Idle, Over, Running, Begun

LEMMA OpParts ==
  ASSUME NEW o \in Ops
  PROVE  /\ o[1] \in Kinds /\ Route(o) \in Managed /\ NodeOf(o) \in Nodes
         /\ o = <<o[1], Route(o)>>
BY DEF Ops, Route, NodeOf, Managed

-----------------------------------------------------------------------------
(* Types.                                                                  *)

\* What a step of an operation leaves in place.
StepTypes ==
  /\ routes \subseteq Managed \cup Foreign
  /\ pairs \subseteq Managed
  /\ torn \in BOOLEAN
  /\ faults \in 0..MaxFaults
  /\ op \in [Ops -> Records]
  /\ \A o \in Ops : \A p \in op[o].had : p[1] = NodeOf(o)

LEMMA GoesTypes ==
  ASSUME TypeOK, NEW o \in Ops, NEW r \in Records, Goes(o, r),
         \A p \in r.had : p[1] = NodeOf(o)
  PROVE  /\ op' \in [Ops -> Records]
         /\ \A q \in Ops : \A p \in op'[q].had : p[1] = NodeOf(q)
<1>1. /\ op' \in [Ops -> Records]
      /\ op'[o] = Kept(r)
      /\ \A q \in Ops \ {o} : op'[q] \in {op[q], Disturbed(op[q])}
  BY GoesTo DEF TypeOK
<1>2. Kept(r).had \in {r.had, {}}
  BY DEF Kept, Idle
<1>3. ASSUME NEW q \in Ops \ {o}
      PROVE  op'[q].had \in {op[q].had, {}}
  <2>1. op'[q] \in {op[q], Disturbed(op[q])}  BY <1>1
  <2> QED  BY <2>1, OthersGoOn DEF TypeOK
<1> QED  BY <1>1, <1>2, <1>3 DEF TypeOK

\* The records an operation goes on with.
LEMMA RecordTypes ==
  ASSUME op \in [Ops -> Records], NEW o \in Ops
  PROVE  /\ \A pc \in {"done", "failed", "port", "pair", "undo"} :
              /\ Goto(o, pc) \in Records /\ Goto(o, pc).had = op[o].had
              /\ InDoubt(o, pc) \in Records /\ InDoubt(o, pc).had = op[o].had
         /\ Idle \in Records /\ Idle.had = {}
BY DEF Goto, InDoubt, Records, Idle

LEMMA FaultTypes == TypeOK /\ (Fault \/ UNCHANGED faults) => faults' \in 0..MaxFaults
BY ConstantsAssumption DEF TypeOK, Fault

LEMMA OpStepTypes ==
  ASSUME TypeOK, NEW o \in Ops, OpStep(o)
  PROVE  StepTypes'
<1> USE DEF StepTypes
<1>0. /\ Route(o) \in Managed /\ NodeOf(o) \in Nodes /\ Route(o)[1] = NodeOf(o)
      /\ op[o] \in Records /\ op \in [Ops -> Records]
      /\ \A p \in op[o].had : p[1] = NodeOf(o)
  BY OpParts DEF TypeOK, NodeOf
<1>f. faults' \in 0..MaxFaults
  BY FaultTypes DEF OpStep, ReadRouter, PutRoutes, ReadPort, PutPairs, Undo
<1>1. CASE ReadRouter(o)
  <2>1. /\ UNCHANGED <<cloud, torn>>
        /\ \/ \E last \in BOOLEAN :
                Goes(o, [op[o] EXCEPT !.read = routes, !.clean = TRUE, !.last = last,
                              !.pc = IF Skips(o) THEN "done" ELSE "put"])
           \/ Goes(o, Goto(o, "failed"))
    BY <1>1 DEF ReadRouter
  <2>2. \A last \in BOOLEAN :
          LET r == [op[o] EXCEPT !.read = routes, !.clean = TRUE, !.last = last,
                              !.pc = IF Skips(o) THEN "done" ELSE "put"]
          IN  r \in Records /\ r.had = op[o].had
    BY <1>0 DEF Records, TypeOK
  <2>3. /\ op' \in [Ops -> Records]
        /\ \A q \in Ops : \A p \in op'[q].had : p[1] = NodeOf(q)
    BY <2>1, <2>2, <1>0, GoesTypes, RecordTypes
  <2> QED  BY <2>1, <2>3, <1>f DEF TypeOK, cloud
<1>2. CASE PutRoutes(o)
  <2>1. Written(o) \subseteq Managed \cup Foreign
    BY <1>0 DEF Written, Records
  <2>2. /\ op' \in [Ops -> Records]
        /\ \A q \in Ops : \A p \in op'[q].had : p[1] = NodeOf(q)
    BY <1>2, <1>0, GoesTypes, RecordTypes DEF PutRoutes
  <2> QED  BY <1>2, <2>1, <2>2, <1>f DEF PutRoutes, TypeOK, Unless
<1>3. CASE ReadPort(o)
  <2>1. LET r == [op[o] EXCEPT !.had = PairsOf(NodeOf(o)),
                      !.pc = IF (Route(o) \in pairs) = (o[1] = "create")
                             THEN "done" ELSE "pair"]
        IN  r \in Records /\ r.had = PairsOf(NodeOf(o))
    BY <1>0 DEF Records, TypeOK, PairsOf
  <2>2. \A p \in PairsOf(NodeOf(o)) : p[1] = NodeOf(o)
    BY DEF PairsOf
  <2>3. /\ op' \in [Ops -> Records]
        /\ \A q \in Ops : \A p \in op'[q].had : p[1] = NodeOf(q)
    BY <1>3, <2>1, <2>2, <1>0, GoesTypes, RecordTypes DEF ReadPort
  <2> QED  BY <1>3, <2>3, <1>f DEF ReadPort, TypeOK, cloud
<1>4. CASE PutPairs(o)
  <2>1. PairsWritten(o) \subseteq Managed
    BY <1>0 DEF PairsWritten, Records, TypeOK
  <2>2. /\ op' \in [Ops -> Records]
        /\ \A q \in Ops : \A p \in op'[q].had : p[1] = NodeOf(q)
    BY <1>4, <1>0, GoesTypes, RecordTypes DEF PutPairs
  <2> QED  BY <1>4, <2>1, <2>2, <1>f DEF PutPairs, TypeOK, Unless
<1>5. CASE Undo(o)
  <2>1. Restored(o) \subseteq Managed \cup Foreign
    BY <1>0 DEF Restored, Records
  <2>2. /\ op' \in [Ops -> Records]
        /\ \A q \in Ops : \A p \in op'[q].had : p[1] = NodeOf(q)
    BY <1>5, <1>0, GoesTypes, RecordTypes DEF Undo
  <2> QED  BY <1>5, <2>1, <2>2, <1>f DEF Undo, TypeOK, Unless
<1> QED  BY <1>1, <1>2, <1>3, <1>4, <1>5 DEF OpStep

LEMMA OpStepLeaves ==
  ASSUME NEW o \in Ops, OpStep(o)
  PROVE  UNCHANGED <<servers, cluster, listed, history>>
BY DEF OpStep, ReadRouter, PutRoutes, ReadPort, PutPairs, Undo, cloud

\* The records of others after a change of the cloud, and at the end of a round.
LEMMA DisturbedTypes ==
  ASSUME NEW r \in Records
  PROVE  /\ Disturbed(r) \in Records /\ Disturbed(r).had \in {r.had, {}}
         /\ Idle \in Records /\ Idle.had = {}
BY DEF Disturbed, Kept, Records, Idle, Over

LEMMA TypesKept == TypeOK /\ [Next]_vars => TypeOK'
<1> SUFFICES ASSUME TypeOK, [Next]_vars PROVE TypeOK'
  OBVIOUS
<1> USE ConstantsAssumption
<1>1. ASSUME NEW o \in Ops, OpStep(o) PROVE TypeOK'
  BY <1>1, OpStepTypes, OpStepLeaves DEF StepTypes, TypeOK, cluster, history
<1>2. CASE ListServers
  <2>1. /\ op' \in [Ops -> Records] /\ \A o \in Ops : op'[o].had = {}
    BY <1>2, DisturbedTypes DEF ListServers, TypeOK
  <2> QED  BY <1>2, <2>1 DEF ListServers, TypeOK, cloud, cluster, history
<1>3. CASE ListRoutes
  <2>1. /\ op' \in [Ops -> Records] /\ \A o \in Ops : op'[o].had = {}
    BY <1>3 DEF ListRoutes, Records, Idle
  <2> QED  BY <1>3, <2>1 DEF ListRoutes, TypeOK, cloud, cluster, history
<1>4. CASE ChangeNode
  BY <1>4 DEF ChangeNode, TypeOK, cloud, history
<1>5. CASE Destroy \/ AddForeign
  <2>0. NoteChange
    BY <1>5 DEF Destroy, AddForeign
  <2> /\ op' \in [Ops -> Records]
      /\ \A o \in Ops : \A p \in op'[o].had : p[1] = NodeOf(o)
    BY <2>0, DisturbedTypes DEF NoteChange, TypeOK
  <2>1. CASE Destroy
    BY <2>1 DEF Destroy, TypeOK, history, PairsOf
  <2>2. CASE AddForeign
    BY <2>2 DEF AddForeign, TypeOK
  <2> QED  BY <1>5, <2>1, <2>2
<1>6. CASE Crash
  <2>1. /\ op' \in [Ops -> Records] /\ \A o \in Ops : op'[o].had = {}
    BY <1>6, DisturbedTypes DEF Crash, TypeOK
  <2> QED  BY <1>6, <2>1 DEF Crash, TypeOK, cloud, cluster, history, Fault
<1>7. CASE UNCHANGED vars
  BY <1>7 DEF vars, TypeOK
<1> QED  BY <1>1, <1>2, <1>3, <1>4, <1>5, <1>6, <1>7 DEF Next, Controller

LEMMA TypesInit == Init => TypeOK
<1> SUFFICES ASSUME Init PROVE TypeOK
  OBVIOUS
<1>1. pairs \subseteq Managed
  BY DEF Init, Of
<1>2. op \in [Ops -> Records] /\ \A o \in Ops : op[o].had = {}
  BY DEF Init, Idle, Records
<1>3. cidr \in [Nodes -> CIDRs \cup {None}]
  BY DEF Init, Assignments
<1>4. /\ routes \subseteq Managed \cup Foreign /\ servers \subseteq Nodes
      /\ raced \subseteq added /\ added \subseteq Foreign
  BY <1>1 DEF Init
<1>5. faults \in 0..MaxFaults /\ edits \in 0..MaxEdits
  BY ConstantsAssumption DEF Init
<1> QED  BY <1>1, <1>2, <1>3, <1>4, <1>5 DEF Init, TypeOK

\* Every variable keeps its type; in particular, an operation only ever holds
\* the address pairs of its own node's port.
THEOREM TypesHold == Spec => []TypeOK
BY TypesInit, TypesKept, PTL DEF Spec

-----------------------------------------------------------------------------
(* The routes of others.  While an operation is between its read of the    *)
(* router and its last write, what it has read has the routes of others    *)
(* that were there before.                                                 *)

ForeignRead == \A o \in Ops : Begun(o) => added \ raced \subseteq op[o].read

ForeignInv == ForeignRoutesStay /\ ForeignRead

LEMMA OpStepGoes ==
  ASSUME TypeOK, NEW o \in Ops, OpStep(o)
  PROVE  \E r \in Records : Goes(o, r)
<1> DEFINE read(last) == [op[o] EXCEPT !.read = routes, !.clean = TRUE, !.last = last,
                              !.pc = IF Skips(o) THEN "done" ELSE "put"]
           port == [op[o] EXCEPT !.had = PairsOf(NodeOf(o)),
                      !.pc = IF (Route(o) \in pairs) = (o[1] = "create")
                             THEN "done" ELSE "pair"]
<1>0. op \in [Ops -> Records] /\ op[o] \in Records
  BY DEF TypeOK
<1>1. \A last \in BOOLEAN : read(last) \in Records
  BY <1>0 DEF Records, TypeOK
<1>2. port \in Records
  BY <1>0 DEF Records, TypeOK, PairsOf
<1>3. \A pc \in {"done", "failed", "port", "pair", "undo"} :
        Goto(o, pc) \in Records /\ InDoubt(o, pc) \in Records
  BY <1>0, RecordTypes
<1>4. CASE ReadRouter(o)
  <2>1. (\E last \in BOOLEAN : Goes(o, read(last))) \/ Goes(o, Goto(o, "failed"))
    BY <1>4 DEF ReadRouter
  <2> QED  BY <2>1, <1>1, <1>3
<1>5. CASE ReadPort(o)
  BY <1>5, <1>2, <1>3 DEF ReadPort
<1>6. CASE PutRoutes(o) \/ PutPairs(o) \/ Undo(o)
  BY <1>6, <1>3 DEF PutRoutes, PutPairs, Undo
<1> QED  BY <1>4, <1>5, <1>6 DEF OpStep

\* The others in a step of an operation.
LEMMA OthersInStep ==
  ASSUME TypeOK, NEW o \in Ops, OpStep(o), NEW p \in Ops, p # o
  PROVE  /\ Running(p)' = Running(p)
         /\ Begun(p)' = Begun(p)
         /\ Running(p) => /\ op'[p].pc = op[p].pc /\ op'[p].hole = op[p].hole
                          /\ op'[p].read = op[p].read /\ op'[p].last = op[p].last
         /\ op'[p].clean => op[p] = op'[p] /\ UNCHANGED cloud
BY OpStepGoes, GoesTo, OthersGoOn DEF TypeOK

\* The operation itself: it has the record r, unless that one is over and is
\* not worth remembering.
LEMMA OwnInStep ==
  ASSUME TypeOK, NEW o \in Ops, NEW r \in Records, Goes(o, r)
  PROVE  /\ r.pc \notin Over => op'[o] = r
         /\ r.pc \in Over => ~Running(o)' /\ ~Begun(o)' /\ (op'[o].clean => op'[o] = r)
<1>1. op'[o] = Kept(r)
  BY GoesTo DEF TypeOK
<1> QED  BY <1>1 DEF Kept, Over, Running, Begun, Idle, Records

\* Only a read of the router changes what an operation has read, and it is the
\* one that begins it.
LEMMA ReadInStep ==
  ASSUME TypeOK, NEW o \in Ops, OpStep(o), Begun(o)'
  PROVE  \/ ReadRouter(o) /\ op'[o].read = routes
         \/ Begun(o) /\ op'[o].read = op[o].read
<1> DEFINE read(last) == [op[o] EXCEPT !.read = routes, !.clean = TRUE, !.last = last,
                              !.pc = IF Skips(o) THEN "done" ELSE "put"]
           port == [op[o] EXCEPT !.had = PairsOf(NodeOf(o)),
                      !.pc = IF (Route(o) \in pairs) = (o[1] = "create")
                             THEN "done" ELSE "pair"]
<1>0. op \in [Ops -> Records] /\ op[o] \in Records
  BY DEF TypeOK
<1>1. \A last \in BOOLEAN : read(last) \in Records /\ read(last).read = routes
  BY <1>0 DEF Records, TypeOK
<1>2. port \in Records /\ port.read = op[o].read
  BY <1>0 DEF Records, TypeOK, PairsOf
<1>3. \A pc \in {"done", "failed", "port", "pair", "undo"} :
        /\ Goto(o, pc) \in Records /\ Goto(o, pc).read = op[o].read
        /\ InDoubt(o, pc) \in Records /\ InDoubt(o, pc).read = op[o].read
        /\ Goto(o, pc).pc = pc /\ InDoubt(o, pc).pc = pc
  BY <1>0 DEF Records, Goto, InDoubt
<1>4. CASE ReadRouter(o)
  <2>1. (\E last \in BOOLEAN : Goes(o, read(last))) \/ Goes(o, Goto(o, "failed"))
    BY <1>4 DEF ReadRouter
  <2>2. ~Goes(o, Goto(o, "failed"))
    BY <1>3, OwnInStep DEF Over
  <2>3. PICK last \in BOOLEAN : Goes(o, read(last))
    BY <2>1, <2>2
  <2> QED  BY <2>3, <1>1, <1>4, OwnInStep
<1>5. CASE ReadPort(o)
  <2>1. Begun(o) /\ (Goes(o, port) \/ Goes(o, Goto(o, "undo")))
    BY <1>5 DEF ReadPort, Begun
  <2> HIDE DEF port
  <2> QED  BY <2>1, <1>2, <1>3, OwnInStep
<1>6. CASE PutRoutes(o) \/ PutPairs(o) \/ Undo(o)
  <2>1. /\ Begun(o)
        /\ \E pc \in {"done", "failed", "port", "pair", "undo"} :
             Goes(o, Goto(o, pc)) \/ Goes(o, InDoubt(o, pc))
    BY <1>6 DEF PutRoutes, PutPairs, Undo, Begun
  <2> QED  BY <2>1, <1>3, OwnInStep
<1> QED  BY <1>4, <1>5, <1>6 DEF OpStep

\* What is on the router after a step of an operation.
LEMMA RoutesInStep ==
  ASSUME NEW o \in Ops, OpStep(o)
  PROVE  \/ UNCHANGED routes
         \/ Begun(o) /\ routes' \in {Written(o), Restored(o)}
BY DEF OpStep, ReadRouter, PutRoutes, ReadPort, PutPairs, Undo, Begun, cloud

LEMMA ForeignKeptByOp ==
  ASSUME TypeOK, ForeignInv, NEW o \in Ops, OpStep(o)
  PROVE  ForeignInv'
<1>1. /\ UNCHANGED <<added, raced>>
      /\ added \ raced \subseteq routes
      /\ Route(o) \notin added \ raced
  BY OpStepLeaves, OpParts, ConstantsAssumption
     DEF history, TypeOK, ForeignInv, ForeignRoutesStay
<1>2. added \ raced \subseteq routes'
  BY <1>1, RoutesInStep DEF ForeignInv, ForeignRead, Written, Restored
<1>3. ASSUME NEW p \in Ops, Begun(p)' PROVE added \ raced \subseteq op'[p].read
  <2>1. CASE p = o
    BY <2>1, <1>1, <1>3, ReadInStep DEF ForeignInv, ForeignRead
  <2>2. CASE p # o
    <3>1. Begun(p) /\ Running(p)
      BY <2>2, <1>3, OthersInStep DEF Begun, Running, Over
    <3> QED  BY <2>2, <3>1, OthersInStep DEF ForeignInv, ForeignRead
  <2> QED  BY <2>1, <2>2
<1> QED  BY <1>1, <1>2, <1>3 DEF ForeignInv, ForeignRoutesStay, ForeignRead

\* A round begins and ends, and a process starts, with nothing under way.
LEMMA AtRounds ==
  ASSUME ListServers \/ ListRoutes \/ Crash, NEW o \in Ops
  PROVE  op'[o].pc \in {"idle", "router"} /\ ~Begun(o)' /\ ~op'[o].clean
<1>1. CASE ListServers \/ Crash
  BY <1>1 DEF ListServers, Crash, Idle, Begun
<1>2. CASE ListRoutes
  <2>1. \/ op'[o] = Idle
        \/ op'[o] = [Idle EXCEPT !.pc = "router"]
        \/ op'[o] = [Idle EXCEPT !.pc = "router", !.hole = TRUE]
    BY <1>2 DEF ListRoutes
  <2>2. /\ Idle.pc = "idle" /\ ~Idle.clean
        /\ [Idle EXCEPT !.pc = "router"].pc = "router"
        /\ ~[Idle EXCEPT !.pc = "router"].clean
    BY DEF Idle
  <2>3. /\ [Idle EXCEPT !.pc = "router", !.hole = TRUE].pc = "router"
        /\ ~[Idle EXCEPT !.pc = "router", !.hole = TRUE].clean
    BY DEF Idle
  <2>4. op'[o].pc \in {"idle", "router"} /\ ~op'[o].clean
    BY <2>1, <2>2, <2>3
  <2> QED  BY <2>4 DEF Begun
<1> QED  BY <1>1, <1>2

LEMMA ForeignKept == TypeOK /\ ForeignInv /\ [Next]_vars => ForeignInv'
<1> SUFFICES ASSUME TypeOK, ForeignInv, [Next]_vars PROVE ForeignInv'
  OBVIOUS
<1> USE DEF ForeignInv, ForeignRoutesStay, ForeignRead
<1>1. ASSUME NEW o \in Ops, OpStep(o) PROVE ForeignInv'
  BY <1>1, ForeignKeptByOp
<1>2. CASE ListServers \/ ListRoutes \/ Crash
  <2>1. \A o \in Ops : ~Begun(o)'
    BY <1>2, AtRounds
  <2> QED  BY <1>2, <2>1 DEF ListServers, ListRoutes, Crash, cloud, history
<1>3. CASE ChangeNode \/ UNCHANGED vars
  BY <1>3 DEF ChangeNode, vars, cloud, history, Begun
<1>4. CASE Destroy \/ AddForeign
  <2>1. ASSUME NEW o \in Ops, Begun(o)'
        PROVE  Running(o) /\ Begun(o) /\ op'[o].read = op[o].read
    <3>1. op'[o] = Disturbed(op[o])
      BY <1>4 DEF Destroy, AddForeign, NoteChange
    <3> QED  BY <2>1, <3>1, OthersGoOn DEF TypeOK, Begun, Running, Over
  <2>2. CASE Destroy
    BY <2>1, <2>2 DEF Destroy, history
  <2>3. CASE AddForeign
    <3>1. PICK f \in Foreign \ added :
            /\ routes' = routes \cup {f} /\ added' = added \cup {f}
            /\ raced' = IF \E o \in Ops : Running(o) THEN raced \cup {f} ELSE raced
      BY <2>3 DEF AddForeign
    <3>2. added' \ raced' \subseteq routes'
      BY <3>1
    <3>3. ASSUME NEW o \in Ops, Begun(o)' PROVE added' \ raced' \subseteq op'[o].read
      BY <2>1, <3>1, <3>3
    <3> QED  BY <3>2, <3>3
  <2> QED  BY <1>4, <2>2, <2>3
<1> QED  BY <1>1, <1>2, <1>3, <1>4 DEF Next, Controller

\* Whatever the operations overwrite, undo or leave undone, a route that is none
\* of theirs stays on the router, unless it was added under a running one.
THEOREM ForeignRoutesStayEver == Spec => []ForeignRoutesStay
<1>1. Init => ForeignInv
  <2> SUFFICES ASSUME Init PROVE ForeignInv
    OBVIOUS
  <2>1. \A o \in Ops : ~Begun(o)
    BY DEF Init, Begun, Idle
  <2> QED  BY <2>1 DEF Init, ForeignInv, ForeignRoutesStay, ForeignRead
<1>2. ForeignInv => ForeignRoutesStay
  BY DEF ForeignInv
<1> QED  BY <1>1, <1>2, ForeignKept, TypesHold, PTL DEF Spec

-----------------------------------------------------------------------------
(* An operation that is alone.  As long as it is, the router has what the  *)
(* operation has read or written last.                                     *)

Changed(o) == IF o[1] = "create" THEN op[o].read \cup {Route(o)} ELSE op[o].read \ {Route(o)}

AloneAt(o) ==
  op[o].clean =>
    /\ op[o].pc \notin {"idle", "router"}
    /\ op[o].pc = "put" => routes = op[o].read
    /\ op[o].pc \in {"port", "pair", "undo"} => routes = Changed(o) /\ ~op[o].hole
    /\ op[o].pc = "done" =>
         /\ routes = Changed(o)
         /\ op[o].read # Changed(o) /\ ~op[o].hole => (Route(o) \in pairs) = (o[1] = "create")
    /\ op[o].pc = "failed" => routes = op[o].read \/ (Twice(o) /\ routes = Changed(o))

AloneInv == \A o \in Ops : AloneAt(o)

\* The record of an operation after a step of its own, as long as it is clean.
LEMMA OwnClean ==
  ASSUME TypeOK, NEW o \in Ops, NEW r \in Records, Goes(o, r), op'[o].clean
  PROVE  op'[o] = r
<1>1. op'[o] = Kept(r)
  BY GoesTo DEF TypeOK
<1> QED  BY <1>1 DEF Kept, Idle

\* The records of Goto, field by field; an operation in doubt is not clean.
LEMMA GotoFields ==
  ASSUME op \in [Ops -> Records], NEW o \in Ops,
         NEW pc \in {"done", "failed", "port", "pair", "undo"}
  PROVE  /\ Goto(o, pc) \in Records /\ InDoubt(o, pc) \in Records
         /\ Goto(o, pc).pc = pc /\ Goto(o, pc).hole = op[o].hole
         /\ Goto(o, pc).read = op[o].read /\ Goto(o, pc).last = op[o].last
         /\ Goto(o, pc).clean = op[o].clean
         /\ InDoubt(o, pc).pc = pc /\ InDoubt(o, pc).hole = op[o].hole
         /\ InDoubt(o, pc).read = op[o].read /\ InDoubt(o, pc).clean = FALSE
BY DEF Goto, InDoubt, Records

Readings(o, last) == [op[o] EXCEPT !.read = routes, !.clean = TRUE, !.last = last,
                              !.pc = IF Skips(o) THEN "done" ELSE "put"]

PortRead(o) == [op[o] EXCEPT !.had = PairsOf(NodeOf(o)),
                      !.pc = IF (Route(o) \in pairs) = (o[1] = "create")
                             THEN "done" ELSE "pair"]

\* The records of the two reads, field by field.
LEMMA ReadFields ==
  ASSUME TypeOK, NEW o \in Ops
  PROVE  /\ \A last \in BOOLEAN :
              LET r == Readings(o, last)
              IN  /\ r \in Records /\ r.pc = IF Skips(o) THEN "done" ELSE "put"
                  /\ r.read = routes /\ r.hole = op[o].hole /\ r.clean = TRUE
         /\ LET r == PortRead(o)
            IN  /\ r \in Records
                /\ r.pc = IF (Route(o) \in pairs) = (o[1] = "create") THEN "done" ELSE "pair"
                /\ r.read = op[o].read /\ r.hole = op[o].hole /\ r.clean = op[o].clean
<1>1. op \in [Ops -> Records] /\ op[o] \in Records /\ routes \subseteq Managed \cup Foreign
  BY DEF TypeOK
<1>2. ASSUME NEW last \in BOOLEAN
      PROVE  LET r == Readings(o, last)
             IN  /\ r \in Records /\ r.pc = IF Skips(o) THEN "done" ELSE "put"
                 /\ r.read = routes /\ r.hole = op[o].hole /\ r.clean = TRUE
  BY <1>1 DEF Records, Readings
<1>3. PairsOf(NodeOf(o)) \in SUBSET Managed
  BY DEF PairsOf, TypeOK
<1>4. LET r == PortRead(o)
      IN  /\ r \in Records
          /\ r.pc = IF (Route(o) \in pairs) = (o[1] = "create") THEN "done" ELSE "pair"
          /\ r.read = op[o].read /\ r.hole = op[o].hole /\ r.clean = op[o].clean
  BY <1>1, <1>3 DEF Records, PortRead
<1> QED  BY <1>2, <1>4

\* A step of the operation itself.
LEMMA AloneOwnStep ==
  ASSUME TypeOK, NEW o \in Ops, AloneAt(o), OpStep(o)
  PROVE  AloneAt(o)'
<1> SUFFICES ASSUME op'[o].clean
             PROVE  /\ op'[o].pc \notin {"idle", "router"}
                    /\ op'[o].pc = "put" => routes' = op'[o].read
                    /\ op'[o].pc \in {"port", "pair", "undo"} => routes' = Changed(o)' /\ ~op'[o].hole
                    /\ op'[o].pc = "done" =>
                         /\ routes' = Changed(o)'
                         /\ op'[o].read # Changed(o)' /\ ~op'[o].hole
                              => (Route(o) \in pairs') = (o[1] = "create")
                    /\ op'[o].pc = "failed" =>
                         routes' = op'[o].read \/ (Twice(o)' /\ routes' = Changed(o)')
  BY DEF AloneAt, Route
<1>0. op \in [Ops -> Records]
  BY DEF TypeOK
<1>g. ASSUME NEW pc \in {"done", "failed", "port", "pair", "undo"}, Goes(o, Goto(o, pc))
      PROVE  /\ op[o].clean /\ op'[o].pc = pc /\ op'[o].hole = op[o].hole
             /\ op'[o].read = op[o].read /\ op'[o].last = op[o].last
             /\ Changed(o)' = Changed(o) /\ Twice(o)' = Twice(o)
  <2>1. op'[o] = Goto(o, pc)
    BY <1>g, <1>0, OwnClean, GotoFields
  <2>2. /\ Goto(o, pc).pc = pc /\ Goto(o, pc).hole = op[o].hole
        /\ Goto(o, pc).read = op[o].read /\ Goto(o, pc).last = op[o].last
        /\ Goto(o, pc).clean = op[o].clean
    BY <1>0, GotoFields
  <2>3. /\ op[o].clean /\ op'[o].pc = pc /\ op'[o].hole = op[o].hole
        /\ op'[o].read = op[o].read /\ op'[o].last = op[o].last
    BY <2>1, <2>2
  <2>4. Changed(o)' = Changed(o)
    BY <2>3 DEF Changed, Route
  <2>5. Twice(o)' = Twice(o)
    BY <2>3 DEF Twice
  <2> QED  BY <2>3, <2>4, <2>5
<1>d. ASSUME NEW pc \in {"done", "failed", "port", "pair", "undo"}, Goes(o, InDoubt(o, pc))
      PROVE  FALSE
  <2>1. op'[o] = InDoubt(o, pc)
    BY <1>d, <1>0, OwnClean, GotoFields
  <2>2. InDoubt(o, pc).clean = FALSE
    BY <1>0, GotoFields
  <2> QED  BY <2>1, <2>2
<1>1. CASE ReadRouter(o)
  <2>1. UNCHANGED <<routes, pairs>>
    BY <1>1 DEF ReadRouter, cloud
  <2>2. CASE Goes(o, Goto(o, "failed"))
    <3>1. op[o].clean /\ op[o].pc = "router"
      BY <1>1, <1>g, <2>2 DEF ReadRouter
    <3> QED  BY <3>1 DEF AloneAt
  <2>3. ASSUME NEW last \in BOOLEAN, Goes(o, Readings(o, last))
        PROVE  /\ op'[o].pc = IF Skips(o) THEN "done" ELSE "put"
               /\ op'[o].read = routes
    BY <2>3, ReadFields, OwnClean
  <2>4. Skips(o) => (Route(o) \in routes <=> o[1] = "create")
    BY DEF Skips
  <2>5. (\E last \in BOOLEAN : Goes(o, Readings(o, last))) \/ Goes(o, Goto(o, "failed"))
    BY <1>1 DEF ReadRouter, Readings
  <2>6. ASSUME NEW last \in BOOLEAN, Goes(o, Readings(o, last)), Skips(o)
        PROVE  Changed(o)' = routes /\ op'[o].read = routes
    BY <2>3, <2>4, <2>6 DEF Changed, Route
  <2> QED  BY <2>1, <2>2, <2>3, <2>5, <2>6
<1>2. CASE PutRoutes(o)
  <2>0. op[o].pc = "put" /\ UNCHANGED pairs
    BY <1>2 DEF PutRoutes
  <2>1. CASE routes' = Written(o) /\ Goes(o, Goto(o, IF op[o].hole THEN "done" ELSE "port"))
    <3>1. Written(o) = Changed(o)
      BY DEF Written, Changed
    <3>2. CASE op[o].hole
      BY <2>1, <3>1, <3>2, <1>g
    <3>3. CASE ~op[o].hole
      BY <2>1, <3>1, <3>3, <1>g
    <3> QED  BY <3>2, <3>3
  <2>2. CASE UNCHANGED routes /\ Goes(o, Goto(o, "failed"))
    BY <2>0, <2>2, <1>g DEF AloneAt
  <2> QED  BY <1>2, <2>1, <2>2, <1>d DEF PutRoutes
<1>3. CASE ReadPort(o)
  <2>0. op[o].pc = "port" /\ UNCHANGED <<routes, pairs>>
    BY <1>3 DEF ReadPort, cloud
  <2>1. CASE Goes(o, PortRead(o))
    <3>1. /\ op'[o].pc = IF (Route(o) \in pairs) = (o[1] = "create") THEN "done" ELSE "pair"
          /\ op'[o].read = op[o].read /\ op'[o].hole = op[o].hole /\ op[o].clean
      BY <2>1, ReadFields, OwnClean
    <3>2. Changed(o)' = Changed(o)
      BY <3>1 DEF Changed, Route
    <3> QED  BY <2>0, <3>1, <3>2 DEF AloneAt
  <2>2. CASE Goes(o, Goto(o, "undo"))
    BY <2>0, <2>2, <1>g DEF AloneAt
  <2> QED  BY <1>3, <2>1, <2>2 DEF ReadPort, PortRead
<1>4. CASE PutPairs(o)
  <2>0. op[o].pc = "pair" /\ UNCHANGED routes
    BY <1>4 DEF PutPairs
  <2>1. CASE pairs' = PairsWritten(o) /\ Goes(o, Goto(o, "done"))
    <3>1. (Route(o) \in PairsWritten(o)) = (o[1] = "create")
      BY OpParts DEF PairsWritten, PairsOf, NodeOf, TypeOK
    <3> QED  BY <2>0, <2>1, <3>1, <1>g DEF AloneAt
  <2>2. CASE Goes(o, Goto(o, "undo"))
    BY <2>0, <2>2, <1>g DEF AloneAt
  <2> QED  BY <1>4, <2>1, <2>2, <1>d DEF PutPairs
<1>5. CASE Undo(o)
  <2>0. op[o].pc = "undo"
    BY <1>5 DEF Undo
  <2>1. CASE routes' = Restored(o) /\ Goes(o, Goto(o, "failed"))
    <3>1. Restored(o) = IF Twice(o) THEN Changed(o) ELSE op[o].read
      BY OpParts DEF Restored, Changed, Twice, Kinds
    <3> QED  BY <2>0, <2>1, <3>1, <1>g
  <2>2. CASE Twice(o) /\ UNCHANGED routes /\ Goes(o, Goto(o, "failed"))
    BY <2>0, <2>2, <1>g DEF AloneAt
  <2> QED  BY <1>5, <2>1, <2>2, <1>d DEF Undo
<1> QED  BY <1>1, <1>2, <1>3, <1>4, <1>5 DEF OpStep

LEMMA AloneKept == TypeOK /\ AloneInv /\ [Next]_vars => AloneInv'
<1> SUFFICES ASSUME TypeOK, AloneInv, [Next]_vars, NEW o \in Ops PROVE AloneAt(o)'
  BY DEF AloneInv
<1>0. AloneAt(o)
  BY DEF AloneInv
<1>1. ASSUME NEW p \in Ops, OpStep(p) PROVE AloneAt(o)'
  <2>1. CASE p = o
    BY <1>0, <1>1, <2>1, AloneOwnStep
  <2>2. CASE p # o
    <3>1. op'[o].clean => op'[o] = op[o] /\ UNCHANGED cloud
      BY <1>1, <2>2, OthersInStep
    <3> QED  BY <1>0, <3>1 DEF AloneAt, Changed, Twice, Route, cloud
  <2> QED  BY <2>1, <2>2
<1>2. CASE ListServers \/ ListRoutes \/ Crash
  BY <1>2, AtRounds DEF AloneAt
<1>3. CASE ChangeNode \/ UNCHANGED vars
  BY <1>0, <1>3 DEF ChangeNode, vars, cloud, AloneAt, Changed, Twice, Route
<1>4. CASE Destroy \/ AddForeign
  <2>1. op'[o] = Disturbed(op[o])
    BY <1>4 DEF Destroy, AddForeign, NoteChange
  <2>2. ~Disturbed(op[o]).clean
    BY DEF Disturbed, Kept, Idle, TypeOK, Records
  <2> QED  BY <2>1, <2>2 DEF AloneAt
<1> QED  BY <1>1, <1>2, <1>3, <1>4 DEF Next, Controller

\* An operation nobody interfered with changes its own route and pair, or, when
\* it fails, nothing, but for the undo of line 336.
THEOREM AloneIsExactEver == Spec => []AloneIsExact
<1>1. Init => AloneInv
  BY DEF Init, AloneInv, AloneAt, Idle
<1>2. AloneInv => AloneIsExact
  BY DEF AloneInv, AloneAt, AloneIsExact, Changed
<1> QED  BY <1>1, <1>2, AloneKept, TypesHold, PTL DEF Spec

-----------------------------------------------------------------------------
(* Routes and their pairs.  First, what the rounds are for: creations and  *)
(* deletions of one round have different routes, unless the deletion's is  *)
(* a black hole, whose server is gone and stays gone.                      *)

ListedFirst ==
  listed # None => servers \subseteq listed /\ \A o \in Ops : ~Running(o)

HolesGone ==
  \A o \in Ops : Running(o) /\ op[o].hole =>
    o[1] = "delete" /\ NodeOf(o) \notin servers /\ op[o].pc \in {"router", "put"}

OneOp ==
  \A o, p \in Ops :
    /\ o[1] = "create" /\ p[1] = "delete" /\ Route(o) = Route(p)
    /\ Running(o) /\ Running(p)
    => op[p].hole

RoundInv == ListedFirst /\ HolesGone /\ OneOp

\* An operation stays the one it is while it runs.
LEMMA StillRuns ==
  ASSUME TypeOK, NEW p \in Ops, OpStep(p), NEW o \in Ops, Running(o)'
  PROVE  /\ Running(o)
         /\ op'[o].hole = op[o].hole
         /\ op[o].hole => op'[o].pc \in {op[o].pc, "put"}
                           \/ op[o].pc \notin {"router", "put"}
<1>0. op \in [Ops -> Records]
  BY DEF TypeOK
<1>1. CASE o # p
  <2>1. Running(o)' = Running(o)
    BY <1>1, OthersInStep
  <2>2. Running(o) => op'[o].pc = op[o].pc /\ op'[o].hole = op[o].hole
    BY <1>1, OthersInStep
  <2> QED  BY <2>1, <2>2
<1>2. CASE o = p
  <2>0. Running(p)
    BY DEF OpStep, ReadRouter, PutRoutes, ReadPort, PutPairs, Undo, Running, Over
  <2>1. ASSUME NEW pc \in {"done", "failed", "port", "pair", "undo"},
               Goes(p, Goto(p, pc)) \/ Goes(p, InDoubt(p, pc))
        PROVE  op'[p].pc = pc /\ op'[p].hole = op[p].hole
    <3>1. pc \notin Over
      BY <1>2, <1>0, <2>1, OwnInStep, GotoFields
    <3>2. op'[p] \in {Goto(p, pc), InDoubt(p, pc)}
      <4>1. /\ Goto(p, pc) \in Records /\ Goto(p, pc).pc = pc
            /\ InDoubt(p, pc) \in Records /\ InDoubt(p, pc).pc = pc
        BY <1>0, GotoFields
      <4>2. CASE Goes(p, Goto(p, pc))
        BY <3>1, <4>1, <4>2, OwnInStep
      <4>3. CASE Goes(p, InDoubt(p, pc))
        BY <3>1, <4>1, <4>3, OwnInStep
      <4> QED  BY <2>1, <4>2, <4>3
    <3>3. /\ Goto(p, pc).pc = pc /\ Goto(p, pc).hole = op[p].hole
          /\ InDoubt(p, pc).pc = pc /\ InDoubt(p, pc).hole = op[p].hole
      BY <1>0, GotoFields
    <3> QED  BY <3>2, <3>3
  <2>2. CASE ReadRouter(p)
    <3>1. PICK last \in BOOLEAN : Goes(p, Readings(p, last))
      <4>1. (\E last \in BOOLEAN : Goes(p, Readings(p, last))) \/ Goes(p, Goto(p, "failed"))
        BY <2>2 DEF ReadRouter, Readings
      <4>2. ~Goes(p, Goto(p, "failed"))
        BY <1>0, <1>2, OwnInStep, GotoFields DEF Over
      <4> QED  BY <4>1, <4>2
    <3>2. /\ Readings(p, last) \in Records /\ Readings(p, last).hole = op[p].hole
          /\ Readings(p, last).pc = IF Skips(p) THEN "done" ELSE "put"
      BY ReadFields
    <3>3. Readings(p, last).pc \notin Over
      BY <1>2, <3>1, <3>2, OwnInStep
    <3>4. op'[p] = Readings(p, last)
      BY <3>1, <3>2, <3>3, OwnInStep
    <3> QED  BY <1>2, <2>0, <3>2, <3>3, <3>4 DEF Over
  <2>3. CASE ReadPort(p)
    <3>1. CASE Goes(p, PortRead(p))
      <4>1. PortRead(p) \in Records /\ PortRead(p).hole = op[p].hole
        BY ReadFields
      <4>2. PortRead(p).pc \notin Over
        BY <1>2, <3>1, <4>1, OwnInStep
      <4>3. op'[p] = PortRead(p)
        BY <3>1, <4>1, <4>2, OwnInStep
      <4> QED  BY <1>2, <2>0, <2>3, <4>1, <4>3 DEF ReadPort
    <3>2. CASE Goes(p, Goto(p, "undo"))
      BY <1>2, <2>0, <2>1, <2>3, <3>2 DEF ReadPort
    <3> QED  BY <2>3, <3>1, <3>2 DEF ReadPort, PortRead
  <2>4. CASE PutRoutes(p)
    <3>1. op[p].pc = "put"
      BY <2>4 DEF PutRoutes
    <3>2. CASE Goes(p, Goto(p, IF op[p].hole THEN "done" ELSE "port"))
      <4>1. CASE op[p].hole
        <5>1. Goes(p, Goto(p, "done"))
          BY <3>2, <4>1
        <5>2. ~Running(p)'
          BY <1>0, <5>1, OwnInStep, GotoFields DEF Over
        <5> QED  BY <1>2, <5>2
      <4>2. CASE ~op[p].hole
        BY <1>2, <2>0, <2>1, <3>2, <4>2
      <4> QED  BY <4>1, <4>2
    <3>3. CASE Goes(p, InDoubt(p, "failed")) \/ Goes(p, Goto(p, "failed"))
      <4>1. ~Running(p)'
        BY <1>0, <3>3, OwnInStep, GotoFields DEF Over
      <4> QED  BY <1>2, <4>1
    <3> QED  BY <2>4, <3>2, <3>3 DEF PutRoutes
  <2>5. CASE PutPairs(p) \/ Undo(p)
    <3>1. /\ op[p].pc \in {"pair", "undo"}
          /\ \E pc \in {"done", "failed", "port", "pair", "undo"} :
                Goes(p, Goto(p, pc)) \/ Goes(p, InDoubt(p, pc))
      BY <2>5 DEF PutPairs, Undo
    <3> QED  BY <1>2, <2>0, <2>1, <3>1
  <2> QED  BY <2>2, <2>3, <2>4, <2>5 DEF OpStep
<1> QED  BY <1>1, <1>2

\* What the controller starts for what it has listed.
LEMMA RoundStarts ==
  ASSUME ListRoutes, NEW o \in Ops, Running(o)'
  PROVE  /\ op'[o].pc = "router"
         /\ op'[o].hole => o[1] = "delete" /\ NodeOf(o) \notin listed
         /\ o[1] = "create" => Route(o) \in Wanted
         /\ o[1] = "delete" /\ ~op'[o].hole => Route(o) \notin Wanted
<1>1. /\ Idle.pc = "idle"
      /\ [Idle EXCEPT !.pc = "router"].pc = "router"
      /\ [Idle EXCEPT !.pc = "router"].hole = FALSE
      /\ [Idle EXCEPT !.pc = "router", !.hole = TRUE].pc = "router"
      /\ [Idle EXCEPT !.pc = "router", !.hole = TRUE].hole = TRUE
  BY DEF Idle
<1>2. /\ o[1] = "create" /\ Route(o) \in Wanted /\ op'[o] = [Idle EXCEPT !.pc = "router"]
      \/ /\ o[1] = "delete" /\ Hole(Route(o))
         /\ op'[o] = [Idle EXCEPT !.pc = "router", !.hole = TRUE]
      \/ /\ o[1] = "delete" /\ Route(o) \notin Wanted
         /\ op'[o] = [Idle EXCEPT !.pc = "router"]
      \/ op'[o] = Idle
  BY DEF ListRoutes
<1>3. op'[o] # Idle
  BY <1>1 DEF Running, Over
<1> QED  BY <1>1, <1>2, <1>3 DEF Hole, NodeOf

\* What a change of the cloud by others leaves of an operation.
LEMMA DisturbedRuns ==
  ASSUME TypeOK, Destroy \/ AddForeign, NEW o \in Ops
  PROVE  /\ Running(o)' = Running(o)
         /\ Running(o) => /\ op'[o].pc = op[o].pc /\ op'[o].hole = op[o].hole
                          /\ op'[o].read = op[o].read
<1>1. op'[o] = Disturbed(op[o])
  BY DEF Destroy, AddForeign, NoteChange
<1> QED  BY <1>1, OthersGoOn DEF TypeOK

LEMMA NothingRuns ==
  ASSUME ListServers \/ Crash, NEW o \in Ops
  PROVE  ~Running(o)'
BY DEF ListServers, Crash, Idle, Running, Over

LEMMA RoundKept == TypeOK /\ RoundInv /\ [Next]_vars => RoundInv'
<1> SUFFICES ASSUME TypeOK, RoundInv, [Next]_vars PROVE RoundInv'
  OBVIOUS
<1> USE DEF RoundInv, ListedFirst, HolesGone, OneOp
<1>1. ASSUME NEW p \in Ops, OpStep(p) PROVE RoundInv'
  <2>1. UNCHANGED <<servers, listed>>
    BY <1>1, OpStepLeaves
  <2>2. ASSUME NEW o \in Ops, Running(o)'
        PROVE  /\ Running(o) /\ op'[o].hole = op[o].hole
               /\ op[o].hole => op'[o].pc \in {"router", "put"}
    BY <1>1, <2>2, StillRuns
  <2>3. ListedFirst'
    BY <2>1, <2>2
  <2>4. HolesGone'
    BY <2>1, <2>2 DEF NodeOf, Route
  <2>5. OneOp'
    BY <2>2 DEF Route
  <2> QED  BY <2>3, <2>4, <2>5
<1>2. CASE ListServers \/ Crash
  BY <1>2, NothingRuns DEF ListServers, Crash, cloud
<1>3. CASE ListRoutes
  <2>1. listed' = None /\ UNCHANGED servers /\ servers \subseteq listed
    BY <1>3 DEF ListRoutes, cloud
  <2>2. HolesGone'
    BY <1>3, <2>1, RoundStarts DEF NodeOf, Route
  <2>3. OneOp'
    BY <1>3, RoundStarts DEF Route
  <2> QED  BY <2>1, <2>2, <2>3
<1>4. CASE ChangeNode \/ UNCHANGED vars
  BY <1>4 DEF ChangeNode, vars, cloud, Running, NodeOf, Route
<1>5. CASE Destroy \/ AddForeign
  <2>1. servers' \subseteq servers /\ UNCHANGED listed
    BY <1>5 DEF Destroy, AddForeign
  <2>2. ListedFirst'
    BY <1>5, <2>1, DisturbedRuns
  <2>3. HolesGone'
    BY <1>5, <2>1, DisturbedRuns DEF NodeOf, Route
  <2>4. OneOp'
    BY <1>5, DisturbedRuns DEF Route
  <2> QED  BY <2>2, <2>3, <2>4
<1> QED  BY <1>1, <1>2, <1>3, <1>4, <1>5 DEF Next, Controller

LEMMA RoundInit == Init => RoundInv
BY DEF Init, RoundInv, ListedFirst, HolesGone, OneOp, Running, Idle, Over

\* How far a step takes the operation, if it does not end it.
LEMMA OwnNext ==
  ASSUME TypeOK, NEW p \in Ops, OpStep(p), Running(p)'
  PROVE  \/ ReadRouter(p) /\ op'[p].pc = "put" /\ ~Skips(p)
         \/ PutRoutes(p) /\ op'[p].pc = "port" /\ routes' = Written(p)
         \/ ReadPort(p) /\ op'[p].pc \in {"pair", "undo"}
         \/ PutPairs(p) /\ op'[p].pc = "undo" /\ (torn' = TRUE \/ UNCHANGED pairs)
<1>0. op \in [Ops -> Records]
  BY DEF TypeOK
<1>1. ASSUME NEW pc \in {"done", "failed", "port", "pair", "undo"},
             Goes(p, Goto(p, pc)) \/ Goes(p, InDoubt(p, pc))
      PROVE  op'[p].pc = pc /\ pc \notin {"done", "failed"}
  <2>1. pc \notin Over
    BY <1>0, <1>1, OwnInStep, GotoFields
  <2>2. op'[p] \in {Goto(p, pc), InDoubt(p, pc)}
    BY <1>0, <1>1, <2>1, OwnInStep, GotoFields
  <2>3. Goto(p, pc).pc = pc /\ InDoubt(p, pc).pc = pc
    BY <1>0, GotoFields
  <2> QED  BY <2>1, <2>2, <2>3 DEF Over
<1>2. CASE ReadRouter(p)
  <2>1. (\E last \in BOOLEAN : Goes(p, Readings(p, last))) \/ Goes(p, Goto(p, "failed"))
    BY <1>2 DEF ReadRouter, Readings
  <2>2. PICK last \in BOOLEAN : Goes(p, Readings(p, last))
    BY <1>1, <2>1
  <2>3. Readings(p, last) \in Records
        /\ Readings(p, last).pc = IF Skips(p) THEN "done" ELSE "put"
    BY ReadFields
  <2>4. Readings(p, last).pc \notin Over
    BY <2>2, <2>3, OwnInStep
  <2>5. op'[p] = Readings(p, last)
    BY <2>2, <2>3, <2>4, OwnInStep
  <2> QED  BY <1>2, <2>3, <2>4, <2>5 DEF Over
<1>3. CASE PutRoutes(p)
  <2>1. CASE routes' = Written(p) /\ Goes(p, Goto(p, IF op[p].hole THEN "done" ELSE "port"))
    <3>1. CASE op[p].hole
      <4>1. Goes(p, Goto(p, "done"))
        BY <2>1, <3>1
      <4> QED  BY <1>1, <4>1
    <3>2. CASE ~op[p].hole
      <4>1. Goes(p, Goto(p, "port"))
        BY <2>1, <3>2
      <4> QED  BY <1>1, <1>3, <2>1, <4>1
    <3> QED  BY <3>1, <3>2
  <2>2. CASE Goes(p, InDoubt(p, "failed")) \/ Goes(p, Goto(p, "failed"))
    BY <1>1, <2>2
  <2> QED  BY <1>3, <2>1, <2>2 DEF PutRoutes
<1>4. CASE ReadPort(p)
  <2>1. CASE Goes(p, PortRead(p))
    <3>1. PortRead(p) \in Records /\ PortRead(p).pc \in {"done", "pair"}
      BY ReadFields
    <3>2. PortRead(p).pc \notin Over
      BY <2>1, <3>1, OwnInStep
    <3>3. op'[p] = PortRead(p)
      BY <2>1, <3>1, <3>2, OwnInStep
    <3> QED  BY <1>4, <3>1, <3>2, <3>3 DEF Over
  <2>2. CASE Goes(p, Goto(p, "undo"))
    BY <1>1, <1>4, <2>2
  <2> QED  BY <1>4, <2>1, <2>2 DEF ReadPort, PortRead
<1>5. CASE PutPairs(p)
  <2>1. CASE Goes(p, Goto(p, "done"))
    BY <1>1, <2>1
  <2>2. CASE Goes(p, InDoubt(p, "undo")) /\ torn' = TRUE
    BY <1>1, <1>5, <2>2
  <2>3. CASE UNCHANGED pairs /\ Goes(p, Goto(p, "undo"))
    BY <1>1, <1>5, <2>3
  <2> QED  BY <1>5, <2>1, <2>2, <2>3 DEF PutPairs
<1>6. CASE Undo(p)
  <2>1. Goes(p, InDoubt(p, "failed")) \/ Goes(p, Goto(p, "failed"))
    BY <1>6 DEF Undo
  <2> QED  BY <1>1, <2>1
<1> QED  BY <1>2, <1>3, <1>4, <1>5, <1>6 DEF OpStep

-----------------------------------------------------------------------------
(* A route that is on the router without its pair has an operation that is *)
(* going to add the pair or to take the route back.                        *)

Creating(r) ==
  \E o \in Ops : Route(o) = r /\ o[1] = "create" /\ op[o].pc \in {"port", "pair", "undo"}

Backed == \A r \in routes \cap Managed : r \in pairs \/ r[1] \notin servers \/ Creating(r)

\* A deletion that takes a route away, and may have to put it back, knows that
\* the pair is there;
DeletesKnow ==
  \A o \in Ops : o[1] = "delete" /\ Begun(o) => Route(o) \in pairs \/ NodeOf(o) \notin servers

\* it takes the pair away when the route is gone;
DeletesFirst ==
  \A o \in Ops : o[1] = "delete" /\ op[o].pc \in {"port", "pair"} => Route(o) \notin routes

\* and a creation that has to take its route back has read a list without it.
CreatesNew == \A o \in Ops : o[1] = "create" /\ Begun(o) => Route(o) \notin op[o].read

PairInv == torn \/ (Backed /\ DeletesKnow /\ DeletesFirst /\ CreatesNew)

\* What a step that tears nothing may do to other routes and pairs.
LEMMA NoTear ==
  ASSUME TypeOK, NEW p \in Ops, OpStep(p), ~torn'
  PROVE  /\ ~torn
         /\ routes' \subseteq routes \cup {Route(p)}
         /\ pairs \subseteq pairs' \cup {Route(p)}
BY DEF TypeOK, OpStep, ReadRouter, PutRoutes, ReadPort, PutPairs, Undo, Unless, Tears, cloud

\* Two operations on one route.
LEMMA SameRoute ==
  ASSUME RoundInv, NEW o \in Ops, NEW p \in Ops, o # p, Route(o) = Route(p),
         o[1] = "delete", Running(o), Running(p)
  PROVE  p[1] = "create" /\ NodeOf(o) \notin servers /\ op[o].pc \in {"router", "put"}
<1>1. p[1] = "create"
  BY OpParts DEF Kinds
<1> QED  BY <1>1 DEF RoundInv, OneOp, HolesGone

LEMMA StepRuns == ASSUME NEW p \in Ops, OpStep(p) PROVE Running(p)
BY DEF OpStep, ReadRouter, PutRoutes, ReadPort, PutPairs, Undo, Running, Over

\* A creation in those steps is seen to be running, by the others as well.
LEMMA CreatingRuns ==
  ASSUME TypeOK, NEW p \in Ops, OpStep(p), NEW r, Creating(r),
         ~(Route(p) = r /\ p[1] = "create")
  PROVE  Creating(r)'
<1>1. PICK o \in Ops : Route(o) = r /\ o[1] = "create" /\ op[o].pc \in {"port", "pair", "undo"}
  BY DEF Creating
<1>2. o # p /\ Running(o)
  BY <1>1 DEF Running, Over
<1>3. op'[o].pc = op[o].pc
  BY <1>2, OthersInStep
<1> QED  BY <1>1, <1>3 DEF Creating, Route

\* A creation goes on until its route has its pair, or is gone.
LEMMA CreationBacks ==
  ASSUME TypeOK, RoundInv, CreatesNew, NEW p \in Ops, OpStep(p), ~torn', p[1] = "create",
         Route(p) \in routes',
         Route(p) \in routes => \/ Route(p) \in pairs \/ NodeOf(p) \notin servers
                                \/ op[p].pc \in {"port", "pair", "undo"}
  PROVE  Route(p) \in pairs' \/ NodeOf(p) \notin servers \/ op'[p].pc \in {"port", "pair", "undo"}
<1>0. /\ op \in [Ops -> Records] /\ Running(p) /\ ~op[p].hole
      /\ Route(p) \in Managed /\ Route(p)[1] = NodeOf(p)
  BY StepRuns, OpParts DEF TypeOK, RoundInv, HolesGone, NodeOf
<1>1. ASSUME NEW pc \in {"port", "pair", "undo"}, Goes(p, Goto(p, pc)) PROVE op'[p].pc = pc
  <2>1. Goto(p, pc) \in Records /\ Goto(p, pc).pc = pc
    BY <1>0, GotoFields
  <2> QED  BY <1>1, <2>1, OwnInStep DEF Over
<1>2. CASE ReadRouter(p)
  BY <1>2 DEF ReadRouter, cloud
<1>3. CASE PutRoutes(p)
  <2>1. Goes(p, Goto(p, "port")) \/ (UNCHANGED <<routes, pairs>> /\ op[p].pc = "put")
    BY <1>0, <1>3 DEF PutRoutes
  <2> QED  BY <1>1, <2>1
<1>4. CASE ReadPort(p)
  <2>1. CASE Goes(p, PortRead(p)) /\ Route(p) \notin pairs
    <3>1. PortRead(p) \in Records /\ PortRead(p).pc = "pair"
      BY <2>1, ReadFields
    <3> QED  BY <2>1, <3>1, OwnInStep DEF Over
  <2>2. CASE Route(p) \in pairs
    BY <1>4, <2>2 DEF ReadPort, cloud
  <2>3. CASE Goes(p, Goto(p, "undo"))
    BY <1>1, <2>3
  <2> QED  BY <1>4, <2>1, <2>2, <2>3 DEF ReadPort, PortRead
<1>5. CASE PutPairs(p)
  <2>1. CASE pairs' = PairsWritten(p)
    BY <2>1 DEF PairsWritten
  <2>2. CASE Goes(p, Goto(p, "undo"))
    BY <1>1, <2>2
  <2> QED  BY <1>5, <2>1, <2>2 DEF PutPairs
<1>6. CASE Undo(p)
  <2>1. ~Twice(p) /\ Route(p) \notin op[p].read
    BY <1>6 DEF Undo, Twice, CreatesNew, Begun
  <2>2. routes' = Restored(p)
    BY <1>6, <2>1 DEF Undo
  <2> QED  BY <2>1, <2>2 DEF Restored
<1> QED  BY <1>2, <1>3, <1>4, <1>5, <1>6 DEF OpStep

\* A deletion takes its pair away when its route is gone already.
LEMMA DeletionBacks ==
  ASSUME TypeOK, RoundInv, Backed, DeletesKnow, DeletesFirst, NEW p \in Ops, OpStep(p), ~torn',
         p[1] = "delete", Route(p) \in routes'
  PROVE  Route(p) \in pairs' \/ NodeOf(p) \notin servers \/ Creating(Route(p))'
<1>0. Route(p) \in Managed /\ Route(p)[1] = NodeOf(p)
  BY OpParts DEF NodeOf
<1>1. CASE UNCHANGED <<routes, pairs>>
  <2>1. Route(p) \in pairs \/ NodeOf(p) \notin servers \/ Creating(Route(p))
    BY <1>0, <1>1 DEF Backed
  <2> QED  BY <1>1, <2>1, CreatingRuns
<1>2. CASE PutRoutes(p)
  BY <1>1, <1>2 DEF PutRoutes, Written
<1>3. CASE PutPairs(p)
  BY <1>3 DEF PutPairs, DeletesFirst
<1>4. CASE Undo(p)
  BY <1>4 DEF Undo, DeletesKnow, Begun
<1> QED  BY <1>1, <1>2, <1>3, <1>4 DEF OpStep, ReadRouter, ReadPort, cloud

LEMMA BackedByOp ==
  ASSUME TypeOK, RoundInv, Backed, DeletesKnow, DeletesFirst, CreatesNew,
         NEW p \in Ops, OpStep(p), ~torn'
  PROVE  Backed'
<1> SUFFICES ASSUME NEW r \in routes' \cap Managed
             PROVE  r \in pairs' \/ r[1] \notin servers' \/ Creating(r)'
  BY DEF Backed
<1>0. UNCHANGED servers /\ Route(p)[1] = NodeOf(p) /\ p[1] \in {"create", "delete"}
  BY OpStepLeaves, OpParts DEF NodeOf, Kinds
<1>1. CASE r # Route(p)
  <2>1. r \in routes /\ (r \in pairs => r \in pairs')
    BY <1>1, NoTear
  <2>2. r \in pairs \/ r[1] \notin servers \/ Creating(r)
    BY <2>1 DEF Backed
  <2> QED  BY <1>0, <1>1, <2>1, <2>2, CreatingRuns
<1>2. CASE r = Route(p) /\ p[1] = "create"
  <2>1. Creating(r) => op[p].pc \in {"port", "pair", "undo"}
    <3>1. ASSUME NEW o \in Ops, Route(o) = r, o[1] = "create" PROVE o = p
      BY <1>2, <3>1, OpParts
    <3> QED  BY <3>1 DEF Creating
  <2>2. r \in routes => r \in pairs \/ NodeOf(p) \notin servers \/ op[p].pc \in {"port", "pair", "undo"}
    BY <1>0, <1>2, <2>1 DEF Backed
  <2>3. r \in pairs' \/ NodeOf(p) \notin servers \/ op'[p].pc \in {"port", "pair", "undo"}
    BY <1>2, <2>2, CreationBacks
  <2> QED  BY <1>0, <1>2, <2>3 DEF Creating, Route
<1>3. CASE r = Route(p) /\ p[1] = "delete"
  BY <1>0, <1>3, DeletionBacks
<1> QED  BY <1>0, <1>1, <1>2, <1>3

LEMMA DeletesKnowByOp ==
  ASSUME TypeOK, RoundInv, Backed, DeletesKnow, NEW p \in Ops, OpStep(p), ~torn'
  PROVE  DeletesKnow'
<1> SUFFICES ASSUME NEW o \in Ops, o[1] = "delete", Begun(o)'
             PROVE  Route(o) \in pairs' \/ NodeOf(o) \notin servers'
  BY DEF DeletesKnow, NodeOf, Route
<1>0. UNCHANGED servers /\ Running(o)' /\ Route(o) \in Managed /\ Route(o)[1] = NodeOf(o)
  BY OpStepLeaves, OpParts DEF Begun, Running, Over, NodeOf
<1>1. CASE o # p
  <2>1. Begun(o) /\ Running(o) /\ Running(p)
    BY <1>1, OthersInStep, StepRuns DEF Begun, Running, Over
  <2>2. CASE Route(o) = Route(p)
    BY <1>0, <1>1, <2>1, <2>2, SameRoute
  <2>3. CASE Route(o) # Route(p)
    BY <1>0, <2>1, <2>3, NoTear DEF DeletesKnow
  <2> QED  BY <2>2, <2>3
<1>2. CASE o = p
  <2>1. CASE ReadRouter(p) /\ ~Skips(p)
    <3>0. p[1] # "create"
      BY <1>2
    <3>1. UNCHANGED pairs /\ Route(p) \in routes /\ Running(p)
      <4>1. Route(p) \in routes
        BY <2>1, <3>0 DEF Skips
      <4>2. UNCHANGED pairs
        BY <2>1 DEF ReadRouter, cloud
      <4> QED  BY <4>1, <4>2, StepRuns
    <3>2. Route(p) \in pairs \/ NodeOf(p) \notin servers \/ Creating(Route(p))
      BY <1>0, <1>2, <3>1 DEF Backed
    <3>3. ASSUME NEW q \in Ops, Route(q) = Route(p), q[1] = "create",
                 op[q].pc \in {"port", "pair", "undo"}
          PROVE  NodeOf(p) \notin servers
      BY <1>2, <3>1, <3>3, SameRoute DEF Running, Over
    <3> QED  BY <1>0, <1>2, <3>1, <3>2, <3>3 DEF Creating
  <2>2. CASE Begun(p) /\ UNCHANGED pairs
    BY <1>0, <1>2, <2>2 DEF DeletesKnow
  <2> QED  BY <1>0, <1>2, <2>1, <2>2, OwnNext DEF PutRoutes, ReadPort, PutPairs, Begun, cloud
<1> QED  BY <1>1, <1>2

LEMMA DeletesFirstByOp ==
  ASSUME TypeOK, RoundInv, DeletesFirst, NEW p \in Ops, OpStep(p), ~torn'
  PROVE  DeletesFirst'
<1> SUFFICES ASSUME NEW o \in Ops, o[1] = "delete", op'[o].pc \in {"port", "pair"}
             PROVE  Route(o) \notin routes'
  BY DEF DeletesFirst, Route
<1>0. Running(o)'
  BY DEF Running, Over
<1>1. CASE o # p
  <2>1. Running(o) /\ Running(p) /\ op[o].pc \in {"port", "pair"}
    BY <1>0, <1>1, OthersInStep, StepRuns
  <2>2. Route(o) # Route(p)
    BY <1>1, <2>1, SameRoute
  <2> QED  BY <2>1, <2>2, NoTear DEF DeletesFirst
<1>2. CASE o = p
  <2>1. CASE PutRoutes(p) /\ routes' = Written(p)
    BY <1>2, <2>1 DEF Written
  <2>2. CASE ReadPort(p)
    BY <1>2, <2>2 DEF ReadPort, DeletesFirst, cloud
  <2> QED  BY <1>0, <1>2, <2>1, <2>2, OwnNext
<1> QED  BY <1>1, <1>2

LEMMA CreatesNewByOp ==
  ASSUME TypeOK, CreatesNew, NEW p \in Ops, OpStep(p)
  PROVE  CreatesNew'
<1> SUFFICES ASSUME NEW o \in Ops, o[1] = "create", Begun(o)'
             PROVE  Route(o) \notin op'[o].read
  BY DEF CreatesNew, Route
<1>0. Running(o)'
  BY DEF Begun, Running, Over
<1>1. CASE o # p
  <2>1. Begun(o) /\ Running(o)
    BY <1>1, OthersInStep DEF Begun, Running, Over
  <2> QED  BY <1>1, <2>1, OthersInStep DEF CreatesNew
<1>2. CASE o = p
  <2>1. CASE ReadRouter(p)
    <3>1. ~Skips(p) /\ op'[p].read = routes
      BY <1>0, <1>2, <2>1, OwnNext, ReadInStep DEF ReadRouter, PutRoutes, ReadPort, PutPairs, Begun
    <3> QED  BY <1>2, <3>1 DEF Skips
  <2>2. CASE Begun(p) /\ op'[p].read = op[p].read
    BY <1>2, <2>2 DEF CreatesNew
  <2> QED  BY <1>2, <2>1, <2>2, ReadInStep
<1> QED  BY <1>1, <1>2

LEMMA PairsKept == TypeOK /\ RoundInv /\ PairInv /\ [Next]_vars => PairInv'
<1> SUFFICES ASSUME TypeOK, RoundInv, PairInv, [Next]_vars, ~torn' PROVE PairInv'
  BY DEF PairInv
<1>1. ASSUME NEW p \in Ops, OpStep(p) PROVE PairInv'
  <2>1. ~torn
    BY <1>1, NoTear
  <2> QED  BY <1>1, <2>1, BackedByOp, DeletesKnowByOp, DeletesFirstByOp, CreatesNewByOp DEF PairInv
<1>2. CASE ListServers \/ ListRoutes \/ Crash
  <2>1. /\ \A o \in Ops : op[o].pc \notin {"port", "pair", "undo"}
        /\ ~torn /\ UNCHANGED <<routes, pairs, servers>>
    <3>1. CASE ListServers
      BY <1>2, <3>1 DEF ListServers, cloud, Running, Over
    <3>2. CASE ListRoutes
      BY <1>2, <3>2 DEF ListRoutes, cloud, Running, Over, RoundInv, ListedFirst
    <3>3. CASE Crash
      BY <1>2, <3>3 DEF Crash, cloud, Running, Over, TypeOK
    <3> QED  BY <1>2, <3>1, <3>2, <3>3
  <2>2. \A o \in Ops : ~Begun(o)' /\ op'[o].pc \notin {"port", "pair"}
    BY <1>2, AtRounds
  <2>3. Backed'
    BY <2>1 DEF PairInv, Backed, Creating
  <2> QED  BY <2>2, <2>3 DEF PairInv, DeletesKnow, DeletesFirst, CreatesNew
<1>3. CASE ChangeNode \/ UNCHANGED vars
  BY <1>3 DEF ChangeNode, vars, cloud, PairInv, Backed, Creating, DeletesKnow, DeletesFirst,
       CreatesNew, Begun, Route, NodeOf
<1>4. CASE Destroy \/ AddForeign
  <2>1. ASSUME NEW o \in Ops
        PROVE  /\ Begun(o)' => Begun(o) /\ op'[o].read = op[o].read
               /\ \A pc \in {"port", "pair", "undo"} : op'[o].pc = pc <=> op[o].pc = pc
    BY <1>4, DisturbedRuns DEF Begun, Running, Over
  <2>2. \A r \in Managed :
          /\ r \in routes' => r \in routes
          /\ r \in pairs => r \in pairs' \/ r[1] \notin servers'
    BY <1>4, ConstantsAssumption DEF Destroy, AddForeign, PairsOf
  <2>3. servers' \subseteq servers /\ UNCHANGED torn
    BY <1>4 DEF Destroy, AddForeign
  <2>4. Backed /\ DeletesKnow /\ DeletesFirst /\ CreatesNew
    BY <2>3 DEF PairInv
  <2>5. Backed'
    <3>1. \A r : Creating(r) => Creating(r)'
      BY <2>1 DEF Creating, Route
    <3> SUFFICES ASSUME NEW r \in routes' \cap Managed
                 PROVE  r \in pairs' \/ r[1] \notin servers' \/ Creating(r)'
      BY DEF Backed
    <3>2. r \in routes /\ (r \in pairs \/ r[1] \notin servers \/ Creating(r))
      BY <2>2, <2>4 DEF Backed
    <3> QED  BY <2>2, <2>3, <3>1, <3>2
  <2>6. DeletesKnow'
    <3> SUFFICES ASSUME NEW o \in Ops, o[1] = "delete", Begun(o)'
                 PROVE  Route(o) \in pairs' \/ NodeOf(o) \notin servers'
      BY DEF DeletesKnow, NodeOf, Route
    <3>1. Route(o) \in pairs \/ NodeOf(o) \notin servers
      BY <2>1, <2>4 DEF DeletesKnow
    <3>2. Route(o) \in Managed /\ Route(o)[1] = NodeOf(o)
      BY OpParts DEF NodeOf
    <3> QED  BY <2>2, <2>3, <3>1, <3>2
  <2>7. DeletesFirst'
    <3> SUFFICES ASSUME NEW o \in Ops, o[1] = "delete", op'[o].pc \in {"port", "pair"}
                 PROVE  Route(o) \notin routes'
      BY DEF DeletesFirst, Route
    <3>1. Route(o) \notin routes
      BY <2>1, <2>4 DEF DeletesFirst
    <3>2. Route(o) \in Managed
      BY OpParts
    <3> QED  BY <2>2, <3>1, <3>2
  <2>8. CreatesNew'
    BY <2>1, <2>4 DEF CreatesNew, Route
  <2> QED  BY <2>5, <2>6, <2>7, <2>8 DEF PairInv
<1> QED  BY <1>1, <1>2, <1>3, <1>4 DEF Next, Controller

\* A route of a node with a server has its pair whenever no operation on it is
\* running, unless a step has torn the two apart.
THEOREM PairsCompleteEver == Spec => []PairsComplete
<1>1. Init => PairInv
  <2> SUFFICES ASSUME Init PROVE PairInv
    OBVIOUS
  <2>1. \A o \in Ops : op[o].pc = "idle"
    BY DEF Init, Idle
  <2>2. routes \cap Managed \subseteq pairs
    BY ConstantsAssumption DEF Init
  <2> QED  BY <2>1, <2>2 DEF PairInv, Backed, DeletesKnow, DeletesFirst, CreatesNew, Begun
<1>2. PairInv => PairsComplete
  <2> SUFFICES ASSUME PairInv, ~torn, NEW r \in routes \cap Managed,
                      r \notin pairs, r[1] \in servers
               PROVE  \E k \in Kinds : Running(<<k, r>>)
    BY DEF PairsComplete
  <2>1. PICK o \in Ops : Route(o) = r /\ op[o].pc \in {"port", "pair", "undo"}
    BY DEF PairInv, Backed, Creating
  <2>2. o = <<o[1], r>> /\ o[1] \in Kinds /\ Running(o)
    BY <2>1, OpParts DEF Running, Over
  <2> QED  BY <2>2
<1> QED  BY <1>1, <1>2, PairsKept, RoundInit, RoundKept, TypesHold, PTL DEF Spec
=============================================================================
