------------------------- MODULE ServicePatchProofs -------------------------
(***************************************************************************)
(* Proofs about ServicePatch: what the pass writes into the informer's     *)
(* object ends up in the API or is dropped, and the user's annotations     *)
(* never go back.                                                          *)
(***************************************************************************)
EXTENDS ServicePatch, SequenceTheorems, TLAPS

\* Services and passes, component by component.
LEMMA ServiceParts ==
  ASSUME NEW s \in Services
  PROVE  /\ s.id \in {LB, None} /\ s.note \in 0..MaxEdits /\ s.status \in BOOLEAN
         /\ DOMAIN s = {"id", "note", "status"}
         /\ s = [id |-> s.id, note |-> s.note, status |-> s.status]
BY DEF Services

\* The patch, component by component: it writes the annotations that differ.
LEMMA PatchedParts ==
  ASSUME TypeOK
  PROVE  Patched = [id |-> IF pass.base.id # pass.updated.id THEN pass.updated.id ELSE api.id,
                    note |-> IF pass.base.note # pass.updated.note
                             THEN pass.updated.note ELSE api.note,
                    status |-> api.status]
<1>1. DOMAIN api = {"id", "note", "status"}
  BY ServiceParts DEF TypeOK
<1>2. /\ "id" \in Changed <=> pass.base.id # pass.updated.id
      /\ "note" \in Changed <=> pass.base.note # pass.updated.note
      /\ "status" \notin Changed
  BY DEF Changed, AnnotationKeys
<1> QED  BY <1>1, <1>2 DEF Patched

LEMMA PatchedType == TypeOK => Patched \in Services
BY PatchedParts DEF TypeOK, Services, Passes

LEMMA SeqTypes ==
  ASSUME NEW S, NEW q \in Seq(S)
  PROVE  /\ \A e \in S : Append(q, e) \in Seq(S)
         /\ <<>> \in Seq(S)
         /\ q # <<>> => Head(q) \in S /\ Tail(q) \in Seq(S)
OBVIOUS

LEMMA WriteTypes ==
  ASSUME TypeOK, NEW s \in Services, Write(s)
  PROVE  api' \in Services /\ watch' \in Seq(Services)
BY SeqTypes DEF Write, TypeOK

\* The last element stays the last.
LEMMA TailLast ==
  ASSUME NEW S, NEW q \in Seq(S), q # <<>>
  PROVE  /\ Tail(q) # <<>> => Tail(q)[Len(Tail(q))] = q[Len(q)]
         /\ Tail(q) = <<>> => Head(q) = q[Len(q)]
<1>1. /\ Len(q) \in Nat /\ Len(q) # 0 /\ Head(q) = q[1]
      /\ Tail(q) \in Seq(S) /\ Len(Tail(q)) = Len(q) - 1
      /\ \A i \in 1..Len(Tail(q)) : Tail(q)[i] = q[i + 1]
  BY HeadTailProperties, EmptySeq
<1>2. Tail(q) = <<>> <=> Len(Tail(q)) = 0
  BY <1>1, EmptySeq
<1>3. CASE Len(q) = 1
  BY <1>1, <1>2, <1>3
<1>4. CASE Len(q) # 1
  <2>1. Len(Tail(q)) \in 1..Len(Tail(q)) /\ Len(Tail(q)) + 1 = Len(q)
    BY <1>1, <1>4
  <2> QED  BY <1>1, <1>2, <1>4, <2>1
<1> QED  BY <1>3, <1>4

LEMMA EditTypes ==
  ASSUME TypeOK, Edit
  PROVE  /\ edits' \in 0..MaxEdits
         /\ [api EXCEPT !.note = edits + 1] \in Services
         /\ [api EXCEPT !.id = None] \in Services
<1>1. edits' \in 0..MaxEdits /\ edits + 1 \in 0..MaxEdits
  BY ConstantsAssumption DEF Edit, TypeOK
<1> QED  BY <1>1 DEF TypeOK, Services

LEMMA FaultTypes == TypeOK /\ (Fault \/ UNCHANGED faults) => faults' \in 0..MaxFaults
BY ConstantsAssumption DEF TypeOK, Fault

LEMMA TypesKept == TypeOK /\ [Next]_vars => TypeOK'
<1> SUFFICES ASSUME TypeOK, [Next]_vars PROVE TypeOK'
  OBVIOUS
<1> USE ConstantsAssumption
<1>0. New \in Services /\ Idle \in Passes
  BY DEF New, Idle, Services, Passes
<1>1. CASE Begin
  <2>1. pass' \in Passes
    BY <1>1, <1>0 DEF Begin, TypeOK, Idle, Passes
  <2> QED  BY <1>1, <2>1 DEF Begin, TypeOK
<1>2. ASSUME NEW failed \in BOOLEAN, Record(failed) PROVE TypeOK'
  <2>1. pass' \in Passes /\ store' \in Services
    BY <1>2 DEF Record, TypeOK, Passes, Services
  <2> QED  BY <1>2, <2>1 DEF Record, TypeOK, Fault
<1>3. CASE FailEarly
  <2>1. pass' \in Passes
    BY <1>3 DEF FailEarly, TypeOK, Passes
  <2> QED  BY <1>3, <2>1 DEF FailEarly, TypeOK, Fault
<1>4. CASE Patch
  <2>1. pass' \in Passes
    BY <1>4 DEF Patch, Return, TypeOK, Passes
  <2>2. api' \in Services /\ watch' \in Seq(Services)
    <3>1. CASE UNCHANGED <<api, watch>>
      BY <3>1 DEF TypeOK
    <3>2. CASE Write(Patched)
      BY <3>2, PatchedType, WriteTypes
    <3> QED  BY <1>4, <3>1, <3>2 DEF Patch
  <2>3. faults' \in 0..MaxFaults /\ missed' \in BOOLEAN
    BY <1>4, FaultTypes DEF Patch, TypeOK
  <2> QED  BY <1>4, <2>1, <2>2, <2>3 DEF Patch, TypeOK
<1>5. CASE Returned
  <2>1. [api EXCEPT !.status = TRUE] \in Services
    BY DEF TypeOK, Services
  <2>2. api' \in Services /\ watch' \in Seq(Services)
    <3>1. CASE UNCHANGED <<api, watch>>
      BY <3>1 DEF TypeOK
    <3>2. CASE Write([api EXCEPT !.status = TRUE])
      BY <2>1, <3>2, WriteTypes
    <3> QED  BY <1>5, <3>1, <3>2 DEF Returned
  <2>3. faults' \in 0..MaxFaults
    BY <1>5, FaultTypes DEF Returned
  <2>4. queued' \in BOOLEAN
    BY <1>5 DEF Returned, TypeOK
  <2> QED  BY <1>5, <1>0, <2>2, <2>3, <2>4 DEF Returned, TypeOK
<1>6. CASE Deliver
  <2>1. store' \in Services /\ watch' \in Seq(Services)
    BY <1>6, SeqTypes DEF Deliver, TypeOK
  <2>2. queued' \in BOOLEAN
    BY <1>6 DEF Deliver, TypeOK
  <2> QED  BY <1>6, <2>1, <2>2 DEF Deliver, TypeOK
<1>7. CASE Edit
  <2>1. api' \in Services /\ watch' \in Seq(Services)
    BY <1>7, EditTypes, WriteTypes DEF Edit
  <2> QED  BY <1>7, <2>1, EditTypes DEF Edit, TypeOK
<1>8. CASE Crash
  <2>1. faults' \in 0..MaxFaults /\ watch' \in Seq(Services)
    BY <1>8, FaultTypes, SeqTypes DEF Crash, TypeOK
  <2> QED  BY <1>8, <1>0, <2>1 DEF Crash, TypeOK
<1>9. CASE UNCHANGED vars
  BY <1>9 DEF vars, TypeOK
<1> QED  BY <1>1, <1>2, <1>3, <1>4, <1>5, <1>6, <1>7, <1>8, <1>9 DEF Next

LEMMA TypesInit == Init => TypeOK
<1> SUFFICES ASSUME Init PROVE TypeOK
  OBVIOUS
<1>1. New \in Services
  BY ConstantsAssumption DEF New, Services
<1>2. Idle \in Passes
  BY <1>1 DEF Idle, Passes
<1>3. faults \in 0..MaxFaults /\ edits \in 0..MaxEdits
  BY ConstantsAssumption DEF Init
<1>4. watch \in Seq(Services)
  BY DEF Init
<1> QED  BY <1>1, <1>2, <1>3, <1>4 DEF Init, TypeOK

\* Every variable keeps its type: in particular, the API never gets an ID that is
\* not the load balancer's.
THEOREM TypesHold == Spec => []TypeOK
BY TypesInit, TypesKept, PTL DEF Spec

-----------------------------------------------------------------------------
(* The user's annotations.                                                 *)

NotesInv == pass.base.note = pass.updated.note /\ api.note \in 0..edits

LEMMA NotesStep ==
  ASSUME TypeOK, NotesInv, [Next]_vars
  PROVE  NotesInv' /\ api'.note >= api.note
<1> USE DEF NotesInv
<1>0. /\ api.note \in Nat /\ edits \in Nat
      /\ New.note = 0 /\ Idle.base = New /\ Idle.updated = New
  BY ServiceParts, ConstantsAssumption DEF TypeOK, New, Idle
<1>1. CASE Begin
  <2>1. pass'.base = store /\ pass'.updated = store
    BY <1>1 DEF Begin, Idle
  <2> QED  BY <1>0, <1>1, <2>1 DEF Begin
<1>2. ASSUME NEW failed \in BOOLEAN, Record(failed) PROVE NotesInv' /\ api'.note >= api.note
  <2>1. pass'.base = pass.base /\ pass'.updated.note = pass.updated.note
    BY <1>2 DEF Record, TypeOK, Passes, Services
  <2> QED  BY <1>0, <1>2, <2>1 DEF Record
<1>3. CASE FailEarly
  <2>1. pass'.base = pass.base /\ pass'.updated = pass.updated
    BY <1>3 DEF FailEarly, TypeOK, Passes
  <2> QED  BY <1>0, <1>3, <2>1 DEF FailEarly
<1>4. CASE Patch
  <2>1. pass'.base = pass.base /\ pass'.updated = pass.updated
    BY <1>4 DEF Patch, Return, TypeOK, Passes
  <2>2. Patched.note = api.note
    BY PatchedParts
  <2>3. api'.note = api.note
    BY <1>4, <2>2 DEF Patch, Write
  <2> QED  BY <1>0, <1>4, <2>1, <2>3 DEF Patch
<1>5. CASE Returned
  <2>1. api'.note = api.note
    BY <1>5 DEF Returned, Write, TypeOK, Services
  <2> QED  BY <1>0, <1>5, <2>1 DEF Returned
<1>6. CASE Deliver
  BY <1>0, <1>6 DEF Deliver
<1>7. CASE Edit
  <2>1. api'.note \in {edits + 1, api.note}
    BY <1>7 DEF Edit, Write, TypeOK, Services
  <2> QED  BY <1>0, <1>7, <2>1 DEF Edit
<1>8. CASE Crash
  BY <1>0, <1>8 DEF Crash
<1>9. CASE UNCHANGED vars
  BY <1>0, <1>9 DEF vars
<1> QED  BY <1>1, <1>2, <1>3, <1>4, <1>5, <1>6, <1>7, <1>8, <1>9 DEF Next

\* No write of the program ever takes back an annotation of the user's, however
\* old the object is that the pass computes its patch from.
THEOREM UserEditsSurviveEver == Spec => UserEditsSurvive
<1>1. Init => NotesInv
  BY ConstantsAssumption DEF Init, NotesInv, New, Idle
<1>2. TypeOK /\ NotesInv /\ [Next]_vars => NotesInv'
  BY NotesStep
<1>3. TypeOK /\ NotesInv /\ [Next]_vars => [api'.note >= api.note]_vars
  BY NotesStep
<1> QED  BY <1>1, <1>2, <1>3, TypesHold, PTL DEF Spec, UserEditsSurvive

-----------------------------------------------------------------------------
(* The store and the API.  While the pass shares the object, the store has *)
(* what the pass has made of it, and the pass's copy has what the API has. *)

Working == shared /\ pass.pc \in {"work", "patch"}

StoreInv ==
  /\ watch # <<>> => watch[Len(watch)] = api
  /\ shared => pass.pc # "idle" /\ store = pass.updated
  /\ pass.base.status = pass.updated.status
  /\ ~missed /\ watch = <<>> => IF Working THEN pass.base = api ELSE store = api

\* A pass's own steps keep its copy, and its object but for the ID.
LEMMA PassParts ==
  ASSUME TypeOK
  PROVE  /\ pass.base \in Services /\ pass.updated \in Services
         /\ New.status = FALSE /\ Idle.pc = "idle" /\ Idle.base = New /\ Idle.updated = New
         /\ Begin => pass' = [Idle EXCEPT !.pc = "work", !.base = store, !.updated = store]
                     /\ pass'.pc = "work" /\ pass'.base = store /\ pass'.updated = store
         /\ \A failed \in BOOLEAN : Record(failed) =>
              /\ pass'.pc = "patch" /\ pass'.base = pass.base /\ pass'.failed = failed
              /\ pass'.updated = [pass.updated EXCEPT !.id = LB]
         /\ FailEarly => /\ pass'.pc = "patch" /\ pass'.base = pass.base /\ pass'.failed = TRUE
                         /\ pass'.updated = pass.updated
         /\ \A err \in BOOLEAN : Return(err) =>
              /\ pass'.pc = "returned" /\ pass'.base = pass.base /\ pass'.err = err
              /\ pass'.updated = pass.updated /\ pass'.failed = pass.failed
<1>1. pass.base \in Services /\ pass.updated \in Services /\ pass \in Passes /\ store \in Services
  BY DEF TypeOK, Passes
<1>2. /\ New.status = FALSE /\ Idle.pc = "idle" /\ Idle.base = New /\ Idle.updated = New
  BY DEF New, Idle
<1>3. Begin => pass' = [Idle EXCEPT !.pc = "work", !.base = store, !.updated = store]
               /\ pass'.pc = "work" /\ pass'.base = store /\ pass'.updated = store
  BY DEF Begin, Idle
<1>4. ASSUME NEW failed \in BOOLEAN, Record(failed)
      PROVE  /\ pass'.pc = "patch" /\ pass'.base = pass.base /\ pass'.failed = failed
             /\ pass'.updated = [pass.updated EXCEPT !.id = LB]
  BY <1>1, <1>4 DEF Record, Passes
<1>5. FailEarly => /\ pass'.pc = "patch" /\ pass'.base = pass.base /\ pass'.failed = TRUE
                   /\ pass'.updated = pass.updated
  BY <1>1 DEF FailEarly, Passes
<1>6. ASSUME NEW err \in BOOLEAN, Return(err)
      PROVE  /\ pass'.pc = "returned" /\ pass'.base = pass.base /\ pass'.err = err
             /\ pass'.updated = pass.updated /\ pass'.failed = pass.failed
  BY <1>1, <1>6 DEF Return, Passes
<1> QED  BY <1>1, <1>2, <1>3, <1>4, <1>5, <1>6

LEMMA LastWritten ==
  ASSUME TypeOK, NEW s \in Services, Write(s)
  PROVE  watch' # <<>> /\ watch'[Len(watch')] = api'
BY DEF Write, TypeOK

LEMMA StoreKept == TypeOK /\ NotesInv /\ StoreInv /\ [Next]_vars => StoreInv'
<1> SUFFICES ASSUME TypeOK, NotesInv, StoreInv, [Next]_vars PROVE StoreInv'
  OBVIOUS
<1> USE DEF StoreInv, Working
<1>1. CASE Begin
  BY <1>1, PassParts DEF Begin
<1>2. ASSUME NEW failed \in BOOLEAN, Record(failed) PROVE StoreInv'
  <2>1. /\ pass'.pc = "patch" /\ pass'.base = pass.base
        /\ pass'.updated = [pass.updated EXCEPT !.id = LB]
    BY <1>2, PassParts
  <2>2. pass'.updated.status = pass.updated.status
    BY <2>1, PassParts DEF Services
  <2>3. /\ pass.pc = "work" /\ UNCHANGED <<api, watch, shared, missed>>
        /\ store' = IF shared THEN [store EXCEPT !.id = LB] ELSE store
    BY <1>2 DEF Record
  <2> QED  BY <2>1, <2>2, <2>3
<1>3. CASE FailEarly
  BY <1>3, PassParts DEF FailEarly
<1>4. CASE Patch
  <2>1. /\ pass'.pc = "returned" /\ pass'.base = pass.base /\ pass'.updated = pass.updated
        /\ pass.pc = "patch" /\ UNCHANGED <<store, shared>>
    BY <1>4, PassParts DEF Patch, TypeOK, Passes
  <2>2. CASE Changed = {} /\ UNCHANGED <<api, watch, missed>>
    <3>1. pass.base = pass.updated
      <4>1. pass.base.id = pass.updated.id
        BY <2>2 DEF Changed, AnnotationKeys
      <4>2. /\ pass.base = [id |-> pass.base.id, note |-> pass.base.note,
                            status |-> pass.base.status]
            /\ pass.updated = [id |-> pass.updated.id, note |-> pass.updated.note,
                               status |-> pass.updated.status]
        BY PassParts, ServiceParts
      <4> QED  BY <4>1, <4>2 DEF NotesInv
    <3> QED  BY <2>1, <2>2, <3>1
  <2>3. CASE Write(Patched)
    <3>1. watch' # <<>> /\ watch'[Len(watch')] = api'
      BY <2>3, PatchedType, LastWritten
    <3> QED  BY <2>1, <3>1
  <2>4. CASE missed' = TRUE /\ UNCHANGED <<api, watch>>
    BY <2>1, <2>4
  <2> QED  BY <1>4, <2>2, <2>3, <2>4 DEF Patch
<1>5. CASE Returned
  <2>1. /\ pass' = Idle /\ shared' = FALSE /\ pass.pc = "returned" /\ UNCHANGED <<store, missed>>
    BY <1>5 DEF Returned
  <2>2. CASE UNCHANGED <<api, watch>>
    BY <2>1, <2>2, PassParts
  <2>3. CASE Write([api EXCEPT !.status = TRUE])
    <3>1. [api EXCEPT !.status = TRUE] \in Services
      BY DEF TypeOK, Services
    <3>2. watch' # <<>> /\ watch'[Len(watch')] = api'
      BY <2>3, <3>1, LastWritten
    <3> QED  BY <2>1, <3>2, PassParts
  <2> QED  BY <1>5, <2>2, <2>3 DEF Returned
<1>6. CASE Deliver
  <2>1. /\ watch # <<>> /\ store' = Head(watch) /\ watch' = Tail(watch) /\ shared' = FALSE
        /\ UNCHANGED <<api, pass, missed>>
    BY <1>6 DEF Deliver
  <2>2. /\ watch' # <<>> => watch'[Len(watch')] = watch[Len(watch)]
        /\ watch' = <<>> => store' = watch[Len(watch)]
    BY <2>1, TailLast DEF TypeOK
  <2> QED  BY <2>1, <2>2
<1>7. CASE Edit
  <2>1. watch' # <<>> /\ watch'[Len(watch')] = api'
    BY <1>7, EditTypes, LastWritten DEF Edit
  <2> QED  BY <1>7, <2>1 DEF Edit
<1>8. CASE Crash
  BY <1>8, PassParts DEF Crash
<1>9. CASE UNCHANGED vars
  BY <1>9 DEF vars
<1> QED  BY <1>1, <1>2, <1>3, <1>4, <1>5, <1>6, <1>7, <1>8, <1>9 DEF Next

LEMMA StoreInit == Init => NotesInv /\ StoreInv
BY ConstantsAssumption DEF Init, NotesInv, StoreInv, Working, New, Idle

\* As long as no patch has failed, what a pass writes into the informer's object
\* is what the API has, once the events are delivered and no pass runs.
THEOREM StoreAgreesEver == Spec => []StoreAgrees
<1>1. TypeOK /\ NotesInv /\ [Next]_vars => NotesInv'
  BY NotesStep
<1>2. StoreInv => StoreAgrees
  BY DEF StoreInv, StoreAgrees, Working
<1> QED  BY <1>1, <1>2, StoreInit, StoreKept, TypesHold, PTL DEF Spec

-----------------------------------------------------------------------------
(* The record of the ID.  When no pass is due, the store knows the ID or   *)
(* will be told of it; a version without it makes a pass due.              *)

Told == store.id = LB \/ \E i \in DOMAIN watch : watch[i].id = LB

RecordInv ==
  missed \/ queued \/
    /\ pass.pc = "idle" => Told
    /\ pass.pc = "work" => (pass.base.id = LB => Told)
    /\ pass.pc = "patch" =>
         pass.failed \/ (pass.updated.id = LB /\ (pass.base.id = LB => Told))
    /\ pass.pc = "returned" => pass.err \/ pass.failed \/ Told

\* A write tells, or leaves what was told.
LEMMA WriteTells ==
  ASSUME TypeOK, NEW s \in Services, Write(s), store'.id = store.id
  PROVE  (Told \/ s.id = LB) => Told'
<1>1. /\ watch' = Append(watch, s) /\ Len(watch') = Len(watch) + 1 /\ Len(watch) \in Nat
      /\ DOMAIN watch = 1..Len(watch) /\ DOMAIN watch' = 1..Len(watch')
  BY DEF Write, TypeOK
<1>2. watch'[Len(watch')] = s /\ Len(watch') \in DOMAIN watch'
  BY <1>1 DEF TypeOK
<1>3. \A i \in DOMAIN watch : i \in DOMAIN watch' /\ watch'[i] = watch[i]
  BY <1>1 DEF TypeOK
<1> QED  BY <1>2, <1>3 DEF Told

\* A version that changes the ID in the store makes a pass due.
LEMMA DeliveryTells ==
  ASSUME TypeOK, Deliver, Told
  PROVE  queued' = TRUE \/ Told'
<1> SUFFICES ASSUME ~queued' PROVE Told'
  BY DEF Deliver, TypeOK
<1>1. /\ watch # <<>> /\ store' = Head(watch) /\ watch' = Tail(watch)
      /\ store.id = Head(watch).id
  BY DEF Deliver, AnnotationKeys
<1>2. /\ Len(watch) \in Nat \ {0} /\ Head(watch) = watch[1] /\ DOMAIN watch = 1..Len(watch)
      /\ DOMAIN watch' = 1..(Len(watch) - 1)
      /\ \A i \in 1..(Len(watch) - 1) : watch'[i] = watch[i + 1]
  BY <1>1 DEF TypeOK
<1>3. CASE store.id = LB
  BY <1>1, <1>3 DEF Told
<1>4. ASSUME NEW i \in DOMAIN watch, watch[i].id = LB PROVE Told'
  <2>1. CASE i = 1
    BY <1>1, <1>2, <1>4, <2>1 DEF Told
  <2>2. CASE i # 1
    <3>1. i - 1 \in DOMAIN watch' /\ watch'[i - 1] = watch[i]
      BY <1>2, <2>2
    <3> QED  BY <1>4, <3>1 DEF Told
  <2> QED  BY <2>1, <2>2
<1> QED  BY <1>3, <1>4 DEF Told

LEMMA RecordKept == TypeOK /\ RecordInv /\ [Next]_vars => RecordInv'
<1> SUFFICES ASSUME TypeOK, RecordInv, [Next]_vars, ~missed', ~queued' PROVE RecordInv'
  BY DEF RecordInv
<1> USE DEF RecordInv
<1>1. CASE Begin
  <2>1. pass'.pc = "work" /\ pass'.base = store /\ UNCHANGED <<store, watch>>
    BY <1>1, PassParts DEF Begin
  <2> QED  BY <2>1 DEF Told
<1>2. ASSUME NEW failed \in BOOLEAN, Record(failed) PROVE RecordInv'
  <2>1. /\ pass'.pc = "patch" /\ pass'.base = pass.base /\ pass'.updated.id = LB
        /\ pass.pc = "work" /\ UNCHANGED <<watch, missed, queued>>
    <3>1. pass'.updated = [pass.updated EXCEPT !.id = LB] /\ pass.updated \in Services
      BY <1>2, PassParts
    <3>2. pass'.updated.id = LB
      BY <3>1 DEF Services
    <3> QED  BY <1>2, <3>2, PassParts DEF Record
  <2>2. Told => Told'
    BY <1>2 DEF Record, Told, TypeOK, Services
  <2> QED  BY <2>1, <2>2
<1>3. CASE FailEarly
  <2>1. pass'.pc = "patch" /\ pass'.failed = TRUE
    BY <1>3, PassParts
  <2> QED  BY <2>1
<1>4. CASE Patch
  <2>0. pass.failed \in BOOLEAN /\ pass.pc = "patch" /\ ~missed /\ ~queued /\ UNCHANGED store
    BY <1>4 DEF Patch, TypeOK, Passes
  <2>1. CASE Changed = {} /\ Return(pass.failed) /\ UNCHANGED watch
    <3>1. pass.base.id = pass.updated.id
      BY <2>1 DEF Changed, AnnotationKeys
    <3>2. pass'.pc = "returned" /\ pass'.failed = pass.failed
      BY <2>0, <2>1, PassParts
    <3>3. pass.failed \/ Told
      BY <2>0, <3>1
    <3> QED  BY <2>0, <2>1, <3>2, <3>3 DEF Told
  <2>2. CASE Write(Patched) /\ Return(FALSE)
    <3>1. pass'.pc = "returned" /\ pass'.failed = pass.failed
      BY <2>0, <2>2, PassParts
    <3>2. CASE pass.failed
      BY <3>1, <3>2
    <3>3. CASE ~pass.failed
      <4>1. Patched.id = LB \/ Told
        BY <2>0, <3>3, PatchedParts
      <4>2. Told'
        BY <2>0, <2>2, <4>1, WriteTells, PatchedType
      <4> QED  BY <3>1, <4>2
    <3> QED  BY <3>2, <3>3
  <2> QED  BY <1>4, <2>1, <2>2 DEF Patch
<1>5. CASE Returned
  <2>1. /\ pass' = Idle /\ pass.pc = "returned" /\ ~pass.err /\ ~pass.failed /\ ~missed /\ ~queued
        /\ UNCHANGED store
        /\ UNCHANGED watch \/ Write([api EXCEPT !.status = TRUE])
    BY <1>5 DEF Returned
  <2>2. [api EXCEPT !.status = TRUE] \in Services
    BY DEF TypeOK, Services
  <2>3. Told'
    BY <2>1, <2>2, WriteTells DEF Told
  <2> QED  BY <2>1, <2>3, PassParts
<1>6. CASE Deliver
  <2>1. ~missed /\ ~queued /\ UNCHANGED pass
    BY <1>6 DEF Deliver, TypeOK
  <2>2. Told => Told'
    BY <1>6, DeliveryTells
  <2> QED  BY <2>1, <2>2
<1>7. CASE Edit
  <2>1. Told => Told'
    BY <1>7, EditTypes, WriteTells DEF Edit
  <2> QED  BY <1>7, <2>1 DEF Edit
<1>8. CASE Crash
  BY <1>8 DEF Crash
<1>9. CASE UNCHANGED vars
  BY <1>9 DEF vars, Told
<1> QED  BY <1>1, <1>2, <1>3, <1>4, <1>5, <1>6, <1>7, <1>8, <1>9 DEF Next

\* As long as no patch has failed, the API has the load balancer's ID whenever
\* nothing is left to do.
THEOREM RecordedWhenQuietEver == Spec => []RecordedWhenQuiet
<1>1. TypeOK /\ NotesInv /\ [Next]_vars => NotesInv'
  BY NotesStep
<1>2. StoreInv /\ RecordInv => RecordedWhenQuiet
  BY DEF StoreInv, Working, RecordInv, Told, RecordedWhenQuiet, Quiet
<1>3. Init => RecordInv
  BY DEF Init, RecordInv
<1> QED  BY <1>1, <1>2, <1>3, StoreInit, StoreKept, RecordKept, TypesHold, PTL DEF Spec
=============================================================================
