---------------------------- MODULE ServicePatch ----------------------------
(***************************************************************************)
(* How a pass of EnsureLoadBalancer records the load balancer's ID in an   *)
(* annotation of the Service: newServicePatcher, updateServiceAnnotation   *)
(* and the deferred Patch of kinx_loadbalancer_service_patcher.go, between *)
(* the Kubernetes API, its watch and the informer's store.                 *)
(*                                                                         *)
(* The pass is handed the very object the informer's store holds, so that  *)
(* updateServiceAnnotation writes into the store; an event of the watch    *)
(* replaces the object in the store, and the pass keeps the old one.       *)
(***************************************************************************)
EXTENDS Sequences, Naturals

CONSTANTS
  LB,             \* the ID of the load balancer
  None,           \* no annotation
  MaxFaults,      \* bound: failed passes, failed calls and crashes
  MaxEdits        \* bound: user edits

ASSUME ConstantsAssumption ==
  /\ LB # None
  /\ MaxFaults \in Nat
  /\ MaxEdits \in Nat

VARIABLES
  api,      \* the Service in the Kubernetes API
  watch,    \* versions of it that the informer has not seen
  store,    \* the object in the informer's store
  shared,   \* is the object the pass works on still the one in the store
  pass,     \* the running pass: its objects and what it returns
  queued,   \* is the Service in the work queue
  missed,   \* history: has a patch of the annotations failed
  faults, edits

vars == <<api, watch, store, shared, pass, queued, missed, faults, edits>>

\* A Service as far as it matters: the annotation with the ID, an annotation of
\* the user's, and whether its status has the load balancer's address.
Services == [id : {LB, None}, note : 0..MaxEdits, status : BOOLEAN]

AnnotationKeys == {"id", "note"}

Passes ==
  [pc : {"idle", "work", "patch", "returned"},
   base : Services,       \* sp.base, a deep copy
   updated : Services,    \* sp.updated, the object itself
   failed : BOOLEAN,      \* the error that Patch is given
   err : BOOLEAN]         \* the error that EnsureLoadBalancer returns

TypeOK ==
  /\ api \in Services
  /\ watch \in Seq(Services)
  /\ store \in Services
  /\ shared \in BOOLEAN
  /\ pass \in Passes
  /\ queued \in BOOLEAN
  /\ missed \in BOOLEAN
  /\ faults \in 0..MaxFaults
  /\ edits \in 0..MaxEdits

New == [id |-> None, note |-> 0, status |-> FALSE]

Idle ==
  [pc |-> "idle", base |-> New, updated |-> New, failed |-> FALSE, err |-> FALSE]

Init ==
  /\ api = New
  /\ watch = <<>>
  /\ store = New
  /\ shared = FALSE
  /\ pass = Idle
  /\ queued = TRUE
  /\ missed = FALSE
  /\ faults = 0
  /\ edits = 0

Fault == faults < MaxFaults /\ faults' = faults + 1

\* The API takes a write: the Service is now s, and the watch will say so.
Write(s) == api' = s /\ watch' = Append(watch, s)

-----------------------------------------------------------------------------
(* A pass.                                                                 *)

Begin ==
  /\ pass.pc = "idle" /\ queued
  /\ queued' = FALSE
  /\ pass' = [Idle EXCEPT !.pc = "work", !.base = store, !.updated = store]
  /\ shared' = TRUE
  /\ UNCHANGED <<api, watch, store, faults, edits, missed>>

\* Mutant: the base is not a copy, and changes with the object.
MutRecordAliased(failed) ==
  /\ pass.pc = "work"
  /\ pass' = [pass EXCEPT !.pc = "patch", !.updated.id = LB, !.base.id = LB,
                          !.failed = failed]
  /\ store' = IF shared THEN [store EXCEPT !.id = LB] ELSE store
  /\ IF failed THEN Fault ELSE UNCHANGED faults
  /\ UNCHANGED <<api, watch, shared, queued, edits, missed>>

\* Mutant: a pass that fails records the ID of no load balancer.
MutRecordEmpty(failed) ==
  /\ pass.pc = "work"
  /\ pass' = [pass EXCEPT !.pc = "patch", !.updated.id = IF failed THEN "" ELSE LB,
                          !.failed = failed]
  /\ store' = IF shared THEN [store EXCEPT !.id = LB] ELSE store
  /\ IF failed THEN Fault ELSE UNCHANGED faults
  /\ UNCHANGED <<api, watch, shared, queued, edits, missed>>

\* The pass has found or created the load balancer and sets the annotation;
\* what it does afterwards may fail.
Record(failed) ==
  /\ pass.pc = "work"
  /\ pass' = [pass EXCEPT !.pc = "patch", !.updated.id = LB, !.failed = failed]
  /\ store' = IF shared THEN [store EXCEPT !.id = LB] ELSE store
  /\ IF failed THEN Fault ELSE UNCHANGED faults
  /\ UNCHANGED <<api, watch, shared, queued, edits, missed>>

\* The pass fails before that.
FailEarly ==
  /\ pass.pc = "work"
  /\ Fault
  /\ pass' = [pass EXCEPT !.pc = "patch", !.failed = TRUE]
  /\ UNCHANGED <<api, watch, store, shared, queued, edits, missed>>

\* The strategic merge patch: the annotations that differ, over what the API has.
Changed == {k \in AnnotationKeys : pass.base[k] # pass.updated[k]}

\* Mutant: the whole updated object is written.
MutPatched == pass.updated

Patched == [k \in DOMAIN api |-> IF k \in Changed THEN pass.updated[k] ELSE api[k]]

Return(err) == pass' = [pass EXCEPT !.pc = "returned", !.err = err]

\* Without a difference Patch hands back the error it was given; otherwise it
\* returns its own, so that a patch that succeeds hides a pass that failed.
Patch ==
  /\ pass.pc = "patch"
  /\ \/ /\ Changed = {}
        /\ Return(pass.failed)
        /\ UNCHANGED <<api, watch, missed, faults>>
     \/ /\ Changed # {}
        /\ Write(Patched)
        /\ Return(FALSE)
        /\ UNCHANGED <<missed, faults>>
     \/ /\ Changed # {}
        /\ Fault
        /\ missed' = TRUE
        /\ Return(TRUE)
        /\ Write(Patched) \/ UNCHANGED <<api, watch>>
  /\ UNCHANGED <<store, shared, queued, edits>>

-----------------------------------------------------------------------------
(* The service controller, the informer, the user.                         *)

\* An error, or no status, queues the Service again; otherwise the controller
\* patches the status if the object it handed out does not have it.
Returned ==
  /\ pass.pc = "returned"
  /\ pass' = Idle
  /\ shared' = FALSE
  /\ \/ /\ pass.err \/ pass.failed
        /\ queued' = TRUE
        /\ UNCHANGED <<api, watch, faults>>
     \/ /\ ~pass.err /\ ~pass.failed
        /\ \/ /\ IF pass.updated.status
                 THEN UNCHANGED <<api, watch>>
                 ELSE Write([api EXCEPT !.status = TRUE])
              /\ UNCHANGED <<queued, faults>>
           \/ ~pass.updated.status /\ Fault /\ queued' = TRUE
              /\ UNCHANGED <<api, watch>>
  /\ UNCHANGED <<store, edits, missed>>

\* The informer puts the next version into the store; the controller queues the
\* Service if its annotations are not those of the object that was there.
Deliver ==
  /\ watch # <<>>
  /\ store' = Head(watch)
  /\ watch' = Tail(watch)
  /\ shared' = FALSE
  /\ queued' = (queued \/ \E k \in AnnotationKeys : store[k] # Head(watch)[k])
  /\ UNCHANGED <<api, pass, faults, edits, missed>>

\* The user writes an annotation, or takes the one with the ID away.
Edit ==
  /\ edits < MaxEdits /\ edits' = edits + 1
  /\ \/ Write([api EXCEPT !.note = edits + 1])
     \/ api.id # None /\ Write([api EXCEPT !.id = None])
  /\ UNCHANGED <<store, shared, pass, queued, faults, missed>>

\* The process ends, and starts with a fresh listing.
Crash ==
  /\ Fault
  /\ pass' = Idle
  /\ shared' = FALSE
  /\ store' = api
  /\ watch' = <<>>
  /\ queued' = TRUE
  /\ UNCHANGED <<api, edits, missed>>

Next ==
  \/ Begin \/ (\E failed \in BOOLEAN : Record(failed)) \/ FailEarly \/ Patch
  \/ Returned \/ Deliver \/ Edit \/ Crash

Spec == Init /\ [][Next]_vars

-----------------------------------------------------------------------------
Quiet == pass.pc = "idle" /\ ~queued /\ watch = <<>>

\* "Make sure LB ID will be saved at this point": when there is nothing left to
\* do, the API has the load balancer's ID, whatever failed or was edited.
AlwaysRecorded == Quiet => api.id = LB

\* That holds as long as no patch of the annotations has failed.
RecordedWhenQuiet == Quiet /\ ~missed => api.id = LB

\* What a pass writes into the object in the informer's store does not stay there
\* alone, as long as no patch has failed: once all events are delivered and no
\* pass runs, the store has what the API has.
StoreAgrees == pass.pc = "idle" /\ watch = <<>> /\ ~missed => store = api

\* A patch computed from an object that was read earlier never undoes what the
\* user wrote since: notes are numbered, and the API never goes back to an
\* earlier one.
UserEditsSurvive == [][api'.note >= api.note]_vars

\* Recording the annotation is best-effort and does not decide what a pass returns:
\* a pass that failed returns an error.
FailureIsReturned == pass.pc = "returned" /\ pass.failed => pass.err
=============================================================================
