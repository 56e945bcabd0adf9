-------------------------- MODULE ListenerProtocol --------------------------
(***************************************************************************)
(* How EnsureLoadBalancer (kinx_loadbalancer.go) turns the annotations of  *)
(* a Service into the protocol, description and TLS reference of ONE       *)
(* listener and into the protocol and description of its pool.             *)
(*                                                                         *)
(* Protocols are fixed when a resource is created, everything else may be  *)
(* updated, a pass may end between any two calls, and users edit the       *)
(* annotations meanwhile: a listener may be created under one set of       *)
(* annotations, its pool under another, and both updated under a third.    *)
(* LoadBalancer has the same listeners and pools, for a few annotations    *)
(* and many ports; this module has one port and all annotations.           *)
(***************************************************************************)
EXTENDS Naturals, ListenerConfig

CONSTANT
  Annotations    \* annotations users may write

ASSUME AnnotationsAssumption == Annotations \subseteq AnnotationRecords

VARIABLES
  want,      \* the annotations as they stand in Kubernetes
  listener,  \* the listener of the port, or None
  pool,      \* its pool, or None
  pass,      \* the local variables of the running pass
  agreed,    \* passes that succeeded with the annotations as they stand, up to 2
  stray      \* history: was the listener made with a TLS container, but without
             \* terminated_https

vars == <<want, listener, pool, pass, agreed, stray>>

Pools == [protocol : Protocols, desc : {"", "proxy"}]

ASSUME NoneAssumption == None \notin Pools

-----------------------------------------------------------------------------
Idle(a) == [pc |-> "idle", ann |-> a, backend |-> "tcp"]

Passes ==
  [pc : {"idle", "listener", "pool", "settings"},
   ann : Annotations,              \* apiService.Annotations
   backend : BackendProtocols]     \* effectiveBackendProtocol

TypeOK ==
  /\ want \in Annotations
  /\ listener \in Listeners \cup {None}
  /\ pool \in Pools \cup {None}
  /\ pass \in Passes
  /\ agreed \in 0..2
  /\ stray \in BOOLEAN

Init ==
  /\ want \in Annotations
  /\ listener = None
  /\ pool = None
  /\ pass = Idle(want)
  /\ agreed = 0
  /\ stray = FALSE

\* A pass starts with the annotations as it was given them; an unsupported
\* protocol ends it at once.
Begin ==
  /\ pass.pc = "idle"
  /\ want.protocol = "" \/ IsBackendProtocol(want.protocol)
  /\ pass' = [Idle(want) EXCEPT !.pc = "listener"]
  /\ UNCHANGED <<want, listener, pool, agreed, stray>>

\* A call or a read fails, or what a call did is not heard of: the pass is over.
Fail == pass' = Idle(pass.ann)

\* A call that changes what it should, after which the pass is at next; its reply
\* may be lost.
Call(next) == pass' = next \/ Fail

PassFails ==
  /\ pass.pc # "idle"
  /\ Fail
  /\ UNCHANGED <<want, listener, pool, agreed, stray>>

CreateListener ==
  LET a == pass.ann
      backend == EffectiveBackend(listener, a)
  IN /\ pass.pc = "listener" /\ listener = None
     /\ listener' = NewListener(a)
     /\ Call([pass EXCEPT !.pc = "pool", !.backend = backend])
     /\ stray' = (a.tls # None /\ backend # "terminated_https")
     /\ UNCHANGED <<want, pool, agreed>>

UpdateListener ==
  LET a == pass.ann
      next == [pass EXCEPT !.pc = "pool", !.backend = EffectiveBackend(listener, a)]
      updated == UpdatedListener(listener, a)
  IN /\ pass.pc = "listener" /\ listener # None
     /\ listener' = updated
     /\ IF listener = updated THEN pass' = next ELSE Call(next)
     /\ UNCHANGED <<want, pool, agreed, stray>>

EnsurePool ==
  LET next == [pass EXCEPT !.pc = "settings"]
  IN /\ pass.pc = "pool"
     /\ IF pool # None
        THEN pass' = next /\ UNCHANGED pool
        ELSE /\ pool' = [protocol |-> PoolProtocolOf(pass.backend), desc |-> ""]
             /\ Call(next)
     /\ UNCHANGED <<want, listener, agreed, stray>>

\* Mutant: the proxy flag is written for every pool that asks for it.
MutUpdatePool ==
  LET updated == [pool EXCEPT !.desc = IF pass.ann.proxy THEN "proxy" ELSE ""]
  IN /\ pass.pc = "settings"
     /\ pool' = updated
     /\ pass' = Idle(pass.ann)
     /\ agreed' = IF pass.ann = want /\ agreed < 2 THEN agreed + 1 ELSE agreed
     /\ UNCHANGED <<want, listener, stray>>

\* The last call of the port; with it, or without need of it, the pass succeeds.
UpdatePool ==
  LET updated == [pool EXCEPT !.desc = PoolDescription(pool.protocol, pass.ann)]
      succeed == /\ pass' = Idle(pass.ann)
                 /\ agreed' = IF pass.ann = want /\ agreed < 2
                              THEN agreed + 1 ELSE agreed
  IN /\ pass.pc = "settings"
     /\ pool' = updated
     /\ \/ succeed
        \/ pool # updated /\ Fail /\ UNCHANGED agreed
     /\ UNCHANGED <<want, listener, stray>>

\* A pass over a Service without the port deletes the pool, then the listener.
DropObsolete ==
  /\ pass.pc = "idle"
  /\ listener # None
  /\ IF pool # None
     THEN pool' = None /\ UNCHANGED <<listener, stray>>
     ELSE listener' = None /\ stray' = FALSE /\ UNCHANGED pool
  /\ agreed' = 0
  /\ UNCHANGED <<want, pass>>

\* The user edits the annotations, whatever the passes are doing.
Edit ==
  /\ want' \in Annotations \ {want}
  /\ agreed' = 0
  /\ UNCHANGED <<listener, pool, pass, stray>>

Next ==
  \/ Begin \/ PassFails \/ CreateListener \/ UpdateListener \/ EnsurePool
  \/ UpdatePool \/ DropObsolete \/ Edit

Spec == Init /\ [][Next]_vars

-----------------------------------------------------------------------------
(* What is correct.  TypeOK says in passing that no listener and no pool is *)
(* ever given the empty protocol, however the annotation is spelled.        *)

\* Two successful passes over the same annotations are enough, whatever passes
\* failed and whatever annotations were written before: the listener and its pool
\* are then described as their own protocols want it, the listener has the TLS
\* container of the annotations, and later passes find nothing to update.
SettlesInTwo ==
  agreed = 2 =>
    /\ listener.desc = ListenerDescription(listener.protocol, want)
    /\ listener.tls = want.tls
    /\ pool.desc = PoolDescription(pool.protocol, want)

\* A pool speaks the protocol its listener forwards (terminated_https uses HTTP
\* on the pool side), even when the annotations changed, or a pass failed, between
\* the creation of the two.  The exception is a listener that a TLS container
\* alone made terminate TLS: the pool of the same pass follows the annotation.
PoolFollowsListener ==
  pool # None =>
    \/ pool.protocol = PoolProtocolOf(BackendProtocolOf(listener.protocol))
    \/ stray /\ listener.protocol = "TERMINATED_HTTPS"

=============================================================================
