----------------------- MODULE ListenerProtocolProofs -----------------------
(***************************************************************************)
(* Proofs about ListenerProtocol, for every set of annotations: which      *)
(* protocols a listener and its pool are given, and how many passes it     *)
(* takes until both are described as the annotations want it.              *)
(***************************************************************************)
EXTENDS ListenerProtocol, TLAPS

\* A pass runs only for annotations whose protocol is supported.
Supported == pass.pc # "idle" => pass.ann.protocol = "" \/ IsBackendProtocol(pass.ann.protocol)

Types == TypeOK /\ Supported

\* The listener as the annotations want it, and the pool as they want it.
ListenerAsWanted ==
  /\ listener.desc = ListenerDescription(listener.protocol, want)
  /\ listener.tls = want.tls

PoolAsWanted == pool.desc = PoolDescription(pool.protocol, want)

-----------------------------------------------------------------------------
(* The helpers.                                                            *)

\* The protocol a listener has leads back to itself.
LEMMA ProtocolsRoundTrip ==
  /\ \A p \in Protocols : /\ BackendProtocolOf(p) \in BackendProtocols
                          /\ ListenerProtocolOf(BackendProtocolOf(p)) = p
  /\ \A b \in BackendProtocols : /\ ListenerProtocolOf(b) \in Protocols
                                 /\ PoolProtocolOf(b) \in Protocols
                                 /\ BackendProtocolOf(ListenerProtocolOf(b)) = b
BY DEF Protocols, BackendProtocols, BackendProtocolOf, ListenerProtocolOf, PoolProtocolOf

LEMMA DescriptionsHold ==
  /\ \A p \in Protocols, a \in AnnotationRecords : ListenerDescription(p, a) \in Descriptions
  /\ \A p \in Protocols, a \in AnnotationRecords : PoolDescription(p, a) \in {"", "proxy"}
BY DEF Protocols, ListenerDescription, PoolDescription, Descriptions, AnnotationRecords

\* Whatever annotations a pass runs for, it works with one of the three protocols.
LEMMA EffectiveBackendHolds ==
  ASSUME Types, pass.pc # "idle"
  PROVE  /\ EffectiveBackend(listener, pass.ann) \in BackendProtocols
         /\ listener # None => EffectiveBackend(listener, pass.ann) = BackendProtocolOf(listener.protocol)
<1>1. CASE listener # None
  <2>1. listener.protocol \in Protocols
    BY <1>1 DEF Types, TypeOK, Listeners
  <2> QED  BY <1>1, <2>1, ProtocolsRoundTrip DEF EffectiveBackend
<1>2. CASE listener = None
  <2>1. CASE pass.ann.protocol = ""
    BY <1>2, <2>1 DEF EffectiveBackend, Normalize, BackendProtocols
  <2>2. CASE IsBackendProtocol(pass.ann.protocol)
    BY <1>2, <2>2 DEF EffectiveBackend, IsBackendProtocol, BackendProtocols
  <2> QED  BY <2>1, <2>2 DEF Types, Supported
<1> QED  BY <1>1, <1>2

LEMMA IdleHolds ==
  ASSUME NEW a \in Annotations
  PROVE  Idle(a) \in Passes /\ Idle(a).pc = "idle" /\ Idle(a).ann = a
BY DEF Idle, Passes, BackendProtocols

-----------------------------------------------------------------------------
(* What the calls do, for the proofs that follow.                          *)

\* A pass goes on, with the annotations it has, or is over.
GoesOn(pc) == pass' \in Passes /\ pass'.pc = pc /\ pass'.ann = pass.ann

Over == pass' = Idle(pass.ann)

LEMMA CreateListenerSteps ==
  ASSUME Types, CreateListener
  PROVE  \E backend \in BackendProtocols :
           /\ pass.pc = "listener" /\ listener = None
           /\ listener' \in Listeners /\ stray' \in BOOLEAN
           /\ UNCHANGED <<want, pool, agreed>>
           /\ \/ listener'.protocol = ListenerProtocolOf(backend)
              \/ listener'.protocol = "TERMINATED_HTTPS" /\ stray'
           /\ (GoesOn("pool") /\ pass'.backend = backend) \/ Over
<1> DEFINE a == pass.ann
           backend == EffectiveBackend(listener, a)
           protocol == ListenerProtocolOf(backend)
<1>1. /\ pass.pc = "listener" /\ listener = None
      /\ listener' = [protocol |-> IF a.tls # None THEN "TERMINATED_HTTPS" ELSE protocol,
                      desc |-> ListenerDescription(protocol, a), tls |-> a.tls]
      /\ pass' = [pass EXCEPT !.pc = "pool", !.backend = backend] \/ Over
      /\ stray' = (a.tls # None /\ backend # "terminated_https")
      /\ UNCHANGED <<want, pool, agreed>>
  BY DEF CreateListener, NewListener, Call, Fail, Over
<1>2. backend \in BackendProtocols
  BY <1>1, EffectiveBackendHolds
<1>3. pass \in Passes /\ a \in AnnotationRecords
  BY AnnotationsAssumption DEF Types, TypeOK, Passes
<1>4. protocol \in Protocols /\ ListenerDescription(protocol, a) \in Descriptions
  BY <1>2, <1>3, ProtocolsRoundTrip, DescriptionsHold
<1>5. a.tls \in TlsRefs \cup {None}
  BY <1>3 DEF AnnotationRecords
<1>6. listener' \in Listeners
  <2> HIDE DEF protocol
  <2> QED  BY <1>1, <1>4, <1>5 DEF Listeners, Protocols
<1>7. \/ listener'.protocol = protocol
      \/ listener'.protocol = "TERMINATED_HTTPS" /\ stray'
  <2>1. CASE a.tls = None
    BY <1>1, <2>1
  <2>2. CASE a.tls # None /\ backend # "terminated_https"
    BY <1>1, <2>2
  <2>3. CASE a.tls # None /\ backend = "terminated_https"
    BY <1>1, <2>3 DEF ListenerProtocolOf
  <2> QED  BY <2>1, <2>2, <2>3
<1>8. (GoesOn("pool") /\ pass'.backend = backend) \/ Over
  BY <1>1, <1>2, <1>3 DEF GoesOn, Passes
<1>9. stray' \in BOOLEAN
  BY <1>1
<1> QED  BY <1>1, <1>2, <1>6, <1>7, <1>8, <1>9

\* An existing listener keeps its protocol, and gets what the annotations of the
\* pass say.
LEMMA UpdateListenerSteps ==
  ASSUME Types, UpdateListener
  PROVE  /\ pass.pc = "listener" /\ listener # None
         /\ listener' \in Listeners
         /\ listener'.protocol = listener.protocol
         /\ listener'.desc = ListenerDescription(listener.protocol, pass.ann)
         /\ listener'.tls = pass.ann.tls
         /\ UNCHANGED <<want, pool, agreed, stray>>
         /\ \/ GoesOn("pool") /\ pass'.backend = BackendProtocolOf(listener.protocol)
            \/ Over
<1> DEFINE a == pass.ann
           backend == EffectiveBackend(listener, a)
           next == [pass EXCEPT !.pc = "pool", !.backend = backend]
           updated == [listener EXCEPT
                         !.desc = ListenerDescription(ListenerProtocolOf(backend), a),
                         !.tls = a.tls]
<1>1. /\ pass.pc = "listener" /\ listener # None /\ listener' = updated
      /\ pass' = next \/ Over
      /\ UNCHANGED <<want, pool, agreed, stray>>
  BY DEF UpdateListener, UpdatedListener, Call, Fail, Over
<1>2. /\ listener \in Listeners /\ listener.protocol \in Protocols
      /\ pass \in Passes /\ a \in AnnotationRecords /\ a.tls \in TlsRefs \cup {None}
  BY <1>1, AnnotationsAssumption DEF Types, TypeOK, Passes, Listeners, AnnotationRecords
<1>3. backend = BackendProtocolOf(listener.protocol) /\ backend \in BackendProtocols
  BY <1>1, EffectiveBackendHolds
<1>4. /\ ListenerProtocolOf(backend) = listener.protocol
      /\ ListenerDescription(listener.protocol, a) \in Descriptions
  BY <1>2, <1>3, ProtocolsRoundTrip, DescriptionsHold
<1>5. updated = [listener EXCEPT !.desc = ListenerDescription(listener.protocol, a),
                                 !.tls = a.tls]
  BY <1>4
<1>6. /\ listener' \in Listeners
      /\ listener'.protocol = listener.protocol
      /\ listener'.desc = ListenerDescription(listener.protocol, a)
      /\ listener'.tls = a.tls
  BY <1>1, <1>2, <1>4, <1>5 DEF Listeners
<1>7. (GoesOn("pool") /\ pass'.backend = backend) \/ Over
  BY <1>1, <1>2, <1>3 DEF GoesOn, Passes
<1> QED  BY <1>1, <1>3, <1>6, <1>7

LEMMA EnsurePoolSteps ==
  ASSUME Types, EnsurePool
  PROVE  /\ pass.pc = "pool" /\ UNCHANGED <<want, listener, agreed, stray>>
         /\ \/ UNCHANGED pool /\ pool # None
            \/ /\ pool = None /\ pool' \in Pools
               /\ pool'.protocol = PoolProtocolOf(pass.backend)
         /\ GoesOn("settings") \/ Over
<1>1. pass \in Passes /\ PoolProtocolOf(pass.backend) \in Protocols
  BY ProtocolsRoundTrip DEF Types, TypeOK, Passes
<1>2. /\ pass.pc = "pool" /\ UNCHANGED <<want, listener, agreed, stray>>
      /\ \/ UNCHANGED pool /\ pool # None
         \/ pool = None /\ pool' = [protocol |-> PoolProtocolOf(pass.backend), desc |-> ""]
      /\ pass' = [pass EXCEPT !.pc = "settings"] \/ Over
  BY DEF EnsurePool, Call, Fail, Over
<1>3. GoesOn("settings") \/ Over
  BY <1>1, <1>2 DEF GoesOn, Passes
<1>4. CASE pool = None
  <2>1. pool' = [protocol |-> PoolProtocolOf(pass.backend), desc |-> ""]
    BY <1>2, <1>4
  <2>2. pool' \in Pools /\ pool'.protocol = PoolProtocolOf(pass.backend)
    BY <1>1, <2>1 DEF Pools
  <2> QED  BY <1>2, <1>3, <1>4, <2>2
<1> QED  BY <1>2, <1>3, <1>4

LEMMA UpdatePoolSteps ==
  ASSUME Types, UpdatePool, pool # None
  PROVE  /\ pass.pc = "settings" /\ UNCHANGED <<want, listener, stray>>
         /\ pool' \in Pools /\ pool'.protocol = pool.protocol
         /\ pool'.desc = PoolDescription(pool.protocol, pass.ann)
         /\ Over
         /\ \/ UNCHANGED agreed
            \/ pass.ann = want /\ agreed < 2 /\ agreed' = agreed + 1
<1>1. /\ pool \in Pools /\ pool.protocol \in Protocols /\ pass.ann \in AnnotationRecords
  BY AnnotationsAssumption DEF Types, TypeOK, Passes, Pools
<1>2. PoolDescription(pool.protocol, pass.ann) \in {"", "proxy"}
  BY <1>1, DescriptionsHold
<1>3. /\ pass.pc = "settings" /\ UNCHANGED <<want, listener, stray>>
      /\ pool' = [pool EXCEPT !.desc = PoolDescription(pool.protocol, pass.ann)]
      /\ Over
      /\ \/ UNCHANGED agreed
         \/ pass.ann = want /\ agreed < 2 /\ agreed' = agreed + 1
  BY DEF UpdatePool, Fail, Over
<1> QED  BY <1>1, <1>2, <1>3 DEF Pools

-----------------------------------------------------------------------------
(* What exists when, and with which protocol.                              *)

\* A pool has a listener; a pass past the listener has found or made one, and one
\* past the pool has a pool; and a pass that makes a pool makes it for the listener.
Exists ==
  /\ pool # None => listener # None
  /\ pass.pc \in {"pool", "settings"} => listener # None
  /\ pass.pc = "settings" => pool # None

Follows ==
  pass.pc = "pool" =>
    \/ pass.backend = BackendProtocolOf(listener.protocol)
    \/ stray /\ listener.protocol = "TERMINATED_HTTPS"

ProtocolInv == Types /\ Exists /\ Follows /\ PoolFollowsListener

LEMMA StillListener == ASSUME listener' \in Listeners PROVE listener' # None
BY ListenersAssumption

LEMMA StillPool == ASSUME pool' \in Pools PROVE pool' # None
BY NoneAssumption

\* A pass that is over leaves only what exists to be known.
LEMMA OverHolds ==
  ASSUME Types, Over
  PROVE  pass' \in Passes /\ pass'.pc = "idle" /\ pass'.ann = pass.ann /\ Supported'
<1>1. pass.ann \in Annotations
  BY DEF Types, TypeOK, Passes
<1> QED  BY <1>1, IdleHolds DEF Over, Supported

LEMMA GoesOnHolds ==
  ASSUME Types, pass.pc # "idle", NEW pc, GoesOn(pc)
  PROVE  pass' \in Passes /\ Supported'
BY DEF GoesOn, Types, Supported

LEMMA ProtocolInit == Init => ProtocolInv
<1> SUFFICES ASSUME Init PROVE ProtocolInv
  OBVIOUS
<1>1. pass \in Passes /\ pass.pc = "idle"
  BY IdleHolds DEF Init
<1>2. Types
  <2>1. want \in Annotations /\ listener = None /\ pool = None /\ agreed \in 0..2 /\ stray = FALSE
    BY DEF Init
  <2>2. Supported
    BY <1>1 DEF Supported
  <2> QED  BY <1>1, <2>1, <2>2 DEF Types, TypeOK
<1>3. Exists /\ Follows /\ PoolFollowsListener
  BY <1>1 DEF Init, Exists, Follows, PoolFollowsListener
<1> QED  BY <1>2, <1>3 DEF ProtocolInv

LEMMA ProtocolKept == ProtocolInv /\ [Next]_vars => ProtocolInv'
<1> SUFFICES ASSUME ProtocolInv, [Next]_vars PROVE ProtocolInv'
  OBVIOUS
<1>0. /\ Types /\ pass \in Passes /\ want \in Annotations /\ pass.ann \in Annotations
      /\ listener \in Listeners \cup {None} /\ pool \in Pools \cup {None}
      /\ agreed \in 0..2 /\ stray \in BOOLEAN
      /\ Exists /\ Follows /\ PoolFollowsListener
  BY DEF ProtocolInv, Types, TypeOK, Passes
<1>1. CASE Begin
  <2>1. /\ pass' = [Idle(want) EXCEPT !.pc = "listener"]
        /\ want.protocol = "" \/ IsBackendProtocol(want.protocol)
        /\ UNCHANGED <<want, listener, pool, agreed, stray>>
    BY <1>1 DEF Begin
  <2>2. pass' \in Passes /\ pass'.pc = "listener" /\ pass'.ann = want
    BY <1>0, <2>1, IdleHolds DEF Passes
  <2>3. Types'
    BY <1>0, <2>1, <2>2 DEF Types, TypeOK, Supported
  <2> QED  BY <1>0, <2>1, <2>2, <2>3 DEF ProtocolInv, Exists, Follows, PoolFollowsListener
<1>2. CASE PassFails
  <2>1. Over /\ UNCHANGED <<want, listener, pool, agreed, stray>>
    BY <1>2 DEF PassFails, Fail, Over
  <2> QED  BY <1>0, <2>1, OverHolds DEF ProtocolInv, Types, TypeOK, Exists, Follows, PoolFollowsListener
<1>3. CASE CreateListener
  <2>1. PICK backend \in BackendProtocols :
           /\ pass.pc = "listener" /\ listener = None
           /\ listener' \in Listeners /\ stray' \in BOOLEAN
           /\ UNCHANGED <<want, pool, agreed>>
           /\ \/ listener'.protocol = ListenerProtocolOf(backend)
              \/ listener'.protocol = "TERMINATED_HTTPS" /\ stray'
           /\ (GoesOn("pool") /\ pass'.backend = backend) \/ Over
    BY <1>0, <1>3, CreateListenerSteps
  <2>2. pass' \in Passes /\ pass'.pc \in {"pool", "idle"} /\ Supported'
    BY <1>0, <2>1, OverHolds, GoesOnHolds DEF GoesOn
  <2>3. Types'
    BY <1>0, <2>1, <2>2 DEF Types, TypeOK
  <2>4. pool' = None /\ listener' # None
    BY <1>0, <2>1, StillListener DEF Exists
  <2>5. Exists'
    BY <2>2, <2>4 DEF Exists
  <2>6. Follows'
    BY <1>0, <2>1, <2>2, OverHolds, ProtocolsRoundTrip DEF Follows
  <2> QED  BY <2>3, <2>4, <2>5, <2>6 DEF ProtocolInv, PoolFollowsListener
<1>4. CASE UpdateListener
  <2>1. /\ pass.pc = "listener" /\ listener # None
        /\ listener' \in Listeners
        /\ listener'.protocol = listener.protocol
        /\ UNCHANGED <<want, pool, agreed, stray>>
        /\ \/ GoesOn("pool") /\ pass'.backend = BackendProtocolOf(listener.protocol)
           \/ Over
    BY <1>0, <1>4, UpdateListenerSteps
  <2>2. pass' \in Passes /\ pass'.pc \in {"pool", "idle"} /\ Supported'
    BY <1>0, <2>1, OverHolds, GoesOnHolds DEF GoesOn
  <2>3. Types'
    BY <1>0, <2>1, <2>2 DEF Types, TypeOK
  <2>4. Exists' /\ PoolFollowsListener'
    BY <1>0, <2>1, <2>2, StillListener DEF Exists, PoolFollowsListener
  <2>5. Follows'
    BY <2>1, <2>2, OverHolds, <1>0 DEF Follows
  <2> QED  BY <2>3, <2>4, <2>5 DEF ProtocolInv
<1>5. CASE EnsurePool
  <2>1. /\ pass.pc = "pool" /\ UNCHANGED <<want, listener, agreed, stray>>
        /\ \/ UNCHANGED pool /\ pool # None
           \/ /\ pool = None /\ pool' \in Pools
              /\ pool'.protocol = PoolProtocolOf(pass.backend)
        /\ GoesOn("settings") \/ Over
    BY <1>0, <1>5, EnsurePoolSteps
  <2>2. pass' \in Passes /\ pass'.pc \in {"settings", "idle"} /\ Supported'
    BY <1>0, <2>1, OverHolds, GoesOnHolds DEF GoesOn
  <2>3. pool' # None /\ pool' \in Pools \cup {None} /\ listener # None
    BY <1>0, <2>1, StillPool DEF Exists
  <2>4. Types'
    BY <1>0, <2>1, <2>2, <2>3 DEF Types, TypeOK
  <2>5. Exists' /\ Follows'
    BY <2>1, <2>2, <2>3 DEF Exists, Follows
  <2>6. PoolFollowsListener'
    BY <1>0, <2>1, <2>3 DEF PoolFollowsListener, Follows
  <2> QED  BY <2>4, <2>5, <2>6 DEF ProtocolInv
<1>6. CASE UpdatePool
  <2>0. pool # None /\ listener # None
    BY <1>0, <1>6 DEF UpdatePool, Exists
  <2>1. /\ UNCHANGED <<want, listener, stray>>
        /\ pool' \in Pools /\ pool'.protocol = pool.protocol
        /\ Over /\ agreed' \in 0..2
    BY <1>0, <1>6, <2>0, UpdatePoolSteps
  <2>2. pass' \in Passes /\ pass'.pc = "idle" /\ Supported'
    BY <1>0, <2>1, OverHolds
  <2>3. Types'
    BY <1>0, <2>1, <2>2 DEF Types, TypeOK
  <2> QED  BY <1>0, <2>0, <2>1, <2>2, <2>3 DEF ProtocolInv, Exists, Follows, PoolFollowsListener
<1>7. CASE DropObsolete
  <2>1. /\ pass.pc = "idle" /\ UNCHANGED <<want, pass>> /\ agreed' = 0
        /\ \/ pool # None /\ pool' = None /\ UNCHANGED <<listener, stray>>
           \/ pool = None /\ listener' = None /\ stray' = FALSE /\ UNCHANGED pool
    BY <1>7 DEF DropObsolete
  <2>2. Types'
    <3>a. agreed' \in 0..2
      BY <2>1
    <3>b. stray' \in BOOLEAN
      BY <1>0, <2>1, Zenon
    <3>1. agreed' \in 0..2 /\ stray' \in BOOLEAN
      BY <3>a, <3>b
    <3>2. Supported'
      BY <1>0, <2>1 DEF Types, Supported
    <3> QED  BY <1>0, <2>1, <3>1, <3>2 DEF Types, TypeOK
  <2> QED  BY <1>0, <2>1, <2>2 DEF ProtocolInv, Exists, Follows, PoolFollowsListener
<1>8. CASE Edit
  <2>1. want' \in Annotations /\ agreed' = 0 /\ UNCHANGED <<listener, pool, pass, stray>>
    BY <1>8 DEF Edit
  <2>2. Types'
    <3>1. agreed' \in 0..2 /\ stray' \in BOOLEAN
      BY <1>0, <2>1
    <3>2. Supported'
      BY <1>0, <2>1 DEF Types, Supported
    <3> QED  BY <1>0, <2>1, <3>1, <3>2 DEF Types, TypeOK
  <2> QED  BY <1>0, <2>1, <2>2 DEF ProtocolInv, Exists, Follows, PoolFollowsListener
<1>9. CASE UNCHANGED vars
  BY <1>0, <1>9 DEF vars, ProtocolInv, Types, TypeOK, Supported, Exists, Follows, PoolFollowsListener
<1> QED  BY <1>1, <1>2, <1>3, <1>4, <1>5, <1>6, <1>7, <1>8, <1>9 DEF Next

\* No listener and no pool is ever given a protocol other than the three, however the
\* annotation is spelled.
THEOREM TypesHold == Spec => []TypeOK
<1>1. ProtocolInv => TypeOK
  BY DEF ProtocolInv, Types
<1> QED  BY <1>1, ProtocolInit, ProtocolKept, PTL DEF Spec

\* Whenever the annotations change and wherever passes fail, a pool speaks the protocol
\* that its listener forwards, unless a TLS container alone made the listener
\* terminate TLS.
THEOREM PoolFollowsListenerEver == Spec => []PoolFollowsListener
<1>1. ProtocolInv => PoolFollowsListener
  BY DEF ProtocolInv
<1> QED  BY <1>1, ProtocolInit, ProtocolKept, PTL DEF Spec

-----------------------------------------------------------------------------
(* How many passes it takes.                                               *)

\* One pass over the annotations as they stand leaves the pool right; the next one
\* starts with the same annotations, and has the listener right once it is past it.
SettleInv ==
  /\ agreed >= 1 =>
       /\ listener # None /\ pool # None /\ PoolAsWanted
       /\ pass.pc # "idle" => pass.ann = want
       /\ pass.pc \in {"pool", "settings"} => ListenerAsWanted
  /\ agreed = 2 => ListenerAsWanted

LEMMA SettleInit == Init => SettleInv
BY DEF Init, SettleInv

LEMMA SettleKept == ProtocolInv /\ SettleInv /\ [Next]_vars => SettleInv'
<1> SUFFICES ASSUME ProtocolInv, SettleInv, [Next]_vars PROVE SettleInv'
  OBVIOUS
<1>0. Types /\ Exists /\ agreed \in 0..2 /\ pass.ann \in Annotations /\ want \in Annotations
  BY DEF ProtocolInv, Types, TypeOK, Passes
<1>1. CASE Begin
  <2>1. pass' = [Idle(want) EXCEPT !.pc = "listener"]
        /\ UNCHANGED <<want, listener, pool, agreed, stray>>
    BY <1>1 DEF Begin
  <2>2. pass'.pc = "listener" /\ pass'.ann = want
    BY <1>0, <2>1, IdleHolds DEF Passes
  <2> QED  BY <2>1, <2>2 DEF SettleInv, PoolAsWanted, ListenerAsWanted
<1>2. CASE PassFails
  <2>1. Over /\ UNCHANGED <<want, listener, pool, agreed, stray>>
    BY <1>2 DEF PassFails, Fail, Over
  <2>2. pass'.pc = "idle"
    BY <1>0, <2>1, OverHolds
  <2> QED  BY <2>1, <2>2 DEF SettleInv, PoolAsWanted, ListenerAsWanted
<1>3. CASE CreateListener
  <2>1. listener = None /\ UNCHANGED agreed
    BY <1>3 DEF CreateListener
  <2> QED  BY <1>0, <2>1 DEF SettleInv
<1>4. CASE UpdateListener
  <2>1. /\ pass.pc = "listener" /\ listener' \in Listeners
        /\ listener'.protocol = listener.protocol
        /\ listener'.desc = ListenerDescription(listener.protocol, pass.ann)
        /\ listener'.tls = pass.ann.tls
        /\ UNCHANGED <<want, pool, agreed, stray>>
        /\ \/ GoesOn("pool") /\ pass'.backend = BackendProtocolOf(listener.protocol)
           \/ Over
    BY <1>0, <1>4, UpdateListenerSteps
  <2>2. pass'.ann = pass.ann
    BY <1>0, <2>1, OverHolds DEF GoesOn
  <2>3. pass.ann = want => ListenerAsWanted'
    BY <2>1 DEF ListenerAsWanted
  <2> QED  BY <2>1, <2>2, <2>3, StillListener, <1>0 DEF SettleInv, PoolAsWanted
<1>5. CASE EnsurePool
  <2>1. /\ pass.pc = "pool" /\ UNCHANGED <<want, listener, agreed, stray>>
        /\ \/ UNCHANGED pool /\ pool # None
           \/ pool = None
        /\ GoesOn("settings") \/ Over
    BY <1>0, <1>5, EnsurePoolSteps
  <2>2. pass'.ann = pass.ann
    BY <1>0, <2>1, OverHolds DEF GoesOn
  <2> QED  BY <1>0, <2>1, <2>2 DEF SettleInv, PoolAsWanted, ListenerAsWanted
<1>6. CASE UpdatePool
  <2>0. pool # None /\ listener # None /\ pass.pc = "settings"
    BY <1>0, <1>6 DEF UpdatePool, Exists
  <2>1. /\ UNCHANGED <<want, listener, stray>>
        /\ pool' \in Pools /\ pool'.protocol = pool.protocol
        /\ pool'.desc = PoolDescription(pool.protocol, pass.ann)
        /\ Over
        /\ \/ UNCHANGED agreed
           \/ pass.ann = want /\ agreed < 2 /\ agreed' = agreed + 1
    BY <1>0, <1>6, <2>0, UpdatePoolSteps
  <2>2. pass'.pc = "idle" /\ pool' # None
    BY <1>0, <2>1, OverHolds, StillPool
  <2>3. agreed' >= 1 => pass.ann = want
    BY <1>0, <2>0, <2>1 DEF SettleInv
  <2>4. agreed' >= 1 => PoolAsWanted'
    BY <2>1, <2>3 DEF PoolAsWanted
  <2>5. agreed' = 2 => ListenerAsWanted'
    BY <1>0, <2>0, <2>1 DEF SettleInv, ListenerAsWanted
  <2> QED  BY <2>0, <2>1, <2>2, <2>4, <2>5 DEF SettleInv
<1>7. CASE DropObsolete \/ Edit
  BY <1>7 DEF DropObsolete, Edit, SettleInv
<1>8. CASE UNCHANGED vars
  BY <1>8 DEF vars, SettleInv, PoolAsWanted, ListenerAsWanted
<1> QED  BY <1>1, <1>2, <1>3, <1>4, <1>5, <1>6, <1>7, <1>8 DEF Next

\* Two passes that succeed over the same annotations are enough, whatever failed and
\* whatever was written before.
THEOREM SettlesInTwoEver == Spec => []SettlesInTwo
<1>1. ProtocolInv /\ SettleInv => SettlesInTwo
  BY DEF ProtocolInv, SettleInv, SettlesInTwo, ListenerAsWanted, PoolAsWanted
<1> QED  BY <1>1, ProtocolInit, ProtocolKept, SettleInit, SettleKept, PTL DEF Spec
=============================================================================
