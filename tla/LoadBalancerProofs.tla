------------------------- MODULE LoadBalancerProofs -------------------------
(***************************************************************************)
(* Proofs about the passes of LoadBalancer, for any number of ports, nodes *)
(* and load balancers, any Services and any bounds.                        *)
(***************************************************************************)
EXTENDS LoadBalancerInv, FiniteSetTheorems, TLAPS

\* The part of Discipline that the steps of a pass can disturb.
Core ==
  /\ status \in [LBs -> Statuses]
  /\ tree \in [LBs -> Trees]
  /\ pass \in Passes
  /\ \A l \in LBs : Shape(tree[l])
  /\ \A l \in LBs : ~Valid(status[l]) => tree[l] = EmptyTree
  /\ PassOK(pass, tree)

\* The rest of TypeOK.
Rest ==
  /\ want \in Specs \cup {Gone}
  /\ finalizer \in BOOLEAN
  /\ queued \in BOOLEAN
  /\ faults \in 0..MaxFaults
  /\ errors \in 0..MaxErrors
  /\ edits \in 0..MaxEdits

LEMMA DisciplineParts == Discipline <=> Core /\ Rest
  BY DEF Discipline, TypeOK, Core, Rest

\* A pass that has failed, or a process that is down.
Stopped == {Idle, [Idle EXCEPT !.pc = "down"]}

LEMMA EmptyTreeType == EmptyTree \in Trees /\ Shape(EmptyTree)
  BY NoneAssumption DEF EmptyTree, Trees, Shape

LEMMA StoppedType ==
  ASSUME NEW p \in Stopped
  PROVE  p \in Passes /\ p.pc \in {"idle", "down"} /\ ~p.waiting
<1>1. CASE p = Idle
  BY <1>1 DEF Idle, Passes
<1>2. CASE p = [Idle EXCEPT !.pc = "down"]
  <2>1. p = [pc |-> "down", waiting |-> FALSE, goal |-> Gone, hosts |-> {},
             lb |-> None, todo |-> {}, cur |-> None, backend |-> None, old |-> {},
             mons |-> {}, stale |-> {}, left |-> {}]
    BY <1>2 DEF Idle
  <2> QED
    BY <2>1 DEF Passes
<1> QED
  BY <1>1, <1>2 DEF Stopped

LEMMA StoppedIsIdle ==
  ASSUME NEW p \in Stopped
  PROVE  p.pc \in {"idle", "down"} /\ p.goal = Gone
BY DEF Stopped, Idle

\* A step that leaves the cloud alone keeps Core if its pass is in order.
LEMMA LocalKeepsCore ==
  ASSUME Core, UNCHANGED cloud, pass' \in Passes, PassOK(pass', tree)
  PROVE  Core'
  BY DEF Core, cloud

LEMMA StopKeepsCore ==
  ASSUME Core, UNCHANGED cloud, pass' \in Stopped
  PROVE  Core'
<1>1. pass' \in Passes /\ pass'.pc \in {"idle", "down"} /\ ~pass'.waiting
  BY StoppedType
<1>2. PassOK(pass', tree)
  BY <1>1 DEF PassOK, Working, EnsureSteps, DeleteSteps
<1> QED
  BY <1>1, <1>2, LocalKeepsCore

\* What a pass must be at after a call that leaves the tree t.
Ready(next, t) ==
  /\ next \in Passes
  /\ next.lb = pass.lb
  /\ next.pc \in EnsureSteps => next.goal \in Specs
  /\ next.waiting => next.pc \in Working
  /\ EnsureKnows(next, t)
  /\ DeleteKnows(next, t)

\* The cases of CallElse.
CallOutcome(t, next) ==
  \/ /\ status[pass.lb] = "ACTIVE"
     /\ tree' = [tree EXCEPT ![pass.lb] = t]
     /\ status' = [status EXCEPT ![pass.lb] = "PENDING_UPDATE"]
     /\ pass' = next \/ pass' \in Stopped
  \/ UNCHANGED cloud /\ pass' \in Stopped

LEMMA CallKeepsCore ==
  ASSUME Core, pass.pc \in Working,
         NEW t \in Trees, Shape(t),
         NEW next, Ready(next, t),
         CallOutcome(t, next)
  PROVE  Core'
<1>1. pass.lb \in LBs
  BY DEF Core, PassOK
<1>2. CASE UNCHANGED cloud /\ pass' \in Stopped
  BY <1>2, StopKeepsCore
<1>3. CASE /\ status[pass.lb] = "ACTIVE"
           /\ tree' = [tree EXCEPT ![pass.lb] = t]
           /\ status' = [status EXCEPT ![pass.lb] = "PENDING_UPDATE"]
           /\ pass' = next \/ pass' \in Stopped
  <2>1. tree' \in [LBs -> Trees] /\ status' \in [LBs -> Statuses]
    BY <1>3 DEF Core, Statuses
  <2>2. \A l \in LBs : Shape(tree'[l])
    BY <1>1, <1>3 DEF Core
  <2>3. \A l \in LBs : ~Valid(status'[l]) => tree'[l] = EmptyTree
    BY <1>1, <1>3 DEF Core, Valid
  <2>4. CASE pass' = next
    <3>1. tree'[next.lb] = t
      BY <1>1, <1>3 DEF Core, Ready
    <3>2. PassOK(next, tree')
      BY <1>1, <3>1 DEF PassOK, Ready
    <3> QED
      BY <2>1, <2>2, <2>3, <2>4, <3>2 DEF Core, Ready
  <2>5. CASE pass' \in Stopped
    <3>1. pass' \in Passes /\ pass'.pc \in {"idle", "down"} /\ ~pass'.waiting
      BY <2>5, StoppedType
    <3>2. PassOK(pass', tree')
      BY <3>1 DEF PassOK, Working, EnsureSteps, DeleteSteps
    <3> QED
      BY <2>1, <2>2, <2>3, <3>1, <3>2 DEF Core
  <2> QED
    BY <1>3, <2>4, <2>5
<1> QED
  BY <1>2, <1>3 DEF CallOutcome

LEMMA GotoKeepsCore ==
  ASSUME Core, NEW next \in Passes, Goto(next), PassOK(next, tree)
  PROVE  Core'
  BY LocalKeepsCore DEF Goto

LEMMA WaitingIsReady ==
  ASSUME NEW t, NEW next, Ready(next, t), next.pc \in Working
  PROVE  Ready([next EXCEPT !.waiting = TRUE], t)
<1> DEFINE w == [next EXCEPT !.waiting = TRUE]
<1>1. next \in Passes
  BY DEF Ready
<1>2. w \in Passes
  BY <1>1 DEF Passes
<1>3. /\ w.pc = next.pc /\ w.lb = next.lb /\ w.goal = next.goal
      /\ w.cur = next.cur /\ w.todo = next.todo /\ w.old = next.old
      /\ w.backend = next.backend
      /\ w.mons = next.mons /\ w.stale = next.stale
  BY <1>1 DEF Passes
<1> HIDE DEF w
<1>4. EnsureKnows(w, t)
  BY <1>3 DEF Ready, EnsureKnows
<1>5. DeleteKnows(w, t)
  BY <1>3 DEF Ready, DeleteKnows
<1>6. Ready(w, t)
  BY <1>2, <1>3, <1>4, <1>5 DEF Ready
<1> QED
  BY <1>6 DEF w

\* A call followed by a wait.
LEMMA CallStepKeepsCore ==
  ASSUME Core, pass.pc \in Working,
         NEW t \in Trees, Shape(t),
         NEW next, Ready(next, t), next.pc \in Working,
         Call(t, next)
  PROVE  Core'
<1>1. Ready([next EXCEPT !.waiting = TRUE], t)
  BY WaitingIsReady
<1>2. CallOutcome(t, [next EXCEPT !.waiting = TRUE])
  BY DEF Call, CallElse, CallOutcome, Fail, Stopped
<1> QED
  BY <1>1, <1>2, CallKeepsCore

-----------------------------------------------------------------------------
(* The steps both passes share.                                            *)

LEMMA WaitReadyKeepsCore ==
  ASSUME Core, WaitReady
  PROVE  Core'
<1>1. pass' \in Passes /\ PassOK(pass', tree)
  BY DEF Core, WaitReady, Goto, Passes, PassOK, EnsureKnows, DeleteKnows
<1> QED
  BY <1>1, LocalKeepsCore DEF WaitReady, Goto

LEMMA LookupFindsKeepsCore ==
  ASSUME Core, NEW l \in LBs, LookupFinds(l)
  PROVE  Core'
<1>1. pass \in Passes
  BY DEF Core
<1>2. CASE Goto([pass EXCEPT !.pc = "snapshot", !.lb = l])
  <2> DEFINE next == [pass EXCEPT !.pc = "snapshot", !.lb = l]
  <2>1. next \in Passes /\ next.pc = "snapshot" /\ next.lb = l
    BY <1>1 DEF Passes, DeleteSteps
  <2> HIDE DEF next
  <2>2. PassOK(next, tree)
    BY <2>1 DEF PassOK, EnsureKnows, DeleteKnows, EnsureSteps, DeleteSteps,
                Working
  <2>3. Goto(next)
    BY <1>2 DEF next
  <2> QED
    BY <2>1, <2>2, <2>3, GotoKeepsCore
<1>3. CASE /\ pass.goal # Gone
           /\ Goto([pass EXCEPT !.pc = "list", !.lb = l, !.waiting = TRUE])
  <2> DEFINE next == [pass EXCEPT !.pc = "list", !.lb = l, !.waiting = TRUE]
  <2>1. /\ next \in Passes /\ next.pc = "list" /\ next.lb = l
        /\ next.goal = pass.goal
    BY <1>1 DEF Passes, EnsureSteps
  <2> HIDE DEF next
  <2>2. next.goal \in Specs
    BY <1>1, <1>3, <2>1 DEF Passes
  <2>3. PassOK(next, tree)
    BY <2>1, <2>2 DEF PassOK, EnsureKnows, DeleteKnows, EnsureSteps,
                      DeleteSteps, Working
  <2>4. Goto(next)
    BY <1>3 DEF next
  <2> QED
    BY <2>1, <2>3, <2>4, GotoKeepsCore
<1> QED
  BY <1>2, <1>3 DEF LookupFinds

\* What a pass that has a load balancer in hand knows.
LEMMA InHand ==
  ASSUME Core, pass.pc \in Working
  PROVE  /\ pass \in Passes
         /\ pass.lb \in LBs
         /\ Tree \in Trees
         /\ Shape(Tree)
         /\ pass.pc \in EnsureSteps => pass.goal \in Specs
         /\ EnsureKnows(pass, Tree)
         /\ DeleteKnows(pass, Tree)
  BY DEF Core, PassOK, Tree

LEMMA GoalType ==
  ASSUME NEW s \in Specs
  PROVE  /\ s.ports \subseteq Ports
         /\ s.np \in NodePorts
         /\ s.ann \in SupportedAnnotations
         /\ s.method \in Methods
BY SpecsAssumption DEF SpecRecords

-----------------------------------------------------------------------------
(* What a pass makes of a listener and of a pool.                          *)

\* The protocol a listener has leads back to itself.
LEMMA ProtocolsRoundTrip ==
  /\ \A p \in Protocols : /\ BackendProtocolOf(p) \in BackendProtocols
                          /\ ListenerProtocolOf(BackendProtocolOf(p)) = p
  /\ \A b \in BackendProtocols : /\ ListenerProtocolOf(b) \in Protocols
                                 /\ PoolProtocolOf(b) \in Protocols
BY DEF Protocols, BackendProtocols, BackendProtocolOf, ListenerProtocolOf, PoolProtocolOf

LEMMA DescriptionsHold ==
  ASSUME NEW p \in Protocols, NEW a \in SupportedAnnotations
  PROVE  /\ ListenerDescription(p, a) \in Descriptions
         /\ PoolDescription(p, a) \in {"", "proxy"}
BY DEF Protocols, ListenerDescription, PoolDescription, Descriptions,
       SupportedAnnotations, AnnotationRecords

LEMMA EffectiveBackendHolds ==
  ASSUME NEW x \in Listeners \cup {None}, NEW a \in SupportedAnnotations
  PROVE  /\ EffectiveBackend(x, a) \in BackendProtocols
         /\ x # None => EffectiveBackend(x, a) = BackendProtocolOf(x.protocol)
<1>1. CASE x # None
  <2>1. x.protocol \in Protocols
    BY <1>1 DEF Listeners
  <2> QED  BY <1>1, <2>1, ProtocolsRoundTrip DEF EffectiveBackend
<1>2. CASE x = None
  <2>1. CASE a.protocol = ""
    BY <1>2, <2>1 DEF EffectiveBackend, Normalize, BackendProtocols
  <2>2. CASE IsBackendProtocol(a.protocol)
    BY <1>2, <2>2 DEF EffectiveBackend, IsBackendProtocol, BackendProtocols
  <2> QED  BY <2>1, <2>2 DEF SupportedAnnotations
<1> QED  BY <1>1, <1>2

\* A listener that is created is one, whatever its description.
LEMMA NewListenerHolds ==
  ASSUME NEW a \in SupportedAnnotations
  PROVE  NewListener(a) \in Listeners /\ NewListener(a) # None
<1> DEFINE protocol == ListenerProtocolOf(EffectiveBackend(None, a))
<1>1. protocol \in Protocols
  BY EffectiveBackendHolds, ProtocolsRoundTrip
<1>2. ListenerDescription(protocol, a) \in Descriptions
  BY <1>1, DescriptionsHold
<1>3. a.tls \in TlsRefs \cup {None}
  BY DEF SupportedAnnotations, AnnotationRecords
<1>4. NewListener(a) = [protocol |-> IF a.tls # None THEN "TERMINATED_HTTPS" ELSE protocol,
                        desc |-> ListenerDescription(protocol, a), tls |-> a.tls]
  BY DEF NewListener
<1> HIDE DEF protocol
<1>5. NewListener(a) \in Listeners
  BY <1>1, <1>2, <1>3, <1>4 DEF Listeners, Protocols
<1> QED  BY <1>5, ListenersAssumption

\* A listener that is updated keeps its protocol, and is settled; one that is settled
\* is not updated.
LEMMA UpdatedListenerHolds ==
  ASSUME NEW x \in Listeners, NEW a \in SupportedAnnotations
  PROVE  /\ UpdatedListener(x, a) \in Listeners /\ UpdatedListener(x, a) # None
         /\ ListenerSettled(UpdatedListener(x, a), a)
         /\ x = UpdatedListener(x, a) <=> ListenerSettled(x, a)
<1> DEFINE d == ListenerDescription(x.protocol, a)
<1>1. x.protocol \in Protocols /\ x # None
  BY ListenersAssumption DEF Listeners
<1>2. UpdatedListener(x, a) = [x EXCEPT !.desc = d, !.tls = a.tls]
  BY <1>1, EffectiveBackendHolds, ProtocolsRoundTrip DEF UpdatedListener
<1>3. d \in Descriptions
  BY <1>1, DescriptionsHold
<1>4. a.tls \in TlsRefs \cup {None}
  BY DEF SupportedAnnotations, AnnotationRecords
<1> DEFINE u == UpdatedListener(x, a)
<1>5. /\ u \in Listeners /\ u.protocol = x.protocol /\ u.desc = d /\ u.tls = a.tls
      /\ x = u <=> x.desc = d /\ x.tls = a.tls
  <2> HIDE DEF d, u
  <2>1. u = [x EXCEPT !.desc = d, !.tls = a.tls]
    BY <1>2 DEF u
  <2> QED  BY <2>1, <1>3, <1>4 DEF Listeners
<1>6. u # None
  BY <1>5, ListenersAssumption
<1> HIDE DEF u
<1>7. ListenerSettled(u, a)
  BY <1>5, <1>6 DEF ListenerSettled
<1>8. x = u <=> ListenerSettled(x, a)
  BY <1>1, <1>5 DEF ListenerSettled
<1> QED  BY <1>5, <1>6, <1>7, <1>8 DEF u

LEMMA NoneIsNotSettled == \A a : ~ListenerSettled(None, a)
BY DEF ListenerSettled

\* The listener that a pass asks for, of a port it has listed or not.
LEMMA AskedListenerHolds ==
  ASSUME Core, pass.pc = "port", NEW p \in Ports
  PROVE  /\ FoundListener(p) \in {None, Tree.listener[p]}
         /\ FoundListener(p) = None => AskedListener(p) = NewListener(pass.goal.ann)
         /\ FoundListener(p) # None => ListenerSettled(AskedListener(p), pass.goal.ann)
         /\ FoundListener(p) = AskedListener(p)
              => Tree.listener[p] = AskedListener(p) /\ p \in pass.old
         /\ FoundListener(p) # AskedListener(p) /\ FoundListener(p) # None
              => ~ListenerSettled(Tree.listener[p], pass.goal.ann)
         /\ AskedListener(p) \in Listeners /\ AskedListener(p) # None
         /\ ListenerServes(AskedListener(p), pass.goal.ann)
         /\ EffectiveBackend(FoundListener(p), pass.goal.ann) \in BackendProtocols
<1> DEFINE a == pass.goal.ann
           x == FoundListener(p)
<1>1. pass.pc \in Working /\ pass.pc \in EnsureSteps
  BY DEF Working, EnsureSteps
<1>2. a \in SupportedAnnotations /\ Tree \in Trees
  BY <1>1, InHand, GoalType
<1>3. x \in {None, Tree.listener[p]} /\ (x # None => p \in pass.old)
  BY DEF FoundListener
<1>4. x \in Listeners \cup {None}
  BY <1>2, <1>3 DEF Trees
<1>5. EffectiveBackend(x, a) \in BackendProtocols
  BY <1>2, <1>4, EffectiveBackendHolds
<1>6. CASE x = None
  <2>1. AskedListener(p) = NewListener(a)
    BY <1>6 DEF AskedListener
  <2>2. AskedListener(p) \in Listeners /\ AskedListener(p) # None
    BY <2>1, <1>2, NewListenerHolds
  <2>3. ListenerServes(AskedListener(p), a)
    BY <2>1 DEF ListenerServes
  <2> QED  BY <1>3, <1>5, <1>6, <2>1, <2>2, <2>3
<1>7. CASE x # None
  <2>1. AskedListener(p) = UpdatedListener(x, a)
    BY <1>7 DEF AskedListener
  <2>2. x \in Listeners /\ x = Tree.listener[p] /\ p \in pass.old
    BY <1>3, <1>4, <1>7
  <2>3. /\ AskedListener(p) \in Listeners /\ AskedListener(p) # None
        /\ ListenerSettled(AskedListener(p), a)
        /\ x = AskedListener(p) <=> ListenerSettled(x, a)
    BY <2>1, <2>2, <1>2, UpdatedListenerHolds
  <2>4. ListenerServes(AskedListener(p), a)
    BY <2>3 DEF ListenerServes
  <2> QED  BY <1>5, <1>7, <2>2, <2>3, <2>4
<1> QED  BY <1>6, <1>7

LEMMA ServesIsThere ==
  ASSUME NEW x, NEW s \in Specs, ListenerServes(x, s.ann)
  PROVE  x # None
BY NewListenerHolds, GoalType DEF ListenerServes, ListenerSettled

LEMMA NewPoolHolds ==
  ASSUME NEW s \in Specs, s = pass.goal, pass.backend \in BackendProtocols
  PROVE  NewPool \in Pools /\ NewPool # None
<1>1. PoolProtocolOf(pass.backend) \in Protocols /\ s.method \in Methods
  BY ProtocolsRoundTrip, GoalType
<1>2. NewPool \in Pools
  BY <1>1 DEF NewPool, Pools
<1> QED  BY <1>2, NoneAssumption

\* A pool that is updated keeps its protocol and serves; one that serves is not
\* updated.
LEMMA UpdatedPoolHolds ==
  ASSUME NEW x \in Pools, NEW s \in Specs
  PROVE  /\ UpdatedPool(x, s) \in Pools /\ UpdatedPool(x, s) # None
         /\ PoolServes(UpdatedPool(x, s), s)
         /\ x = UpdatedPool(x, s) <=> PoolServes(x, s)
<1> DEFINE d == PoolDescription(x.protocol, s.ann)
           u == UpdatedPool(x, s)
<1>1. x.protocol \in Protocols /\ x # None
  BY NoneAssumption DEF Pools
<1>2. d \in {"", "proxy"} /\ s.method \in Methods
  BY <1>1, DescriptionsHold, GoalType
<1>3. u = [x EXCEPT !.method = s.method, !.desc = d]
  BY DEF UpdatedPool
<1>4. /\ u \in Pools /\ u.protocol = x.protocol /\ u.method = s.method /\ u.desc = d
      /\ x = u <=> x.method = s.method /\ x.desc = d
  <2> HIDE DEF d, u
  <2> QED  BY <1>2, <1>3 DEF Pools
<1>5. u # None
  BY <1>4, NoneAssumption
<1> HIDE DEF u
<1> QED  BY <1>1, <1>4, <1>5 DEF PoolServes, u

LEMMA NewPoolInHand ==
  ASSUME Core, pass.pc = "pool"
  PROVE  pass.cur \in Ports /\ NewPool \in Pools /\ NewPool # None
<1>1. pass.pc \in Working /\ pass.pc \in EnsureSteps
  BY DEF Working, EnsureSteps
<1> QED  BY <1>1, InHand, NewPoolHolds DEF EnsureKnows

LEMMA PoolInHand ==
  ASSUME Core, pass.pc \in {"settings", "members", "add", "drop", "monitor"}
  PROVE  /\ pass.cur \in Ports /\ Tree.pool[pass.cur] \in Pools
         /\ Tree.pool[pass.cur] # None /\ pass.goal \in Specs
<1>1. pass.pc \in Working /\ pass.pc \in EnsureSteps
  BY DEF Working, EnsureSteps
<1> QED  BY <1>1, InHand DEF EnsureKnows, Trees

-----------------------------------------------------------------------------
\* A step that leaves the cloud alone.
LEMMA GotoStepKeepsCore ==
  ASSUME Core, pass.pc \in Working, NEW next, Ready(next, Tree), Goto(next)
  PROVE  Core'
<1>1. PassOK(next, tree) /\ next \in Passes
  BY DEF Core, PassOK, Ready, Tree
<1> QED
  BY <1>1, GotoKeepsCore

-----------------------------------------------------------------------------
(* Steps of EnsureLoadBalancer and EnsureLoadBalancerDeleted that read.    *)

LEMMA ListListenersKeepsCore ==
  ASSUME Core, ListListeners
  PROVE  Core'
<1> DEFINE next == [pass EXCEPT !.pc = "port", !.todo = pass.goal.ports,
                         !.old = {p \in Ports : Tree.listener[p] # None}]
<1>1. /\ pass.pc = "list" /\ pass.pc \in Working /\ ~pass.waiting
      /\ Goto(next)
  BY DEF ListListeners, At, Working, EnsureSteps, DeleteSteps
<1>2. /\ next \in Passes /\ next.pc = "port" /\ next.lb = pass.lb
      /\ next.goal = pass.goal /\ ~next.waiting
  BY <1>1, InHand, GoalType DEF Passes, EnsureSteps, DeleteSteps
<1> HIDE DEF next
<1>3. Ready(next, Tree)
  BY <1>1, <1>2, InHand DEF Ready, EnsureKnows, DeleteKnows, Working,
       EnsureSteps, DeleteSteps
<1> QED
  BY <1>1, <1>3, GotoStepKeepsCore

LEMMA ListMembersKeepsCore ==
  ASSUME Core, ListMembers
  PROVE  Core'
<1> DEFINE next == [pass EXCEPT !.pc = "add", !.left = pass.hosts,
                         !.stale = MembersOf(pass.cur)]
<1>1. /\ pass.pc = "members" /\ pass.pc \in Working /\ ~pass.waiting
      /\ Goto(next)
  BY DEF ListMembers, At, Working, EnsureSteps, DeleteSteps
<1>2. /\ next \in Passes /\ next.pc = "add" /\ next.lb = pass.lb
      /\ next.goal = pass.goal /\ ~next.waiting
      /\ next.cur = pass.cur
  BY <1>1, InHand DEF Passes, EnsureSteps, DeleteSteps, MembersOf
<1> HIDE DEF next
<1>3. Ready(next, Tree)
  BY <1>1, <1>2, InHand DEF Ready, EnsureKnows, DeleteKnows, Working,
       EnsureSteps, DeleteSteps
<1> QED
  BY <1>1, <1>3, GotoStepKeepsCore

LEMMA MembersEnsuredKeepsCore ==
  ASSUME Core, MembersEnsured
  PROVE  Core'
<1> DEFINE next == [pass EXCEPT !.pc = "drop"]
<1>1. /\ pass.pc = "add" /\ pass.pc \in Working /\ ~pass.waiting
      /\ Goto(next)
  BY DEF MembersEnsured, At, Working, EnsureSteps, DeleteSteps
<1>2. /\ next \in Passes /\ next.pc = "drop" /\ next.lb = pass.lb
      /\ next.goal = pass.goal /\ ~next.waiting
      /\ next.cur = pass.cur
  BY <1>1, InHand DEF Passes, EnsureSteps, DeleteSteps
<1> HIDE DEF next
<1>3. Ready(next, Tree)
  BY <1>1, <1>2, InHand DEF Ready, EnsureKnows, DeleteKnows, Working,
       EnsureSteps, DeleteSteps
<1> QED
  BY <1>1, <1>3, GotoStepKeepsCore

LEMMA MembersDroppedKeepsCore ==
  ASSUME Core, MembersDropped
  PROVE  Core'
<1> DEFINE next == [pass EXCEPT !.pc = "monitor"]
<1>1. /\ pass.pc = "drop" /\ pass.pc \in Working /\ ~pass.waiting
      /\ Goto(next)
  BY DEF MembersDropped, At, Working, EnsureSteps, DeleteSteps
<1>2. /\ next \in Passes /\ next.pc = "monitor" /\ next.lb = pass.lb
      /\ next.goal = pass.goal /\ ~next.waiting
      /\ next.cur = pass.cur
  BY <1>1, InHand DEF Passes, EnsureSteps, DeleteSteps
<1> HIDE DEF next
<1>3. Ready(next, Tree)
  BY <1>1, <1>2, InHand DEF Ready, EnsureKnows, DeleteKnows, Working,
       EnsureSteps, DeleteSteps
<1> QED
  BY <1>1, <1>3, GotoStepKeepsCore

LEMMA PortsEnsuredKeepsCore ==
  ASSUME Core, PortsEnsured
  PROVE  Core'
<1> DEFINE next == [pass EXCEPT !.pc = "obsolete"]
<1>1. /\ pass.pc = "port" /\ pass.pc \in Working /\ ~pass.waiting
      /\ Goto(next)
  BY DEF PortsEnsured, At, Working, EnsureSteps, DeleteSteps
<1>2. /\ next \in Passes /\ next.pc = "obsolete" /\ next.lb = pass.lb
      /\ next.goal = pass.goal /\ ~next.waiting
  BY <1>1, InHand DEF Passes, EnsureSteps, DeleteSteps
<1> HIDE DEF next
<1>3. Ready(next, Tree)
  BY <1>1, <1>2, InHand DEF Ready, EnsureKnows, DeleteKnows, Working,
       EnsureSteps, DeleteSteps
<1> QED
  BY <1>1, <1>3, GotoStepKeepsCore

LEMMA PickObsoleteKeepsCore ==
  ASSUME Core, NEW p \in Ports, PickObsolete(p)
  PROVE  Core'
<1> DEFINE next == [pass EXCEPT !.pc = "oldMonitor", !.cur = p]
<1>1. /\ pass.pc = "obsolete" /\ pass.pc \in Working /\ ~pass.waiting
      /\ Goto(next)
  BY DEF PickObsolete, At, Working, EnsureSteps, DeleteSteps
<1>2. /\ next \in Passes /\ next.pc = "oldMonitor" /\ next.lb = pass.lb
      /\ next.goal = pass.goal /\ ~next.waiting
      /\ next.cur = p
  BY <1>1, InHand DEF Passes, EnsureSteps, DeleteSteps
<1> HIDE DEF next
<1>3. Ready(next, Tree)
  BY <1>1, <1>2, InHand DEF Ready, EnsureKnows, DeleteKnows, Working,
       EnsureSteps, DeleteSteps
<1> QED
  BY <1>1, <1>3, GotoStepKeepsCore

LEMMA ListOldMembersKeepsCore ==
  ASSUME Core, ListOldMembers
  PROVE  Core'
<1> DEFINE next == [pass EXCEPT !.pc = "oldPool", !.stale = MembersOf(pass.cur)]
<1>1. /\ pass.pc = "oldMembers" /\ pass.pc \in Working /\ ~pass.waiting
      /\ Goto(next)
  BY DEF ListOldMembers, At, Working, EnsureSteps, DeleteSteps
<1>2. /\ next \in Passes /\ next.pc = "oldPool" /\ next.lb = pass.lb
      /\ next.goal = pass.goal /\ ~next.waiting
      /\ next.cur = pass.cur /\ next.stale = MembersOf(pass.cur)
  BY <1>1, InHand DEF Passes, EnsureSteps, DeleteSteps, MembersOf
<1> HIDE DEF next
<1>3. Ready(next, Tree)
  BY <1>1, <1>2, InHand DEF Ready, EnsureKnows, DeleteKnows, Working,
       EnsureSteps, DeleteSteps, MembersOf
<1> QED
  BY <1>1, <1>3, GotoStepKeepsCore

LEMMA ObsoleteDroppedKeepsCore ==
  ASSUME Core, ObsoleteDropped
  PROVE  Core'
<1> DEFINE next == [pass EXCEPT !.pc = "done"]
<1>1. /\ pass.pc = "obsolete" /\ pass.pc \in Working /\ ~pass.waiting
      /\ Goto(next)
  BY DEF ObsoleteDropped, At, Working, EnsureSteps, DeleteSteps
<1>2. /\ next \in Passes /\ next.pc = "done" /\ next.lb = pass.lb
      /\ next.goal = pass.goal /\ ~next.waiting
  BY <1>1, InHand DEF Passes, EnsureSteps, DeleteSteps
<1> HIDE DEF next
<1>3. Ready(next, Tree)
  BY <1>1, <1>2, InHand DEF Ready, EnsureKnows, DeleteKnows, Working,
       EnsureSteps, DeleteSteps
<1> QED
  BY <1>1, <1>3, GotoStepKeepsCore

LEMMA MonitorsDeletedKeepsCore ==
  ASSUME Core, MonitorsDeleted
  PROVE  Core'
<1> DEFINE next == [pass EXCEPT !.pc = "dPools"]
<1>1. /\ pass.pc = "dMonitors" /\ pass.pc \in Working /\ ~pass.waiting
      /\ Goto(next)
      /\ pass.mons = {}
  BY DEF MonitorsDeleted, At, Working, EnsureSteps, DeleteSteps
<1>2. /\ next \in Passes /\ next.pc = "dPools" /\ next.lb = pass.lb
      /\ next.goal = pass.goal /\ ~next.waiting
      /\ next.old = pass.old /\ next.todo = pass.todo
  BY <1>1, InHand DEF Passes, EnsureSteps, DeleteSteps
<1> HIDE DEF next
<1>3. Ready(next, Tree)
  BY <1>1, <1>2, InHand DEF Ready, EnsureKnows, DeleteKnows, Working,
       EnsureSteps, DeleteSteps
<1> QED
  BY <1>1, <1>3, GotoStepKeepsCore

LEMMA PickPoolKeepsCore ==
  ASSUME Core, NEW p \in Ports, PickPool(p)
  PROVE  Core'
<1> DEFINE next == [pass EXCEPT !.pc = "dMembers", !.cur = p, !.stale = MembersOf(p)]
<1>1. /\ pass.pc = "dPools" /\ pass.pc \in Working /\ ~pass.waiting
      /\ Goto(next)
  BY DEF PickPool, At, Working, EnsureSteps, DeleteSteps
<1>2. /\ next \in Passes /\ next.pc = "dMembers" /\ next.lb = pass.lb
      /\ next.goal = pass.goal /\ ~next.waiting
      /\ next.cur = p /\ next.stale = MembersOf(p)
      /\ next.old = pass.old /\ next.todo = pass.todo
  BY <1>1, InHand DEF Passes, EnsureSteps, DeleteSteps, MembersOf
<1> HIDE DEF next
<1>3. Ready(next, Tree)
  BY <1>1, <1>2, InHand DEF Ready, EnsureKnows, DeleteKnows, Working,
       EnsureSteps, DeleteSteps, MembersOf
<1> QED
  BY <1>1, <1>3, GotoStepKeepsCore

LEMMA PoolsDeletedKeepsCore ==
  ASSUME Core, PoolsDeleted
  PROVE  Core'
<1> DEFINE next == [pass EXCEPT !.pc = "dListeners"]
<1>1. /\ pass.pc = "dPools" /\ pass.pc \in Working /\ ~pass.waiting
      /\ Goto(next)
      /\ pass.todo = {}
  BY DEF PoolsDeleted, At, Working, EnsureSteps, DeleteSteps
<1>2. /\ next \in Passes /\ next.pc = "dListeners" /\ next.lb = pass.lb
      /\ next.goal = pass.goal /\ ~next.waiting
      /\ next.old = pass.old
  BY <1>1, InHand DEF Passes, EnsureSteps, DeleteSteps
<1> HIDE DEF next
<1>3. Ready(next, Tree)
  BY <1>1, <1>2, InHand DEF Ready, EnsureKnows, DeleteKnows, Working,
       EnsureSteps, DeleteSteps
<1> QED
  BY <1>1, <1>3, GotoStepKeepsCore

\* The three listings cover everything there is, by Shape.
LEMMA ListForDeleteKeepsCore ==
  ASSUME Core, ListForDelete
  PROVE  Core'
<1> DEFINE ls == {p \in Ports : Tree.listener[p] # None}
           ps == {p \in ls : Tree.pool[p] # None}
           next == [pass EXCEPT !.pc = "dMonitors", !.old = ls, !.todo = ps,
                                !.mons = ps \cap Tree.monitor]
<1>1. /\ pass.pc = "snapshot" /\ pass.pc \in Working /\ ~pass.waiting
      /\ Goto(next)
  BY DEF ListForDelete, At, Working, DeleteSteps
<1>2. /\ next \in Passes /\ next.pc = "dMonitors" /\ next.lb = pass.lb
      /\ next.goal = pass.goal /\ ~next.waiting
      /\ next.old = ls /\ next.todo = ps /\ next.mons = ps \cap Tree.monitor
  BY <1>1, InHand DEF Passes, DeleteSteps
<1> HIDE DEF next
<1>3. \A q \in Ports : Tree.pool[q] # None => q \in ps
  BY <1>1, InHand DEF Shape
<1>4. Tree.monitor \subseteq ps \cap Tree.monitor
  BY <1>1, <1>3, InHand DEF Shape, Trees
<1>5. Ready(next, Tree)
  BY <1>1, <1>2, <1>3, <1>4, InHand DEF Ready, EnsureKnows, DeleteKnows,
       Working, EnsureSteps, DeleteSteps
<1> QED
  BY <1>1, <1>5, GotoStepKeepsCore

\* Nothing is left when every listing is used up.
LEMMA ListenersDeletedKeepsCore ==
  ASSUME Core, ListenersDeleted
  PROVE  Core'
<1> DEFINE next == [pass EXCEPT !.pc = "dLB"]
<1>1. /\ pass.pc = "dListeners" /\ pass.pc \in Working /\ ~pass.waiting
      /\ Goto(next) /\ pass.old = {}
  BY DEF ListenersDeleted, At, Working, DeleteSteps
<1>2. /\ next \in Passes /\ next.pc = "dLB" /\ next.lb = pass.lb
      /\ next.goal = pass.goal /\ ~next.waiting
  BY <1>1, InHand DEF Passes, DeleteSteps
<1> HIDE DEF next
<1>3. /\ \A q \in Ports : Tree.listener[q] = None /\ Tree.pool[q] = None
      /\ Tree.monitor = {}
  BY <1>1, InHand DEF DeleteKnows
<1>4. Tree.member = {}
  BY <1>1, <1>3, InHand DEF Shape, Trees
<1>5. Tree = EmptyTree
  <2>1. Tree \in Trees
    BY <1>1, InHand
  <2>2. /\ Tree.listener = [p \in Ports |-> None]
        /\ Tree.pool = [p \in Ports |-> None]
    BY <2>1, <1>3 DEF Trees
  <2> QED
    BY <2>1, <2>2, <1>3, <1>4 DEF Trees, EmptyTree
<1>6. Ready(next, Tree)
  BY <1>1, <1>2, <1>5 DEF Ready, EnsureKnows, DeleteKnows, Working,
       EnsureSteps, DeleteSteps
<1> QED
  BY <1>1, <1>6, GotoStepKeepsCore

-----------------------------------------------------------------------------
(* Steps that call the API.                                                *)

LEMMA EnsureListenerKeepsCore ==
  ASSUME Core, NEW p \in Ports, EnsureListener(p)
  PROVE  Core'
<1> DEFINE next == WithListener(p)
           t == [Tree EXCEPT !.listener[p] = AskedListener(p)]
<1>1. /\ pass.pc = "port" /\ pass.pc \in Working /\ pass.pc \in EnsureSteps
      /\ ~pass.waiting
  BY DEF EnsureListener, At, Working, EnsureSteps
<1>2. /\ AskedListener(p) \in Listeners /\ AskedListener(p) # None
      /\ EffectiveBackend(FoundListener(p), pass.goal.ann) \in BackendProtocols
      /\ FoundListener(p) = AskedListener(p) => Tree.listener[p] # None
  BY <1>1, AskedListenerHolds
<1>3. /\ next \in Passes /\ next.pc = "pool" /\ next.lb = pass.lb
      /\ next.goal = pass.goal /\ ~next.waiting /\ next.cur = p
      /\ next.backend \in BackendProtocols
  BY <1>1, <1>2, InHand DEF Passes, EnsureSteps, WithListener
<1>4. t \in Trees /\ Shape(t) /\ t.listener[p] # None
  BY <1>1, <1>2, InHand DEF Trees, Shape
<1>5. \/ Goto(next) /\ Tree.listener[p] # None
      \/ Call(t, next)
  BY <1>2 DEF EnsureListener
<1> HIDE DEF next, t
<1>6. ASSUME NEW u, u.listener[p] # None PROVE Ready(next, u)
  BY <1>1, <1>3, <1>6, InHand DEF Ready, EnsureKnows, DeleteKnows, EnsureSteps
<1>7. next.pc \in Working
  BY <1>3 DEF Working, EnsureSteps
<1> QED
  BY <1>1, <1>4, <1>5, <1>6, <1>7, GotoStepKeepsCore, CallStepKeepsCore

LEMMA EnsurePoolKeepsCore ==
  ASSUME Core, EnsurePool
  PROVE  Core'
<1> DEFINE next == [pass EXCEPT !.pc = "settings", !.backend = None]
           t == [Tree EXCEPT !.pool[pass.cur] = NewPool]
<1>1. /\ pass.pc = "pool" /\ pass.pc \in Working /\ pass.pc \in EnsureSteps
      /\ ~pass.waiting
  BY DEF EnsurePool, At, Working, EnsureSteps
<1>2. /\ pass.cur \in Ports /\ Tree.listener[pass.cur] # None
      /\ pass.backend \in BackendProtocols
  BY <1>1, InHand DEF EnsureKnows
<1>3. NewPool \in Pools /\ NewPool # None
  BY <1>1, <1>2, InHand, NewPoolHolds
<1>4. /\ next \in Passes /\ next.pc = "settings" /\ next.lb = pass.lb
      /\ next.goal = pass.goal /\ ~next.waiting /\ next.cur = pass.cur
  BY <1>1, InHand DEF Passes, EnsureSteps
<1>5. \/ pass' = Idle /\ UNCHANGED cloud
      \/ Goto(next) /\ Tree.pool[pass.cur] # None
      \/ Call(t, next)
  BY DEF EnsurePool, Fail
<1>6. t \in Trees /\ Shape(t) /\ t.pool[pass.cur] # None
  BY <1>1, <1>2, <1>3, InHand DEF Trees, Shape
<1> HIDE DEF next, t
<1>7. ASSUME NEW u, u.pool[pass.cur] # None PROVE Ready(next, u)
  BY <1>1, <1>2, <1>4, <1>7, InHand
     DEF Ready, EnsureKnows, DeleteKnows, EnsureSteps
<1>8. next.pc \in Working
  BY <1>4 DEF Working, EnsureSteps
<1>9. CASE pass' = Idle /\ UNCHANGED cloud
  BY <1>9, StopKeepsCore DEF Stopped
<1> QED
  BY <1>1, <1>5, <1>6, <1>7, <1>8, <1>9, GotoStepKeepsCore, CallStepKeepsCore

LEMMA UpdatePoolKeepsCore ==
  ASSUME Core, UpdatePool
  PROVE  Core'
<1> DEFINE next == [pass EXCEPT !.pc = "members"]
           new == UpdatedPool(Tree.pool[pass.cur], pass.goal)
           t == [Tree EXCEPT !.pool[pass.cur] = new]
<1>1. /\ pass.pc = "settings" /\ pass.pc \in Working /\ pass.pc \in EnsureSteps
      /\ ~pass.waiting
  BY DEF UpdatePool, At, Working, EnsureSteps
<1>2. pass.cur \in Ports /\ Tree.pool[pass.cur] # None
  BY <1>1, InHand DEF EnsureKnows
<1>3. new \in Pools /\ new # None
  BY <1>1, PoolInHand, UpdatedPoolHolds
<1>4. /\ next \in Passes /\ next.pc = "members" /\ next.lb = pass.lb
      /\ next.goal = pass.goal /\ ~next.waiting /\ next.cur = pass.cur
  BY <1>1, InHand DEF Passes, EnsureSteps
<1>5. Goto(next) \/ CallOutcome(t, next)
  BY DEF UpdatePool, CallElse, CallOutcome, Panic, Stopped
<1> HIDE DEF new
<1>6. t \in Trees /\ Shape(t) /\ t.pool[pass.cur] # None
  BY <1>1, <1>2, <1>3, InHand DEF Trees, Shape
<1> HIDE DEF next, t
<1>7. ASSUME NEW u, u.pool[pass.cur] # None PROVE Ready(next, u)
  BY <1>1, <1>2, <1>4, <1>7, InHand
     DEF Ready, EnsureKnows, DeleteKnows, EnsureSteps
<1> QED
  BY <1>1, <1>2, <1>5, <1>6, <1>7, GotoStepKeepsCore, CallKeepsCore

LEMMA EnsureMemberKeepsCore ==
  ASSUME Core, NEW n \in Nodes, EnsureMember(n)
  PROVE  Core'
<1> DEFINE b == <<n, pass.goal.np>>
           next == [pass EXCEPT !.left = @ \ {n}]
           popped == [next EXCEPT !.stale = @ \ {b}]
           t == [Tree EXCEPT !.member = @ \cup {<<pass.cur, b>>}]
<1>1. /\ pass.pc = "add" /\ pass.pc \in Working /\ pass.pc \in EnsureSteps
      /\ ~pass.waiting
  BY DEF EnsureMember, At, Working, EnsureSteps
<1>2. pass.cur \in Ports /\ Tree.pool[pass.cur] # None
  BY <1>1, InHand DEF EnsureKnows
<1>3. b \in Backends
  BY <1>1, InHand, GoalType DEF Backends
<1>4. /\ next \in Passes /\ next.pc = "add" /\ next.lb = pass.lb
      /\ next.goal = pass.goal /\ ~next.waiting /\ next.cur = pass.cur
  BY <1>1, InHand DEF Passes
<1>5. \/ pass' = Idle /\ UNCHANGED cloud
      \/ Goto(popped)
      \/ Call(t, next)
  BY DEF EnsureMember, Fail
<1> HIDE DEF b
<1>6. t \in Trees /\ Shape(t) /\ t.pool[pass.cur] # None
  BY <1>1, <1>2, <1>3, InHand DEF Trees, Shape
<1> HIDE DEF next, t
<1>7. /\ popped \in Passes /\ popped.pc = "add" /\ popped.lb = pass.lb
      /\ popped.goal = pass.goal /\ ~popped.waiting /\ popped.cur = pass.cur
  BY <1>4 DEF Passes
<1> HIDE DEF popped
<1>8. Ready(popped, Tree)
  BY <1>1, <1>2, <1>7, InHand
     DEF Ready, EnsureKnows, DeleteKnows, EnsureSteps
<1>9. Ready(next, t) /\ next.pc \in Working
  BY <1>1, <1>2, <1>4, <1>6, InHand
     DEF Ready, EnsureKnows, DeleteKnows, EnsureSteps
<1>10. CASE pass' = Idle /\ UNCHANGED cloud
  BY <1>10, StopKeepsCore DEF Stopped
<1> QED
  BY <1>1, <1>5, <1>6, <1>8, <1>9, <1>10, GotoStepKeepsCore, CallStepKeepsCore

\* A member is deleted at three places, with the same consequences.
LEMMA DeleteMemberKeepsCore ==
  ASSUME Core, ~pass.waiting, pass.pc \in {"drop", "oldPool", "dMembers"},
         NEW b, DeleteMember(b)
  PROVE  Core'
<1> DEFINE next == [pass EXCEPT !.stale = @ \ {b}]
           t == [Tree EXCEPT !.member = @ \ {<<pass.cur, b>>}]
<1>1. pass.pc \in Working
  BY DEF Working, EnsureSteps, DeleteSteps
<1>2. pass.cur \in Ports
  BY <1>1, InHand DEF EnsureKnows, DeleteKnows
<1>3. /\ next \in Passes /\ next.pc = pass.pc /\ next.lb = pass.lb
      /\ next.goal = pass.goal /\ ~next.waiting /\ next.cur = pass.cur
      /\ next.old = pass.old /\ next.todo = pass.todo
      /\ next.mons = pass.mons /\ next.stale = pass.stale \ {b}
  BY <1>1, InHand DEF Passes
<1>4. /\ t \in Trees /\ Shape(t)
      /\ t.listener = Tree.listener /\ t.pool = Tree.pool
      /\ t.monitor = Tree.monitor
      /\ t.member = Tree.member \ {<<pass.cur, b>>}
  BY <1>1, InHand DEF Trees, Shape
<1>5. Call(t, next)
  BY DEF DeleteMember
<1> HIDE DEF next, t
<1>6. ASSUME NEW c \in Backends, <<pass.cur, c>> \in t.member,
             pass.pc \in {"oldPool", "dMembers"}
      PROVE  c \in next.stale
  <2>1. c \in pass.stale
    BY <1>1, <1>4, <1>6, InHand DEF EnsureKnows, DeleteKnows
  <2>2. c # b
    BY <1>4, <1>6
  <2> QED
    BY <1>3, <2>1, <2>2
<1>7. EnsureKnows(next, t)
  BY <1>1, <1>2, <1>3, <1>4, <1>6, InHand DEF EnsureKnows
<1>8. DeleteKnows(next, t)
  BY <1>1, <1>2, <1>3, <1>4, <1>6, InHand DEF DeleteKnows
<1>9. Ready(next, t) /\ next.pc \in Working
  BY <1>1, <1>3, <1>7, <1>8, InHand DEF Ready
<1> QED
  BY <1>1, <1>4, <1>5, <1>9, CallStepKeepsCore

LEMMA EnsureMonitorKeepsCore ==
  ASSUME Core, EnsureMonitor
  PROVE  Core'
<1> DEFINE next == [pass EXCEPT !.pc = "port", !.cur = None]
           t == [Tree EXCEPT !.monitor = @ \cup {pass.cur}]
<1>1. /\ pass.pc = "monitor" /\ pass.pc \in Working /\ pass.pc \in EnsureSteps
      /\ ~pass.waiting
  BY DEF EnsureMonitor, At, Working, EnsureSteps
<1>2. pass.cur \in Ports /\ Tree.pool[pass.cur] # None
  BY <1>1, InHand DEF EnsureKnows
<1>3. /\ next \in Passes /\ next.pc = "port" /\ next.lb = pass.lb
      /\ next.goal = pass.goal /\ ~next.waiting
  BY <1>1, InHand DEF Passes, EnsureSteps
<1>4. \/ pass' = Idle /\ UNCHANGED cloud
      \/ Goto(next)
      \/ Call(t, next)
  BY DEF EnsureMonitor, Fail
<1>5. t \in Trees /\ Shape(t)
  BY <1>1, <1>2, InHand DEF Trees, Shape
<1> HIDE DEF next, t
<1>6. ASSUME NEW u PROVE Ready(next, u)
  BY <1>1, <1>3, InHand DEF Ready, EnsureKnows, DeleteKnows, EnsureSteps
<1>7. next.pc \in Working
  BY <1>3 DEF Working, EnsureSteps
<1>8. CASE pass' = Idle /\ UNCHANGED cloud
  BY <1>8, StopKeepsCore DEF Stopped
<1> QED
  BY <1>1, <1>4, <1>5, <1>6, <1>7, <1>8, GotoStepKeepsCore, CallStepKeepsCore

LEMMA DropOldMonitorKeepsCore ==
  ASSUME Core, DropOldMonitor
  PROVE  Core'
<1> DEFINE bare == [pass EXCEPT !.pc = "oldListener"]
           next == [pass EXCEPT !.pc = "oldMembers"]
           t == [Tree EXCEPT !.monitor = @ \ {pass.cur}]
<1>1. /\ pass.pc = "oldMonitor" /\ pass.pc \in Working
      /\ pass.pc \in EnsureSteps /\ ~pass.waiting
  BY DEF DropOldMonitor, At, Working, EnsureSteps
<1>2. pass.cur \in Ports
  BY <1>1, InHand DEF EnsureKnows
<1>3. /\ next \in Passes /\ next.pc = "oldMembers" /\ next.lb = pass.lb
      /\ next.goal = pass.goal /\ ~next.waiting /\ next.cur = pass.cur
  BY <1>1, InHand DEF Passes, EnsureSteps
<1>4. /\ bare \in Passes /\ bare.pc = "oldListener" /\ bare.lb = pass.lb
      /\ bare.goal = pass.goal /\ ~bare.waiting /\ bare.cur = pass.cur
  BY <1>1, InHand DEF Passes, EnsureSteps
<1>5. \/ Goto(bare) /\ Tree.pool[pass.cur] = None
      \/ Goto(next) /\ pass.cur \notin Tree.monitor
      \/ Call(t, next)
  BY DEF DropOldMonitor
<1>6. t \in Trees /\ Shape(t) /\ pass.cur \notin t.monitor
  BY <1>1, InHand DEF Trees, Shape
<1> HIDE DEF bare, next, t
<1>7. ASSUME Tree.pool[pass.cur] = None PROVE Ready(bare, Tree)
  BY <1>1, <1>2, <1>4, <1>7, InHand
     DEF Ready, EnsureKnows, DeleteKnows, EnsureSteps
<1>8. ASSUME NEW u, pass.cur \notin u.monitor PROVE Ready(next, u)
  BY <1>1, <1>2, <1>3, <1>8, InHand
     DEF Ready, EnsureKnows, DeleteKnows, EnsureSteps
<1>9. next.pc \in Working
  BY <1>3 DEF Working, EnsureSteps
<1> QED
  BY <1>1, <1>5, <1>6, <1>7, <1>8, <1>9, GotoStepKeepsCore, CallStepKeepsCore

\* A pool goes once its monitor and all the members that were listed are gone.
LEMMA DropPoolShape ==
  ASSUME NEW t \in Trees, Shape(t), NEW q \in Ports, q \notin t.monitor,
         \A b \in Backends : <<q, b>> \notin t.member
  PROVE  /\ [t EXCEPT !.pool[q] = None] \in Trees
         /\ Shape([t EXCEPT !.pool[q] = None])
<1> DEFINE u == [t EXCEPT !.pool[q] = None]
<1>1. u \in Trees
  BY DEF Trees
<1>2. \A m \in t.member : m[1] # q
  BY DEF Trees
<1>3. \A m \in u.member : u.pool[m[1]] # None
  BY <1>2 DEF Trees, Shape
<1>4. \A p \in u.monitor : u.pool[p] # None
  BY DEF Trees, Shape
<1>5. \A p \in Ports : u.pool[p] # None => u.listener[p] # None
  BY DEF Trees, Shape
<1> QED
  BY <1>1, <1>3, <1>4, <1>5 DEF Shape

LEMMA DropOldPoolKeepsCore ==
  ASSUME Core, DropOldPool
  PROVE  Core'
<1> DEFINE next == [pass EXCEPT !.pc = "oldListener"]
           t == [Tree EXCEPT !.pool[pass.cur] = None]
<1>1. /\ pass.pc = "oldPool" /\ pass.pc \in Working /\ pass.pc \in EnsureSteps
      /\ ~pass.waiting /\ pass.stale = {}
  BY DEF DropOldPool, At, Working, EnsureSteps
<1>2. /\ pass.cur \in Ports /\ pass.cur \notin Tree.monitor
      /\ \A b \in Backends : <<pass.cur, b>> \notin Tree.member
  BY <1>1, InHand DEF EnsureKnows
<1>3. /\ next \in Passes /\ next.pc = "oldListener" /\ next.lb = pass.lb
      /\ next.goal = pass.goal /\ ~next.waiting /\ next.cur = pass.cur
  BY <1>1, InHand DEF Passes, EnsureSteps
<1>4. t \in Trees /\ Shape(t)
  BY <1>1, <1>2, InHand, DropPoolShape
<1>5. t.pool[pass.cur] = None
  BY <1>1, <1>2, InHand DEF Trees
<1>6. Call(t, next)
  BY DEF DropOldPool
<1> HIDE DEF next, t
<1>7. Ready(next, t) /\ next.pc \in Working
  BY <1>1, <1>2, <1>3, <1>5, InHand
     DEF Ready, EnsureKnows, DeleteKnows, EnsureSteps, Working
<1> QED
  BY <1>1, <1>4, <1>6, <1>7, CallStepKeepsCore

LEMMA DropOldListenerKeepsCore ==
  ASSUME Core, DropOldListener
  PROVE  Core'
<1> DEFINE next == [pass EXCEPT !.pc = "obsolete", !.old = @ \ {pass.cur},
                                !.cur = None]
           t == [Tree EXCEPT !.listener[pass.cur] = None]
<1>1. /\ pass.pc = "oldListener" /\ pass.pc \in Working
      /\ pass.pc \in EnsureSteps /\ ~pass.waiting
  BY DEF DropOldListener, At, Working, EnsureSteps
<1>2. pass.cur \in Ports /\ Tree.pool[pass.cur] = None
  BY <1>1, InHand DEF EnsureKnows
<1>3. /\ next \in Passes /\ next.pc = "obsolete" /\ next.lb = pass.lb
      /\ next.goal = pass.goal /\ ~next.waiting
  BY <1>1, InHand DEF Passes, EnsureSteps
<1>4. t \in Trees /\ Shape(t)
  BY <1>1, <1>2, InHand DEF Trees, Shape
<1>5. Call(t, next)
  BY DEF DropOldListener
<1> HIDE DEF next, t
<1>6. Ready(next, t) /\ next.pc \in Working
  BY <1>1, <1>3, InHand
     DEF Ready, EnsureKnows, DeleteKnows, EnsureSteps, Working
<1> QED
  BY <1>1, <1>4, <1>5, <1>6, CallStepKeepsCore

LEMMA DeleteMonitorKeepsCore ==
  ASSUME Core, NEW p \in Ports, DeleteMonitor(p)
  PROVE  Core'
<1> DEFINE next == [pass EXCEPT !.mons = @ \ {p}]
           t == [Tree EXCEPT !.monitor = @ \ {p}]
<1>1. /\ pass.pc = "dMonitors" /\ pass.pc \in Working /\ ~pass.waiting
      /\ Call(t, next)
  BY DEF DeleteMonitor, At, Working, DeleteSteps
<1>2. /\ next \in Passes /\ next.pc = "dMonitors" /\ next.lb = pass.lb
      /\ next.goal = pass.goal /\ ~next.waiting /\ next.old = pass.old
      /\ next.todo = pass.todo /\ next.mons = pass.mons \ {p}
  BY <1>1, InHand DEF Passes
<1>3. /\ t \in Trees /\ Shape(t) /\ t.listener = Tree.listener
      /\ t.pool = Tree.pool /\ t.monitor = Tree.monitor \ {p}
  BY <1>1, InHand DEF Trees, Shape
<1> HIDE DEF next, t
<1>4. Ready(next, t) /\ next.pc \in Working
  BY <1>1, <1>2, <1>3, InHand
     DEF Ready, EnsureKnows, DeleteKnows, EnsureSteps, DeleteSteps, Working
<1> QED
  BY <1>1, <1>3, <1>4, CallStepKeepsCore

LEMMA DeletePoolKeepsCore ==
  ASSUME Core, DeletePool
  PROVE  Core'
<1> DEFINE next == [pass EXCEPT !.pc = "dPools", !.todo = @ \ {pass.cur},
                                !.cur = None]
           t == [Tree EXCEPT !.pool[pass.cur] = None]
<1>1. /\ pass.pc = "dMembers" /\ pass.pc \in Working /\ ~pass.waiting
      /\ pass.stale = {} /\ Call(t, next)
  BY DEF DeletePool, At, Working, DeleteSteps
<1>2. /\ pass.cur \in Ports /\ Tree.monitor = {}
      /\ \A b \in Backends : <<pass.cur, b>> \notin Tree.member
  BY <1>1, InHand DEF DeleteKnows
<1>3. /\ next \in Passes /\ next.pc = "dPools" /\ next.lb = pass.lb
      /\ next.goal = pass.goal /\ ~next.waiting /\ next.old = pass.old
      /\ next.todo = pass.todo \ {pass.cur}
  BY <1>1, InHand DEF Passes, DeleteSteps
<1>4. t \in Trees /\ Shape(t)
  BY <1>1, <1>2, InHand, DropPoolShape
<1>5. /\ t.listener = Tree.listener /\ t.monitor = {}
      /\ \A q \in Ports : t.pool[q] # None =>
           q # pass.cur /\ Tree.pool[q] # None
  BY <1>1, <1>2, InHand DEF Trees
<1> HIDE DEF next, t
<1>6. Ready(next, t) /\ next.pc \in Working
  BY <1>1, <1>3, <1>5, InHand
     DEF Ready, EnsureKnows, DeleteKnows, EnsureSteps, DeleteSteps, Working
<1> QED
  BY <1>1, <1>4, <1>6, CallStepKeepsCore

LEMMA DeleteListenerKeepsCore ==
  ASSUME Core, NEW p \in Ports, DeleteListener(p)
  PROVE  Core'
<1> DEFINE next == [pass EXCEPT !.old = @ \ {p}]
           t == [Tree EXCEPT !.listener[p] = None]
<1>1. /\ pass.pc = "dListeners" /\ pass.pc \in Working /\ ~pass.waiting
      /\ Call(t, next)
  BY DEF DeleteListener, At, Working, DeleteSteps
<1>2. /\ next \in Passes /\ next.pc = "dListeners" /\ next.lb = pass.lb
      /\ next.goal = pass.goal /\ ~next.waiting /\ next.old = pass.old \ {p}
  BY <1>1, InHand DEF Passes
<1>3. /\ \A q \in Ports : Tree.pool[q] = None
      /\ Tree.monitor = {}
      /\ \A q \in Ports : Tree.listener[q] # None => q \in pass.old
  BY <1>1, InHand DEF DeleteKnows
<1>4. /\ t \in Trees /\ Shape(t) /\ t.pool = Tree.pool
      /\ t.monitor = Tree.monitor
      /\ \A q \in Ports : t.listener[q] # None =>
           q # p /\ Tree.listener[q] # None
  BY <1>1, <1>3, InHand DEF Trees, Shape
<1> HIDE DEF next, t
<1>5. Ready(next, t) /\ next.pc \in Working
  BY <1>1, <1>2, <1>3, <1>4, InHand
     DEF Ready, EnsureKnows, DeleteKnows, EnsureSteps, DeleteSteps, Working
<1> QED
  BY <1>1, <1>4, <1>5, CallStepKeepsCore

LEMMA CreateLoadBalancerKeepsCore ==
  ASSUME Core, CreateLoadBalancer
  PROVE  Core'
<1>1. CASE UNCHANGED cloud /\ pass' = Idle
  BY <1>1, StopKeepsCore DEF Stopped
<1>2. ASSUME NEW l \in LBs,
             status[l] = "DELETED",
             status' = [status EXCEPT ![l] = "PENDING_CREATE"],
             tree' = [tree EXCEPT ![l] = EmptyTree],
             \/ pass' = Idle
             \/ pass' = [pass EXCEPT !.pc = "list", !.lb = l, !.waiting = TRUE]
      PROVE  Core'
  <2>1. tree' \in [LBs -> Trees] /\ status' \in [LBs -> Statuses]
    BY <1>2, EmptyTreeType DEF Core, Statuses
  <2>2. \A k \in LBs : Shape(tree'[k])
    BY <1>2, EmptyTreeType DEF Core
  <2>3. \A k \in LBs : ~Valid(status'[k]) => tree'[k] = EmptyTree
    BY <1>2 DEF Core, Valid
  <2>4. CASE pass' = Idle
    <3>1. pass' \in Passes /\ pass'.pc \in {"idle", "down"} /\ ~pass'.waiting
      BY <2>4, StoppedType DEF Stopped
    <3>2. PassOK(pass', tree')
      BY <3>1 DEF PassOK, Working, EnsureSteps, DeleteSteps
    <3> QED
      BY <2>1, <2>2, <2>3, <3>1, <3>2 DEF Core
  <2>5. CASE pass' = [pass EXCEPT !.pc = "list", !.lb = l, !.waiting = TRUE]
    <3> DEFINE next == [pass EXCEPT !.pc = "list", !.lb = l, !.waiting = TRUE]
    <3>1. pass \in Passes /\ pass.goal \in Specs
      BY DEF Core, CreateLoadBalancer, At, PassOK, EnsureSteps
    <3>2. /\ next \in Passes /\ next.pc = "list" /\ next.lb = l
          /\ next.goal = pass.goal
      BY <3>1 DEF Passes, EnsureSteps
    <3> HIDE DEF next
    <3>3. PassOK(next, tree')
      BY <3>1, <3>2 DEF PassOK, EnsureKnows, DeleteKnows, EnsureSteps,
                        DeleteSteps, Working
    <3> QED
      BY <2>1, <2>2, <2>3, <2>5, <3>2, <3>3 DEF Core, next
  <2> QED
    BY <1>2, <2>4, <2>5
<1> QED
  BY <1>1, <1>2 DEF CreateLoadBalancer, Fail

LEMMA DeleteLoadBalancerKeepsCore ==
  ASSUME Core, DeleteLoadBalancer
  PROVE  Core'
<1> DEFINE next == [pass EXCEPT !.pc = "gone"]
<1>1. pass.pc = "dLB" /\ pass.pc \in Working /\ ~pass.waiting
  BY DEF DeleteLoadBalancer, At, Working, DeleteSteps
<1>2. CASE UNCHANGED cloud /\ pass' = Idle
  BY <1>2, StopKeepsCore DEF Stopped
<1>3. CASE /\ status' = [status EXCEPT ![pass.lb] = "PENDING_DELETE"]
           /\ UNCHANGED tree
           /\ pass' = next \/ pass' = Idle
  <2>1. status' \in [LBs -> Statuses]
    BY <1>3 DEF Core, Statuses
  <2>2. tree[pass.lb] = EmptyTree
    BY <1>1, InHand DEF DeleteKnows, Tree
  <2>3. \A l \in LBs : ~Valid(status'[l]) => tree'[l] = EmptyTree
    BY <1>3, <2>2 DEF Core, Valid
  <2>4. pass' \in Passes /\ PassOK(pass', tree)
    <3>1. CASE pass' = Idle
      <4>1. pass' \in Passes /\ pass'.pc \in {"idle", "down"} /\ ~pass'.waiting
        BY <3>1, StoppedType DEF Stopped
      <4> QED
        BY <4>1 DEF PassOK, Working, EnsureSteps, DeleteSteps
    <3>2. CASE pass' = next
      <4>1. /\ next \in Passes /\ next.pc = "gone" /\ next.lb = pass.lb
            /\ ~next.waiting
        BY <1>1, InHand DEF Passes, DeleteSteps
      <4> HIDE DEF next
      <4>2. PassOK(next, tree)
        BY <1>1, <4>1, InHand DEF PassOK, EnsureKnows, DeleteKnows, EnsureSteps,
                                  DeleteSteps, Working
      <4> QED
        BY <3>2, <4>1, <4>2
    <3> QED
      BY <1>3, <3>1, <3>2
  <2> QED
    BY <1>3, <2>1, <2>3, <2>4 DEF Core
<1> QED
  BY <1>2, <1>3 DEF DeleteLoadBalancer, Fail

-----------------------------------------------------------------------------
(* The steps outside a pass with a load balancer in hand.                  *)

\* A step that begins a pass, or looks the load balancer up in vain.
LEMMA OutsideKeepsCore ==
  ASSUME Core, UNCHANGED cloud, pass' \in Passes, ~pass'.waiting,
         pass'.pc \in {"idle", "lookup", "create", "down"},
         pass'.pc = "create" => pass'.goal \in Specs
  PROVE  Core'
<1>1. PassOK(pass', tree)
  BY DEF PassOK, Working, EnsureSteps, DeleteSteps
<1> QED
  BY <1>1, LocalKeepsCore

LEMMA BeginEnsureKeepsCore ==
  ASSUME Core, Rest, NEW hosts \in HostSets,
         BeginEnsure(hosts) \/ EnsureRejected(hosts)
  PROVE  Core'
<1>1. CASE BeginEnsure(hosts)
  <2>1. want \in Specs
    BY <1>1 DEF BeginEnsure, Rest
  <2> DEFINE next == [Idle EXCEPT !.pc = "lookup", !.goal = want,
                                  !.hosts = hosts]
  <2>2. next \in Passes /\ next.pc = "lookup" /\ ~next.waiting
    BY <2>1, NodesAssumption DEF Idle, Passes
  <2> QED
    BY <1>1, <2>2, OutsideKeepsCore DEF BeginEnsure
<1>2. CASE EnsureRejected(hosts)
  BY <1>2 DEF EnsureRejected, Core, cloud
<1> QED
  BY <1>1, <1>2

LEMMA BeginDeleteKeepsCore ==
  ASSUME Core, BeginDelete
  PROVE  Core'
<1> DEFINE next == [Idle EXCEPT !.pc = "lookup"]
<1>1. next \in Passes /\ next.pc = "lookup" /\ ~next.waiting
  BY DEF Idle, Passes
<1> QED
  BY <1>1, OutsideKeepsCore DEF BeginDelete

LEMMA LookupFindsNoneKeepsCore ==
  ASSUME Core, LookupFindsNone
  PROVE  Core'
<1>1. CASE pass' = Idle /\ UNCHANGED cloud
  BY <1>1, StopKeepsCore DEF Stopped
<1>2. CASE pass.goal # Gone /\ Goto([pass EXCEPT !.pc = "create"])
  <2> DEFINE next == [pass EXCEPT !.pc = "create"]
  <2>1. pass \in Passes /\ ~pass.waiting
    BY DEF Core, LookupFindsNone, At
  <2>2. /\ next \in Passes /\ next.pc = "create" /\ ~next.waiting
        /\ next.goal = pass.goal
    BY <2>1 DEF Passes, EnsureSteps
  <2>3. pass.goal \in Specs
    BY <1>2, <2>1 DEF Passes
  <2> QED
    BY <1>2, <2>2, <2>3, OutsideKeepsCore DEF Goto
<1> QED
  BY <1>1, <1>2 DEF LookupFindsNone, Goto

\* The API settles, or fails, a load balancer: valid stays valid until the
\* deletion is done.
LEMMA StatusKeepsCore ==
  ASSUME Core, NEW l \in LBs, NEW s \in Statuses,
         status' = [status EXCEPT ![l] = s],
         ~Valid(s) => ~Valid(status[l]),
         UNCHANGED <<tree, pass>>
  PROVE  Core'
<1>1. status' \in [LBs -> Statuses]
  BY DEF Core
<1>2. \A k \in LBs : ~Valid(status'[k]) => tree'[k] = EmptyTree
  BY DEF Core
<1> QED
  BY <1>1, <1>2 DEF Core

LEMMA EnvironmentKeepsCore ==
  ASSUME Core, \/ Edit
               \/ \E l \in LBs : Settle(l) \/ SettleError(l)
               \/ Crash
               \/ Restart
  PROVE  Core'
<1>1. CASE Edit
  BY <1>1 DEF Edit, Core, cloud
<1>2. ASSUME NEW l \in LBs, Settle(l) PROVE Core'
  <2>1. CASE status' = [status EXCEPT ![l] = "ACTIVE"]
    BY <1>2, <2>1, StatusKeepsCore DEF Settle, Valid, Statuses
  <2>2. CASE /\ status[l] = "PENDING_DELETE"
             /\ status' = [status EXCEPT ![l] = "DELETED"]
    BY <1>2, <2>2, StatusKeepsCore DEF Settle, Valid, Statuses
  <2> QED
    BY <1>2, <2>1, <2>2 DEF Settle
<1>3. ASSUME NEW l \in LBs, SettleError(l) PROVE Core'
  BY <1>3, StatusKeepsCore DEF SettleError, Valid, Statuses
<1>4. CASE Crash
  BY <1>4, StopKeepsCore DEF Crash, Panic, Stopped
<1>5. CASE Restart
  BY <1>5, StopKeepsCore DEF Restart, Stopped
<1> QED
  BY <1>1, <1>2, <1>3, <1>4, <1>5

-----------------------------------------------------------------------------
(* Discipline is inductive.                                                *)

LEMMA PassStepKeepsCore ==
  ASSUME Core, PassStep
  PROVE  Core'
<1>1. CASE WaitFails \/ ReadFails \/ DeleteTimesOut \/ EnsureReturns
  BY <1>1, StopKeepsCore
     DEF WaitFails, ReadFails, DeleteTimesOut, EnsureReturns, Fail, Goto, Stopped
<1>2. CASE \E p \in Ports : \/ EnsureListener(p) \/ PickObsolete(p)
                           \/ DeleteMonitor(p) \/ PickPool(p)
                           \/ DeleteListener(p)
  BY <1>2, EnsureListenerKeepsCore, PickObsoleteKeepsCore,
     DeleteMonitorKeepsCore, PickPoolKeepsCore, DeleteListenerKeepsCore
<1>3. CASE \E n \in Nodes : EnsureMember(n)
  BY <1>3, EnsureMemberKeepsCore
<1>4. CASE DropMember \/ DropOldMember \/ DeletePoolMember
  BY <1>4, DeleteMemberKeepsCore
     DEF DropMember, DropOldMember, DeletePoolMember, At
<1>5. CASE \/ WaitReady \/ CreateLoadBalancer \/ ListListeners \/ EnsurePool
           \/ UpdatePool \/ ListMembers \/ MembersEnsured \/ MembersDropped
           \/ EnsureMonitor \/ PortsEnsured
  BY <1>5, WaitReadyKeepsCore, CreateLoadBalancerKeepsCore,
     ListListenersKeepsCore, EnsurePoolKeepsCore, UpdatePoolKeepsCore,
     ListMembersKeepsCore, MembersEnsuredKeepsCore, MembersDroppedKeepsCore,
     EnsureMonitorKeepsCore, PortsEnsuredKeepsCore
<1>6. CASE \/ DropOldMonitor \/ ListOldMembers \/ DropOldPool
           \/ DropOldListener \/ ObsoleteDropped
  BY <1>6, DropOldMonitorKeepsCore, ListOldMembersKeepsCore,
     DropOldPoolKeepsCore, DropOldListenerKeepsCore, ObsoleteDroppedKeepsCore
<1>7. CASE \/ ListForDelete \/ MonitorsDeleted \/ DeletePool \/ PoolsDeleted
           \/ ListenersDeleted \/ DeleteLoadBalancer
  BY <1>7, ListForDeleteKeepsCore, MonitorsDeletedKeepsCore,
     DeletePoolKeepsCore, PoolsDeletedKeepsCore, ListenersDeletedKeepsCore,
     DeleteLoadBalancerKeepsCore
<1> QED
  BY <1>1, <1>2, <1>3, <1>4, <1>5, <1>6, <1>7 DEF PassStep

LEMMA ControllerKeepsCore ==
  ASSUME Core, Rest, Controller
  PROVE  Core'
<1>1. CASE \E hosts \in HostSets : BeginEnsure(hosts) \/ EnsureRejected(hosts)
  BY <1>1, BeginEnsureKeepsCore
<1>2. CASE BeginDelete
  BY <1>2, BeginDeleteKeepsCore
<1>3. CASE LookupAmbiguous \/ DeleteReturns
  BY <1>3, StopKeepsCore DEF LookupAmbiguous, DeleteReturns, Fail, Goto, Stopped
<1>4. CASE \E l \in LBs : LookupFinds(l)
  BY <1>4, LookupFindsKeepsCore
<1>5. CASE LookupFindsNone
  BY <1>5, LookupFindsNoneKeepsCore
<1>6. CASE PassStep
  BY <1>6, PassStepKeepsCore
<1> QED
  BY <1>1, <1>2, <1>3, <1>4, <1>5, <1>6 DEF Controller

\* What a step of a pass does to the work queue and to the fault counter.
Counted ==
  /\ queued' = queued \/ queued' = TRUE
  /\ faults' = faults \/ Fault

LEMMA CallCounted ==
  ASSUME NEW t, NEW next, Call(t, next)
  PROVE  Counted
  BY DEF Call, CallElse, Fail, Counted

LEMMA PassStepCounted ==
  ASSUME PassStep
  PROVE  Counted
<1>1. CASE \/ WaitReady \/ WaitFails \/ ReadFails \/ ListListeners
           \/ ListMembers \/ MembersEnsured \/ MembersDropped \/ PortsEnsured
           \/ ListOldMembers \/ ObsoleteDropped \/ EnsureReturns
  BY <1>1 DEF WaitReady, WaitFails, ReadFails, ListListeners, ListMembers,
     MembersEnsured, MembersDropped, PortsEnsured, ListOldMembers,
     ObsoleteDropped, EnsureReturns, Goto, Fail, Counted
<1>2. CASE \/ ListForDelete \/ MonitorsDeleted \/ PoolsDeleted
           \/ ListenersDeleted \/ DeleteTimesOut
           \/ \E p \in Ports : PickObsolete(p) \/ PickPool(p)
  BY <1>2 DEF ListForDelete, MonitorsDeleted, PoolsDeleted, ListenersDeleted,
     DeleteTimesOut, PickObsolete, PickPool, Goto, Fail, Counted
<1>3. CASE CreateLoadBalancer \/ DeleteLoadBalancer \/ UpdatePool
  <2>1. CASE CreateLoadBalancer
    BY <2>1 DEF CreateLoadBalancer, Fail, Counted
  <2>2. CASE DeleteLoadBalancer
    BY <2>2 DEF DeleteLoadBalancer, Fail, Counted
  <2>3. CASE UpdatePool
    BY <2>3 DEF UpdatePool, CallElse, Panic, Goto, Counted
  <2> QED
    BY <1>3, <2>1, <2>2, <2>3
<1>4. CASE \E p \in Ports : EnsureListener(p)
  BY <1>4, CallCounted DEF EnsureListener, Goto, Counted
<1>5. CASE EnsurePool
  BY <1>5, CallCounted DEF EnsurePool, Goto, Fail, Counted
<1>6. CASE \E n \in Nodes : EnsureMember(n)
  BY <1>6, CallCounted DEF EnsureMember, Goto, Fail, Counted
<1>7. CASE EnsureMonitor
  BY <1>7, CallCounted DEF EnsureMonitor, Goto, Fail, Counted
<1>8. CASE DropOldMonitor
  BY <1>8, CallCounted DEF DropOldMonitor, Goto, Counted
<1>9. CASE DropMember \/ DropOldMember \/ DeletePoolMember
  BY <1>9, CallCounted DEF DropMember, DropOldMember, DeletePoolMember,
     DeleteMember
<1>10. CASE \/ DropOldPool \/ DropOldListener \/ DeletePool
            \/ \E p \in Ports : DeleteMonitor(p) \/ DeleteListener(p)
  BY <1>10, CallCounted DEF DropOldPool, DropOldListener, DeletePool,
     DeleteMonitor, DeleteListener
<1> QED
  BY <1>1, <1>2, <1>3, <1>4, <1>5, <1>6, <1>7, <1>8, <1>9, <1>10 DEF PassStep

LEMMA FaultsType ==
  ASSUME Rest, faults' = faults \/ Fault
  PROVE  faults' \in 0..MaxFaults
  BY OptionsAssumption DEF Rest, Fault

LEMMA ControllerCounted ==
  ASSUME Rest, Controller
  PROVE  /\ finalizer' \in BOOLEAN
         /\ queued' \in BOOLEAN
         /\ faults' \in 0..MaxFaults
<1>1. finalizer \in BOOLEAN /\ queued \in BOOLEAN
  BY DEF Rest
<1>2. CASE PassStep /\ UNCHANGED finalizer
  <2>1. Counted
    BY <1>2, PassStepCounted
  <2>2. queued' \in BOOLEAN
    BY <1>1, <2>1 DEF Counted
  <2>3. faults' \in 0..MaxFaults
    BY <2>1, FaultsType DEF Counted
  <2> QED
    BY <1>1, <1>2, <2>2, <2>3
<1>3. ASSUME NEW hosts \in HostSets, BeginEnsure(hosts) \/ EnsureRejected(hosts)
      PROVE  /\ finalizer' = TRUE
             /\ queued' \in BOOLEAN
             /\ faults' \in 0..MaxFaults
  <2>1. finalizer' = TRUE /\ queued' \in BOOLEAN
    BY <1>1, <1>3 DEF BeginEnsure, EnsureRejected
  <2>2. faults' = faults \/ Fault
    BY <1>3 DEF BeginEnsure, EnsureRejected
  <2> QED
    BY <2>1, <2>2, FaultsType
<1>4. CASE BeginDelete \/ LookupAmbiguous \/ DeleteReturns
  BY <1>4 DEF BeginDelete, LookupAmbiguous, DeleteReturns, Fail, Goto, Rest
<1>5. CASE LookupFindsNone \/ \E l \in LBs : LookupFinds(l)
  BY <1>5 DEF LookupFindsNone, LookupFinds, Goto, Rest
<1> QED
  BY <1>2, <1>3, <1>4, <1>5 DEF Controller

LEMMA NextKeepsRest ==
  ASSUME Rest, Next
  PROVE  Rest'
<1>1. CASE Controller /\ UNCHANGED <<want, errors, edits>>
  BY <1>1, ControllerCounted DEF Rest
<1>2. CASE Edit
  BY <1>2, OptionsAssumption DEF Edit, Rest
<1>3. CASE \E l \in LBs : Settle(l) \/ SettleError(l)
  BY <1>3, OptionsAssumption DEF Settle, SettleError, Rest
<1>4. CASE Crash
  BY <1>4, OptionsAssumption DEF Crash, Panic, Fault, Rest
<1>5. CASE Restart
  BY <1>5 DEF Restart, Rest
<1> QED
  BY <1>1, <1>2, <1>3, <1>4, <1>5 DEF Next

LEMMA InitDiscipline == Init => Discipline
<1> SUFFICES ASSUME Init PROVE Discipline
  OBVIOUS
<1>1. pass \in Passes /\ pass.pc = "idle" /\ ~pass.waiting
  BY StoppedType DEF Init, Stopped, Idle
<1>2. PassOK(pass, tree)
  BY <1>1 DEF PassOK, Working, EnsureSteps, DeleteSteps
<1>3. Core
  BY <1>1, <1>2, EmptyTreeType DEF Core, Init, Statuses
<1>4. faults \in 0..MaxFaults /\ errors \in 0..MaxErrors /\ edits \in 0..MaxEdits
  BY OptionsAssumption DEF Init
<1>5. Rest
  BY <1>4 DEF Rest, Init
<1> QED
  BY <1>3, <1>5, DisciplineParts

LEMMA NextKeepsDiscipline == Discipline /\ [Next]_vars => Discipline'
<1> SUFFICES ASSUME Discipline, [Next]_vars PROVE Discipline'
  OBVIOUS
<1>1. Core /\ Rest
  BY DisciplineParts
<1>2. CASE Next
  <2>1. Core'
    BY <1>1, <1>2, ControllerKeepsCore, EnvironmentKeepsCore DEF Next
  <2>2. Rest'
    BY <1>1, <1>2, NextKeepsRest
  <2> QED
    BY <2>1, <2>2, DisciplineParts DEF Discipline, TypeOK, Core, Rest
<1>3. CASE UNCHANGED vars
  BY <1>3 DEF vars, Discipline, TypeOK, PassOK
<1> QED
  BY <1>2, <1>3

\* The discipline holds of every reachable state, for all values of the
\* constants.
THEOREM DisciplineHolds == Spec => []Discipline
<1>1. Init => Discipline
  BY InitDiscipline
<1>2. Discipline /\ [Next]_vars => Discipline'
  BY NextKeepsDiscipline
<1> QED
  BY <1>1, <1>2, PTL DEF Spec

\* Every variable keeps its type.
THEOREM TypesHold == Spec => []TypeOK
<1>1. Discipline => TypeOK
  BY DEF Discipline
<1> QED
  BY <1>1, DisciplineHolds, PTL

\* No step of the two passes, however it fails, leaves a listener, pool, member
\* or health monitor without its parent, or a load balancer that is going with
\* anything below it.
THEOREM NoOrphansEver == Spec => []NoOrphans
<1>1. Discipline => NoOrphans
  BY DEF Discipline, NoOrphans, Shape
<1> QED
  BY <1>1, DisciplineHolds, PTL
-----------------------------------------------------------------------------
(* Ownership is inductive.                                                 *)

\* What almost every step of a pass amounts to, as far as the question goes
\* which load balancers there are: none appears and none disappears, only the one in
\* hand changes, and the pass goes on with it, and does not come to the steps that
\* create one or wait for its end.
Harmless ==
  /\ \/ UNCHANGED cloud
     \/ /\ status[pass.lb] = "ACTIVE"
        /\ status' = [status EXCEPT ![pass.lb] = "PENDING_UPDATE"]
        /\ \A k \in LBs : k # pass.lb => tree'[k] = tree[k]
  /\ \/ pass' \in Stopped
     \/ /\ pass.pc \in Working
        /\ pass'.lb = pass.lb /\ pass'.goal = pass.goal
        /\ pass'.pc = pass.pc \/ pass'.pc \notin {"create", "gone"}

\* The pass as it is at next, with the load balancer and the Service it has now.
GoesOn(next) ==
  next \in Passes /\ next.lb = pass.lb /\ next.goal = pass.goal

LEMMA GotoHarmless ==
  ASSUME pass.pc \in Working, NEW next, Goto(next), GoesOn(next),
         next.pc \notin {"create", "gone"}
  PROVE  Harmless
  BY DEF Goto, cloud, Harmless, GoesOn

LEMMA CallHarmless ==
  ASSUME Core, NEW t, NEW next, Call(t, next), GoesOn(next), pass.pc \in Working,
         next.pc \notin {"create", "gone"}
  PROVE  Harmless
<1>1. /\ [next EXCEPT !.waiting = TRUE].pc = next.pc
      /\ [next EXCEPT !.waiting = TRUE].lb = pass.lb
      /\ [next EXCEPT !.waiting = TRUE].goal = pass.goal
  BY DEF Passes, GoesOn
<1>2. CallOutcome(t, [next EXCEPT !.waiting = TRUE])
  BY DEF Call, CallElse, CallOutcome, Fail, Stopped
<1>3. CASE UNCHANGED cloud /\ pass' \in Stopped
  BY <1>3 DEF Harmless
<1>4. CASE /\ status[pass.lb] = "ACTIVE"
           /\ tree' = [tree EXCEPT ![pass.lb] = t]
           /\ status' = [status EXCEPT ![pass.lb] = "PENDING_UPDATE"]
           /\ pass' = [next EXCEPT !.waiting = TRUE] \/ pass' \in Stopped
  <2>1. \A k \in LBs : k # pass.lb => tree'[k] = tree[k]
    BY <1>4 DEF Core
  <2> QED
    BY <1>1, <1>4, <2>1 DEF Harmless
<1> QED
  BY <1>2, <1>3, <1>4 DEF CallOutcome

LEMMA PassStepHarmless ==
  ASSUME Core, PassStep
  PROVE  Harmless \/ CreateLoadBalancer \/ DeleteLoadBalancer
<1>1. pass \in Passes /\ (pass.waiting => pass.pc \in Working)
  BY DEF Core, PassOK
<1>2. CASE \/ WaitReady \/ WaitFails \/ ReadFails \/ EnsureReturns
           \/ DeleteTimesOut
  <2>1. CASE WaitReady
    <3> DEFINE w == [pass EXCEPT !.waiting = FALSE]
    <3>1. w.pc = pass.pc /\ w.lb = pass.lb /\ w.goal = pass.goal
      BY <1>1 DEF Passes
    <3> QED
      BY <1>1, <2>1, <3>1 DEF WaitReady, Goto, cloud, Harmless
  <2>2. CASE WaitFails \/ ReadFails \/ EnsureReturns \/ DeleteTimesOut
    BY <2>2 DEF WaitFails, ReadFails, EnsureReturns, DeleteTimesOut, Goto, Fail,
                cloud, Harmless, Stopped
  <2> QED
    BY <1>2, <2>1, <2>2
<1>3. CASE \/ ListListeners \/ ListMembers \/ MembersEnsured
           \/ MembersDropped \/ PortsEnsured \/ ListOldMembers
           \/ ObsoleteDropped
           \/ \E p \in Ports : PickObsolete(p)
  <2>1. pass.pc \in Working
    BY <1>3 DEF ListListeners, ListMembers, MembersEnsured, MembersDropped,
       PortsEnsured, ListOldMembers, ObsoleteDropped, PickObsolete, At, Working,
       EnsureSteps
  <2>2. UNCHANGED cloud
    BY <1>3 DEF ListListeners, ListMembers, MembersEnsured, MembersDropped,
       PortsEnsured, ListOldMembers, ObsoleteDropped, PickObsolete, Goto, cloud
  <2>3. /\ pass'.pc \notin {"create", "gone"}
        /\ pass'.lb = pass.lb /\ pass'.goal = pass.goal
    BY <1>1, <1>3 DEF ListListeners, ListMembers, MembersEnsured,
       MembersDropped, PortsEnsured, ListOldMembers, ObsoleteDropped,
       PickObsolete, Goto, Passes
  <2> QED
    BY <2>1, <2>2, <2>3 DEF Harmless
<1>4. CASE \/ ListForDelete \/ MonitorsDeleted \/ PoolsDeleted
           \/ ListenersDeleted
           \/ \E p \in Ports : PickPool(p)
  <2>1. pass.pc \in Working
    BY <1>4 DEF ListForDelete, MonitorsDeleted, PoolsDeleted, ListenersDeleted,
       PickPool, At, Working, DeleteSteps
  <2>2. UNCHANGED cloud
    BY <1>4 DEF ListForDelete, MonitorsDeleted, PoolsDeleted, ListenersDeleted,
       PickPool, Goto, cloud
  <2>3. /\ pass'.pc \notin {"create", "gone"}
        /\ pass'.lb = pass.lb /\ pass'.goal = pass.goal
    BY <1>1, <1>4 DEF ListForDelete, MonitorsDeleted, PoolsDeleted,
       ListenersDeleted, PickPool, Goto, Passes
  <2> QED
    BY <2>1, <2>2, <2>3 DEF Harmless
<1>5. ASSUME NEW p \in Ports, EnsureListener(p) PROVE Harmless
  <2> DEFINE next == WithListener(p)
  <2>1. pass.pc = "port" /\ pass.pc \in Working
    BY <1>5 DEF EnsureListener, At, Working, EnsureSteps
  <2>2. EffectiveBackend(FoundListener(p), pass.goal.ann) \in BackendProtocols
    BY <2>1, AskedListenerHolds
  <2>3. GoesOn(next) /\ next.pc = "pool"
    BY <1>1, <2>2 DEF GoesOn, Passes, EnsureSteps, WithListener
  <2>4. Goto(next) \/ \E t : Call(t, next)
    BY <1>5 DEF EnsureListener
  <2> HIDE DEF next
  <2> QED
    BY <2>1, <2>3, <2>4, GotoHarmless, CallHarmless
<1>6. CASE EnsurePool
  <2> DEFINE next == [pass EXCEPT !.pc = "settings", !.backend = None]
  <2>1. GoesOn(next) /\ next.pc = "settings"
    BY <1>1 DEF GoesOn, Passes, EnsureSteps
  <2>2. pass.pc \in Working
    BY <1>6 DEF EnsurePool, At, Working, EnsureSteps
  <2>3. \/ Fail /\ UNCHANGED cloud
        \/ Goto(next)
        \/ \E t : Call(t, next)
    BY <1>6 DEF EnsurePool
  <2> HIDE DEF next
  <2>4. CASE Fail /\ UNCHANGED cloud
    BY <2>4 DEF Fail, cloud, Harmless, Stopped
  <2> QED
    BY <1>1, <2>1, <2>2, <2>3, <2>4, GotoHarmless, CallHarmless
<1>7. CASE UpdatePool
  <2> DEFINE next == [pass EXCEPT !.pc = "members"]
             t == [Tree EXCEPT !.pool[pass.cur] =
                                 UpdatedPool(Tree.pool[pass.cur], pass.goal)]
  <2>1. GoesOn(next) /\ next.pc = "members"
    BY <1>1 DEF Passes, EnsureSteps, GoesOn
  <2>2. pass.pc \in Working
    BY <1>7 DEF UpdatePool, At, Working, EnsureSteps
  <2>3. Goto(next) \/ CallElse(t, next, Panic)
    BY <1>7 DEF UpdatePool
  <2> HIDE DEF next, t
  <2>4. CASE Goto(next)
    BY <2>1, <2>2, <2>4, GotoHarmless
  <2>5. CASE CallElse(t, next, Panic)
    <3>1. CASE UNCHANGED cloud /\ Panic
      BY <3>1 DEF Panic, Harmless, Stopped
    <3>2. CASE /\ status[pass.lb] = "ACTIVE"
               /\ tree' = [tree EXCEPT ![pass.lb] = t]
               /\ status' = [status EXCEPT ![pass.lb] = "PENDING_UPDATE"]
               /\ pass' = next \/ Panic
      <4>1. \A k \in LBs : k # pass.lb => tree'[k] = tree[k]
        BY <3>2 DEF Core
      <4> QED
        BY <2>1, <2>2, <3>2, <4>1 DEF Harmless, GoesOn, Panic, Stopped
    <3> QED
      BY <2>5, <3>1, <3>2 DEF CallElse
  <2> QED
    BY <2>3, <2>4, <2>5
<1>8. ASSUME NEW n \in Nodes, EnsureMember(n) PROVE Harmless
  <2> DEFINE next == [pass EXCEPT !.left = @ \ {n}]
             popped == [next EXCEPT !.stale = @ \ {<<n, pass.goal.np>>}]
  <2>1. pass.pc = "add" /\ pass.pc \in Working
    BY <1>8 DEF EnsureMember, At, Working, EnsureSteps
  <2>2. GoesOn(next) /\ next.pc = "add"
    BY <1>1, <2>1 DEF Passes, GoesOn
  <2>3. \/ Fail /\ UNCHANGED cloud
        \/ Goto(popped)
        \/ \E t : Call(t, next)
    BY <1>8 DEF EnsureMember
  <2> HIDE DEF next
  <2>4. GoesOn(popped) /\ popped.pc = "add"
    BY <2>2 DEF Passes, GoesOn
  <2> HIDE DEF popped
  <2>5. CASE Fail /\ UNCHANGED cloud
    BY <2>5 DEF Fail, cloud, Harmless, Stopped
  <2> QED
    BY <1>1, <2>1, <2>2, <2>3, <2>4, <2>5, GotoHarmless, CallHarmless
<1>9. CASE EnsureMonitor
  <2> DEFINE next == [pass EXCEPT !.pc = "port", !.cur = None]
  <2>1. GoesOn(next) /\ next.pc = "port"
    BY <1>1 DEF GoesOn, Passes, EnsureSteps
  <2>2. pass.pc \in Working
    BY <1>9 DEF EnsureMonitor, At, Working, EnsureSteps
  <2>3. \/ Fail /\ UNCHANGED cloud
        \/ Goto(next)
        \/ \E t : Call(t, next)
    BY <1>9 DEF EnsureMonitor
  <2> HIDE DEF next
  <2>4. CASE Fail /\ UNCHANGED cloud
    BY <2>4 DEF Fail, cloud, Harmless, Stopped
  <2> QED
    BY <1>1, <2>1, <2>2, <2>3, <2>4, GotoHarmless, CallHarmless
<1>10. CASE DropOldMonitor
  <2> DEFINE bare == [pass EXCEPT !.pc = "oldListener"]
             next == [pass EXCEPT !.pc = "oldMembers"]
  <2>1. GoesOn(next) /\ next.pc = "oldMembers"
        /\ GoesOn(bare) /\ bare.pc = "oldListener"
    BY <1>1 DEF GoesOn, Passes, EnsureSteps
  <2>2. pass.pc \in Working
    BY <1>10 DEF DropOldMonitor, At, Working, EnsureSteps
  <2>3. Goto(bare) \/ Goto(next) \/ \E t : Call(t, next)
    BY <1>10 DEF DropOldMonitor
  <2> HIDE DEF next, bare
  <2> QED
    BY <1>1, <2>1, <2>2, <2>3, GotoHarmless, CallHarmless
<1>11. CASE DropMember \/ DropOldMember \/ DeletePoolMember
  <2>1. PICK b \in pass.stale : DeleteMember(b)
    BY <1>11 DEF DropMember, DropOldMember, DeletePoolMember
  <2>2. pass.pc \in Working \ {"gone"} /\ pass.pc # "create"
    BY <1>11 DEF DropMember, DropOldMember, DeletePoolMember, At, Working,
                 EnsureSteps, DeleteSteps
  <2> DEFINE next == [pass EXCEPT !.stale = @ \ {b}]
  <2>3. GoesOn(next) /\ next.pc = pass.pc
    BY <1>1 DEF Passes, GoesOn
  <2>4. \E t : Call(t, next)
    BY <2>1 DEF DeleteMember
  <2> HIDE DEF next
  <2> QED
    BY <2>2, <2>3, <2>4, CallHarmless
<1>12. CASE DropOldPool
  <2> DEFINE next == [pass EXCEPT !.pc = "oldListener"]
  <2>1. GoesOn(next) /\ next.pc = "oldListener" /\ pass.pc \in Working
    BY <1>1, <1>12 DEF DropOldPool, At, GoesOn, Passes, Working, EnsureSteps
  <2>2. \E t : Call(t, next)
    BY <1>12 DEF DropOldPool
  <2> HIDE DEF next
  <2> QED
    BY <2>1, <2>2, CallHarmless
<1>13. CASE DropOldListener
  <2> DEFINE next == [pass EXCEPT !.pc = "obsolete", !.old = @ \ {pass.cur},
                                  !.cur = None]
  <2>1. GoesOn(next) /\ next.pc = "obsolete" /\ pass.pc \in Working
    BY <1>1, <1>13 DEF DropOldListener, At, GoesOn, Passes, Working, EnsureSteps
  <2>2. \E t : Call(t, next)
    BY <1>13 DEF DropOldListener
  <2> HIDE DEF next
  <2> QED
    BY <2>1, <2>2, CallHarmless
<1>14. CASE DeletePool
  <2> DEFINE next == [pass EXCEPT !.pc = "dPools", !.todo = @ \ {pass.cur},
                                  !.cur = None]
  <2>1. GoesOn(next) /\ next.pc = "dPools" /\ pass.pc \in Working
    BY <1>1, <1>14 DEF DeletePool, At, GoesOn, Passes, Working, DeleteSteps
  <2>2. \E t : Call(t, next)
    BY <1>14 DEF DeletePool
  <2> HIDE DEF next
  <2> QED
    BY <2>1, <2>2, CallHarmless
<1>15. ASSUME NEW p \in Ports, DeleteMonitor(p) PROVE Harmless
  <2> DEFINE next == [pass EXCEPT !.mons = @ \ {p}]
  <2>1. GoesOn(next) /\ next.pc = "dMonitors" /\ pass.pc \in Working
    BY <1>1, <1>15 DEF DeleteMonitor, At, GoesOn, Passes, Working, DeleteSteps
  <2>2. \E t : Call(t, next)
    BY <1>15 DEF DeleteMonitor
  <2> HIDE DEF next
  <2> QED
    BY <2>1, <2>2, CallHarmless
<1>16. ASSUME NEW p \in Ports, DeleteListener(p) PROVE Harmless
  <2> DEFINE next == [pass EXCEPT !.old = @ \ {p}]
  <2>1. GoesOn(next) /\ next.pc = "dListeners" /\ pass.pc \in Working
    BY <1>1, <1>16 DEF DeleteListener, At, GoesOn, Passes, Working, DeleteSteps
  <2>2. \E t : Call(t, next)
    BY <1>16 DEF DeleteListener
  <2> HIDE DEF next
  <2> QED
    BY <2>1, <2>2, CallHarmless
<1> QED
  BY <1>2, <1>3, <1>4, <1>5, <1>6, <1>7, <1>8, <1>9, <1>10, <1>11, <1>12,
     <1>13, <1>14, <1>15, <1>16 DEF PassStep

\* What the API or a step may do to the set of live load balancers.
LEMMA SameFound ==
  ASSUME Core, NEW l, status' = [status EXCEPT ![l] = "PENDING_UPDATE"],
         status[l] = "ACTIVE"
  PROVE  Found' = Found /\ Relapsed' = Relapsed /\ l \notin Relapsed
<1>1. \A k \in LBs : /\ Valid(status'[k]) <=> Valid(status[k])
                     /\ status'[k] = "RELAPSED" <=> status[k] = "RELAPSED"
  BY DEF Core, Valid
<1> QED
  BY <1>1 DEF Found, Relapsed

LEMMA HarmlessKeepsOwnership ==
  ASSUME Core, Ownership, Harmless, UNCHANGED finalizer
  PROVE  Ownership'
<1>1. /\ Found' = Found /\ Relapsed' = Relapsed
      /\ \A l \in Relapsed : tree'[l] = tree[l]
  <2>1. CASE UNCHANGED cloud
    BY <2>1 DEF cloud, Found, Relapsed
  <2>2. CASE ~UNCHANGED cloud
    BY <2>2, SameFound DEF Harmless, Relapsed
  <2> QED  BY <2>1, <2>2
<1>2. pass' \in Stopped => pass'.pc \in {"idle", "down"} /\ pass'.goal = Gone
  BY StoppedIsIdle
<1>3. pass.pc \in Working => pass.pc \notin {"idle", "down", "lookup", "create"}
  BY DEF Working, EnsureSteps, DeleteSteps
<1>4. {"idle", "down"} \cap Working = {}
  BY DEF Working, EnsureSteps, DeleteSteps
<1>5. CASE pass' \in Stopped
  BY <1>1, <1>2, <1>4, <1>5 DEF Ownership, SingleLoadBalancer
<1>6. CASE pass' \notin Stopped
  BY <1>1, <1>3, <1>6 DEF Harmless, Ownership, SingleLoadBalancer
<1> QED
  BY <1>5, <1>6

LEMMA IdleSteps ==
  /\ {"idle", "down", "lookup"} \cap (Working \cup {"create"}) = {}
  /\ Idle.pc = "idle" /\ Idle.goal = Gone
BY DEF Idle, Working, EnsureSteps, DeleteSteps

\* A load balancer is created while there is none.
LEMMA CreateKeepsOwnership ==
  ASSUME Core, Ownership, CreateLoadBalancer, UNCHANGED finalizer
  PROVE  Ownership'
<1>1. /\ pass.pc = "create" /\ Found \subseteq Relapsed
      /\ pass.goal # Gone /\ finalizer /\ finalizer'
  <2>1. pass.pc = "create" /\ pass.goal \in Specs
    BY DEF CreateLoadBalancer, At, Core, PassOK, EnsureSteps
  <2> QED  BY <2>1, SpecsAssumption DEF Ownership
<1>2. CASE UNCHANGED cloud /\ pass' = Idle
  BY <1>1, <1>2 DEF cloud, Found, Relapsed, Ownership, SingleLoadBalancer, Idle,
                    Working, EnsureSteps, DeleteSteps
<1>3. ASSUME NEW l \in LBs, status[l] = "DELETED",
             status' = [status EXCEPT ![l] = "PENDING_CREATE"],
             tree' = [tree EXCEPT ![l] = EmptyTree],
             \/ pass' = [pass EXCEPT !.pc = "list", !.lb = l, !.waiting = TRUE]
             \/ pass' = Idle
      PROVE  Ownership'
  <2>1. /\ \A k \in LBs : k # l => status'[k] = status[k] /\ tree'[k] = tree[k]
        /\ status'[l] = "PENDING_CREATE"
    BY <1>3 DEF Core
  <2>2. Relapsed' = Relapsed
    BY <1>3, <2>1 DEF Relapsed
  <2>3. Found' = Found \cup {l}
    BY <1>3, <2>1 DEF Found, Valid
  <2>4. l \notin Relapsed
    BY <1>3 DEF Relapsed
  <2>5. \A k \in Relapsed' : tree'[k] = EmptyTree
    BY <2>1, <2>2, <2>4 DEF Ownership, Relapsed
  <2> DEFINE next == [pass EXCEPT !.pc = "list", !.lb = l, !.waiting = TRUE]
  <2>6. next.pc = "list" /\ next.lb = l
    BY DEF Core, Passes
  <2> HIDE DEF next
  <2>7. /\ pass'.pc \in Working => pass'.lb = l
        /\ pass'.pc \notin {"create", "gone"}
    BY <1>3, <2>6, IdleSteps DEF next
  <2> QED
    BY <1>1, <2>2, <2>3, <2>4, <2>5, <2>6, <2>7 DEF Ownership, SingleLoadBalancer
<1> QED
  BY <1>2, <1>3 DEF CreateLoadBalancer, Fail

\* The only live load balancer goes.
LEMMA DeleteKeepsOwnership ==
  ASSUME Core, Ownership, DeleteLoadBalancer, UNCHANGED finalizer
  PROVE  Ownership'
<1>1. pass.pc = "dLB" /\ pass.pc \in Working
  BY DEF DeleteLoadBalancer, At, Working, DeleteSteps
<1>2. pass.lb \in LBs /\ pass \in Passes
  BY <1>1, InHand
<1>3. Found \ {pass.lb} \subseteq Relapsed
  BY <1>1 DEF Ownership
<1>4. CASE UNCHANGED cloud /\ pass' = Idle
  BY <1>4 DEF cloud, Idle, Ownership, SingleLoadBalancer, Found, Relapsed, Working,
              EnsureSteps, DeleteSteps
<1>5. CASE /\ status' = [status EXCEPT ![pass.lb] = "PENDING_DELETE"]
           /\ UNCHANGED tree
           /\ pass' = [pass EXCEPT !.pc = "gone"] \/ pass' = Idle
  <2>1. \A l \in LBs : l # pass.lb => status'[l] = status[l]
    BY <1>5 DEF Core
  <2>2. status'[pass.lb] = "PENDING_DELETE"
    BY <1>2, <1>5 DEF Core
  <2>3. Found' = Found \ {pass.lb} /\ Relapsed' = Relapsed \ {pass.lb}
    BY <1>2, <2>1, <2>2 DEF Found, Relapsed, Valid
  <2>4. Found' \subseteq Relapsed'
    BY <1>3, <2>3
  <2>5. pass'.goal = pass.goal \/ pass'.goal = Gone
    BY <1>2, <1>5 DEF Passes, Idle
  <2>6. \A l \in Relapsed' : tree'[l] = EmptyTree
    BY <1>5, <2>3 DEF Ownership
  <2> QED
    BY <2>4, <2>5, <2>6 DEF Ownership, SingleLoadBalancer
<1> QED
  BY <1>4, <1>5 DEF DeleteLoadBalancer, Fail

\* A step that leaves the cloud and the finalizer alone, to a pass that has no load
\* balancer in hand.
LEMMA LocalKeepsOwnership ==
  ASSUME Ownership, UNCHANGED cloud, pass'.pc \notin Working \cup {"create"},
         finalizer' \/ (pass'.goal = Gone /\ (~finalizer \/ Found \subseteq Relapsed))
  PROVE  Ownership'
<1>1. Found' = Found /\ Relapsed' = Relapsed
  BY DEF cloud, Found, Relapsed
<1>2. "gone" \in Working
  BY DEF Working, DeleteSteps
<1> QED
  BY <1>1, <1>2 DEF cloud, Ownership, SingleLoadBalancer

LEMMA ControllerKeepsOwnership ==
  ASSUME Core, Ownership, Controller
  PROVE  Ownership'
<1>1. pass \in Passes
  BY DEF Core
<1>2. CASE PassStep /\ UNCHANGED finalizer
  BY <1>2, PassStepHarmless, HarmlessKeepsOwnership, CreateKeepsOwnership,
     DeleteKeepsOwnership
<1>3. ASSUME NEW hosts \in HostSets, BeginEnsure(hosts)
      PROVE  Ownership'
  <2>1. UNCHANGED cloud /\ finalizer' = TRUE
    BY <1>3 DEF BeginEnsure
  <2>2. pass'.pc = "lookup"
    BY <1>3 DEF BeginEnsure, Idle
  <2> QED
    BY <2>1, <2>2, IdleSteps, LocalKeepsOwnership
<1>4. ASSUME NEW hosts \in HostSets, EnsureRejected(hosts)
      PROVE  Ownership'
  <2>1. UNCHANGED cloud /\ finalizer' = TRUE /\ pass' = pass /\ pass.pc = "idle"
    BY <1>4 DEF EnsureRejected
  <2> QED
    BY <2>1, IdleSteps, LocalKeepsOwnership
<1>5. CASE BeginDelete
  <2>1. pass' = [Idle EXCEPT !.pc = "lookup"] /\ UNCHANGED cloud /\ UNCHANGED finalizer
    BY <1>5 DEF BeginDelete
  <2>2. pass'.pc = "lookup" /\ pass'.goal = Gone
    BY <2>1 DEF Idle
  <2> QED
    BY <2>1, <2>2, IdleSteps, LocalKeepsOwnership
<1>6. CASE LookupAmbiguous
  BY <1>6, IdleSteps, LocalKeepsOwnership DEF LookupAmbiguous, Fail
<1>7. ASSUME NEW l \in LBs, LookupFinds(l) PROVE Ownership'
  <2>1. Found = {l} /\ UNCHANGED cloud /\ UNCHANGED finalizer
    BY <1>7 DEF LookupFinds, Goto
  <2>2. pass'.pc \in {"snapshot", "list"} /\ pass'.lb = l /\ pass'.goal = pass.goal
    BY <1>1, <1>7 DEF LookupFinds, Goto, Passes
  <2>3. Found' = Found /\ Relapsed' = Relapsed
    BY <2>1 DEF cloud, Found, Relapsed
  <2> QED
    BY <2>1, <2>2, <2>3 DEF cloud, Ownership, SingleLoadBalancer
<1>8. CASE LookupFindsNone
  <2>1. Found = {} /\ UNCHANGED cloud
    BY <1>8 DEF LookupFindsNone, Goto
  <2>2. CASE pass' = Idle
    BY <2>1, <2>2, IdleSteps, LocalKeepsOwnership
  <2>3. CASE UNCHANGED finalizer /\ pass' = [pass EXCEPT !.pc = "create"]
    <3>1. pass'.pc = "create" /\ pass'.goal = pass.goal
      BY <1>1, <2>3 DEF Passes
    <3>2. Found' = {} /\ Relapsed' = Relapsed
      BY <2>1 DEF cloud, Found, Relapsed
    <3> QED
      BY <2>1, <2>3, <3>1, <3>2 DEF cloud, Ownership, SingleLoadBalancer
  <2> QED
    BY <1>8, <2>2, <2>3 DEF LookupFindsNone, Goto
<1>9. CASE DeleteReturns
  <2>1. Found \subseteq Relapsed /\ UNCHANGED cloud /\ pass' = Idle
    BY <1>9 DEF DeleteReturns, At, Goto, Ownership
  <2> QED
    BY <2>1, IdleSteps, LocalKeepsOwnership
<1> QED
  BY <1>2, <1>3, <1>4, <1>5, <1>6, <1>7, <1>8, <1>9 DEF Controller

\* The API is done with something, or has failed at it: a load balancer comes back
\* only from PENDING_DELETE.
LEMMA SettleKeepsOwnership ==
  ASSUME Core, Ownership, NEW l \in LBs, Settle(l) \/ SettleError(l)
  PROVE  Ownership'
<1>1. UNCHANGED <<tree, finalizer, pass>>
  BY DEF Settle, SettleError
<1>2. CASE status' = [status EXCEPT ![l] = "RELAPSED"] /\ status[l] = "PENDING_DELETE"
  <2>1. \A k \in LBs : k # l => status'[k] = status[k]
    BY <1>2 DEF Core
  <2>2. status'[l] = "RELAPSED"
    BY <1>2 DEF Core
  <2>3. Found' = Found \cup {l} /\ Relapsed' = Relapsed \cup {l}
    BY <2>1, <2>2 DEF Found, Relapsed, Valid
  <2>4. tree[l] = EmptyTree
    BY <1>2 DEF Core, Valid
  <2>5. Found' \ Relapsed' \subseteq Found \ Relapsed
    BY <2>3
  <2> QED
    BY <1>1, <2>3, <2>4, <2>5 DEF Ownership, SingleLoadBalancer
<1>3. CASE ~(status' = [status EXCEPT ![l] = "RELAPSED"] /\ status[l] = "PENDING_DELETE")
  <2>1. \A k \in LBs : /\ Valid(status'[k]) <=> Valid(status[k])
                       /\ status'[k] = "RELAPSED" <=> status[k] = "RELAPSED"
    BY <1>3 DEF Settle, SettleError, Core, Valid
  <2>2. Found' = Found /\ Relapsed' = Relapsed
    BY <2>1 DEF Found, Relapsed
  <2> QED
    BY <1>1, <2>2 DEF Ownership, SingleLoadBalancer
<1> QED
  BY <1>2, <1>3

LEMMA NextKeepsOwnership ==
  ASSUME Core, Ownership, [Next]_vars
  PROVE  Ownership'
<1>1. CASE Controller
  BY <1>1, ControllerKeepsOwnership
<1>2. CASE Edit \/ UNCHANGED vars
  BY <1>2 DEF Edit, vars, cloud, Ownership, SingleLoadBalancer, Found, Relapsed
<1>3. ASSUME NEW l \in LBs, Settle(l) \/ SettleError(l) PROVE Ownership'
  BY <1>3, SettleKeepsOwnership
<1>4. CASE Crash \/ Restart
  <2>1. UNCHANGED cloud /\ UNCHANGED finalizer /\ pass' \in Stopped
    BY <1>4 DEF Crash, Restart, Panic, Stopped
  <2>2. pass'.pc \in {"idle", "down"} /\ pass'.goal = Gone
    BY <2>1, StoppedIsIdle
  <2> QED
    BY <2>1, <2>2, IdleSteps, LocalKeepsOwnership
<1> QED
  BY <1>1, <1>2, <1>3, <1>4 DEF Next

\* Ownership is never in doubt but for load balancers whose deletion was accepted and
\* failed later.
THEOREM OwnershipHolds == Spec => []Ownership
<1>1. Init => Ownership
  BY IdleSteps DEF Init, Ownership, SingleLoadBalancer, Found, Relapsed, Valid,
                   Working, DeleteSteps
<1>2. Discipline /\ Ownership /\ [Next]_vars => Ownership'
  BY NextKeepsOwnership, DisciplineParts
<1> QED
  BY <1>1, <1>2, DisciplineHolds, PTL DEF Spec

\* No crash, lost reply or retry makes a pass create a second load balancer, next to
\* one whose deletion has not failed.
THEOREM SingleLoadBalancerEver == Spec => []SingleLoadBalancer
<1>1. Ownership => SingleLoadBalancer
  BY DEF Ownership
<1> QED
  BY <1>1, OwnershipHolds, PTL

\* The finalizer is taken from a Service only when no resource below a load balancer
\* is left, and no load balancer is live but one whose deletion has failed.
THEOREM FinalizerGuardsCloudEver == Spec => []FinalizerGuardsCloud
<1>1. Discipline /\ Ownership => FinalizerGuardsCloud
  BY DEF Discipline, Ownership, FinalizerGuardsCloud, Found, Relapsed
<1> QED
  BY <1>1, DisciplineHolds, OwnershipHolds, PTL

-----------------------------------------------------------------------------
(* What an Ensure pass achieves.                                           *)

AchieveSteps == PortSteps \cup OldSteps \cup {"port", "obsolete", "done"}

LEMMA NothingAchieved ==
  ASSUME NEW p, NEW t, p.pc \notin AchieveSteps
  PROVE  Achieved(p, t)
  BY DEF AchieveSteps, PortSteps, OldSteps, Achieved, PortAchieved

LEMMA StopAchieves ==
  ASSUME pass' \in Stopped
  PROVE  Achieved(pass, Tree)'
<1>1. pass'.pc \notin AchieveSteps
  BY StoppedType DEF AchieveSteps, PortSteps, OldSteps
<1> QED
  BY <1>1, NothingAchieved

LEMMA GotoAchieves ==
  ASSUME NEW next, next.lb = pass.lb, Achieved(next, Tree), Goto(next)
  PROVE  Achieved(pass, Tree)'
<1>1. pass' = next /\ Tree' = Tree
  BY DEF Goto, Tree, cloud
<1> QED
  BY <1>1

LEMMA CallAchieves ==
  ASSUME Core, pass.pc \in Working, NEW t, NEW next, next.lb = pass.lb,
         Achieved(next, t), CallOutcome(t, next)
  PROVE  Achieved(pass, Tree)'
<1>1. CASE pass' \in Stopped
  BY <1>1, StopAchieves
<1>2. CASE tree' = [tree EXCEPT ![pass.lb] = t] /\ pass' = next
  <2>1. Tree' = t
    BY <1>2, InHand DEF Core, Tree
  <2> QED
    BY <1>2, <2>1
<1> QED
  BY <1>1, <1>2 DEF CallOutcome

LEMMA WaitingAchieved ==
  ASSUME NEW next \in Passes, NEW t, Achieved(next, t), NEW flag \in BOOLEAN
  PROVE  /\ Achieved([next EXCEPT !.waiting = flag], t)
         /\ [next EXCEPT !.waiting = flag].lb = next.lb
<1> DEFINE w == [next EXCEPT !.waiting = flag]
<1>1. /\ w.pc = next.pc /\ w.lb = next.lb /\ w.goal = next.goal /\ w.hosts = next.hosts
      /\ w.cur = next.cur /\ w.todo = next.todo /\ w.old = next.old
      /\ w.backend = next.backend
      /\ w.stale = next.stale /\ w.left = next.left
  BY DEF Passes
<1> HIDE DEF w
<1>2. Visited(w) = Visited(next)
  BY <1>1 DEF Visited
<1>3. Achieved(w, t)
  BY <1>1, <1>2 DEF Achieved, PortAchieved, PortsAchieved
<1> QED
  BY <1>1, <1>3 DEF w

\* A call followed by a wait.
LEMMA CallStepAchieves ==
  ASSUME Core, pass.pc \in Working, NEW t, NEW next \in Passes, next.lb = pass.lb,
         Achieved(next, t), Call(t, next)
  PROVE  Achieved(pass, Tree)'
<1>1. CallOutcome(t, [next EXCEPT !.waiting = TRUE])
  BY DEF Call, CallElse, CallOutcome, Fail, Stopped
<1> QED
  BY <1>1, WaitingAchieved, CallAchieves

\* The trees t and u agree on the ports other than c.
Elsewhere(c, t, u) ==
  \A q \in Ports \ {c} :
    /\ u.listener[q] = t.listener[q] /\ u.pool[q] = t.pool[q]
    /\ q \in u.monitor <=> q \in t.monitor
    /\ \A b \in Backends : <<q, b>> \in u.member <=> <<q, b>> \in t.member

LEMMA CompleteElsewhere ==
  ASSUME NEW c, NEW t, NEW u, Elsewhere(c, t, u), NEW q \in Ports \ {c},
         NEW s, NEW hosts, Complete(q, t, s, hosts)
  PROVE  Complete(q, u, s, hosts)
  BY DEF Elsewhere, Complete

\* What the pass has, in the steps at which it achieves something.
LEMMA AchieveFacts ==
  ASSUME Core, pass.pc \in AchieveSteps, Achieved(pass, Tree)
  PROVE  /\ pass.pc \in Working /\ pass \in Passes /\ pass.goal \in Specs
         /\ pass.goal.ports \subseteq Ports /\ pass.goal.np \in NodePorts
         /\ pass.hosts \subseteq Nodes /\ pass.old \subseteq Ports
         /\ pass.stale \subseteq Backends /\ pass.left \subseteq Nodes
         /\ Tree \in Trees /\ Shape(Tree)
         /\ PortsAchieved(pass, Tree) /\ PortAchieved(pass, Tree)
<1>1. pass.pc \in Working /\ pass.pc \in EnsureSteps
  BY DEF AchieveSteps, PortSteps, OldSteps, Working, EnsureSteps
<1>2. pass \in Passes /\ pass.goal \in Specs /\ Tree \in Trees /\ Shape(Tree)
  BY <1>1, InHand
<1> QED
  BY <1>1, <1>2, GoalType DEF Achieved, AchieveSteps, Passes

\* A step from a port in hand to the next step of the same port.
LEMMA SamePortAchieved ==
  ASSUME Core, Achieved(pass, Tree), pass.pc \in PortSteps,
         NEW next, next.pc \in PortSteps,
         next.goal = pass.goal, next.hosts = pass.hosts, next.cur = pass.cur,
         next.todo = pass.todo, next.old = pass.old,
         NEW t, Elsewhere(pass.cur, Tree, t), t.listener = Tree.listener,
         PortAchieved(next, t)
  PROVE  Achieved(next, t)
<1>1. /\ PortsAchieved(pass, Tree) /\ pass.goal.ports \subseteq Ports
  BY AchieveFacts DEF AchieveSteps
<1>2. PortsAchieved(next, t)
  BY <1>1, CompleteElsewhere DEF PortsAchieved
<1> QED
  BY <1>2 DEF Achieved, PortSteps, OldSteps

LEMMA SameElsewhere == \A c, t : Elsewhere(c, t, t)
  BY DEF Elsewhere

LEMMA ListListenersAchieves ==
  ASSUME Core, ListListeners
  PROVE  Achieved(pass, Tree)'
<1> DEFINE next == [pass EXCEPT !.pc = "port", !.todo = pass.goal.ports,
                         !.old = {p \in Ports : Tree.listener[p] # None}]
<1>1. pass.pc = "list" /\ pass.pc \in Working /\ Goto(next)
  BY DEF ListListeners, At, Working, EnsureSteps, DeleteSteps
<1>2. /\ next.pc = "port" /\ next.lb = pass.lb /\ next.goal = pass.goal
      /\ next.todo = pass.goal.ports /\ next.old = {p \in Ports : Tree.listener[p] # None}
  BY <1>1, InHand DEF Passes
<1> HIDE DEF next
<1>3. Achieved(next, Tree)
  BY <1>2 DEF Achieved, PortsAchieved, PortAchieved, PortSteps, OldSteps
<1> QED
  BY <1>1, <1>2, <1>3, GotoAchieves

LEMMA EnsureListenerAchieves ==
  ASSUME Core, Achieved(pass, Tree), NEW p \in Ports, EnsureListener(p)
  PROVE  Achieved(pass, Tree)'
<1> DEFINE next == WithListener(p)
           t == [Tree EXCEPT !.listener[p] = AskedListener(p)]
           a == pass.goal.ann
<1>1. /\ pass.pc = "port" /\ p \in pass.todo
      /\ \/ Goto(next) /\ ListenerServes(Tree.listener[p], a)
         \/ Call(t, next)
      /\ ListenerServes(AskedListener(p), a)
      /\ EffectiveBackend(FoundListener(p), a) \in BackendProtocols
  BY AskedListenerHolds DEF EnsureListener, At
<1>2. /\ pass.pc \in Working /\ pass \in Passes /\ pass.goal.ports \subseteq Ports
      /\ Tree \in Trees /\ PortsAchieved(pass, Tree)
  BY <1>1, AchieveFacts DEF AchieveSteps
<1>3. /\ next \in Passes /\ next.pc = "pool" /\ next.lb = pass.lb /\ next.goal = pass.goal
      /\ next.hosts = pass.hosts /\ next.cur = p /\ next.todo = pass.todo \ {p}
      /\ next.old = pass.old \ {p}
  BY <1>1, <1>2 DEF Passes, EnsureSteps, WithListener
<1>4. Elsewhere(p, Tree, t) /\ ListenerServes(t.listener[p], a)
  BY <1>1, <1>2 DEF Trees, Elsewhere
<1> HIDE DEF next, t
<1>5. ASSUME NEW u, Elsewhere(p, Tree, u), ListenerServes(u.listener[p], a)
      PROVE  Achieved(next, u)
  <2>1. p \in next.goal.ports \ next.todo
    BY <1>1, <1>2, <1>3 DEF PortsAchieved
  <2>2. PortAchieved(next, u)
    BY <1>3, <1>5, <2>1 DEF PortAchieved
  <2>3. \A q \in next.goal.ports \ next.todo : q = p \/ q \in pass.goal.ports \ pass.todo
    BY <1>3
  <2>4. \A q \in next.goal.ports \ next.todo :
          (next.pc \in PortSteps /\ q = next.cur) \/ Complete(q, u, next.goal, next.hosts)
    BY <1>1, <1>2, <1>3, <1>5, <2>3, CompleteElsewhere DEF PortsAchieved, PortSteps
  <2>5. \A q \in Ports : u.listener[q] # None => q \in next.old \cup (next.goal.ports \ next.todo)
    BY <1>2, <1>3, <1>5, <2>1 DEF PortsAchieved, Elsewhere
  <2>6. next.todo \subseteq next.goal.ports /\ next.old \cap (next.goal.ports \ next.todo) = {}
    BY <1>2, <1>3 DEF PortsAchieved
  <2>7. PortsAchieved(next, u)
    BY <2>4, <2>5, <2>6 DEF PortsAchieved
  <2> QED
    BY <1>3, <2>2, <2>7 DEF Achieved, OldSteps
<1>6. CASE Goto(next) /\ ListenerServes(Tree.listener[p], a)
  BY <1>3, <1>5, <1>6, SameElsewhere, GotoAchieves
<1>7. CASE Call(t, next)
  BY <1>2, <1>3, <1>4, <1>5, <1>7, CallStepAchieves
<1> QED
  BY <1>1, <1>6, <1>7

LEMMA EnsurePoolAchieves ==
  ASSUME Core, Achieved(pass, Tree), EnsurePool
  PROVE  Achieved(pass, Tree)'
<1> DEFINE next == [pass EXCEPT !.pc = "settings", !.backend = None]
           t == [Tree EXCEPT !.pool[pass.cur] = NewPool]
<1>1. /\ pass.pc = "pool"
      /\ pass' = Idle \/ Goto(next) \/ Call(t, next)
  BY DEF EnsurePool, At, Fail
<1>2. /\ pass.pc \in Working /\ pass \in Passes /\ Tree \in Trees
      /\ pass.pc \in PortSteps /\ PortAchieved(pass, Tree)
  BY <1>1, AchieveFacts DEF AchieveSteps, PortSteps
<1>3. /\ next \in Passes /\ next.pc = "settings" /\ next.lb = pass.lb /\ next.goal = pass.goal
      /\ next.hosts = pass.hosts /\ next.cur = pass.cur /\ next.todo = pass.todo
      /\ next.old = pass.old
  BY <1>2 DEF Passes, EnsureSteps
<1>4. Elsewhere(pass.cur, Tree, t) /\ t.listener = Tree.listener
  BY <1>2 DEF Trees, Elsewhere
<1> HIDE DEF next, t
<1>5. ASSUME NEW u, Elsewhere(pass.cur, Tree, u), u.listener = Tree.listener
      PROVE  Achieved(next, u)
  <2>1. PortAchieved(next, u) /\ next.pc \in PortSteps
    BY <1>2, <1>3, <1>5 DEF PortAchieved, PortSteps
  <2> QED
    BY <1>2, <1>3, <1>5, <2>1, SamePortAchieved
<1>6. CASE pass' = Idle
  BY <1>6, StopAchieves DEF Stopped
<1>7. CASE Goto(next)
  BY <1>3, <1>5, <1>7, SameElsewhere, GotoAchieves
<1>8. CASE Call(t, next)
  BY <1>2, <1>3, <1>4, <1>5, <1>8, CallStepAchieves
<1> QED
  BY <1>1, <1>6, <1>7, <1>8

LEMMA UpdatePoolAchieves ==
  ASSUME Core, Achieved(pass, Tree), UpdatePool
  PROVE  Achieved(pass, Tree)'
<1> DEFINE next == [pass EXCEPT !.pc = "members"]
           new == UpdatedPool(Tree.pool[pass.cur], pass.goal)
           t == [Tree EXCEPT !.pool[pass.cur] = new]
<1>1. /\ pass.pc = "settings"
      /\ \/ Goto(next) /\ PoolServes(Tree.pool[pass.cur], pass.goal)
         \/ CallOutcome(t, next)
      /\ PoolServes(new, pass.goal)
  <2>1. pass.pc = "settings"
    BY DEF UpdatePool, At
  <2>2. /\ Tree.pool[pass.cur] = new <=> PoolServes(Tree.pool[pass.cur], pass.goal)
        /\ PoolServes(new, pass.goal)
    BY <2>1, PoolInHand, UpdatedPoolHolds
  <2>3. (Tree.pool[pass.cur] = new /\ Goto(next)) \/ CallElse(t, next, Panic)
    BY DEF UpdatePool
  <2> HIDE DEF new, t, next
  <2>4. CallElse(t, next, Panic) => CallOutcome(t, next)
    BY DEF CallElse, CallOutcome, Panic, Stopped
  <2> QED  BY <2>1, <2>2, <2>3, <2>4
<1>2. /\ pass.pc \in Working /\ pass \in Passes /\ Tree \in Trees
      /\ pass.pc \in PortSteps /\ PortAchieved(pass, Tree) /\ pass.cur \in Ports
  BY <1>1, AchieveFacts DEF AchieveSteps, PortSteps, PortAchieved
<1>3. /\ next.pc = "members" /\ next.lb = pass.lb /\ next.goal = pass.goal
      /\ next.hosts = pass.hosts /\ next.cur = pass.cur /\ next.todo = pass.todo
      /\ next.old = pass.old
  BY <1>2 DEF Passes
<1>4. Elsewhere(pass.cur, Tree, t) /\ t.listener = Tree.listener
      /\ PoolServes(t.pool[pass.cur], pass.goal)
  BY <1>1, <1>2 DEF Trees, Elsewhere
<1> HIDE DEF next, t
<1>5. ASSUME NEW u, Elsewhere(pass.cur, Tree, u), u.listener = Tree.listener,
             PoolServes(u.pool[pass.cur], pass.goal)
      PROVE  Achieved(next, u)
  <2>1. PortAchieved(next, u) /\ next.pc \in PortSteps
    BY <1>2, <1>3, <1>5 DEF PortAchieved, PortSteps
  <2> QED
    BY <1>2, <1>3, <1>5, <2>1, SamePortAchieved
<1>6. CASE Goto(next) /\ PoolServes(Tree.pool[pass.cur], pass.goal)
  BY <1>3, <1>5, <1>6, SameElsewhere, GotoAchieves
<1>7. CASE CallOutcome(t, next)
  BY <1>2, <1>3, <1>4, <1>5, <1>7, CallAchieves
<1> QED
  BY <1>1, <1>6, <1>7

LEMMA ListMembersAchieves ==
  ASSUME Core, Achieved(pass, Tree), ListMembers
  PROVE  Achieved(pass, Tree)'
<1> DEFINE next == [pass EXCEPT !.pc = "add", !.left = pass.hosts,
                         !.stale = MembersOf(pass.cur)]
<1>1. pass.pc = "members" /\ Goto(next)
  BY DEF ListMembers, At
<1>2. /\ pass \in Passes /\ pass.pc \in PortSteps /\ PortAchieved(pass, Tree)
  BY <1>1, AchieveFacts DEF AchieveSteps, PortSteps
<1>3. /\ next.pc = "add" /\ next.lb = pass.lb /\ next.goal = pass.goal
      /\ next.hosts = pass.hosts /\ next.cur = pass.cur /\ next.todo = pass.todo
      /\ next.old = pass.old /\ next.left = pass.hosts /\ next.stale = MembersOf(pass.cur)
  BY <1>2 DEF Passes
<1> HIDE DEF next
<1>4. Visited(next) = {}
  BY <1>3 DEF Visited
<1>5. PortAchieved(next, Tree) /\ next.pc \in PortSteps
  BY <1>1, <1>2, <1>3, <1>4 DEF PortAchieved, PortSteps, MembersOf
<1> QED
  BY <1>1, <1>2, <1>3, <1>5, SameElsewhere, SamePortAchieved, GotoAchieves

LEMMA MembersEnsuredAchieves ==
  ASSUME Core, Achieved(pass, Tree), MembersEnsured
  PROVE  Achieved(pass, Tree)'
<1> DEFINE next == [pass EXCEPT !.pc = "drop"]
<1>1. pass.pc = "add" /\ pass.left = {} /\ Goto(next)
  BY DEF MembersEnsured, At
<1>2. /\ pass \in Passes /\ pass.pc \in PortSteps /\ PortAchieved(pass, Tree)
  BY <1>1, AchieveFacts DEF AchieveSteps, PortSteps
<1>3. /\ next.pc = "drop" /\ next.lb = pass.lb /\ next.goal = pass.goal
      /\ next.hosts = pass.hosts /\ next.cur = pass.cur /\ next.todo = pass.todo
      /\ next.old = pass.old /\ next.stale = pass.stale
  BY <1>2 DEF Passes
<1> HIDE DEF next
<1>4. Visited(next) = Visited(pass)
  BY <1>1, <1>3 DEF Visited
<1>5. PortAchieved(next, Tree) /\ next.pc \in PortSteps
  BY <1>1, <1>2, <1>3, <1>4 DEF PortAchieved, PortSteps
<1> QED
  BY <1>1, <1>2, <1>3, <1>5, SameElsewhere, SamePortAchieved, GotoAchieves

LEMMA MembersDroppedAchieves ==
  ASSUME Core, Achieved(pass, Tree), MembersDropped
  PROVE  Achieved(pass, Tree)'
<1> DEFINE next == [pass EXCEPT !.pc = "monitor"]
<1>1. pass.pc = "drop" /\ pass.stale = {} /\ Goto(next)
  BY DEF MembersDropped, At
<1>2. /\ pass \in Passes /\ pass.pc \in PortSteps /\ PortAchieved(pass, Tree)
  BY <1>1, AchieveFacts DEF AchieveSteps, PortSteps
<1>3. /\ next.pc = "monitor" /\ next.lb = pass.lb /\ next.goal = pass.goal
      /\ next.hosts = pass.hosts /\ next.cur = pass.cur /\ next.todo = pass.todo
      /\ next.old = pass.old /\ next.stale = pass.stale
  BY <1>2 DEF Passes
<1> HIDE DEF next
<1>4. Visited(next) = Visited(pass)
  BY <1>1, <1>3 DEF Visited
<1>5. PortAchieved(next, Tree) /\ next.pc \in PortSteps
  BY <1>1, <1>2, <1>3, <1>4 DEF PortAchieved, PortSteps
<1> QED
  BY <1>1, <1>2, <1>3, <1>5, SameElsewhere, SamePortAchieved, GotoAchieves

LEMMA VisitedNext ==
  ASSUME NEW p, NEW next, NEW n, p.pc = "add", next.pc = "add",
         n \in p.left, p.left \subseteq p.hosts, next.left = p.left \ {n},
         next.hosts = p.hosts, next.goal = p.goal
  PROVE  \A b : b \in Visited(next) <=> b \in Visited(p) \/ b = <<n, p.goal.np>>
<1>1. \A m : m \in next.hosts \ next.left <=> m \in p.hosts \ p.left \/ m = n
  OBVIOUS
<1> QED
  BY <1>1 DEF Visited

LEMMA EnsureMemberAchieves ==
  ASSUME Core, Achieved(pass, Tree), NEW n \in Nodes, EnsureMember(n)
  PROVE  Achieved(pass, Tree)'
<1> DEFINE b == <<n, pass.goal.np>>
           next == [pass EXCEPT !.left = @ \ {n}]
           popped == [next EXCEPT !.stale = @ \ {b}]
           t == [Tree EXCEPT !.member = @ \cup {<<pass.cur, b>>}]
<1>1. /\ pass.pc = "add" /\ n \in pass.left
      /\ \/ pass' = Idle
         \/ b \in pass.stale /\ Goto(popped)
         \/ b \notin pass.stale /\ Call(t, next)
  BY DEF EnsureMember, At, Fail
<1>2. /\ pass.pc \in Working /\ pass \in Passes /\ Tree \in Trees
      /\ pass.pc \in PortSteps /\ PortAchieved(pass, Tree)
      /\ pass.goal.np \in NodePorts
  BY <1>1, AchieveFacts DEF AchieveSteps, PortSteps
<1>3. /\ next \in Passes /\ next.pc = "add" /\ next.lb = pass.lb /\ next.goal = pass.goal
      /\ next.hosts = pass.hosts /\ next.cur = pass.cur /\ next.todo = pass.todo
      /\ next.old = pass.old /\ next.stale = pass.stale /\ next.left = pass.left \ {n}
  BY <1>1, <1>2 DEF Passes
<1>4. /\ popped.pc = "add" /\ popped.lb = pass.lb /\ popped.goal = pass.goal
      /\ popped.hosts = pass.hosts /\ popped.cur = pass.cur /\ popped.todo = pass.todo
      /\ popped.old = pass.old /\ popped.stale = pass.stale \ {b}
      /\ popped.left = pass.left \ {n}
  BY <1>1, <1>2 DEF Passes
<1>5. /\ t.listener = Tree.listener /\ t.pool = Tree.pool /\ t.monitor = Tree.monitor
      /\ t.member = Tree.member \cup {<<pass.cur, b>>}
  BY <1>2 DEF Trees
<1>6. b \in Backends /\ b = <<n, pass.goal.np>>
  BY <1>2 DEF Backends
<1> HIDE DEF next, popped, t, b
<1>7. Elsewhere(pass.cur, Tree, t)
  BY <1>5 DEF Elsewhere
<1>8. /\ pass.left \subseteq pass.hosts
      /\ pass.cur \in pass.goal.ports \ pass.todo
      /\ ListenerServes(Tree.listener[pass.cur], pass.goal.ann)
      /\ PoolServes(Tree.pool[pass.cur], pass.goal)
      /\ \A c \in Backends : <<pass.cur, c>> \in Tree.member <=> c \in pass.stale \/ c \in Visited(pass)
      /\ \A c \in pass.stale : c \notin Visited(pass)
  BY <1>1, <1>2 DEF PortAchieved, PortSteps
<1>9. /\ \A c : c \in Visited(next) <=> c \in Visited(pass) \/ c = b
      /\ \A c : c \in Visited(popped) <=> c \in Visited(pass) \/ c = b
  BY <1>1, <1>3, <1>4, <1>6, <1>8, VisitedNext
<1>10. CASE pass' = Idle
  BY <1>10, StopAchieves DEF Stopped
<1>11. CASE b \in pass.stale /\ Goto(popped)
  <2>1. PortAchieved(popped, Tree) /\ popped.pc \in PortSteps
    BY <1>4, <1>8, <1>9, <1>11 DEF PortAchieved, PortSteps
  <2> QED
    BY <1>2, <1>4, <1>11, <2>1, SameElsewhere, SamePortAchieved, GotoAchieves
<1>12. CASE b \notin pass.stale /\ Call(t, next)
  <2>1. PortAchieved(next, t) /\ next.pc \in PortSteps
    BY <1>3, <1>5, <1>8, <1>9, <1>12 DEF PortAchieved, PortSteps
  <2>2. Achieved(next, t)
    BY <1>2, <1>3, <1>5, <1>7, <2>1, SamePortAchieved
  <2> QED
    BY <1>2, <1>3, <1>12, <2>2, CallStepAchieves
<1> QED
  BY <1>1, <1>10, <1>11, <1>12

LEMMA DropMemberAchieves ==
  ASSUME Core, Achieved(pass, Tree), DropMember
  PROVE  Achieved(pass, Tree)'
<1>1. PICK b \in pass.stale : DeleteMember(b)
  BY DEF DropMember
<1> DEFINE next == [pass EXCEPT !.stale = @ \ {b}]
           t == [Tree EXCEPT !.member = @ \ {<<pass.cur, b>>}]
<1>2. pass.pc = "drop" /\ Call(t, next)
  BY <1>1 DEF DropMember, DeleteMember, At
<1>3. /\ pass.pc \in Working /\ pass \in Passes /\ Tree \in Trees
      /\ pass.pc \in PortSteps /\ PortAchieved(pass, Tree)
  BY <1>2, AchieveFacts DEF AchieveSteps, PortSteps
<1>4. /\ next \in Passes /\ next.pc = "drop" /\ next.lb = pass.lb /\ next.goal = pass.goal
      /\ next.hosts = pass.hosts /\ next.cur = pass.cur /\ next.todo = pass.todo
      /\ next.old = pass.old /\ next.stale = pass.stale \ {b}
  BY <1>2, <1>3 DEF Passes
<1>5. /\ t.listener = Tree.listener /\ t.pool = Tree.pool /\ t.monitor = Tree.monitor
      /\ t.member = Tree.member \ {<<pass.cur, b>>}
  BY <1>3 DEF Trees
<1> HIDE DEF next, t
<1>6. Elsewhere(pass.cur, Tree, t)
  BY <1>5 DEF Elsewhere
<1>7. Visited(next) = Visited(pass)
  BY <1>2, <1>4 DEF Visited
<1>8. /\ pass.cur \in pass.goal.ports \ pass.todo
      /\ ListenerServes(Tree.listener[pass.cur], pass.goal.ann)
      /\ PoolServes(Tree.pool[pass.cur], pass.goal)
      /\ \A c \in Backends : <<pass.cur, c>> \in Tree.member <=> c \in pass.stale \/ c \in Visited(pass)
      /\ \A c \in pass.stale : c \notin Visited(pass)
  BY <1>2, <1>3 DEF PortAchieved, PortSteps
<1>9. PortAchieved(next, t) /\ next.pc \in PortSteps
  BY <1>1, <1>4, <1>5, <1>7, <1>8 DEF PortAchieved, PortSteps
<1>10. Achieved(next, t)
  BY <1>3, <1>4, <1>5, <1>6, <1>9, SamePortAchieved
<1> QED
  BY <1>2, <1>3, <1>4, <1>10, CallStepAchieves

\* The port in hand is complete once its monitor is there.
LEMMA EnsureMonitorAchieves ==
  ASSUME Core, Achieved(pass, Tree), EnsureMonitor
  PROVE  Achieved(pass, Tree)'
<1> DEFINE next == [pass EXCEPT !.pc = "port", !.cur = None]
           t == [Tree EXCEPT !.monitor = @ \cup {pass.cur}]
<1>1. /\ pass.pc = "monitor"
      /\ \/ pass' = Idle
         \/ (CreateMonitor => pass.cur \in Tree.monitor) /\ Goto(next)
         \/ Call(t, next)
  BY DEF EnsureMonitor, At, Fail
<1>2. /\ pass.pc \in Working /\ pass \in Passes /\ Tree \in Trees
      /\ PortAchieved(pass, Tree) /\ PortsAchieved(pass, Tree)
      /\ pass.goal.ports \subseteq Ports
  BY <1>1, AchieveFacts DEF AchieveSteps, PortSteps
<1>3. /\ next \in Passes /\ next.pc = "port" /\ next.lb = pass.lb /\ next.goal = pass.goal
      /\ next.hosts = pass.hosts /\ next.todo = pass.todo /\ next.old = pass.old
  BY <1>2 DEF Passes, EnsureSteps
<1>4. /\ t.listener = Tree.listener /\ t.pool = Tree.pool /\ t.member = Tree.member
      /\ t.monitor = Tree.monitor \cup {pass.cur}
  BY <1>2 DEF Trees
<1> HIDE DEF next, t
<1>5. Elsewhere(pass.cur, Tree, t)
  BY <1>4 DEF Elsewhere
<1>6. /\ pass.cur \in pass.goal.ports \ pass.todo
      /\ ListenerServes(Tree.listener[pass.cur], pass.goal.ann)
      /\ PoolServes(Tree.pool[pass.cur], pass.goal)
      /\ \A c \in Backends : <<pass.cur, c>> \in Tree.member <=> c \in pass.hosts \X {pass.goal.np}
  BY <1>1, <1>2 DEF PortAchieved, PortSteps, Visited
<1>7. ASSUME NEW u, Elsewhere(pass.cur, Tree, u), u.listener = Tree.listener,
             u.pool = Tree.pool, u.member = Tree.member,
             CreateMonitor => pass.cur \in u.monitor
      PROVE  Achieved(next, u)
  <2>1. Complete(pass.cur, u, pass.goal, pass.hosts)
    BY <1>6, <1>7 DEF Complete
  <2>2. \A q \in pass.goal.ports \ pass.todo : Complete(q, u, pass.goal, pass.hosts)
    BY <1>2, <1>7, <2>1, CompleteElsewhere DEF PortsAchieved
  <2>3. PortsAchieved(next, u)
    BY <1>2, <1>3, <1>7, <2>2 DEF PortsAchieved
  <2> QED
    BY <1>3, <2>3 DEF Achieved, PortAchieved, PortSteps, OldSteps
<1>8. CASE pass' = Idle
  BY <1>8, StopAchieves DEF Stopped
<1>9. CASE (CreateMonitor => pass.cur \in Tree.monitor) /\ Goto(next)
  BY <1>3, <1>7, <1>9, SameElsewhere, GotoAchieves
<1>10. CASE Call(t, next)
  BY <1>2, <1>3, <1>4, <1>5, <1>7, <1>10, CallStepAchieves
<1> QED
  BY <1>1, <1>8, <1>9, <1>10

-----------------------------------------------------------------------------
(* The obsolete listeners.                                                 *)

\* An obsolete port is none of the ports that were dealt with.
LEMMA OldFacts ==
  ASSUME Core, pass.pc \in OldSteps, Achieved(pass, Tree)
  PROVE  /\ pass.pc \in Working /\ pass \in Passes /\ Tree \in Trees
         /\ pass.todo = {} /\ pass.cur \in pass.old /\ pass.old \subseteq Ports
         /\ pass.goal.ports \subseteq Ports
         /\ pass.cur \notin pass.goal.ports
         /\ pass.old \cap pass.goal.ports = {}
         /\ \A q \in Ports : Tree.listener[q] # None => q \in pass.old \cup pass.goal.ports
         /\ \A q \in pass.goal.ports : Complete(q, Tree, pass.goal, pass.hosts)
<1>1. /\ pass.pc \in AchieveSteps /\ pass.todo = {} /\ pass.cur \in pass.old
      /\ pass.pc \notin PortSteps
  BY DEF Achieved, AchieveSteps, PortSteps, OldSteps
<1>2. /\ PortsAchieved(pass, Tree) /\ pass.goal.ports \subseteq Ports
      /\ pass.pc \in Working /\ pass \in Passes /\ Tree \in Trees
      /\ pass.old \subseteq Ports
  BY <1>1, AchieveFacts
<1> QED
  BY <1>1, <1>2 DEF PortsAchieved

\* A step that leaves the listeners and the ports that were dealt with alone.
LEMMA OldStepAchieved ==
  ASSUME Core, Achieved(pass, Tree), pass.pc \in OldSteps,
         NEW next, next.pc \in OldSteps, next.goal = pass.goal,
         next.hosts = pass.hosts, next.cur = pass.cur, next.todo = pass.todo,
         next.old = pass.old,
         NEW t, Elsewhere(pass.cur, Tree, t), t.listener = Tree.listener
  PROVE  Achieved(next, t)
<1>1. PortsAchieved(next, t)
  BY OldFacts, CompleteElsewhere DEF PortsAchieved
<1> QED
  BY <1>1, OldFacts DEF Achieved, PortAchieved, PortSteps, OldSteps

LEMMA PortsEnsuredAchieves ==
  ASSUME Core, Achieved(pass, Tree), PortsEnsured
  PROVE  Achieved(pass, Tree)'
<1> DEFINE next == [pass EXCEPT !.pc = "obsolete"]
<1>1. pass.pc = "port" /\ pass.todo = {} /\ Goto(next)
  BY DEF PortsEnsured, At
<1>2. pass \in Passes /\ PortsAchieved(pass, Tree)
  BY <1>1, AchieveFacts DEF AchieveSteps
<1>3. /\ next.pc = "obsolete" /\ next.lb = pass.lb /\ next.goal = pass.goal
      /\ next.hosts = pass.hosts /\ next.todo = pass.todo /\ next.old = pass.old
  BY <1>2 DEF Passes
<1> HIDE DEF next
<1>4. Achieved(next, Tree)
  BY <1>1, <1>2, <1>3 DEF Achieved, PortsAchieved, PortAchieved, PortSteps, OldSteps
<1> QED
  BY <1>1, <1>3, <1>4, GotoAchieves

LEMMA PickObsoleteAchieves ==
  ASSUME Core, Achieved(pass, Tree), NEW p \in Ports, PickObsolete(p)
  PROVE  Achieved(pass, Tree)'
<1> DEFINE next == [pass EXCEPT !.pc = "oldMonitor", !.cur = p]
<1>1. pass.pc = "obsolete" /\ p \in pass.old /\ Goto(next)
  BY DEF PickObsolete, At
<1>2. pass \in Passes /\ PortsAchieved(pass, Tree) /\ pass.todo = {}
  BY <1>1, AchieveFacts DEF AchieveSteps, Achieved
<1>3. /\ next.pc = "oldMonitor" /\ next.lb = pass.lb /\ next.goal = pass.goal
      /\ next.hosts = pass.hosts /\ next.todo = pass.todo /\ next.old = pass.old
      /\ next.cur = p
  BY <1>2 DEF Passes
<1> HIDE DEF next
<1>4. Achieved(next, Tree)
  BY <1>1, <1>2, <1>3 DEF Achieved, PortsAchieved, PortAchieved, PortSteps, OldSteps
<1> QED
  BY <1>1, <1>3, <1>4, GotoAchieves

LEMMA ObsoleteDroppedAchieves ==
  ASSUME Core, Achieved(pass, Tree), ObsoleteDropped
  PROVE  Achieved(pass, Tree)'
<1> DEFINE next == [pass EXCEPT !.pc = "done"]
<1>1. pass.pc = "obsolete" /\ pass.old = {} /\ Goto(next)
  BY DEF ObsoleteDropped, At
<1>2. pass \in Passes /\ PortsAchieved(pass, Tree) /\ pass.todo = {}
  BY <1>1, AchieveFacts DEF AchieveSteps, Achieved
<1>3. /\ next.pc = "done" /\ next.lb = pass.lb /\ next.goal = pass.goal
      /\ next.hosts = pass.hosts /\ next.todo = pass.todo /\ next.old = pass.old
  BY <1>2 DEF Passes
<1> HIDE DEF next
<1>4. Achieved(next, Tree)
  BY <1>1, <1>2, <1>3 DEF Achieved, PortsAchieved, PortAchieved, PortSteps, OldSteps
<1> QED
  BY <1>1, <1>3, <1>4, GotoAchieves

LEMMA DropOldMonitorAchieves ==
  ASSUME Core, Achieved(pass, Tree), DropOldMonitor
  PROVE  Achieved(pass, Tree)'
<1> DEFINE bare == [pass EXCEPT !.pc = "oldListener"]
           next == [pass EXCEPT !.pc = "oldMembers"]
           t == [Tree EXCEPT !.monitor = @ \ {pass.cur}]
<1>1. /\ pass.pc = "oldMonitor"
      /\ Goto(bare) \/ Goto(next) \/ Call(t, next)
  BY DEF DropOldMonitor, At
<1>2. pass.pc \in OldSteps /\ pass.pc \in Working /\ pass \in Passes /\ Tree \in Trees
  BY <1>1, OldFacts DEF OldSteps
<1>3. /\ next \in Passes /\ next.pc = "oldMembers" /\ next.lb = pass.lb
      /\ next.goal = pass.goal /\ next.hosts = pass.hosts /\ next.cur = pass.cur
      /\ next.todo = pass.todo /\ next.old = pass.old
  BY <1>2 DEF Passes, EnsureSteps
<1>4. /\ bare.pc = "oldListener" /\ bare.lb = pass.lb
      /\ bare.goal = pass.goal /\ bare.hosts = pass.hosts /\ bare.cur = pass.cur
      /\ bare.todo = pass.todo /\ bare.old = pass.old
  BY <1>2 DEF Passes
<1>5. /\ t.listener = Tree.listener /\ t.pool = Tree.pool /\ t.member = Tree.member
      /\ t.monitor = Tree.monitor \ {pass.cur}
  BY <1>2 DEF Trees
<1> HIDE DEF next, bare, t
<1>6. Elsewhere(pass.cur, Tree, t)
  BY <1>5 DEF Elsewhere
<1>7. next.pc \in OldSteps /\ bare.pc \in OldSteps
  BY <1>3, <1>4 DEF OldSteps
<1>8. CASE Goto(bare)
  BY <1>2, <1>4, <1>7, <1>8, SameElsewhere, OldStepAchieved, GotoAchieves
<1>9. CASE Goto(next)
  BY <1>2, <1>3, <1>7, <1>9, SameElsewhere, OldStepAchieved, GotoAchieves
<1>10. CASE Call(t, next)
  <2>1. Achieved(next, t)
    BY <1>2, <1>3, <1>5, <1>6, <1>7, OldStepAchieved
  <2> QED
    BY <1>2, <1>3, <1>10, <2>1, CallStepAchieves
<1> QED
  BY <1>1, <1>8, <1>9, <1>10

LEMMA ListOldMembersAchieves ==
  ASSUME Core, Achieved(pass, Tree), ListOldMembers
  PROVE  Achieved(pass, Tree)'
<1> DEFINE next == [pass EXCEPT !.pc = "oldPool", !.stale = MembersOf(pass.cur)]
<1>1. pass.pc = "oldMembers" /\ Goto(next)
  BY DEF ListOldMembers, At
<1>2. pass.pc \in OldSteps /\ pass \in Passes
  BY <1>1, OldFacts DEF OldSteps
<1>3. /\ next.pc = "oldPool" /\ next.lb = pass.lb
      /\ next.goal = pass.goal /\ next.hosts = pass.hosts /\ next.cur = pass.cur
      /\ next.todo = pass.todo /\ next.old = pass.old
  BY <1>2 DEF Passes
<1> HIDE DEF next
<1>4. Achieved(next, Tree)
  BY <1>2, <1>3, SameElsewhere, OldStepAchieved DEF OldSteps
<1> QED
  BY <1>1, <1>3, <1>4, GotoAchieves

LEMMA DropOldMemberAchieves ==
  ASSUME Core, Achieved(pass, Tree), DropOldMember
  PROVE  Achieved(pass, Tree)'
<1>1. PICK b \in pass.stale : DeleteMember(b)
  BY DEF DropOldMember
<1> DEFINE next == [pass EXCEPT !.stale = @ \ {b}]
           t == [Tree EXCEPT !.member = @ \ {<<pass.cur, b>>}]
<1>2. pass.pc = "oldPool" /\ Call(t, next)
  BY <1>1 DEF DropOldMember, DeleteMember, At
<1>3. pass.pc \in OldSteps /\ pass.pc \in Working /\ pass \in Passes /\ Tree \in Trees
  BY <1>2, OldFacts DEF OldSteps
<1>4. /\ next \in Passes /\ next.pc = "oldPool" /\ next.lb = pass.lb /\ next.goal = pass.goal
      /\ next.hosts = pass.hosts /\ next.cur = pass.cur /\ next.todo = pass.todo
      /\ next.old = pass.old
  BY <1>2, <1>3 DEF Passes
<1>5. /\ t.listener = Tree.listener /\ t.pool = Tree.pool /\ t.monitor = Tree.monitor
      /\ t.member = Tree.member \ {<<pass.cur, b>>}
  BY <1>3 DEF Trees
<1> HIDE DEF next, t
<1>6. Elsewhere(pass.cur, Tree, t)
  BY <1>5 DEF Elsewhere
<1>7. Achieved(next, t)
  BY <1>3, <1>4, <1>5, <1>6, OldStepAchieved DEF OldSteps
<1> QED
  BY <1>2, <1>3, <1>4, <1>7, CallStepAchieves

LEMMA DropOldPoolAchieves ==
  ASSUME Core, Achieved(pass, Tree), DropOldPool
  PROVE  Achieved(pass, Tree)'
<1> DEFINE next == [pass EXCEPT !.pc = "oldListener"]
           t == [Tree EXCEPT !.pool[pass.cur] = None]
<1>1. pass.pc = "oldPool" /\ Call(t, next)
  BY DEF DropOldPool, At
<1>2. pass.pc \in OldSteps /\ pass.pc \in Working /\ pass \in Passes /\ Tree \in Trees
  BY <1>1, OldFacts DEF OldSteps
<1>3. /\ next \in Passes /\ next.pc = "oldListener" /\ next.lb = pass.lb
      /\ next.goal = pass.goal /\ next.hosts = pass.hosts /\ next.cur = pass.cur
      /\ next.todo = pass.todo /\ next.old = pass.old
  BY <1>2 DEF Passes, EnsureSteps
<1>4. t.listener = Tree.listener /\ Elsewhere(pass.cur, Tree, t)
  BY <1>2 DEF Trees, Elsewhere
<1> HIDE DEF next, t
<1>5. Achieved(next, t)
  BY <1>2, <1>3, <1>4, OldStepAchieved DEF OldSteps
<1> QED
  BY <1>1, <1>2, <1>3, <1>5, CallStepAchieves

LEMMA DropOldListenerAchieves ==
  ASSUME Core, Achieved(pass, Tree), DropOldListener
  PROVE  Achieved(pass, Tree)'
<1> DEFINE next == [pass EXCEPT !.pc = "obsolete", !.old = @ \ {pass.cur}, !.cur = None]
           t == [Tree EXCEPT !.listener[pass.cur] = None]
<1>1. pass.pc = "oldListener" /\ Call(t, next)
  BY DEF DropOldListener, At
<1>2. pass.pc \in OldSteps /\ pass.pc \in Working /\ pass \in Passes /\ Tree \in Trees
  BY <1>1, OldFacts DEF OldSteps
<1>3. /\ next \in Passes /\ next.pc = "obsolete" /\ next.lb = pass.lb
      /\ next.goal = pass.goal /\ next.hosts = pass.hosts
      /\ next.todo = pass.todo /\ next.old = pass.old \ {pass.cur}
  BY <1>2 DEF Passes, EnsureSteps
<1>4. pass.cur \in Ports
  BY <1>2, OldFacts
<1>5. t.listener[pass.cur] = None /\ Elsewhere(pass.cur, Tree, t)
  BY <1>2, <1>4 DEF Trees, Elsewhere
<1> HIDE DEF next, t
<1>6. \A q \in next.goal.ports : Complete(q, t, next.goal, next.hosts)
  BY <1>2, <1>3, <1>5, OldFacts, CompleteElsewhere
<1>7. \A q \in Ports : t.listener[q] # None => q \in next.old \cup next.goal.ports
  BY <1>2, <1>3, <1>5, OldFacts DEF Elsewhere
<1>8. PortsAchieved(next, t)
  BY <1>2, <1>3, <1>6, <1>7, OldFacts DEF PortsAchieved
<1>9. Achieved(next, t)
  BY <1>2, <1>3, <1>8, OldFacts DEF Achieved, PortAchieved, PortSteps, OldSteps
<1> QED
  BY <1>1, <1>2, <1>3, <1>9, CallStepAchieves

-----------------------------------------------------------------------------
(* The other steps: the pass waits, or is at a step at which nothing has been *)
(* achieved yet.                                                           *)

LEMMA WaitReadyAchieves ==
  ASSUME Core, Achieved(pass, Tree), WaitReady
  PROVE  Achieved(pass, Tree)'
<1>1. pass \in Passes /\ Goto([pass EXCEPT !.waiting = FALSE])
  BY DEF Core, WaitReady
<1> QED
  BY <1>1, WaitingAchieved, GotoAchieves

LEMMA RestAchieves ==
  ASSUME pass'.pc \notin AchieveSteps
  PROVE  Achieved(pass, Tree)'
  BY NothingAchieved

LEMMA GotoRests ==
  ASSUME NEW next, next.pc \notin AchieveSteps, Goto(next)
  PROVE  Achieved(pass, Tree)'
  BY RestAchieves DEF Goto

LEMMA CallRests ==
  ASSUME NEW t, NEW next \in Passes, next.pc \notin AchieveSteps, Call(t, next)
  PROVE  Achieved(pass, Tree)'
<1>1. pass' = [next EXCEPT !.waiting = TRUE] \/ pass' = Idle
  BY DEF Call, CallElse, Fail
<1>2. [next EXCEPT !.waiting = TRUE].pc = next.pc
  BY DEF Passes
<1> QED
  BY <1>1, <1>2, RestAchieves, StopAchieves DEF Stopped

LEMMA CreateAchieves ==
  ASSUME Core, CreateLoadBalancer
  PROVE  Achieved(pass, Tree)'
<1>1. pass' = Idle \/ pass'.pc = "list"
  BY DEF Core, CreateLoadBalancer, Fail, Passes
<1> QED
  BY <1>1, RestAchieves, StopAchieves DEF Stopped, AchieveSteps, PortSteps, OldSteps

LEMMA DeleteStepAchieves ==
  ASSUME Core,
         \/ ListForDelete \/ MonitorsDeleted \/ DeletePoolMember \/ DeletePool
         \/ PoolsDeleted \/ ListenersDeleted \/ DeleteLoadBalancer
         \/ \E p \in Ports : DeleteMonitor(p) \/ PickPool(p) \/ DeleteListener(p)
  PROVE  Achieved(pass, Tree)'
<1>1. /\ pass \in Passes
      /\ \A s \in DeleteSteps : s \notin AchieveSteps
  BY DEF Core, DeleteSteps, AchieveSteps, PortSteps, OldSteps
<1>2. CASE ListForDelete
  <2>1. pass'.pc = "dMonitors"
    BY <1>1, <1>2 DEF ListForDelete, Goto, Passes
  <2> QED
    BY <1>1, <2>1, RestAchieves DEF DeleteSteps
<1>3. CASE MonitorsDeleted \/ PoolsDeleted \/ ListenersDeleted
  <2>1. pass'.pc \in DeleteSteps
    BY <1>1, <1>3 DEF MonitorsDeleted, PoolsDeleted, ListenersDeleted, Goto, Passes, DeleteSteps
  <2> QED
    BY <1>1, <2>1, RestAchieves
<1>4. ASSUME NEW p \in Ports, PickPool(p) PROVE Achieved(pass, Tree)'
  <2>1. pass'.pc = "dMembers"
    BY <1>1, <1>4 DEF PickPool, Goto, Passes
  <2> QED
    BY <1>1, <2>1, RestAchieves DEF DeleteSteps
<1>5. ASSUME NEW p \in Ports, DeleteMonitor(p) PROVE Achieved(pass, Tree)'
  <2> DEFINE next == [pass EXCEPT !.mons = @ \ {p}]
  <2>1. next \in Passes /\ next.pc = "dMonitors"
    BY <1>1, <1>5 DEF DeleteMonitor, At, Passes
  <2>2. PICK t : Call(t, next)
    BY <1>5 DEF DeleteMonitor
  <2> HIDE DEF next
  <2> QED
    BY <1>1, <2>1, <2>2, CallRests DEF DeleteSteps
<1>6. ASSUME NEW p \in Ports, DeleteListener(p) PROVE Achieved(pass, Tree)'
  <2> DEFINE next == [pass EXCEPT !.old = @ \ {p}]
  <2>1. next \in Passes /\ next.pc = "dListeners"
    BY <1>1, <1>6 DEF DeleteListener, At, Passes
  <2>2. PICK t : Call(t, next)
    BY <1>6 DEF DeleteListener
  <2> HIDE DEF next
  <2> QED
    BY <1>1, <2>1, <2>2, CallRests DEF DeleteSteps
<1>7. CASE DeletePoolMember
  <2>1. PICK b \in pass.stale : DeleteMember(b)
    BY <1>7 DEF DeletePoolMember
  <2> DEFINE next == [pass EXCEPT !.stale = @ \ {b}]
  <2>2. next \in Passes /\ next.pc = "dMembers"
    BY <1>1, <1>7 DEF DeletePoolMember, At, Passes
  <2>3. PICK t : Call(t, next)
    BY <2>1 DEF DeleteMember
  <2> HIDE DEF next
  <2> QED
    BY <1>1, <2>2, <2>3, CallRests DEF DeleteSteps
<1>8. CASE DeletePool
  <2> DEFINE next == [pass EXCEPT !.pc = "dPools", !.todo = @ \ {pass.cur}, !.cur = None]
  <2>1. next \in Passes /\ next.pc = "dPools"
    BY <1>1, <1>8 DEF DeletePool, At, Passes, DeleteSteps
  <2>2. PICK t : Call(t, next)
    BY <1>8 DEF DeletePool
  <2> HIDE DEF next
  <2> QED
    BY <1>1, <2>1, <2>2, CallRests DEF DeleteSteps
<1>9. CASE DeleteLoadBalancer
  <2>1. pass' = Idle \/ pass'.pc = "gone"
    BY <1>1, <1>9 DEF DeleteLoadBalancer, Fail, Passes
  <2> QED
    BY <1>1, <2>1, RestAchieves, StopAchieves DEF Stopped, DeleteSteps
<1> QED
  BY <1>2, <1>3, <1>4, <1>5, <1>6, <1>7, <1>8, <1>9

LEMMA PassStepAchieves ==
  ASSUME Core, Achieved(pass, Tree), PassStep
  PROVE  Achieved(pass, Tree)'
<1>1. CASE WaitFails \/ ReadFails \/ DeleteTimesOut \/ EnsureReturns
  BY <1>1, StopAchieves
     DEF WaitFails, ReadFails, DeleteTimesOut, EnsureReturns, Fail, Goto, Stopped
<1>2. CASE \E p \in Ports : EnsureListener(p) \/ PickObsolete(p)
  BY <1>2, EnsureListenerAchieves, PickObsoleteAchieves
<1>3. CASE \E n \in Nodes : EnsureMember(n)
  BY <1>3, EnsureMemberAchieves
<1>4. CASE \/ WaitReady \/ CreateLoadBalancer \/ ListListeners \/ EnsurePool
           \/ UpdatePool \/ ListMembers \/ MembersEnsured
  BY <1>4, WaitReadyAchieves, CreateAchieves, ListListenersAchieves,
     EnsurePoolAchieves, UpdatePoolAchieves, ListMembersAchieves,
     MembersEnsuredAchieves
<1>5. CASE \/ DropMember \/ MembersDropped \/ EnsureMonitor \/ PortsEnsured
  BY <1>5, DropMemberAchieves, MembersDroppedAchieves, EnsureMonitorAchieves,
     PortsEnsuredAchieves
<1>6. CASE \/ DropOldMonitor \/ ListOldMembers \/ DropOldMember \/ DropOldPool
           \/ DropOldListener \/ ObsoleteDropped
  BY <1>6, DropOldMonitorAchieves, ListOldMembersAchieves,
     DropOldMemberAchieves, DropOldPoolAchieves, DropOldListenerAchieves,
     ObsoleteDroppedAchieves
<1>7. CASE \/ ListForDelete \/ MonitorsDeleted \/ DeletePoolMember \/ DeletePool
           \/ PoolsDeleted \/ ListenersDeleted \/ DeleteLoadBalancer
           \/ \E p \in Ports : DeleteMonitor(p) \/ PickPool(p) \/ DeleteListener(p)
  BY <1>7, DeleteStepAchieves
<1> QED
  BY <1>1, <1>2, <1>3, <1>4, <1>5, <1>6, <1>7 DEF PassStep

LEMMA NextAchieves ==
  ASSUME Core, Achieved(pass, Tree), [Next]_vars
  PROVE  Achieved(pass, Tree)'
<1>1. pass \in Passes
  BY DEF Core
<1>2. CASE PassStep
  BY <1>2, PassStepAchieves
<1>3. CASE BeginDelete \/ \E hosts \in HostSets : BeginEnsure(hosts)
  <2>1. pass'.pc = "lookup"
    BY <1>3 DEF BeginDelete, BeginEnsure, Idle
  <2> QED
    BY <2>1, RestAchieves DEF AchieveSteps, PortSteps, OldSteps
<1>4. ASSUME NEW hosts \in HostSets, EnsureRejected(hosts)
      PROVE  Achieved(pass, Tree)'
  <2>1. pass'.pc = "idle"
    BY <1>4 DEF EnsureRejected
  <2> QED
    BY <2>1, RestAchieves DEF AchieveSteps, PortSteps, OldSteps
<1>5. CASE LookupAmbiguous \/ DeleteReturns
  BY <1>5, StopAchieves DEF LookupAmbiguous, DeleteReturns, Fail, Goto, Stopped
<1>6. CASE LookupFindsNone \/ \E l \in LBs : LookupFinds(l)
  <2>1. pass' = Idle \/ pass'.pc \in {"create", "snapshot", "list"}
    BY <1>1, <1>6 DEF LookupFindsNone, LookupFinds, Goto, Passes
  <2> QED
    BY <2>1, RestAchieves, StopAchieves DEF Stopped, AchieveSteps, PortSteps, OldSteps
<1>7. CASE Edit \/ UNCHANGED vars \/ \E l \in LBs : Settle(l) \/ SettleError(l)
  <2>1. pass' = pass /\ tree' = tree
    BY <1>7 DEF Edit, Settle, SettleError, vars, cloud
  <2> QED
    BY <2>1 DEF Tree
<1>8. CASE Crash \/ Restart
  BY <1>8, StopAchieves DEF Crash, Restart, Panic, Stopped
<1> QED
  BY <1>2, <1>3, <1>4, <1>5, <1>6, <1>7, <1>8 DEF Next, Controller

-----------------------------------------------------------------------------
(* Without create-monitor there is never a health monitor.                 *)

NoNewMonitors == \A l \in LBs : tree'[l].monitor \subseteq tree[l].monitor

LEMMA CallNoNewMonitors ==
  ASSUME Core, pass.pc \in Working, NEW t, NEW next,
         t.monitor \subseteq Tree.monitor, Call(t, next)
  PROVE  NoNewMonitors
<1>1. tree' = tree \/ tree' = [tree EXCEPT ![pass.lb] = t]
  BY DEF Call, CallElse, cloud
<1> QED
  BY <1>1, InHand DEF Core, Tree, NoNewMonitors

LEMMA PassStepNoNewMonitors ==
  ASSUME Core, ~CreateMonitor, PassStep
  PROVE  NoNewMonitors
<1>1. UNCHANGED tree => NoNewMonitors
  BY DEF NoNewMonitors
<1>2. \A s \in (EnsureSteps \ {"create"}) \cup DeleteSteps : s \in Working
  BY DEF Working
<1>3. pass.pc \in Working => pass \in Passes /\ Tree \in Trees
  BY InHand
<1>4. CASE \/ WaitReady \/ WaitFails \/ ReadFails \/ ListListeners
           \/ ListMembers \/ MembersEnsured \/ MembersDropped \/ PortsEnsured
           \/ ListOldMembers \/ ObsoleteDropped \/ EnsureReturns
           \/ ListForDelete \/ MonitorsDeleted \/ PoolsDeleted
           \/ ListenersDeleted \/ DeleteTimesOut
           \/ \E p \in Ports : PickObsolete(p) \/ PickPool(p)
  BY <1>1, <1>4 DEF WaitReady, WaitFails, ReadFails, ListListeners, ListMembers,
     MembersEnsured, MembersDropped, PortsEnsured, ListOldMembers,
     ObsoleteDropped, EnsureReturns, ListForDelete, MonitorsDeleted,
     PoolsDeleted, ListenersDeleted, DeleteTimesOut, PickObsolete, PickPool,
     Goto, cloud
<1>5. CASE CreateLoadBalancer
  <2>1. \/ UNCHANGED tree
        \/ \E l \in LBs : tree' = [tree EXCEPT ![l] = EmptyTree]
    BY <1>5 DEF CreateLoadBalancer, cloud
  <2> QED
    BY <1>1, <2>1 DEF NoNewMonitors, EmptyTree, Core
<1>6. CASE DeleteLoadBalancer
  BY <1>1, <1>6 DEF DeleteLoadBalancer, cloud
<1>7. ASSUME NEW p \in Ports, EnsureListener(p) \/ DeleteListener(p) \/ DeleteMonitor(p)
      PROVE  NoNewMonitors
  <2>1. pass.pc \in Working
    BY <1>7 DEF EnsureListener, DeleteListener, DeleteMonitor, At, Working,
                EnsureSteps, DeleteSteps
  <2>2. PICK t, next : /\ UNCHANGED tree \/ Call(t, next)
                       /\ t.monitor \subseteq Tree.monitor
    <3>1. CASE EnsureListener(p)
      BY <1>3, <2>1, <3>1 DEF EnsureListener, Goto, cloud, Trees
    <3>2. CASE DeleteListener(p)
      BY <1>3, <2>1, <3>2 DEF DeleteListener, Trees
    <3>3. CASE DeleteMonitor(p)
      BY <1>3, <2>1, <3>3 DEF DeleteMonitor, Trees
    <3> QED
      BY <1>7, <3>1, <3>2, <3>3
  <2> QED
    BY <1>1, <2>1, <2>2, CallNoNewMonitors
<1>8. CASE EnsurePool
  <2>1. pass.pc \in Working
    BY <1>8 DEF EnsurePool, At, Working, EnsureSteps
  <2>2. PICK t, next : /\ UNCHANGED tree \/ Call(t, next)
                       /\ t.monitor \subseteq Tree.monitor
    BY <1>3, <1>8, <2>1 DEF EnsurePool, Goto, cloud, Trees
  <2> QED
    BY <1>1, <2>1, <2>2, CallNoNewMonitors
<1>9. CASE UpdatePool
  <2> DEFINE t == [Tree EXCEPT !.pool[pass.cur] =
                                 UpdatedPool(Tree.pool[pass.cur], pass.goal)]
  <2>1. pass.pc \in Working
    BY <1>9 DEF UpdatePool, At, Working, EnsureSteps
  <2>2. \/ UNCHANGED tree
        \/ tree' = [tree EXCEPT ![pass.lb] = t]
    BY <1>9 DEF UpdatePool, CallElse, Goto, cloud
  <2>3. t.monitor = Tree.monitor
    BY <1>3, <2>1 DEF Trees
  <2>4. tree \in [LBs -> Trees] /\ pass.lb \in LBs
    BY <2>1, InHand DEF Core
  <2> QED
    BY <1>1, <2>2, <2>3, <2>4 DEF NoNewMonitors, Tree
<1>10. ASSUME NEW n \in Nodes, EnsureMember(n) PROVE NoNewMonitors
  <2>1. pass.pc \in Working
    BY <1>10 DEF EnsureMember, At, Working, EnsureSteps
  <2> DEFINE t == [Tree EXCEPT !.member = @ \cup {<<pass.cur, <<n, pass.goal.np>>>>}]
             next == [pass EXCEPT !.left = @ \ {n}]
  <2>2. UNCHANGED tree \/ Call(t, next)
    BY <1>10 DEF EnsureMember, Goto, cloud
  <2>3. t.monitor \subseteq Tree.monitor
    BY <1>3, <2>1 DEF Trees
  <2> QED
    BY <1>1, <2>1, <2>2, <2>3, CallNoNewMonitors
<1>11. CASE DropMember \/ DropOldMember \/ DeletePoolMember
  <2>1. pass.pc \in Working
    BY <1>11 DEF DropMember, DropOldMember, DeletePoolMember, At, Working,
                 EnsureSteps, DeleteSteps
  <2>2. PICK b \in pass.stale : DeleteMember(b)
    BY <1>11 DEF DropMember, DropOldMember, DeletePoolMember
  <2>3. PICK t, next : Call(t, next) /\ t.monitor \subseteq Tree.monitor
    BY <1>3, <2>1, <2>2 DEF DeleteMember, Trees
  <2> QED
    BY <2>1, <2>3, CallNoNewMonitors
<1>12. CASE EnsureMonitor
  BY <1>1, <1>12 DEF EnsureMonitor, Goto, cloud
<1>13. CASE DropOldMonitor
  <2>1. pass.pc \in Working
    BY <1>13 DEF DropOldMonitor, At, Working, EnsureSteps
  <2>2. PICK t, next : /\ UNCHANGED tree \/ Call(t, next)
                       /\ t.monitor \subseteq Tree.monitor
    BY <1>3, <1>13, <2>1 DEF DropOldMonitor, Goto, cloud, Trees
  <2> QED
    BY <1>1, <2>1, <2>2, CallNoNewMonitors
<1>14. CASE DropOldPool \/ DropOldListener \/ DeletePool
  <2>1. pass.pc \in Working
    BY <1>14 DEF DropOldPool, DropOldListener, DeletePool, At, Working,
                 EnsureSteps, DeleteSteps
  <2>2. PICK t, next : Call(t, next) /\ t.monitor \subseteq Tree.monitor
    <3>1. CASE DropOldPool
      BY <1>3, <2>1, <3>1 DEF DropOldPool, Trees
    <3>2. CASE DropOldListener
      BY <1>3, <2>1, <3>2 DEF DropOldListener, Trees
    <3>3. CASE DeletePool
      BY <1>3, <2>1, <3>3 DEF DeletePool, Trees
    <3> QED
      BY <1>14, <3>1, <3>2, <3>3
  <2> QED
    BY <2>1, <2>2, CallNoNewMonitors
<1> QED
  BY <1>4, <1>5, <1>6, <1>7, <1>8, <1>9, <1>10, <1>11, <1>12, <1>13, <1>14
     DEF PassStep

LEMMA NextNoNewMonitors ==
  ASSUME Core, ~CreateMonitor, [Next]_vars
  PROVE  NoNewMonitors
<1>1. CASE PassStep
  BY <1>1, PassStepNoNewMonitors
<1>2. CASE UNCHANGED tree
  BY <1>2 DEF NoNewMonitors
<1>3. PassStep \/ UNCHANGED tree
  BY DEF Next, Controller, BeginEnsure, EnsureRejected, BeginDelete,
     LookupAmbiguous, LookupFinds, LookupFindsNone, DeleteReturns, Goto, Edit,
     Settle, SettleError, Crash, Restart, vars, cloud
<1> QED
  BY <1>1, <1>2, <1>3

\* Achievement is inductive, with Discipline.
LEMMA NextKeepsAchievement == Discipline /\ Achievement /\ [Next]_vars => Achievement'
<1> SUFFICES ASSUME Discipline, Achievement, [Next]_vars PROVE Achievement'
  OBVIOUS
<1>1. Core /\ Achieved(pass, Tree)
  BY DisciplineParts DEF Achievement
<1>2. Achieved(pass, Tree)'
  BY <1>1, NextAchieves
<1>3. (~CreateMonitor => \A l \in LBs : tree[l].monitor = {})'
  BY <1>1, NextNoNewMonitors DEF Achievement, NoNewMonitors
<1> QED
  BY <1>2, <1>3 DEF Achievement

\* A pass that has dealt with every port and every obsolete listener has the tree
\* the Service asks for.
LEMMA CompleteMatches ==
  ASSUME NEW t \in Trees, Shape(t), NEW s \in Specs, NEW hosts \in SUBSET Nodes,
         ~CreateMonitor => t.monitor = {},
         \A q \in s.ports : Complete(q, t, s, hosts),
         \A q \in Ports : t.listener[q] # None => q \in s.ports
  PROVE  Matches(t, s, hosts)
<1>1. s.ports \subseteq Ports /\ s.np \in NodePorts
  BY GoalType
<1>2. /\ t.listener \in [Ports -> Listeners \cup {None}]
      /\ t.pool \in [Ports -> Pools \cup {None}]
      /\ t.monitor \subseteq Ports
      /\ t.member \subseteq Ports \X Backends
  BY DEF Trees
<1>3. \A q \in s.ports : ListenerServes(t.listener[q], s.ann) /\ PoolServes(t.pool[q], s)
  BY DEF Complete
<1>5. \A q \in Ports : q \notin s.ports => t.listener[q] = None /\ t.pool[q] = None
  BY DEF Shape
<1>8. t.monitor \subseteq s.ports
  BY <1>2, <1>5 DEF Shape
<1>9. t.monitor = IF CreateMonitor THEN s.ports ELSE {}
  BY <1>8 DEF Complete
<1>10. \A m \in t.member : m \in s.ports \X (hosts \X {s.np})
  <2> TAKE m \in t.member
  <2>1. m[1] \in Ports /\ m[2] \in Backends /\ m = <<m[1], m[2]>>
    BY <1>2
  <2>2. m[1] \in s.ports
    BY <1>5, <2>1 DEF Shape
  <2>3. m[2] \in hosts \X {s.np}
    BY <2>1, <2>2 DEF Complete
  <2> QED
    BY <2>1, <2>2, <2>3
<1>11. \A m \in s.ports \X (hosts \X {s.np}) : m \in t.member
  <2> TAKE m \in s.ports \X (hosts \X {s.np})
  <2>1. m[1] \in s.ports /\ m[2] \in hosts \X {s.np} /\ m = <<m[1], m[2]>>
    OBVIOUS
  <2>2. m[2] \in Backends
    BY <1>1, <2>1 DEF Backends
  <2> QED
    BY <2>1, <2>2 DEF Complete
<1>12. t.member = s.ports \X (hosts \X {s.np})
  BY <1>10, <1>11
<1> QED
  BY <1>3, <1>5, <1>9, <1>12 DEF Matches

LEMMA AchievementEstablishes == Discipline /\ Achievement => EnsureEstablishes
<1> SUFFICES ASSUME Discipline, Achievement, pass.pc = "done"
             PROVE  Matches(Tree, pass.goal, pass.hosts)
  BY DEF EnsureEstablishes
<1>1. Core /\ pass.pc \in AchieveSteps /\ Achieved(pass, Tree)
  BY DisciplineParts DEF Achievement, AchieveSteps
<1>2. /\ pass.pc \in Working /\ pass.goal \in Specs /\ pass.hosts \subseteq Nodes
      /\ Tree \in Trees /\ Shape(Tree) /\ PortsAchieved(pass, Tree)
  BY <1>1, AchieveFacts
<1>3. pass.todo = {} /\ pass.old = {}
  BY <1>1 DEF Achieved
<1>4. /\ \A q \in pass.goal.ports : Complete(q, Tree, pass.goal, pass.hosts)
      /\ \A q \in Ports : Tree.listener[q] # None => q \in pass.goal.ports
  BY <1>2, <1>3 DEF PortsAchieved, PortSteps
<1>5. ~CreateMonitor => Tree.monitor = {}
  BY <1>1, <1>2, InHand DEF Achievement, Tree
<1> QED
  BY <1>2, <1>4, <1>5, CompleteMatches

LEMMA InitAchievement == Init => Achievement
<1> SUFFICES ASSUME Init PROVE Achievement
  OBVIOUS
<1>1. pass.pc \notin AchieveSteps
  BY DEF Init, Idle, AchieveSteps, PortSteps, OldSteps
<1>2. \A l \in LBs : tree[l].monitor = {}
  BY DEF Init, EmptyTree
<1> QED
  BY <1>1, <1>2, NothingAchieved DEF Achievement

THEOREM AchievementHolds == Spec => []Achievement
<1> QED
  BY InitAchievement, NextKeepsAchievement, DisciplineHolds, PTL DEF Spec

\* When EnsureLoadBalancer returns without an error, the load balancer is what the
\* Service and the nodes of that pass ask for, whatever earlier passes, failed calls
\* and crashes had left: no listener, pool, member or health monitor is missing,
\* stale or surplus.
THEOREM EnsureEstablishesEver == Spec => []EnsureEstablishes
<1> QED
  BY AchievementEstablishes, AchievementHolds, DisciplineHolds, PTL

-----------------------------------------------------------------------------
(* What a pass is about.                                                   *)

\* The pass goes on with what it was given, or stops: after an error the Service is
\* queued again.
Onward(next) ==
  /\ next \in Passes
  /\ next.goal = pass.goal /\ next.hosts = pass.hosts /\ next.lb = pass.lb
  /\ \/ /\ pass.pc \in EnsureSteps \ {"create"}
        /\ next.pc \in EnsureSteps \ {"create"}
     \/ pass.pc \in DeleteSteps /\ next.pc \in DeleteSteps

Pursues ==
  \/ pass' = Idle /\ queued' = TRUE
  \/ pass' = [Idle EXCEPT !.pc = "down"]
  \/ Onward(pass') /\ queued' = queued

LEMMA OnwardPursues ==
  ASSUME NEW next, Onward(next), Fail \/ Goto(next) \/ \E t : Call(t, next)
  PROVE  Pursues
<1>1. CASE Fail
  BY <1>1 DEF Fail, Pursues
<1>2. CASE Goto(next)
  BY <1>2 DEF Goto, Pursues
<1>3. CASE \E t : Call(t, next)
  <2> DEFINE w == [next EXCEPT !.waiting = TRUE]
  <2>1. w \in Passes /\ w.goal = next.goal /\ w.hosts = next.hosts /\ w.lb = next.lb
        /\ w.pc = next.pc
    BY DEF Onward, Passes
  <2>2. (pass' = w /\ queued' = queued) \/ (pass' = Idle /\ queued' = TRUE)
    BY <1>3 DEF Call, CallElse, Fail
  <2> HIDE DEF w
  <2>3. Onward(w)
    BY <2>1 DEF Onward
  <2> QED
    BY <2>2, <2>3 DEF Pursues
<1> QED
  BY <1>1, <1>2, <1>3

LEMMA PassStepPursues ==
  ASSUME Core, PassStep
  PROVE  Pursues \/ CreateLoadBalancer \/ EnsureReturns
<1>1. pass \in Passes /\ (pass.waiting => pass.pc \in Working)
  BY DEF Core, PassOK
<1>2. CASE ListListeners
  <2> DEFINE next == [pass EXCEPT !.pc = "port", !.todo = pass.goal.ports,
                         !.old = {p \in Ports : Tree.listener[p] # None}]
  <2>0. pass.goal.ports \subseteq Ports
    BY <1>2, InHand, GoalType DEF ListListeners, At, Working, EnsureSteps
  <2>1. Onward(next)
    BY <1>1, <1>2, <2>0 DEF ListListeners, At, Passes, Onward, EnsureSteps, DeleteSteps
  <2>2. Fail \/ Goto(next) \/ \E t : Call(t, next)
    BY <1>2 DEF ListListeners
  <2> HIDE DEF next
  <2> QED
    BY <2>1, <2>2, OnwardPursues
<1>3. CASE ListMembers
  <2> DEFINE next == [pass EXCEPT !.pc = "add", !.left = pass.hosts,
                         !.stale = MembersOf(pass.cur)]
  <2>1. Onward(next)
    BY <1>1, <1>3 DEF ListMembers, At, Passes, Onward, EnsureSteps, DeleteSteps, MembersOf
  <2>2. Fail \/ Goto(next) \/ \E t : Call(t, next)
    BY <1>3 DEF ListMembers
  <2> HIDE DEF next
  <2> QED
    BY <2>1, <2>2, OnwardPursues
<1>4. CASE MembersEnsured
  <2> DEFINE next == [pass EXCEPT !.pc = "drop"]
  <2>1. Onward(next)
    BY <1>1, <1>4 DEF MembersEnsured, At, Passes, Onward, EnsureSteps, DeleteSteps
  <2>2. Fail \/ Goto(next) \/ \E t : Call(t, next)
    BY <1>4 DEF MembersEnsured
  <2> HIDE DEF next
  <2> QED
    BY <2>1, <2>2, OnwardPursues
<1>5. CASE MembersDropped
  <2> DEFINE next == [pass EXCEPT !.pc = "monitor"]
  <2>1. Onward(next)
    BY <1>1, <1>5 DEF MembersDropped, At, Passes, Onward, EnsureSteps, DeleteSteps
  <2>2. Fail \/ Goto(next) \/ \E t : Call(t, next)
    BY <1>5 DEF MembersDropped
  <2> HIDE DEF next
  <2> QED
    BY <2>1, <2>2, OnwardPursues
<1>6. CASE PortsEnsured
  <2> DEFINE next == [pass EXCEPT !.pc = "obsolete"]
  <2>1. Onward(next)
    BY <1>1, <1>6 DEF PortsEnsured, At, Passes, Onward, EnsureSteps, DeleteSteps
  <2>2. Fail \/ Goto(next) \/ \E t : Call(t, next)
    BY <1>6 DEF PortsEnsured
  <2> HIDE DEF next
  <2> QED
    BY <2>1, <2>2, OnwardPursues
<1>7. CASE ListOldMembers
  <2> DEFINE next == [pass EXCEPT !.pc = "oldPool", !.stale = MembersOf(pass.cur)]
  <2>1. Onward(next)
    BY <1>1, <1>7 DEF ListOldMembers, At, Passes, Onward, EnsureSteps, DeleteSteps, MembersOf
  <2>2. Fail \/ Goto(next) \/ \E t : Call(t, next)
    BY <1>7 DEF ListOldMembers
  <2> HIDE DEF next
  <2> QED
    BY <2>1, <2>2, OnwardPursues
<1>8. CASE ObsoleteDropped
  <2> DEFINE next == [pass EXCEPT !.pc = "done"]
  <2>1. Onward(next)
    BY <1>1, <1>8 DEF ObsoleteDropped, At, Passes, Onward, EnsureSteps, DeleteSteps
  <2>2. Fail \/ Goto(next) \/ \E t : Call(t, next)
    BY <1>8 DEF ObsoleteDropped
  <2> HIDE DEF next
  <2> QED
    BY <2>1, <2>2, OnwardPursues
<1>9. CASE MonitorsDeleted
  <2> DEFINE next == [pass EXCEPT !.pc = "dPools"]
  <2>1. Onward(next)
    BY <1>1, <1>9 DEF MonitorsDeleted, At, Passes, Onward, EnsureSteps, DeleteSteps
  <2>2. Fail \/ Goto(next) \/ \E t : Call(t, next)
    BY <1>9 DEF MonitorsDeleted
  <2> HIDE DEF next
  <2> QED
    BY <2>1, <2>2, OnwardPursues
<1>10. CASE PoolsDeleted
  <2> DEFINE next == [pass EXCEPT !.pc = "dListeners"]
  <2>1. Onward(next)
    BY <1>1, <1>10 DEF PoolsDeleted, At, Passes, Onward, EnsureSteps, DeleteSteps
  <2>2. Fail \/ Goto(next) \/ \E t : Call(t, next)
    BY <1>10 DEF PoolsDeleted
  <2> HIDE DEF next
  <2> QED
    BY <2>1, <2>2, OnwardPursues
<1>11. CASE ListenersDeleted
  <2> DEFINE next == [pass EXCEPT !.pc = "dLB"]
  <2>1. Onward(next)
    BY <1>1, <1>11 DEF ListenersDeleted, At, Passes, Onward, EnsureSteps, DeleteSteps
  <2>2. Fail \/ Goto(next) \/ \E t : Call(t, next)
    BY <1>11 DEF ListenersDeleted
  <2> HIDE DEF next
  <2> QED
    BY <2>1, <2>2, OnwardPursues
<1>12. ASSUME NEW p \in Ports, PickObsolete(p) PROVE Pursues
  <2> DEFINE next == [pass EXCEPT !.pc = "oldMonitor", !.cur = p]
  <2>1. Onward(next)
    BY <1>1, <1>12 DEF PickObsolete, At, Passes, Onward, EnsureSteps, DeleteSteps
  <2>2. Fail \/ Goto(next) \/ \E t : Call(t, next)
    BY <1>12 DEF PickObsolete
  <2> HIDE DEF next
  <2> QED
    BY <2>1, <2>2, OnwardPursues
<1>13. ASSUME NEW p \in Ports, PickPool(p) PROVE Pursues
  <2> DEFINE next == [pass EXCEPT !.pc = "dMembers", !.cur = p, !.stale = MembersOf(p)]
  <2>1. Onward(next)
    BY <1>1, <1>13 DEF PickPool, At, Passes, Onward, EnsureSteps, DeleteSteps, MembersOf
  <2>2. Fail \/ Goto(next) \/ \E t : Call(t, next)
    BY <1>13 DEF PickPool
  <2> HIDE DEF next
  <2> QED
    BY <2>1, <2>2, OnwardPursues
<1>14. ASSUME NEW p \in Ports, EnsureListener(p) PROVE Pursues
  <2> DEFINE next == WithListener(p)
  <2>0. EffectiveBackend(FoundListener(p), pass.goal.ann) \in BackendProtocols
    BY <1>14, AskedListenerHolds DEF EnsureListener, At
  <2>1. Onward(next)
    BY <1>1, <1>14, <2>0 DEF EnsureListener, At, Passes, Onward, EnsureSteps,
                             DeleteSteps, WithListener
  <2>2. Fail \/ Goto(next) \/ \E t : Call(t, next)
    BY <1>14 DEF EnsureListener
  <2> HIDE DEF next
  <2> QED
    BY <2>1, <2>2, OnwardPursues
<1>15. ASSUME NEW p \in Ports, DeleteMonitor(p) PROVE Pursues
  <2> DEFINE next == [pass EXCEPT !.mons = @ \ {p}]
  <2>1. Onward(next)
    BY <1>1, <1>15 DEF DeleteMonitor, At, Passes, Onward, EnsureSteps, DeleteSteps
  <2>2. Fail \/ Goto(next) \/ \E t : Call(t, next)
    BY <1>15 DEF DeleteMonitor
  <2> HIDE DEF next
  <2> QED
    BY <2>1, <2>2, OnwardPursues
<1>16. ASSUME NEW p \in Ports, DeleteListener(p) PROVE Pursues
  <2> DEFINE next == [pass EXCEPT !.old = @ \ {p}]
  <2>1. Onward(next)
    BY <1>1, <1>16 DEF DeleteListener, At, Passes, Onward, EnsureSteps, DeleteSteps
  <2>2. Fail \/ Goto(next) \/ \E t : Call(t, next)
    BY <1>16 DEF DeleteListener
  <2> HIDE DEF next
  <2> QED
    BY <2>1, <2>2, OnwardPursues
<1>17. CASE EnsurePool
  <2> DEFINE next == [pass EXCEPT !.pc = "settings", !.backend = None]
  <2>1. Onward(next)
    BY <1>1, <1>17 DEF EnsurePool, At, Passes, Onward, EnsureSteps, DeleteSteps
  <2>2. Fail \/ Goto(next) \/ \E t : Call(t, next)
    BY <1>17 DEF EnsurePool
  <2> HIDE DEF next
  <2> QED
    BY <2>1, <2>2, OnwardPursues
<1>18. CASE EnsureMonitor
  <2> DEFINE next == [pass EXCEPT !.pc = "port", !.cur = None]
  <2>1. Onward(next)
    BY <1>1, <1>18 DEF EnsureMonitor, At, Passes, Onward, EnsureSteps, DeleteSteps
  <2>2. Fail \/ Goto(next) \/ \E t : Call(t, next)
    BY <1>18 DEF EnsureMonitor
  <2> HIDE DEF next
  <2> QED
    BY <2>1, <2>2, OnwardPursues
<1>19. CASE DropOldPool
  <2> DEFINE next == [pass EXCEPT !.pc = "oldListener"]
  <2>1. Onward(next)
    BY <1>1, <1>19 DEF DropOldPool, At, Passes, Onward, EnsureSteps, DeleteSteps
  <2>2. Fail \/ Goto(next) \/ \E t : Call(t, next)
    BY <1>19 DEF DropOldPool
  <2> HIDE DEF next
  <2> QED
    BY <2>1, <2>2, OnwardPursues
<1>20. CASE DropOldListener
  <2> DEFINE next == [pass EXCEPT !.pc = "obsolete", !.old = @ \ {pass.cur},
                         !.cur = None]
  <2>1. Onward(next)
    BY <1>1, <1>20 DEF DropOldListener, At, Passes, Onward, EnsureSteps, DeleteSteps
  <2>2. Fail \/ Goto(next) \/ \E t : Call(t, next)
    BY <1>20 DEF DropOldListener
  <2> HIDE DEF next
  <2> QED
    BY <2>1, <2>2, OnwardPursues
<1>21. CASE DeletePool
  <2> DEFINE next == [pass EXCEPT !.pc = "dPools", !.todo = @ \ {pass.cur},
                         !.cur = None]
  <2>1. Onward(next)
    BY <1>1, <1>21 DEF DeletePool, At, Passes, Onward, EnsureSteps, DeleteSteps
  <2>2. Fail \/ Goto(next) \/ \E t : Call(t, next)
    BY <1>21 DEF DeletePool
  <2> HIDE DEF next
  <2> QED
    BY <2>1, <2>2, OnwardPursues
<1>22. CASE WaitReady
  <2> DEFINE next == [pass EXCEPT !.waiting = FALSE]
  <2>1. Onward(next)
    BY <1>1, <1>22 DEF WaitReady, Working, Passes, Onward
  <2>2. Goto(next)
    BY <1>22 DEF WaitReady
  <2> HIDE DEF next
  <2> QED
    BY <2>1, <2>2, OnwardPursues
<1>23. CASE WaitFails \/ ReadFails \/ DeleteTimesOut
  BY <1>23 DEF WaitFails, ReadFails, DeleteTimesOut, Fail, Pursues
<1>24. CASE UpdatePool
  <2> DEFINE next == [pass EXCEPT !.pc = "members"]
  <2>1. Onward(next)
    BY <1>1, <1>24 DEF UpdatePool, At, Passes, Onward, EnsureSteps
  <2>2. \/ pass' = next /\ queued' = queued
        \/ pass' = [Idle EXCEPT !.pc = "down"]
    BY <1>24 DEF UpdatePool, CallElse, Goto, Panic
  <2> HIDE DEF next
  <2> QED
    BY <2>1, <2>2 DEF Pursues
<1>25. ASSUME NEW n \in Nodes, EnsureMember(n) PROVE Pursues
  <2> DEFINE next == [pass EXCEPT !.left = @ \ {n}]
             popped == [next EXCEPT !.stale = @ \ {<<n, pass.goal.np>>}]
  <2>1. Onward(next)
    BY <1>1, <1>25 DEF EnsureMember, At, Passes, Onward, EnsureSteps
  <2>2. Onward(popped)
    BY <1>1, <1>25 DEF EnsureMember, At, Passes, Onward, EnsureSteps
  <2>3. Fail \/ Goto(popped) \/ \E t : Call(t, next)
    BY <1>25 DEF EnsureMember
  <2> HIDE DEF next, popped
  <2> QED
    BY <2>1, <2>2, <2>3, OnwardPursues
<1>26. CASE DropMember \/ DropOldMember \/ DeletePoolMember
  <2>1. PICK b \in pass.stale : DeleteMember(b)
    BY <1>26 DEF DropMember, DropOldMember, DeletePoolMember
  <2> DEFINE next == [pass EXCEPT !.stale = @ \ {b}]
  <2>2. pass.pc \in {"drop", "oldPool", "dMembers"}
    BY <1>26 DEF DropMember, DropOldMember, DeletePoolMember, At
  <2>3. Onward(next)
    BY <1>1, <2>2 DEF Passes, Onward, EnsureSteps, DeleteSteps
  <2>4. \E t : Call(t, next)
    BY <2>1 DEF DeleteMember
  <2> HIDE DEF next
  <2> QED
    BY <2>3, <2>4, OnwardPursues
<1>27. CASE DropOldMonitor
  <2> DEFINE bare == [pass EXCEPT !.pc = "oldListener"]
             next == [pass EXCEPT !.pc = "oldMembers"]
  <2>1. Onward(bare) /\ Onward(next)
    BY <1>1, <1>27 DEF DropOldMonitor, At, Passes, Onward, EnsureSteps
  <2>2. Goto(bare) \/ Goto(next) \/ \E t : Call(t, next)
    BY <1>27 DEF DropOldMonitor
  <2> HIDE DEF bare, next
  <2> QED
    BY <2>1, <2>2, OnwardPursues
<1>28. CASE ListForDelete
  <2> DEFINE ls == {p \in Ports : Tree.listener[p] # None}
             ps == {p \in ls : Tree.pool[p] # None}
             next == [pass EXCEPT !.pc = "dMonitors", !.old = ls, !.todo = ps,
                                  !.mons = ps \cap Tree.monitor]
  <2>1. Onward(next)
    BY <1>1, <1>28 DEF ListForDelete, At, Passes, Onward, EnsureSteps, DeleteSteps
  <2>2. Goto(next)
    BY <1>28 DEF ListForDelete
  <2> HIDE DEF next
  <2> QED
    BY <2>1, <2>2, OnwardPursues
<1>29. CASE DeleteLoadBalancer
  <2> DEFINE next == [pass EXCEPT !.pc = "gone"]
  <2>1. Onward(next)
    BY <1>1, <1>29 DEF DeleteLoadBalancer, At, Passes, Onward, DeleteSteps
  <2>2. Fail \/ (pass' = next /\ queued' = queued)
    BY <1>29 DEF DeleteLoadBalancer
  <2> HIDE DEF next
  <2> QED
    BY <2>1, <2>2 DEF Pursues, Fail
<1> QED
  BY <1>2, <1>3, <1>4, <1>5, <1>6, <1>7, <1>8, <1>9, <1>10, <1>11, <1>12, <1>13, <1>14, <1>15, <1>16, <1>17, <1>18, <1>19, <1>20, <1>21, <1>22, <1>23, <1>24, <1>25, <1>26, <1>27, <1>28, <1>29
     DEF PassStep

\* A valid load balancer stays valid, until the pass that deletes it.
LEMMA ValidStays ==
  ASSUME Core, Harmless
  PROVE  Found' = Found
  BY SameFound DEF Harmless, Found, cloud

LEMMA PursuesKeepsErrand ==
  ASSUME Core, Errand, Pursues, Harmless \/ DeleteLoadBalancer, UNCHANGED want
  PROVE  Errand'
<1>1. CASE pass' = Idle /\ queued' = TRUE
  BY <1>1 DEF Errand, QuietMeansReconciled, Idle, EnsureSteps, DeleteSteps
<1>2. CASE pass' = [Idle EXCEPT !.pc = "down"]
  <2>1. pass'.pc = "down" /\ pass'.goal = Gone
    BY <1>2 DEF Idle
  <2> QED
    BY <2>1 DEF Errand, QuietMeansReconciled, EnsureSteps, DeleteSteps
<1>3. CASE Onward(pass') /\ queued' = queued
  <2>1. /\ pass'.goal = pass.goal /\ pass'.hosts = pass.hosts /\ pass'.lb = pass.lb
        /\ \/ /\ pass.pc \in EnsureSteps \ {"create"}
              /\ pass'.pc \in EnsureSteps \ {"create"}
           \/ pass.pc \in DeleteSteps /\ pass'.pc \in DeleteSteps
    BY <1>3 DEF Onward
  <2>2. /\ pass.pc \in Working /\ pass.pc \notin {"idle", "down"}
        /\ pass'.pc \notin {"idle", "down"}
        /\ pass'.pc \in DeleteSteps <=> pass.pc \in DeleteSteps
        /\ pass'.pc \in EnsureSteps <=> pass.pc \in EnsureSteps
    BY <2>1 DEF Working, EnsureSteps, DeleteSteps
  <2>3. pass'.pc \in EnsureSteps \ {"create"} => Valid(status[pass.lb])'
    <3> SUFFICES ASSUME pass'.pc \in EnsureSteps PROVE Valid(status'[pass.lb])
      BY <2>1
    <3>1. pass.lb \in Found
      <4>1. pass.pc \in EnsureSteps \ {"create"}
        BY <2>1 DEF EnsureSteps, DeleteSteps
      <4>2. pass.lb \in LBs
        BY <2>2, InHand
      <4> QED
        BY <4>1, <4>2 DEF Errand, Found
    <3>2. Harmless
      BY <2>2 DEF DeleteLoadBalancer, At, EnsureSteps
    <3> QED
      BY <3>1, <3>2, ValidStays DEF Found
  <2>4. (pass'.pc \in EnsureSteps \ {"create"} => Valid(status'[pass'.lb]))
    BY <2>1, <2>3
  <2> QED
    BY <1>3, <2>1, <2>2, <2>4 DEF Errand, QuietMeansReconciled
<1> QED
  BY <1>1, <1>2, <1>3 DEF Pursues

LEMMA CreateKeepsErrand ==
  ASSUME Core, Errand, CreateLoadBalancer, UNCHANGED want
  PROVE  Errand'
<1>1. CASE pass' = Idle /\ queued' = TRUE
  BY <1>1 DEF Errand, QuietMeansReconciled, Idle, EnsureSteps, DeleteSteps
<1>2. ASSUME NEW l \in LBs, queued' = queued,
             status' = [status EXCEPT ![l] = "PENDING_CREATE"],
             pass' = [pass EXCEPT !.pc = "list", !.lb = l, !.waiting = TRUE]
      PROVE  Errand'
  <2>1. pass'.pc = "list" /\ pass'.lb = l /\ pass'.goal = pass.goal /\ pass'.hosts = pass.hosts
    BY <1>2 DEF Core, Passes
  <2>2. status'[l] = "PENDING_CREATE" /\ pass.pc = "create"
    BY <1>2 DEF Core, CreateLoadBalancer, At
  <2> QED
    BY <1>2, <2>1, <2>2 DEF Errand, QuietMeansReconciled, Valid, EnsureSteps, DeleteSteps
<1> QED
  BY <1>1, <1>2 DEF CreateLoadBalancer, Fail

\* The pass that returns leaves a load balancer that agrees with the Service.
LEMMA ReturnKeepsErrand ==
  ASSUME Discipline, Achievement, Errand, EnsureReturns, UNCHANGED <<want, finalizer>>
  PROVE  Errand'
<1>1. Core /\ pass.pc = "done" /\ UNCHANGED cloud /\ pass' = Idle
  BY DisciplineParts DEF EnsureReturns, At, Goto, Fail
<1>2. pass.pc \in Working /\ pass.pc \in EnsureSteps \ {"create"}
  BY <1>1 DEF Working, EnsureSteps
<1>3. pass.lb \in LBs /\ pass.goal \in Specs /\ Valid(status[pass.lb])
  BY <1>1, <1>2, InHand DEF Errand
<1>4. pass.goal # Gone /\ pass.hosts \in HostSets
  BY <1>3, SpecsAssumption DEF Errand
<1>5. Matches(tree[pass.lb], pass.goal, pass.hosts)
  BY <1>1, AchievementEstablishes DEF EnsureEstablishes, Tree
<1>6. CASE queued'
  BY <1>1, <1>6 DEF Errand, QuietMeansReconciled, Idle, EnsureSteps, DeleteSteps
<1>7. CASE ~queued'
  <2>1. ~queued
    BY <1>7 DEF EnsureReturns, Goto, Fail
  <2>2. pass.goal = want
    BY <1>1, <2>1 DEF Errand
  <2>3. pass.lb \in Found' /\ tree'[pass.lb] = tree[pass.lb]
    BY <1>1, <1>3 DEF Found, cloud
  <2>4. Matches(tree'[pass.lb], want', pass.hosts)
    BY <1>5, <2>2, <2>3
  <2>5. QuietMeansReconciled'
    BY <1>4, <2>2, <2>3, <2>4 DEF QuietMeansReconciled
  <2> QED
    BY <1>1, <2>5 DEF Errand, Idle, EnsureSteps, DeleteSteps
<1> QED
  BY <1>6, <1>7

LEMMA PassStepKeepsErrand ==
  ASSUME Discipline, Achievement, Errand, PassStep, UNCHANGED <<want, finalizer>>
  PROVE  Errand'
<1>1. Core
  BY DisciplineParts
<1>2. CASE EnsureReturns
  BY <1>2, ReturnKeepsErrand
<1>3. CASE CreateLoadBalancer
  BY <1>1, <1>3, CreateKeepsErrand
<1>4. CASE Pursues /\ (Harmless \/ DeleteLoadBalancer)
  BY <1>1, <1>4, PursuesKeepsErrand
<1> QED
  BY <1>1, <1>2, <1>3, <1>4, PassStepHarmless, PassStepPursues

\* A step that starts or ends a pass.
LEMMA BeginKeepsErrand ==
  ASSUME Core, Errand, UNCHANGED want,
         BeginDelete \/ \E hosts \in HostSets : BeginEnsure(hosts) \/ EnsureRejected(hosts)
  PROVE  Errand'
<1>1. CASE BeginDelete
  <2>1. /\ pass'.pc = "lookup" /\ pass'.goal = Gone /\ want = Gone
    BY <1>1 DEF BeginDelete, Idle
  <2> QED
    BY <2>1 DEF Errand, QuietMeansReconciled, EnsureSteps, DeleteSteps
<1>2. ASSUME NEW hosts \in HostSets, BeginEnsure(hosts) PROVE Errand'
  <2>1. /\ pass'.pc = "lookup" /\ pass'.goal = want /\ pass'.hosts = hosts
    BY <1>2 DEF BeginEnsure, Idle
  <2> QED
    BY <2>1 DEF Errand, QuietMeansReconciled, EnsureSteps, DeleteSteps
<1>3. ASSUME NEW hosts \in HostSets, EnsureRejected(hosts) PROVE Errand'
  <2>1. pass.pc = "idle" /\ queued /\ queued' = queued /\ pass' = pass
    BY <1>3 DEF EnsureRejected
  <2> QED
    BY <2>1 DEF Errand, QuietMeansReconciled, EnsureSteps, DeleteSteps
<1> QED
  BY <1>1, <1>2, <1>3

LEMMA LookupKeepsErrand ==
  ASSUME Core, Errand, UNCHANGED want,
         LookupAmbiguous \/ LookupFindsNone \/ \E l \in LBs : LookupFinds(l)
  PROVE  Errand'
<1>1. pass \in Passes /\ pass.pc = "lookup"
  BY DEF Core, LookupAmbiguous, LookupFindsNone, LookupFinds, At
<1>2. ~queued => pass.goal = want
  BY <1>1 DEF Errand
<1>3. CASE LookupAmbiguous
  <2>1. pass' = Idle /\ queued' = TRUE
    BY <1>3 DEF LookupAmbiguous, Fail
  <2> QED
    BY <2>1 DEF Errand, QuietMeansReconciled, Idle, EnsureSteps, DeleteSteps
<1>4. CASE LookupFindsNone
  <2>1. CASE pass.goal = Gone
    <3>1. pass' = Idle /\ finalizer' = FALSE /\ queued' = queued
      BY <1>4, <2>1 DEF LookupFindsNone, Goto
    <3> QED
      BY <1>2, <2>1, <3>1 DEF Errand, QuietMeansReconciled, Idle, EnsureSteps, DeleteSteps
  <2>2. CASE pass.goal # Gone
    <3>1. /\ pass'.pc = "create" /\ pass'.goal = pass.goal /\ pass'.hosts = pass.hosts
          /\ queued' = queued
      BY <1>1, <1>4, <2>2 DEF LookupFindsNone, Goto, Passes
    <3> QED
      BY <1>2, <3>1 DEF Errand, QuietMeansReconciled, EnsureSteps, DeleteSteps
  <2> QED
    BY <2>1, <2>2
<1>5. ASSUME NEW l \in LBs, LookupFinds(l) PROVE Errand'
  <2>1. Valid(status'[l])
    BY <1>5 DEF LookupFinds, Goto, cloud, Found
  <2>2. CASE pass.goal = Gone
    <3>1. pass'.pc = "snapshot" /\ pass'.goal = pass.goal /\ queued' = queued
      BY <1>1, <1>5, <2>2 DEF LookupFinds, Goto, Passes
    <3> QED
      BY <1>2, <2>2, <3>1 DEF Errand, QuietMeansReconciled, EnsureSteps, DeleteSteps
  <2>3. CASE pass.goal # Gone
    <3>1. /\ pass'.pc = "list" /\ pass'.goal = pass.goal /\ pass'.hosts = pass.hosts
          /\ pass'.lb = l /\ queued' = queued
      BY <1>1, <1>5, <2>3 DEF LookupFinds, Goto, Passes
    <3> QED
      BY <1>2, <2>1, <3>1 DEF Errand, QuietMeansReconciled, EnsureSteps, DeleteSteps
  <2> QED
    BY <2>2, <2>3
<1> QED
  BY <1>3, <1>4, <1>5

LEMMA DeleteReturnsKeepsErrand ==
  ASSUME Errand, UNCHANGED want, DeleteReturns
  PROVE  Errand'
<1>1. /\ pass.pc \in DeleteSteps /\ pass.pc \notin {"idle", "down"}
      /\ pass' = Idle /\ finalizer' = FALSE /\ queued' = queued
  BY DEF DeleteReturns, At, Goto, DeleteSteps
<1>2. ~queued => want = Gone
  BY <1>1 DEF Errand
<1> QED
  BY <1>1, <1>2 DEF Errand, QuietMeansReconciled, Idle, EnsureSteps, DeleteSteps

\* What the API does to a load balancer leaves what is reconciled reconciled.
LEMMA SettlingKeepsErrand ==
  ASSUME Core, Errand, NEW l \in LBs, Settle(l) \/ SettleError(l)
  PROVE  Errand'
<1>1. UNCHANGED <<tree, want, finalizer, queued, pass>>
  BY DEF Settle, SettleError
<1>2. \A k \in LBs : Valid(status[k]) => Valid(status'[k])
  BY DEF Core, Settle, SettleError, Valid
<1>3. pass.pc \in EnsureSteps \ {"create"} => Valid(status'[pass.lb])
  BY <1>2, InHand DEF Errand, Working
<1>4. Found \subseteq Found'
  BY <1>2 DEF Found
<1>5. QuietMeansReconciled'
  BY <1>1, <1>4 DEF Errand, QuietMeansReconciled, Matches
<1> QED
  BY <1>1, <1>3, <1>5 DEF Errand

LEMMA NextKeepsErrand ==
  Discipline /\ Achievement /\ Errand /\ [Next]_vars => Errand'
<1> SUFFICES ASSUME Discipline, Achievement, Errand, [Next]_vars PROVE Errand'
  OBVIOUS
<1>1. Core
  BY DisciplineParts
<1>2. CASE Controller /\ UNCHANGED <<want, errors, edits>>
  BY <1>1, <1>2, PassStepKeepsErrand, BeginKeepsErrand, LookupKeepsErrand,
     DeleteReturnsKeepsErrand DEF Controller
<1>3. CASE Edit
  <2>1. UNCHANGED <<status, pass>> /\ queued' = TRUE
    BY <1>3 DEF Edit, cloud
  <2> QED
    BY <2>1 DEF Errand, QuietMeansReconciled
<1>4. CASE \E l \in LBs : Settle(l) \/ SettleError(l)
  BY <1>1, <1>4, SettlingKeepsErrand
<1>5. CASE Crash
  <2>1. pass'.pc = "down" /\ pass'.goal = Gone
    BY <1>5 DEF Crash, Panic, Idle
  <2> QED
    BY <2>1 DEF Errand, QuietMeansReconciled, EnsureSteps, DeleteSteps
<1>6. CASE Restart
  <2>1. /\ pass'.pc = "idle" /\ pass'.goal = Gone
        /\ UNCHANGED <<want, finalizer>>
        /\ ~queued' => want = Gone /\ ~finalizer
    BY <1>6 DEF Restart, Idle
  <2> QED
    BY <2>1 DEF Errand, QuietMeansReconciled, EnsureSteps, DeleteSteps
<1>7. CASE UNCHANGED vars
  BY <1>7 DEF vars, Errand, QuietMeansReconciled, Found, Matches
<1> QED
  BY <1>2, <1>3, <1>4, <1>5, <1>6, <1>7 DEF Next

LEMMA InitErrand == Init => Errand
  BY DEF Init, Idle, Errand, QuietMeansReconciled, EnsureSteps, DeleteSteps

THEOREM ErrandHolds == Spec => []Errand
<1> QED
  BY InitErrand, NextKeepsErrand, DisciplineHolds, AchievementHolds, PTL DEF Spec

\* Whenever nothing is queued and no pass runs, there is nothing left to do: a Service
\* that is gone has lost its finalizer, and any other has a load balancer that agrees
\* with it.  No edit, error or crash is forgotten.
THEOREM QuietMeansReconciledEver == Spec => []QuietMeansReconciled
<1>1. Errand => QuietMeansReconciled
  BY DEF Errand
<1> QED
  BY <1>1, ErrandHolds, PTL

-----------------------------------------------------------------------------
(* Make before break.                                                      *)

\* What MakeBeforeBreak says of a step from the tree t to the tree u.
Makes(t, u, g, hosts) ==
  /\ \A m \in t.member \ u.member :
       m[1] \in g.ports => {m[1]} \X (hosts \X {g.np}) \subseteq t.member
  /\ (\/ \E m \in t.member \ u.member : m[1] \notin g.ports
      \/ \E p \in Ports : \/ t.pool[p] # None /\ u.pool[p] = None
                          \/ t.listener[p] # None /\ u.listener[p] = None
      \/ t.monitor \ u.monitor # {})
     => \A p \in g.ports :
          /\ ListenerServes(t.listener[p], g.ann)
          /\ PoolServes(t.pool[p], g)
          /\ {p} \X (hosts \X {g.np}) \subseteq t.member

LosesNothing(t, u) ==
  /\ t.member \subseteq u.member
  /\ t.monitor \subseteq u.monitor
  /\ \A p \in Ports : t.pool[p] # None => u.pool[p] # None
  /\ \A p \in Ports : t.listener[p] # None => u.listener[p] # None

LEMMA NothingLost ==
  ASSUME NEW t, NEW u, NEW g, NEW hosts, LosesNothing(t, u)
  PROVE  Makes(t, u, g, hosts)
  BY DEF LosesNothing, Makes

LEMMA SameLosesNothing == \A t : LosesNothing(t, t)
  BY DEF LosesNothing

\* The tree of the pass after a call that may fail.
LEMMA CallTree ==
  ASSUME Core, pass.pc \in Working, NEW t, NEW next, Call(t, next)
  PROVE  tree'[pass.lb] = t \/ tree'[pass.lb] = Tree
<1>1. tree' = tree \/ tree' = [tree EXCEPT ![pass.lb] = t]
  BY DEF Call, CallElse, cloud
<1> QED
  BY <1>1, InHand DEF Core, Tree

\* The wanted members of a complete port.
LEMMA CompleteServes ==
  ASSUME NEW t, NEW s \in Specs, NEW hosts \in SUBSET Nodes, NEW q,
         Complete(q, t, s, hosts)
  PROVE  {q} \X (hosts \X {s.np}) \subseteq t.member
<1>1. s.np \in NodePorts
  BY GoalType
<1>2. ASSUME NEW m \in {q} \X (hosts \X {s.np}) PROVE m \in t.member
  <2>1. m[1] = q /\ m[2] \in hosts \X {s.np} /\ m = <<m[1], m[2]>>
    OBVIOUS
  <2>2. m[2] \in Backends
    BY <1>1, <2>1 DEF Backends
  <2> QED
    BY <2>1, <2>2 DEF Complete
<1> QED
  BY <1>2

\* A step on an obsolete port.
LEMMA OldMakes ==
  ASSUME Core, pass.pc \in OldSteps, Achieved(pass, Tree),
         NEW u, Elsewhere(pass.cur, Tree, u)
  PROVE  Makes(Tree, u, pass.goal, pass.hosts)
<1>1. /\ Tree \in Trees /\ pass.cur \notin pass.goal.ports
      /\ pass.goal \in Specs /\ pass.hosts \in SUBSET Nodes
      /\ \A q \in pass.goal.ports : Complete(q, Tree, pass.goal, pass.hosts)
  BY OldFacts, AchieveFacts DEF AchieveSteps
<1>2. \A m \in Tree.member \ u.member : m[1] = pass.cur
  <2> SUFFICES ASSUME NEW m \in Tree.member, m[1] # pass.cur PROVE m \in u.member
    OBVIOUS
  <2>1. m[1] \in Ports /\ m[2] \in Backends /\ m = <<m[1], m[2]>>
    BY <1>1 DEF Trees
  <2> QED
    BY <2>1 DEF Elsewhere
<1>3. \A q \in pass.goal.ports :
        /\ ListenerServes(Tree.listener[q], pass.goal.ann)
        /\ PoolServes(Tree.pool[q], pass.goal)
        /\ {q} \X (pass.hosts \X {pass.goal.np}) \subseteq Tree.member
  BY <1>1, CompleteServes DEF Complete
<1> QED
  BY <1>1, <1>2, <1>3 DEF Makes

\* A member that is not wanted is dropped.
LEMMA DropMemberMakes ==
  ASSUME Core, Achieved(pass, Tree), DropMember
  PROVE  Makes(Tree, tree'[pass.lb], pass.goal, pass.hosts)
<1>1. PICK b \in pass.stale : DeleteMember(b)
  BY DEF DropMember
<1> DEFINE t == [Tree EXCEPT !.member = @ \ {<<pass.cur, b>>}]
<1>2. pass.pc = "drop" /\ \E next : Call(t, next)
  BY <1>1 DEF DropMember, DeleteMember, At
<1>3. /\ pass.pc \in Working /\ pass.goal \in Specs /\ pass.hosts \in SUBSET Nodes
      /\ Tree \in Trees /\ PortAchieved(pass, Tree)
  BY <1>2, AchieveFacts DEF AchieveSteps, PortSteps
<1>4. /\ t.listener = Tree.listener /\ t.pool = Tree.pool /\ t.monitor = Tree.monitor
      /\ t.member = Tree.member \ {<<pass.cur, b>>}
  BY <1>3 DEF Trees
<1> HIDE DEF t
<1>5. /\ pass.cur \in pass.goal.ports
      /\ \A c \in Backends : c \in pass.hosts \X {pass.goal.np} => <<pass.cur, c>> \in Tree.member
  BY <1>2, <1>3 DEF PortAchieved, PortSteps, Visited
<1>6. {pass.cur} \X (pass.hosts \X {pass.goal.np}) \subseteq Tree.member
  <2> SUFFICES ASSUME NEW m \in {pass.cur} \X (pass.hosts \X {pass.goal.np})
               PROVE  m \in Tree.member
    OBVIOUS
  <2>1. m[1] = pass.cur /\ m[2] \in pass.hosts \X {pass.goal.np} /\ m = <<m[1], m[2]>>
    OBVIOUS
  <2>2. m[2] \in Backends
    BY <1>3, <2>1, GoalType DEF Backends
  <2> QED
    BY <1>5, <2>1, <2>2
<1>7. \A m \in Tree.member \ t.member : m[1] = pass.cur
  BY <1>4
<1>8. Makes(Tree, t, pass.goal, pass.hosts)
  BY <1>4, <1>5, <1>6, <1>7 DEF Makes
<1> QED
  BY <1>2, <1>3, <1>8, CallTree, NothingLost, SameLosesNothing

LEMMA OldStepMakes ==
  ASSUME Core, Achieved(pass, Tree),
         DropOldMonitor \/ DropOldMember \/ DropOldPool \/ DropOldListener
  PROVE  Makes(Tree, tree'[pass.lb], pass.goal, pass.hosts)
<1>1. pass.pc \in OldSteps
  BY DEF DropOldMonitor, DropOldMember, DropOldPool, DropOldListener, At, OldSteps
<1>2. pass.pc \in Working /\ Tree \in Trees
  BY <1>1, OldFacts
<1>3. ASSUME NEW t, NEW next, Call(t, next), Elsewhere(pass.cur, Tree, t)
      PROVE  Makes(Tree, tree'[pass.lb], pass.goal, pass.hosts)
  BY <1>1, <1>2, <1>3, CallTree, OldMakes, NothingLost, SameLosesNothing
<1>4. CASE DropOldMonitor
  <2> DEFINE t == [Tree EXCEPT !.monitor = @ \ {pass.cur}]
  <2>1. Elsewhere(pass.cur, Tree, t)
    BY <1>2 DEF Trees, Elsewhere
  <2>2. UNCHANGED tree \/ \E next : Call(t, next)
    BY <1>4 DEF DropOldMonitor, Goto, cloud
  <2> HIDE DEF t
  <2> QED
    BY <1>3, <2>1, <2>2, NothingLost, SameLosesNothing DEF Tree
<1>5. CASE DropOldMember
  <2>1. PICK b \in pass.stale : DeleteMember(b)
    BY <1>5 DEF DropOldMember
  <2> DEFINE t == [Tree EXCEPT !.member = @ \ {<<pass.cur, b>>}]
  <2>2. Elsewhere(pass.cur, Tree, t)
    BY <1>2 DEF Trees, Elsewhere
  <2>3. \E next : Call(t, next)
    BY <2>1 DEF DeleteMember
  <2> HIDE DEF t
  <2> QED
    BY <1>3, <2>2, <2>3
<1>6. CASE DropOldPool
  <2> DEFINE t == [Tree EXCEPT !.pool[pass.cur] = None]
  <2>1. Elsewhere(pass.cur, Tree, t)
    BY <1>2 DEF Trees, Elsewhere
  <2>2. \E next : Call(t, next)
    BY <1>6 DEF DropOldPool
  <2> HIDE DEF t
  <2> QED
    BY <1>3, <2>1, <2>2
<1>7. CASE DropOldListener
  <2> DEFINE t == [Tree EXCEPT !.listener[pass.cur] = None]
  <2>1. Elsewhere(pass.cur, Tree, t)
    BY <1>2 DEF Trees, Elsewhere
  <2>2. \E next : Call(t, next)
    BY <1>7 DEF DropOldListener
  <2> HIDE DEF t
  <2> QED
    BY <1>3, <2>1, <2>2
<1> QED
  BY <1>4, <1>5, <1>6, <1>7

\* The calls that create or update.
LEMMA GrowingMakes ==
  ASSUME Core, pass.pc \in EnsureSteps,
         \/ CreateLoadBalancer \/ EnsurePool \/ UpdatePool \/ EnsureMonitor
         \/ \E p \in Ports : EnsureListener(p)
         \/ \E n \in Nodes : EnsureMember(n)
  PROVE  pass.lb # None => Makes(Tree, tree'[pass.lb], pass.goal, pass.hosts)
<1>1. UNCHANGED tree => Makes(Tree, tree'[pass.lb], pass.goal, pass.hosts)
  BY NothingLost, SameLosesNothing DEF Tree
<1>2. ASSUME NEW t, NEW next, Call(t, next), LosesNothing(Tree, t), pass.pc \in Working
      PROVE  Makes(Tree, tree'[pass.lb], pass.goal, pass.hosts)
  BY <1>2, CallTree, NothingLost, SameLosesNothing
<1>3. pass.pc # "create" =>
        pass.pc \in Working /\ Tree \in Trees /\ pass.goal \in Specs
  <2> SUFFICES ASSUME pass.pc # "create"
               PROVE  pass.pc \in Working /\ Tree \in Trees /\ pass.goal \in Specs
    OBVIOUS
  <2>1. pass.pc \in Working
    BY DEF Working
  <2> QED
    BY <2>1, InHand
<1>4. CASE CreateLoadBalancer
  <2>1. CASE UNCHANGED tree
    BY <1>1, <2>1
  <2>2. ASSUME NEW l \in LBs, status[l] = "DELETED",
               tree' = [tree EXCEPT ![l] = EmptyTree]
        PROVE  UNCHANGED tree
    BY <2>2 DEF Core, Valid
  <2> QED
    BY <1>1, <1>4, <2>1, <2>2 DEF CreateLoadBalancer, cloud
<1>5. CASE EnsurePool
  <2> DEFINE t == [Tree EXCEPT !.pool[pass.cur] = NewPool]
  <2>1. pass.pc = "pool" /\ (UNCHANGED tree \/ \E next : Call(t, next))
    BY <1>5 DEF EnsurePool, At, Goto, cloud
  <2>2. LosesNothing(Tree, t)
    BY <1>3, <2>1, NewPoolInHand DEF Trees, LosesNothing
  <2> HIDE DEF t
  <2> QED
    BY <1>1, <1>2, <1>3, <2>1, <2>2
<1>6. CASE UpdatePool
  <2> DEFINE new == UpdatedPool(Tree.pool[pass.cur], pass.goal)
             t == [Tree EXCEPT !.pool[pass.cur] = new]
  <2>1. pass.pc = "settings" /\ (UNCHANGED tree \/ tree' = [tree EXCEPT ![pass.lb] = t])
    BY <1>6 DEF UpdatePool, CallElse, At, Goto, cloud
  <2>4. new # None
    BY <2>1, PoolInHand, UpdatedPoolHolds
  <2> HIDE DEF new
  <2>2. LosesNothing(Tree, t)
    BY <1>3, <2>1, <2>4 DEF Trees, LosesNothing
  <2> HIDE DEF t
  <2>3. pass.lb \in LBs /\ tree \in [LBs -> Trees]
    BY <1>3, <2>1, InHand DEF Core
  <2> QED
    BY <1>1, <2>1, <2>2, <2>3, NothingLost
<1>7. CASE EnsureMonitor
  <2> DEFINE t == [Tree EXCEPT !.monitor = @ \cup {pass.cur}]
  <2>1. pass.pc = "monitor" /\ (UNCHANGED tree \/ \E next : Call(t, next))
    BY <1>7 DEF EnsureMonitor, At, Goto, cloud
  <2>2. LosesNothing(Tree, t)
    BY <1>3, <2>1 DEF Trees, LosesNothing
  <2> HIDE DEF t
  <2> QED
    BY <1>1, <1>2, <1>3, <2>1, <2>2
<1>8. ASSUME NEW p \in Ports, EnsureListener(p)
      PROVE  Makes(Tree, tree'[pass.lb], pass.goal, pass.hosts)
  <2> DEFINE t == [Tree EXCEPT !.listener[p] = AskedListener(p)]
  <2>1. pass.pc = "port" /\ (UNCHANGED tree \/ \E next : Call(t, next))
    BY <1>8 DEF EnsureListener, At, Goto, cloud
  <2>2. LosesNothing(Tree, t)
    BY <1>3, <2>1, AskedListenerHolds DEF Trees, LosesNothing
  <2> HIDE DEF t
  <2> QED
    BY <1>1, <1>2, <1>3, <2>1, <2>2
<1>9. ASSUME NEW n \in Nodes, EnsureMember(n)
      PROVE  Makes(Tree, tree'[pass.lb], pass.goal, pass.hosts)
  <2> DEFINE t == [Tree EXCEPT !.member = @ \cup {<<pass.cur, <<n, pass.goal.np>>>>}]
  <2>1. pass.pc = "add" /\ (UNCHANGED tree \/ \E next : Call(t, next))
    BY <1>9 DEF EnsureMember, At, Goto, cloud
  <2>2. LosesNothing(Tree, t)
    BY <1>3, <2>1 DEF Trees, LosesNothing
  <2> HIDE DEF t
  <2> QED
    BY <1>1, <1>2, <1>3, <2>1, <2>2
<1> QED
  BY <1>4, <1>5, <1>6, <1>7, <1>8, <1>9

LEMMA PassStepMakes ==
  ASSUME Core, Achieved(pass, Tree), pass.pc \in EnsureSteps, pass.lb # None, PassStep
  PROVE  Makes(Tree, tree'[pass.lb], pass.goal, pass.hosts)
<1>1. CASE \/ CreateLoadBalancer \/ EnsurePool \/ UpdatePool \/ EnsureMonitor
           \/ \E p \in Ports : EnsureListener(p)
           \/ \E n \in Nodes : EnsureMember(n)
  BY <1>1, GrowingMakes
<1>2. CASE DropMember
  BY <1>2, DropMemberMakes
<1>3. CASE DropOldMonitor \/ DropOldMember \/ DropOldPool \/ DropOldListener
  BY <1>3, OldStepMakes
<1>4. CASE \/ WaitReady \/ WaitFails \/ ReadFails \/ ListListeners
           \/ ListMembers \/ MembersEnsured \/ MembersDropped \/ PortsEnsured
           \/ ListOldMembers \/ ObsoleteDropped \/ EnsureReturns
           \/ \E p \in Ports : PickObsolete(p)
  <2>1. UNCHANGED tree
    BY <1>4 DEF WaitReady, WaitFails, ReadFails, ListListeners, ListMembers,
       MembersEnsured, MembersDropped, PortsEnsured, ListOldMembers,
       ObsoleteDropped, EnsureReturns, PickObsolete, Goto, cloud
  <2> QED
    BY <2>1, NothingLost, SameLosesNothing DEF Tree
<1>5. CASE \/ ListForDelete \/ MonitorsDeleted \/ DeletePoolMember \/ DeletePool
           \/ PoolsDeleted \/ ListenersDeleted \/ DeleteLoadBalancer \/ DeleteTimesOut
           \/ \E p \in Ports : DeleteMonitor(p) \/ PickPool(p) \/ DeleteListener(p)
  <2>1. pass.pc \in DeleteSteps
    BY <1>5 DEF ListForDelete, MonitorsDeleted, DeletePoolMember, DeletePool,
       PoolsDeleted, ListenersDeleted, DeleteLoadBalancer, DeleteTimesOut,
       DeleteMonitor, PickPool, DeleteListener, At, DeleteSteps
  <2> QED
    BY <2>1 DEF EnsureSteps, DeleteSteps
<1> QED
  BY <1>1, <1>2, <1>3, <1>4, <1>5 DEF PassStep

\* A Service keeps serving while it is changed: a member goes from a port that is
\* still wanted only when every wanted backend of the port is a member, and an old
\* port loses anything only when every wanted port is complete.
THEOREM MakeBeforeBreakEver == Spec => MakeBeforeBreak
<1> DEFINE Gentle == Ensuring /\ pass.lb # None =>
                       Makes(Tree, tree'[pass.lb], pass.goal, pass.hosts)
<1>1. Discipline /\ Achievement /\ [Next]_vars => [Gentle]_vars
  <2> SUFFICES ASSUME Discipline, Achievement, Next, pass.pc \in EnsureSteps,
                      pass.lb # None
               PROVE  Makes(Tree, tree'[pass.lb], pass.goal, pass.hosts)
    BY DEF Ensuring
  <2>1. Core /\ Achieved(pass, Tree)
    BY DisciplineParts DEF Achievement
  <2>2. CASE PassStep
    BY <2>1, <2>2, PassStepMakes
  <2>3. CASE UNCHANGED tree
    BY <2>3, NothingLost, SameLosesNothing DEF Tree
  <2>4. PassStep \/ UNCHANGED tree
    BY DEF Next, Controller, BeginEnsure, EnsureRejected, BeginDelete,
       LookupAmbiguous, LookupFinds, LookupFindsNone, DeleteReturns, Goto, Edit,
       Settle, SettleError, Crash, Restart, vars, cloud
  <2> QED
    BY <2>2, <2>3, <2>4
<1>2. [Gentle]_vars =>
        [Ensuring /\ pass.lb # None =>
           LET g == pass.goal
               t == Tree
               u == tree'[pass.lb]
           IN /\ \A m \in t.member \ u.member :
                   m[1] \in g.ports =>
                     {m[1]} \X (pass.hosts \X {g.np}) \subseteq t.member
              /\ (\/ \E m \in t.member \ u.member : m[1] \notin g.ports
                  \/ \E p \in Ports : \/ t.pool[p] # None /\ u.pool[p] = None
                                      \/ t.listener[p] # None /\ u.listener[p] = None
                  \/ t.monitor \ u.monitor # {})
                 => \A p \in g.ports :
                      /\ ListenerServes(t.listener[p], g.ann)
                      /\ PoolServes(t.pool[p], g)
                      /\ {p} \X (pass.hosts \X {g.np}) \subseteq t.member]_vars
  BY DEF Makes
<1> HIDE DEF Gentle
<1> QED
  BY <1>1, <1>2, DisciplineHolds, AchievementHolds, PTL DEF Spec, MakeBeforeBreak

-----------------------------------------------------------------------------
(* The passes implement the abstract tree.                                 *)

\* Live, of a given tree, and of given statuses and trees.
Below(r, t) ==
  \/ r[1] = "listener" /\ t.listener[r[3]] # None
  \/ r[1] = "pool" /\ t.pool[r[3]] # None
  \/ r[1] = "monitor" /\ r[3] \in t.monitor
  \/ r[1] = "member" /\ <<r[3], r[4]>> \in t.member

LiveIn(r, st, tr) ==
  (r[1] = "loadbalancer" /\ st[r[2]] # "DELETED") \/ Below(r, tr[r[2]])

LiveNow == {r \in Resources : Live(r)}

LEMMA ResourceShape ==
  ASSUME NEW r \in Resources
  PROVE  /\ r[2] \in LBs /\ r = <<r[1], r[2], r[3], r[4]>>
         /\ \/ r[1] = "loadbalancer" /\ r[3] = None /\ r[4] = None
            \/ r[1] \in {"listener", "pool", "monitor"} /\ r[3] \in Ports /\ r[4] = None
            \/ r[1] = "member" /\ r[3] \in Ports /\ r[4] \in Backends
  BY DEF Resources

LEMMA ResourceKinds ==
  /\ \A l \in LBs : <<"loadbalancer", l, None, None>> \in Resources
  /\ \A l \in LBs, p \in Ports : /\ <<"listener", l, p, None>> \in Resources
                                 /\ <<"pool", l, p, None>> \in Resources
                                 /\ <<"monitor", l, p, None>> \in Resources
  /\ \A l \in LBs, p \in Ports, b \in Backends : <<"member", l, p, b>> \in Resources
  BY DEF Resources

LEMMA Parents ==
  ASSUME NEW r \in Resources
  PROVE  /\ r[1] = "loadbalancer" => Parent[r] = None
         /\ r[1] = "listener" => Parent[r] = <<"loadbalancer", r[2], None, None>>
         /\ r[1] = "pool" => Parent[r] = <<"listener", r[2], r[3], None>>
         /\ r[1] \in {"monitor", "member"} => Parent[r] = <<"pool", r[2], r[3], None>>
  BY ResourceShape DEF Parent

LEMMA LiveIsIn ==
  ASSUME NEW r \in Resources
  PROVE  /\ Live(r) <=> LiveIn(r, status, tree)
         /\ Live(r)' <=> LiveIn(r, status', tree')
<1>1. CASE r[1] = "loadbalancer"
  BY <1>1 DEF Live, LiveIn, Below
<1>2. CASE r[1] = "listener"
  BY <1>2 DEF Live, LiveIn, Below
<1>3. CASE r[1] = "pool"
  BY <1>3 DEF Live, LiveIn, Below
<1>4. CASE r[1] = "monitor"
  BY <1>4 DEF Live, LiveIn, Below
<1>5. CASE r[1] = "member"
  BY <1>5 DEF Live, LiveIn, Below
<1> QED
  BY <1>1, <1>2, <1>3, <1>4, <1>5, ResourceShape

\* Nothing but the resource r changes, which is live afterwards iff on.
Only(r, on) ==
  /\ \A q \in Resources \ {r} : LiveIn(q, status', tree') <=> LiveIn(q, status, tree)
  /\ LiveIn(r, status', tree') <=> on

AbstractStep == (\E r \in Resources : RT!Add(r) \/ RT!Remove(r)) \/ LiveNow' = LiveNow

LEMMA NothingChanges ==
  ASSUME \A q \in Resources : LiveIn(q, status', tree') <=> LiveIn(q, status, tree)
  PROVE  AbstractStep
<1>1. \A q \in Resources : Live(q)' <=> Live(q)
  BY LiveIsIn
<1>2. LiveNow' = {q \in Resources : Live(q)'}
  BY DEF LiveNow
<1>3. LiveNow' = LiveNow
  BY <1>1, <1>2 DEF LiveNow
<1> QED
  BY <1>3 DEF AbstractStep

LEMMA OnlyOne ==
  ASSUME NEW r \in Resources, NEW on \in BOOLEAN, Only(r, on),
         on => Parent[r] \in LiveNow \cup {None},
         ~on => \A c \in LiveNow : Parent[c] # r
  PROVE  AbstractStep
<1>1. \A q \in Resources : q # r => (Live(q)' <=> Live(q))
  BY LiveIsIn DEF Only
<1>2. Live(r)' <=> on
  BY LiveIsIn DEF Only
<1>3. LiveNow' = {q \in Resources : Live(q)'}
  BY DEF LiveNow
<1>4. CASE on /\ ~Live(r)
  <2>1. LiveNow' = LiveNow \cup {r}
    BY <1>1, <1>2, <1>3, <1>4 DEF LiveNow
  <2>2. RT!Add(r)
    BY <1>4, <2>1 DEF RT!Add, LiveNow
  <2> QED
    BY <2>2 DEF AbstractStep
<1>5. CASE ~on /\ Live(r)
  <2>1. LiveNow' = LiveNow \ {r}
    BY <1>1, <1>2, <1>3, <1>5 DEF LiveNow
  <2>2. RT!Remove(r)
    BY <1>5, <2>1 DEF RT!Remove, LiveNow
  <2> QED
    BY <2>2 DEF AbstractStep
<1>6. CASE on <=> Live(r)
  <2>1. LiveNow' = LiveNow
    BY <1>1, <1>2, <1>3, <1>6 DEF LiveNow
  <2> QED
    BY <2>1 DEF AbstractStep
<1> QED
  BY <1>4, <1>5, <1>6

\* The call changes the tree of the pass to t, or nothing.
Takes(t) ==
  \/ /\ status[pass.lb] = "ACTIVE"
     /\ status' = [status EXCEPT ![pass.lb] = "PENDING_UPDATE"]
     /\ tree' = [tree EXCEPT ![pass.lb] = t]
  \/ UNCHANGED cloud

\* As trees go, t differs from that of the pass in the resource r, which is in t iff on.
Turns(r, t, on) ==
  /\ \A q \in Resources : q[2] = pass.lb /\ q # r => (Below(q, t) <=> Below(q, Tree))
  /\ Below(r, t) <=> on

LEMMA SameCloud ==
  ASSUME UNCHANGED cloud
  PROVE  AbstractStep
<1>1. status' = status /\ tree' = tree
  BY DEF cloud
<1> QED
  BY <1>1, NothingChanges

LEMMA TakesIsAbstract ==
  ASSUME Core, pass.pc \in Working, NEW t, Takes(t),
         NEW r \in Resources, r[2] = pass.lb, r[1] # "loadbalancer",
         NEW on \in BOOLEAN, Turns(r, t, on),
         on => (status[pass.lb] = "ACTIVE" => Parent[r] \in LiveNow),
         ~on => \A c \in LiveNow : Parent[c] # r
  PROVE  AbstractStep
<1>1. pass.lb \in LBs /\ status \in [LBs -> Statuses] /\ tree \in [LBs -> Trees]
  BY InHand DEF Core
<1>2. CASE /\ status[pass.lb] = "ACTIVE"
           /\ status' = [status EXCEPT ![pass.lb] = "PENDING_UPDATE"]
           /\ tree' = [tree EXCEPT ![pass.lb] = t]
  <2>1. /\ tree'[pass.lb] = t /\ tree[pass.lb] = Tree
        /\ \A l \in LBs : l # pass.lb => tree'[l] = tree[l]
        /\ \A l \in LBs : status'[l] # "DELETED" <=> status[l] # "DELETED"
    BY <1>1, <1>2 DEF Tree
  <2>2. ASSUME NEW q \in Resources, q # r
        PROVE  LiveIn(q, status', tree') <=> LiveIn(q, status, tree)
    <3>1. q[2] \in LBs
      BY ResourceShape
    <3>2. Below(q, tree'[q[2]]) <=> Below(q, tree[q[2]])
      BY <2>1, <2>2, <3>1 DEF Turns
    <3> QED
      BY <2>1, <3>1, <3>2 DEF LiveIn
  <2>3. LiveIn(r, status', tree') <=> on
    BY <2>1 DEF LiveIn, Turns
  <2>4. Only(r, on)
    BY <2>2, <2>3 DEF Only
  <2> QED
    BY <1>2, <2>4, OnlyOne
<1> QED
  BY <1>2, SameCloud DEF Takes

LEMMA CallTakes ==
  ASSUME NEW t, NEW next, Call(t, next)
  PROVE  Takes(t)
  BY DEF Call, CallElse, Takes

-----------------------------------------------------------------------------
(* What the calls of a pass turn on and off.                               *)

LEMMA TurnListener ==
  ASSUME Tree \in Trees, pass.lb \in LBs, NEW p \in Ports, NEW c, NEW on \in BOOLEAN,
         on <=> c # None
  PROVE  Turns(<<"listener", pass.lb, p, None>>, [Tree EXCEPT !.listener[p] = c], on)
<1> DEFINE t == [Tree EXCEPT !.listener[p] = c]
           r == <<"listener", pass.lb, p, None>>
<1>1. /\ t.listener = [Tree.listener EXCEPT ![p] = c]
      /\ t.pool = Tree.pool /\ t.monitor = Tree.monitor /\ t.member = Tree.member
  BY DEF Trees
<1>2. Tree.listener \in [Ports -> Listeners \cup {None}]
  BY DEF Trees
<1> HIDE DEF t
<1>3. ASSUME NEW q \in Resources, q[2] = pass.lb, q # r
      PROVE  Below(q, t) <=> Below(q, Tree)
  <2>1. CASE q[1] = "listener"
    <3>1. q[3] \in Ports /\ q[3] # p
      BY <1>3, <2>1, ResourceShape
    <3> QED
      BY <1>1, <1>2, <2>1, <3>1 DEF Below
  <2>2. CASE q[1] # "listener"
    BY <1>1, <2>2 DEF Below
  <2> QED
    BY <2>1, <2>2
<1>4. Below(r, t) <=> on
  BY <1>1, <1>2 DEF Below
<1>5. Turns(r, t, on)
  BY <1>3, <1>4 DEF Turns
<1> QED
  BY <1>5 DEF t

LEMMA TurnPool ==
  ASSUME Tree \in Trees, pass.lb \in LBs, NEW p \in Ports, NEW c, NEW on \in BOOLEAN,
         on <=> c # None
  PROVE  Turns(<<"pool", pass.lb, p, None>>, [Tree EXCEPT !.pool[p] = c], on)
<1> DEFINE t == [Tree EXCEPT !.pool[p] = c]
           r == <<"pool", pass.lb, p, None>>
<1>1. /\ t.pool = [Tree.pool EXCEPT ![p] = c]
      /\ t.listener = Tree.listener /\ t.monitor = Tree.monitor /\ t.member = Tree.member
  BY DEF Trees
<1>2. Tree.pool \in [Ports -> Pools \cup {None}]
  BY DEF Trees
<1> HIDE DEF t
<1>3. ASSUME NEW q \in Resources, q[2] = pass.lb, q # r
      PROVE  Below(q, t) <=> Below(q, Tree)
  <2>1. CASE q[1] = "pool"
    <3>1. q[3] \in Ports /\ q[3] # p
      BY <1>3, <2>1, ResourceShape
    <3> QED
      BY <1>1, <1>2, <2>1, <3>1 DEF Below
  <2>2. CASE q[1] # "pool"
    BY <1>1, <2>2 DEF Below
  <2> QED
    BY <2>1, <2>2
<1>4. Below(r, t) <=> on
  BY <1>1, <1>2 DEF Below
<1>5. Turns(r, t, on)
  BY <1>3, <1>4 DEF Turns
<1> QED
  BY <1>5 DEF t

LEMMA TurnMonitor ==
  ASSUME Tree \in Trees, pass.lb \in LBs, NEW p \in Ports, NEW on \in BOOLEAN, NEW ms,
         \A q \in Ports : q # p => (q \in ms <=> q \in Tree.monitor), p \in ms <=> on
  PROVE  Turns(<<"monitor", pass.lb, p, None>>, [Tree EXCEPT !.monitor = ms], on)
<1> DEFINE t == [Tree EXCEPT !.monitor = ms]
           r == <<"monitor", pass.lb, p, None>>
<1>1. /\ t.monitor = ms
      /\ t.listener = Tree.listener /\ t.pool = Tree.pool /\ t.member = Tree.member
  BY DEF Trees
<1> HIDE DEF t
<1>2. ASSUME NEW q \in Resources, q[2] = pass.lb, q # r
      PROVE  Below(q, t) <=> Below(q, Tree)
  <2>1. CASE q[1] = "monitor"
    <3>1. q[3] \in Ports /\ q[3] # p
      BY <1>2, <2>1, ResourceShape
    <3> QED
      BY <1>1, <2>1, <3>1 DEF Below
  <2>2. CASE q[1] # "monitor"
    BY <1>1, <2>2 DEF Below
  <2> QED
    BY <2>1, <2>2
<1>3. Below(r, t) <=> on
  BY <1>1 DEF Below
<1>4. Turns(r, t, on)
  BY <1>2, <1>3 DEF Turns
<1> QED
  BY <1>4 DEF t

LEMMA TurnMember ==
  ASSUME Tree \in Trees, pass.lb \in LBs, NEW p \in Ports, NEW b \in Backends,
         NEW on \in BOOLEAN, NEW ms,
         \A m \in Ports \X Backends : m # <<p, b>> => (m \in ms <=> m \in Tree.member),
         <<p, b>> \in ms <=> on
  PROVE  Turns(<<"member", pass.lb, p, b>>, [Tree EXCEPT !.member = ms], on)
<1> DEFINE t == [Tree EXCEPT !.member = ms]
           r == <<"member", pass.lb, p, b>>
<1>1. /\ t.member = ms
      /\ t.listener = Tree.listener /\ t.pool = Tree.pool /\ t.monitor = Tree.monitor
  BY DEF Trees
<1> HIDE DEF t
<1>2. ASSUME NEW q \in Resources, q[2] = pass.lb, q # r
      PROVE  Below(q, t) <=> Below(q, Tree)
  <2>1. CASE q[1] = "member"
    <3>1. <<q[3], q[4]>> \in Ports \X Backends /\ <<q[3], q[4]>> # <<p, b>>
      BY <1>2, <2>1, ResourceShape
    <3> QED
      BY <1>1, <2>1, <3>1 DEF Below
  <2>2. CASE q[1] # "member"
    BY <1>1, <2>2 DEF Below
  <2> QED
    BY <2>1, <2>2
<1>3. Below(r, t) <=> on
  BY <1>1 DEF Below
<1>4. Turns(r, t, on)
  BY <1>2, <1>3 DEF Turns
<1> QED
  BY <1>4 DEF t

-----------------------------------------------------------------------------
(* Parents are there, and what goes is a leaf.                             *)

LEMMA ParentThere ==
  ASSUME NEW l \in LBs, NEW p \in Ports
  PROVE  /\ status[l] # "DELETED" => <<"loadbalancer", l, None, None>> \in LiveNow
         /\ tree[l].listener[p] # None => <<"listener", l, p, None>> \in LiveNow
         /\ tree[l].pool[p] # None => <<"pool", l, p, None>> \in LiveNow
<1>1. /\ <<"loadbalancer", l, None, None>> \in Resources
      /\ <<"listener", l, p, None>> \in Resources
      /\ <<"pool", l, p, None>> \in Resources
  BY ResourceKinds
<1>2. /\ status[l] # "DELETED" => LiveIn(<<"loadbalancer", l, None, None>>, status, tree)
      /\ tree[l].listener[p] # None => LiveIn(<<"listener", l, p, None>>, status, tree)
      /\ tree[l].pool[p] # None => LiveIn(<<"pool", l, p, None>>, status, tree)
  BY DEF LiveIn, Below
<1> QED
  BY <1>1, <1>2, LiveIsIn DEF LiveNow

LEMMA LiveBelow ==
  ASSUME NEW c \in LiveNow
  PROVE  /\ c \in Resources /\ c[2] \in LBs
         /\ c[1] = "listener" => c[3] \in Ports /\ tree[c[2]].listener[c[3]] # None
         /\ c[1] = "pool" => c[3] \in Ports /\ tree[c[2]].pool[c[3]] # None
         /\ c[1] = "monitor" => c[3] \in tree[c[2]].monitor
         /\ c[1] = "member" => c[4] \in Backends /\ <<c[3], c[4]>> \in tree[c[2]].member
<1>1. c \in Resources /\ LiveIn(c, status, tree)
  BY LiveIsIn DEF LiveNow
<1> QED
  BY <1>1, ResourceShape DEF LiveIn, Below

LEMMA Leaf ==
  ASSUME NEW r \in Resources, r[1] \in {"monitor", "member"}
  PROVE  \A c \in LiveNow : Parent[c] # r
<1> SUFFICES ASSUME NEW c \in LiveNow, Parent[c] = r PROVE FALSE
  OBVIOUS
<1>1. c \in Resources
  BY LiveBelow
<1>2. \/ Parent[c] = None
      \/ Parent[c] = <<"loadbalancer", c[2], None, None>>
      \/ Parent[c] = <<"listener", c[2], c[3], None>>
      \/ Parent[c] = <<"pool", c[2], c[3], None>>
  BY <1>1, Parents, ResourceShape
<1> QED
  BY <1>2, RootAssumption

LEMMA BareListener ==
  ASSUME NEW l \in LBs, NEW p \in Ports, tree[l].pool[p] = None
  PROVE  \A c \in LiveNow : Parent[c] # <<"listener", l, p, None>>
<1> SUFFICES ASSUME NEW c \in LiveNow, Parent[c] = <<"listener", l, p, None>> PROVE FALSE
  OBVIOUS
<1>1. c \in Resources
  BY LiveBelow
<1>2. c[1] = "pool" /\ c[2] = l /\ c[3] = p
  <2>1. <<"listener", l, p, None>> # None
    BY RootAssumption, ResourceKinds
  <2> QED
    BY <1>1, <2>1, Parents, ResourceShape
<1> QED
  BY <1>2, LiveBelow

LEMMA BarePool ==
  ASSUME NEW l \in LBs, NEW p \in Ports, p \notin tree[l].monitor,
         \A b \in Backends : <<p, b>> \notin tree[l].member
  PROVE  \A c \in LiveNow : Parent[c] # <<"pool", l, p, None>>
<1> SUFFICES ASSUME NEW c \in LiveNow, Parent[c] = <<"pool", l, p, None>> PROVE FALSE
  OBVIOUS
<1>1. c \in Resources
  BY LiveBelow
<1>2. c[1] \in {"monitor", "member"} /\ c[2] = l /\ c[3] = p
  <2>1. <<"pool", l, p, None>> # None
    BY RootAssumption, ResourceKinds
  <2> QED
    BY <1>1, <2>1, Parents, ResourceShape
<1> QED
  BY <1>2, LiveBelow

LEMMA BareLoadBalancer ==
  ASSUME NEW l \in LBs, tree[l] = EmptyTree
  PROVE  \A c \in LiveNow : Parent[c] # <<"loadbalancer", l, None, None>>
<1> SUFFICES ASSUME NEW c \in LiveNow, Parent[c] = <<"loadbalancer", l, None, None>>
             PROVE  FALSE
  OBVIOUS
<1>1. c \in Resources
  BY LiveBelow
<1>2. c[1] = "listener" /\ c[2] = l
  <2>1. <<"loadbalancer", l, None, None>> # None
    BY RootAssumption, ResourceKinds
  <2> QED
    BY <1>1, <2>1, Parents, ResourceShape
<1>3. c[3] \in Ports /\ tree[l].listener[c[3]] # None
  BY <1>2, LiveBelow
<1>4. EmptyTree.listener[c[3]] = None
  BY <1>3 DEF EmptyTree
<1> QED
  BY <1>3, <1>4

-----------------------------------------------------------------------------
(* Each call is a step of the abstract tree.                               *)

LEMMA EnsureListenerAbstract ==
  ASSUME Core, NEW p \in Ports, EnsureListener(p)
  PROVE  AbstractStep
<1> DEFINE t == [Tree EXCEPT !.listener[p] = AskedListener(p)]
           r == <<"listener", pass.lb, p, None>>
<1>1. /\ pass.pc \in Working /\ pass.pc \in EnsureSteps /\ pass.pc = "port"
      /\ UNCHANGED cloud \/ \E next : Call(t, next)
  BY DEF EnsureListener, At, Working, EnsureSteps, Goto
<1>2. pass.lb \in LBs /\ Tree \in Trees /\ AskedListener(p) # None
  BY <1>1, InHand, AskedListenerHolds
<1>3. Turns(r, t, TRUE)
  BY <1>2, TurnListener
<1>4. r \in Resources /\ r[2] = pass.lb /\ r[1] = "listener"
  BY <1>2, ResourceKinds
<1>5. status[pass.lb] = "ACTIVE" => Parent[r] \in LiveNow
  BY <1>2, <1>4, Parents, ParentThere
<1> HIDE DEF t, r
<1> QED
  BY <1>1, <1>3, <1>4, <1>5, SameCloud, CallTakes, TakesIsAbstract

LEMMA DropListenerAbstract ==
  ASSUME Core, NEW p \in Ports,
         DeleteListener(p) \/ (DropOldListener /\ p = pass.cur)
  PROVE  AbstractStep
<1> DEFINE t == [Tree EXCEPT !.listener[p] = None]
           r == <<"listener", pass.lb, p, None>>
<1>1. /\ pass.pc \in Working
      /\ pass.pc = "dListeners" \/ (pass.pc = "oldListener" /\ p = pass.cur)
      /\ \E next : Call(t, next)
  BY DEF DeleteListener, DropOldListener, At, Working, EnsureSteps, DeleteSteps
<1>2. pass.lb \in LBs /\ Tree \in Trees /\ EnsureKnows(pass, Tree) /\ DeleteKnows(pass, Tree)
  BY <1>1, InHand
<1>3. Turns(r, t, FALSE)
  BY <1>2, TurnListener
<1>4. r \in Resources /\ r[2] = pass.lb /\ r[1] = "listener"
  BY <1>2, ResourceKinds
<1>5. tree[pass.lb].pool[p] = None
  BY <1>1, <1>2 DEF EnsureKnows, DeleteKnows, Tree
<1>6. \A c \in LiveNow : Parent[c] # r
  BY <1>2, <1>5, BareListener
<1> HIDE DEF t, r
<1> QED
  BY <1>1, <1>3, <1>4, <1>6, CallTakes, TakesIsAbstract

LEMMA SetPoolAbstract ==
  ASSUME Core, EnsurePool \/ UpdatePool
  PROVE  AbstractStep
<1> DEFINE r == <<"pool", pass.lb, pass.cur, None>>
           t(c) == [Tree EXCEPT !.pool[pass.cur] = c]
           updated == UpdatedPool(Tree.pool[pass.cur], pass.goal)
<1>1. /\ pass.pc \in Working /\ pass.pc \in EnsureSteps /\ pass.pc \in {"pool", "settings"}
      /\ UNCHANGED cloud \/ \E c : c # None /\ Takes(t(c))
  <2>1. CASE EnsurePool
    <3>1. pass.pc = "pool" /\ (UNCHANGED cloud \/ Takes(t(NewPool)))
      BY <2>1, CallTakes DEF EnsurePool, At, Goto
    <3> QED  BY <3>1, NewPoolInHand DEF Working, EnsureSteps
  <2>2. CASE UpdatePool
    <3>1. pass.pc = "settings" /\ (UNCHANGED cloud \/ Takes(t(updated)))
      BY <2>2 DEF UpdatePool, CallElse, Takes, At, Goto
    <3>2. updated # None
      BY <3>1, PoolInHand, UpdatedPoolHolds
    <3> QED  BY <3>1, <3>2 DEF Working, EnsureSteps
  <2> QED
    BY <2>1, <2>2
<1>2. /\ pass.lb \in LBs /\ Tree \in Trees /\ Shape(Tree) /\ EnsureKnows(pass, Tree)
  BY <1>1, InHand
<1>3. pass.cur \in Ports /\ tree[pass.lb].listener[pass.cur] # None
  BY <1>1, <1>2 DEF EnsureKnows, Shape, Tree
<1>4. ASSUME NEW c, c # None PROVE Turns(r, t(c), TRUE)
  BY <1>2, <1>3, <1>4, TurnPool
<1>5. r \in Resources /\ r[2] = pass.lb /\ r[1] = "pool"
  BY <1>2, <1>3, ResourceKinds
<1>6. Parent[r] \in LiveNow
  BY <1>2, <1>3, <1>5, Parents, ParentThere
<1> HIDE DEF t, r
<1> QED
  BY <1>1, <1>4, <1>5, <1>6, SameCloud, TakesIsAbstract

LEMMA DropPoolAbstract ==
  ASSUME Core, DropOldPool \/ DeletePool
  PROVE  AbstractStep
<1> DEFINE t == [Tree EXCEPT !.pool[pass.cur] = None]
           r == <<"pool", pass.lb, pass.cur, None>>
<1>1. /\ pass.pc \in Working /\ pass.pc \in {"oldPool", "dMembers"} /\ pass.stale = {}
      /\ \E next : Call(t, next)
  BY DEF DropOldPool, DeletePool, At, Working, EnsureSteps, DeleteSteps
<1>2. /\ pass.lb \in LBs /\ Tree \in Trees
      /\ EnsureKnows(pass, Tree) /\ DeleteKnows(pass, Tree)
  BY <1>1, InHand
<1>3. /\ pass.cur \in Ports /\ pass.cur \notin tree[pass.lb].monitor
      /\ \A b \in Backends : <<pass.cur, b>> \notin tree[pass.lb].member
  BY <1>1, <1>2 DEF EnsureKnows, DeleteKnows, Tree
<1>4. Turns(r, t, FALSE)
  BY <1>2, <1>3, TurnPool
<1>5. r \in Resources /\ r[2] = pass.lb /\ r[1] = "pool"
  BY <1>2, <1>3, ResourceKinds
<1>6. \A c \in LiveNow : Parent[c] # r
  BY <1>2, <1>3, BarePool
<1> HIDE DEF t, r
<1> QED
  BY <1>1, <1>4, <1>5, <1>6, CallTakes, TakesIsAbstract

LEMMA EnsureMonitorAbstract ==
  ASSUME Core, EnsureMonitor
  PROVE  AbstractStep
<1> DEFINE t == [Tree EXCEPT !.monitor = @ \cup {pass.cur}]
           r == <<"monitor", pass.lb, pass.cur, None>>
<1>1. /\ pass.pc \in Working /\ pass.pc = "monitor"
      /\ UNCHANGED cloud \/ \E next : Call(t, next)
  BY DEF EnsureMonitor, At, Working, EnsureSteps, Goto
<1>2. pass.lb \in LBs /\ Tree \in Trees /\ EnsureKnows(pass, Tree)
  BY <1>1, InHand
<1>3. pass.cur \in Ports /\ tree[pass.lb].pool[pass.cur] # None
  BY <1>1, <1>2 DEF EnsureKnows, Tree
<1>4. Turns(r, t, TRUE)
  BY <1>2, <1>3, TurnMonitor
<1>5. r \in Resources /\ r[2] = pass.lb /\ r[1] = "monitor"
  BY <1>2, <1>3, ResourceKinds
<1>6. Parent[r] \in LiveNow
  BY <1>2, <1>3, <1>5, Parents, ParentThere
<1> HIDE DEF t, r
<1> QED
  BY <1>1, <1>4, <1>5, <1>6, SameCloud, CallTakes, TakesIsAbstract

LEMMA DropMonitorAbstract ==
  ASSUME Core, NEW p \in Ports, DeleteMonitor(p) \/ (DropOldMonitor /\ p = pass.cur)
  PROVE  AbstractStep
<1> DEFINE t == [Tree EXCEPT !.monitor = @ \ {p}]
           r == <<"monitor", pass.lb, p, None>>
<1>1. pass.pc \in Working /\ (UNCHANGED cloud \/ \E next : Call(t, next))
  BY DEF DeleteMonitor, DropOldMonitor, At, Working, EnsureSteps, DeleteSteps, Goto
<1>2. pass.lb \in LBs /\ Tree \in Trees
  BY <1>1, InHand
<1>3. Turns(r, t, FALSE)
  BY <1>2, TurnMonitor
<1>4. r \in Resources /\ r[2] = pass.lb /\ r[1] = "monitor"
  BY <1>2, ResourceKinds
<1>5. \A c \in LiveNow : Parent[c] # r
  BY <1>4, Leaf
<1> HIDE DEF t, r
<1> QED
  BY <1>1, <1>3, <1>4, <1>5, SameCloud, CallTakes, TakesIsAbstract

LEMMA EnsureMemberAbstract ==
  ASSUME Core, NEW n \in Nodes, EnsureMember(n)
  PROVE  AbstractStep
<1> DEFINE b == <<n, pass.goal.np>>
           t == [Tree EXCEPT !.member = @ \cup {<<pass.cur, b>>}]
           r == <<"member", pass.lb, pass.cur, b>>
<1>1. /\ pass.pc \in Working /\ pass.pc \in EnsureSteps /\ pass.pc = "add"
      /\ UNCHANGED cloud \/ \E next : Call(t, next)
  BY DEF EnsureMember, At, Working, EnsureSteps, Goto
<1>2. /\ pass.lb \in LBs /\ Tree \in Trees /\ EnsureKnows(pass, Tree)
      /\ pass.goal.np \in NodePorts
  BY <1>1, InHand, GoalType
<1>3. pass.cur \in Ports /\ tree[pass.lb].pool[pass.cur] # None /\ b \in Backends
  BY <1>1, <1>2 DEF EnsureKnows, Tree, Backends
<1> HIDE DEF b
<1>4. Turns(r, t, TRUE)
  BY <1>2, <1>3, TurnMember
<1>5. r \in Resources /\ r[2] = pass.lb /\ r[1] = "member"
  BY <1>2, <1>3, ResourceKinds
<1>6. Parent[r] \in LiveNow
  BY <1>2, <1>3, <1>5, Parents, ParentThere
<1> HIDE DEF t, r
<1> QED
  BY <1>1, <1>4, <1>5, <1>6, SameCloud, CallTakes, TakesIsAbstract

LEMMA DropMemberAbstract ==
  ASSUME Core, DropMember \/ DropOldMember \/ DeletePoolMember
  PROVE  AbstractStep
<1>1. PICK b \in pass.stale : DeleteMember(b)
  BY DEF DropMember, DropOldMember, DeletePoolMember
<1> DEFINE t == [Tree EXCEPT !.member = @ \ {<<pass.cur, b>>}]
           r == <<"member", pass.lb, pass.cur, b>>
<1>2. /\ pass.pc \in Working /\ pass.pc \in {"drop", "oldPool", "dMembers"}
      /\ \E next : Call(t, next)
  BY <1>1 DEF DropMember, DropOldMember, DeletePoolMember, DeleteMember, At, Working,
              EnsureSteps, DeleteSteps
<1>3. /\ pass \in Passes /\ pass.lb \in LBs /\ Tree \in Trees
      /\ EnsureKnows(pass, Tree) /\ DeleteKnows(pass, Tree)
  BY <1>2, InHand
<1>4. pass.cur \in Ports /\ b \in Backends
  BY <1>1, <1>2, <1>3 DEF EnsureKnows, DeleteKnows, Passes
<1>5. Turns(r, t, FALSE)
  BY <1>3, <1>4, TurnMember
<1>6. r \in Resources /\ r[2] = pass.lb /\ r[1] = "member"
  BY <1>3, <1>4, ResourceKinds
<1>7. \A c \in LiveNow : Parent[c] # r
  BY <1>6, Leaf
<1> HIDE DEF t, r
<1> QED
  BY <1>2, <1>5, <1>6, <1>7, CallTakes, TakesIsAbstract

-----------------------------------------------------------------------------
(* The load balancer itself.                                               *)

\* A step that changes the status of the load balancer l, and no tree.
LEMMA StatusIsAbstract ==
  ASSUME Core, NEW l \in LBs, NEW s,
         status' = [status EXCEPT ![l] = s], tree' = tree,
         s = "DELETED" => tree[l] = EmptyTree
  PROVE  AbstractStep
<1> DEFINE r == <<"loadbalancer", l, None, None>>
<1>1. r \in Resources /\ r[1] = "loadbalancer" /\ r[2] = l
  BY ResourceKinds
<1>2. status \in [LBs -> Statuses]
  BY DEF Core
<1>3. ASSUME NEW q \in Resources, q # r
      PROVE  LiveIn(q, status', tree') <=> LiveIn(q, status, tree)
  <2>1. q[1] = "loadbalancer" => q[2] # l
    BY <1>3, ResourceShape
  <2> QED
    BY <1>2, <2>1, ResourceShape DEF LiveIn
<1>4. LiveIn(r, status', tree') <=> s # "DELETED"
  BY <1>2 DEF LiveIn, Below
<1>5. Parent[r] = None
  BY <1>1, Parents
<1>6. s = "DELETED" => \A c \in LiveNow : Parent[c] # r
  BY BareLoadBalancer
<1> HIDE DEF r
<1>7. Only(r, s # "DELETED")
  BY <1>3, <1>4 DEF Only
<1> QED
  BY <1>1, <1>5, <1>6, <1>7, OnlyOne

LEMMA CreateAbstract ==
  ASSUME Core, CreateLoadBalancer
  PROVE  AbstractStep
<1>1. ASSUME NEW l \in LBs, status[l] = "DELETED",
             status' = [status EXCEPT ![l] = "PENDING_CREATE"],
             tree' = [tree EXCEPT ![l] = EmptyTree]
      PROVE  AbstractStep
  <2>1. tree' = tree
    BY <1>1 DEF Core, Valid
  <2> QED
    BY <1>1, <2>1, StatusIsAbstract
<1> QED
  BY <1>1, SameCloud DEF CreateLoadBalancer

LEMMA DeleteLoadBalancerAbstract ==
  ASSUME Core, DeleteLoadBalancer
  PROVE  AbstractStep
<1>1. pass.lb \in LBs
  BY InHand DEF DeleteLoadBalancer, At, Working, DeleteSteps
<1>2. CASE status' = [status EXCEPT ![pass.lb] = "PENDING_DELETE"] /\ tree' = tree
  BY <1>1, <1>2, StatusIsAbstract
<1> QED
  BY <1>2, SameCloud DEF DeleteLoadBalancer

LEMMA SettlingAbstract ==
  ASSUME Core, NEW l \in LBs, Settle(l) \/ SettleError(l)
  PROVE  AbstractStep
<1>1. PICK s : /\ status' = [status EXCEPT ![l] = s] /\ tree' = tree
               /\ s = "DELETED" => status[l] = "PENDING_DELETE"
  <2>1. CASE Settle(l)
    BY <2>1 DEF Settle
  <2>2. CASE SettleError(l)
    BY <2>2 DEF SettleError
  <2> QED
    BY <2>1, <2>2
<1>2. s = "DELETED" => tree[l] = EmptyTree
  BY <1>1 DEF Core, Valid
<1> QED
  BY <1>1, <1>2, StatusIsAbstract

LEMMA PassStepAbstract ==
  ASSUME Core, PassStep
  PROVE  AbstractStep
<1>1. CASE \E p \in Ports : EnsureListener(p) \/ DeleteListener(p) \/ DeleteMonitor(p)
  BY <1>1, EnsureListenerAbstract, DropListenerAbstract, DropMonitorAbstract
<1>2. CASE EnsurePool \/ UpdatePool \/ EnsureMonitor \/ \E n \in Nodes : EnsureMember(n)
  BY <1>2, SetPoolAbstract, EnsureMonitorAbstract, EnsureMemberAbstract
<1>3. CASE DropMember \/ DropOldMember \/ DeletePoolMember \/ DropOldPool \/ DeletePool
  BY <1>3, DropMemberAbstract, DropPoolAbstract
<1>4. CASE DropOldMonitor \/ DropOldListener
  <2>1. pass.cur \in Ports
    BY <1>4, InHand DEF DropOldMonitor, DropOldListener, At, Working, EnsureSteps,
                        EnsureKnows
  <2> QED
    BY <1>4, <2>1, DropMonitorAbstract, DropListenerAbstract
<1>5. CASE CreateLoadBalancer \/ DeleteLoadBalancer
  BY <1>5, CreateAbstract, DeleteLoadBalancerAbstract
<1>6. CASE \/ WaitReady \/ WaitFails \/ ReadFails \/ ListListeners
           \/ ListMembers \/ MembersEnsured \/ MembersDropped \/ PortsEnsured
           \/ ListOldMembers \/ ObsoleteDropped \/ EnsureReturns
           \/ ListForDelete \/ MonitorsDeleted \/ PoolsDeleted
           \/ ListenersDeleted \/ DeleteTimesOut
           \/ \E p \in Ports : PickObsolete(p) \/ PickPool(p)
  <2>1. UNCHANGED cloud
    BY <1>6 DEF WaitReady, WaitFails, ReadFails, ListListeners, ListMembers,
     MembersEnsured, MembersDropped, PortsEnsured, ListOldMembers,
     ObsoleteDropped, EnsureReturns, ListForDelete, MonitorsDeleted,
     PoolsDeleted, ListenersDeleted, DeleteTimesOut, PickObsolete, PickPool,
     Goto
  <2> QED
    BY <2>1, SameCloud
<1> QED
  BY <1>1, <1>2, <1>3, <1>4, <1>5, <1>6 DEF PassStep

LEMMA NextAbstract ==
  ASSUME Core, [Next]_vars
  PROVE  AbstractStep
<1>1. CASE PassStep
  BY <1>1, PassStepAbstract
<1>2. CASE UNCHANGED cloud
  BY <1>2, SameCloud
<1>3. CASE \E l \in LBs : Settle(l) \/ SettleError(l)
  BY <1>3, SettlingAbstract
<1>4. PassStep \/ UNCHANGED cloud \/ \E l \in LBs : Settle(l) \/ SettleError(l)
  BY DEF Next, Controller, BeginEnsure, EnsureRejected, BeginDelete,
     LookupAmbiguous, LookupFinds, LookupFindsNone, DeleteReturns, Goto, Edit,
     Crash, Restart, vars, cloud
<1> QED
  BY <1>1, <1>2, <1>3, <1>4

LEMMA InitAbstract ==
  ASSUME Init
  PROVE  LiveNow = {}
<1>1. \A r \in Resources : ~LiveIn(r, status, tree)
  BY ResourceShape DEF Init, LiveIn, Below, EmptyTree
<1> QED
  BY <1>1, LiveIsIn DEF LiveNow

\* The passes implement the abstract tree: whatever fails on the way, the load balancer
\* resources only ever grow at their leaves and are only ever cut at their leaves.
THEOREM PassesImplementTree == Spec => GrowsAndShrinksAtLeaves
<1>1. Init => RT!Init
  BY InitAbstract DEF RT!Init, LiveNow
<1>2. Discipline /\ [Next]_vars => [RT!Next]_({r \in Resources : Live(r)})
  <2> SUFFICES ASSUME Discipline, [Next]_vars
               PROVE  [RT!Next]_({r \in Resources : Live(r)})
    OBVIOUS
  <2>1. AbstractStep
    BY NextAbstract, DisciplineParts
  <2> QED
    BY <2>1 DEF AbstractStep, RT!Next, LiveNow
<1> QED
  BY <1>1, <1>2, DisciplineHolds, PTL DEF Spec, GrowsAndShrinksAtLeaves, RT!Spec

\* The abstract tree keeps its promise: a resource is only added below a live parent
\* and only removed as a leaf, so that no live one ever lacks its parent.
LEMMA TreeKeepsParents == RT!Spec => []RT!ParentsLive
<1> DEFINE live == {r \in Resources : Live(r)}
<1>1. RT!Init => RT!ParentsLive
  BY DEF RT!Init, RT!ParentsLive
<1>2. RT!ParentsLive /\ [RT!Next]_live => RT!ParentsLive'
  <2> SUFFICES ASSUME \A r \in live : Parent[r] \in live \cup {None}, [RT!Next]_live
               PROVE  \A r \in live' : Parent[r] \in live' \cup {None}
    BY DEF RT!ParentsLive
  <2> USE DEF RT!Next, RT!Add, RT!Remove
  <2> HIDE DEF live
  <2>1. ASSUME NEW r \in Resources, live' = live \cup {r}, Parent[r] \in live \cup {None}
        PROVE  \A q \in live' : Parent[q] \in live' \cup {None}
    BY <2>1
  <2>2. ASSUME NEW r \in Resources, live' = live \ {r}, \A c \in live : Parent[c] # r
        PROVE  \A q \in live' : Parent[q] \in live' \cup {None}
    BY <2>2
  <2>3. \/ \E r \in Resources : live' = live \cup {r} /\ Parent[r] \in live \cup {None}
        \/ \E r \in Resources : live' = live \ {r} /\ \A c \in live : Parent[c] # r
        \/ live' = live
    BY DEF live
  <2> QED  BY <2>1, <2>2, <2>3
<1> QED  BY <1>1, <1>2, PTL DEF RT!Spec

\* Through the refinement the passes inherit the promise: every live resource reaches
\* a live load balancer.
THEOREM ParentsLiveEver == Spec => []RT!ParentsLive
BY PassesImplementTree, TreeKeepsParents DEF GrowsAndShrinksAtLeaves

-----------------------------------------------------------------------------
(* Every call repairs.                                                     *)

\* The parts of Wrong.
WrongListeners(t, s) == {q \in Ports : (t.listener[q] = None) = (q \in s.ports)}

WrongOptions(t, s) == {q \in s.ports : ~ListenerSettled(t.listener[q], s.ann)}

WrongPools(t, s) == {q \in Ports : (t.pool[q] = None) = (q \in s.ports)}

WrongSettings(t, s) == {q \in s.ports : ~PoolServes(t.pool[q], s)}

Differ(a, b) == (a \ b) \cup (b \ a)

WrongMonitors(t, s) == Differ(t.monitor, IF CreateMonitor THEN s.ports ELSE {})

WrongMembers(t, s, hosts) == Differ(t.member, s.ports \X (hosts \X {s.np}))

LEMMA WrongParts ==
  \A t, s, hosts :
    Wrong(t, s, hosts) =
      {<<"listener", p>> : p \in WrongListeners(t, s)}
      \cup {<<"options", p>> : p \in WrongOptions(t, s)}
      \cup {<<"pool", p>> : p \in WrongPools(t, s)}
      \cup {<<"settings", p>> : p \in WrongSettings(t, s)}
      \cup {<<"monitor", p>> : p \in WrongMonitors(t, s)}
      \cup {<<"member", m>> : m \in WrongMembers(t, s, hosts)}
  BY DEF Wrong, WrongListeners, WrongOptions, WrongPools, WrongSettings, Differ, WrongMonitors,
         WrongMembers

\* Nothing gets wrong between the trees t and u, and something right.
Repaired(t, u, s, hosts) ==
  /\ WrongListeners(u, s) \subseteq WrongListeners(t, s)
  /\ WrongOptions(u, s) \subseteq WrongOptions(t, s)
  /\ WrongPools(u, s) \subseteq WrongPools(t, s)
  /\ WrongSettings(u, s) \subseteq WrongSettings(t, s)
  /\ WrongMonitors(u, s) \subseteq WrongMonitors(t, s)
  /\ WrongMembers(u, s, hosts) \subseteq WrongMembers(t, s, hosts)
  /\ \/ \E p : p \in WrongListeners(t, s) /\ p \notin WrongListeners(u, s)
     \/ \E p : p \in WrongOptions(t, s) /\ p \notin WrongOptions(u, s)
     \/ \E p : p \in WrongPools(t, s) /\ p \notin WrongPools(u, s)
     \/ \E p : p \in WrongSettings(t, s) /\ p \notin WrongSettings(u, s)
     \/ \E p : p \in WrongMonitors(t, s) /\ p \notin WrongMonitors(u, s)
     \/ \E m : m \in WrongMembers(t, s, hosts) /\ m \notin WrongMembers(u, s, hosts)

LEMMA RepairedIsLessWrong ==
  ASSUME NEW t, NEW u, NEW s, NEW hosts, Repaired(t, u, s, hosts)
  PROVE  /\ Wrong(u, s, hosts) \subseteq Wrong(t, s, hosts)
         /\ Wrong(u, s, hosts) # Wrong(t, s, hosts)
<1> DEFINE l(x) == WrongListeners(x, s)
           k(x) == WrongOptions(x, s)
           o(x) == WrongPools(x, s)
           e(x) == WrongSettings(x, s)
           n(x) == WrongMonitors(x, s)
           m(x) == WrongMembers(x, s, hosts)
           w(x) == Wrong(x, s, hosts)
<1>1. \A x : w(x) = {<<"listener", p>> : p \in l(x)} \cup {<<"options", p>> : p \in k(x)}
                    \cup {<<"pool", p>> : p \in o(x)} \cup {<<"settings", p>> : p \in e(x)}
                    \cup {<<"monitor", p>> : p \in n(x)} \cup {<<"member", p>> : p \in m(x)}
  BY WrongParts
<1>2. /\ l(u) \subseteq l(t) /\ k(u) \subseteq k(t) /\ o(u) \subseteq o(t)
      /\ e(u) \subseteq e(t) /\ n(u) \subseteq n(t) /\ m(u) \subseteq m(t)
      /\ \/ \E p : p \in l(t) /\ p \notin l(u)
         \/ \E p : p \in k(t) /\ p \notin k(u)
         \/ \E p : p \in o(t) /\ p \notin o(u)
         \/ \E p : p \in e(t) /\ p \notin e(u)
         \/ \E p : p \in n(t) /\ p \notin n(u)
         \/ \E p : p \in m(t) /\ p \notin m(u)
  BY DEF Repaired
<1> HIDE DEF l, k, o, e, n, m, w
<1>3. \A x, p : /\ <<"listener", p>> \in w(x) <=> p \in l(x)
                /\ <<"options", p>> \in w(x) <=> p \in k(x)
                /\ <<"pool", p>> \in w(x) <=> p \in o(x)
                /\ <<"settings", p>> \in w(x) <=> p \in e(x)
                /\ <<"monitor", p>> \in w(x) <=> p \in n(x)
                /\ <<"member", p>> \in w(x) <=> p \in m(x)
  BY <1>1
<1>4. w(u) \subseteq w(t)
  BY <1>1, <1>2
<1>5. w(u) # w(t)
  BY <1>2, <1>3
<1> QED
  BY <1>4, <1>5 DEF w

LEMMA FixesListener ==
  ASSUME Tree \in Trees, NEW s \in Specs, NEW hosts, NEW p \in Ports, NEW c,
         \/ p \in s.ports /\ Tree.listener[p] = None /\ c # None
         \/ /\ p \in s.ports /\ Tree.listener[p] # None
            /\ ~ListenerSettled(Tree.listener[p], s.ann) /\ ListenerSettled(c, s.ann)
         \/ p \notin s.ports /\ Tree.listener[p] # None /\ c = None
  PROVE  Repaired(Tree, [Tree EXCEPT !.listener[p] = c], s, hosts)
<1> DEFINE u == [Tree EXCEPT !.listener[p] = c]
<1>1. /\ u.pool = Tree.pool /\ u.monitor = Tree.monitor /\ u.member = Tree.member
      /\ u.listener[p] = c /\ \A q \in Ports : q # p => u.listener[q] = Tree.listener[q]
  BY DEF Trees
<1> HIDE DEF u
<1>2. s.ports \subseteq Ports /\ ~ListenerSettled(None, s.ann)
  BY GoalType, NoneIsNotSettled
<1>3. ListenerSettled(c, s.ann) => c # None
  BY DEF ListenerSettled
<1>4. /\ WrongListeners(u, s) \subseteq WrongListeners(Tree, s)
      /\ WrongOptions(u, s) \subseteq WrongOptions(Tree, s)
  BY <1>1, <1>2, <1>3 DEF WrongListeners, WrongOptions
<1>5. \/ p \in WrongListeners(Tree, s) /\ p \notin WrongListeners(u, s)
      \/ p \in WrongOptions(Tree, s) /\ p \notin WrongOptions(u, s)
  BY <1>1, <1>2 DEF WrongListeners, WrongOptions
<1>6. /\ WrongPools(u, s) = WrongPools(Tree, s)
      /\ WrongSettings(u, s) = WrongSettings(Tree, s)
      /\ WrongMonitors(u, s) = WrongMonitors(Tree, s)
      /\ WrongMembers(u, s, hosts) = WrongMembers(Tree, s, hosts)
  BY <1>1 DEF WrongPools, WrongSettings, WrongMonitors, WrongMembers
<1>7. Repaired(Tree, u, s, hosts)
  BY <1>4, <1>5, <1>6 DEF Repaired
<1> QED
  BY <1>7 DEF u

LEMMA FixesPool ==
  ASSUME Tree \in Trees, NEW s \in Specs, NEW hosts, NEW p \in Ports, NEW c,
         \/ p \in s.ports /\ Tree.pool[p] = None /\ c # None
         \/ /\ p \in s.ports /\ Tree.pool[p] # None
            /\ ~PoolServes(Tree.pool[p], s) /\ PoolServes(c, s)
         \/ p \notin s.ports /\ Tree.pool[p] # None /\ c = None
  PROVE  Repaired(Tree, [Tree EXCEPT !.pool[p] = c], s, hosts)
<1> DEFINE u == [Tree EXCEPT !.pool[p] = c]
<1>1. /\ u.listener = Tree.listener /\ u.monitor = Tree.monitor /\ u.member = Tree.member
      /\ u.pool[p] = c /\ \A q \in Ports : q # p => u.pool[q] = Tree.pool[q]
  BY DEF Trees
<1> HIDE DEF u
<1>2. /\ s.ports \subseteq Ports /\ ~PoolServes(None, s)
      /\ PoolServes(c, s) => c # None
  BY GoalType DEF PoolServes
<1>3. /\ WrongPools(u, s) \subseteq WrongPools(Tree, s)
      /\ WrongSettings(u, s) \subseteq WrongSettings(Tree, s)
  BY <1>1, <1>2 DEF WrongPools, WrongSettings
<1>4. \/ \E q : q \in WrongPools(Tree, s) /\ q \notin WrongPools(u, s)
      \/ \E q : q \in WrongSettings(Tree, s) /\ q \notin WrongSettings(u, s)
  <2>1. CASE ~PoolServes(Tree.pool[p], s) /\ PoolServes(c, s) /\ p \in s.ports
    BY <1>1, <2>1 DEF WrongSettings
  <2>2. CASE p \in s.ports /\ Tree.pool[p] = None /\ c # None
    <3>1. p \in WrongPools(Tree, s) /\ p \notin WrongPools(u, s)
      BY <1>1, <2>2 DEF WrongPools
    <3> QED
      BY <3>1
  <2>3. CASE p \notin s.ports /\ Tree.pool[p] # None /\ c = None
    <3>1. p \in WrongPools(Tree, s) /\ p \notin WrongPools(u, s)
      BY <1>1, <2>3 DEF WrongPools
    <3> QED
      BY <3>1
  <2> QED
    BY <2>1, <2>2, <2>3
<1>5. /\ WrongListeners(u, s) = WrongListeners(Tree, s)
      /\ WrongOptions(u, s) = WrongOptions(Tree, s)
      /\ WrongMonitors(u, s) = WrongMonitors(Tree, s)
      /\ WrongMembers(u, s, hosts) = WrongMembers(Tree, s, hosts)
  BY <1>1 DEF WrongListeners, WrongOptions, WrongMonitors, WrongMembers
<1>6. Repaired(Tree, u, s, hosts)
  BY <1>3, <1>4, <1>5 DEF Repaired
<1> QED
  BY <1>6 DEF u

LEMMA FixesMonitor ==
  ASSUME Tree \in Trees, NEW s, NEW hosts, NEW p, NEW ms,
         \/ p \in s.ports /\ CreateMonitor /\ p \notin Tree.monitor /\ ms = Tree.monitor \cup {p}
         \/ p \notin s.ports /\ p \in Tree.monitor /\ ms = Tree.monitor \ {p}
  PROVE  Repaired(Tree, [Tree EXCEPT !.monitor = ms], s, hosts)
<1> DEFINE u == [Tree EXCEPT !.monitor = ms]
<1>1. /\ u.listener = Tree.listener /\ u.pool = Tree.pool /\ u.member = Tree.member
      /\ u.monitor = ms
  BY DEF Trees
<1> HIDE DEF u
<1>2. /\ WrongMonitors(u, s) \subseteq WrongMonitors(Tree, s)
      /\ p \in WrongMonitors(Tree, s) /\ p \notin WrongMonitors(u, s)
  BY <1>1 DEF WrongMonitors, Differ
<1>3. /\ WrongListeners(u, s) = WrongListeners(Tree, s)
      /\ WrongOptions(u, s) = WrongOptions(Tree, s)
      /\ WrongPools(u, s) = WrongPools(Tree, s)
      /\ WrongSettings(u, s) = WrongSettings(Tree, s)
      /\ WrongMembers(u, s, hosts) = WrongMembers(Tree, s, hosts)
  BY <1>1 DEF WrongListeners, WrongOptions, WrongPools, WrongSettings, WrongMembers
<1>4. Repaired(Tree, u, s, hosts)
  BY <1>2, <1>3 DEF Repaired
<1> QED
  BY <1>4 DEF u

LEMMA FixesMember ==
  ASSUME Tree \in Trees, NEW s, NEW hosts, NEW m, NEW ms,
         \/ /\ m \in s.ports \X (hosts \X {s.np}) /\ m \notin Tree.member
            /\ ms = Tree.member \cup {m}
         \/ /\ m \notin s.ports \X (hosts \X {s.np}) /\ m \in Tree.member
            /\ ms = Tree.member \ {m}
  PROVE  Repaired(Tree, [Tree EXCEPT !.member = ms], s, hosts)
<1> DEFINE u == [Tree EXCEPT !.member = ms]
           wanted == s.ports \X (hosts \X {s.np})
<1>1. /\ u.listener = Tree.listener /\ u.pool = Tree.pool /\ u.monitor = Tree.monitor
      /\ u.member = ms
  BY DEF Trees
<1>2. /\ WrongMembers(Tree, s, hosts) = Differ(Tree.member, wanted)
      /\ WrongMembers(u, s, hosts) = Differ(ms, wanted)
  BY <1>1 DEF WrongMembers
<1> HIDE DEF u, wanted
<1>3. \/ m \in wanted /\ m \notin Tree.member /\ ms = Tree.member \cup {m}
      \/ m \notin wanted /\ m \in Tree.member /\ ms = Tree.member \ {m}
  BY DEF wanted
<1>4. /\ Differ(ms, wanted) \subseteq Differ(Tree.member, wanted)
      /\ m \in Differ(Tree.member, wanted) /\ m \notin Differ(ms, wanted)
  BY <1>3 DEF Differ
<1>5. /\ WrongListeners(u, s) = WrongListeners(Tree, s)
      /\ WrongOptions(u, s) = WrongOptions(Tree, s)
      /\ WrongPools(u, s) = WrongPools(Tree, s)
      /\ WrongSettings(u, s) = WrongSettings(Tree, s)
      /\ WrongMonitors(u, s) = WrongMonitors(Tree, s)
  BY <1>1 DEF WrongListeners, WrongOptions, WrongPools, WrongSettings, WrongMonitors
<1>6. Repaired(Tree, u, s, hosts)
  BY <1>2, <1>4, <1>5 DEF Repaired
<1> QED
  BY <1>6 DEF u

\* What EveryCallRepairs says of a step of a pass.
Improves ==
  Tree # tree'[pass.lb] => Repaired(Tree, tree'[pass.lb], pass.goal, pass.hosts)

LEMMA SameImproves ==
  ASSUME UNCHANGED tree
  PROVE  Improves
  BY DEF Improves, Tree

LEMMA CallImproves ==
  ASSUME Core, pass.pc \in Working, NEW t, NEW next, Call(t, next),
         Tree # t => Repaired(Tree, t, pass.goal, pass.hosts)
  PROVE  Improves
  BY CallTree DEF Improves

LEMMA EnsureListenerImproves ==
  ASSUME Core, Achieved(pass, Tree), NEW p \in Ports, EnsureListener(p)
  PROVE  Improves
<1> DEFINE t == [Tree EXCEPT !.listener[p] = AskedListener(p)]
           s == pass.goal
<1>1. /\ pass.pc = "port" /\ p \in pass.todo
      /\ \/ UNCHANGED tree
         \/ FoundListener(p) # AskedListener(p) /\ \E next : Call(t, next)
  BY DEF EnsureListener, At, Goto, cloud
<1>2. /\ pass.pc \in Working /\ s \in Specs /\ Tree \in Trees
      /\ PortsAchieved(pass, Tree)
  BY <1>1, AchieveFacts DEF AchieveSteps
<1>3. p \in s.ports
  BY <1>1, <1>2 DEF PortsAchieved
<1>4. CASE FoundListener(p) # AskedListener(p) /\ \E next : Call(t, next)
  <2>1. \/ Tree.listener[p] = None /\ AskedListener(p) # None
        \/ /\ Tree.listener[p] # None /\ ~ListenerSettled(Tree.listener[p], s.ann)
           /\ ListenerSettled(AskedListener(p), s.ann)
    <3>1. CASE FoundListener(p) = None
      <4>1. Tree.listener[p] = None
        BY <1>1, <1>2, <3>1 DEF PortsAchieved, FoundListener
      <4> QED  BY <1>1, <4>1, AskedListenerHolds
    <3>2. CASE FoundListener(p) # None
      BY <1>1, <1>4, <3>2, AskedListenerHolds
    <3> QED  BY <3>1, <3>2
  <2>2. Repaired(Tree, t, s, pass.hosts)
    BY <1>2, <1>3, <2>1, FixesListener
  <2> HIDE DEF t
  <2> QED
    BY <1>2, <1>4, <2>2, CallImproves
<1> QED
  BY <1>1, <1>4, SameImproves

LEMMA SetPoolImproves ==
  ASSUME Core, Achieved(pass, Tree), EnsurePool \/ UpdatePool
  PROVE  Improves
<1> DEFINE t(c) == [Tree EXCEPT !.pool[pass.cur] = c]
           old == Tree.pool[pass.cur]
           s == pass.goal
<1>1. /\ pass.pc \in {"pool", "settings"}
      /\ \/ UNCHANGED tree
         \/ \E c : /\ Takes(t(c))
                   /\ \/ old = None /\ c # None
                      \/ old # None /\ ~PoolServes(old, s) /\ PoolServes(c, s)
  <2>1. CASE EnsurePool
    <3>1. pass.pc = "pool" /\ (UNCHANGED tree \/ (old = None /\ Takes(t(NewPool))))
      BY <2>1, CallTakes DEF EnsurePool, At, Goto, cloud
    <3> QED  BY <3>1, NewPoolInHand
  <2>2. CASE UpdatePool
    <3> DEFINE new == UpdatedPool(old, s)
    <3>1. pass.pc = "settings" /\ (UNCHANGED tree \/ (old # new /\ Takes(t(new))))
      BY <2>2 DEF UpdatePool, CallElse, Takes, At, Goto, cloud
    <3>2. /\ old # None /\ PoolServes(new, s)
          /\ old = new <=> PoolServes(old, s)
      BY <3>1, PoolInHand, UpdatedPoolHolds
    <3> HIDE DEF old, new, t
    <3> QED  BY <3>1, <3>2
  <2> QED
    BY <2>1, <2>2
<1>2. /\ pass.pc \in Working /\ s \in Specs /\ Tree \in Trees
      /\ PortAchieved(pass, Tree) /\ s.ports \subseteq Ports /\ pass.lb \in LBs
  BY <1>1, AchieveFacts, InHand DEF AchieveSteps, PortSteps
<1>3. pass.cur \in s.ports
  BY <1>1, <1>2 DEF PortAchieved, PortSteps
<1>4. ASSUME NEW c, Takes(t(c)),
             \/ old = None /\ c # None
             \/ old # None /\ ~PoolServes(old, s) /\ PoolServes(c, s)
      PROVE  Improves
  <2>1. tree'[pass.lb] = t(c) \/ UNCHANGED tree
    BY <1>2, <1>4 DEF Takes, Core, cloud
  <2>2. Repaired(Tree, t(c), s, pass.hosts)
    BY <1>2, <1>3, <1>4, FixesPool
  <2> HIDE DEF t
  <2> QED
    BY <2>1, <2>2, SameImproves DEF Improves
<1> HIDE DEF t
<1> QED
  BY <1>1, <1>4, SameImproves

LEMMA EnsureMemberImproves ==
  ASSUME Core, Achieved(pass, Tree), NEW n \in Nodes, EnsureMember(n)
  PROVE  Improves
<1> DEFINE b == <<n, pass.goal.np>>
           m == <<pass.cur, b>>
           t == [Tree EXCEPT !.member = @ \cup {m}]
<1>1. /\ pass.pc = "add" /\ n \in pass.left
      /\ UNCHANGED tree \/ (b \notin pass.stale /\ \E next : Call(t, next))
  BY DEF EnsureMember, At, Goto, cloud
<1>2. /\ pass.pc \in Working /\ Tree \in Trees /\ PortAchieved(pass, Tree)
      /\ pass.goal.np \in NodePorts
  BY <1>1, AchieveFacts DEF AchieveSteps, PortSteps
<1>3. /\ pass.cur \in pass.goal.ports /\ n \in pass.hosts
      /\ \A c \in Backends : <<pass.cur, c>> \in Tree.member <=> c \in pass.stale \/ c \in Visited(pass)
  BY <1>1, <1>2 DEF PortAchieved, PortSteps
<1>4. b \in Backends /\ b \notin Visited(pass)
  BY <1>1, <1>2 DEF Backends, Visited
<1>5. m \in pass.goal.ports \X (pass.hosts \X {pass.goal.np})
  BY <1>3
<1>6. CASE b \notin pass.stale /\ \E next : Call(t, next)
  <2>1. m \notin Tree.member
    BY <1>3, <1>4, <1>6
  <2> HIDE DEF m
  <2>2. Repaired(Tree, t, pass.goal, pass.hosts)
    BY <1>2, <1>5, <2>1, FixesMember
  <2> HIDE DEF t
  <2> QED
    BY <1>2, <1>6, <2>2, CallImproves
<1> QED
  BY <1>1, <1>6, SameImproves

LEMMA DropMemberImproves ==
  ASSUME Core, Achieved(pass, Tree), DropMember \/ DropOldMember
  PROVE  Improves
<1>1. PICK b \in pass.stale : DeleteMember(b)
  BY DEF DropMember, DropOldMember
<1> DEFINE m == <<pass.cur, b>>
           t == [Tree EXCEPT !.member = @ \ {m}]
<1>2. pass.pc \in {"drop", "oldPool"} /\ \E next : Call(t, next)
  BY <1>1 DEF DropMember, DropOldMember, DeleteMember, At
<1>3. /\ pass.pc \in Working /\ Tree \in Trees /\ PortAchieved(pass, Tree)
      /\ pass.stale \subseteq Backends
  BY <1>2, AchieveFacts DEF AchieveSteps, PortSteps, OldSteps
<1>4. m \notin pass.goal.ports \X (pass.hosts \X {pass.goal.np})
  <2>1. CASE pass.pc = "drop"
    <3>1. b \notin pass.hosts \X {pass.goal.np}
      BY <1>1, <1>3, <2>1 DEF PortAchieved, Visited
    <3> QED
      BY <3>1
  <2>2. CASE pass.pc = "oldPool"
    <3>1. pass.cur \notin pass.goal.ports
      BY <2>2, OldFacts DEF OldSteps
    <3> QED
      BY <3>1
  <2> QED
    BY <1>2, <2>1, <2>2
<1> HIDE DEF m
<1>5. Tree # t => Repaired(Tree, t, pass.goal, pass.hosts)
  <2>1. t = [Tree EXCEPT !.member = Tree.member \ {m}]
    OBVIOUS
  <2>2. m \notin Tree.member => Tree = t
    <3>1. m \notin Tree.member => Tree.member \ {m} = Tree.member
      OBVIOUS
    <3> QED
      BY <1>3, <2>1, <3>1 DEF Trees
  <2>3. m \in Tree.member => Repaired(Tree, t, pass.goal, pass.hosts)
    BY <1>3, <1>4, FixesMember
  <2> HIDE DEF t
  <2> QED
    BY <2>2, <2>3
<1> HIDE DEF t
<1> QED
  BY <1>2, <1>3, <1>5, CallImproves

LEMMA EnsureMonitorImproves ==
  ASSUME Core, Achieved(pass, Tree), EnsureMonitor
  PROVE  Improves
<1> DEFINE t == [Tree EXCEPT !.monitor = @ \cup {pass.cur}]
<1>1. /\ pass.pc = "monitor"
      /\ \/ UNCHANGED tree
         \/ /\ pass.cur \notin Tree.monitor /\ CreateMonitor
            /\ \E next : Call(t, next)
  BY DEF EnsureMonitor, At, Goto, cloud
<1>2. /\ pass.pc \in Working /\ Tree \in Trees /\ PortAchieved(pass, Tree)
  BY <1>1, AchieveFacts DEF AchieveSteps, PortSteps
<1>3. pass.cur \in pass.goal.ports
  BY <1>1, <1>2 DEF PortAchieved, PortSteps
<1>4. pass.cur \notin Tree.monitor /\ CreateMonitor =>
        Repaired(Tree, t, pass.goal, pass.hosts)
  BY <1>2, <1>3, FixesMonitor
<1> HIDE DEF t
<1> QED
  BY <1>1, <1>2, <1>4, SameImproves, CallImproves

\* What is done to an obsolete port.
LEMMA OldStepImproves ==
  ASSUME Core, Achieved(pass, Tree), DropOldMonitor \/ DropOldPool \/ DropOldListener
  PROVE  Improves
<1>1. pass.pc \in OldSteps
  BY DEF DropOldMonitor, DropOldPool, DropOldListener, At, OldSteps
<1>2. /\ pass.pc \in Working /\ Tree \in Trees /\ pass.cur \in Ports
      /\ pass.cur \notin pass.goal.ports /\ pass.goal \in Specs
  BY <1>1, OldFacts, InHand DEF Working, OldSteps, EnsureSteps
<1>3. CASE DropOldMonitor
  <2> DEFINE t == [Tree EXCEPT !.monitor = @ \ {pass.cur}]
  <2>1. UNCHANGED tree \/ (pass.cur \in Tree.monitor /\ \E next : Call(t, next))
    BY <1>3 DEF DropOldMonitor, Goto, cloud
  <2>2. pass.cur \in Tree.monitor => Repaired(Tree, t, pass.goal, pass.hosts)
    BY <1>2, FixesMonitor
  <2> HIDE DEF t
  <2> QED
    BY <1>2, <2>1, <2>2, SameImproves, CallImproves
<1>4. CASE DropOldPool
  <2> DEFINE t == [Tree EXCEPT !.pool[pass.cur] = None]
  <2>1. \E next : Call(t, next)
    BY <1>4 DEF DropOldPool
  <2>2. Tree.pool[pass.cur] # None => Repaired(Tree, t, pass.goal, pass.hosts)
    BY <1>2, FixesPool
  <2>3. Tree.pool[pass.cur] = None => Tree = t
    BY <1>2 DEF Trees
  <2> HIDE DEF t
  <2> QED
    BY <1>2, <2>1, <2>2, <2>3, CallImproves
<1>5. CASE DropOldListener
  <2> DEFINE t == [Tree EXCEPT !.listener[pass.cur] = None]
  <2>1. \E next : Call(t, next)
    BY <1>5 DEF DropOldListener
  <2>2. Tree.listener[pass.cur] # None => Repaired(Tree, t, pass.goal, pass.hosts)
    BY <1>2, FixesListener
  <2>3. Tree.listener[pass.cur] = None => Tree = t
    BY <1>2 DEF Trees
  <2> HIDE DEF t
  <2> QED
    BY <1>2, <2>1, <2>2, <2>3, CallImproves
<1> QED
  BY <1>3, <1>4, <1>5

LEMMA PassStepImproves ==
  ASSUME Core, Achieved(pass, Tree), pass.pc \in EnsureSteps, PassStep
  PROVE  Improves
<1>1. CASE \/ EnsurePool \/ UpdatePool \/ EnsureMonitor
           \/ \E p \in Ports : EnsureListener(p)
           \/ \E n \in Nodes : EnsureMember(n)
  BY <1>1, SetPoolImproves, EnsureMonitorImproves, EnsureListenerImproves,
     EnsureMemberImproves
<1>2. CASE DropMember \/ DropOldMember \/ DropOldMonitor \/ DropOldPool \/ DropOldListener
  BY <1>2, DropMemberImproves, OldStepImproves
<1>3. CASE CreateLoadBalancer
  <2>1. ASSUME NEW l \in LBs, status[l] = "DELETED",
               tree' = [tree EXCEPT ![l] = EmptyTree]
        PROVE  UNCHANGED tree
    BY <2>1 DEF Core, Valid
  <2> QED
    BY <1>3, <2>1, SameImproves DEF CreateLoadBalancer, cloud
<1>4. CASE \/ WaitReady \/ WaitFails \/ ReadFails \/ ListListeners
           \/ ListMembers \/ MembersEnsured \/ MembersDropped \/ PortsEnsured
           \/ ListOldMembers \/ ObsoleteDropped \/ EnsureReturns
           \/ \E p \in Ports : PickObsolete(p)
  <2>1. UNCHANGED tree
    BY <1>4 DEF WaitReady, WaitFails, ReadFails, ListListeners, ListMembers,
       MembersEnsured, MembersDropped, PortsEnsured, ListOldMembers,
       ObsoleteDropped, EnsureReturns, PickObsolete, Goto, cloud
  <2> QED
    BY <2>1, SameImproves
<1>5. CASE \/ ListForDelete \/ MonitorsDeleted \/ DeletePoolMember \/ DeletePool
           \/ PoolsDeleted \/ ListenersDeleted \/ DeleteLoadBalancer \/ DeleteTimesOut
           \/ \E p \in Ports : DeleteMonitor(p) \/ PickPool(p) \/ DeleteListener(p)
  <2>1. pass.pc \in DeleteSteps
    BY <1>5 DEF ListForDelete, MonitorsDeleted, DeletePoolMember, DeletePool,
       PoolsDeleted, ListenersDeleted, DeleteLoadBalancer, DeleteTimesOut,
       DeleteMonitor, PickPool, DeleteListener, At, DeleteSteps
  <2> QED
    BY <2>1 DEF EnsureSteps, DeleteSteps
<1> QED
  BY <1>1, <1>2, <1>3, <1>4, <1>5 DEF PassStep

\* Every call of an Ensure pass that changes the cloud repairs something and spoils
\* nothing: no pass, retried or not, undoes or repeats what is already right.
THEOREM EveryCallRepairsEver == Spec => EveryCallRepairs
<1> DEFINE Repair == Ensuring /\ pass.lb # None => Improves
<1>1. Discipline /\ Achievement /\ [Next]_vars => [Repair]_vars
  <2> SUFFICES ASSUME Discipline, Achievement, Next, pass.pc \in EnsureSteps
               PROVE  Improves
    BY DEF Ensuring
  <2>1. Core /\ Achieved(pass, Tree)
    BY DisciplineParts DEF Achievement
  <2>2. CASE PassStep
    BY <2>1, <2>2, PassStepImproves
  <2>3. CASE UNCHANGED tree
    BY <2>3, SameImproves
  <2>4. PassStep \/ UNCHANGED tree
    BY DEF Next, Controller, BeginEnsure, EnsureRejected, BeginDelete,
       LookupAmbiguous, LookupFinds, LookupFindsNone, DeleteReturns, Goto, Edit,
       Settle, SettleError, Crash, Restart, vars, cloud
  <2> QED
    BY <2>2, <2>3, <2>4
<1>2. [Repair]_vars =>
        [Ensuring /\ pass.lb # None /\ Tree # tree'[pass.lb] =>
           LET before == Wrong(Tree, pass.goal, pass.hosts)
               after == Wrong(tree'[pass.lb], pass.goal, pass.hosts)
           IN after \subseteq before /\ after # before]_vars
  BY RepairedIsLessWrong DEF Improves
<1> HIDE DEF Repair
<1> QED
  BY <1>1, <1>2, DisciplineHolds, AchievementHolds, PTL DEF Spec, EveryCallRepairs

-----------------------------------------------------------------------------
(* How much a pass can do.                                                 *)

FiniteCluster == IsFiniteSet(Ports) /\ IsFiniteSet(Nodes) /\ IsFiniteSet(NodePorts)

LEMMA WrongIsFinite ==
  ASSUME FiniteCluster, NEW t \in Trees, NEW s \in Specs, NEW hosts \in SUBSET Nodes
  PROVE  IsFiniteSet(Wrong(t, s, hosts))
<1> DEFINE Kinds == {"listener", "options", "pool", "settings", "monitor", "member"}
           Members == Ports \X Backends
           All == Kinds \X (Ports \cup Members)
<1>1. IsFiniteSet(Kinds)
  <2>1. \A S, x : IsFiniteSet(S) => IsFiniteSet(S \cup {x})
    BY FS_AddElement
  <2>2. Kinds = {} \cup {"listener"} \cup {"options"} \cup {"pool"} \cup {"settings"}
                \cup {"monitor"} \cup {"member"}
    OBVIOUS
  <2> HIDE DEF Kinds
  <2> QED  BY <2>1, <2>2, FS_EmptySet, Zenon
<1>2. IsFiniteSet(Members)
  BY FS_Product DEF FiniteCluster, Backends
<1> HIDE DEF Kinds, Members
<1>3. IsFiniteSet(All)
  <2>1. IsFiniteSet(Ports \cup Members)
    BY <1>2, FS_Union DEF FiniteCluster
  <2> QED  BY <1>1, <2>1, FS_Product
<1>4. s.ports \subseteq Ports /\ s.np \in NodePorts
  BY SpecsAssumption DEF SpecRecords
<1>5. /\ WrongListeners(t, s) \subseteq Ports
      /\ WrongOptions(t, s) \subseteq Ports
      /\ WrongPools(t, s) \subseteq Ports
      /\ WrongSettings(t, s) \subseteq Ports
  BY <1>4 DEF WrongListeners, WrongOptions, WrongPools, WrongSettings
<1>6. WrongMonitors(t, s) \subseteq Ports
  BY <1>4 DEF WrongMonitors, Differ, Trees
<1>7. WrongMembers(t, s, hosts) \subseteq Members
  BY <1>4 DEF WrongMembers, Differ, Trees, Members, Backends
<1>8. Wrong(t, s, hosts) \subseteq All
  BY <1>5, <1>6, <1>7, WrongParts DEF Kinds
<1> QED  BY <1>3, <1>8, FS_Subset

\* An Ensure pass runs out of calls: each one that changes the cloud leaves fewer
\* resources wrong, so a pass changes it at most as often as there was something wrong
\* when it got its load balancer, whatever fails and is waited for on the way.
THEOREM CallsRunOut ==
  FiniteCluster =>
    (Spec =>
       [][Ensuring /\ pass.lb # None /\ Tree # tree'[pass.lb] =>
            Cardinality(Wrong(tree'[pass.lb], pass.goal, pass.hosts))
              < Cardinality(Wrong(Tree, pass.goal, pass.hosts))]_vars)
<1> SUFFICES ASSUME FiniteCluster
             PROVE  Spec =>
                      [][Ensuring /\ pass.lb # None /\ Tree # tree'[pass.lb] =>
                           Cardinality(Wrong(tree'[pass.lb], pass.goal, pass.hosts))
                             < Cardinality(Wrong(Tree, pass.goal, pass.hosts))]_vars
  OBVIOUS
<1> DEFINE before == Wrong(Tree, pass.goal, pass.hosts)
           after == Wrong(tree'[pass.lb], pass.goal, pass.hosts)
           Changes == Ensuring /\ pass.lb # None /\ Tree # tree'[pass.lb]
           Repairs == Changes => after \subseteq before /\ after # before
           Fewer == Changes => Cardinality(after) < Cardinality(before)
<1>1. Spec => [][Repairs]_vars
  BY EveryCallRepairsEver DEF EveryCallRepairs
<1>2. Discipline /\ [Repairs]_vars => [Fewer]_vars
  <2> SUFFICES ASSUME Discipline, Repairs, Changes
               PROVE  Cardinality(after) < Cardinality(before)
    OBVIOUS
  <2>1. /\ pass.goal \in Specs /\ pass.hosts \in SUBSET Nodes
        /\ pass.lb \in LBs /\ Tree \in Trees
    <3>1. Core
      BY DisciplineParts
    <3>2. pass.goal \in Specs
      BY <3>1 DEF Changes, Ensuring, Core, PassOK
    <3>3. pass.hosts \in SUBSET Nodes /\ pass.lb \in LBs
      BY <3>1 DEF Changes, Core, Passes
    <3> QED  BY <3>1, <3>2, <3>3 DEF Tree, Core
  <2>2. IsFiniteSet(before)
    BY <2>1, WrongIsFinite
  <2> HIDE DEF before, after, Changes
  <2>3. after \in SUBSET before /\ after # before
    OBVIOUS
  <2>4. IsFiniteSet(after) /\ Cardinality(after) <= Cardinality(before)
        /\ Cardinality(after) # Cardinality(before)
    BY <2>2, <2>3, FS_Subset
  <2>5. Cardinality(after) \in Nat /\ Cardinality(before) \in Nat
    BY <2>2, <2>4, FS_CardinalityType
  <2> QED  BY <2>4, <2>5
<1> HIDE DEF Repairs, Fewer
<1>3. Spec => [][Fewer]_vars
  BY <1>1, <1>2, DisciplineHolds, PTL
<1> QED  BY <1>3 DEF Fewer, Changes
=============================================================================
