---------------------------- MODULE ResourceTree ----------------------------
(***************************************************************************)
(* What the provider promises about the OpenStack resources it owns, with  *)
(* no word about how: a resource appears below a parent that is there, and *)
(* goes only when nothing is left below it.  A load balancer has no parent *)
(* (Root); a listener has a load balancer, a pool a listener, a member or  *)
(* health monitor a pool.                                                  *)
(***************************************************************************)
CONSTANTS Resources, Root, Parent

VARIABLE live

Add(r) ==
  /\ r \notin live
  /\ Parent[r] \in live \cup {Root}
  /\ live' = live \cup {r}

Remove(r) ==
  /\ r \in live
  /\ \A c \in live : Parent[c] # r
  /\ live' = live \ {r}

Init == live = {}

Next == \E r \in Resources : Add(r) \/ Remove(r)

Spec == Init /\ [][Next]_live

\* No resource is left behind below a parent that is gone: every live resource
\* reaches a live load balancer.
ParentsLive == \A r \in live : Parent[r] \in live \cup {Root}
=============================================================================
