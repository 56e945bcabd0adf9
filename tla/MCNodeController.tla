-------------------------- MODULE MCNodeController ---------------------------
(***************************************************************************)
(* Two instances and two ports for NodeController.  The network of the     *)
(* IPv6 port sorts after that of the other one.                            *)
(***************************************************************************)
EXTENDS NodeController

CONSTANTS a1, b6, f, inner, outer, subnet1, subnet2

TwoPorts == {[addr |-> a1, subnet |-> subnet1, net |-> inner],
             [addr |-> b6, subnet |-> subnet2, net |-> outer]}
Sorted == <<inner, outer>>

Opts(public, internal, noV6) ==
  [public |-> public, internal |-> internal, noV6 |-> noV6]

\* The zero value, which is what the program runs with, and one of each kind.
AllOptions == {Opts({}, {}, FALSE), Opts({outer}, {}, FALSE),
               Opts({}, {outer}, FALSE), Opts({}, {}, TRUE)}
==============================================================================
