--------------------------- MODULE MCLoadBalancer ---------------------------
(***************************************************************************)
(* Small instances of LoadBalancer: the Services a user may write are      *)
(* given as a few records that differ where a pass has to tell them apart. *)
(***************************************************************************)
EXTENDS LoadBalancerInv

CONSTANTS p1, p2, n1, n2, n3, np1, np2, t1, rr, lc

Service(ports, np, ann, method, defect) ==
  [ports |-> ports, np |-> np, ann |-> ann, method |-> method, defect |-> defect]

Http == [protocol |-> "http", tls |-> None, redirect |-> FALSE, lowTls |-> FALSE,
         proxy |-> FALSE]

\* A TLS container next to tcp: the listener is made TERMINATED_HTTPS, with the
\* description of a TCP listener, and its pool TCP.
Tls == [Http EXCEPT !.protocol = "tcp", !.tls = t1, !.proxy = TRUE]

\* Moved has a port more, and another node port, annotations and method, than
\* Plain; Split shares no port with Plain.
Plain == Service({p1}, np1, Http, rr, "none")
Moved == Service({p1, p2}, np2, Tls, lc, "none")
Split == Service({p2}, np1, Http, rr, "none")

ValidSpecs == {Plain, Moved}

\* Services that a pass refuses, at once or half way through,
\* next to three that are not.
RefusedSpecs ==
  {Plain, Moved, Split,
   Service({p1}, np2, Tls, rr, "precheck"),
   Service({p2}, np1, Http, rr, "method"),
   Service({p1, p2}, np2, Http, lc, "health")}

\* Two ports, and nothing but the lb-method to change.
Rebalanced ==
  {Service({p1, p2}, np1, Http, method, "none") : method \in {rr, lc}}

BothNodes == {{n1, n2}}

\* The last is refused, or fails its pass half way through.
ThreeLists == {{n1}, {n1, n2}, {n1, n3}}

NoNodes == {}
ThirdNode == {n3}
=============================================================================
