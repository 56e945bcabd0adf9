---------------------------- MODULE ListenerConfig ----------------------------
(***************************************************************************)
(* What the annotations of a Service make of a listener and of its pool:   *)
(* the helpers of kinx_loadbalancer.go about protocols and descriptions,   *)
(* and the options EnsureLoadBalancer creates and updates a listener with. *)
(*                                                                         *)
(* The protocol of a listener or pool is fixed when it is created.  What   *)
(* may be updated later is the description, which tells the load balancer  *)
(* what to do with headers and TLS, and the TLS containers.                *)
(***************************************************************************)

CONSTANTS
  TlsRefs,       \* TLS containers
  None           \* no listener, no pool, no TLS container

\* The values of the backend-protocol annotation: absent, the three documented
\* ones, one of them in another case, and one that means nothing.
Spellings == {"", "tcp", "http", "terminated_https", "HTTP", "bogus"}

AnnotationRecords ==
  [protocol : Spellings, tls : TlsRefs \cup {None}, redirect : BOOLEAN,
   lowTls : BOOLEAN, proxy : BOOLEAN]

Protocols == {"TCP", "HTTP", "TERMINATED_HTTPS"}

Descriptions == {"", "forward-http", "forward-http redirect", "forward-https",
                 "forward-https no-low-tls"}

Listeners == [protocol : Protocols, desc : Descriptions, tls : TlsRefs \cup {None}]

ASSUME ListenersAssumption == None \notin TlsRefs \cup Listeners

-----------------------------------------------------------------------------
(* The helpers.                                                            *)

Normalize(spelling) == IF spelling = "HTTP" THEN "http" ELSE spelling

BackendProtocols == {"tcp", "http", "terminated_https"}

IsBackendProtocol(spelling) == Normalize(spelling) \in BackendProtocols

\* The annotations with which a pass gets past the first of its checks.
SupportedAnnotations ==
  {a \in AnnotationRecords : a.protocol = "" \/ IsBackendProtocol(a.protocol)}

ListenerProtocolOf(backend) ==
  CASE backend = "terminated_https" -> "TERMINATED_HTTPS"
    [] backend = "http" -> "HTTP"
    [] backend = "tcp" -> "TCP"
    [] OTHER -> ""

BackendProtocolOf(protocol) ==
  CASE protocol = "TERMINATED_HTTPS" -> "terminated_https"
    [] protocol = "HTTP" -> "http"
    [] OTHER -> "tcp"

PoolProtocolOf(backend) ==
  CASE backend \in {"terminated_https", "http"} -> "HTTP"
    [] backend = "tcp" -> "TCP"
    [] OTHER -> ""

\* The description tells the load balancer what to do with headers and TLS.
ListenerDescription(protocol, a) ==
  CASE protocol = "HTTP" ->
         IF a.redirect THEN "forward-http redirect" ELSE "forward-http"
    [] protocol = "TERMINATED_HTTPS" ->
         IF a.lowTls THEN "forward-https no-low-tls" ELSE "forward-https"
    [] OTHER -> ""

PoolDescription(protocol, a) ==
  IF protocol = "TCP" /\ a.proxy THEN "proxy" ELSE ""

-----------------------------------------------------------------------------
(* The listener of one port: x is the one that was found, or None.         *)

\* Mutant: the annotation goes before what the listener is.
MutEffectiveBackend(x, a) ==
  LET annotated == Normalize(a.protocol)
  IN IF annotated # "" THEN annotated
     ELSE IF x # None THEN BackendProtocolOf(x.protocol)
     ELSE "tcp"

\* Mutant: the annotation is used as it is written.
MutEffectiveBackendAsWritten(x, a) ==
  IF x # None THEN BackendProtocolOf(x.protocol)
  ELSE IF a.protocol = "" THEN "tcp"
  ELSE a.protocol

\* The protocol of an existing listener is kept, whatever the annotation says;
\* without either, tcp.
EffectiveBackend(x, a) ==
  LET annotated == Normalize(a.protocol)
  IN IF x # None THEN BackendProtocolOf(x.protocol)
     ELSE IF annotated = "" THEN "tcp"
     ELSE annotated

\* The listener that is created: a TLS container forces its protocol, after the
\* description has been chosen, and nothing else.
NewListener(a) ==
  LET protocol == ListenerProtocolOf(EffectiveBackend(None, a))
  IN [protocol |-> IF a.tls # None THEN "TERMINATED_HTTPS" ELSE protocol,
      desc |-> ListenerDescription(protocol, a), tls |-> a.tls]

\* What the listener that was found is updated to, if it is not so already.
UpdatedListener(x, a) ==
  LET protocol == ListenerProtocolOf(EffectiveBackend(x, a))
  IN [x EXCEPT !.desc = ListenerDescription(protocol, a), !.tls = a.tls]
=============================================================================
