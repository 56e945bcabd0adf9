------------------------- MODULE MCListenerProtocol -------------------------
(***************************************************************************)
(* ListenerProtocol with the annotations that the README documents, and    *)
(* with some it does not.                                                  *)
(***************************************************************************)
EXTENDS ListenerProtocol

CONSTANTS t1, t2

Ann(protocol, tls, redirect, lowTls, proxy) ==
  [protocol |-> protocol, tls |-> tls, redirect |-> redirect,
   lowTls |-> lowTls, proxy |-> proxy]

\* A TLS container only with terminated_https; the other flags anywhere.
Documented ==
  {Ann(spelling, None, flag, ~flag, proxy) :
     spelling \in {"", "tcp", "http", "HTTP"}, flag, proxy \in BOOLEAN}
  \cup {Ann("terminated_https", tls, FALSE, flag, flag) :
          tls \in {t1, t2}, flag \in BOOLEAN}

\* A TLS container with another protocol or with none; no known protocol.
Others ==
  {Ann(spelling, t1, flag, flag, TRUE) :
     spelling \in {"", "tcp", "http"}, flag \in BOOLEAN}
  \cup {Ann("bogus", None, FALSE, FALSE, FALSE),
        Ann("terminated_https", None, FALSE, FALSE, FALSE)}

Any == Documented \cup Others
=============================================================================
