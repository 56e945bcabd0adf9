------------------------- MODULE MCProvisioningWait -------------------------
(***************************************************************************)
(* ProvisioningWait with the constants of kinx_loadbalancer.go.            *)
(***************************************************************************)
EXTENDS ProvisioningWait

CodeLoops ==
  {[delay |-> 1000, steps |-> 57, deleting |-> FALSE],
   [delay |-> 1000, steps |-> 13, deleting |-> TRUE]}
=============================================================================
