-------------------------- MODULE MCGatewayPayment --------------------------
(* GatewayPayment on small instances.  Handlers and keys are alike, and so *)
(* are payments received before the behaviour starts.                      *)
EXTENDS GatewayPayment, TLC

Symmetry == Permutations(Handlers) \cup Permutations(Keys) \cup Permutations(Settled)
=============================================================================
