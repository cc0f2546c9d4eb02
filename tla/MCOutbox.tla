------------------------------ MODULE MCOutbox ------------------------------
(* Outbox with two runners: the cfg file gives the sets.                   *)
EXTENDS Outbox
=============================================================================
