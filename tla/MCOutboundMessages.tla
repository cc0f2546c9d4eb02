-------------------------- MODULE MCOutboundMessages --------------------------
(* OutboundMessages for one customer: all messages go to the same number.  *)
EXTENDS OutboundMessages

CONSTANTS c1, i1, k1

OneInstallment == [m \in Manuals |-> i1]
OneCampaign == [m \in Marketing |-> k1]
OneCustomer == [m \in Messages |-> c1]
=============================================================================
