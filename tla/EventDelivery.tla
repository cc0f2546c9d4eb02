--------------------------- MODULE EventDelivery ---------------------------
(***************************************************************************)
(* What the webhook outbox promises of an event, without runners, leases   *)
(* or rows: it may reach an endpoint any number of times and at any time,  *)
(* it is published only when every endpoint that is owed it has it, and it *)
(* is dropped only when nobody was.  What is over stays over.              *)
(***************************************************************************)
CONSTANTS Events, Endpoints

VARIABLES
  outcome,    \* of an event
  owed,       \* the endpoints that were registered when it happened
  got         \* the endpoints that have it

Init ==
  /\ outcome = [e \in Events |-> "none"]
  /\ owed = [e \in Events |-> {}]
  /\ got = [e \in Events |-> {}]

Happen(e, P) ==
  /\ outcome[e] = "none"
  /\ outcome' = [outcome EXCEPT ![e] = "pending"]
  /\ owed' = [owed EXCEPT ![e] = P]
  /\ UNCHANGED got

(* An endpoint may get an event late: after it was given up, or again.     *)
Receive(e, p) ==
  /\ outcome[e] # "none"
  /\ got' = [got EXCEPT ![e] = @ \cup {p}]
  /\ UNCHANGED <<outcome, owed>>

Publish(e) ==
  /\ outcome[e] = "pending"
  /\ owed[e] \subseteq got[e]
  /\ outcome' = [outcome EXCEPT ![e] = "published"]
  /\ UNCHANGED <<owed, got>>

GiveUp(e) ==
  /\ outcome[e] = "pending"
  /\ outcome' = [outcome EXCEPT ![e] = "dead_letter"]
  /\ UNCHANGED <<owed, got>>

(* The one outcome that may take the place of another.                     *)
Drop(e) ==
  /\ outcome[e] # "none"
  /\ owed[e] = {}
  /\ outcome' = [outcome EXCEPT ![e] = "skipped"]
  /\ UNCHANGED <<owed, got>>

Next ==
  \E e \in Events :
    \/ \E P \in SUBSET Endpoints : Happen(e, P)
    \/ \E p \in Endpoints : Receive(e, p)
    \/ Publish(e)
    \/ GiveUp(e)
    \/ Drop(e)

Spec == Init /\ [][Next]_<<outcome, owed, got>>
=============================================================================
