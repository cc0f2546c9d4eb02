---------------------------- MODULE StockCustody ----------------------------
(***************************************************************************)
(* What transfers promise, without buckets, reservations or counts: the    *)
(* stock of a product is available in some warehouse or held by some       *)
(* transfer.  A transfer takes its lines from one warehouse, ships them,   *)
(* and delivers them to another; before it ships it may give them back.    *)
(* Nothing available is ever negative, and shipping takes nothing more.    *)
(***************************************************************************)
EXTENDS Integers

CONSTANTS Warehouses, Products, Transfers, MaxLine, None

VARIABLES
  available,   \* what a new document may take
  held         \* [status, from, to, lines] of each transfer

Quantities == [Products -> 0..MaxLine]

Free == [status |-> "none", from |-> None, to |-> None, lines |-> [p \in Products |-> 0]]

Init ==
  /\ available = [w \in Warehouses |-> [p \in Products |-> 0]]
  /\ held = [t \in Transfers |-> Free]

Take(t, from, to, q) ==
  /\ held[t].status = "none"
  /\ from # to
  /\ \A p \in Products : q[p] <= available[from][p]
  /\ available' = [available EXCEPT ![from] = [p \in Products |-> @[p] - q[p]]]
  /\ held' = [held EXCEPT ![t] = [status |-> "pending", from |-> from, to |-> to, lines |-> q]]

Ship(t) ==
  /\ held[t].status = "pending"
  /\ held' = [held EXCEPT ![t].status = "in_transit"]
  /\ UNCHANGED available

GiveBack(t) ==
  /\ held[t].status = "pending"
  /\ available' = [available EXCEPT
       ![held[t].from] = [p \in Products |-> @[p] + held[t].lines[p]]]
  /\ held' = [held EXCEPT ![t].status = "cancelled"]

Deliver(t) ==
  /\ held[t].status = "in_transit"
  /\ available' = [available EXCEPT
       ![held[t].to] = [p \in Products |-> @[p] + held[t].lines[p]]]
  /\ held' = [held EXCEPT ![t].status = "completed"]

(* Any other document, at one warehouse.                                   *)
Change(w) ==
  /\ available'[w] \in [Products -> Nat]
  /\ available' = [available EXCEPT ![w] = available'[w]]
  /\ UNCHANGED held

Next ==
  \/ \E t \in Transfers :
       \/ \E from, to \in Warehouses, q \in Quantities : Take(t, from, to, q)
       \/ Ship(t)
       \/ GiveBack(t)
       \/ Deliver(t)
  \/ \E w \in Warehouses : Change(w)

Spec == Init /\ [][Next]_<<available, held>>
=============================================================================
