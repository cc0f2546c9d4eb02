--------------------------- MODULE IdempotencyKeys ---------------------------
(***************************************************************************)
(* The idempotency_requests table as every route uses it                   *)
(* (src/lib/idempotency/index.ts, withIdempotency with a transaction       *)
(* client).  The row, the business writes and the stored response commit   *)
(* in one Serializable transaction: another transaction never sees a row   *)
(* in 'processing', and an attempt that throws leaves no row.  No route's  *)
(* work returns a status of 400 or more without throwing, so a committed   *)
(* row is always 'succeeded'.                                              *)
(*                                                                         *)
(* The module has no actions of its own: a route's reservation step is one *)
(* action of the module that models the route, built from these operators. *)
(***************************************************************************)
CONSTANTS
  Keys,        \* Idempotency-Key header values of one company
  Requests,    \* request hashes: what computeRequestHash tells apart
  NoRow        \* no row for the key

VARIABLE
  rows         \* the request hash of the row of each (company, key)

RowsTypeOK == rows \in [Keys -> Requests \cup {NoRow}]

NoRows == rows = [k \in Keys |-> NoRow]

(* The insert collides with a row of the same request: the stored response *)
(* is returned and the work is not run.                                    *)
IsReplay(k, r) == rows[k] = r

(* The insert does not collide, and the work runs in the same transaction. *)
(* (A row of another request answers 409 IDEMPOTENCY_KEY_REUSED.)          *)
MayRun(k) == rows[k] = NoRow

(* The row as the attempt's transaction commits it.                        *)
Complete(k, r) == rows' = [rows EXCEPT ![k] = r]
=============================================================================
