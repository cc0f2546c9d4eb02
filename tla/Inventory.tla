------------------------------ MODULE Inventory ------------------------------
(***************************************************************************)
(* The stock of a company: the four quantities of each warehouse and       *)
(* product, and the documents that change them (src/domain/commands/m2).   *)
(*                                                                         *)
(* Every command runs in one Serializable transaction (src/lib/db/         *)
(* transaction.ts) and is one action here; what is hard is that documents  *)
(* live through several of them.  A transfer reserves, ships and delivers  *)
(* in three commands, a count is compared with a snapshot taken days       *)
(* before, an approval is given to what somebody asked a while ago, and    *)
(* every other document of the company moves the same quantities between.  *)
(*                                                                         *)
(* Left out: the valuation (moving average cost), which can only refuse    *)
(* more; serial numbers and batches; reservation expiry, whose expires_at  *)
(* nothing sets.  A missing stock row is a row of zeros.                   *)
(***************************************************************************)
EXTENDS Company, Integers, FiniteSets, Functions

CONSTANTS
  Products, Users,
  Counts, Adjustments, Approvals,  \* ids of the documents
  Requesters,    \* users who also file requests through POST /api/v1/approvals
  Policies,      \* movement freeze policies in use: 'block', and 'warn' or 'allow'
  StrictLines,   \* products whose variance may be given a reason that requires approval
  MaxLine,       \* the largest quantity of a document's line
  MaxStock,      \* no document brings a product's stock above this
  None           \* no warehouse, no user, no document, no approval

ASSUME InventoryAssumption ==
  /\ MaxLine \in Nat
  /\ MaxStock \in Nat
  /\ Requesters \subseteq Users
  /\ StrictLines \subseteq Products
  /\ Policies \subseteq {"warn", "block", "allow"} /\ Policies # {}
  /\ IsFiniteSet(Approvals)
  /\ Counts \cap Adjustments = {}
  /\ None \notin Warehouses \cup Users \cup Counts \cup Adjustments \cup Approvals

VARIABLES
  onHand, reserved, inTransit, damaged,  \* warehouse_stocks
  transfers, counts, adjustments,
  approvals,     \* approval_requests
  asking         \* what a user's POST /approvals found nothing pending for

stock == <<onHand, reserved, inTransit, damaged>>
vars == <<stock, transfers, counts, adjustments, approvals, asking>>
-----------------------------------------------------------------------------
Quantities == [Products -> 0..MaxLine]
Deltas == [Products -> -MaxLine..MaxLine]
Lines(q) == {p \in Products : q[p] # 0}

Uncounted == -1          \* counted_quantity IS NULL
OpenStatus == {"draft", "counting", "reviewed"}
References == Counts \cup Adjustments

TransferRow == [status : {"none", "pending", "in_transit", "completed", "cancelled"},
                from : Warehouses \cup {None}, to : Warehouses \cup {None},
                lines : Quantities]

CountRow == [status : {"none", "posted", "cancelled"} \cup OpenStatus,
             warehouse : Warehouses \cup {None},
             policy : Policies \cup {"warn"},
             products : SUBSET Products,
             expected : [Products -> Nat],
             counted : [Products -> Nat \cup {Uncounted}],
             strict : SUBSET Products]  \* lines whose reason requires approval

AdjustmentRow == [status : {"none", "pending_approval", "posted", "cancelled"},
                  approval : Approvals \cup {None}]

(* payload is the JSON an adjustment is posted from.  seen is what the     *)
(* request was about when it was filed: a history field.                   *)
Payload == [warehouse : Warehouses \cup {None}, kind : {"plain", "damaged"}, deltas : Deltas]
NoPayload == [warehouse |-> None, kind |-> "plain", deltas |-> [p \in Products |-> 0]]

ApprovalRow == [status : {"none", "pending", "approved", "rejected", "cancelled"},
                ref : References \cup {None},
                requestedBy : Users \cup {None},
                approvedBy : Users \cup {None},
                resolvedAt : Nat,
                payload : Payload,
                seen : [Products -> Nat \cup {Uncounted}]]

NoTransfer == [status |-> "none", from |-> None, to |-> None, lines |-> [p \in Products |-> 0]]
NoCount == [status |-> "none", warehouse |-> None, policy |-> "warn", products |-> {},
            expected |-> [p \in Products |-> 0], counted |-> [p \in Products |-> Uncounted],
            strict |-> {}]
NoAdjustment == [status |-> "none", approval |-> None]
NoApproval == [status |-> "none", ref |-> None, requestedBy |-> None, approvedBy |-> None,
               resolvedAt |-> 0, payload |-> NoPayload, seen |-> [p \in Products |-> Uncounted]]

Init ==
  /\ onHand = [w \in Warehouses |-> [p \in Products |-> 0]]
  /\ reserved = [w \in Warehouses |-> [p \in Products |-> 0]]
  /\ inTransit = [w \in Warehouses |-> [p \in Products |-> 0]]
  /\ damaged = [w \in Warehouses |-> [p \in Products |-> 0]]
  /\ transfers = [t \in Transfers |-> NoTransfer]
  /\ counts = [c \in Counts |-> NoCount]
  /\ adjustments = [a \in Adjustments |-> NoAdjustment]
  /\ approvals = [r \in Approvals |-> NoApproval]
  /\ asking = [u \in Users |-> None]
-----------------------------------------------------------------------------
(***************************************************************************)
(* postStockMovement                                                       *)
(***************************************************************************)

\* seeded fault: a reviewed count no longer blocks
BlocksUntilReviewed(c, w, p) ==
  /\ counts[c].policy = "block"
  /\ counts[c].status \in {"draft", "counting"}
  /\ counts[c].warehouse = w
  /\ p \in counts[c].products

(* An open count with the 'block' policy covers the product there.         *)
Blocks(c, w, p) ==
  /\ counts[c].policy = "block"
  /\ counts[c].status \in OpenStatus
  /\ counts[c].warehouse = w
  /\ p \in counts[c].products

Frozen(w, p) == \E c \in Counts : Blocks(c, w, p)

\* seeded fault: the reservation forgotten
MayMoveIfThere(h, r, d) == h + d >= 0

(* planStockMovement on the on_hand bucket: h on hand, r reserved, d moved. *)
MayMove(h, r, d) ==
  /\ h + d >= 0
  /\ d < 0 => h + d >= r

(* The bound on what comes in.                                             *)
Fits(h, d) == d > 0 => h + d <= MaxStock

(* Every line of one document moves at warehouse w.                        *)
CanMove(w, d) == \A p \in Lines(d) :
  /\ ~ Frozen(w, p)
  /\ MayMove(onHand[w][p], reserved[w][p], d[p])
  /\ Fits(onHand[w][p], d[p])

Plus(bucket, w, d) == [bucket EXCEPT ![w] = [p \in Products |-> @[p] + d[p]]]
Minus(bucket, w, d) == [bucket EXCEPT ![w] = [p \in Products |-> @[p] - d[p]]]

(* A line of any other document: purchase, sale, return, void, opening.    *)
PostOnHand(w, d) ==
  /\ Lines(d) # {}
  /\ CanMove(w, d)
  /\ onHand' = Plus(onHand, w, d)
  /\ UNCHANGED <<reserved, inTransit, damaged, transfers, counts, adjustments, approvals, asking>>

(* A returned unit that came back damaged.                                 *)
PostDamagedReturn(w, q) ==
  /\ Lines(q) # {}
  /\ \A p \in Lines(q) : ~ Frozen(w, p) /\ Fits(damaged[w][p], q[p])
  /\ damaged' = Plus(damaged, w, q)
  /\ UNCHANGED <<onHand, reserved, inTransit, transfers, counts, adjustments, approvals, asking>>
-----------------------------------------------------------------------------
(***************************************************************************)
(* Transfers.  The reservation rows of a transfer are 'active' while it is *)
(* pending, 'consumed' once dispatched and 'released' once cancelled.      *)
(***************************************************************************)
\* seeded fault: what is reserved already is forgotten
MayReserveIfThere(h, r, q) == q <= h

MayReserve(h, r, q) == r + q <= h

\* seeded fault: a shipped transfer can be cancelled
CancellableOnTheRoad(t) == transfers[t].status \in {"pending", "in_transit"}

Cancellable(t) == transfers[t].status = "pending"

\* seeded fault: a received transfer can be received again
ReceivableTwice(t) == transfers[t].status \in {"in_transit", "completed"}

Receivable(t) == transfers[t].status = "in_transit"

CreateTransfer(t, from, to, q) ==
  /\ transfers[t].status = "none"
  /\ from # to
  /\ Lines(q) # {}
  /\ \A p \in Lines(q) : MayReserve(onHand[from][p], reserved[from][p], q[p])
  /\ reserved' = Plus(reserved, from, q)
  /\ transfers' = [transfers EXCEPT ![t] =
       [status |-> "pending", from |-> from, to |-> to, lines |-> q]]
  /\ UNCHANGED <<onHand, inTransit, damaged, counts, adjustments, approvals, asking>>

DispatchTransfer(t) ==
  LET from == transfers[t].from
      q == transfers[t].lines
  IN /\ transfers[t].status = "pending"
     /\ \A p \in Lines(q) :
          /\ ~ Frozen(from, p)
          /\ MayMove(onHand[from][p], reserved[from][p] - q[p], - q[p])
     /\ reserved' = Minus(reserved, from, q)
     /\ onHand' = Minus(onHand, from, q)
     /\ inTransit' = Plus(inTransit, from, q)
     /\ transfers' = [transfers EXCEPT ![t].status = "in_transit"]
     /\ UNCHANGED <<damaged, counts, adjustments, approvals, asking>>

ReceiveTransfer(t) ==
  LET from == transfers[t].from
      to == transfers[t].to
      q == transfers[t].lines
  IN /\ Receivable(t)
     /\ \A p \in Lines(q) :
          /\ inTransit[from][p] >= q[p]
          /\ ~ Frozen(from, p)
          /\ ~ Frozen(to, p)
     /\ inTransit' = Minus(inTransit, from, q)
     /\ onHand' = Plus(onHand, to, q)
     /\ transfers' = [transfers EXCEPT ![t].status = "completed"]
     /\ UNCHANGED <<reserved, damaged, counts, adjustments, approvals, asking>>

CancelTransfer(t) ==
  LET from == transfers[t].from
      q == transfers[t].lines
  IN /\ Cancellable(t)
     /\ reserved' = Minus(reserved, from, q)
     /\ transfers' = [transfers EXCEPT ![t].status = "cancelled"]
     /\ UNCHANGED <<onHand, inTransit, damaged, counts, adjustments, approvals, asking>>
-----------------------------------------------------------------------------
(***************************************************************************)
(* Approval requests                                                       *)
(***************************************************************************)
File(r, ref, u, payload, seen) ==
  /\ approvals[r].status = "none"
  /\ approvals' = [approvals EXCEPT ![r] =
       [status |-> "pending", ref |-> ref, requestedBy |-> u, approvedBy |-> None,
        resolvedAt |-> 0, payload |-> payload, seen |-> seen]]

Seen(ref) == IF ref \in Counts THEN counts[ref].counted ELSE [p \in Products |-> Uncounted]

(* POST /approvals reads and writes outside any transaction: the check ... *)
AskApproval(u, ref) ==
  /\ asking[u] = None
  /\ IF ref \in Counts THEN counts[ref].status # "none" ELSE adjustments[ref].status # "none"
  /\ ~ \E r \in Approvals : approvals[r].ref = ref /\ approvals[r].status = "pending"
  /\ asking' = [asking EXCEPT ![u] = ref]
  /\ UNCHANGED <<stock, transfers, counts, adjustments, approvals>>

(* ... and the insert, later.                                              *)
FileAsked(u, r) ==
  /\ asking[u] # None
  /\ File(r, asking[u], u, NoPayload, Seen(asking[u]))
  /\ asking' = [asking EXCEPT ![u] = None]
  /\ UNCHANGED <<stock, transfers, counts, adjustments>>

MayResolve(u, r) == approvals[r].requestedBy # u

Resolved == {r \in Approvals : approvals[r].status \in {"approved", "rejected"}}

ResolveApproval(u, r, decision) ==
  /\ approvals[r].status = "pending"
  /\ MayResolve(u, r)
  /\ approvals' = [approvals EXCEPT ![r].status = decision,
                                    ![r].approvedBy = u,
                                    ![r].resolvedAt = Cardinality(Resolved) + 1]
  /\ UNCHANGED <<stock, transfers, counts, adjustments, asking>>

\* seeded fault: a request nobody has answered counts as well
NotRefused(r) ==
  /\ approvals[r].status \in {"pending", "approved"}
  /\ approvals[r].approvedBy # approvals[r].requestedBy

Independent(r) ==
  /\ approvals[r].status = "approved"
  /\ approvals[r].approvedBy # approvals[r].requestedBy
-----------------------------------------------------------------------------
(***************************************************************************)
(* Stock adjustments                                                       *)
(***************************************************************************)

(* Damage takes from on_hand and recovery gives back; the damaged bucket   *)
(* moves the other way.                                                    *)
CanAdjust(x) ==
  /\ CanMove(x.warehouse, x.deltas)
  /\ x.kind = "damaged" => \A p \in Products :
       /\ damaged[x.warehouse][p] - x.deltas[p] >= 0
       /\ Fits(damaged[x.warehouse][p], - x.deltas[p])

Adjust(x) ==
  /\ CanAdjust(x)
  /\ onHand' = Plus(onHand, x.warehouse, x.deltas)
  /\ damaged' = IF x.kind = "damaged" THEN Minus(damaged, x.warehouse, x.deltas) ELSE damaged
  /\ UNCHANGED <<reserved, inTransit>>

ValidAdjustment(x) ==
  /\ x.warehouse \in Warehouses
  /\ Lines(x.deltas) # {}
  /\ x.kind = "damaged" => \/ \A p \in Products : x.deltas[p] <= 0
                           \/ \A p \in Products : x.deltas[p] >= 0

(* The reason needs no approval: posted at once.                           *)
PostAdjustment(x) ==
  /\ ValidAdjustment(x)
  /\ Adjust(x)
  /\ UNCHANGED <<transfers, counts, adjustments, approvals, asking>>

(* The reason needs one: the whole input is kept in the request.           *)
RequestAdjustment(u, a, r, x) ==
  /\ adjustments[a].status = "none"
  /\ ValidAdjustment(x)
  /\ File(r, a, u, x, [p \in Products |-> Uncounted])
  /\ adjustments' = [adjustments EXCEPT ![a] = [status |-> "pending_approval", approval |-> r]]
  /\ UNCHANGED <<stock, transfers, counts, asking>>

PostApprovedAdjustment(a) ==
  LET r == adjustments[a].approval
  IN /\ adjustments[a].status = "pending_approval"
     /\ Independent(r)
     /\ Adjust(approvals[r].payload)
     /\ adjustments' = [adjustments EXCEPT ![a].status = "posted"]
     /\ UNCHANGED <<transfers, counts, approvals, asking>>

CancelAdjustment(a) ==
  /\ adjustments[a].status = "pending_approval"
  /\ approvals' = [approvals EXCEPT ![adjustments[a].approval].status = "cancelled"]
  /\ adjustments' = [adjustments EXCEPT ![a].status = "cancelled"]
  /\ UNCHANGED <<stock, transfers, counts, asking>>
-----------------------------------------------------------------------------
(***************************************************************************)
(* Stock counts                                                            *)
(***************************************************************************)
Open(c) == counts[c].status \in OpenStatus

\* seeded fault: only counts that block movements are looked at
OverlapsBlocking(w, P) == \E c \in Counts :
  /\ Open(c) /\ counts[c].policy = "block"
  /\ counts[c].warehouse = w
  /\ counts[c].products \cap P # {}

(* createStockCount refuses a product that an open count covers already.   *)
Overlaps(w, P) == \E c \in Counts :
  Open(c) /\ counts[c].warehouse = w /\ counts[c].products \cap P # {}

Variance(row) ==
  [p \in Products |-> IF p \in row.products THEN row.counted[p] - row.expected[p] ELSE 0]

AllCounted(row) == \A p \in row.products : row.counted[p] # Uncounted

(* Variances whose reason requires approval.                               *)
Disputed(row) == {p \in row.strict : Variance(row)[p] # 0}

(* postStockCount reads the approval resolved last.                        *)
Approved(c) == \E r \in Approvals :
  /\ approvals[r].ref = c
  /\ Independent(r)
  /\ \A s \in Approvals : approvals[s].ref = c /\ approvals[s].status = "approved"
                            => approvals[s].resolvedAt <= approvals[r].resolvedAt

(* postStockCount plans each line with planStockMovement itself: an open   *)
(* 'block' count does not block its own posting.                           *)
CanPostCount(row) ==
  /\ AllCounted(row)
  /\ \A p \in Lines(Variance(row)) :
       /\ MayMove(onHand[row.warehouse][p], reserved[row.warehouse][p], Variance(row)[p])
       /\ Fits(onHand[row.warehouse][p], Variance(row)[p])

ApplyCount(c, row) ==
  /\ CanPostCount(row)
  /\ onHand' = Plus(onHand, row.warehouse, Variance(row))
  /\ counts' = [counts EXCEPT ![c] = [row EXCEPT !.status = "posted"]]
  /\ UNCHANGED <<reserved, inTransit, damaged, transfers, adjustments, approvals, asking>>

(* The snapshot of an open count.                                          *)
Snapshot(w, P) == [p \in Products |-> IF p \in P THEN onHand[w][p] ELSE 0]

NewCount(status, w, P, policy, counted, strict) ==
  [status |-> status, warehouse |-> w, policy |-> policy, products |-> P,
   expected |-> Snapshot(w, P), counted |-> counted, strict |-> strict]

CreateCount(c, w, P, policy, counted, strict) ==
  /\ counts[c].status = "none"
  /\ P # {}
  /\ ~ Overlaps(w, P)
  /\ counts' = [counts EXCEPT ![c] = NewCount("draft", w, P, policy, counted, strict)]
  /\ UNCHANGED <<stock, transfers, adjustments, approvals, asking>>

(* post: true.  No request can have been approved for a count not there    *)
(* yet, so a strict variance refuses it.                                   *)
CreateAndPostCount(c, w, P, policy, counted, strict) ==
  LET row == NewCount("reviewed", w, P, policy, counted, strict)
  IN /\ counts[c].status = "none"
     /\ P # {}
     /\ ~ Overlaps(w, P)
     /\ Disputed(row) = {}
     /\ ApplyCount(c, row)

StartCount(c) ==
  /\ counts[c].status = "draft"
  /\ counts' = [counts EXCEPT ![c].status = "counting"]
  /\ UNCHANGED <<stock, transfers, adjustments, approvals, asking>>

(* Save overwrites the given lines: quantity and reason.                   *)
SaveCount(c, P, counted, strict) ==
  /\ counts[c].status = "counting"
  /\ P # {} /\ P \subseteq counts[c].products
  /\ counts' = [counts EXCEPT
       ![c].counted = [p \in Products |-> IF p \in P THEN counted[p] ELSE @[p]],
       ![c].strict = (@ \ P) \cup strict]
  /\ UNCHANGED <<stock, transfers, adjustments, approvals, asking>>

(* Review files the request the posting will need.                         *)
ReviewCount(u, c) ==
  /\ counts[c].status = "counting"
  /\ AllCounted(counts[c])
  /\ counts' = [counts EXCEPT ![c].status = "reviewed"]
  /\ IF Disputed(counts[c]) = {}
       THEN UNCHANGED approvals
       ELSE \E r \in Approvals : File(r, c, u, NoPayload, Seen(c))
  /\ UNCHANGED <<stock, transfers, adjustments, asking>>

\* seeded fault: a request approved already is not withdrawn
WithdrawnIfPending(c) == [r \in Approvals |->
  IF approvals[r].ref = c /\ approvals[r].status = "pending"
    THEN [approvals[r] EXCEPT !.status = "cancelled"]
    ELSE approvals[r]]

(* Reopen and cancel withdraw the requests of the count.                   *)
Withdrawn(c) == [r \in Approvals |->
  IF approvals[r].ref = c /\ approvals[r].status \in {"pending", "approved"}
    THEN [approvals[r] EXCEPT !.status = "cancelled"]
    ELSE approvals[r]]

ReopenCount(c) ==
  /\ counts[c].status = "reviewed"
  /\ counts' = [counts EXCEPT ![c].status = "counting"]
  /\ approvals' = Withdrawn(c)
  /\ UNCHANGED <<stock, transfers, adjustments, asking>>

CancelCount(c) ==
  /\ Open(c)
  /\ counts' = [counts EXCEPT ![c].status = "cancelled"]
  /\ approvals' = Withdrawn(c)
  /\ UNCHANGED <<stock, transfers, adjustments, asking>>

PostCount(c) ==
  /\ counts[c].status = "reviewed"
  /\ Disputed(counts[c]) # {} => Approved(c)
  /\ ApplyCount(c, counts[c])
-----------------------------------------------------------------------------
CountedLines(P) == {f \in [Products -> 0..MaxStock \cup {Uncounted}] :
                      \A p \in Products \ P : f[p] = Uncounted}

OtherDocuments == \E w \in Warehouses :
  \/ \E d \in Deltas : PostOnHand(w, d)
  \/ \E q \in Quantities : PostDamagedReturn(w, q)

TransferSteps == \E t \in Transfers :
  \/ \E from, to \in Warehouses, q \in Quantities : CreateTransfer(t, from, to, q)
  \/ DispatchTransfer(t)
  \/ ReceiveTransfer(t)
  \/ CancelTransfer(t)

AdjustmentSteps ==
  \/ \E x \in Payload : PostAdjustment(x)
  \/ \E a \in Adjustments :
       \/ \E u \in Users, r \in Approvals, x \in Payload : RequestAdjustment(u, a, r, x)
       \/ PostApprovedAdjustment(a)
       \/ CancelAdjustment(a)

CountSteps == \E c \in Counts :
  \/ \E w \in Warehouses, P \in SUBSET Products, policy \in Policies :
       \E counted \in CountedLines(P), strict \in SUBSET (P \cap StrictLines) :
         \/ CreateCount(c, w, P, policy, counted, strict)
         \/ CreateAndPostCount(c, w, P, policy, counted, strict)
  \/ StartCount(c)
  \/ \E P \in SUBSET Products :
       \E counted \in [Products -> 0..MaxStock], strict \in SUBSET (P \cap StrictLines) :
         SaveCount(c, P, counted, strict)
  \/ \E u \in Users : ReviewCount(u, c)
  \/ ReopenCount(c)
  \/ CancelCount(c)
  \/ PostCount(c)

ApprovalSteps ==
  \/ \E u \in Requesters :
       \/ \E ref \in References : AskApproval(u, ref)
       \/ \E r \in Approvals : FileAsked(u, r)
  \/ \E u \in Users, r \in Approvals, d \in {"approved", "rejected"} : ResolveApproval(u, r, d)

Next == OtherDocuments \/ TransferSteps \/ AdjustmentSteps \/ CountSteps \/ ApprovalSteps

Spec == Init /\ [][Next]_vars
-----------------------------------------------------------------------------
(***************************************************************************)
(* Properties                                                              *)
(***************************************************************************)

(* A record in transfers keeps its type, and only a free one has no ends.  *)
TransferOK(x) ==
  /\ x \in TransferRow
  /\ x.status # "none" => x.from \in Warehouses /\ x.to \in Warehouses

CountOK(x) ==
  /\ x \in CountRow
  /\ x.status # "none" => x.warehouse \in Warehouses
  /\ x.strict \subseteq x.products

(* Every quantity and document keeps its type; no bucket but reserved is   *)
(* bounded below here (reserved follows from ReservationProjection).       *)
TypeOK ==
  /\ onHand \in [Warehouses -> [Products -> Nat]]
  /\ reserved \in [Warehouses -> [Products -> Int]]
  /\ inTransit \in [Warehouses -> [Products -> Nat]]
  /\ damaged \in [Warehouses -> [Products -> Nat]]
  /\ DOMAIN transfers = Transfers /\ \A t \in Transfers : TransferOK(transfers[t])
  /\ DOMAIN counts = Counts /\ \A c \in Counts : CountOK(counts[c])
  /\ adjustments \in [Adjustments -> AdjustmentRow]
  /\ approvals \in [Approvals -> ApprovalRow]
  /\ asking \in [Users -> References \cup {None}]

(* What a product's transfers in one status hold of a warehouse.           *)
HeldBy(status, w, p) ==
  LET holding == {t \in Transfers : transfers[t].status = status /\ transfers[t].from = w}
  IN  SumFunction([t \in holding |-> transfers[t].lines[p]])

(* qty_reserved is the sum of the active reservations (the check           *)
(* RESERVATION_PROJECTION of src/lib/reconciliation/checks.ts): through    *)
(* dispatches, cancellations and counts in any order, nothing is reserved  *)
(* for a transfer that no longer waits, and no transfer waits without.     *)
ReservationProjection == \A w \in Warehouses, p \in Products :
  reserved[w][p] = HeldBy("pending", w, p)

(* qty_in_transit_out is the sum of what has left the warehouse and has    *)
(* not arrived: receiveTransfer can never find less than it is to deliver. *)
TransitProjection == \A w \in Warehouses, p \in Products :
  inTransit[w][p] = HeldBy("in_transit", w, p)

(* The database check warehouse_stocks_reserved_within_on_hand_chk never   *)
(* fires: no document takes stock away under a reservation, whatever the   *)
(* order of transfers, counts, adjustments and other documents.            *)
ReservedIsOnHand == \A w \in Warehouses, p \in Products :
  reserved[w][p] <= onHand[w][p]

(* At most one open count covers a product of a warehouse.                 *)
OneOpenCount == \A c, d \in Counts :
  c # d /\ Open(c) /\ Open(d) /\ counts[c].warehouse = counts[d].warehouse
    => counts[c].products \cap counts[d].products = {}

(* While a 'block' count is open, through start, saves, review and reopen, *)
(* the snapshot it compares with is still what is on hand.                 *)
SnapshotIsCurrent == \A c \in Counts, w \in Warehouses, p \in Products :
  Open(c) /\ counts[c].policy = "block" /\ counts[c].warehouse = w /\ p \in counts[c].products
    => counts[c].expected[p] = onHand[w][p]

(* So posting such a count leaves on hand exactly what was counted,        *)
(* whatever happened between the snapshot and the posting.                 *)
PostedAsCounted == [][\A c \in Counts :
  /\ counts[c].policy = "block"
  /\ counts[c].status = "reviewed"
  /\ counts'[c].status = "posted"
  => \A p \in counts[c].products : onHand'[counts[c].warehouse][p] = counts[c].counted[p]]_vars

ApprovedByAnother(r) ==
  /\ approvals[r].status = "approved"
  /\ approvals[r].approvedBy \in Users \ {approvals[r].requestedBy}

(* A count with variances that need approval is posted only under an       *)
(* approval another user gave to the quantities it posts, and not to those *)
(* of an earlier review ("An independent approver must approve these count *)
(* variances before posting", PostStockCount.ts).                          *)
VariancesApproved == \A c \in Counts :
  counts[c].status = "posted" /\ Disputed(counts[c]) # {}
    => \E r \in Approvals : /\ approvals[r].ref = c
                           /\ ApprovedByAnother(r)
                           /\ approvals[r].seen = counts[c].counted

(* An adjustment that needed approval is posted only under the approval    *)
(* another user gave to its own request, which nothing withdrew.           *)
AdjustmentApproved == \A a \in Adjustments :
  adjustments[a].status = "posted" =>
    /\ ApprovedByAnother(adjustments[a].approval)
    /\ approvals[adjustments[a].approval].ref = a

Available == [w \in Warehouses |-> [p \in Products |-> onHand[w][p] - reserved[w][p]]]

(* What a transfer holds is in one place: taken from the source once,      *)
(* given back or delivered once, and dispatching it changes nothing for    *)
(* anyone else.  StockCustody says so without the four buckets.            *)
Custody == INSTANCE StockCustody WITH available <- Available, held <- transfers

ImplementsCustody == Custody!Spec
=============================================================================
