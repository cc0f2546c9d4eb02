-------------------------- MODULE InventoryProofs --------------------------
(* What Inventory and StockValue guarantee for any company: any number of  *)
(* warehouses, products, users and documents, any quantities and prices.   *)
EXTENDS Inventory, StockValue, FiniteSetTheorems, SumTheorems, TLAPS

-----------------------------------------------------------------------------
(* Adding or taking lines keeps the shape of a bucket.                      *)
LEMMA PlusNat ==
  ASSUME NEW b \in [Warehouses -> [Products -> Nat]], NEW w \in Warehouses,
         NEW d, \A p \in Products : b[w][p] + d[p] \in Nat
  PROVE  Plus(b, w, d) \in [Warehouses -> [Products -> Nat]]
BY DEF Plus

LEMMA PlusInt ==
  ASSUME NEW b \in [Warehouses -> [Products -> Int]], NEW w \in Warehouses,
         NEW d, \A p \in Products : b[w][p] + d[p] \in Int
  PROVE  Plus(b, w, d) \in [Warehouses -> [Products -> Int]]
BY DEF Plus

LEMMA MinusNat ==
  ASSUME NEW b \in [Warehouses -> [Products -> Nat]], NEW w \in Warehouses,
         NEW d, \A p \in Products : b[w][p] - d[p] \in Nat
  PROVE  Minus(b, w, d) \in [Warehouses -> [Products -> Nat]]
BY DEF Minus

LEMMA MinusInt ==
  ASSUME NEW b \in [Warehouses -> [Products -> Int]], NEW w \in Warehouses,
         NEW d, \A p \in Products : b[w][p] - d[p] \in Int
  PROVE  Minus(b, w, d) \in [Warehouses -> [Products -> Int]]
BY DEF Minus

(* What may move leaves on_hand a natural number, and not below reserved.  *)
LEMMA CanMoveResult ==
  ASSUME NEW w \in Warehouses, NEW d \in [Products -> Int], CanMove(w, d),
         onHand \in [Warehouses -> [Products -> Nat]],
         reserved \in [Warehouses -> [Products -> Int]], NEW p \in Products
  PROVE  /\ onHand[w][p] + d[p] \in Nat
         /\ reserved[w][p] <= onHand[w][p] => reserved[w][p] <= onHand[w][p] + d[p]
BY DEF CanMove, Lines, MayMove

LEMMA VarianceType ==
  ASSUME NEW x, CountOK(x), AllCounted(x)
  PROVE  Variance(x) \in [Products -> Int]
BY DEF CountOK, CountRow, AllCounted, Variance, Uncounted

LEMMA CanPostResult ==
  ASSUME NEW x, CountOK(x), CanPostCount(x), x.warehouse \in Warehouses,
         onHand \in [Warehouses -> [Products -> Nat]],
         reserved \in [Warehouses -> [Products -> Int]], NEW p \in Products
  PROVE  /\ Variance(x) \in [Products -> Int]
         /\ onHand[x.warehouse][p] + Variance(x)[p] \in Nat
         /\ reserved[x.warehouse][p] <= onHand[x.warehouse][p]
              => reserved[x.warehouse][p] <= onHand[x.warehouse][p] + Variance(x)[p]
<1>1. Variance(x) \in [Products -> Int]
  BY VarianceType DEF CanPostCount
<1> QED
  BY <1>1 DEF CanPostCount, Lines, MayMove

LEMMA InitType == Init => TypeOK
BY InventoryAssumption DEF Init, TypeOK, TransferOK, TransferRow, NoTransfer, CountOK, CountRow,
   NoCount, Uncounted, AdjustmentRow, NoAdjustment, ApprovalRow, NoApproval, Payload, NoPayload,
   Quantities, Deltas, References, OpenStatus

LEMMA PostOnHandType ==
  ASSUME TypeOK, NEW w \in Warehouses, NEW d \in Deltas, PostOnHand(w, d)
  PROVE  TypeOK'
<1>1. d \in [Products -> Int]
  BY InventoryAssumption DEF Deltas
<1>2. onHand' \in [Warehouses -> [Products -> Nat]]
  BY <1>1, CanMoveResult, PlusNat DEF TypeOK, PostOnHand
<1> QED
  BY <1>2 DEF TypeOK, PostOnHand

LEMMA PostDamagedReturnType ==
  ASSUME TypeOK, NEW w \in Warehouses, NEW q \in Quantities, PostDamagedReturn(w, q)
  PROVE  TypeOK'
<1>1. \A p \in Products : damaged[w][p] + q[p] \in Nat
  BY InventoryAssumption DEF TypeOK, Quantities
<1>2. damaged' \in [Warehouses -> [Products -> Nat]]
  BY <1>1, PlusNat DEF TypeOK, PostDamagedReturn
<1> QED
  BY <1>2 DEF TypeOK, PostDamagedReturn

LEMMA CreateTransferType ==
  ASSUME TypeOK, NEW t \in Transfers, NEW from \in Warehouses, NEW to \in Warehouses,
         NEW q \in Quantities, CreateTransfer(t, from, to, q)
  PROVE  TypeOK'
<1>1. \A p \in Products : reserved[from][p] + q[p] \in Int
  BY InventoryAssumption DEF TypeOK, Quantities
<1>2. reserved' \in [Warehouses -> [Products -> Int]]
  BY <1>1, PlusInt DEF TypeOK, CreateTransfer
<1>3. TransferOK([status |-> "pending", from |-> from, to |-> to, lines |-> q])
  BY DEF TransferOK, TransferRow
<1>4. DOMAIN transfers' = Transfers /\ \A s \in Transfers : TransferOK(transfers'[s])
  BY <1>3 DEF TypeOK, CreateTransfer
<1> QED
  BY <1>2, <1>4 DEF TypeOK, CreateTransfer

(* The ends and lines of a transfer that exists; moving it on keeps them.  *)
LEMMA TransferFields ==
  ASSUME TypeOK, NEW t \in Transfers, transfers[t].status # "none"
  PROVE  /\ transfers[t].from \in Warehouses
         /\ transfers[t].to \in Warehouses
         /\ transfers[t].lines \in Quantities
         /\ \A p \in Products : transfers[t].lines[p] \in Nat
         /\ \A p \in Products \ Lines(transfers[t].lines) : transfers[t].lines[p] = 0
BY InventoryAssumption DEF TypeOK, TransferOK, TransferRow, Quantities, Lines

LEMMA TransferMoves ==
  ASSUME TypeOK, NEW t \in Transfers, transfers[t].status # "none",
         NEW s \in {"in_transit", "completed", "cancelled"},
         transfers' = [transfers EXCEPT ![t].status = s]
  PROVE  DOMAIN transfers' = Transfers /\ \A u \in Transfers : TransferOK(transfers'[u])
<1>1. TransferOK([transfers[t] EXCEPT !.status = s])
  BY DEF TypeOK, TransferOK, TransferRow
<1> QED
  BY <1>1 DEF TypeOK

LEMMA DispatchTransferType ==
  ASSUME TypeOK, NEW t \in Transfers, DispatchTransfer(t)
  PROVE  TypeOK'
<1> DEFINE from == transfers[t].from
           q == transfers[t].lines
<1>0. transfers[t].status = "pending"
  BY DEF DispatchTransfer
<1>1. from \in Warehouses /\ \A p \in Products : q[p] \in Nat
  BY <1>0, TransferFields
<1>2. ASSUME NEW p \in Products PROVE onHand[from][p] - q[p] \in Nat
  <2>1. onHand[from][p] \in Nat /\ reserved[from][p] \in Int /\ q[p] \in Nat
    BY <1>1 DEF TypeOK
  <2>2. p \in Lines(q) => onHand[from][p] + (- q[p]) >= 0
    BY DEF DispatchTransfer, MayMove
  <2>3. p \notin Lines(q) => q[p] = 0
    BY DEF Lines
  <2> HIDE DEF from, q
  <2> QED
    BY <2>1, <2>2, <2>3
<1>3. /\ onHand' = Minus(onHand, from, q)
      /\ reserved' = Minus(reserved, from, q)
      /\ inTransit' = Plus(inTransit, from, q)
  BY DEF DispatchTransfer
<1>4. /\ onHand \in [Warehouses -> [Products -> Nat]]
      /\ reserved \in [Warehouses -> [Products -> Int]]
      /\ inTransit \in [Warehouses -> [Products -> Nat]]
      /\ \A p \in Products : reserved[from][p] - q[p] \in Int /\ inTransit[from][p] + q[p] \in Nat
  BY <1>1 DEF TypeOK
<1> HIDE DEF from, q
<1>5. onHand' \in [Warehouses -> [Products -> Nat]]
  BY <1>1, <1>2, <1>3, <1>4, MinusNat
<1>6. reserved' \in [Warehouses -> [Products -> Int]]
  BY <1>1, <1>3, <1>4, MinusInt
<1>7. inTransit' \in [Warehouses -> [Products -> Nat]]
  BY <1>1, <1>3, <1>4, PlusNat
<1>8. DOMAIN transfers' = Transfers /\ \A u \in Transfers : TransferOK(transfers'[u])
  BY TransferMoves DEF DispatchTransfer
<1> QED
  BY <1>5, <1>6, <1>7, <1>8 DEF TypeOK, DispatchTransfer

LEMMA ReceiveTransferType ==
  ASSUME TypeOK, NEW t \in Transfers, ReceiveTransfer(t)
  PROVE  TypeOK'
<1> DEFINE from == transfers[t].from
           to == transfers[t].to
           q == transfers[t].lines
<1>0. transfers[t].status = "in_transit"
  BY DEF ReceiveTransfer, Receivable
<1>1. from \in Warehouses /\ to \in Warehouses /\ \A p \in Products : q[p] \in Nat
  BY <1>0, TransferFields
<1>2. ASSUME NEW p \in Products
      PROVE  inTransit[from][p] - q[p] \in Nat /\ onHand[to][p] + q[p] \in Nat
  <2>1. inTransit[from][p] \in Nat /\ onHand[to][p] \in Nat /\ q[p] \in Nat
    BY <1>1 DEF TypeOK
  <2>2. p \in Lines(q) => inTransit[from][p] >= q[p]
    BY DEF ReceiveTransfer
  <2>3. p \notin Lines(q) => q[p] = 0
    BY DEF Lines
  <2> HIDE DEF from, to, q
  <2> QED
    BY <2>1, <2>2, <2>3
<1>3. onHand' = Plus(onHand, to, q) /\ inTransit' = Minus(inTransit, from, q)
  BY DEF ReceiveTransfer
<1>4. /\ onHand \in [Warehouses -> [Products -> Nat]]
      /\ inTransit \in [Warehouses -> [Products -> Nat]]
  BY DEF TypeOK
<1> HIDE DEF from, to, q
<1>5. onHand' \in [Warehouses -> [Products -> Nat]]
  BY <1>1, <1>2, <1>3, <1>4, PlusNat
<1>6. inTransit' \in [Warehouses -> [Products -> Nat]]
  BY <1>1, <1>2, <1>3, <1>4, MinusNat
<1>7. DOMAIN transfers' = Transfers /\ \A u \in Transfers : TransferOK(transfers'[u])
  BY TransferMoves DEF ReceiveTransfer, Receivable
<1> QED
  BY <1>5, <1>6, <1>7 DEF TypeOK, ReceiveTransfer

LEMMA CancelTransferType ==
  ASSUME TypeOK, NEW t \in Transfers, CancelTransfer(t)
  PROVE  TypeOK'
<1> DEFINE from == transfers[t].from
           q == transfers[t].lines
<1>0. transfers[t].status = "pending"
  BY DEF CancelTransfer, Cancellable
<1>1. from \in Warehouses /\ \A p \in Products : q[p] \in Nat
  BY <1>0, TransferFields
<1>2. /\ reserved' = Minus(reserved, from, q)
      /\ reserved \in [Warehouses -> [Products -> Int]]
      /\ \A p \in Products : reserved[from][p] - q[p] \in Int
  BY <1>1 DEF TypeOK, CancelTransfer
<1> HIDE DEF from, q
<1>3. reserved' \in [Warehouses -> [Products -> Int]]
  BY <1>1, <1>2, MinusInt
<1>4. DOMAIN transfers' = Transfers /\ \A u \in Transfers : TransferOK(transfers'[u])
  BY TransferMoves DEF CancelTransfer, Cancellable
<1> QED
  BY <1>3, <1>4 DEF TypeOK, CancelTransfer

-----------------------------------------------------------------------------
(* A request is filed or resolved with its type. *)
LEMMA FileType ==
  ASSUME TypeOK, NEW r \in Approvals, NEW ref \in References, NEW u \in Users,
         NEW x \in Payload, NEW y \in [Products -> Nat \cup {Uncounted}],
         File(r, ref, u, x, y)
  PROVE  approvals' \in [Approvals -> ApprovalRow]
BY DEF TypeOK, File, ApprovalRow

LEMMA NoPayloadType == NoPayload \in Payload
BY InventoryAssumption DEF NoPayload, Payload, Deltas

LEMMA SeenType ==
  ASSUME TypeOK, NEW ref \in References
  PROVE  Seen(ref) \in [Products -> Nat \cup {Uncounted}]
BY DEF TypeOK, Seen, CountOK, CountRow

LEMMA AskApprovalType ==
  ASSUME TypeOK, NEW u \in Users, NEW ref \in References, AskApproval(u, ref)
  PROVE  TypeOK'
BY DEF TypeOK, AskApproval, stock

LEMMA FileAskedType ==
  ASSUME TypeOK, NEW u \in Users, NEW r \in Approvals, FileAsked(u, r)
  PROVE  TypeOK'
<1>1. asking[u] \in References
  BY DEF TypeOK, FileAsked
<1>2. approvals' \in [Approvals -> ApprovalRow]
  BY <1>1, FileType, NoPayloadType, SeenType DEF FileAsked
<1> QED
  BY <1>2 DEF TypeOK, FileAsked, stock

LEMMA ResolveApprovalType ==
  ASSUME TypeOK, NEW u \in Users, NEW r \in Approvals, NEW d \in {"approved", "rejected"},
         ResolveApproval(u, r, d)
  PROVE  TypeOK'
<1>1. Cardinality(Resolved) + 1 \in Nat
  <2>1. Resolved \in SUBSET Approvals
    BY DEF Resolved
  <2> QED
    BY <2>1, InventoryAssumption, FS_Subset, FS_CardinalityType
<1> DEFINE row == [approvals[r] EXCEPT !.status = d, !.approvedBy = u,
                                      !.resolvedAt = Cardinality(Resolved) + 1]
<1>2. row \in ApprovalRow
  BY <1>1 DEF TypeOK, ApprovalRow
<1>3. approvals' = [approvals EXCEPT ![r] = row]
  BY DEF TypeOK, ResolveApproval
<1>4. approvals' \in [Approvals -> ApprovalRow]
  BY <1>2, <1>3 DEF TypeOK
<1> QED
  BY <1>4 DEF TypeOK, ResolveApproval, stock

-----------------------------------------------------------------------------
(* An adjustment leaves both of its buckets with natural numbers.          *)
LEMMA AdjustType ==
  ASSUME TypeOK, NEW x \in Payload, x.warehouse \in Warehouses, Adjust(x)
  PROVE  /\ onHand' \in [Warehouses -> [Products -> Nat]]
         /\ damaged' \in [Warehouses -> [Products -> Nat]]
         /\ UNCHANGED <<reserved, inTransit>>
<1>1. x.deltas \in [Products -> Int]
  BY InventoryAssumption DEF Payload, Deltas
<1>2. onHand' \in [Warehouses -> [Products -> Nat]]
  BY <1>1, CanMoveResult, PlusNat DEF TypeOK, Adjust, CanAdjust
<1>3. damaged' \in [Warehouses -> [Products -> Nat]]
  <2>1. CASE x.kind = "damaged"
    <3>1. \A p \in Products : damaged[x.warehouse][p] - x.deltas[p] \in Nat
      BY <1>1, <2>1 DEF TypeOK, Adjust, CanAdjust
    <3> QED
      BY <2>1, <3>1, MinusNat DEF TypeOK, Adjust
  <2>2. CASE x.kind # "damaged"
    BY <2>2 DEF TypeOK, Adjust
  <2> QED
    BY <2>1, <2>2
<1> QED
  BY <1>2, <1>3 DEF Adjust

LEMMA PostAdjustmentType ==
  ASSUME TypeOK, NEW x \in Payload, PostAdjustment(x)
  PROVE  TypeOK'
<1>1. /\ onHand' \in [Warehouses -> [Products -> Nat]]
      /\ damaged' \in [Warehouses -> [Products -> Nat]]
      /\ UNCHANGED <<reserved, inTransit>>
  BY AdjustType DEF PostAdjustment, ValidAdjustment
<1> QED
  BY <1>1 DEF TypeOK, PostAdjustment

LEMMA RequestAdjustmentType ==
  ASSUME TypeOK, NEW u \in Users, NEW a \in Adjustments, NEW r \in Approvals, NEW x \in Payload,
         RequestAdjustment(u, a, r, x)
  PROVE  TypeOK'
<1>1. approvals' \in [Approvals -> ApprovalRow]
  BY FileType DEF RequestAdjustment, References
<1>2. adjustments' \in [Adjustments -> AdjustmentRow]
  BY DEF TypeOK, RequestAdjustment, AdjustmentRow
<1> QED
  BY <1>1, <1>2 DEF TypeOK, RequestAdjustment, stock

(* The fields of an adjustment once its status has moved on.               *)
LEMMA AdjustmentMoves ==
  ASSUME TypeOK, NEW a \in Adjustments, NEW s \in {"posted", "cancelled"},
         adjustments' = [adjustments EXCEPT ![a].status = s]
  PROVE  adjustments' \in [Adjustments -> AdjustmentRow]
<1>1. [adjustments[a] EXCEPT !.status = s] \in AdjustmentRow
  BY DEF TypeOK, AdjustmentRow
<1> QED
  BY <1>1 DEF TypeOK

LEMMA CancelAdjustmentType ==
  ASSUME TypeOK, NEW a \in Adjustments, CancelAdjustment(a)
  PROVE  TypeOK'
<1>1. adjustments' \in [Adjustments -> AdjustmentRow]
  BY AdjustmentMoves DEF CancelAdjustment
<1>2. \A r \in Approvals : [approvals[r] EXCEPT !.status = "cancelled"] \in ApprovalRow
  BY DEF TypeOK, ApprovalRow
<1>3. approvals' \in [Approvals -> ApprovalRow]
  BY <1>2 DEF TypeOK, CancelAdjustment
<1> QED
  BY <1>1, <1>3 DEF TypeOK, CancelAdjustment, stock

-----------------------------------------------------------------------------
(* A count written into counts keeps them typed. *)
LEMMA CountWritten ==
  ASSUME TypeOK, NEW c \in Counts, NEW x, CountOK(x), counts' = [counts EXCEPT ![c] = x]
  PROVE  DOMAIN counts' = Counts /\ \A d \in Counts : CountOK(counts'[d])
BY DEF TypeOK

LEMMA CountMoves ==
  ASSUME TypeOK, NEW c \in Counts, counts[c].status # "none",
         NEW s \in {"posted", "cancelled"} \cup OpenStatus
  PROVE  /\ CountOK([counts[c] EXCEPT !.status = s])
         /\ [counts EXCEPT ![c].status = s] = [counts EXCEPT ![c] = [counts[c] EXCEPT !.status = s]]
<1>1. CountOK(counts[c])
  BY DEF TypeOK
<1>2. CountOK([counts[c] EXCEPT !.status = s])
  BY <1>1 DEF CountOK, CountRow
<1> QED
  BY <1>2 DEF TypeOK

LEMMA NewCountOK ==
  ASSUME TypeOK, NEW w \in Warehouses, NEW P \in SUBSET Products, NEW policy \in Policies,
         NEW counted \in CountedLines(P), NEW strict \in SUBSET (P \cap StrictLines),
         NEW s \in OpenStatus
  PROVE  CountOK(NewCount(s, w, P, policy, counted, strict))
<1>1. Snapshot(w, P) \in [Products -> Nat]
  BY DEF TypeOK, Snapshot
<1>2. counted \in [Products -> Nat \cup {Uncounted}]
  BY InventoryAssumption DEF CountedLines, Uncounted
<1> QED
  BY <1>1, <1>2 DEF CountOK, CountRow, NewCount, OpenStatus

LEMMA CreateCountType ==
  ASSUME TypeOK, NEW c \in Counts, NEW w \in Warehouses, NEW P \in SUBSET Products,
         NEW policy \in Policies, NEW counted \in CountedLines(P),
         NEW strict \in SUBSET (P \cap StrictLines), CreateCount(c, w, P, policy, counted, strict)
  PROVE  TypeOK'
<1>1. CountOK(NewCount("draft", w, P, policy, counted, strict))
  BY NewCountOK DEF OpenStatus
<1>2. DOMAIN counts' = Counts /\ \A d \in Counts : CountOK(counts'[d])
  BY <1>1, CountWritten DEF CreateCount
<1> QED
  BY <1>2 DEF TypeOK, CreateCount, stock

LEMMA ApplyCountType ==
  ASSUME TypeOK, NEW c \in Counts, NEW row, CountOK(row), row.status # "none", ApplyCount(c, row)
  PROVE  TypeOK'
<1>1. row.warehouse \in Warehouses
  BY DEF CountOK
<1>2. onHand' \in [Warehouses -> [Products -> Nat]]
  <2>1. \A p \in Products : onHand[row.warehouse][p] + Variance(row)[p] \in Nat
    BY <1>1, CanPostResult DEF TypeOK, ApplyCount
  <2> QED
    BY <1>1, <2>1, PlusNat DEF TypeOK, ApplyCount
<1>3. CountOK([row EXCEPT !.status = "posted"])
  BY DEF CountOK, CountRow
<1>4. DOMAIN counts' = Counts /\ \A d \in Counts : CountOK(counts'[d])
  BY <1>3, CountWritten DEF ApplyCount
<1> QED
  BY <1>2, <1>4 DEF TypeOK, ApplyCount

LEMMA SaveCountType ==
  ASSUME TypeOK, NEW c \in Counts, NEW P \in SUBSET Products,
         NEW counted \in [Products -> 0..MaxStock], NEW strict \in SUBSET (P \cap StrictLines),
         SaveCount(c, P, counted, strict)
  PROVE  TypeOK'
<1> DEFINE row == [counts[c] EXCEPT
      !.counted = [p \in Products |-> IF p \in P THEN counted[p] ELSE counts[c].counted[p]],
      !.strict = (counts[c].strict \ P) \cup strict]
<1>1. CountOK(counts[c])
  BY DEF TypeOK
<1>2. counts' = [counts EXCEPT ![c] = row]
  BY DEF TypeOK, SaveCount
<1>3. P \subseteq counts[c].products
  BY DEF SaveCount
<1>4. [p \in Products |-> IF p \in P THEN counted[p] ELSE counts[c].counted[p]]
        \in [Products -> Nat \cup {Uncounted}]
  BY <1>1, InventoryAssumption DEF CountOK, CountRow
<1>5. CountOK(row)
  BY <1>1, <1>3, <1>4 DEF CountOK, CountRow
<1>6. DOMAIN counts' = Counts /\ \A d \in Counts : CountOK(counts'[d])
  BY <1>2, <1>5, CountWritten
<1> QED
  BY <1>6 DEF TypeOK, SaveCount, stock

LEMMA StatusOnlyType ==
  ASSUME TypeOK, NEW c \in Counts, counts[c].status # "none",
         NEW s \in {"posted", "cancelled"} \cup OpenStatus,
         counts' = [counts EXCEPT ![c].status = s],
         approvals' \in [Approvals -> ApprovalRow],
         UNCHANGED <<stock, transfers, adjustments, asking>>
  PROVE  TypeOK'
<1>1. DOMAIN counts' = Counts /\ \A d \in Counts : CountOK(counts'[d])
  BY CountMoves, CountWritten
<1> QED
  BY <1>1 DEF TypeOK, stock

LEMMA WithdrawnType ==
  ASSUME TypeOK, NEW c
  PROVE  Withdrawn(c) \in [Approvals -> ApprovalRow]
<1>1. \A r \in Approvals : [approvals[r] EXCEPT !.status = "cancelled"] \in ApprovalRow
  BY DEF TypeOK, ApprovalRow
<1> QED
  BY <1>1 DEF TypeOK, Withdrawn

LEMMA ReviewCountType ==
  ASSUME TypeOK, NEW u \in Users, NEW c \in Counts, ReviewCount(u, c)
  PROVE  TypeOK'
<1>1. approvals' \in [Approvals -> ApprovalRow]
  <2>1. CASE Disputed(counts[c]) = {}
    BY <2>1 DEF TypeOK, ReviewCount
  <2>2. CASE Disputed(counts[c]) # {}
    <3>1. c \in References
      BY DEF References
    <3>2. PICK r \in Approvals : File(r, c, u, NoPayload, Seen(c))
      BY <2>2 DEF ReviewCount
    <3> QED
      BY <3>1, <3>2, FileType, NoPayloadType, SeenType
  <2> QED
    BY <2>1, <2>2
<1>2. counts[c].status # "none" /\ "reviewed" \in OpenStatus
  BY DEF ReviewCount, OpenStatus
<1> QED
  BY <1>1, <1>2, StatusOnlyType DEF ReviewCount

(* TypeOK says nothing of the request an adjustment points to, which its   *)
(* posting reads: it is the adjustment's own, with a real warehouse, and   *)
(* one answered by another user once the adjustment is posted.             *)
RequestKept == \A a \in Adjustments : adjustments[a].status # "none" =>
  /\ adjustments[a].approval \in Approvals
  /\ approvals[adjustments[a].approval].status # "none"
  /\ approvals[adjustments[a].approval].ref = a
  /\ approvals[adjustments[a].approval].payload.warehouse \in Warehouses
  /\ adjustments[a].status = "posted" => ApprovedByAnother(adjustments[a].approval)

ApproverKnown == \A r \in Approvals :
  approvals[r].status = "approved" => approvals[r].approvedBy \in Users

RequestInv == RequestKept /\ ApproverKnown

LEMMA TypeStep == TypeOK /\ RequestKept /\ [Next]_vars => TypeOK'
<1> SUFFICES ASSUME TypeOK, RequestKept, [Next]_vars
             PROVE  TypeOK'
  OBVIOUS
<1>1. CASE OtherDocuments
  BY <1>1, PostOnHandType, PostDamagedReturnType DEF OtherDocuments
<1>2. CASE TransferSteps
  BY <1>2, CreateTransferType, DispatchTransferType, ReceiveTransferType, CancelTransferType
     DEF TransferSteps
<1>3. CASE AdjustmentSteps
  <2>1. ASSUME NEW a \in Adjustments, PostApprovedAdjustment(a)
        PROVE  TypeOK'
    <3> DEFINE x == approvals[adjustments[a].approval].payload
    <3>1. adjustments[a].approval \in Approvals /\ x.warehouse \in Warehouses
      BY <2>1 DEF PostApprovedAdjustment, RequestKept
    <3>2. x \in Payload
      BY <3>1 DEF TypeOK, ApprovalRow
    <3>3. Adjust(x)
      BY <2>1 DEF PostApprovedAdjustment
    <3>4. /\ onHand' \in [Warehouses -> [Products -> Nat]]
          /\ damaged' \in [Warehouses -> [Products -> Nat]]
          /\ UNCHANGED <<reserved, inTransit>>
      BY <3>1, <3>2, <3>3, AdjustType
    <3>5. adjustments' \in [Adjustments -> AdjustmentRow]
      BY <2>1, AdjustmentMoves DEF PostApprovedAdjustment
    <3> QED
      BY <2>1, <3>4, <3>5 DEF TypeOK, PostApprovedAdjustment
  <2> QED
    BY <1>3, <2>1, PostAdjustmentType, RequestAdjustmentType, CancelAdjustmentType
       DEF AdjustmentSteps
<1>4. CASE CountSteps
  <2>1. ASSUME NEW c \in Counts, StartCount(c)
        PROVE  TypeOK'
    BY <2>1, StatusOnlyType DEF StartCount, OpenStatus, TypeOK
  <2>2. ASSUME NEW c \in Counts, ReopenCount(c)
        PROVE  TypeOK'
    BY <2>2, StatusOnlyType, WithdrawnType DEF ReopenCount, OpenStatus
  <2>3. ASSUME NEW c \in Counts, CancelCount(c)
        PROVE  TypeOK'
    BY <2>3, StatusOnlyType, WithdrawnType DEF CancelCount, Open, OpenStatus
  <2>4. ASSUME NEW c \in Counts, PostCount(c)
        PROVE  TypeOK'
    BY <2>4, ApplyCountType DEF PostCount, TypeOK
  <2>5. ASSUME NEW c \in Counts, NEW w \in Warehouses, NEW P \in SUBSET Products,
               NEW policy \in Policies, NEW counted \in CountedLines(P),
               NEW strict \in SUBSET (P \cap StrictLines),
               CreateAndPostCount(c, w, P, policy, counted, strict)
        PROVE  TypeOK'
    <3> DEFINE row == NewCount("reviewed", w, P, policy, counted, strict)
    <3>1. CountOK(row) /\ row.status # "none"
      BY NewCountOK DEF OpenStatus, NewCount
    <3> QED
      BY <2>5, <3>1, ApplyCountType DEF CreateAndPostCount
  <2> QED
    BY <1>4, <2>1, <2>2, <2>3, <2>4, <2>5, CreateCountType, SaveCountType, ReviewCountType
       DEF CountSteps
<1>5. CASE ApprovalSteps
  BY <1>5, InventoryAssumption, AskApprovalType, FileAskedType, ResolveApprovalType
     DEF ApprovalSteps
<1>6. CASE UNCHANGED vars
  BY <1>6 DEF vars, stock, TypeOK
<1> QED
  BY <1>1, <1>2, <1>3, <1>4, <1>5, <1>6 DEF Next

-----------------------------------------------------------------------------
(* Steps that leave the answered requests of adjustments alone keep        *)
(* RequestKept.                                                            *)
LEMMA RequestFrame ==
  ASSUME RequestKept, UNCHANGED adjustments,
         \A r \in Approvals : approvals[r].status # "none" /\ approvals[r].ref \in Adjustments =>
           \/ approvals'[r] = approvals[r]
           \/ /\ approvals[r].status = "pending"
              /\ approvals'[r].status # "none"
              /\ approvals'[r].ref = approvals[r].ref
              /\ approvals'[r].payload = approvals[r].payload
  PROVE  RequestKept'
<1> SUFFICES ASSUME NEW a \in Adjustments, adjustments[a].status # "none"
             PROVE  /\ adjustments[a].approval \in Approvals
                    /\ approvals'[adjustments[a].approval].status # "none"
                    /\ approvals'[adjustments[a].approval].ref = a
                    /\ approvals'[adjustments[a].approval].payload.warehouse \in Warehouses
                    /\ adjustments[a].status = "posted" => ApprovedByAnother(adjustments[a].approval)'
  BY DEF RequestKept
<1> DEFINE r == adjustments[a].approval
<1>1. /\ r \in Approvals /\ approvals[r].status # "none" /\ approvals[r].ref = a
      /\ approvals[r].payload.warehouse \in Warehouses
      /\ adjustments[a].status = "posted" => ApprovedByAnother(r)
  BY DEF RequestKept
<1>2. CASE approvals'[r] = approvals[r]
  BY <1>1, <1>2 DEF ApprovedByAnother
<1>3. CASE approvals[r].status = "pending" /\ approvals'[r] # approvals[r]
  BY <1>1, <1>3 DEF ApprovedByAnother
<1> QED
  BY <1>1, <1>2, <1>3

LEMMA FileRequest ==
  ASSUME TypeOK, RequestInv, NEW r \in Approvals, NEW ref, NEW u, NEW x, NEW y,
         File(r, ref, u, x, y)
  PROVE  /\ ApproverKnown'
         /\ \A s \in Approvals : approvals[s].status # "none" => approvals'[s] = approvals[s]
         /\ approvals'[r].status = "pending" /\ approvals'[r].ref = ref /\ approvals'[r].payload = x
BY DEF TypeOK, RequestInv, ApproverKnown, File

LEMMA RequestAdjustmentKept ==
  ASSUME TypeOK, RequestInv, NEW u \in Users, NEW a \in Adjustments, NEW r \in Approvals,
         NEW x \in Payload, RequestAdjustment(u, a, r, x)
  PROVE  RequestInv'
<1>1. /\ ApproverKnown'
      /\ \A s \in Approvals : approvals[s].status # "none" => approvals'[s] = approvals[s]
      /\ approvals'[r].status = "pending" /\ approvals'[r].ref = a /\ approvals'[r].payload = x
  BY FileRequest DEF RequestAdjustment
<1>2. adjustments' = [adjustments EXCEPT ![a] = [status |-> "pending_approval", approval |-> r]]
  BY DEF RequestAdjustment
<1>3. x.warehouse \in Warehouses
  BY DEF RequestAdjustment, ValidAdjustment
<1>4. ASSUME NEW b \in Adjustments, adjustments'[b].status # "none", b # a
      PROVE  /\ adjustments'[b] = adjustments[b]
             /\ adjustments[b].approval \in Approvals
             /\ approvals'[adjustments[b].approval] = approvals[adjustments[b].approval]
  BY <1>1, <1>2, <1>4 DEF TypeOK, RequestInv, RequestKept
<1>5. adjustments'[a].status = "pending_approval" /\ adjustments'[a].approval = r
  BY <1>2 DEF TypeOK
<1>6. RequestKept'
  BY <1>1, <1>3, <1>4, <1>5 DEF RequestInv, RequestKept, ApprovedByAnother
<1> QED
  BY <1>1, <1>6 DEF RequestInv

LEMMA PostApprovedAdjustmentKept ==
  ASSUME TypeOK, RequestInv, NEW a \in Adjustments, PostApprovedAdjustment(a)
  PROVE  RequestInv'
<1> DEFINE r == adjustments[a].approval
<1>1. UNCHANGED approvals /\ adjustments' = [adjustments EXCEPT ![a].status = "posted"]
  BY DEF PostApprovedAdjustment
<1>2. r \in Approvals /\ adjustments[a].status # "none"
  BY DEF PostApprovedAdjustment, RequestInv, RequestKept
<1>3. ApprovedByAnother(r)
  BY <1>2 DEF PostApprovedAdjustment, Independent, ApprovedByAnother, RequestInv, ApproverKnown
<1>4. \A b \in Adjustments : adjustments'[b].approval = adjustments[b].approval
  BY <1>1 DEF TypeOK, AdjustmentRow
<1>5. \A b \in Adjustments : b # a => adjustments'[b] = adjustments[b]
  BY <1>1 DEF TypeOK
<1>6. RequestKept'
  BY <1>1, <1>2, <1>3, <1>4, <1>5 DEF RequestInv, RequestKept, ApprovedByAnother
<1> QED
  BY <1>1, <1>6 DEF RequestInv, ApproverKnown

LEMMA CancelAdjustmentKept ==
  ASSUME TypeOK, RequestInv, NEW a \in Adjustments, CancelAdjustment(a)
  PROVE  RequestInv'
<1> DEFINE r == adjustments[a].approval
<1>1. /\ adjustments' = [adjustments EXCEPT ![a].status = "cancelled"]
      /\ approvals' = [approvals EXCEPT ![r].status = "cancelled"]
      /\ adjustments[a].status # "none"
  BY DEF CancelAdjustment
<1>2. r \in Approvals /\ approvals[r].ref = a
  BY <1>1 DEF RequestInv, RequestKept
<1>3. /\ approvals'[r].status = "cancelled" /\ approvals'[r].ref = a
      /\ approvals'[r].payload = approvals[r].payload
  BY <1>1, <1>2 DEF TypeOK, ApprovalRow
<1>4. \A s \in Approvals : s # r => approvals'[s] = approvals[s]
  BY <1>1, <1>2 DEF TypeOK
<1>5. adjustments'[a].status = "cancelled" /\ adjustments'[a].approval = r
  BY <1>1 DEF TypeOK, AdjustmentRow
<1>6. \A b \in Adjustments : b # a => adjustments'[b] = adjustments[b]
  BY <1>1 DEF TypeOK
<1>7. ASSUME NEW b \in Adjustments, b # a, adjustments[b].status # "none"
      PROVE  adjustments[b].approval # r
  BY <1>2, <1>7 DEF RequestInv, RequestKept
<1> HIDE DEF r
<1>8. RequestKept'
  BY <1>1, <1>2, <1>3, <1>4, <1>5, <1>6, <1>7 DEF RequestInv, RequestKept, ApprovedByAnother
<1>9. ApproverKnown'
  BY <1>3, <1>4 DEF RequestInv, ApproverKnown
<1> QED
  BY <1>8, <1>9 DEF RequestInv

LEMMA WithdrawnKept ==
  ASSUME TypeOK, RequestInv, NEW c \in Counts, approvals' = Withdrawn(c), UNCHANGED adjustments
  PROVE  RequestInv'
<1>1. c \notin Adjustments
  BY InventoryAssumption
<1>2. \A r \in Approvals : approvals[r].ref # c => approvals'[r] = approvals[r]
  BY DEF Withdrawn
<1>3. \A r \in Approvals : approvals'[r] = approvals[r] \/ approvals'[r].status = "cancelled"
  BY DEF TypeOK, ApprovalRow, Withdrawn
<1> QED
  BY <1>1, <1>2, <1>3, RequestFrame DEF RequestInv, ApproverKnown

LEMMA ResolveKept ==
  ASSUME TypeOK, RequestInv, NEW u \in Users, NEW r \in Approvals,
         NEW d \in {"approved", "rejected"}, ResolveApproval(u, r, d)
  PROVE  RequestInv'
<1>1. approvals[r].status = "pending" /\ UNCHANGED adjustments
  BY DEF ResolveApproval
<1>2. \A s \in Approvals : s # r => approvals'[s] = approvals[s]
  BY DEF TypeOK, ResolveApproval
<1>3. /\ approvals'[r].status = d
      /\ approvals'[r].approvedBy = u
      /\ approvals'[r].ref = approvals[r].ref
      /\ approvals'[r].payload = approvals[r].payload
  BY DEF TypeOK, ApprovalRow, ResolveApproval
<1> QED
  BY <1>1, <1>2, <1>3, RequestFrame DEF RequestInv, ApproverKnown

LEMMA RequestStep == TypeOK /\ RequestInv /\ [Next]_vars => RequestInv'
<1> SUFFICES ASSUME TypeOK, RequestInv, [Next]_vars
             PROVE  RequestInv'
  OBVIOUS
<1>1. CASE UNCHANGED <<adjustments, approvals>>
  BY <1>1 DEF RequestInv, RequestKept, ApproverKnown, ApprovedByAnother
<1>2. CASE OtherDocuments
  BY <1>1, <1>2 DEF OtherDocuments, PostOnHand, PostDamagedReturn
<1>3. CASE TransferSteps
  BY <1>1, <1>3 DEF TransferSteps, CreateTransfer, DispatchTransfer, ReceiveTransfer, CancelTransfer
<1>4. CASE AdjustmentSteps
  BY <1>1, <1>4, RequestAdjustmentKept, PostApprovedAdjustmentKept, CancelAdjustmentKept
     DEF AdjustmentSteps, PostAdjustment
<1>5. CASE CountSteps
  <2>1. ASSUME NEW c \in Counts, NEW u \in Users, ReviewCount(u, c)
        PROVE  RequestInv'
    <3>1. CASE Disputed(counts[c]) = {}
      BY <1>1, <2>1, <3>1 DEF ReviewCount
    <3>2. CASE Disputed(counts[c]) # {}
      <4>1. PICK r \in Approvals : File(r, c, u, NoPayload, Seen(c))
        BY <2>1, <3>2 DEF ReviewCount
      <4> QED
        BY <2>1, <4>1, FileRequest, RequestFrame DEF ReviewCount, RequestInv
    <3> QED
      BY <3>1, <3>2
  <2>2. ASSUME NEW c \in Counts, NEW w, NEW P, NEW policy, NEW counted, NEW strict,
               CreateCount(c, w, P, policy, counted, strict)
                 \/ CreateAndPostCount(c, w, P, policy, counted, strict)
        PROVE  RequestInv'
    BY <1>1, <2>2 DEF CreateCount, CreateAndPostCount, ApplyCount
  <2>3. ASSUME NEW c \in Counts, ReopenCount(c) \/ CancelCount(c)
        PROVE  RequestInv'
    BY <2>3, WithdrawnKept DEF ReopenCount, CancelCount
  <2> QED
    BY <1>1, <1>5, <2>1, <2>2, <2>3 DEF CountSteps, StartCount, SaveCount, PostCount, ApplyCount
<1>6. CASE ApprovalSteps
  <2>1. ASSUME NEW u \in Requesters, NEW r \in Approvals, FileAsked(u, r)
        PROVE  RequestInv'
    BY <2>1, FileRequest, RequestFrame DEF FileAsked, RequestInv
  <2> QED
    BY <1>1, <1>6, <2>1, ResolveKept DEF ApprovalSteps, AskApproval
<1>7. CASE UNCHANGED vars
  BY <1>1, <1>7 DEF vars
<1> QED
  BY <1>2, <1>3, <1>4, <1>5, <1>6, <1>7 DEF Next

LEMMA InitRequests == Init => RequestInv
BY DEF Init, RequestInv, RequestKept, ApproverKnown, NoAdjustment, NoApproval

LEMMA TypedRequests == Spec => [](TypeOK /\ RequestInv)
<1>1. TypeOK /\ RequestInv /\ [Next]_vars => (TypeOK /\ RequestInv)'
  BY TypeStep, RequestStep DEF RequestInv
<1> QED
  BY <1>1, InitType, InitRequests, PTL DEF Spec

(* Every quantity stays a natural number and every document keeps its      *)
(* type, whatever the company and however its documents interleave.        *)
THEOREM TypeCorrect == Spec => []TypeOK
BY TypedRequests, PTL

(* An adjustment that needed approval is posted only under the approval    *)
(* another user gave to its own request (actOnStockAdjustment), even with  *)
(* requests filed for it through the generic route.                        *)
THEOREM AdjustmentsAreApproved == Spec => []AdjustmentApproved
<1>1. RequestInv => AdjustmentApproved
  BY DEF RequestInv, RequestKept, AdjustmentApproved
<1> QED
  BY <1>1, TypedRequests, PTL

-----------------------------------------------------------------------------
(* A bucket after its lines have moved. *)
LEMMA PlusAt ==
  ASSUME NEW b, DOMAIN b = Warehouses, NEW w \in Warehouses, NEW d,
         NEW v \in Warehouses, NEW p \in Products
  PROVE  Plus(b, w, d)[v][p] = IF v = w THEN b[v][p] + d[p] ELSE b[v][p]
BY DEF Plus

LEMMA MinusAt ==
  ASSUME NEW b, DOMAIN b = Warehouses, NEW w \in Warehouses, NEW d,
         NEW v \in Warehouses, NEW p \in Products
  PROVE  Minus(b, w, d)[v][p] = IF v = w THEN b[v][p] - d[p] ELSE b[v][p]
BY DEF Minus

LEMMA Buckets ==
  ASSUME TypeOK
  PROVE  /\ DOMAIN onHand = Warehouses /\ DOMAIN reserved = Warehouses
         /\ \A w \in Warehouses, p \in Products :
              onHand[w][p] \in Nat /\ reserved[w][p] \in Int /\ inTransit[w][p] \in Nat
BY DEF TypeOK

(* One document moving d at w keeps what is reserved on hand.              *)
LEMMA MoveKeepsReserved ==
  ASSUME TypeOK, ReservedIsOnHand, NEW w \in Warehouses, NEW d \in [Products -> Int],
         CanMove(w, d), onHand' = Plus(onHand, w, d), UNCHANGED reserved
  PROVE  ReservedIsOnHand'
<1> SUFFICES ASSUME NEW v \in Warehouses, NEW p \in Products
             PROVE  reserved[v][p] <= onHand'[v][p]
  BY DEF ReservedIsOnHand
<1>1. reserved[w][p] <= onHand[w][p] => reserved[w][p] <= onHand[w][p] + d[p]
  BY CanMoveResult DEF TypeOK
<1>2. onHand'[v][p] = IF v = w THEN onHand[v][p] + d[p] ELSE onHand[v][p]
  BY PlusAt, Buckets
<1> QED
  BY <1>1, <1>2 DEF ReservedIsOnHand

LEMMA ApplyCountKeepsReserved ==
  ASSUME TypeOK, ReservedIsOnHand, NEW c, NEW x, CountOK(x), x.status # "none", ApplyCount(c, x)
  PROVE  ReservedIsOnHand'
<1> SUFFICES ASSUME NEW v \in Warehouses, NEW p \in Products
             PROVE  reserved[v][p] <= onHand'[v][p]
  BY DEF ReservedIsOnHand, ApplyCount
<1> DEFINE w == x.warehouse
           d == Variance(x)
<1>1. w \in Warehouses
  BY DEF CountOK
<1>2. reserved[w][p] <= onHand[w][p] => reserved[w][p] <= onHand[w][p] + d[p]
  BY <1>1, CanPostResult DEF TypeOK, ApplyCount
<1>3. onHand' = Plus(onHand, w, d)
  BY DEF ApplyCount
<1> HIDE DEF w, d
<1>4. onHand'[v][p] = IF v = w THEN onHand[v][p] + d[p] ELSE onHand[v][p]
  BY <1>1, <1>3, PlusAt, Buckets
<1> QED
  BY <1>2, <1>4 DEF ReservedIsOnHand

LEMMA TransferKeepsReserved ==
  ASSUME TypeOK, ReservedIsOnHand, TransferSteps
  PROVE  ReservedIsOnHand'
<1> USE DEF ReservedIsOnHand
<1>1. ASSUME NEW t \in Transfers, NEW from \in Warehouses, NEW to \in Warehouses,
             NEW q \in Quantities, CreateTransfer(t, from, to, q),
             NEW v \in Warehouses, NEW p \in Products
      PROVE  reserved'[v][p] <= onHand'[v][p]
  <2>1. q[p] \in Nat /\ UNCHANGED onHand
    BY <1>1, InventoryAssumption DEF Quantities, CreateTransfer
  <2>2. reserved'[v][p] = IF v = from THEN reserved[v][p] + q[p] ELSE reserved[v][p]
    BY <1>1, PlusAt, Buckets DEF CreateTransfer
  <2>3. q[p] # 0 => reserved[from][p] + q[p] <= onHand[from][p]
    BY <1>1 DEF CreateTransfer, Lines, MayReserve
  <2> QED
    BY <2>1, <2>2, <2>3, Buckets
<1>2. ASSUME NEW t \in Transfers, DispatchTransfer(t), NEW v \in Warehouses, NEW p \in Products
      PROVE  reserved'[v][p] <= onHand'[v][p]
  <2> DEFINE from == transfers[t].from
             q == transfers[t].lines
  <2>1. from \in Warehouses /\ q[p] \in Nat
    BY <1>2, TransferFields DEF DispatchTransfer
  <2>2. reserved' = Minus(reserved, from, q) /\ onHand' = Minus(onHand, from, q)
    BY <1>2 DEF DispatchTransfer
  <2> HIDE DEF from, q
  <2>3. /\ reserved'[v][p] = IF v = from THEN reserved[v][p] - q[p] ELSE reserved[v][p]
        /\ onHand'[v][p] = IF v = from THEN onHand[v][p] - q[p] ELSE onHand[v][p]
    BY <2>1, <2>2, MinusAt, Buckets
  <2> QED
    BY <2>1, <2>3, Buckets
<1>3. ASSUME NEW t \in Transfers, ReceiveTransfer(t), NEW v \in Warehouses, NEW p \in Products
      PROVE  reserved'[v][p] <= onHand'[v][p]
  <2> DEFINE to == transfers[t].to
             q == transfers[t].lines
  <2>1. to \in Warehouses /\ q[p] \in Nat
    BY <1>3, TransferFields DEF ReceiveTransfer, Receivable
  <2>2. UNCHANGED reserved /\ onHand' = Plus(onHand, to, q)
    BY <1>3 DEF ReceiveTransfer
  <2> HIDE DEF to, q
  <2>3. onHand'[v][p] = IF v = to THEN onHand[v][p] + q[p] ELSE onHand[v][p]
    BY <2>1, <2>2, PlusAt, Buckets
  <2> QED
    BY <2>1, <2>2, <2>3, Buckets
<1>4. ASSUME NEW t \in Transfers, CancelTransfer(t), NEW v \in Warehouses, NEW p \in Products
      PROVE  reserved'[v][p] <= onHand'[v][p]
  <2> DEFINE from == transfers[t].from
             q == transfers[t].lines
  <2>1. from \in Warehouses /\ q[p] \in Nat
    BY <1>4, TransferFields DEF CancelTransfer, Cancellable
  <2>2. reserved' = Minus(reserved, from, q) /\ UNCHANGED onHand
    BY <1>4 DEF CancelTransfer
  <2> HIDE DEF from, q
  <2>3. reserved'[v][p] = IF v = from THEN reserved[v][p] - q[p] ELSE reserved[v][p]
    BY <2>1, <2>2, MinusAt, Buckets
  <2> QED
    BY <2>1, <2>2, <2>3, Buckets
<1> QED
  BY <1>1, <1>2, <1>3, <1>4 DEF TransferSteps

LEMMA ReservedStep == TypeOK /\ RequestInv /\ ReservedIsOnHand /\ [Next]_vars => ReservedIsOnHand'
<1> SUFFICES ASSUME TypeOK, RequestInv, ReservedIsOnHand, [Next]_vars
             PROVE  ReservedIsOnHand'
  OBVIOUS
<1>1. CASE UNCHANGED <<onHand, reserved>>
  BY <1>1 DEF ReservedIsOnHand
<1>2. CASE OtherDocuments
  <2>1. ASSUME NEW w \in Warehouses, NEW d \in Deltas, PostOnHand(w, d)
        PROVE  ReservedIsOnHand'
    <3>1. d \in [Products -> Int]
      BY InventoryAssumption DEF Deltas
    <3> QED
      BY <2>1, <3>1, MoveKeepsReserved DEF PostOnHand
  <2> QED
    BY <1>1, <1>2, <2>1 DEF OtherDocuments, PostDamagedReturn
<1>3. CASE TransferSteps
  BY <1>3, TransferKeepsReserved
<1>4. CASE AdjustmentSteps
  <2>1. ASSUME NEW x \in Payload, x.warehouse \in Warehouses, Adjust(x)
        PROVE  ReservedIsOnHand'
    <3>1. x.deltas \in [Products -> Int]
      BY InventoryAssumption DEF Payload, Deltas
    <3> QED
      BY <2>1, <3>1, MoveKeepsReserved DEF Adjust, CanAdjust
  <2>2. ASSUME NEW a \in Adjustments, PostApprovedAdjustment(a)
        PROVE  ReservedIsOnHand'
    <3> DEFINE r == adjustments[a].approval
    <3>1. r \in Approvals /\ approvals[r].payload.warehouse \in Warehouses
      BY <2>2 DEF PostApprovedAdjustment, RequestInv, RequestKept
    <3>2. approvals[r].payload \in Payload
      BY <3>1 DEF TypeOK, ApprovalRow
    <3> QED
      BY <2>1, <2>2, <3>1, <3>2 DEF PostApprovedAdjustment
  <2> QED
    BY <1>1, <1>4, <2>1, <2>2
       DEF AdjustmentSteps, PostAdjustment, ValidAdjustment, RequestAdjustment, CancelAdjustment, stock
<1>5. CASE CountSteps
  <2>1. ASSUME NEW c \in Counts, PostCount(c)
        PROVE  ReservedIsOnHand'
    BY <2>1, ApplyCountKeepsReserved DEF PostCount, TypeOK
  <2>2. ASSUME NEW c \in Counts, NEW w \in Warehouses, NEW P \in SUBSET Products,
               NEW policy \in Policies, NEW counted \in CountedLines(P),
               NEW strict \in SUBSET (P \cap StrictLines),
               CreateAndPostCount(c, w, P, policy, counted, strict)
        PROVE  ReservedIsOnHand'
    <3> DEFINE row == NewCount("reviewed", w, P, policy, counted, strict)
    <3>1. CountOK(row) /\ row.status # "none"
      BY NewCountOK DEF OpenStatus, NewCount
    <3> QED
      BY <2>2, <3>1, ApplyCountKeepsReserved DEF CreateAndPostCount
  <2> QED
    BY <1>1, <1>5, <2>1, <2>2
       DEF CountSteps, CreateCount, StartCount, SaveCount, ReviewCount, ReopenCount, CancelCount, stock
<1>6. CASE ApprovalSteps
  BY <1>1, <1>6 DEF ApprovalSteps, AskApproval, FileAsked, ResolveApproval, stock
<1>7. CASE UNCHANGED vars
  BY <1>1, <1>7 DEF vars, stock
<1> QED
  BY <1>2, <1>3, <1>4, <1>5, <1>6, <1>7 DEF Next

(* The check of the database that on_hand covers reserved is never what    *)
(* stops a document: planStockMovement and createTransfer have refused     *)
(* before, in every order of documents.                                    *)
THEOREM ReservedStaysOnHand == Spec => []ReservedIsOnHand
<1>1. Init => ReservedIsOnHand
  BY DEF Init, ReservedIsOnHand
<1> QED
  BY <1>1, ReservedStep, TypedRequests, PTL DEF Spec

-----------------------------------------------------------------------------
(* What a transfer x in one status holds of a warehouse, or nothing.       *)
Hold(x, status, w, p) == IF x.status = status /\ x.from = w THEN x.lines[p] ELSE 0

LEMMA HoldType ==
  ASSUME NEW x, TransferOK(x), NEW status, NEW w, NEW p \in Products
  PROVE  Hold(x, status, w, p) \in Int
<1>1. x.lines[p] \in Int
  BY InventoryAssumption DEF TransferOK, TransferRow, Quantities
<1> QED
  BY <1>1 DEF Hold

(* What the transfers in row hold: HeldBy before or after a step.          *)
Holding(row, status, w) == {u \in Transfers : row[u].status = status /\ row[u].from = w}
HeldIn(row, status, w, p) == SumFunction([u \in Holding(row, status, w) |-> row[u].lines[p]])

LEMMA HeldNowAndThen ==
  ASSUME NEW status, NEW w, NEW p
  PROVE  /\ HeldBy(status, w, p) = HeldIn(transfers, status, w, p)
         /\ HeldBy(status, w, p)' = HeldIn(transfers', status, w, p)
BY DEF HeldBy, HeldIn, Holding

(* That is a sum over all transfers, those that hold nothing included.     *)
LEMMA HeldIsTotal ==
  ASSUME NEW row, \A u \in Transfers : TransferOK(row[u]),
         NEW status, NEW w, NEW p \in Products,
         NEW f, \A u \in Transfers : f[u] = Hold(row[u], status, w, p)
  PROVE  SumFunctionOnSet(f, Transfers) = HeldIn(row, status, w, p)
<1> DEFINE T == Holding(row, status, w)
           g == [u \in T |-> row[u].lines[p]]
<1>1. HeldIn(row, status, w, p) = SumFunctionOnSet(g, T)
  BY DEF HeldIn, SumFunction
<1>2. T \in SUBSET Transfers /\ IsFiniteSet(Transfers) /\ IsFiniteSet(T)
  BY CompanyAssumption, FS_Subset DEF Holding
<1>3. /\ \A u \in T : f[u] \in Int /\ f[u] = g[u]
      /\ \A u \in Transfers \ T : f[u] = 0
  BY HoldType DEF Hold, Holding
<1> HIDE DEF T, g
<1>4. SumFunctionOnSet(f, Transfers) = SumFunctionOnSet(f, T)
  BY <1>2, <1>3, SumSupport
<1>5. SumFunctionOnSet(f, T) = SumFunctionOnSet(g, T)
  BY <1>2, <1>3, SumSame
<1> QED
  BY <1>1, <1>4, <1>5

(* Writing one transfer takes away what it held and adds what it holds.    *)
LEMMA HeldChange ==
  ASSUME TypeOK, NEW t \in Transfers, NEW x, TransferOK(x),
         \A u \in Transfers : transfers'[u] = IF u = t THEN x ELSE transfers[u],
         NEW status, NEW w, NEW p \in Products
  PROVE  /\ HeldIn(transfers, status, w, p) \in Int
         /\ HeldIn(transfers', status, w, p) =
              HeldIn(transfers, status, w, p)
                - Hold(transfers[t], status, w, p) + Hold(x, status, w, p)
<1>1. PICK f : f = [u \in Transfers |-> Hold(transfers[u], status, w, p)]
  OBVIOUS
<1>2. PICK g : g = [u \in Transfers |-> Hold(transfers'[u], status, w, p)]
  OBVIOUS
<1>3. /\ \A u \in Transfers : TransferOK(transfers[u])
      /\ \A u \in Transfers : TransferOK(transfers'[u])
  BY DEF TypeOK
<1>4. SumFunctionOnSet(f, Transfers) = HeldIn(transfers, status, w, p)
  BY <1>1, <1>3, HeldIsTotal
<1>5. SumFunctionOnSet(g, Transfers) = HeldIn(transfers', status, w, p)
  BY <1>2, <1>3, HeldIsTotal
<1>6. /\ IsFiniteSet(Transfers)
      /\ \A u \in Transfers : f[u] \in Int /\ g[u] \in Int
      /\ \A u \in Transfers \ {t} : g[u] = f[u]
      /\ f[t] = Hold(transfers[t], status, w, p)
      /\ g[t] = Hold(x, status, w, p)
  BY <1>1, <1>2, <1>3, HoldType, CompanyAssumption DEF TypeOK
<1>7. SumFunctionOnSet(g, Transfers) = SumFunctionOnSet(f, Transfers) - f[t] + g[t]
  BY <1>6, SumChange
<1>8. SumFunctionOnSet(f, Transfers) \in Int
  BY <1>6, SumInt
<1> QED
  BY <1>4, <1>5, <1>6, <1>7, <1>8

Projections == ReservationProjection /\ TransitProjection

(* The buckets give back what a transfer held and take what it holds now.  *)
BucketsFollow(old, new) == \A w \in Warehouses, p \in Products :
  /\ reserved'[w][p] = reserved[w][p] - Hold(old, "pending", w, p) + Hold(new, "pending", w, p)
  /\ inTransit'[w][p] = inTransit[w][p] - Hold(old, "in_transit", w, p)
                                        + Hold(new, "in_transit", w, p)

(* A command that writes transfer t and moves the two buckets by what that *)
(* changes keeps both projections.                                         *)
LEMMA HeldMoves ==
  ASSUME TypeOK, Projections, NEW t \in Transfers, NEW x, TransferOK(x),
         transfers' = [transfers EXCEPT ![t] = x],
         BucketsFollow(transfers[t], x)
  PROVE  Projections'
<1> SUFFICES ASSUME NEW w \in Warehouses, NEW p \in Products
             PROVE  /\ reserved'[w][p] = HeldIn(transfers', "pending", w, p)
                    /\ inTransit'[w][p] = HeldIn(transfers', "in_transit", w, p)
  BY DEF Projections, ReservationProjection, TransitProjection, HeldBy, HeldIn, Holding
<1>1. /\ reserved[w][p] = HeldIn(transfers, "pending", w, p)
      /\ inTransit[w][p] = HeldIn(transfers, "in_transit", w, p)
  BY HeldNowAndThen DEF Projections, ReservationProjection, TransitProjection
<1>2. \A u \in Transfers : transfers'[u] = IF u = t THEN x ELSE transfers[u]
  BY DEF TypeOK
<1>3. ASSUME NEW status
      PROVE  /\ HeldIn(transfers, status, w, p) \in Int
             /\ HeldIn(transfers', status, w, p) =
                  HeldIn(transfers, status, w, p)
                    - Hold(transfers[t], status, w, p) + Hold(x, status, w, p)
  BY <1>2, HeldChange
<1> QED
  BY <1>1, <1>3 DEF BucketsFollow

(* Buckets and rows change together in each of the four commands.          *)
LEMMA TransferKeepsProjections ==
  ASSUME TypeOK, Projections, TransferSteps
  PROVE  Projections'
<1>1. ASSUME NEW t \in Transfers, NEW from \in Warehouses, NEW to \in Warehouses,
             NEW q \in Quantities, CreateTransfer(t, from, to, q)
      PROVE  Projections'
  <2>1. PICK x : x = [status |-> "pending", from |-> from, to |-> to, lines |-> q]
    OBVIOUS
  <2>2. TransferOK(x) /\ transfers' = [transfers EXCEPT ![t] = x]
    BY <1>1, <2>1 DEF CreateTransfer, TransferOK, TransferRow
  <2>3. ASSUME NEW w \in Warehouses, NEW p \in Products
        PROVE  /\ reserved'[w][p] = reserved[w][p] - Hold(transfers[t], "pending", w, p)
                                    + Hold(x, "pending", w, p)
               /\ inTransit'[w][p] = inTransit[w][p] - Hold(transfers[t], "in_transit", w, p)
                                     + Hold(x, "in_transit", w, p)
    <3>1. /\ Hold(transfers[t], "pending", w, p) = 0
          /\ Hold(transfers[t], "in_transit", w, p) = 0
          /\ Hold(x, "pending", w, p) = IF w = from THEN q[p] ELSE 0
          /\ Hold(x, "in_transit", w, p) = 0
      BY <1>1, <2>1 DEF CreateTransfer, Hold
    <3>2. /\ reserved'[w][p] = IF w = from THEN reserved[w][p] + q[p] ELSE reserved[w][p]
          /\ inTransit'[w][p] = inTransit[w][p]
      BY <1>1, PlusAt, Buckets DEF CreateTransfer
    <3>3. q[p] \in Nat
      BY InventoryAssumption DEF Quantities
    <3> QED
      BY <3>1, <3>2, <3>3, Buckets
  <2> QED
    BY <2>2, <2>3, HeldMoves DEF BucketsFollow
<1>2. ASSUME NEW t \in Transfers, NEW s \in {"in_transit", "completed", "cancelled"},
             transfers[t].status # "none", transfers' = [transfers EXCEPT ![t].status = s],
             \A w \in Warehouses, p \in Products :
               LET old == transfers[t].status
                   q == IF w = transfers[t].from THEN transfers[t].lines[p] ELSE 0
               IN  /\ reserved'[w][p] = IF old = "pending" THEN reserved[w][p] - q
                                                           ELSE reserved[w][p]
                   /\ inTransit'[w][p] = inTransit[w][p] - (IF old = "in_transit" THEN q ELSE 0)
                                                         + (IF s = "in_transit" THEN q ELSE 0)
      PROVE  Projections'
  <2>1. PICK x : x = [transfers[t] EXCEPT !.status = s]
    OBVIOUS
  <2>2. TransferOK(transfers[t]) /\ DOMAIN transfers = Transfers
    BY DEF TypeOK
  <2>3. /\ x.status = s /\ x.from = transfers[t].from /\ x.lines = transfers[t].lines
        /\ TransferOK(x)
    BY <1>2, <2>1, <2>2 DEF TransferOK, TransferRow
  <2>4. transfers' = [transfers EXCEPT ![t] = x]
    BY <1>2, <2>1, <2>2
  <2>5. ASSUME NEW w \in Warehouses, NEW p \in Products
        PROVE  /\ reserved'[w][p] = reserved[w][p] - Hold(transfers[t], "pending", w, p)
                                    + Hold(x, "pending", w, p)
               /\ inTransit'[w][p] = inTransit[w][p] - Hold(transfers[t], "in_transit", w, p)
                                     + Hold(x, "in_transit", w, p)
    <3>1. PICK q : q = IF w = transfers[t].from THEN transfers[t].lines[p] ELSE 0
      OBVIOUS
    <3>2. q \in Int /\ reserved[w][p] \in Int /\ inTransit[w][p] \in Int
      BY <1>2, <3>1, TransferFields, Buckets
    <3>3. /\ Hold(transfers[t], "pending", w, p) = IF transfers[t].status = "pending" THEN q ELSE 0
          /\ Hold(transfers[t], "in_transit", w, p) =
               IF transfers[t].status = "in_transit" THEN q ELSE 0
          /\ Hold(x, "pending", w, p) = 0
          /\ Hold(x, "in_transit", w, p) = IF s = "in_transit" THEN q ELSE 0
      BY <2>3, <3>1 DEF Hold
    <3>4. /\ reserved'[w][p] = IF transfers[t].status = "pending" THEN reserved[w][p] - q
                                                                  ELSE reserved[w][p]
          /\ inTransit'[w][p] =
               inTransit[w][p] - (IF transfers[t].status = "in_transit" THEN q ELSE 0)
                               + (IF s = "in_transit" THEN q ELSE 0)
      BY <1>2, <3>1
    <3> QED
      BY <3>2, <3>3, <3>4
  <2> QED
    BY <2>3, <2>4, <2>5, HeldMoves DEF BucketsFollow
<1>3. ASSUME NEW t \in Transfers, DispatchTransfer(t)
      PROVE  Projections'
  <2>1. /\ transfers[t].status = "pending"
        /\ transfers' = [transfers EXCEPT ![t].status = "in_transit"]
        /\ reserved' = Minus(reserved, transfers[t].from, transfers[t].lines)
        /\ inTransit' = Plus(inTransit, transfers[t].from, transfers[t].lines)
    BY <1>3 DEF DispatchTransfer
  <2>2. transfers[t].from \in Warehouses /\ DOMAIN inTransit = Warehouses
    BY <2>1, TransferFields DEF TypeOK
  <2>3. ASSUME NEW w \in Warehouses, NEW p \in Products
        PROVE  LET q == IF w = transfers[t].from THEN transfers[t].lines[p] ELSE 0
               IN  /\ reserved'[w][p] = reserved[w][p] - q
                   /\ inTransit'[w][p] = inTransit[w][p] - 0 + q
    <3>1. /\ reserved[w][p] \in Int /\ inTransit[w][p] \in Int
          /\ transfers[t].lines[p] \in Int
      BY <2>1, TransferFields, Buckets
    <3>2. /\ reserved'[w][p] = IF w = transfers[t].from THEN reserved[w][p] - transfers[t].lines[p]
                                                        ELSE reserved[w][p]
          /\ inTransit'[w][p] = IF w = transfers[t].from THEN inTransit[w][p] + transfers[t].lines[p]
                                                         ELSE inTransit[w][p]
      BY <2>1, <2>2, PlusAt, MinusAt, Buckets
    <3> QED
      BY <3>1, <3>2
  <2> QED
    BY <1>2, <2>1, <2>3
<1>4. ASSUME NEW t \in Transfers, ReceiveTransfer(t)
      PROVE  Projections'
  <2>1. /\ transfers[t].status = "in_transit"
        /\ transfers' = [transfers EXCEPT ![t].status = "completed"]
        /\ reserved' = reserved
        /\ inTransit' = Minus(inTransit, transfers[t].from, transfers[t].lines)
    BY <1>4 DEF ReceiveTransfer, Receivable
  <2>2. transfers[t].from \in Warehouses /\ DOMAIN inTransit = Warehouses
    BY <2>1, TransferFields DEF TypeOK
  <2>3. ASSUME NEW w \in Warehouses, NEW p \in Products
        PROVE  LET q == IF w = transfers[t].from THEN transfers[t].lines[p] ELSE 0
               IN  /\ reserved'[w][p] = reserved[w][p]
                   /\ inTransit'[w][p] = inTransit[w][p] - q + 0
    <3>1. inTransit[w][p] \in Int /\ transfers[t].lines[p] \in Int
      BY <2>1, TransferFields, Buckets
    <3>2. inTransit'[w][p] = IF w = transfers[t].from THEN inTransit[w][p] - transfers[t].lines[p]
                                                      ELSE inTransit[w][p]
      BY <2>1, <2>2, MinusAt
    <3> QED
      BY <2>1, <3>1, <3>2
  <2> QED
    BY <1>2, <2>1, <2>3
<1>5. ASSUME NEW t \in Transfers, CancelTransfer(t)
      PROVE  Projections'
  <2>1. /\ transfers[t].status = "pending"
        /\ transfers' = [transfers EXCEPT ![t].status = "cancelled"]
        /\ reserved' = Minus(reserved, transfers[t].from, transfers[t].lines)
        /\ inTransit' = inTransit
    BY <1>5 DEF CancelTransfer, Cancellable
  <2>2. transfers[t].from \in Warehouses
    BY <2>1, TransferFields
  <2>3. ASSUME NEW w \in Warehouses, NEW p \in Products
        PROVE  LET q == IF w = transfers[t].from THEN transfers[t].lines[p] ELSE 0
               IN  /\ reserved'[w][p] = reserved[w][p] - q
                   /\ inTransit'[w][p] = inTransit[w][p] - 0 + 0
    <3>1. /\ reserved[w][p] \in Int /\ inTransit[w][p] \in Int
          /\ transfers[t].lines[p] \in Int
      BY <2>1, TransferFields, Buckets
    <3>2. reserved'[w][p] = IF w = transfers[t].from THEN reserved[w][p] - transfers[t].lines[p]
                                                     ELSE reserved[w][p]
      BY <2>1, <2>2, MinusAt, Buckets
    <3> QED
      BY <2>1, <3>1, <3>2
  <2> QED
    BY <1>2, <2>1, <2>3
<1> QED
  BY <1>1, <1>3, <1>4, <1>5 DEF TransferSteps

(* No other document writes a transfer or either bucket.                   *)
LEMMA OnlyTransfersHold ==
  ASSUME [Next]_vars, ~ TransferSteps
  PROVE  UNCHANGED <<reserved, inTransit, transfers>>
<1>1. CASE OtherDocuments
  BY <1>1 DEF OtherDocuments, PostOnHand, PostDamagedReturn
<1>2. CASE AdjustmentSteps
  BY <1>2 DEF AdjustmentSteps, PostAdjustment, RequestAdjustment, PostApprovedAdjustment,
              CancelAdjustment, Adjust, stock
<1>3. CASE CountSteps
  BY <1>3 DEF CountSteps, CreateCount, CreateAndPostCount, StartCount, SaveCount, ReviewCount,
              ReopenCount, CancelCount, PostCount, ApplyCount, stock
<1>4. CASE ApprovalSteps
  BY <1>4 DEF ApprovalSteps, AskApproval, FileAsked, ResolveApproval, stock
<1>5. CASE UNCHANGED vars
  BY <1>5 DEF vars, stock
<1> QED
  BY <1>1, <1>2, <1>3, <1>4, <1>5 DEF Next

LEMMA InitProjections == Init => Projections
<1> SUFFICES ASSUME Init, NEW w \in Warehouses, NEW p \in Products, NEW status \in {"pending", "in_transit"}
             PROVE  /\ reserved[w][p] = 0 /\ inTransit[w][p] = 0
                    /\ HeldBy(status, w, p) = 0
  BY DEF Projections, ReservationProjection, TransitProjection
<1>1. {u \in Transfers : transfers[u].status = status /\ transfers[u].from = w} = {}
  BY DEF Init, NoTransfer
<1>2. HeldBy(status, w, p) = 0
  BY <1>1, SumEmpty DEF HeldBy, SumFunction
<1> QED
  BY <1>2 DEF Init

LEMMA ProjectionsHold == Spec => []Projections
<1>1. TypeOK /\ Projections /\ [Next]_vars => Projections'
  <2> SUFFICES ASSUME TypeOK, Projections, [Next]_vars
               PROVE  Projections'
    OBVIOUS
  <2>1. CASE TransferSteps
    BY <2>1, TransferKeepsProjections
  <2>2. CASE ~ TransferSteps
    <3>1. UNCHANGED <<reserved, inTransit, transfers>>
      BY <2>2, OnlyTransfersHold
    <3> QED
      BY <3>1 DEF Projections, ReservationProjection, TransitProjection, HeldBy
  <2> QED
    BY <2>1, <2>2
<1> QED
  BY <1>1, InitProjections, TypedRequests, PTL DEF Spec

(* What is reserved of a product is the sum of the transfers that wait to  *)
(* be dispatched, whatever is created, shipped, cancelled, counted or      *)
(* adjusted in between (createTransfer, dispatchTransfer, cancelTransfer). *)
THEOREM ReservationsAddUp == Spec => []ReservationProjection
BY ProjectionsHold, PTL DEF Projections

(* What a warehouse has on the road is the sum of its transfers that have  *)
(* been dispatched and not received: receiveTransfer always finds what it  *)
(* is to deliver.                                                          *)
THEOREM TransitAddsUp == Spec => []TransitProjection
BY ProjectionsHold, PTL DEF Projections

-----------------------------------------------------------------------------
(* Only CreateCount opens a count; every other step keeps the scope and    *)
(* the snapshot of the counts it leaves open.                              *)
ScopeKept == \A c \in Counts : Open(c)' =>
  /\ Open(c)
  /\ counts'[c].warehouse = counts[c].warehouse
  /\ counts'[c].products = counts[c].products
  /\ counts'[c].policy = counts[c].policy
  /\ counts'[c].expected = counts[c].expected

LEMMA ScopeFrame ==
  ASSUME OneOpenCount, ScopeKept
  PROVE  OneOpenCount'
BY DEF OneOpenCount, ScopeKept

LEMMA SnapshotFrame ==
  ASSUME TypeOK, SnapshotIsCurrent, ScopeKept,
         \A c \in Counts, p \in Products :
           Open(c)' /\ counts[c].policy = "block" /\ p \in counts[c].products
             => onHand'[counts[c].warehouse][p] = onHand[counts[c].warehouse][p]
  PROVE  SnapshotIsCurrent'
<1> SUFFICES ASSUME NEW c \in Counts, NEW w \in Warehouses, NEW p \in Products, Open(c)',
                    counts'[c].policy = "block", counts'[c].warehouse = w, p \in counts'[c].products
             PROVE  counts'[c].expected[p] = onHand'[w][p]
  BY DEF SnapshotIsCurrent
<1>1. /\ Open(c)
      /\ counts'[c].warehouse = counts[c].warehouse
      /\ counts'[c].products = counts[c].products
      /\ counts'[c].policy = counts[c].policy
      /\ counts'[c].expected = counts[c].expected
  BY DEF ScopeKept
<1>2. onHand'[w][p] = onHand[w][p]
  BY <1>1
<1> QED
  BY <1>1, <1>2 DEF SnapshotIsCurrent

(* An open 'block' count stops every document at its warehouse that would  *)
(* move one of its products.                                               *)
LEMMA FrozenStays ==
  ASSUME TypeOK, NEW w \in Warehouses, NEW d \in [Products -> Int],
         \A p \in Lines(d) : ~ Frozen(w, p),
         NEW c \in Counts, Open(c), counts[c].policy = "block",
         NEW p \in Products, p \in counts[c].products
  PROVE  Plus(onHand, w, d)[counts[c].warehouse][p] = onHand[counts[c].warehouse][p]
<1>1. counts[c].warehouse \in Warehouses
  BY DEF TypeOK, CountOK, Open, OpenStatus
<1>2. w = counts[c].warehouse => d[p] = 0
  BY DEF Frozen, Blocks, Open, Lines
<1> QED
  BY <1>1, <1>2, PlusAt, Buckets

LEMMA MoveKeepsSnapshots ==
  ASSUME TypeOK, SnapshotIsCurrent, UNCHANGED counts,
         NEW w \in Warehouses, NEW d \in [Products -> Int],
         \A p \in Lines(d) : ~ Frozen(w, p), onHand' = Plus(onHand, w, d)
  PROVE  SnapshotIsCurrent'
<1>1. ScopeKept
  BY DEF ScopeKept, Open
<1> QED
  BY <1>1, SnapshotFrame, FrozenStays DEF Open

(* A transfer that leaves moves the opposite of its lines.                 *)
LEMMA MinusIsPlus ==
  ASSUME TypeOK, NEW w \in Warehouses, NEW q, \A p \in Products : q[p] \in Nat
  PROVE  LET d == [p \in Products |-> - q[p]]
         IN  /\ d \in [Products -> Int]
             /\ Minus(onHand, w, q) = Plus(onHand, w, d)
             /\ Lines(d) = Lines(q)
<1> DEFINE d == [p \in Products |-> - q[p]]
<1>1. d \in [Products -> Int]
  OBVIOUS
<1>2. Minus(onHand, w, q) = Plus(onHand, w, d)
  BY Buckets DEF Minus, Plus
<1>3. Lines(d) = Lines(q)
  BY DEF Lines
<1> QED
  BY <1>1, <1>2, <1>3

LEMMA TransferKeepsSnapshots ==
  ASSUME TypeOK, SnapshotIsCurrent, TransferSteps
  PROVE  SnapshotIsCurrent'
<1>1. CASE UNCHANGED <<onHand, counts>>
  BY <1>1 DEF SnapshotIsCurrent, Open
<1>2. ASSUME NEW t \in Transfers, DispatchTransfer(t)
      PROVE  SnapshotIsCurrent'
  <2> DEFINE from == transfers[t].from
             q == transfers[t].lines
             d == [p \in Products |-> - q[p]]
  <2>1. from \in Warehouses /\ \A p \in Products : q[p] \in Nat
    BY <1>2, TransferFields DEF DispatchTransfer
  <2>2. /\ UNCHANGED counts
        /\ onHand' = Minus(onHand, from, q)
        /\ \A p \in Lines(q) : ~ Frozen(from, p)
    BY <1>2 DEF DispatchTransfer
  <2> HIDE DEF from, q
  <2>3. d \in [Products -> Int] /\ Minus(onHand, from, q) = Plus(onHand, from, d) /\ Lines(d) = Lines(q)
    BY <2>1, MinusIsPlus
  <2> HIDE DEF d
  <2> QED
    BY <2>1, <2>2, <2>3, MoveKeepsSnapshots
<1>3. ASSUME NEW t \in Transfers, ReceiveTransfer(t)
      PROVE  SnapshotIsCurrent'
  <2> DEFINE to == transfers[t].to
             q == transfers[t].lines
  <2>1. to \in Warehouses /\ q \in Quantities
    BY <1>3, TransferFields DEF ReceiveTransfer, Receivable
  <2>2. q \in [Products -> Int]
    BY <2>1, InventoryAssumption DEF Quantities
  <2>3. /\ UNCHANGED counts
        /\ onHand' = Plus(onHand, to, q)
        /\ \A p \in Lines(q) : ~ Frozen(to, p)
    BY <1>3 DEF ReceiveTransfer
  <2> HIDE DEF to, q
  <2> QED
    BY <2>1, <2>2, <2>3, MoveKeepsSnapshots
<1> QED
  BY <1>1, <1>2, <1>3 DEF TransferSteps, CreateTransfer, CancelTransfer

(* Posting a count changes what is on hand of its own products only, and   *)
(* no other open count covers them.                                        *)
LEMMA ApplyCountKeepsCounts ==
  ASSUME TypeOK, OneOpenCount, SnapshotIsCurrent, NEW c \in Counts, NEW x,
         CountOK(x), x.status # "none", ApplyCount(c, x),
         \A d \in Counts : d # c /\ Open(d) /\ counts[d].warehouse = x.warehouse
                             => counts[d].products \cap x.products = {}
  PROVE  OneOpenCount' /\ SnapshotIsCurrent'
<1>1. /\ counts' = [counts EXCEPT ![c] = [x EXCEPT !.status = "posted"]]
      /\ onHand' = Plus(onHand, x.warehouse, Variance(x))
  BY DEF ApplyCount
<1>2. counts'[c].status = "posted"
  BY <1>1 DEF TypeOK, CountOK, CountRow
<1>3. \A d \in Counts : d # c => counts'[d] = counts[d]
  BY <1>1 DEF TypeOK
<1>4. ScopeKept
  BY <1>2, <1>3 DEF ScopeKept, Open, OpenStatus
<1>5. ASSUME NEW d \in Counts, NEW p \in Products, Open(d)', p \in counts[d].products
      PROVE  onHand'[counts[d].warehouse][p] = onHand[counts[d].warehouse][p]
  <2>1. d # c /\ Open(d)
    BY <1>2, <1>3, <1>5 DEF Open, OpenStatus
  <2>2. counts[d].warehouse \in Warehouses /\ x.warehouse \in Warehouses
    BY <2>1 DEF TypeOK, CountOK, Open, OpenStatus
  <2>3. counts[d].warehouse = x.warehouse => p \notin x.products
    BY <1>5, <2>1
  <2>4. counts[d].warehouse = x.warehouse => Variance(x)[p] = 0
    BY <2>3 DEF Variance
  <2> DEFINE v == Variance(x)
  <2>5. onHand' = Plus(onHand, x.warehouse, v)
    BY <1>1
  <2> HIDE DEF v
  <2>6. onHand'[counts[d].warehouse][p] =
          IF counts[d].warehouse = x.warehouse THEN onHand[counts[d].warehouse][p] + v[p]
                                               ELSE onHand[counts[d].warehouse][p]
    BY <2>2, <2>5, PlusAt, Buckets
  <2> QED
    BY <2>2, <2>4, <2>6, Buckets DEF v
<1> QED
  BY <1>4, <1>5, ScopeFrame, SnapshotFrame

LEMMA CreateCountKeepsCounts ==
  ASSUME TypeOK, OneOpenCount, SnapshotIsCurrent, NEW c \in Counts, NEW w \in Warehouses,
         NEW P \in SUBSET Products, NEW policy, NEW counted, NEW strict,
         CreateCount(c, w, P, policy, counted, strict)
  PROVE  OneOpenCount' /\ SnapshotIsCurrent'
<1>1. /\ counts'[c].warehouse = w
      /\ counts'[c].products = P
      /\ counts'[c].expected = Snapshot(w, P)
      /\ UNCHANGED onHand
  BY DEF TypeOK, CreateCount, NewCount, stock
<1>2. \A d \in Counts : d # c => counts'[d] = counts[d]
  BY DEF TypeOK, CreateCount
<1>3. \A d \in Counts : Open(d) /\ counts[d].warehouse = w => counts[d].products \cap P = {}
  BY DEF CreateCount, Overlaps
<1>4. OneOpenCount'
  <2> SUFFICES ASSUME NEW d \in Counts, NEW e \in Counts, d # e, Open(d)', Open(e)',
                      counts'[d].warehouse = counts'[e].warehouse
               PROVE  counts'[d].products \cap counts'[e].products = {}
    BY DEF OneOpenCount
  <2>1. CASE d = c
    BY <1>1, <1>2, <1>3, <2>1 DEF Open
  <2>2. CASE e = c
    BY <1>1, <1>2, <1>3, <2>2 DEF Open
  <2>3. CASE d # c /\ e # c
    BY <1>2, <2>3 DEF OneOpenCount, Open
  <2> QED
    BY <2>1, <2>2, <2>3
<1>5. SnapshotIsCurrent'
  BY <1>1, <1>2 DEF SnapshotIsCurrent, Snapshot, Open
<1> QED
  BY <1>4, <1>5

CountInv == OneOpenCount /\ SnapshotIsCurrent

LEMMA CountStep == TypeOK /\ RequestInv /\ CountInv /\ [Next]_vars => CountInv'
<1> SUFFICES ASSUME TypeOK, RequestInv, CountInv, [Next]_vars
             PROVE  CountInv'
  OBVIOUS
<1> USE DEF CountInv
<1>1. CASE UNCHANGED <<onHand, counts>>
  BY <1>1 DEF OneOpenCount, SnapshotIsCurrent, Open
<1>2. UNCHANGED counts => OneOpenCount'
  BY DEF OneOpenCount, Open
<1>3. CASE OtherDocuments
  <2>1. ASSUME NEW w \in Warehouses, NEW d \in Deltas, PostOnHand(w, d)
        PROVE  CountInv'
    <3>1. d \in [Products -> Int]
      BY InventoryAssumption DEF Deltas
    <3> QED
      BY <1>2, <2>1, <3>1, MoveKeepsSnapshots DEF PostOnHand, CanMove
  <2> QED
    BY <1>1, <1>3, <2>1 DEF OtherDocuments, PostDamagedReturn
<1>4. CASE TransferSteps
  <2>1. UNCHANGED counts
    BY <1>4 DEF TransferSteps, CreateTransfer, DispatchTransfer, ReceiveTransfer, CancelTransfer
  <2> QED
    BY <1>2, <1>4, <2>1, TransferKeepsSnapshots
<1>5. CASE AdjustmentSteps
  <2>1. ASSUME NEW x \in Payload, x.warehouse \in Warehouses, Adjust(x), UNCHANGED counts
        PROVE  CountInv'
    <3>1. x.deltas \in [Products -> Int]
      BY InventoryAssumption DEF Payload, Deltas
    <3> QED
      BY <1>2, <2>1, <3>1, MoveKeepsSnapshots DEF Adjust, CanAdjust, CanMove
  <2>2. ASSUME NEW a \in Adjustments, PostApprovedAdjustment(a)
        PROVE  CountInv'
    <3> DEFINE r == adjustments[a].approval
    <3>1. r \in Approvals /\ approvals[r].payload.warehouse \in Warehouses
      BY <2>2 DEF PostApprovedAdjustment, RequestInv, RequestKept
    <3>2. approvals[r].payload \in Payload
      BY <3>1 DEF TypeOK, ApprovalRow
    <3> QED
      BY <2>1, <2>2, <3>1, <3>2 DEF PostApprovedAdjustment
  <2> QED
    BY <1>1, <1>5, <2>1, <2>2
       DEF AdjustmentSteps, PostAdjustment, ValidAdjustment, RequestAdjustment, CancelAdjustment, stock
<1>6. CASE CountSteps
  <2>1. ASSUME NEW c \in Counts, PostCount(c)
        PROVE  CountInv'
    <3>1. Open(c) /\ CountOK(counts[c]) /\ counts[c].status # "none"
      BY <2>1 DEF PostCount, Open, OpenStatus, TypeOK
    <3>2. \A d \in Counts : d # c /\ Open(d) /\ counts[d].warehouse = counts[c].warehouse
                              => counts[d].products \cap counts[c].products = {}
      BY <3>1 DEF OneOpenCount
    <3> QED
      BY <2>1, <3>1, <3>2, ApplyCountKeepsCounts DEF PostCount
  <2>2. ASSUME NEW c \in Counts, NEW w \in Warehouses, NEW P \in SUBSET Products,
               NEW policy \in Policies, NEW counted \in CountedLines(P),
               NEW strict \in SUBSET (P \cap StrictLines),
               CreateAndPostCount(c, w, P, policy, counted, strict)
        PROVE  CountInv'
    <3> DEFINE row == NewCount("reviewed", w, P, policy, counted, strict)
    <3>1. CountOK(row) /\ row.status # "none" /\ row.warehouse = w /\ row.products = P
      BY NewCountOK DEF OpenStatus, NewCount
    <3>2. ApplyCount(c, row) /\ ~ Overlaps(w, P)
      BY <2>2 DEF CreateAndPostCount
    <3>3. \A d \in Counts : d # c /\ Open(d) /\ counts[d].warehouse = row.warehouse
                              => counts[d].products \cap row.products = {}
      BY <3>1, <3>2 DEF Overlaps
    <3> HIDE DEF row
    <3> QED
      BY <3>1, <3>2, <3>3, ApplyCountKeepsCounts
  <2>3. ASSUME NEW c \in Counts, NEW u, NEW P, NEW counted, NEW strict,
               \/ StartCount(c)
               \/ SaveCount(c, P, counted, strict)
               \/ ReviewCount(u, c)
               \/ ReopenCount(c)
               \/ CancelCount(c)
        PROVE  CountInv'
    <3>1. UNCHANGED onHand
      BY <2>3 DEF StartCount, SaveCount, ReviewCount, ReopenCount, CancelCount, stock
    <3>2. \A d \in Counts : d # c => counts'[d] = counts[d]
      BY <2>3 DEF TypeOK, StartCount, SaveCount, ReviewCount, ReopenCount, CancelCount
    <3>3. /\ Open(c)
          /\ counts'[c].warehouse = counts[c].warehouse
          /\ counts'[c].products = counts[c].products
          /\ counts'[c].policy = counts[c].policy
          /\ counts'[c].expected = counts[c].expected
      BY <2>3 DEF TypeOK, CountOK, CountRow, Open, OpenStatus,
                  StartCount, SaveCount, ReviewCount, ReopenCount, CancelCount
    <3>4. ScopeKept
      BY <3>2, <3>3 DEF ScopeKept, Open
    <3> QED
      BY <3>1, <3>4, ScopeFrame, SnapshotFrame
  <2> QED
    BY <1>6, <2>1, <2>2, <2>3, CreateCountKeepsCounts DEF CountSteps
<1>7. CASE ApprovalSteps
  BY <1>1, <1>7 DEF ApprovalSteps, AskApproval, FileAsked, ResolveApproval, stock
<1>8. CASE UNCHANGED vars
  BY <1>1, <1>8 DEF vars, stock
<1> QED
  BY <1>3, <1>4, <1>5, <1>6, <1>7, <1>8 DEF Next

LEMMA CountsInvariant == Spec => []CountInv
<1>1. Init => CountInv
  BY DEF Init, CountInv, OneOpenCount, SnapshotIsCurrent, Open, OpenStatus, NoCount
<1> QED
  BY <1>1, CountStep, TypedRequests, PTL DEF Spec

(* createStockCount lets at most one open count cover a product of a       *)
(* warehouse.                                                              *)
THEOREM CountsDoNotOverlap == Spec => []OneOpenCount
BY CountsInvariant, PTL DEF CountInv

(* While a 'block' count is open nothing moves its products, so its        *)
(* snapshot stays what is on hand.                                         *)
THEOREM SnapshotsStayCurrent == Spec => []SnapshotIsCurrent
BY CountsInvariant, PTL DEF CountInv

LEMMA PostedAsCountedStep ==
  ASSUME TypeOK, SnapshotIsCurrent, [Next]_vars, NEW c \in Counts,
         counts[c].policy = "block", counts[c].status = "reviewed", counts'[c].status = "posted",
         NEW p \in counts[c].products
  PROVE  onHand'[counts[c].warehouse][p] = counts[c].counted[p]
<1>1. PostCount(c)
  <2>1. ASSUME NEW d \in Counts, PostCount(d)
        PROVE  d = c
    BY <2>1 DEF TypeOK, PostCount, ApplyCount
  <2>2. ASSUME NEW d \in Counts, NEW w, NEW P, NEW policy, NEW counted, NEW strict,
               CreateCount(d, w, P, policy, counted, strict)
                 \/ CreateAndPostCount(d, w, P, policy, counted, strict)
        PROVE  FALSE
    <3>1. d # c
      BY <2>2 DEF CreateCount, CreateAndPostCount
    <3>2. counts'[c] = counts[c]
      BY <2>2, <3>1 DEF TypeOK, CreateCount, CreateAndPostCount, ApplyCount
    <3> QED
      BY <3>2
  <2>3. ASSUME NEW d \in Counts, NEW u, NEW P, NEW counted, NEW strict,
               \/ StartCount(d)
               \/ SaveCount(d, P, counted, strict)
               \/ ReviewCount(u, d)
               \/ ReopenCount(d)
               \/ CancelCount(d)
        PROVE  FALSE
    BY <2>3 DEF TypeOK, CountOK, CountRow, StartCount, SaveCount, ReviewCount, ReopenCount, CancelCount
  <2>4. counts' # counts
    OBVIOUS
  <2>5. CountSteps
    BY <2>4 DEF Next, vars, OtherDocuments, PostOnHand, PostDamagedReturn, TransferSteps,
                CreateTransfer, DispatchTransfer, ReceiveTransfer, CancelTransfer,
                AdjustmentSteps, PostAdjustment, RequestAdjustment, PostApprovedAdjustment,
                CancelAdjustment, ApprovalSteps, AskApproval, FileAsked, ResolveApproval
  <2> QED
    BY <2>1, <2>2, <2>3, <2>5 DEF CountSteps
<1> DEFINE w == counts[c].warehouse
           v == Variance(counts[c])
<1>2. /\ CountOK(counts[c]) /\ Open(c) /\ AllCounted(counts[c])
      /\ onHand' = Plus(onHand, w, v)
  BY <1>1 DEF TypeOK, Open, OpenStatus, PostCount, ApplyCount, CanPostCount
<1>3. w \in Warehouses /\ p \in Products
  BY <1>2 DEF CountOK, CountRow, Open, OpenStatus
<1>4. onHand[w][p] = counts[c].expected[p]
  BY <1>2, <1>3 DEF SnapshotIsCurrent
<1>5. /\ counts[c].expected[p] \in Nat /\ counts[c].counted[p] \in Nat
      /\ v[p] = counts[c].counted[p] - counts[c].expected[p]
  BY <1>2, <1>3 DEF CountOK, CountRow, AllCounted, Variance
<1> HIDE DEF v
<1>6. onHand'[w][p] = onHand[w][p] + v[p]
  BY <1>2, <1>3, PlusAt, Buckets
<1> HIDE DEF w
<1>7. onHand'[w][p] = counts[c].counted[p]
  BY <1>4, <1>5, <1>6
<1> QED
  BY <1>7 DEF w

(* So a count that froze its products leaves exactly what was counted on   *)
(* hand, whatever the other documents did while it was open.               *)
THEOREM CountsPostWhatWasCounted == Spec => PostedAsCounted
<1>1. TypeOK /\ CountInv /\ [Next]_vars =>
        [\A c \in Counts :
          /\ counts[c].policy = "block"
          /\ counts[c].status = "reviewed"
          /\ counts'[c].status = "posted"
          => \A p \in counts[c].products : onHand'[counts[c].warehouse][p] = counts[c].counted[p]]_vars
  BY PostedAsCountedStep DEF CountInv
<1> QED
  BY <1>1, CountsInvariant, TypedRequests, PTL DEF Spec, PostedAsCounted

-----------------------------------------------------------------------------
(* What a count's requests were filed for, when only ReviewCount files     *)
(* them: while a request of the count is pending or approved, the count is *)
(* reviewed or posted with the quantities the request was filed about.     *)
Reviewed(c) ==
  /\ \A r \in Approvals : approvals[r].ref = c /\ approvals[r].status \in {"pending", "approved"} =>
       /\ counts[c].status \in {"reviewed", "posted"}
       /\ approvals[r].seen = counts[c].counted
  /\ counts[c].status = "posted" /\ Disputed(counts[c]) # {} =>
       \E r \in Approvals : /\ approvals[r].ref = c
                            /\ ApprovedByAnother(r)
                            /\ approvals[r].seen = counts[c].counted

ReviewInv == \A c \in Counts : Reviewed(c)

(* Steps that leave the count and the requests about it alone, or answer   *)
(* one of them.                                                            *)
LEMMA ReviewFrame ==
  ASSUME NEW c \in Counts, Reviewed(c), counts'[c] = counts[c],
         \A r \in Approvals :
           \/ approvals'[r] = approvals[r]
           \/ approvals[r].ref # c /\ approvals'[r].ref # c
           \/ /\ approvals[r].status = "pending"
              /\ approvals'[r].ref = approvals[r].ref
              /\ approvals'[r].seen = approvals[r].seen
  PROVE  Reviewed(c)'
<1>1. ASSUME NEW r \in Approvals, approvals'[r].ref = c,
             approvals'[r].status \in {"pending", "approved"}
      PROVE  counts'[c].status \in {"reviewed", "posted"} /\ approvals'[r].seen = counts'[c].counted
  BY <1>1 DEF Reviewed
<1>2. ASSUME NEW r \in Approvals, approvals[r].ref = c, ApprovedByAnother(r)
      PROVE  approvals'[r] = approvals[r]
  BY <1>2 DEF ApprovedByAnother
<1>3. ASSUME counts[c].status = "posted", Disputed(counts[c]) # {}
      PROVE  \E r \in Approvals : /\ approvals'[r].ref = c
                                  /\ ApprovedByAnother(r)'
                                  /\ approvals'[r].seen = counts[c].counted
  <2>1. PICK r \in Approvals : /\ approvals[r].ref = c
                               /\ ApprovedByAnother(r)
                               /\ approvals[r].seen = counts[c].counted
    BY <1>3 DEF Reviewed
  <2> QED
    BY <1>2, <2>1 DEF ApprovedByAnother
<1>4. Disputed(counts'[c]) = Disputed(counts[c])
  OBVIOUS
<1> QED
  BY <1>1, <1>3, <1>4 DEF Reviewed

(* A request filed about something else.                                   *)
LEMMA FiledElsewhere ==
  ASSUME TypeOK, NEW c \in Counts, Reviewed(c), counts'[c] = counts[c],
         NEW r \in Approvals, NEW ref, ref # c, NEW u, NEW x, NEW y, File(r, ref, u, x, y)
  PROVE  Reviewed(c)'
<1>1. /\ \A s \in Approvals : s # r => approvals'[s] = approvals[s]
      /\ approvals[r].status = "none" /\ approvals'[r].ref # c /\ approvals'[r].status = "pending"
  BY DEF TypeOK, File
<1>2. ASSUME NEW s \in Approvals, approvals'[s].ref = c
      PROVE  approvals'[s] = approvals[s]
  BY <1>1, <1>2
<1>3. ASSUME NEW s \in Approvals, ApprovedByAnother(s)
      PROVE  approvals'[s] = approvals[s]
  BY <1>1, <1>3 DEF ApprovedByAnother
<1>4. ASSUME counts[c].status = "posted", Disputed(counts[c]) # {}
      PROVE  \E s \in Approvals : /\ approvals'[s].ref = c
                                  /\ ApprovedByAnother(s)'
                                  /\ approvals'[s].seen = counts[c].counted
  <2>1. PICK s \in Approvals : /\ approvals[s].ref = c
                               /\ ApprovedByAnother(s)
                               /\ approvals[s].seen = counts[c].counted
    BY <1>4 DEF Reviewed
  <2> QED
    BY <1>3, <2>1 DEF ApprovedByAnother
<1>5. Disputed(counts'[c]) = Disputed(counts[c])
  OBVIOUS
<1> QED
  BY <1>2, <1>4, <1>5 DEF Reviewed

(* Reopening and cancelling a count leave it no live request.              *)
LEMMA WithdrawnReviewed ==
  ASSUME TypeOK, NEW c \in Counts, NEW d \in Counts, Reviewed(d), approvals' = Withdrawn(c),
         NEW s \in {"counting", "cancelled"}, counts[c].status # "posted",
         counts' = [counts EXCEPT ![c].status = s]
  PROVE  Reviewed(d)'
<1>1. \A r \in Approvals : /\ approvals'[r].ref = approvals[r].ref
                           /\ approvals[r].ref # c => approvals'[r] = approvals[r]
                           /\ approvals'[r].ref = c => approvals'[r].status \notin {"pending", "approved"}
  BY DEF TypeOK, ApprovalRow, Withdrawn
<1>2. CASE d = c
  <2>1. counts'[d].status = s
    BY <1>2 DEF TypeOK, CountOK, CountRow
  <2> QED
    BY <1>1, <1>2, <2>1 DEF Reviewed
<1>3. CASE d # c
  <2>1. counts'[d] = counts[d]
    BY <1>3 DEF TypeOK
  <2> QED
    BY <1>1, <1>3, <2>1, ReviewFrame
<1> QED
  BY <1>2, <1>3

LEMMA ReviewCountReviewed ==
  ASSUME TypeOK, NEW u \in Users, NEW c \in Counts, ReviewCount(u, c), NEW d \in Counts, Reviewed(d)
  PROVE  Reviewed(d)'
<1>1. /\ counts[c].status = "counting"
      /\ counts' = [counts EXCEPT ![c].status = "reviewed"]
  BY DEF ReviewCount
<1>2. counts'[c].status = "reviewed" /\ counts'[c].counted = counts[c].counted
  BY <1>1 DEF TypeOK, CountOK, CountRow
<1>3. d # c => counts'[d] = counts[d]
  BY <1>1 DEF TypeOK
<1>4. CASE Disputed(counts[c]) = {}
  <2>1. UNCHANGED approvals
    BY <1>4 DEF ReviewCount
  <2>2. d = c => Reviewed(d)'
    BY <1>1, <1>2, <2>1 DEF Reviewed
  <2> QED
    BY <1>3, <2>1, <2>2, ReviewFrame
<1>5. CASE Disputed(counts[c]) # {}
  <2>1. PICK r \in Approvals : File(r, c, u, NoPayload, Seen(c))
    BY <1>5 DEF ReviewCount
  <2>2. /\ \A s \in Approvals : s # r => approvals'[s] = approvals[s]
        /\ approvals'[r].seen = counts[c].counted
    BY <2>1 DEF TypeOK, File, Seen
  <2>3. d = c => Reviewed(d)'
    BY <1>1, <1>2, <2>2 DEF Reviewed
  <2> QED
    BY <1>3, <2>1, <2>3, FiledElsewhere
<1> QED
  BY <1>4, <1>5

LEMMA PostCountReviewed ==
  ASSUME TypeOK, ApproverKnown, NEW c \in Counts, PostCount(c), NEW d \in Counts, Reviewed(d)
  PROVE  Reviewed(d)'
<1>1. /\ counts[c].status = "reviewed"
      /\ Disputed(counts[c]) # {} => Approved(c)
      /\ counts' = [counts EXCEPT ![c] = [counts[c] EXCEPT !.status = "posted"]]
      /\ UNCHANGED approvals
  BY DEF PostCount, ApplyCount
<1>2. CASE d = c
  <2>1. /\ counts'[c].status = "posted"
        /\ counts'[c].counted = counts[c].counted
        /\ counts'[c].expected = counts[c].expected
        /\ counts'[c].products = counts[c].products
        /\ counts'[c].strict = counts[c].strict
    BY <1>1 DEF TypeOK, CountOK, CountRow
  <2>2. Disputed(counts'[c]) = Disputed(counts[c])
    BY <2>1 DEF Disputed, Variance
  <2>3. ASSUME Disputed(counts[c]) # {}
        PROVE  \E r \in Approvals : /\ approvals[r].ref = c
                                    /\ ApprovedByAnother(r)
                                    /\ approvals[r].seen = counts[c].counted
    <3>1. PICK r \in Approvals : approvals[r].ref = c /\ Independent(r)
      BY <1>1, <2>3 DEF Approved
    <3> QED
      BY <1>2, <3>1 DEF Independent, ApprovedByAnother, ApproverKnown, Reviewed
  <2> QED
    BY <1>1, <1>2, <2>1, <2>2, <2>3 DEF Reviewed, ApprovedByAnother
<1>3. CASE d # c
  BY <1>1, <1>3, ReviewFrame DEF TypeOK
<1> QED
  BY <1>2, <1>3

(* A count created over a free id has no live request yet.                 *)
LEMMA NewCountReviewed ==
  ASSUME TypeOK, NEW c \in Counts, NEW w, NEW P, NEW policy, NEW counted, NEW strict,
         CreateCount(c, w, P, policy, counted, strict)
           \/ CreateAndPostCount(c, w, P, policy, counted, strict),
         NEW d \in Counts, Reviewed(d)
  PROVE  Reviewed(d)'
<1> DEFINE row == NewCount("reviewed", w, P, policy, counted, strict)
           draft == NewCount("draft", w, P, policy, counted, strict)
<1>1. counts[c].status = "none" /\ UNCHANGED approvals
  BY DEF CreateCount, CreateAndPostCount, ApplyCount
<1>2. CASE d # c
  <2>1. counts'[d] = counts[d]
    BY <1>2 DEF TypeOK, CreateCount, CreateAndPostCount, ApplyCount
  <2> QED
    BY <1>1, <2>1, ReviewFrame
<1>3. CASE d = c /\ CreateCount(c, w, P, policy, counted, strict)
  <2>1. counts'[c].status = "draft"
    BY <1>3 DEF TypeOK, CreateCount, NewCount
  <2> QED
    BY <1>1, <1>3, <2>1 DEF Reviewed
<1>4. CASE d = c /\ CreateAndPostCount(c, w, P, policy, counted, strict)
  <2>1. counts'[c] = [row EXCEPT !.status = "posted"] /\ Disputed(row) = {}
    BY <1>4 DEF TypeOK, CreateAndPostCount, ApplyCount
  <2>2. Disputed([row EXCEPT !.status = "posted"]) = Disputed(row)
    BY DEF Disputed, Variance, NewCount
  <2> QED
    BY <1>1, <1>4, <2>1, <2>2 DEF Reviewed
<1> QED
  BY <1>2, <1>3, <1>4

LEMMA ReviewStep ==
  ASSUME Requesters = {}, TypeOK, RequestInv, ReviewInv, [Next]_vars
  PROVE  ReviewInv'
<1> SUFFICES ASSUME NEW d \in Counts, Reviewed(d)
             PROVE  Reviewed(d)'
  BY DEF ReviewInv
<1>1. CASE UNCHANGED <<counts, approvals>>
  BY <1>1, ReviewFrame
<1>2. CASE OtherDocuments
  BY <1>1, <1>2 DEF OtherDocuments, PostOnHand, PostDamagedReturn
<1>3. CASE TransferSteps
  BY <1>1, <1>3 DEF TransferSteps, CreateTransfer, DispatchTransfer, ReceiveTransfer, CancelTransfer
<1>4. CASE AdjustmentSteps
  <2>1. ASSUME NEW u \in Users, NEW a \in Adjustments, NEW r \in Approvals, NEW x \in Payload,
               RequestAdjustment(u, a, r, x)
        PROVE  Reviewed(d)'
    <3>1. a # d
      BY InventoryAssumption
    <3> QED
      BY <2>1, <3>1, FiledElsewhere DEF RequestAdjustment
  <2>2. ASSUME NEW a \in Adjustments, CancelAdjustment(a)
        PROVE  Reviewed(d)'
    <3> DEFINE r == adjustments[a].approval
    <3>1. r \in Approvals /\ approvals[r].ref = a /\ a # d
      BY <2>2, InventoryAssumption DEF CancelAdjustment, RequestInv, RequestKept
    <3>2. \A s \in Approvals : s # r => approvals'[s] = approvals[s]
      BY <2>2, <3>1 DEF TypeOK, CancelAdjustment
    <3>3. approvals'[r].ref = a
      BY <2>2, <3>1 DEF TypeOK, ApprovalRow, CancelAdjustment
    <3>4. counts'[d] = counts[d]
      BY <2>2 DEF CancelAdjustment
    <3> HIDE DEF r
    <3> QED
      BY <3>1, <3>2, <3>3, <3>4, ReviewFrame
  <2> QED
    BY <1>1, <1>4, <2>1, <2>2 DEF AdjustmentSteps, PostAdjustment, PostApprovedAdjustment
<1>5. CASE CountSteps
  <2>1. ASSUME NEW c \in Counts, StartCount(c)
        PROVE  Reviewed(d)'
    <3>1. UNCHANGED approvals /\ counts[c].status = "draft" /\ counts'[c].status = "counting"
      BY <2>1 DEF TypeOK, CountOK, CountRow, StartCount
    <3>2. d # c => counts'[d] = counts[d]
      BY <2>1 DEF TypeOK, StartCount
    <3>3. d = c => Reviewed(d)'
      BY <3>1 DEF Reviewed
    <3> QED
      BY <3>1, <3>2, <3>3, ReviewFrame
  <2>2. ASSUME NEW c \in Counts, NEW P, NEW counted, NEW strict, SaveCount(c, P, counted, strict)
        PROVE  Reviewed(d)'
    <3>1. UNCHANGED approvals /\ counts[c].status = "counting" /\ counts'[c].status = "counting"
      BY <2>2 DEF TypeOK, CountOK, CountRow, SaveCount
    <3>2. d # c => counts'[d] = counts[d]
      BY <2>2 DEF TypeOK, SaveCount
    <3>3. d = c => Reviewed(d)'
      BY <3>1 DEF Reviewed
    <3> QED
      BY <3>1, <3>2, <3>3, ReviewFrame
  <2>3. ASSUME NEW c \in Counts, ReopenCount(c)
        PROVE  Reviewed(d)'
    BY <2>3, WithdrawnReviewed DEF ReopenCount
  <2>4. ASSUME NEW c \in Counts, CancelCount(c)
        PROVE  Reviewed(d)'
    BY <2>4, WithdrawnReviewed DEF CancelCount, Open, OpenStatus
  <2> QED
    BY <1>5, <2>1, <2>2, <2>3, <2>4, NewCountReviewed, ReviewCountReviewed, PostCountReviewed
       DEF CountSteps, RequestInv
<1>6. CASE ApprovalSteps
  <2>1. ASSUME NEW u \in Users, NEW r \in Approvals, NEW s \in {"approved", "rejected"},
               ResolveApproval(u, r, s)
        PROVE  Reviewed(d)'
    <3>1. approvals[r].status = "pending" /\ counts'[d] = counts[d]
      BY <2>1 DEF ResolveApproval
    <3>2. \A q \in Approvals : q # r => approvals'[q] = approvals[q]
      BY <2>1 DEF TypeOK, ResolveApproval
    <3>3. approvals'[r].ref = approvals[r].ref /\ approvals'[r].seen = approvals[r].seen
      BY <2>1 DEF TypeOK, ApprovalRow, ResolveApproval
    <3> QED
      BY <3>1, <3>2, <3>3, ReviewFrame
  <2> QED
    BY <1>6, <2>1 DEF ApprovalSteps
<1>7. CASE UNCHANGED vars
  BY <1>1, <1>7 DEF vars
<1> QED
  BY <1>2, <1>3, <1>4, <1>5, <1>6, <1>7 DEF Next

(* Where requests about counts are filed by their review alone, a count    *)
(* with variances that need approval is posted under an approval another   *)
(* user gave to the very quantities it posts.  POST /api/v1/approvals      *)
(* files others (Requesters), and the run unseen shows what they allow.    *)
THEOREM VariancesAreApproved == Requesters = {} => (Spec => []VariancesApproved)
<1> SUFFICES ASSUME Requesters = {}
             PROVE  Spec => []VariancesApproved
  OBVIOUS
<1>1. Init => ReviewInv
  BY DEF Init, ReviewInv, Reviewed, NoCount, NoApproval
<1>2. TypeOK /\ RequestInv /\ ReviewInv /\ [Next]_vars => ReviewInv'
  BY ReviewStep
<1>3. ReviewInv => VariancesApproved
  BY DEF ReviewInv, Reviewed, VariancesApproved
<1> QED
  BY <1>1, <1>2, <1>3, TypedRequests, PTL DEF Spec

-----------------------------------------------------------------------------
(* The refinement of StockCustody. *)
LEMMA AvailableAt ==
  ASSUME TypeOK, ReservedIsOnHand
  PROVE  /\ Available \in [Warehouses -> [Products -> Nat]]
         /\ \A w \in Warehouses, p \in Products : Available[w][p] = onHand[w][p] - reserved[w][p]
<1>1. \A w \in Warehouses, p \in Products : onHand[w][p] - reserved[w][p] \in Nat
  BY Buckets DEF ReservedIsOnHand
<1> QED
  BY <1>1 DEF Available

(* A document that moves d at one warehouse is a Change there.             *)
LEMMA MoveIsChange ==
  ASSUME TypeOK, TypeOK', ReservedIsOnHand', NEW w \in Warehouses, NEW d,
         onHand' = Plus(onHand, w, d), UNCHANGED <<reserved, transfers>>
  PROVE  Custody!Change(w)
<1>1. Available' \in [Warehouses -> [Products -> Nat]]
  <2>1. \A v \in Warehouses, p \in Products : onHand'[v][p] - reserved'[v][p] \in Nat
    BY DEF TypeOK, ReservedIsOnHand
  <2> QED
    BY <2>1 DEF Available
<1>2. ASSUME NEW v \in Warehouses, v # w
      PROVE  Available'[v] = Available[v]
  <2>1. onHand'[v] = onHand[v]
    BY <1>2, Buckets DEF Plus
  <2> QED
    BY <2>1 DEF Available
<1>3. Available' = [Available EXCEPT ![w] = Available'[w]]
  BY <1>1, <1>2 DEF Available
<1> QED
  BY <1>1, <1>3 DEF Custody!Change

LEMMA CreateIsTake ==
  ASSUME TypeOK, ReservedIsOnHand, NEW t \in Transfers, NEW from \in Warehouses,
         NEW to \in Warehouses, NEW q \in Quantities, CreateTransfer(t, from, to, q)
  PROVE  Custody!Take(t, from, to, q)
<1>1. ASSUME NEW p \in Products
      PROVE  q[p] <= Available[from][p]
  <2>1. q[p] \in Nat
    BY InventoryAssumption DEF Quantities
  <2>2. q[p] # 0 => reserved[from][p] + q[p] <= onHand[from][p]
    BY DEF CreateTransfer, Lines, MayReserve
  <2> QED
    BY <2>1, <2>2, Buckets DEF Available, ReservedIsOnHand
<1>2. ASSUME NEW v \in Warehouses, NEW p \in Products
      PROVE  onHand'[v][p] - reserved'[v][p] =
               IF v = from THEN (onHand[v][p] - reserved[v][p]) - q[p] ELSE onHand[v][p] - reserved[v][p]
  <2>1. q[p] \in Nat /\ UNCHANGED onHand
    BY InventoryAssumption DEF Quantities, CreateTransfer
  <2>2. reserved'[v][p] = IF v = from THEN reserved[v][p] + q[p] ELSE reserved[v][p]
    BY PlusAt, Buckets DEF CreateTransfer
  <2> QED
    BY <2>1, <2>2, Buckets
<1>3. Available' = [Available EXCEPT ![from] = [p \in Products |-> @[p] - q[p]]]
  BY <1>2 DEF Available
<1> QED
  BY <1>1, <1>3 DEF CreateTransfer, Custody!Take

LEMMA DispatchIsShip ==
  ASSUME TypeOK, NEW t \in Transfers, DispatchTransfer(t)
  PROVE  Custody!Ship(t)
<1> DEFINE from == transfers[t].from
           q == transfers[t].lines
<1>1. from \in Warehouses /\ \A p \in Products : q[p] \in Nat
  BY TransferFields DEF DispatchTransfer
<1>2. reserved' = Minus(reserved, from, q) /\ onHand' = Minus(onHand, from, q)
  BY DEF DispatchTransfer
<1> HIDE DEF from, q
<1>3. ASSUME NEW v \in Warehouses, NEW p \in Products
      PROVE  onHand'[v][p] - reserved'[v][p] = onHand[v][p] - reserved[v][p]
  <2>1. /\ reserved'[v][p] = IF v = from THEN reserved[v][p] - q[p] ELSE reserved[v][p]
        /\ onHand'[v][p] = IF v = from THEN onHand[v][p] - q[p] ELSE onHand[v][p]
    BY <1>1, <1>2, MinusAt, Buckets
  <2> QED
    BY <1>1, <2>1, Buckets
<1>4. UNCHANGED Available
  BY <1>3 DEF Available
<1> QED
  BY <1>4 DEF DispatchTransfer, Custody!Ship

LEMMA CancelIsGiveBack ==
  ASSUME TypeOK, NEW t \in Transfers, CancelTransfer(t)
  PROVE  Custody!GiveBack(t)
<1> DEFINE from == transfers[t].from
           q == transfers[t].lines
<1>1. from \in Warehouses /\ \A p \in Products : q[p] \in Nat
  BY TransferFields DEF CancelTransfer, Cancellable
<1>2. reserved' = Minus(reserved, from, q) /\ UNCHANGED onHand
  BY DEF CancelTransfer
<1> HIDE DEF from, q
<1>3. ASSUME NEW v \in Warehouses, NEW p \in Products
      PROVE  onHand'[v][p] - reserved'[v][p] =
               IF v = from THEN (onHand[v][p] - reserved[v][p]) + q[p] ELSE onHand[v][p] - reserved[v][p]
  <2>1. reserved'[v][p] = IF v = from THEN reserved[v][p] - q[p] ELSE reserved[v][p]
    BY <1>1, <1>2, MinusAt, Buckets
  <2> QED
    BY <1>1, <1>2, <2>1, Buckets
<1>4. Available' = [Available EXCEPT ![from] = [p \in Products |-> @[p] + q[p]]]
  BY <1>3 DEF Available
<1> QED
  BY <1>4 DEF CancelTransfer, Cancellable, Custody!GiveBack, from, q

LEMMA ReceiveIsDeliver ==
  ASSUME TypeOK, NEW t \in Transfers, ReceiveTransfer(t)
  PROVE  Custody!Deliver(t)
<1> DEFINE to == transfers[t].to
           q == transfers[t].lines
<1>1. to \in Warehouses /\ \A p \in Products : q[p] \in Nat
  BY TransferFields DEF ReceiveTransfer, Receivable
<1>2. onHand' = Plus(onHand, to, q) /\ UNCHANGED reserved
  BY DEF ReceiveTransfer
<1> HIDE DEF to, q
<1>3. ASSUME NEW v \in Warehouses, NEW p \in Products
      PROVE  onHand'[v][p] - reserved'[v][p] =
               IF v = to THEN (onHand[v][p] - reserved[v][p]) + q[p] ELSE onHand[v][p] - reserved[v][p]
  <2>1. onHand'[v][p] = IF v = to THEN onHand[v][p] + q[p] ELSE onHand[v][p]
    BY <1>1, <1>2, PlusAt, Buckets
  <2> QED
    BY <1>1, <1>2, <2>1, Buckets
<1>4. Available' = [Available EXCEPT ![to] = [p \in Products |-> @[p] + q[p]]]
  BY <1>3 DEF Available
<1> QED
  BY <1>4 DEF ReceiveTransfer, Receivable, Custody!Deliver, to, q

LEMMA CustodyInit == Init => Custody!Init
BY DEF Init, Available, NoTransfer, Custody!Init, Custody!Free

LEMMA CustodyStep ==
  ASSUME TypeOK, TypeOK', RequestInv, ReservedIsOnHand, ReservedIsOnHand', [Next]_vars
  PROVE  [Custody!Next]_<<Available, transfers>>
<1>1. CASE UNCHANGED <<onHand, reserved, transfers>>
  BY <1>1 DEF Available
<1>2. ASSUME NEW w \in Warehouses, NEW d,
             onHand' = Plus(onHand, w, d), UNCHANGED <<reserved, transfers>>
      PROVE  Custody!Next
  BY <1>2, MoveIsChange DEF Custody!Next
<1>3. CASE OtherDocuments
  BY <1>1, <1>2, <1>3 DEF OtherDocuments, PostOnHand, PostDamagedReturn
<1>4. CASE TransferSteps
  <2>1. Quantities = Custody!Quantities
    BY DEF Quantities, Custody!Quantities
  <2> QED
    BY <1>4, <2>1, CreateIsTake, DispatchIsShip, ReceiveIsDeliver, CancelIsGiveBack
       DEF TransferSteps, Custody!Next
<1>5. CASE AdjustmentSteps
  <2>1. ASSUME NEW a \in Adjustments, PostApprovedAdjustment(a)
        PROVE  Custody!Next
    <3> DEFINE r == adjustments[a].approval
    <3>1. approvals[r].payload.warehouse \in Warehouses
      BY <2>1 DEF PostApprovedAdjustment, RequestInv, RequestKept
    <3> QED
      BY <1>2, <2>1, <3>1 DEF PostApprovedAdjustment, Adjust
  <2> QED
    BY <1>1, <1>2, <1>5, <2>1
       DEF AdjustmentSteps, PostAdjustment, ValidAdjustment, Adjust, RequestAdjustment,
           CancelAdjustment, stock
<1>6. CASE CountSteps
  <2>1. ASSUME NEW c \in Counts, PostCount(c)
        PROVE  Custody!Next
    <3>1. counts[c].warehouse \in Warehouses
      BY <2>1 DEF TypeOK, CountOK, PostCount
    <3> QED
      BY <1>2, <2>1, <3>1 DEF PostCount, ApplyCount
  <2>2. ASSUME NEW c \in Counts, NEW w \in Warehouses, NEW P, NEW policy, NEW counted, NEW strict,
               CreateAndPostCount(c, w, P, policy, counted, strict)
        PROVE  Custody!Next
    <3> DEFINE row == NewCount("reviewed", w, P, policy, counted, strict)
    <3>1. row.warehouse = w
      BY DEF NewCount
    <3>2. ApplyCount(c, row)
      BY <2>2 DEF CreateAndPostCount
    <3> HIDE DEF row
    <3> QED
      BY <1>2, <3>1, <3>2 DEF ApplyCount
  <2> QED
    BY <1>1, <1>6, <2>1, <2>2
       DEF CountSteps, CreateCount, StartCount, SaveCount, ReviewCount, ReopenCount, CancelCount, stock
<1>7. CASE ApprovalSteps
  BY <1>1, <1>7 DEF ApprovalSteps, AskApproval, FileAsked, ResolveApproval, stock
<1>8. CASE UNCHANGED vars
  BY <1>1, <1>8 DEF vars, stock
<1> QED
  BY <1>3, <1>4, <1>5, <1>6, <1>7, <1>8 DEF Next

(* The buckets and their documents implement the custody of stock: what a  *)
(* transfer takes it ships, and gives back or delivers once, and dispatch  *)
(* takes nothing more from anyone.                                         *)
THEOREM CustodyImplemented == Spec => ImplementsCustody
<1>1. /\ TypeOK /\ RequestInv /\ ReservedIsOnHand
      /\ (TypeOK /\ RequestInv /\ ReservedIsOnHand)'
      /\ [Next]_vars
      => [Custody!Next]_<<Available, transfers>>
  BY CustodyStep
<1> QED
  BY <1>1, CustodyInit, TypedRequests, ReservedStaysOnHand, PTL
     DEF Spec, ImplementsCustody, Custody!Spec

-----------------------------------------------------------------------------
(* What stock is worth (StockValue).  Two facts are kept together: every    *)
(* row's value stays near its quantity at its average (RowsOK), and the     *)
(* inventory account stays near what the sums of InventoryAccount come to.  *)
(* Each operation changes one row, at most one document and one journal, so *)
(* it moves each sum by one term, and it drifts (Drifts) by no more than    *)
(* what the entry rounds and what a cost read into a number is off.         *)

(* Division rounds down, by less than the divisor. *)
LEMMA HalfUp ==
  ASSUME NEW a \in Int, NEW b \in Int, b > 0
  PROVE  /\ a \div b \in Int
         /\ b * (a \div b) <= a
         /\ a < b * (a \div b) + b
         /\ a >= 0 => a \div b >= 0
OBVIOUS

(* Rounding to a multiple of a unit is off by half of it. *)
LEMMA NearestIsNear ==
  ASSUME NEW n \in Int, NEW unit \in Nat \ {0}
  PROVE  Nearest(n, unit) \in Int /\ 2 * Abs(Nearest(n, unit) - n) <= unit
<1>1. PICK a : a = (2 * n + unit) \div (2 * unit)
  OBVIOUS
<1>2. 2 * unit \in Int /\ 2 * unit > 0 /\ 2 * n + unit \in Int
  OBVIOUS
<1>3. a \in Int /\ (2 * unit) * a <= 2 * n + unit /\ 2 * n + unit < (2 * unit) * a + 2 * unit
  BY <1>1, <1>2, HalfUp
<1>4. (2 * unit) * a = 2 * (unit * a) /\ unit * a \in Int
  BY <1>3
<1>5. PICK m : m = unit * a
  OBVIOUS
<1>6. m \in Int /\ 2 * Abs(m - n) <= unit
  BY <1>3, <1>4, <1>5 DEF Abs
<1>7. Nearest(n, unit) = m
  BY <1>1, <1>5 DEF Nearest
<1> QED
  BY <1>6, <1>7

(* q units at a cost and at the number it was read into. *)
LEMMA NumberIsNear ==
  ASSUME NEW cost \in Int, NEW q \in Nat
  PROVE  /\ AsNumber(cost) \in Int
         /\ 2 * Abs(q * cost - q * AsNumber(cost)) <= Grain * q
<1>1. Grain \in Nat \ {0}
  BY ValueAssumption
<1>2. PICK m : m = AsNumber(cost)
  OBVIOUS
<1>3. m \in Int /\ 2 * Abs(m - cost) <= Grain
  BY <1>1, <1>2, NearestIsNear DEF AsNumber
<1>4. PICK d \in Int : d = m - cost
  BY <1>3
<1>5. PICK e \in Int, g \in Int : e = q * d /\ g = Grain * q
  BY <1>1
<1>6. -g <= 2 * e /\ 2 * e <= g
  <2>1. -Grain <= 2 * d /\ 2 * d <= Grain
    BY <1>1, <1>3, <1>4 DEF Abs
  <2>2. q * (-Grain) <= q * (2 * d) /\ q * (2 * d) <= q * Grain
    BY <1>1, <2>1
  <2>3. q * (-Grain) = -g /\ q * (2 * d) = 2 * e /\ q * Grain = g
    BY <1>1, <1>5
  <2> QED
    BY <2>2, <2>3
<1>7. q * cost - q * m = -e
  <2>1. PICK x \in Int, y \in Int : x = q * cost /\ y = q * m
    BY <1>3
  <2>2. q * (m - cost) = q * m - q * cost
    BY <1>3
  <2>3. e = y - x
    BY <1>4, <1>5, <2>1, <2>2
  <2> QED
    BY <2>1, <2>3
<1>8. 2 * Abs(-e) <= g
  BY <1>6 DEF Abs
<1> QED
  BY <1>2, <1>3, <1>5, <1>7, <1>8

(* The rounded average of q units: at most half a unit off for each of them. *)
LEMMA AverageIsNear ==
  ASSUME NEW v \in Int, NEW q \in Nat
  PROVE  /\ Average(v, q) \in Int
         /\ v >= 0 => Average(v, q) >= 0
         /\ q # 0 => 2 * Abs(v - q * Average(v, q)) <= q
         /\ q = 0 => Average(v, q) = 0
<1>1. CASE q = 0
  BY <1>1 DEF Average
<1>2. CASE q # 0
  <2>1. PICK a : a = (2 * v + q) \div (2 * q)
    OBVIOUS
  <2>2. 2 * q \in Int /\ 2 * q > 0 /\ 2 * v + q \in Int
    BY <1>2
  <2>3. /\ a \in Int /\ (2 * q) * a <= 2 * v + q
        /\ 2 * v + q < (2 * q) * a + 2 * q
        /\ v >= 0 => a >= 0
    <3>1. PICK n, k : n = 2 * v + q /\ k = 2 * q
      OBVIOUS
    <3>2. n \div k \in Int /\ k * (n \div k) <= n /\ n < k * (n \div k) + k /\ (n >= 0 => n \div k >= 0)
      BY <2>2, <3>1, HalfUp
    <3>3. v >= 0 => n >= 0
      BY <3>1
    <3> QED
      BY <2>1, <3>1, <3>2, <3>3
  <2>4. (2 * q) * a = 2 * (q * a) /\ q * a \in Int
    BY <2>3
  <2>5. PICK m : m = q * a
    OBVIOUS
  <2>6. 2 * Abs(v - m) <= q
    BY <2>3, <2>4, <2>5 DEF Abs
  <2>7. Average(v, q) = a
    BY <1>2, <2>1 DEF Average
  <2> QED
    BY <1>2, <2>3, <2>5, <2>6, <2>7
<1> QED
  BY <1>1, <1>2

StockRow == [qty : 0..MaxQty, avg : Nat, damaged : Int, transit : Int,
             value : Int, moves : Nat, opening : Int, sentBack : Int, numbered : Int]

(* The value is the quantity at its average up to half a unit for every    *)
(* unit and movement.                                                      *)
IsNear(row) == 2 * Abs(row.value - row.qty * row.avg) <= row.moves * MaxQty

(* What one movement does to a row: rounding the average moves what the    *)
(* quantity is worth by at most half a unit for each unit.                 *)
LEMMA MovedRow ==
  ASSUME NEW row \in StockRow, IsNear(row), NEW type, NEW d \in Int, NEW given \in Int,
         MayRevalue(row, type, d, given),
         NEW m, m = Moved(row, type, d, given)
  PROVE  /\ m \in StockRow /\ IsNear(m)
         /\ m.qty = row.qty + d /\ m.moves = row.moves + 1
         /\ m.value = row.value + d * UnitCost(row, type, given)
         /\ m.opening = row.opening /\ m.sentBack = row.sentBack
         /\ m.damaged = row.damaged /\ m.transit = row.transit /\ m.numbered = row.numbered
<1>1. PICK cost : cost = UnitCost(row, type, given)
  OBVIOUS
<1>2. cost \in Int
  BY <1>1 DEF UnitCost, StockRow
<1>3. PICK old, moved : old = row.qty * row.avg /\ moved = d * cost
  OBVIOUS
<1>4. old \in Int /\ moved \in Int
  BY <1>2, <1>3 DEF StockRow
<1>5. PICK q : q = row.qty + d
  OBVIOUS
<1>6. /\ q \in 0..MaxQty
      /\ old + moved >= 0
      /\ q = 0 => old + moved = 0
  BY <1>1, <1>3, <1>5, ValueAssumption DEF MayRevalue, StockRow
<1>7. PICK a : a = Average(old + moved, q)
  OBVIOUS
<1>8. /\ a \in Nat
      /\ q # 0 => 2 * Abs(old + moved - q * a) <= q
  <2>1. PICK v : v = old + moved
    OBVIOUS
  <2>2. v \in Int /\ q \in Nat
    BY <1>4, <1>6, <2>1
  <2>3. /\ Average(v, q) \in Int
        /\ v >= 0 => Average(v, q) >= 0
        /\ q # 0 => 2 * Abs(v - q * Average(v, q)) <= q
    BY <2>2, AverageIsNear
  <2>4. Average(v, q) = a
    BY <1>7, <2>1
  <2>5. q # 0 => 2 * Abs(v - q * a) <= q
    BY <2>3, <2>4
  <2>6. v - q * a = old + moved - q * a
    <3>1. PICK n : n = q * a
      OBVIOUS
    <3>2. n \in Int
      BY <2>2, <2>3, <2>4, <3>1
    <3>3. v - n = old + moved - n
      BY <1>4, <2>1, <3>2
    <3> QED
      BY <3>1, <3>3
  <2>7. Abs(v - q * a) = Abs(old + moved - q * a)
    BY <2>6
  <2>8. a \in Nat
    BY <1>6, <2>1, <2>3, <2>4
  <2> QED
    BY <2>5, <2>7, <2>8
<1>9. /\ m.qty = q /\ m.avg = a /\ m.value = row.value + moved /\ m.moves = row.moves + 1
      /\ m.opening = row.opening /\ m.sentBack = row.sentBack
      /\ m.damaged = row.damaged /\ m.transit = row.transit /\ m.numbered = row.numbered
      /\ m = [row EXCEPT !.qty = q, !.avg = a, !.value = row.value + moved, !.moves = row.moves + 1]
  BY <1>1, <1>3, <1>5, <1>7 DEF Moved, StockRow
<1>10. m \in StockRow
  <2>1. row.value + moved \in Int /\ row.moves + 1 \in Nat
    BY <1>4 DEF StockRow
  <2> QED
    BY <1>6, <1>8, <1>9, <2>1 DEF StockRow
<1>11. IsNear(m)
  <2>1. PICK new, bound : new = q * a /\ bound = row.moves * MaxQty
    OBVIOUS
  <2>2. new \in Int /\ bound \in Int /\ (row.moves + 1) * MaxQty = bound + MaxQty
    BY <1>6, <1>8, <2>1, ValueAssumption DEF StockRow
  <2>3. 2 * Abs(row.value - old) <= bound
    BY <1>3, <2>1 DEF IsNear
  <2>4. 2 * Abs(old + moved - new) <= MaxQty
    <3>1. CASE q = 0
      <4>1. new = 0
        BY <1>8, <2>1, <3>1
      <4> QED
        BY <1>4, <1>6, <3>1, <4>1, ValueAssumption DEF Abs
    <3>2. CASE q # 0
      <4>1. 2 * Abs(old + moved - new) <= q
        BY <1>8, <2>1, <3>2
      <4>2. q <= MaxQty /\ q \in Int /\ MaxQty \in Int
        BY <1>6, ValueAssumption
      <4> QED
        BY <1>4, <2>2, <4>1, <4>2 DEF Abs
    <3> QED
      BY <3>1, <3>2
  <2>5. 2 * Abs(row.value + moved - new) <= bound + MaxQty
    <3>1. row.value \in Int /\ MaxQty \in Int
      BY ValueAssumption DEF StockRow
    <3> QED
      BY <1>4, <2>2, <2>3, <2>4, <3>1 DEF Abs
  <2>6. m.qty * m.avg = new /\ m.moves * MaxQty = bound + MaxQty
    BY <1>9, <2>1, <2>2
  <2>7. m.value - m.qty * m.avg = row.value + moved - new
    <3>1. PICK w, n : w = m.value /\ n = m.qty * m.avg
      OBVIOUS
    <3>2. w = row.value + moved /\ n = new
      BY <1>9, <2>6, <3>1
    <3>3. row.value \in Int
      BY DEF StockRow
    <3>4. w - n = row.value + moved - new
      BY <1>4, <2>2, <3>2, <3>3
    <3> QED
      BY <3>1, <3>4
  <2>8. Abs(m.value - m.qty * m.avg) = Abs(row.value + moved - new)
    BY <2>7
  <2> QED
    BY <2>5, <2>6, <2>8 DEF IsNear
<1> QED
  BY <1>1, <1>3, <1>5, <1>9, <1>10, <1>11

PurchaseRow == [status : {"ordered", "partially_received", "received"}, received : Int, returned : Int]
SaleRow == [status : {"none", "completed", "voided"}, at : Warehouses \cup {Nowhere},
            qty : Nat, cost : Nat, returned : Int, unmatched : Int]
TransferValue == [status : {"none", "in_transit", "completed"}, from : Warehouses \cup {Nowhere},
                  qty : Nat, cost : Nat]

StockOK(rows) ==
  /\ rows \in [Warehouses -> StockRow]
  /\ \A w \in Warehouses : IsNear(rows[w]) /\ (rows[w].moves = 0 => rows[w].opening = 0)

SalesOK(rows) ==
  /\ rows \in [Sales -> SaleRow]
  /\ \A s \in Sales : /\ rows[s].status = "none" => rows[s].unmatched = 0
                      /\ rows[s].status = "completed" => rows[s].at \in Warehouses

TransfersOK(rows) ==
  /\ rows \in [Transfers -> TransferValue]
  /\ \A t \in Transfers : rows[t].status = "in_transit" => rows[t].from \in Warehouses

RowsOK ==
  /\ StockOK(stockRow)
  /\ purchase \in [Purchases -> PurchaseRow]
  /\ SalesOK(sale)
  /\ TransfersOK(transfer)
  /\ gl \in [Accounts -> Int]
  /\ entries \in Nat

ValueInv == RowsOK /\ InventoryAccount

(* The terms of InventoryAccount, of the rows before or after a step.      *)
OnHandWorth(rows) == SumFunction([w \in Warehouses |-> rows[w].value - rows[w].opening])
SentBackWorth(rows) == SumFunction([w \in Warehouses |-> rows[w].sentBack])
RoadCost(row) == IF row.status = "in_transit" THEN row.qty * row.cost ELSE 0
RoadWorth(rows) == SumFunction([t \in Transfers |-> RoadCost(rows[t])])
Credit(p) == AsNumber(Price[p])
CreditedWorth(rows) == SumFunction([p \in Purchases |-> rows[p].returned * Credit(p)])
UnmatchedWorth(rows) == SumFunction([s \in Sales |-> rows[s].unmatched * rows[s].cost])
NumberedUnits(rows) == SumFunction([w \in Warehouses |-> rows[w].numbered])

(* What a supplier is credited for a unit is an integer. *)
LEMMA CreditInt == ASSUME NEW p \in Purchases PROVE Credit(p) \in Int
<1>1. Price[p] \in Int /\ Grain \in Nat \ {0}
  BY ValueAssumption
<1> QED
  BY <1>1, NearestIsNear DEF Credit, AsNumber

(* InventoryAccount before and after a step, as its terms. *)
LEMMA AccountNowAndThen ==
  /\ InventoryAccount <=>
       2 * Abs(gl["inventory"] - (OnHandWorth(stockRow) + RoadWorth(transfer) + SentBackWorth(stockRow)
                                    - CreditedWorth(purchase) + UnmatchedWorth(sale)))
         <= Cent * entries + Grain * NumberedUnits(stockRow)
  /\ InventoryAccount' <=>
       2 * Abs(gl'["inventory"] - (OnHandWorth(stockRow') + RoadWorth(transfer') + SentBackWorth(stockRow')
                                     - CreditedWorth(purchase') + UnmatchedWorth(sale')))
         <= Cent * entries' + Grain * NumberedUnits(stockRow')
BY DEF InventoryAccount, CostInTransit, OnHandWorth, SentBackWorth, RoadCost, RoadWorth,
       Credit, CreditedWorth, UnmatchedWorth, NumberedUnits

(* b is a with another row of warehouse w, as far as worth goes. *)
OnlyRow(a, b, w) ==
  \A v \in Warehouses \ {w} :
    /\ b[v].value = a[v].value /\ b[v].opening = a[v].opening
    /\ b[v].sentBack = a[v].sentBack /\ b[v].numbered = a[v].numbered

(* One warehouse's row changes what it is worth. *)
LEMMA StockChange ==
  ASSUME NEW a \in [Warehouses -> StockRow], NEW b \in [Warehouses -> StockRow], NEW w \in Warehouses,
         OnlyRow(a, b, w)
  PROVE  /\ OnHandWorth(a) \in Int /\ SentBackWorth(a) \in Int /\ NumberedUnits(a) \in Int
         /\ OnHandWorth(b) = OnHandWorth(a) - (a[w].value - a[w].opening) + (b[w].value - b[w].opening)
         /\ SentBackWorth(b) = SentBackWorth(a) - a[w].sentBack + b[w].sentBack
         /\ NumberedUnits(b) = NumberedUnits(a) - a[w].numbered + b[w].numbered
<1>1. PICK f, g, h, k, m, n :
        /\ f = [v \in Warehouses |-> a[v].value - a[v].opening]
        /\ g = [v \in Warehouses |-> b[v].value - b[v].opening]
        /\ h = [v \in Warehouses |-> a[v].sentBack]
        /\ k = [v \in Warehouses |-> b[v].sentBack]
        /\ m = [v \in Warehouses |-> a[v].numbered]
        /\ n = [v \in Warehouses |-> b[v].numbered]
  OBVIOUS
<1>2. /\ OnHandWorth(a) = SumFunctionOnSet(f, Warehouses)
      /\ OnHandWorth(b) = SumFunctionOnSet(g, Warehouses)
      /\ SentBackWorth(a) = SumFunctionOnSet(h, Warehouses)
      /\ SentBackWorth(b) = SumFunctionOnSet(k, Warehouses)
      /\ NumberedUnits(a) = SumFunctionOnSet(m, Warehouses)
      /\ NumberedUnits(b) = SumFunctionOnSet(n, Warehouses)
  BY <1>1 DEF OnHandWorth, SentBackWorth, NumberedUnits, SumFunction
<1>3. \A v \in Warehouses :
        /\ a[v].value \in Int /\ a[v].opening \in Int /\ a[v].sentBack \in Int /\ a[v].numbered \in Int
        /\ b[v].value \in Int /\ b[v].opening \in Int /\ b[v].sentBack \in Int /\ b[v].numbered \in Int
  BY DEF StockRow
<1>4. /\ \A v \in Warehouses : /\ f[v] \in Int /\ g[v] \in Int /\ h[v] \in Int /\ k[v] \in Int
                              /\ m[v] \in Int /\ n[v] \in Int
      /\ \A v \in Warehouses \ {w} : g[v] = f[v] /\ k[v] = h[v] /\ n[v] = m[v]
      /\ f[w] = a[w].value - a[w].opening /\ g[w] = b[w].value - b[w].opening
      /\ h[w] = a[w].sentBack /\ k[w] = b[w].sentBack
      /\ m[w] = a[w].numbered /\ n[w] = b[w].numbered
  BY <1>1, <1>3 DEF OnlyRow
<1>5. /\ SumFunctionOnSet(g, Warehouses) = SumFunctionOnSet(f, Warehouses) - f[w] + g[w]
      /\ SumFunctionOnSet(k, Warehouses) = SumFunctionOnSet(h, Warehouses) - h[w] + k[w]
      /\ SumFunctionOnSet(n, Warehouses) = SumFunctionOnSet(m, Warehouses) - m[w] + n[w]
  BY <1>4, SumChange, CompanyAssumption
<1>6. /\ SumFunctionOnSet(f, Warehouses) \in Int /\ SumFunctionOnSet(h, Warehouses) \in Int
      /\ SumFunctionOnSet(m, Warehouses) \in Int
  BY <1>4, SumInt, CompanyAssumption
<1> QED
  BY <1>2, <1>4, <1>5, <1>6

(* One transfer changes what is on the road. *)
LEMMA RoadChange ==
  ASSUME NEW a \in [Transfers -> TransferValue], NEW b \in [Transfers -> TransferValue],
         NEW t \in Transfers, \A u \in Transfers \ {t} : b[u] = a[u]
  PROVE  /\ RoadWorth(a) \in Int
         /\ RoadWorth(b) = RoadWorth(a) - RoadCost(a[t]) + RoadCost(b[t])
<1>1. PICK f, g : /\ f = [u \in Transfers |-> RoadCost(a[u])]
                  /\ g = [u \in Transfers |-> RoadCost(b[u])]
  OBVIOUS
<1>2. RoadWorth(a) = SumFunctionOnSet(f, Transfers) /\ RoadWorth(b) = SumFunctionOnSet(g, Transfers)
  BY <1>1 DEF RoadWorth, SumFunction
<1>3. \A u \in Transfers : f[u] \in Int /\ g[u] \in Int
  BY <1>1 DEF RoadCost, TransferValue
<1>4. /\ \A u \in Transfers \ {t} : g[u] = f[u]
      /\ f[t] = RoadCost(a[t]) /\ g[t] = RoadCost(b[t])
  BY <1>1
<1>5. SumFunctionOnSet(g, Transfers) = SumFunctionOnSet(f, Transfers) - f[t] + g[t]
  BY <1>3, <1>4, SumChange, CompanyAssumption
<1>6. SumFunctionOnSet(f, Transfers) \in Int
  BY <1>3, SumInt, CompanyAssumption
<1> QED
  BY <1>2, <1>4, <1>5, <1>6

(* One purchase changes what suppliers were credited. *)
LEMMA CreditedChange ==
  ASSUME NEW a \in [Purchases -> PurchaseRow], NEW b \in [Purchases -> PurchaseRow],
         NEW p \in Purchases, \A o \in Purchases \ {p} : b[o].returned = a[o].returned
  PROVE  /\ CreditedWorth(a) \in Int
         /\ CreditedWorth(b) = CreditedWorth(a) - a[p].returned * Credit(p) + b[p].returned * Credit(p)
<1>1. PICK f, g : /\ f = [o \in Purchases |-> a[o].returned * Credit(o)]
                  /\ g = [o \in Purchases |-> b[o].returned * Credit(o)]
  OBVIOUS
<1>2. CreditedWorth(a) = SumFunctionOnSet(f, Purchases) /\ CreditedWorth(b) = SumFunctionOnSet(g, Purchases)
  BY <1>1 DEF CreditedWorth, SumFunction
<1>3. \A o \in Purchases : f[o] \in Int /\ g[o] \in Int
  BY <1>1, CreditInt DEF PurchaseRow
<1>4. /\ \A o \in Purchases \ {p} : g[o] = f[o]
      /\ f[p] = a[p].returned * Credit(p) /\ g[p] = b[p].returned * Credit(p)
  BY <1>1
<1>5. SumFunctionOnSet(g, Purchases) = SumFunctionOnSet(f, Purchases) - f[p] + g[p]
  BY <1>3, <1>4, SumChange, ValueAssumption
<1>6. SumFunctionOnSet(f, Purchases) \in Int
  BY <1>3, SumInt, ValueAssumption
<1> QED
  BY <1>2, <1>4, <1>5, <1>6

(* One sale changes the cost of what came back and is not on the shelf. *)
LEMMA UnmatchedChange ==
  ASSUME NEW a \in [Sales -> SaleRow], NEW b \in [Sales -> SaleRow], NEW s \in Sales,
         \A o \in Sales \ {s} : b[o] = a[o]
  PROVE  /\ UnmatchedWorth(a) \in Int
         /\ UnmatchedWorth(b) = UnmatchedWorth(a) - a[s].unmatched * a[s].cost + b[s].unmatched * b[s].cost
<1>1. PICK f, g : /\ f = [o \in Sales |-> a[o].unmatched * a[o].cost]
                  /\ g = [o \in Sales |-> b[o].unmatched * b[o].cost]
  OBVIOUS
<1>2. UnmatchedWorth(a) = SumFunctionOnSet(f, Sales) /\ UnmatchedWorth(b) = SumFunctionOnSet(g, Sales)
  BY <1>1 DEF UnmatchedWorth, SumFunction
<1>3. \A o \in Sales : f[o] \in Int /\ g[o] \in Int
  BY <1>1 DEF SaleRow
<1>4. /\ \A o \in Sales \ {s} : g[o] = f[o]
      /\ f[s] = a[s].unmatched * a[s].cost /\ g[s] = b[s].unmatched * b[s].cost
  BY <1>1
<1>5. SumFunctionOnSet(g, Sales) = SumFunctionOnSet(f, Sales) - f[s] + g[s]
  BY <1>3, <1>4, SumChange, ValueAssumption
<1>6. SumFunctionOnSet(f, Sales) \in Int
  BY <1>3, SumInt, ValueAssumption
<1> QED
  BY <1>2, <1>4, <1>5, <1>6

(* The terms are integers. *)
LEMMA WorthInt ==
  ASSUME RowsOK
  PROVE  /\ OnHandWorth(stockRow) \in Int /\ SentBackWorth(stockRow) \in Int
         /\ RoadWorth(transfer) \in Int /\ CreditedWorth(purchase) \in Int
         /\ UnmatchedWorth(sale) \in Int /\ NumberedUnits(stockRow) \in Int
<1>1. PICK f, g, h, i, j, k :
        /\ f = [w \in Warehouses |-> stockRow[w].value - stockRow[w].opening]
        /\ g = [w \in Warehouses |-> stockRow[w].sentBack]
        /\ h = [t \in Transfers |-> RoadCost(transfer[t])]
        /\ i = [p \in Purchases |-> purchase[p].returned * Credit(p)]
        /\ j = [s \in Sales |-> sale[s].unmatched * sale[s].cost]
        /\ k = [w \in Warehouses |-> stockRow[w].numbered]
  OBVIOUS
<1>2. \A w \in Warehouses : f[w] \in Int /\ g[w] \in Int /\ k[w] \in Int
  BY <1>1 DEF RowsOK, StockOK, StockRow
<1>3. \A t \in Transfers : h[t] \in Int
  BY <1>1 DEF RowsOK, TransfersOK, TransferValue, RoadCost
<1>4. \A p \in Purchases : i[p] \in Int
  BY <1>1, CreditInt DEF RowsOK, PurchaseRow
<1>5. \A s \in Sales : j[s] \in Int
  BY <1>1 DEF RowsOK, SalesOK, SaleRow
<1>6. /\ SumFunctionOnSet(f, Warehouses) \in Int /\ SumFunctionOnSet(g, Warehouses) \in Int
      /\ SumFunctionOnSet(h, Transfers) \in Int /\ SumFunctionOnSet(k, Warehouses) \in Int
      /\ SumFunctionOnSet(i, Purchases) \in Int /\ SumFunctionOnSet(j, Sales) \in Int
  BY <1>2, <1>3, <1>4, <1>5, SumInt, CompanyAssumption, ValueAssumption
<1> QED
  BY <1>1, <1>6 DEF OnHandWorth, SentBackWorth, RoadWorth, CreditedWorth, UnmatchedWorth, NumberedUnits, SumFunction

(* What a row is worth to the inventory account. *)
Worth(row) == row.value - row.opening + row.sentBack

(* What a row is worth is an integer. *)
LEMMA WorthType == ASSUME NEW row \in StockRow PROVE Worth(row) \in Int
BY DEF StockRow, Worth

(* How far one step may drift: half a cent for each entry it posts, half a *)
(* grain for each unit it brings in at a number.                           *)
Drifts(e, w) ==
  2 * Abs(e) <= Cent * (entries' - entries) + Grain * (stockRow'[w].numbered - stockRow[w].numbered)

(* A step keeps the account in agreement when what it posts is what the    *)
(* changed row and the three other terms come to, up to what it may drift. *)
LEMMA AccountStep ==
  ASSUME ValueInv, RowsOK', NEW w \in Warehouses, OnlyRow(stockRow, stockRow', w),
         RoadWorth(transfer') \in Int, CreditedWorth(purchase') \in Int, UnmatchedWorth(sale') \in Int,
         NEW e \in Int, Drifts(e, w),
         gl'["inventory"] = gl["inventory"] + (Worth(stockRow'[w]) - Worth(stockRow[w]))
                              + (RoadWorth(transfer') - RoadWorth(transfer))
                              - (CreditedWorth(purchase') - CreditedWorth(purchase))
                              + (UnmatchedWorth(sale') - UnmatchedWorth(sale)) + e
  PROVE  InventoryAccount'
<1>1. /\ stockRow \in [Warehouses -> StockRow] /\ stockRow' \in [Warehouses -> StockRow]
      /\ gl["inventory"] \in Int /\ entries \in Int /\ entries' \in Int
      /\ Cent \in Int /\ Grain \in Int
  BY ValueAssumption DEF ValueInv, RowsOK, StockOK, Accounts
<1>2. PICK a, b : a = stockRow /\ b = stockRow'
  OBVIOUS
<1>3. /\ OnHandWorth(a) \in Int /\ SentBackWorth(a) \in Int /\ NumberedUnits(a) \in Int
      /\ OnHandWorth(b) = OnHandWorth(a) - (a[w].value - a[w].opening) + (b[w].value - b[w].opening)
      /\ SentBackWorth(b) = SentBackWorth(a) - a[w].sentBack + b[w].sentBack
      /\ NumberedUnits(b) = NumberedUnits(a) - a[w].numbered + b[w].numbered
  BY <1>1, <1>2, StockChange
<1>4. /\ a[w].value \in Int /\ a[w].opening \in Int /\ a[w].sentBack \in Int /\ a[w].numbered \in Int
      /\ b[w].value \in Int /\ b[w].opening \in Int /\ b[w].sentBack \in Int /\ b[w].numbered \in Int
  BY <1>1, <1>2 DEF StockRow
<1>5. /\ RoadWorth(transfer) \in Int /\ CreditedWorth(purchase) \in Int /\ UnmatchedWorth(sale) \in Int
  BY WorthInt DEF ValueInv
<1>6. PICK was, is :
        /\ was = gl["inventory"] - (OnHandWorth(a) + RoadWorth(transfer) + SentBackWorth(a)
                                      - CreditedWorth(purchase) + UnmatchedWorth(sale))
        /\ is = gl'["inventory"] - (OnHandWorth(b) + RoadWorth(transfer') + SentBackWorth(b)
                                      - CreditedWorth(purchase') + UnmatchedWorth(sale'))
  OBVIOUS
<1>7. /\ Worth(b[w]) = b[w].value - b[w].opening + b[w].sentBack
      /\ Worth(a[w]) = a[w].value - a[w].opening + a[w].sentBack
  BY DEF Worth
<1>8. was \in Int /\ is = was + e
  BY <1>1, <1>2, <1>3, <1>4, <1>5, <1>6, <1>7
<1>9. PICK c, cc, g, gg :
        /\ c = Cent * entries /\ cc = Cent * (entries' - entries)
        /\ g = Grain * NumberedUnits(a) /\ gg = Grain * (b[w].numbered - a[w].numbered)
  OBVIOUS
<1>10. c \in Int /\ cc \in Int /\ g \in Int /\ gg \in Int
  BY <1>1, <1>3, <1>4, <1>9
<1>11. Cent * entries' = c + cc /\ Grain * NumberedUnits(b) = g + gg
  <2>1. PICK k, d : k = entries /\ d = entries' - entries
    OBVIOUS
  <2>2. PICK m, n : m = NumberedUnits(a) /\ n = b[w].numbered - a[w].numbered
    OBVIOUS
  <2>3. /\ k \in Int /\ d \in Int /\ m \in Int /\ n \in Int
        /\ entries' = k + d /\ NumberedUnits(b) = m + n
    <3>1. entries \in Int /\ entries' \in Int
      BY <1>1
    <3>2. k \in Int /\ d \in Int /\ entries' = k + d
      BY <2>1, <3>1
    <3>3. PICK x, y : x = a[w].numbered /\ y = b[w].numbered
      OBVIOUS
    <3>4. x \in Int /\ y \in Int /\ NumberedUnits(a) \in Int /\ NumberedUnits(b) = NumberedUnits(a) - x + y
      BY <1>3, <1>4, <3>3
    <3>5. m \in Int /\ n \in Int /\ NumberedUnits(b) = m + n
      BY <2>2, <3>3, <3>4
    <3> QED
      BY <3>2, <3>5
  <2>4. Cent * (k + d) = Cent * k + Cent * d /\ Grain * (m + n) = Grain * m + Grain * n
    BY <1>1, <2>3
  <2> QED
    BY <1>9, <2>1, <2>2, <2>3, <2>4
<1>12. 2 * Abs(e) <= cc + gg
  BY <1>2, <1>9 DEF Drifts
<1>13. 2 * Abs(was) <= c + g
  BY <1>2, <1>6, <1>9, AccountNowAndThen DEF ValueInv
<1>14. 2 * Abs(is) <= c + cc + g + gg
  BY <1>8, <1>10, <1>12, <1>13 DEF Abs
<1>15. 2 * Abs(is) <= Cent * entries' + Grain * NumberedUnits(b)
  BY <1>10, <1>11, <1>14
<1> QED
  BY <1>2, <1>6, <1>15, AccountNowAndThen

(* Writing one row that is near its average keeps the table so. *)
LEMMA StockWritten ==
  ASSUME NEW a, StockOK(a), NEW w \in Warehouses, NEW x \in StockRow, IsNear(x),
         x.moves = 0 => x.opening = 0,
         NEW b \in [Warehouses -> StockRow], b[w] = x,
         \A v \in Warehouses \ {w} : b[v] = a[v]
  PROVE  StockOK(b)
<1>1. \A v \in Warehouses : b[v] \in StockRow /\ IsNear(b[v]) /\ (b[v].moves = 0 => b[v].opening = 0)
  BY DEF StockOK
<1> QED
  BY <1>1 DEF StockOK

(* A movement's totalCostDelta. *)
CostDelta(row, type, d, given) == d * UnitCost(row, type, given)

(* m is the row that a movement worth delta leaves of row. *)
MovedFrom(row, m, delta) ==
  /\ m \in StockRow /\ IsNear(m) /\ m.moves # 0
  /\ m.opening = row.opening /\ m.sentBack = row.sentBack /\ m.numbered = row.numbered
  /\ m.value = row.value + delta
  /\ Worth(m) = Worth(row) + delta
  /\ delta \in Int

(* One on-hand movement: the row it leaves, and what that is worth.        *)
LEMMA Moving ==
  ASSUME RowsOK, NEW w \in Warehouses, NEW type, NEW d \in Int, NEW given \in Int,
         MayRevalue(stockRow[w], type, d, given)
  PROVE  MovedFrom(stockRow[w], Moved(stockRow[w], type, d, given), CostDelta(stockRow[w], type, d, given))
<1>1. PICK m : m = Moved(stockRow[w], type, d, given)
  OBVIOUS
<1>2. stockRow[w] \in StockRow /\ IsNear(stockRow[w])
  BY DEF RowsOK, StockOK
<1>3. /\ m \in StockRow /\ IsNear(m)
      /\ m.moves = stockRow[w].moves + 1
      /\ m.value = stockRow[w].value + CostDelta(stockRow[w], type, d, given)
      /\ m.opening = stockRow[w].opening /\ m.sentBack = stockRow[w].sentBack
      /\ m.numbered = stockRow[w].numbered
  BY <1>1, <1>2, MovedRow DEF CostDelta
<1>4. m.moves # 0
  BY <1>2, <1>3 DEF StockRow
<1>5. UnitCost(stockRow[w], type, given) \in Int
  BY <1>2 DEF UnitCost, StockRow
<1>6. PICK n : n = CostDelta(stockRow[w], type, d, given)
  OBVIOUS
<1>7. n \in Int
  BY <1>5, <1>6 DEF CostDelta
<1>8. Worth(m) = Worth(stockRow[w]) + n
  <2>1. /\ stockRow[w].value \in Int /\ stockRow[w].opening \in Int /\ stockRow[w].sentBack \in Int
    BY <1>2 DEF StockRow
  <2> QED
    BY <1>3, <1>6, <1>7, <2>1 DEF Worth
<1> QED
  BY <1>1, <1>3, <1>4, <1>6, <1>7, <1>8 DEF MovedFrom

(* The account gains n, up to half a cent for the entry, if there is one.   *)
Books(n) ==
  /\ gl' \in [Accounts -> Int] /\ entries' \in Nat
  /\ \E e \in Int : /\ gl'["inventory"] = gl["inventory"] + n + e
                    /\ 2 * Abs(e) <= Cent * (entries' - entries)

(* An entry of n, rounded to cents. *)
LEMMA Rounded ==
  ASSUME RowsOK, NEW n \in Int, NEW cents, cents = Nearest(n, Cent), NEW sign \in {1, -1},
         gl' \in [Accounts -> Int], gl'["inventory"] = gl["inventory"] + sign * cents,
         entries' = entries + 1
  PROVE  Books(sign * n)
<1>1. gl["inventory"] \in Int /\ entries \in Nat /\ Cent \in Nat \ {0}
  BY ValueAssumption DEF RowsOK, Accounts
<1>2. cents \in Int /\ 2 * Abs(cents - n) <= Cent
  BY <1>1, NearestIsNear
<1>3. PICK e \in Int : e = sign * cents - sign * n
  BY <1>2
<1>4. 2 * Abs(e) <= Cent
  BY <1>1, <1>2, <1>3 DEF Abs
<1>5. Cent * (entries' - entries) = Cent /\ entries' \in Nat
  BY <1>1
<1>6. gl'["inventory"] = gl["inventory"] + sign * n + e
  BY <1>1, <1>2, <1>3
<1> QED
  BY <1>4, <1>5, <1>6 DEF Books

(* postJournalEntry with the inventory account on one side. *)
LEMMA JournalIn ==
  ASSUME RowsOK, NEW c \in Accounts \ {"inventory"}, NEW n \in Int, Journal("inventory", c, n)
  PROVE  Books(n)
<1>1. PICK cents : cents = Nearest(n, Cent)
  OBVIOUS
<1>2. cents \in Int
  BY <1>1, NearestIsNear, ValueAssumption
<1>3. gl' = [gl EXCEPT !["inventory"] = @ + cents, ![c] = @ - cents] /\ entries' = entries + 1
  BY <1>1 DEF Journal
<1>4. gl' \in [Accounts -> Int] /\ gl'["inventory"] = gl["inventory"] + 1 * cents
  BY <1>2, <1>3 DEF RowsOK, Accounts
<1>5. Books(1 * n)
  BY <1>1, <1>3, <1>4, Rounded
<1> QED
  BY <1>5

(* postJournalEntry with the inventory account on the other side. *)
LEMMA JournalOut ==
  ASSUME RowsOK, NEW c \in Accounts \ {"inventory"}, NEW n \in Int, Journal(c, "inventory", n)
  PROVE  Books(-n)
<1>1. PICK cents : cents = Nearest(n, Cent)
  OBVIOUS
<1>2. cents \in Int
  BY <1>1, NearestIsNear, ValueAssumption
<1>3. gl' = [gl EXCEPT ![c] = @ + cents, !["inventory"] = @ - cents] /\ entries' = entries + 1
  BY <1>1 DEF Journal
<1>4. gl' \in [Accounts -> Int] /\ gl'["inventory"] = gl["inventory"] + (-1) * cents
  BY <1>2, <1>3 DEF RowsOK, Accounts
<1>5. Books((-1) * n)
  BY <1>1, <1>3, <1>4, Rounded
<1> QED
  BY <1>5

(* Nothing to post, nothing posted. *)
LEMMA NothingBooked == ASSUME RowsOK, UNCHANGED <<gl, entries>> PROVE Books(0)
<1>1. gl["inventory"] \in Int /\ entries \in Nat /\ Cent \in Nat
  BY ValueAssumption DEF RowsOK, Accounts
<1>2. Cent * (entries' - entries) = 0
  <2>1. entries' - entries = 0 /\ Cent * 0 = 0
    BY <1>1
  <2> QED
    BY <2>1
<1>3. gl'["inventory"] = gl["inventory"] + 0 + 0 /\ 2 * Abs(0) <= Cent * (entries' - entries)
  BY <1>1, <1>2 DEF Abs
<1> QED
  BY <1>1, <1>3 DEF Books, RowsOK

(* A caller that posts only what is positive, of an amount that is never negative. *)
LEMMA JournalOfIn ==
  ASSUME RowsOK, NEW c \in Accounts \ {"inventory"}, NEW n \in Nat, JournalOf("inventory", c, n)
  PROVE  Books(n)
<1>1. CASE n > 0
  BY <1>1, JournalIn DEF JournalOf
<1>2. CASE n = 0
  BY <1>2, NothingBooked DEF JournalOf
<1> QED
  BY <1>1, <1>2

(* The same with the inventory account on the other side. *)
LEMMA JournalOfOut ==
  ASSUME RowsOK, NEW c \in Accounts \ {"inventory"}, NEW n \in Nat, JournalOf(c, "inventory", n)
  PROVE  Books(-n)
<1>1. CASE n > 0
  BY <1>1, JournalOut DEF JournalOf
<1>2. CASE n = 0
  <2>1. UNCHANGED <<gl, entries>>
    BY <1>2 DEF JournalOf
  <2>2. Books(0)
    BY <2>1, NothingBooked
  <2> QED
    BY <1>2, <2>2
<1> QED
  BY <1>1, <1>2

(* An entry's rounding is a drift the step is allowed. *)
LEMMA RoundingDrifts ==
  ASSUME RowsOK, NEW w \in Warehouses, stockRow'[w].numbered = stockRow[w].numbered,
         NEW e \in Int, 2 * Abs(e) <= Cent * (entries' - entries), entries' \in Nat
  PROVE  Drifts(e, w)
<1>1. stockRow[w].numbered \in Int /\ entries \in Nat /\ Cent \in Int /\ Grain \in Int
  BY ValueAssumption DEF RowsOK, StockOK, StockRow
<1>2. stockRow'[w].numbered - stockRow[w].numbered = 0
  BY <1>1
<1>3. Grain * (stockRow'[w].numbered - stockRow[w].numbered) = 0
  BY <1>1, <1>2
<1>4. PICK cc : cc = Cent * (entries' - entries)
  OBVIOUS
<1>5. cc \in Int
  BY <1>1, <1>4
<1> QED
  BY <1>3, <1>4, <1>5 DEF Drifts

(* A step that writes row x into warehouse w. *)
LEMMA RowPut ==
  ASSUME RowsOK, NEW w \in Warehouses, NEW x \in StockRow, IsNear(x), x.moves # 0,
         stockRow' = [stockRow EXCEPT ![w] = x]
  PROVE  /\ StockOK(stockRow') /\ stockRow'[w] = x
         /\ \A v \in Warehouses \ {w} : stockRow'[v] = stockRow[v]
<1>1. PICK a, b : a = stockRow /\ b = stockRow'
  OBVIOUS
<1>2. StockOK(a) /\ b = [a EXCEPT ![w] = x]
  BY <1>1 DEF RowsOK
<1>3. /\ b \in [Warehouses -> StockRow] /\ b[w] = x
      /\ \A v \in Warehouses \ {w} : b[v] = a[v]
  BY <1>2 DEF StockOK
<1>4. x.moves = 0 => x.opening = 0
  OBVIOUS
<1>5. StockOK(b)
  BY <1>2, <1>3, <1>4, StockWritten
<1> QED
  BY <1>1, <1>3, <1>5

(* One movement on hand and nothing else of the stock. *)
LEMMA MoveResult ==
  ASSUME RowsOK, NEW w \in Warehouses, NEW type, NEW d \in Int, NEW given \in Int,
         Move(w, type, d, given)
  PROVE  /\ StockOK(stockRow')
         /\ \A v \in Warehouses \ {w} : stockRow'[v] = stockRow[v]
         /\ stockRow'[w].opening = stockRow[w].opening /\ stockRow'[w].sentBack = stockRow[w].sentBack
         /\ stockRow'[w].numbered = stockRow[w].numbered
         /\ Worth(stockRow'[w]) = Worth(stockRow[w]) + CostDelta(stockRow[w], type, d, given)
         /\ CostDelta(stockRow[w], type, d, given) \in Int
<1>1. PICK m : m = Moved(stockRow[w], type, d, given)
  OBVIOUS
<1>2. MayRevalue(stockRow[w], type, d, given) /\ stockRow' = [stockRow EXCEPT ![w] = m]
  BY <1>1 DEF Move
<1>3. MovedFrom(stockRow[w], m, CostDelta(stockRow[w], type, d, given))
  BY <1>1, <1>2, Moving
<1>4. /\ StockOK(stockRow') /\ stockRow'[w] = m
      /\ \A v \in Warehouses \ {w} : stockRow'[v] = stockRow[v]
  BY <1>2, <1>3, RowPut DEF MovedFrom
<1> QED
  BY <1>3, <1>4 DEF MovedFrom

(* What a row keeps of its quantity, average and value it keeps in IsNear. *)
LEMMA NearKept ==
  ASSUME NEW m \in StockRow, IsNear(m), NEW n, n.qty = m.qty, n.avg = m.avg, n.value = m.value,
         n.moves = m.moves
  PROVE  IsNear(n)
BY DEF IsNear

(* A step that changes stock and one journal of what the row gains.        *)
LEMMA StockStep ==
  ASSUME ValueInv, StockOK(stockRow'), NEW w \in Warehouses,
         \A v \in Warehouses \ {w} : stockRow'[v] = stockRow[v],
         gl' \in [Accounts -> Int], entries' \in Nat, NEW e \in Int, Drifts(e, w),
         gl'["inventory"] = gl["inventory"] + (Worth(stockRow'[w]) - Worth(stockRow[w])) + e,
         UNCHANGED <<purchase, sale, transfer>>
  PROVE  ValueInv'
<1>1. RowsOK'
  BY DEF ValueInv, RowsOK
<1>2. /\ RoadWorth(transfer) \in Int /\ CreditedWorth(purchase) \in Int /\ UnmatchedWorth(sale) \in Int
  BY WorthInt DEF ValueInv
<1>3. /\ RoadWorth(transfer') = RoadWorth(transfer)
      /\ CreditedWorth(purchase') = CreditedWorth(purchase)
      /\ UnmatchedWorth(sale') = UnmatchedWorth(sale)
      /\ RoadWorth(transfer') \in Int /\ CreditedWorth(purchase') \in Int /\ UnmatchedWorth(sale') \in Int
  BY <1>2
<1>4. stockRow[w] \in StockRow /\ stockRow'[w] \in StockRow
  BY DEF ValueInv, RowsOK, StockOK
<1>5. Worth(stockRow[w]) \in Int /\ Worth(stockRow'[w]) \in Int /\ gl["inventory"] \in Int
  BY <1>4 DEF Worth, StockRow, ValueInv, RowsOK, Accounts
<1>6. gl'["inventory"] = gl["inventory"] + (Worth(stockRow'[w]) - Worth(stockRow[w]))
                              + (RoadWorth(transfer') - RoadWorth(transfer))
                              - (CreditedWorth(purchase') - CreditedWorth(purchase))
                              + (UnmatchedWorth(sale') - UnmatchedWorth(sale)) + e
  BY <1>2, <1>3, <1>5
<1>7. OnlyRow(stockRow, stockRow', w)
  BY DEF OnlyRow
<1>8. InventoryAccount'
  BY <1>1, <1>3, <1>6, <1>7, AccountStep
<1> QED
  BY <1>1, <1>8 DEF ValueInv

(* postInventoryVarianceJournal of a row that keeps what was opened and sent back. *)
LEMMA VarianceStep ==
  ASSUME ValueInv, StockOK(stockRow'), NEW w \in Warehouses,
         \A v \in Warehouses \ {w} : stockRow'[v] = stockRow[v],
         stockRow'[w].opening = stockRow[w].opening, stockRow'[w].sentBack = stockRow[w].sentBack,
         stockRow'[w].numbered = stockRow[w].numbered,
         VarianceJournal(w), UNCHANGED <<purchase, sale, transfer>>
  PROVE  ValueInv'
<1>1. PICK n : n = stockRow'[w].value - stockRow[w].value
  OBVIOUS
<1>2. stockRow[w] \in StockRow /\ stockRow'[w] \in StockRow /\ RowsOK
  BY DEF ValueInv, RowsOK, StockOK
<1>3. n \in Int /\ n = Worth(stockRow'[w]) - Worth(stockRow[w])
  BY <1>1, <1>2 DEF Worth, StockRow
<1>4. Books(n)
  <2>1. CASE n < 0
    <3>1. Journal("variance", "inventory", -n)
      BY <1>1, <2>1 DEF VarianceJournal
    <3>2. Books(-(-n))
      BY <1>2, <1>3, <3>1, JournalOut DEF Accounts
    <3> QED
      BY <1>3, <3>2
  <2>2. CASE n >= 0
    <3>1. JournalOf("inventory", "variance", n)
      BY <1>1, <1>3, <2>2 DEF VarianceJournal
    <3> QED
      BY <1>2, <1>3, <2>2, <3>1, JournalOfIn DEF Accounts
  <2> QED
    BY <1>3, <2>1, <2>2
<1>5. PICK e \in Int : /\ gl'["inventory"] = gl["inventory"] + n + e
                       /\ 2 * Abs(e) <= Cent * (entries' - entries)
  BY <1>4 DEF Books
<1>6. gl' \in [Accounts -> Int] /\ entries' \in Nat
  BY <1>4 DEF Books
<1>7. Drifts(e, w)
  BY <1>2, <1>5, <1>6, RoundingDrifts
<1>8. gl'["inventory"] = gl["inventory"] + (Worth(stockRow'[w]) - Worth(stockRow[w])) + e
  BY <1>3, <1>5
<1> QED
  BY <1>6, <1>7, <1>8, StockStep

(* An adjustment or a count: one movement and its variance journal. *)
LEMMA AdjustStep ==
  ASSUME ValueInv, NEW w \in Warehouses, NEW type, NEW d \in Int, NEW given \in Int,
         Move(w, type, d, given), VarianceJournal(w), UNCHANGED <<purchase, sale, transfer>>
  PROVE  ValueInv'
<1>1. RowsOK
  BY DEF ValueInv
<1>2. /\ StockOK(stockRow')
      /\ \A v \in Warehouses \ {w} : stockRow'[v] = stockRow[v]
      /\ stockRow'[w].opening = stockRow[w].opening /\ stockRow'[w].sentBack = stockRow[w].sentBack
      /\ stockRow'[w].numbered = stockRow[w].numbered
      /\ Worth(stockRow'[w]) = Worth(stockRow[w]) + CostDelta(stockRow[w], type, d, given)
      /\ CostDelta(stockRow[w], type, d, given) \in Int
  BY <1>1, MoveResult
<1> QED
  BY <1>2, VarianceStep

(* postStockAdjustment of stock added at a cost. *)
LEMMA AddKeepsValue ==
  ASSUME ValueInv, NEW w \in Warehouses, NEW q \in Int, NEW c \in Int, AddStock(w, q, c)
  PROVE  ValueInv'
<1>1. PICK type : type = "adjustment_in"
  OBVIOUS
<1>2. Move(w, type, q, c) /\ VarianceJournal(w) /\ UNCHANGED <<purchase, sale, transfer>>
  BY <1>1 DEF AddStock
<1> QED
  BY <1>2, AdjustStep

(* postStockAdjustment of stock taken away. *)
LEMMA SubtractKeepsValue ==
  ASSUME ValueInv, NEW w \in Warehouses, NEW q \in Int, SubtractStock(w, q)
  PROVE  ValueInv'
<1>1. PICK type, d, given : type = "adjustment_out" /\ d = -q /\ given = 0
  OBVIOUS
<1>2. Move(w, type, d, given) /\ VarianceJournal(w) /\ UNCHANGED <<purchase, sale, transfer>>
  BY <1>1 DEF SubtractStock
<1>3. d \in Int /\ given \in Int
  BY <1>1
<1> QED
  BY <1>2, <1>3, AdjustStep

(* postStockCount of a gain or a loss. *)
LEMMA CountKeepsValue ==
  ASSUME ValueInv, NEW w \in Warehouses, NEW d \in Int, PostStockCount(w, d)
  PROVE  ValueInv'
<1>1. stockRow[w] \in StockRow
  BY DEF ValueInv, RowsOK, StockOK
<1>2. PICK type, given : /\ type = (IF d > 0 THEN "stock_count_gain" ELSE "stock_count_loss")
                         /\ given = stockRow[w].avg
  OBVIOUS
<1>3. Move(w, type, d, given) /\ VarianceJournal(w) /\ UNCHANGED <<purchase, sale, transfer>>
  BY <1>2 DEF PostStockCount
<1>4. given \in Int
  BY <1>1, <1>2 DEF StockRow
<1> QED
  BY <1>3, <1>4, AdjustStep

(* x is the row m with another damaged quantity or transit. *)
SameValue(m, x) ==
  /\ x \in StockRow /\ x.qty = m.qty /\ x.avg = m.avg /\ x.value = m.value /\ x.moves = m.moves
  /\ x.opening = m.opening /\ x.sentBack = m.sentBack /\ x.numbered = m.numbered

(* Such a row is worth the same and as near its average. *)
LEMMA RowRelabelled ==
  ASSUME NEW m \in StockRow, IsNear(m), m.moves # 0, NEW x, SameValue(m, x)
  PROVE  /\ IsNear(x) /\ x.moves # 0 /\ x.opening = m.opening /\ x.sentBack = m.sentBack
         /\ x.numbered = m.numbered /\ x \in StockRow /\ Worth(x) = Worth(m)
<1>1. IsNear(x)
  BY NearKept DEF SameValue
<1>2. Worth(x) = Worth(m)
  BY DEF Worth, SameValue
<1> QED
  BY <1>1, <1>2 DEF SameValue

(* postStockAdjustment of goods found damaged. *)
LEMMA DamageKeepsValue ==
  ASSUME ValueInv, NEW w \in Warehouses, NEW q \in Int, DamageStock(w, q)
  PROVE  ValueInv'
<1>1. RowsOK /\ stockRow[w] \in StockRow
  BY DEF ValueInv, RowsOK, StockOK
<1>2. PICK d \in Int, given \in Int : d = -q /\ given = 0
  BY <1>1 DEF StockRow
<1>3. PICK type : type = "adjustment_out"
  OBVIOUS
<1>4. MayRevalue(stockRow[w], type, d, given)
  BY <1>1, <1>2, <1>3 DEF DamageStock, StockRow
<1>5. PICK m : m = Moved(stockRow[w], type, d, given)
  OBVIOUS
<1>6. MovedFrom(stockRow[w], m, CostDelta(stockRow[w], type, d, given))
  BY <1>1, <1>4, <1>5, Moving
<1>7. PICK x : x = [m EXCEPT !.damaged = @ + q]
  OBVIOUS
<1>8. SameValue(m, x)
  BY <1>6, <1>7 DEF StockRow, SameValue, MovedFrom
<1>9. /\ IsNear(x) /\ x.moves # 0 /\ x.opening = m.opening /\ x.sentBack = m.sentBack
      /\ x.numbered = m.numbered /\ x \in StockRow /\ Worth(x) = Worth(m)
  BY <1>6, <1>8, RowRelabelled DEF MovedFrom
<1>10. [Moved(stockRow[w], "adjustment_out", -q, 0) EXCEPT !.damaged = @ + q] = x
  BY <1>3, <1>2, <1>5, <1>7
<1>11. stockRow' = [stockRow EXCEPT ![w] = x] /\ VarianceJournal(w) /\ UNCHANGED <<purchase, sale, transfer>>
  BY <1>10, Zenon DEF DamageStock
<1>12. /\ StockOK(stockRow') /\ stockRow'[w] = x
       /\ \A v \in Warehouses \ {w} : stockRow'[v] = stockRow[v]
  BY <1>1, <1>9, <1>11, RowPut
<1> QED
  BY <1>6, <1>9, <1>11, <1>12, VarianceStep DEF MovedFrom

(* postStockAdjustment of damaged goods recovered. *)
LEMMA RecoverKeepsValue ==
  ASSUME ValueInv, NEW w \in Warehouses, NEW q \in Int, RecoverStock(w, q)
  PROVE  ValueInv'
<1>1. RowsOK /\ stockRow[w] \in StockRow
  BY DEF ValueInv, RowsOK, StockOK
<1>2. PICK d \in Int, given \in Int : d = q /\ given = AsNumber(stockRow[w].avg)
  <2>1. stockRow[w].avg \in Int
    BY <1>1 DEF StockRow
  <2> QED
    BY <2>1, NumberIsNear
<1>3. PICK type : type = "adjustment_in"
  OBVIOUS
<1>4. MayRevalue(stockRow[w], type, d, given)
  BY <1>1, <1>2, <1>3 DEF RecoverStock, StockRow
<1>5. PICK m : m = Moved(stockRow[w], type, d, given)
  OBVIOUS
<1>6. MovedFrom(stockRow[w], m, CostDelta(stockRow[w], type, d, given))
  BY <1>1, <1>4, <1>5, Moving
<1>7. PICK x : x = [m EXCEPT !.damaged = @ - q]
  OBVIOUS
<1>8. SameValue(m, x)
  BY <1>6, <1>7 DEF StockRow, SameValue, MovedFrom
<1>9. /\ IsNear(x) /\ x.moves # 0 /\ x.opening = m.opening /\ x.sentBack = m.sentBack
      /\ x.numbered = m.numbered /\ x \in StockRow /\ Worth(x) = Worth(m)
  BY <1>6, <1>8, RowRelabelled DEF MovedFrom
<1>10. [Moved(stockRow[w], "adjustment_in", q, AsNumber(stockRow[w].avg)) EXCEPT !.damaged = @ - q] = x
  BY <1>3, <1>2, <1>5, <1>7
<1>11. stockRow' = [stockRow EXCEPT ![w] = x] /\ VarianceJournal(w) /\ UNCHANGED <<purchase, sale, transfer>>
  BY <1>10, Zenon DEF RecoverStock
<1>12. /\ StockOK(stockRow') /\ stockRow'[w] = x
       /\ \A v \in Warehouses \ {w} : stockRow'[v] = stockRow[v]
  BY <1>1, <1>9, <1>11, RowPut
<1> QED
  BY <1>6, <1>9, <1>11, <1>12, VarianceStep DEF MovedFrom

(* The terms of the tables a step leaves alone. *)
LEMMA SameWorth ==
  ASSUME RowsOK
  PROVE  /\ UNCHANGED transfer => RoadWorth(transfer') = RoadWorth(transfer) /\ RoadWorth(transfer') \in Int
         /\ UNCHANGED purchase => CreditedWorth(purchase') = CreditedWorth(purchase) /\ CreditedWorth(purchase') \in Int
         /\ UNCHANGED sale => UnmatchedWorth(sale') = UnmatchedWorth(sale) /\ UnmatchedWorth(sale') \in Int
BY WorthInt

(* Rows that keep what they are worth, term by term. *)
LEMMA OtherRows ==
  ASSUME NEW w, \A v \in Warehouses \ {w} : stockRow'[v] = stockRow[v]
  PROVE  OnlyRow(stockRow, stockRow', w)
BY DEF OnlyRow

(* postOpeningStock: what is opened is kept out of the account, and recorded as such. *)
LEMMA OpeningKeepsValue ==
  ASSUME ValueInv, NEW w \in Warehouses, NEW q \in Int, NEW c \in Int, PostOpeningStock(w, q, c)
  PROVE  ValueInv'
<1>1. /\ RowsOK /\ stockRow[w] \in StockRow
      /\ stockRow[w].moves = 0 => stockRow[w].opening = 0
  BY DEF ValueInv, RowsOK, StockOK
<1>2. PICK type : type = "opening_stock"
  OBVIOUS
<1>3. MayRevalue(stockRow[w], type, q, c) /\ stockRow[w].moves = 0
  BY <1>2 DEF PostOpeningStock
<1>4. PICK m : m = Moved(stockRow[w], type, q, c)
  OBVIOUS
<1>5. MovedFrom(stockRow[w], m, CostDelta(stockRow[w], type, q, c))
  BY <1>1, <1>3, <1>4, Moving
<1>6. PICK n : n = q * c
  OBVIOUS
<1>7. CostDelta(stockRow[w], type, q, c) = n /\ n \in Int
  BY <1>2, <1>6 DEF CostDelta, UnitCost, OutboundTypes
<1>8. PICK x : x = [m EXCEPT !.opening = n]
  OBVIOUS
<1>9. /\ x \in StockRow /\ x.qty = m.qty /\ x.avg = m.avg /\ x.value = m.value /\ x.moves = m.moves
      /\ x.opening = n /\ x.sentBack = m.sentBack /\ x.numbered = m.numbered
  BY <1>5, <1>7, <1>8 DEF StockRow, MovedFrom
<1>10. IsNear(x) /\ x.moves # 0
  BY <1>5, <1>9, NearKept DEF MovedFrom
<1>11. Worth(x) = Worth(stockRow[w])
  <2>1. /\ m.value = stockRow[w].value + n /\ m.sentBack = stockRow[w].sentBack
    BY <1>5, <1>7 DEF MovedFrom
  <2>2. stockRow[w].value \in Int /\ stockRow[w].sentBack \in Int /\ stockRow[w].opening = 0
    BY <1>1, <1>3 DEF StockRow
  <2> QED
    BY <1>7, <1>9, <2>1, <2>2 DEF Worth
<1>12. stockRow' = [stockRow EXCEPT ![w] = x] /\ UNCHANGED <<purchase, sale, transfer, gl, entries>>
  BY <1>2, <1>4, <1>6, <1>8 DEF PostOpeningStock
<1>13. /\ StockOK(stockRow') /\ stockRow'[w] = x
       /\ \A v \in Warehouses \ {w} : stockRow'[v] = stockRow[v]
  BY <1>1, <1>9, <1>10, <1>12, RowPut
<1>14. PICK e \in Int : /\ gl'["inventory"] = gl["inventory"] + 0 + e
                        /\ 2 * Abs(e) <= Cent * (entries' - entries)
  BY <1>1, <1>12, NothingBooked DEF Books
<1>15. gl' \in [Accounts -> Int] /\ entries' \in Nat
  BY <1>1, <1>12 DEF RowsOK
<1>16. Drifts(e, w)
  <2>1. stockRow'[w].numbered = stockRow[w].numbered
    BY <1>5, <1>9, <1>13 DEF MovedFrom
  <2> QED
    BY <1>1, <1>14, <1>15, <2>1, RoundingDrifts
<1>17. gl'["inventory"] = gl["inventory"] + (Worth(stockRow'[w]) - Worth(stockRow[w])) + e
  <2>1. Worth(stockRow[w]) \in Int /\ gl \in [Accounts -> Int] /\ gl["inventory"] \in Int
    BY <1>1, WorthType DEF RowsOK, Accounts
  <2> QED
    BY <1>11, <1>12, <1>13, <1>14, <2>1
<1> QED
  BY <1>12, <1>13, <1>15, <1>16, <1>17, StockStep

(* receivePurchase: the row gains and the account is debited the price paid. *)
LEMMA ReceiveKeepsValue ==
  ASSUME ValueInv, NEW p \in Purchases, NEW q \in Nat, ReceivePurchase(p, q)
  PROVE  ValueInv'
<1>1. RowsOK /\ Site[p] \in Warehouses /\ Price[p] \in Nat
  BY ValueAssumption DEF ValueInv
<1>2. PICK w \in Warehouses, price \in Nat, n \in Nat : w = Site[p] /\ price = Price[p] /\ n = q * price
  BY <1>1
<1>3. PICK type : type = "purchase_receive"
  OBVIOUS
<1>4. Move(w, type, q, price) /\ JournalOf("inventory", "clearing", n) /\ UNCHANGED <<sale, transfer>>
  BY <1>2, <1>3 DEF ReceivePurchase
<1>5. /\ StockOK(stockRow')
      /\ \A v \in Warehouses \ {w} : stockRow'[v] = stockRow[v]
      /\ stockRow'[w].opening = stockRow[w].opening /\ stockRow'[w].sentBack = stockRow[w].sentBack
      /\ stockRow'[w].numbered = stockRow[w].numbered
      /\ Worth(stockRow'[w]) = Worth(stockRow[w]) + CostDelta(stockRow[w], type, q, price)
      /\ CostDelta(stockRow[w], type, q, price) \in Int
  BY <1>1, <1>4, MoveResult
<1>6. CostDelta(stockRow[w], type, q, price) = n
  BY <1>2, <1>3 DEF CostDelta, UnitCost, OutboundTypes
<1>7. Books(n)
  BY <1>1, <1>4, JournalOfIn DEF Accounts
<1>8. PICK e \in Int : /\ gl'["inventory"] = gl["inventory"] + n + e
                       /\ 2 * Abs(e) <= Cent * (entries' - entries)
  BY <1>7 DEF Books
<1>9. gl' \in [Accounts -> Int] /\ entries' \in Nat
  BY <1>7 DEF Books
<1>10. Drifts(e, w)
  BY <1>1, <1>5, <1>8, <1>9, RoundingDrifts
<1>11. /\ purchase' \in [Purchases -> PurchaseRow]
       /\ \A o \in Purchases : purchase'[o].returned = purchase[o].returned
  <2>1. PICK k, status :
          /\ k = purchase[p].received + q
          /\ status = (IF purchase[p].received + q = Ordered[p] THEN "received" ELSE "partially_received")
    OBVIOUS
  <2>2. purchase[p] \in PurchaseRow /\ purchase \in [Purchases -> PurchaseRow]
    BY <1>1 DEF RowsOK
  <2>3. k \in Int /\ status \in {"received", "partially_received"}
    BY <2>1, <2>2 DEF PurchaseRow
  <2>4. PICK row : row = [purchase[p] EXCEPT !.received = k, !.status = status]
    OBVIOUS
  <2>5. row \in PurchaseRow /\ row.returned = purchase[p].returned
    BY <2>2, <2>3, <2>4 DEF PurchaseRow
  <2>6. purchase' = [purchase EXCEPT ![p] = row]
    BY <2>1, <2>2, <2>4 DEF ReceivePurchase
  <2> QED
    BY <2>2, <2>5, <2>6
<1>12. RowsOK'
  BY <1>1, <1>4, <1>5, <1>9, <1>11 DEF RowsOK
<1>13. CreditedWorth(purchase') = CreditedWorth(purchase) /\ CreditedWorth(purchase') \in Int
  <2>1. PICK a, b : a = purchase /\ b = purchase'
    OBVIOUS
  <2>2. /\ a \in [Purchases -> PurchaseRow] /\ b \in [Purchases -> PurchaseRow]
        /\ \A o \in Purchases \ {p} : b[o].returned = a[o].returned
        /\ b[p].returned = a[p].returned
    BY <1>1, <1>11, <2>1 DEF RowsOK
  <2>3. /\ CreditedWorth(a) \in Int
        /\ CreditedWorth(b) = CreditedWorth(a) - a[p].returned * Credit(p) + b[p].returned * Credit(p)
    BY <2>2, CreditedChange
  <2>4. PICK k \in Int : k = a[p].returned * Credit(p)
    BY <2>2, CreditInt DEF PurchaseRow
  <2>5. CreditedWorth(b) = CreditedWorth(a) - k + k
    BY <2>2, <2>3, <2>4
  <2> QED
    BY <2>1, <2>3, <2>5
<1>14. /\ RoadWorth(transfer') = RoadWorth(transfer) /\ RoadWorth(transfer') \in Int
       /\ UnmatchedWorth(sale') = UnmatchedWorth(sale) /\ UnmatchedWorth(sale') \in Int
  BY <1>1, <1>4, SameWorth
<1>15. gl'["inventory"] = gl["inventory"] + (Worth(stockRow'[w]) - Worth(stockRow[w]))
                              + (RoadWorth(transfer') - RoadWorth(transfer))
                              - (CreditedWorth(purchase') - CreditedWorth(purchase))
                              + (UnmatchedWorth(sale') - UnmatchedWorth(sale)) + e
  <2>1. Worth(stockRow[w]) \in Int /\ gl["inventory"] \in Int
    BY <1>1, WorthType DEF RowsOK, StockOK, Accounts
  <2> QED
    BY <1>5, <1>6, <1>8, <1>13, <1>14, <2>1
<1>16. OnlyRow(stockRow, stockRow', w)
  BY <1>5, OtherRows
<1>17. InventoryAccount'
  BY <1>10, <1>12, <1>13, <1>14, <1>15, <1>16, AccountStep
<1> QED
  BY <1>12, <1>17 DEF ValueInv

(* Every line of a return to the supplier leaves the row at its average,   *)
(* what the lines took is booked in sentBack and the price paid is credited *)
LEMMA ReturnStep ==
  ASSUME ValueInv, NEW p \in Purchases, NEW w \in Warehouses, NEW q \in Int,
         NEW after \in StockRow, IsNear(after), after.moves # 0,
         after.opening = stockRow[w].opening, after.sentBack = stockRow[w].sentBack, after.numbered = stockRow[w].numbered,
         stockRow' = [stockRow EXCEPT ![w] = [after EXCEPT !.sentBack = @ + stockRow[w].value - after.value]],
         purchase' = [purchase EXCEPT ![p].returned = @ + q],
         Journal("payable", "inventory", q * Credit(p)),
         UNCHANGED <<sale, transfer>>
  PROVE  ValueInv'
<1>1. RowsOK /\ Credit(p) \in Int /\ stockRow[w] \in StockRow
  BY CreditInt DEF ValueInv, RowsOK, StockOK
<1>2. PICK n \in Int : n = q * Credit(p)
  BY <1>1
<1>3. PICK sent \in Int : sent = after.sentBack + stockRow[w].value - after.value
  BY <1>1 DEF StockRow
<1>4. PICK x : x = [after EXCEPT !.sentBack = sent]
  OBVIOUS
<1>5. /\ x \in StockRow /\ x.qty = after.qty /\ x.avg = after.avg /\ x.value = after.value
      /\ x.moves = after.moves /\ x.opening = after.opening /\ x.sentBack = sent
      /\ x.numbered = after.numbered
  BY <1>4 DEF StockRow
<1>6. IsNear(x) /\ x.moves # 0
  BY <1>5, NearKept
<1>7. stockRow' = [stockRow EXCEPT ![w] = x]
  BY <1>3, <1>4
<1>8. /\ StockOK(stockRow') /\ stockRow'[w] = x
      /\ \A v \in Warehouses \ {w} : stockRow'[v] = stockRow[v]
  BY <1>1, <1>5, <1>6, <1>7, RowPut
<1>9. Worth(stockRow'[w]) = Worth(stockRow[w]) /\ Worth(stockRow[w]) \in Int
  <2>1. /\ after.value \in Int /\ after.sentBack \in Int /\ after.opening \in Int
        /\ stockRow[w].value \in Int /\ stockRow[w].sentBack \in Int /\ stockRow[w].opening \in Int
    BY <1>1 DEF StockRow
  <2> QED
    BY <1>3, <1>5, <1>8, <2>1 DEF Worth
<1>10. Books(-n)
  <2>1. Journal("payable", "inventory", n)
    BY <1>2
  <2> QED
    BY <1>1, <2>1, JournalOut DEF Accounts
<1>11. PICK e \in Int : /\ gl'["inventory"] = gl["inventory"] + (-n) + e
                        /\ 2 * Abs(e) <= Cent * (entries' - entries)
  BY <1>10 DEF Books
<1>12. gl' \in [Accounts -> Int] /\ entries' \in Nat
  BY <1>10 DEF Books
<1>13. Drifts(e, w)
  BY <1>1, <1>5, <1>8, <1>11, <1>12, RoundingDrifts
<1>14. PICK k \in Int : k = purchase[p].returned + q
  BY <1>1 DEF RowsOK, PurchaseRow
<1>15. /\ purchase' \in [Purchases -> PurchaseRow] /\ purchase'[p].returned = k
       /\ \A o \in Purchases \ {p} : purchase'[o] = purchase[o]
  <2>1. purchase[p] \in PurchaseRow /\ purchase \in [Purchases -> PurchaseRow]
    BY <1>1 DEF RowsOK
  <2>2. PICK row : row = [purchase[p] EXCEPT !.returned = k]
    OBVIOUS
  <2>3. row \in PurchaseRow /\ row.returned = k
    BY <2>1, <2>2 DEF PurchaseRow
  <2>4. purchase' = [purchase EXCEPT ![p] = row]
    BY <1>14, <2>1, <2>2
  <2> QED
    BY <2>1, <2>3, <2>4
<1>16. RowsOK'
  BY <1>1, <1>8, <1>12, <1>15 DEF RowsOK
<1>17. /\ CreditedWorth(purchase') = CreditedWorth(purchase) + n
       /\ CreditedWorth(purchase') \in Int /\ CreditedWorth(purchase) \in Int
  <2>1. PICK a, b : a = purchase /\ b = purchase'
    OBVIOUS
  <2>2. /\ a \in [Purchases -> PurchaseRow] /\ b \in [Purchases -> PurchaseRow]
        /\ \A o \in Purchases \ {p} : b[o].returned = a[o].returned
        /\ b[p].returned = a[p].returned + q
        /\ a[p].returned \in Int
    BY <1>1, <1>14, <1>15, <2>1 DEF RowsOK, PurchaseRow
  <2>3. /\ CreditedWorth(a) \in Int
        /\ CreditedWorth(b) = CreditedWorth(a) - a[p].returned * Credit(p) + b[p].returned * Credit(p)
    BY <2>2, CreditedChange
  <2>4. PICK g \in Int, r \in Int : r = a[p].returned /\ g = r * Credit(p)
    BY <1>1, <2>2
  <2>5. (r + q) * Credit(p) = g + n
    BY <1>1, <1>2, <2>4
  <2>6. CreditedWorth(b) = CreditedWorth(a) - g + (g + n)
    BY <2>2, <2>3, <2>4, <2>5
  <2> QED
    BY <2>1, <2>3, <2>6
<1>18. /\ RoadWorth(transfer') = RoadWorth(transfer) /\ RoadWorth(transfer') \in Int
       /\ UnmatchedWorth(sale') = UnmatchedWorth(sale) /\ UnmatchedWorth(sale') \in Int
  BY <1>1, SameWorth
<1>19. gl'["inventory"] = gl["inventory"] + (Worth(stockRow'[w]) - Worth(stockRow[w]))
                              + (RoadWorth(transfer') - RoadWorth(transfer))
                              - (CreditedWorth(purchase') - CreditedWorth(purchase))
                              + (UnmatchedWorth(sale') - UnmatchedWorth(sale)) + e
  <2>1. gl["inventory"] \in Int
    BY <1>1 DEF RowsOK, Accounts
  <2> QED
    BY <1>9, <1>11, <1>17, <1>18, <2>1
<1>20. OnlyRow(stockRow, stockRow', w)
  BY <1>8, OtherRows
<1>21. InventoryAccount'
  BY <1>13, <1>16, <1>17, <1>18, <1>19, <1>20, AccountStep
<1> QED
  BY <1>16, <1>21 DEF ValueInv

(* The quantities of one line, and of two. *)
LEMMA LineSums ==
  ASSUME NEW q \in Int, NEW r \in Int
  PROVE  SumFunction(<<q>>) = q /\ SumFunction(<<q, r>>) = q + r
<1>1. PICK f, g : f = <<q>> /\ g = <<q, r>>
  OBVIOUS
<1>2. /\ DOMAIN f = {} \cup {1} /\ f[1] = q
      /\ DOMAIN g = {1} \cup {2} /\ g[1] = q /\ g[2] = r
      /\ 1 \notin {} /\ 2 \notin {1} /\ {1} = {} \cup {1}
  BY <1>1
<1>3. IsFiniteSet({})
  BY FS_EmptySet
<1>4. IsFiniteSet({1})
  BY FS_Singleton
<1>5. /\ SumFunctionOnSet(f, {} \cup {1}) = f[1] + SumFunctionOnSet(f, {})
      /\ SumFunctionOnSet(g, {} \cup {1}) = g[1] + SumFunctionOnSet(g, {})
      /\ SumFunctionOnSet(g, {1} \cup {2}) = g[2] + SumFunctionOnSet(g, {1})
  BY <1>2, <1>3, <1>4, SumAdd
<1>6. SumFunctionOnSet(f, {}) = 0 /\ SumFunctionOnSet(g, {}) = 0
  BY SumEmpty
<1> QED
  BY <1>1, <1>2, <1>5, <1>6 DEF SumFunction

(* postPurchaseReturn of one line. *)
LEMMA ReturnOneKeepsValue ==
  ASSUME ValueInv, NEW p \in Purchases, NEW w \in Warehouses, NEW q \in Int, PostPurchaseReturn(p, w, <<q>>)
  PROVE  ValueInv'
<1>1. RowsOK /\ stockRow[w] \in StockRow /\ Credit(p) \in Int
  BY CreditInt DEF ValueInv, RowsOK, StockOK
<1>2. PICK d \in Int, given \in Int : d = -q /\ given = Credit(p)
  BY <1>1
<1>3. PICK type : type = "purchase_return_issue"
  OBVIOUS
<1>4. PICK after : after = Moved(stockRow[w], type, d, given)
  OBVIOUS
<1>5. MayRevalue(stockRow[w], type, d, given)
  BY <1>2, <1>3 DEF PostPurchaseReturn, Credit
<1>6. MovedFrom(stockRow[w], after, CostDelta(stockRow[w], type, d, given))
  BY <1>1, <1>4, <1>5, Moving
<1>7. SumFunction(<<q>>) = q
  BY LineSums
<1>8. /\ stockRow' = [stockRow EXCEPT ![w] = [after EXCEPT !.sentBack = @ + stockRow[w].value - after.value]]
      /\ purchase' = [purchase EXCEPT ![p].returned = @ + q]
      /\ Journal("payable", "inventory", q * Credit(p))
      /\ UNCHANGED <<sale, transfer>>
  BY <1>2, <1>3, <1>4, <1>7 DEF PostPurchaseReturn, Credit
<1> QED
  BY <1>6, <1>8, ReturnStep DEF MovedFrom

(* postPurchaseReturn of two lines: the second is valued on the row the first leaves. *)
LEMMA ReturnTwoKeepsValue ==
  ASSUME ValueInv, NEW p \in Purchases, NEW w \in Warehouses, NEW q \in Int, NEW r \in Int,
         PostPurchaseReturn(p, w, <<q, r>>)
  PROVE  ValueInv'
<1>1. RowsOK /\ stockRow[w] \in StockRow /\ Credit(p) \in Int
  BY CreditInt DEF ValueInv, RowsOK, StockOK
<1>2. PICK d \in Int, e \in Int, given \in Int, n \in Int : d = -q /\ e = -r /\ given = Credit(p) /\ n = q + r
  BY <1>1
<1>3. PICK type : type = "purchase_return_issue"
  OBVIOUS
<1>4. PICK one : one = Moved(stockRow[w], type, d, given)
  OBVIOUS
<1>5. PICK after : after = Moved(one, type, e, given)
  OBVIOUS
<1>6. MayRevalue(stockRow[w], type, d, given) /\ MayRevalue(one, type, e, given)
  BY <1>2, <1>3, <1>4 DEF PostPurchaseReturn, Credit
<1>7. MovedFrom(stockRow[w], one, CostDelta(stockRow[w], type, d, given))
  BY <1>1, <1>4, <1>6, Moving
<1>8. /\ after \in StockRow /\ IsNear(after) /\ after.moves # 0
      /\ after.opening = stockRow[w].opening /\ after.sentBack = stockRow[w].sentBack
      /\ after.numbered = stockRow[w].numbered
  <2>1. one \in StockRow /\ IsNear(one)
    BY <1>7 DEF MovedFrom
  <2>2. /\ after \in StockRow /\ IsNear(after)
        /\ after.qty = one.qty + e /\ after.moves = one.moves + 1
        /\ after.value = one.value + e * UnitCost(one, type, given)
        /\ after.opening = one.opening /\ after.sentBack = one.sentBack
        /\ after.damaged = one.damaged /\ after.transit = one.transit /\ after.numbered = one.numbered
    BY <1>5, <1>6, <2>1, MovedRow
  <2> QED
    BY <1>7, <2>1, <2>2 DEF MovedFrom, StockRow
<1>9. PICK lines : lines = <<q, r>>
  OBVIOUS
<1>10. Len(lines) = 2 /\ lines[1] = q /\ lines[2] = r /\ SumFunction(lines) = n /\ PostPurchaseReturn(p, w, lines)
  BY <1>2, <1>9, LineSums
<1>11. after = IF Len(lines) = 1 THEN Moved(stockRow[w], "purchase_return_issue", -lines[1], Credit(p))
               ELSE Moved(Moved(stockRow[w], "purchase_return_issue", -lines[1], Credit(p)),
                          "purchase_return_issue", -lines[2], Credit(p))
  BY <1>2, <1>3, <1>4, <1>5, <1>10
<1>12. stockRow' = [stockRow EXCEPT ![w] = [after EXCEPT !.sentBack = @ + stockRow[w].value - after.value]]
  BY <1>10, <1>11 DEF PostPurchaseReturn, Credit
<1>13. purchase' = [purchase EXCEPT ![p].returned = @ + SumFunction(lines)]
  BY <1>10 DEF PostPurchaseReturn, Credit
<1>14. Journal("payable", "inventory", SumFunction(lines) * Credit(p)) /\ UNCHANGED <<sale, transfer>>
  BY <1>10 DEF PostPurchaseReturn, Credit
<1>15. /\ stockRow' = [stockRow EXCEPT ![w] = [after EXCEPT !.sentBack = @ + stockRow[w].value - after.value]]
       /\ purchase' = [purchase EXCEPT ![p].returned = @ + n]
       /\ Journal("payable", "inventory", n * Credit(p))
       /\ UNCHANGED <<sale, transfer>>
  BY <1>10, <1>12, <1>13, <1>14
<1> QED
  BY <1>8, <1>15, ReturnStep

UnmatchedCost(row) == row.unmatched * row.cost

(* The cost of what came back unmatched is an integer. *)
LEMMA UnmatchedInt == ASSUME NEW row \in SaleRow PROVE UnmatchedCost(row) \in Int
BY DEF UnmatchedCost, SaleRow

(* A step of one sale: what it journals is what the stock gains and what   *)
(* it leaves unmatched.                                                    *)
LEMMA SaleStep ==
  ASSUME ValueInv, NEW w \in Warehouses, StockOK(stockRow'),
         \A v \in Warehouses \ {w} : stockRow'[v] = stockRow[v],
         NEW s \in Sales, NEW row \in SaleRow, sale' = [sale EXCEPT ![s] = row],
         row.status = "none" => row.unmatched = 0, row.status = "completed" => row.at \in Warehouses,
         gl' \in [Accounts -> Int], entries' \in Nat, NEW e \in Int, Drifts(e, w),
         gl'["inventory"] = gl["inventory"] + (Worth(stockRow'[w]) - Worth(stockRow[w]))
                              + (UnmatchedCost(row) - UnmatchedCost(sale[s])) + e,
         UNCHANGED <<purchase, transfer>>
  PROVE  ValueInv'
<1>1. RowsOK
  BY DEF ValueInv
<1>2. PICK a, b : a = sale /\ b = sale'
  OBVIOUS
<1>3. SalesOK(a) /\ a \in [Sales -> SaleRow] /\ b = [a EXCEPT ![s] = row]
  BY <1>1, <1>2 DEF RowsOK, SalesOK
<1>4. b \in [Sales -> SaleRow] /\ b[s] = row /\ \A o \in Sales \ {s} : b[o] = a[o]
  BY <1>3
<1>5. SalesOK(b)
  <2>1. \A o \in Sales : /\ b[o].status = "none" => b[o].unmatched = 0
                         /\ b[o].status = "completed" => b[o].at \in Warehouses
    BY <1>3, <1>4 DEF SalesOK
  <2> QED
    BY <1>4, <2>1 DEF SalesOK
<1>6. RowsOK'
  BY <1>1, <1>2, <1>5 DEF RowsOK
<1>7. /\ UnmatchedWorth(a) \in Int
      /\ UnmatchedWorth(b) = UnmatchedWorth(a) - a[s].unmatched * a[s].cost + b[s].unmatched * b[s].cost
  BY <1>3, <1>4, UnmatchedChange
<1>8. /\ UnmatchedWorth(sale') = UnmatchedWorth(sale) - UnmatchedCost(sale[s]) + UnmatchedCost(row)
      /\ UnmatchedWorth(sale) \in Int /\ UnmatchedWorth(sale') \in Int
      /\ UnmatchedCost(sale[s]) \in Int /\ UnmatchedCost(row) \in Int
  <2>1. UnmatchedCost(a[s]) \in Int /\ UnmatchedCost(row) \in Int
    BY <1>3, UnmatchedInt
  <2>2. UnmatchedWorth(b) = UnmatchedWorth(a) - UnmatchedCost(a[s]) + UnmatchedCost(row)
    BY <1>4, <1>7 DEF UnmatchedCost
  <2> QED
    BY <1>2, <1>7, <2>1, <2>2
<1>9. /\ RoadWorth(transfer') = RoadWorth(transfer) /\ RoadWorth(transfer') \in Int
      /\ CreditedWorth(purchase') = CreditedWorth(purchase) /\ CreditedWorth(purchase') \in Int
  BY <1>1, SameWorth
<1>10. gl'["inventory"] = gl["inventory"] + (Worth(stockRow'[w]) - Worth(stockRow[w]))
                              + (RoadWorth(transfer') - RoadWorth(transfer))
                              - (CreditedWorth(purchase') - CreditedWorth(purchase))
                              + (UnmatchedWorth(sale') - UnmatchedWorth(sale)) + e
  <2>1. Worth(stockRow[w]) \in Int /\ Worth(stockRow'[w]) \in Int /\ gl["inventory"] \in Int
    BY <1>1, WorthType DEF RowsOK, StockOK, Accounts
  <2> QED
    BY <1>8, <1>9, <2>1
<1>11. OnlyRow(stockRow, stockRow', w)
  BY OtherRows
<1>12. InventoryAccount'
  BY <1>6, <1>8, <1>9, <1>10, <1>11, AccountStep
<1> QED
  BY <1>6, <1>12 DEF ValueInv

(* postSale: goods leave at the average the journal takes them out at. *)
LEMMA PostSaleKeepsValue ==
  ASSUME ValueInv, NEW s \in Sales, NEW w \in Warehouses, NEW q \in Nat, PostSale(s, w, q)
  PROVE  ValueInv'
<1>1. /\ RowsOK /\ stockRow[w] \in StockRow /\ sale[s] \in SaleRow
      /\ sale[s].status = "none" => sale[s].unmatched = 0
  BY DEF ValueInv, RowsOK, StockOK, SalesOK
<1>2. PICK d \in Int, avg \in Nat : d = -q /\ avg = stockRow[w].avg
  BY <1>1 DEF StockRow
<1>3. PICK n \in Nat : n = q * avg
  OBVIOUS
<1>4. PICK type : type = "sale_issue"
  OBVIOUS
<1>5. sale[s].status = "none" /\ Move(w, type, d, avg) /\ JournalOf("cogs", "inventory", n)
      /\ UNCHANGED <<purchase, transfer>>
  BY <1>3, <1>2, <1>4 DEF PostSale
<1>6. /\ StockOK(stockRow')
      /\ \A v \in Warehouses \ {w} : stockRow'[v] = stockRow[v]
      /\ stockRow'[w].opening = stockRow[w].opening /\ stockRow'[w].sentBack = stockRow[w].sentBack
      /\ stockRow'[w].numbered = stockRow[w].numbered
      /\ Worth(stockRow'[w]) = Worth(stockRow[w]) + CostDelta(stockRow[w], type, d, avg)
      /\ CostDelta(stockRow[w], type, d, avg) \in Int
  BY <1>1, <1>5, MoveResult
<1>7. CostDelta(stockRow[w], type, d, avg) = -n
  <2>1. CostDelta(stockRow[w], type, d, avg) = (-q) * avg
    BY <1>2, <1>4 DEF CostDelta, UnitCost, OutboundTypes
  <2>2. (-q) * avg = -(q * avg)
    OBVIOUS
  <2> QED
    BY <1>3, <2>1, <2>2
<1>8. Books(-n)
  BY <1>1, <1>5, JournalOfOut DEF Accounts
<1>9. PICK e \in Int : /\ gl'["inventory"] = gl["inventory"] + (-n) + e
                       /\ 2 * Abs(e) <= Cent * (entries' - entries)
  BY <1>8 DEF Books
<1>10. gl' \in [Accounts -> Int] /\ entries' \in Nat
  BY <1>8 DEF Books
<1>11. Drifts(e, w)
  BY <1>1, <1>6, <1>9, <1>10, RoundingDrifts
<1>12. PICK row : row = [sale[s] EXCEPT !.status = "completed", !.at = w, !.qty = q, !.cost = avg]
  OBVIOUS
<1>13. row \in SaleRow /\ row.status = "completed" /\ row.at = w /\ row.unmatched = 0 /\ row.cost = avg
  BY <1>1, <1>5, <1>12 DEF SaleRow
<1>14. sale' = [sale EXCEPT ![s] = row]
  BY <1>2, <1>12 DEF PostSale
<1>15. UnmatchedCost(row) = UnmatchedCost(sale[s]) /\ UnmatchedCost(row) \in Int
  BY <1>1, <1>5, <1>13 DEF SaleRow, UnmatchedCost
<1>16. gl'["inventory"] = gl["inventory"] + (Worth(stockRow'[w]) - Worth(stockRow[w]))
                              + (UnmatchedCost(row) - UnmatchedCost(sale[s])) + e
  <2>1. Worth(stockRow[w]) \in Int /\ gl["inventory"] \in Int
    BY <1>1, WorthType DEF RowsOK, Accounts
  <2> QED
    BY <1>6, <1>7, <1>9, <1>15, <2>1
<1>17. /\ row.status = "none" => row.unmatched = 0
       /\ row.status = "completed" => row.at \in Warehouses
  BY <1>13
<1> QED
  BY <1>5, <1>6, <1>10, <1>11, <1>13, <1>14, <1>16, <1>17, SaleStep

(* voidSale: the goods come back at the cost they left at. *)
LEMMA VoidKeepsValue ==
  ASSUME ValueInv, NEW s \in Sales, VoidSale(s)
  PROVE  ValueInv'
<1>1. /\ RowsOK /\ sale[s] \in SaleRow /\ sale[s].status = "completed"
      /\ sale[s].status = "completed" => sale[s].at \in Warehouses
  BY DEF ValueInv, RowsOK, SalesOK, VoidSale
<1>2. PICK w \in Warehouses, q \in Nat, cost \in Nat, n \in Nat :
        w = sale[s].at /\ q = sale[s].qty /\ cost = sale[s].cost /\ n = q * cost
  BY <1>1 DEF SaleRow
<1>3. PICK type : type = "reversal"
  OBVIOUS
<1>4. Move(w, type, q, cost) /\ JournalOf("inventory", "cogs", n) /\ UNCHANGED <<purchase, transfer>>
  BY <1>2, <1>3 DEF VoidSale
<1>5. /\ StockOK(stockRow')
      /\ \A v \in Warehouses \ {w} : stockRow'[v] = stockRow[v]
      /\ stockRow'[w].opening = stockRow[w].opening /\ stockRow'[w].sentBack = stockRow[w].sentBack
      /\ stockRow'[w].numbered = stockRow[w].numbered
      /\ Worth(stockRow'[w]) = Worth(stockRow[w]) + CostDelta(stockRow[w], type, q, cost)
      /\ CostDelta(stockRow[w], type, q, cost) \in Int
  BY <1>1, <1>4, MoveResult
<1>6. CostDelta(stockRow[w], type, q, cost) = n
  BY <1>2, <1>3 DEF CostDelta, UnitCost, OutboundTypes
<1>7. Books(n)
  BY <1>1, <1>4, JournalOfIn DEF Accounts
<1>8. PICK e \in Int : /\ gl'["inventory"] = gl["inventory"] + n + e
                       /\ 2 * Abs(e) <= Cent * (entries' - entries)
  BY <1>7 DEF Books
<1>9. gl' \in [Accounts -> Int] /\ entries' \in Nat
  BY <1>7 DEF Books
<1>10. Drifts(e, w)
  BY <1>1, <1>5, <1>8, <1>9, RoundingDrifts
<1>11. PICK row : row = [sale[s] EXCEPT !.status = "voided"]
  OBVIOUS
<1>12. row \in SaleRow /\ row.status = "voided" /\ row.unmatched = sale[s].unmatched /\ row.cost = sale[s].cost
  BY <1>1, <1>11 DEF SaleRow
<1>13. sale' = [sale EXCEPT ![s] = row]
  BY <1>11 DEF VoidSale
<1>14. UnmatchedCost(row) = UnmatchedCost(sale[s]) /\ UnmatchedCost(row) \in Int
  BY <1>12, UnmatchedInt DEF UnmatchedCost
<1>15. gl'["inventory"] = gl["inventory"] + (Worth(stockRow'[w]) - Worth(stockRow[w]))
                              + (UnmatchedCost(row) - UnmatchedCost(sale[s])) + e
  <2>1. Worth(stockRow[w]) \in Int /\ gl["inventory"] \in Int
    BY <1>1, WorthType DEF RowsOK, StockOK, Accounts
  <2> QED
    BY <1>5, <1>6, <1>8, <1>14, <2>1
<1>16. /\ row.status = "none" => row.unmatched = 0
       /\ row.status = "completed" => row.at \in Warehouses
  BY <1>12
<1> QED
  BY <1>4, <1>5, <1>9, <1>10, <1>12, <1>13, <1>15, <1>16, SaleStep

(* The sale's row after q units came back, the cost of some of them, and others *)
(* on the shelf; and what that leaves unmatched.                               *)
ReturnedRow(row, q, costed, shelved) ==
  [row EXCEPT !.returned = @ + q, !.unmatched = @ + costed - shelved]
CostBack(row, after, costed, shelved) ==
  /\ after \in SaleRow /\ after.status = "completed" /\ after.at \in Warehouses
  /\ Books(costed * row.cost)
  /\ UnmatchedCost(after) = UnmatchedCost(row) + costed * row.cost - shelved * row.cost

(* The entry for the cost that came back, and the row. *)
LEMMA CostReturned ==
  ASSUME ValueInv, NEW s \in Sales, NEW q \in Nat, NEW costed \in Nat, NEW shelved \in Nat,
         sale[s].status = "completed",
         JournalOf("inventory", "cogs", costed * sale[s].cost)
  PROVE  CostBack(sale[s], ReturnedRow(sale[s], q, costed, shelved), costed, shelved)
<1>1. PICK row : row = ReturnedRow(sale[s], q, costed, shelved)
  OBVIOUS
<1>2. /\ RowsOK /\ sale[s] \in SaleRow
      /\ sale[s].status = "completed" => sale[s].at \in Warehouses
  BY DEF ValueInv, RowsOK, SalesOK
<1>3. PICK cost \in Nat, was \in Int : cost = sale[s].cost /\ was = sale[s].unmatched
  BY <1>2 DEF SaleRow
<1>4. PICK n \in Nat, m \in Nat, u \in Int : n = costed * cost /\ m = shelved * cost /\ u = was * cost
  OBVIOUS
<1>5. Books(n)
  BY <1>2, <1>3, <1>4, JournalOfIn DEF Accounts
<1>6. /\ row \in SaleRow /\ row.status = "completed" /\ row.at = sale[s].at
      /\ row.unmatched = was + costed - shelved /\ row.cost = cost
  <2>1. PICK back \in Int, unmatched \in Int :
          back = sale[s].returned + q /\ unmatched = was + costed - shelved
    BY <1>2 DEF SaleRow
  <2>2. row = [sale[s] EXCEPT !.returned = back, !.unmatched = unmatched]
    BY <1>1, <1>3, <2>1 DEF ReturnedRow
  <2> QED
    BY <1>2, <1>3, <2>1, <2>2 DEF SaleRow
<1>7. (was + costed - shelved) * cost = u + n - m
  BY <1>4
<1>8. UnmatchedCost(row) = UnmatchedCost(sale[s]) + n - m
  BY <1>3, <1>4, <1>6, <1>7 DEF UnmatchedCost
<1>9. sale[s].at \in Warehouses
  BY <1>2
<1> QED
  BY <1>1, <1>3, <1>4, <1>5, <1>6, <1>8, <1>9 DEF CostBack

(* postSaleReturn of goods put on hand: at the sale's cost as a number. *)
LEMMA ShelvedKeepsValue ==
  ASSUME ValueInv, NEW s \in Sales, NEW w \in Warehouses, NEW q \in Nat,
         NEW disposition \in {"restock", "scrap"}, PostSaleReturn(s, w, q, "resalable", disposition)
  PROVE  ValueInv'
<1>1. /\ RowsOK /\ stockRow[w] \in StockRow /\ sale[s] \in SaleRow /\ sale[s].status = "completed"
  BY DEF ValueInv, RowsOK, StockOK, SalesOK, PostSaleReturn
<1>2. PICK cost \in Nat : cost = sale[s].cost
  BY <1>1 DEF SaleRow
<1>3. PICK costed \in Nat : costed = IF disposition = "scrap" THEN 0 ELSE q
  OBVIOUS
<1>4. PICK read \in Int : read = AsNumber(cost)
  BY NumberIsNear
<1>5. 2 * Abs(q * cost - q * read) <= Grain * q
  BY <1>4, NumberIsNear
<1>6. PICK n \in Int, k \in Int, l \in Int : n = q * read /\ k = q * cost /\ l = costed * cost
  OBVIOUS
<1>7. PICK row : row = ReturnedRow(sale[s], q, costed, q)
  OBVIOUS
<1>8. /\ sale' = [sale EXCEPT ![s] = row]
      /\ JournalOf("inventory", "cogs", costed * sale[s].cost)
      /\ UNCHANGED <<purchase, transfer>>
  <2>1. sale' = [sale EXCEPT ![s].returned = @ + q, ![s].unmatched = @ + costed - q]
    BY <1>3 DEF PostSaleReturn
  <2>2. sale \in [Sales -> SaleRow]
    BY <1>1 DEF RowsOK, SalesOK
  <2>3. sale' = [sale EXCEPT ![s] = row]
    BY <1>7, <2>1, <2>2 DEF ReturnedRow
  <2> QED
    BY <1>3, <2>3 DEF PostSaleReturn
<1>9. /\ row \in SaleRow /\ row.status = "completed" /\ row.at \in Warehouses /\ Books(l)
      /\ UnmatchedCost(row) = UnmatchedCost(sale[s]) + l - k
  <2>1. CostBack(sale[s], row, costed, q)
    BY <1>1, <1>7, <1>8, CostReturned
  <2> QED
    BY <1>2, <1>6, <2>1 DEF CostBack
<1>10. PICK type : type = "sale_return_receive"
  OBVIOUS
<1>11. PICK m : m = Moved(stockRow[w], type, q, read)
  OBVIOUS
<1>12. PICK z : z = [m EXCEPT !.numbered = @ + q]
  OBVIOUS
<1>13. MayRevalue(stockRow[w], type, q, read) /\ stockRow' = [stockRow EXCEPT ![w] = z]
  BY <1>2, <1>4, <1>10, <1>11, <1>12 DEF PostSaleReturn
<1>14. MovedFrom(stockRow[w], m, CostDelta(stockRow[w], type, q, read))
  BY <1>1, <1>11, <1>13, Moving
<1>15. CostDelta(stockRow[w], type, q, read) = n
  BY <1>6, <1>10 DEF CostDelta, UnitCost, OutboundTypes
<1>16. /\ z \in StockRow /\ IsNear(z) /\ z.moves # 0
       /\ z.numbered = stockRow[w].numbered + q /\ Worth(z) = Worth(stockRow[w]) + n
  <2>1. /\ z \in StockRow /\ z.qty = m.qty /\ z.avg = m.avg /\ z.value = m.value /\ z.moves = m.moves
        /\ z.opening = m.opening /\ z.sentBack = m.sentBack /\ z.numbered = m.numbered + q
    BY <1>12, <1>14 DEF StockRow, MovedFrom
  <2>2. Worth(z) = Worth(m)
    BY <2>1 DEF Worth
  <2> QED
    BY <1>14, <1>15, <2>1, <2>2, NearKept DEF MovedFrom
<1>17. /\ StockOK(stockRow') /\ stockRow'[w] = z
       /\ \A v \in Warehouses \ {w} : stockRow'[v] = stockRow[v]
  BY <1>1, <1>13, <1>16, RowPut
<1>18. PICK f \in Int : /\ gl'["inventory"] = gl["inventory"] + l + f
                       /\ 2 * Abs(f) <= Cent * (entries' - entries)
  BY <1>9 DEF Books
<1>19. gl' \in [Accounts -> Int] /\ entries' \in Nat
  BY <1>9 DEF Books
<1>20. PICK e \in Int : e = f + k - n
  OBVIOUS
<1>21. Drifts(e, w)
  <2>1. entries \in Nat /\ Cent \in Nat /\ Grain \in Nat /\ stockRow[w].numbered \in Int
    BY <1>1, ValueAssumption DEF RowsOK, StockRow
  <2>2. stockRow'[w].numbered - stockRow[w].numbered = q
    BY <1>16, <1>17, <2>1
  <2>3. PICK c \in Int, g \in Int : c = Cent * (entries' - entries) /\ g = Grain * q
    BY <1>19, <2>1
  <2>4. 2 * Abs(f) <= c /\ 2 * Abs(k - n) <= g
    BY <1>5, <1>6, <1>18, <2>3
  <2>5. 2 * Abs(e) <= c + g
    BY <1>20, <2>4 DEF Abs
  <2> QED
    BY <2>2, <2>3, <2>5 DEF Drifts
<1>22. gl'["inventory"] = gl["inventory"] + (Worth(stockRow'[w]) - Worth(stockRow[w]))
                              + (UnmatchedCost(row) - UnmatchedCost(sale[s])) + e
  <2>1. Worth(stockRow[w]) \in Int /\ UnmatchedCost(sale[s]) \in Int /\ gl["inventory"] \in Int
    BY <1>1, WorthType, UnmatchedInt DEF RowsOK, Accounts
  <2>2. Worth(stockRow'[w]) = Worth(stockRow[w]) + n
    BY <1>16, <1>17
  <2> QED
    BY <1>9, <1>18, <1>20, <2>1, <2>2
<1>23. /\ row.status = "none" => row.unmatched = 0
       /\ row.status = "completed" => row.at \in Warehouses
  BY <1>9
<1> QED
  BY <1>8, <1>9, <1>17, <1>19, <1>21, <1>22, <1>23, SaleStep

(* postSaleReturn of goods that do not come on hand: damaged or for repair. *)
LEMMA UnshelvedKeepsValue ==
  ASSUME ValueInv, NEW s \in Sales, NEW w \in Warehouses, NEW q \in Nat,
         NEW condition \in {"damaged", "repair"},
         NEW disposition \in {"restock", "scrap"}, PostSaleReturn(s, w, q, condition, disposition)
  PROVE  ValueInv'
<1>1. /\ RowsOK /\ stockRow[w] \in StockRow /\ sale[s] \in SaleRow /\ sale[s].status = "completed"
  BY DEF ValueInv, RowsOK, StockOK, SalesOK, PostSaleReturn
<1>2. PICK costed \in Nat, nothing \in Nat : costed = (IF disposition = "scrap" THEN 0 ELSE q) /\ nothing = 0
  OBVIOUS
<1>3. PICK l \in Int : l = costed * sale[s].cost
  BY <1>1 DEF SaleRow
<1>4. PICK row : row = ReturnedRow(sale[s], q, costed, nothing)
  OBVIOUS
<1>5. /\ sale' = [sale EXCEPT ![s] = row]
      /\ JournalOf("inventory", "cogs", costed * sale[s].cost)
      /\ UNCHANGED <<purchase, transfer>>
  <2>1. sale' = [sale EXCEPT ![s].returned = @ + q, ![s].unmatched = @ + costed - nothing]
    BY <1>2 DEF PostSaleReturn
  <2>2. sale \in [Sales -> SaleRow]
    BY <1>1 DEF RowsOK, SalesOK
  <2>3. sale' = [sale EXCEPT ![s] = row]
    BY <1>4, <2>1, <2>2 DEF ReturnedRow
  <2> QED
    BY <1>2, <2>3 DEF PostSaleReturn
<1>6. /\ row \in SaleRow /\ row.status = "completed" /\ row.at \in Warehouses /\ Books(l)
      /\ UnmatchedCost(row) = UnmatchedCost(sale[s]) + l
  <2>1. CostBack(sale[s], row, costed, nothing)
    BY <1>1, <1>4, <1>5, CostReturned
  <2>2. nothing * sale[s].cost = 0 /\ UnmatchedCost(sale[s]) \in Int
    BY <1>1, <1>2, UnmatchedInt DEF SaleRow
  <2> QED
    BY <1>3, <2>1, <2>2 DEF CostBack
<1>7. /\ StockOK(stockRow')
      /\ \A v \in Warehouses \ {w} : stockRow'[v] = stockRow[v]
      /\ Worth(stockRow'[w]) = Worth(stockRow[w]) /\ stockRow'[w].numbered = stockRow[w].numbered
  <2>1. CASE condition = "repair"
    <3>1. stockRow' = stockRow
      BY <2>1 DEF PostSaleReturn
    <3> QED
      BY <1>1, <3>1 DEF RowsOK
  <2>2. CASE condition = "damaged"
    <3>1. PICK broken \in Int : broken = stockRow[w].damaged + q
      BY <1>1 DEF StockRow
    <3>2. PICK x : x = [stockRow[w] EXCEPT !.damaged = broken]
      OBVIOUS
    <3>3. /\ x \in StockRow /\ x.qty = stockRow[w].qty /\ x.avg = stockRow[w].avg
          /\ x.value = stockRow[w].value /\ x.moves = stockRow[w].moves
          /\ x.opening = stockRow[w].opening /\ x.sentBack = stockRow[w].sentBack
          /\ x.numbered = stockRow[w].numbered
      BY <1>1, <3>2 DEF StockRow
    <3>4. PICK a, b : a = stockRow /\ b = stockRow'
      OBVIOUS
    <3>5. StockOK(a) /\ b = [a EXCEPT ![w] = x]
      BY <1>1, <2>2, <3>1, <3>2, <3>4 DEF PostSaleReturn, RowsOK
    <3>6. IsNear(x) /\ (x.moves = 0 => x.opening = 0)
      <4>1. IsNear(a[w]) /\ (a[w].moves = 0 => a[w].opening = 0) /\ a[w] = stockRow[w]
        BY <3>4, <3>5 DEF StockOK
      <4> QED
        BY <1>1, <3>3, <4>1, NearKept
    <3>7. b \in [Warehouses -> StockRow] /\ b[w] = x /\ \A v \in Warehouses \ {w} : b[v] = a[v]
      BY <3>3, <3>5 DEF StockOK
    <3>8. StockOK(b)
      BY <3>3, <3>5, <3>6, <3>7, StockWritten
    <3>9. Worth(x) = Worth(stockRow[w])
      BY <3>3 DEF Worth
    <3> QED
      BY <3>3, <3>4, <3>7, <3>8, <3>9
  <2> QED
    BY <2>1, <2>2
<1>8. PICK e \in Int : /\ gl'["inventory"] = gl["inventory"] + l + e
                      /\ 2 * Abs(e) <= Cent * (entries' - entries)
  BY <1>6 DEF Books
<1>9. gl' \in [Accounts -> Int] /\ entries' \in Nat
  BY <1>6 DEF Books
<1>10. Drifts(e, w)
  BY <1>1, <1>7, <1>8, <1>9, RoundingDrifts
<1>11. gl'["inventory"] = gl["inventory"] + (Worth(stockRow'[w]) - Worth(stockRow[w]))
                              + (UnmatchedCost(row) - UnmatchedCost(sale[s])) + e
  <2>1. Worth(stockRow[w]) \in Int /\ UnmatchedCost(sale[s]) \in Int /\ gl["inventory"] \in Int
    BY <1>1, WorthType, UnmatchedInt DEF RowsOK, Accounts
  <2> QED
    BY <1>6, <1>7, <1>8, <2>1
<1>12. /\ row.status = "none" => row.unmatched = 0
       /\ row.status = "completed" => row.at \in Warehouses
  BY <1>6
<1> QED
  BY <1>5, <1>6, <1>7, <1>9, <1>10, <1>11, <1>12, SaleStep

(* postSaleReturn, whatever the condition of the goods and the return's disposition. *)
LEMMA SaleReturnKeepsValue ==
  ASSUME ValueInv, NEW s \in Sales, NEW w \in Warehouses, NEW q \in Nat,
         NEW condition \in {"resalable", "damaged", "repair"},
         NEW disposition \in {"restock", "scrap"}, PostSaleReturn(s, w, q, condition, disposition)
  PROVE  ValueInv'
BY ShelvedKeepsValue, UnshelvedKeepsValue

(* A step of one transfer: the stock gains what the road loses. *)
LEMMA TransferStep ==
  ASSUME ValueInv, NEW w \in Warehouses, StockOK(stockRow'),
         OnlyRow(stockRow, stockRow', w),
         NEW e \in Int, Drifts(e, w),
         NEW t \in Transfers, NEW row \in TransferValue, transfer' = [transfer EXCEPT ![t] = row],
         row.status = "in_transit" => row.from \in Warehouses,
         Worth(stockRow'[w]) - Worth(stockRow[w]) + RoadCost(row) - RoadCost(transfer[t]) + e = 0,
         UNCHANGED <<purchase, sale, gl, entries>>
  PROVE  ValueInv'
<1>1. RowsOK
  BY DEF ValueInv
<1>2. PICK a, b : a = transfer /\ b = transfer'
  OBVIOUS
<1>3. TransfersOK(a) /\ a \in [Transfers -> TransferValue] /\ b = [a EXCEPT ![t] = row]
  BY <1>1, <1>2 DEF RowsOK, TransfersOK
<1>4. b \in [Transfers -> TransferValue] /\ b[t] = row /\ \A u \in Transfers \ {t} : b[u] = a[u]
  BY <1>3
<1>5. TransfersOK(b)
  <2>1. \A u \in Transfers : b[u].status = "in_transit" => b[u].from \in Warehouses
    BY <1>3, <1>4 DEF TransfersOK
  <2> QED
    BY <1>4, <2>1 DEF TransfersOK
<1>6. RowsOK'
  BY <1>1, <1>2, <1>5 DEF RowsOK
<1>7. /\ RoadWorth(a) \in Int
      /\ RoadWorth(b) = RoadWorth(a) - RoadCost(a[t]) + RoadCost(b[t])
  BY <1>3, <1>4, RoadChange
<1>8. RoadCost(a[t]) \in Int /\ RoadCost(row) \in Int
  BY <1>3 DEF RoadCost, TransferValue
<1>9. /\ RoadWorth(transfer') = RoadWorth(transfer) - RoadCost(transfer[t]) + RoadCost(row)
      /\ RoadWorth(transfer) \in Int /\ RoadWorth(transfer') \in Int
      /\ RoadCost(transfer[t]) \in Int /\ RoadCost(row) \in Int
  BY <1>2, <1>4, <1>7, <1>8
<1>10. /\ CreditedWorth(purchase') = CreditedWorth(purchase) /\ CreditedWorth(purchase') \in Int
       /\ UnmatchedWorth(sale') = UnmatchedWorth(sale) /\ UnmatchedWorth(sale') \in Int
  BY <1>1, SameWorth
<1>11. gl'["inventory"] = gl["inventory"] + (Worth(stockRow'[w]) - Worth(stockRow[w]))
                              + (RoadWorth(transfer') - RoadWorth(transfer))
                              - (CreditedWorth(purchase') - CreditedWorth(purchase))
                              + (UnmatchedWorth(sale') - UnmatchedWorth(sale)) + e
  <2>1. Worth(stockRow[w]) \in Int /\ Worth(stockRow'[w]) \in Int /\ gl["inventory"] \in Int
    BY <1>1, WorthType DEF RowsOK, StockOK, Accounts
  <2> QED
    BY <1>9, <1>10, <2>1
<1>12. InventoryAccount'
  BY <1>6, <1>9, <1>10, <1>11, AccountStep
<1> QED
  BY <1>6, <1>12 DEF ValueInv

(* dispatchTransfer: the line keeps the average the row is left at. *)
LEMMA DispatchKeepsValue ==
  ASSUME ValueInv, NEW t \in Transfers, NEW w \in Warehouses, NEW q \in Nat,
         DispatchTransferAtAverage(t, w, q)
  PROVE  ValueInv'
<1>1. RowsOK /\ stockRow[w] \in StockRow /\ transfer[t] \in TransferValue /\ transfer[t].status = "none"
  BY DEF ValueInv, RowsOK, StockOK, TransfersOK, DispatchTransferAtAverage
<1>2. PICK d \in Int, given \in Int, avg \in Nat : d = -q /\ given = 0 /\ avg = stockRow[w].avg
  BY <1>1 DEF StockRow
<1>3. PICK type : type = "transfer_dispatch"
  OBVIOUS
<1>4. MayRevalue(stockRow[w], type, d, given)
  BY <1>2, <1>3 DEF DispatchTransferAtAverage
<1>5. PICK m : m = Moved(stockRow[w], type, d, given)
  OBVIOUS
<1>6. MovedFrom(stockRow[w], m, CostDelta(stockRow[w], type, d, given))
  BY <1>1, <1>4, <1>5, Moving
<1>7. PICK x : x = [m EXCEPT !.transit = @ + q]
  OBVIOUS
<1>8. SameValue(m, x)
  BY <1>6, <1>7 DEF StockRow, SameValue, MovedFrom
<1>9. /\ IsNear(x) /\ x.moves # 0 /\ x.opening = m.opening /\ x.sentBack = m.sentBack
      /\ x.numbered = m.numbered
      /\ x \in StockRow /\ Worth(x) = Worth(m)
  BY <1>6, <1>8, RowRelabelled DEF MovedFrom
<1>10. [Moved(stockRow[w], "transfer_dispatch", -q, 0) EXCEPT !.transit = @ + q] = x
  BY <1>2, <1>3, <1>5, <1>7
<1>11. stockRow' = [stockRow EXCEPT ![w] = x]
  BY <1>10 DEF DispatchTransferAtAverage
<1>12. /\ StockOK(stockRow') /\ stockRow'[w] = x
       /\ \A v \in Warehouses \ {w} : stockRow'[v] = stockRow[v]
  BY <1>1, <1>9, <1>11, RowPut
<1>13. PICK n \in Int : n = q * avg
  OBVIOUS
<1>14. CostDelta(stockRow[w], type, d, given) = -n
  <2>1. CostDelta(stockRow[w], type, d, given) = (-q) * avg
    BY <1>2, <1>3 DEF CostDelta, UnitCost, OutboundTypes
  <2>2. (-q) * avg = -(q * avg)
    OBVIOUS
  <2> QED
    BY <1>13, <2>1, <2>2
<1>15. PICK row : row = [status |-> "in_transit", from |-> w, qty |-> q, cost |-> avg]
  OBVIOUS
<1>16. row \in TransferValue /\ row.status = "in_transit" /\ row.from = w /\ RoadCost(row) = n
  BY <1>13, <1>15 DEF TransferValue, RoadCost
<1>17. transfer' = [transfer EXCEPT ![t] = row] /\ UNCHANGED <<purchase, sale, gl, entries>>
  BY <1>2, <1>15 DEF DispatchTransferAtAverage
<1>18. RoadCost(transfer[t]) = 0
  BY <1>1 DEF RoadCost
<1>19. PICK e \in Int : e = 0
  OBVIOUS
<1>20. Drifts(e, w)
  <2>1. entries \in Nat /\ Cent \in Nat
    BY <1>1, ValueAssumption DEF RowsOK
  <2>2. PICK k : k = entries' - entries
    OBVIOUS
  <2>3. k = 0 /\ Cent * 0 = 0
    BY <1>17, <2>1, <2>2
  <2>4. 2 * Abs(e) <= Cent * (entries' - entries)
    BY <1>19, <2>2, <2>3 DEF Abs
  <2>5. stockRow'[w].numbered = stockRow[w].numbered /\ entries' \in Nat
    BY <1>6, <1>9, <1>12, <1>17, <2>1 DEF MovedFrom
  <2> QED
    BY <1>1, <2>4, <2>5, RoundingDrifts
<1>21. Worth(stockRow'[w]) - Worth(stockRow[w]) + RoadCost(row) - RoadCost(transfer[t]) + e = 0
  <2>1. Worth(stockRow[w]) \in Int
    BY <1>1, WorthType
  <2>2. Worth(stockRow'[w]) = Worth(stockRow[w]) + (-n)
    BY <1>6, <1>9, <1>12, <1>14 DEF MovedFrom
  <2> QED
    BY <1>16, <1>18, <1>19, <2>1, <2>2
<1>22. OnlyRow(stockRow, stockRow', w)
  BY <1>12, OtherRows
<1>23. row.status = "in_transit" => row.from \in Warehouses
  BY <1>16
<1> QED
  BY <1>12, <1>16, <1>17, <1>21, <1>22, <1>23, <1>20, TransferStep

(* receiveTransfer: the row gains what the line kept; the source's row keeps its worth. *)
LEMMA ArriveKeepsValue ==
  ASSUME ValueInv, NEW t \in Transfers, NEW w \in Warehouses, ReceiveTransferAtCost(t, w)
  PROVE  ValueInv'
<1>1. /\ RowsOK /\ stockRow[w] \in StockRow /\ transfer[t] \in TransferValue
      /\ transfer[t].status = "in_transit" /\ transfer[t].from \in Warehouses /\ w # transfer[t].from
  BY DEF ValueInv, RowsOK, StockOK, TransfersOK, ReceiveTransferAtCost
<1>2. PICK source \in Warehouses, q \in Nat, cost \in Nat :
        source = transfer[t].from /\ q = transfer[t].qty /\ cost = transfer[t].cost
  BY <1>1 DEF TransferValue
<1>3. PICK type : type = "transfer_receive"
  OBVIOUS
<1>4. PICK read \in Int : read = AsNumber(cost)
  BY NumberIsNear
<1>5. 2 * Abs(q * cost - q * read) <= Grain * q
  BY <1>4, NumberIsNear
<1>6. MayRevalue(stockRow[w], type, q, read)
  BY <1>2, <1>3, <1>4 DEF ReceiveTransferAtCost
<1>7. PICK m : m = Moved(stockRow[w], type, q, read)
  OBVIOUS
<1>8. MovedFrom(stockRow[w], m, CostDelta(stockRow[w], type, q, read))
  BY <1>1, <1>6, <1>7, Moving
<1>9. PICK n \in Int, k \in Int : n = q * read /\ k = q * cost
  OBVIOUS
<1>10. CostDelta(stockRow[w], type, q, read) = n
  BY <1>3, <1>9 DEF CostDelta, UnitCost, OutboundTypes
<1>11. stockRow[source] \in StockRow
  BY <1>1 DEF RowsOK, StockOK
<1>12. stockRow[w].numbered \in Int
  BY <1>1 DEF StockRow
<1>13. PICK x : x = [stockRow[source] EXCEPT !.transit = @ - q]
  OBVIOUS
<1>14. /\ x \in StockRow /\ x.qty = stockRow[source].qty /\ x.avg = stockRow[source].avg
       /\ x.value = stockRow[source].value /\ x.moves = stockRow[source].moves
       /\ x.opening = stockRow[source].opening /\ x.sentBack = stockRow[source].sentBack
       /\ x.numbered = stockRow[source].numbered
  BY <1>11, <1>13 DEF StockRow
<1>15. PICK z : z = [m EXCEPT !.numbered = @ + q]
  OBVIOUS
<1>16. /\ z \in StockRow /\ IsNear(z) /\ z.moves # 0
       /\ z.numbered = stockRow[w].numbered + q /\ Worth(z) = Worth(m)
  <2>1. /\ z \in StockRow /\ z.qty = m.qty /\ z.avg = m.avg /\ z.value = m.value /\ z.moves = m.moves
        /\ z.opening = m.opening /\ z.sentBack = m.sentBack /\ z.numbered = m.numbered + q
    BY <1>2, <1>8, <1>15 DEF StockRow, MovedFrom
  <2> QED
    BY <1>8, <2>1, NearKept DEF MovedFrom, Worth
<1>17. PICK a, b : a = stockRow /\ b = stockRow'
  OBVIOUS
<1>18. PICK c : c = [a EXCEPT ![source] = x]
  OBVIOUS
<1>19. StockOK(a) /\ b = [c EXCEPT ![w] = z]
  BY <1>1, <1>2, <1>3, <1>4, <1>7, <1>15, <1>13, <1>17, <1>18 DEF RowsOK, StockOK, ReceiveTransferAtCost
<1>20. StockOK(c) /\ c \in [Warehouses -> StockRow] /\ c[source] = x /\ \A v \in Warehouses \ {source} : c[v] = a[v]
  <2>1. c \in [Warehouses -> StockRow] /\ c[source] = x /\ \A v \in Warehouses \ {source} : c[v] = a[v]
    BY <1>14, <1>18, <1>19 DEF StockOK
  <2>2. IsNear(x) /\ (x.moves = 0 => x.opening = 0)
    <3>1. IsNear(a[source]) /\ (a[source].moves = 0 => a[source].opening = 0) /\ a[source] = stockRow[source]
      BY <1>17, <1>19 DEF StockOK
    <3> QED
      BY <1>11, <1>14, <3>1, NearKept
  <2> QED
    BY <1>14, <1>19, <2>1, <2>2, StockWritten
<1>21. /\ StockOK(b) /\ b[w] = z /\ \A v \in Warehouses \ {w} : b[v] = c[v]
  <2>1. b \in [Warehouses -> StockRow] /\ b[w] = z /\ \A v \in Warehouses \ {w} : b[v] = c[v]
    BY <1>19, <1>20, <1>16 DEF StockOK
  <2>2. z \in StockRow /\ IsNear(z) /\ (z.moves = 0 => z.opening = 0)
    BY <1>16
  <2> QED
    BY <1>20, <2>1, <2>2, StockWritten
<1>22. OnlyRow(stockRow, stockRow', w)
  <2>1. \A v \in Warehouses \ {w} :
          /\ b[v].value = a[v].value /\ b[v].opening = a[v].opening
          /\ b[v].sentBack = a[v].sentBack /\ b[v].numbered = a[v].numbered
    BY <1>14, <1>17, <1>20, <1>21
  <2> QED
    BY <1>17, <2>1 DEF OnlyRow
<1>23. PICK row : row = [transfer[t] EXCEPT !.status = "completed"]
  OBVIOUS
<1>24. row \in TransferValue /\ row.status = "completed" /\ RoadCost(row) = 0
  BY <1>1, <1>23 DEF TransferValue, RoadCost
<1>25. transfer' = [transfer EXCEPT ![t] = row] /\ UNCHANGED <<purchase, sale, gl, entries>>
  BY <1>23 DEF ReceiveTransferAtCost
<1>26. RoadCost(transfer[t]) = k
  BY <1>1, <1>2, <1>9 DEF RoadCost
<1>27. PICK e \in Int : e = k - n
  OBVIOUS
<1>28. Drifts(e, w)
  <2>1. entries \in Nat /\ Cent \in Nat /\ Grain \in Nat
    BY <1>1, ValueAssumption DEF RowsOK
  <2>2. PICK posted, units : posted = entries' - entries /\ units = stockRow'[w].numbered - stockRow[w].numbered
    OBVIOUS
  <2>3. posted = 0 /\ units = q /\ Cent * 0 = 0
    BY <1>2, <1>11, <1>17, <1>21, <1>25, <1>12, <1>16, <2>1, <2>2
  <2>4. PICK g \in Int : g = Grain * q
    BY <2>1
  <2>5. 2 * Abs(e) <= g
    BY <1>9, <1>5, <1>27, <2>4
  <2>6. 2 * Abs(e) <= Cent * posted + Grain * units
    BY <2>3, <2>4, <2>5
  <2> QED
    BY <2>2, <2>6 DEF Drifts
<1>29. Worth(stockRow'[w]) - Worth(stockRow[w]) + RoadCost(row) - RoadCost(transfer[t]) + e = 0
  <2>1. Worth(stockRow[w]) \in Int
    BY <1>1, WorthType
  <2>2. Worth(stockRow'[w]) = Worth(stockRow[w]) + n
    BY <1>8, <1>10, <1>17, <1>21, <1>16 DEF MovedFrom
  <2> QED
    BY <1>24, <1>26, <1>27, <2>1, <2>2
<1>30. StockOK(stockRow') /\ (row.status = "in_transit" => row.from \in Warehouses)
  BY <1>17, <1>21, <1>24
<1> QED
  BY <1>22, <1>24, <1>25, <1>29, <1>30, <1>28, TransferStep

(* An empty company: every sum is of zeros. *)
LEMMA ValueInitHolds == ASSUME ValueInit PROVE ValueInv
<1>1. RowsOK
  <2>1. StockOK(stockRow)
    <3>1. PICK row : row = [qty |-> 0, avg |-> 0, damaged |-> 0, transit |-> 0,
                            value |-> 0, moves |-> 0, opening |-> 0, sentBack |-> 0, numbered |-> 0]
      OBVIOUS
    <3>2. row \in StockRow /\ row.opening = 0
      BY <3>1, ValueAssumption DEF StockRow
    <3>3. IsNear(row)
      BY <3>1, ValueAssumption DEF IsNear, Abs
    <3>4. stockRow = [w \in Warehouses |-> row]
      BY <3>1 DEF ValueInit
    <3> QED
      BY <3>2, <3>3, <3>4 DEF StockOK
  <2>2. purchase \in [Purchases -> PurchaseRow]
    BY DEF ValueInit, PurchaseRow
  <2>3. SalesOK(sale)
    BY DEF ValueInit, SalesOK, SaleRow
  <2>4. TransfersOK(transfer)
    BY DEF ValueInit, TransfersOK, TransferValue
  <2>5. gl \in [Accounts -> Int] /\ entries \in Nat
    BY DEF ValueInit
  <2> QED
    BY <2>1, <2>2, <2>3, <2>4, <2>5 DEF RowsOK
<1>2. PICK f, g, h, i, j, k :
        /\ f = [w \in Warehouses |-> stockRow[w].value - stockRow[w].opening]
        /\ g = [w \in Warehouses |-> stockRow[w].sentBack]
        /\ h = [t \in Transfers |-> RoadCost(transfer[t])]
        /\ i = [p \in Purchases |-> purchase[p].returned * Credit(p)]
        /\ j = [s \in Sales |-> sale[s].unmatched * sale[s].cost]
        /\ k = [w \in Warehouses |-> stockRow[w].numbered]
  OBVIOUS
<1>3. \A w \in Warehouses : f[w] = 0 /\ g[w] = 0 /\ k[w] = 0
  BY <1>2 DEF ValueInit
<1>4. \A t \in Transfers : h[t] = 0
  BY <1>2 DEF ValueInit, RoadCost
<1>5. \A p \in Purchases : i[p] = 0
  BY <1>2, CreditInt DEF ValueInit
<1>6. \A s \in Sales : j[s] = 0
  BY <1>2 DEF ValueInit
<1>7. /\ SumFunctionOnSet(f, Warehouses) = 0 /\ SumFunctionOnSet(g, Warehouses) = 0
      /\ SumFunctionOnSet(h, Transfers) = 0 /\ SumFunctionOnSet(k, Warehouses) = 0
      /\ SumFunctionOnSet(i, Purchases) = 0 /\ SumFunctionOnSet(j, Sales) = 0
  BY <1>3, <1>4, <1>5, <1>6, SumZero, CompanyAssumption, ValueAssumption
<1>8. /\ OnHandWorth(stockRow) = 0 /\ SentBackWorth(stockRow) = 0 /\ RoadWorth(transfer) = 0
      /\ CreditedWorth(purchase) = 0 /\ UnmatchedWorth(sale) = 0 /\ NumberedUnits(stockRow) = 0
  BY <1>2, <1>7 DEF OnHandWorth, SentBackWorth, RoadWorth, CreditedWorth, UnmatchedWorth, NumberedUnits, SumFunction
<1>9. gl["inventory"] = 0 /\ Cent * entries = 0 /\ Grain * 0 = 0
  BY ValueAssumption DEF ValueInit, Accounts
<1>10. InventoryAccount
  BY <1>8, <1>9, AccountNowAndThen DEF Abs
<1> QED
  BY <1>1, <1>10 DEF ValueInv

(* Every operation keeps the rows near their averages and the account in agreement. *)
LEMMA ValueStep == ASSUME ValueInv, [ValueNext]_valueVars PROVE ValueInv'
<1>1. ASSUME NEW p \in Purchases, NEW q \in Qty, ReceivePurchase(p, q) PROVE ValueInv'
  BY <1>1, ReceiveKeepsValue DEF Qty
<1>2. ASSUME NEW p \in Purchases, NEW w \in Warehouses, NEW q \in Qty, PostPurchaseReturn(p, w, <<q>>)
      PROVE ValueInv'
  BY <1>2, ReturnOneKeepsValue DEF Qty
<1>3. ASSUME NEW p \in Purchases, NEW w \in Warehouses, NEW q \in Qty, NEW r \in Qty,
             PostPurchaseReturn(p, w, <<q, r>>)
      PROVE ValueInv'
  BY <1>3, ReturnTwoKeepsValue DEF Qty
<1>4. ASSUME NEW s \in Sales, VoidSale(s) PROVE ValueInv'
  BY <1>4, VoidKeepsValue
<1>5. ASSUME NEW w \in Warehouses, NEW q \in Qty, NEW c \in Costs, PostOpeningStock(w, q, c) PROVE ValueInv'
  BY <1>5, OpeningKeepsValue, ValueAssumption DEF Qty
<1>6. ASSUME NEW w \in Warehouses, NEW q \in Qty, NEW c \in Costs, AddStock(w, q, c) PROVE ValueInv'
  BY <1>6, AddKeepsValue, ValueAssumption DEF Qty
<1>7. ASSUME NEW w \in Warehouses, NEW q \in Qty, NEW s \in Sales, PostSale(s, w, q) PROVE ValueInv'
  BY <1>7, PostSaleKeepsValue DEF Qty
<1>8. ASSUME NEW w \in Warehouses, NEW q \in Qty, NEW s \in Sales,
             NEW condition \in {"resalable", "damaged", "repair"}, NEW disposition \in {"restock", "scrap"},
             PostSaleReturn(s, w, q, condition, disposition)
      PROVE ValueInv'
  BY <1>8, SaleReturnKeepsValue DEF Qty
<1>9. ASSUME NEW w \in Warehouses, NEW q \in Qty, NEW t \in Transfers, DispatchTransferAtAverage(t, w, q)
      PROVE ValueInv'
  BY <1>9, DispatchKeepsValue DEF Qty
<1>10. ASSUME NEW w \in Warehouses, NEW q \in Qty, SubtractStock(w, q) \/ DamageStock(w, q) \/ RecoverStock(w, q)
       PROVE ValueInv'
  BY <1>10, SubtractKeepsValue, DamageKeepsValue, RecoverKeepsValue DEF Qty
<1>11. ASSUME NEW w \in Warehouses, NEW q \in Qty, NEW d \in {q, -q}, PostStockCount(w, d) PROVE ValueInv'
  <2>1. d \in Int
    BY DEF Qty
  <2> QED
    BY <1>11, <2>1, CountKeepsValue
<1>12. ASSUME NEW t \in Transfers, NEW w \in Warehouses, ReceiveTransferAtCost(t, w) PROVE ValueInv'
  BY <1>12, ArriveKeepsValue
<1>13. ASSUME UNCHANGED valueVars PROVE ValueInv'
  <2>1. RowsOK'
    BY <1>13 DEF ValueInv, RowsOK, valueVars
  <2>2. InventoryAccount'
    BY <1>13, AccountNowAndThen DEF ValueInv, valueVars
  <2> QED
    BY <2>1, <2>2 DEF ValueInv
<1>14. ASSUME NEW w \in Warehouses, NEW q \in Qty, NEW s \in Sales,
              \E condition \in {"resalable", "damaged", "repair"}, disposition \in {"restock", "scrap"} :
                PostSaleReturn(s, w, q, condition, disposition)
       PROVE ValueInv'
  BY <1>8, <1>14
<1> QED
  BY <1>1, <1>2, <1>3, <1>4, <1>5, <1>6, <1>7, <1>9, <1>10, <1>11, <1>12, <1>13, <1>14 DEF ValueNext

(* The inductive invariant of StockValue. *)
LEMMA ValueInvHolds == ValueSpec => []ValueInv
<1>1. ValueInit => ValueInv
  BY ValueInitHolds
<1>2. ValueInv /\ [ValueNext]_valueVars => ValueInv'
  BY ValueStep
<1> QED
  BY <1>1, <1>2, PTL DEF ValueSpec

(* The stock ledger's value of a row stays the quantity at its average, up to half
   a unit for each unit and movement (projectStockValue, STOCK_VALUE_LEDGER). *)
THEOREM ValuesStayNear == ValueSpec => []ValueLedger
<1>1. ValueInv => ValueLedger
  BY DEF ValueInv, RowsOK, StockOK, IsNear, ValueLedger
<1> QED
  BY <1>1, ValueInvHolds, PTL

(* The inventory account stays the stock on hand and in transit, save for opening
   stock, returns to suppliers at the price paid and sales returns whose disposition
   and condition disagree: within half a cent for every entry posted and half a grain
   for every unit brought in at a cost read into a number (postJournalEntry,
   roundToCurrencyScale). *)
THEOREM AccountFollowsStock == ValueSpec => []InventoryAccount
<1>1. ValueInv => InventoryAccount
  BY DEF ValueInv
<1> QED
  BY <1>1, ValueInvHolds, PTL
=============================================================================
