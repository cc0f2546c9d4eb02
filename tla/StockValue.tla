----------------------------- MODULE StockValue -----------------------------
(***************************************************************************)
(* What the stock of one product is worth: the moving average of a         *)
(* warehouse's stock row, the stock ledger's values and the inventory      *)
(* account of the general ledger.  Purchases are received in parts,        *)
(* returned to the supplier; stock is opened, sold, returned, voided,       *)
(* transferred, adjusted and counted.                                      *)
(*                                                                         *)
(* Every operation is one Serializable transaction, so one action.  Money  *)
(* is an integer of the smallest unit an average is stored in (30 decimals *)
(* in the database): an average is rounded to it, a journal line to cents, *)
(* and a cost that the code reads into a number to what a number can tell  *)
(* apart among costs of its size.  The company has its accounting          *)
(* policies.  A purchase, a sale and a transfer have one line.  Freezes by *)
(* counts, reservations, batches and serials are in Inventory and          *)
(* SaleLifecycle.                                                          *)
(***************************************************************************)
EXTENDS Company, Integers, Sequences, FiniteSets, Functions

CONSTANTS
  Purchases, Sales,
  Site,          \* Site[p]: the warehouse purchase p is received at
  Ordered,       \* Ordered[p]: its quantity
  Price,         \* Price[p]: unitCost * exchangeRate, in base currency
  Costs,         \* unit costs entered by hand (opening stock, added stock)
  Cent,          \* the unit journal lines are rounded to
  Grain,         \* the distance of the numbers a cost can be read into
  MaxQty,        \* bound: stock on hand in one warehouse
  MaxMoves       \* bound: on-hand movements of all warehouses

ASSUME ValueAssumption ==
  /\ IsFiniteSet(Purchases) /\ IsFiniteSet(Sales)
  /\ Site \in [Purchases -> Warehouses] /\ MaxQty \in Nat /\ MaxMoves \in Nat
  /\ \A p \in Purchases : Ordered[p] \in 1..MaxQty /\ Price[p] \in Nat
  /\ Costs \subseteq Nat /\ Cent \in Nat \ {0} /\ Grain \in Nat \ {0}

VARIABLES
  stockRow,   \* warehouse_stocks, with what stock_movements adds up to
  purchase, sale, transfer,
  gl,         \* debits less credits of the accounts
  entries     \* how many journal entries were posted

valueVars == <<stockRow, purchase, sale, transfer, gl, entries>>

Accounts == {"inventory", "clearing", "payable", "cogs", "variance"}

Qty == 1..MaxQty

Nowhere == "nowhere"  \* the warehouse of a document not made yet

ValueInit ==
  /\ stockRow = [w \in Warehouses |-> [qty |-> 0, avg |-> 0, damaged |-> 0, transit |-> 0,
                                       value |-> 0, moves |-> 0, opening |-> 0, sentBack |-> 0, numbered |-> 0]]
  /\ purchase = [p \in Purchases |-> [status |-> "ordered", received |-> 0, returned |-> 0]]
  /\ sale = [s \in Sales |-> [status |-> "none", at |-> Nowhere,
                              qty |-> 0, cost |-> 0, returned |-> 0, unmatched |-> 0]]
  /\ transfer = [t \in Transfers |-> [status |-> "none", from |-> Nowhere,
                                      qty |-> 0, cost |-> 0]]
  /\ gl = [a \in Accounts |-> 0]
  /\ entries = 0

-----------------------------------------------------------------------------
(* planStockMovement, projectStockValue *)

OutboundTypes ==
  {"sale_issue", "transfer_dispatch", "adjustment_out", "purchase_return_issue", "stock_count_loss"}

\* Half up to a multiple of `unit`.
Nearest(n, unit) == unit * ((2 * n + unit) \div (2 * unit))

\* The average of `value` over q units, rounded half up to the stored decimals.
Average(value, q) == IF q = 0 THEN 0 ELSE (2 * value + q) \div (2 * q)

\* seeded fault: a reversal takes the current average too
UnitCostAtAverage(row, type, given) ==
  IF type \in OutboundTypes \union {"reversal"} THEN row.avg ELSE given

\* The unit cost of a movement: stock leaves at the row's average.
UnitCost(row, type, given) == IF type \in OutboundTypes THEN row.avg ELSE given

Moves == SumFunction([w \in Warehouses |-> stockRow[w].moves])

\* The checks of a movement of d units on hand.
MayRevalue(row, type, d, given) ==
  LET q == row.qty + d
      value == row.qty * row.avg + d * UnitCost(row, type, given)
  IN  /\ d # 0 /\ q >= 0 /\ value >= 0
      /\ q = 0 => value = 0
      /\ q <= MaxQty /\ Moves < MaxMoves

\* seeded fault: only stock that runs out is revalued
MovedUnweighted(row, type, d, given) ==
  [row EXCEPT !.qty = @ + d, !.avg = IF row.qty = 0 THEN UnitCost(row, type, given) ELSE @,
              !.value = @ + d * UnitCost(row, type, given), !.moves = @ + 1]

\* The row after it: totalCostDelta goes to the ledger, the average is revalued.
Moved(row, type, d, given) ==
  LET cost == UnitCost(row, type, given)
      q == row.qty + d
  IN  [row EXCEPT !.qty = q, !.avg = Average(row.qty * row.avg + d * cost, q),
                  !.value = @ + d * cost, !.moves = @ + 1]

\* One on-hand movement in warehouse w.
Move(w, type, d, given) ==
  /\ MayRevalue(stockRow[w], type, d, given)
  /\ stockRow' = [stockRow EXCEPT ![w] = Moved(@, type, d, given)]

\* A stored cost read into a number: Decimal.toNumber, parseFloat.
AsNumber(cost) == Nearest(cost, Grain)

\* postJournalEntry of `amount` from account `credit` to account `debit`.  Both lines
\* round alike; an entry below the smallest currency unit is refused.
Journal(debit, credit, amount) ==
  LET cents == Nearest(amount, Cent) IN
  /\ cents > 0
  /\ gl' = [gl EXCEPT ![debit] = @ + cents, ![credit] = @ - cents]
  /\ entries' = entries + 1

\* Its callers that post nothing when there is nothing to post.
JournalOf(debit, credit, amount) ==
  IF amount > 0 THEN Journal(debit, credit, amount) ELSE UNCHANGED <<gl, entries>>

-----------------------------------------------------------------------------
(* Purchases *)

\* postOpeningStock: no journal; only before any other movement.
PostOpeningStock(w, q, c) ==
  /\ stockRow[w].moves = 0 /\ stockRow[w].damaged = 0
  /\ MayRevalue(stockRow[w], "opening_stock", q, c)
  /\ stockRow' = [stockRow EXCEPT ![w] = [Moved(stockRow[w], "opening_stock", q, c) EXCEPT !.opening = q * c]]
  /\ UNCHANGED <<purchase, sale, transfer, gl, entries>>

\* receivePurchase
ReceivePurchase(p, q) ==
  /\ purchase[p].status \notin {"cancelled", "closed"}
  /\ purchase[p].received + q <= Ordered[p]
  /\ Move(Site[p], "purchase_receive", q, Price[p])
  /\ purchase' = [purchase EXCEPT ![p].received = @ + q,
       ![p].status = IF purchase[p].received + q = Ordered[p] THEN "received" ELSE "partially_received"]
  /\ JournalOf("inventory", "clearing", q * Price[p])
  /\ UNCHANGED <<sale, transfer>>

\* What postPurchaseReturn's check of one line sees: the row read before any line.
Returnable(p, q) == purchase[p].returned + q <= purchase[p].received

\* postPurchaseReturn: lines of purchase p, from any warehouse of the company.
\* Stock leaves at its average and the journal credits the price paid, as a number.
PostPurchaseReturn(p, w, lines) ==
  LET q == SumFunction(lines)
      one == Moved(stockRow[w], "purchase_return_issue", -lines[1], AsNumber(Price[p]))
      after == IF Len(lines) = 1 THEN one ELSE Moved(one, "purchase_return_issue", -lines[2], AsNumber(Price[p]))
  IN  /\ \A i \in DOMAIN lines : Returnable(p, lines[i])
      /\ MayRevalue(stockRow[w], "purchase_return_issue", -lines[1], AsNumber(Price[p]))
      /\ Len(lines) = 2 => MayRevalue(one, "purchase_return_issue", -lines[2], AsNumber(Price[p]))
      /\ stockRow' = [stockRow EXCEPT ![w] = [after EXCEPT !.sentBack = @ + stockRow[w].value - after.value]]
      /\ purchase' = [purchase EXCEPT ![p].returned = @ + q]
      /\ Journal("payable", "inventory", q * AsNumber(Price[p]))
      /\ UNCHANGED <<sale, transfer>>

-----------------------------------------------------------------------------
(* Sales, as far as they move stock and its cost *)

\* postSale
PostSale(s, w, q) ==
  /\ sale[s].status = "none"
  /\ Move(w, "sale_issue", -q, stockRow[w].avg)
  /\ sale' = [sale EXCEPT ![s] = [@ EXCEPT !.status = "completed", !.at = w, !.qty = q,
                                           !.cost = stockRow[w].avg]]
  /\ JournalOf("cogs", "inventory", q * stockRow[w].avg)
  /\ UNCHANGED <<purchase, transfer>>

\* voidSale: reverseStockMovement brings the goods back at the cost they left at, and
\* reverseJournalEntry takes back the sale's entry, if it has one.
VoidSale(s) ==
  /\ sale[s].status = "completed" /\ sale[s].returned = 0
  /\ Move(sale[s].at, "reversal", sale[s].qty, sale[s].cost)
  /\ sale' = [sale EXCEPT ![s].status = "voided"]
  /\ JournalOf("inventory", "cogs", sale[s].qty * sale[s].cost)
  /\ UNCHANGED <<purchase, transfer>>

\* postSaleReturn into warehouse w.  The condition of the line says where the goods
\* go ("repair" also stands for scrap: nowhere), the disposition of the return whether
\* their cost goes back to the inventory account ("restock" stands for all but scrap).
\* On hand they come in at the sale's cost as a number.
PostSaleReturn(s, w, q, condition, disposition) ==
  LET cost == sale[s].cost
      costed == IF disposition = "scrap" THEN 0 ELSE q
      shelved == IF condition = "resalable" THEN q ELSE 0
  IN  /\ sale[s].status = "completed" /\ sale[s].returned + q <= sale[s].qty
      /\ CASE condition = "resalable" ->
                 /\ MayRevalue(stockRow[w], "sale_return_receive", q, AsNumber(cost))
                 /\ stockRow' = [stockRow EXCEPT ![w] =
                      [Moved(stockRow[w], "sale_return_receive", q, AsNumber(cost)) EXCEPT !.numbered = @ + q]]
           [] condition = "damaged" -> stockRow' = [stockRow EXCEPT ![w].damaged = @ + q]
           [] condition = "repair" -> UNCHANGED stockRow
      /\ sale' = [sale EXCEPT ![s].returned = @ + q, ![s].unmatched = @ + costed - shelved]
      /\ JournalOf("inventory", "cogs", costed * cost)
      /\ UNCHANGED <<purchase, transfer>>

-----------------------------------------------------------------------------
(* Transfers and adjustments *)

\* dispatchTransfer: the line keeps the source's average.
DispatchTransferAtAverage(t, w, q) ==
  /\ transfer[t].status = "none"
  /\ MayRevalue(stockRow[w], "transfer_dispatch", -q, 0)
  /\ stockRow' = [stockRow EXCEPT ![w] = [Moved(stockRow[w], "transfer_dispatch", -q, 0) EXCEPT !.transit = @ + q]]
  /\ transfer' = [transfer EXCEPT ![t] = [status |-> "in_transit", from |-> w, qty |-> q,
                                          cost |-> stockRow[w].avg]]
  /\ UNCHANGED <<purchase, sale, gl, entries>>

\* receiveTransfer: out of the source's transit, into w at the source's cost as a number.
ReceiveTransferAtCost(t, w) ==
  LET from == transfer[t].from
      q == transfer[t].qty
  IN  /\ transfer[t].status = "in_transit" /\ w # from /\ stockRow[from].transit >= q
      /\ MayRevalue(stockRow[w], "transfer_receive", q, AsNumber(transfer[t].cost))
      /\ stockRow' = [stockRow EXCEPT ![from].transit = @ - q,
           ![w] = [Moved(stockRow[w], "transfer_receive", q, AsNumber(transfer[t].cost)) EXCEPT !.numbered = @ + q]]
      /\ transfer' = [transfer EXCEPT ![t].status = "completed"]
      /\ UNCHANGED <<purchase, sale, gl, entries>>

\* postInventoryVarianceJournal of the movement's totalCostDelta.
VarianceJournal(w) ==
  LET gain == stockRow'[w].value - stockRow[w].value IN
  IF gain < 0 THEN Journal("variance", "inventory", -gain) ELSE JournalOf("inventory", "variance", gain)

\* postStockAdjustment: add at a cost, subtract, damage, or recover what was damaged.
AddStock(w, q, c) ==
  /\ Move(w, "adjustment_in", q, c)
  /\ VarianceJournal(w)
  /\ UNCHANGED <<purchase, sale, transfer>>

SubtractStock(w, q) ==
  /\ Move(w, "adjustment_out", -q, 0)
  /\ VarianceJournal(w)
  /\ UNCHANGED <<purchase, sale, transfer>>

DamageStock(w, q) ==
  /\ MayRevalue(stockRow[w], "adjustment_out", -q, 0)
  /\ stockRow' = [stockRow EXCEPT ![w] = [Moved(stockRow[w], "adjustment_out", -q, 0) EXCEPT !.damaged = @ + q]]
  /\ VarianceJournal(w)
  /\ UNCHANGED <<purchase, sale, transfer>>

RecoverStock(w, q) ==
  /\ stockRow[w].damaged >= q
  /\ MayRevalue(stockRow[w], "adjustment_in", q, AsNumber(stockRow[w].avg))
  /\ stockRow' = [stockRow EXCEPT ![w] =
       [Moved(stockRow[w], "adjustment_in", q, AsNumber(stockRow[w].avg)) EXCEPT !.damaged = @ - q]]
  /\ VarianceJournal(w)
  /\ UNCHANGED <<purchase, sale, transfer>>

\* postStockCount of a gain or a loss of d units, at the average.
PostStockCount(w, d) ==
  /\ Move(w, IF d > 0 THEN "stock_count_gain" ELSE "stock_count_loss", d, stockRow[w].avg)
  /\ VarianceJournal(w)
  /\ UNCHANGED <<purchase, sale, transfer>>

ValueNext ==
  \/ \E p \in Purchases, q \in Qty : ReceivePurchase(p, q)
  \/ \E p \in Purchases, w \in Warehouses :
       \/ \E q \in Qty : PostPurchaseReturn(p, w, <<q>>)
       \/ \E q, r \in Qty : PostPurchaseReturn(p, w, <<q, r>>)
  \/ \E s \in Sales : VoidSale(s)
  \/ \E w \in Warehouses, q \in Qty :
       \/ \E c \in Costs : PostOpeningStock(w, q, c) \/ AddStock(w, q, c)
       \/ \E s \in Sales :
            \/ PostSale(s, w, q)
            \/ \E condition \in {"resalable", "damaged", "repair"}, disposition \in {"restock", "scrap"} :
                 PostSaleReturn(s, w, q, condition, disposition)
       \/ \E t \in Transfers : DispatchTransferAtAverage(t, w, q)
       \/ SubtractStock(w, q) \/ DamageStock(w, q) \/ RecoverStock(w, q)
       \/ \E d \in {q, -q} : PostStockCount(w, d)
  \/ \E t \in Transfers, w \in Warehouses : ReceiveTransferAtCost(t, w)

ValueSpec == ValueInit /\ [][ValueNext]_valueVars

-----------------------------------------------------------------------------

Abs(n) == IF n < 0 THEN -n ELSE n

\* The stock ledger's values are the row's quantity at its average, up to half a
\* unit of the last decimal for every unit and movement, whatever order receipts,
\* voids, returns and transfers at old costs come in (projectStockValue, as the
\* reconciliation check STOCK_VALUE_LEDGER compares them).
ValueLedger ==
  \A w \in Warehouses :
    LET row == stockRow[w] IN
    2 * Abs(row.value - row.qty * row.avg) <= row.moves * MaxQty

CostInTransit(t) == IF transfer[t].status = "in_transit" THEN transfer[t].qty * transfer[t].cost ELSE 0

\* The inventory account is worth the stock on hand and in transit, save for what
\* the code is known to leave out of one of the two: opening stock has no journal; a
\* purchase return is credited at the price paid while the goods leave at the average;
\* and a returned sale's cost comes back by the return's disposition while the goods
\* come back by their condition (postOpeningStock, postPurchaseReturn, postSaleReturn).
\* Half a cent for every entry (roundToCurrencyScale) and half a grain for every unit
\* brought in at a cost read into a number is all they drift apart: a void, a transfer
\* or an adjustment, whatever was received since, adds nothing.
InventoryAccount ==
  LET onHand == SumFunction([w \in Warehouses |-> stockRow[w].value - stockRow[w].opening])
      inTransit == SumFunction([t \in Transfers |-> CostInTransit(t)])
      sentBack == SumFunction([w \in Warehouses |-> stockRow[w].sentBack])
      credited == SumFunction([p \in Purchases |-> purchase[p].returned * AsNumber(Price[p])])
      unmatched == SumFunction([s \in Sales |-> sale[s].unmatched * sale[s].cost])
      numbered == SumFunction([w \in Warehouses |-> stockRow[w].numbered])
  IN  2 * Abs(gl["inventory"] - (onHand + inTransit + sentBack - credited + unmatched))
        <= Cent * entries + Grain * numbered

\* No more goes back to a supplier than came ("Return exceeds received quantity",
\* PostPurchaseReturn.ts:65).
ReturnedWithinReceived ==
  \A p \in Purchases : purchase[p].returned <= purchase[p].received

=============================================================================
