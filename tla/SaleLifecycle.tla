--------------------------- MODULE SaleLifecycle ---------------------------
(***************************************************************************)
(* A sale from the till to its void or return, with the money and the      *)
(* goods that follow it (src/domain/commands/m3, src/domain/receivables).  *)
(*                                                                         *)
(* Every command is one Serializable transaction and one action here.      *)
(* What no transaction protects is their order over days: a sale is paid   *)
(* in part at the till, collected later together with another sale's debt, *)
(* returned in parts, refunded, its payments reversed by hand, voided;     *)
(* four records are kept of it -- sales and returns, payments and their    *)
(* allocations, stock and serial numbers, the general ledger -- and each   *)
(* command has to leave them telling the same story.                       *)
(*                                                                         *)
(* One customer, one warehouse, one drawer, one serialized product sold at *)
(* 1 and costing 1, without tax or discount: an amount of money is a       *)
(* number of units.  A payment with a shift is taken in cash at its drawer.*)
(* Fiscal periods are open: a locked one refuses the whole command.        *)
(***************************************************************************)
EXTENDS Integers, Sequences, FiniteSets, FiniteSetsExt, Functions

CONSTANTS
  Units,           \* the serial numbers
  NumSales,        \* sales are 1..NumSales, in the order they are posted
  NumShifts,       \* shifts are 1..NumShifts, in the order they are opened
  Conditions,      \* of a returned line: what the cashier may choose
  Dispositions,    \* of a return
  MaxDay,          \* the last day, and the last due date
  MaxInstallments,
  MaxPayments,     \* rows of payments
  MaxReturns,
  CreditLimit,     \* of the customer
  MaxVariance,     \* the largest shortage or overage counted
  VarianceLimit,   \* thresholds.cashier_variance_amount
  None

ASSUME SaleAssumption ==
  /\ IsFiniteSet(Units)
  /\ NumSales \in Nat /\ NumShifts \in Nat
  /\ MaxDay \in Nat \ {0} /\ MaxInstallments \in Nat /\ MaxPayments \in Nat
  /\ MaxReturns \in Nat /\ CreditLimit \in Nat /\ MaxVariance \in Nat /\ VarianceLimit \in Nat
  /\ Conditions \subseteq {"resalable", "damaged", "repair", "scrap"}
  /\ Dispositions \subseteq {"restock", "damaged", "repair", "scrap", "mixed"}
  /\ None \notin Nat

VARIABLES
  sales, returns, payments, shifts,
  serials,           \* product_serials
  onHand, damaged,   \* warehouse_stocks
  gl,                \* balance of each account, debit positive
  today

goods == <<serials, onHand, damaged>>
vars == <<sales, returns, payments, shifts, goods, gl, today>>
-----------------------------------------------------------------------------
Sales == 1..NumSales
Shifts == 1..NumShifts
Days == 1..MaxDay
Installment == [amount : Nat, due : Days]

SaleRow == [status : {"none", "completed", "partially_returned", "returned", "voided"},
            units : SUBSET Units,       \* sale_item_serials
            paid : Nat,                 \* at the till
            schedule : Seq(Installment)]

ReturnRow == [sale : Sales, units : SUBSET Units, costBack : BOOLEAN]

(* inst = 0: allocated to the sale, not through an installment.            *)
Allocation == [sale : Sales, inst : Nat, amount : Nat]

PaymentRow == [status : {"posted", "reversed"},
               ref : {"PMT", "PMT-REV", "-REV"},    \* the number says who wrote the row
               direction : {"incoming", "outgoing"},
               amount : Nat,
               shift : Shifts \cup {None},
               return : Nat,                        \* sale_return_id, 0 for none
               reverses : Nat,                      \* reversed_payment_id, 0 for none
               allocations : SUBSET Allocation]

ShiftRow == [status : {"none", "open", "closed", "approved"}, variance : Int]

Accounts == {"cash", "ar", "revenue", "cogs", "inventory", "over_short"}

NoSale == [status |-> "none", units |-> {}, paid |-> 0, schedule |-> <<>>]
OpenSaleStatuses == {"completed", "partially_returned"}

Init ==
  /\ sales = [s \in Sales |-> NoSale]
  /\ returns = <<>>
  /\ payments = <<>>
  /\ shifts = [h \in Shifts |-> [status |-> "none", variance |-> 0]]
  /\ serials = [u \in Units |-> [status |-> "in_stock", soldTo |-> None]]
  /\ onHand = Cardinality(Units)
  /\ damaged = 0
  /\ gl = [a \in Accounts |-> 0]
  /\ today = 1
-----------------------------------------------------------------------------
Qty(s) == Cardinality(sales[s].units)

(* postJournalEntry: moves d of every account it names.                    *)
Posting(d) == [a \in Accounts |-> IF a \in DOMAIN d THEN gl[a] + d[a] ELSE gl[a]]

Receipt(amount, shift, allocations) ==
  [status |-> "posted", ref |-> "PMT", direction |-> "incoming", amount |-> amount, shift |-> shift,
   return |-> 0, reverses |-> 0, allocations |-> allocations]

Opposite(direction) == IF direction = "incoming" THEN "outgoing" ELSE "incoming"

(* The row that reverses payment p, numbered by whoever writes it.         *)
Reversal(p, ref, shift) ==
  [status |-> "posted", ref |-> ref, direction |-> Opposite(payments[p].direction),
   amount |-> payments[p].amount, shift |-> shift, return |-> 0, reverses |-> p, allocations |-> {}]

(***************************************************************************)
(* installmentBalances: what is owed, derived from posted payments         *)
(***************************************************************************)
Posted == {p \in DOMAIN payments : payments[p].status = "posted"}

TotalOf(A) == SumFunction([a \in A |-> a.amount])

(* Posted money allocated to sale s through the installments of I.         *)
AllocatedThrough(I, s) ==
  SumFunction([p \in Posted |-> TotalOf({a \in payments[p].allocations : a.sale = s /\ a.inst \in I})])

Allocated(s) == AllocatedThrough(0..MaxInstallments, s)
Collected(s, i) == AllocatedThrough({i}, s)

ReturnsOf(s) == {r \in DOMAIN returns : returns[r].sale = s}
Credit(r) == Cardinality(returns[r].units)
CreditOf(R) == SumFunction([r \in R |-> Credit(r)])
Credited(s) == CreditOf(ReturnsOf(s))
Refunds(R) == {p \in Posted : payments[p].return \in R}
Refunded(R) == SumFunction([p \in Refunds(R) |-> payments[p].amount])

SaleOutstanding(s) == Qty(s) - Allocated(s) - Credited(s) + Refunded(ReturnsOf(s))

Remaining(s, i) == Max({sales[s].schedule[i].amount - Collected(s, i), 0})

RemainingOf(s, I) == SumFunction([i \in I |-> Remaining(s, i)])

(* What the schedule has above what the sale owes comes off the oldest.    *)
Outstanding(s, i) ==
  LET scheduled == RemainingOf(s, DOMAIN sales[s].schedule)
      excess == scheduled - Max({SaleOutstanding(s), 0})
  IN  IF sales[s].status \notin OpenSaleStatuses THEN 0
      ELSE Max({Remaining(s, i) - Max({excess - RemainingOf(s, 1..(i - 1)), 0}), 0})

InstallmentsOf(S) == {b \in S \X (1..MaxInstallments) : b[2] <= Len(sales[b[1]].schedule)}
Due(b) == sales[b[1]].schedule[b[2]].due
OwedOn(B) == SumFunction([b \in B |-> Outstanding(b[1], b[2])])
CustomerOwes(S) == OwedOn(InstallmentsOf(S))

Overdue == \E b \in InstallmentsOf(Sales) : Outstanding(b[1], b[2]) > 0 /\ Due(b) < today
-----------------------------------------------------------------------------
(***************************************************************************)
(* postSale                                                                *)
(***************************************************************************)
Scheduled(c) == SumFunction([i \in DOMAIN c |-> c[i].amount])

(* buildSchedule: amounts that add up to the unpaid part, due in order.    *)
Schedules(unpaid) ==
  {c \in UNION {[1..n -> [amount : 1..unpaid, due : today..MaxDay]] : n \in 0..MaxInstallments} :
     /\ Scheduled(c) = unpaid
     /\ \A i, j \in DOMAIN c : i < j => c[i].due < c[j].due}

MaySellOnCredit(unpaid) ==
  unpaid > 0 => /\ CreditLimit > 0
                /\ ~ Overdue
                /\ unpaid + CustomerOwes(Sales) <= CreditLimit

InStock(U) == \A u \in U : serials[u].status = "in_stock"

(* The revenue and the cost entry of a sale of q units, paid in part.      *)
SaleEntries(q, paid) ==
  [cash |-> paid, ar |-> q - paid, revenue |-> - q, cogs |-> q, inventory |-> - q]

PostSale(s, U, paid, h) ==
  LET unpaid == Cardinality(U) - paid IN
  /\ sales[s].status = "none"
  /\ \A t \in Sales : t < s => sales[t].status # "none"
  /\ InStock(U)
  /\ onHand >= Cardinality(U)
  /\ h # None => shifts[h].status = "open"
  /\ MaySellOnCredit(unpaid)
  /\ Len(payments) < MaxPayments
  /\ \E schedule \in Schedules(unpaid) :
       sales' = [sales EXCEPT ![s] =
                   [status |-> "completed", units |-> U, paid |-> paid, schedule |-> schedule]]
  /\ serials' = [u \in Units |-> IF u \in U THEN [status |-> "sold", soldTo |-> s] ELSE serials[u]]
  /\ onHand' = onHand - Cardinality(U)
  /\ payments' = IF paid = 0 THEN payments
                 ELSE Append(payments, Receipt(paid, h, {[sale |-> s, inst |-> 0, amount |-> paid]}))
  /\ gl' = Posting(SaleEntries(Cardinality(U), paid))
  /\ UNCHANGED <<returns, shifts, damaged, today>>

(***************************************************************************)
(* collectCustomerPayment: oldest due first, over the chosen sales         *)
(***************************************************************************)
Before(b, c) ==
  \/ Due(b) < Due(c)
  \/ Due(b) = Due(c) /\ b[1] < c[1]
  \/ Due(b) = Due(c) /\ b[1] = c[1] /\ b[2] < c[2]

\* seeded fault: what is left goes to the oldest installment, owed or not
AppliedUncapped(owed, b, amount) ==
  IF \E c \in DOMAIN owed : Before(c, b) THEN 0 ELSE amount

(* The part of amount that reaches b when every installment of the domain  *)
(* of owed takes its own in that order.                                    *)
Applied(owed, b, amount) ==
  LET left == amount - SumFunctionOnSet(owed, {c \in DOMAIN owed : Before(c, b)})
  IN  Max({0, Min({left, owed[b]})})

CollectCustomerPayment(S, h) ==
  LET owed == [b \in InstallmentsOf(S) |-> Outstanding(b[1], b[2])] IN
  /\ h # None => shifts[h].status # "none"          \* the shift is not looked at
  /\ Len(payments) < MaxPayments
  /\ \E amount \in 1..CustomerOwes(S) :
       LET plan == {b \in DOMAIN owed : Applied(owed, b, amount) > 0} IN
       /\ payments' = Append(payments, Receipt(amount, h,
             {[sale |-> b[1], inst |-> b[2], amount |-> Applied(owed, b, amount)] : b \in plan}))
       /\ gl' = Posting([cash |-> amount, ar |-> - amount])
  /\ UNCHANGED <<sales, returns, shifts, goods, today>>

(***************************************************************************)
(* postSaleReturn, one line                                                *)
(***************************************************************************)
Sold(V) == \A u \in V : serials[u].status = "sold"

BackAs(V, status) ==
  [u \in Units |-> IF u \in V THEN [status |-> status, soldTo |-> None] ELSE serials[u]]

(* What of the goods is put back, by the condition of the line.            *)
Receive(V, condition) ==
  CASE condition = "resalable" ->
         serials' = BackAs(V, "in_stock") /\ onHand' = onHand + Cardinality(V) /\ UNCHANGED damaged
    [] condition = "damaged" ->
         serials' = BackAs(V, "damaged") /\ damaged' = damaged + Cardinality(V) /\ UNCHANGED onHand
    [] OTHER -> UNCHANGED goods

(* The cost comes back by the disposition of the return, not by condition. *)
ReturnEntries(q, disposition) ==
  LET cost == IF disposition # "scrap" THEN q ELSE 0 IN
  [revenue |-> q, ar |-> - q, inventory |-> cost, cogs |-> - cost]

PostSaleReturn(s, V, condition, disposition) ==
  LET q == Cardinality(V) IN
  /\ sales[s].status \in OpenSaleStatuses
  /\ V # {} /\ V \subseteq sales[s].units /\ Sold(V)
  /\ Credited(s) + q <= Qty(s)
  /\ Len(returns) < MaxReturns
  /\ Receive(V, condition)
  /\ returns' = Append(returns, [sale |-> s, units |-> V, costBack |-> disposition # "scrap"])
  /\ gl' = Posting(ReturnEntries(q, disposition))
  /\ sales' = [sales EXCEPT ![s].status =
                 IF Credited(s) + q = Qty(s) THEN "returned" ELSE "partially_returned"]
  /\ UNCHANGED <<payments, shifts, today>>

(* POST /payments with a sale_refund.                                      *)
RefundReturn(r, amount, h) ==
  LET s == returns[r].sale IN
  /\ amount > 0
  /\ amount <= Credit(r) - Refunded({r})
  /\ amount <= Allocated(s) - Refunded(ReturnsOf(s))
  /\ h # None => shifts[h].status # "none"
  /\ Len(payments) < MaxPayments
  /\ payments' = Append(payments, [Receipt(amount, h, {}) EXCEPT !.direction = "outgoing", !.return = r])
  /\ gl' = Posting([cash |-> - amount, ar |-> amount])
  /\ UNCHANGED <<sales, returns, shifts, goods, today>>

(***************************************************************************)
(* reversePayment                                                          *)
(***************************************************************************)
CashEffect(p) == IF payments[p].direction = "incoming" THEN payments[p].amount ELSE - payments[p].amount

\* seeded fault: a payment can be reversed again
ReversibleAgain(p) == TRUE

Reversible(p) == payments[p].status # "reversed"

ReversePayment(p) ==
  /\ Reversible(p)
  /\ Len(payments) < MaxPayments
  /\ payments' = Append([payments EXCEPT ![p].status = "reversed"],
                        Reversal(p, "PMT-REV", payments[p].shift))
  /\ gl' = Posting([cash |-> - CashEffect(p), ar |-> CashEffect(p)])
  /\ UNCHANGED <<sales, returns, shifts, goods, today>>

(***************************************************************************)
(* voidSale                                                                *)
(***************************************************************************)
PaidFor(s) == {p \in DOMAIN payments : \E a \in payments[p].allocations : a.sale = s}

\* seeded fault: only what was paid at the till is reversed
PaidAtTheTill(s) ==
  {p \in PaidFor(s) \cap Posted : \A a \in payments[p].allocations : a.inst = 0}

(* The payments the void reverses, whatever else they paid.                *)
ToReverse(s) == PaidFor(s) \cap Posted

\* seeded fault: the cost entry stays on the books
UndoRevenueOnly(s) == Posting([cash |-> - sales[s].paid, ar |-> sales[s].paid - Qty(s), revenue |-> Qty(s)])

\* seeded fault: the whole total comes back off the drawer
UndoFromCash(s) == Posting([cash |-> - Qty(s), revenue |-> Qty(s),
                            cogs |-> - Qty(s), inventory |-> Qty(s)])

(* reverseJournalEntry on the sale's two entries.                          *)
UndoSale(s) ==
  LET entries == SaleEntries(Qty(s), sales[s].paid) IN
  Posting([a \in DOMAIN entries |-> - entries[a]])

VoidSale(s) ==
  /\ sales[s].status = "completed"
  /\ Len(payments) + Cardinality(ToReverse(s)) <= MaxPayments
  /\ onHand' = onHand + Qty(s)
  /\ serials' = BackAs({u \in sales[s].units : serials[u].status = "sold"}, "in_stock")
  /\ \E order \in [1..Cardinality(ToReverse(s)) -> ToReverse(s)] :
       /\ \A i, j \in DOMAIN order : i < j => order[i] < order[j]
       /\ payments' =
            [p \in DOMAIN payments |->
               IF p \in ToReverse(s) THEN [payments[p] EXCEPT !.status = "reversed"] ELSE payments[p]]
            \o [i \in DOMAIN order |-> Reversal(order[i], "-REV", None)]
  /\ gl' = UndoSale(s)
  /\ sales' = [sales EXCEPT ![s].status = "voided"]
  /\ UNCHANGED <<returns, shifts, damaged, today>>
-----------------------------------------------------------------------------
(***************************************************************************)
(* The drawer                                                              *)
(***************************************************************************)
OpenCashierShift(h) ==
  /\ \A g \in Shifts : shifts[g].status # "open"
  /\ shifts[h].status = "none"
  /\ \A g \in Shifts : g < h => shifts[g].status # "none"
  /\ shifts' = [shifts EXCEPT ![h].status = "open"]
  /\ UNCHANGED <<sales, returns, payments, goods, gl, today>>

Abs(n) == IF n < 0 THEN - n ELSE n

(* Cash rows of the shift, reversed ones with their reversals.  A close    *)
(* over the limit is made with an approver.  No float.                     *)
CashOf(P) == SumFunction([p \in P |-> CashEffect(p)])
NetCash(h) == CashOf({p \in DOMAIN payments : payments[p].shift = h})

CloseCashierShift(h, counted) ==
  LET variance == counted - NetCash(h) IN
  /\ shifts[h].status = "open"
  /\ Abs(variance) <= MaxVariance
  /\ shifts' = [shifts EXCEPT ![h] =
       [status |-> IF Abs(variance) > VarianceLimit THEN "approved" ELSE "closed", variance |-> variance]]
  /\ gl' = Posting([cash |-> variance, over_short |-> - variance])
  /\ UNCHANGED <<sales, returns, payments, goods, today>>

Tomorrow ==
  /\ today < MaxDay
  /\ today' = today + 1
  /\ UNCHANGED <<sales, returns, payments, shifts, goods, gl>>

ShiftOrNone == Shifts \cup {None}

Next ==
  \/ \E s \in Sales, U \in (SUBSET Units) \ {{}}, h \in ShiftOrNone :
       \E paid \in 0..Cardinality(U) : PostSale(s, U, paid, h)
  \/ \E S \in SUBSET Sales, h \in ShiftOrNone : CollectCustomerPayment(S, h)
  \/ \E s \in Sales : \E V \in SUBSET sales[s].units, c \in Conditions, d \in Dispositions :
       PostSaleReturn(s, V, c, d)
  \/ \E r \in DOMAIN returns : \E amount \in 1..Credit(r), h \in ShiftOrNone : RefundReturn(r, amount, h)
  \/ \E p \in DOMAIN payments : ReversePayment(p)
  \/ \E s \in Sales : VoidSale(s)
  \/ \E h \in Shifts : OpenCashierShift(h)
  \/ \E h \in Shifts :
       \E counted \in Nat \cap ((NetCash(h) - MaxVariance)..(NetCash(h) + MaxVariance)) :
         CloseCashierShift(h, counted)
  \/ Tomorrow

Spec == Init /\ [][Next]_vars
-----------------------------------------------------------------------------
TypeOK ==
  /\ sales \in [Sales -> SaleRow]
  /\ returns \in Seq(ReturnRow)
  /\ payments \in Seq(PaymentRow)
  /\ shifts \in [Shifts -> ShiftRow]
  /\ serials \in [Units -> [status : {"in_stock", "sold", "damaged"}, soldTo : Sales \cup {None}]]
  /\ onHand \in Nat /\ damaged \in Nat
  /\ gl \in [Accounts -> Int]
  /\ today \in Days

(* A payment that is reversed has exactly one row that reverses it, of the *)
(* same amount in the other direction, and a posted one has none: a void   *)
(* and a reversal by hand, or two voids that meet at one collection, never *)
(* give the money back twice (voidSale, reversePayment).                   *)
ReversedOnce ==
  \A p \in DOMAIN payments :
    /\ payments[p].status = "reversed" <=> \E q \in DOMAIN payments : payments[q].reverses = p
    /\ \A q \in DOMAIN payments : payments[q].reverses = p =>
         /\ payments[q].amount = payments[p].amount
         /\ payments[q].direction = Opposite(payments[p].direction)
         /\ \A r \in DOMAIN payments : payments[r].reverses = p => r = q

(* Whatever is collected, reversed and collected again, no sale has more   *)
(* posted money allocated to it than its total and no installment more     *)
(* than its amount (installmentBalances, collectCustomerPayment).          *)
NeverOverCollected ==
  \A s \in Sales :
    /\ Allocated(s) <= Qty(s)
    /\ \A i \in DOMAIN sales[s].schedule : Collected(s, i) <= sales[s].schedule[i].amount

Live == {s \in Sales : sales[s].status \notin {"none", "voided"}}

(* Revenue in the ledger is that of the sales that stand less what was     *)
(* returned, cost that of the same sales less the returns whose            *)
(* disposition is not scrap, after any order of sales, returns and voids;  *)
(* the inventory account mirrors the cost.  Whether goods were put back is *)
(* the line's condition and another matter (postSale, postSaleReturn,      *)
(* voidSale).                                                              *)
LedgerFollowsSales ==
  LET kept(R) == SumFunction([s \in Live |-> Qty(s)]) - CreditOf(R) IN
  /\ gl["revenue"] = - kept(DOMAIN returns)
  /\ gl["cogs"] = kept({r \in DOMAIN returns : returns[r].costBack})
  /\ gl["inventory"] = - gl["cogs"]

(* A voided sale keeps nothing: no payment still posted is allocated to    *)
(* it, nothing was or will be returned against it, and no serial number    *)
(* says it was sold by it -- whenever it was collected (voidSale).         *)
VoidedSaleIsEmpty ==
  \A s \in Sales : sales[s].status = "voided" =>
    /\ PaidFor(s) \cap Posted = {}
    /\ ReturnsOf(s) = {}
    /\ \A u \in Units : serials[u].soldTo # s

(* The void met only till payments nobody had reversed.                    *)
CleanVoid(s) ==
  \A p \in PaidFor(s) :
    /\ \A a \in payments[p].allocations : a.inst = 0
    /\ \A q \in DOMAIN payments : payments[q].reverses = p => payments[q].ref = "-REV"

(* The ledger's receivable is what the sales owe and its cash is what the  *)
(* payments moved plus the counted variances, through collections over     *)
(* several sales, returns, refunds and reversals -- as long as no sale is  *)
(* voided after a collection or a reversal, whose entries the void leaves  *)
(* on the books, and no reversal is itself reversed (checkArSubledgerGl    *)
(* compares the same two sides).                                           *)
BooksAgree ==
  (/\ \A s \in Sales : sales[s].status = "voided" => CleanVoid(s)
   /\ \A p \in DOMAIN payments : payments[p].status = "reversed" => payments[p].reverses = 0)
  => /\ gl["ar"] = SumFunction([s \in Live |-> SaleOutstanding(s)])
     /\ gl["cash"] = CashOf(DOMAIN payments) + SumFunction([h \in Shifts |-> shifts[h].variance])

(* checkSerialStockCount: the warehouse holds as many units on hand as     *)
(* serial numbers are in stock there.  Refuted: a serial returned and sold *)
(* again can be returned once more against the sale it left first, since   *)
(* postSaleReturn asks that it is sold and not by whom.                    *)
SerialStockCount == onHand = Cardinality({u \in Units : serials[u].status = "in_stock"})
=============================================================================
