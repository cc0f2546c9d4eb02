------------------------ MODULE SaleLifecycleProofs ------------------------
(***************************************************************************)
(* For any number of sales, units, shifts and payments: money that was     *)
(* given back is given back once; no sale is collected above its total; a  *)
(* void leaves no money, no return and no serial number behind; revenue    *)
(* and cost in the ledger follow the sales; and the receivable and the     *)
(* cash agree with the sales and the payments.                             *)
(*                                                                         *)
(* The payments are a sequence that commands extend and whose rows they    *)
(* mark as reversed.  Every command does both at once (Extends): it marks  *)
(* the rows of a set R, all posted, and adds one reversal for each of them *)
(* or receipts that reverse nothing.  PaymentsInv is kept by any such      *)
(* step; what is left is that each command makes one.  GoodsInv says the   *)
(* same of returns and serial numbers.  On them stand the sums of money:   *)
(* MoneyInv bounds each part of a sale by what it is for, StoryInv says    *)
(* what each row is, LedgerInv and BooksInv what the accounts hold.        *)
(***************************************************************************)
EXTENDS SaleLifecycle, SumTheorems, FiniteSetTheorems, SequenceTheorems, TLAPS

Fields == {"status", "ref", "direction", "amount", "shift", "return", "reverses", "allocations"}

IsRow(r) == DOMAIN r = Fields /\ r.status \in {"posted", "reversed"}

IsSequence(s) == Len(s) \in Nat /\ s = [p \in 1..Len(s) |-> s[p]] /\ s \in Seq({s[p] : p \in 1..Len(s)})

(* The inductive invariant of payments: rows reverse rows before them.     *)
PaymentsInv ==
  /\ IsSequence(payments)
  /\ \A p \in DOMAIN payments : IsRow(payments[p]) /\ payments[p].reverses \in 0..(p - 1)
  /\ ReversedOnce

Marked(row) == [row EXCEPT !.status = "reversed"]

(* The rows of R are marked, and the rows after the old ones are new.      *)
Extends(R) ==
  LET n == Len(payments) IN
  /\ IsSequence(payments')
  /\ n <= Len(payments')
  /\ \A p \in 1..n : payments'[p] = IF p \in R THEN Marked(payments[p]) ELSE payments[p]
  /\ \A q \in (n + 1)..Len(payments') :
       /\ IsRow(payments'[q]) /\ payments'[q].status = "posted"
       /\ payments'[q].reverses \in R \cup {0}
       /\ \A p \in R : payments'[q].reverses = p =>
            /\ payments'[q].amount = payments[p].amount
            /\ payments'[q].direction = Opposite(payments[p].direction)

(* Each row of R has one new row that reverses it.                         *)
ReversesEach(R) ==
  LET new == (Len(payments) + 1)..Len(payments') IN
  \A p \in R : /\ payments[p].status = "posted"
               /\ \E q \in new : payments'[q].reverses = p
               /\ \A q, r \in new : payments'[q].reverses = p /\ payments'[r].reverses = p => r = q
-----------------------------------------------------------------------------
LEMMA ExtendedPayments ==
  ASSUME NEW R, R \subseteq DOMAIN payments, PaymentsInv, Extends(R), ReversesEach(R)
  PROVE  PaymentsInv'
  <1> DEFINE n == Len(payments)
             m == Len(payments')
  <1>1. /\ n \in Nat /\ m \in Nat /\ n <= m
        /\ DOMAIN payments = 1..n /\ DOMAIN payments' = 1..m
    BY DEF PaymentsInv, Extends, IsSequence
  <1>2. \A p \in 1..n : /\ IsRow(payments[p]) /\ payments[p].reverses \in 0..(p - 1)
                        /\ payments'[p] = IF p \in R THEN Marked(payments[p]) ELSE payments[p]
    BY <1>1 DEF PaymentsInv, Extends
  <1>3. \A p \in 1..n : /\ IsRow(payments'[p])
                        /\ payments'[p].reverses = payments[p].reverses
                        /\ payments'[p].amount = payments[p].amount
                        /\ payments'[p].direction = payments[p].direction
                        /\ payments'[p].status = IF p \in R THEN "reversed" ELSE payments[p].status
    BY <1>2 DEF IsRow, Marked, Fields
  <1>4. \A q \in (n + 1)..m :
          /\ IsRow(payments'[q]) /\ payments'[q].status = "posted"
          /\ payments'[q].reverses \in R \cup {0}
          /\ \A p \in R : payments'[q].reverses = p =>
               /\ payments'[q].amount = payments[p].amount
               /\ payments'[q].direction = Opposite(payments[p].direction)
    BY DEF Extends
  <1>5. \A p \in R : /\ payments[p].status = "posted"
                     /\ \E q \in (n + 1)..m : payments'[q].reverses = p
                     /\ \A q, r \in (n + 1)..m :
                          payments'[q].reverses = p /\ payments'[r].reverses = p => r = q
    BY DEF ReversesEach
  <1>6. \A p \in 1..n :
          /\ payments[p].status = "reversed" <=> \E q \in 1..n : payments[q].reverses = p
          /\ \A q \in 1..n : payments[q].reverses = p =>
               /\ payments[q].amount = payments[p].amount
               /\ payments[q].direction = Opposite(payments[p].direction)
               /\ \A r \in 1..n : payments[r].reverses = p => r = q
    BY <1>1 DEF PaymentsInv, ReversedOnce
  <1>7. \A p \in 1..m : IsRow(payments'[p]) /\ payments'[p].reverses \in 0..(p - 1)
    BY <1>1, <1>2, <1>3, <1>4
  <1>8. R \subseteq 1..n
    BY <1>1
  <1> HIDE DEF n, m
  <1>9. ASSUME NEW p \in 1..m
        PROVE  /\ payments'[p].status = "reversed" <=> \E q \in 1..m : payments'[q].reverses = p
               /\ \A q \in 1..m : payments'[q].reverses = p =>
                    /\ payments'[q].amount = payments'[p].amount
                    /\ payments'[q].direction = Opposite(payments'[p].direction)
                    /\ \A r \in 1..m : payments'[r].reverses = p => r = q
    <2>1. CASE p \in R
      <3>1. \A q \in 1..n : payments[q].reverses # p
        BY <1>5, <1>6, <1>8, <2>1
      <3>2. \A q \in 1..m : payments'[q].reverses = p => q \in (n + 1)..m
        BY <1>1, <1>3, <3>1
      <3>3. (n + 1)..m \subseteq 1..m /\ p \in 1..n
        BY <1>1, <1>8, <2>1
      <3> QED BY <1>3, <1>4, <1>5, <2>1, <3>2, <3>3
    <2>2. CASE p \in 1..n \ R
      <3>1. \A q \in 1..m : payments'[q].reverses = p => q \in 1..n
        BY <1>1, <1>4, <2>2
      <3>2. 1..n \subseteq 1..m
        BY <1>1
      <3> QED BY <1>3, <1>6, <2>2, <3>1, <3>2
    <2>3. CASE p \in (n + 1)..m
      <3>1. \A q \in 1..m : payments'[q].reverses # p
        BY <1>1, <1>2, <1>3, <1>4, <1>8, <2>3
      <3> QED BY <1>4, <2>3, <3>1
    <2> QED BY <1>1, <2>1, <2>2, <2>3
  <1>10. ReversedOnce'
    BY <1>1, <1>9 DEF ReversedOnce, m
  <1>11. IsSequence(payments)'
    BY DEF Extends
  <1> QED BY <1>1, <1>7, <1>10, <1>11 DEF PaymentsInv, m
-----------------------------------------------------------------------------
LEMMA SequenceOfItself ==
  ASSUME NEW T, NEW s \in Seq(T)
  PROVE  IsSequence(s)
  <1>1. Len(s) \in Nat /\ s \in [1..Len(s) -> T]
    BY LenProperties
  <1>2. s \in [1..Len(s) -> {s[p] : p \in 1..Len(s)}]
    BY <1>1
  <1>3. s \in Seq({s[p] : p \in 1..Len(s)})
    BY <1>1, <1>2
  <1> QED BY <1>1, <1>3 DEF IsSequence

LEMMA SameRows == ASSUME PaymentsInv, payments' = payments PROVE PaymentsInv'
  BY DEF PaymentsInv, IsSequence, ReversedOnce

(* What a sequence of rows becomes when a row, or a sequence, is added.    *)
LEMMA AppendToSequence ==
  ASSUME NEW s, IsSequence(s), NEW row
  PROVE  /\ IsSequence(Append(s, row))
         /\ Len(Append(s, row)) = Len(s) + 1
         /\ \A p \in 1..Len(s) : Append(s, row)[p] = s[p]
         /\ Append(s, row)[Len(s) + 1] = row
  <1> DEFINE T == {s[p] : p \in 1..Len(s)} \cup {row}
             t == Append(s, row)
  <1>1. s \in Seq(T) /\ row \in T
    BY SeqMonotonic DEF IsSequence
  <1>2. /\ t \in Seq(T) /\ Len(t) = Len(s) + 1
        /\ \A p \in 1..Len(s) : t[p] = s[p]
        /\ t[Len(s) + 1] = row
    BY <1>1, AppendProperties
  <1> QED BY <1>2, SequenceOfItself

LEMMA AppendedRow ==
  ASSUME PaymentsInv, NEW row, IsRow(row), row.status = "posted", row.reverses = 0,
         payments' = Append(payments, row)
  PROVE  /\ Extends({}) /\ ReversesEach({})
         /\ Len(payments') = Len(payments) + 1 /\ payments'[Len(payments) + 1] = row
  <1>1. IsSequence(payments) /\ Len(payments) \in Nat
    BY DEF PaymentsInv, IsSequence
  <1>2. /\ IsSequence(payments') /\ Len(payments') = Len(payments) + 1
        /\ \A p \in 1..Len(payments) : payments'[p] = payments[p]
        /\ payments'[Len(payments) + 1] = row
    BY <1>1, AppendToSequence
  <1>3. \A q \in (Len(payments) + 1)..Len(payments') : payments'[q] = row
    BY <1>1, <1>2
  <1>4. Extends({}) /\ ReversesEach({})
    BY <1>1, <1>2, <1>3 DEF Extends, ReversesEach
  <1> QED BY <1>2, <1>4

LEMMA AddReceipt ==
  ASSUME PaymentsInv, NEW row, IsRow(row), row.status = "posted", row.reverses = 0,
         payments' = Append(payments, row)
  PROVE  PaymentsInv'
  BY AppendedRow, ExtendedPayments

LEMMA PostSaleRows == ASSUME PaymentsInv, NEW s, NEW U, NEW paid, NEW h, PostSale(s, U, paid, h)
                      PROVE  PaymentsInv'
  <1>1. CASE paid = 0
    <2>1. payments' = payments
      BY <1>1 DEF PostSale
    <2> QED BY <2>1, SameRows
  <1>2. CASE paid # 0
    <2> DEFINE row == Receipt(paid, h, {[sale |-> s, inst |-> 0, amount |-> paid]})
    <2>1. payments' = Append(payments, row)
      BY <1>2 DEF PostSale
    <2>2. IsRow(row) /\ row.status = "posted" /\ row.reverses = 0
      BY DEF Receipt, IsRow, Fields
    <2> HIDE DEF row
    <2> QED BY <2>1, <2>2, AddReceipt
  <1> QED BY <1>1, <1>2

LEMMA CollectionRows == ASSUME PaymentsInv, NEW S, NEW h, CollectCustomerPayment(S, h)
                        PROVE  PaymentsInv'
  <1>1. PICK amount, allocations : payments' = Append(payments, Receipt(amount, h, allocations))
    BY DEF CollectCustomerPayment
  <1> DEFINE row == Receipt(amount, h, allocations)
  <1>2. IsRow(row) /\ row.status = "posted" /\ row.reverses = 0
    BY DEF Receipt, IsRow, Fields
  <1> HIDE DEF row
  <1> QED BY <1>1, <1>2, AddReceipt DEF row

LEMMA RefundRows == ASSUME PaymentsInv, NEW r, NEW amount, NEW h, RefundReturn(r, amount, h)
                    PROVE  PaymentsInv'
  <1> DEFINE row == [Receipt(amount, h, {}) EXCEPT !.direction = "outgoing", !.return = r]
  <1>1. payments' = Append(payments, row)
    BY DEF RefundReturn
  <1>2. IsRow(row) /\ row.status = "posted" /\ row.reverses = 0
    BY DEF Receipt, IsRow, Fields
  <1> HIDE DEF row
  <1> QED BY <1>1, <1>2, AddReceipt
-----------------------------------------------------------------------------
LEMMA ReversalRow ==
  ASSUME NEW p, NEW ref, NEW shift
  PROVE  LET row == Reversal(p, ref, shift) IN
         /\ IsRow(row) /\ row.status = "posted" /\ row.reverses = p
         /\ row.amount = payments[p].amount /\ row.direction = Opposite(payments[p].direction)
  BY DEF Reversal, IsRow, Fields

LEMMA ReversalExtends ==
  ASSUME PaymentsInv, NEW p \in DOMAIN payments, ReversePayment(p)
  PROVE  /\ Extends({p}) /\ ReversesEach({p}) /\ p \in Posted
         /\ Len(payments') = Len(payments) + 1
         /\ payments'[Len(payments) + 1] = Reversal(p, "PMT-REV", payments[p].shift)
  <1> DEFINE marked == [payments EXCEPT ![p].status = "reversed"]
             row == Reversal(p, "PMT-REV", payments[p].shift)
             n == Len(payments)
  <1>1. n \in Nat /\ DOMAIN payments = 1..n /\ payments \in Seq({payments[q] : q \in 1..n})
    BY DEF PaymentsInv, IsSequence
  <1>2. marked \in Seq({payments[q] : q \in 1..n} \cup {Marked(payments[p])}) /\ Len(marked) = n
    BY <1>1, SeqMonotonic, ExceptSeq DEF Marked
  <1>3. \A q \in 1..n : marked[q] = IF q \in {p} THEN Marked(payments[q]) ELSE payments[q]
    BY <1>1 DEF Marked
  <1>4. payments' = Append(marked, row)
    BY DEF ReversePayment
  <1>5. payments[p].status = "posted"
    BY DEF ReversePayment, Reversible, PaymentsInv, IsRow
  <1>6. IsSequence(marked)
    BY <1>2, SequenceOfItself
  <1> HIDE DEF marked, row
  <1>7. /\ IsSequence(payments') /\ Len(payments') = n + 1
        /\ \A q \in 1..n : payments'[q] = marked[q]
        /\ payments'[n + 1] = row
    BY <1>2, <1>4, <1>6, AppendToSequence
  <1>8. /\ IsRow(row) /\ row.status = "posted" /\ row.reverses = p
        /\ row.amount = payments[p].amount /\ row.direction = Opposite(payments[p].direction)
    BY ReversalRow DEF row
  <1>9. \A q \in (n + 1)..Len(payments') : q = n + 1
    BY <1>1, <1>7
  <1>10. n + 1 \in (n + 1)..Len(payments')
    BY <1>1, <1>7
  <1>11. Extends({p})
    BY <1>1, <1>3, <1>7, <1>8, <1>9 DEF Extends
  <1>12. ReversesEach({p})
    BY <1>5, <1>7, <1>8, <1>9, <1>10 DEF ReversesEach
  <1>13. p \in Posted
    BY <1>5 DEF Posted
  <1> QED BY <1>7, <1>11, <1>12, <1>13 DEF row

LEMMA ReversalRows == ASSUME PaymentsInv, NEW p \in DOMAIN payments, ReversePayment(p)
                      PROVE  PaymentsInv'
  BY ReversalExtends, ExtendedPayments

(* A list of all of a finite set, smallest first, names each element once. *)
LEMMA ListedOnce ==
  ASSUME NEW R, R \subseteq Nat, IsFiniteSet(R), NEW order \in [1..Cardinality(R) -> R],
         \A i, j \in DOMAIN order : i < j => order[i] < order[j]
  PROVE  /\ \A p \in R : \E i \in 1..Cardinality(R) : order[i] = p
         /\ \A i, j \in 1..Cardinality(R) : order[i] = order[j] => i = j
  <1> DEFINE k == Cardinality(R)
  <1>1. k \in Nat
    BY FS_CardinalityType
  <1> HIDE DEF k
  <1>2. \A i, j \in 1..k : order[i] = order[j] => i = j
    <2> SUFFICES ASSUME NEW i \in 1..k, NEW j \in 1..k, order[i] = order[j] PROVE i = j
      OBVIOUS
    <2>1. DOMAIN order = 1..k /\ order[i] \in Nat /\ order[j] \in Nat
      BY DEF k
    <2>2. ~(i < j) /\ ~(j < i)
      BY <2>1
    <2> QED BY <1>1, <2>2
  <1>3. order \in Injection(1..k, R)
    BY <1>2 DEF k, Injection, IsInjective
  <1>4. IsFiniteSet(1..k) /\ Cardinality(1..k) = k
    BY <1>1, FS_Interval
  <1>5. order \in Surjection(1..k, R)
    BY <1>3, <1>4, FS_Injection DEF k
  <1> QED BY <1>2, <1>5 DEF Surjection, k

LEMMA VoidExtends ==
  ASSUME PaymentsInv, NEW s, VoidSale(s)
  PROVE  LET R == ToReverse(s) IN
         /\ Extends(R) /\ ReversesEach(R) /\ R \subseteq Posted
         /\ Len(payments') = Len(payments) + Cardinality(R)
         /\ \A q \in (Len(payments) + 1)..Len(payments') :
              \E p \in R : payments'[q] = Reversal(p, "-REV", None)
  <1> DEFINE R == ToReverse(s)
             n == Len(payments)
             k == Cardinality(R)
             marked == [p \in DOMAIN payments |->
                          IF p \in R THEN [payments[p] EXCEPT !.status = "reversed"] ELSE payments[p]]
  <1>1. n \in Nat /\ DOMAIN payments = 1..n
    BY DEF PaymentsInv, IsSequence
  <1>2. R \subseteq 1..n /\ \A p \in R : payments[p].status = "posted"
    BY <1>1 DEF ToReverse, PaidFor, Posted
  <1>3. IsFiniteSet(R) /\ R \subseteq Nat /\ k \in Nat
    <2> HIDE DEF R
    <2>1. IsFiniteSet(1..n)
      BY <1>1, FS_Interval
    <2>2. R \in SUBSET (1..n)
      BY <1>2
    <2>3. IsFiniteSet(R)
      BY <2>1, <2>2, FS_Subset
    <2> QED BY <1>2, <2>3, FS_CardinalityType
  <1>4. PICK order \in [1..k -> R] :
          /\ \A i, j \in DOMAIN order : i < j => order[i] < order[j]
          /\ payments' = marked \o [i \in DOMAIN order |-> Reversal(order[i], "-REV", None)]
    BY DEF VoidSale
  <1> DEFINE rows == [i \in 1..k |-> Reversal(order[i], "-REV", None)]
             T == {marked[p] : p \in 1..n} \cup {rows[i] : i \in 1..k}
  <1>5. /\ \A p \in R : \E i \in 1..k : order[i] = p
        /\ \A i, j \in 1..k : order[i] = order[j] => i = j
    BY <1>3, <1>4, ListedOnce
  <1>6. \A i \in 1..k :
          /\ IsRow(rows[i]) /\ rows[i].status = "posted" /\ rows[i].reverses = order[i]
          /\ rows[i].amount = payments[order[i]].amount
          /\ rows[i].direction = Opposite(payments[order[i]].direction)
    BY ReversalRow
  <1>7. \A p \in 1..n : marked[p] = IF p \in R THEN Marked(payments[p]) ELSE payments[p]
    BY <1>1 DEF Marked
  <1>8. payments' = marked \o rows
    BY <1>4
  <1>9. marked \in [1..n -> T] /\ rows \in [1..k -> T]
    BY <1>1
  <1> HIDE DEF R, marked, rows, T
  <1>10. marked \in Seq(T) /\ rows \in Seq(T) /\ Len(marked) = n /\ Len(rows) = k
    BY <1>1, <1>3, <1>9 DEF k
  <1>11. /\ payments' \in Seq(T) /\ Len(payments') = n + k
         /\ \A i \in 1..(n + k) : payments'[i] = IF i <= n THEN marked[i] ELSE rows[i - n]
    BY <1>8, <1>10, ConcatProperties
  <1>12. IsSequence(payments')
    BY <1>11, SequenceOfItself
  <1> HIDE DEF n, k
  <1>13. \A q \in (n + 1)..Len(payments') : q - n \in 1..k /\ payments'[q] = rows[q - n]
    BY <1>1, <1>3, <1>11
  <1>14. \A p \in 1..n : payments'[p] = IF p \in R THEN Marked(payments[p]) ELSE payments[p]
    BY <1>1, <1>3, <1>7, <1>11
  <1>15. \A i \in 1..k : n + i \in (n + 1)..Len(payments') /\ payments'[n + i].reverses = order[i]
    BY <1>1, <1>3, <1>6, <1>11
  <1>16. \A q \in (n + 1)..Len(payments') :
           /\ IsRow(payments'[q]) /\ payments'[q].status = "posted"
           /\ payments'[q].reverses = order[q - n]
           /\ payments'[q].amount = payments[order[q - n]].amount
           /\ payments'[q].direction = Opposite(payments[order[q - n]].direction)
    BY <1>6, <1>13
  <1>17. Extends(R)
    BY <1>1, <1>3, <1>4, <1>11, <1>12, <1>13, <1>14, <1>16 DEF Extends, n
  <1>18. ReversesEach(R)
    <2>1. \A p \in R : \E q \in (n + 1)..Len(payments') : payments'[q].reverses = p
      BY <1>5, <1>15
    <2>2. \A q, r \in (n + 1)..Len(payments') : payments'[q].reverses = payments'[r].reverses => r = q
      <3> SUFFICES ASSUME NEW q \in (n + 1)..Len(payments'), NEW r \in (n + 1)..Len(payments'),
                          payments'[q].reverses = payments'[r].reverses
                   PROVE  r = q
        OBVIOUS
      <3>1. q - n = r - n
        BY <1>5, <1>13, <1>16
      <3> QED BY <1>1, <3>1
    <2> QED BY <1>2, <2>1, <2>2 DEF ReversesEach, n
  <1>19. \A q \in (n + 1)..Len(payments') : \E p \in R : payments'[q] = Reversal(p, "-REV", None)
    <2>1. \A i \in 1..k : order[i] \in R /\ rows[i] = Reversal(order[i], "-REV", None)
      BY <1>4 DEF rows
    <2> QED BY <1>13, <2>1
  <1>20. R \subseteq Posted
    BY DEF R, ToReverse
  <1> QED BY <1>11, <1>17, <1>18, <1>19, <1>20 DEF n, k, R

LEMMA VoidRows == ASSUME PaymentsInv, NEW s, VoidSale(s)
                  PROVE  PaymentsInv'
  <1>1. ToReverse(s) \subseteq DOMAIN payments
    BY DEF ToReverse, Posted
  <1> QED BY <1>1, VoidExtends, ExtendedPayments
-----------------------------------------------------------------------------
LEMMA NextRows == ASSUME PaymentsInv, [Next]_vars PROVE PaymentsInv'
  <1>1. CASE \E s \in Sales, U \in (SUBSET Units) \ {{}}, h \in ShiftOrNone :
               \E paid \in 0..Cardinality(U) : PostSale(s, U, paid, h)
    BY <1>1, PostSaleRows
  <1>2. CASE \E S \in SUBSET Sales, h \in ShiftOrNone : CollectCustomerPayment(S, h)
    BY <1>2, CollectionRows
  <1>3. CASE \E r \in DOMAIN returns : \E amount \in 1..Credit(r), h \in ShiftOrNone : RefundReturn(r, amount, h)
    BY <1>3, RefundRows
  <1>4. CASE \E p \in DOMAIN payments : ReversePayment(p)
    BY <1>4, ReversalRows
  <1>5. CASE \E s \in Sales : VoidSale(s)
    BY <1>5, VoidRows
  <1>6. CASE \E s \in Sales : \E V \in SUBSET sales[s].units, c \in Conditions, d \in Dispositions :
               PostSaleReturn(s, V, c, d)
    BY <1>6, SameRows DEF PostSaleReturn
  <1>7. CASE \/ \E h \in Shifts : OpenCashierShift(h)
             \/ \E h \in Shifts :
                  \E counted \in Nat \cap ((NetCash(h) - MaxVariance)..(NetCash(h) + MaxVariance)) :
                    CloseCashierShift(h, counted)
             \/ Tomorrow
             \/ UNCHANGED vars
    BY <1>7, SameRows DEF OpenCashierShift, CloseCashierShift, Tomorrow, vars
  <1> QED BY <1>1, <1>2, <1>3, <1>4, <1>5, <1>6, <1>7 DEF Next

LEMMA InitRows == Init => PaymentsInv
  <1> SUFFICES ASSUME payments = <<>> PROVE PaymentsInv
    BY DEF Init
  <1>1. IsSequence(payments) /\ DOMAIN payments = {}
    <2>1. payments \in Seq({}) /\ Len(payments) = 0
      BY EmptySeq
    <2>2. DOMAIN payments = 1..0
      BY <2>1, LenProperties
    <2>3. IsSequence(payments)
      BY <2>1, SequenceOfItself
    <2> QED BY <2>2, <2>3
  <1> QED BY <1>1 DEF PaymentsInv, ReversedOnce

(* Money is given back at most once for a payment, by hand or by a void,   *)
(* for any number of sales and payments (reversePayment, voidSale).        *)
THEOREM PaymentsAreReversedOnce == Spec => []ReversedOnce
  <1>1. PaymentsInv => ReversedOnce
    BY DEF PaymentsInv
  <1> QED BY <1>1, InitRows, NextRows, PTL DEF Spec
-----------------------------------------------------------------------------
(* A void finds no return because a sale with one is no longer completed,  *)
(* and takes its serial numbers out because those that name it are its own *)
(* and sold.                                                               *)
SaleFields == {"status", "units", "paid", "schedule"}

SalesAreRows == DOMAIN sales = Sales /\ \A s \in Sales : DOMAIN sales[s] = SaleFields

ReturnsShow ==
  /\ IsSequence(returns)
  /\ \A r \in DOMAIN returns :
       returns[r].sale \in Sales => sales[returns[r].sale].status \in {"partially_returned", "returned"}

SerialsAreOwned ==
  \A s \in Sales, u \in Units : serials[u].soldTo = s =>
    /\ serials[u].status = "sold"
    /\ u \in sales[s].units
    /\ sales[s].status \notin {"none", "voided"}

GoodsInv == SalesAreRows /\ ReturnsShow /\ SerialsAreOwned

LEMMA SaleIsNotNone == \A s \in Sales : s # None
  BY SaleAssumption DEF Sales

LEMMA SameGoods == ASSUME GoodsInv, UNCHANGED <<sales, returns, serials>> PROVE GoodsInv'
  BY DEF GoodsInv, SalesAreRows, ReturnsShow, SerialsAreOwned, IsSequence

LEMMA PostSaleGoods == ASSUME GoodsInv, NEW s \in Sales, NEW U, NEW paid, NEW h, PostSale(s, U, paid, h)
                       PROVE  GoodsInv'
  <1>1. PICK schedule : sales' = [sales EXCEPT ![s] =
                          [status |-> "completed", units |-> U, paid |-> paid, schedule |-> schedule]]
    BY DEF PostSale
  <1>2. /\ DOMAIN sales' = Sales
        /\ \A t \in Sales \ {s} : sales'[t] = sales[t]
        /\ DOMAIN sales'[s] = SaleFields /\ sales'[s].status = "completed" /\ sales'[s].units = U
    BY <1>1 DEF GoodsInv, SalesAreRows, SaleFields
  <1>3. sales[s].status = "none" /\ returns' = returns
    BY DEF PostSale
  <1>4. ReturnsShow'
    BY <1>2, <1>3 DEF GoodsInv, ReturnsShow, IsSequence
  <1>5. SerialsAreOwned'
    <2>1. \A u \in Units : serials'[u] = IF u \in U THEN [status |-> "sold", soldTo |-> s] ELSE serials[u]
      BY DEF PostSale
    <2> QED BY <1>2, <1>3, <2>1 DEF GoodsInv, SerialsAreOwned
  <1> QED BY <1>2, <1>4, <1>5 DEF GoodsInv, SalesAreRows

\* The status of sale s and the serials some return or void takes back.
LEMMA StatusOfSale ==
  ASSUME GoodsInv, NEW s \in Sales, NEW status, sales' = [sales EXCEPT ![s].status = status]
  PROVE  /\ DOMAIN sales' = Sales
         /\ \A t \in Sales \ {s} : sales'[t] = sales[t]
         /\ DOMAIN sales'[s] = SaleFields /\ sales'[s].status = status /\ sales'[s].units = sales[s].units
         /\ sales'[s].paid = sales[s].paid /\ sales'[s].schedule = sales[s].schedule
  <1>1. sales' = [sales EXCEPT ![s] = [sales[s] EXCEPT !.status = status]]
    OBVIOUS
  <1>2. DOMAIN sales = Sales /\ DOMAIN sales[s] = SaleFields
    BY DEF GoodsInv, SalesAreRows
  <1> QED BY <1>1, <1>2 DEF SaleFields

LEMMA ReturnGoods ==
  ASSUME GoodsInv, NEW s \in Sales, NEW V, NEW c, NEW d, PostSaleReturn(s, V, c, d)
  PROVE  GoodsInv'
  <1>1. PICK status \in {"returned", "partially_returned"} : sales' = [sales EXCEPT ![s].status = status]
    BY DEF PostSaleReturn
  <1>2. /\ DOMAIN sales' = Sales
        /\ \A t \in Sales \ {s} : sales'[t] = sales[t]
        /\ DOMAIN sales'[s] = SaleFields /\ sales'[s].status = status /\ sales'[s].units = sales[s].units
    BY <1>1, StatusOfSale
  <1> DEFINE row == [sale |-> s, units |-> V, costBack |-> d # "scrap"]
             n == Len(returns)
  <1>3. returns' = Append(returns, row) /\ row.sale = s
    BY DEF PostSaleReturn
  <1>4. IsSequence(returns) /\ n \in Nat /\ DOMAIN returns = 1..n
    BY DEF GoodsInv, ReturnsShow, IsSequence
  <1> HIDE DEF row
  <1>5. /\ IsSequence(returns') /\ Len(returns') = n + 1
        /\ \A r \in 1..n : returns'[r] = returns[r]
        /\ returns'[n + 1] = row
    BY <1>3, <1>4, AppendToSequence
  <1>6. DOMAIN returns' = 1..(n + 1)
    BY <1>4, <1>5 DEF IsSequence
  <1>7. ReturnsShow'
    <2>1. ASSUME NEW r \in DOMAIN returns', returns'[r].sale \in Sales
          PROVE  sales'[returns'[r].sale].status \in {"partially_returned", "returned"}
      <3>1. CASE r \in 1..n
        BY <1>1, <1>2, <1>4, <1>5, <2>1, <3>1 DEF GoodsInv, ReturnsShow
      <3>2. CASE r = n + 1
        BY <1>1, <1>2, <1>3, <1>5, <3>2
      <3> QED BY <1>4, <1>6, <2>1, <3>1, <3>2
    <2> QED BY <1>5, <2>1 DEF ReturnsShow
  <1>8. SerialsAreOwned'
    <2>1. \A u \in Units : serials'[u] = serials[u] \/ serials'[u].soldTo = None
      <3>1. CASE c = "resalable"
        BY <3>1 DEF PostSaleReturn, Receive, BackAs
      <3>2. CASE c = "damaged"
        BY <3>2 DEF PostSaleReturn, Receive, BackAs
      <3>3. CASE c \notin {"resalable", "damaged"}
        BY <3>3 DEF PostSaleReturn, Receive, goods
      <3> QED BY <3>1, <3>2, <3>3
    <2> QED BY <1>1, <1>2, <2>1, SaleIsNotNone DEF GoodsInv, SerialsAreOwned
  <1> QED BY <1>2, <1>7, <1>8 DEF GoodsInv, SalesAreRows

LEMMA VoidGoods == ASSUME GoodsInv, NEW s \in Sales, VoidSale(s)
                   PROVE  GoodsInv'
  <1>1. sales' = [sales EXCEPT ![s].status = "voided"] /\ sales[s].status = "completed" /\ returns' = returns
    BY DEF VoidSale
  <1>2. /\ DOMAIN sales' = Sales
        /\ \A t \in Sales \ {s} : sales'[t] = sales[t]
        /\ DOMAIN sales'[s] = SaleFields /\ sales'[s].status = "voided" /\ sales'[s].units = sales[s].units
    BY <1>1, StatusOfSale
  <1>3. ReturnsShow'
    BY <1>1, <1>2 DEF GoodsInv, ReturnsShow, IsSequence
  <1>4. SerialsAreOwned'
    <2>1. \A u \in Units :
            serials'[u] = IF u \in sales[s].units /\ serials[u].status = "sold"
                            THEN [status |-> "in_stock", soldTo |-> None] ELSE serials[u]
      BY DEF VoidSale, BackAs
    <2> QED BY <1>2, <2>1, SaleIsNotNone DEF GoodsInv, SerialsAreOwned
  <1> QED BY <1>2, <1>3, <1>4 DEF GoodsInv, SalesAreRows

LEMMA NextGoods == ASSUME GoodsInv, [Next]_vars PROVE GoodsInv'
  <1>1. CASE \E s \in Sales, U \in (SUBSET Units) \ {{}}, h \in ShiftOrNone :
               \E paid \in 0..Cardinality(U) : PostSale(s, U, paid, h)
    BY <1>1, PostSaleGoods
  <1>2. CASE \E s \in Sales : \E V \in SUBSET sales[s].units, c \in Conditions, d \in Dispositions :
               PostSaleReturn(s, V, c, d)
    BY <1>2, ReturnGoods
  <1>3. CASE \E s \in Sales : VoidSale(s)
    BY <1>3, VoidGoods
  <1>4. CASE \/ \E S \in SUBSET Sales, h \in ShiftOrNone : CollectCustomerPayment(S, h)
             \/ \E r \in DOMAIN returns : \E amount \in 1..Credit(r), h \in ShiftOrNone : RefundReturn(r, amount, h)
             \/ \E p \in DOMAIN payments : ReversePayment(p)
             \/ \E h \in Shifts : OpenCashierShift(h)
             \/ \E h \in Shifts :
                  \E counted \in Nat \cap ((NetCash(h) - MaxVariance)..(NetCash(h) + MaxVariance)) :
                    CloseCashierShift(h, counted)
             \/ Tomorrow
             \/ UNCHANGED vars
    <2>1. UNCHANGED <<sales, returns, serials>>
      BY <1>4 DEF CollectCustomerPayment, RefundReturn, ReversePayment, OpenCashierShift, CloseCashierShift,
                  Tomorrow, vars, goods
    <2> QED BY <2>1, SameGoods
  <1> QED BY <1>1, <1>2, <1>3, <1>4 DEF Next

LEMMA InitGoods == Init => GoodsInv
  <1> SUFFICES ASSUME Init PROVE GoodsInv
    OBVIOUS
  <1>1. SalesAreRows
    BY DEF Init, SalesAreRows, NoSale, SaleFields
  <1>2. returns \in Seq({}) /\ Len(returns) = 0
    BY EmptySeq DEF Init
  <1>3. ReturnsShow
    <2>1. DOMAIN returns = 1..0
      BY <1>2, LenProperties
    <2>2. IsSequence(returns)
      BY <1>2, SequenceOfItself
    <2> QED BY <2>1, <2>2 DEF ReturnsShow
  <1>4. SerialsAreOwned
    BY SaleIsNotNone DEF Init, SerialsAreOwned
  <1> QED BY <1>1, <1>3, <1>4 DEF GoodsInv

(* A voided sale has no return, before or after the void, and no serial    *)
(* number says it was sold by it, whatever was sold, returned and sold     *)
(* again: the goods' part of VoidedSaleIsEmpty (voidSale, postSaleReturn). *)
THEOREM VoidKeepsNoGoods ==
  Spec => [](\A s \in Sales : sales[s].status = "voided" =>
               ReturnsOf(s) = {} /\ \A u \in Units : serials[u].soldTo # s)
  <1> DEFINE Emptied == \A s \in Sales : sales[s].status = "voided" =>
                          ReturnsOf(s) = {} /\ \A u \in Units : serials[u].soldTo # s
  <1>1. GoodsInv => Emptied
    BY DEF GoodsInv, ReturnsShow, SerialsAreOwned, ReturnsOf
  <1>2. Spec => []GoodsInv
    BY InitGoods, NextGoods, PTL DEF Spec
  <1> QED BY <1>1, <1>2, PTL
-----------------------------------------------------------------------------
(***************************************************************************)
(* The money: what is allocated to a sale, and through which installment   *)
(* (installmentBalances).                                                  *)
(***************************************************************************)
MoneyRow(row) ==
  /\ row.direction \in {"incoming", "outgoing"}
  /\ row.amount \in Nat /\ row.return \in Nat
  /\ IsFiniteSet(row.allocations)
  /\ \A a \in row.allocations : a.sale \in Sales /\ a.inst \in 0..MaxInstallments /\ a.amount \in Nat

(* What a row has for sale s through the installments of I.                *)
Part(row, I, s) == TotalOf({a \in row.allocations : a.sale = s /\ a.inst \in I})

(* The larger of two numbers, as Math.max gives it.                        *)
LEMMA MaxOfTwo ==
  ASSUME NEW a \in Int, NEW b \in Int
  PROVE  Max({a, b}) = IF a >= b THEN a ELSE b
  <1> DEFINE m == IF a >= b THEN a ELSE b
  <1>1. m \in {a, b} /\ \A y \in {a, b} : m >= y
    OBVIOUS
  <1>2. \A x \in {a, b} : (\A y \in {a, b} : x >= y) => x = m
    OBVIOUS
  <1> HIDE DEF m
  <1>3. (CHOOSE x \in {a, b} : \A y \in {a, b} : x >= y) = m
    BY <1>1, <1>2
  <1> QED BY <1>3 DEF Max, m

(* The smaller of two numbers, as Math.min gives it.                       *)
LEMMA MinOfTwo ==
  ASSUME NEW a \in Int, NEW b \in Int
  PROVE  Min({a, b}) = IF a <= b THEN a ELSE b
  <1> DEFINE m == IF a <= b THEN a ELSE b
  <1>1. m \in {a, b} /\ \A y \in {a, b} : m <= y
    OBVIOUS
  <1>2. \A x \in {a, b} : (\A y \in {a, b} : x <= y) => x = m
    OBVIOUS
  <1> HIDE DEF m
  <1>3. (CHOOSE x \in {a, b} : \A y \in {a, b} : x <= y) = m
    BY <1>1, <1>2
  <1> QED BY <1>3 DEF Min, m

(* A total of amounts is a natural number.                                 *)
LEMMA TotalNat ==
  ASSUME NEW A, IsFiniteSet(A), \A a \in A : a.amount \in Nat
  PROVE  TotalOf(A) \in Nat
  <1>1. \A a \in A : [x \in A |-> x.amount][a] \in Nat
    OBVIOUS
  <1>2. SumFunctionOnSet([a \in A |-> a.amount], A) \in Nat
    BY <1>1, SumNat
  <1> QED BY <1>2 DEF TotalOf, SumFunction

(* No allocation has no amount.                                            *)
LEMMA TotalOfNone == TotalOf({}) = 0
  BY SumEmpty DEF TotalOf, SumFunction

(* One allocation has its own amount.                                      *)
LEMMA TotalOfOne ==
  ASSUME NEW a, a.amount \in Int
  PROVE  TotalOf({a}) = a.amount
  <1> DEFINE f == [x \in {a} |-> x.amount]
  <1>1. f[a] = a.amount
    OBVIOUS
  <1>2. TotalOf({a}) = SumFunctionOnSet(f, {a})
    BY DEF TotalOf, SumFunction
  <1> HIDE DEF f
  <1> QED BY <1>1, <1>2, SumOne

(* What a row has for a sale is a natural number.                          *)
LEMMA PartNat ==
  ASSUME NEW row, MoneyRow(row), NEW I, NEW s
  PROVE  Part(row, I, s) \in Nat
  <1> DEFINE A == {a \in row.allocations : a.sale = s /\ a.inst \in I}
  <1>1. A \in SUBSET row.allocations
    OBVIOUS
  <1>2. IsFiniteSet(A)
    <2> HIDE DEF A
    <2> QED BY <1>1, FS_Subset DEF MoneyRow
  <1>3. \A a \in A : a.amount \in Nat
    BY DEF MoneyRow
  <1> HIDE DEF A
  <1>4. TotalOf(A) \in Nat
    BY <1>2, <1>3, TotalNat
  <1> QED BY <1>4 DEF Part, A

(* A row with no allocation to the sale, or none through the installments  *)
(* asked for, has nothing for it.                                          *)
LEMMA PartOfNone ==
  ASSUME NEW row, NEW I, NEW s, \A a \in row.allocations : a.sale # s \/ a.inst \notin I
  PROVE  Part(row, I, s) = 0
  <1>1. {a \in row.allocations : a.sale = s /\ a.inst \in I} = {}
    OBVIOUS
  <1> QED BY <1>1, TotalOfNone DEF Part

(* What a row has through one more installment is what it has through the  *)
(* others and what it has through that one.                                *)
LEMMA PartWithOneMore ==
  ASSUME NEW row, MoneyRow(row), NEW I, NEW i, i \notin I, NEW s
  PROVE  Part(row, I \cup {i}, s) = Part(row, I, s) + Part(row, {i}, s)
  <1> DEFINE A == {a \in row.allocations : a.sale = s /\ a.inst \in I}
             B == {a \in row.allocations : a.sale = s /\ a.inst \in {i}}
             C == {a \in row.allocations : a.sale = s /\ a.inst \in I \cup {i}}
             f == [a \in C |-> a.amount]
  <1>1. A \in SUBSET row.allocations /\ B \in SUBSET row.allocations /\ A \cap B = {} /\ C = A \cup B
    OBVIOUS
  <1>2. \A a \in A \cup B : f[a] \in Int
    BY <1>1 DEF MoneyRow
  <1>3. IsFiniteSet(A) /\ IsFiniteSet(B)
    <2> HIDE DEF A, B
    <2> QED BY <1>1, FS_Subset DEF MoneyRow
  <1>4. (\A a \in A : f[a] = [x \in A |-> x.amount][a]) /\ (\A a \in B : f[a] = [x \in B |-> x.amount][a])
    BY <1>1
  <1>5. TotalOf(C) = SumFunctionOnSet(f, C)
    BY DEF TotalOf, SumFunction
  <1> HIDE DEF A, B, C, f
  <1>6. SumFunctionOnSet(f, A \cup B) = SumFunctionOnSet(f, A) + SumFunctionOnSet(f, B)
    BY <1>1, <1>2, <1>3, SumDisjoint
  <1>7. SumFunctionOnSet(f, A) = TotalOf(A) /\ SumFunctionOnSet(f, B) = TotalOf(B)
    <2>1. SumFunctionOnSet(f, A) = SumFunctionOnSet([x \in A |-> x.amount], A)
      BY <1>3, <1>4, SumSame
    <2>2. SumFunctionOnSet(f, B) = SumFunctionOnSet([x \in B |-> x.amount], B)
      BY <1>3, <1>4, SumSame
    <2> QED BY <2>1, <2>2 DEF TotalOf, SumFunction
  <1>8. TotalOf(C) = TotalOf(A) + TotalOf(B)
    BY <1>1, <1>5, <1>6, <1>7
  <1> QED BY <1>8 DEF Part, A, B, C

MoneyRows == \A p \in DOMAIN payments : MoneyRow(payments[p])

(* The rows are numbered from one and the posted ones are finitely many.   *)
LEMMA PostedIsFinite ==
  ASSUME PaymentsInv
  PROVE  /\ IsFiniteSet(DOMAIN payments) /\ IsFiniteSet(Posted)
         /\ DOMAIN payments = 1..Len(payments) /\ Len(payments) \in Nat
  <1>1. DOMAIN payments = 1..Len(payments) /\ Len(payments) \in Nat
    BY DEF PaymentsInv, IsSequence
  <1>2. IsFiniteSet(1..Len(payments))
    BY <1>1, FS_Interval
  <1>3. Posted \in SUBSET (1..Len(payments))
    BY <1>1 DEF Posted
  <1>4. IsFiniteSet(Posted)
    BY <1>2, <1>3, FS_Subset
  <1> QED BY <1>1, <1>2, <1>4

(* A row keeps everything but its status, and the new rows are posted.     *)
LEMMA RowsKept ==
  ASSUME NEW R, R \subseteq DOMAIN payments, PaymentsInv, Extends(R)
  PROVE  LET n == Len(payments)
             m == Len(payments')
         IN  /\ n \in Nat /\ m \in Nat /\ n <= m
             /\ DOMAIN payments = 1..n /\ DOMAIN payments' = 1..m
             /\ \A p \in 1..n : /\ payments'[p].reverses = payments[p].reverses
                                /\ payments'[p].ref = payments[p].ref
                                /\ payments'[p].amount = payments[p].amount
                                /\ payments'[p].direction = payments[p].direction
                                /\ payments'[p].return = payments[p].return
                                /\ payments'[p].allocations = payments[p].allocations
                                /\ payments'[p].shift = payments[p].shift
             /\ Posted' = (Posted \ R) \cup ((n + 1)..m)
  <1> DEFINE n == Len(payments)
             m == Len(payments')
  <1>1. /\ n \in Nat /\ m \in Nat /\ n <= m
        /\ DOMAIN payments = 1..n /\ DOMAIN payments' = 1..m
    BY DEF PaymentsInv, Extends, IsSequence
  <1>2. \A p \in 1..n : /\ IsRow(payments[p])
                        /\ payments'[p] = IF p \in R THEN Marked(payments[p]) ELSE payments[p]
    BY <1>1 DEF PaymentsInv, Extends
  <1>3. \A p \in 1..n : /\ payments'[p].reverses = payments[p].reverses
                        /\ payments'[p].ref = payments[p].ref
                        /\ payments'[p].amount = payments[p].amount
                        /\ payments'[p].direction = payments[p].direction
                        /\ payments'[p].return = payments[p].return
                        /\ payments'[p].allocations = payments[p].allocations
                        /\ payments'[p].shift = payments[p].shift
                        /\ payments'[p].status = IF p \in R THEN "reversed" ELSE payments[p].status
    BY <1>2 DEF IsRow, Marked, Fields
  <1>4. \A q \in (n + 1)..m : payments'[q].status = "posted"
    BY DEF Extends
  <1>5. Posted' = (Posted \ R) \cup ((n + 1)..m)
    BY <1>1, <1>3, <1>4 DEF Posted
  <1> QED BY <1>1, <1>3, <1>5

(* What any sum over the posted rows becomes: the marked rows leave it and *)
(* the new ones enter.                                                     *)
LEMMA PostedStep ==
  ASSUME NEW R, R \subseteq Posted, PaymentsInv, Extends(R),
         NEW w, \A p \in DOMAIN payments' : w[p] \in Int
  PROVE  SumFunctionOnSet(w, Posted') =
           SumFunctionOnSet(w, Posted) - SumFunctionOnSet(w, R)
           + SumFunctionOnSet(w, (Len(payments) + 1)..Len(payments'))
  <1> DEFINE N == (Len(payments) + 1)..Len(payments')
  <1>1. /\ Len(payments) \in Nat /\ Len(payments') \in Nat /\ Len(payments) <= Len(payments')
        /\ DOMAIN payments = 1..Len(payments) /\ DOMAIN payments' = 1..Len(payments')
        /\ Posted' = (Posted \ R) \cup N
    <2>1. R \subseteq DOMAIN payments
      BY DEF Posted
    <2> QED BY <2>1, RowsKept
  <1>2. IsFiniteSet(N) /\ N \cap Posted = {}
    BY <1>1, FS_Interval DEF Posted
  <1>3. \A p \in Posted \cup N : w[p] \in Int
    BY <1>1 DEF Posted
  <1> HIDE DEF N
  <1>4. SumFunctionOnSet(w, (Posted \ R) \cup N) =
          SumFunctionOnSet(w, Posted) - SumFunctionOnSet(w, R) + SumFunctionOnSet(w, N)
    BY <1>2, <1>3, PostedIsFinite, SumMove
  <1> QED BY <1>1, <1>4 DEF N

(* The money allocated to a sale is the sum of what each posted row has    *)
(* for it.                                                                 *)
LEMMA AllocatedIsSum ==
  ASSUME PaymentsInv, NEW I, NEW s
  PROVE  \A w : (\A p \in Posted : w[p] = Part(payments[p], I, s))
                => SumFunctionOnSet(w, Posted) = AllocatedThrough(I, s)
  <1> SUFFICES ASSUME NEW w, \A p \in Posted : w[p] = Part(payments[p], I, s)
               PROVE  SumFunctionOnSet(w, Posted) = AllocatedThrough(I, s)
    OBVIOUS
  <1> DEFINE v == [p \in Posted |-> Part(payments[p], I, s)]
  <1>1. AllocatedThrough(I, s) = SumFunctionOnSet(v, Posted)
    BY DEF AllocatedThrough, SumFunction, Part
  <1>2. \A p \in Posted : w[p] = v[p]
    OBVIOUS
  <1> HIDE DEF v
  <1>3. SumFunctionOnSet(w, Posted) = SumFunctionOnSet(v, Posted)
    BY <1>2, PostedIsFinite, SumSame
  <1> QED BY <1>1, <1>3

(* What a command does to the money allocated: marked rows leave, new ones *)
(* add theirs.                                                             *)
LEMMA AllocatedStep ==
  ASSUME NEW R, R \subseteq Posted, PaymentsInv, PaymentsInv', Extends(R), MoneyRows', NEW I, NEW s,
         NEW w, \A p \in DOMAIN payments' : w[p] = Part(payments'[p], I, s)
  PROVE  /\ AllocatedThrough(I, s)' =
              AllocatedThrough(I, s) - SumFunctionOnSet(w, R)
              + SumFunctionOnSet(w, (Len(payments) + 1)..Len(payments'))
         /\ \A p \in DOMAIN payments' : w[p] \in Nat
         /\ AllocatedThrough(I, s) \in Nat /\ AllocatedThrough(I, s)' \in Nat
         /\ SumFunctionOnSet(w, R) \in Nat
  <1> DEFINE n == Len(payments)
             m == Len(payments')
  <1>0. R \subseteq DOMAIN payments
    BY DEF Posted
  <1>1. \A p \in DOMAIN payments' : w[p] \in Nat
    BY PartNat DEF MoneyRows
  <1>2. /\ n \in Nat /\ m \in Nat /\ n <= m
        /\ DOMAIN payments = 1..n /\ DOMAIN payments' = 1..m
        /\ \A p \in 1..n : payments'[p].allocations = payments[p].allocations
    BY <1>0, RowsKept
  <1>3. \A p \in Posted : w[p] = Part(payments[p], I, s)
    <2> SUFFICES ASSUME NEW p \in Posted PROVE w[p] = Part(payments[p], I, s)
      OBVIOUS
    <2>1. payments'[p].allocations = payments[p].allocations /\ p \in DOMAIN payments'
      BY <1>2 DEF Posted
    <2>2. w[p] = Part(payments'[p], I, s)
      BY <2>1
    <2> QED BY <2>1, <2>2 DEF Part
  <1>4. \A p \in Posted' : w[p] = Part(payments'[p], I, s)
    BY DEF Posted
  <1>5. SumFunctionOnSet(w, Posted) = AllocatedThrough(I, s)
    BY <1>3, AllocatedIsSum
  <1>6. SumFunctionOnSet(w, Posted') = AllocatedThrough(I, s)' /\ SumFunctionOnSet(w, Posted') \in Nat
    <2> DEFINE v == [p \in Posted' |-> Part(payments'[p], I, s)]
    <2>1. AllocatedThrough(I, s)' = SumFunctionOnSet(v, Posted')
      BY DEF AllocatedThrough, SumFunction, Part
    <2>2. \A p \in Posted' : w[p] = v[p]
      BY <1>4
    <2>3. IsFiniteSet(Posted')
      <3>1. IsFiniteSet(1..m) /\ Posted' \in SUBSET (1..m)
        BY <1>2, FS_Interval DEF Posted
      <3> QED BY <3>1, FS_Subset
    <2>4. \A p \in Posted' : w[p] \in Nat
      BY <1>1 DEF Posted
    <2> HIDE DEF v
    <2> QED BY <2>1, <2>2, <2>3, <2>4, SumSame, SumNat
  <1>7. SumFunctionOnSet(w, Posted') =
          SumFunctionOnSet(w, Posted) - SumFunctionOnSet(w, R) + SumFunctionOnSet(w, (n + 1)..m)
    BY <1>1, PostedStep
  <1>8. AllocatedThrough(I, s) \in Nat /\ SumFunctionOnSet(w, R) \in Nat
    <2>1. \A p \in Posted : w[p] \in Nat
      BY <1>1, <1>2 DEF Posted
    <2>2. SumFunctionOnSet(w, Posted) \in Nat
      BY <2>1, PostedIsFinite, SumNat
    <2>3. IsFiniteSet(R) /\ \A p \in R : w[p] \in Nat
      BY <2>1, PostedIsFinite, FS_Subset
    <2> QED BY <1>5, <2>2, <2>3, SumNat
  <1> QED BY <1>1, <1>5, <1>6, <1>7, <1>8

Statuses == {"none", "completed", "partially_returned", "returned", "voided"}

(* A sale keeps what it was posted with; its schedule is for the rest.     *)
SaleData(s) ==
  /\ sales[s].status \in Statuses
  /\ sales[s].units \subseteq Units
  /\ sales[s].paid \in Nat
  /\ IsSequence(sales[s].schedule) /\ Len(sales[s].schedule) \in 0..MaxInstallments
  /\ \A i \in DOMAIN sales[s].schedule : /\ sales[s].schedule[i].amount \in Nat
                                         /\ sales[s].schedule[i].due \in Nat
  /\ sales[s].paid + Scheduled(sales[s].schedule) = Qty(s)

SalesInv == today \in Nat /\ \A s \in Sales : SaleData(s)

(* Money is allocated to a sale that was posted: at the till, or through   *)
(* an installment it has.                                                  *)
AllocationsFit(row) ==
  \A a \in row.allocations :
    /\ sales[a.sale].status # "none"
    /\ a.inst = 0 \/ a.inst \in DOMAIN sales[a.sale].schedule

RowsInv == MoneyRows /\ \A p \in DOMAIN payments : AllocationsFit(payments[p])

(* No part of a sale, paid at the till or in an installment, has more than *)
(* it is for.                                                              *)
CollectedInv ==
  \A s \in Sales :
    /\ Collected(s, 0) <= sales[s].paid
    /\ \A i \in DOMAIN sales[s].schedule : Collected(s, i) <= sales[s].schedule[i].amount

(* What no command changes of a sale once it is posted.                    *)
SalesStand ==
  \A s \in Sales :
    sales[s].status # "none" =>
      /\ sales'[s].status # "none"
      /\ sales'[s].units = sales[s].units
      /\ sales'[s].paid = sales[s].paid
      /\ sales'[s].schedule = sales[s].schedule

(* A function on 1..n is a sequence of length n.                           *)
LEMMA FunctionIsSequence ==
  ASSUME NEW n \in Nat, NEW T, NEW c \in [1..n -> T]
  PROVE  c \in Seq(T) /\ Len(c) = n
  <1>1. c \in Seq(T)
    OBVIOUS
  <1> QED BY <1>1, LenProperties

(* A sale has a number of units.                                           *)
LEMMA QtyNat ==
  ASSUME NEW s, sales[s].units \subseteq Units
  PROVE  Qty(s) \in Nat
  <1>1. IsFiniteSet(sales[s].units)
    BY SaleAssumption, FS_Subset
  <1> QED BY <1>1, FS_CardinalityType DEF Qty

(* There are finitely many sales.                                          *)
LEMMA SalesFinite == IsFiniteSet(Sales)
  BY SaleAssumption, FS_Interval DEF Sales

(* A sale not posted yet has no money, so posting it starts from none.     *)
LEMMA NoneHasNoAllocation ==
  ASSUME PaymentsInv, RowsInv, NEW s \in Sales, sales[s].status = "none", NEW I
  PROVE  \A p \in DOMAIN payments : Part(payments[p], I, s) = 0
  <1> SUFFICES ASSUME NEW p \in DOMAIN payments PROVE Part(payments[p], I, s) = 0
    OBVIOUS
  <1>1. \A a \in payments[p].allocations : a.sale # s
    BY DEF RowsInv, AllocationsFit
  <1> QED BY <1>1, PartOfNone

(* A change of status alone leaves the terms of every sale                 *)
(* (postSaleReturn, voidSale).                                             *)
LEMMA SalesStandOnStatus ==
  ASSUME GoodsInv, SalesInv, NEW s \in Sales, NEW status \in Statuses \ {"none"},
         sales' = [sales EXCEPT ![s].status = status], today' = today
  PROVE  SalesStand /\ SalesInv'
  <1>1. /\ DOMAIN sales' = Sales
        /\ \A t \in Sales \ {s} : sales'[t] = sales[t]
        /\ sales'[s].status = status /\ sales'[s].units = sales[s].units
        /\ sales'[s].paid = sales[s].paid /\ sales'[s].schedule = sales[s].schedule
    BY StatusOfSale
  <1>2. SalesStand
    BY <1>1 DEF SalesStand
  <1>3. \A t \in Sales : SaleData(t)'
    <2> SUFFICES ASSUME NEW t \in Sales PROVE SaleData(t)'
      OBVIOUS
    <2>1. /\ sales'[t].units = sales[t].units
          /\ sales'[t].paid = sales[t].paid /\ sales'[t].schedule = sales[t].schedule
          /\ sales'[t].status \in Statuses
      BY <1>1 DEF SalesInv, SaleData
    <2>2. SaleData(t)
      BY DEF SalesInv
    <2> QED BY <2>1, <2>2 DEF SaleData, Qty
  <1> QED BY <1>2, <1>3 DEF SalesInv

(* A command that leaves the sales leaves their terms.                     *)
LEMMA SalesStandUnchanged ==
  ASSUME SalesInv, sales' = sales, today' \in Nat
  PROVE  SalesStand /\ SalesInv'
  BY DEF SalesInv, SaleData, Qty, SalesStand

(* postSale writes one sale, whose schedule is for what was not paid, and  *)
(* leaves the others.                                                      *)
LEMMA PostSaleData ==
  ASSUME GoodsInv, SalesInv, NEW s \in Sales, NEW U \in SUBSET Units, NEW paid \in 0..Cardinality(U), NEW h,
         PostSale(s, U, paid, h)
  PROVE  /\ SalesStand /\ SalesInv' /\ sales[s].status = "none"
         /\ \A t \in Sales \ {s} : sales'[t] = sales[t]
         /\ sales'[s].status = "completed" /\ sales'[s].units = U /\ sales'[s].paid = paid
  <1> DEFINE unpaid == Cardinality(U) - paid
  <1>1. PICK schedule \in Schedules(unpaid) : sales' = [sales EXCEPT ![s] =
                          [status |-> "completed", units |-> U, paid |-> paid, schedule |-> schedule]]
    BY DEF PostSale
  <1>2. sales[s].status = "none" /\ today' = today
    BY DEF PostSale
  <1>3. /\ \A t \in Sales \ {s} : sales'[t] = sales[t]
        /\ sales'[s] = [status |-> "completed", units |-> U, paid |-> paid, schedule |-> schedule]
    BY <1>1 DEF GoodsInv, SalesAreRows
  <1>4. SalesStand
    BY <1>2, <1>3 DEF SalesStand
  <1>5. Cardinality(U) \in Nat /\ unpaid \in Nat /\ paid \in Nat
    <2>1. IsFiniteSet(U)
      BY SaleAssumption, FS_Subset
    <2> QED BY <2>1, FS_CardinalityType
  <1> HIDE DEF unpaid
  <1>6. PICK n \in 0..MaxInstallments : schedule \in [1..n -> [amount : 1..unpaid, due : today..MaxDay]]
    BY <1>1 DEF Schedules
  <1>7. Scheduled(schedule) = unpaid
    BY <1>1 DEF Schedules
  <1>8. IsSequence(schedule) /\ Len(schedule) = n
    <2>1. n \in Nat
      BY SaleAssumption
    <2>2. schedule \in Seq([amount : 1..unpaid, due : today..MaxDay]) /\ Len(schedule) = n
      BY <1>6, <2>1, FunctionIsSequence
    <2> QED BY <2>2, SequenceOfItself
  <1>9. \A i \in DOMAIN schedule : schedule[i].amount \in Nat /\ schedule[i].due \in Nat
    <2> SUFFICES ASSUME NEW i \in DOMAIN schedule PROVE schedule[i].amount \in Nat /\ schedule[i].due \in Nat
      OBVIOUS
    <2>1. schedule[i].amount \in 1..unpaid /\ schedule[i].due \in today..MaxDay
      BY <1>6
    <2> QED BY <1>5, <2>1, SaleAssumption DEF SalesInv
  <1>10. SaleData(s)'
    <2>1. paid + unpaid = Cardinality(U)
      BY <1>5 DEF unpaid
    <2> QED BY <1>3, <1>5, <1>6, <1>7, <1>8, <1>9, <2>1 DEF SaleData, Qty, Statuses
  <1>11. \A t \in Sales \ {s} : SaleData(t)'
    <2> SUFFICES ASSUME NEW t \in Sales \ {s} PROVE SaleData(t)'
      OBVIOUS
    <2>1. SaleData(t) /\ sales'[t] = sales[t]
      BY <1>3 DEF SalesInv
    <2> QED BY <2>1 DEF SaleData, Qty
  <1>12. SalesInv'
    BY <1>2, <1>10, <1>11 DEF SalesInv
  <1> QED BY <1>2, <1>3, <1>4, <1>12

ReturnsInv ==
  /\ IsSequence(returns)
  /\ \A r \in DOMAIN returns : /\ returns[r].sale \in Sales /\ returns[r].units \subseteq Units
                               /\ returns[r].costBack \in BOOLEAN

(* The returns are numbered from one and each credits a number of units.   *)
LEMMA ReturnsFinite ==
  ASSUME ReturnsInv
  PROVE  /\ IsFiniteSet(DOMAIN returns) /\ DOMAIN returns = 1..Len(returns) /\ Len(returns) \in Nat
         /\ \A r \in DOMAIN returns : Credit(r) \in Nat
  <1>1. DOMAIN returns = 1..Len(returns) /\ Len(returns) \in Nat
    BY DEF ReturnsInv, IsSequence
  <1>2. IsFiniteSet(DOMAIN returns)
    BY <1>1, FS_Interval
  <1>3. ASSUME NEW r \in DOMAIN returns PROVE Credit(r) \in Nat
    <2>1. IsFiniteSet(returns[r].units)
      <3>1. returns[r].units \in SUBSET Units
        BY DEF ReturnsInv
      <3> QED BY <3>1, SaleAssumption, FS_Subset
    <2> QED BY <2>1, FS_CardinalityType DEF Credit
  <1> QED BY <1>1, <1>2, <1>3

(* What some returns credit is a natural number.                           *)
LEMMA CreditNat ==
  ASSUME ReturnsInv, NEW R \in SUBSET (DOMAIN returns)
  PROVE  CreditOf(R) \in Nat
  <1> DEFINE f == [r \in R |-> Credit(r)]
  <1>1. IsFiniteSet(R) /\ \A r \in R : f[r] \in Nat
    BY ReturnsFinite, FS_Subset
  <1>2. CreditOf(R) = SumFunctionOnSet(f, R)
    BY DEF CreditOf, SumFunction
  <1> HIDE DEF f
  <1> QED BY <1>1, <1>2, SumNat

(* What was refunded of some returns is a natural number.                  *)
LEMMA RefundedNat ==
  ASSUME PaymentsInv, MoneyRows, NEW R
  PROVE  Refunded(R) \in Nat
  <1> DEFINE f == [p \in Refunds(R) |-> payments[p].amount]
  <1>1. Refunds(R) \in SUBSET Posted
    BY DEF Refunds
  <1>2. IsFiniteSet(Refunds(R))
    BY <1>1, PostedIsFinite, FS_Subset
  <1>3. \A p \in Refunds(R) : f[p] \in Nat
    BY <1>1 DEF Posted, MoneyRows, MoneyRow
  <1>4. Refunded(R) = SumFunctionOnSet(f, Refunds(R))
    BY DEF Refunded, SumFunction
  <1> HIDE DEF f
  <1> QED BY <1>2, <1>3, <1>4, SumNat

(* What is allocated to a sale is a natural number.                        *)
LEMMA AllocatedNat ==
  ASSUME PaymentsInv, MoneyRows, NEW I, NEW s
  PROVE  AllocatedThrough(I, s) \in Nat
  <1> DEFINE w == [p \in Posted |-> Part(payments[p], I, s)]
  <1>1. \A p \in Posted : w[p] \in Nat
    BY PartNat DEF Posted, MoneyRows
  <1>2. AllocatedThrough(I, s) = SumFunctionOnSet(w, Posted)
    BY AllocatedIsSum
  <1> HIDE DEF w
  <1> QED BY <1>1, <1>2, PostedIsFinite, SumNat

(* What a sale owes is a number, below zero when more was credited than is *)
(* left to pay.                                                            *)
LEMMA SaleOutstandingInt ==
  ASSUME PaymentsInv, MoneyRows, ReturnsInv, NEW s \in Sales, SaleData(s)
  PROVE  SaleOutstanding(s) \in Int
  <1>1. Qty(s) \in Nat
    BY QtyNat DEF SaleData
  <1>2. Credited(s) \in Nat
    <2>1. ReturnsOf(s) \in SUBSET DOMAIN returns
      BY DEF ReturnsOf
    <2> QED BY <2>1, CreditNat DEF Credited
  <1>3. Allocated(s) \in Nat
    BY AllocatedNat DEF Allocated
  <1>4. Refunded(ReturnsOf(s)) \in Nat
    BY RefundedNat
  <1> QED BY <1>1, <1>2, <1>3, <1>4 DEF SaleOutstanding

(* What an installment still owes is never more than it has left, and      *)
(* nothing once the sale is returned or voided (installmentBalances).      *)
LEMMA OutstandingBounds ==
  ASSUME PaymentsInv, MoneyRows, ReturnsInv, NEW s \in Sales, SaleData(s),
         NEW i \in DOMAIN sales[s].schedule
  PROVE  /\ Outstanding(s, i) \in Nat
         /\ sales[s].status \notin OpenSaleStatuses => Outstanding(s, i) = 0
         /\ Outstanding(s, i) > 0 => Outstanding(s, i) <= sales[s].schedule[i].amount - Collected(s, i)
  <1> DEFINE D == DOMAIN sales[s].schedule
  <1>1. D = 1..Len(sales[s].schedule) /\ Len(sales[s].schedule) \in Nat
    BY DEF SaleData, IsSequence
  <1>2. \A j \in D : Remaining(s, j) \in Nat
    <2> SUFFICES ASSUME NEW j \in D PROVE Remaining(s, j) \in Nat
      OBVIOUS
    <2>1. sales[s].schedule[j].amount - Collected(s, j) \in Int
      BY AllocatedNat DEF SaleData, Collected
    <2> QED BY <2>1, MaxOfTwo DEF Remaining
  <1>3. Remaining(s, i) = IF sales[s].schedule[i].amount - Collected(s, i) >= 0
                            THEN sales[s].schedule[i].amount - Collected(s, i) ELSE 0
    <2>1. sales[s].schedule[i].amount - Collected(s, i) \in Int
      BY AllocatedNat DEF SaleData, Collected
    <2> QED BY <2>1, MaxOfTwo DEF Remaining
  <1>4. \A I \in SUBSET D : RemainingOf(s, I) \in Nat
    <2> SUFFICES ASSUME NEW I \in SUBSET D PROVE RemainingOf(s, I) \in Nat
      OBVIOUS
    <2> DEFINE f == [j \in I |-> Remaining(s, j)]
    <2>1. IsFiniteSet(I)
      <3>1. IsFiniteSet(D)
        BY <1>1, FS_Interval
      <3> QED BY <3>1, FS_Subset
    <2>2. \A j \in I : f[j] \in Nat
      BY <1>2
    <2>3. RemainingOf(s, I) = SumFunctionOnSet(f, I)
      BY DEF RemainingOf, SumFunction
    <2> HIDE DEF f
    <2> QED BY <2>1, <2>2, <2>3, SumNat
  <1>5. RemainingOf(s, D) \in Nat /\ RemainingOf(s, 1..(i - 1)) \in Nat
    <2>1. 1..(i - 1) \in SUBSET D
      BY <1>1
    <2> QED BY <1>4, <2>1
  <1> DEFINE excess == RemainingOf(s, D) - Max({SaleOutstanding(s), 0})
             cut == Max({excess - RemainingOf(s, 1..(i - 1)), 0})
  <1>6. Max({SaleOutstanding(s), 0}) \in Int
    BY SaleOutstandingInt, MaxOfTwo
  <1>7. excess \in Int
    BY <1>5, <1>6
  <1> HIDE DEF excess
  <1>8. cut \in Nat
    <2>1. excess - RemainingOf(s, 1..(i - 1)) \in Int
      BY <1>5, <1>7
    <2> QED BY <2>1, MaxOfTwo
  <1>9. Outstanding(s, i) = IF sales[s].status \notin OpenSaleStatuses THEN 0
                            ELSE Max({Remaining(s, i) - cut, 0})
    BY DEF Outstanding, excess
  <1> HIDE DEF cut
  <1>10. Max({Remaining(s, i) - cut, 0}) = IF Remaining(s, i) - cut >= 0 THEN Remaining(s, i) - cut ELSE 0
    <2>1. Remaining(s, i) - cut \in Int
      BY <1>2, <1>8
    <2> QED BY <2>1, MaxOfTwo
  <1>11. Collected(s, i) \in Nat /\ sales[s].schedule[i].amount \in Nat /\ Remaining(s, i) \in Nat
    BY AllocatedNat, <1>2 DEF SaleData, Collected
  <1> HIDE DEF D
  <1> QED BY <1>3, <1>8, <1>9, <1>10, <1>11

MoneyInv == PaymentsInv /\ GoodsInv /\ SalesInv /\ ReturnsInv /\ RowsInv /\ CollectedInv

(* Rows that a command adds to the sales posted by then keep every         *)
(* allocation on a sale that has it.                                       *)
LEMMA RowsStep ==
  ASSUME PaymentsInv, RowsInv, SalesStand, NEW R, R \subseteq DOMAIN payments, Extends(R),
         \A q \in (Len(payments) + 1)..Len(payments') :
           /\ MoneyRow(payments'[q])
           /\ \A a \in payments'[q].allocations :
                /\ sales'[a.sale].status # "none"
                /\ a.inst = 0 \/ a.inst \in DOMAIN sales'[a.sale].schedule
  PROVE  RowsInv'
  <1> DEFINE n == Len(payments)
             m == Len(payments')
  <1>1. /\ n \in Nat /\ m \in Nat /\ n <= m
        /\ DOMAIN payments = 1..n /\ DOMAIN payments' = 1..m
        /\ \A p \in 1..n : /\ payments'[p].amount = payments[p].amount
                           /\ payments'[p].direction = payments[p].direction
                           /\ payments'[p].return = payments[p].return
                           /\ payments'[p].allocations = payments[p].allocations
    BY RowsKept
  <1>2. \A p \in 1..n : MoneyRow(payments[p]) /\ AllocationsFit(payments[p])
    BY <1>1 DEF RowsInv, MoneyRows
  <1>3. \A p \in 1..n : MoneyRow(payments'[p])
    BY <1>1, <1>2 DEF MoneyRow
  <1>4. \A p \in 1..n : \A a \in payments'[p].allocations :
          /\ sales'[a.sale].status # "none"
          /\ a.inst = 0 \/ a.inst \in DOMAIN sales'[a.sale].schedule
    <2> SUFFICES ASSUME NEW p \in 1..n, NEW a \in payments'[p].allocations
                 PROVE  /\ sales'[a.sale].status # "none"
                        /\ a.inst = 0 \/ a.inst \in DOMAIN sales'[a.sale].schedule
      OBVIOUS
    <2>1. a \in payments[p].allocations
      BY <1>1
    <2>2. a.sale \in Sales
      BY <1>2, <2>1 DEF MoneyRow
    <2>3. sales[a.sale].status # "none" /\ (a.inst = 0 \/ a.inst \in DOMAIN sales[a.sale].schedule)
      BY <1>2, <2>1 DEF AllocationsFit
    <2> QED BY <2>2, <2>3 DEF SalesStand
  <1>5. \A p \in 1..m : p \in 1..n \/ p \in (n + 1)..m
    BY <1>1
  <1> QED BY <1>1, <1>3, <1>4, <1>5 DEF RowsInv, MoneyRows, AllocationsFit

(* One row added adds its part.                                            *)
LEMMA AllocatedAppend ==
  ASSUME PaymentsInv, PaymentsInv', MoneyRows', Extends({}), Len(payments') = Len(payments) + 1,
         NEW I, NEW s
  PROVE  AllocatedThrough(I, s)' = AllocatedThrough(I, s) + Part(payments'[Len(payments) + 1], I, s)
  <1> DEFINE k == Len(payments) + 1
  <1>0. PICK w : \A p \in DOMAIN payments' : w[p] = Part(payments'[p], I, s)
    <2> WITNESS [p \in DOMAIN payments' |-> Part(payments'[p], I, s)]
    <2> QED OBVIOUS
  <1>1. /\ AllocatedThrough(I, s)' =
              AllocatedThrough(I, s) - SumFunctionOnSet(w, {})
              + SumFunctionOnSet(w, (Len(payments) + 1)..Len(payments'))
        /\ \A p \in DOMAIN payments' : w[p] \in Nat
        /\ AllocatedThrough(I, s) \in Nat /\ AllocatedThrough(I, s)' \in Nat
        /\ SumFunctionOnSet(w, {}) \in Nat
    <2>1. {} \subseteq Posted
      OBVIOUS
    <2> QED BY <1>0, <2>1, AllocatedStep
  <1>2. k \in DOMAIN payments' /\ k..Len(payments') = {k}
    <2>1. DOMAIN payments' = 1..Len(payments') /\ Len(payments) \in Nat
      BY DEF PaymentsInv, IsSequence
    <2> QED BY <2>1
  <1>3. w[k] = Part(payments'[k], I, s) /\ w[k] \in Int
    BY <1>0, <1>1, <1>2
  <1> HIDE DEF k
  <1>4. SumFunctionOnSet(w, {k}) = w[k]
    BY <1>3, SumOne
  <1> QED BY <1>1, <1>2, <1>3, <1>4, SumEmpty DEF k

(* Rows marked and reversals added leave no sale with more.                *)
LEMMA AllocatedLess ==
  ASSUME PaymentsInv, PaymentsInv', MoneyRows', NEW R, R \subseteq Posted, Extends(R),
         \A q \in (Len(payments) + 1)..Len(payments') : payments'[q].allocations = {},
         NEW I, NEW s
  PROVE  /\ AllocatedThrough(I, s)' =
              AllocatedThrough(I, s) - SumFunction([p \in R |-> Part(payments[p], I, s)])
         /\ AllocatedThrough(I, s)' <= AllocatedThrough(I, s)
         /\ AllocatedThrough(I, s)' \in Nat
  <1> DEFINE v == [p \in R |-> Part(payments[p], I, s)]
             N == (Len(payments) + 1)..Len(payments')
  <1>0. PICK w : \A p \in DOMAIN payments' : w[p] = Part(payments'[p], I, s)
    <2> WITNESS [p \in DOMAIN payments' |-> Part(payments'[p], I, s)]
    <2> QED OBVIOUS
  <1>1. /\ AllocatedThrough(I, s)' =
              AllocatedThrough(I, s) - SumFunctionOnSet(w, R)
              + SumFunctionOnSet(w, (Len(payments) + 1)..Len(payments'))
        /\ \A p \in DOMAIN payments' : w[p] \in Nat
        /\ AllocatedThrough(I, s) \in Nat /\ AllocatedThrough(I, s)' \in Nat
        /\ SumFunctionOnSet(w, R) \in Nat
    BY <1>0, AllocatedStep
  <1>2. R \subseteq DOMAIN payments
    BY DEF Posted
  <1>3. /\ DOMAIN payments = 1..Len(payments) /\ DOMAIN payments' = 1..Len(payments')
        /\ Len(payments) \in Nat /\ Len(payments') \in Nat /\ Len(payments) <= Len(payments')
        /\ \A p \in 1..Len(payments) : payments'[p].allocations = payments[p].allocations
    BY <1>2, RowsKept
  <1>4. \A q \in N : w[q] = 0
    <2> SUFFICES ASSUME NEW q \in N PROVE w[q] = 0
      OBVIOUS
    <2>1. payments'[q].allocations = {} /\ q \in DOMAIN payments'
      BY <1>3
    <2>2. Part(payments'[q], I, s) = 0
      BY <2>1, PartOfNone
    <2> QED BY <1>0, <2>1, <2>2
  <1>5. \A p \in R : w[p] = v[p]
    <2> SUFFICES ASSUME NEW p \in R PROVE w[p] = v[p]
      OBVIOUS
    <2>1. payments'[p].allocations = payments[p].allocations /\ p \in DOMAIN payments'
      BY <1>2, <1>3
    <2> QED BY <1>0, <2>1 DEF Part
  <1>6. IsFiniteSet(R) /\ IsFiniteSet(N)
    <2>1. IsFiniteSet(R)
      BY PostedIsFinite, FS_Subset
    <2>2. Len(payments) + 1 \in Int /\ Len(payments') \in Int
      BY <1>3
    <2> QED BY <2>1, <2>2, FS_Interval
  <1>7. SumFunction(v) = SumFunctionOnSet(v, R)
    BY DEF SumFunction
  <1>7a. SumFunctionOnSet(w, (Len(payments) + 1)..Len(payments')) = SumFunctionOnSet(w, N)
    OBVIOUS
  <1> HIDE DEF v, N
  <1>8. SumFunctionOnSet(w, R) = SumFunctionOnSet(v, R)
    BY <1>5, <1>6, SumSame
  <1>9. SumFunctionOnSet(w, N) = 0
    BY <1>4, <1>6, SumZero
  <1>10. SumFunction(v) = SumFunctionOnSet(w, R)
    BY <1>7, <1>8
  <1>11. AllocatedThrough(I, s)' = AllocatedThrough(I, s) - SumFunction(v)
    BY <1>1, <1>7a, <1>9, <1>10
  <1> QED BY <1>1, <1>10, <1>11 DEF v

(* When no part of a sale has more than before, none has more than it is   *)
(* for.                                                                    *)
LEMMA CollectedLess ==
  ASSUME CollectedInv, SalesInv, PaymentsInv, MoneyRows, PaymentsInv', MoneyRows',
         \A s \in Sales : sales'[s].paid = sales[s].paid /\ sales'[s].schedule = sales[s].schedule,
         \A s \in Sales, i \in Nat : /\ AllocatedThrough({i}, s)' \in Nat
                                     /\ AllocatedThrough({i}, s)' <= AllocatedThrough({i}, s)
  PROVE  CollectedInv'
  <1> SUFFICES ASSUME NEW s \in Sales, NEW i \in {0} \cup DOMAIN sales[s].schedule,
                      NEW cap \in Nat, Collected(s, i) <= cap
               PROVE  Collected(s, i)' <= cap
    <2>1. \A s \in Sales : \A i \in {0} \cup DOMAIN sales[s].schedule, cap \in Nat :
            Collected(s, i) <= cap => Collected(s, i)' <= cap
      OBVIOUS
    <2>2. \A s \in Sales : /\ sales[s].paid \in Nat
                           /\ \A i \in DOMAIN sales[s].schedule : sales[s].schedule[i].amount \in Nat
      BY DEF SalesInv, SaleData
    <2> QED BY <2>1, <2>2 DEF CollectedInv
  <1>1. i \in Nat
    <2>1. SaleData(s)
      BY DEF SalesInv
    <2> QED BY <2>1 DEF SaleData, IsSequence
  <1>2. /\ AllocatedThrough({i}, s)' <= AllocatedThrough({i}, s)
        /\ AllocatedThrough({i}, s) \in Nat /\ AllocatedThrough({i}, s)' \in Nat
    BY <1>1, AllocatedNat
  <1> QED BY <1>2 DEF Collected

(* What a row for one installment, or for the till, adds.                  *)
LEMMA PartOfOne ==
  ASSUME NEW row, NEW s, NEW i, NEW a, a \in row.allocations, a.sale = s, a.inst = i, a.amount \in Nat,
         \A b \in row.allocations : b.sale = s /\ b.inst = i => b = a, NEW I, i \in I,
         \A b \in row.allocations : b.sale = s /\ b.inst \in I => b = a
  PROVE  Part(row, I, s) = a.amount
  <1>1. {b \in row.allocations : b.sale = s /\ b.inst \in I} = {a}
    OBVIOUS
  <1>2. TotalOf({a}) = a.amount
    BY TotalOfOne
  <1> QED BY <1>1, <1>2 DEF Part

(* The money allocated is a matter of the payments alone.                  *)
LEMMA SameMoney ==
  ASSUME MoneyRows, UNCHANGED payments, NEW I, NEW s
  PROVE  AllocatedThrough(I, s)' = AllocatedThrough(I, s)
  BY DEF AllocatedThrough, Posted

(* postSale allocates to the new sale what was paid at the till and no     *)
(* more.                                                                   *)
LEMMA PostSaleMoney ==
  ASSUME MoneyInv, PaymentsInv',
         NEW s \in Sales, NEW U \in SUBSET Units, NEW paid \in 0..Cardinality(U), NEW h,
         PostSale(s, U, paid, h)
  PROVE  RowsInv' /\ CollectedInv'
  <1> USE DEF MoneyInv
  <1>1. /\ SalesStand /\ SalesInv' /\ sales[s].status = "none"
        /\ \A t \in Sales \ {s} : sales'[t] = sales[t]
        /\ sales'[s].status = "completed" /\ sales'[s].units = U /\ sales'[s].paid = paid
    BY PostSaleData
  <1>2. \A I : AllocatedThrough(I, s) = 0
    <2> SUFFICES ASSUME NEW I PROVE AllocatedThrough(I, s) = 0
      OBVIOUS
    <2> DEFINE w == [p \in Posted |-> Part(payments[p], I, s)]
    <2>1. AllocatedThrough(I, s) = SumFunctionOnSet(w, Posted)
      BY AllocatedIsSum
    <2>2. \A p \in Posted : w[p] = 0
      BY <1>1, NoneHasNoAllocation DEF Posted
    <2> HIDE DEF w
    <2> QED BY <2>1, <2>2, PostedIsFinite, SumZero
  <1>3. \A i \in DOMAIN sales'[s].schedule : sales'[s].schedule[i].amount \in Nat /\ i \in Nat \ {0}
    <2>1. SaleData(s)'
      BY <1>1 DEF SalesInv
    <2> QED BY <2>1 DEF SaleData, IsSequence
  <1>4. paid \in Nat
    <2>1. IsFiniteSet(U)
      BY SaleAssumption, FS_Subset
    <2> QED BY <2>1, FS_CardinalityType
  <1>5. CASE paid = 0
    <2>1. payments' = payments
      BY <1>5 DEF PostSale
    <2>2. RowsInv'
      <3>1. MoneyRows'
        BY <2>1 DEF RowsInv, MoneyRows
      <3>2. ASSUME NEW p \in DOMAIN payments, NEW a \in payments[p].allocations
            PROVE  sales'[a.sale].status # "none" /\ (a.inst = 0 \/ a.inst \in DOMAIN sales'[a.sale].schedule)
        <4>1. a.sale \in Sales /\ sales[a.sale].status # "none"
              /\ (a.inst = 0 \/ a.inst \in DOMAIN sales[a.sale].schedule)
          BY DEF RowsInv, MoneyRows, MoneyRow, AllocationsFit
        <4> QED BY <1>1, <4>1 DEF SalesStand
      <3> QED BY <2>1, <3>1, <3>2 DEF RowsInv, AllocationsFit
    <2>3. \A I, t : AllocatedThrough(I, t)' = AllocatedThrough(I, t)
      BY <2>1, SameMoney DEF RowsInv
    <2>4. CollectedInv'
      <3> SUFFICES ASSUME NEW t \in Sales
                   PROVE  /\ AllocatedThrough({0}, t)' <= sales'[t].paid
                          /\ \A i \in DOMAIN sales'[t].schedule :
                               AllocatedThrough({i}, t)' <= sales'[t].schedule[i].amount
        BY DEF CollectedInv, Collected
      <3>1. CASE t = s
        <4>1. AllocatedThrough({0}, t)' = 0 /\ \A i : AllocatedThrough({i}, t)' = 0
          BY <1>2, <2>3, <3>1
        <4>2. \A i \in DOMAIN sales'[t].schedule : sales'[t].schedule[i].amount >= 0
          BY <1>3, <3>1
        <4>3. sales'[t].paid >= 0
          BY <1>1, <1>4, <3>1
        <4> HIDE DEF MoneyInv
        <4> QED BY <4>1, <4>2, <4>3
      <3>2. CASE t # s
        <4>1. sales'[t] = sales[t]
          BY <1>1, <3>2
        <4> QED BY <2>3, <4>1 DEF CollectedInv, Collected
      <3> QED BY <3>1, <3>2
    <2> QED BY <2>2, <2>4
  <1>6. CASE paid # 0
    <2> DEFINE a0 == [sale |-> s, inst |-> 0, amount |-> paid]
               row == Receipt(paid, h, {a0})
               k == Len(payments) + 1
    <2>1. payments' = Append(payments, row)
      BY <1>6 DEF PostSale
    <2>2. IsRow(row) /\ row.status = "posted" /\ row.reverses = 0 /\ row.allocations = {a0} /\ MoneyRow(row)
      <3>1. IsFiniteSet({a0})
        BY FS_Singleton
      <3>2. 0 \in 0..MaxInstallments
        BY SaleAssumption
      <3> QED BY <1>4, <3>1, <3>2 DEF Receipt, IsRow, Fields, MoneyRow
    <2> HIDE DEF row
    <2>3. Extends({}) /\ Len(payments') = k /\ payments'[k] = row
      BY <2>1, <2>2, AppendedRow
    <2>4. RowsInv'
      <3>1. \A q \in (Len(payments) + 1)..Len(payments') : payments'[q] = row
        BY <2>3, PostedIsFinite
      <3>2. \A a \in row.allocations :
              sales'[a.sale].status # "none" /\ (a.inst = 0 \/ a.inst \in DOMAIN sales'[a.sale].schedule)
        BY <1>1, <2>2
      <3> HIDE DEF a0, k
      <3> QED BY <1>1, <2>2, <2>3, <3>1, <3>2, RowsStep
    <2>5. \A I, t : AllocatedThrough(I, t)' = AllocatedThrough(I, t) + Part(row, I, t)
      <3> SUFFICES ASSUME NEW I, NEW t
                   PROVE  AllocatedThrough(I, t)' = AllocatedThrough(I, t) + Part(row, I, t)
        OBVIOUS
      <3>1. AllocatedThrough(I, t)' = AllocatedThrough(I, t) + Part(payments'[Len(payments) + 1], I, t)
        BY <2>3, <2>4, AllocatedAppend DEF RowsInv
      <3> QED BY <2>3, <3>1
    <2>6. Part(row, {0}, s) = paid
      <3>1. a0 \in row.allocations /\ a0.sale = s /\ a0.inst = 0 /\ a0.amount = paid
            /\ \A b \in row.allocations : b = a0
        BY <2>2
      <3> HIDE DEF a0
      <3> QED BY <1>4, <3>1, PartOfOne
    <2>7. \A t, i : t # s \/ i # 0 => Part(row, {i}, t) = 0
      <3> SUFFICES ASSUME NEW t, NEW i, t # s \/ i # 0 PROVE Part(row, {i}, t) = 0
        OBVIOUS
      <3>1. \A a \in row.allocations : a.sale # t \/ a.inst \notin {i}
        BY <2>2
      <3> QED BY <3>1, PartOfNone
    <2>8. CollectedInv'
      <3> SUFFICES ASSUME NEW t \in Sales
                   PROVE  /\ AllocatedThrough({0}, t)' <= sales'[t].paid
                          /\ \A i \in DOMAIN sales'[t].schedule :
                               AllocatedThrough({i}, t)' <= sales'[t].schedule[i].amount
        BY DEF CollectedInv, Collected
      <3>1. CASE t = s
        <4>1. AllocatedThrough({0}, t)' = paid /\ \A i : i # 0 => AllocatedThrough({i}, t)' = 0
          BY <1>2, <1>4, <2>5, <2>6, <2>7, <3>1
        <4> QED BY <1>1, <1>3, <1>4, <3>1, <4>1
      <3>2. CASE t # s
        <4>1. sales'[t] = sales[t]
          BY <1>1, <3>2
        <4>2. \A i : AllocatedThrough({i}, t)' = AllocatedThrough({i}, t)
          <5> SUFFICES ASSUME NEW i PROVE AllocatedThrough({i}, t)' = AllocatedThrough({i}, t)
            OBVIOUS
          <5>1. Part(row, {i}, t) = 0
            BY <2>7, <3>2
          <5>2. AllocatedThrough({i}, t) \in Nat
            BY AllocatedNat DEF RowsInv
          <5> QED BY <2>5, <5>1, <5>2
        <4> QED BY <4>1, <4>2 DEF CollectedInv, Collected
      <3> QED BY <3>1, <3>2
    <2> QED BY <2>4, <2>8
  <1> QED BY <1>5, <1>6

(* What collectCustomerPayment takes an installment to: the customer's     *)
(* money less what the installments before it take, and no more than it    *)
(* owes.                                                                   *)
LEMMA AppliedBounds ==
  ASSUME NEW owed, IsFiniteSet(DOMAIN owed), \A b \in DOMAIN owed : owed[b] \in Nat,
         NEW amount \in Nat, NEW b \in DOMAIN owed
  PROVE  LET left == amount - SumFunctionOnSet(owed, {c \in DOMAIN owed : Before(c, b)}) IN
         /\ Applied(owed, b, amount) = IF left < 0 THEN 0 ELSE IF left <= owed[b] THEN left ELSE owed[b]
         /\ Applied(owed, b, amount) \in Nat /\ Applied(owed, b, amount) <= owed[b]
  <1> DEFINE B == {c \in DOMAIN owed : Before(c, b)}
             left == amount - SumFunctionOnSet(owed, B)
             least == IF left <= owed[b] THEN left ELSE owed[b]
  <1>1. B \in SUBSET DOMAIN owed
    OBVIOUS
  <1>2. Applied(owed, b, amount) = Max({0, Min({left, owed[b]})})
    BY DEF Applied
  <1> HIDE DEF B
  <1>3. SumFunctionOnSet(owed, B) \in Nat
    BY <1>1, FS_Subset, SumNat
  <1>4. left \in Int /\ owed[b] \in Nat
    BY <1>3
  <1> HIDE DEF left
  <1>5. Min({left, owed[b]}) = least
    BY <1>4, MinOfTwo
  <1>6. Max({0, least}) = IF 0 >= least THEN 0 ELSE least
    <2>1. least \in Int
      BY <1>4
    <2> HIDE DEF least
    <2> QED BY <2>1, MaxOfTwo
  <1>7. Applied(owed, b, amount) = IF left < 0 THEN 0 ELSE IF left <= owed[b] THEN left ELSE owed[b]
    BY <1>2, <1>4, <1>5, <1>6
  <1>8. Applied(owed, b, amount) \in Nat /\ Applied(owed, b, amount) <= owed[b]
    BY <1>4, <1>7
  <1> QED BY <1>7, <1>8 DEF left, B

(* The installments a customer may pay, of sales that are open, each with  *)
(* what it has left.                                                       *)
LEMMA InstallmentsOwe ==
  ASSUME PaymentsInv, MoneyRows, ReturnsInv, SalesInv, NEW S \in SUBSET Sales
  PROVE  /\ IsFiniteSet(InstallmentsOf(S))
         /\ \A b \in InstallmentsOf(S) :
              /\ b = <<b[1], b[2]>> /\ b[1] \in Sales /\ b[2] \in DOMAIN sales[b[1]].schedule
              /\ b[2] \in 1..MaxInstallments /\ Due(b) \in Nat
              /\ Outstanding(b[1], b[2]) \in Nat
              /\ Outstanding(b[1], b[2]) > 0 =>
                   /\ sales[b[1]].status \in OpenSaleStatuses
                   /\ Outstanding(b[1], b[2]) <= sales[b[1]].schedule[b[2]].amount - Collected(b[1], b[2])
  <1>1. IsFiniteSet(S \X (1..MaxInstallments))
    <2>1. IsFiniteSet(S)
      BY SalesFinite, FS_Subset
    <2>2. IsFiniteSet(1..MaxInstallments)
      BY SaleAssumption, FS_Interval
    <2> QED BY <2>1, <2>2, FS_Product
  <1>2. InstallmentsOf(S) \in SUBSET (S \X (1..MaxInstallments))
    BY DEF InstallmentsOf
  <1>3. IsFiniteSet(InstallmentsOf(S))
    BY <1>1, <1>2, FS_Subset
  <1>4. ASSUME NEW b \in InstallmentsOf(S)
        PROVE  /\ b = <<b[1], b[2]>> /\ b[1] \in Sales /\ b[2] \in DOMAIN sales[b[1]].schedule
               /\ b[2] \in 1..MaxInstallments /\ Due(b) \in Nat
               /\ Outstanding(b[1], b[2]) \in Nat
               /\ Outstanding(b[1], b[2]) > 0 =>
                    /\ sales[b[1]].status \in OpenSaleStatuses
                    /\ Outstanding(b[1], b[2]) <= sales[b[1]].schedule[b[2]].amount - Collected(b[1], b[2])
    <2>1. b \in S \X (1..MaxInstallments) /\ b[2] <= Len(sales[b[1]].schedule)
      BY DEF InstallmentsOf
    <2>2. b = <<b[1], b[2]>> /\ b[1] \in Sales /\ b[2] \in 1..MaxInstallments
      BY <2>1
    <2>3. SaleData(b[1])
      BY <2>2 DEF SalesInv
    <2>4. b[2] \in DOMAIN sales[b[1]].schedule
      BY <2>1, <2>2, <2>3, SaleAssumption DEF SaleData, IsSequence
    <2>5. Due(b) \in Nat
      BY <2>3, <2>4 DEF SaleData, Due
    <2>6. /\ Outstanding(b[1], b[2]) \in Nat
          /\ sales[b[1]].status \notin OpenSaleStatuses => Outstanding(b[1], b[2]) = 0
          /\ Outstanding(b[1], b[2]) > 0 =>
               Outstanding(b[1], b[2]) <= sales[b[1]].schedule[b[2]].amount - Collected(b[1], b[2])
      BY <2>2, <2>3, <2>4, OutstandingBounds
    <2> QED BY <2>2, <2>4, <2>5, <2>6
  <1> QED BY <1>3, <1>4

(* One payment shared among installments, oldest first, is allocated in    *)
(* full and gives none more than it owes.                                  *)
LEMMA CollectionIsAllocated ==
  ASSUME PaymentsInv, MoneyRows, ReturnsInv, SalesInv, NEW S \in SUBSET Sales, NEW h,
         CollectCustomerPayment(S, h)
  PROVE  \E amount \in Nat \ {0} : \E part :
           /\ payments' = Append(payments, Receipt(amount, h,
                {[sale |-> b[1], inst |-> b[2], amount |-> part[b]] :
                   b \in {c \in InstallmentsOf(S) : part[c] > 0}}))
           /\ gl' = Posting([cash |-> amount, ar |-> - amount])
           /\ \A b \in InstallmentsOf(S) : part[b] \in Nat /\ part[b] <= Outstanding(b[1], b[2])
           /\ SumFunctionOnSet(part, InstallmentsOf(S)) = amount
  <1> DEFINE D == InstallmentsOf(S)
             owed == [b \in D |-> Outstanding(b[1], b[2])]
             R == {d \in D \X D : Before(d[1], d[2])}
  <1>1. IsFiniteSet(D) /\ \A b \in D : owed[b] \in Nat
    BY InstallmentsOwe
  <1>2. CustomerOwes(S) = SumFunctionOnSet(owed, D) /\ CustomerOwes(S) \in Nat
    <2>1. CustomerOwes(S) = SumFunctionOnSet(owed, D)
      BY DEF CustomerOwes, OwedOn, SumFunction
    <2> HIDE DEF owed, D
    <2> QED BY <1>1, <2>1, SumNat
  <1>3. PICK amount \in 1..CustomerOwes(S) :
          /\ payments' = Append(payments, Receipt(amount, h,
               {[sale |-> b[1], inst |-> b[2], amount |-> Applied(owed, b, amount)] :
                  b \in {c \in D : Applied(owed, c, amount) > 0}}))
          /\ gl' = Posting([cash |-> amount, ar |-> - amount])
    BY DEF CollectCustomerPayment
  <1>4. amount \in Nat \ {0} /\ amount <= CustomerOwes(S)
    BY <1>2, <1>3
  <1> DEFINE part == [b \in D |-> Applied(owed, b, amount)]
             Reached(f) == {[sale |-> b[1], inst |-> b[2], amount |-> f[b]] : b \in {c \in D : f[c] > 0}}
  <1>5. payments' = Append(payments, Receipt(amount, h, Reached(part)))
    <2>1. Reached(part) = {[sale |-> b[1], inst |-> b[2], amount |-> Applied(owed, b, amount)] :
                             b \in {c \in D : Applied(owed, c, amount) > 0}}
      <3> HIDE DEF D, owed
      <3> QED OBVIOUS
    <2> HIDE DEF part, D, owed
    <2> QED BY <1>3, <2>1
  <1>6. DOMAIN owed = D
    OBVIOUS
  <1>7. \A b \in D : owed[b] = Outstanding(b[1], b[2])
    OBVIOUS
  <1>8. OrdersStrictly(R, D)
    <2>1. \A b \in D : b = <<b[1], b[2]>> /\ b[1] \in Int /\ b[2] \in Int /\ Due(b) \in Int
      BY InstallmentsOwe DEF Sales
    <2>2. \A a, b \in D : <<a, b>> \in R <=> Before(a, b)
      <3> HIDE DEF D
      <3> QED OBVIOUS
    <2> HIDE DEF D, R
    <2>3. \A a \in D : ~Before(a, a)
      BY <2>1 DEF Before
    <2>4. \A a, b \in D : a # b => Before(a, b) \/ Before(b, a)
      <3> SUFFICES ASSUME NEW a \in D, NEW b \in D, ~Before(a, b), ~Before(b, a) PROVE a = b
        OBVIOUS
      <3>1. a[1] = b[1] /\ a[2] = b[2]
        BY <2>1 DEF Before
      <3> QED BY <2>1, <3>1
    <2>5. \A a, b, c \in D : Before(a, b) /\ Before(b, c) => Before(a, c)
      BY <2>1 DEF Before
    <2> QED BY <2>2, <2>3, <2>4, <2>5 DEF OrdersStrictly
  <1> HIDE DEF owed, D
  <1>9. \A b \in D :
          LET left == amount - SumFunctionOnSet(owed, {c \in D : Before(c, b)}) IN
          /\ part[b] = IF left < 0 THEN 0 ELSE IF left <= owed[b] THEN left ELSE owed[b]
          /\ part[b] \in Nat /\ part[b] <= owed[b]
    <2> SUFFICES ASSUME NEW b \in D
                 PROVE  LET left == amount - SumFunctionOnSet(owed, {c \in D : Before(c, b)}) IN
                        /\ part[b] = IF left < 0 THEN 0 ELSE IF left <= owed[b] THEN left ELSE owed[b]
                        /\ part[b] \in Nat /\ part[b] <= owed[b]
      OBVIOUS
    <2>1. part[b] = Applied(owed, b, amount)
      OBVIOUS
    <2>2. LET left == amount - SumFunctionOnSet(owed, {c \in DOMAIN owed : Before(c, b)}) IN
          /\ Applied(owed, b, amount) = IF left < 0 THEN 0 ELSE IF left <= owed[b] THEN left ELSE owed[b]
          /\ Applied(owed, b, amount) \in Nat /\ Applied(owed, b, amount) <= owed[b]
      BY <1>1, <1>4, <1>6, AppliedBounds
    <2> HIDE DEF part
    <2> QED BY <1>6, <2>1, <2>2
  <1>10. \A b \in D : {c \in D : <<c, b>> \in R} = {c \in D : Before(c, b)}
    OBVIOUS
  <1> HIDE DEF part, R
  <1>11. SumFunctionOnSet(part, D) = amount
    <2>1. \A b \in D : LET left == amount - SumFunctionOnSet(owed, {c \in D : <<c, b>> \in R})
                       IN  part[b] = IF left < 0 THEN 0 ELSE IF left <= owed[b] THEN left ELSE owed[b]
      BY <1>9, <1>10
    <2>2. amount \in Nat
      BY <1>4
    <2>3. SumFunctionOnSet(part, D) =
            IF amount <= SumFunctionOnSet(owed, D) THEN amount ELSE SumFunctionOnSet(owed, D)
      BY <1>1, <1>8, <2>1, <2>2, SumInOrder
    <2> QED BY <1>2, <1>4, <2>3
  <1>12. \A b \in D : part[b] \in Nat /\ part[b] <= Outstanding(b[1], b[2])
    BY <1>7, <1>9
  <1>13. /\ payments' = Append(payments, Receipt(amount, h, Reached(part)))
         /\ gl' = Posting([cash |-> amount, ar |-> - amount])
         /\ \A b \in D : part[b] \in Nat /\ part[b] <= Outstanding(b[1], b[2])
         /\ SumFunctionOnSet(part, D) = amount
    BY <1>3, <1>5, <1>11, <1>12
  <1> QED BY <1>4, <1>13 DEF D

ShareOf(b, part) == [sale |-> b[1], inst |-> b[2], amount |-> part[b]]
Shares(S, part) == {ShareOf(b, part) : b \in {c \in InstallmentsOf(S) : part[c] > 0}}

(* The allocations a collection writes: together the amount collected,     *)
(* each for an installment of an open sale, at most one for each.          *)
LEMMA SharesFacts ==
  ASSUME PaymentsInv, MoneyRows, ReturnsInv, SalesInv, NEW S \in SUBSET Sales, NEW part,
         \A b \in InstallmentsOf(S) : part[b] \in Nat /\ part[b] <= Outstanding(b[1], b[2])
  PROVE  LET A == Shares(S, part) IN
         /\ IsFiniteSet(A)
         /\ TotalOf(A) = SumFunctionOnSet(part, InstallmentsOf(S))
         /\ \A a \in A : /\ a.sale \in Sales /\ a.inst \in 1..MaxInstallments /\ a.amount \in Nat \ {0}
                         /\ sales[a.sale].status \in OpenSaleStatuses
                         /\ a.inst \in DOMAIN sales[a.sale].schedule
                         /\ a.amount <= sales[a.sale].schedule[a.inst].amount - Collected(a.sale, a.inst)
         /\ \A a, b \in A : a.sale = b.sale /\ a.inst = b.inst => a = b
  <1> DEFINE D == InstallmentsOf(S)
             P == {c \in D : part[c] > 0}
             A == Shares(S, part)
             h == [b \in P |-> ShareOf(b, part)]
             f == [a \in A |-> a.amount]
  <1>1. /\ IsFiniteSet(D)
        /\ \A b \in D :
             /\ b = <<b[1], b[2]>> /\ b[1] \in Sales /\ b[2] \in DOMAIN sales[b[1]].schedule
             /\ b[2] \in 1..MaxInstallments
             /\ Outstanding(b[1], b[2]) \in Nat
             /\ Outstanding(b[1], b[2]) > 0 =>
                  /\ sales[b[1]].status \in OpenSaleStatuses
                  /\ Outstanding(b[1], b[2]) <= sales[b[1]].schedule[b[2]].amount - Collected(b[1], b[2])
    BY InstallmentsOwe
  <1>2. P \in SUBSET D
    OBVIOUS
  <1>3. A = {h[b] : b \in P}
    <2>1. \A b \in P : h[b] = ShareOf(b, part)
      OBVIOUS
    <2>2. A = {ShareOf(b, part) : b \in P}
      BY DEF Shares
    <2> HIDE DEF A, h, P
    <2> QED BY <2>1, <2>2
  <1>4. \A b \in P : h[b].sale = b[1] /\ h[b].inst = b[2] /\ h[b].amount = part[b]
    BY DEF ShareOf
  <1>5. IsFiniteSet(P)
    <2> HIDE DEF P, D
    <2> QED BY <1>1, <1>2, FS_Subset
  <1>6. \A b \in P : /\ b = <<b[1], b[2]>> /\ b[1] \in Sales /\ b[2] \in DOMAIN sales[b[1]].schedule
                     /\ b[2] \in 1..MaxInstallments
                     /\ part[b] \in Nat \ {0}
                     /\ sales[b[1]].status \in OpenSaleStatuses
                     /\ part[b] <= sales[b[1]].schedule[b[2]].amount - Collected(b[1], b[2])
    <2> SUFFICES ASSUME NEW b \in P
                 PROVE  /\ b = <<b[1], b[2]>> /\ b[1] \in Sales /\ b[2] \in DOMAIN sales[b[1]].schedule
                        /\ b[2] \in 1..MaxInstallments
                        /\ part[b] \in Nat \ {0}
                        /\ sales[b[1]].status \in OpenSaleStatuses
                        /\ part[b] <= sales[b[1]].schedule[b[2]].amount - Collected(b[1], b[2])
      OBVIOUS
    <2>1. part[b] > 0 /\ part[b] \in Nat /\ part[b] <= Outstanding(b[1], b[2]) /\ b \in D
      OBVIOUS
    <2>2. /\ sales[b[1]].status \in OpenSaleStatuses
          /\ Outstanding(b[1], b[2]) <= sales[b[1]].schedule[b[2]].amount - Collected(b[1], b[2])
      BY <1>1, <2>1
    <2>3. SaleData(b[1]) /\ b[2] \in DOMAIN sales[b[1]].schedule
      BY <1>1, <2>1 DEF SalesInv
    <2>4. sales[b[1]].schedule[b[2]].amount \in Nat /\ Collected(b[1], b[2]) \in Nat
      BY <2>3, AllocatedNat DEF SaleData, Collected
    <2>5. Outstanding(b[1], b[2]) \in Nat
      BY <1>1, <2>1
    <2> HIDE DEF D, P
    <2> QED BY <1>1, <2>1, <2>2, <2>4, <2>5
  <1> HIDE DEF A, h, P, D
  <1>7. IsFiniteSet(A)
    BY <1>3, <1>5, ImageIsFinite
  <1>8. \A b, c \in P : h[b] = h[c] => b = c
    <2> SUFFICES ASSUME NEW b \in P, NEW c \in P, h[b] = h[c] PROVE b = c
      OBVIOUS
    <2>1. b[1] = c[1] /\ b[2] = c[2]
      BY <1>4
    <2> QED BY <1>6, <2>1
  <1>9. TotalOf(A) = SumFunctionOnSet(part, D)
    <2>1. TotalOf(A) = SumFunctionOnSet(f, A)
      BY DEF TotalOf, SumFunction
    <2>2. \A b \in P : f[h[b]] \in Int /\ part[b] = f[h[b]]
      <3> SUFFICES ASSUME NEW b \in P PROVE f[h[b]] \in Int /\ part[b] = f[h[b]]
        OBVIOUS
      <3>1. h[b] \in A
        BY <1>3
      <3>2. f[h[b]] = part[b]
        BY <1>4, <3>1
      <3> QED BY <1>6, <3>2
    <2> HIDE DEF f
    <2>3. SumFunctionOnSet(f, {h[b] : b \in P}) = SumFunctionOnSet(part, P)
      BY <1>5, <1>8, <2>2, SumReindex
    <2>4. SumFunctionOnSet(part, D) = SumFunctionOnSet(part, P)
      <3>1. \A b \in P : part[b] \in Int
        BY <1>6
      <3>2. \A b \in D \ P : part[b] = 0
        BY DEF D, P
      <3> QED BY <1>1, <1>2, <3>1, <3>2, SumSupport
    <2> QED BY <1>3, <2>1, <2>3, <2>4
  <1>10. \A a \in A : /\ a.sale \in Sales /\ a.inst \in 1..MaxInstallments /\ a.amount \in Nat \ {0}
                      /\ sales[a.sale].status \in OpenSaleStatuses
                      /\ a.inst \in DOMAIN sales[a.sale].schedule
                      /\ a.amount <= sales[a.sale].schedule[a.inst].amount - Collected(a.sale, a.inst)
    BY <1>3, <1>4, <1>6
  <1>11. \A a, b \in A : a.sale = b.sale /\ a.inst = b.inst => a = b
    <2> SUFFICES ASSUME NEW b \in P, NEW c \in P, h[b].sale = h[c].sale, h[b].inst = h[c].inst
                 PROVE  h[b] = h[c]
      BY <1>3
    <2>1. b[1] = c[1] /\ b[2] = c[2]
      BY <1>4
    <2>2. b = c
      BY <1>6, <2>1
    <2> QED BY <2>2
  <1> QED BY <1>7, <1>9, <1>10, <1>11 DEF A, D

(* collectCustomerPayment writes one receipt whose allocations add up to   *)
(* its amount and take no installment above what it is for.                *)
LEMMA CollectionRow ==
  ASSUME PaymentsInv, MoneyRows, ReturnsInv, SalesInv, NEW S \in SUBSET Sales, NEW h,
         CollectCustomerPayment(S, h)
  PROVE  \E amount \in Nat \ {0} : \E A :
           /\ payments' = Append(payments, Receipt(amount, h, A))
           /\ gl' = Posting([cash |-> amount, ar |-> - amount])
           /\ IsFiniteSet(A) /\ TotalOf(A) = amount
           /\ \A a \in A : /\ a.sale \in Sales /\ a.inst \in 1..MaxInstallments /\ a.amount \in Nat \ {0}
                           /\ sales[a.sale].status \in OpenSaleStatuses
                           /\ a.inst \in DOMAIN sales[a.sale].schedule
                           /\ a.amount <= sales[a.sale].schedule[a.inst].amount - Collected(a.sale, a.inst)
           /\ \A a, b \in A : a.sale = b.sale /\ a.inst = b.inst => a = b
  <1>1. PICK amount, part :
           /\ amount \in Nat \ {0}
           /\ payments' = Append(payments, Receipt(amount, h, Shares(S, part)))
           /\ gl' = Posting([cash |-> amount, ar |-> - amount])
           /\ \A b \in InstallmentsOf(S) : part[b] \in Nat /\ part[b] <= Outstanding(b[1], b[2])
           /\ SumFunctionOnSet(part, InstallmentsOf(S)) = amount
    BY CollectionIsAllocated DEF Shares, ShareOf
  <1> DEFINE A == Shares(S, part)
  <1>2. /\ IsFiniteSet(A)
        /\ TotalOf(A) = SumFunctionOnSet(part, InstallmentsOf(S))
        /\ \A a \in A : /\ a.sale \in Sales /\ a.inst \in 1..MaxInstallments /\ a.amount \in Nat \ {0}
                         /\ sales[a.sale].status \in OpenSaleStatuses
                         /\ a.inst \in DOMAIN sales[a.sale].schedule
                         /\ a.amount <= sales[a.sale].schedule[a.inst].amount - Collected(a.sale, a.inst)
        /\ \A a, b \in A : a.sale = b.sale /\ a.inst = b.inst => a = b
    BY <1>1, SharesFacts
  <1> HIDE DEF A
  <1>3. /\ payments' = Append(payments, Receipt(amount, h, A))
        /\ gl' = Posting([cash |-> amount, ar |-> - amount])
        /\ IsFiniteSet(A) /\ TotalOf(A) = amount
    BY <1>1, <1>2 DEF A
  <1>4. amount \in Nat \ {0}
    BY <1>1
  <1> QED BY <1>2, <1>3, <1>4

(* collectCustomerPayment keeps every part of a sale within what it is     *)
(* for.                                                                    *)
LEMMA CollectionMoney ==
  ASSUME MoneyInv, PaymentsInv', NEW S \in SUBSET Sales, NEW h, CollectCustomerPayment(S, h)
  PROVE  SalesInv' /\ RowsInv' /\ CollectedInv'
  <1>0. PaymentsInv /\ SalesInv /\ ReturnsInv /\ RowsInv /\ CollectedInv /\ MoneyRows
    BY DEF MoneyInv, RowsInv
  <1>1. SalesStand /\ SalesInv' /\ sales' = sales
    <2>1. sales' = sales /\ today' = today /\ today \in Nat
      BY <1>0 DEF CollectCustomerPayment, SalesInv
    <2> QED BY <1>0, <2>1, SalesStandUnchanged
  <1>2. PICK amount, A :
           /\ amount \in Nat \ {0}
           /\ payments' = Append(payments, Receipt(amount, h, A))
           /\ gl' = Posting([cash |-> amount, ar |-> - amount])
           /\ IsFiniteSet(A) /\ TotalOf(A) = amount
           /\ \A a \in A : /\ a.sale \in Sales /\ a.inst \in 1..MaxInstallments /\ a.amount \in Nat \ {0}
                           /\ sales[a.sale].status \in OpenSaleStatuses
                           /\ a.inst \in DOMAIN sales[a.sale].schedule
                           /\ a.amount <= sales[a.sale].schedule[a.inst].amount - Collected(a.sale, a.inst)
           /\ \A a, b \in A : a.sale = b.sale /\ a.inst = b.inst => a = b
    BY <1>0, CollectionRow
  <1> DEFINE row == Receipt(amount, h, A)
             k == Len(payments) + 1
  <1>3. IsRow(row) /\ row.status = "posted" /\ row.reverses = 0 /\ row.allocations = A /\ MoneyRow(row)
    <2>1. 1..MaxInstallments \subseteq 0..MaxInstallments
      BY SaleAssumption
    <2> QED BY <1>2, <2>1 DEF Receipt, IsRow, Fields, MoneyRow
  <1>3a. payments' = Append(payments, row)
    BY <1>2
  <1> HIDE DEF row
  <1>4. Extends({}) /\ Len(payments') = k /\ payments'[k] = row
    BY <1>0, <1>3, <1>3a, AppendedRow
  <1>5. RowsInv'
    <2>1. \A q \in (Len(payments) + 1)..Len(payments') : payments'[q] = row
      BY <1>0, <1>4, PostedIsFinite
    <2>2. \A a \in A : sales'[a.sale].status # "none" /\ (a.inst = 0 \/ a.inst \in DOMAIN sales'[a.sale].schedule)
      BY <1>1, <1>2 DEF OpenSaleStatuses
    <2> HIDE DEF k
    <2> QED BY <1>0, <1>1, <1>3, <1>4, <2>1, <2>2, RowsStep
  <1>6. \A I, t : AllocatedThrough(I, t)' = AllocatedThrough(I, t) + Part(row, I, t)
    <2> SUFFICES ASSUME NEW I, NEW t
                 PROVE  AllocatedThrough(I, t)' = AllocatedThrough(I, t) + Part(row, I, t)
      OBVIOUS
    <2>1. AllocatedThrough(I, t)' = AllocatedThrough(I, t) + Part(payments'[Len(payments) + 1], I, t)
      BY <1>0, <1>4, <1>5, AllocatedAppend DEF RowsInv
    <2> QED BY <1>4, <2>1
  <1>7. ASSUME NEW t \in Sales
        PROVE  /\ AllocatedThrough({0}, t)' <= sales'[t].paid
               /\ \A i \in DOMAIN sales'[t].schedule :
                    AllocatedThrough({i}, t)' <= sales'[t].schedule[i].amount
    <2>1. SaleData(t) /\ sales[t].paid \in Nat
      BY <1>0 DEF SalesInv, SaleData
    <2>2. \A i \in DOMAIN sales[t].schedule : i \in Nat \ {0} /\ sales[t].schedule[i].amount \in Nat
      BY <2>1 DEF SaleData, IsSequence
    <2>3. ASSUME NEW i
          PROVE  /\ Collected(t, i) \in Nat
                 /\ AllocatedThrough({i}, t)' = Collected(t, i) + Part(row, {i}, t)
      BY <1>0, <1>6, AllocatedNat DEF Collected
    <2>4. AllocatedThrough({0}, t)' <= sales'[t].paid
      <3>1. \A a \in row.allocations : a.sale # t \/ a.inst \notin {0}
        BY <1>2, <1>3
      <3>2. Part(row, {0}, t) = 0
        BY <3>1, PartOfNone
      <3>3. Collected(t, 0) <= sales[t].paid
        BY <1>0 DEF CollectedInv
      <3>4. Collected(t, 0) \in Nat /\ AllocatedThrough({0}, t)' = Collected(t, 0) + 0
        BY <2>3, <3>2
      <3> QED BY <1>1, <2>1, <3>3, <3>4
    <2>5. ASSUME NEW i \in DOMAIN sales[t].schedule
          PROVE  AllocatedThrough({i}, t)' <= sales[t].schedule[i].amount
      <3>1. CASE \A a \in A : a.sale # t \/ a.inst # i
        <4>1. Part(row, {i}, t) = 0
          BY <1>3, <3>1, PartOfNone
        <4>2. Collected(t, i) <= sales[t].schedule[i].amount
          BY <1>0 DEF CollectedInv
        <4>3. Collected(t, i) \in Nat /\ AllocatedThrough({i}, t)' = Collected(t, i) + 0
          BY <2>3, <4>1
        <4> QED BY <2>2, <4>2, <4>3
      <3>2. CASE \E a \in A : a.sale = t /\ a.inst = i
        <4>1. PICK a \in A : a.sale = t /\ a.inst = i
          BY <3>2
        <4>2. Part(row, {i}, t) = a.amount
          <5>1. a \in row.allocations /\ a.amount \in Nat
            BY <1>2, <1>3, <4>1
          <5>2. \A b \in row.allocations : b.sale = t /\ b.inst = i => b = a
            BY <1>2, <1>3, <4>1
          <5>3. \A b \in row.allocations : b.sale = t /\ b.inst \in {i} => b = a
            BY <5>2
          <5> QED BY <4>1, <5>1, <5>2, <5>3, PartOfOne
        <4>3. a.amount <= sales[t].schedule[i].amount - Collected(t, i) /\ a.amount \in Nat
          BY <1>2, <4>1
        <4>4. Collected(t, i) \in Nat /\ AllocatedThrough({i}, t)' = Collected(t, i) + a.amount
          BY <2>3, <4>2
        <4> QED BY <2>2, <4>3, <4>4
      <3> QED BY <3>1, <3>2
    <2> QED BY <1>1, <2>4, <2>5
  <1>8. CollectedInv'
    BY <1>7 DEF CollectedInv, Collected
  <1> QED BY <1>1, <1>5, <1>8

KeepsTerms == \A s \in Sales : sales'[s].paid = sales[s].paid /\ sales'[s].schedule = sales[s].schedule

(* A step that marks rows and adds rows without allocations keeps every    *)
(* part of a sale within what it is for.                                   *)
LEMMA LessMoney ==
  ASSUME MoneyInv, PaymentsInv', SalesStand, KeepsTerms,
         NEW R, R \subseteq Posted, Extends(R),
         \A q \in (Len(payments) + 1)..Len(payments') :
           MoneyRow(payments'[q]) /\ payments'[q].allocations = {}
  PROVE  RowsInv' /\ CollectedInv'
  <1>1. PaymentsInv /\ SalesInv /\ RowsInv /\ CollectedInv /\ MoneyRows
    BY DEF MoneyInv, RowsInv
  <1>2. R \subseteq DOMAIN payments
    BY DEF Posted
  <1>3. RowsInv'
    BY <1>1, <1>2, RowsStep
  <1>4. MoneyRows'
    BY <1>3 DEF RowsInv
  <1>5. \A s \in Sales, i \in Nat : /\ AllocatedThrough({i}, s)' \in Nat
                                    /\ AllocatedThrough({i}, s)' <= AllocatedThrough({i}, s)
    <2> SUFFICES ASSUME NEW s \in Sales, NEW i \in Nat
                 PROVE  /\ AllocatedThrough({i}, s)' \in Nat
                        /\ AllocatedThrough({i}, s)' <= AllocatedThrough({i}, s)
      OBVIOUS
    <2> DEFINE I == {i}
    <2> HIDE DEF I
    <2>1. /\ AllocatedThrough(I, s)' =
               AllocatedThrough(I, s) - SumFunction([p \in R |-> Part(payments[p], I, s)])
          /\ AllocatedThrough(I, s)' <= AllocatedThrough(I, s)
          /\ AllocatedThrough(I, s)' \in Nat
      BY <1>1, <1>4, AllocatedLess
    <2> QED BY <2>1 DEF I
  <1>6. CollectedInv'
    BY <1>1, <1>4, <1>5, CollectedLess DEF KeepsTerms
  <1> QED BY <1>3, <1>6

(* A command that leaves the payments marks none and adds none.            *)
LEMMA NoNewRows ==
  ASSUME PaymentsInv, payments' = payments
  PROVE  Extends({}) /\ (Len(payments) + 1)..Len(payments') = {}
  BY DEF PaymentsInv, Extends, IsSequence

(* A command that leaves the payments and the terms of the sales leaves    *)
(* the money of each.                                                      *)
LEMMA UntouchedMoney ==
  ASSUME MoneyInv, PaymentsInv', SalesStand, KeepsTerms, payments' = payments
  PROVE  RowsInv' /\ CollectedInv'
  <1>1. Extends({}) /\ {} \subseteq Posted
        /\ \A q \in (Len(payments) + 1)..Len(payments') :
             MoneyRow(payments'[q]) /\ payments'[q].allocations = {}
    BY NoNewRows DEF MoneyInv
  <1> QED BY <1>1, LessMoney

(* A command that leaves the sales leaves their terms.                     *)
LEMMA SameSalesMoney ==
  ASSUME MoneyInv, sales' = sales, today' \in Nat
  PROVE  SalesStand /\ SalesInv' /\ KeepsTerms
  BY SalesStandUnchanged DEF MoneyInv, KeepsTerms

(* A sale whose status alone changes keeps its terms.                      *)
LEMMA StatusMoney ==
  ASSUME MoneyInv, NEW s \in Sales, NEW status \in Statuses \ {"none"},
         sales' = [sales EXCEPT ![s].status = status], today' = today
  PROVE  SalesStand /\ SalesInv' /\ KeepsTerms
  <1>1. SalesStand /\ SalesInv'
    BY SalesStandOnStatus DEF MoneyInv
  <1>2. KeepsTerms
    BY StatusOfSale DEF MoneyInv, KeepsTerms
  <1> QED BY <1>1, <1>2

(* A day is a number.                                                      *)
LEMMA TodayNat == ASSUME MoneyInv PROVE today \in Nat
  BY DEF MoneyInv, SalesInv

(* A refund row has no allocation, so no sale is paid more by it.          *)
LEMMA RefundMoney ==
  ASSUME MoneyInv, PaymentsInv', NEW r \in DOMAIN returns, NEW amount \in 1..Credit(r), NEW h,
         RefundReturn(r, amount, h)
  PROVE  SalesInv' /\ RowsInv' /\ CollectedInv'
  <1> DEFINE row == [Receipt(amount, h, {}) EXCEPT !.direction = "outgoing", !.return = r]
  <1>1. SalesStand /\ SalesInv' /\ KeepsTerms
    <2>1. sales' = sales /\ today' = today
      BY DEF RefundReturn
    <2> QED BY <2>1, TodayNat, SameSalesMoney
  <1>2. amount \in Nat /\ r \in Nat
    BY ReturnsFinite DEF MoneyInv
  <1>3. payments' = Append(payments, row)
    BY DEF RefundReturn
  <1>4. IsRow(row) /\ row.status = "posted" /\ row.reverses = 0 /\ row.allocations = {} /\ MoneyRow(row)
    BY <1>2, FS_EmptySet DEF Receipt, IsRow, Fields, MoneyRow
  <1> HIDE DEF row
  <1>5. Extends({}) /\ Len(payments') = Len(payments) + 1 /\ payments'[Len(payments) + 1] = row
    BY <1>3, <1>4, AppendedRow DEF MoneyInv
  <1>6. \A q \in (Len(payments) + 1)..Len(payments') :
          MoneyRow(payments'[q]) /\ payments'[q].allocations = {}
    BY <1>4, <1>5, PostedIsFinite DEF MoneyInv
  <1>7. {} \subseteq Posted
    OBVIOUS
  <1> QED BY <1>1, <1>5, <1>6, <1>7, LessMoney

(* A reversal is a row without allocations.                                *)
LEMMA ReversalIsMoney ==
  ASSUME MoneyInv, NEW p \in DOMAIN payments, NEW ref, NEW shift
  PROVE  MoneyRow(Reversal(p, ref, shift)) /\ Reversal(p, ref, shift).allocations = {}
  <1>1. MoneyRow(payments[p])
    BY DEF MoneyInv, RowsInv, MoneyRows
  <1> QED BY <1>1, FS_EmptySet DEF Reversal, Opposite, MoneyRow

(* reversePayment takes money off sales and adds none.                     *)
LEMMA ReversalMoney ==
  ASSUME MoneyInv, PaymentsInv', NEW p \in DOMAIN payments, ReversePayment(p)
  PROVE  SalesInv' /\ RowsInv' /\ CollectedInv'
  <1>1. SalesStand /\ SalesInv' /\ KeepsTerms
    <2>1. sales' = sales /\ today' = today
      BY DEF ReversePayment
    <2> QED BY <2>1, TodayNat, SameSalesMoney
  <1> DEFINE row == Reversal(p, "PMT-REV", payments[p].shift)
             R == {p}
  <1>2. Extends(R) /\ R \subseteq Posted /\ Len(payments') = Len(payments) + 1
        /\ payments'[Len(payments) + 1] = row
    BY ReversalExtends DEF MoneyInv
  <1>3. MoneyRow(row) /\ row.allocations = {}
    BY ReversalIsMoney
  <1> HIDE DEF row, R
  <1>4. \A q \in (Len(payments) + 1)..Len(payments') :
          MoneyRow(payments'[q]) /\ payments'[q].allocations = {}
    BY <1>2, <1>3, PostedIsFinite DEF MoneyInv
  <1> QED BY <1>1, <1>2, <1>4, LessMoney

(* voidSale takes money off sales and adds none.                           *)
LEMMA VoidMoney ==
  ASSUME MoneyInv, PaymentsInv', NEW s \in Sales, VoidSale(s)
  PROVE  SalesInv' /\ RowsInv' /\ CollectedInv'
  <1>1. SalesStand /\ SalesInv' /\ KeepsTerms
    <2>1. sales' = [sales EXCEPT ![s].status = "voided"] /\ today' = today
      BY DEF VoidSale
    <2> QED BY <2>1, StatusMoney DEF Statuses
  <1>2. /\ Extends(ToReverse(s)) /\ ToReverse(s) \subseteq Posted
        /\ \A q \in (Len(payments) + 1)..Len(payments') :
             \E p \in ToReverse(s) : payments'[q] = Reversal(p, "-REV", None)
    BY VoidExtends DEF MoneyInv
  <1>3. \A q \in (Len(payments) + 1)..Len(payments') :
          MoneyRow(payments'[q]) /\ payments'[q].allocations = {}
    BY <1>2, ReversalIsMoney DEF Posted
  <1> QED BY <1>1, <1>2, <1>3, LessMoney

(* postSaleReturn leaves the money as it is.                               *)
LEMMA ReturnMoney ==
  ASSUME MoneyInv, PaymentsInv', NEW s \in Sales, NEW V \in SUBSET sales[s].units, NEW c, NEW d,
         PostSaleReturn(s, V, c, d)
  PROVE  SalesInv' /\ RowsInv' /\ CollectedInv' /\ ReturnsInv'
  <1>1. SalesStand /\ SalesInv' /\ KeepsTerms
    <2>1. PICK status \in {"returned", "partially_returned"} :
            sales' = [sales EXCEPT ![s].status = status] /\ today' = today
      BY DEF PostSaleReturn
    <2> QED BY <2>1, StatusMoney DEF Statuses
  <1>2. payments' = payments
    BY DEF PostSaleReturn
  <1> DEFINE row == [sale |-> s, units |-> V, costBack |-> d # "scrap"]
  <1>3. returns' = Append(returns, row)
    BY DEF PostSaleReturn
  <1>4. row.sale \in Sales /\ row.units \subseteq Units /\ row.costBack \in BOOLEAN
    BY DEF MoneyInv, SalesInv, SaleData
  <1> HIDE DEF row
  <1>5. /\ IsSequence(returns') /\ Len(returns') = Len(returns) + 1
        /\ \A r \in 1..Len(returns) : returns'[r] = returns[r]
        /\ returns'[Len(returns) + 1] = row
    BY <1>3, AppendToSequence DEF MoneyInv, ReturnsInv
  <1>6. DOMAIN returns' = 1..(Len(returns) + 1) /\ DOMAIN returns = 1..Len(returns) /\ Len(returns) \in Nat
    BY <1>5 DEF MoneyInv, ReturnsInv, IsSequence
  <1>7. \A r \in DOMAIN returns' : r \in DOMAIN returns \/ r = Len(returns) + 1
    BY <1>6
  <1>8. ReturnsInv'
    BY <1>4, <1>5, <1>6, <1>7 DEF MoneyInv, ReturnsInv
  <1> QED BY <1>1, <1>2, <1>8, UntouchedMoney

(* A command that leaves the returns leaves them well formed.              *)
LEMMA SameReturns == ASSUME MoneyInv, returns' = returns PROVE ReturnsInv'
  BY DEF MoneyInv, ReturnsInv, IsSequence

(* Every command keeps every part of a sale within what it is for.         *)
LEMMA NextMoney == ASSUME MoneyInv, [Next]_vars PROVE MoneyInv'
  <1>1. PaymentsInv' /\ GoodsInv'
    BY NextRows, NextGoods DEF MoneyInv
  <1> SUFFICES SalesInv' /\ ReturnsInv' /\ RowsInv' /\ CollectedInv'
    BY <1>1 DEF MoneyInv
  <1>2. CASE \E s \in Sales, U \in (SUBSET Units) \ {{}}, h \in ShiftOrNone :
               \E paid \in 0..Cardinality(U) : PostSale(s, U, paid, h)
    <2>1. PICK s \in Sales, U \in SUBSET Units, h \in ShiftOrNone : \E paid \in 0..Cardinality(U) : PostSale(s, U, paid, h)
      BY <1>2
    <2>2. PICK paid \in 0..Cardinality(U) : PostSale(s, U, paid, h)
      BY <2>1
    <2>3. SalesInv'
      BY <2>2, PostSaleData DEF MoneyInv
    <2>4. RowsInv' /\ CollectedInv'
      BY <1>1, <2>2, PostSaleMoney
    <2>5. returns' = returns
      BY <2>2 DEF PostSale
    <2> QED BY <2>3, <2>4, <2>5, SameReturns
  <1>3. CASE \E S \in SUBSET Sales, h \in ShiftOrNone : CollectCustomerPayment(S, h)
    <2>1. PICK S \in SUBSET Sales, h \in ShiftOrNone : CollectCustomerPayment(S, h)
      BY <1>3
    <2>2. returns' = returns
      BY <2>1 DEF CollectCustomerPayment
    <2>3. SalesInv' /\ RowsInv' /\ CollectedInv'
      BY <1>1, <2>1, CollectionMoney
    <2> QED BY <2>2, <2>3, SameReturns
  <1>4. CASE \E s \in Sales : \E V \in SUBSET sales[s].units, c \in Conditions, d \in Dispositions :
               PostSaleReturn(s, V, c, d)
    BY <1>1, <1>4, ReturnMoney
  <1>5. CASE \E r \in DOMAIN returns : \E amount \in 1..Credit(r), h \in ShiftOrNone : RefundReturn(r, amount, h)
    <2>1. PICK r \in DOMAIN returns : \E amount \in 1..Credit(r), h \in ShiftOrNone : RefundReturn(r, amount, h)
      BY <1>5
    <2>2. PICK amount \in 1..Credit(r), h \in ShiftOrNone : RefundReturn(r, amount, h)
      BY <2>1
    <2>3. returns' = returns
      BY <2>2 DEF RefundReturn
    <2>4. SalesInv' /\ RowsInv' /\ CollectedInv'
      BY <1>1, <2>2, RefundMoney
    <2> QED BY <2>3, <2>4, SameReturns
  <1>6. CASE \E p \in DOMAIN payments : ReversePayment(p)
    <2>1. PICK p \in DOMAIN payments : ReversePayment(p)
      BY <1>6
    <2>2. returns' = returns
      BY <2>1 DEF ReversePayment
    <2> QED BY <1>1, <2>1, <2>2, ReversalMoney, SameReturns
  <1>7. CASE \E s \in Sales : VoidSale(s)
    <2>1. PICK s \in Sales : VoidSale(s)
      BY <1>7
    <2>2. returns' = returns
      BY <2>1 DEF VoidSale
    <2> QED BY <1>1, <2>1, <2>2, VoidMoney, SameReturns
  <1>8. CASE \/ \E h \in Shifts : OpenCashierShift(h)
             \/ \E h \in Shifts :
                  \E counted \in Nat \cap ((NetCash(h) - MaxVariance)..(NetCash(h) + MaxVariance)) :
                    CloseCashierShift(h, counted)
             \/ Tomorrow
             \/ UNCHANGED vars
    <2>1. sales' = sales /\ payments' = payments /\ returns' = returns /\ (today' = today \/ today' = today + 1)
      BY <1>8 DEF OpenCashierShift, CloseCashierShift, Tomorrow, vars
    <2>2. today' \in Nat
      BY <2>1, TodayNat
    <2> QED BY <1>1, <2>1, <2>2, SameSalesMoney, UntouchedMoney, SameReturns
  <1> QED BY <1>2, <1>3, <1>4, <1>5, <1>6, <1>7, <1>8 DEF Next

(* No row yet.                                                             *)
LEMMA EmptySequence == ASSUME NEW s, s = <<>> PROVE IsSequence(s) /\ DOMAIN s = {} /\ Len(s) = 0
  <1>1. s \in Seq({}) /\ Len(s) = 0
    BY EmptySeq
  <1>2. DOMAIN s = 1..0
    BY <1>1, LenProperties
  <1>3. IsSequence(s)
    BY <1>1, SequenceOfItself
  <1> QED BY <1>1, <1>2, <1>3

(* No schedule, nothing scheduled.                                         *)
LEMMA NothingScheduled == ASSUME NEW c, DOMAIN c = {} PROVE Scheduled(c) = 0
  <1>1. DOMAIN [i \in DOMAIN c |-> c[i].amount] = {}
    OBVIOUS
  <1>2. Scheduled(c) = SumFunctionOnSet([i \in DOMAIN c |-> c[i].amount], {})
    BY <1>1 DEF Scheduled, SumFunction
  <1> QED BY <1>2, SumEmpty

(* It holds before the first sale.                                         *)
LEMMA InitMoney == Init => MoneyInv
  <1> SUFFICES ASSUME Init PROVE MoneyInv
    OBVIOUS
  <1>1. PaymentsInv /\ GoodsInv
    BY InitRows, InitGoods
  <1>2. /\ IsSequence(payments) /\ DOMAIN payments = {} /\ IsSequence(returns) /\ DOMAIN returns = {}
        /\ \A s \in Sales : /\ IsSequence(sales[s].schedule) /\ DOMAIN sales[s].schedule = {}
                            /\ Len(sales[s].schedule) = 0
    BY EmptySequence DEF Init, NoSale
  <1>3. payments = <<>> /\ returns = <<>> /\ today = 1 /\ \A s \in Sales : sales[s] = NoSale
    BY DEF Init
  <1>4. ReturnsInv /\ RowsInv /\ Posted = {}
    BY <1>2, <1>3 DEF ReturnsInv, RowsInv, MoneyRows, Posted
  <1>5. \A s \in Sales : Scheduled(sales[s].schedule) = 0
    BY <1>2, NothingScheduled
  <1>6. ASSUME NEW s \in Sales PROVE SaleData(s)
    <2>1. /\ sales[s].status = "none" /\ sales[s].units = {} /\ sales[s].paid = 0
          /\ sales[s].schedule = <<>>
      BY <1>3 DEF NoSale
    <2>2. Qty(s) = 0
      BY <2>1, FS_EmptySet DEF Qty
    <2>3. Len(sales[s].schedule) \in 0..MaxInstallments
      BY <1>2, <2>1, SaleAssumption
    <2> QED BY <1>2, <1>5, <2>1, <2>2, <2>3 DEF SaleData, Statuses
  <1>7. SalesInv
    BY <1>3, <1>6 DEF SalesInv
  <1>8. \A I, s : AllocatedThrough(I, s) = 0
    <2> SUFFICES ASSUME NEW I, NEW s PROVE AllocatedThrough(I, s) = 0
      OBVIOUS
    <2> DEFINE w == [p \in Posted |-> Part(payments[p], I, s)]
    <2>1. AllocatedThrough(I, s) = SumFunctionOnSet(w, Posted)
      BY <1>1, AllocatedIsSum
    <2> HIDE DEF w
    <2> QED BY <1>4, <2>1, SumEmpty
  <1>9. CollectedInv
    BY <1>2, <1>3, <1>8 DEF CollectedInv, Collected, NoSale
  <1> QED BY <1>1, <1>4, <1>7, <1>9 DEF MoneyInv

(* What a sale was paid through one more installment.                      *)
LEMMA OneMoreInstallment ==
  ASSUME PaymentsInv, MoneyRows, NEW I, NEW i, i \notin I, NEW s
  PROVE  AllocatedThrough(I \cup {i}, s) = AllocatedThrough(I, s) + AllocatedThrough({i}, s)
  <1> DEFINE J == I \cup {i}
             K == {i}
             f == [p \in Posted |-> Part(payments[p], I, s)]
             g == [p \in Posted |-> Part(payments[p], K, s)]
             h == [p \in Posted |-> Part(payments[p], J, s)]
  <1>1. \A p \in Posted : f[p] \in Int /\ g[p] \in Int /\ h[p] = f[p] + g[p]
    <2> SUFFICES ASSUME NEW p \in Posted PROVE f[p] \in Int /\ g[p] \in Int /\ h[p] = f[p] + g[p]
      OBVIOUS
    <2>1. MoneyRow(payments[p])
      BY DEF Posted, MoneyRows
    <2>2. Part(payments[p], I, s) \in Nat /\ Part(payments[p], K, s) \in Nat
      BY <2>1, PartNat
    <2>3. Part(payments[p], J, s) = Part(payments[p], I, s) + Part(payments[p], K, s)
      BY <2>1, PartWithOneMore
    <2> QED BY <2>2, <2>3
  <1>2. \A p \in Posted : /\ f[p] = Part(payments[p], I, s)
                          /\ g[p] = Part(payments[p], K, s)
                          /\ h[p] = Part(payments[p], J, s)
    OBVIOUS
  <1> HIDE DEF f, g, h, J, K
  <1>3. SumFunctionOnSet(h, Posted) = SumFunctionOnSet(f, Posted) + SumFunctionOnSet(g, Posted)
    BY <1>1, PostedIsFinite, SumPlus
  <1>4. SumFunctionOnSet(f, Posted) = AllocatedThrough(I, s)
    BY <1>2, AllocatedIsSum
  <1>5. SumFunctionOnSet(g, Posted) = AllocatedThrough(K, s)
    BY <1>2, AllocatedIsSum
  <1>6. SumFunctionOnSet(h, Posted) = AllocatedThrough(J, s)
    BY <1>2, AllocatedIsSum
  <1> QED BY <1>3, <1>4, <1>5, <1>6 DEF J, K

(* What a sale was paid is what its parts were paid.                       *)
LEMMA AllocatedByInstallment ==
  ASSUME PaymentsInv, MoneyRows, NEW s, NEW N, IsFiniteSet(N)
  PROVE  AllocatedThrough(N, s) = SumFunctionOnSet([i \in N |-> Collected(s, i)], N)
  <1> DEFINE c == [i \in N |-> Collected(s, i)]
             G == {I \in SUBSET N : AllocatedThrough(I, s) = SumFunctionOnSet(c, I)}
  <1>1. ASSUME NEW I \in SUBSET N, \A J \in SUBSET I : J # I => J \in G PROVE I \in G
    <2>1. CASE I = {}
      <3> DEFINE w == [p \in Posted |-> Part(payments[p], I, s)]
      <3>1. AllocatedThrough(I, s) = SumFunctionOnSet(w, Posted)
        BY AllocatedIsSum
      <3>2. \A p \in Posted : w[p] = 0
        BY <2>1, PartOfNone
      <3> HIDE DEF w
      <3>3. AllocatedThrough(I, s) = 0
        BY <3>1, <3>2, PostedIsFinite, SumZero
      <3>4. SumFunctionOnSet(c, I) = 0
        BY <2>1, SumEmpty
      <3> QED BY <3>3, <3>4
    <2>2. CASE I # {}
      <3>1. PICK i \in I : TRUE
        BY <2>2
      <3> DEFINE J == I \ {i}
      <3>2. AllocatedThrough(J, s) = SumFunctionOnSet(c, J)
        BY <1>1, <3>1
      <3>3. AllocatedThrough(J \cup {i}, s) = AllocatedThrough(J, s) + AllocatedThrough({i}, s)
        <4>1. i \notin J
          OBVIOUS
        <4> HIDE DEF J
        <4> QED BY <4>1, OneMoreInstallment
      <3>4. J \cup {i} = I /\ I \subseteq N
        BY <3>1
      <3>5. SumFunctionOnSet(c, I) = c[i] + SumFunctionOnSet(c, I \ {i})
        <4>1. IsFiniteSet(I)
          BY FS_Subset
        <4>2. \A j \in I : c[j] \in Int
          BY AllocatedNat DEF Collected
        <4> HIDE DEF c
        <4> QED BY <3>1, <4>1, <4>2, SumRemove
      <3>6. c[i] = AllocatedThrough({i}, s)
        BY <3>1 DEF Collected
      <3>7. AllocatedThrough(J, s) \in Nat /\ AllocatedThrough({i}, s) \in Nat
        BY AllocatedNat
      <3>8. SumFunctionOnSet(c, I) = c[i] + SumFunctionOnSet(c, J)
        BY <3>5
      <3>9. AllocatedThrough(I, s) = AllocatedThrough(J, s) + AllocatedThrough({i}, s)
        BY <3>3, <3>4
      <3> HIDE DEF c, J
      <3>10. AllocatedThrough(I, s) = SumFunctionOnSet(c, I)
        BY <3>2, <3>6, <3>7, <3>8, <3>9
      <3> QED BY <3>10
    <2> QED BY <2>1, <2>2
  <1>2. N \in G
    <2> HIDE DEF G
    <2> QED BY <1>1, SetInduction
  <1> QED BY <1>2

(* Each part within what it is for keeps the sale within its total.        *)
LEMMA PartsBoundTheSale == MoneyInv => NeverOverCollected
  <1> SUFFICES ASSUME MoneyInv, NEW s \in Sales PROVE Allocated(s) <= Qty(s)
    BY DEF NeverOverCollected, MoneyInv, CollectedInv
  <1> DEFINE N == 0..MaxInstallments
             D == DOMAIN sales[s].schedule
             c == [i \in N |-> Collected(s, i)]
             cap == [i \in N |-> IF i = 0 THEN sales[s].paid
                                 ELSE IF i \in D THEN sales[s].schedule[i].amount ELSE 0]
  <1>1. PaymentsInv /\ MoneyRows /\ SaleData(s)
    BY DEF MoneyInv, RowsInv, SalesInv
  <1>2. N \subseteq Nat /\ 0 \in N /\ IsFiniteSet(N)
    BY SaleAssumption, FS_Interval
  <1>3. D \subseteq N \ {0} /\ D = 1..Len(sales[s].schedule) /\ Len(sales[s].schedule) \in Nat
    <2>1. D = 1..Len(sales[s].schedule) /\ Len(sales[s].schedule) \in 0..MaxInstallments
      BY <1>1 DEF SaleData, IsSequence
    <2> QED BY <2>1, SaleAssumption
  <1>4. sales[s].paid \in Nat /\ \A i \in D : sales[s].schedule[i].amount \in Nat
    BY <1>1 DEF SaleData
  <1>5. \A i \in N : c[i] \in Nat /\ cap[i] \in Nat /\ c[i] <= cap[i]
    <2> SUFFICES ASSUME NEW i \in N PROVE c[i] \in Nat /\ cap[i] \in Nat /\ c[i] <= cap[i]
      OBVIOUS
    <2>1. c[i] = Collected(s, i) /\ Collected(s, i) \in Nat
      BY <1>1, AllocatedNat DEF Collected
    <2>2. CASE i = 0
      BY <1>4, <2>1, <2>2 DEF MoneyInv, CollectedInv
    <2>3. CASE i \in D
      BY <1>3, <1>4, <2>1, <2>3 DEF MoneyInv, CollectedInv
    <2>4. CASE i # 0 /\ i \notin D
      <3> DEFINE w == [p \in Posted |-> Part(payments[p], {i}, s)]
      <3>1. Collected(s, i) = SumFunctionOnSet(w, Posted)
        BY <1>1, AllocatedIsSum DEF Collected
      <3>2. \A p \in Posted : w[p] = 0
        <4> SUFFICES ASSUME NEW p \in Posted PROVE w[p] = 0
          OBVIOUS
        <4>1. \A a \in payments[p].allocations : a.sale # s \/ a.inst \notin {i}
          BY <2>4 DEF MoneyInv, RowsInv, AllocationsFit, Posted
        <4>2. Part(payments[p], {i}, s) = 0
          BY <4>1, PartOfNone
        <4> QED BY <4>2
      <3> HIDE DEF w
      <3>3. Collected(s, i) = 0
        BY <1>1, <3>1, <3>2, PostedIsFinite, SumZero
      <3> QED BY <2>1, <2>4, <3>3
    <2> QED BY <2>2, <2>3, <2>4
  <1>6. \A i \in D : cap[i] = [j \in D |-> sales[s].schedule[j].amount][i]
    BY <1>3
  <1>7. \A i \in (N \ {0}) \ D : cap[i] = 0
    OBVIOUS
  <1>8. Allocated(s) = SumFunctionOnSet(c, N)
    BY <1>1, <1>2, AllocatedByInstallment DEF Allocated
  <1>9. cap[0] = sales[s].paid
    BY <1>2
  <1>10. Scheduled(sales[s].schedule) = SumFunctionOnSet([j \in D |-> sales[s].schedule[j].amount], D)
    BY DEF Scheduled, SumFunction
  <1> DEFINE amounts == [j \in D |-> sales[s].schedule[j].amount]
             M == N \ {0}
  <1>11. Scheduled(sales[s].schedule) = SumFunctionOnSet(amounts, D) /\ \A i \in D : cap[i] = amounts[i]
    BY <1>6, <1>10
  <1>12. /\ IsFiniteSet(M) /\ D \in SUBSET M /\ IsFiniteSet(D)
         /\ \A i \in M \ D : cap[i] = 0
    <2>1. M \in SUBSET N /\ D \in SUBSET M
      BY <1>3
    <2>2. \A i \in M \ D : cap[i] = 0
      BY <1>7
    <2>3. IsFiniteSet(M)
      <3> HIDE DEF M, N
      <3> QED BY <1>2, <2>1, FS_Subset
    <2>4. IsFiniteSet(D)
      <3> HIDE DEF M, N, D
      <3> QED BY <2>1, <2>3, FS_Subset
    <2> QED BY <2>1, <2>2, <2>3, <2>4
  <1>13. sales[s].paid + Scheduled(sales[s].schedule) = Qty(s)
    BY <1>1 DEF SaleData
  <1> HIDE DEF N, D, c, cap, amounts
  <1>14. SumFunctionOnSet(c, N) <= SumFunctionOnSet(cap, N)
    <2>1. \A i \in N : c[i] \in Int /\ cap[i] \in Int /\ c[i] <= cap[i]
      BY <1>5
    <2> QED BY <1>2, <2>1, SumAtMost
  <1>15. SumFunctionOnSet(cap, N) = cap[0] + SumFunctionOnSet(cap, N \ {0})
    <2>1. \A i \in N : cap[i] \in Int
      BY <1>5
    <2> QED BY <1>2, <2>1, SumRemove
  <1>16. SumFunctionOnSet(cap, M) = SumFunctionOnSet(cap, D)
    <2>1. \A i \in D : cap[i] \in Int
      BY <1>5, <1>12
    <2> HIDE DEF M
    <2> QED BY <1>12, <2>1, SumSupport
  <1>17. SumFunctionOnSet(cap, D) = SumFunctionOnSet(amounts, D)
    BY <1>11, <1>12, SumSame
  <1>18. SumFunctionOnSet(c, N) <= Qty(s)
    <2>1. SumFunctionOnSet(cap, N) = Qty(s)
      BY <1>9, <1>11, <1>13, <1>15, <1>16, <1>17
    <2> QED BY <1>14, <2>1
  <1> QED BY <1>8, <1>18

(* However payments are collected over several sales, reversed by hand or  *)
(* by a void, and collected again, and whatever is returned in between, no *)
(* sale has more posted money allocated to it than its total and no        *)
(* installment more than its amount (installmentBalances,                  *)
(* collectCustomerPayment, reversePayment).                                *)
THEOREM NothingIsOverCollected == Spec => []NeverOverCollected
  BY InitMoney, NextMoney, PartsBoundTheSale, PTL DEF Spec

-----------------------------------------------------------------------------
(***************************************************************************)
(* The rows: who wrote them and what they are of (collectCustomerPayment,  *)
(* refunds, reversePayment, voidSale).                                     *)
(***************************************************************************)
IsReceipt(row) ==
  /\ row.ref = "PMT" /\ row.direction = "incoming" /\ row.return = 0 /\ row.reverses = 0
  /\ TotalOf(row.allocations) = row.amount

IsRefund(row) ==
  /\ row.ref = "PMT" /\ row.direction = "outgoing" /\ row.reverses = 0 /\ row.allocations = {}
  /\ row.return \in DOMAIN returns

IsReversal(row) == row.reverses # 0 /\ row.return = 0 /\ row.allocations = {}

KindsInv == \A p \in DOMAIN payments :
  IsReceipt(payments[p]) \/ IsRefund(payments[p]) \/ IsReversal(payments[p])

(* One row is the till's, if anything was paid there, and pays that sale.  *)
AtTill(p, s) == \E a \in payments[p].allocations : a.sale = s /\ a.inst = 0

TillInv ==
  /\ \A p \in DOMAIN payments, s \in Sales : AtTill(p, s) =>
       /\ sales[s].paid # 0 /\ payments[p].amount = sales[s].paid
       /\ payments[p].allocations = {[sale |-> s, inst |-> 0, amount |-> sales[s].paid]}
       /\ \A q \in DOMAIN payments : AtTill(q, s) => q = p
  /\ \A s \in Sales : sales[s].status # "none" /\ sales[s].paid # 0 => \E p \in DOMAIN payments : AtTill(p, s)

(* Posted money is on sales that stand; a row a void wrote reverses one of *)
(* a sale that was voided.                                                 *)
VoidsInv ==
  /\ \A p \in Posted : \A a \in payments[p].allocations : sales[a.sale].status # "voided"
  /\ \A q \in DOMAIN payments : payments[q].reverses # 0 /\ payments[q].ref = "-REV" =>
       \E a \in payments[payments[q].reverses].allocations : sales[a.sale].status = "voided"

StoryInv == MoneyInv /\ KindsInv /\ TillInv /\ VoidsInv

(* Every row a command adds is a receipt, a refund or a reversal, and      *)
(* stays what it is when it is marked.                                     *)
LEMMA KindsStep ==
  ASSUME PaymentsInv, KindsInv, NEW R, R \subseteq DOMAIN payments, Extends(R),
         DOMAIN returns \subseteq DOMAIN returns',
         \A q \in (Len(payments) + 1)..Len(payments') :
           \/ IsReceipt(payments'[q])
           \/ IsRefund(payments'[q])
           \/ IsReversal(payments'[q])
  PROVE  KindsInv'
  <1> DEFINE n == Len(payments)
             m == Len(payments')
  <1>1. /\ n \in Nat /\ m \in Nat /\ n <= m
        /\ DOMAIN payments = 1..n /\ DOMAIN payments' = 1..m
        /\ \A p \in 1..n : /\ payments'[p].reverses = payments[p].reverses
                           /\ payments'[p].ref = payments[p].ref
                           /\ payments'[p].amount = payments[p].amount
                           /\ payments'[p].direction = payments[p].direction
                           /\ payments'[p].return = payments[p].return
                           /\ payments'[p].allocations = payments[p].allocations
    BY RowsKept
  <1>2. ASSUME NEW p \in DOMAIN payments'
        PROVE  \/ IsReceipt(payments[p])'
               \/ IsRefund(payments[p])'
               \/ IsReversal(payments[p])'
    <2>1. CASE p \in 1..n
      <3>1. IsReceipt(payments[p]) \/ IsRefund(payments[p]) \/ IsReversal(payments[p])
        BY <1>1, <2>1 DEF KindsInv
      <3>2. IsReceipt(payments[p]) => IsReceipt(payments[p])'
        BY <1>1, <2>1 DEF IsReceipt, TotalOf
      <3>3. IsRefund(payments[p]) => IsRefund(payments[p])'
        BY <1>1, <2>1 DEF IsRefund
      <3>4. IsReversal(payments[p]) => IsReversal(payments[p])'
        BY <1>1, <2>1 DEF IsReversal
      <3> QED BY <3>1, <3>2, <3>3, <3>4
    <2>2. CASE p \in (n + 1)..m
      <3>1. IsReceipt(payments'[p]) \/ IsRefund(payments'[p]) \/ IsReversal(payments'[p])
        BY <2>2
      <3>2. IsReceipt(payments'[p]) => IsReceipt(payments[p])'
        BY DEF IsReceipt, TotalOf
      <3>3. IsRefund(payments'[p]) => IsRefund(payments[p])'
        BY DEF IsRefund
      <3>4. IsReversal(payments'[p]) => IsReversal(payments[p])'
        BY DEF IsReversal
      <3> QED BY <3>1, <3>2, <3>3, <3>4
    <2>3. p \in 1..n \/ p \in (n + 1)..m
      BY <1>1
    <2> QED BY <2>1, <2>2, <2>3
  <1> QED BY <1>2 DEF KindsInv

(* A command that adds no row of the till and pays no sale there keeps the *)
(* one till row of each sale.                                              *)
LEMMA TillStep ==
  ASSUME MoneyInv, TillInv, SalesStand, NEW R, R \subseteq DOMAIN payments, Extends(R),
         \A t \in Sales : sales'[t].status = "none" \/ sales[t].status # "none" \/ sales'[t].paid = 0,
         \A q \in (Len(payments) + 1)..Len(payments') :
           \A a \in payments'[q].allocations : a.inst # 0
  PROVE  TillInv'
  <1> DEFINE n == Len(payments)
             m == Len(payments')
  <1>1. /\ n \in Nat /\ m \in Nat /\ n <= m
        /\ DOMAIN payments = 1..n /\ DOMAIN payments' = 1..m
        /\ \A p \in 1..n : /\ payments'[p].amount = payments[p].amount
                           /\ payments'[p].allocations = payments[p].allocations
    BY RowsKept DEF MoneyInv
  <1>2. \A p \in DOMAIN payments' : \A s : AtTill(p, s)' => p \in DOMAIN payments /\ AtTill(p, s)
    <2> SUFFICES ASSUME NEW p \in DOMAIN payments', NEW s, AtTill(p, s)'
                 PROVE  p \in DOMAIN payments /\ AtTill(p, s)
      OBVIOUS
    <2>1. p \in 1..n \/ p \in (n + 1)..m
      BY <1>1
    <2>2. p \in 1..n
      BY <2>1 DEF AtTill
    <2> QED BY <1>1, <2>2 DEF AtTill
  <1>3. \A p \in DOMAIN payments : \A s : AtTill(p, s) => p \in DOMAIN payments' /\ AtTill(p, s)'
    BY <1>1 DEF AtTill
  <1>4. \A p \in DOMAIN payments : \A s : AtTill(p, s) => sales[s].status # "none"
    BY DEF AtTill, MoneyInv, RowsInv, AllocationsFit
  <1>5. ASSUME NEW p \in DOMAIN payments', NEW s \in Sales, AtTill(p, s)'
        PROVE  /\ sales'[s].paid # 0 /\ payments'[p].amount = sales'[s].paid
               /\ payments'[p].allocations = {[sale |-> s, inst |-> 0, amount |-> sales'[s].paid]}
               /\ \A q \in DOMAIN payments' : AtTill(q, s)' => q = p
    <2>1. p \in DOMAIN payments /\ AtTill(p, s)
      BY <1>2, <1>5
    <2>2. /\ sales[s].paid # 0 /\ payments[p].amount = sales[s].paid
          /\ payments[p].allocations = {[sale |-> s, inst |-> 0, amount |-> sales[s].paid]}
          /\ \A q \in DOMAIN payments : AtTill(q, s) => q = p
      BY <2>1 DEF TillInv
    <2>3. sales'[s].paid = sales[s].paid
      BY <1>4, <2>1 DEF SalesStand
    <2>4. payments'[p].amount = payments[p].amount /\ payments'[p].allocations = payments[p].allocations
      BY <1>1, <2>1
    <2> QED BY <1>2, <2>2, <2>3, <2>4
  <1>6. ASSUME NEW s \in Sales, sales'[s].status # "none", sales'[s].paid # 0
        PROVE  \E p \in DOMAIN payments' : AtTill(p, s)'
    <2>1. sales[s].status # "none"
      BY <1>6
    <2>2. sales'[s].paid = sales[s].paid
      BY <2>1 DEF SalesStand
    <2>3. PICK p \in DOMAIN payments : AtTill(p, s)
      BY <1>6, <2>1, <2>2 DEF TillInv
    <2> QED BY <1>3, <2>3
  <1> HIDE DEF n, m
  <1> QED BY <1>5, <1>6 DEF TillInv

(* A command that leaves no posted money on a sale it voids keeps voided   *)
(* sales without any.                                                      *)
LEMMA VoidsStep ==
  ASSUME MoneyInv, VoidsInv, NEW R, R \subseteq DOMAIN payments, Extends(R),
         \A t \in Sales : sales[t].status = "voided" => sales'[t].status = "voided",
         \A p \in Posted \ R : \A a \in payments[p].allocations : sales'[a.sale].status # "voided",
         \A q \in (Len(payments) + 1)..Len(payments') :
           \A a \in payments'[q].allocations : sales'[a.sale].status # "voided",
         \A q \in (Len(payments) + 1)..Len(payments') :
           payments'[q].reverses # 0 /\ payments'[q].ref = "-REV" =>
             \E a \in payments[payments'[q].reverses].allocations : sales'[a.sale].status = "voided"
  PROVE  VoidsInv'
  <1> DEFINE n == Len(payments)
             m == Len(payments')
  <1>1. /\ n \in Nat /\ m \in Nat /\ n <= m
        /\ DOMAIN payments = 1..n /\ DOMAIN payments' = 1..m
        /\ \A p \in 1..n : /\ payments'[p].reverses = payments[p].reverses
                           /\ payments'[p].ref = payments[p].ref
                           /\ payments'[p].allocations = payments[p].allocations
        /\ Posted' = (Posted \ R) \cup ((n + 1)..m)
    BY RowsKept DEF MoneyInv
  <1>2. \A p \in Posted' : \A a \in payments'[p].allocations : sales'[a.sale].status # "voided"
    <2> SUFFICES ASSUME NEW p \in Posted', NEW a \in payments'[p].allocations
                 PROVE  sales'[a.sale].status # "voided"
      OBVIOUS
    <2>1. CASE p \in Posted \ R
      BY <1>1, <2>1 DEF Posted
    <2>2. CASE p \in (n + 1)..m
      BY <2>2
    <2> QED BY <1>1, <2>1, <2>2
  <1>3. ASSUME NEW q \in DOMAIN payments', payments'[q].reverses # 0, payments'[q].ref = "-REV"
        PROVE  \E a \in payments'[payments'[q].reverses].allocations : sales'[a.sale].status = "voided"
    <2>1. CASE q \in 1..n
      <3>1. payments[q].reverses # 0 /\ payments[q].ref = "-REV" /\ q \in DOMAIN payments
        BY <1>1, <1>3, <2>1
      <3>2. payments[q].reverses \in 1..n
        <4>1. payments[q].reverses \in 0..(q - 1)
          BY <3>1 DEF MoneyInv, PaymentsInv
        <4> QED BY <1>1, <2>1, <3>1, <4>1
      <3>3. PICK a \in payments[payments[q].reverses].allocations : sales[a.sale].status = "voided"
        BY <3>1 DEF VoidsInv
      <3>4. a.sale \in Sales
        BY <1>1, <3>2 DEF MoneyInv, RowsInv, MoneyRows, MoneyRow
      <3>5. a \in payments'[payments'[q].reverses].allocations
        BY <1>1, <2>1, <3>2
      <3> QED BY <3>3, <3>4, <3>5
    <2>2. CASE q \in (n + 1)..m
      <3>1. payments'[q].reverses \in 1..n
        BY <1>1, <1>3, <2>2 DEF Extends
      <3>2. PICK a \in payments[payments'[q].reverses].allocations : sales'[a.sale].status = "voided"
        BY <1>3, <2>2
      <3>3. a \in payments'[payments'[q].reverses].allocations
        BY <1>1, <3>1
      <3> QED BY <3>2, <3>3
    <2> QED BY <1>1, <2>1, <2>2
  <1> QED BY <1>2, <1>3 DEF VoidsInv

Story == KindsInv /\ TillInv /\ VoidsInv

(* No row changes, and no sale becomes or stops being voided.              *)
LEMMA UntouchedStory ==
  ASSUME StoryInv, SalesStand, payments' = payments, DOMAIN returns \subseteq DOMAIN returns',
         \A t \in Sales : sales'[t].status = "none" \/ sales[t].status # "none" \/ sales'[t].paid = 0,
         \A t \in Sales : sales'[t].status = "voided" <=> sales[t].status = "voided"
  PROVE  Story'
  <1> DEFINE R == {}
  <1>1. Extends(R) /\ R \subseteq DOMAIN payments /\ (Len(payments) + 1)..Len(payments') = {}
    BY NoNewRows DEF StoryInv, MoneyInv
  <1>2. PaymentsInv /\ MoneyInv /\ KindsInv /\ TillInv /\ VoidsInv
    BY DEF StoryInv, MoneyInv
  <1>3. \A q \in (Len(payments) + 1)..Len(payments') : FALSE
    BY <1>1
  <1>4. \A p \in Posted \ R : \A a \in payments[p].allocations : sales'[a.sale].status # "voided"
    <2> SUFFICES ASSUME NEW p \in Posted, NEW a \in payments[p].allocations
                 PROVE  sales'[a.sale].status # "voided"
      OBVIOUS
    <2>1. a.sale \in Sales
      BY <1>2 DEF MoneyInv, RowsInv, MoneyRows, MoneyRow, Posted
    <2>2. sales[a.sale].status # "voided"
      BY <1>2 DEF VoidsInv
    <2> QED BY <2>1, <2>2
  <1> HIDE DEF R
  <1>5. KindsInv'
    BY <1>1, <1>2, <1>3, KindsStep
  <1>6. TillInv'
    BY <1>1, <1>2, <1>3, TillStep
  <1>7. VoidsInv'
    BY <1>1, <1>2, <1>3, <1>4, VoidsStep
  <1> QED BY <1>5, <1>6, <1>7 DEF Story

(* A row added while the sales stand as they did.                          *)
LEMMA RowStory ==
  ASSUME StoryInv, sales' = sales, today' \in Nat, returns' = returns,
         NEW R, R \subseteq DOMAIN payments, Extends(R),
         \A q \in (Len(payments) + 1)..Len(payments') :
           /\ IsReceipt(payments'[q]) \/ IsRefund(payments'[q]) \/ IsReversal(payments'[q])
           /\ \A a \in payments'[q].allocations : a.inst # 0 /\ sales[a.sale].status # "voided"
           /\ payments'[q].reverses # 0 => payments'[q].ref # "-REV"
  PROVE  Story'
  <1>1. PaymentsInv /\ MoneyInv /\ KindsInv /\ TillInv /\ VoidsInv
    BY DEF StoryInv, MoneyInv
  <1>2. SalesStand
    BY <1>1, SameSalesMoney
  <1>3. KindsInv'
    BY <1>1, KindsStep
  <1>4. TillInv'
    BY <1>1, <1>2, TillStep
  <1>5. VoidsInv'
    <2>1. \A p \in Posted \ R : \A a \in payments[p].allocations : sales'[a.sale].status # "voided"
      BY <1>1 DEF VoidsInv
    <2> QED BY <1>1, <2>1, VoidsStep
  <1> QED BY <1>3, <1>4, <1>5 DEF Story

(* postSale writes the one till row of the sale, if anything is paid.      *)
LEMMA PostSaleStory ==
  ASSUME StoryInv, NEW s \in Sales, NEW U \in SUBSET Units, NEW paid \in 0..Cardinality(U), NEW h,
         PostSale(s, U, paid, h)
  PROVE  Story'
  <1>1. PaymentsInv /\ MoneyInv /\ KindsInv /\ TillInv /\ VoidsInv
    BY DEF StoryInv, MoneyInv
  <1>2. /\ SalesStand /\ sales[s].status = "none"
        /\ \A t \in Sales \ {s} : sales'[t] = sales[t]
        /\ sales'[s].status = "completed" /\ sales'[s].units = U /\ sales'[s].paid = paid
    BY <1>1, PostSaleData DEF MoneyInv
  <1>3. returns' = returns
    BY DEF PostSale
  <1>4. \A t \in Sales : sales'[t].status = "voided" <=> sales[t].status = "voided"
    BY <1>2
  <1>5. CASE paid = 0
    <2>1. payments' = payments
      BY <1>5 DEF PostSale
    <2>2. \A t \in Sales : sales'[t].status = "none" \/ sales[t].status # "none" \/ sales'[t].paid = 0
      BY <1>2, <1>5
    <2> QED BY <1>2, <1>3, <1>4, <2>1, <2>2, UntouchedStory
  <1>6. CASE paid # 0
    <2> DEFINE a0 == [sale |-> s, inst |-> 0, amount |-> paid]
               row == Receipt(paid, h, {a0})
               R == {}
    <2>k. PICK k \in Nat : k = Len(payments) + 1
      BY <1>1, PostedIsFinite
    <2>0. paid \in Nat
      <3>1. IsFiniteSet(U)
        BY SaleAssumption, FS_Subset
      <3> QED BY <3>1, FS_CardinalityType
    <2>1. payments' = Append(payments, row)
      BY <1>6 DEF PostSale
    <2>2. /\ IsRow(row) /\ row.status = "posted" /\ row.reverses = 0 /\ row.allocations = {a0}
          /\ row.amount = paid /\ row.ref = "PMT" /\ row.direction = "incoming" /\ row.return = 0
      BY DEF Receipt, IsRow, Fields
    <2>3. IsReceipt(row)
      <3>1. TotalOf({a0}) = a0.amount
        <4>1. a0.amount \in Int
          BY <2>0
        <4> HIDE DEF a0
        <4> QED BY <4>1, TotalOfOne
      <3> QED BY <2>2, <3>1 DEF IsReceipt
    <2>4. a0.sale = s /\ a0.inst = 0
      OBVIOUS
    <2> HIDE DEF row
    <2>5. Extends(R) /\ Len(payments') = k /\ payments'[k] = row /\ R \subseteq DOMAIN payments
      BY <1>1, <2>k, <2>1, <2>2, AppendedRow
    <2>6. \A q \in (Len(payments) + 1)..Len(payments') : payments'[q] = row
      BY <1>1, <2>k, <2>5, PostedIsFinite
    <2>7. KindsInv'
      <3> HIDE DEF R, a0
      <3> QED BY <1>1, <1>3, <2>3, <2>5, <2>6, KindsStep
    <2>8. VoidsInv'
      <3>1. \A p \in Posted \ R : \A a \in payments[p].allocations : sales'[a.sale].status # "voided"
        <4> SUFFICES ASSUME NEW p \in Posted, NEW a \in payments[p].allocations
                     PROVE  sales'[a.sale].status # "voided"
          OBVIOUS
        <4>1. a.sale \in Sales
          BY <1>1 DEF MoneyInv, RowsInv, MoneyRows, MoneyRow, Posted
        <4>2. sales[a.sale].status # "voided"
          BY <1>1 DEF VoidsInv
        <4> QED BY <1>4, <4>1, <4>2
      <3>2. \A a \in row.allocations : sales'[a.sale].status # "voided"
        BY <1>2, <2>2, <2>4
      <3> HIDE DEF R, a0
      <3> QED BY <1>1, <1>4, <2>2, <2>5, <2>6, <3>1, <3>2, VoidsStep
    <2>9. TillInv'
      <3> DEFINE n == Len(payments)
      <3>1. /\ n \in Nat /\ DOMAIN payments = 1..n /\ DOMAIN payments' = 1..k
            /\ \A p \in 1..n : /\ payments'[p].amount = payments[p].amount
                               /\ payments'[p].allocations = payments[p].allocations
        BY <1>1, <2>5, RowsKept
      <3>1a. k = n + 1
        BY <2>k
      <3>2. \A p \in DOMAIN payments' : p = k \/ p \in DOMAIN payments
        BY <3>1, <3>1a
      <3>2a. k \in DOMAIN payments' /\ DOMAIN payments \subseteq DOMAIN payments'
        BY <3>1, <3>1a
      <3> HIDE DEF a0
      <3>3. \A p \in DOMAIN payments : \A t : AtTill(p, t) <=> AtTill(p, t)'
        BY <3>1 DEF AtTill
      <3>4. \A t : AtTill(k, t)' <=> t = s
        BY <2>2, <2>4, <2>5 DEF AtTill
      <3>5. \A p \in DOMAIN payments : ~AtTill(p, s)
        BY <1>1, <1>2 DEF AtTill, MoneyInv, RowsInv, AllocationsFit
      <3>6. ASSUME NEW p \in DOMAIN payments', NEW t \in Sales, AtTill(p, t)'
            PROVE  /\ sales'[t].paid # 0 /\ payments'[p].amount = sales'[t].paid
                   /\ payments'[p].allocations = {[sale |-> t, inst |-> 0, amount |-> sales'[t].paid]}
                   /\ \A q \in DOMAIN payments' : AtTill(q, t)' => q = p
        <4>1. CASE p = k
          <5>1. t = s
            BY <3>4, <3>6, <4>1
          <5> QED BY <1>2, <1>6, <2>2, <2>5, <3>2, <3>3, <3>5, <4>1, <5>1 DEF a0
        <4>2. CASE p # k
          <5>1. p \in DOMAIN payments /\ AtTill(p, t)
            BY <3>2, <3>3, <3>6, <4>2
          <5>2. t # s
            BY <3>5, <5>1
          <5>3. /\ sales[t].paid # 0 /\ payments[p].amount = sales[t].paid
                /\ payments[p].allocations = {[sale |-> t, inst |-> 0, amount |-> sales[t].paid]}
                /\ \A q \in DOMAIN payments : AtTill(q, t) => q = p
            BY <1>1, <5>1 DEF TillInv
          <5>4. payments'[p].amount = payments[p].amount /\ payments'[p].allocations = payments[p].allocations
            BY <3>1, <5>1
          <5>5. \A q \in DOMAIN payments' : AtTill(q, t)' => q = p
            BY <3>2, <3>3, <3>4, <5>2, <5>3
          <5> QED BY <1>2, <5>2, <5>3, <5>4, <5>5
        <4> QED BY <4>1, <4>2
      <3>7. ASSUME NEW t \in Sales, sales'[t].status # "none", sales'[t].paid # 0
            PROVE  \E p \in DOMAIN payments' : AtTill(p, t)'
        <4>1. CASE t = s
          BY <3>2a, <3>4, <4>1
        <4>2. CASE t # s
          <5>1. PICK p \in DOMAIN payments : AtTill(p, t)
            BY <1>1, <1>2, <3>7, <4>2 DEF TillInv
          <5> QED BY <3>2a, <3>3, <5>1
        <4> QED BY <4>1, <4>2
      <3> QED BY <3>6, <3>7 DEF TillInv
    <2> QED BY <2>7, <2>8, <2>9 DEF Story
  <1> QED BY <1>5, <1>6

(* collectCustomerPayment writes a receipt, all of it for installments of  *)
(* open sales.                                                             *)
LEMMA CollectionStory ==
  ASSUME StoryInv, NEW S \in SUBSET Sales, NEW h, CollectCustomerPayment(S, h)
  PROVE  Story'
  <1>0. PaymentsInv /\ SalesInv /\ ReturnsInv /\ MoneyRows
    BY DEF StoryInv, MoneyInv, RowsInv
  <1>1. PICK amount, A :
           /\ amount \in Nat \ {0}
           /\ payments' = Append(payments, Receipt(amount, h, A))
           /\ TotalOf(A) = amount
           /\ \A a \in A : /\ a.sale \in Sales /\ a.inst \in 1..MaxInstallments
                           /\ sales[a.sale].status \in OpenSaleStatuses
    BY <1>0, CollectionRow
  <1> DEFINE row == Receipt(amount, h, A)
  <1>2. /\ IsRow(row) /\ row.status = "posted" /\ row.reverses = 0 /\ row.allocations = A
        /\ IsReceipt(row)
    BY <1>1 DEF Receipt, IsRow, Fields, IsReceipt
  <1>3. payments' = Append(payments, row)
    BY <1>1
  <1> HIDE DEF row
  <1> DEFINE R == {}
  <1>4. Extends(R) /\ Len(payments') = Len(payments) + 1 /\ payments'[Len(payments) + 1] = row
        /\ R \subseteq DOMAIN payments
    BY <1>0, <1>2, <1>3, AppendedRow
  <1>5. \A q \in (Len(payments) + 1)..Len(payments') : payments'[q] = row
    BY <1>0, <1>4, PostedIsFinite
  <1>6. \A a \in A : a.inst # 0 /\ sales[a.sale].status # "voided"
    BY <1>1 DEF OpenSaleStatuses
  <1>7. sales' = sales /\ returns' = returns /\ today' \in Nat
    BY <1>0 DEF CollectCustomerPayment, SalesInv
  <1> HIDE DEF R
  <1> QED BY <1>2, <1>4, <1>5, <1>6, <1>7, RowStory

(* A refund is an outgoing row for a return that was made.                 *)
LEMMA RefundStory ==
  ASSUME StoryInv, NEW r \in DOMAIN returns, NEW amount, NEW h, RefundReturn(r, amount, h)
  PROVE  Story'
  <1> DEFINE row == [Receipt(amount, h, {}) EXCEPT !.direction = "outgoing", !.return = r]
             R == {}
  <1>1. payments' = Append(payments, row)
    BY DEF RefundReturn
  <1>2. /\ IsRow(row) /\ row.status = "posted" /\ row.reverses = 0 /\ row.allocations = {}
        /\ IsRefund(row)
    BY DEF Receipt, IsRow, Fields, IsRefund
  <1> HIDE DEF row
  <1>3. Extends(R) /\ Len(payments') = Len(payments) + 1 /\ payments'[Len(payments) + 1] = row
        /\ R \subseteq DOMAIN payments
    BY <1>1, <1>2, AppendedRow DEF StoryInv, MoneyInv
  <1>4. \A q \in (Len(payments) + 1)..Len(payments') : payments'[q] = row
    BY <1>3, PostedIsFinite DEF StoryInv, MoneyInv
  <1>5. sales' = sales /\ returns' = returns /\ today' \in Nat
    BY DEF RefundReturn, StoryInv, MoneyInv, SalesInv
  <1> HIDE DEF R
  <1> QED BY <1>2, <1>3, <1>4, <1>5, RowStory

(* The row that reverses another is a reversal, of that row, numbered by   *)
(* who wrote it.                                                           *)
LEMMA ReversalIsReversal ==
  ASSUME PaymentsInv, NEW p \in DOMAIN payments, NEW ref, NEW shift
  PROVE  /\ IsReversal(Reversal(p, ref, shift))
         /\ Reversal(p, ref, shift).ref = ref /\ Reversal(p, ref, shift).reverses = p
         /\ Reversal(p, ref, shift).allocations = {}
  <1>1. p # 0
    BY PostedIsFinite
  <1> QED BY <1>1 DEF Reversal, IsReversal

(* reversePayment marks one row and adds its reversal.                     *)
LEMMA ReversalStory ==
  ASSUME StoryInv, NEW p \in DOMAIN payments, ReversePayment(p)
  PROVE  Story'
  <1> DEFINE row == Reversal(p, "PMT-REV", payments[p].shift)
             R == {p}
  <1>0. PaymentsInv
    BY DEF StoryInv, MoneyInv
  <1>1. Extends(R) /\ R \subseteq DOMAIN payments /\ Len(payments') = Len(payments) + 1
        /\ payments'[Len(payments) + 1] = row
    BY <1>0, ReversalExtends
  <1>2. IsReversal(row) /\ row.ref # "-REV" /\ row.allocations = {}
    BY <1>0, ReversalIsReversal
  <1> HIDE DEF row, R
  <1>3. \A q \in (Len(payments) + 1)..Len(payments') : payments'[q] = row
    BY <1>0, <1>1, PostedIsFinite
  <1>4. sales' = sales /\ returns' = returns /\ today' \in Nat
    BY DEF ReversePayment, StoryInv, MoneyInv, SalesInv
  <1> QED BY <1>1, <1>2, <1>3, <1>4, RowStory

(* voidSale leaves no posted row with money for the sale: every one it     *)
(* finds is marked, whatever it was collected for.                         *)
LEMMA VoidStory ==
  ASSUME StoryInv, NEW s \in Sales, VoidSale(s)
  PROVE  Story'
  <1> DEFINE R == ToReverse(s)
  <1>0. PaymentsInv /\ MoneyInv /\ KindsInv /\ TillInv /\ VoidsInv /\ GoodsInv
    BY DEF StoryInv, MoneyInv
  <1>1. /\ Extends(R) /\ R \subseteq Posted
        /\ \A q \in (Len(payments) + 1)..Len(payments') :
             \E p \in R : payments'[q] = Reversal(p, "-REV", None)
    BY <1>0, VoidExtends
  <1>2. /\ \A t \in Sales \ {s} : sales'[t] = sales[t]
        /\ sales'[s].status = "voided" /\ sales[s].status = "completed" /\ returns' = returns
    <2>1. sales' = [sales EXCEPT ![s].status = "voided"]
      BY DEF VoidSale
    <2> QED BY <1>0, <2>1, StatusOfSale DEF VoidSale
  <1>3. SalesStand
    <2>1. sales' = [sales EXCEPT ![s].status = "voided"] /\ today' = today
      BY DEF VoidSale
    <2> QED BY <1>0, <2>1, StatusMoney DEF Statuses
  <1>4. \A p \in R : \E a \in payments[p].allocations : a.sale = s
    BY DEF ToReverse, PaidFor
  <1>5. \A p \in Posted \ R : \A a \in payments[p].allocations : a.sale \in Sales \ {s}
    BY <1>0 DEF ToReverse, PaidFor, Posted, MoneyInv, RowsInv, MoneyRows, MoneyRow
  <1> HIDE DEF R
  <1>6. R \subseteq DOMAIN payments
    BY <1>1 DEF Posted
  <1>7. \A q \in (Len(payments) + 1)..Len(payments') :
          /\ IsReversal(payments'[q]) /\ payments'[q].ref = "-REV" /\ payments'[q].allocations = {}
          /\ payments'[q].reverses \in R
    BY <1>0, <1>1, <1>6, ReversalIsReversal
  <1>8. KindsInv'
    BY <1>0, <1>1, <1>2, <1>6, <1>7, KindsStep
  <1>9. TillInv'
    <2>1. \A t \in Sales : sales'[t].status = "none" \/ sales[t].status # "none" \/ sales'[t].paid = 0
      BY <1>2
    <2> QED BY <1>0, <1>1, <1>3, <1>6, <1>7, <2>1, TillStep
  <1>10. VoidsInv'
    <2>1. \A t \in Sales : sales[t].status = "voided" => sales'[t].status = "voided"
      BY <1>2
    <2>2. \A p \in Posted \ R : \A a \in payments[p].allocations : sales'[a.sale].status # "voided"
      BY <1>0, <1>2, <1>5 DEF VoidsInv
    <2>3. \A q \in (Len(payments) + 1)..Len(payments') :
            \E a \in payments[payments'[q].reverses].allocations : sales'[a.sale].status = "voided"
      BY <1>2, <1>4, <1>7
    <2> QED BY <1>0, <1>1, <1>6, <1>7, <2>1, <2>2, <2>3, VoidsStep
  <1> QED BY <1>8, <1>9, <1>10 DEF Story

(* postSaleReturn changes no row, and voids no sale.                       *)
LEMMA ReturnStory ==
  ASSUME StoryInv, NEW s \in Sales, NEW V, NEW c, NEW d, PostSaleReturn(s, V, c, d)
  PROVE  Story'
  <1>0. MoneyInv /\ GoodsInv /\ ReturnsInv
    BY DEF StoryInv, MoneyInv
  <1>1. PICK status \in {"returned", "partially_returned"} :
            sales' = [sales EXCEPT ![s].status = status] /\ today' = today
    BY DEF PostSaleReturn
  <1>2. SalesStand
    BY <1>0, <1>1, StatusMoney DEF Statuses
  <1>3. /\ \A t \in Sales \ {s} : sales'[t] = sales[t]
        /\ sales'[s].status = status /\ sales[s].status \in OpenSaleStatuses
    BY <1>0, <1>1, StatusOfSale DEF PostSaleReturn
  <1>4. DOMAIN returns \subseteq DOMAIN returns'
    <2> DEFINE row == [sale |-> s, units |-> V, costBack |-> d # "scrap"]
    <2>1. returns' = Append(returns, row) /\ IsSequence(returns)
      BY <1>0 DEF PostSaleReturn, ReturnsInv
    <2> HIDE DEF row
    <2>2. Len(returns') = Len(returns) + 1 /\ IsSequence(returns')
      BY <2>1, AppendToSequence
    <2> QED BY <2>1, <2>2 DEF IsSequence
  <1>5. payments' = payments
    BY DEF PostSaleReturn
  <1>6. /\ \A t \in Sales : sales'[t].status = "none" \/ sales[t].status # "none" \/ sales'[t].paid = 0
        /\ \A t \in Sales : sales'[t].status = "voided" <=> sales[t].status = "voided"
    BY <1>1, <1>3 DEF OpenSaleStatuses
  <1> QED BY <1>2, <1>4, <1>5, <1>6, UntouchedStory

(* Every command keeps the rows telling one story.                         *)
LEMMA NextStory == ASSUME StoryInv, [Next]_vars PROVE StoryInv'
  <1>1. MoneyInv'
    BY NextMoney DEF StoryInv
  <1> SUFFICES Story'
    BY <1>1 DEF StoryInv, Story
  <1>2. CASE \E s \in Sales, U \in (SUBSET Units) \ {{}}, h \in ShiftOrNone :
               \E paid \in 0..Cardinality(U) : PostSale(s, U, paid, h)
    BY <1>2, PostSaleStory
  <1>3. CASE \E S \in SUBSET Sales, h \in ShiftOrNone : CollectCustomerPayment(S, h)
    BY <1>3, CollectionStory
  <1>4. CASE \E s \in Sales : \E V \in SUBSET sales[s].units, c \in Conditions, d \in Dispositions :
               PostSaleReturn(s, V, c, d)
    BY <1>4, ReturnStory
  <1>5. CASE \E r \in DOMAIN returns : \E amount \in 1..Credit(r), h \in ShiftOrNone : RefundReturn(r, amount, h)
    BY <1>5, RefundStory
  <1>6. CASE \E p \in DOMAIN payments : ReversePayment(p)
    BY <1>6, ReversalStory
  <1>7. CASE \E s \in Sales : VoidSale(s)
    BY <1>7, VoidStory
  <1>8. CASE \/ \E h \in Shifts : OpenCashierShift(h)
             \/ \E h \in Shifts :
                  \E counted \in Nat \cap ((NetCash(h) - MaxVariance)..(NetCash(h) + MaxVariance)) :
                    CloseCashierShift(h, counted)
             \/ Tomorrow
             \/ UNCHANGED vars
    <2>1. sales' = sales /\ payments' = payments /\ returns' = returns
      BY <1>8 DEF OpenCashierShift, CloseCashierShift, Tomorrow, vars
    <2>2. today' = today \/ today' = today + 1
      BY <1>8 DEF OpenCashierShift, CloseCashierShift, Tomorrow, vars
    <2>3. SalesStand
      <3>1. MoneyInv /\ today' \in Nat
        BY <2>2, TodayNat DEF StoryInv
      <3> QED BY <2>1, <3>1, SameSalesMoney
    <2>4. /\ \A t \in Sales : sales'[t].status = "none" \/ sales[t].status # "none" \/ sales'[t].paid = 0
          /\ \A t \in Sales : sales'[t].status = "voided" <=> sales[t].status = "voided"
      BY <2>1
    <2> QED BY <2>1, <2>3, <2>4, UntouchedStory
  <1> QED BY <1>2, <1>3, <1>4, <1>5, <1>6, <1>7, <1>8 DEF Next

(* It holds before the first sale.                                         *)
LEMMA InitStory == Init => StoryInv
  <1> SUFFICES ASSUME Init PROVE StoryInv
    OBVIOUS
  <1>1. MoneyInv
    BY InitMoney
  <1>2. DOMAIN payments = {} /\ \A s \in Sales : sales[s].status = "none"
    BY EmptySequence DEF Init, NoSale
  <1> QED BY <1>1, <1>2 DEF StoryInv, KindsInv, TillInv, VoidsInv, Posted

(* Nothing is left on a voided sale.                                       *)
LEMMA StoryEmptiesVoids == StoryInv => VoidedSaleIsEmpty
  <1> SUFFICES ASSUME StoryInv, NEW s \in Sales, sales[s].status = "voided"
               PROVE  /\ PaidFor(s) \cap Posted = {}
                      /\ ReturnsOf(s) = {}
                      /\ \A u \in Units : serials[u].soldTo # s
    BY DEF VoidedSaleIsEmpty
  <1>1. PaidFor(s) \cap Posted = {}
    BY DEF StoryInv, VoidsInv, PaidFor
  <1>2. ReturnsOf(s) = {} /\ \A u \in Units : serials[u].soldTo # s
    BY DEF StoryInv, MoneyInv, GoodsInv, ReturnsShow, SerialsAreOwned, ReturnsOf
  <1> QED BY <1>1, <1>2

(* After a void, and for good, no payment still posted is allocated to the *)
(* sale, no return was or will be made against it and no serial number     *)
(* says it was sold by it, also when one collection paid several sales or  *)
(* a payment was reversed before (voidSale).                               *)
THEOREM VoidKeepsNothing == Spec => []VoidedSaleIsEmpty
  BY InitStory, NextStory, StoryEmptiesVoids, PTL DEF Spec

-----------------------------------------------------------------------------
(***************************************************************************)
(* The ledger: revenue and cost against the sales that stand and their     *)
(* returns (postJournalEntry, reverseJournalEntry).                        *)
(***************************************************************************)
GlInv == gl \in [Accounts -> Int]

SoldQty == SumFunction([s \in Live |-> Qty(s)])

CostBack == {r \in DOMAIN returns : returns[r].costBack}

(* An entry adds to each account it names and leaves the others            *)
(* (postJournalEntry).                                                     *)
LEMMA PostingAdds ==
  ASSUME GlInv, NEW d, \A a \in DOMAIN d : d[a] \in Int, gl' = Posting(d)
  PROVE  GlInv' /\ \A a \in Accounts : gl'[a] = IF a \in DOMAIN d THEN gl[a] + d[a] ELSE gl[a]
  BY DEF GlInv, Posting

(* The sales that stand are finitely many.                                 *)
LEMMA LiveIsFinite == IsFiniteSet(Live) /\ Live \subseteq Sales
  <1>1. Live \in SUBSET Sales
    BY DEF Live
  <1> QED BY <1>1, SalesFinite, FS_Subset

(* Every sale has a number of units.                                       *)
LEMMA LiveQty == ASSUME SalesInv PROVE \A s \in Sales : Qty(s) \in Nat
  BY QtyNat DEF SalesInv, SaleData

(* What the standing sales sold is a number.                               *)
LEMMA SoldInt == ASSUME SalesInv PROVE SoldQty \in Int
  <1> DEFINE q == [s \in Live |-> Qty(s)]
  <1>1. \A s \in Live : q[s] \in Int
    BY LiveQty, LiveIsFinite
  <1>2. SoldQty = SumFunctionOnSet(q, Live)
    BY DEF SoldQty, SumFunction
  <1> HIDE DEF q
  <1> QED BY <1>1, <1>2, LiveIsFinite, SumInt

(* While the same sales stand they sold the same.                          *)
LEMMA SoldSame ==
  ASSUME Live' = Live, \A s \in Live : sales'[s].units = sales[s].units
  PROVE  SoldQty' = SoldQty
  <1>1. [s \in Live' |-> Cardinality(sales'[s].units)] = [s \in Live |-> Cardinality(sales[s].units)]
    OBVIOUS
  <1> QED BY <1>1 DEF SoldQty, Qty

(* A sale posted adds its quantity to what was sold.                       *)
LEMMA SoldMore ==
  ASSUME SalesInv, SalesInv', NEW s \in Sales \ Live, Live' = Live \cup {s},
         \A t \in Live : sales'[t].units = sales[t].units
  PROVE  SoldQty' = SoldQty + Cardinality(sales'[s].units)
  <1> DEFINE q == [t \in Live |-> Qty(t)]
  <1>1. PICK w : \A t \in Live' : w[t] = Cardinality(sales'[t].units)
    <2> WITNESS [t \in Live' |-> Cardinality(sales'[t].units)]
    <2> QED OBVIOUS
  <1>2. \A t \in Live' : w[t] \in Int
    <2> SUFFICES ASSUME NEW t \in Live' PROVE w[t] \in Int
      OBVIOUS
    <2>1. t \in Sales
      BY DEF Live
    <2>2. sales'[t].units \in SUBSET Units
      BY <2>1 DEF SalesInv, SaleData
    <2>3. Cardinality(sales'[t].units) \in Nat
      BY <2>2, SaleAssumption, FS_Subset, FS_CardinalityType
    <2> QED BY <1>1, <2>3
  <1>3. SoldQty = SumFunctionOnSet(q, Live) /\ \A t \in Live : w[t] = q[t]
    BY <1>1 DEF SoldQty, SumFunction, Qty
  <1>4. SoldQty' = SumFunctionOnSet(w, Live')
    <2> DEFINE v == [t \in Live' |-> Cardinality(sales'[t].units)]
    <2>1. SoldQty' = SumFunctionOnSet(v, Live')
      BY DEF SoldQty, SumFunction, Qty
    <2>2. \A t \in Live' : v[t] = w[t]
      BY <1>1
    <2>3. IsFiniteSet(Live')
      BY LiveIsFinite, FS_AddElement
    <2> HIDE DEF v
    <2> QED BY <2>1, <2>2, <2>3, SumSame
  <1> HIDE DEF q
  <1>5. SoldQty = SumFunctionOnSet(w, Live)
    BY <1>3, LiveIsFinite, SumSame
  <1>6. SumFunctionOnSet(w, Live \cup {s}) = w[s] + SumFunctionOnSet(w, Live)
    BY <1>2, LiveIsFinite, SumAdd
  <1>7. w[s] = Cardinality(sales'[s].units) /\ w[s] \in Int
    BY <1>1, <1>2
  <1>8. SoldQty \in Int
    BY SoldInt
  <1>9. SoldQty' = w[s] + SoldQty
    BY <1>4, <1>5, <1>6
  <1> QED BY <1>7, <1>8, <1>9

(* A sale voided takes its quantity with it.                               *)
LEMMA SoldLess ==
  ASSUME SalesInv, SalesInv', NEW s \in Live, Live' = Live \ {s},
         \A t \in Live : sales'[t].units = sales[t].units
  PROVE  SoldQty' = SoldQty - Qty(s)
  <1> DEFINE q == [t \in Live |-> Qty(t)]
             L == Live \ {s}
             v == [t \in L |-> Cardinality(sales'[t].units)]
  <1>1. SoldQty = SumFunctionOnSet(q, Live)
    BY DEF SoldQty, SumFunction
  <1>2. SoldQty' = SumFunctionOnSet(v, L)
    BY DEF SoldQty, SumFunction, Qty
  <1>3. \A t \in L : v[t] = q[t]
    BY DEF Qty
  <1>4. IsFiniteSet(L)
    BY LiveIsFinite, FS_RemoveElement
  <1>5. \A t \in Live : q[t] \in Int
    BY LiveQty, LiveIsFinite
  <1>6. q[s] = Qty(s)
    OBVIOUS
  <1> HIDE DEF q, v
  <1>7. SumFunctionOnSet(v, L) = SumFunctionOnSet(q, L)
    <2> HIDE DEF L
    <2> QED BY <1>3, <1>4, SumSame
  <1>8. SumFunctionOnSet(q, Live) = q[s] + SumFunctionOnSet(q, Live \ {s})
    BY <1>5, LiveIsFinite, SumRemove
  <1>9. SumFunctionOnSet(q, L) \in Int
    <2>1. \A t \in L : q[t] \in Int
      BY <1>5
    <2> HIDE DEF L
    <2> QED BY <1>4, <2>1, SumInt
  <1>10. SumFunctionOnSet(q, Live) = q[s] + SumFunctionOnSet(q, L)
    BY <1>8
  <1>11. q[s] \in Int
    BY <1>5
  <1> HIDE DEF L
  <1> QED BY <1>1, <1>2, <1>6, <1>7, <1>9, <1>10, <1>11
-----------------------------------------------------------------------------
(* What one more return credits.                                           *)
LEMMA CreditAdded ==
  ASSUME ReturnsInv, ReturnsInv', NEW row, returns' = Append(returns, row),
         NEW R \in SUBSET DOMAIN returns, NEW k \in Nat, k = Len(returns) + 1
  PROVE  /\ CreditOf(R)' = CreditOf(R) /\ CreditOf(R) \in Int
         /\ CreditOf(R \cup {k})' = CreditOf(R) + Cardinality(row.units)
         /\ Cardinality(row.units) \in Nat
  <1>1. /\ Len(returns') = k /\ returns'[k] = row
        /\ \A r \in DOMAIN returns : returns'[r] = returns[r]
        /\ k \notin DOMAIN returns /\ k \in DOMAIN returns' /\ DOMAIN returns \subseteq DOMAIN returns'
    <2>1. IsSequence(returns) /\ IsSequence(returns') /\ DOMAIN returns = 1..Len(returns) /\ Len(returns) \in Nat
      BY DEF ReturnsInv, IsSequence
    <2>2. /\ Len(returns') = Len(returns) + 1 /\ returns'[Len(returns) + 1] = row
          /\ \A r \in 1..Len(returns) : returns'[r] = returns[r]
      BY <2>1, AppendToSequence
    <2>3. DOMAIN returns' = 1..Len(returns')
      BY <2>1 DEF IsSequence
    <2> QED BY <2>1, <2>2, <2>3
  <1>2. PICK w : \A r \in DOMAIN returns' : w[r] = Cardinality(returns'[r].units)
    <2> WITNESS [r \in DOMAIN returns' |-> Cardinality(returns'[r].units)]
    <2> QED OBVIOUS
  <1>3. \A r \in DOMAIN returns' : Cardinality(returns'[r].units) \in Nat
    <2> SUFFICES ASSUME NEW r \in DOMAIN returns' PROVE Cardinality(returns'[r].units) \in Nat
      OBVIOUS
    <2>1. returns'[r].units \in SUBSET Units
      BY DEF ReturnsInv
    <2> QED BY <2>1, SaleAssumption, FS_Subset, FS_CardinalityType
  <1>4. IsFiniteSet(R) /\ k \notin R
    BY <1>1, ReturnsFinite, FS_Subset
  <1>5. ASSUME NEW T \in SUBSET DOMAIN returns', IsFiniteSet(T)
        PROVE  CreditOf(T)' = SumFunctionOnSet(w, T)
    <2> DEFINE v == [r \in T |-> Cardinality(returns'[r].units)]
    <2>1. CreditOf(T)' = SumFunctionOnSet(v, T)
      BY DEF CreditOf, Credit, SumFunction
    <2>2. \A r \in T : v[r] = w[r]
      BY <1>2
    <2> HIDE DEF v
    <2> QED BY <1>5, <2>1, <2>2, SumSame
  <1>6. CreditOf(R) = SumFunctionOnSet(w, R)
    <2> DEFINE v == [r \in R |-> Credit(r)]
    <2>1. CreditOf(R) = SumFunctionOnSet(v, R)
      BY DEF CreditOf, SumFunction
    <2>2. \A r \in R : v[r] = w[r]
      BY <1>1, <1>2 DEF Credit
    <2> HIDE DEF v
    <2> QED BY <1>4, <2>1, <2>2, SumSame
  <1>7. CreditOf(R)' = SumFunctionOnSet(w, R)
    BY <1>1, <1>4, <1>5
  <1> DEFINE T == R \cup {k}
  <1>8. CreditOf(T)' = SumFunctionOnSet(w, T)
    <2>1. T \in SUBSET DOMAIN returns' /\ IsFiniteSet(T)
      BY <1>1, <1>4, FS_AddElement
    <2> HIDE DEF T
    <2> QED BY <1>5, <2>1
  <1>9. SumFunctionOnSet(w, R \cup {k}) = w[k] + SumFunctionOnSet(w, R)
    <2>1. \A r \in R \cup {k} : w[r] \in Int
      BY <1>1, <1>2, <1>3
    <2> QED BY <1>4, <2>1, SumAdd
  <1>10. w[k] = Cardinality(row.units) /\ w[k] \in Nat
    BY <1>1, <1>2, <1>3
  <1>11. CreditOf(R) \in Int
    BY CreditNat
  <1>12. CreditOf(T)' = w[k] + CreditOf(R)
    BY <1>6, <1>8, <1>9
  <1> QED BY <1>6, <1>7, <1>10, <1>11, <1>12 DEF T

LedgerInv ==
  /\ GlInv
  /\ gl["revenue"] = - (SoldQty - CreditOf(DOMAIN returns))
  /\ gl["cogs"] = SoldQty - CreditOf(CostBack)
  /\ gl["inventory"] = - gl["cogs"]

(* The invariant says what LedgerFollowsSales says.                        *)
LEMMA LedgerInvIsEnough == LedgerInv => LedgerFollowsSales
  BY DEF LedgerInv, LedgerFollowsSales, SoldQty, CostBack

(* What all the returns credit is a number, and so is what those do whose  *)
(* cost comes back.                                                        *)
LEMMA CreditsInt ==
  ASSUME ReturnsInv PROVE CreditOf(DOMAIN returns) \in Int /\ CreditOf(CostBack) \in Int
  <1>1. CostBack \in SUBSET DOMAIN returns
    BY DEF CostBack
  <1> QED BY <1>1, CreditNat

(* A command that leaves the returns leaves what they credit.              *)
LEMMA SameCredits ==
  ASSUME returns' = returns
  PROVE  /\ (CreditOf(DOMAIN returns))' = CreditOf(DOMAIN returns)
         /\ (CreditOf(CostBack))' = CreditOf(CostBack)
  BY DEF CreditOf, Credit, CostBack

(* A row moves an amount of cash, in or out.                               *)
LEMMA CashEffectInt ==
  ASSUME RowsInv, NEW p \in DOMAIN payments PROVE CashEffect(p) \in Int
  BY DEF RowsInv, MoneyRows, MoneyRow, CashEffect

(* Some rows move an amount of cash.                                       *)
LEMMA CashInt ==
  ASSUME PaymentsInv, RowsInv, NEW P \in SUBSET DOMAIN payments PROVE CashOf(P) \in Int
  <1> DEFINE f == [p \in P |-> CashEffect(p)]
  <1>1. \A p \in P : f[p] \in Int
    BY CashEffectInt
  <1>2. IsFiniteSet(P)
    BY PostedIsFinite, FS_Subset
  <1>3. CashOf(P) = SumFunctionOnSet(f, P)
    BY DEF CashOf, SumFunction
  <1> HIDE DEF f
  <1> QED BY <1>1, <1>2, <1>3, SumInt

(* Commands that only move cash and receivable leave revenue, cost and     *)
(* inventory.                                                              *)
LEMMA MoneyEntries ==
  ASSUME MoneyInv, LedgerInv, sales' = sales, returns' = returns,
         NEW d, DOMAIN d \cap {"revenue", "cogs", "inventory"} = {}, \A a \in DOMAIN d : d[a] \in Int,
         gl' = Posting(d)
  PROVE  LedgerInv'
  <1>1. GlInv' /\ \A a \in Accounts : gl'[a] = IF a \in DOMAIN d THEN gl[a] + d[a] ELSE gl[a]
    BY PostingAdds DEF LedgerInv
  <1>2. gl'["revenue"] = gl["revenue"] /\ gl'["cogs"] = gl["cogs"] /\ gl'["inventory"] = gl["inventory"]
    BY <1>1 DEF Accounts
  <1>3. SoldQty' = SoldQty
    <2>1. Live' = Live
      BY DEF Live
    <2> QED BY <2>1, SoldSame
  <1>4. (CreditOf(DOMAIN returns))' = CreditOf(DOMAIN returns) /\ (CreditOf(CostBack))' = CreditOf(CostBack)
    BY SameCredits
  <1> QED BY <1>1, <1>2, <1>3, <1>4 DEF LedgerInv

(* postSale books the revenue and the cost of the units it sells.          *)
LEMMA PostSaleLedger ==
  ASSUME MoneyInv, MoneyInv', LedgerInv,
         NEW s \in Sales, NEW U \in SUBSET Units, NEW paid \in 0..Cardinality(U), NEW h,
         PostSale(s, U, paid, h)
  PROVE  LedgerInv'
  <1> DEFINE q == Cardinality(U)
             d == SaleEntries(q, paid)
  <1>0. q \in Nat /\ paid \in Nat
    <2>1. IsFiniteSet(U)
      BY SaleAssumption, FS_Subset
    <2> QED BY <2>1, FS_CardinalityType
  <1> HIDE DEF q
  <1>1. /\ d["cash"] = paid /\ d["ar"] = q - paid /\ d["revenue"] = - q /\ d["cogs"] = q /\ d["inventory"] = - q
        /\ DOMAIN d = {"cash", "ar", "revenue", "cogs", "inventory"}
    BY DEF SaleEntries
  <1>2. \A a \in DOMAIN d : d[a] \in Int
    BY <1>0, <1>1
  <1>3. gl' = Posting(d) /\ returns' = returns
    BY DEF PostSale, q
  <1> HIDE DEF d
  <1>4. GlInv' /\ \A a \in Accounts : gl'[a] = IF a \in DOMAIN d THEN gl[a] + d[a] ELSE gl[a]
    BY <1>2, <1>3, PostingAdds DEF LedgerInv
  <1>5. /\ gl'["revenue"] = gl["revenue"] - q /\ gl'["cogs"] = gl["cogs"] + q
        /\ gl'["inventory"] = gl["inventory"] - q
        /\ gl["revenue"] \in Int /\ gl["cogs"] \in Int /\ gl["inventory"] \in Int
    <2>1. gl["revenue"] \in Int /\ gl["cogs"] \in Int /\ gl["inventory"] \in Int
      BY DEF LedgerInv, GlInv, Accounts
    <2>2. gl'["revenue"] = gl["revenue"] + d["revenue"] /\ gl'["cogs"] = gl["cogs"] + d["cogs"]
          /\ gl'["inventory"] = gl["inventory"] + d["inventory"]
      BY <1>1, <1>4 DEF Accounts
    <2> QED BY <1>0, <1>1, <2>1, <2>2
  <1>6. SoldQty' = SoldQty + q
    <2>1. /\ sales[s].status = "none"
          /\ \A t \in Sales \ {s} : sales'[t] = sales[t]
          /\ sales'[s].status = "completed" /\ sales'[s].units = U
      BY PostSaleData DEF MoneyInv
    <2>2. s \in Sales \ Live /\ Live' = Live \cup {s}
      BY <2>1 DEF Live
    <2>3. \A t \in Live : sales'[t].units = sales[t].units
      BY <2>1, <2>2 DEF Live
    <2> QED BY <2>1, <2>2, <2>3, SoldMore DEF MoneyInv, q
  <1>7. (CreditOf(DOMAIN returns))' = CreditOf(DOMAIN returns) /\ (CreditOf(CostBack))' = CreditOf(CostBack)
    BY <1>3, SameCredits
  <1>8. SoldQty \in Int /\ CreditOf(DOMAIN returns) \in Int /\ CreditOf(CostBack) \in Int
    BY SoldInt, CreditsInt DEF MoneyInv
  <1>9. /\ gl["revenue"] = - (SoldQty - CreditOf(DOMAIN returns))
        /\ gl["cogs"] = SoldQty - CreditOf(CostBack)
        /\ gl["inventory"] = - gl["cogs"]
    BY DEF LedgerInv
  <1>10. /\ gl'["revenue"] = - (SoldQty' - (CreditOf(DOMAIN returns))')
         /\ gl'["cogs"] = SoldQty' - (CreditOf(CostBack))'
         /\ gl'["inventory"] = - gl'["cogs"]
    BY <1>0, <1>5, <1>6, <1>7, <1>8, <1>9
  <1> QED BY <1>4, <1>10 DEF LedgerInv

(* voidSale takes back what the two entries of the sale booked.            *)
LEMMA VoidLedger ==
  ASSUME MoneyInv, MoneyInv', LedgerInv, NEW s \in Sales, VoidSale(s)
  PROVE  LedgerInv'
  <1> DEFINE q == Qty(s)
             paid == sales[s].paid
             entries == SaleEntries(q, paid)
             d == [a \in DOMAIN entries |-> - entries[a]]
  <1>0. q \in Nat /\ paid \in Nat
    BY LiveQty DEF MoneyInv, SalesInv, SaleData
  <1>3. gl' = Posting(d) /\ returns' = returns
    BY DEF VoidSale, UndoSale
  <1> HIDE DEF q, paid
  <1>1. /\ d["cash"] = - paid /\ d["ar"] = - (q - paid) /\ d["revenue"] = - (- q)
        /\ d["cogs"] = - q /\ d["inventory"] = - (- q)
        /\ DOMAIN d = {"cash", "ar", "revenue", "cogs", "inventory"}
    BY DEF SaleEntries
  <1>2. \A a \in DOMAIN d : d[a] \in Int
    BY <1>0, <1>1
  <1> HIDE DEF d
  <1>4. GlInv' /\ \A a \in Accounts : gl'[a] = IF a \in DOMAIN d THEN gl[a] + d[a] ELSE gl[a]
    BY <1>2, <1>3, PostingAdds DEF LedgerInv
  <1>5. /\ gl'["revenue"] = gl["revenue"] + q /\ gl'["cogs"] = gl["cogs"] - q
        /\ gl'["inventory"] = gl["inventory"] + q
        /\ gl["revenue"] \in Int /\ gl["cogs"] \in Int /\ gl["inventory"] \in Int
    <2>1. gl["revenue"] \in Int /\ gl["cogs"] \in Int /\ gl["inventory"] \in Int
      BY DEF LedgerInv, GlInv, Accounts
    <2>2. gl'["revenue"] = gl["revenue"] + d["revenue"] /\ gl'["cogs"] = gl["cogs"] + d["cogs"]
          /\ gl'["inventory"] = gl["inventory"] + d["inventory"]
      BY <1>1, <1>4 DEF Accounts
    <2> QED BY <1>0, <1>1, <2>1, <2>2
  <1>6. SoldQty' = SoldQty - q
    <2>1. /\ sales[s].status = "completed" /\ sales'[s].status = "voided"
          /\ \A t \in Sales \ {s} : sales'[t] = sales[t]
          /\ sales'[s].units = sales[s].units
      <3>1. sales' = [sales EXCEPT ![s].status = "voided"]
        BY DEF VoidSale
      <3> QED BY <3>1, StatusOfSale DEF MoneyInv, VoidSale
    <2>2. s \in Live /\ Live' = Live \ {s}
      BY <2>1 DEF Live
    <2>3. \A t \in Live : sales'[t].units = sales[t].units
      BY <2>1 DEF Live
    <2> QED BY <2>2, <2>3, SoldLess DEF MoneyInv, q
  <1>7. (CreditOf(DOMAIN returns))' = CreditOf(DOMAIN returns) /\ (CreditOf(CostBack))' = CreditOf(CostBack)
    BY <1>3, SameCredits
  <1>8. SoldQty \in Int /\ CreditOf(DOMAIN returns) \in Int /\ CreditOf(CostBack) \in Int
    BY SoldInt, CreditsInt DEF MoneyInv
  <1>9. /\ gl["revenue"] = - (SoldQty - CreditOf(DOMAIN returns))
        /\ gl["cogs"] = SoldQty - CreditOf(CostBack)
        /\ gl["inventory"] = - gl["cogs"]
    BY DEF LedgerInv
  <1>10. /\ gl'["revenue"] = - (SoldQty' - (CreditOf(DOMAIN returns))')
         /\ gl'["cogs"] = SoldQty' - (CreditOf(CostBack))'
         /\ gl'["inventory"] = - gl'["cogs"]
    BY <1>0, <1>5, <1>6, <1>7, <1>8, <1>9
  <1> QED BY <1>4, <1>10 DEF LedgerInv

(* postSaleReturn books back the revenue of what comes back and, unless it *)
(* is scrap, its cost.                                                     *)
LEMMA ReturnLedger ==
  ASSUME MoneyInv, MoneyInv', LedgerInv, NEW s \in Sales, NEW V \in SUBSET sales[s].units, NEW c, NEW disposition,
         PostSaleReturn(s, V, c, disposition)
  PROVE  LedgerInv'
  <1> DEFINE q == Cardinality(V)
             back == IF disposition # "scrap" THEN q ELSE 0
             d == ReturnEntries(q, disposition)
             row == [sale |-> s, units |-> V, costBack |-> disposition # "scrap"]
             R == DOMAIN returns
  <1>1. returns' = Append(returns, row) /\ gl' = Posting(d)
    BY DEF PostSaleReturn
  <1>2. row.units = V /\ (row.costBack <=> disposition # "scrap")
    OBVIOUS
  <1> HIDE DEF row, q
  <1>3. PICK k \in Nat : k = Len(returns) + 1
    BY ReturnsFinite DEF MoneyInv
  <1>4. /\ DOMAIN returns' = DOMAIN returns \cup {k} /\ k \notin DOMAIN returns /\ returns'[k] = row
        /\ \A r \in DOMAIN returns : returns'[r] = returns[r]
    <2>1. IsSequence(returns) /\ IsSequence(returns') /\ DOMAIN returns = 1..Len(returns) /\ Len(returns) \in Nat
      BY DEF MoneyInv, ReturnsInv, IsSequence
    <2>2. /\ Len(returns') = Len(returns) + 1 /\ returns'[Len(returns) + 1] = row
          /\ \A r \in 1..Len(returns) : returns'[r] = returns[r]
      BY <1>1, <2>1, AppendToSequence
    <2>3. DOMAIN returns' = 1..Len(returns')
      BY <2>1 DEF IsSequence
    <2> QED BY <1>3, <2>1, <2>2, <2>3
  <1>5. CostBack \in SUBSET DOMAIN returns
    BY DEF CostBack
  <1>6. PICK D, B : D = DOMAIN returns /\ B = CostBack
    OBVIOUS
  <1>7. /\ CreditOf(D \cup {k})' = CreditOf(D) + q
        /\ CreditOf(D) \in Int /\ q \in Nat
    BY <1>1, <1>2, <1>3, <1>6, CreditAdded DEF MoneyInv, q
  <1>8. /\ CreditOf(B)' = CreditOf(B) /\ CreditOf(B) \in Int
        /\ CreditOf(B \cup {k})' = CreditOf(B) + q
    BY <1>1, <1>2, <1>3, <1>5, <1>6, CreditAdded DEF MoneyInv, q
  <1>9. (CreditOf(DOMAIN returns))' = CreditOf(DOMAIN returns) + q
    <2>1. DOMAIN returns' = D \cup {k}
      BY <1>4, <1>6
    <2>2. (CreditOf(DOMAIN returns))' = CreditOf(D \cup {k})'
      BY <2>1 DEF CreditOf, Credit
    <2> QED BY <1>6, <1>7, <2>2
  <1>10. (CreditOf(CostBack))' = CreditOf(CostBack) + back
    <2>1. CASE disposition # "scrap"
      <3>1. CostBack' = B \cup {k}
        BY <1>2, <1>4, <1>6, <2>1 DEF CostBack
      <3>2. (CreditOf(CostBack))' = CreditOf(B \cup {k})'
        BY <3>1 DEF CreditOf, Credit
      <3> QED BY <1>6, <1>8, <2>1, <3>2
    <2>2. CASE disposition = "scrap"
      <3>1. CostBack' = B
        BY <1>2, <1>4, <1>6, <2>2 DEF CostBack
      <3>2. (CreditOf(CostBack))' = CreditOf(B)'
        BY <3>1 DEF CreditOf, Credit
      <3> QED BY <1>6, <1>8, <2>2, <3>2
    <2> QED BY <2>1, <2>2
  <1>11. back \in Int
    BY <1>7
  <1>12. /\ d["revenue"] = q /\ d["ar"] = - q /\ d["inventory"] = back /\ d["cogs"] = - back
         /\ DOMAIN d = {"revenue", "ar", "inventory", "cogs"}
    BY DEF ReturnEntries
  <1> HIDE DEF back, d
  <1>13. \A a \in DOMAIN d : d[a] \in Int
    BY <1>7, <1>11, <1>12
  <1>14. GlInv' /\ \A a \in Accounts : gl'[a] = IF a \in DOMAIN d THEN gl[a] + d[a] ELSE gl[a]
    BY <1>1, <1>13, PostingAdds DEF LedgerInv
  <1>15. /\ gl'["revenue"] = gl["revenue"] + q /\ gl'["cogs"] = gl["cogs"] - back
         /\ gl'["inventory"] = gl["inventory"] + back
         /\ gl["revenue"] \in Int /\ gl["cogs"] \in Int /\ gl["inventory"] \in Int
    <2>1. gl["revenue"] \in Int /\ gl["cogs"] \in Int /\ gl["inventory"] \in Int
      BY DEF LedgerInv, GlInv, Accounts
    <2>2. gl'["revenue"] = gl["revenue"] + d["revenue"] /\ gl'["cogs"] = gl["cogs"] + d["cogs"]
          /\ gl'["inventory"] = gl["inventory"] + d["inventory"]
      BY <1>12, <1>14 DEF Accounts
    <2> QED BY <1>7, <1>11, <1>12, <2>1, <2>2
  <1>16. SoldQty' = SoldQty
    <2>1. PICK status \in {"returned", "partially_returned"} :
            sales' = [sales EXCEPT ![s].status = status]
      BY DEF PostSaleReturn
    <2>2. /\ \A t \in Sales \ {s} : sales'[t] = sales[t]
          /\ sales'[s].status = status /\ sales'[s].units = sales[s].units
          /\ sales[s].status \in OpenSaleStatuses
      BY <2>1, StatusOfSale DEF MoneyInv, PostSaleReturn
    <2>3. Live' = Live
      BY <2>1, <2>2 DEF Live, OpenSaleStatuses
    <2>4. \A t \in Live : sales'[t].units = sales[t].units
      BY <2>2 DEF Live
    <2> QED BY <2>3, <2>4, SoldSame
  <1>17. /\ gl["revenue"] = - (SoldQty - CreditOf(DOMAIN returns))
         /\ gl["cogs"] = SoldQty - CreditOf(CostBack)
         /\ gl["inventory"] = - gl["cogs"]
    BY DEF LedgerInv
  <1>18. SoldQty \in Int /\ CreditOf(DOMAIN returns) \in Int /\ CreditOf(CostBack) \in Int
    BY SoldInt, CreditsInt DEF MoneyInv
  <1>19. /\ gl'["revenue"] = - (SoldQty' - (CreditOf(DOMAIN returns))')
         /\ gl'["cogs"] = SoldQty' - (CreditOf(CostBack))'
         /\ gl'["inventory"] = - gl'["cogs"]
    BY <1>7, <1>9, <1>10, <1>11, <1>15, <1>16, <1>17, <1>18
  <1> QED BY <1>14, <1>19 DEF LedgerInv

(* A collection, a refund, a reversal and the close of a shift book        *)
(* nothing on those accounts.                                              *)
LEMMA OtherEntriesLedger ==
  ASSUME MoneyInv, LedgerInv,
         \/ \E S \in SUBSET Sales, h \in ShiftOrNone : CollectCustomerPayment(S, h)
         \/ \E r \in DOMAIN returns : \E amount \in 1..Credit(r), h \in ShiftOrNone : RefundReturn(r, amount, h)
         \/ \E p \in DOMAIN payments : ReversePayment(p)
         \/ \E h \in Shifts : \E counted \in Nat : CloseCashierShift(h, counted)
  PROVE  LedgerInv'
  <1>0. PaymentsInv /\ SalesInv /\ ReturnsInv /\ RowsInv /\ MoneyRows
    BY DEF MoneyInv, RowsInv
  <1>1. CASE \E S \in SUBSET Sales, h \in ShiftOrNone : CollectCustomerPayment(S, h)
    <2>1. PICK S \in SUBSET Sales, h \in ShiftOrNone : CollectCustomerPayment(S, h)
      BY <1>1
    <2>2. PICK amount \in Nat \ {0} : gl' = Posting([cash |-> amount, ar |-> - amount])
      BY <1>0, <2>1, CollectionRow
    <2>3. sales' = sales /\ returns' = returns
      BY <2>1 DEF CollectCustomerPayment
    <2> DEFINE d == [cash |-> amount, ar |-> - amount]
    <2>4. DOMAIN d = {"cash", "ar"} /\ \A a \in DOMAIN d : d[a] \in Int
      OBVIOUS
    <2>5. gl' = Posting(d) /\ DOMAIN d \cap {"revenue", "cogs", "inventory"} = {}
      BY <2>2, <2>4
    <2> HIDE DEF d
    <2> QED BY <2>3, <2>4, <2>5, MoneyEntries
  <1>2. CASE \E r \in DOMAIN returns : \E amount \in 1..Credit(r), h \in ShiftOrNone : RefundReturn(r, amount, h)
    <2>1. PICK r \in DOMAIN returns : \E amount \in 1..Credit(r), h \in ShiftOrNone : RefundReturn(r, amount, h)
      BY <1>2
    <2>2. PICK amount \in 1..Credit(r), h \in ShiftOrNone : RefundReturn(r, amount, h)
      BY <2>1
    <2>3. sales' = sales /\ returns' = returns /\ amount \in Int
      <3>1. Credit(r) \in Nat
        BY <1>0, ReturnsFinite
      <3>2. amount \in Int
        BY <3>1
      <3> QED BY <2>2, <3>2 DEF RefundReturn
    <2> DEFINE d == [cash |-> - amount, ar |-> amount]
    <2>4. DOMAIN d = {"cash", "ar"} /\ \A a \in DOMAIN d : d[a] \in Int
      BY <2>3
    <2>5. gl' = Posting(d) /\ DOMAIN d \cap {"revenue", "cogs", "inventory"} = {}
      BY <2>2, <2>4 DEF RefundReturn
    <2> HIDE DEF d
    <2> QED BY <2>3, <2>4, <2>5, MoneyEntries
  <1>3. CASE \E p \in DOMAIN payments : ReversePayment(p)
    <2>1. PICK p \in DOMAIN payments : ReversePayment(p)
      BY <1>3
    <2>3. sales' = sales /\ returns' = returns /\ CashEffect(p) \in Int
      BY <1>0, <2>1, CashEffectInt DEF ReversePayment
    <2> DEFINE d == [cash |-> - CashEffect(p), ar |-> CashEffect(p)]
    <2>4. DOMAIN d = {"cash", "ar"} /\ \A a \in DOMAIN d : d[a] \in Int
      BY <2>3
    <2>5. gl' = Posting(d) /\ DOMAIN d \cap {"revenue", "cogs", "inventory"} = {}
      BY <2>1, <2>4 DEF ReversePayment
    <2> HIDE DEF d
    <2> QED BY <2>3, <2>4, <2>5, MoneyEntries
  <1>4. CASE \E h \in Shifts : \E counted \in Nat : CloseCashierShift(h, counted)
    <2>1. PICK h \in Shifts, counted \in Nat : CloseCashierShift(h, counted)
      BY <1>4
    <2> DEFINE variance == counted - NetCash(h)
               d == [cash |-> variance, over_short |-> - variance]
    <2>2. variance \in Int
      <3>1. {p \in DOMAIN payments : payments[p].shift = h} \in SUBSET DOMAIN payments
        OBVIOUS
      <3>2. NetCash(h) \in Int
        BY <1>0, <3>1, CashInt DEF NetCash
      <3> QED BY <3>2
    <2>3. sales' = sales /\ returns' = returns /\ gl' = Posting(d)
      BY <2>1 DEF CloseCashierShift
    <2> HIDE DEF variance
    <2>4. DOMAIN d = {"cash", "over_short"} /\ \A a \in DOMAIN d : d[a] \in Int
      BY <2>2
    <2>5. DOMAIN d \cap {"revenue", "cogs", "inventory"} = {}
      BY <2>4
    <2> HIDE DEF d
    <2> QED BY <2>3, <2>4, <2>5, MoneyEntries
  <1> QED BY <1>1, <1>2, <1>3, <1>4

(* Neither does a command without an entry.                                *)
LEMMA SameLedger ==
  ASSUME LedgerInv, sales' = sales, returns' = returns, gl' = gl
  PROVE  LedgerInv'
  <1>1. SoldQty' = SoldQty
    <2>1. Live' = Live
      BY DEF Live
    <2> QED BY <2>1, SoldSame
  <1>2. (CreditOf(DOMAIN returns))' = CreditOf(DOMAIN returns) /\ (CreditOf(CostBack))' = CreditOf(CostBack)
    BY SameCredits
  <1> QED BY <1>1, <1>2 DEF LedgerInv, GlInv

(* Every command keeps the ledger with the sales.                          *)
LEMMA NextLedger == ASSUME StoryInv, LedgerInv, [Next]_vars PROVE LedgerInv'
  <1>1. MoneyInv /\ MoneyInv'
    BY NextMoney DEF StoryInv
  <1>2. CASE \E s \in Sales, U \in (SUBSET Units) \ {{}}, h \in ShiftOrNone :
               \E paid \in 0..Cardinality(U) : PostSale(s, U, paid, h)
    BY <1>1, <1>2, PostSaleLedger
  <1>3. CASE \E s \in Sales : \E V \in SUBSET sales[s].units, c \in Conditions, d \in Dispositions :
               PostSaleReturn(s, V, c, d)
    BY <1>1, <1>3, ReturnLedger
  <1>4. CASE \E s \in Sales : VoidSale(s)
    BY <1>1, <1>4, VoidLedger
  <1>5. CASE \/ \E S \in SUBSET Sales, h \in ShiftOrNone : CollectCustomerPayment(S, h)
             \/ \E r \in DOMAIN returns : \E amount \in 1..Credit(r), h \in ShiftOrNone : RefundReturn(r, amount, h)
             \/ \E p \in DOMAIN payments : ReversePayment(p)
             \/ \E h \in Shifts :
                  \E counted \in Nat \cap ((NetCash(h) - MaxVariance)..(NetCash(h) + MaxVariance)) :
                    CloseCashierShift(h, counted)
    <2>1. \/ \E S \in SUBSET Sales, h \in ShiftOrNone : CollectCustomerPayment(S, h)
          \/ \E r \in DOMAIN returns : \E amount \in 1..Credit(r), h \in ShiftOrNone : RefundReturn(r, amount, h)
          \/ \E p \in DOMAIN payments : ReversePayment(p)
          \/ \E h \in Shifts : \E counted \in Nat : CloseCashierShift(h, counted)
      BY <1>5
    <2> QED BY <1>1, <2>1, OtherEntriesLedger
  <1>6. CASE (\E h \in Shifts : OpenCashierShift(h)) \/ Tomorrow \/ UNCHANGED vars
    <2>1. sales' = sales /\ returns' = returns /\ gl' = gl
      BY <1>6 DEF OpenCashierShift, Tomorrow, vars
    <2> QED BY <2>1, SameLedger
  <1> QED BY <1>2, <1>3, <1>4, <1>5, <1>6 DEF Next

(* It holds before the first sale.                                         *)
LEMMA InitLedger == Init => LedgerInv
  <1> SUFFICES ASSUME Init PROVE LedgerInv
    OBVIOUS
  <1>1. Live = {} /\ DOMAIN returns = {} /\ CostBack = {}
    <2>1. DOMAIN returns = {}
      BY EmptySequence DEF Init
    <2> QED BY <2>1 DEF Init, NoSale, Live, CostBack
  <1>2. SoldQty = 0
    <2>1. DOMAIN [s \in Live |-> Qty(s)] = {}
      BY <1>1
    <2>2. SoldQty = SumFunctionOnSet([s \in Live |-> Qty(s)], {})
      BY <2>1 DEF SoldQty, SumFunction
    <2> QED BY <2>2, SumEmpty
  <1>3. CreditOf({}) = 0
    BY SumEmpty DEF CreditOf, SumFunction
  <1>4. \A a \in Accounts : gl[a] = 0
    BY DEF Init
  <1>5. GlInv
    BY DEF Init, GlInv
  <1>6. gl["revenue"] = 0 /\ gl["cogs"] = 0 /\ gl["inventory"] = 0
    BY <1>4 DEF Accounts
  <1>7. CreditOf(DOMAIN returns) = 0 /\ CreditOf(CostBack) = 0
    BY <1>1, <1>3
  <1>9. gl["revenue"] = - (SoldQty - CreditOf(DOMAIN returns))
    BY <1>2, <1>6, <1>7
  <1>10. gl["cogs"] = SoldQty - CreditOf(CostBack)
    BY <1>2, <1>6, <1>7
  <1>11. gl["inventory"] = - gl["cogs"]
    <2>1. \A x, y \in Int : x + y = 0 => x = - y
      OBVIOUS
    <2>2. gl["inventory"] \in Int /\ gl["cogs"] \in Int /\ gl["inventory"] + gl["cogs"] = 0
      BY <1>6
    <2> QED BY <2>1, <2>2
  <1> QED BY <1>5, <1>9, <1>10, <1>11 DEF LedgerInv

(* After any order of sales, part returns, voids, collections and          *)
(* reversals, revenue in the ledger is what the standing sales sold less   *)
(* what was returned, cost of sales the same less the returns whose        *)
(* disposition is not scrap, and inventory mirrors the cost (postSale,     *)
(* postSaleReturn, voidSale).                                              *)
THEOREM LedgerKeepsUpWithSales == Spec => []LedgerFollowsSales
  <1>1. StoryInv /\ LedgerInv /\ [Next]_vars => (StoryInv /\ LedgerInv)'
    BY NextStory, NextLedger
  <1> QED BY <1>1, InitStory, InitLedger, LedgerInvIsEnough, PTL DEF Spec

-----------------------------------------------------------------------------
(***************************************************************************)
(* The receivable: what a command does to the debt of a sale               *)
(* (installmentBalances).                                                  *)
(***************************************************************************)
(* What a row takes off the debt of sale s, whose returns are Q.           *)
RefundPart(row, Q) == IF row.return \in Q THEN row.amount ELSE 0
Net(row, Q, s) == Part(row, 0..MaxInstallments, s) - RefundPart(row, Q)
NetPaid(Q, s) == Allocated(s) - Refunded(Q)

(* What a row takes off the debt of a sale is a number.                    *)
LEMMA NetInt ==
  ASSUME NEW row, MoneyRow(row), NEW Q, NEW s
  PROVE  /\ Net(row, Q, s) \in Int
         /\ Part(row, 0..MaxInstallments, s) \in Nat /\ RefundPart(row, Q) \in Nat
  BY PartNat DEF Net, RefundPart, MoneyRow

AllocatedIn(rows, P, s) == SumFunction([p \in P |-> Part(rows[p], 0..MaxInstallments, s)])
RefundedIn(rows, P, Q) == SumFunction([p \in {q \in P : rows[q].return \in Q} |-> rows[p].amount])

(* What some rows take off the debt of a sale: the money they have for it  *)
(* less what they refund of its returns.                                   *)
LEMMA NetOfRows ==
  ASSUME NEW rows, NEW P, IsFiniteSet(P), \A p \in P : MoneyRow(rows[p]), NEW Q, NEW s,
         NEW w, \A p \in P : w[p] = Net(rows[p], Q, s)
  PROVE  /\ SumFunctionOnSet(w, P) = AllocatedIn(rows, P, s) - RefundedIn(rows, P, Q)
         /\ AllocatedIn(rows, P, s) \in Nat /\ RefundedIn(rows, P, Q) \in Nat
  <1> DEFINE f == [p \in P |-> Part(rows[p], 0..MaxInstallments, s)]
             g == [p \in P |-> RefundPart(rows[p], Q)]
             T == {q \in P : rows[q].return \in Q}
             h == [p \in T |-> rows[p].amount]
  <1>1. \A p \in P : f[p] \in Nat /\ g[p] \in Nat /\ w[p] = f[p] - g[p]
    BY NetInt DEF Net
  <1>2. T \in SUBSET P
    OBVIOUS
  <1>3. \A p \in T : g[p] = h[p]
    BY DEF RefundPart
  <1>4. \A p \in P \ T : g[p] = 0
    BY DEF RefundPart
  <1>5. SumFunction(f) = SumFunctionOnSet(f, P) /\ SumFunction(h) = SumFunctionOnSet(h, T)
    BY DEF SumFunction
  <1> HIDE DEF f, g, h, T
  <1>6. SumFunctionOnSet(w, P) = SumFunctionOnSet(f, P) - SumFunctionOnSet(g, P)
    <2>1. \A p \in P : f[p] \in Int /\ g[p] \in Int /\ w[p] = f[p] - g[p]
      BY <1>1
    <2> QED BY <2>1, SumMinus
  <1>7. IsFiniteSet(T)
    BY <1>2, FS_Subset
  <1>8. SumFunctionOnSet(g, P) = SumFunctionOnSet(g, T)
    <2>1. \A p \in T : g[p] \in Int
      BY <1>1, <1>2
    <2> QED BY <1>2, <1>4, <2>1, SumSupport
  <1>9. SumFunctionOnSet(g, T) = SumFunctionOnSet(h, T)
    BY <1>3, <1>7, SumSame
  <1>10. SumFunctionOnSet(f, P) \in Nat
    BY <1>1, SumNat
  <1>11. SumFunctionOnSet(g, T) \in Nat
    <2>1. \A p \in T : g[p] \in Nat
      BY <1>1, <1>2
    <2> QED BY <1>7, <2>1, SumNat
  <1>12. /\ SumFunctionOnSet(w, P) = SumFunction(f) - SumFunction(h)
         /\ SumFunction(f) \in Nat /\ SumFunction(h) \in Nat
    BY <1>5, <1>6, <1>8, <1>9, <1>10, <1>11
  <1> QED BY <1>12 DEF f, h, T, AllocatedIn, RefundedIn

(* What a command does to it: marked rows leave, new ones enter.           *)
LEMMA NetStep ==
  ASSUME PaymentsInv, MoneyRows, PaymentsInv', MoneyRows', NEW R, R \subseteq Posted, Extends(R),
         NEW Q, NEW s, NEW w, \A p \in DOMAIN payments' : w[p] = Net(payments'[p], Q, s)
  PROVE  /\ NetPaid(Q, s)' =
              NetPaid(Q, s) - SumFunctionOnSet(w, R)
              + SumFunctionOnSet(w, (Len(payments) + 1)..Len(payments'))
         /\ \A p \in DOMAIN payments' : w[p] \in Int
         /\ Allocated(s) \in Int /\ Refunded(Q) \in Int /\ Allocated(s)' \in Int /\ Refunded(Q)' \in Int
         /\ SumFunctionOnSet(w, R) \in Int
         /\ SumFunctionOnSet(w, (Len(payments) + 1)..Len(payments')) \in Int
  <1> DEFINE n == Len(payments)
             m == Len(payments')
             N == (n + 1)..m
  <1>0. R \subseteq DOMAIN payments
    BY DEF Posted
  <1>1. \A p \in DOMAIN payments' : w[p] \in Int
    BY NetInt DEF MoneyRows
  <1>2. /\ n \in Nat /\ m \in Nat /\ n <= m
        /\ DOMAIN payments = 1..n /\ DOMAIN payments' = 1..m
        /\ \A p \in 1..n : /\ payments'[p].allocations = payments[p].allocations
                           /\ payments'[p].amount = payments[p].amount
                           /\ payments'[p].return = payments[p].return
    BY <1>0, RowsKept
  <1>3. \A p \in Posted : w[p] = Net(payments[p], Q, s)
    <2> SUFFICES ASSUME NEW p \in Posted PROVE w[p] = Net(payments[p], Q, s)
      OBVIOUS
    <2>1. /\ payments'[p].allocations = payments[p].allocations /\ p \in DOMAIN payments'
          /\ payments'[p].amount = payments[p].amount /\ payments'[p].return = payments[p].return
      BY <1>2 DEF Posted
    <2>2. w[p] = Net(payments'[p], Q, s)
      BY <2>1
    <2> QED BY <2>1, <2>2 DEF Net, RefundPart, Part
  <1>4. \A p \in Posted' : w[p] = Net(payments'[p], Q, s)
    BY DEF Posted
  <1>5. IsFiniteSet(Posted) /\ IsFiniteSet(Posted')
    <2>1. IsFiniteSet(1..m) /\ Posted' \in SUBSET (1..m)
      BY <1>2, FS_Interval DEF Posted
    <2> QED BY <2>1, PostedIsFinite, FS_Subset
  <1>6. /\ SumFunctionOnSet(w, Posted) = NetPaid(Q, s)
        /\ Allocated(s) \in Nat /\ Refunded(Q) \in Nat
    <2>1. \A p \in Posted : MoneyRow(payments[p])
      BY DEF MoneyRows, Posted
    <2>2. /\ SumFunctionOnSet(w, Posted) = AllocatedIn(payments, Posted, s) - RefundedIn(payments, Posted, Q)
          /\ AllocatedIn(payments, Posted, s) \in Nat /\ RefundedIn(payments, Posted, Q) \in Nat
      BY <1>3, <1>5, <2>1, NetOfRows
    <2> QED BY <2>2 DEF NetPaid, Allocated, AllocatedThrough, Part, Refunded, Refunds, AllocatedIn, RefundedIn
  <1>7. /\ SumFunctionOnSet(w, Posted') = NetPaid(Q, s)'
        /\ Allocated(s)' \in Nat /\ Refunded(Q)' \in Nat
    <2>1. \A p \in Posted' : MoneyRow(payments'[p])
      BY DEF MoneyRows, Posted
    <2>2. /\ SumFunctionOnSet(w, Posted') = AllocatedIn(payments', Posted', s) - RefundedIn(payments', Posted', Q)
          /\ AllocatedIn(payments', Posted', s) \in Nat /\ RefundedIn(payments', Posted', Q) \in Nat
      BY <1>4, <1>5, <2>1, NetOfRows
    <2> QED BY <2>2 DEF NetPaid, Allocated, AllocatedThrough, Part, Refunded, Refunds, AllocatedIn, RefundedIn
  <1>8. SumFunctionOnSet(w, Posted') =
          SumFunctionOnSet(w, Posted) - SumFunctionOnSet(w, R) + SumFunctionOnSet(w, N)
    BY <1>1, PostedStep
  <1>9. SumFunctionOnSet(w, R) \in Int
    <2>1. R \in SUBSET Posted /\ \A p \in R : w[p] \in Int
      BY <1>0, <1>1, <1>2
    <2>2. IsFiniteSet(R)
      BY <1>5, <2>1, FS_Subset
    <2> QED BY <2>1, <2>2, SumInt
  <1>10. SumFunctionOnSet(w, N) \in Int
    <2>1. n + 1 \in Int /\ m \in Int /\ \A p \in N : w[p] \in Int
      BY <1>1, <1>2
    <2>2. IsFiniteSet(N)
      BY <2>1, FS_Interval
    <2> HIDE DEF N
    <2> QED BY <2>1, <2>2, SumInt
  <1>11. NetPaid(Q, s)' = NetPaid(Q, s) - SumFunctionOnSet(w, R) + SumFunctionOnSet(w, N)
    BY <1>6, <1>7, <1>8
  <1> QED BY <1>1, <1>6, <1>7, <1>9, <1>10, <1>11

(* What the returns of a sale credit is a number.                          *)
LEMMA CreditedInt == ASSUME ReturnsInv, NEW s PROVE Credited(s) \in Int
  <1>1. ReturnsOf(s) \in SUBSET DOMAIN returns
    BY DEF ReturnsOf
  <1> QED BY <1>1, CreditNat DEF Credited

(* What a command that leaves the returns does to the debt of a sale.      *)
LEMMA OutstandingStep ==
  ASSUME MoneyInv, MoneyInv', returns' = returns, NEW R, R \subseteq Posted, Extends(R),
         NEW s \in Sales,
         NEW w, \A p \in DOMAIN payments' : w[p] = Net(payments'[p], ReturnsOf(s), s)
  PROVE  /\ SaleOutstanding(s) = Qty(s) - Credited(s) - NetPaid(ReturnsOf(s), s)
         /\ SaleOutstanding(s)' =
              Qty(s)' - Credited(s) - NetPaid(ReturnsOf(s), s) + SumFunctionOnSet(w, R)
              - SumFunctionOnSet(w, (Len(payments) + 1)..Len(payments'))
         /\ Qty(s) \in Int /\ Qty(s)' \in Int /\ Credited(s) \in Int /\ NetPaid(ReturnsOf(s), s) \in Int
         /\ SumFunctionOnSet(w, R) \in Int
         /\ SumFunctionOnSet(w, (Len(payments) + 1)..Len(payments')) \in Int
  <1> DEFINE N == (Len(payments) + 1)..Len(payments')
  <1>1. PICK Q : Q = ReturnsOf(s)
    OBVIOUS
  <1>2. ReturnsOf(s)' = Q /\ Credited(s)' = Credited(s)
    BY <1>1 DEF ReturnsOf, Credited, CreditOf, Credit
  <1>3. \A p \in DOMAIN payments' : w[p] = Net(payments'[p], Q, s)
    BY <1>1
  <1>4. /\ NetPaid(Q, s)' =
              NetPaid(Q, s) - SumFunctionOnSet(w, R)
              + SumFunctionOnSet(w, (Len(payments) + 1)..Len(payments'))
        /\ \A p \in DOMAIN payments' : w[p] \in Int
        /\ Allocated(s) \in Int /\ Refunded(Q) \in Int /\ Allocated(s)' \in Int /\ Refunded(Q)' \in Int
        /\ SumFunctionOnSet(w, R) \in Int
        /\ SumFunctionOnSet(w, (Len(payments) + 1)..Len(payments')) \in Int
    <2>1. PaymentsInv /\ MoneyRows /\ PaymentsInv' /\ MoneyRows'
      BY DEF MoneyInv, RowsInv
    <2> QED BY <1>3, <2>1, NetStep
  <1>5. Credited(s) \in Int
    BY CreditedInt DEF MoneyInv
  <1>6. Qty(s) \in Int /\ Qty(s)' \in Int
    <2>1. sales[s].units \in SUBSET Units /\ sales'[s].units \in SUBSET Units
      BY DEF MoneyInv, SalesInv, SaleData
    <2>2. Cardinality(sales[s].units) \in Nat /\ Cardinality(sales'[s].units) \in Nat
      BY <2>1, SaleAssumption, FS_Subset, FS_CardinalityType
    <2> QED BY <2>2 DEF Qty
  <1>7. SaleOutstanding(s) = Qty(s) - Allocated(s) - Credited(s) + Refunded(Q)
    BY <1>1 DEF SaleOutstanding
  <1>8. SaleOutstanding(s)' = Qty(s)' - Allocated(s)' - Credited(s) + Refunded(Q)'
    <2>1. SaleOutstanding(s)' = Qty(s)' - Allocated(s)' - Credited(s)' + (Refunded(ReturnsOf(s)))'
      BY DEF SaleOutstanding
    <2> QED BY <1>2, <2>1 DEF Refunded, Refunds
  <1>9. NetPaid(Q, s) = Allocated(s) - Refunded(Q) /\ NetPaid(Q, s)' = Allocated(s)' - Refunded(Q)'
    BY DEF NetPaid
  <1>10. NetPaid(Q, s) \in Int
    BY <1>4, <1>9
  <1> HIDE DEF N
  <1>11. SaleOutstanding(s) = Qty(s) - Credited(s) - NetPaid(Q, s)
    BY <1>4, <1>5, <1>6, <1>7, <1>9
  <1>12. SaleOutstanding(s)' =
              Qty(s)' - Credited(s) - NetPaid(Q, s) + SumFunctionOnSet(w, R)
              - SumFunctionOnSet(w, (Len(payments) + 1)..Len(payments'))
    <2>1. PICK taken, added : /\ taken = SumFunctionOnSet(w, R)
                              /\ added = SumFunctionOnSet(w, (Len(payments) + 1)..Len(payments'))
      OBVIOUS
    <2>2. taken \in Int /\ added \in Int /\ NetPaid(Q, s)' = NetPaid(Q, s) - taken + added
      BY <1>4, <2>1
    <2>3. Allocated(s)' \in Int /\ Refunded(Q)' \in Int
      BY <1>4
    <2>4. PICK a, f, q, o, x : /\ a = Allocated(s)' /\ f = Refunded(Q)' /\ q = Qty(s)'
                               /\ o = SaleOutstanding(s)' /\ x = NetPaid(Q, s)'
      OBVIOUS
    <2>5. PICK c, y : c = Credited(s) /\ y = NetPaid(Q, s)
      OBVIOUS
    <2>6. a \in Int /\ f \in Int /\ q \in Int /\ c \in Int /\ y \in Int
      BY <1>5, <1>6, <1>10, <2>3, <2>4, <2>5
    <2>7. o = q - a - c + f
      BY <1>8, <2>4, <2>5
    <2>8. x = a - f
      BY <1>9, <2>4
    <2>9. x = y - taken + added
      BY <2>2, <2>4, <2>5
    <2>10. o = q - c - y + taken - added
      BY <2>2, <2>6, <2>7, <2>8, <2>9
    <2>11. SaleOutstanding(s)' = Qty(s)' - Credited(s) - NetPaid(Q, s) + taken - added
      BY <2>4, <2>5, <2>10
    <2> QED BY <2>1, <2>11
  <1> QED BY <1>1, <1>4, <1>5, <1>6, <1>10, <1>11, <1>12

(* A row that pays no sale and refunds no return.                          *)
Blank(row) == row.allocations = {} /\ row.return = 0

(* A row that pays no sale and refunds no return changes no debt.          *)
LEMMA BlankNet == ASSUME ReturnsInv, NEW row, Blank(row), NEW s PROVE Net(row, ReturnsOf(s), s) = 0
  <1>1. 0 \notin ReturnsOf(s)
    BY ReturnsFinite DEF ReturnsOf
  <1>2. Part(row, 0..MaxInstallments, s) = 0
    BY PartOfNone DEF Blank
  <1>3. RefundPart(row, ReturnsOf(s)) = 0
    BY <1>1 DEF RefundPart, Blank
  <1> QED BY <1>2, <1>3 DEF Net

(* One row added takes off the debt of a sale what it has for it.          *)
LEMMA OutstandingAdded ==
  ASSUME MoneyInv, MoneyInv', returns' = returns, Extends({}),
         NEW k, k = Len(payments) + 1, Len(payments') = k, NEW s \in Sales
  PROVE  /\ SaleOutstanding(s)' =
              SaleOutstanding(s) + (Qty(s)' - Qty(s)) - Net(payments'[k], ReturnsOf(s), s)
         /\ SaleOutstanding(s) \in Int /\ Qty(s) \in Int /\ Qty(s)' \in Int
         /\ Net(payments'[k], ReturnsOf(s), s) \in Int
  <1>1. PICK w : w = [p \in DOMAIN payments' |-> Net(payments'[p], ReturnsOf(s), s)]
    OBVIOUS
  <1>2. \A p \in DOMAIN payments' : w[p] = Net(payments'[p], ReturnsOf(s), s)
    BY <1>1
  <1>3. PICK R : R = {}
    OBVIOUS
  <1>4. R \subseteq Posted /\ Extends(R)
    BY <1>3
  <1>5. /\ SaleOutstanding(s) = Qty(s) - Credited(s) - NetPaid(ReturnsOf(s), s)
        /\ SaleOutstanding(s)' =
              Qty(s)' - Credited(s) - NetPaid(ReturnsOf(s), s) + SumFunctionOnSet(w, R)
              - SumFunctionOnSet(w, (Len(payments) + 1)..Len(payments'))
        /\ Qty(s) \in Int /\ Qty(s)' \in Int /\ Credited(s) \in Int /\ NetPaid(ReturnsOf(s), s) \in Int
        /\ SumFunctionOnSet(w, R) \in Int
        /\ SumFunctionOnSet(w, (Len(payments) + 1)..Len(payments')) \in Int
    BY <1>2, <1>4, OutstandingStep
  <1>6. k \in Nat /\ k \in DOMAIN payments' /\ (Len(payments) + 1)..Len(payments') = {k}
    <2>1. Len(payments) \in Nat /\ DOMAIN payments' = 1..Len(payments')
      BY DEF MoneyInv, PaymentsInv, IsSequence
    <2> QED BY <2>1
  <1>7. w[k] = Net(payments'[k], ReturnsOf(s), s)
    BY <1>2, <1>6
  <1>8. w[k] \in Int
    <2>1. MoneyRow(payments'[k])
      BY <1>6 DEF MoneyInv, RowsInv, MoneyRows
    <2> QED BY <1>7, <2>1, NetInt
  <1>9. SumFunctionOnSet(w, (Len(payments) + 1)..Len(payments')) = w[k]
    BY <1>6, <1>8, SumOne
  <1>10. SumFunctionOnSet(w, R) = 0
    BY <1>3, SumEmpty
  <1>11. PICK a, b : a = SumFunctionOnSet(w, R) /\ b = SumFunctionOnSet(w, (Len(payments) + 1)..Len(payments'))
    OBVIOUS
  <1>12. SaleOutstanding(s)' = Qty(s)' - Credited(s) - NetPaid(ReturnsOf(s), s) + a - b
    BY <1>5, <1>11
  <1>13. a = 0 /\ b = w[k]
    BY <1>9, <1>10, <1>11
  <1>14. /\ SaleOutstanding(s) = Qty(s) - Credited(s) - NetPaid(ReturnsOf(s), s)
         /\ Qty(s) \in Int /\ Qty(s)' \in Int /\ Credited(s) \in Int /\ NetPaid(ReturnsOf(s), s) \in Int
    BY <1>5
  <1>15. SaleOutstanding(s)' = SaleOutstanding(s) + (Qty(s)' - Qty(s)) - w[k]
    BY <1>8, <1>12, <1>13, <1>14
  <1>16. SaleOutstanding(s) \in Int
    BY <1>14
  <1> QED BY <1>7, <1>8, <1>14, <1>15, <1>16

Taken(R, s) == SumFunction([p \in R |-> Net(payments[p], ReturnsOf(s), s)])

(* Rows marked give the debt back: every sale owes again what they had for *)
(* it.                                                                     *)
LEMMA OutstandingTaken ==
  ASSUME MoneyInv, MoneyInv', returns' = returns, NEW R, R \subseteq Posted, Extends(R),
         \A q \in (Len(payments) + 1)..Len(payments') : Blank(payments'[q]), NEW s \in Sales
  PROVE  /\ SaleOutstanding(s)' = SaleOutstanding(s) + (Qty(s)' - Qty(s)) + Taken(R, s)
         /\ SaleOutstanding(s) \in Int /\ Qty(s) \in Int /\ Qty(s)' \in Int /\ Taken(R, s) \in Int
  <1>1. PICK w : w = [p \in DOMAIN payments' |-> Net(payments'[p], ReturnsOf(s), s)]
    OBVIOUS
  <1>2. \A p \in DOMAIN payments' : w[p] = Net(payments'[p], ReturnsOf(s), s)
    BY <1>1
  <1>5. /\ SaleOutstanding(s) = Qty(s) - Credited(s) - NetPaid(ReturnsOf(s), s)
        /\ SaleOutstanding(s)' =
              Qty(s)' - Credited(s) - NetPaid(ReturnsOf(s), s) + SumFunctionOnSet(w, R)
              - SumFunctionOnSet(w, (Len(payments) + 1)..Len(payments'))
        /\ Qty(s) \in Int /\ Qty(s)' \in Int /\ Credited(s) \in Int /\ NetPaid(ReturnsOf(s), s) \in Int
        /\ SumFunctionOnSet(w, R) \in Int
        /\ SumFunctionOnSet(w, (Len(payments) + 1)..Len(payments')) \in Int
    BY <1>2, OutstandingStep
  <1>6. PICK N : N = (Len(payments) + 1)..Len(payments')
    OBVIOUS
  <1>0. PaymentsInv /\ ReturnsInv /\ R \subseteq DOMAIN payments
    BY DEF MoneyInv, Posted
  <1>7. /\ Len(payments) \in Nat /\ Len(payments') \in Nat /\ DOMAIN payments' = 1..Len(payments')
        /\ \A p \in R : /\ payments'[p].allocations = payments[p].allocations
                        /\ payments'[p].amount = payments[p].amount
                        /\ payments'[p].return = payments[p].return
                        /\ p \in DOMAIN payments'
    BY <1>0, RowsKept
  <1>8. IsFiniteSet(N) /\ N \subseteq DOMAIN payments'
    <2>1. Len(payments) + 1 \in Int /\ Len(payments') \in Int
      BY <1>7
    <2>2. IsFiniteSet(N)
      BY <1>6, <2>1, FS_Interval
    <2>3. N \subseteq DOMAIN payments'
      BY <1>6, <1>7
    <2> QED BY <2>2, <2>3
  <1>9. SumFunctionOnSet(w, N) = 0
    <2>1. \A q \in N : w[q] = 0
      BY <1>0, <1>2, <1>6, <1>8, BlankNet
    <2> QED BY <1>8, <2>1, SumZero
  <1>10. SumFunctionOnSet(w, R) = Taken(R, s)
    <2>1. PICK f : f = [p \in R |-> Net(payments[p], ReturnsOf(s), s)]
      OBVIOUS
    <2>2. \A p \in R : w[p] = f[p]
      <3> SUFFICES ASSUME NEW p \in R PROVE w[p] = f[p]
        OBVIOUS
      <3>1. w[p] = Net(payments'[p], ReturnsOf(s), s)
        BY <1>2, <1>7
      <3>2. Net(payments'[p], ReturnsOf(s), s) = Net(payments[p], ReturnsOf(s), s)
        BY <1>7 DEF Net, RefundPart, Part
      <3> QED BY <2>1, <3>1, <3>2
    <2>3. IsFiniteSet(R)
      BY <1>0, PostedIsFinite, FS_Subset
    <2>4. SumFunctionOnSet(w, R) = SumFunctionOnSet(f, R)
      BY <2>2, <2>3, SumSame
    <2> QED BY <2>1, <2>4 DEF Taken, SumFunction
  <1>11. PICK a, b : a = SumFunctionOnSet(w, R) /\ b = SumFunctionOnSet(w, N)
    OBVIOUS
  <1>12. SaleOutstanding(s)' = Qty(s)' - Credited(s) - NetPaid(ReturnsOf(s), s) + a - b
    BY <1>5, <1>6, <1>11
  <1>13. a = Taken(R, s) /\ a \in Int /\ b = 0
    BY <1>5, <1>9, <1>10, <1>11
  <1>14. /\ SaleOutstanding(s) = Qty(s) - Credited(s) - NetPaid(ReturnsOf(s), s)
         /\ Qty(s) \in Int /\ Qty(s)' \in Int /\ Credited(s) \in Int /\ NetPaid(ReturnsOf(s), s) \in Int
    BY <1>5
  <1>15. SaleOutstanding(s)' = SaleOutstanding(s) + (Qty(s)' - Qty(s)) + a
    BY <1>12, <1>13, <1>14
  <1>16. SaleOutstanding(s) \in Int
    BY <1>14
  <1> QED BY <1>13, <1>14, <1>15, <1>16

(* No row marked gives nothing back.                                       *)
LEMMA TakenOfNone == ASSUME NEW s PROVE Taken({}, s) = 0
  BY SumEmpty DEF Taken, SumFunction

(* One row marked gives back what it had.                                  *)
LEMMA TakenOfOne ==
  ASSUME MoneyRows, NEW p \in DOMAIN payments, NEW s
  PROVE  Taken({p}, s) = Net(payments[p], ReturnsOf(s), s)
  <1> DEFINE f == [q \in {p} |-> Net(payments[q], ReturnsOf(s), s)]
  <1>1. f[p] \in Int /\ f[p] = Net(payments[p], ReturnsOf(s), s)
    BY NetInt DEF MoneyRows
  <1>2. Taken({p}, s) = SumFunctionOnSet(f, {p})
    BY DEF Taken, SumFunction
  <1> HIDE DEF f
  <1> QED BY <1>1, <1>2, SumOne

(* What the standing sales owe together, and what was counted too much or  *)
(* too little.                                                             *)
Owing == SumFunction([s \in Live |-> SaleOutstanding(s)])
Variances == SumFunction([h \in Shifts |-> shifts[h].variance])

(* What each sale owes is a number.                                        *)
LEMMA DebtsAreInt == ASSUME MoneyInv PROVE \A s \in Sales : SaleOutstanding(s) \in Int
  BY SaleOutstandingInt DEF MoneyInv, RowsInv, SalesInv

(* What the standing sales owe together is a number.                       *)
LEMMA OwingInt == ASSUME MoneyInv PROVE Owing \in Int
  <1> DEFINE f == [s \in Live |-> SaleOutstanding(s)]
  <1>1. \A s \in Live : f[s] \in Int
    BY DebtsAreInt, LiveIsFinite
  <1>2. Owing = SumFunctionOnSet(f, Live)
    BY DEF Owing, SumFunction
  <1> HIDE DEF f
  <1> QED BY <1>1, <1>2, LiveIsFinite, SumInt

(* It is the sum of any function that gives what each of them owes.        *)
LEMMA OwingSum ==
  ASSUME NEW L, L = Live, NEW f, \A s \in L : f[s] = SaleOutstanding(s)
  PROVE  Owing = SumFunctionOnSet(f, L)
  <1>1. PICK g : g = [s \in L |-> SaleOutstanding(s)]
    OBVIOUS
  <1>2. Owing = SumFunctionOnSet(g, L)
    BY <1>1 DEF Owing, SumFunction
  <1>3. \A s \in L : g[s] = f[s]
    BY <1>1
  <1> QED BY <1>2, <1>3, LiveIsFinite, SumSame

(* So it is after a step.                                                  *)
LEMMA OwingSumNext ==
  ASSUME NEW L, IsFiniteSet(L), L = Live', NEW f, \A s \in L : f[s] = SaleOutstanding(s)'
  PROVE  Owing' = SumFunctionOnSet(f, L)
  <1>1. PICK g : g = [s \in L |-> SaleOutstanding(s)']
    OBVIOUS
  <1>2. Owing' = SumFunctionOnSet(g, L)
    BY <1>1 DEF Owing, SumFunction
  <1>3. \A s \in L : g[s] = f[s]
    BY <1>1
  <1> QED BY <1>2, <1>3, SumSame

(* While the same sales stand, what they owe together changes by what each *)
(* debt does.                                                              *)
LEMMA OwingChange ==
  ASSUME MoneyInv, Live' = Live,
         NEW e, \A s \in Live : e[s] \in Int /\ SaleOutstanding(s)' = SaleOutstanding(s) + e[s]
  PROVE  Owing' = Owing + SumFunctionOnSet(e, Live)
  <1>1. PICK L : L = Live
    OBVIOUS
  <1>2. PICK f : f = [s \in L |-> SaleOutstanding(s)]
    OBVIOUS
  <1>3. PICK g : g = [s \in L |-> SaleOutstanding(s)']
    OBVIOUS
  <1>4. IsFiniteSet(L) /\ L \subseteq Sales
    BY <1>1, LiveIsFinite
  <1>5. Owing = SumFunctionOnSet(f, L)
    BY <1>1, <1>2, OwingSum
  <1>6. Owing' = SumFunctionOnSet(g, L)
    BY <1>1, <1>3, <1>4, OwingSumNext
  <1>7. \A s \in L : f[s] \in Int /\ e[s] \in Int /\ g[s] = f[s] + e[s]
    BY <1>1, <1>2, <1>3, <1>4, DebtsAreInt
  <1>8. SumFunctionOnSet(g, L) = SumFunctionOnSet(f, L) + SumFunctionOnSet(e, L)
    BY <1>4, <1>7, SumPlus
  <1> QED BY <1>1, <1>5, <1>6, <1>8

(* A sale posted adds its debt.                                            *)
LEMMA OwingMore ==
  ASSUME MoneyInv, NEW s \in Sales \ Live, Live' = Live \cup {s}, SaleOutstanding(s)' \in Int,
         \A t \in Live : SaleOutstanding(t)' = SaleOutstanding(t)
  PROVE  Owing' = Owing + SaleOutstanding(s)'
  <1>1. PICK L, M : L = Live /\ M = L \cup {s}
    OBVIOUS
  <1>2. PICK f : f = [t \in L |-> SaleOutstanding(t)]
    OBVIOUS
  <1>3. PICK g : g = [t \in M |-> SaleOutstanding(t)']
    OBVIOUS
  <1>4. IsFiniteSet(L) /\ L \subseteq Sales /\ s \notin L
    BY <1>1, LiveIsFinite
  <1>0. IsFiniteSet(M)
    BY <1>1, <1>4, FS_AddElement
  <1>5. Owing = SumFunctionOnSet(f, L)
    BY <1>1, <1>2, OwingSum
  <1>6. Owing' = SumFunctionOnSet(g, M)
    BY <1>0, <1>1, <1>3, OwingSumNext
  <1>7. \A t \in L : f[t] \in Int /\ g[t] = f[t]
    BY <1>1, <1>2, <1>3, <1>4, DebtsAreInt
  <1>8. g[s] = SaleOutstanding(s)' /\ g[s] \in Int
    BY <1>1, <1>3
  <1>9. SumFunctionOnSet(g, L) = SumFunctionOnSet(f, L)
    BY <1>4, <1>7, SumSame
  <1>10. SumFunctionOnSet(g, M) = g[s] + SumFunctionOnSet(g, L)
    <2>1. \A t \in L \cup {s} : g[t] \in Int
      BY <1>7, <1>8
    <2>2. SumFunctionOnSet(g, L \cup {s}) = g[s] + SumFunctionOnSet(g, L)
      BY <1>4, <2>1, SumAdd
    <2> QED BY <1>1, <2>2
  <1>11. SumFunctionOnSet(f, L) \in Int
    BY <1>4, <1>7, SumInt
  <1> QED BY <1>5, <1>6, <1>8, <1>9, <1>10, <1>11

(* A sale voided takes its debt with it.                                   *)
LEMMA OwingLess ==
  ASSUME MoneyInv, NEW s \in Live, Live' = Live \ {s},
         \A t \in Live \ {s} : SaleOutstanding(t)' = SaleOutstanding(t)
  PROVE  Owing' = Owing - SaleOutstanding(s)
  <1>1. PICK L, M : L = Live /\ M = L \ {s}
    OBVIOUS
  <1>2. PICK f : f = [t \in L |-> SaleOutstanding(t)]
    OBVIOUS
  <1>3. PICK g : g = [t \in M |-> SaleOutstanding(t)']
    OBVIOUS
  <1>4. IsFiniteSet(L) /\ L \subseteq Sales /\ s \in L
    BY <1>1, LiveIsFinite
  <1>0. IsFiniteSet(M)
    <2>1. M \in SUBSET L
      BY <1>1
    <2> QED BY <1>4, <2>1, FS_Subset
  <1>5. Owing = SumFunctionOnSet(f, L)
    BY <1>1, <1>2, OwingSum
  <1>6. Owing' = SumFunctionOnSet(g, M)
    BY <1>0, <1>1, <1>3, OwingSumNext
  <1>7. \A t \in L : f[t] \in Int
    BY <1>1, <1>2, <1>4, DebtsAreInt
  <1>8. \A t \in M : g[t] = f[t] /\ f[t] \in Int
    BY <1>1, <1>2, <1>3, <1>7
  <1>9. SumFunctionOnSet(g, M) = SumFunctionOnSet(f, M)
    BY <1>0, <1>8, SumSame
  <1>10. SumFunctionOnSet(f, L) = f[s] + SumFunctionOnSet(f, M)
    <2>1. SumFunctionOnSet(f, L) = f[s] + SumFunctionOnSet(f, L \ {s})
      BY <1>4, <1>7, SumRemove
    <2> QED BY <1>1, <2>1
  <1>11. SumFunctionOnSet(f, M) \in Int
    BY <1>0, <1>8, SumInt
  <1>12. f[s] = SaleOutstanding(s) /\ f[s] \in Int
    BY <1>2, <1>4, <1>7
  <1> QED BY <1>5, <1>6, <1>9, <1>10, <1>11, <1>12

(* A receipt pays, among the sales it is allocated to, all it was for.     *)
LEMMA ReceiptOverSales ==
  ASSUME ReturnsInv, NEW row, MoneyRow(row), IsReceipt(row), \A a \in row.allocations : a.sale \in Live,
         NEW e, \A s \in Live : e[s] = Net(row, ReturnsOf(s), s)
  PROVE  SumFunctionOnSet(e, Live) = row.amount
  <1> DEFINE A == row.allocations
             f == [a \in A |-> a.amount]
             k == [a \in A |-> a.sale]
  <1>1. \A s \in Live : e[s] = TotalOf({a \in A : a.sale = s})
    <2> SUFFICES ASSUME NEW s \in Live PROVE e[s] = TotalOf({a \in A : a.sale = s})
      OBVIOUS
    <2>1. 0 \notin ReturnsOf(s)
      BY ReturnsFinite DEF ReturnsOf
    <2>2. RefundPart(row, ReturnsOf(s)) = 0
      BY <2>1 DEF RefundPart, IsReceipt
    <2>3. {a \in A : a.sale = s /\ a.inst \in 0..MaxInstallments} = {a \in A : a.sale = s}
      BY DEF MoneyRow
    <2>4. Part(row, 0..MaxInstallments, s) = TotalOf({a \in A : a.sale = s})
      BY <2>3 DEF Part
    <2>5. Part(row, 0..MaxInstallments, s) \in Nat
      BY PartNat
    <2>6. e[s] = Net(row, ReturnsOf(s), s)
      OBVIOUS
    <2> HIDE DEF A
    <2> QED BY <2>2, <2>4, <2>5, <2>6 DEF Net
  <1>2. IsFiniteSet(A) /\ \A a \in A : f[a] \in Int /\ k[a] \in Live
    BY DEF MoneyRow
  <1>3. \A s \in Live : e[s] = SumFunctionOnSet(f, {a \in A : k[a] = s})
    <2> SUFFICES ASSUME NEW s \in Live PROVE e[s] = SumFunctionOnSet(f, {a \in A : k[a] = s})
      OBVIOUS
    <2> DEFINE B == {a \in A : a.sale = s}
               g == [a \in B |-> a.amount]
    <2>1. B = {a \in A : k[a] = s} /\ B \in SUBSET A
      OBVIOUS
    <2>2. e[s] = SumFunctionOnSet(g, B)
      BY <1>1 DEF TotalOf, SumFunction
    <2>3. \A a \in B : g[a] = f[a]
      OBVIOUS
    <2> HIDE DEF A, B, f, g, k
    <2>4. IsFiniteSet(B)
      BY <1>2, <2>1, FS_Subset
    <2>5. SumFunctionOnSet(g, B) = SumFunctionOnSet(f, B)
      BY <2>3, <2>4, SumSame
    <2> QED BY <2>1, <2>2, <2>5
  <1>4. row.amount = SumFunctionOnSet(f, A)
    BY DEF IsReceipt, TotalOf, SumFunction
  <1> HIDE DEF A, f, k
  <1>5. SumFunctionOnSet(e, Live) = SumFunctionOnSet(f, A)
    <2>1. PICK K, C : K = Live /\ C = [s \in K |-> {a \in A : k[a] = s}]
      OBVIOUS
    <2>2. IsFiniteSet(K) /\ IsFiniteSet(A)
      BY <1>2, <2>1, LiveIsFinite
    <2>3. \A a \in A : f[a] \in Int
      BY <1>2
    <2>4. /\ \A s \in K : C[s] \in SUBSET A
          /\ \A a \in A : \E c \in K : a \in C[c] /\ \A d \in K : a \in C[d] => d = c
      BY <1>2, <2>1
    <2>5. \A s \in K : e[s] = SumFunctionOnSet(f, C[s])
      BY <1>3, <2>1
    <2>6. SumFunctionOnSet(e, K) = SumFunctionOnSet(f, A)
      BY <2>2, <2>3, <2>4, <2>5, SumPartition
    <2> QED BY <2>1, <2>6
  <1> QED BY <1>4, <1>5

(* A refund gives back to the sale of its return what it moves.            *)
LEMMA RefundOverSales ==
  ASSUME ReturnsInv, NEW row, MoneyRow(row), IsRefund(row), returns[row.return].sale \in Live,
         NEW e, \A s \in Live : e[s] = Net(row, ReturnsOf(s), s)
  PROVE  SumFunctionOnSet(e, Live) = - row.amount
  <1>1. PICK t \in Live : t = returns[row.return].sale
    OBVIOUS
  <1>2. row.amount \in Nat
    BY DEF MoneyRow
  <1>3. \A s \in Live : /\ Part(row, 0..MaxInstallments, s) = 0
                        /\ RefundPart(row, ReturnsOf(s)) = IF s = t THEN row.amount ELSE 0
    BY <1>1, PartOfNone DEF IsRefund, RefundPart, ReturnsOf
  <1>4. \A s \in Live : e[s] = IF s = t THEN - row.amount ELSE 0
    <2> SUFFICES ASSUME NEW s \in Live PROVE e[s] = IF s = t THEN - row.amount ELSE 0
      OBVIOUS
    <2>1. e[s] = Part(row, 0..MaxInstallments, s) - RefundPart(row, ReturnsOf(s))
      BY DEF Net
    <2> QED BY <1>2, <1>3, <2>1
  <1>5. {t} \in SUBSET Live /\ (\A s \in {t} : e[s] \in Int) /\ (\A s \in Live \ {t} : e[s] = 0)
    BY <1>2, <1>4
  <1>6. SumFunctionOnSet(e, Live) = SumFunctionOnSet(e, {t})
    BY <1>5, LiveIsFinite, SumSupport
  <1>7. SumFunctionOnSet(e, {t}) = e[t]
    BY <1>5, SumOne
  <1> QED BY <1>4, <1>6, <1>7

-----------------------------------------------------------------------------
(***************************************************************************)
(* The cash and the drawer (closeCashierShift).                            *)
(***************************************************************************)
(* The cash a row moves.                                                   *)
RowCash(row) == IF row.direction = "incoming" THEN row.amount ELSE - row.amount

(* The cash of some rows is the sum of any function that gives what each   *)
(* moves.                                                                  *)
LEMMA CashRows ==
  ASSUME NEW P, NEW w, IsFiniteSet(P), \A p \in P : w[p] = RowCash(payments[p])
  PROVE  CashOf(P) = SumFunctionOnSet(w, P)
  <1>1. PICK f : f = [p \in P |-> CashEffect(p)]
    OBVIOUS
  <1>2. CashOf(P) = SumFunctionOnSet(f, P)
    BY <1>1 DEF CashOf, SumFunction
  <1>3. \A p \in P : f[p] = w[p]
    BY <1>1 DEF CashEffect, RowCash
  <1> QED BY <1>2, <1>3, SumSame

(* So it is after a step.                                                  *)
LEMMA CashRowsNext ==
  ASSUME NEW P, NEW w, IsFiniteSet(P), \A p \in P : w[p] = RowCash(payments'[p])
  PROVE  CashOf(P)' = SumFunctionOnSet(w, P)
  <1>1. PICK f : f = [p \in P |-> CashEffect(p)']
    OBVIOUS
  <1>2. CashOf(P)' = SumFunctionOnSet(f, P)
    BY <1>1 DEF CashOf, SumFunction
  <1>3. \A p \in P : f[p] = w[p]
    BY <1>1 DEF CashEffect, RowCash
  <1> QED BY <1>2, <1>3, SumSame

(* The cash is a matter of the rows alone.                                 *)
LEMMA CashSame == ASSUME payments' = payments PROVE (CashOf(DOMAIN payments))' = CashOf(DOMAIN payments)
  BY DEF CashOf, CashEffect

(* One row added moves its own cash, whatever is marked with it: a         *)
(* reversed row still counts and its reversal counts against it.           *)
LEMMA CashAdded ==
  ASSUME MoneyInv, MoneyInv', NEW R, R \subseteq DOMAIN payments, Extends(R),
         NEW k, k = Len(payments) + 1, Len(payments') = k
  PROVE  /\ (CashOf(DOMAIN payments))' = CashOf(DOMAIN payments) + RowCash(payments'[k])
         /\ CashOf(DOMAIN payments) \in Int /\ RowCash(payments'[k]) \in Int
  <1>1. PICK w : w = [p \in DOMAIN payments' |-> RowCash(payments'[p])]
    OBVIOUS
  <1>2. PICK D : D = DOMAIN payments
    OBVIOUS
  <1>3. /\ Len(payments) \in Nat /\ DOMAIN payments = 1..Len(payments) /\ DOMAIN payments' = 1..Len(payments')
        /\ \A p \in 1..Len(payments) : /\ payments'[p].amount = payments[p].amount
                                       /\ payments'[p].direction = payments[p].direction
    BY RowsKept DEF MoneyInv
  <1>4. k \notin D /\ DOMAIN payments' = D \cup {k} /\ IsFiniteSet(D)
    <2>1. IsFiniteSet(D)
      BY <1>2, PostedIsFinite DEF MoneyInv
    <2> QED BY <1>2, <1>3, <2>1
  <1>5. \A p \in D : w[p] = RowCash(payments[p])
    BY <1>1, <1>2, <1>3, <1>4 DEF RowCash
  <1>6. w[k] = RowCash(payments'[k]) /\ \A p \in D \cup {k} : w[p] = RowCash(payments'[p])
    BY <1>1, <1>4
  <1>7. \A p \in D \cup {k} : w[p] \in Int
    <2>1. \A p \in D \cup {k} : MoneyRow(payments'[p])
      BY <1>4 DEF MoneyInv, RowsInv, MoneyRows
    <2> QED BY <1>6, <2>1 DEF RowCash, MoneyRow
  <1>8. CashOf(D) = SumFunctionOnSet(w, D)
    BY <1>4, <1>5, CashRows
  <1>9. CashOf(D \cup {k})' = SumFunctionOnSet(w, D \cup {k})
    <2>1. IsFiniteSet(D \cup {k})
      BY <1>4, FS_AddElement
    <2> QED BY <1>6, <2>1, CashRowsNext
  <1>10. SumFunctionOnSet(w, D \cup {k}) = w[k] + SumFunctionOnSet(w, D)
    BY <1>4, <1>7, SumAdd
  <1>11. SumFunctionOnSet(w, D) \in Int
    BY <1>4, <1>7, SumInt
  <1>12. (CashOf(DOMAIN payments))' = CashOf(D \cup {k})'
    BY <1>4 DEF CashOf, CashEffect
  <1>13. w[k] \in Int
    BY <1>7
  <1> QED BY <1>2, <1>6, <1>8, <1>9, <1>10, <1>11, <1>12, <1>13

(* A shift has no variance until it is closed.                             *)
ShiftsInv ==
  /\ DOMAIN shifts = Shifts
  /\ \A h \in Shifts : /\ DOMAIN shifts[h] = {"status", "variance"} /\ shifts[h].variance \in Int
                       /\ shifts[h].status \in {"none", "open"} => shifts[h].variance = 0

(* There are finitely many shifts.                                         *)
LEMMA ShiftsFinite == IsFiniteSet(Shifts)
  BY SaleAssumption, FS_Interval DEF Shifts

(* The variances counted are a number together.                            *)
LEMMA VariancesInt == ASSUME ShiftsInv PROVE Variances \in Int
  <1> DEFINE f == [h \in Shifts |-> shifts[h].variance]
  <1>1. \A h \in Shifts : f[h] \in Int
    BY DEF ShiftsInv
  <1>2. Variances = SumFunctionOnSet(f, Shifts)
    BY DEF Variances, SumFunction
  <1> HIDE DEF f
  <1> QED BY <1>1, <1>2, ShiftsFinite, SumInt

(* While no variance changes they are the same together.                   *)
LEMMA VariancesSame ==
  ASSUME \A h \in Shifts : shifts'[h].variance = shifts[h].variance
  PROVE  Variances' = Variances
  <1>1. [h \in Shifts |-> shifts'[h].variance] = [h \in Shifts |-> shifts[h].variance]
    OBVIOUS
  <1> QED BY <1>1 DEF Variances

(* The close of an open shift adds its variance (closeCashierShift).       *)
LEMMA VarianceAdded ==
  ASSUME ShiftsInv, NEW h \in Shifts, shifts[h].status = "open", NEW v \in Int, shifts'[h].variance = v,
         \A g \in Shifts \ {h} : shifts'[g].variance = shifts[g].variance
  PROVE  Variances' = Variances + v /\ Variances \in Int
  <1> DEFINE f == [g \in Shifts |-> shifts[g].variance]
             e == [g \in Shifts |-> shifts'[g].variance]
  <1>1. Variances = SumFunctionOnSet(f, Shifts) /\ Variances' = SumFunctionOnSet(e, Shifts)
    BY DEF Variances, SumFunction
  <1>2. (\A g \in Shifts : f[g] \in Int) /\ e[h] = v /\ f[h] = 0 /\ (\A g \in Shifts \ {h} : e[g] = f[g])
    BY DEF ShiftsInv
  <1> HIDE DEF f, e
  <1>3. SumFunctionOnSet(e, Shifts) = SumFunctionOnSet(f, Shifts) - f[h] + e[h]
    BY <1>2, ShiftsFinite, SumChange
  <1> QED BY <1>1, <1>2, <1>3, VariancesInt

(* Every command leaves shifts that are not closed without a variance.     *)
LEMMA NextShifts == ASSUME RowsInv, PaymentsInv, ShiftsInv, [Next]_vars PROVE ShiftsInv'
  <1>1. CASE \E h \in Shifts : OpenCashierShift(h)
    BY <1>1 DEF OpenCashierShift, ShiftsInv
  <1>2. CASE \E h \in Shifts :
               \E counted \in Nat \cap ((NetCash(h) - MaxVariance)..(NetCash(h) + MaxVariance)) :
                 CloseCashierShift(h, counted)
    <2>1. PICK h \in Shifts, counted \in Nat : CloseCashierShift(h, counted)
      BY <1>2
    <2>2. {p \in DOMAIN payments : payments[p].shift = h} \in SUBSET DOMAIN payments
      OBVIOUS
    <2>3. NetCash(h) \in Int
      BY <2>2, CashInt DEF NetCash
    <2>4. counted - NetCash(h) \in Int
      BY <2>3
    <2>5. PICK v \in Int, status \in {"approved", "closed"} :
            shifts' = [shifts EXCEPT ![h] = [status |-> status, variance |-> v]]
      BY <2>1, <2>4 DEF CloseCashierShift
    <2> QED BY <2>5 DEF ShiftsInv
  <1>3. CASE shifts' = shifts
    BY <1>3 DEF ShiftsInv
  <1>4. CASE \/ \E s \in Sales, U \in (SUBSET Units) \ {{}}, h \in ShiftOrNone :
                  \E paid \in 0..Cardinality(U) : PostSale(s, U, paid, h)
             \/ \E S \in SUBSET Sales, h \in ShiftOrNone : CollectCustomerPayment(S, h)
             \/ \E s \in Sales : \E V \in SUBSET sales[s].units, c \in Conditions, d \in Dispositions :
                  PostSaleReturn(s, V, c, d)
             \/ \E r \in DOMAIN returns : \E amount \in 1..Credit(r), h \in ShiftOrNone : RefundReturn(r, amount, h)
             \/ \E p \in DOMAIN payments : ReversePayment(p)
             \/ \E s \in Sales : VoidSale(s)
             \/ Tomorrow
             \/ UNCHANGED vars
    <2>1. shifts' = shifts
      BY <1>4 DEF PostSale, CollectCustomerPayment, PostSaleReturn, RefundReturn, ReversePayment, VoidSale,
                  Tomorrow, vars
    <2> QED BY <1>3, <2>1
  <1> QED BY <1>1, <1>2, <1>4 DEF Next

(* It holds before the first shift.                                        *)
LEMMA InitShifts == Init => ShiftsInv
  BY DEF Init, ShiftsInv

-----------------------------------------------------------------------------
(***************************************************************************)
(* The books: the debt of the standing sales, the cash of the payments and *)
(* the variances of the shifts against the ledger.                         *)
(***************************************************************************)
(* What the void and the reversal are asked to leave alone (BooksAgree).   *)
Clean ==
  /\ \A s \in Sales : sales[s].status = "voided" => CleanVoid(s)
  /\ \A p \in DOMAIN payments : payments[p].status = "reversed" => payments[p].reverses = 0

BooksInv == Clean => gl["ar"] = Owing /\ gl["cash"] = CashOf(DOMAIN payments) + Variances

(* The invariant says what BooksAgree says.                                *)
LEMMA BooksInvIsEnough == BooksInv => BooksAgree
  BY DEF BooksInv, BooksAgree, Clean, Owing, Variances

(* The sale a void meets clean was clean before.                           *)
LEMMA CleanVoidBefore ==
  ASSUME PaymentsInv, NEW R, R \subseteq DOMAIN payments, Extends(R), NEW s, CleanVoid(s)'
  PROVE  CleanVoid(s)
  <1>1. /\ Len(payments) \in Nat /\ Len(payments') \in Nat /\ Len(payments) <= Len(payments')
        /\ DOMAIN payments = 1..Len(payments) /\ DOMAIN payments' = 1..Len(payments')
        /\ \A p \in 1..Len(payments) : /\ payments'[p].reverses = payments[p].reverses
                                       /\ payments'[p].ref = payments[p].ref
                                       /\ payments'[p].allocations = payments[p].allocations
    BY RowsKept
  <1>2. DOMAIN payments \subseteq DOMAIN payments'
    BY <1>1
  <1>3. PaidFor(s) \subseteq PaidFor(s)' /\ PaidFor(s) \subseteq DOMAIN payments
    BY <1>1, <1>2 DEF PaidFor
  <1>4. \A p \in PaidFor(s) : \A a \in payments[p].allocations : a.inst = 0
    BY <1>1, <1>3 DEF CleanVoid
  <1>5. \A p \in PaidFor(s) : \A q \in DOMAIN payments : payments[q].reverses = p => payments[q].ref = "-REV"
    BY <1>1, <1>2, <1>3 DEF CleanVoid
  <1> QED BY <1>4, <1>5 DEF CleanVoid

(* A history that is clean was clean before its last step, and the rows    *)
(* that step marked were no reversals.                                     *)
LEMMA CleanBefore ==
  ASSUME PaymentsInv, NEW R, R \subseteq DOMAIN payments, Extends(R),
         \A t \in Sales : sales[t].status = "voided" => sales'[t].status = "voided",
         Clean'
  PROVE  Clean /\ \A p \in R : payments[p].reverses = 0
  <1>1. /\ Len(payments) \in Nat /\ Len(payments') \in Nat /\ Len(payments) <= Len(payments')
        /\ DOMAIN payments = 1..Len(payments) /\ DOMAIN payments' = 1..Len(payments')
        /\ \A p \in 1..Len(payments) : /\ payments'[p].reverses = payments[p].reverses
                                       /\ payments'[p].ref = payments[p].ref
                                       /\ payments'[p].allocations = payments[p].allocations
    BY RowsKept
  <1>2. DOMAIN payments \subseteq DOMAIN payments'
    BY <1>1
  <1>3. \A p \in DOMAIN payments : payments'[p] = IF p \in R THEN Marked(payments[p]) ELSE payments[p]
    BY <1>1 DEF Extends
  <1>4. \A p \in DOMAIN payments : IsRow(payments[p])
    BY DEF PaymentsInv
  <1>5. \A p \in DOMAIN payments : payments[p].status = "reversed" \/ p \in R => payments'[p].status = "reversed"
    BY <1>3, <1>4 DEF Marked, IsRow, Fields
  <1>6. \A p \in DOMAIN payments : payments[p].status = "reversed" \/ p \in R => payments[p].reverses = 0
    BY <1>1, <1>2, <1>5 DEF Clean
  <1>7. ASSUME NEW s \in Sales, sales[s].status = "voided" PROVE CleanVoid(s)
    <2>1. CleanVoid(s)'
      BY <1>7 DEF Clean
    <2> QED BY <2>1, CleanVoidBefore
  <1> QED BY <1>6, <1>7 DEF Clean

(* Ledger, debt, cash and variances that move together stay together.      *)
LEMMA Balance ==
  ASSUME MoneyInv, ShiftsInv, GlInv, BooksInv, Clean' => Clean,
         NEW x \in Int, NEW y \in Int, NEW z \in Int,
         Clean' => Owing' = Owing + x,
         Clean' => (CashOf(DOMAIN payments))' = CashOf(DOMAIN payments) + y,
         Variances' = Variances + z,
         gl'["ar"] = gl["ar"] + x, gl'["cash"] = gl["cash"] + (y + z)
  PROVE  BooksInv'
  <1> SUFFICES ASSUME Clean'
               PROVE  gl'["ar"] = Owing' /\ gl'["cash"] = (CashOf(DOMAIN payments))' + Variances'
    BY DEF BooksInv
  <1>1. Owing \in Int /\ CashOf(DOMAIN payments) \in Int /\ Variances \in Int
    BY OwingInt, CashInt, VariancesInt DEF MoneyInv
  <1>2. gl["ar"] = Owing /\ gl["cash"] = CashOf(DOMAIN payments) + Variances
    BY DEF BooksInv
  <1>3. gl'["ar"] = Owing + x /\ gl'["cash"] = CashOf(DOMAIN payments) + Variances + (y + z)
    BY <1>2
  <1>4. Owing' = Owing + x /\ (CashOf(DOMAIN payments))' = CashOf(DOMAIN payments) + y
    OBVIOUS
  <1>5. PICK o, c, v : o = Owing' /\ c = (CashOf(DOMAIN payments))' /\ v = Variances'
    OBVIOUS
  <1>6. o = Owing + x /\ c = CashOf(DOMAIN payments) + y /\ v = Variances + z
    BY <1>4, <1>5
  <1>7. gl'["ar"] = o /\ gl'["cash"] = c + v
    BY <1>1, <1>3, <1>6
  <1> QED BY <1>5, <1>7

(* An entry of cash and receivable moves those two accounts.               *)
LEMMA MoneyEntry ==
  ASSUME GlInv, NEW x \in Int, NEW y \in Int, gl' = Posting([cash |-> y, ar |-> x])
  PROVE  gl'["ar"] = gl["ar"] + x /\ gl'["cash"] = gl["cash"] + (y + 0)
  <1> DEFINE d == [cash |-> y, ar |-> x]
  <1>1. d["cash"] = y /\ d["ar"] = x /\ DOMAIN d = {"cash", "ar"} /\ gl' = Posting(d)
    OBVIOUS
  <1> HIDE DEF d
  <1>2. \A a \in DOMAIN d : d[a] \in Int
    BY <1>1
  <1>3. \A a \in Accounts : gl'[a] = IF a \in DOMAIN d THEN gl[a] + d[a] ELSE gl[a]
    BY <1>1, <1>2, PostingAdds
  <1>4. gl'["ar"] = gl["ar"] + x /\ gl'["cash"] = gl["cash"] + y
    BY <1>1, <1>3 DEF Accounts
  <1>5. y + 0 = y
    OBVIOUS
  <1> QED BY <1>4, <1>5

(* A command that leaves the sales leaves which of them stand and what     *)
(* they sold.                                                              *)
LEMMA SameSalesStand ==
  ASSUME sales' = sales
  PROVE  /\ Live' = Live /\ \A s : Qty(s)' = Qty(s)
         /\ \A t \in Sales : sales[t].status = "voided" => sales'[t].status = "voided"
  BY DEF Live, Qty

(* A receipt or a refund added moves the debt and the cash by its amount,  *)
(* as its entry does.                                                      *)
LEMMA RowBooks ==
  ASSUME StoryInv, MoneyInv', ShiftsInv, GlInv, BooksInv,
         sales' = sales, returns' = returns, shifts' = shifts, Extends({}),
         NEW k, k = Len(payments) + 1, Len(payments') = k,
         NEW y \in Int, y = RowCash(payments'[k]), gl' = Posting([cash |-> y, ar |-> - y]),
         \A e : (\A s \in Live : e[s] = Net(payments'[k], ReturnsOf(s), s)) => SumFunctionOnSet(e, Live) = y
  PROVE  BooksInv'
  <1>0. MoneyInv /\ PaymentsInv /\ {} \subseteq DOMAIN payments
    BY DEF StoryInv, MoneyInv
  <1>1. Live' = Live /\ (\A s : Qty(s)' = Qty(s))
        /\ \A t \in Sales : sales[t].status = "voided" => sales'[t].status = "voided"
    BY SameSalesStand
  <1>2. Clean' => Clean
    BY <1>0, <1>1, CleanBefore
  <1>3. PICK L, e, m : /\ L = Live /\ e = [s \in L |-> Net(payments'[k], ReturnsOf(s), s)]
                       /\ m = [s \in L |-> - e[s]]
    OBVIOUS
  <1>4. \A s \in L : /\ SaleOutstanding(s)' = SaleOutstanding(s) + m[s]
                     /\ e[s] \in Int /\ m[s] \in Int
    <2> SUFFICES ASSUME NEW s \in L
                 PROVE  /\ SaleOutstanding(s)' = SaleOutstanding(s) + m[s]
                        /\ e[s] \in Int /\ m[s] \in Int
      OBVIOUS
    <2>1. s \in Sales
      BY <1>3, LiveIsFinite
    <2>2. /\ SaleOutstanding(s)' =
              SaleOutstanding(s) + (Qty(s)' - Qty(s)) - Net(payments'[k], ReturnsOf(s), s)
          /\ SaleOutstanding(s) \in Int /\ Qty(s) \in Int /\ Qty(s)' \in Int
          /\ Net(payments'[k], ReturnsOf(s), s) \in Int
      BY <1>0, <2>1, OutstandingAdded
    <2>3. e[s] = Net(payments'[k], ReturnsOf(s), s) /\ m[s] = - e[s]
      BY <1>3
    <2>4. SaleOutstanding(s)' = SaleOutstanding(s) + (Qty(s) - Qty(s)) - e[s]
      BY <1>1, <2>2, <2>3
    <2> QED BY <2>2, <2>3, <2>4
  <1>5. Owing' = Owing + SumFunctionOnSet(m, L)
    <2>1. \A s \in Live : m[s] \in Int /\ SaleOutstanding(s)' = SaleOutstanding(s) + m[s]
      BY <1>3, <1>4
    <2> QED BY <1>0, <1>1, <1>3, <2>1, OwingChange
  <1>6. SumFunctionOnSet(m, L) = - y
    <2>1. SumFunctionOnSet(e, L) = y
      BY <1>3
    <2>2. IsFiniteSet(L)
      BY <1>3, LiveIsFinite
    <2>3. PICK z : z = [s \in L |-> 0]
      OBVIOUS
    <2>4. SumFunctionOnSet(z, L) = 0
      BY <2>2, <2>3, SumZero
    <2>5. \A s \in L : z[s] \in Int /\ e[s] \in Int /\ m[s] = z[s] - e[s]
      BY <1>3, <1>4, <2>3
    <2>6. SumFunctionOnSet(m, L) = SumFunctionOnSet(z, L) - SumFunctionOnSet(e, L)
      BY <2>2, <2>5, SumMinus
    <2> QED BY <2>1, <2>4, <2>6
  <1>7. (CashOf(DOMAIN payments))' = CashOf(DOMAIN payments) + y
    BY <1>0, CashAdded
  <1>8. Variances' = Variances + 0
    <2>1. Variances' = Variances /\ Variances \in Int
      BY VariancesSame, VariancesInt
    <2> QED BY <2>1
  <1>9. - y \in Int /\ 0 \in Int
    OBVIOUS
  <1>10. gl'["ar"] = gl["ar"] + (- y) /\ gl'["cash"] = gl["cash"] + (y + 0)
    BY <1>9, MoneyEntry
  <1>11. Owing' = Owing + (- y)
    BY <1>5, <1>6
  <1> QED BY <1>0, <1>2, <1>7, <1>8, <1>9, <1>10, <1>11, Balance

(* collectCustomerPayment: the debt of all the sales it pays falls by the  *)
(* amount collected.                                                       *)
LEMMA CollectionBooks ==
  ASSUME StoryInv, MoneyInv', ShiftsInv, GlInv, BooksInv, NEW S \in SUBSET Sales, NEW h,
         CollectCustomerPayment(S, h)
  PROVE  BooksInv'
  <1>0. PaymentsInv /\ SalesInv /\ ReturnsInv /\ MoneyRows
    BY DEF StoryInv, MoneyInv, RowsInv
  <1>1. PICK amount, A :
           /\ amount \in Nat \ {0}
           /\ payments' = Append(payments, Receipt(amount, h, A))
           /\ gl' = Posting([cash |-> amount, ar |-> - amount])
           /\ IsFiniteSet(A) /\ TotalOf(A) = amount
           /\ \A a \in A : /\ a.sale \in Sales /\ a.inst \in 1..MaxInstallments /\ a.amount \in Nat \ {0}
                           /\ sales[a.sale].status \in OpenSaleStatuses
    BY <1>0, CollectionRow
  <1> DEFINE row == Receipt(amount, h, A)
  <1>2. /\ IsRow(row) /\ row.status = "posted" /\ row.reverses = 0 /\ row.allocations = A
        /\ IsReceipt(row) /\ row.amount = amount /\ row.direction = "incoming"
    BY <1>1 DEF Receipt, IsRow, Fields, IsReceipt
  <1>3. payments' = Append(payments, row)
    BY <1>1
  <1> HIDE DEF row
  <1>4. PICK k : k = Len(payments) + 1
    OBVIOUS
  <1>5. Extends({}) /\ Len(payments') = k /\ payments'[k] = row
    BY <1>0, <1>2, <1>3, <1>4, AppendedRow
  <1>6. sales' = sales /\ returns' = returns /\ shifts' = shifts
    BY DEF CollectCustomerPayment
  <1>7. amount = RowCash(payments'[k]) /\ amount \in Int
    <2>1. amount \in Nat
      BY <1>1
    <2> QED BY <1>2, <1>5, <2>1 DEF RowCash
  <1>8. \A e : (\A s \in Live : e[s] = Net(payments'[k], ReturnsOf(s), s)) => SumFunctionOnSet(e, Live) = amount
    <2> SUFFICES ASSUME NEW e, \A s \in Live : e[s] = Net(row, ReturnsOf(s), s)
                 PROVE  SumFunctionOnSet(e, Live) = amount
      BY <1>5
    <2>1. MoneyRow(row)
      <3>1. k \in DOMAIN payments'
        <4>1. Len(payments) \in Nat /\ DOMAIN payments' = 1..Len(payments')
          BY DEF MoneyInv, PaymentsInv, IsSequence, StoryInv
        <4> QED BY <1>4, <1>5, <4>1
      <3> QED BY <1>5, <3>1 DEF MoneyInv, RowsInv, MoneyRows
    <2>2. \A a \in row.allocations : a.sale \in Live
      BY <1>1, <1>2 DEF Live, OpenSaleStatuses
    <2> QED BY <1>0, <1>2, <2>1, <2>2, ReceiptOverSales
  <1> QED BY <1>1, <1>4, <1>5, <1>6, <1>7, <1>8, RowBooks

(* A refund: the debt of its sale rises by what is given back.             *)
LEMMA RefundBooks ==
  ASSUME StoryInv, MoneyInv', ShiftsInv, GlInv, BooksInv,
         NEW r \in DOMAIN returns, NEW amount \in 1..Credit(r), NEW h, RefundReturn(r, amount, h)
  PROVE  BooksInv'
  <1>0. PaymentsInv /\ SalesInv /\ ReturnsInv /\ MoneyRows /\ GoodsInv
    BY DEF StoryInv, MoneyInv, RowsInv
  <1>1. amount \in Nat
    <2>1. Credit(r) \in Nat
      BY <1>0, ReturnsFinite
    <2> QED BY <2>1
  <1> DEFINE row == [Receipt(amount, h, {}) EXCEPT !.direction = "outgoing", !.return = r]
  <1>2. /\ IsRow(row) /\ row.status = "posted" /\ row.reverses = 0 /\ row.allocations = {}
        /\ IsRefund(row) /\ row.amount = amount /\ row.direction = "outgoing" /\ row.return = r
    BY DEF Receipt, IsRow, Fields, IsRefund
  <1>3. payments' = Append(payments, row) /\ gl' = Posting([cash |-> - amount, ar |-> amount])
    BY DEF RefundReturn
  <1> HIDE DEF row
  <1>4. PICK k : k = Len(payments) + 1
    OBVIOUS
  <1>5. Extends({}) /\ Len(payments') = k /\ payments'[k] = row
    BY <1>0, <1>2, <1>3, <1>4, AppendedRow
  <1>6. sales' = sales /\ returns' = returns /\ shifts' = shifts
    BY DEF RefundReturn
  <1>7. PICK y \in Int : y = - amount /\ amount = - y
    BY <1>1
  <1>8. y = RowCash(payments'[k]) /\ gl' = Posting([cash |-> y, ar |-> - y])
    <2>1. RowCash(row) = - amount
      BY <1>2 DEF RowCash
    <2> QED BY <1>3, <1>5, <1>7, <2>1
  <1>9. \A e : (\A s \in Live : e[s] = Net(payments'[k], ReturnsOf(s), s)) => SumFunctionOnSet(e, Live) = y
    <2> SUFFICES ASSUME NEW e, \A s \in Live : e[s] = Net(row, ReturnsOf(s), s)
                 PROVE  SumFunctionOnSet(e, Live) = y
      BY <1>5
    <2>1. MoneyRow(row)
      <3>1. k \in DOMAIN payments'
        <4>1. Len(payments) \in Nat /\ DOMAIN payments' = 1..Len(payments')
          BY DEF MoneyInv, PaymentsInv, IsSequence, StoryInv
        <4> QED BY <1>4, <1>5, <4>1
      <3> QED BY <1>5, <3>1 DEF MoneyInv, RowsInv, MoneyRows
    <2>2. returns[row.return].sale \in Live
      BY <1>0, <1>2 DEF GoodsInv, ReturnsShow, ReturnsInv, Live
    <2>3. SumFunctionOnSet(e, Live) = - row.amount
      BY <1>0, <1>2, <2>1, <2>2, RefundOverSales
    <2> QED BY <1>2, <1>7, <2>3
  <1> QED BY <1>4, <1>5, <1>6, <1>8, <1>9, RowBooks

(* A reversal moves the cash of its row the other way.                     *)
LEMMA ReversalCash ==
  ASSUME MoneyRows, NEW p \in DOMAIN payments, NEW ref, NEW shift
  PROVE  RowCash(Reversal(p, ref, shift)) = - RowCash(payments[p]) /\ RowCash(payments[p]) \in Int
  <1>1. payments[p].direction \in {"incoming", "outgoing"} /\ payments[p].amount \in Nat
    BY DEF MoneyRows, MoneyRow
  <1>2. /\ Reversal(p, ref, shift).amount = payments[p].amount
        /\ Reversal(p, ref, shift).direction = Opposite(payments[p].direction)
    BY DEF Reversal
  <1>3. CASE payments[p].direction = "incoming"
    BY <1>1, <1>2, <1>3 DEF RowCash, Opposite
  <1>4. CASE payments[p].direction = "outgoing"
    <2>1. RowCash(Reversal(p, ref, shift)) = payments[p].amount /\ RowCash(payments[p]) = - payments[p].amount
      BY <1>2, <1>4 DEF RowCash, Opposite
    <2> QED BY <1>1, <2>1
  <1> QED BY <1>1, <1>3, <1>4

(* A posted receipt or refund is worth, to the standing sales, its cash.   *)
LEMMA PostedOverSales ==
  ASSUME StoryInv, NEW p \in Posted, payments[p].reverses = 0,
         NEW e, \A s \in Live : e[s] = Net(payments[p], ReturnsOf(s), s)
  PROVE  SumFunctionOnSet(e, Live) = RowCash(payments[p])
  <1>0. PaymentsInv /\ ReturnsInv /\ MoneyRows /\ RowsInv /\ GoodsInv /\ KindsInv /\ VoidsInv
    BY DEF StoryInv, MoneyInv, RowsInv
  <1>1. p \in DOMAIN payments /\ MoneyRow(payments[p])
    BY <1>0 DEF Posted, MoneyRows
  <1>2. CASE IsReceipt(payments[p])
    <2>1. \A a \in payments[p].allocations : a.sale \in Live
      BY <1>0, <1>1 DEF VoidsInv, RowsInv, AllocationsFit, MoneyRow, Live
    <2>2. SumFunctionOnSet(e, Live) = payments[p].amount
      BY <1>0, <1>1, <1>2, <2>1, ReceiptOverSales
    <2> QED BY <1>2, <2>2 DEF RowCash, IsReceipt
  <1>3. CASE IsRefund(payments[p])
    <2>1. returns[payments[p].return].sale \in Live
      BY <1>0, <1>3 DEF GoodsInv, ReturnsShow, ReturnsInv, Live, IsRefund
    <2>2. SumFunctionOnSet(e, Live) = - payments[p].amount
      BY <1>0, <1>1, <1>3, <2>1, RefundOverSales
    <2> QED BY <1>3, <2>2 DEF RowCash, IsRefund
  <1> QED BY <1>0, <1>1, <1>2, <1>3 DEF KindsInv, IsReversal

(* reversePayment: the debt rises by what the row was worth, and the cash  *)
(* goes back.                                                              *)
LEMMA ReversalBooks ==
  ASSUME StoryInv, MoneyInv', ShiftsInv, GlInv, BooksInv, NEW p \in DOMAIN payments, ReversePayment(p)
  PROVE  BooksInv'
  <1>0. MoneyInv /\ PaymentsInv /\ ReturnsInv /\ MoneyRows
    BY DEF StoryInv, MoneyInv, RowsInv
  <1>1. PICK row : row = Reversal(p, "PMT-REV", payments[p].shift)
    OBVIOUS
  <1>2. PICK k : k = Len(payments) + 1
    OBVIOUS
  <1>3. PICK R : R = {p}
    OBVIOUS
  <1>4. /\ Extends(R) /\ R \subseteq Posted /\ R \subseteq DOMAIN payments /\ p \in Posted
        /\ Len(payments') = k /\ payments'[k] = row
    BY <1>0, <1>1, <1>2, <1>3, ReversalExtends
  <1>5. Blank(row) /\ RowCash(row) = - RowCash(payments[p]) /\ RowCash(payments[p]) \in Int
    <2>1. Blank(row)
      BY <1>1 DEF Reversal, Blank
    <2> QED BY <1>0, <1>1, <2>1, ReversalCash
  <1>6. sales' = sales /\ returns' = returns /\ shifts' = shifts
    BY DEF ReversePayment
  <1>7. Live' = Live /\ (\A s : Qty(s)' = Qty(s))
        /\ \A t \in Sales : sales[t].status = "voided" => sales'[t].status = "voided"
    BY <1>6, SameSalesStand
  <1>8. Clean' => Clean /\ payments[p].reverses = 0
    BY <1>0, <1>3, <1>4, <1>7, CleanBefore
  <1>9. PICK x, y \in Int : x = RowCash(payments[p]) /\ y = - x
    BY <1>5
  <1>10. \A q \in (Len(payments) + 1)..Len(payments') : Blank(payments'[q])
    <2>1. Len(payments) \in Nat
      BY <1>0, PostedIsFinite
    <2>2. \A q \in (Len(payments) + 1)..Len(payments') : q = k
      BY <1>2, <1>4, <2>1
    <2> QED BY <1>4, <1>5, <2>2
  <1>11. ASSUME Clean' PROVE Owing' = Owing + x
    <2>1. PICK L, e : L = Live /\ e = [s \in L |-> Net(payments[p], ReturnsOf(s), s)]
      OBVIOUS
    <2>2. \A s \in L : e[s] \in Int /\ SaleOutstanding(s)' = SaleOutstanding(s) + e[s]
      <3> SUFFICES ASSUME NEW s \in L PROVE e[s] \in Int /\ SaleOutstanding(s)' = SaleOutstanding(s) + e[s]
        OBVIOUS
      <3>1. s \in Sales
        BY <2>1, LiveIsFinite
      <3>2. /\ SaleOutstanding(s)' = SaleOutstanding(s) + (Qty(s)' - Qty(s)) + Taken(R, s)
            /\ SaleOutstanding(s) \in Int /\ Qty(s) \in Int /\ Qty(s)' \in Int /\ Taken(R, s) \in Int
        BY <1>0, <1>4, <1>6, <1>10, <3>1, OutstandingTaken
      <3>3. Taken(R, s) = e[s]
        BY <1>0, <1>3, <2>1, TakenOfOne
      <3>4. SaleOutstanding(s)' = SaleOutstanding(s) + (Qty(s) - Qty(s)) + e[s]
        BY <1>7, <3>2, <3>3
      <3> QED BY <3>2, <3>3, <3>4
    <2>3. \A s \in Live : e[s] \in Int /\ SaleOutstanding(s)' = SaleOutstanding(s) + e[s]
      BY <2>1, <2>2
    <2>4. Owing' = Owing + SumFunctionOnSet(e, Live)
      BY <1>0, <1>7, <2>3, OwingChange
    <2>5. \A s \in Live : e[s] = Net(payments[p], ReturnsOf(s), s)
      BY <2>1
    <2>6. SumFunctionOnSet(e, Live) = x
      BY <1>4, <1>8, <1>9, <1>11, <2>5, PostedOverSales
    <2> QED BY <2>4, <2>6
  <1>12. (CashOf(DOMAIN payments))' = CashOf(DOMAIN payments) + y
    <2>1. (CashOf(DOMAIN payments))' = CashOf(DOMAIN payments) + RowCash(payments'[k])
      BY <1>0, <1>2, <1>4, CashAdded
    <2> QED BY <1>4, <1>5, <1>9, <2>1
  <1>13. Variances' = Variances + 0
    <2>1. Variances' = Variances /\ Variances \in Int
      BY <1>6, VariancesSame, VariancesInt
    <2> QED BY <2>1
  <1>14. gl'["ar"] = gl["ar"] + x /\ gl'["cash"] = gl["cash"] + (y + 0)
    <2>1. CashEffect(p) = x /\ - CashEffect(p) = y
      BY <1>9 DEF CashEffect, RowCash
    <2>2. gl' = Posting([cash |-> - CashEffect(p), ar |-> CashEffect(p)])
      BY DEF ReversePayment
    <2>3. gl' = Posting([cash |-> y, ar |-> x])
      BY <2>1, <2>2
    <2> QED BY <2>3, MoneyEntry
  <1>15. 0 \in Int
    OBVIOUS
  <1> QED BY <1>0, <1>8, <1>11, <1>12, <1>13, <1>14, <1>15, Balance
-----------------------------------------------------------------------------
(* A sale without returns owes what it sold less what is allocated to it.  *)
LEMMA NothingReturned ==
  ASSUME NEW s, ReturnsOf(s) = {}, Allocated(s) \in Int, Qty(s) \in Int
  PROVE  SaleOutstanding(s) = Qty(s) - Allocated(s)
  <1>1. Credited(s) = 0
    BY SumEmpty DEF Credited, CreditOf, SumFunction
  <1>2. Refunded(ReturnsOf(s)) = 0
    <2>1. Refunds({}) = {}
      BY DEF Refunds
    <2> QED BY <2>1, SumEmpty DEF Refunded, SumFunction
  <1> QED BY <1>1, <1>2 DEF SaleOutstanding

(* A sale no posted row is allocated to has no money.                      *)
LEMMA NothingAllocated ==
  ASSUME PaymentsInv, NEW s, \A p \in Posted : \A a \in payments[p].allocations : a.sale # s
  PROVE  Allocated(s) = 0
  <1>1. PICK w : w = [p \in Posted |-> 0]
    OBVIOUS
  <1>2. \A p \in Posted : w[p] = Part(payments[p], 0..MaxInstallments, s)
    BY <1>1, PartOfNone
  <1>3. SumFunctionOnSet(w, Posted) = Allocated(s)
    BY <1>2, AllocatedIsSum DEF Allocated
  <1>4. SumFunctionOnSet(w, Posted) = 0
    BY <1>1, PostedIsFinite, SumZero
  <1> QED BY <1>3, <1>4

(* postSale: the new sale owes what was not paid.                          *)
LEMMA PostSaleBooks ==
  ASSUME StoryInv, MoneyInv', ShiftsInv, GlInv, BooksInv,
         NEW s \in Sales, NEW U \in SUBSET Units, NEW paid \in 0..Cardinality(U), NEW h,
         PostSale(s, U, paid, h)
  PROVE  BooksInv'
  <1>0. MoneyInv /\ PaymentsInv /\ ReturnsInv /\ MoneyRows /\ RowsInv /\ GoodsInv
    BY DEF StoryInv, MoneyInv, RowsInv
  <1>1. PICK q \in Nat : q = Cardinality(U)
    <2>1. IsFiniteSet(U)
      BY SaleAssumption, FS_Subset
    <2> QED BY <2>1, FS_CardinalityType
  <1>2. paid \in Nat
    BY <1>1
  <1>3. /\ sales[s].status = "none"
        /\ \A t \in Sales \ {s} : sales'[t] = sales[t]
        /\ sales'[s].status = "completed" /\ sales'[s].units = U
    BY <1>0, PostSaleData DEF MoneyInv
  <1>4. returns' = returns /\ shifts' = shifts
    BY DEF PostSale
  <1>5. s \in Sales \ Live /\ Live' = Live \cup {s} /\ \A t \in Live : t \in Sales \ {s}
    BY <1>3 DEF Live
  <1>6. \A t \in Sales : sales[t].status = "voided" => sales'[t].status = "voided"
    BY <1>3
  <1>7. Qty(s)' = q /\ \A t \in Live : Qty(t)' = Qty(t)
    BY <1>1, <1>3, <1>5 DEF Qty
  <1>8. SaleOutstanding(s) = Qty(s) /\ Qty(s) \in Int
    <2>1. ReturnsOf(s) = {}
      BY <1>0, <1>3 DEF GoodsInv, ReturnsShow, ReturnsOf
    <2>2. Allocated(s) = 0
      <3>1. \A p \in Posted : \A a \in payments[p].allocations : a.sale # s
        BY <1>0, <1>3 DEF RowsInv, AllocationsFit, Posted
      <3> QED BY <1>0, <3>1, NothingAllocated
    <2>3. Qty(s) \in Int
      BY LiveQty DEF StoryInv, MoneyInv
    <2>4. SaleOutstanding(s) = Qty(s) - Allocated(s)
      BY <2>1, <2>2, <2>3, NothingReturned
    <2> QED BY <2>2, <2>3, <2>4
  <1>9. /\ SaleOutstanding(s)' = q - paid
        /\ \A t \in Live : SaleOutstanding(t)' = SaleOutstanding(t)
        /\ (CashOf(DOMAIN payments))' = CashOf(DOMAIN payments) + paid
        /\ Clean' => Clean
    <2>1. CASE paid = 0
      <3>1. payments' = payments
        BY <2>1 DEF PostSale
      <3>2. Extends({}) /\ (Len(payments) + 1)..Len(payments') = {}
        BY <1>0, <3>1, NoNewRows
      <3>3. PICK R : R = {}
        OBVIOUS
      <3>4. /\ R \subseteq Posted /\ R \subseteq DOMAIN payments /\ Extends(R)
            /\ \A r \in (Len(payments) + 1)..Len(payments') : Blank(payments'[r])
        BY <3>2, <3>3
      <3>5. Clean' => Clean
        BY <1>0, <1>6, <3>4, CleanBefore
      <3>6. ASSUME NEW t \in Sales
            PROVE  SaleOutstanding(t)' = SaleOutstanding(t) + (Qty(t)' - Qty(t))
                   /\ SaleOutstanding(t) \in Int /\ Qty(t) \in Int /\ Qty(t)' \in Int
        <4>1. /\ SaleOutstanding(t)' = SaleOutstanding(t) + (Qty(t)' - Qty(t)) + Taken(R, t)
              /\ SaleOutstanding(t) \in Int /\ Qty(t) \in Int /\ Qty(t)' \in Int /\ Taken(R, t) \in Int
          BY <1>0, <1>4, <3>4, OutstandingTaken
        <4>2. Taken(R, t) = 0
          BY <3>3, TakenOfNone
        <4>3. SaleOutstanding(t)' = SaleOutstanding(t) + (Qty(t)' - Qty(t)) + 0
          BY <4>1, <4>2
        <4> QED BY <4>1, <4>3
      <3>7. SaleOutstanding(s)' = q - paid
        <4>1. SaleOutstanding(s)' = SaleOutstanding(s) + (q - Qty(s))
          BY <1>7, <3>6
        <4> QED BY <1>8, <2>1, <4>1
      <3>8. \A t \in Live : SaleOutstanding(t)' = SaleOutstanding(t)
        <4> SUFFICES ASSUME NEW t \in Live PROVE SaleOutstanding(t)' = SaleOutstanding(t)
          OBVIOUS
        <4>1. SaleOutstanding(t)' = SaleOutstanding(t) + (Qty(t) - Qty(t))
          BY <1>5, <1>7, <3>6
        <4> QED BY <1>5, <3>6, <4>1
      <3>9. (CashOf(DOMAIN payments))' = CashOf(DOMAIN payments) + paid
        <4>1. CashOf(DOMAIN payments) \in Int
          BY <1>0, CashInt
        <4> QED BY <2>1, <3>1, <4>1, CashSame
      <3> QED BY <3>5, <3>7, <3>8, <3>9
    <2>2. CASE paid # 0
      <3> DEFINE a0 == [sale |-> s, inst |-> 0, amount |-> paid]
                 row == Receipt(paid, h, {a0})
      <3>1. payments' = Append(payments, row)
        BY <2>2 DEF PostSale
      <3>2. /\ IsRow(row) /\ row.status = "posted" /\ row.reverses = 0 /\ row.allocations = {a0}
            /\ row.amount = paid /\ row.direction = "incoming" /\ row.return = 0
        BY DEF Receipt, IsRow, Fields
      <3>3. a0.sale = s /\ a0.inst = 0 /\ a0.amount = paid
        OBVIOUS
      <3> HIDE DEF row, a0
      <3>4. PICK k : k = Len(payments) + 1
        OBVIOUS
      <3>5. Extends({}) /\ Len(payments') = k /\ payments'[k] = row
        BY <1>0, <3>1, <3>2, <3>4, AppendedRow
      <3>6. {} \subseteq DOMAIN payments
        OBVIOUS
      <3>7. Clean' => Clean
        BY <1>0, <1>6, <3>5, <3>6, CleanBefore
      <3>8. ASSUME NEW t \in Sales
            PROVE  /\ SaleOutstanding(t)' = SaleOutstanding(t) + (Qty(t)' - Qty(t)) - Net(row, ReturnsOf(t), t)
                   /\ SaleOutstanding(t) \in Int /\ Qty(t) \in Int /\ Qty(t)' \in Int
        <4>1. /\ SaleOutstanding(t)' =
                   SaleOutstanding(t) + (Qty(t)' - Qty(t)) - Net(payments'[k], ReturnsOf(t), t)
              /\ SaleOutstanding(t) \in Int /\ Qty(t) \in Int /\ Qty(t)' \in Int
              /\ Net(payments'[k], ReturnsOf(t), t) \in Int
          BY <1>0, <1>4, <3>4, <3>5, OutstandingAdded
        <4> QED BY <3>5, <4>1
      <3>9. \A t : RefundPart(row, ReturnsOf(t)) = 0
        <4>1. \A t : 0 \notin ReturnsOf(t)
          BY <1>0, ReturnsFinite DEF ReturnsOf
        <4> QED BY <3>2, <4>1 DEF RefundPart
      <3>10. Net(row, ReturnsOf(s), s) = paid
        <4>1. Part(row, 0..MaxInstallments, s) = a0.amount
          <5>1. PICK I, a : I = 0..MaxInstallments /\ a = a0
            OBVIOUS
          <5>2. /\ a \in row.allocations /\ a.sale = s /\ a.inst = 0 /\ a.amount \in Nat
                /\ \A b \in row.allocations : b = a
            BY <1>2, <3>2, <3>3, <5>1
          <5>3. 0 \in I
            BY <5>1, SaleAssumption
          <5>4. Part(row, I, s) = a.amount
            BY <5>2, <5>3, PartOfOne
          <5> QED BY <5>1, <5>4
        <4> QED BY <1>2, <3>3, <3>9, <4>1 DEF Net
      <3>11. \A t \in Live : Net(row, ReturnsOf(t), t) = 0
        <4> SUFFICES ASSUME NEW t \in Live PROVE Net(row, ReturnsOf(t), t) = 0
          OBVIOUS
        <4>1. \A a \in row.allocations : a.sale # t
          BY <1>5, <3>2, <3>3
        <4>2. Part(row, 0..MaxInstallments, t) = 0
          BY <4>1, PartOfNone
        <4> QED BY <3>9, <4>2 DEF Net
      <3>12. SaleOutstanding(s)' = q - paid
        <4>1. SaleOutstanding(s)' = SaleOutstanding(s) + (q - Qty(s)) - paid
          BY <1>7, <3>8, <3>10
        <4> QED BY <1>2, <1>8, <4>1
      <3>13. \A t \in Live : SaleOutstanding(t)' = SaleOutstanding(t)
        <4> SUFFICES ASSUME NEW t \in Live PROVE SaleOutstanding(t)' = SaleOutstanding(t)
          OBVIOUS
        <4>1. SaleOutstanding(t)' = SaleOutstanding(t) + (Qty(t) - Qty(t)) - 0
          BY <1>5, <1>7, <3>8, <3>11
        <4>2. SaleOutstanding(t) \in Int /\ Qty(t) \in Int
          BY <1>5, <3>8
        <4> QED BY <4>1, <4>2
      <3>14. (CashOf(DOMAIN payments))' = CashOf(DOMAIN payments) + paid
        <4>1. (CashOf(DOMAIN payments))' = CashOf(DOMAIN payments) + RowCash(payments'[k])
          BY <1>0, <3>4, <3>5, <3>6, CashAdded
        <4>2. RowCash(row) = paid
          BY <3>2 DEF RowCash
        <4> QED BY <3>5, <4>1, <4>2
      <3> QED BY <3>7, <3>12, <3>13, <3>14
    <2> QED BY <2>1, <2>2
  <1>10. PICK x, y \in Int : x = q - paid /\ y = paid
    BY <1>1, <1>2
  <1>11. Owing' = Owing + x
    <2>1. SaleOutstanding(s)' \in Int
      BY <1>9, <1>10
    <2>2. Owing' = Owing + SaleOutstanding(s)'
      BY <1>0, <1>5, <1>9, <2>1, OwingMore
    <2> QED BY <1>9, <1>10, <2>2
  <1>12. Variances' = Variances + 0
    <2>1. Variances' = Variances /\ Variances \in Int
      BY <1>4, VariancesSame, VariancesInt
    <2> QED BY <2>1
  <1>13. gl'["ar"] = gl["ar"] + x /\ gl'["cash"] = gl["cash"] + (y + 0)
    <2>1. PICK d : d = SaleEntries(q, paid)
      OBVIOUS
    <2>2. gl' = Posting(d)
      BY <1>1, <2>1 DEF PostSale
    <2>3. /\ d["cash"] = y /\ d["ar"] = x /\ d["revenue"] = - q /\ d["cogs"] = q /\ d["inventory"] = - q
          /\ DOMAIN d = {"cash", "ar", "revenue", "cogs", "inventory"}
      BY <1>10, <2>1 DEF SaleEntries
    <2>4. \A a \in DOMAIN d : d[a] \in Int
      BY <1>1, <2>3
    <2>5. \A a \in Accounts : gl'[a] = IF a \in DOMAIN d THEN gl[a] + d[a] ELSE gl[a]
      BY <2>2, <2>4, PostingAdds
    <2>6. gl'["ar"] = gl["ar"] + x /\ gl'["cash"] = gl["cash"] + y
      BY <2>3, <2>5 DEF Accounts
    <2> QED BY <2>6
  <1>14. 0 \in Int /\ (CashOf(DOMAIN payments))' = CashOf(DOMAIN payments) + y
    BY <1>9, <1>10
  <1> QED BY <1>0, <1>9, <1>10, <1>11, <1>12, <1>13, <1>14, Balance

(* What a clean void meets: the till row, still posted, or no payment at   *)
(* all.                                                                    *)
LEMMA TillRowOnly ==
  ASSUME StoryInv, NEW s \in Sales, sales[s].status = "completed", CleanVoid(s)
  PROVE  \/ sales[s].paid = 0 /\ PaidFor(s) = {}
         \/ /\ sales[s].paid # 0
            /\ \E p \in Posted : /\ PaidFor(s) = {p}
                                 /\ payments[p].amount = sales[s].paid /\ payments[p].direction = "incoming"
                                 /\ payments[p].allocations = {[sale |-> s, inst |-> 0, amount |-> sales[s].paid]}
  <1>0. PaymentsInv /\ TillInv /\ KindsInv /\ VoidsInv
    BY DEF StoryInv, MoneyInv
  <1>1. \A p \in DOMAIN payments : p \in PaidFor(s) <=> AtTill(p, s)
    BY DEF CleanVoid, PaidFor, AtTill
  <1>2. PaidFor(s) \subseteq DOMAIN payments
    BY DEF PaidFor
  <1>3. CASE sales[s].paid = 0
    BY <1>0, <1>1, <1>2, <1>3 DEF TillInv
  <1>4. CASE sales[s].paid # 0
    <2>1. PICK p \in DOMAIN payments : AtTill(p, s)
      BY <1>0, <1>4 DEF TillInv
    <2>2. /\ payments[p].amount = sales[s].paid
          /\ payments[p].allocations = {[sale |-> s, inst |-> 0, amount |-> sales[s].paid]}
          /\ \A q \in DOMAIN payments : AtTill(q, s) => q = p
      BY <1>0, <2>1 DEF TillInv
    <2>3. PaidFor(s) = {p}
      BY <1>1, <1>2, <2>1, <2>2
    <2>4. p \in Posted
      <3> SUFFICES ASSUME payments[p].status # "posted" PROVE FALSE
        BY DEF Posted
      <3>1. payments[p].status = "reversed"
        BY <1>0 DEF PaymentsInv, IsRow
      <3>2. PICK q \in DOMAIN payments : payments[q].reverses = p
        BY <1>0, <3>1 DEF PaymentsInv, ReversedOnce
      <3>3. payments[q].ref = "-REV" /\ payments[q].reverses # 0
        <4>1. p # 0
          BY <1>0, PostedIsFinite
        <4> QED BY <2>3, <3>2, <4>1 DEF CleanVoid
      <3>4. PICK a \in payments[p].allocations : sales[a.sale].status = "voided"
        BY <1>0, <3>2, <3>3 DEF VoidsInv
      <3>5. a.sale = s
        BY <2>2
      <3> QED BY <3>4, <3>5
    <2>5. payments[p].direction = "incoming"
      BY <1>0, <2>2 DEF KindsInv, IsReceipt, IsRefund, IsReversal
    <2> QED BY <1>4, <2>2, <2>3, <2>4, <2>5
  <1> QED BY <1>3, <1>4

(* A sale paid only at the till has the amount of that row.                *)
LEMMA OneReceiptAllocated ==
  ASSUME PaymentsInv, MoneyRows, NEW s, NEW p \in Posted, PaidFor(s) = {p}, NEW paid \in Nat,
         payments[p].allocations = {[sale |-> s, inst |-> 0, amount |-> paid]}
  PROVE  Allocated(s) = paid /\ Part(payments[p], 0..MaxInstallments, s) = paid
  <1>1. PICK I, a, row : I = 0..MaxInstallments /\ a = [sale |-> s, inst |-> 0, amount |-> paid] /\ row = payments[p]
    OBVIOUS
  <1>2. /\ a \in row.allocations /\ a.sale = s /\ a.inst = 0 /\ a.amount \in Nat /\ a.amount = paid
        /\ \A b \in row.allocations : b = a
    BY <1>1
  <1>3. 0 \in I
    BY <1>1, SaleAssumption
  <1>4. Part(row, I, s) = a.amount
    BY <1>2, <1>3, PartOfOne
  <1>5. PICK w : w = [q \in Posted |-> Part(payments[q], I, s)]
    OBVIOUS
  <1>6. w[p] = paid /\ \A q \in Posted \ {p} : w[q] = 0
    <2>1. \A q \in Posted \ {p} : \A b \in payments[q].allocations : b.sale # s
      BY DEF PaidFor, Posted
    <2> QED BY <1>1, <1>2, <1>4, <1>5, <2>1, PartOfNone
  <1>7. SumFunctionOnSet(w, Posted) = SumFunctionOnSet(w, {p})
    <2>1. {p} \in SUBSET Posted /\ (\A q \in {p} : w[q] \in Int) /\ \A q \in Posted \ {p} : w[q] = 0
      BY <1>6
    <2> QED BY <2>1, PostedIsFinite, SumSupport
  <1>8. SumFunctionOnSet(w, {p}) = paid
    <2>1. w[p] \in Int
      BY <1>6
    <2> QED BY <1>6, <2>1, SumOne
  <1>9. SumFunctionOnSet(w, Posted) = Allocated(s)
    BY <1>1, <1>5, AllocatedIsSum DEF Allocated
  <1> QED BY <1>1, <1>2, <1>4, <1>7, <1>8, <1>9

(* voidSale of a clean sale: the entry it takes back is the debt and the   *)
(* cash of that sale.                                                      *)
LEMMA VoidBooks ==
  ASSUME StoryInv, MoneyInv', ShiftsInv, GlInv, BooksInv, NEW s \in Sales, VoidSale(s)
  PROVE  BooksInv'
  <1>0. MoneyInv /\ PaymentsInv /\ ReturnsInv /\ MoneyRows /\ RowsInv /\ GoodsInv
    BY DEF StoryInv, MoneyInv, RowsInv
  <1>1. PICK q, paid \in Nat : q = Qty(s) /\ paid = sales[s].paid
    BY <1>0, LiveQty DEF MoneyInv, SalesInv, SaleData
  <1>2. PICK R : R = ToReverse(s)
    OBVIOUS
  <1>3. /\ Extends(R) /\ R \subseteq Posted /\ R \subseteq DOMAIN payments
        /\ Len(payments') = Len(payments) + Cardinality(R)
        /\ \A r \in (Len(payments) + 1)..Len(payments') :
             \E p \in R : payments'[r] = Reversal(p, "-REV", None)
    BY <1>0, <1>2, VoidExtends DEF Posted
  <1>4. /\ \A t \in Sales \ {s} : sales'[t] = sales[t]
        /\ sales[s].status = "completed" /\ sales'[s].status = "voided" /\ sales'[s].units = sales[s].units
        /\ returns' = returns /\ shifts' = shifts
    <2>1. sales' = [sales EXCEPT ![s].status = "voided"]
      BY DEF VoidSale
    <2> QED BY <1>0, <2>1, StatusOfSale DEF VoidSale
  <1>5. s \in Live /\ Live' = Live \ {s}
    BY <1>4 DEF Live
  <1>6. \A t \in Sales : Qty(t)' = Qty(t)
    BY <1>4 DEF Qty
  <1>7. \A r \in (Len(payments) + 1)..Len(payments') : Blank(payments'[r])
    <2>1. \A p : Blank(Reversal(p, "-REV", None))
      BY DEF Reversal, Blank
    <2>2. \A r \in (Len(payments) + 1)..Len(payments') : \E p : payments'[r] = Reversal(p, "-REV", None)
      BY <1>3
    <2> QED BY <2>1, <2>2
  <1>8. Clean' => Clean /\ CleanVoid(s)
    <2>1. \A t \in Sales : sales[t].status = "voided" => sales'[t].status = "voided"
      BY <1>4
    <2>2. Clean' => CleanVoid(s)'
      BY <1>4 DEF Clean
    <2> QED BY <1>0, <1>3, <2>1, <2>2, CleanBefore, CleanVoidBefore
  <1>9. PICK x, y \in Int : x = paid - q /\ y = - paid
    <2>1. paid - q \in Int /\ - paid \in Int
      BY <1>1
    <2> QED BY <2>1
  <1>10. ASSUME Clean'
         PROVE  /\ SaleOutstanding(s) = q - paid
                /\ \A t \in Live \ {s} : Taken(R, t) = 0
                /\ (CashOf(DOMAIN payments))' = CashOf(DOMAIN payments) + y
    <2>0. ReturnsOf(s) = {} /\ Qty(s) \in Int
      BY <1>0, <1>1, <1>4 DEF GoodsInv, ReturnsShow, ReturnsOf
    <2>1. CASE sales[s].paid = 0 /\ PaidFor(s) = {}
      <3>1. R = {}
        BY <1>2, <2>1 DEF ToReverse
      <3>2. Allocated(s) = 0
        <4>1. \A p \in Posted : \A a \in payments[p].allocations : a.sale # s
          BY <2>1 DEF PaidFor, Posted
        <4> QED BY <1>0, <4>1, NothingAllocated
      <3>3. SaleOutstanding(s) = q - paid
        <4>1. SaleOutstanding(s) = Qty(s) - Allocated(s)
          BY <2>0, <3>2, NothingReturned
        <4> QED BY <1>1, <2>1, <3>2, <4>1
      <3>4. \A t \in Live \ {s} : Taken(R, t) = 0
        BY <3>1, TakenOfNone
      <3>5. payments' = payments
        <4>1. Len(payments) \in Nat /\ Cardinality(R) = 0
          BY <1>0, <3>1, FS_EmptySet, PostedIsFinite
        <4>2. Len(payments') = Len(payments)
          BY <1>3, <4>1
        <4>3. \A p \in 1..Len(payments) : payments'[p] = payments[p]
          BY <1>3, <3>1 DEF Extends
        <4>4. payments = [p \in 1..Len(payments) |-> payments[p]]
          BY <1>0 DEF PaymentsInv, IsSequence
        <4>5. payments' = [p \in 1..Len(payments') |-> payments'[p]]
          BY <1>3 DEF Extends, IsSequence
        <4> QED BY <4>2, <4>3, <4>4, <4>5
      <3>6. (CashOf(DOMAIN payments))' = CashOf(DOMAIN payments) + y
        <4>1. CashOf(DOMAIN payments) \in Int
          BY <1>0, CashInt
        <4>2. y + paid = 0 /\ paid = 0
          BY <1>1, <1>9, <2>1
        <4> QED BY <1>9, <3>5, <4>1, <4>2, CashSame
      <3> QED BY <3>3, <3>4, <3>6
    <2>2. CASE \E p \in Posted :
                 /\ PaidFor(s) = {p}
                 /\ payments[p].amount = sales[s].paid /\ payments[p].direction = "incoming"
                 /\ payments[p].allocations = {[sale |-> s, inst |-> 0, amount |-> sales[s].paid]}
      <3>1. PICK p \in Posted :
                 /\ PaidFor(s) = {p}
                 /\ payments[p].amount = paid /\ payments[p].direction = "incoming"
                 /\ payments[p].allocations = {[sale |-> s, inst |-> 0, amount |-> paid]}
        BY <1>1, <2>2
      <3>2. R = {p} /\ p \in DOMAIN payments
        BY <1>2, <3>1 DEF ToReverse, Posted
      <3>3. Allocated(s) = paid
        BY <1>0, <3>1, OneReceiptAllocated
      <3>4. SaleOutstanding(s) = q - paid
        <4>1. SaleOutstanding(s) = Qty(s) - Allocated(s)
          BY <2>0, <3>3, NothingReturned
        <4> QED BY <1>1, <3>3, <4>1
      <3>5. \A t \in Live \ {s} : Taken(R, t) = 0
        <4> SUFFICES ASSUME NEW t \in Live \ {s} PROVE Taken(R, t) = 0
          OBVIOUS
        <4>1. Taken(R, t) = Net(payments[p], ReturnsOf(t), t)
          BY <1>0, <3>2, TakenOfOne
        <4>2. Part(payments[p], 0..MaxInstallments, t) = 0
          BY <3>1, PartOfNone
        <4>3. payments[p].return = 0
          <5>1. KindsInv
            BY DEF StoryInv
          <5> QED BY <3>1, <3>2, <5>1 DEF KindsInv, IsReceipt, IsRefund, IsReversal
        <4>4. RefundPart(payments[p], ReturnsOf(t)) = 0
          <5>1. 0 \notin ReturnsOf(t)
            BY <1>0, ReturnsFinite DEF ReturnsOf
          <5> QED BY <4>3, <5>1 DEF RefundPart
        <4> QED BY <4>1, <4>2, <4>4 DEF Net
      <3>6. (CashOf(DOMAIN payments))' = CashOf(DOMAIN payments) + y
        <4>1. PICK k : k = Len(payments) + 1
          OBVIOUS
        <4>2. Cardinality(R) = 1 /\ Len(payments) \in Nat
          BY <1>0, <3>2, FS_Singleton, PostedIsFinite
        <4>3. Len(payments') = k
          BY <1>3, <4>1, <4>2
        <4>4. payments'[k] = Reversal(p, "-REV", None)
          <5>1. k \in (Len(payments) + 1)..Len(payments')
            BY <4>1, <4>2, <4>3
          <5>2. PICK r \in R : payments'[k] = Reversal(r, "-REV", None)
            BY <1>3, <5>1
          <5> QED BY <3>2, <5>2
        <4>5. (CashOf(DOMAIN payments))' = CashOf(DOMAIN payments) + RowCash(payments'[k])
          BY <1>0, <1>3, <4>1, <4>3, CashAdded
        <4>6. RowCash(payments'[k]) = - RowCash(payments[p])
          BY <1>0, <3>2, <4>4, ReversalCash
        <4>7. RowCash(payments[p]) = paid
          BY <3>1 DEF RowCash
        <4> QED BY <1>9, <4>5, <4>6, <4>7
      <3> QED BY <3>4, <3>5, <3>6
    <2>3. CleanVoid(s)
      BY <1>8, <1>10
    <2> QED BY <1>4, <2>1, <2>2, <2>3, TillRowOnly
  <1>11. ASSUME Clean' PROVE Owing' = Owing + x
    <2>1. \A t \in Live \ {s} : SaleOutstanding(t)' = SaleOutstanding(t)
      <3> SUFFICES ASSUME NEW t \in Live \ {s} PROVE SaleOutstanding(t)' = SaleOutstanding(t)
        OBVIOUS
      <3>0. t \in Sales
        BY LiveIsFinite
      <3>1. /\ SaleOutstanding(t)' = SaleOutstanding(t) + (Qty(t)' - Qty(t)) + Taken(R, t)
            /\ SaleOutstanding(t) \in Int /\ Qty(t) \in Int /\ Qty(t)' \in Int /\ Taken(R, t) \in Int
        BY <1>0, <1>3, <1>4, <1>7, <3>0, OutstandingTaken
      <3>2. SaleOutstanding(t)' = SaleOutstanding(t) + (Qty(t) - Qty(t)) + 0
        BY <1>6, <1>10, <1>11, <3>0, <3>1
      <3> QED BY <3>1, <3>2
    <2>2. Owing' = Owing - SaleOutstanding(s)
      BY <1>0, <1>5, <2>1, OwingLess
    <2>3. Owing \in Int
      BY <1>0, OwingInt
    <2> QED BY <1>1, <1>9, <1>10, <1>11, <2>2, <2>3
  <1>12. Variances' = Variances + 0
    <2>1. Variances' = Variances /\ Variances \in Int
      BY <1>4, VariancesSame, VariancesInt
    <2> QED BY <2>1
  <1>13. gl'["ar"] = gl["ar"] + x /\ gl'["cash"] = gl["cash"] + (y + 0)
    <2>1. PICK entries : entries = SaleEntries(q, paid)
      OBVIOUS
    <2>2. PICK d : d = [a \in DOMAIN entries |-> - entries[a]]
      OBVIOUS
    <2>3. gl' = Posting(d)
      BY <1>1, <2>1, <2>2 DEF VoidSale, UndoSale
    <2>4. /\ d["cash"] = - paid /\ d["ar"] = - (q - paid) /\ d["revenue"] = - (- q)
          /\ d["cogs"] = - q /\ d["inventory"] = - (- q)
          /\ DOMAIN d = {"cash", "ar", "revenue", "cogs", "inventory"}
      BY <2>1, <2>2 DEF SaleEntries
    <2>5. \A a \in DOMAIN d : d[a] \in Int
      BY <1>1, <2>4
    <2>6. \A a \in Accounts : gl'[a] = IF a \in DOMAIN d THEN gl[a] + d[a] ELSE gl[a]
      BY <2>3, <2>5, PostingAdds
    <2>7. gl'["ar"] = gl["ar"] + d["ar"] /\ gl'["cash"] = gl["cash"] + d["cash"]
      BY <2>4, <2>6 DEF Accounts
    <2>8. d["ar"] = x /\ d["cash"] = y + 0
      BY <1>1, <1>9, <2>4
    <2> QED BY <2>7, <2>8
  <1>14. 0 \in Int /\ (Clean' => (CashOf(DOMAIN payments))' = CashOf(DOMAIN payments) + y)
         /\ (Clean' => Clean) /\ (Clean' => Owing' = Owing + x)
    BY <1>8, <1>10, <1>11
  <1> QED BY <1>0, <1>9, <1>12, <1>13, <1>14, Balance

(* No row refunds a return before it is made.                              *)
LEMMA RefundsOfOldReturns ==
  ASSUME StoryInv, NEW Q, NEW k, k \notin DOMAIN returns, k # 0
  PROVE  Refunded(Q \cup {k}) = Refunded(Q)
  <1>1. \A p \in Posted : payments[p].return # k
    BY DEF StoryInv, KindsInv, IsReceipt, IsRefund, IsReversal, Posted
  <1>2. Refunds(Q \cup {k}) = Refunds(Q)
    BY <1>1 DEF Refunds
  <1> QED BY <1>2 DEF Refunded

(* A return takes what it credits off the debt of its sale.                *)
LEMMA OutstandingReturned ==
  ASSUME StoryInv, MoneyInv', payments' = payments,
         NEW s \in Sales, NEW row, row.sale = s, returns' = Append(returns, row),
         NEW t \in Sales, Qty(t)' = Qty(t)
  PROVE  /\ SaleOutstanding(t)' = SaleOutstanding(t) - (IF t = s THEN Cardinality(row.units) ELSE 0)
         /\ Cardinality(row.units) \in Nat
  <1>0. MoneyInv /\ PaymentsInv /\ ReturnsInv /\ MoneyRows /\ SalesInv /\ ReturnsInv'
    BY DEF StoryInv, MoneyInv, RowsInv
  <1>1. PICK k \in Nat : k = Len(returns) + 1
    BY <1>0, ReturnsFinite
  <1>2. /\ DOMAIN returns' = DOMAIN returns \cup {k} /\ k \notin DOMAIN returns /\ returns'[k] = row /\ k # 0
        /\ \A r \in DOMAIN returns : returns'[r] = returns[r]
    <2>1. IsSequence(returns) /\ IsSequence(returns') /\ DOMAIN returns = 1..Len(returns) /\ Len(returns) \in Nat
      BY <1>0 DEF ReturnsInv, IsSequence
    <2>2. /\ Len(returns') = Len(returns) + 1 /\ returns'[Len(returns) + 1] = row
          /\ \A r \in 1..Len(returns) : returns'[r] = returns[r]
      BY <2>1, AppendToSequence
    <2>3. DOMAIN returns' = 1..Len(returns')
      BY <2>1 DEF IsSequence
    <2> QED BY <1>1, <2>1, <2>2, <2>3
  <1>3. PICK Q : Q = ReturnsOf(t)
    OBVIOUS
  <1>4. Q \in SUBSET DOMAIN returns
    BY <1>3 DEF ReturnsOf
  <1>5. /\ CreditOf(Q)' = CreditOf(Q) /\ CreditOf(Q) \in Int
        /\ CreditOf(Q \cup {k})' = CreditOf(Q) + Cardinality(row.units)
        /\ Cardinality(row.units) \in Nat
    BY <1>0, <1>1, <1>4, CreditAdded
  <1>6. Refunded(Q \cup {k}) = Refunded(Q)
    BY <1>2, RefundsOfOldReturns
  <1>7. \A P : Refunded(P)' = Refunded(P)
    BY DEF Refunded, Refunds, Posted
  <1>8. Allocated(t)' = Allocated(t)
    BY DEF Allocated, AllocatedThrough, Posted
  <1>9. Qty(t) \in Int /\ Allocated(t) \in Int /\ Refunded(Q) \in Int
    <2>1. Allocated(t) \in Nat
      BY <1>0, AllocatedNat DEF Allocated
    <2>2. Refunded(Q) \in Nat
      BY <1>0, RefundedNat
    <2> QED BY <1>0, <2>1, <2>2, LiveQty
  <1>10. SaleOutstanding(t) = Qty(t) - Allocated(t) - CreditOf(Q) + Refunded(Q)
    BY <1>3 DEF SaleOutstanding, Credited
  <1>11. SaleOutstanding(t)' = Qty(t) - Allocated(t) - (Credited(t))' + (Refunded(ReturnsOf(t)))'
    BY <1>8 DEF SaleOutstanding
  <1>12. CASE t = s
    <2>1. ReturnsOf(t)' = Q \cup {k}
      BY <1>2, <1>3, <1>12 DEF ReturnsOf
    <2>2. (Credited(t))' = CreditOf(Q \cup {k})'
      BY <2>1 DEF Credited, CreditOf, Credit
    <2>3. (Refunded(ReturnsOf(t)))' = Refunded(Q \cup {k})'
      BY <2>1 DEF Refunded, Refunds
    <2>4. (Refunded(ReturnsOf(t)))' = Refunded(Q)
      BY <1>6, <1>7, <2>3
    <2>5. SaleOutstanding(t)' = Qty(t) - Allocated(t) - (CreditOf(Q) + Cardinality(row.units)) + Refunded(Q)
      BY <1>5, <1>11, <2>2, <2>4
    <2> QED BY <1>5, <1>9, <1>10, <1>12, <2>5
  <1>13. CASE t # s
    <2>1. ReturnsOf(t)' = Q
      BY <1>2, <1>3, <1>13 DEF ReturnsOf
    <2>2. (Credited(t))' = CreditOf(Q)'
      BY <2>1 DEF Credited, CreditOf, Credit
    <2>3. (Refunded(ReturnsOf(t)))' = Refunded(Q)'
      BY <2>1 DEF Refunded, Refunds
    <2>5. SaleOutstanding(t)' = Qty(t) - Allocated(t) - CreditOf(Q) + Refunded(Q)
      BY <1>5, <1>7, <1>11, <2>2, <2>3
    <2> QED BY <1>5, <1>9, <1>10, <1>13, <2>5
  <1> QED BY <1>12, <1>13

(* postSaleReturn: the receivable falls by what comes back, also below     *)
(* what was owed.                                                          *)
LEMMA ReturnBooks ==
  ASSUME StoryInv, MoneyInv', ShiftsInv, GlInv, BooksInv,
         NEW s \in Sales, NEW V \in SUBSET sales[s].units, NEW c, NEW disposition,
         PostSaleReturn(s, V, c, disposition)
  PROVE  BooksInv'
  <1>0. MoneyInv /\ PaymentsInv /\ ReturnsInv /\ MoneyRows /\ RowsInv /\ GoodsInv
    BY DEF StoryInv, MoneyInv, RowsInv
  <1>1. PICK status \in {"returned", "partially_returned"} :
          sales' = [sales EXCEPT ![s].status = status]
    BY DEF PostSaleReturn
  <1>2. /\ \A t \in Sales \ {s} : sales'[t] = sales[t]
        /\ sales'[s].status = status /\ sales'[s].units = sales[s].units
        /\ sales[s].status \in OpenSaleStatuses
    BY <1>0, <1>1, StatusOfSale DEF PostSaleReturn
  <1>3. Live' = Live /\ s \in Live /\ (\A t \in Sales : Qty(t)' = Qty(t))
        /\ \A t \in Sales : sales[t].status = "voided" => sales'[t].status = "voided"
    <2>1. \A t \in Sales : sales[t].status = "voided" => sales'[t].status = "voided"
      BY <1>2 DEF OpenSaleStatuses
    <2>2. Live' = Live /\ s \in Live
      BY <1>1, <1>2 DEF Live, OpenSaleStatuses
    <2>3. \A t \in Sales : Qty(t)' = Qty(t)
      BY <1>2 DEF Qty
    <2> QED BY <2>1, <2>2, <2>3
  <1>4. payments' = payments /\ shifts' = shifts
    BY DEF PostSaleReturn
  <1>5. PICK row : row = [sale |-> s, units |-> V, costBack |-> disposition # "scrap"]
    OBVIOUS
  <1>6. returns' = Append(returns, row) /\ row.sale = s /\ row.units = V
    BY <1>5 DEF PostSaleReturn
  <1>7. PICK q : q = Cardinality(V)
    OBVIOUS
  <1>8. \A t \in Live : SaleOutstanding(t)' = SaleOutstanding(t) - (IF t = s THEN q ELSE 0)
    BY <1>0, <1>3, <1>4, <1>6, <1>7, LiveIsFinite, OutstandingReturned
  <1>9. q \in Nat
    BY <1>0, <1>3, <1>4, <1>6, <1>7, OutstandingReturned
  <1>10. PICK x \in Int : x = - q
    BY <1>9
  <1>11. Owing' = Owing + x
    <2>1. PICK e : e = [t \in Live |-> IF t = s THEN x ELSE 0]
      OBVIOUS
    <2>2. \A t \in Live : e[t] \in Int /\ SaleOutstanding(t)' = SaleOutstanding(t) + e[t]
      <3> SUFFICES ASSUME NEW t \in Live PROVE e[t] \in Int /\ SaleOutstanding(t)' = SaleOutstanding(t) + e[t]
        OBVIOUS
      <3>1. SaleOutstanding(t) \in Int
        BY <1>0, DebtsAreInt, LiveIsFinite
      <3>2. e[t] \in Int
        BY <1>10, <2>1
      <3>3. CASE t = s
        BY <1>8, <1>9, <1>10, <2>1, <3>1, <3>3
      <3>4. CASE t # s
        <4>1. SaleOutstanding(t)' = SaleOutstanding(t) - 0 /\ e[t] = 0
          BY <1>8, <2>1, <3>4
        <4> QED BY <3>1, <3>2, <4>1
      <3> QED BY <3>2, <3>3, <3>4
    <2>3. Owing' = Owing + SumFunctionOnSet(e, Live)
      BY <1>0, <1>3, <2>2, OwingChange
    <2>4. SumFunctionOnSet(e, Live) = SumFunctionOnSet(e, {s})
      <3>1. {s} \in SUBSET Live /\ (\A t \in {s} : e[t] \in Int) /\ \A t \in Live \ {s} : e[t] = 0
        BY <1>3, <2>1, <2>2
      <3> QED BY <3>1, LiveIsFinite, SumSupport
    <2>5. SumFunctionOnSet(e, {s}) = e[s]
      BY <1>3, <2>2, SumOne
    <2>6. e[s] = x
      BY <1>3, <2>1
    <2> QED BY <2>3, <2>4, <2>5, <2>6
  <1>12. Clean' => Clean
    <2>1. Extends({}) /\ {} \subseteq DOMAIN payments
      BY <1>0, <1>4, NoNewRows
    <2> QED BY <1>0, <1>3, <2>1, CleanBefore
  <1>13. (CashOf(DOMAIN payments))' = CashOf(DOMAIN payments) + 0
    <2>1. CashOf(DOMAIN payments) \in Int
      BY <1>0, CashInt
    <2>2. (CashOf(DOMAIN payments))' = CashOf(DOMAIN payments)
      BY <1>4, CashSame
    <2> QED BY <2>1, <2>2
  <1>14. Variances' = Variances + 0
    <2>1. Variances' = Variances /\ Variances \in Int
      BY <1>4, VariancesSame, VariancesInt
    <2> QED BY <2>1
  <1>15. gl'["ar"] = gl["ar"] + x /\ gl'["cash"] = gl["cash"] + (0 + 0)
    <2>1. PICK d : d = ReturnEntries(q, disposition)
      OBVIOUS
    <2>2. gl' = Posting(d)
      BY <1>7, <2>1 DEF PostSaleReturn
    <2>3. PICK back \in Int : /\ d["revenue"] = q /\ d["ar"] = - q /\ d["inventory"] = back /\ d["cogs"] = - back
                              /\ DOMAIN d = {"revenue", "ar", "inventory", "cogs"}
      BY <1>9, <2>1 DEF ReturnEntries
    <2>4. \A a \in DOMAIN d : d[a] \in Int
      BY <1>9, <2>3
    <2>5. \A a \in Accounts : gl'[a] = IF a \in DOMAIN d THEN gl[a] + d[a] ELSE gl[a]
      BY <2>2, <2>4, PostingAdds
    <2>6. gl'["ar"] = gl["ar"] + d["ar"] /\ gl'["cash"] = gl["cash"]
      BY <2>3, <2>5 DEF Accounts
    <2>7. gl["cash"] \in Int
      BY DEF GlInv, Accounts
    <2>8. d["ar"] = x
      BY <1>10, <2>3
    <2> QED BY <2>6, <2>7, <2>8
  <1>16. 0 \in Int
    OBVIOUS
  <1> QED BY <1>0, <1>10, <1>11, <1>12, <1>13, <1>14, <1>15, <1>16, Balance

(* Debt and cash are a matter of the sales, the returns and the payments.  *)
LEMMA SameBooks ==
  ASSUME MoneyInv, sales' = sales, returns' = returns, payments' = payments
  PROVE  /\ (Clean' => Clean) /\ Owing' = Owing /\ (CashOf(DOMAIN payments))' = CashOf(DOMAIN payments)
         /\ Owing \in Int /\ CashOf(DOMAIN payments) \in Int
  <1>1. Clean' => Clean
    BY DEF Clean, CleanVoid, PaidFor
  <1>2. Owing' = Owing
    BY DEF Owing, Live, SaleOutstanding, Qty, Allocated, AllocatedThrough, Posted, Credited, CreditOf, Credit,
           ReturnsOf, Refunded, Refunds
  <1>3. (CashOf(DOMAIN payments))' = CashOf(DOMAIN payments)
    BY CashSame
  <1> QED BY <1>1, <1>2, <1>3, OwingInt, CashInt DEF MoneyInv

(* Opening a shift books nothing.                                          *)
LEMMA OpenBooks == ASSUME StoryInv, ShiftsInv, BooksInv, NEW h \in Shifts, OpenCashierShift(h) PROVE BooksInv'
  <1>1. sales' = sales /\ returns' = returns /\ payments' = payments /\ gl' = gl /\ MoneyInv
    BY DEF OpenCashierShift, StoryInv
  <1>2. Variances' = Variances
    <2>1. shifts' = [shifts EXCEPT ![h] = [shifts[h] EXCEPT !.status = "open"]]
      BY DEF OpenCashierShift
    <2>2. \A g \in Shifts : shifts'[g].variance = shifts[g].variance
      BY <2>1 DEF ShiftsInv
    <2> QED BY <2>2, VariancesSame
  <1> QED BY <1>1, <1>2, SameBooks DEF BooksInv

(* The close books the variance it counts.                                 *)
LEMMA CloseBooks ==
  ASSUME StoryInv, ShiftsInv, GlInv, BooksInv, NEW h \in Shifts, NEW counted \in Nat, CloseCashierShift(h, counted)
  PROVE  BooksInv'
  <1>1. sales' = sales /\ returns' = returns /\ payments' = payments /\ MoneyInv
    BY DEF CloseCashierShift, StoryInv
  <1>2. PICK z : z = counted - NetCash(h)
    OBVIOUS
  <1>3. z \in Int
    <2>1. {p \in DOMAIN payments : payments[p].shift = h} \in SUBSET DOMAIN payments
      OBVIOUS
    <2>2. NetCash(h) \in Int
      BY <1>1, <2>1, CashInt DEF NetCash, MoneyInv
    <2> QED BY <1>2, <2>2
  <1>4. /\ Owing' = Owing + 0 /\ (CashOf(DOMAIN payments))' = CashOf(DOMAIN payments) + 0
        /\ (Clean' => Clean)
    <2>1. /\ (Clean' => Clean) /\ Owing' = Owing /\ (CashOf(DOMAIN payments))' = CashOf(DOMAIN payments)
          /\ Owing \in Int /\ CashOf(DOMAIN payments) \in Int
      BY <1>1, SameBooks
    <2> QED BY <2>1
  <1>5. Variances' = Variances + z
    <2>1. PICK status : shifts' = [shifts EXCEPT ![h] = [status |-> status, variance |-> z]]
      BY <1>2 DEF CloseCashierShift
    <2>2. shifts'[h].variance = z /\ \A g \in Shifts \ {h} : shifts'[g].variance = shifts[g].variance
      BY <2>1 DEF ShiftsInv
    <2>3. shifts[h].status = "open"
      BY DEF CloseCashierShift
    <2> QED BY <1>3, <2>2, <2>3, VarianceAdded
  <1>6. gl'["ar"] = gl["ar"] + 0 /\ gl'["cash"] = gl["cash"] + (0 + z)
    <2>1. PICK d : d = [cash |-> z, over_short |-> - z]
      OBVIOUS
    <2>2. gl' = Posting(d)
      BY <1>2, <2>1 DEF CloseCashierShift
    <2>3. d["cash"] = z /\ d["over_short"] = - z /\ DOMAIN d = {"cash", "over_short"}
      BY <2>1
    <2>4. \A a \in DOMAIN d : d[a] \in Int
      BY <1>3, <2>3
    <2>5. \A a \in Accounts : gl'[a] = IF a \in DOMAIN d THEN gl[a] + d[a] ELSE gl[a]
      BY <2>2, <2>4, PostingAdds
    <2>6. gl'["ar"] = gl["ar"] /\ gl'["cash"] = gl["cash"] + z /\ gl["ar"] \in Int
      BY <2>3, <2>5 DEF Accounts, GlInv
    <2> QED BY <1>3, <2>6
  <1>7. 0 \in Int
    OBVIOUS
  <1> QED BY <1>1, <1>3, <1>4, <1>5, <1>6, <1>7, Balance

(* Every command keeps the books in agreement.                             *)
LEMMA NextBooks ==
  ASSUME StoryInv, ShiftsInv, GlInv, BooksInv, [Next]_vars
  PROVE  BooksInv'
  <1>1. MoneyInv' /\ MoneyInv
    BY NextMoney DEF StoryInv
  <1>2. CASE \E s \in Sales, U \in (SUBSET Units) \ {{}}, h \in ShiftOrNone :
               \E paid \in 0..Cardinality(U) : PostSale(s, U, paid, h)
    BY <1>1, <1>2, PostSaleBooks
  <1>3. CASE \E S \in SUBSET Sales, h \in ShiftOrNone : CollectCustomerPayment(S, h)
    BY <1>1, <1>3, CollectionBooks
  <1>4. CASE \E s \in Sales : \E V \in SUBSET sales[s].units, c \in Conditions, d \in Dispositions :
               PostSaleReturn(s, V, c, d)
    BY <1>1, <1>4, ReturnBooks
  <1>5. CASE \E r \in DOMAIN returns : \E amount \in 1..Credit(r), h \in ShiftOrNone : RefundReturn(r, amount, h)
    BY <1>1, <1>5, RefundBooks
  <1>6. CASE \E p \in DOMAIN payments : ReversePayment(p)
    BY <1>1, <1>6, ReversalBooks
  <1>7. CASE \E s \in Sales : VoidSale(s)
    BY <1>1, <1>7, VoidBooks
  <1>8. CASE \E h \in Shifts : OpenCashierShift(h)
    BY <1>8, OpenBooks
  <1>9. CASE \E h \in Shifts :
               \E counted \in Nat \cap ((NetCash(h) - MaxVariance)..(NetCash(h) + MaxVariance)) :
                 CloseCashierShift(h, counted)
    BY <1>9, CloseBooks
  <1>10. CASE Tomorrow \/ UNCHANGED vars
    <2>1. sales' = sales /\ returns' = returns /\ payments' = payments /\ gl' = gl /\ shifts' = shifts
      BY <1>10 DEF Tomorrow, vars
    <2>2. Variances' = Variances
      BY <2>1, VariancesSame
    <2> QED BY <1>1, <2>1, <2>2, SameBooks DEF BooksInv
  <1> QED BY <1>2, <1>3, <1>4, <1>5, <1>6, <1>7, <1>8, <1>9, <1>10 DEF Next

(* They agree before the first sale.                                       *)
LEMMA InitBooks == Init => BooksInv
  <1> SUFFICES ASSUME Init PROVE BooksInv
    OBVIOUS
  <1>1. Live = {} /\ DOMAIN payments = {}
    BY EmptySequence DEF Init, NoSale, Live
  <1>2. Owing = 0
    BY <1>1, SumEmpty DEF Owing, SumFunction
  <1>3. CashOf(DOMAIN payments) = 0
    BY <1>1, SumEmpty DEF CashOf, SumFunction
  <1>4. Variances = 0
    <2>1. PICK f : f = [h \in Shifts |-> shifts[h].variance]
      OBVIOUS
    <2>2. \A h \in Shifts : f[h] = 0
      BY <2>1 DEF Init
    <2>3. SumFunctionOnSet(f, Shifts) = 0
      BY <2>2, ShiftsFinite, SumZero
    <2> QED BY <2>1, <2>3 DEF Variances, SumFunction
  <1>5. gl["ar"] = 0 /\ gl["cash"] = 0
    BY DEF Init, Accounts
  <1> QED BY <1>2, <1>3, <1>4, <1>5 DEF BooksInv

(* For any number of sales, returns, collections over several of them,     *)
(* refunds and shifts: as long as no sale is voided after a collection or  *)
(* a reversal and no reversal is itself reversed, the receivable in the    *)
(* ledger is what the standing sales owe, and its cash what the payments   *)
(* moved plus the variances counted (the two sides checkArSubledgerGl      *)
(* compares).                                                              *)
THEOREM BooksStayInAgreement == Spec => []BooksAgree
  <1> DEFINE Inv == StoryInv /\ LedgerInv /\ ShiftsInv /\ BooksInv
  <1>1. Inv /\ [Next]_vars => Inv'
    <2> SUFFICES ASSUME Inv, [Next]_vars PROVE Inv'
      OBVIOUS
    <2>1. PaymentsInv /\ RowsInv /\ GlInv
      BY DEF StoryInv, MoneyInv, LedgerInv
    <2> QED BY <2>1, NextStory, NextLedger, NextShifts, NextBooks
  <1>2. Init => Inv
    BY InitStory, InitLedger, InitShifts, InitBooks
  <1>3. Inv => BooksAgree
    BY BooksInvIsEnough
  <1> HIDE DEF Inv
  <1> QED BY <1>1, <1>2, <1>3, PTL DEF Spec

-----------------------------------------------------------------------------
(***************************************************************************)
(* The types of all records.  Amounts, allocations and balances are proved *)
(* with the sums above (MoneyInv, GlInv, ShiftsInv); what is left is who a *)
(* row names.                                                              *)
(***************************************************************************)
(* Rows marked and rows added, each of the type of a payment.              *)
LEMMA PaymentTypes ==
  ASSUME PaymentsInv, payments \in Seq(PaymentRow), NEW R, R \subseteq DOMAIN payments, Extends(R),
         \A q \in (Len(payments) + 1)..Len(payments') : payments'[q] \in PaymentRow
  PROVE  payments' \in Seq(PaymentRow)
  <1> DEFINE n == Len(payments)
             m == Len(payments')
  <1>1. n \in Nat /\ m \in Nat /\ n <= m /\ DOMAIN payments = 1..n /\ IsSequence(payments')
    BY DEF PaymentsInv, Extends, IsSequence
  <1>2. \A p \in 1..n : payments[p] \in PaymentRow
    BY <1>1
  <1>3. \A p \in 1..n : Marked(payments[p]) \in PaymentRow
    BY <1>2 DEF Marked, PaymentRow
  <1>4. \A p \in 1..n : payments'[p] = IF p \in R THEN Marked(payments[p]) ELSE payments[p]
    BY DEF Extends
  <1>5. \A q \in 1..m : payments'[q] \in PaymentRow
    BY <1>1, <1>2, <1>3, <1>4
  <1>6. payments' = [q \in 1..m |-> payments'[q]]
    BY <1>1 DEF IsSequence
  <1> HIDE DEF n, m
  <1> QED BY <1>1, <1>5, <1>6, SeqDef

LEMMA NewRowType ==
  ASSUME PaymentsInv, payments \in Seq(PaymentRow), NEW row \in PaymentRow,
         payments' = Append(payments, row)
  PROVE  payments' \in Seq(PaymentRow)
  BY AppendProperties

LEMMA ReceiptType ==
  ASSUME NEW amount \in Nat, NEW h \in ShiftOrNone, NEW allocations, allocations \subseteq Allocation
  PROVE  Receipt(amount, h, allocations) \in PaymentRow
  BY DEF Receipt, PaymentRow, ShiftOrNone

LEMMA ReversalType ==
  ASSUME PaymentsInv, payments \in Seq(PaymentRow), NEW p \in DOMAIN payments,
         NEW ref \in {"PMT-REV", "-REV"}, NEW h \in Shifts \cup {None}
  PROVE  Reversal(p, ref, h) \in PaymentRow
  <1>1. p \in 1..Len(payments) /\ Len(payments) \in Nat
    BY DEF PaymentsInv, IsSequence
  <1>2. payments[p] \in PaymentRow
    BY <1>1
  <1>3. payments[p].amount \in Nat /\ Opposite(payments[p].direction) \in {"incoming", "outgoing"}
    BY <1>2 DEF PaymentRow, Opposite
  <1> QED BY <1>1, <1>3 DEF Reversal, PaymentRow

(* An installment plan has amounts and days.                               *)
LEMMA ScheduleType ==
  ASSUME NEW unpaid \in Int, today \in Days, NEW c \in Schedules(unpaid)
  PROVE  c \in Seq(Installment)
  <1>1. PICK n \in 0..MaxInstallments : c \in [1..n -> [amount : 1..unpaid, due : today..MaxDay]]
    BY DEF Schedules
  <1>2. n \in Nat /\ today \in Nat \ {0} /\ MaxDay \in Nat
    BY SaleAssumption DEF Days
  <1>3. \A e \in [amount : 1..unpaid, due : today..MaxDay] : e \in Installment
    BY <1>2 DEF Installment, Days
  <1>4. \A i \in 1..n : c[i] \in Installment
    BY <1>1, <1>3
  <1>5. c = [i \in 1..n |-> c[i]]
    BY <1>1
  <1> QED BY <1>2, <1>4, <1>5, SeqDef

LEMMA UnitsCount ==
  ASSUME NEW U \in SUBSET Units PROVE IsFiniteSet(U) /\ Cardinality(U) \in Nat
  BY SaleAssumption, FS_Subset, FS_CardinalityType

LEMMA PostSaleTypes ==
  ASSUME TypeOK, MoneyInv, GlInv', NEW s \in Sales, NEW U \in SUBSET Units, NEW h \in ShiftOrNone,
         NEW paid \in 0..Cardinality(U), PostSale(s, U, paid, h)
  PROVE  TypeOK'
  <1>1. Cardinality(U) \in Nat /\ paid \in Nat /\ Cardinality(U) - paid \in Int
    BY UnitsCount
  <1>2. PICK schedule \in Schedules(Cardinality(U) - paid) : sales' = [sales EXCEPT ![s] =
          [status |-> "completed", units |-> U, paid |-> paid, schedule |-> schedule]]
    BY DEF PostSale
  <1>3. schedule \in Seq(Installment)
    BY <1>1, ScheduleType DEF TypeOK
  <1>4. sales' \in [Sales -> SaleRow]
    BY <1>1, <1>2, <1>3 DEF TypeOK, SaleRow
  <1>5. payments' \in Seq(PaymentRow)
    <2>1. CASE paid = 0
      BY <2>1 DEF PostSale, TypeOK
    <2>2. CASE paid # 0
      <3> DEFINE A == {[sale |-> s, inst |-> 0, amount |-> paid]}
      <3>1. A \subseteq Allocation
        BY <1>1 DEF Allocation
      <3>2. payments' = Append(payments, Receipt(paid, h, A))
        BY <2>2 DEF PostSale
      <3> HIDE DEF A
      <3> QED BY <1>1, <3>1, <3>2, ReceiptType, NewRowType DEF TypeOK, MoneyInv
    <2> QED BY <2>1, <2>2
  <1>6. serials' \in [Units -> [status : {"in_stock", "sold", "damaged"}, soldTo : Sales \cup {None}]]
    BY DEF PostSale, TypeOK
  <1>7. onHand' \in Nat
    BY <1>1 DEF PostSale, TypeOK
  <1> QED BY <1>4, <1>5, <1>6, <1>7 DEF PostSale, TypeOK, GlInv

LEMMA CollectionTypes ==
  ASSUME TypeOK, MoneyInv, MoneyInv', GlInv', NEW S \in SUBSET Sales, NEW h \in ShiftOrNone,
         CollectCustomerPayment(S, h)
  PROVE  TypeOK'
  <1> DEFINE owed == [b \in InstallmentsOf(S) |-> Outstanding(b[1], b[2])]
  <1>1. PICK amount : LET plan == {b \in DOMAIN owed : Applied(owed, b, amount) > 0} IN
          payments' = Append(payments, Receipt(amount, h,
             {[sale |-> b[1], inst |-> b[2], amount |-> Applied(owed, b, amount)] : b \in plan}))
    BY DEF CollectCustomerPayment
  <1> DEFINE plan == {b \in DOMAIN owed : Applied(owed, b, amount) > 0}
             A == {[sale |-> b[1], inst |-> b[2], amount |-> Applied(owed, b, amount)] : b \in plan}
             row == Receipt(amount, h, A)
  <1>2. payments' = Append(payments, row)
    BY <1>1
  <1>3. \A a \in A : \E i, j, k : a = [sale |-> i, inst |-> j, amount |-> k]
    <2> HIDE DEF owed, plan
    <2> QED OBVIOUS
  <1>4. row.amount = amount /\ row.allocations = A
    BY DEF Receipt
  <1> HIDE DEF owed, plan, A, row
  <1>5. Len(payments) + 1 \in DOMAIN payments' /\ payments'[Len(payments) + 1] = row
    BY <1>2, AppendProperties DEF TypeOK
  <1>6. MoneyRow(row)
    BY <1>5 DEF MoneyInv, RowsInv, MoneyRows, MoneyRow
  <1>7. amount \in Nat /\ \A a \in A : a.sale \in Sales /\ a.inst \in Nat /\ a.amount \in Nat
    BY <1>4, <1>6 DEF MoneyRow
  <1>8. A \subseteq Allocation
    <2> SUFFICES ASSUME NEW a \in A PROVE a \in Allocation
      OBVIOUS
    <2>1. PICK i, j, k : a = [sale |-> i, inst |-> j, amount |-> k]
      BY <1>3
    <2>2. i \in Sales /\ j \in Nat /\ k \in Nat
      BY <1>7, <2>1
    <2> QED BY <2>1, <2>2 DEF Allocation
  <1>9. row \in PaymentRow
    BY <1>7, <1>8, ReceiptType DEF row
  <1>10. payments' \in Seq(PaymentRow)
    BY <1>2, <1>9, NewRowType DEF TypeOK, MoneyInv
  <1> QED BY <1>10 DEF CollectCustomerPayment, TypeOK, GlInv, goods

LEMMA ReturnTypes ==
  ASSUME TypeOK, MoneyInv, GlInv', NEW s \in Sales, NEW V, NEW c, NEW d, PostSaleReturn(s, V, c, d)
  PROVE  TypeOK'
  <1>1. V \in SUBSET Units
    BY DEF PostSaleReturn, TypeOK, SaleRow
  <1>2. Cardinality(V) \in Nat
    BY <1>1, UnitsCount
  <1>3. sales' \in [Sales -> SaleRow]
    BY DEF PostSaleReturn, TypeOK, SaleRow
  <1>4. returns' \in Seq(ReturnRow)
    <2>1. [sale |-> s, units |-> V, costBack |-> d # "scrap"] \in ReturnRow
      BY <1>1 DEF ReturnRow
    <2> QED BY <2>1, AppendProperties DEF PostSaleReturn, TypeOK
  <1>5. /\ serials' \in [Units -> [status : {"in_stock", "sold", "damaged"}, soldTo : Sales \cup {None}]]
        /\ onHand' \in Nat /\ damaged' \in Nat
    <2>1. Receive(V, c)
      BY DEF PostSaleReturn
    <2>2. CASE c = "resalable"
      BY <1>2, <2>1, <2>2 DEF Receive, BackAs, TypeOK
    <2>3. CASE c = "damaged"
      BY <1>2, <2>1, <2>3 DEF Receive, BackAs, TypeOK
    <2>4. CASE c # "resalable" /\ c # "damaged"
      BY <2>1, <2>4 DEF Receive, TypeOK, goods
    <2> QED BY <2>2, <2>3, <2>4
  <1> QED BY <1>3, <1>4, <1>5 DEF PostSaleReturn, TypeOK, GlInv

LEMMA RefundTypes ==
  ASSUME TypeOK, MoneyInv, GlInv', NEW r \in DOMAIN returns, NEW amount \in Int, NEW h \in ShiftOrNone,
         RefundReturn(r, amount, h)
  PROVE  TypeOK'
  <1> DEFINE row == [Receipt(amount, h, {}) EXCEPT !.direction = "outgoing", !.return = r]
  <1>1. payments' = Append(payments, row) /\ amount \in Nat
    BY DEF RefundReturn
  <1>2. Receipt(amount, h, {}) \in PaymentRow
    BY <1>1, ReceiptType
  <1>3. r \in Nat
    BY DEF TypeOK
  <1>4. row \in PaymentRow
    BY <1>2, <1>3 DEF PaymentRow
  <1> HIDE DEF row
  <1>5. payments' \in Seq(PaymentRow)
    BY <1>1, <1>4, NewRowType DEF TypeOK, MoneyInv
  <1> QED BY <1>5 DEF RefundReturn, TypeOK, GlInv, goods

LEMMA ReversePaymentTypes ==
  ASSUME TypeOK, MoneyInv, GlInv', NEW p \in DOMAIN payments, ReversePayment(p)
  PROVE  TypeOK'
  <1>1. PaymentsInv /\ payments \in Seq(PaymentRow)
    BY DEF MoneyInv, TypeOK
  <1>2. payments[p].shift \in Shifts \cup {None}
    <2>1. payments[p] \in PaymentRow
      BY <1>1
    <2> QED BY <2>1 DEF PaymentRow
  <1>3. Reversal(p, "PMT-REV", payments[p].shift) \in PaymentRow
    BY <1>1, <1>2, ReversalType
  <1>4. /\ Extends({p}) /\ Len(payments') = Len(payments) + 1
        /\ payments'[Len(payments) + 1] = Reversal(p, "PMT-REV", payments[p].shift)
    BY <1>1, ReversalExtends
  <1>5. \A q \in (Len(payments) + 1)..Len(payments') : q = Len(payments) + 1
    BY <1>1, <1>4
  <1>6. payments' \in Seq(PaymentRow)
    BY <1>1, <1>3, <1>4, <1>5, PaymentTypes
  <1> QED BY <1>6 DEF ReversePayment, TypeOK, GlInv, goods

LEMMA VoidTypes ==
  ASSUME TypeOK, MoneyInv, GlInv', NEW s \in Sales, VoidSale(s)
  PROVE  TypeOK'
  <1> DEFINE R == ToReverse(s)
  <1>1. PaymentsInv /\ payments \in Seq(PaymentRow)
    BY DEF MoneyInv, TypeOK
  <1>2. /\ Extends(R) /\ R \subseteq Posted
        /\ \A q \in (Len(payments) + 1)..Len(payments') : \E p \in R : payments'[q] = Reversal(p, "-REV", None)
    BY <1>1, VoidExtends
  <1>3. R \subseteq DOMAIN payments
    BY <1>2 DEF Posted
  <1>4. \A p \in R : Reversal(p, "-REV", None) \in PaymentRow
    BY <1>1, <1>3, ReversalType
  <1> HIDE DEF R
  <1>5. payments' \in Seq(PaymentRow)
    BY <1>1, <1>2, <1>3, <1>4, PaymentTypes
  <1>6. sales' \in [Sales -> SaleRow]
    BY DEF VoidSale, TypeOK, SaleRow
  <1>7. Qty(s) \in Nat
    BY UnitsCount DEF Qty, TypeOK, SaleRow
  <1>8. serials' \in [Units -> [status : {"in_stock", "sold", "damaged"}, soldTo : Sales \cup {None}]]
    BY DEF VoidSale, BackAs, TypeOK
  <1> QED BY <1>5, <1>6, <1>7, <1>8 DEF VoidSale, TypeOK, GlInv

LEMMA NextTypes ==
  ASSUME TypeOK, MoneyInv, MoneyInv', GlInv', ShiftsInv', [Next]_vars
  PROVE  TypeOK'
  <1>1. CASE \E s \in Sales, U \in (SUBSET Units) \ {{}}, h \in ShiftOrNone :
               \E paid \in 0..Cardinality(U) : PostSale(s, U, paid, h)
    BY <1>1, PostSaleTypes
  <1>2. CASE \E S \in SUBSET Sales, h \in ShiftOrNone : CollectCustomerPayment(S, h)
    BY <1>2, CollectionTypes
  <1>3. CASE \E s \in Sales : \E V \in SUBSET sales[s].units, c \in Conditions, d \in Dispositions :
               PostSaleReturn(s, V, c, d)
    BY <1>3, ReturnTypes
  <1>4. CASE \E r \in DOMAIN returns : \E amount \in 1..Credit(r), h \in ShiftOrNone : RefundReturn(r, amount, h)
    BY <1>4, RefundTypes
  <1>5. CASE \E p \in DOMAIN payments : ReversePayment(p)
    BY <1>5, ReversePaymentTypes
  <1>6. CASE \E s \in Sales : VoidSale(s)
    BY <1>6, VoidTypes
  <1>7. CASE \E h \in Shifts : OpenCashierShift(h)
    BY <1>7 DEF OpenCashierShift, TypeOK, ShiftRow, goods
  <1>8. CASE \E h \in Shifts : \E counted \in Nat \cap ((NetCash(h) - MaxVariance)..(NetCash(h) + MaxVariance)) :
               CloseCashierShift(h, counted)
    <2>1. PICK h \in Shifts, counted \in Nat : CloseCashierShift(h, counted)
      BY <1>8
    <2> DEFINE variance == counted - NetCash(h)
               status == IF Abs(variance) > VarianceLimit THEN "approved" ELSE "closed"
    <2>2. shifts' = [shifts EXCEPT ![h] = [status |-> status, variance |-> variance]]
      BY <2>1 DEF CloseCashierShift
    <2>3. status \in {"none", "open", "closed", "approved"}
      OBVIOUS
    <2> HIDE DEF variance, status
    <2>4. shifts'[h].variance = variance
      BY <2>2 DEF TypeOK
    <2>5. variance \in Int
      BY <2>4 DEF ShiftsInv
    <2>6. shifts' \in [Shifts -> ShiftRow]
      BY <2>2, <2>3, <2>5 DEF TypeOK, ShiftRow
    <2> QED BY <2>1, <2>6 DEF CloseCashierShift, TypeOK, GlInv, goods
  <1>9. CASE Tomorrow
    BY <1>9, SaleAssumption DEF Tomorrow, TypeOK, Days, goods
  <1>10. CASE UNCHANGED vars
    BY <1>10 DEF vars, goods, TypeOK
  <1> QED BY <1>1, <1>2, <1>3, <1>4, <1>5, <1>6, <1>7, <1>8, <1>9, <1>10 DEF Next

LEMMA InitTypes == Init => TypeOK
  <1> SUFFICES ASSUME Init PROVE TypeOK
    OBVIOUS
  <1>1. NoSale \in SaleRow
    BY DEF NoSale, SaleRow
  <1>2. Cardinality(Units) \in Nat
    BY SaleAssumption, FS_CardinalityType
  <1>3. today \in Days
    BY SaleAssumption DEF Init, Days
  <1> QED BY <1>1, <1>2, <1>3 DEF Init, TypeOK, ShiftRow

(* Every row keeps its shape, for any number of sales, units and shifts:   *)
(* stock is never negative, whatever order sales, returns and voids come   *)
(* in, and every payment and return names a sale, a shift and a row that   *)
(* there is.                                                               *)
THEOREM SaleTypes == Spec => []TypeOK
  <1> DEFINE Inv == StoryInv /\ LedgerInv /\ ShiftsInv /\ TypeOK
  <1>1. Inv /\ [Next]_vars => Inv'
    <2> SUFFICES ASSUME Inv, [Next]_vars PROVE Inv'
      OBVIOUS
    <2>1. PaymentsInv /\ RowsInv /\ MoneyInv
      BY DEF StoryInv, MoneyInv
    <2>2. StoryInv' /\ LedgerInv' /\ ShiftsInv'
      BY <2>1, NextStory, NextLedger, NextShifts
    <2>3. MoneyInv' /\ GlInv'
      BY <2>2 DEF StoryInv, LedgerInv
    <2> QED BY <2>1, <2>2, <2>3, NextTypes
  <1>2. Init => Inv
    BY InitStory, InitLedger, InitShifts, InitTypes
  <1> HIDE DEF Inv
  <1>3. Inv => TypeOK
    BY DEF Inv
  <1> QED BY <1>1, <1>2, <1>3, PTL DEF Spec
=============================================================================
