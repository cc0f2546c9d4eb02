---------------------------- MODULE Instruments ----------------------------
(***************************************************************************)
(* Money that moves outside sales, beside the ledger: transfers between    *)
(* accounts, customer advances, gift cards, the reversal of a payment, and *)
(* the settlements in which couriers hand over what they collected         *)
(* (src/domain/commands/m3/Payments.ts, m6/Loyalty.ts,                     *)
(* m5/PostCourierCodSettlement.ts and their routes).                       *)
(***************************************************************************)
EXTENDS Ledger

CONSTANTS
  AccountTransfers, GiftCards, Advances, Deliveries,
  Fees           \* bound: what transfers and couriers charge, in tenths

TransferRows == [from : Int, to : Int, fee : Int]

\* A card or an advance, with the state of its payment when it has one.
PaidRows == [amount : Int, period : Periods, payment : {"posted", "reversed", None}]

ASSUME InstrumentsAssumption ==
  /\ Fees \subseteq Nat \ {0} /\ IsFiniteSet(Deliveries)
  /\ GiftCards \cap Advances = {}      \* every payment has an identifier of its own
  /\ None \notin TransferRows /\ None \notin PaidRows /\ None \notin {"posted", "reversed"}

VARIABLES
  accountTransfer,   \* account_transfers
  giftCard,          \* gift_cards, and the payment of one that was sold
  advance,           \* payments of type customer_advance
  advanceLedger,     \* customer_advance_ledger: what each payment left there
  settlements        \* courier_cod_settlements with their items

instruments == <<accountTransfer, giftCard, advance, advanceLedger, settlements>>
instrumentVars == <<ledgerVars, instruments>>
-----------------------------------------------------------------------------
InstrumentsInit ==
  /\ LedgerInit
  /\ accountTransfer = [t \in AccountTransfers |-> None]
  /\ giftCard = [g \in GiftCards |-> None]
  /\ advance = [a \in Advances |-> None]
  /\ advanceLedger = [a \in Advances |-> 0]
  /\ settlements = {}

If(condition, line) == IF condition THEN <<line>> ELSE <<>>

\* The fee has a line when the company has a clearing account for it.
TransferAccount(t, from, to, fee, hasClearing, p) ==
  LET source == <<"account_transfer", t>>
      lines == <<Debit("bank", to), Credit("cash", from)>> \o If(fee > 0 /\ hasClearing, Debit("clearing", fee))
      ok == Accepts(source, p, lines)
  IN  /\ accountTransfer[t] = None
      /\ Posts(ok, source, p, lines)
      /\ accountTransfer' = Written(ok, accountTransfer, t, [from |-> from, to |-> to, fee |-> fee])
      /\ UNCHANGED <<giftCard, advance, advanceLedger, settlements, documents, closing>>

\* A card is sold for cash or given away; a sold one has a payment.
IssueGiftCard(g, mode, face, p) ==
  LET source == <<"gift_card", g>>
      lines == <<Debit(IF mode = "sold" THEN "cash" ELSE "marketing", face), Credit("gift_cards", face)>>
      ok == Accepts(source, p, lines)
  IN  /\ giftCard[g] = None
      /\ Posts(ok, source, p, lines)
      /\ giftCard' = Written(ok, giftCard, g,
           [amount |-> face, period |-> p, payment |-> IF mode = "sold" THEN "posted" ELSE None])
      /\ UNCHANGED <<accountTransfer, advance, advanceLedger, settlements, documents, closing>>

ReceiveAdvance(a, amount, p) ==
  LET source == <<"payment", a>>
      lines == <<Debit("cash", amount), Credit("advances", amount)>>
      ok == Accepts(source, p, lines)
  IN  /\ advance[a] = None
      /\ Posts(ok, source, p, lines)
      /\ advance' = Written(ok, advance, a, [amount |-> amount, period |-> p, payment |-> "posted"])
      /\ advanceLedger' = Written(ok, advanceLedger, a, amount)
      /\ UNCHANGED <<accountTransfer, giftCard, settlements, documents, closing>>

\* A payment is reversed by a payment of its own, dated like the first, whose
\* entry swaps the two accounts of the first; the counterparty of a gift
\* card's payment is the receivable.  No other table is looked at.
ReversalSource(k) == <<"payment_reversal", k>>
ReversalLines(row, counterparty) == <<Credit("cash", row.amount), Debit(counterparty, row.amount)>>
ReversedRow(row) == [row EXCEPT !.payment = "reversed"]

ReverseAdvance(a) ==
  LET row == advance[a]
      lines == ReversalLines(row, "advances")
      ok == Accepts(ReversalSource(a), row.period, lines)
  IN  /\ advance[a] # None /\ row.payment = "posted"
      /\ Posts(ok, ReversalSource(a), row.period, lines)
      /\ advance' = Written(ok, advance, a, ReversedRow(row))
      /\ UNCHANGED <<accountTransfer, giftCard, advanceLedger, settlements, documents, closing>>

ReverseCardPayment(g) ==
  LET row == giftCard[g]
      lines == ReversalLines(row, "receivable")
      ok == Accepts(ReversalSource(g), row.period, lines)
  IN  /\ giftCard[g] # None /\ row.payment = "posted"
      /\ Posts(ok, ReversalSource(g), row.period, lines)
      /\ giftCard' = Written(ok, giftCard, g, ReversedRow(row))
      /\ UNCHANGED <<accountTransfer, advance, advanceLedger, settlements, documents, closing>>

\* The items are of one amount, fee and adjustment here.  Fee, adjustment
\* and what is settled are lines of one account; a delivery is in one
\* settlement at most, its status is not looked at.
SettleCod(items, cod, fee, adjustment, p) ==
  LET n == Cardinality(items)
      net == n * (cod - fee + adjustment)
      source == <<"courier_cod_settlement", items>>
      lines == <<Debit("cash", net), Debit("clearing", n * fee)>>
                 \o If(adjustment > 0, Debit("clearing", n * adjustment))
                 \o If(adjustment < 0, Credit("clearing", -n * adjustment))
                 \o <<Credit("clearing", n * cod)>>
      ok == net >= 0 /\ items \cap UNION {s.items : s \in settlements} = {} /\ Accepts(source, p, lines)
      settlement == [items |-> items, gross |-> n * cod, fee |-> n * fee, net |-> net]
  IN  /\ Posts(ok, source, p, lines)
      /\ settlements' = IF ok THEN settlements \cup {settlement} ELSE settlements
      /\ UNCHANGED <<accountTransfer, giftCard, advance, advanceLedger, documents, closing>>

InstrumentsNext ==
  \/ LedgerNext /\ UNCHANGED instruments
  \/ \E p \in Periods, n \in Amounts, fee \in Fees \cup {0} :
       \/ \E t \in AccountTransfers, to \in {n, n - fee}, hasClearing \in BOOLEAN :
            to > 0 /\ TransferAccount(t, n, to, fee, hasClearing, p)
       \/ \E items \in (SUBSET Deliveries) \ {{}}, adjustment \in {-fee, 0, fee} : SettleCod(items, n, fee, adjustment, p)
  \/ \E p \in Periods, n \in Amounts :
       \/ \E g \in GiftCards, mode \in {"sold", "promotional"} : IssueGiftCard(g, mode, 10 * Units(n), p)
       \/ \E a \in Advances : ReceiveAdvance(a, n, p)
  \/ \E a \in Advances : ReverseAdvance(a)
  \/ \E g \in GiftCards : ReverseCardPayment(g)
-----------------------------------------------------------------------------
TransferIsBooked(t) == LET row == accountTransfer[t] IN
  IF row = None THEN EntriesOf(<<"account_transfer", t>>) = {}
  ELSE Says(<<"account_transfer", t>>, "cash", -row.from) /\ Says(<<"account_transfer", t>>, "bank", row.to)

\* What a payment and its reversal, when it has one, leave in the cash.
CashOf(source, payment) == Booked(source, "cash") + Booked(ReversalSource(payment), "cash")

CardIsBooked(g) == LET row == giftCard[g] IN
  IF row = None THEN EntriesOf(<<"gift_card", g>>) = {}
  ELSE /\ 10 * Booked(<<"gift_card", g>>, "gift_cards") = -row.amount
       /\ 10 * CashOf(<<"gift_card", g>>, g) = IF row.payment = "posted" THEN row.amount ELSE 0

AdvanceIsBooked(a) == LET row == advance[a] IN
  IF row = None THEN EntriesOf(<<"payment", a>>) = {}
  ELSE CashOf(<<"payment", a>>, a) = IF row.payment = "posted" THEN Units(row.amount) ELSE 0

SettlementIsBooked(s) ==
  /\ Says(<<"courier_cod_settlement", s.items>>, "cash", s.net)
  /\ Says(<<"courier_cod_settlement", s.items>>, "clearing", s.fee - s.gross)

InstrumentsAreBooked ==
  /\ \A t \in AccountTransfers : TransferIsBooked(t)
  /\ \A g \in GiftCards : CardIsBooked(g)
  /\ \A a \in Advances : AdvanceIsBooked(a)
  /\ \A s \in settlements : SettlementIsBooked(s)

(* The liability for advances is what the advance ledger adds up to, to a  *)
(* unit of the currency (lib/reconciliation/checks.ts:221-228).  It is not *)
(* so after the payment of an advance was reversed.                        *)
AdvanceLiability ==
  LET sources == {<<"payment", a>> : a \in Advances} \cup {ReversalSource(a) : a \in Advances}
      liability == -FoldSet(LAMBDA s, sum : sum + Booked(s, "advances"), 0, sources)
  IN  Size(10 * liability - FoldSet(LAMBDA a, sum : sum + advanceLedger[a], 0, Advances)) <= 1000
=============================================================================
