------------------------------- MODULE Ledger -------------------------------
(***************************************************************************)
(* The journal of a company, the fiscal periods it is kept in, and the     *)
(* documents that post to it: fixed assets, payroll runs, expenses and     *)
(* manual entries (src/domain/commands/m4, m6, src/lib/accounting).        *)
(*                                                                         *)
(* A command is one Serializable transaction: its document and its entry   *)
(* are written together or, when anything refuses, not at all.  The period *)
(* close is not: its requests read the period and change it by a later     *)
(* statement outside any transaction, so other requests come in between.   *)
(*                                                                         *)
(* Amounts a document carries are in tenths of the smallest currency unit, *)
(* which exchange rates and averages leave; the journal holds whole units. *)
(***************************************************************************)
EXTENDS Integers, Sequences, FiniteSets, SequencesExt

CONSTANTS
  Periods, Assets, Payrolls, Expenses,
  Reviewers,     \* requests that close, lock or unlock a period
  Amounts,       \* bound: the amounts, in tenths, documents are posted with
  MaxEntries,    \* bound: entries in the journal
  None

\* The rows of the three tables; one that does not exist yet is None.
AssetRows ==
  [status : {"active", "fully_depreciated", "disposed"}, cost : Int, salvage : Int, depreciated : Int]
PayrollRows == [status : {"posted", "paid"}, gross : Int, deductions : Int]
ExpenseRows == [items : Seq(Int), tax : Int]

ASSUME LedgerAssumption ==
  /\ Amounts \subseteq Nat \ {0} /\ MaxEntries \in Nat
  /\ None \notin AssetRows /\ None \notin PayrollRows /\ None \notin ExpenseRows

VARIABLES
  period,        \* fiscal_periods: their status
  review,        \* the period close requests being served
  failed,        \* reconciliation_runs: the last that did not pass failed
  rounding,      \* accounting_policies: whether there is a rounding account
  journal,       \* journal_entries with their lines, and business_events
  asset, payroll, expense

books == <<rounding, journal>>
documents == <<asset, payroll, expense>>
closing == <<period, review, failed>>
ledgerVars == <<period, review, failed, rounding, journal, asset, payroll, expense>>
-----------------------------------------------------------------------------
NoReview == [at |-> "idle", period |-> None]

LedgerInit ==
  /\ period = [p \in Periods |-> "open"]
  /\ review = [v \in Reviewers |-> NoReview]
  /\ failed = FALSE
  /\ rounding \in BOOLEAN
  /\ journal = {}
  /\ asset = [a \in Assets |-> None]
  /\ payroll = [r \in Payrolls |-> None]
  /\ expense = [x \in Expenses |-> None]
-----------------------------------------------------------------------------
(* Posting.                                                                *)
Debit(account, n) == [account |-> account, debit |-> n, credit |-> 0]
Credit(account, n) == [account |-> account, debit |-> 0, credit |-> n]

Signed(l) == l.debit - l.credit
Residual(lines) == SumFunction([i \in DOMAIN lines |-> Signed(lines[i])])
Size(n) == IF n < 0 THEN -n ELSE n

\* Half up, to whole units.
Units(n) == (n + 5) \div 10

InUnits(lines) == [i \in DOMAIN lines |->
  [account |-> lines[i].account, debit |-> Units(lines[i].debit), credit |-> Units(lines[i].credit)]]

\* The side that is short when the debits are n more than the credits.
Short(l, n) == IF n < 0 THEN l.debit ELSE l.credit
Raised(l, n) == IF n < 0 THEN [l EXCEPT !.debit = @ - n] ELSE [l EXCEPT !.credit = @ + n]

\* The first of the lines that are largest there.
Largest(lines, n) == CHOOSE i \in DOMAIN lines : \A j \in DOMAIN lines :
  /\ Short(lines[j], n) <= Short(lines[i], n)
  /\ j < i => Short(lines[j], n) < Short(lines[i], n)

\* What rounding moved between the sides goes to the rounding account or,
\* without one, onto the largest line of the short side.
Evened(lines) ==
  LET units == InUnits(lines)
      n == Residual(units)
  IN  IF n = 0 THEN units
      ELSE IF rounding THEN Append(units, Raised(Debit("rounding", 0), n))
      ELSE [units EXCEPT ![Largest(units, n)] = Raised(@, n)]

\* The lines with nothing left are not written; the others keep their place.
Rounded(lines) ==
  LET even == Evened(lines)
  IN  Restrict(even, {i \in DOMAIN even : even[i].debit # 0 \/ even[i].credit # 0})

OneSided(l) == (l.debit > 0) # (l.credit > 0)
Balanced(lines) ==
  /\ Cardinality(DOMAIN lines) >= 2 /\ Residual(lines) = 0
  /\ \A i \in DOMAIN lines : OneSided(lines[i])

\* The checks of the command, and those of the database: the entry balances,
\* its lines have one side each, and its source has no other entry.
Accepts(source, p, lines) ==
  /\ period[p] = "open"
  /\ \A e \in journal : e.source # source
  /\ Balanced(lines) /\ Balanced(Rounded(lines))
  /\ 10 * Size(Residual(InUnits(lines))) <= 5 * Len(lines)

\* A command either writes its entry and its document or, refused, nothing.
Posts(ok, source, p, lines) ==
  /\ ok => Cardinality(journal) < MaxEntries
  /\ journal' = IF ok THEN journal \cup {[source |-> source, period |-> p, lines |-> Rounded(lines)]} ELSE journal
  /\ UNCHANGED rounding

\* seeded fault: the document is written outside the transaction (transaction.ts:84-107)
WrittenFirst(ok, rows, k, row) == [rows EXCEPT ![k] = row]

Written(ok, rows, k, row) == IF ok THEN [rows EXCEPT ![k] = row] ELSE rows
-----------------------------------------------------------------------------
(* Fixed assets.                                                           *)
AssetSource(a) == <<"fixed_asset", a>>

Acquire(a, cost, salvage, p) ==
  LET lines == <<Debit("asset", cost), Credit("cash", cost)>>
      ok == Accepts(AssetSource(a), p, lines)
  IN  /\ asset[a] = None /\ salvage <= cost
      /\ Posts(ok, AssetSource(a), p, lines)
      /\ asset' = Written(ok, asset, a, [status |-> "active", cost |-> cost, salvage |-> salvage, depreciated |-> 0])
      /\ UNCHANGED <<payroll, expense, closing>>

\* Straight line or declining, capped at the salvage value; an asset that
\* has nothing left is marked before the command refuses.
Depreciate(a, amount, p) ==
  LET row == asset[a]
      left == row.cost - row.salvage - row.depreciated
      due == IF amount < left THEN amount ELSE left
      lines == <<Debit("depreciation", due), Credit("accumulated", due)>>
      ok == due > 0 /\ Accepts(AssetSource(a), p, lines)
  IN  /\ asset[a] # None /\ row.status = "active"
      /\ Posts(ok, AssetSource(a), p, lines)
      /\ asset' = Written(ok, asset, a,
           [row EXCEPT !.depreciated = @ + due, !.status = IF due = left THEN "fully_depreciated" ELSE @])
      /\ UNCHANGED <<payroll, expense, closing>>

Dispose(a, proceeds, p) ==
  LET row == asset[a]
      gain == proceeds - (row.cost - row.depreciated)
      lines == SelectSeq(
        << Debit("cash", proceeds), Debit("accumulated", row.depreciated),
           Debit("gain_loss", IF gain < 0 THEN -gain ELSE 0),
           Credit("asset", row.cost), Credit("gain_loss", IF gain > 0 THEN gain ELSE 0) >>,
        OneSided)
      ok == Accepts(AssetSource(a), p, lines)
  IN  /\ asset[a] # None /\ row.status # "disposed"
      /\ Posts(ok, AssetSource(a), p, lines)
      /\ asset' = Written(ok, asset, a, [row EXCEPT !.status = "disposed"])
      /\ UNCHANGED <<payroll, expense, closing>>
-----------------------------------------------------------------------------
(* Payroll, expenses and manual entries.                                   *)
PayrollSource(r) == <<"payroll_run", r>>

PostPayroll(r, gross, deductions, p) ==
  LET withheld == IF deductions > 0 THEN <<Credit("payable", deductions)>> ELSE <<>>
      lines == <<Debit("salaries", gross)>> \o withheld \o <<Credit("payable", gross - deductions)>>
      ok == Accepts(PayrollSource(r), p, lines)
  IN  /\ payroll[r] = None /\ deductions <= gross
      /\ Posts(ok, PayrollSource(r), p, lines)
      /\ payroll' = Written(ok, payroll, r, [status |-> "posted", gross |-> gross, deductions |-> deductions])
      /\ UNCHANGED <<asset, expense, closing>>

PayPayroll(r, p) ==
  LET net == payroll[r].gross - payroll[r].deductions
      lines == <<Debit("payable", net), Credit("cash", net)>>
      ok == Accepts(PayrollSource(r), p, lines)
  IN  /\ payroll[r] # None /\ payroll[r].status = "posted"
      /\ Posts(ok, PayrollSource(r), p, lines)
      /\ payroll' = Written(ok, payroll, r, [payroll[r] EXCEPT !.status = "paid"])
      /\ UNCHANGED <<asset, expense, closing>>

\* The debits are the items without their tax, the credit the grand total.
PostExpense(x, items, tax, p) ==
  LET subtotal == SumFunction(items)
      lines == [i \in DOMAIN items |-> Debit("expense", items[i])] \o <<Credit("cash", subtotal + tax)>>
      ok == Accepts(<<"expense", x>>, p, lines)
  IN  /\ expense[x] = None
      /\ Posts(ok, <<"expense", x>>, p, lines)
      /\ expense' = Written(ok, expense, x, [items |-> items, tax |-> tax])
      /\ UNCHANGED <<asset, payroll, closing>>

\* Every manual entry has one and the same source.
PostManually(amount, p) ==
  LET lines == <<Debit("expense", amount), Credit("cash", amount)>>
  IN  /\ Posts(Accepts(<<"manual", "manual">>, p, lines), <<"manual", "manual">>, p, lines)
      /\ UNCHANGED <<documents, closing>>
-----------------------------------------------------------------------------
(* Period close.                                                           *)
Moves(v, step, p) == review' = [review EXCEPT ![v] = [at |-> step, period |-> p]]
Ends(v) == review' = [review EXCEPT ![v] = NoReview]

StartClose(v, p) ==
  /\ review[v].at = "idle"
  /\ Moves(v, "checks", p)
  /\ UNCHANGED <<period, failed, books, documents>>

\* The reconciliation writes its run; a critical finding, a draft or an
\* entry dated after the period blocks the soft lock.
Check(v, outcome, blocked) ==
  /\ review[v].at = "checks"
  /\ failed' = IF outcome = "passed" THEN failed ELSE outcome = "failed"
  /\ IF outcome = "failed" \/ blocked THEN Ends(v) ELSE Moves(v, "soft_lock", review[v].period)
  /\ UNCHANGED <<period, books, documents>>

SoftLock(v) ==
  /\ review[v].at = "soft_lock"
  /\ period' = [period EXCEPT ![review[v].period] = "soft_locked"]
  /\ Ends(v)
  /\ UNCHANGED <<failed, books, documents>>

StartLock(v, p) ==
  /\ review[v].at = "idle" /\ period[p] = "soft_locked"
  /\ Moves(v, "last_run", p)
  /\ UNCHANGED <<period, failed, books, documents>>

CheckLastRun(v) ==
  /\ review[v].at = "last_run"
  /\ IF failed THEN Ends(v) ELSE Moves(v, "lock", review[v].period)
  /\ UNCHANGED <<period, failed, books, documents>>

Lock(v) ==
  /\ review[v].at = "lock"
  /\ period' = [period EXCEPT ![review[v].period] = "locked"]
  /\ Ends(v)
  /\ UNCHANGED <<failed, books, documents>>

StartUnlock(v, p, isPlatformOps) ==
  /\ review[v].at = "idle" /\ (period[p] = "locked" => isPlatformOps)
  /\ Moves(v, "unlock", p)
  /\ UNCHANGED <<period, failed, books, documents>>

Unlock(v) ==
  /\ review[v].at = "unlock"
  /\ period' = [period EXCEPT ![review[v].period] = "open"]
  /\ Ends(v)
  /\ UNCHANGED <<failed, books, documents>>

\* A statement fails, or the process dies.
Abandon(v) ==
  /\ review[v].at # "idle"
  /\ Ends(v)
  /\ UNCHANGED <<period, failed, books, documents>>

Post(p) ==
  \/ \E a \in Assets, n \in Amounts :
       \/ \E salvage \in {0, n} : Acquire(a, n, salvage, p)
       \/ Depreciate(a, n, p) \/ Dispose(a, n, p)
  \/ \E r \in Payrolls :
       \/ \E gross \in Amounts, deductions \in {0, 10} : PostPayroll(r, gross, deductions, p)
       \/ PayPayroll(r, p)
  \/ \E x \in Expenses, m, n \in Amounts, tax \in {0, 10} : PostExpense(x, <<m, n>>, tax, p)
  \/ \E n \in Amounts : PostManually(n, p)

Close(v) ==
  \/ \E p \in Periods : StartClose(v, p) \/ StartLock(v, p) \/ \E ops \in BOOLEAN : StartUnlock(v, p, ops)
  \/ \E outcome \in {"passed", "partial", "failed"}, blocked \in BOOLEAN : Check(v, outcome, blocked)
  \/ SoftLock(v) \/ CheckLastRun(v) \/ Lock(v) \/ Unlock(v) \/ Abandon(v)

LedgerNext == (\E p \in Periods : Post(p)) \/ (\E v \in Reviewers : Close(v))
-----------------------------------------------------------------------------
EntriesOf(source) == {e \in journal : e.source = source}

OnAccount(lines, account) ==
  SumFunction([i \in {j \in DOMAIN lines : lines[j].account = account} |-> Signed(lines[i])])

\* What the entries of a source add to an account, in whole units.
Booked(source, account) == SumFunction([e \in EntriesOf(source) |-> OnAccount(e.lines, account)])

\* An entry of three lines may move an account by half a unit a line.
Says(source, account, tenths) == Size(10 * Booked(source, account) - tenths) <= 15

AssetIsBooked(a) == LET row == asset[a] IN
  IF row = None THEN EntriesOf(AssetSource(a)) = {}
  ELSE /\ Says(AssetSource(a), "asset", IF row.status = "disposed" THEN 0 ELSE row.cost)
       /\ Says(AssetSource(a), "accumulated", IF row.status = "disposed" THEN 0 ELSE -row.depreciated)
       /\ row.status = "fully_depreciated" => row.depreciated = row.cost - row.salvage

PayrollIsBooked(r) == LET row == payroll[r] IN
  IF row = None THEN EntriesOf(PayrollSource(r)) = {}
  ELSE /\ Says(PayrollSource(r), "salaries", row.gross)
       /\ Says(PayrollSource(r), "payable", IF row.status = "paid" THEN -row.deductions ELSE -row.gross)

ExpenseIsBooked(x) == LET row == expense[x] IN
  IF row = None THEN EntriesOf(<<"expense", x>>) = {}
  ELSE LET subtotal == SumFunction(row.items)
       IN  Says(<<"expense", x>>, "expense", subtotal) /\ Says(<<"expense", x>>, "cash", -(subtotal + row.tax))

DocumentsAreBooked ==
  /\ \A a \in Assets : AssetIsBooked(a)
  /\ \A r \in Payrolls : PayrollIsBooked(r)
  /\ \A x \in Expenses : ExpenseIsBooked(x)
=============================================================================
