------------------------- MODULE BankReconciliation -------------------------
(***************************************************************************)
(* One bank reconciliation beside the ledger                               *)
(* (src/domain/commands/m4/BankReconciliation.ts): the payments of an      *)
(* account, imported as system lines, are matched with the lines of the    *)
(* bank's statement, by amount and date or by hand, and what the closing   *)
(* balances differ by is posted.                                           *)
(***************************************************************************)
EXTENDS Instruments

CONSTANTS
  SystemLines, StatementLines,
  Value, Day,      \* of each line: its signed amount and its date
  Variances        \* bound: statement less system closing balance, in tenths

Lines == SystemLines \cup StatementLines

ASSUME LinesAssumption ==
  /\ SystemLines \cap StatementLines = {} /\ IsFiniteSet(Lines) /\ None \notin Lines
  /\ Value \in [Lines -> Int] /\ Day \in [Lines -> Int]
  /\ Variances \subseteq Int
  /\ None \notin [match : {"unmatched", "matched", "manually_matched"}, with : Lines \cup {None}]

VARIABLES
  statement,   \* bank_reconciliations: status, variance and period of the date
  line         \* bank_reconciliation_lines: whether and with what it is matched

reconciliationVars == <<instrumentVars, statement, line>>
-----------------------------------------------------------------------------
Unmatched == [match |-> "unmatched", with |-> None]

ReconciliationInit ==
  /\ InstrumentsInit
  /\ statement = [status |-> "none", variance |-> 0, period |-> None]
  /\ line = [l \in Lines |-> None]

Waiting(lines) == {l \in lines : line[l] # None /\ line[l].match = "unmatched"}

\* The header, and a line for each payment of the account.
Create(p, variance) ==
  /\ statement.status = "none"
  /\ statement' = [status |-> "in_progress", variance |-> variance, period |-> p]
  /\ line' = [l \in Lines |-> IF l \in SystemLines THEN Unmatched ELSE line[l]]
  /\ UNCHANGED instrumentVars

\* One line of the statement, or several at once.
AddStatementLines(new) ==
  /\ statement.status \notin {"none", "reconciled"}
  /\ new # {} /\ \A l \in new : line[l] = None
  /\ line' = [l \in Lines |-> IF l \in new THEN Unmatched ELSE line[l]]
  /\ UNCHANGED <<instrumentVars, statement>>

\* Within a cent and three days.
Near(s, t) == Value[s] - Value[t] \in -1..1 /\ Day[s] - Day[t] \in -3..3

\* The orders a query by date may answer with.
ByDate(lines) == {q \in SetToSeqs(lines) : \A i, j \in DOMAIN q : i < j => Day[q[i]] <= Day[q[j]]}

\* The statement lines, in the order ts, that the system line ss[i] may still
\* take when found says what the lines before it took.
Free(found, ss, ts, i) == {k \in DOMAIN ts : Near(ss[i], ts[k]) /\ \A j \in 1..(i - 1) : found[j] # ts[k]}

\* Each system line in turn takes the first statement line left that is near.
EachTakesFirst(found, ss, ts) == \A i \in DOMAIN ss :
  \/ Free(found, ss, ts, i) = {} /\ found[i] = None
  \/ \E k \in Free(found, ss, ts, i) : found[i] = ts[k] /\ \A h \in Free(found, ss, ts, i) : k <= h

\* Both lines of a pair are updated, each to point at the other.
Paired(pairs, how) ==
  [l \in Lines |->
     IF \E q \in pairs : l \in q THEN [match |-> how, with |-> CHOOSE k \in Lines : k # l /\ {k, l} \in pairs]
     ELSE line[l]]

AutoMatch ==
  /\ statement.status # "none"
  /\ \E ss \in ByDate(Waiting(SystemLines)), ts \in ByDate(Waiting(StatementLines)) :
       \E found \in [DOMAIN ss -> Waiting(StatementLines) \cup {None}] :
         /\ EachTakesFirst(found, ss, ts)
         /\ line' = Paired({{ss[i], found[i]} : i \in {j \in DOMAIN ss : found[j] # None}}, "matched")
  /\ UNCHANGED <<instrumentVars, statement>>

\* seeded fault: only the payment's line is looked at (BankReconciliation.ts:357-362)
SystemLineMatchable(s, t) == line[s] # None /\ line[t] # None /\ line[s].match # "matched"

Matchable(s, t) ==
  /\ line[s] # None /\ line[t] # None
  /\ line[s].match # "matched" /\ line[t].match # "matched"

\* Only these two lines are written: a line either was matched with by hand
\* before keeps pointing at it.
ManualMatch(s, t) ==
  /\ Matchable(s, t)
  /\ line' = Paired({{s, t}}, "manually_matched")
  /\ UNCHANGED <<instrumentVars, statement>>

StatementSource == <<"bank_reconciliation", "statement">>

\* The balances are compared again; a difference is posted once, and the
\* statement stays open for more lines.
Finalise ==
  LET n == Size(statement.variance)
      gain == statement.variance > 0
      lines == IF gain THEN <<Debit("bank", n), Credit("rounding", n)>> ELSE <<Debit("rounding", n), Credit("bank", n)>>
      ok == Accepts(StatementSource, statement.period, lines)
  IN  /\ statement.status \notin {"none", "reconciled"}
      /\ IF n > 10
         THEN /\ Posts(ok, StatementSource, statement.period, lines)
              /\ statement' = IF ok THEN [statement EXCEPT !.status = "has_variance"] ELSE statement
         ELSE /\ statement' = [statement EXCEPT !.status = "reconciled"]
              /\ UNCHANGED books
      /\ UNCHANGED <<documents, instruments, closing, line>>

ReconciliationNext ==
  \/ InstrumentsNext /\ UNCHANGED <<statement, line>>
  \/ \E p \in Periods, v \in Variances : Create(p, v)
  \/ \E new \in SUBSET StatementLines : AddStatementLines(new)
  \/ AutoMatch
  \/ \E s \in SystemLines, t \in StatementLines : ManualMatch(s, t)
  \/ Finalise

ReconciliationSpec == ReconciliationInit /\ [][ReconciliationNext]_reconciliationVars
-----------------------------------------------------------------------------
(* Two lines the program matched itself stay each other's match, whatever  *)
(* is matched by hand later, and a line may be so twice: the two are of    *)
(* one amount to a cent, within three days, and claimed by no third line   *)
(* (BankReconciliation.ts:290-324, 357).                                   *)
AutoPairsHold == \A l \in Lines : line[l] # None /\ line[l].match = "matched" =>
  LET k == line[l].with
  IN  /\ line[k].match = "matched" /\ line[k].with = l
      /\ Near(l, k) /\ (l \in SystemLines <=> k \in StatementLines)
      /\ \A m \in Lines \ {l, k} : line[m] # None => line[m].with # l

(* What the register of assets, the payroll runs, the expenses, the        *)
(* transfers, the gift cards, the payments of advances, the couriers'      *)
(* settlements and the statement's variance say is what the journal says,  *)
(* to the rounding of an entry's lines: also after a second posting of one *)
(* source was refused (PostJournalEntry.ts:174) with the document already  *)
(* written (AssetManagement.ts:270-277, PostExpense.ts:62,                 *)
(* PostPayrollRun.ts:68, PostCourierCodSettlement.ts:64), after payments   *)
(* were reversed, and whoever closed the period meanwhile.                 *)
BooksFollowDocuments ==
  /\ DocumentsAreBooked
  /\ InstrumentsAreBooked
  /\ Says(StatementSource, "bank", IF statement.status = "has_variance" THEN statement.variance ELSE 0)
=============================================================================
