# A verification project for ERP-POS

TLA+ modules, TLC configurations and TLAPS proofs about the parts of this
repository where the order of events decides whether money, stock and messages
stay right. Paths below are relative to the repository: `src/domain/...` is
`src/src/domain/...` in PROJECT.json.

## 1. The system

A multi-tenant ERP and point of sale. Next.js route handlers
(`src/app/api/v1/**`) authenticate, validate, and run a domain command
(`src/domain/**`) inside one Serializable MariaDB transaction
(`src/lib/db/transaction.ts`, three attempts on a write conflict, then 409).
Several web processes and one or more worker processes (`src/workers`, BullMQ
on Redis, and cron endpoints) share the database and nothing else. External
services are called from both: payment gateways, SMS gateways, webhooks of
customers, couriers. A transaction commits or leaves no trace, and MariaDB's
Serializable level makes two of them behave as if one ran after the other; what
is hard is everything that is *not* one transaction: a network call between two
of them, a row read in one and written in the next, a batch that outlives its
lease, a job delivered twice, a process that dies half-way, a client that
retries.

| Component | State it keeps | Operations | Talks to | What is hard |
|---|---|---|---|---|
| Idempotency keys (`lib/idempotency`) | `idempotency_requests` | reserve, replay, complete | every mutating route, in its transaction | a route that goes on after the reservation commits |
| Gateway payments (`payments/initiate`, `payments/[id]/refund`, `webhooks/payment`, `reversePayment`) | `payments`, journal entries | initiate, settle, refund, reverse | gateway, idempotency keys, ledger | calls between transactions; late and repeated webhooks; retries; deaths |
| Stock ledger and transfers (`domain/inventory/stockMovement.ts`, `commands/m2/Transfer.ts`) | `warehouse_stocks`, `stock_movements`, `transfers`, `stock_reservations` | create, dispatch, receive (whole), cancel | counts, sales, returns, reconciliation | three buckets of two warehouses must stay in step over a document's life |
| Reservation expiry (`lib/inventory/reservationExpiry.ts`) | `stock_reservations` | expire | stock ledger | nothing: no code sets `expires_at`, so the job finds no row |
| Stock counts and adjustments (`commands/m2/*Count*.ts`, `PostStockAdjustment.ts`) | counts, frozen quantities | create, update, post | stock ledger, ledger | the quantity counted against is stale when posted |
| Due reminders (`domain/receivables/reminders.ts`, `workers/dueReminders.ts`) | occurrences, outbound messages | plan, queue, send, recover, poll, resolve | SMS gateway, BullMQ | at-most-once over an unreliable provider; two workers; recovery racing a slow send |
| Collection campaigns, promises, follow-ups (`domain/communication`, `domain/receivables`) | campaigns, follow-ups | start, complete, keep/break promise | reminders, balances | completion racing the last message |
| Webhook outbox (`workers/outboxWorker.ts`) | `outbox_events`, `webhook_deliveries`, batches in memory | claim, deliver, retry, give up | customers' endpoints | the lease runs from the start of the batch and deliveries are serial; late runners write over newer ones |
| Offline sync (`domain/offline`) | `offline_batches`, `offline_commands` | submit a batch | sales, customers | a resent batch, a sequence reused with other contents |
| Document numbering (`lib/numbering`) | `document_sequences`, leases | next, reserve block, lease | every posting | gap-free in a transaction, blocks of journal numbers in the memory of processes, a fall-back from one to the other |
| Sales, voids, returns (`commands/m3`) | sales, items, payments, stock, journals | post, void, return | everything above | one transaction each, in any order over days: four records of a sale must agree |
| Cashier shifts and other payments (`commands/m3/CashierShift.ts`, `Payments.ts`) | shifts, payments, advances, cheques | open, close, approve, clear, bounce, advance | sales, ledger | a payment and its reversal counted into the wrong drawer |
| General ledger and period close (`commands/m4/PostJournalEntry.ts`, `lib/accounting`) | journal entries, fiscal periods | post, reverse, soft lock, lock, reopen, revalue | every posting | a posting racing a lock; read-then-update transitions |
| Bank reconciliation, fixed assets, expenses (`commands/m4`) | statements, matches, depreciation runs | match, finalise, depreciate, post | ledger | double matching, double depreciation |
| Delivery, COD settlement, service, warranty (`commands/m5`) | deliveries, settlements, service requests | transitions, settle | stock, ledger | settlement against a delivery that changes |
| Loyalty, leads, payroll (`commands/m6`) | points, leads, payroll runs | earn, redeem, convert, post, pay | ledger | balance checks |
| Approvals (`lib/approval`) | approval requests | request, resolve | adjustments, variances, purchases | read-then-write, maker and checker |
| Sessions and refresh tokens (`lib/auth`) | refresh tokens, sessions, MFA challenges | rotate, revoke, verify | middleware | reuse detection outside the rotating transaction |
| Rate limiting (`lib/auth/*ateLimit*`) | Redis counters | consume | login, routes | Redis unavailable |
| Import jobs, exports, retention, legal holds, data subject requests | jobs, holds | run, place, lift | storage | hold placed while the job runs |
| Reconciliation checks (`lib/reconciliation`) | runs, exceptions | run | all ledgers | read-only |
| Access control, permissions, tenant scoping (`lib/access`, `lib/permissions`, `lib/db`) | roles, assignments | assign, authorise | every route | not concurrent in an interesting way |
| Pricing and tax (`domain/tax`), validation (`domain/invariants`) | none | pure functions | sales | arithmetic |
| Adapters, printing, PDF, i18n, telemetry, storage, UI (`components`, `hooks`, `app/**/*.tsx`, `reports`) | none | I/O and presentation | | out of scope |

## 2. Plan

The order followed what can go wrong with the most money or goods behind it, and
every module is written to be proved about as well as checked: parameters are
CONSTANTS with a named assumption, each command or step between two awaits is
one action, invariants are conjunctions of named parts, sums are sums of
functions over finite sets, no definition is RECURSIVE.

| Step | Modules | What is composed or implemented | Runs | Theorems |
|---|---|---|---|---|
| 1, done | `IdempotencyKeys`, `GatewayPayment` | the reservation steps of `GatewayPayment` are built from the operators of `IdempotencyKeys` | `gateway_refund`, `gateway_settle` | types, once per key, cap, one cash-out, claims, completed means paid |
| 2, done | `Company`, `Inventory`, `StockCustody` | `Inventory` (stock, transfers, counts, adjustments, approvals share one state) implements `StockCustody` | `stock_transfers`, `stock_counts`, `stock_approvals` | types, all invariants (projections included), one action property, the refinement |
| 3, done | `OutboundMessages` | reminders, campaigns, workers and provider share the messages | `messages` | types, four invariants, one action property |
| 4, done | `SaleLifecycle` | sale, schedule, collection, return, refund, reversal, void, drawer over one customer's records | `sales` | each payment is reversed once, nothing over-collected, a void keeps nothing, ledger and books follow the sales |
| 5, done | `Outbox`, `EventDelivery` | `Outbox` implements `EventDelivery` | `outbox` | types, both safety properties, the refinement |
| 6, done | `StockValue` | every command that moves stock, over average, ledger values and inventory account | `stock_value` | values stay near the average, the account follows the stock up to the roundings |
| 7, done | `JournalNumbers`, `OfflineSync` | a batch is one transaction of `JournalNumbers` and a request of `IdempotencyKeys` | `offline` | unique numbers, once per sequence number, true answers |
| 8, done | `Sessions` | login, second factor, refresh, reuse, logout, change of access of one user | `sessions` | types, both invariants, the action property |
| 9, done | `Ledger`, `Instruments`, `BankReconciliation` | `Instruments` (transfers between accounts, advances, gift cards, COD settlements) extends `Ledger` (assets, payroll, expenses, period close), `BankReconciliation` extends both; all post to one journal | `ledger` | books follow documents, program's pairs stay |
| next | `Deliveries` over `SaleLifecycle` and `Instruments` | a delivery's status, the courier's webhook that writes over it, and the settlement | one sale, two deliveries | a terminal status under the requests that respect one |

## 3. Modules, and how they correspond to the code

### IdempotencyKeys

One variable, `rows`: which request each Idempotency-Key of a company is bound
to. `withIdempotency` is always called with a transaction client, so the row,
the business writes and the stored answer commit together: a key is free,
replays its request, or (another request) answers 409. The module has operators
and no actions: `IsReplay`, `MayRun` and `Complete` are parts of a route's own
reservation step. `lib/idempotency` has a second mode, without a client and with
a `processing`/`failed` protocol of its own; nothing calls it.

### GatewayPayment

The tables `payments` (`status`, `methodRef`, and per payment the reversal row
`refundRow`, the sum `refunded` and the number of cash-out entries `cashOut`),
the gateway (`txnOf`, `txnState`, `sentBack`), and one program counter per
request in progress, `work`, which carries what the handler read earlier.

| Code | Actions |
|---|---|
| `payments/initiate/route.ts` | `InitiateReserve` (phase 1), `InitiateFind` (looks the row up again), `InitiateCall` (gateway), `InitiateOk` or `InitiateFailed` (the writes after it; a failing write of the first is taken for a failing gateway) |
| `payments/[id]/refund/route.ts` | `RefundReserve` (key, cap and claim in one transaction), `RefundCall`, `RefundRow`, `RefundJournal` |
| `reversePayment` (`domain/commands/m3/Payments.ts`) | `ReversePayment`, one transaction |
| `webhooks/payment/[provider]/route.ts` | `HookRead` (outside the transaction), `HookApply` (conditional on the status read) |
| the customer at the gateway | `Answer` |
| a process that dies | `Crash`, at any point of any request |

A gateway call is one action with four outcomes: accepted or refused, answered
or not. `Settled` payments were received by staff before the behaviour starts;
the others go through `initiate`. `HasPolicies` says whether the company has
set up its accounting policies, on which every journal entry depends.

### Inventory and StockCustody

`warehouse_stocks` is four functions (`onHand`, `reserved`, `inTransit`,
`damaged`); transfers, counts, adjustments and approval requests are functions
from their ids to records. Each command of `domain/commands/m2` is one
Serializable transaction and one action. `asking` is the exception:
`POST /api/v1/approvals` checks and inserts in two statements outside any
transaction, so `AskApproval` and `FileAsked` are two actions.

| Code | Actions |
|---|---|
| `domain/inventory/stockMovement.ts` | `MayMove`, `Frozen`, `CanMove`: the guards of every movement |
| every other document (purchase, sale, return, void, opening stock) | `PostOnHand`, `PostDamagedReturn` |
| `commands/m2/*Transfer*` | `CreateTransfer`, `DispatchTransfer`, `ReceiveTransfer`, `CancelTransfer`; the reservation rows follow the transfer's status |
| `PostStockAdjustment.ts` | `PostAdjustment`, `RequestAdjustment`, `PostApprovedAdjustment`, `CancelAdjustment` |
| `CreateStockCount.ts`, `UpdateStockCount.ts`, `PostStockCount.ts` | `CreateCount`, `CreateAndPostCount`, `StartCount`, `SaveCount`, `ReviewCount`, `ReopenCount`, `CancelCount`, `PostCount` |
| `lib/approval/workflow.ts` and the approval routes | `AskApproval`, `FileAsked`, `ResolveApproval` |

`seen`, in an approval request, is a history field: what the request was about
when it was filed. `StockCustody` is the abstract specification: a product is
available in a warehouse or held by a transfer; taking, shipping, giving back
and delivering are the only ways across, and shipping changes nothing for
anyone else. What `Inventory` shares with `StockValue`, the warehouses and the
transfers, is declared in `Company`. `Inventory` implements it with `available` as on hand less
reserved: that reservations, the in-transit bucket and the order in which the
two are updated do what they are for.

### OutboundMessages

`status`, `attempts` and `tracked` are the columns of `outbound_messages`;
`occurrence` and `campaign` those of the tables that queue. A send job of a
worker is `at` (the step it is before) and `job` (its message). `taken` counts
how often the provider took a message.

| Code (`domain/receivables/reminders.ts` unless named) | Actions |
|---|---|
| planning and queueing of due reminders | `PlanDueReminders`, `QueueDueReminderMessage`, `DropDueReminder` |
| manual and bulk reminders | `QueueManualReminder`, `QueueBulkReminders` |
| `domain/communication/campaigns.ts` | `SendCampaign`, `CancelCampaign`, `CompleteFinishedCampaign` |
| `sendOutboundMessage` | `Claim`, `Prepare`, `CallGateway`, `Finish` |
| a worker that dies or throws | `Die` |
| recovery, delivery reports, staff | `RecoverInterruptedSends`, `PollDeliveryReport`, `ResolveUnknownMessage` |

There is no clock. A worker may be arbitrarily slow, so recovery may meet a
send that is still going on, at every point of it: that is the ten-minute rule
with the time taken out. The messages are those of one calendar day of the
company; what `blockReason` finds is any reason at any check.

### SaleLifecycle

`sales` (with the serials sold and the instalment schedule), `returns`,
`payments` with their allocations, `shifts`, `serials`, the warehouse row
(`onHand`, `damaged`) and the balance of each account, `gl`. Every command is
one Serializable transaction and one action; what can go wrong is their order
over days. What an instalment still owes is never stored: `Outstanding` derives
it from posted payments and returns as `installmentBalances` does.

| Code | Actions |
|---|---|
| `commands/m3/PostSale.ts`, `domain/receivables/schedule.ts` | `PostSale`: credit check, schedule, stock, serials, payment, two entries |
| `commands/m3/CollectCustomerPayment.ts`, `domain/receivables/balances.ts` | `CollectCustomerPayment`: oldest due first, over the chosen sales |
| `commands/m3/PostSaleReturn.ts` | `PostSaleReturn`, of one line |
| `payments/route.ts` with a `sale_refund` | `RefundReturn` |
| `reversePayment` | `ReversePayment` |
| `commands/m3/VoidSale.ts` | `VoidSale` |
| `commands/m3/CashierShift.ts` | `OpenCashierShift`, `CloseCashierShift` |
| the calendar | `Tomorrow` |

### Outbox and EventDelivery

`status`, `attempts` and `wait` are the columns of `outbox_events`, `wait` being
how long `next_attempt_at` is still ahead; `delivery` the status of the
`webhook_deliveries` rows. `job` is a run of `processOutboxBatch`: its step, the
events still to be claimed, what it read of them, the endpoint it is sending to.
`fresh` says for which events a runner's claim would still find the
`next_attempt_at` it read. `owed`, `got` and `overran` are history.

| Code (`workers/outboxWorker.ts`) | Actions |
|---|---|
| the query for due events and the endpoints | `Poll` |
| the conditional claim | `Claim`, `LoseClaim` |
| `deliverWebhook`: the row, its creation, the request, its outcome | `Look`, `CreateRow` or `ThrowBatch` (the unique key refuses), `Post`, `Record` |
| what became of the event | `Skip`, `Publish`, `DeadLetter`, `Retry` |
| the end of a batch, a death, time | `EndBatch`, `Crash`, `Tick` |
| registering an endpoint, writing an event | `Register`, `Emit` (only tests do) |

`EventDelivery` is the abstract specification: events, who was owed them and who
has them. Late deliveries are allowed there; publishing needs every endpoint
that was owed the event to have it.

### StockValue

Per warehouse `stockRow` is the row's quantity and average with what its stock
movements add up to; purchases, sales and transfers are small records; `gl`
holds the accounts. `Moved` is `planStockMovement` with `projectStockValue`:
the cost of a movement, the new average rounded to stored decimals, the value
that goes to the stock ledger. Every command that moves stock is an action:
`PostOpeningStock`, `ReceivePurchase`, `PostPurchaseReturn`, `PostSale`,
`VoidSale`, `PostSaleReturn`, `DispatchTransferAtAverage`, `ReceiveTransferAtCost`,
`AddStock`, `SubtractStock`, `DamageStock`, `RecoverStock`, `PostStockCount`.

Money is rounded in three places, each to a unit of its own. One unit of the
model is the last stored decimal of an average; `Cent` of them are what
`roundToCurrencyScale` rounds a journal line to (`Journal`, which refuses an
entry that comes to nothing, and the whole command with it); `Grain` is how far
apart the numbers are that `Decimal.toNumber` and `parseFloat` can return for a
cost (`AsNumber`: returns of sales and purchases, receipts of transfers,
recovered goods). `PostSaleReturn` has both a condition and a disposition: the
first says where the goods go, the second whether the cost entry is posted, and
the code ties neither to the other. `opening`, `sentBack`, `numbered`, `entries` and
a sale's `unmatched` are history: what the code leaves out of one of the two
ledgers, and how often it rounds.

### JournalNumbers and OfflineSync

`JournalNumbers` is `nextJournalNumber`: the row of `document_sequences` as its
last writer (`next`) and its last commit (`committed`) left it, who holds it
(`lock`), the block of each process, the refill under way and the pause after a
failed one. A transaction asks for a number (`Ask`), gets it from the block
(`FromBlock`), waits for a refill (`AwaitRefill`) or goes to the row (`FromRow`),
and commits or not. `OfflineSync` extends it: `POST /api/v1/offline/sync` starts
a transaction (`Start`) that applies the commands whose sequence number it has
not seen (`Apply`) and records the batch, the commands, the answer and the key
at once (`Finish`); a sale posts an entry, as does closing a shift with a
difference; opening a shift or closing it without one is applied and posts
nothing; anything else is stored (`Outcome`). Two batches of one device that
read before either wrote are a write conflict (`WriteConflict`).

### Sessions

`token` is `refresh_tokens`, `door` how each family was or can be opened (at
once, by an MFA challenge, by an enrolment cookie), `handler` the requests in
progress, each with the step it is before. Login: `Login`, `IssueDirectly`,
`IssueChallenge`, `IssueSetup`. Second factor: `Verify`, `Consume`, `Activate`,
`Enable`, `Issue`. Refresh (`lib/auth/refreshToken.ts`): `Refresh`, `Rotate`,
`DetectReuse`, and in a later statement `RevokeReused`. Logout: `LogoutAccess`,
`LogoutCookie`. `ChangeAccess` is a password reset or an administrator's change.
`Stop` is any refusal, failure or death; what was written stays.

### Ledger, Instruments and BankReconciliation

`Accepts` and `Rounded` are `postJournalEntry` with the database's constraints:
an open period, one entry per source, balance before and after rounding to
whole units, lines of one side. A document and its entry are written together
or not at all (`Posts`, `Written`). Documents: `Acquire`, `Depreciate`,
`Dispose` (`commands/m4/AssetManagement.ts`), `PostPayroll`, `PayPayroll`
(`commands/m6`), `PostExpense`, `PostManually`. The period close
(`lib/accounting/periodClose.ts`) is not one transaction: `StartClose`, `Check`,
`SoftLock`; `StartLock`, `CheckLastRun`, `Lock`; `StartUnlock`, `Unlock`.
`Instruments` adds the commands that move money beside sales, as far as a route
calls them: `TransferAccount` and the reversal of a payment
(`commands/m3/Payments.ts`), `ReceiveAdvance` (`api/v1/advances`), `IssueGiftCard`
(`commands/m6/Loyalty.ts`), `SettleCod` (`commands/m5/PostCourierCodSettlement.ts`).
`ReverseAdvance` and `ReverseCardPayment` are one command over two kinds of
payments, which have different counterparties.
`BankReconciliation` adds one statement: `Create`, `AddStatementLines`,
`AutoMatch` (system lines in turn take the first statement line that is near,
said of the whole result by `EachTakesFirst`), `ManualMatch`, `Finalise`, which
posts the variance through `Accepts`. `ReconciliationSpec` is the specification
of the three together. An entry's written lines keep their places, so one that
rounding emptied leaves a gap where the code renumbers.

## 4. Runs

| Run | Configuration | States | What it shows |
|---|---|---|---|
| `gateway_refund` | 3 handlers, 3 keys, 2 payments received before, amount 2, 2 deaths | 3,551 | with symmetry: no key refunds twice, no payment gives back more than it received, no outflow is posted twice, a claim stands |
| `gateway_settle` | 2 handlers, 2 keys, 1 payment, 2 gateway transactions, 1 death, no accounting policies | 271,567 | a payment through initiate, webhook and refund (a reversal by staff posts an entry, which this company cannot); a completed payment was paid; the gateway's answer reaches a pending payment |
| `stock_transfers` | 2 warehouses, 1 product, 2 transfers, lines and stock up to 2 | 6,264 | projections, reservations, and the refinement of `StockCustody` |
| `stock_counts` | 2 warehouses, 2 counts, 1 transfer, stock up to 1, policies block and warn | 277,514 | a blocking count's snapshot stays current; posting leaves what was counted |
| `stock_approvals` | 1 count, 1 adjustment, 2 requests, 2 users, stock up to 2 | 558,261 | nothing that needs approval is posted without another user's approval of what is posted |
| `messages` | 2 workers; any 2 of a due, two manual, a bulk reminder and a campaign's message; 1 retry, 1 message a day per customer, 2 per company | 493,308 | nothing sent twice, limits, one reminder a day, quiet campaigns, no step back, and everything settles |
| `sales` | 2 units, 2 sales, 2 instalments, 2 days, 3 payment rows, 1 return, 1 shift, credit limit 2 | 681,396 | each payment is reversed once, no sale is over-collected, revenue follows the sales that stand less their returns, cost the same less the returns that were not scrapped, a void leaves nothing, receivable and cash agree |
| `outbox` | 2 runners, 1 event, 2 endpoints (one with an unreadable secret), lease of 2 ticks, 2 attempts, 1 death | 310,755 | within a lease one runner has an event and nobody gets it again after confirming; the refinement of `EventDelivery`, also beyond the lease; every event settles if somebody keeps polling |
| `stock_value` | 2 warehouses, 2 purchases at 5 and 62, 1 sale, 1 transfer, 4 movements, cents of 4, numbers 2 apart | 345,642 | the values of the stock ledger follow the average to half a unit per unit and movement; the inventory account is explained by the stock to half a cent per entry and half a number's distance per unit brought in at a number |
| `offline` | 2 processes, 2 transactions, blocks of 2, 1 fault; batches of 2 and 3 commands that overlap and repeat a number | 25,740 | no number twice, a sequence number is applied once, answers stay true, every batch ends |
| `sessions` | 2 families, 3 tokens, 2 handlers, 1 reset | 125,927 | a family has one usable token at most, a revoked family none, a family without one is not revived |
| `ledger` | 1 document of each kind, 1 period, 1 reviewer, amounts of 2.3 and a fee of 0.8, 2 entries; 2 system lines near 1 statement line, variance 0 or 3 | 109,836 | what documents say is what the journal says; pairs the program matched hold |

**Why these bounds are enough.** The conflicts of the gateway are between two
requests about one payment; the third handler and key add a retry of the first
while the second is in flight, and the second payment that one key is used for
two. An amount of 2 is the least that can be refunded in parts, and requests go
up to 3, one too many. Two transfers in both directions contend for both
warehouses; a stock of 2 with lines of 2 lets a reservation be the whole or a
part of it. Two counts and a transfer suffice for every pair the freeze is
about: count and count, count and movement out, count and movement in. The
second approval request of a count is what an approval can be stale against.
Two messages are what limits, twins and campaign completion relate; two workers
can meet on one. `CompanyLimit` is never reached with two messages: the
theorem `LimitsHold` covers every value of it.

Two sales of one customer are what one collection spans and one void leaves the
other of; two instalments and two days make one overdue while the other is not;
three payment rows are a collection, its reversal and a second collection, or
two payments and the reversal of one. Two runners and one event meet at every
pair of steps, and events share nothing but a batch; a lease of two ticks lets a
batch run out of it before, during and after a claim. Four movements are a
receipt, a second one at another price, an issue at their average and its
return. Prices of 5 and 62 are no whole cents and far apart: an entry rounds
either way, and goods valued at the wrong one of the two leave a difference that
no rounding explains. The two offline batches share a sequence number with equal and with
other contents, and the second uses one number twice; blocks of two run out
within a batch. Three tokens are a family rotated twice, or two families of which
one is rotated. Two items of 2.3 round to less than their total, 2.3 less a fee of
0.8 and the fee to more: an entry is short on either side. One statement line is
near to both system lines, so the program can match it with either, and a hand
with the other.

**Bounds by name.** `MaxCrashes`, `MaxFaults`, `MaxLine`, `MaxStock`,
`MaxMessages`, `MaxDay`, `MaxInstallments`, `MaxPayments`, `MaxReturns`,
`MaxVariance`, `MaxQty`, `Costs`, `MaxMoves`, `MaxResets`, `MaxEntries`, `Amounts`, `Fees`,
`Variances`, and the sets. `MaxStock` only limits what comes in; `MaxMessages`
only what is planned or queued. `MaxRetries`, `MaxAttempts`, `Lease`, `Backoffs`,
`BlockSize`, `Cent`, `Grain`, `CreditLimit`, `VarianceLimit` and the limits of messages are
parameters of the program.

**Deadlock** is checked in the runs of the inventory, of sessions and of the
ledger, where somebody can always act. It is not checked for the gateway,
where every key may be used and every request done, for messages and the
outbox, where all may be settled, nor where a bound ends the behaviour (sales,
stock value, offline batches).

**Type invariants** are in the modules (`TypeOK`, `NumbersTypeOK`); each is a theorem.
`StockValue` and the ledger modules have theirs within the inductive invariants of
their proofs.

**Seeded faults.** Some definitions have a sibling marked "seeded fault": the
same operator with a plausible mistake in it (a forgotten guard, a swapped
sign, an unconditional write). No behaviour uses it. With it in the place of
the original, the property it is paired with in PROJECT.json fails, which is
how it is known that the property depends on that piece of code.

## 5. Fairness

`GatewayPayment`: weak fairness of each handler's steps, since a live process
goes on with its request (a death is always possible, a bounded number of
times); strong fairness of taking up a webhook of each transaction, since a
provider redelivers until it is answered 200, and a free handler that comes and
goes suffices. Clients, customers and staff owe nothing.

`OutboundMessages`: the tick runs every five minutes and hands all queued
messages over again, so a claim that is possible again and again is made
(strong fairness); a deferral puts a message off to the sending window, which
comes daily, so a check that could go through again and again does not defer
for ever (strong fairness of the checks other than deferral); a job goes on and
recovery acts on what stays in `sending` (weak fairness). A job may always die.

`Outbox`: weak fairness of each runner's steps, since every await returns, the
request at the latest by its time-out, and of `Tick`. Polling is not assumed: the
timer that polls every ten seconds exists in development only, and in production
no code adds the jobs the worker waits for (section 7). That due events do not
stay unread for ever is therefore `SomebodyPolls`, a hypothesis written into
`EveryEventSettles`; whoever runs the system owes it. Endpoints owe nothing: one
that never answers does not keep an event from settling.

`OfflineSync`: weak fairness of each transaction's steps and of each process's
refill: a handler that waits for nothing goes on, a wait for the row ends with
its holder, a reservation is answered or fails. Clients owe nothing and faults
are bounded.

`Inventory`, `SaleLifecycle`, `StockValue`, `Sessions`, `Ledger`, `Instruments` and
`BankReconciliation` have no liveness: every step is a person's or a client's.

## 6. Proofs

Every theorem holds for all values of the constants under the assumptions named
in the modules that declare them (`GatewayAssumption`, `SaleAssumption` and the like),
which say that constants have their kinds and "none" is not an id.

`SumTheorems`. Most of what must hold of stock and money is an equation between
a stored number and a sum over rows. The library's induction takes a predicate
as its parameter; `SetInduction` says the same of a set of subsets, which the
provers can instantiate. From it come the lemmas the other modules cite: what a
row added, removed or changed does to a sum (`SumAdd`, `SumRemove`,
`SumChange`), sums of equal, larger and added functions, sums over parts, over
other names for the same rows, and an amount shared out in order
(`SumPartition`, `SumReindex`, `SumInOrder`).

`MoneyProofs`, the gateway. `TypeCorrect` by one lemma per action.
`RefundIsOncePerKey` needs `KeyInv`: a key without a row is used by nobody, at
most one handler stands before the refund call of a key, and none once the call
has been made. That is inductive because a reservation needs a free key and a
replay of a refund starts no job. `RefundsAreCapped`, `ClaimsStand` and
`OutflowIsPostedOnce` share `ClaimInv`: while a payment is `posted` nothing was given back or posted
for it and nobody is refunding it; one handler at most is between the claim and
the journal of a payment, with nothing posted yet, and nothing given back
before its call. All three assume
`Settled = Payments`: with an initiation in progress the claim can be undone
(section 7, `MCGatewayPayment_unclaim.cfg`), so the assumption is needed.
`CompletedWasPaid` does without it: the reference a webhook finds its payment by is of
a transaction opened for that payment, and a payment at the gateway is not taken
back (`PaidInv`, `GatewayRemembers`).

`InventoryProofs`. `TypeCorrect` and `AdjustmentsAreApproved` are proved
together: that an adjustment's payload has a warehouse, a type fact, holds
because its approval is its own request (`RequestInv`). `ReservedStaysOnHand`
is inductive with them: `MayMove` refuses an outward movement below the
reservation, and dispatch lowers both. `CountsDoNotOverlap` and
`SnapshotsStayCurrent` need one another (`CountInv`): a count posting its own
lines moves stock that another's snapshot would be about if they overlapped.
`CountsPostWhatWasCounted` follows, as an action property.
`VariancesAreApproved` needs `ReviewInv`: while a request about a count is
pending or approved, the count is under review or posted, with the quantities
the request was filed about. It assumes `Requesters = {}`: only reviews file
requests (section 7, `MCInventory_unseen.cfg`). `CustodyImplemented` maps each of the
transfer commands to its abstract step and every other document to a change of
what is available in one warehouse.

`ReservationsAddUp` and `TransitAddsUp` are the two projections: what a warehouse
has reserved, or in transit, is the sum over its transfers that are pending, or
on their way. Each command changes the status of one transfer, so one term
of the sums, and moves the same quantities in the bucket.

`InventoryProofs`, of `StockValue`. `ValuesStayNear` is inductive over the rows
alone: a movement rounds the new average, which is at most half a unit off for
each unit there (`AverageIsNear`), so each adds `MaxQty` halves at most. The bound
grows with the movements because a new average is computed from the quantity at
the old average and not from the ledger's value: what one rounding lost no
later one finds. `AccountFollowsStock` has one lemma per command, which says what
the command does to the account and to each of the sums of `InventoryAccount`:
one term of a sum at most changes, and what the account departs further from
them is covered by the entry the command posts (half a cent, `NearestIsNear`,
`JournalIn`, `JournalOut`) or by the units it brings in at a number (half a grain
each, `NumberIsNear`). `AccountStep` adds the two up once for all commands.

`OutboundMessagesProofs`. `SendInv` relates a job to its message: no two jobs have
one message, a job before its call or told to try again has one the provider
has not taken, and a message that is queued, skipped, cancelled or given up was
not taken and has no job. It gives
`TypeCorrect`, `NeverSentTwice` and, with one lemma about the moves,
`NeverBackwards`. `CampaignsEndQuietly` adds that messages of a campaign are
queued only when it starts. `NobodyTwiceADay` needs `OneActive`: of two twins
at most one is active. `LimitsHold` needs `LimitInv`: the messages *cleared*
for sending, checked and not yet known to have stayed here, are within the
limits; a job that checks counts every cleared message because it is `sending`
or later.

`OutboxProofs`. Two facts carry it. `Kept`: who was owed an event in a runner's
hands is among the endpoints it read, and as long as nothing failed each of
these is still to be sent to, being sent to, or has the event; so a runner that
publishes knows that everybody owed the event has it, however late it is. This
gives `OutboxImplementsDelivery`. `Leased`: an event in hand within its lease
is hidden at least as long as its batch stays within the lease, and nobody else
holds it or has a fresh reading of it; a claim establishes it, a tick takes one
from both sides, and a poll finds only events whose time has come. This gives
`OneRunner`, and with `Unconfirmed` (nobody is sending what the row says is
delivered) the action property `Confirmed`.

`OfflineSyncProofs`. `NumberInv`: a number in the memory of a process, in a block
or in a reservation on its way, belongs to one process, to no entry, and lies
below what is committed of the row, so that a rollback never returns it. That
gives `NumbersAreUnique` for `JournalNumbers` alone and `OfflineNumbersAreUnique`
under offline batches, which take only steps of it. `CommandsAreAppliedOnce` and
`AnswersStayTrue` relate what a transaction has read to what is committed when
it finishes; the first command of a batch with a number is found as the least
index, which is how the CHOOSE of `First` is dealt with.

`SessionsProofs`. A rotation keeps the number of a family's usable tokens and
only an issue adds one, so the argument is about who may issue: every family
with tokens is `Spent`, what opened it cannot open it again, and the one request
that is about to issue a first token has spent the door while the family has no
tokens (`OneIssuer`). `OneLiveToken`, `RevokedFamilyIsOver` and `NoRevival`
follow.

`SaleLifecycleProofs`. Every command that touches payments marks a set of posted
rows as reversed and adds one reversal for each of them, or rows that reverse
nothing (`Extends`, `ReversesEach`), in one transaction. Such a step keeps
`PaymentsInv`, in which rows reverse only rows before them, so
`PaymentsAreReversedOnce` is left with showing that each command makes one; for a
void this is that a list of k different payments out of k names them all.
`VoidKeepsNoGoods`, the goods' half of `VoidedSaleIsEmpty`, holds because a sale
with a return is no longer completed and a serial that names a sale is one of
its own (`GoodsInv`).

On these stand the sums. `MoneyInv` bounds what each part of a sale has been paid
by what it is for (`CollectedInv`): at the till what was paid there, in each
instalment its amount. A collection gives an instalment what is outstanding of
it at most, and reversals only lower what is collected; so
`NothingIsOverCollected`. `StoryInv` adds what each row is (a receipt, a
refund or a reversal: `KindsInv`), that the till's rows are what the sale was
paid, and that posted money is on sales that stand; with it
`VoidKeepsNothing`, since a void reverses every posted row of its sale. `LedgerInv`
has revenue and cost as counts of units sold, less the credit of all returns and
of those whose disposition is not scrap; `LedgerKeepsUpWithSales` is what it
says. It says nothing of units on hand: the cost comes back by the return's
disposition and the goods by the condition of each line, which may differ
(section 7).
`BooksInv` adds receivable and cash. `BooksStayInAgreement` needs the
hypothesis of `BooksAgree`, that voids met till payments nobody had reversed and that
no reversal was reversed, because the void leaves those entries on the books
(section 7). The hypothesis is about the state after a step and the invariant
about the one before, so each command is shown to leave it as it was or make it
stronger (`CleanVoidBefore`). `SaleTypes`, that every row keeps its shape and stock
is never negative, comes last: that what a collection gives out are natural
numbers is part of `MoneyInv`.

`MoneyProofs`, the books. `AutoPairsStay` is inductive with `PairsInv`: what a line
points at is there and matched, so a line that is still unmatched is nobody's
partner, and matching it takes nobody's partner away. What the program pairs at
once are disjoint pairs, because no two system lines took one statement line.

`BooksStayWithDocuments` rests on `BookInv`: the source of a document that is not
there has no entry, and that of one that is says what it says, to 1.5 units. The
first half holds because both are written together and the check for the source
lets one in only once: a second entry of a source is always refused, and the
step that would have written it writes nothing, so in `BookInv` no asset is
ever depreciated or disposed of and no payroll run ever paid, no settlement has
an adjustment and no expense a tax (their entries do not balance). The second
half is `EntryWithin`, a lemma about the rounding of any entry of up to three
lines: each line moves by half a unit at most, and what that leaves between the
sides goes onto a line of its own or makes up for the other lines. A statement with a variance
has one of more than a unit, so its entry is not rounded away.

Only model-checked: the liveness properties `AnswerIsApplied`,
`EveryMessageSettles`, `EveryEventSettles` (under its hypothesis) and
`EveryBatchEnds`, which are out of the prover's reach. Every invariant and every action property of the runs is a
theorem (the gateway's three and the approval of variances under the assumptions
named above), and so are both refinements.

## 7. Where the code and its own words differ

Nine configurations exhibit a disagreement by a counterexample. They are not
among the runs of section 4; `tlc -config <configuration> <module>` shows each.

* `MCGatewayPayment_replay.cfg`: the refund route commits its key as succeeded
  before it calls the gateway (refund/route.ts:119). If the call throws or the
  process dies, the retry is answered 200 and nothing is ever refunded; the
  comment (:114) reads "A replayed key means this refund was already carried
  out."
* `MCGatewayPayment_reinitiate.cfg`: the initiate route ignores `isReplay`
  (:101); a retry opens a second gateway transaction and the first one's webhook
  finds no payment.
* `MCGatewayPayment_outflow.cfg`: a refused or merely accepted refund posts a
  cash-out entry beside a `failed` reversal row (refund/route.ts:184).
* `MCGatewayPayment_unclaim.cfg`: the failure branch of initiate sets `failed` by
  id (:175) and can undo the claim of a refund in progress.
* `MCGatewayPayment_webhook.cfg`: the settlement's journal entry has the payment's
  id for its creator (webhooks/payment/[provider]/route.ts:141), which a foreign
  key refuses when accounting policies exist; the payment stays `pending`.
* `MCInventory_unseen.cfg`: an approval filed and given before the quantities were
  entered lets the count post variances nobody has seen (PostStockCount.ts:34).
* `MCSaleLifecycle_serials.cfg`: a serial returned and sold again can be returned
  once more against the sale it left first, since `postSaleReturn` asks that it
  is sold and not by whom (PostSaleReturn.ts:155; the header, :11, says "each
  serial must belong to the original sale item"). Stock and serials then
  disagree, as checks.ts:45 would report.
* `MCStockValue_returns.cfg`: two lines of one purchase item, each within what is
  left, together return more than was received (PostPurchaseReturn.ts:62-65).
* `MCLedger_advances.cfg`: reversing the payment of an advance debits the liability
  and leaves `customer_advance_ledger` as it was, so checks.ts:221-228 reports
  "Customer advance liability GL does not match subledger" ever after.

Met on the way:

* Stock. The header of the transfer commands names draft, returning and returned
  states that no command reaches, and the Blueprint lets stock in transit be
  returned; a transfer in transit can only be received. The Blueprint has a
  count posting create an adjustment document; it moves stock directly.
  Reservations never expire: nothing sets `expires_at`. A refusal by
  `transferBatches` leaves stock in transit.
* Gateway. A partial gateway refund claims the whole payment, so the rest can
  never be refunded. A failure or a death after the refund's row and before its
  entry leaves the outflow unposted, and nothing posts it later. ADR 0004 has failed keys replayed and expired ones
  deleted; the code does neither.
* Sales. A void reverses a collection's payment and leaves its journal entry, so
  receivable and cash of the general ledger depart from the payments; a till
  payment reversed by hand before the void is taken off cash twice; the void's
  reversal rows have no shift, so the drawer's net changes although
  CashierShift.ts:88-90 says it does not. `BooksAgree` excludes these cases by
  name. A return line for scrap or repair in a return that is not scrapped puts
  its cost back and no stock; a reversed till payment's debt is in no
  instalment; collections and payments accept any shift, also a closed one;
  checkArSubledgerGl counts allocations of reversed payments.
* Stock value. A purchase return credits inventory at the price paid although its
  comment says "Cr Inventory (at current MAC)"; opening stock has no journal;
  posting a landed cost changes neither value nor journal although its header
  says that it recalculates the average; a return puts its cost back unless its
  disposition is scrap, whatever its lines' conditions do with the goods, so
  damaged goods come back in value and resalable goods of a scrapped return
  come back without it; a cost below half a cent refuses the entry and the
  whole command; goods recovered or counted into an empty row are worth 0; nothing
  clears the goods-received account, and its check looks at received orders'
  totals only. `InventoryAccount` names the first, second and fourth as terms.
* Outbox. Nothing in `src` writes an outbox event (tests do), and in production
  nothing schedules the worker: only the development timer polls. A late
  runner's failure overwrites a row that says delivered; a stale retry writes
  count and due time over another's lease; an event may be given up although
  everybody has it; a row created twice throws the whole batch away.
* Offline. The payload hash does not cover the command's type; nothing hands out
  the leased ranges; the service worker drops a batch answered 409 although that
  may be a passing write conflict.
* Period close. An unlock between `lockPeriod`'s read and its update is
  overwritten (periodClose.ts:127-129 says a period must be soft-locked); a
  soft lock can put a locked period back; postings land between the
  reconciliation and the soft lock; only critical findings block although the
  text says critical and high; after a failed run a later passed one does not
  count, only a partial one; a soft lock blocks the corrections its comment
  allows. A reversal is dated like its original, so an entry of a locked period
  can never be reversed although periodClose.ts:11 promises a reversal in a new one.
* Journal. `business_events` is unique per event type and source and every entry
  is the event `journal_entry.posted` of its source, so the second entry of one
  source is refused: depreciation and disposal of an acquired asset, payment of
  a posted payroll run, every manual entry after a company's first. An expense
  with tax never balances. The currency revaluation posts nothing.
* Money beside sales. A transfer between accounts posts what arrives against what
  leaves without the exchange rate, so it is refused when they differ by anything
  but the fee; without a clearing account the fee is recorded and not posted. A
  courier's settlement puts fee, adjustment and receivable on one account
  although its comment names three (PostCourierCodSettlement.ts:5-8). With any
  adjustment it does not balance, and without a fee the fee's empty line is
  refused, so only a fee and no adjustment gets through. Nothing debits that
  account when goods leave: it ends negative, which checks.ts:201 warns of. The payment of a gift card is reversed
  against the receivable, and the card stays good. Redeeming and refunding a
  card, applying an advance and clearing or bouncing a cheque have no caller.
* Deliveries. The courier's webhook reads the delivery and updates it by id outside
  a transaction, whatever the transitions of Delivery.ts:13-23 allow: a late
  status may undo "delivered", and `picked_up` and `on_hold` are statuses
  Delivery.ts does not know. A settlement looks at neither the status nor
  the amount of a delivery.
* Bank reconciliation. A line matched by hand twice leaves its first partner
  pointing at it; matches may change after the statement is reconciled; two
  statements of one date each post the whole variance.
* Retention. A hold placed after the job collected the holds is not seen.

## 8. What is not modelled

Tax, pricing and catalogue rules are pure functions with unit tests. Access
control, tenant scoping and validation are guards no two actors share. Batches
and their expiry, several products in one document, several drawers, tax and
discounts of a sale are left out of the modules beside them: they can refuse a
command or add lines, and no property is about them. Midnight, the calendar of
reminder stages and message texts are left out of `OutboundMessages`, and so is
the mutual blocking of two messages that each count the other: both may be
skipped with the limit not reached. Lock-out after failed passwords, rate limits
and WebAuthn are left out of `Sessions`: to it they are refusals. What the
reconciliation finds is an outcome in `Ledger`; the checks themselves only read.

That a Serializable transaction is one step is assumed and not modelled
(`lib/db/transaction.ts` retries it on a write conflict, three attempts in all),
except where a command awaits something outside its own transaction, as the
numbers of `JournalNumbers` do. Leads, service requests, warranty, the
status of deliveries and loyalty points are status machines of one row, each
step one transaction, but for the courier's webhook (section 7); deliveries come
next in the plan. User interface,
reports, printing, adapters and infrastructure have no state of their own. They
and the pure functions are most of the repository's lines. The rest is listed in
PROJECT.json with its reason.
