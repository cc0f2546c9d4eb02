--------------------------- MODULE GatewayPayment ---------------------------
(***************************************************************************)
(* A customer payment taken through an external gateway:                   *)
(*   POST /payments/initiate           creates the row, asks the gateway,  *)
(*   POST /webhooks/payment/[provider] settles it,                         *)
(*   POST /payments/{id}/refund        gives the money back,               *)
(*   POST /payments/{id}/reverse       is a staff reversal.                *)
(*                                                                         *)
(* A route is a database transaction, a network call made outside any      *)
(* transaction, and further writes.  A handler can die between any two of  *)
(* them, and the client retries with the same Idempotency-Key.  An action  *)
(* below is one transaction, one later write, or one network call.         *)
(***************************************************************************)
EXTENDS Integers

CONSTANTS
  Handlers,      \* requests the web servers are working on
  Keys,          \* Idempotency-Key values clients use
  Payments,      \* payment references of one company
  Txns,          \* transaction ids the gateway can hand out
  Amount,        \* amount of every payment
  Settled,       \* payments received before the behaviour starts
  HasPolicies,   \* whether the company has its accounting policies set up
  MaxCrashes,    \* bound on handlers that die in mid-request
  NoRow, NoTxn, NoPayment

Request == [op : {"initiate"}, pay : Payments, amount : {Amount}]
             \cup [op : {"refund"}, pay : Payments, amount : 1 .. Amount + 1]

ASSUME GatewayAssumption ==
  /\ Amount \in Nat \ {0}
  /\ HasPolicies \in BOOLEAN
  /\ MaxCrashes \in Nat
  /\ Settled \subseteq Payments
  /\ NoTxn \notin Txns
  /\ NoPayment \notin Payments
  /\ NoRow \notin Request

VARIABLES
  rows,          \* idempotency_requests: the request each key is bound to
  status,        \* payments.payment_status, "none" before the row exists
  methodRef,     \* payments.method_reference: the txn whose webhook settles it
  refundRow,     \* the row REFUND-<reference>: "none" | "posted" | "failed"
  refunded,      \* sum of the payment's reversal rows that are not 'failed'
  cashOut,       \* cash-out journal entries posted for those rows
  txnOf,         \* gateway: the payment a transaction was opened for
  txnState,      \* gateway: "open" | "paid" | "declined"
  sentBack,      \* gateway: money it has accepted to give back
  opens,         \* history: gateway initiate calls made under a key
  refundCalls,   \* history: gateway refund calls made under a key
  accepted,      \* history: keys under which the gateway accepted a refund
  replayed,      \* history: keys answered with a stored response
  crashes,       \* handlers that have died so far
  work           \* what each handler is doing

dbVars      == <<rows, status, methodRef, refundRow, refunded, cashOut>>
gatewayVars == <<txnOf, txnState, sentBack>>
history     == <<opens, refundCalls, accepted, replayed, crashes>>
vars        == <<dbVars, gatewayVars, history, work>>

Idem == INSTANCE IdempotencyKeys WITH Requests <- Request

Status  == {"none", "pending", "posted", "completed", "failed", "reversed"}
Outcome == {"completed", "pending", "failed"}

Idle == [pc |-> "idle"]

(* A client request in progress, or a webhook delivery in progress. *)
Job == [pc : {"init_find", "init_call"}, key : Keys, pay : Payments]
         \cup [pc : {"init_ok"}, pay : Payments, txn : Txns]
         \cup [pc : {"init_failed"}, pay : Payments]
         \cup [pc : {"refund_call"}, key : Keys, pay : Payments, amount : 1 .. Amount + 1]
         \cup [pc : {"refund_row", "refund_journal"},
               pay : Payments, amount : 1 .. Amount + 1, outcome : Outcome]
         \cup [pc : {"hook_apply"}, pay : Payments,
               seen : Status, new : {"completed", "failed"}]

TypeOK ==
  /\ Idem!RowsTypeOK
  /\ status \in [Payments -> Status]
  /\ methodRef \in [Payments -> Txns \cup {NoTxn}]
  /\ refundRow \in [Payments -> {"none", "posted", "failed"}]
  /\ refunded \in [Payments -> Nat]
  /\ cashOut \in [Payments -> Nat]
  /\ txnOf \in [Txns -> Payments \cup {NoPayment}]
  /\ txnState \in [Txns -> {"open", "paid", "declined"}]
  /\ sentBack \in [Payments -> Nat]
  /\ opens \in [Keys -> Nat]
  /\ refundCalls \in [Keys -> Nat]
  /\ accepted \subseteq Keys
  /\ replayed \subseteq Keys
  /\ crashes \in 0 .. MaxCrashes
  /\ work \in [Handlers -> Job \cup {Idle}]

(* A settled payment was received and posted by staff, under a reference   *)
(* of the gateway's that no transaction below uses.                        *)
Init ==
  /\ Idem!NoRows
  /\ status = [p \in Payments |-> IF p \in Settled THEN "posted" ELSE "none"]
  /\ methodRef = [p \in Payments |-> NoTxn]
  /\ refundRow = [p \in Payments |-> "none"]
  /\ refunded = [p \in Payments |-> 0]
  /\ cashOut = [p \in Payments |-> 0]
  /\ txnOf = [t \in Txns |-> NoPayment]
  /\ txnState = [t \in Txns |-> "open"]
  /\ sentBack = [p \in Payments |-> 0]
  /\ opens = [k \in Keys |-> 0]
  /\ refundCalls = [k \in Keys |-> 0]
  /\ accepted = {}
  /\ replayed = {}
  /\ crashes = 0
  /\ work = [h \in Handlers |-> Idle]

Become(h, job) == work' = [work EXCEPT ![h] = job]
Done(h)        == Become(h, Idle)

-----------------------------------------------------------------------------
(* POST /payments/initiate *)

(* Phase 1, one transaction.  The route does not look at isReplay: a       *)
(* replayed key goes on to phase 2 like a fresh one.                       *)
InitiateReserve(h, k, p) ==
  LET req == [op |-> "initiate", pay |-> p, amount |-> Amount] IN
  /\ work[h] = Idle
  /\ \/ /\ Idem!IsReplay(k, req)
        /\ replayed' = replayed \cup {k}
        /\ UNCHANGED <<rows, status>>
     \/ /\ Idem!MayRun(k)
        /\ status[p] = "none"              \* reference_no is unique
        /\ status' = [status EXCEPT ![p] = "pending"]
        /\ Idem!Complete(k, req)
        /\ UNCHANGED replayed
  /\ Become(h, [pc |-> "init_find", key |-> k, pay |-> p])
  /\ UNCHANGED <<methodRef, refundRow, refunded, cashOut, gatewayVars,
                 opens, refundCalls, accepted, crashes>>

(* The pending row is looked up again, by reference. *)
InitiateFind(h) ==
  /\ work[h].pc = "init_find"
  /\ IF status[work[h].pay] = "pending"
       THEN Become(h, [work[h] EXCEPT !.pc = "init_call"])
       ELSE Done(h)                        \* 500
  /\ UNCHANGED <<dbVars, gatewayVars, history>>

OpenTxn(t, p) ==
  /\ txnOf[t] = NoPayment
  /\ txnOf' = [txnOf EXCEPT ![t] = p]
  /\ UNCHANGED <<txnState, sentBack>>

(* Phase 2: the gateway opens a transaction and the answer arrives; or the *)
(* call throws, whether or not the gateway opened one.                     *)
InitiateCall(h) ==
  /\ work[h].pc = "init_call"
  /\ opens' = [opens EXCEPT ![work[h].key] = @ + 1]
  /\ \/ \E t \in Txns :
          /\ OpenTxn(t, work[h].pay)
          /\ Become(h, [pc |-> "init_ok", pay |-> work[h].pay, txn |-> t])
     \/ /\ \/ \E t \in Txns : OpenTxn(t, work[h].pay)
           \/ UNCHANGED gatewayVars
        /\ Become(h, [pc |-> "init_failed", pay |-> work[h].pay])
  /\ UNCHANGED <<dbVars, refundCalls, accepted, replayed, crashes>>

(* The update of the row, then of the audit log: either may fail, and the  *)
(* catch block takes that for a failure of the gateway.                    *)
InitiateOk(h) ==
  LET SetReference == methodRef' = [methodRef EXCEPT ![work[h].pay] = work[h].txn] IN
  /\ work[h].pc = "init_ok"
  /\ \/ SetReference /\ Done(h)
     \/ /\ SetReference \/ UNCHANGED methodRef
        /\ Become(h, [pc |-> "init_failed", pay |-> work[h].pay])
  /\ UNCHANGED <<rows, status, refundRow, refunded, cashOut, gatewayVars, history>>

(* The row is updated by its id, whatever its status has become. *)
InitiateFailed(h) ==
  /\ work[h].pc = "init_failed"
  /\ status' = [status EXCEPT ![work[h].pay] = "failed"]
  /\ Done(h)                               \* 502
  /\ UNCHANGED <<rows, methodRef, refundRow, refunded, cashOut, gatewayVars, history>>

-----------------------------------------------------------------------------
(* POST /payments/{id}/refund *)

\* seeded fault
RefundableIfRoom(p, a) == status[p] # "none" /\ a <= Amount - refunded[p]

(* The payment is not claimed, and earlier refunds leave room for this one. *)
Refundable(p, a) ==
  /\ status[p] \notin {"none", "reversed"}
  /\ a <= Amount - refunded[p]

\* seeded fault
ClaimNothing(p) == UNCHANGED status

Claim(p) == status' = [status EXCEPT ![p] = "reversed"]

\* seeded fault
OnReplayGoOn(h, job) == Become(h, job)

(* A replayed key is answered from the stored response before the call. *)
OnReplay(h, job) == UNCHANGED work

(* Phase 1, one transaction: reserve the key, cap, claim the payment. *)
RefundReserve(h, k, p, a) ==
  LET req == [op |-> "refund", pay |-> p, amount |-> a]
      job == [pc |-> "refund_call", key |-> k, pay |-> p, amount |-> a]
  IN
  /\ work[h] = Idle
  /\ \/ /\ Idem!IsReplay(k, req)
        /\ replayed' = replayed \cup {k}
        /\ OnReplay(h, job)
        /\ UNCHANGED <<rows, status>>
     \/ /\ Idem!MayRun(k)
        /\ Refundable(p, a)
        /\ Claim(p)
        /\ Idem!Complete(k, req)
        /\ Become(h, job)
        /\ UNCHANGED replayed
  /\ UNCHANGED <<methodRef, refundRow, refunded, cashOut, gatewayVars,
                 opens, refundCalls, accepted, crashes>>

Received(p) == p \in Settled \/ \E t \in Txns : txnOf[t] = p /\ txnState[t] = "paid"

(* Phase 2: the gateway accepts the refund (it only can when it holds the  *)
(* customer's money) or refuses it, and the answer arrives or the call     *)
(* throws.  A throw is audited and answered 502: the claim stands.         *)
RefundCall(h) ==
  LET job == work[h] IN
  /\ job.pc = "refund_call"
  /\ refundCalls' = [refundCalls EXCEPT ![job.key] = @ + 1]
  /\ \E outcome \in Outcome :
       /\ IF outcome = "failed"
            THEN UNCHANGED <<sentBack, accepted>>
            ELSE /\ Received(job.pay)
                 /\ sentBack' = [sentBack EXCEPT ![job.pay] = @ + job.amount]
                 /\ accepted' = accepted \cup {job.key}
       /\ \/ Done(h)
          \/ Become(h, [pc |-> "refund_row", pay |-> job.pay,
                        amount |-> job.amount, outcome |-> outcome])
  /\ UNCHANGED <<dbVars, txnOf, txnState, opens, replayed, crashes>>

RowStatus(outcome) == IF outcome = "completed" THEN "posted" ELSE "failed"

(* Phase 3, first write: the reversal row.  REFUND-<reference> is unique. *)
RefundRow(h) ==
  LET job == work[h] IN
  /\ job.pc = "refund_row"
  /\ IF refundRow[job.pay] = "none"
       THEN /\ refundRow' = [refundRow EXCEPT ![job.pay] = RowStatus(job.outcome)]
            /\ refunded' = [refunded EXCEPT ![job.pay] =
                              IF RowStatus(job.outcome) = "failed" THEN @ ELSE @ + job.amount]
            /\ Become(h, [job EXCEPT !.pc = "refund_journal"])
       ELSE Done(h) /\ UNCHANGED <<refundRow, refunded>>
  /\ UNCHANGED <<rows, status, methodRef, cashOut, gatewayVars, history>>

(* Phase 3, next write: the journal entry, at the payment's own business   *)
(* date.  It is refused without policies, or in a period that has closed   *)
(* since; the reversal row is already committed.                           *)
RefundJournal(h) ==
  /\ work[h].pc = "refund_journal"
  /\ \/ HasPolicies /\ cashOut' = [cashOut EXCEPT ![work[h].pay] = @ + 1]
     \/ UNCHANGED cashOut
  /\ Done(h)
  /\ UNCHANGED <<rows, status, methodRef, refundRow, refunded, gatewayVars, history>>

\* seeded fault
ReversibleAgain(p) == HasPolicies /\ status[p] # "none"

Reversible(p) == HasPolicies /\ status[p] \notin {"none", "reversed"}

(* reversePayment, one transaction. *)
ReversePayment(p) ==
  /\ Reversible(p)
  /\ status' = [status EXCEPT ![p] = "reversed"]
  /\ refunded' = [refunded EXCEPT ![p] = @ + Amount]
  /\ cashOut' = [cashOut EXCEPT ![p] = @ + 1]
  /\ UNCHANGED <<rows, methodRef, refundRow, gatewayVars, history, work>>

-----------------------------------------------------------------------------
(* POST /webhooks/payment/[provider].  Deliveries repeat, and arrive late. *)

\* seeded fault
HookStatusAlwaysSuccess(t) == "completed"

\* seeded fault
HookStatusSuccessOnly(t) == IF txnState[t] = "paid" THEN "completed" ELSE "pending"

HookStatus(t) == IF txnState[t] = "paid" THEN "completed" ELSE "failed"

(* A reference that more than one payment has is refused as ambiguous.      *)
HookRead(h, t, p) ==
  /\ work[h] = Idle
  /\ txnState[t] # "open"
  /\ {o \in Payments : methodRef[o] = t} = {p}
  /\ status[p] # HookStatus(t)
  /\ Become(h, [pc |-> "hook_apply", pay |-> p, seen |-> status[p], new |-> HookStatus(t)])
  /\ UNCHANGED <<dbVars, gatewayVars, history>>

(* One transaction.  A success posts a journal entry created by the        *)
(* payment's id, which the foreign key to users refuses: the transaction   *)
(* rolls back.  Without policies no entry is posted, and it commits.       *)
HookApply(h) ==
  LET job == work[h] IN
  /\ job.pc = "hook_apply"
  /\ IF status[job.pay] = job.seen /\ (job.new = "completed" => ~HasPolicies)
       THEN status' = [status EXCEPT ![job.pay] = job.new]
       ELSE UNCHANGED status
  /\ Done(h)
  /\ UNCHANGED <<rows, methodRef, refundRow, refunded, cashOut, gatewayVars, history>>

(* The customer pays at the gateway, or does not. *)
Answer(t, s) ==
  /\ txnOf[t] # NoPayment
  /\ txnState[t] = "open"
  /\ txnState' = [txnState EXCEPT ![t] = s]
  /\ UNCHANGED <<dbVars, txnOf, sentBack, history, work>>

Crash(h) ==
  /\ work[h] # Idle
  /\ crashes < MaxCrashes
  /\ crashes' = crashes + 1
  /\ Done(h)
  /\ UNCHANGED <<dbVars, gatewayVars, opens, refundCalls, accepted, replayed>>

-----------------------------------------------------------------------------
Step(h) == \/ InitiateFind(h) \/ InitiateCall(h) \/ InitiateOk(h) \/ InitiateFailed(h)
           \/ RefundCall(h) \/ RefundRow(h) \/ RefundJournal(h)
           \/ HookApply(h)

Next ==
  \/ \E h \in Handlers :
       \/ Step(h) \/ Crash(h)
       \/ \E k \in Keys, p \in Payments :
            \/ InitiateReserve(h, k, p)
            \/ \E a \in 1 .. Amount + 1 : RefundReserve(h, k, p, a)
       \/ \E t \in Txns, p \in Payments : HookRead(h, t, p)
  \/ \E p \in Payments : ReversePayment(p)
  \/ \E t \in Txns, s \in {"paid", "declined"} : Answer(t, s)

Spec == Init /\ [][Next]_vars

(* A live process goes on with its request; a provider redelivers a        *)
(* webhook until it is answered 200, so a delivery that can be taken up    *)
(* again and again is taken up.                                            *)
Fairness ==
  /\ \A h \in Handlers : WF_vars(Step(h))
  /\ \A t \in Txns : SF_vars(\E h \in Handlers, p \in Payments : HookRead(h, t, p))

FairSpec == Spec /\ Fairness

-----------------------------------------------------------------------------
(* The gateway is asked to give money back at most once for a key, however *)
(* often the client repeats the request and wherever an earlier attempt    *)
(* died (refund/route.ts, the isReplay return before the call).            *)
RefundOncePerKey == \A k \in Keys : refundCalls[k] <= 1

(* Gateway refunds of one payment, concurrent ones included, never give    *)
(* back more than was received: while reversal rows are not written yet,   *)
(* only the status claim stands between two calls.                         *)
NoOverRefund == \A p \in Payments : sentBack[p] <= Amount

(* Money that leaves once leaves the books once: at most one cash-out      *)
(* entry for a payment, across refunds, retries and staff reversals.       *)
CashOutOnce == \A p \in Payments : cashOut[p] <= 1

(* A payment is claimed before the gateway is called and stays claimed     *)
(* while the answer is on its way and after it (refund/route.ts:79-91).    *)
ClaimStands ==
  /\ \A h \in Handlers :
       work[h].pc \in {"refund_call", "refund_row", "refund_journal"}
         => status[work[h].pay] = "reversed"
  /\ \A p \in Payments : sentBack[p] > 0 => status[p] = "reversed"

(* Only a payment the gateway reported paid becomes 'completed'.           *)
CompletedIsPaid ==
  \A p \in Payments : status[p] = "completed" => Received(p)

(* What the gateway decided about the transaction a pending payment refers *)
(* to reaches the payment, however deliveries are delayed or overtaken.    *)
AnswerIsApplied ==
  \A t \in Txns, p \in Payments :
    (methodRef[p] = t /\ txnState[t] # "open")
      ~> (status[p] # "pending" \/ methodRef[p] # t)

(* refund/route.ts:114: "A replayed key means this refund was already      *)
(* carried out."                                                           *)
ReplayMeansRefunded ==
  \A k \in replayed : rows[k].op = "refund" => k \in accepted

(* initiate/route.ts:100: "The idempotency wrapper already prevents        *)
(* replays": one key opens one gateway transaction.                        *)
InitiateOncePerKey == \A k \in Keys : opens[k] <= 1

(* refund/route.ts:171-173: the refund's entry mirrors an outflow that the *)
(* payments subledger shows: no cash-out entry without a reversal row that *)
(* is 'posted'.                                                            *)
CashOutHasPostedRow == \A p \in Payments : cashOut[p] > 0 => refunded[p] > 0
=============================================================================
