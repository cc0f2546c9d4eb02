---------------------------- MODULE MoneyProofs ----------------------------
(***************************************************************************)
(* What is guaranteed of money outside sales: of the payments that arrive  *)
(* through the gateway (GatewayPayment), for any number of handlers, keys, *)
(* payments and transactions, and any amount; and of the journal, of the   *)
(* documents that post to it and of the lines of a bank statement (Ledger, *)
(* Instruments, BankReconciliation), for any number of each and any        *)
(* amounts.                                                                *)
(*                                                                         *)
(* PairsInv is the argument that lines stay paired: what a line points at  *)
(* exists and is matched, so an unmatched line is nobody's partner.        *)
(* BookInv is the argument that the books follow the documents: a document *)
(* and the first entry of its source are there together or not at all, and *)
(* say the same to the rounding of the entry's lines (EntryWithin).        *)
(***************************************************************************)
EXTENDS GatewayPayment, BankReconciliation, SumTheorems, SequenceTheorems, FiniteSetTheorems, TLAPS

-----------------------------------------------------------------------------
(* Payments through the gateway (GatewayPayment).                          *)

(* A job at a given point of its handler has the fields of that point. *)
LEMMA JobFields ==
  ASSUME NEW job \in Job \cup {Idle}
  PROVE  /\ job.pc \in {"init_find", "init_call"} => job.key \in Keys /\ job.pay \in Payments
         /\ job.pc = "init_ok" => job.pay \in Payments /\ job.txn \in Txns
         /\ job.pc = "init_failed" => job.pay \in Payments
         /\ job.pc = "refund_call" =>
              job.key \in Keys /\ job.pay \in Payments /\ job.amount \in 1 .. Amount + 1
         /\ job.pc \in {"refund_row", "refund_journal"} =>
              /\ job.pay \in Payments /\ job.amount \in 1 .. Amount + 1
              /\ job.outcome \in Outcome
         /\ job.pc = "hook_apply" => job.pay \in Payments /\ job.new \in {"completed", "failed"}
         /\ job.pc \in {"idle", "init_find", "init_call", "init_ok", "init_failed", "refund_call",
                        "refund_row", "refund_journal", "hook_apply"}
BY DEF Job, Idle

LEMMA InitType == Init => TypeOK
BY GatewayAssumption DEF Init, TypeOK, Status, Idem!RowsTypeOK, Idem!NoRows

LEMMA InitiateReserveType ==
  ASSUME TypeOK, NEW h \in Handlers, NEW k \in Keys, NEW p \in Payments,
         InitiateReserve(h, k, p)
  PROVE  TypeOK'
BY GatewayAssumption DEF TypeOK, InitiateReserve, Become, Job, Status, Request, gatewayVars,
       Idem!RowsTypeOK, Idem!IsReplay, Idem!MayRun, Idem!Complete

LEMMA InitiateFindType ==
  ASSUME TypeOK, NEW h \in Handlers, InitiateFind(h)
  PROVE  TypeOK'
BY DEF TypeOK, InitiateFind, Become, Done, Job, Idle, dbVars, gatewayVars, history, Idem!RowsTypeOK

LEMMA InitiateCallType ==
  ASSUME TypeOK, NEW h \in Handlers, InitiateCall(h)
  PROVE  TypeOK'
BY DEF TypeOK, InitiateCall, OpenTxn, Become, Job, Idle, dbVars, gatewayVars, Idem!RowsTypeOK

LEMMA InitiateOkType ==
  ASSUME TypeOK, NEW h \in Handlers, InitiateOk(h)
  PROVE  TypeOK'
BY DEF TypeOK, InitiateOk, Become, Done, Job, Idle, gatewayVars, history, Idem!RowsTypeOK

LEMMA InitiateFailedType ==
  ASSUME TypeOK, NEW h \in Handlers, InitiateFailed(h)
  PROVE  TypeOK'
BY DEF TypeOK, InitiateFailed, Become, Done, Job, Idle, Status, gatewayVars, history, Idem!RowsTypeOK

LEMMA RefundReserveType ==
  ASSUME TypeOK, NEW h \in Handlers, NEW k \in Keys, NEW p \in Payments,
         NEW a \in 1 .. Amount + 1, RefundReserve(h, k, p, a)
  PROVE  TypeOK'
<1> DEFINE req == [op |-> "refund", pay |-> p, amount |-> a]
           job == [pc |-> "refund_call", key |-> k, pay |-> p, amount |-> a]
<1>1. req \in Request /\ job \in Job
  BY DEF Request, Job
<1>2. Idem!RowsTypeOK'
  BY <1>1 DEF TypeOK, RefundReserve, Idem!RowsTypeOK, Idem!Complete
<1>3. work' \in [Handlers -> Job \cup {Idle}]
  BY <1>1 DEF TypeOK, RefundReserve, OnReplay, Become
<1>4. status' \in [Payments -> Status] /\ replayed' \subseteq Keys
  BY DEF TypeOK, RefundReserve, Claim, Status
<1> QED
  BY <1>2, <1>3, <1>4 DEF TypeOK, RefundReserve, gatewayVars

LEMMA RefundCallType ==
  ASSUME TypeOK, NEW h \in Handlers, RefundCall(h)
  PROVE  TypeOK'
BY GatewayAssumption, JobFields DEF TypeOK, RefundCall, Become, Done, Job, Outcome, dbVars, Idem!RowsTypeOK

LEMMA RefundRowType ==
  ASSUME TypeOK, NEW h \in Handlers, RefundRow(h)
  PROVE  TypeOK'
<1> DEFINE job == work[h]
<1>1. /\ job \in Job
      /\ job.pay \in Payments /\ job.amount \in 1 .. Amount + 1 /\ job.outcome \in Outcome
      /\ job = [pc |-> "refund_row", pay |-> job.pay, amount |-> job.amount,
                outcome |-> job.outcome]
  BY DEF TypeOK, RefundRow, Job, Idle
<1>2. [job EXCEPT !.pc = "refund_journal"]
        = [pc |-> "refund_journal", pay |-> job.pay, amount |-> job.amount, outcome |-> job.outcome]
  BY <1>1
<1>3. [job EXCEPT !.pc = "refund_journal"] \in Job
  BY <1>1, <1>2 DEF Job
<1>4. work' \in [Handlers -> Job \cup {Idle}]
  BY <1>3 DEF TypeOK, RefundRow, Become, Done
<1>5. refundRow' \in [Payments -> {"none", "posted", "failed"}] /\ refunded' \in [Payments -> Nat]
  BY <1>1 DEF TypeOK, RefundRow, RowStatus
<1> QED
  BY <1>4, <1>5 DEF TypeOK, RefundRow, dbVars, gatewayVars, history, Idem!RowsTypeOK

LEMMA RefundJournalType ==
  ASSUME TypeOK, NEW h \in Handlers, RefundJournal(h)
  PROVE  TypeOK'
BY JobFields DEF TypeOK, RefundJournal, Become, Done, gatewayVars, history, Idem!RowsTypeOK

LEMMA ReverseType ==
  ASSUME TypeOK, NEW p \in Payments, ReversePayment(p)
  PROVE  TypeOK'
BY GatewayAssumption DEF TypeOK, ReversePayment, Status, gatewayVars, history, Idem!RowsTypeOK

LEMMA HookReadType ==
  ASSUME TypeOK, NEW h \in Handlers, NEW t \in Txns, NEW p \in Payments, HookRead(h, t, p)
  PROVE  TypeOK'
BY DEF TypeOK, HookRead, HookStatus, Become, Job, dbVars, gatewayVars, history, Idem!RowsTypeOK

LEMMA HookApplyType ==
  ASSUME TypeOK, NEW h \in Handlers, HookApply(h)
  PROVE  TypeOK'
BY JobFields DEF TypeOK, HookApply, Become, Done, Status, gatewayVars, history, Idem!RowsTypeOK

LEMMA AnswerType ==
  ASSUME TypeOK, NEW t \in Txns, NEW s \in {"paid", "declined"}, Answer(t, s)
  PROVE  TypeOK'
BY DEF TypeOK, Answer, dbVars, history, Idem!RowsTypeOK

LEMMA CrashType ==
  ASSUME TypeOK, NEW h \in Handlers, Crash(h)
  PROVE  TypeOK'
BY GatewayAssumption DEF TypeOK, Crash, Become, Done, dbVars, gatewayVars, Idem!RowsTypeOK

LEMMA NextType == TypeOK /\ [Next]_vars => TypeOK'
<1> SUFFICES ASSUME TypeOK, [Next]_vars PROVE TypeOK'
  OBVIOUS
<1>1. CASE UNCHANGED vars
  BY <1>1 DEF TypeOK, vars, dbVars, gatewayVars, history, Idem!RowsTypeOK
<1>2. CASE \E h \in Handlers : Step(h)
  BY <1>2, InitiateFindType, InitiateCallType, InitiateOkType, InitiateFailedType,
     RefundCallType, RefundRowType, RefundJournalType, HookApplyType DEF Step
<1>3. CASE \E h \in Handlers : Crash(h)
  BY <1>3, CrashType
<1>4. CASE \E h \in Handlers, k \in Keys, p \in Payments : InitiateReserve(h, k, p)
  BY <1>4, InitiateReserveType
<1>5. CASE \E h \in Handlers, k \in Keys, p \in Payments, a \in 1 .. Amount + 1 :
             RefundReserve(h, k, p, a)
  BY <1>5, RefundReserveType
<1>6. CASE \E h \in Handlers, t \in Txns, p \in Payments : HookRead(h, t, p)
  BY <1>6, HookReadType
<1>7. CASE \E p \in Payments : ReversePayment(p)
  BY <1>7, ReverseType
<1>8. CASE \E t \in Txns, s \in {"paid", "declined"} : Answer(t, s)
  BY <1>8, AnswerType
<1> QED
  BY <1>1, <1>2, <1>3, <1>4, <1>5, <1>6, <1>7, <1>8 DEF Next

(* Every variable keeps its type: amounts never turn negative, and a job   *)
(* always carries the fields its next step reads.                          *)
THEOREM TypeCorrect == Spec => []TypeOK
<1>1. Init => TypeOK
  BY InitType
<1>2. TypeOK /\ [Next]_vars => TypeOK'
  BY NextType
<1> QED
  BY <1>1, <1>2, PTL DEF Spec

-----------------------------------------------------------------------------
(* One gateway refund call per key.  A key that has no row yet is used by  *)
(* nobody and was never called with; whoever binds a key is the only one   *)
(* that can reach the call with it, and leaves the call by making it.      *)

AtCall(h, k) == work[h].pc = "refund_call" /\ work[h].key = k

KeyInv ==
  /\ \A k \in Keys : rows[k] = NoRow => refundCalls[k] = 0 /\ \A h \in Handlers : ~AtCall(h, k)
  /\ \A k \in Keys, h \in Handlers : AtCall(h, k) => refundCalls[k] = 0
  /\ \A k \in Keys, h \in Handlers, g \in Handlers : AtCall(h, k) /\ AtCall(g, k) => h = g
  /\ RefundOncePerKey

LEMMA InitKeyInv == Init => KeyInv
BY DEF Init, KeyInv, AtCall, Idle, RefundOncePerKey, Idem!NoRows

(* Binding the key puts one handler, and no other, at the call with it. *)
LEMMA RefundReserveKeyInv ==
  ASSUME TypeOK, KeyInv, NEW h \in Handlers, NEW k \in Keys, NEW p \in Payments,
         NEW a \in 1 .. Amount + 1, RefundReserve(h, k, p, a)
  PROVE  KeyInv'
<1> DEFINE req == [op |-> "refund", pay |-> p, amount |-> a]
           job == [pc |-> "refund_call", key |-> k, pay |-> p, amount |-> a]
<1>1. req \in Request /\ req # NoRow
  BY GatewayAssumption DEF Request
<1>2. CASE rows[k] = req
  <2>1. UNCHANGED <<rows, work, refundCalls>>
    BY <1>1, <1>2 DEF RefundReserve, OnReplay, Idem!MayRun
  <2> QED
    BY <2>1 DEF KeyInv, AtCall, RefundOncePerKey
<1>3. CASE rows[k] = NoRow
  <2>1. /\ rows' = [rows EXCEPT ![k] = req]
        /\ work' = [work EXCEPT ![h] = job]
        /\ UNCHANGED refundCalls
    BY <1>1, <1>3 DEF RefundReserve, Become, Idem!IsReplay, Idem!Complete
  <2>2. \A g \in Handlers, j \in Keys : AtCall(g, j)' <=> IF g = h THEN j = k ELSE AtCall(g, j)
    BY <2>1 DEF TypeOK, AtCall
  <2>3. \A j \in Keys : rows'[j] = NoRow => j # k /\ rows[j] = NoRow
    BY <1>1, <2>1 DEF TypeOK, Idem!RowsTypeOK
  <2>4. \A g \in Handlers : ~AtCall(g, k) /\ refundCalls[k] = 0
    BY <1>3 DEF KeyInv
  <2> QED
    BY <2>1, <2>2, <2>3, <2>4 DEF KeyInv, RefundOncePerKey
<1> QED
  BY <1>2, <1>3 DEF RefundReserve, Idem!IsReplay, Idem!MayRun

(* Making the call leaves nobody at it with the same key. *)
LEMMA RefundCallKeyInv ==
  ASSUME TypeOK, KeyInv, NEW h \in Handlers, RefundCall(h)
  PROVE  KeyInv'
BY DEF TypeOK, KeyInv, AtCall, RefundOncePerKey, RefundCall, dbVars, Become, Done, Idle

(* Every other step makes no call, brings nobody to one and frees no key. *)
LEMMA OtherKeyInv ==
  ASSUME KeyInv, UNCHANGED refundCalls,
         \A h \in Handlers, k \in Keys : AtCall(h, k)' => AtCall(h, k),
         \A k \in Keys : rows'[k] = NoRow => rows[k] = NoRow
  PROVE  KeyInv'
BY DEF KeyInv, RefundOncePerKey

LEMMA InitiateReserveKeyInv ==
  ASSUME TypeOK, KeyInv, NEW h \in Handlers, NEW k \in Keys, NEW p \in Payments,
         InitiateReserve(h, k, p)
  PROVE  KeyInv'
<1>1. UNCHANGED refundCalls
  BY DEF InitiateReserve
<1>2. \A g \in Handlers, j \in Keys : AtCall(g, j)' => AtCall(g, j)
  BY DEF TypeOK, AtCall, InitiateReserve, Become
<1>3. \A j \in Keys : rows'[j] = NoRow => rows[j] = NoRow
  BY DEF TypeOK, InitiateReserve, Idem!RowsTypeOK, Idem!MayRun, Idem!Complete
<1> QED
  BY <1>1, <1>2, <1>3, OtherKeyInv

LEMMA StepKeyInv ==
  ASSUME TypeOK, KeyInv, NEW h \in Handlers, Step(h)
  PROVE  KeyInv'
<1>1. CASE RefundCall(h)
  BY <1>1, RefundCallKeyInv
<1>2. CASE InitiateFind(h) \/ InitiateCall(h) \/ InitiateOk(h) \/ InitiateFailed(h)
             \/ RefundRow(h) \/ RefundJournal(h) \/ HookApply(h)
  <2>1. UNCHANGED <<refundCalls, rows>>
    BY <1>2 DEF InitiateFind, InitiateCall, InitiateOk, InitiateFailed, RefundRow,
                RefundJournal, HookApply, dbVars, history
  <2>2. \E job : job.pc # "refund_call" /\ work' = [work EXCEPT ![h] = job]
    <3>1. CASE InitiateFind(h)
      BY <1>2, <3>1 DEF InitiateFind, TypeOK, Job, Idle, Become, Done
    <3>2. CASE InitiateCall(h) \/ InitiateOk(h) \/ InitiateFailed(h)
      BY <3>2 DEF InitiateCall, InitiateOk, InitiateFailed, Become, Done, Idle
    <3>3. CASE RefundRow(h)
      BY <3>3 DEF RefundRow, TypeOK, Job, Idle, Become, Done
    <3>4. CASE RefundJournal(h) \/ HookApply(h)
      BY <3>4 DEF RefundJournal, HookApply, Become, Done, Idle
    <3> QED
      BY <1>2, <3>1, <3>2, <3>3, <3>4
  <2>3. \A g \in Handlers, j \in Keys : AtCall(g, j)' => AtCall(g, j)
    BY <2>2 DEF TypeOK, AtCall
  <2> QED
    BY <2>1, <2>3, OtherKeyInv
<1> QED
  BY <1>1, <1>2 DEF Step

LEMMA NextKeyInv == TypeOK /\ KeyInv /\ [Next]_vars => KeyInv'
<1> SUFFICES ASSUME TypeOK, KeyInv, [Next]_vars PROVE KeyInv'
  OBVIOUS
<1>1. CASE UNCHANGED vars
  BY <1>1 DEF vars, dbVars, history, KeyInv, AtCall, RefundOncePerKey
<1>2. CASE \E h \in Handlers : Step(h)
  BY <1>2, StepKeyInv
<1>3. CASE \E h \in Handlers : Crash(h)
  BY <1>3, OtherKeyInv DEF TypeOK, Crash, Done, Become, Idle, AtCall, dbVars
<1>4. CASE \E h \in Handlers, k \in Keys, p \in Payments : InitiateReserve(h, k, p)
  BY <1>4, InitiateReserveKeyInv
<1>5. CASE \E h \in Handlers, k \in Keys, p \in Payments, a \in 1 .. Amount + 1 :
             RefundReserve(h, k, p, a)
  BY <1>5, RefundReserveKeyInv
<1>6. CASE \E h \in Handlers, t \in Txns, p \in Payments : HookRead(h, t, p)
  BY <1>6, OtherKeyInv DEF TypeOK, HookRead, Become, AtCall, dbVars, history
<1>7. CASE \E p \in Payments : ReversePayment(p)
  BY <1>7, OtherKeyInv DEF ReversePayment, AtCall, history
<1>8. CASE \E t \in Txns, s \in {"paid", "declined"} : Answer(t, s)
  BY <1>8, OtherKeyInv DEF Answer, AtCall, dbVars, history
<1> QED
  BY <1>1, <1>2, <1>3, <1>4, <1>5, <1>6, <1>7, <1>8 DEF Next

(* However many handlers, retries and deaths, a key never calls the        *)
(* gateway's refund twice.                                                 *)
THEOREM RefundIsOncePerKey == Spec => []RefundOncePerKey
<1>1. Init => KeyInv
  BY InitKeyInv
<1>2. TypeOK /\ KeyInv /\ [Next]_vars => KeyInv'
  BY NextKeyInv
<1>3. KeyInv => RefundOncePerKey
  BY DEF KeyInv
<1> QED
  BY <1>1, <1>2, <1>3, TypeCorrect, PTL DEF Spec

-----------------------------------------------------------------------------
(* Refunds of payments that were received before: nobody initiates them,   *)
(* so nothing but a refund or a reversal moves their status, and a claim   *)
(* is never undone.  (With initiations it can be: the run unclaim.)        *)

InFlight(h, p) == work[h].pc \in {"refund_call", "refund_row", "refund_journal"} /\ work[h].pay = p

ClaimInv ==
  /\ \A k \in Keys : rows[k] # NoRow => rows[k].op = "refund"
  /\ \A h \in Handlers : work[h].pc \in {"idle", "refund_call", "refund_row", "refund_journal"}
  /\ \A p \in Payments : methodRef[p] = NoTxn /\ status[p] \in {"posted", "reversed"}
  /\ \A p \in Payments : status[p] = "posted" =>
       sentBack[p] = 0 /\ cashOut[p] = 0 /\ \A h \in Handlers : ~InFlight(h, p)
  /\ \A h \in Handlers, p \in Payments : InFlight(h, p) => cashOut[p] = 0
  /\ \A h \in Handlers : work[h].pc = "refund_call" =>
       sentBack[work[h].pay] = 0 /\ work[h].amount <= Amount
  /\ \A h \in Handlers, g \in Handlers, p \in Payments : InFlight(h, p) /\ InFlight(g, p) => h = g
  /\ NoOverRefund
  /\ CashOutOnce

LEMMA InitClaimInv ==
  ASSUME Settled = Payments, Init
  PROVE  ClaimInv
BY GatewayAssumption
   DEF Init, ClaimInv, InFlight, Idle, NoOverRefund, CashOutOnce, Idem!NoRows

LEMMA RefundReserveClaimInv ==
  ASSUME TypeOK, ClaimInv, NEW h \in Handlers, NEW k \in Keys, NEW p \in Payments,
         NEW a \in 1 .. Amount + 1, RefundReserve(h, k, p, a)
  PROVE  ClaimInv'
<1> DEFINE req == [op |-> "refund", pay |-> p, amount |-> a]
           job == [pc |-> "refund_call", key |-> k, pay |-> p, amount |-> a]
<1>1. UNCHANGED <<methodRef, sentBack, cashOut>>
  BY DEF RefundReserve, gatewayVars
<1>2. CASE rows[k] = req /\ UNCHANGED <<rows, status, work>>
  BY <1>1, <1>2 DEF ClaimInv, InFlight, NoOverRefund, CashOutOnce
<1>3. CASE Refundable(p, a) /\ Claim(p) /\ rows' = [rows EXCEPT ![k] = req]
             /\ work' = [work EXCEPT ![h] = job]
  <2>1. status[p] = "posted" /\ a <= Amount
    <3>1. status[p] = "posted"
      BY <1>3 DEF ClaimInv, Refundable
    <3>2. refunded[p] \in Nat /\ Amount \in Nat /\ a <= Amount - refunded[p]
      BY <1>3, GatewayAssumption DEF TypeOK, Refundable
    <3> QED
      BY <3>1, <3>2
  <2>2. \A q \in Payments : status'[q] = IF q = p THEN "reversed" ELSE status[q]
    BY <1>3 DEF TypeOK, Claim
  <2>3. \A g \in Handlers : work'[g] = IF g = h THEN job ELSE work[g]
    BY <1>3 DEF TypeOK
  <2>4. \A g \in Handlers, q \in Payments : InFlight(g, q)' <=> IF g = h THEN q = p ELSE InFlight(g, q)
    BY <2>3 DEF InFlight
  <2>5. \A j \in Keys : rows'[j] # NoRow => rows'[j].op = "refund"
    BY <1>3 DEF TypeOK, ClaimInv, Idem!RowsTypeOK
  <2>6. sentBack[p] = 0 /\ cashOut[p] = 0 /\ \A g \in Handlers : ~InFlight(g, p)
    BY <2>1 DEF ClaimInv
  <2>7. \A g \in Handlers : work'[g].pc \in {"idle", "refund_call", "refund_row", "refund_journal"}
    BY <2>3 DEF ClaimInv
  <2>8. \A g \in Handlers : work'[g].pc = "refund_call" =>
           sentBack'[work'[g].pay] = 0 /\ work'[g].amount <= Amount
    BY <1>1, <2>1, <2>3, <2>6 DEF ClaimInv
  <2>9. \A g \in Handlers, f \in Handlers, q \in Payments :
          InFlight(g, q)' /\ InFlight(f, q)' => g = f
    BY <2>4, <2>6 DEF ClaimInv
  <2>10. \A q \in Payments : status'[q] = "posted" =>
           sentBack'[q] = 0 /\ cashOut'[q] = 0 /\ \A g \in Handlers : ~InFlight(g, q)'
    BY <1>1, <2>2, <2>4 DEF ClaimInv
  <2>11. \A g \in Handlers, q \in Payments : InFlight(g, q)' => cashOut'[q] = 0
    BY <1>1, <2>4, <2>6 DEF ClaimInv
  <2>12. \A q \in Payments : methodRef'[q] = NoTxn /\ status'[q] \in {"posted", "reversed"}
    BY <1>1, <2>2 DEF ClaimInv
  <2>13. NoOverRefund' /\ CashOutOnce'
    BY <1>1 DEF ClaimInv, NoOverRefund, CashOutOnce
  <2> QED
    BY <2>5, <2>7, <2>8, <2>9, <2>10, <2>11, <2>12, <2>13 DEF ClaimInv
<1> QED
  BY <1>2, <1>3 DEF RefundReserve, OnReplay, Become, Idem!IsReplay, Idem!Complete

LEMMA RefundCallClaimInv ==
  ASSUME TypeOK, ClaimInv, NEW h \in Handlers, RefundCall(h)
  PROVE  ClaimInv'
<1> DEFINE q == work[h].pay
<1>1. /\ q \in Payments /\ work[h].amount \in 1 .. Amount + 1 /\ work[h].amount <= Amount
      /\ sentBack[q] = 0 /\ InFlight(h, q) /\ status[q] # "posted"
  BY JobFields DEF TypeOK, RefundCall, ClaimInv, InFlight
<1>2. UNCHANGED <<rows, status, methodRef, cashOut>>
  BY DEF RefundCall, dbVars
<1>3. /\ \A g \in Handlers \ {h} : work'[g] = work[g]
      /\ \/ work'[h].pc = "idle"
         \/ work'[h].pc = "refund_row" /\ work'[h].pay = q
  <2>1. \/ work' = [work EXCEPT ![h] = Idle]
        \/ \E outcome \in Outcome :
             work' = [work EXCEPT ![h] = [pc |-> "refund_row", pay |-> q,
                                          amount |-> work[h].amount, outcome |-> outcome]]
    BY Zenon DEF RefundCall, Become, Done
  <2> QED
    BY <2>1 DEF TypeOK, Idle
<1>4. \A g \in Handlers, p \in Payments : InFlight(g, p)' => InFlight(g, p)
  BY <1>1, <1>3 DEF TypeOK, InFlight
<1>5. /\ \A p \in Payments : sentBack'[p] = sentBack[p] \/ p = q
      /\ sentBack'[q] = 0 \/ sentBack'[q] = work[h].amount
  <2>1. \/ UNCHANGED sentBack
        \/ sentBack' = [sentBack EXCEPT ![q] = @ + work[h].amount]
    BY DEF RefundCall
  <2>2. sentBack[q] + work[h].amount = work[h].amount
    BY <1>1, GatewayAssumption
  <2> QED
    BY <1>1, <2>1, <2>2 DEF TypeOK
<1>6. \A g \in Handlers : work'[g].pc = "refund_call" => g # h /\ work'[g] = work[g] /\ work[g].pay # q
  <2>1. \A g \in Handlers : work'[g].pc = "refund_call" => g # h /\ work'[g] = work[g]
    BY <1>3 DEF TypeOK
  <2> QED
    BY <1>1, <2>1 DEF ClaimInv, InFlight
<1>7. \A g \in Handlers : work[g].pc = "refund_call" => work[g].pay \in Payments
  BY JobFields DEF TypeOK
<1>8. \A g \in Handlers : work'[g].pc \in {"idle", "refund_call", "refund_row", "refund_journal"}
  BY <1>3 DEF TypeOK, ClaimInv
<1>9. \A g \in Handlers : work'[g].pc = "refund_call" =>
         sentBack'[work'[g].pay] = 0 /\ work'[g].amount <= Amount
  BY <1>5, <1>6, <1>7 DEF ClaimInv
<1>10. NoOverRefund'
  BY <1>1, <1>5 DEF ClaimInv, NoOverRefund
<1>11. \A p \in Payments : status[p] = "posted" => sentBack'[p] = 0
  BY <1>1, <1>5 DEF ClaimInv
<1> QED
  BY <1>2, <1>4, <1>8, <1>9, <1>10, <1>11 DEF ClaimInv, CashOutOnce

(* A handler that leaves the request, or goes on to the journal entry. *)
LEMMA LeaveClaimInv ==
  ASSUME TypeOK, ClaimInv, NEW h \in Handlers, NEW job,
         UNCHANGED <<rows, status, methodRef, sentBack>>,
         work' = [work EXCEPT ![h] = job],
         \/ job.pc = "idle"
         \/ job.pc = "refund_journal" /\ InFlight(h, job.pay),
         \/ UNCHANGED cashOut
         \/ /\ job.pc = "idle" /\ InFlight(h, work[h].pay) /\ work[h].pay \in Payments
            /\ cashOut' = [cashOut EXCEPT ![work[h].pay] = @ + 1]
  PROVE  ClaimInv'
<1>1. \A g \in Handlers : work'[g] = IF g = h THEN job ELSE work[g]
  BY DEF TypeOK
<1>2. \A g \in Handlers, p \in Payments : InFlight(g, p)' => InFlight(g, p)
  BY <1>1 DEF InFlight
<1>3. \A g \in Handlers : work'[g].pc = "refund_call" => work'[g] = work[g]
  BY <1>1
<1>4. \A g \in Handlers : work'[g].pc \in {"idle", "refund_call", "refund_row", "refund_journal"}
  BY <1>1 DEF ClaimInv
<1>5. \A p \in Payments : \/ cashOut'[p] = cashOut[p]
                         \/ /\ cashOut[p] = 0 /\ cashOut'[p] = 1 /\ status[p] # "posted"
                            /\ \A g \in Handlers : ~InFlight(g, p)'
  <2>1. CASE UNCHANGED cashOut
    BY <2>1
  <2>2. CASE /\ job.pc = "idle" /\ InFlight(h, work[h].pay) /\ work[h].pay \in Payments
             /\ cashOut' = [cashOut EXCEPT ![work[h].pay] = @ + 1]
    <3>1. PICK q \in Payments : InFlight(h, q) /\ cashOut' = [cashOut EXCEPT ![q] = @ + 1]
      BY <2>2
    <3>2. cashOut[q] = 0 /\ status[q] # "posted" /\ \A g \in Handlers : InFlight(g, q) => g = h
      BY <3>1 DEF ClaimInv
    <3>3. \A g \in Handlers : ~InFlight(g, q)'
      BY <1>1, <2>2, <3>2 DEF InFlight
    <3>4. cashOut'[q] = 1 /\ \A p \in Payments \ {q} : cashOut'[p] = cashOut[p]
      BY <3>1, <3>2 DEF TypeOK
    <3> QED
      BY <3>2, <3>3, <3>4
  <2> QED
    BY <2>1, <2>2
<1>6. CashOutOnce'
  BY <1>5 DEF ClaimInv, CashOutOnce
<1> QED
  BY <1>2, <1>3, <1>4, <1>5, <1>6 DEF ClaimInv, NoOverRefund

LEMMA ReverseClaimInv ==
  ASSUME TypeOK, ClaimInv, NEW p \in Payments, ReversePayment(p)
  PROVE  ClaimInv'
<1>1. /\ status[p] = "posted" /\ cashOut[p] = 0 /\ \A h \in Handlers : ~InFlight(h, p)
  BY DEF TypeOK, ClaimInv, ReversePayment, Reversible
<1>2. /\ \A q \in Payments : status'[q] = IF q = p THEN "reversed" ELSE status[q]
      /\ \A q \in Payments : cashOut'[q] = IF q = p THEN 1 ELSE cashOut[q]
  BY <1>1 DEF TypeOK, ReversePayment
<1>3. UNCHANGED <<rows, work, methodRef, sentBack>>
  BY DEF ReversePayment, gatewayVars
<1>4. \A h \in Handlers, q \in Payments : InFlight(h, q)' <=> InFlight(h, q)
  BY <1>3 DEF InFlight
<1> QED
  BY <1>1, <1>2, <1>3, <1>4 DEF ClaimInv, NoOverRefund, CashOutOnce

LEMMA StepClaimInv ==
  ASSUME TypeOK, ClaimInv, NEW h \in Handlers, Step(h)
  PROVE  ClaimInv'
<1>1. CASE RefundCall(h)
  BY <1>1, RefundCallClaimInv
<1>2. CASE RefundRow(h)
  <2>1. /\ InFlight(h, work[h].pay)
        /\ UNCHANGED <<rows, status, methodRef, sentBack, cashOut>>
    BY <1>2 DEF RefundRow, InFlight, gatewayVars
  <2>2. PICK job : /\ work' = [work EXCEPT ![h] = job]
                  /\ \/ job.pc = "idle"
                     \/ job.pc = "refund_journal" /\ job.pay = work[h].pay
    <3>1. work[h] \in Job /\ [work[h] EXCEPT !.pc = "refund_journal"].pay = work[h].pay
          /\ [work[h] EXCEPT !.pc = "refund_journal"].pc = "refund_journal"
      BY <1>2 DEF TypeOK, RefundRow, Job, Idle
    <3> QED
      BY <1>2, <3>1 DEF RefundRow, Become, Done, Idle
  <2> QED
    BY <2>1, <2>2, LeaveClaimInv
<1>3. CASE RefundJournal(h)
  <2>1. InFlight(h, work[h].pay) /\ work[h].pay \in Payments
    BY <1>3, JobFields DEF TypeOK, RefundJournal, InFlight
  <2>2. Idle.pc = "idle" /\ work' = [work EXCEPT ![h] = Idle]
    BY <1>3 DEF RefundJournal, Done, Become, Idle
  <2>3. UNCHANGED <<rows, status, methodRef, sentBack>>
    BY <1>3 DEF RefundJournal, gatewayVars
  <2>4. UNCHANGED cashOut \/ cashOut' = [cashOut EXCEPT ![work[h].pay] = @ + 1]
    BY <1>3 DEF RefundJournal
  <2> QED
    BY <2>1, <2>2, <2>3, <2>4, LeaveClaimInv
<1>4. ~(InitiateFind(h) \/ InitiateCall(h) \/ InitiateOk(h) \/ InitiateFailed(h) \/ HookApply(h))
  BY DEF ClaimInv, InitiateFind, InitiateCall, InitiateOk, InitiateFailed, HookApply
<1> QED
  BY <1>1, <1>2, <1>3, <1>4 DEF Step

LEMMA NextClaimInv == TypeOK /\ ClaimInv /\ [Next]_vars => ClaimInv'
<1> SUFFICES ASSUME TypeOK, ClaimInv, [Next]_vars PROVE ClaimInv'
  OBVIOUS
<1>1. CASE UNCHANGED vars
  BY <1>1 DEF vars, dbVars, gatewayVars, ClaimInv, InFlight, NoOverRefund, CashOutOnce
<1>2. CASE \E h \in Handlers : Step(h)
  BY <1>2, StepClaimInv
<1>3. CASE \E h \in Handlers : Crash(h)
  <2>1. PICK h \in Handlers : Crash(h)
    BY <1>3
  <2>2. Idle.pc = "idle" /\ work' = [work EXCEPT ![h] = Idle]
    BY <2>1 DEF Crash, Done, Become, Idle
  <2>3. UNCHANGED <<rows, status, methodRef, sentBack, cashOut>>
    BY <2>1 DEF Crash, dbVars, gatewayVars
  <2> QED
    BY <2>2, <2>3, LeaveClaimInv
<1>4. ~ \E h \in Handlers, k \in Keys, p \in Payments : InitiateReserve(h, k, p)
  <2> SUFFICES ASSUME NEW h \in Handlers, NEW k \in Keys, NEW p \in Payments,
                      InitiateReserve(h, k, p)
               PROVE  FALSE
    OBVIOUS
  <2> DEFINE req == [op |-> "initiate", pay |-> p, amount |-> Amount]
  <2>1. req \in Request /\ req.op # "refund"
    BY DEF Request
  <2>2. status[p] # "none"
    BY DEF ClaimInv
  <2>3. rows[k] = req
    BY <2>2 DEF InitiateReserve, Idem!IsReplay
  <2> QED
    BY <2>1, <2>3, GatewayAssumption DEF ClaimInv
<1>5. CASE \E h \in Handlers, k \in Keys, p \in Payments, a \in 1 .. Amount + 1 :
             RefundReserve(h, k, p, a)
  BY <1>5, RefundReserveClaimInv
<1>6. ~ \E h \in Handlers, t \in Txns, p \in Payments : HookRead(h, t, p)
  BY GatewayAssumption DEF ClaimInv, HookRead
<1>7. CASE \E p \in Payments : ReversePayment(p)
  BY <1>7, ReverseClaimInv
<1>8. CASE \E t \in Txns, s \in {"paid", "declined"} : Answer(t, s)
  BY <1>8 DEF Answer, dbVars, ClaimInv, InFlight, NoOverRefund, CashOutOnce
<1> QED
  BY <1>1, <1>2, <1>3, <1>4, <1>5, <1>6, <1>7, <1>8 DEF Next

(* For payments received before, any number of concurrent refunds, retries *)
(* and deaths never gives back more than was received.                     *)
THEOREM RefundsAreCapped ==
  ASSUME Settled = Payments
  PROVE  Spec => []NoOverRefund
<1>1. Init => ClaimInv
  BY InitClaimInv
<1>2. TypeOK /\ ClaimInv /\ [Next]_vars => ClaimInv'
  BY NextClaimInv
<1>3. ClaimInv => NoOverRefund
  BY DEF ClaimInv
<1> QED
  BY <1>1, <1>2, <1>3, TypeCorrect, PTL DEF Spec

(* ... and never posts the outflow twice. *)
THEOREM OutflowIsPostedOnce ==
  ASSUME Settled = Payments
  PROVE  Spec => []CashOutOnce
<1>1. Init => ClaimInv
  BY InitClaimInv
<1>2. TypeOK /\ ClaimInv /\ [Next]_vars => ClaimInv'
  BY NextClaimInv
<1>3. ClaimInv => CashOutOnce
  BY DEF ClaimInv
<1> QED
  BY <1>1, <1>2, <1>3, TypeCorrect, PTL DEF Spec

(* ... and a payment being refunded, or refunded, stays claimed. *)
THEOREM ClaimsStand ==
  ASSUME Settled = Payments
  PROVE  Spec => []ClaimStands
<1>1. Init => ClaimInv
  BY InitClaimInv
<1>2. TypeOK /\ ClaimInv /\ [Next]_vars => ClaimInv'
  BY NextClaimInv
<1>3. TypeOK /\ ClaimInv => ClaimStands
  <2> SUFFICES ASSUME TypeOK, ClaimInv PROVE ClaimStands
    OBVIOUS
  <2>1. ASSUME NEW h \in Handlers, work[h].pc \in {"refund_call", "refund_row", "refund_journal"}
        PROVE  status[work[h].pay] = "reversed"
    <3>1. work[h].pay \in Payments
      BY <2>1, JobFields DEF TypeOK
    <3>2. InFlight(h, work[h].pay)
      BY <2>1 DEF InFlight
    <3> QED
      BY <3>1, <3>2 DEF ClaimInv
  <2>2. ASSUME NEW p \in Payments, sentBack[p] > 0
        PROVE  status[p] = "reversed"
    BY <2>2 DEF ClaimInv
  <2> QED
    BY <2>1, <2>2 DEF ClaimStands
<1> QED
  BY <1>1, <1>2, <1>3, TypeCorrect, PTL DEF Spec

-----------------------------------------------------------------------------
(* A webhook finds its payment by the reference the initiation left there, *)
(* which is of a transaction opened for that payment; what the customer    *)
(* did with a transaction is decided once.                                 *)

JobIsPaid(h) ==
  /\ work[h].pc = "init_ok" => txnOf[work[h].txn] = work[h].pay
  /\ work[h].pc = "hook_apply" /\ work[h].new = "completed" => Received(work[h].pay)

PaidInv ==
  /\ \A h \in Handlers : JobIsPaid(h)
  /\ \A p \in Payments : methodRef[p] # NoTxn => txnOf[methodRef[p]] = p
  /\ CompletedIsPaid

(* What the gateway knows of a transaction is not taken back. *)
LEMMA GatewayRemembers ==
  ASSUME TypeOK, [Next]_vars
  PROVE  /\ \A t \in Txns : txnOf[t] # NoPayment => txnOf'[t] = txnOf[t]
         /\ \A t \in Txns : txnState[t] = "paid" => txnState'[t] = "paid"
<1>1. CASE \E h \in Handlers : InitiateCall(h)
  BY <1>1 DEF InitiateCall, OpenTxn, TypeOK, gatewayVars
<1>2. CASE \E t \in Txns, s \in {"paid", "declined"} : Answer(t, s)
  BY <1>2 DEF Answer, TypeOK
<1>3. CASE UNCHANGED <<txnOf, txnState>>
  BY <1>3
<1>4. \A h \in Handlers : Step(h) => InitiateCall(h) \/ UNCHANGED <<txnOf, txnState>>
  BY DEF Step, InitiateFind, InitiateOk, InitiateFailed, RefundCall, RefundRow, RefundJournal, HookApply, gatewayVars
<1>5. \A h \in Handlers : Crash(h) => UNCHANGED <<txnOf, txnState>>
  BY DEF Crash, gatewayVars
<1>6. \A h \in Handlers, k \in Keys, p \in Payments :
        InitiateReserve(h, k, p) => UNCHANGED <<txnOf, txnState>>
  BY DEF InitiateReserve, gatewayVars
<1>7. \A h \in Handlers, k \in Keys, p \in Payments, a \in 1 .. Amount + 1 :
        RefundReserve(h, k, p, a) => UNCHANGED <<txnOf, txnState>>
  BY DEF RefundReserve, gatewayVars
<1>8. \A h \in Handlers, t \in Txns, p \in Payments : HookRead(h, t, p) => UNCHANGED <<txnOf, txnState>>
  BY DEF HookRead, gatewayVars
<1>9. \A p \in Payments : ReversePayment(p) => UNCHANGED <<txnOf, txnState>>
  BY DEF ReversePayment, gatewayVars
<1>10. UNCHANGED vars => UNCHANGED <<txnOf, txnState>>
  BY DEF vars, gatewayVars
<1> QED
  BY <1>1, <1>2, <1>3, <1>4, <1>5, <1>6, <1>7, <1>8, <1>9, <1>10 DEF Next

LEMMA StaysReceived ==
  ASSUME TypeOK, [Next]_vars, NEW p \in Payments, Received(p)
  PROVE  Received(p)'
BY GatewayRemembers, GatewayAssumption DEF Received

(* A handler that keeps its job stays right about it. *)
LEMMA SameJobIsPaid ==
  ASSUME TypeOK, PaidInv, [Next]_vars, NEW h \in Handlers, work'[h] = work[h]
  PROVE  JobIsPaid(h)'
<1>1. ASSUME work[h].pc = "init_ok" PROVE txnOf'[work[h].txn] = work[h].pay
  <2>1. work[h].txn \in Txns /\ work[h].pay \in Payments /\ txnOf[work[h].txn] = work[h].pay
    BY <1>1, JobFields DEF TypeOK, PaidInv, JobIsPaid
  <2> QED
    BY <2>1, GatewayRemembers, GatewayAssumption
<1>2. ASSUME work[h].pc = "hook_apply", work[h].new = "completed" PROVE Received(work[h].pay)'
  <2>1. work[h].pay \in Payments /\ Received(work[h].pay)
    BY <1>2, JobFields DEF TypeOK, PaidInv, JobIsPaid
  <2>2. PICK p \in Payments : p = work[h].pay /\ p = work'[h].pay
    BY <2>1
  <2>3. Received(p)'
    BY <2>1, <2>2, StaysReceived
  <2> QED
    BY <2>2, <2>3 DEF Received
<1> QED
  BY <1>1, <1>2 DEF JobIsPaid

(* What a step has to show: new jobs, references and statuses are right. *)
LEMMA StepPaidInv ==
  ASSUME TypeOK, PaidInv, [Next]_vars,
         \A h \in Handlers : work'[h] = work[h] \/ JobIsPaid(h)',
         \A p \in Payments : methodRef'[p] = methodRef[p] \/ txnOf'[methodRef'[p]] = p,
         \A p \in Payments : status'[p] = "completed" => status[p] = "completed" \/ Received(p)
  PROVE  PaidInv'
<1>1. \A h \in Handlers : JobIsPaid(h)'
  BY SameJobIsPaid
<1>2. \A p \in Payments : methodRef'[p] # NoTxn => txnOf'[methodRef'[p]] = p
  BY GatewayRemembers, GatewayAssumption DEF PaidInv, TypeOK
<1>3. CompletedIsPaid'
  <2>1. \A p \in Payments : status'[p] = "completed" => Received(p)
    BY DEF PaidInv, CompletedIsPaid
  <2> QED
    BY <2>1, StaysReceived DEF CompletedIsPaid
<1> QED
  BY <1>1, <1>2, <1>3 DEF PaidInv

(* A job of another kind has nothing to be right about. *)
LEMMA OtherJob ==
  ASSUME TypeOK, NEW h \in Handlers, NEW job, work' = [work EXCEPT ![h] = job],
         job.pc \notin {"init_ok", "hook_apply"}
  PROVE  \A g \in Handlers : work'[g] = work[g] \/ JobIsPaid(g)'
BY DEF TypeOK, JobIsPaid

LEMMA InitiateCallPaidInv ==
  ASSUME TypeOK, PaidInv, [Next]_vars, NEW h \in Handlers, InitiateCall(h)
  PROVE  PaidInv'
<1>1. UNCHANGED <<status, methodRef>>
  BY DEF InitiateCall, dbVars
<1>2. CASE \E t \in Txns : OpenTxn(t, work[h].pay) /\ Become(h, [pc |-> "init_ok", pay |-> work[h].pay, txn |-> t])
  <2>1. PICK t \in Txns :
          OpenTxn(t, work[h].pay) /\ Become(h, [pc |-> "init_ok", pay |-> work[h].pay, txn |-> t])
    BY <1>2
  <2>2. work'[h] = [pc |-> "init_ok", pay |-> work[h].pay, txn |-> t] /\ \A g \in Handlers \ {h} : work'[g] = work[g]
    BY <2>1 DEF Become, TypeOK
  <2>3. txnOf'[t] = work[h].pay
    BY <2>1 DEF OpenTxn, TypeOK
  <2>4. JobIsPaid(h)'
    BY <2>2, <2>3 DEF JobIsPaid
  <2> QED
    BY <1>1, <2>2, <2>4, StepPaidInv
<1>3. CASE Become(h, [pc |-> "init_failed", pay |-> work[h].pay])
  <2> DEFINE job == [pc |-> "init_failed", pay |-> work[h].pay]
  <2>1. work' = [work EXCEPT ![h] = job] /\ job.pc \notin {"init_ok", "hook_apply"}
    BY <1>3 DEF Become
  <2> HIDE DEF job
  <2> QED
    BY <1>1, <2>1, OtherJob, StepPaidInv
<1> QED
  BY <1>2, <1>3 DEF InitiateCall

LEMMA InitiateOkPaidInv ==
  ASSUME TypeOK, PaidInv, [Next]_vars, NEW h \in Handlers, InitiateOk(h)
  PROVE  PaidInv'
<1>1. work[h].pay \in Payments /\ work[h].txn \in Txns /\ txnOf[work[h].txn] = work[h].pay
  BY JobFields DEF TypeOK, InitiateOk, PaidInv, JobIsPaid
<1>2. UNCHANGED <<status, txnOf>>
  BY DEF InitiateOk, gatewayVars
<1>3. UNCHANGED methodRef \/ methodRef' = [methodRef EXCEPT ![work[h].pay] = work[h].txn]
  BY DEF InitiateOk
<1>4. \A p \in Payments : methodRef'[p] = methodRef[p] \/ txnOf'[methodRef'[p]] = p
  BY <1>1, <1>2, <1>3 DEF TypeOK
<1>5. PICK job : work' = [work EXCEPT ![h] = job] /\ job.pc \notin {"init_ok", "hook_apply"}
  BY DEF InitiateOk, Become, Done, Idle
<1> QED
  BY <1>2, <1>4, <1>5, OtherJob, StepPaidInv

LEMMA HookPaidInv ==
  ASSUME TypeOK, PaidInv, [Next]_vars, NEW h \in Handlers,
         HookApply(h) \/ \E t \in Txns, p \in Payments : HookRead(h, t, p)
  PROVE  PaidInv'
<1>1. CASE HookApply(h)
  <2>1. work[h].pay \in Payments
    BY <1>1, JobFields DEF TypeOK, HookApply
  <2>2. work[h].new = "completed" => Received(work[h].pay)
    BY <1>1 DEF HookApply, PaidInv, JobIsPaid
  <2>3. UNCHANGED status \/ status' = [status EXCEPT ![work[h].pay] = work[h].new]
    BY <1>1 DEF HookApply
  <2>4. \A p \in Payments : status'[p] = "completed" => status[p] = "completed" \/ Received(p)
    BY <2>1, <2>2, <2>3 DEF TypeOK
  <2>5. work' = [work EXCEPT ![h] = Idle] /\ Idle.pc \notin {"init_ok", "hook_apply"} /\ UNCHANGED methodRef
    BY <1>1 DEF HookApply, Done, Become, Idle
  <2> QED
    BY <2>4, <2>5, OtherJob, StepPaidInv
<1>2. CASE \E t \in Txns, p \in Payments : HookRead(h, t, p)
  <2>1. PICK t \in Txns, p \in Payments : HookRead(h, t, p)
    BY <1>2
  <2> DEFINE job == [pc |-> "hook_apply", pay |-> p, seen |-> status[p], new |-> HookStatus(t)]
  <2>2. work' = [work EXCEPT ![h] = job] /\ UNCHANGED <<status, methodRef, txnOf, txnState>>
    BY <2>1 DEF HookRead, Become, dbVars, gatewayVars
  <2>3. job.new = "completed" => Received(job.pay)
    <3>1. txnOf[t] = p
      BY <2>1, GatewayAssumption DEF HookRead, PaidInv
    <3> QED
      BY <3>1 DEF HookStatus, Received
  <2>4. job.pc # "init_ok"
    OBVIOUS
  <2> HIDE DEF job
  <2>5. work'[h] = job /\ \A g \in Handlers \ {h} : work'[g] = work[g]
    BY <2>2 DEF TypeOK
  <2>6. JobIsPaid(h)'
    BY <2>2, <2>3, <2>4, <2>5 DEF JobIsPaid, Received
  <2> QED
    BY <2>2, <2>5, <2>6, StepPaidInv
<1> QED
  BY <1>1, <1>2

(* Every other step writes no 'completed', no reference and no such job. *)
LEMMA OtherPaidInv ==
  ASSUME TypeOK, PaidInv, [Next]_vars, NEW h \in Handlers, NEW job,
         work' = [work EXCEPT ![h] = job], job.pc \notin {"init_ok", "hook_apply"},
         UNCHANGED methodRef,
         \/ UNCHANGED status
         \/ \E p \in Payments, s \in Status \ {"completed"} : status' = [status EXCEPT ![p] = s]
  PROVE  PaidInv'
<1>1. \A p \in Payments : status'[p] = "completed" => status[p] = "completed"
  BY DEF TypeOK
<1> QED
  BY <1>1, OtherJob, StepPaidInv

LEMMA NextPaidInv == TypeOK /\ PaidInv /\ [Next]_vars => PaidInv'
<1> SUFFICES ASSUME TypeOK, PaidInv, [Next]_vars PROVE PaidInv'
  OBVIOUS
<1>1. CASE UNCHANGED vars
  BY <1>1, StepPaidInv DEF vars, dbVars
<1>2. ASSUME NEW h \in Handlers, Step(h) PROVE PaidInv'
  <2>1. CASE InitiateCall(h)
    BY <2>1, InitiateCallPaidInv
  <2>2. CASE InitiateOk(h)
    BY <2>2, InitiateOkPaidInv
  <2>3. CASE HookApply(h)
    BY <2>3, HookPaidInv
  <2>4. CASE InitiateFind(h)
    <3>1. work[h].pc = "init_find" /\ [work[h] EXCEPT !.pc = "init_call"].pc = "init_call"
      BY <2>4 DEF InitiateFind, TypeOK, Job, Idle
    <3>2. PICK job : work' = [work EXCEPT ![h] = job] /\ job.pc \notin {"init_ok", "hook_apply"}
      BY <2>4, <3>1 DEF InitiateFind, Become, Done, Idle
    <3> QED
      BY <2>4, <3>2, OtherPaidInv DEF InitiateFind, dbVars
  <2>5. CASE InitiateFailed(h)
    <3>1. work[h].pay \in Payments
      BY <2>5, JobFields DEF TypeOK, InitiateFailed
    <3>2. work' = [work EXCEPT ![h] = Idle] /\ Idle.pc \notin {"init_ok", "hook_apply"} /\ UNCHANGED methodRef
      BY <2>5 DEF InitiateFailed, Done, Become, Idle
    <3>3. status' = [status EXCEPT ![work[h].pay] = "failed"] /\ "failed" \in Status \ {"completed"}
      BY <2>5 DEF InitiateFailed, Status
    <3> QED
      BY <3>1, <3>2, <3>3, OtherPaidInv
  <2>6. CASE RefundCall(h)
    <3>1. PICK job : work' = [work EXCEPT ![h] = job] /\ job.pc \notin {"init_ok", "hook_apply"}
      BY <2>6 DEF RefundCall, Become, Done, Idle
    <3> QED
      BY <2>6, <3>1, OtherPaidInv DEF RefundCall, dbVars
  <2>7. CASE RefundRow(h)
    <3>1. [work[h] EXCEPT !.pc = "refund_journal"].pc = "refund_journal"
      BY <2>7 DEF TypeOK, RefundRow, Job, Idle
    <3>2. PICK job : work' = [work EXCEPT ![h] = job] /\ job.pc \notin {"init_ok", "hook_apply"}
      BY <2>7, <3>1 DEF RefundRow, Become, Done, Idle
    <3> QED
      BY <2>7, <3>2, OtherPaidInv DEF RefundRow
  <2>8. CASE RefundJournal(h)
    <3>1. work' = [work EXCEPT ![h] = Idle] /\ Idle.pc \notin {"init_ok", "hook_apply"}
      BY <2>8 DEF RefundJournal, Done, Become, Idle
    <3> QED
      BY <2>8, <3>1, OtherPaidInv DEF RefundJournal
  <2> QED
    BY <1>2, <2>1, <2>2, <2>3, <2>4, <2>5, <2>6, <2>7, <2>8 DEF Step
<1>3. ASSUME NEW h \in Handlers, Crash(h) PROVE PaidInv'
  <2>1. work' = [work EXCEPT ![h] = Idle] /\ Idle.pc \notin {"init_ok", "hook_apply"}
    BY <1>3 DEF Crash, Done, Become, Idle
  <2> QED
    BY <1>3, <2>1, OtherPaidInv DEF Crash, dbVars
<1>4. ASSUME NEW h \in Handlers, NEW k \in Keys, NEW p \in Payments, InitiateReserve(h, k, p) PROVE PaidInv'
  <2> DEFINE job == [pc |-> "init_find", key |-> k, pay |-> p]
  <2>1. work' = [work EXCEPT ![h] = job] /\ job.pc \notin {"init_ok", "hook_apply"} /\ UNCHANGED methodRef
    BY <1>4 DEF InitiateReserve, Become
  <2>2. UNCHANGED status \/ status' = [status EXCEPT ![p] = "pending"]
    BY <1>4 DEF InitiateReserve
  <2>3. "pending" \in Status \ {"completed"}
    BY DEF Status
  <2> HIDE DEF job
  <2> QED
    BY <2>1, <2>2, <2>3, OtherPaidInv
<1>5. ASSUME NEW h \in Handlers, NEW k \in Keys, NEW p \in Payments, NEW a \in 1 .. Amount + 1,
             RefundReserve(h, k, p, a)
      PROVE  PaidInv'
  <2> DEFINE job == [pc |-> "refund_call", key |-> k, pay |-> p, amount |-> a]
  <2>1. UNCHANGED methodRef
    BY <1>5 DEF RefundReserve
  <2>2. CASE UNCHANGED <<work, status>>
    BY <2>1, <2>2, StepPaidInv
  <2>3. CASE work' = [work EXCEPT ![h] = job] /\ status' = [status EXCEPT ![p] = "reversed"]
    <3>1. job.pc \notin {"init_ok", "hook_apply"} /\ "reversed" \in Status \ {"completed"}
      BY DEF Status
    <3> HIDE DEF job
    <3> QED
      BY <2>1, <2>3, <3>1, OtherPaidInv
  <2> QED
    BY <1>5, <2>2, <2>3 DEF RefundReserve, OnReplay, Claim, Become
<1>6. ASSUME NEW p \in Payments, ReversePayment(p) PROVE PaidInv'
  <2>1. status' = [status EXCEPT ![p] = "reversed"] /\ UNCHANGED <<methodRef, work>>
    BY <1>6 DEF ReversePayment
  <2>2. \A q \in Payments : status'[q] = "completed" => status[q] = "completed"
    BY <2>1 DEF TypeOK
  <2> QED
    BY <2>1, <2>2, StepPaidInv
<1>7. ASSUME NEW t \in Txns, NEW s \in {"paid", "declined"}, Answer(t, s) PROVE PaidInv'
  BY <1>7, StepPaidInv DEF Answer, dbVars
<1> QED
  BY <1>1, <1>2, <1>3, <1>4, <1>5, <1>6, <1>7, HookPaidInv DEF Next

(* A payment is marked completed only after the customer paid, however     *)
(* webhooks are delayed, repeated or overtaken and initiations retried.    *)
THEOREM CompletedWasPaid == Spec => []CompletedIsPaid
<1>1. Init => PaidInv
  BY GatewayAssumption DEF Init, PaidInv, JobIsPaid, Idle, CompletedIsPaid
<1>2. TypeOK /\ PaidInv /\ [Next]_vars => PaidInv'
  BY NextPaidInv
<1>3. PaidInv => CompletedIsPaid
  BY DEF PaidInv
<1> QED
  BY <1>1, <1>2, <1>3, TypeCorrect, PTL DEF Spec

-----------------------------------------------------------------------------
(* Bank reconciliation: lines the program matched (BankReconciliation).    *)

LineRows == [match : {"unmatched", "matched", "manually_matched"}, with : Lines \cup {None}]

(* A line points at another exactly when it is matched, and what it points *)
(* at exists and is matched too; no line exists before the statement does. *)
PointersOK ==
  /\ line \in [Lines -> LineRows \cup {None}]
  /\ statement.status = "none" => \A l \in Lines : line[l] = None
  /\ \A l \in Lines : line[l] # None =>
       IF line[l].match = "unmatched" THEN line[l].with = None
       ELSE /\ line[l].with \in Lines /\ line[line[l].with] # None
            /\ line[line[l].with].match # "unmatched"

PairsInv == PointersOK /\ AutoPairsHold

(* Pairs of a payment's line and a statement's line, none of them in two.  *)
ArePairs(pairs) ==
  /\ \A q \in pairs : \E s \in SystemLines, t \in StatementLines : q = {s, t}
  /\ \A q, r \in pairs, l \in Lines : l \in q /\ l \in r => q = r

(* Of two lines of a pair each has the other as its partner.               *)
LEMMA PartnerIsOther ==
  ASSUME NEW pairs, ArePairs(pairs), NEW how, NEW k, NEW l, NEW q \in pairs, q = {k, l}
  PROVE  k \in Lines /\ l \in Lines /\ k # l /\ Paired(pairs, how)[l] = [match |-> how, with |-> k]
<1>1. PICK s \in SystemLines, t \in StatementLines : {k, l} = {s, t}
  BY DEF ArePairs
<1>0. {k, l} \in pairs
  OBVIOUS
<1>2. k \in Lines /\ l \in Lines /\ k # l
  BY <1>1, LinesAssumption DEF Lines
<1>3. \A h \in Lines : h # l /\ {h, l} \in pairs => h = k
  <2> SUFFICES ASSUME NEW h \in Lines, h # l, {h, l} \in pairs PROVE h = k
    OBVIOUS
  <2>1. {h, l} = {k, l}
    BY <1>0, <1>2 DEF ArePairs
  <2> QED BY <2>1
<1>4. (CHOOSE h \in Lines : h # l /\ {h, l} \in pairs) = k
  BY <1>2, <1>3
<1>5. \E pair \in pairs : l \in pair
  OBVIOUS
<1> QED BY <1>2, <1>4, <1>5 DEF Paired

\* In f the line l is matched with another, and that one with it, or it is in
\* no pair and as it was.
MatchedOrKept(f, pairs, how, l) ==
  \/ \E k \in Lines : /\ {k, l} \in pairs /\ {l, k} \in pairs /\ k # l
                      /\ f[l] = [match |-> how, with |-> k]
                      /\ f[k] = [match |-> how, with |-> l]
  \/ (\A q \in pairs : l \notin q) /\ f[l] = line[l]

(* A line of a pair has a partner; the others stay as they are.            *)
LEMMA PairedLines ==
  ASSUME NEW pairs, ArePairs(pairs), NEW how, NEW l \in Lines, NEW f, f = Paired(pairs, how)
  PROVE  MatchedOrKept(f, pairs, how, l)
<1>1. CASE \E q \in pairs : l \in q
  <2>1. PICK q \in pairs : l \in q
    BY <1>1
  <2>2. PICK s \in SystemLines, t \in StatementLines : q = {s, t}
    BY DEF ArePairs
  <2>3. PICK k : q = {k, l}
    BY <2>1, <2>2
  <2>4. {k, l} \in pairs /\ {l, k} \in pairs
    <3>1. {k, l} = {l, k}
      OBVIOUS
    <3> QED BY <2>3, <3>1
  <2>5. /\ k \in Lines /\ k # l
        /\ f[l] = [match |-> how, with |-> k]
    BY <2>3, PartnerIsOther
  <2>6. f[k] = [match |-> how, with |-> l]
    <3>1. q = {l, k}
      BY <2>3
    <3> QED BY <3>1, PartnerIsOther
  <2> QED BY <2>4, <2>5, <2>6 DEF MatchedOrKept
<1>2. CASE ~ \E q \in pairs : l \in q
  BY <1>2 DEF Paired, MatchedOrKept
<1> QED BY <1>1, <1>2

(* Matching lines that the program has not matched before, and for the     *)
(* program itself only lines nobody has matched, keeps the pairs.          *)
LEMMA NewPairs ==
  ASSUME PairsInv, NEW pairs, ArePairs(pairs), NEW how \in {"matched", "manually_matched"},
         \A q \in pairs, l \in Lines : l \in q =>
           /\ line[l] # None /\ line[l].match # "matched"
           /\ how = "matched" => line[l].match = "unmatched",
         how = "matched" => \A s \in SystemLines, t \in StatementLines : {s, t} \in pairs => Near(s, t),
         line' = Paired(pairs, how), statement' = statement
  PROVE  PairsInv'
<1> DEFINE In(l) == \E q \in pairs : l \in q
<1>0. None \notin LineRows /\ None \notin Lines
  BY LinesAssumption DEF LineRows
<1>1. line \in [Lines -> LineRows \cup {None}]
  BY DEF PairsInv, PointersOK
<1>2. \A l \in Lines :
        \/ \E k \in Lines : /\ {k, l} \in pairs /\ {l, k} \in pairs /\ k # l
                            /\ line'[l] = [match |-> how, with |-> k]
                            /\ line'[k] = [match |-> how, with |-> l]
        \/ ~In(l) /\ line'[l] = line[l]
  <2> SUFFICES ASSUME NEW l \in Lines
               PROVE  \/ \E k \in Lines : /\ {k, l} \in pairs /\ {l, k} \in pairs /\ k # l
                                          /\ line'[l] = [match |-> how, with |-> k]
                                          /\ line'[k] = [match |-> how, with |-> l]
                      \/ ~In(l) /\ line'[l] = line[l]
    OBVIOUS
  <2> HIDE DEF In
  <2>1. MatchedOrKept(line', pairs, how, l)
    BY PairedLines
  <2> QED BY <2>1 DEF MatchedOrKept, In
<1>3. \A l \in Lines : In(l) => line[l] # None /\ line[l].match # "matched" /\ (how = "matched" => line[l].match = "unmatched")
  OBVIOUS
<1>4. \A k, l : {k, l} \in pairs => In(k) /\ In(l)
  OBVIOUS
<1>5. line' \in [Lines -> LineRows \cup {None}]
  <2>1. \A l \in Lines : line'[l] \in LineRows \cup {None}
    <3> SUFFICES ASSUME NEW l \in Lines PROVE line'[l] \in LineRows \cup {None}
      OBVIOUS
    <3>1. CASE \E k \in Lines : line'[l] = [match |-> how, with |-> k]
      BY <3>1 DEF LineRows
    <3>2. CASE line'[l] = line[l]
      BY <1>1, <3>2
    <3> HIDE DEF In
    <3> QED BY <1>2, <3>1, <3>2
  <2>2. \E f : line' = [l \in Lines |-> f[l]]
    <3>1. line' = [l \in Lines |-> line'[l]]
      BY DEF Paired
    <3> QED BY <3>1
  <2> QED BY <2>1, <2>2
<1>6. statement'.status = "none" => \A l \in Lines : line'[l] = None
  <2> SUFFICES ASSUME statement.status = "none", NEW l \in Lines PROVE line'[l] = None
    OBVIOUS
  <2>1. line[l] = None
    BY DEF PairsInv, PointersOK
  <2>2. ~In(l)
    BY <1>3, <2>1
  <2> HIDE DEF In
  <2> QED BY <1>2, <1>4, <2>1, <2>2
<1>7. ASSUME NEW l \in Lines, line'[l] # None
      PROVE  IF line'[l].match = "unmatched" THEN line'[l].with = None
             ELSE /\ line'[l].with \in Lines /\ line'[line'[l].with] # None
                  /\ line'[line'[l].with].match # "unmatched"
  <2>1. CASE \E k \in Lines : /\ line'[l] = [match |-> how, with |-> k]
                              /\ line'[k] = [match |-> how, with |-> l]
    <3>1. PICK k \in Lines : line'[l] = [match |-> how, with |-> k] /\ line'[k] = [match |-> how, with |-> l]
      BY <2>1
    <3>2. [match |-> how, with |-> l] \in LineRows
      BY DEF LineRows
    <3> QED BY <1>0, <3>1, <3>2
  <2>2. CASE line'[l] = line[l]
    <3>1. IF line[l].match = "unmatched" THEN line[l].with = None
          ELSE /\ line[l].with \in Lines /\ line[line[l].with] # None
               /\ line[line[l].with].match # "unmatched"
      BY <1>7, <2>2 DEF PairsInv, PointersOK
    <3>2. ASSUME NEW k \in Lines, line[k] # None, line[k].match # "unmatched"
          PROVE  line'[k] # None /\ line'[k].match # "unmatched"
      <4>1. CASE \E h \in Lines : line'[k] = [match |-> how, with |-> h]
        <5>1. PICK h \in Lines : line'[k] = [match |-> how, with |-> h]
          BY <4>1
        <5>2. [match |-> how, with |-> h] \in LineRows
          BY DEF LineRows
        <5> QED BY <1>0, <5>1, <5>2
      <4>2. CASE line'[k] = line[k]
        BY <3>2, <4>2
      <4> HIDE DEF In
      <4> QED BY <1>2, <4>1, <4>2
    <3> QED BY <2>2, <3>1, <3>2
  <2> HIDE DEF In
  <2> QED BY <1>2, <2>1, <2>2
<1>8. ASSUME NEW l \in Lines, line'[l] # None, line'[l].match = "matched"
      PROVE  LET k == line'[l].with
             IN  /\ line'[k].match = "matched" /\ line'[k].with = l
                 /\ Near(l, k) /\ (l \in SystemLines <=> k \in StatementLines)
                 /\ \A m \in Lines \ {l, k} : line'[m] # None => line'[m].with # l
  <2>1. CASE ~In(l) /\ line'[l] = line[l]
    <3>1. PICK k : k = line[l].with
      OBVIOUS
    <3>2. k \in Lines /\ line[k] # None
      BY <1>8, <2>1, <3>1 DEF PairsInv, PointersOK
    <3>3. /\ line[k].match = "matched" /\ line[k].with = l
          /\ Near(l, k) /\ (l \in SystemLines <=> k \in StatementLines)
          /\ \A m \in Lines \ {l, k} : line[m] # None => line[m].with # l
      BY <1>8, <2>1, <3>1 DEF PairsInv, AutoPairsHold
    <3>4. ~In(k)
      BY <1>3, <3>2, <3>3
    <3> HIDE DEF In
    <3>5. line'[k] = line[k]
      BY <1>2, <1>4, <3>2, <3>4
    <3>6. ASSUME NEW m \in Lines \ {l, k}, line'[m] # None PROVE line'[m].with # l
      <4>1. CASE \E h \in Lines : {h, m} \in pairs /\ line'[m] = [match |-> how, with |-> h]
        BY <1>4, <2>1, <4>1
      <4>2. CASE line'[m] = line[m]
        BY <3>3, <3>6, <4>2
      <4> QED BY <1>2, <4>1, <4>2
    <3> QED BY <2>1, <3>1, <3>3, <3>5, <3>6
  <2>2. CASE \E k \in Lines : /\ {k, l} \in pairs /\ {l, k} \in pairs /\ k # l
                              /\ line'[l] = [match |-> how, with |-> k]
                              /\ line'[k] = [match |-> how, with |-> l]
    <3>1. PICK k \in Lines : /\ {k, l} \in pairs /\ {l, k} \in pairs /\ k # l
                             /\ line'[l] = [match |-> how, with |-> k]
                             /\ line'[k] = [match |-> how, with |-> l]
      BY <2>2
    <3>2. how = "matched"
      BY <1>8, <3>1
    <3>3. In(l) /\ line[l].match = "unmatched"
      BY <1>3, <3>1, <3>2
    <3>4. Near(l, k) /\ (l \in SystemLines <=> k \in StatementLines)
      <4>1. PICK s \in SystemLines, t \in StatementLines : {k, l} = {s, t}
        BY <3>1 DEF ArePairs
      <4>2. Near(s, t)
        BY <3>1, <3>2, <4>1
      <4>3. s \in Lines /\ t \in Lines /\ s \notin StatementLines /\ t \notin SystemLines
        BY LinesAssumption DEF Lines
      <4>4. Near(t, s)
        <5>1. Value[s] \in Int /\ Value[t] \in Int /\ Day[s] \in Int /\ Day[t] \in Int
          BY <4>3, LinesAssumption
        <5> QED BY <4>2, <5>1 DEF Near
      <4>5. (k = s /\ l = t) \/ (k = t /\ l = s)
        BY <3>1, <4>1
      <4> QED BY <4>2, <4>3, <4>4, <4>5
    <3>5. ASSUME NEW m \in Lines \ {l, k}, line'[m] # None PROVE line'[m].with # l
      <4>1. CASE \E h \in Lines : {h, m} \in pairs /\ line'[m] = [match |-> how, with |-> h]
        <5>1. PICK h \in Lines : {h, m} \in pairs /\ line'[m] = [match |-> how, with |-> h]
          BY <4>1
        <5>2. h # l
          <6> SUFFICES ASSUME h = l PROVE FALSE
            OBVIOUS
          <6>1. {l, m} = {k, l}
            BY <3>1, <5>1 DEF ArePairs
          <6> QED BY <6>1
        <5> QED BY <5>1, <5>2
      <4>2. CASE line'[m] = line[m]
        <5>1. line[m] # None /\ m \in Lines
          BY <3>5, <4>2
        <5>2. line[m].with = l => line[l].match # "unmatched"
          BY <1>0, <5>1 DEF PairsInv, PointersOK
        <5> QED BY <3>3, <4>2, <5>2
      <4> HIDE DEF In
      <4> QED BY <1>2, <4>1, <4>2
    <3> QED BY <3>1, <3>2, <3>4, <3>5
  <2> HIDE DEF In
  <2> QED BY <1>2, <2>1, <2>2
<1> QED BY <1>5, <1>6, <1>7, <1>8 DEF PairsInv, PointersOK, AutoPairsHold

\* The pairs that the lines found for the payments make.
FoundPairs(ss, found) == {{ss[i], found[i]} : i \in {j \in DOMAIN ss : found[j] # None}}

(* A line found for a payment is one no payment before it was given.       *)
LEMMA FoundOnce ==
  ASSUME NEW N \in Nat, NEW ss \in [1..N -> SystemLines], \A i, j \in 1..N : i # j => ss[i] # ss[j],
         NEW M \in Nat, NEW ts \in [1..M -> StatementLines],
         NEW found \in [1..N -> StatementLines \cup {None}], EachTakesFirst(found, ss, ts)
  PROVE  /\ ArePairs(FoundPairs(ss, found))
         /\ \A s \in SystemLines, t \in StatementLines : {s, t} \in FoundPairs(ss, found) => Near(s, t)
<1> DEFINE I == {j \in DOMAIN ss : found[j] # None}
           pairs == {{ss[i], found[i]} : i \in I}
<1>1. \A i \in I : i \in 1..N /\ ss[i] \in SystemLines /\ found[i] \in StatementLines
  OBVIOUS
<1>2. ASSUME NEW i \in I
      PROVE  Near(ss[i], found[i]) /\ \A j \in 1..(i - 1) : found[j] # found[i]
  <2>1. PICK k \in Free(found, ss, ts, i) : found[i] = ts[k]
    BY DEF EachTakesFirst
  <2> QED BY <2>1 DEF Free
<1>3. ASSUME NEW i \in I, NEW j \in I, found[i] = found[j] PROVE i = j
  <2>1. i \in Int /\ j \in Int /\ i \in 1..N /\ j \in 1..N
    BY <1>1
  <2>2. ~ i < j
    <3>1. i < j => i \in 1..(j - 1)
      BY <2>1
    <3> QED BY <1>2, <1>3, <3>1
  <2>3. ~ j < i
    <3>1. j < i => j \in 1..(i - 1)
      BY <2>1
    <3> QED BY <1>2, <1>3, <3>1
  <2> QED BY <2>1, <2>2, <2>3
<1>4. \A i, j \in I : ss[i] = ss[j] => i = j
  BY <1>1
<1>5. \A i, j \in I : ss[i] # found[j]
  BY <1>1, LinesAssumption
<1> HIDE DEF I
<1>6. ArePairs(pairs)
  <2>1. \A q \in pairs : \E s \in SystemLines, t \in StatementLines : q = {s, t}
    BY <1>1
  <2>2. ASSUME NEW q \in pairs, NEW r \in pairs, NEW l \in Lines, l \in q, l \in r PROVE q = r
    <3>1. PICK i \in I : q = {ss[i], found[i]}
      OBVIOUS
    <3>2. PICK j \in I : r = {ss[j], found[j]}
      OBVIOUS
    <3>3. i = j
      BY <1>3, <1>4, <1>5, <2>2, <3>1, <3>2
    <3> QED BY <3>1, <3>2, <3>3
  <2> QED BY <2>1, <2>2 DEF ArePairs
<1>7. ASSUME NEW s \in SystemLines, NEW t \in StatementLines, {s, t} \in pairs PROVE Near(s, t)
  <2>1. PICK i \in I : {s, t} = {ss[i], found[i]}
    BY <1>7
  <2>2. s = ss[i] /\ t = found[i]
    BY <1>1, <2>1, LinesAssumption
  <2> QED BY <1>2, <2>2
<1> QED BY <1>6, <1>7 DEF I, FoundPairs

(* autoMatchTransactions.                                                  *)
LEMMA AutoMatchPairs == ASSUME PairsInv, AutoMatch PROVE PairsInv'
<1> DEFINE S == Waiting(SystemLines)
           T == Waiting(StatementLines)
<1>1. PICK ss \in ByDate(S), ts \in ByDate(T) :
        \E found \in [DOMAIN ss -> T \cup {None}] :
          /\ EachTakesFirst(found, ss, ts)
          /\ line' = Paired({{ss[i], found[i]} : i \in {j \in DOMAIN ss : found[j] # None}}, "matched")
  BY DEF AutoMatch
<1>2. PICK found \in [DOMAIN ss -> T \cup {None}] :
        /\ EachTakesFirst(found, ss, ts)
        /\ line' = Paired({{ss[i], found[i]} : i \in {j \in DOMAIN ss : found[j] # None}}, "matched")
  BY <1>1
<1>3. /\ S \subseteq SystemLines /\ T \subseteq StatementLines
      /\ \A l \in S \cup T : line[l] # None /\ line[l].match = "unmatched"
  BY DEF Waiting
<1>4. Cardinality(S) \in Nat /\ Cardinality(T) \in Nat
  <2>1. IsFiniteSet(S) /\ IsFiniteSet(T)
    <3>1. S \subseteq Lines /\ T \subseteq Lines /\ IsFiniteSet(Lines)
      BY <1>3, LinesAssumption DEF Lines
    <3> HIDE DEF S, T
    <3> QED BY <3>1, FS_Subset
  <2> HIDE DEF S, T
  <2> QED BY <2>1, FS_CardinalityType
<1>5. PICK N \in Nat : ss \in [1..N -> S] /\ \A i, j \in 1..N : i # j => ss[i] # ss[j]
  <2> HIDE DEF S
  <2> QED BY <1>4 DEF ByDate, SetToSeqs
<1>6. PICK M \in Nat : ts \in [1..M -> T]
  <2> HIDE DEF T
  <2> QED BY <1>4 DEF ByDate, SetToSeqs
<1> HIDE DEF S, T
<1> DEFINE pairs == FoundPairs(ss, found)
<1>7. /\ ss \in [1..N -> SystemLines] /\ ts \in [1..M -> StatementLines]
      /\ found \in [1..N -> StatementLines \cup {None}]
  BY <1>3, <1>5, <1>6
<1>8. /\ ArePairs(pairs)
      /\ \A s \in SystemLines, t \in StatementLines : {s, t} \in pairs => Near(s, t)
  <2>1. \A i, j \in 1..N : i # j => ss[i] # ss[j]
    BY <1>5
  <2>2. EachTakesFirst(found, ss, ts)
    BY <1>2
  <2> QED BY <1>7, <2>1, <2>2, FoundOnce
<1>9. \A q \in pairs, l \in Lines : l \in q => line[l] # None /\ line[l].match = "unmatched"
  BY <1>3, <1>5 DEF FoundPairs
<1>10. statement' = statement /\ line' = Paired(pairs, "matched")
  BY <1>2 DEF AutoMatch, FoundPairs
<1> HIDE DEF pairs
<1> QED BY <1>8, <1>9, <1>10, NewPairs

(* manualMatch.                                                            *)
LEMMA ManualMatchPairs ==
  ASSUME PairsInv, NEW s \in SystemLines, NEW t \in StatementLines, ManualMatch(s, t)
  PROVE  PairsInv'
<1>1. ArePairs({{s, t}})
  BY DEF ArePairs
<1>2. \A q \in {{s, t}}, l \in Lines : l \in q => line[l] # None /\ line[l].match # "matched"
  BY DEF ManualMatch, Matchable
<1>3. statement' = statement /\ line' = Paired({{s, t}}, "manually_matched")
  BY DEF ManualMatch
<1> DEFINE pairs == {{s, t}}
           how == "manually_matched"
<1>4. /\ ArePairs(pairs) /\ how \in {"matched", "manually_matched"}
      /\ \A q \in pairs, l \in Lines : l \in q =>
           /\ line[l] # None /\ line[l].match # "matched"
           /\ how = "matched" => line[l].match = "unmatched"
      /\ how = "matched" => \A x \in SystemLines, y \in StatementLines : {x, y} \in pairs => Near(x, y)
      /\ statement' = statement /\ line' = Paired(pairs, how)
  BY <1>1, <1>2, <1>3
<1> HIDE DEF pairs, how
<1> QED BY <1>4, NewPairs

(* Lines that come in unmatched, where there were none, change no match.   *)
LEMMA NewLinesPairs ==
  ASSUME PairsInv, NEW new \in SUBSET Lines, \A l \in new : line[l] = None,
         line' = [l \in Lines |-> IF l \in new THEN Unmatched ELSE line[l]],
         statement'.status # "none"
  PROVE  PairsInv'
<1>0. None \notin LineRows /\ None \notin Lines /\ Unmatched \in LineRows
  BY LinesAssumption DEF LineRows, Unmatched
<1>1. \A l \in Lines : IF l \in new THEN line'[l] = Unmatched ELSE line'[l] = line[l]
  OBVIOUS
<1>2. \A l \in Lines : line[l] # None => line'[l] = line[l]
  BY <1>1
<1>3. line' \in [Lines -> LineRows \cup {None}]
  BY <1>0 DEF PairsInv, PointersOK
<1>4. ASSUME NEW l \in Lines, line'[l] # None
      PROVE  IF line'[l].match = "unmatched" THEN line'[l].with = None
             ELSE /\ line'[l].with \in Lines /\ line'[line'[l].with] # None
                  /\ line'[line'[l].with].match # "unmatched"
  <2>1. CASE l \in new
    BY <1>1, <2>1 DEF Unmatched
  <2>2. CASE l \notin new
    <3>1. line'[l] = line[l] /\ line[l] # None
      BY <1>1, <1>4, <2>2
    <3> QED BY <1>2, <3>1 DEF PairsInv, PointersOK
  <2> QED BY <2>1, <2>2
<1>5. ASSUME NEW l \in Lines, line'[l] # None, line'[l].match = "matched"
      PROVE  LET k == line'[l].with
             IN  /\ line'[k].match = "matched" /\ line'[k].with = l
                 /\ Near(l, k) /\ (l \in SystemLines <=> k \in StatementLines)
                 /\ \A m \in Lines \ {l, k} : line'[m] # None => line'[m].with # l
  <2>1. l \notin new /\ line'[l] = line[l]
    BY <1>1, <1>5 DEF Unmatched
  <2>2. PICK k : k = line[l].with
    OBVIOUS
  <2>3. k \in Lines /\ line[k] # None
    BY <1>5, <2>1, <2>2 DEF PairsInv, PointersOK
  <2>4. /\ line[k].match = "matched" /\ line[k].with = l
        /\ Near(l, k) /\ (l \in SystemLines <=> k \in StatementLines)
        /\ \A m \in Lines \ {l, k} : line[m] # None => line[m].with # l
    BY <1>5, <2>1, <2>2 DEF PairsInv, AutoPairsHold
  <2>5. \A m \in Lines \ {l, k} : line'[m] # None => line'[m].with # l
    BY <1>0, <1>1, <2>4 DEF Unmatched
  <2> QED BY <1>2, <2>1, <2>2, <2>3, <2>4, <2>5
<1> QED BY <1>3, <1>4, <1>5 DEF PairsInv, PointersOK, AutoPairsHold

(* No request breaks a pair: those that write other lines leave it alone.  *)
LEMMA PairsStep == PairsInv /\ [ReconciliationNext]_reconciliationVars => PairsInv'
<1> SUFFICES ASSUME PairsInv, [ReconciliationNext]_reconciliationVars PROVE PairsInv'
  OBVIOUS
<1>1. ASSUME UNCHANGED <<statement, line>> PROVE PairsInv'
  BY <1>1 DEF PairsInv, PointersOK, AutoPairsHold
<1>2. CASE InstrumentsNext /\ UNCHANGED <<statement, line>>
  BY <1>1, <1>2
<1>3. CASE \E p \in Periods, v \in Variances : Create(p, v)
  <2>1. PICK p \in Periods, v \in Variances : Create(p, v)
    BY <1>3
  <2>2. /\ \A l \in Lines : line[l] = None
        /\ line' = [l \in Lines |-> IF l \in SystemLines THEN Unmatched ELSE line[l]]
        /\ statement'.status # "none" /\ SystemLines \in SUBSET Lines
    BY <2>1 DEF Create, PairsInv, PointersOK, Lines
  <2> QED BY <2>2, NewLinesPairs
<1>4. CASE \E new \in SUBSET StatementLines : AddStatementLines(new)
  <2>1. PICK new \in SUBSET StatementLines : AddStatementLines(new)
    BY <1>4
  <2>2. /\ \A l \in new : line[l] = None
        /\ line' = [l \in Lines |-> IF l \in new THEN Unmatched ELSE line[l]]
        /\ statement'.status # "none" /\ new \in SUBSET Lines
    BY <2>1 DEF AddStatementLines, Lines
  <2> QED BY <2>2, NewLinesPairs
<1>5. CASE AutoMatch
  BY <1>5, AutoMatchPairs
<1>6. CASE \E s \in SystemLines, t \in StatementLines : ManualMatch(s, t)
  BY <1>6, ManualMatchPairs
<1>7. CASE Finalise
  <2>1. line' = line /\ (statement'.status = "none" => statement.status = "none")
    <3>1. statement.status # "none" /\ line' = line
      BY <1>7 DEF Finalise
    <3>2. \/ statement' = statement
          \/ statement' = [statement EXCEPT !.status = "has_variance"]
          \/ statement' = [statement EXCEPT !.status = "reconciled"]
      BY <1>7 DEF Finalise
    <3>3. \A to : to # "none" => [statement EXCEPT !.status = to].status # "none"
      <4> SUFFICES ASSUME NEW to, to # "none" PROVE [statement EXCEPT !.status = to].status # "none"
        OBVIOUS
      <4>1. CASE "status" \in DOMAIN statement
        BY <4>1
      <4>2. CASE "status" \notin DOMAIN statement
        <5>1. [statement EXCEPT !.status = to] = [x \in DOMAIN statement |-> statement[x]]
          BY <4>2
        <5> QED BY <3>1, <4>2, <5>1
      <4> QED BY <4>1, <4>2
    <3> QED BY <3>1, <3>2, <3>3
  <2> QED BY <2>1 DEF PairsInv, PointersOK, AutoPairsHold
<1>8. CASE UNCHANGED reconciliationVars
  BY <1>1, <1>8 DEF reconciliationVars
<1> QED BY <1>2, <1>3, <1>4, <1>5, <1>6, <1>7, <1>8 DEF ReconciliationNext

(* Two lines that AutoMatch paired stay each other's match, whatever is     *)
(* matched by hand later: near each other in amount and date, one on each  *)
(* side, and no third line points at either (BankReconciliation.ts:        *)
(* 290-324, 357), for any lines, amounts and dates.                        *)
THEOREM AutoPairsStay == ReconciliationSpec => []AutoPairsHold
<1>1. ReconciliationInit => PairsInv
  BY DEF ReconciliationInit, PairsInv, PointersOK, AutoPairsHold
<1>2. PairsInv => AutoPairsHold
  BY DEF PairsInv
<1> QED BY <1>1, <1>2, PairsStep, PTL DEF ReconciliationSpec

-----------------------------------------------------------------------------
(* The journal and the documents (Ledger, Instruments).                    *)

(* A multiple of a function has that multiple of its sum.                  *)
LEMMA SumTenfold ==
  ASSUME NEW S, IsFiniteSet(S), NEW f, NEW g, \A x \in S : f[x] \in Int /\ g[x] = 10 * f[x]
  PROVE  SumFunctionOnSet(g, S) = 10 * SumFunctionOnSet(f, S)
<1> DEFINE G == {V \in SUBSET S : SumFunctionOnSet(g, V) = 10 * SumFunctionOnSet(f, V)}
<1>1. ASSUME NEW V \in SUBSET S, \A W \in SUBSET V : W # V => W \in G PROVE V \in G
  <2>1. /\ SumFunctionOnSet(f, V) =
             IF V = {} THEN 0 ELSE f[Chosen(V)] + SumFunctionOnSet(f, V \ {Chosen(V)})
        /\ SumFunctionOnSet(g, V) =
             IF V = {} THEN 0 ELSE g[Chosen(V)] + SumFunctionOnSet(g, V \ {Chosen(V)})
    BY FS_Subset, SumUnfold
  <2>2. V # {} => /\ f[Chosen(V)] \in Int /\ g[Chosen(V)] = 10 * f[Chosen(V)]
                  /\ SumFunctionOnSet(g, V \ {Chosen(V)}) = 10 * SumFunctionOnSet(f, V \ {Chosen(V)})
    BY ChosenIn, <1>1
  <2>3. IsFiniteSet(V \ {Chosen(V)}) /\ \A x \in V \ {Chosen(V)} : f[x] \in Int
    BY FS_Subset, FS_RemoveElement
  <2>4. SumFunctionOnSet(f, V \ {Chosen(V)}) \in Int
    BY <2>3, SumInt
  <2> QED BY <2>1, <2>2, <2>4
<1> HIDE DEF G
<1>2. S \in G
  BY <1>1, SetInduction
<1> QED BY <1>2 DEF G

(* Values of at most 5, above or below zero, add up to at most 5 for each. *)
LEMMA SumOfFives ==
  ASSUME NEW S, IsFiniteSet(S), NEW f, \A x \in S : f[x] \in -5..5
  PROVE  /\ SumFunctionOnSet(f, S) \in Int /\ Cardinality(S) \in Nat
         /\ SumFunctionOnSet(f, S) <= 5 * Cardinality(S)
         /\ -5 * Cardinality(S) <= SumFunctionOnSet(f, S)
<1> DEFINE G == {V \in SUBSET S : /\ SumFunctionOnSet(f, V) <= 5 * Cardinality(V)
                                  /\ -5 * Cardinality(V) <= SumFunctionOnSet(f, V)}
<1>0. \A V \in SUBSET S : IsFiniteSet(V) /\ Cardinality(V) \in Nat /\ SumFunctionOnSet(f, V) \in Int
  <2> SUFFICES ASSUME NEW V \in SUBSET S
               PROVE  IsFiniteSet(V) /\ Cardinality(V) \in Nat /\ SumFunctionOnSet(f, V) \in Int
    OBVIOUS
  <2>1. IsFiniteSet(V) /\ \A x \in V : f[x] \in Int
    BY FS_Subset
  <2> QED BY <2>1, FS_CardinalityType, SumInt
<1>1. ASSUME NEW V \in SUBSET S, \A W \in SUBSET V : W # V => W \in G PROVE V \in G
  <2>1. SumFunctionOnSet(f, V) =
          IF V = {} THEN 0 ELSE f[Chosen(V)] + SumFunctionOnSet(f, V \ {Chosen(V)})
    BY <1>0, SumUnfold
  <2>2. CASE V = {}
    BY <2>1, <2>2, FS_EmptySet
  <2>3. CASE V # {}
    <3> DEFINE W == V \ {Chosen(V)}
    <3>1. Chosen(V) \in V /\ W \in SUBSET V /\ W # V /\ W \in SUBSET S
      BY <2>3, ChosenIn
    <3>2. W \in G /\ f[Chosen(V)] \in -5..5
      BY <1>1, <3>1
    <3>3. Cardinality(W) = Cardinality(V) - 1
      BY <1>0, <3>1, FS_RemoveElement
    <3>4. SumFunctionOnSet(f, W) \in Int /\ Cardinality(V) \in Nat
      BY <1>0, <3>1
    <3>5. SumFunctionOnSet(f, V) = f[Chosen(V)] + SumFunctionOnSet(f, W)
      BY <2>1, <2>3
    <3> HIDE DEF W
    <3> QED BY <3>2, <3>3, <3>4, <3>5
  <2> QED BY <2>2, <2>3
<1> HIDE DEF G
<1>2. S \in G
  BY <1>1, SetInduction
<1> QED BY <1>0, <1>2 DEF G

(* The sums of up to four numbers.                                         *)
LEMMA SumOfFour ==
  ASSUME NEW n \in 1..4, NEW f, \A i \in 1..n : f[i] \in Int
  PROVE  SumFunctionOnSet(f, 1..n) =
           f[1] + (IF n >= 2 THEN f[2] ELSE 0) + (IF n >= 3 THEN f[3] ELSE 0) + (IF n = 4 THEN f[4] ELSE 0)
<1>1. \A k \in 1..3 : (\A i \in 1..(k + 1) : f[i] \in Int) =>
        SumFunctionOnSet(f, 1..(k + 1)) = SumFunctionOnSet(f, 1..k) + f[k + 1]
  <2> SUFFICES ASSUME NEW k \in 1..3, \A i \in 1..(k + 1) : f[i] \in Int
               PROVE  SumFunctionOnSet(f, 1..(k + 1)) = SumFunctionOnSet(f, 1..k) + f[k + 1]
    OBVIOUS
  <2> DEFINE D == 1..k
             x == k + 1
  <2>1. IsFiniteSet(D) /\ x \notin D /\ D \cup {x} = 1..(k + 1)
    BY FS_Interval
  <2>2. (\A y \in D \cup {x} : f[y] \in Int) /\ \A y \in D : f[y] \in Int
    BY <2>1
  <2> HIDE DEF D, x
  <2>3. SumFunctionOnSet(f, D \cup {x}) = f[x] + SumFunctionOnSet(f, D)
    BY <2>1, <2>2, SumAdd
  <2>4. SumFunctionOnSet(f, D) \in Int /\ f[x] \in Int
    BY <2>1, <2>2, SumInt
  <2>5. SumFunctionOnSet(f, 1..(k + 1)) = SumFunctionOnSet(f, D) + f[x]
    <3>1. SumFunctionOnSet(f, 1..(k + 1)) = SumFunctionOnSet(f, D \cup {x})
      BY <2>1
    <3>2. SumFunctionOnSet(f, D \cup {x}) = SumFunctionOnSet(f, D) + f[x]
      BY <2>3, <2>4
    <3> QED BY <3>1, <3>2
  <2> QED BY <2>5 DEF D, x
<1>2. SumFunctionOnSet(f, 1..1) = f[1] /\ f[1] \in Int
  <2>1. 1..1 = {1} /\ f[1] \in Int
    OBVIOUS
  <2> QED BY <2>1, SumOne
<1>3. n >= 2 => SumFunctionOnSet(f, 1..2) = f[1] + f[2] /\ f[2] \in Int
  <2> HAVE n >= 2
  <2>1. 1 \in 1..3 /\ 1 + 1 = 2 /\ \A i \in 1..2 : f[i] \in Int
    OBVIOUS
  <2> QED BY <1>1, <1>2, <2>1
<1>4. n >= 3 => SumFunctionOnSet(f, 1..3) = f[1] + f[2] + f[3] /\ f[3] \in Int
  <2> HAVE n >= 3
  <2>1. 2 \in 1..3 /\ 2 + 1 = 3 /\ n >= 2 /\ \A i \in 1..3 : f[i] \in Int
    OBVIOUS
  <2> QED BY <1>1, <1>3, <2>1
<1>5. n = 4 => SumFunctionOnSet(f, 1..4) = f[1] + f[2] + f[3] + f[4]
  <2> HAVE n = 4
  <2>1. 3 \in 1..3 /\ 3 + 1 = 4 /\ n >= 3 /\ \A i \in 1..4 : f[i] \in Int
    OBVIOUS
  <2> QED BY <1>1, <1>4, <2>1
<1>6. CASE n = 1 BY <1>2, <1>6
<1>7. CASE n = 2 BY <1>2, <1>3, <1>7
<1>8. CASE n = 3 BY <1>2, <1>3, <1>4, <1>8
<1>9. CASE n = 4 BY <1>2, <1>3, <1>4, <1>5, <1>9
<1> QED BY <1>6, <1>7, <1>8, <1>9

-----------------------------------------------------------------------------
(* A line of a document, in tenths: one account, one side.                 *)
IsLine(l) == \E account : \E n \in Int : l = Debit(account, n) \/ l = Credit(account, n)

\* What the line l moves the account by.
Moving(l, account) == IF l.account = account THEN Signed(l) ELSE 0

(* Half up moves a number by at most half a unit.                          *)
LEMMA UnitsNear ==
  ASSUME NEW n \in Int
  PROVE  Units(n) \in Int /\ 10 * Units(n) - n \in -5..5
BY DEF Units

(* A whole amount is not moved at all.                                     *)
LEMMA UnitsOfWhole ==
  ASSUME NEW n \in Int
  PROVE  Units(10 * n) = n
BY DEF Units

(* A line moves by at most half a unit when it is rounded.                 *)
LEMMA LineRounds ==
  ASSUME NEW l, IsLine(l), NEW u,
         u = [account |-> l.account, debit |-> Units(l.debit), credit |-> Units(l.credit)]
  PROVE  /\ Signed(l) \in Int /\ Signed(u) \in Int
         /\ 10 * Signed(u) - Signed(l) \in -5..5
<1>0. Units(0) = 0
  BY DEF Units
<1>1. PICK account : \E n \in Int : l = Debit(account, n) \/ l = Credit(account, n)
  BY DEF IsLine
<1>1a. PICK n \in Int : l = Debit(account, n) \/ l = Credit(account, n)
  BY <1>1
<1>2. Units(n) \in Int /\ 10 * Units(n) - n \in -5..5
  BY UnitsNear
<1>3. CASE l = Debit(account, n)
  <2>1. Signed(l) = n /\ Signed(u) = Units(n)
    BY <1>0, <1>1, <1>2, <1>3 DEF Signed, Debit
  <2> QED BY <1>1, <1>2, <2>1
<1>4. CASE l = Credit(account, n)
  <2>1. Signed(l) = -n /\ Signed(u) = -Units(n)
    BY <1>0, <1>1, <1>2, <1>4 DEF Signed, Credit
  <2> QED BY <1>1, <1>2, <2>1
<1> QED BY <1>1a, <1>3, <1>4

\* The lines on an account.
On(lines, account) == {i \in DOMAIN lines : lines[i].account = account}

(* What lines move an account by is the sum over its lines.                *)
LEMMA OnAccountIsSum ==
  ASSUME NEW lines, NEW account, IsFiniteSet(DOMAIN lines),
         NEW f, \A i \in On(lines, account) : f[i] = Signed(lines[i])
  PROVE  OnAccount(lines, account) = SumFunctionOnSet(f, On(lines, account))
<1> DEFINE S == On(lines, account)
           g == [i \in S |-> Signed(lines[i])]
<1>1. OnAccount(lines, account) = SumFunctionOnSet(g, S)
  BY DEF OnAccount, SumFunction, On
<1>2. IsFiniteSet(S)
  <2>1. S \subseteq DOMAIN lines
    BY DEF On
  <2> HIDE DEF S
  <2> QED BY <2>1, FS_Subset
<1>3. \A i \in S : f[i] = g[i]
  OBVIOUS
<1> HIDE DEF S, g
<1>4. SumFunctionOnSet(f, S) = SumFunctionOnSet(g, S)
  BY <1>2, <1>3, SumSame
<1> QED BY <1>1, <1>4 DEF S

(* What the debits are more than the credits is the sum over all lines.    *)
LEMMA ResidualIsSum ==
  ASSUME NEW lines, IsFiniteSet(DOMAIN lines), NEW f, \A i \in DOMAIN lines : f[i] = Signed(lines[i])
  PROVE  Residual(lines) = SumFunctionOnSet(f, DOMAIN lines)
<1> DEFINE g == [i \in DOMAIN lines |-> Signed(lines[i])]
<1>1. Residual(lines) = SumFunctionOnSet(g, DOMAIN lines)
  BY DEF Residual, SumFunction
<1>2. \A i \in DOMAIN lines : f[i] = g[i]
  OBVIOUS
<1> HIDE DEF g
<1> QED BY <1>1, <1>2, SumSame

(* The lines that are not written had nothing to say.                      *)
LEMMA DroppedLines ==
  ASSUME NEW even, IsFiniteSet(DOMAIN even), NEW account, \A i \in DOMAIN even : Signed(even[i]) \in Int,
         NEW kept, kept = Restrict(even, {i \in DOMAIN even : even[i].debit # 0 \/ even[i].credit # 0})
  PROVE  OnAccount(kept, account) = OnAccount(even, account)
<1> DEFINE f == [i \in DOMAIN even |-> Signed(even[i])]
           S == On(even, account)
           T == On(kept, account)
<1>1. /\ DOMAIN kept = {i \in DOMAIN even : even[i].debit # 0 \/ even[i].credit # 0}
      /\ \A i \in DOMAIN kept : kept[i] = even[i]
  BY DEF Restrict
<1>2. S \subseteq DOMAIN even /\ T \in SUBSET S /\ \A i \in T : f[i] = Signed(kept[i])
  BY <1>1 DEF On
<1>3. \A i \in S \ T : f[i] = 0
  <2> SUFFICES ASSUME NEW i \in S \ T PROVE f[i] = 0
    OBVIOUS
  <2>1. i \in DOMAIN even /\ even[i].account = account
    BY DEF On
  <2>2. even[i].debit = 0 /\ even[i].credit = 0
    BY <1>1, <2>1 DEF On
  <2> QED BY <2>1, <2>2 DEF Signed
<1>4. IsFiniteSet(DOMAIN kept) /\ IsFiniteSet(S)
  <2>1. DOMAIN kept \subseteq DOMAIN even
    BY <1>1
  <2> HIDE DEF S
  <2> QED BY <1>2, <2>1, FS_Subset
<1>5. (\A i \in S : f[i] = Signed(even[i])) /\ (\A i \in T : f[i] \in Int)
  BY <1>2
<1> HIDE DEF f
<1>6. OnAccount(kept, account) = SumFunctionOnSet(f, T)
  BY <1>2, <1>4, OnAccountIsSum
<1>7. OnAccount(even, account) = SumFunctionOnSet(f, S)
  BY <1>5, OnAccountIsSum
<1>8. SumFunctionOnSet(f, S) = SumFunctionOnSet(f, T)
  <2> HIDE DEF S, T
  <2> QED BY <1>2, <1>3, <1>4, <1>5, SumSupport
<1> QED BY <1>6, <1>7, <1>8

(* A finite set of lines that is not empty has a largest.                  *)
LEMMA LargestIn ==
  ASSUME NEW lines, IsFiniteSet(DOMAIN lines), DOMAIN lines # {}, DOMAIN lines \subseteq Int, NEW n,
         \A i \in DOMAIN lines : Short(lines[i], n) \in Int
  PROVE  Largest(lines, n) \in DOMAIN lines
<1> DEFINE D == DOMAIN lines
           v == [i \in D |-> Short(lines[i], n)]
           R == {d \in D \X D : v[d[1]] < v[d[2]] \/ (v[d[1]] = v[d[2]] /\ d[2] < d[1])}
<1>1. \A i, j \in D : <<i, j>> \in R <=> v[i] < v[j] \/ (v[i] = v[j] /\ j < i)
  OBVIOUS
<1>2. \A i \in D : v[i] \in Int /\ i \in Int
  OBVIOUS
<1> HIDE DEF v, R
<1>3. OrdersStrictly(R, D)
  <2>1. \A a \in D : <<a, a>> \notin R
    BY <1>1, <1>2
  <2>2. \A a, b \in D : a # b => <<a, b>> \in R \/ <<b, a>> \in R
    <3> SUFFICES ASSUME NEW a \in D, NEW b \in D, a # b PROVE <<a, b>> \in R \/ <<b, a>> \in R
      OBVIOUS
    <3>1. v[a] \in Int /\ v[b] \in Int /\ a \in Int /\ b \in Int
      BY <1>2
    <3>2. v[a] < v[b] \/ v[b] < v[a] \/ (v[a] = v[b] /\ (a < b \/ b < a))
      BY <3>1
    <3> QED BY <1>1, <3>2
  <2>3. \A a, b, c \in D : <<a, b>> \in R /\ <<b, c>> \in R => <<a, c>> \in R
    <3> SUFFICES ASSUME NEW a \in D, NEW b \in D, NEW c \in D, <<a, b>> \in R, <<b, c>> \in R
                 PROVE  <<a, c>> \in R
      OBVIOUS
    <3>1. /\ v[a] \in Int /\ v[b] \in Int /\ v[c] \in Int /\ a \in Int /\ b \in Int /\ c \in Int
          /\ v[a] < v[b] \/ (v[a] = v[b] /\ b < a)
          /\ v[b] < v[c] \/ (v[b] = v[c] /\ c < b)
      BY <1>1, <1>2
    <3>2. v[a] < v[c] \/ (v[a] = v[c] /\ c < a)
      BY <3>1
    <3> QED BY <1>1, <3>2
  <2> QED BY <2>1, <2>2, <2>3 DEF OrdersStrictly
<1>4. PICK x \in D : \A y \in D \ {x} : <<y, x>> \in R
  <2>1. IsFiniteSet(D) /\ D # {}
    OBVIOUS
  <2> HIDE DEF D
  <2> QED BY <1>3, <2>1, LastElement
<1>5. \A j \in D : v[j] <= v[x] /\ (j < x => v[j] < v[x])
  <2> SUFFICES ASSUME NEW j \in D PROVE v[j] <= v[x] /\ (j < x => v[j] < v[x])
    OBVIOUS
  <2>1. v[j] \in Int /\ v[x] \in Int /\ j \in Int /\ x \in Int
    BY <1>2
  <2>2. j = x \/ v[j] < v[x] \/ (v[j] = v[x] /\ x < j)
    BY <1>1, <1>4
  <2> QED BY <2>1, <2>2
<1>6. \A j \in D : Short(lines[j], n) <= Short(lines[x], n) /\ (j < x => Short(lines[j], n) < Short(lines[x], n))
  BY <1>5 DEF v
<1> QED BY <1>6 DEF Largest

\* The lines even are the lines units, but that one of them was moved by n or
\* that a line of another account was added.
EvenedAs(even, units, account, n) ==
  /\ IsFiniteSet(DOMAIN even) /\ \A i \in DOMAIN even : Signed(even[i]) \in Int
  /\ On(even, account) = On(units, account)
  /\ \/ \A i \in On(units, account) : Signed(even[i]) = Signed(units[i])
     \/ \E k \in On(units, account) :
          /\ Signed(even[k]) = Signed(units[k]) - n
          /\ \A i \in On(units, account) \ {k} : Signed(even[i]) = Signed(units[i])

(* Evening out the lines of an entry in units changes no account but that  *)
(* of one line, which makes up for the whole difference.                   *)
LEMMA EvenedLines ==
  ASSUME NEW K \in Nat \ {0}, NEW units, NEW n \in Int \ {0}, n = Residual(units),
         NEW S, units \in Seq(S), Len(units) = K,
         \A i \in 1..K : units[i].debit \in Int /\ units[i].credit \in Int,
         NEW lines, units = InUnits(lines), NEW account, account # "rounding",
         NEW even, even = Evened(lines)
  PROVE  EvenedAs(even, units, account, n)
<1>1. DOMAIN units = 1..K /\ IsFiniteSet(1..K)
  BY FS_Interval
<1>2. \A i \in 1..K : units[i].debit \in Int /\ units[i].credit \in Int /\ Signed(units[i]) \in Int
  BY <1>1 DEF Signed
<1>3. CASE rounding
  <2> DEFINE l == Raised(Debit("rounding", 0), n)
  <2>1. even = Append(units, l)
    BY <1>3 DEF Evened
  <2>2. l.account = "rounding" /\ Signed(l) \in Int
    BY DEF Raised, Debit, Signed
  <2> HIDE DEF l
  <2>3. /\ DOMAIN even = 1..(K + 1) /\ even[K + 1] = l
        /\ \A i \in 1..K : even[i] = units[i]
    BY <1>1, <2>1
  <2>4. IsFiniteSet(DOMAIN even)
    BY <2>3, FS_Interval
  <2>5. \A i \in DOMAIN even : i \in 1..K \/ i = K + 1
    BY <2>3
  <2>6. On(even, account) = On(units, account)
    BY <1>1, <2>2, <2>3, <2>5 DEF On
  <2>7. \A i \in On(units, account) : Signed(even[i]) = Signed(units[i])
    BY <1>1, <2>3 DEF On
  <2>8. \A i \in DOMAIN even : Signed(even[i]) \in Int
    BY <1>2, <2>2, <2>3, <2>5
  <2> QED BY <2>4, <2>6, <2>7, <2>8 DEF EvenedAs
<1>4. CASE ~rounding
  <2> DEFINE k == Largest(units, n)
  <2>1. k \in 1..K
    <3>1. \A i \in 1..K : Short(units[i], n) \in Int
      BY <1>2 DEF Short
    <3>2. 1 \in 1..K /\ 1..K \subseteq Int
      OBVIOUS
    <3>3. IsFiniteSet(DOMAIN units) /\ DOMAIN units # {} /\ DOMAIN units \subseteq Int
      BY <1>1, <3>2
    <3>4. \A i \in DOMAIN units : Short(units[i], n) \in Int
      BY <1>1, <3>1
    <3>5. k \in DOMAIN units
      <4> HIDE DEF k
      <4>1. Largest(units, n) \in DOMAIN units
        BY <3>3, <3>4, LargestIn
      <4> QED BY <4>1 DEF k
    <3> QED BY <1>1, <3>5
  <2>2. even = [units EXCEPT ![k] = Raised(@, n)]
    BY <1>4 DEF Evened
  <2> HIDE DEF k
  <2>3. /\ DOMAIN even = 1..K /\ even[k] = Raised(units[k], n)
        /\ \A i \in 1..K \ {k} : even[i] = units[i]
    BY <1>1, <2>1, <2>2
  <2>4. even[k].account = units[k].account /\ Signed(even[k]) = Signed(units[k]) - n
    <3>1. /\ units[k].debit \in Int /\ units[k].credit \in Int
          /\ units[k] = [account |-> units[k].account, debit |-> units[k].debit, credit |-> units[k].credit]
      BY <1>1, <1>2, <2>1 DEF InUnits
    <3>2. PICK a, d, c : a = units[k].account /\ d = units[k].debit /\ c = units[k].credit
      OBVIOUS
    <3>3. units[k] = [account |-> a, debit |-> d, credit |-> c] /\ d \in Int /\ c \in Int
      BY <3>1, <3>2
    <3>4. /\ Raised(units[k], n).account = a
          /\ Signed(Raised(units[k], n)) = (d - c) - n
      BY <3>3 DEF Raised, Signed
    <3>5. Signed(units[k]) = d - c
      BY <3>3 DEF Signed
    <3> QED BY <2>3, <3>2, <3>4, <3>5
  <2>5. On(even, account) = On(units, account)
    <3>1. \A i \in 1..K : even[i].account = units[i].account
      BY <2>1, <2>3, <2>4
    <3> QED BY <1>1, <2>3, <3>1 DEF On
  <2>6. \A i \in DOMAIN even : Signed(even[i]) \in Int
    BY <1>2, <2>1, <2>3, <2>4
  <2>7. \A i \in On(units, account) \ {k} : Signed(even[i]) = Signed(units[i])
    BY <1>1, <2>3 DEF On
  <2> QED BY <1>1, <2>3, <2>4, <2>5, <2>6, <2>7 DEF EvenedAs
<1> QED BY <1>3, <1>4

\* The lines of a document, two to four, balanced.
AreLines(lines, K) ==
  /\ K \in 2..4 /\ Len(lines) = K /\ (\E S : lines \in Seq(S)) /\ DOMAIN lines = 1..K
  /\ \A i \in 1..K : IsLine(lines[i])
  /\ Residual(lines) = 0

(* The lines in whole units: their accounts are the document's.            *)
LEMMA LinesInUnits ==
  ASSUME NEW K, NEW lines, AreLines(lines, K), NEW units, units = InUnits(lines)
  PROVE  /\ (\E S : units \in Seq(S)) /\ Len(units) = K /\ DOMAIN units = 1..K
         /\ \A i \in 1..K : /\ units[i].account = lines[i].account
                            /\ units[i].debit \in Int /\ units[i].credit \in Int
                            /\ Signed(lines[i]) \in Int /\ Signed(units[i]) \in Int
                            /\ 10 * Signed(units[i]) - Signed(lines[i]) \in -5..5
<1>1. K \in Nat /\ DOMAIN lines = 1..K /\ \A i \in 1..K : IsLine(lines[i])
  BY DEF AreLines
<1>2. DOMAIN units = 1..K /\ \A i \in 1..K :
        units[i] = [account |-> lines[i].account, debit |-> Units(lines[i].debit), credit |-> Units(lines[i].credit)]
  BY <1>1 DEF InUnits
<1>3. units = [i \in 1..K |-> units[i]]
  BY <1>1 DEF InUnits
<1>4. units \in Seq({units[i] : i \in 1..K}) /\ Len(units) = K
  <2> DEFINE T == {units[i] : i \in 1..K}
  <2>1. \A i \in 1..K : units[i] \in T
    OBVIOUS
  <2>2. units \in [1..K -> T]
    BY <1>3, <2>1
  <2> HIDE DEF T
  <2>3. units \in Seq(T) /\ Len(units) = K
    BY <1>1, <2>2
  <2> QED BY <2>3 DEF T
<1>5. ASSUME NEW i \in 1..K
      PROVE  /\ units[i].account = lines[i].account
             /\ units[i].debit \in Int /\ units[i].credit \in Int
             /\ Signed(lines[i]) \in Int /\ Signed(units[i]) \in Int
             /\ 10 * Signed(units[i]) - Signed(lines[i]) \in -5..5
  <2>1. IsLine(lines[i]) /\ units[i] =
          [account |-> lines[i].account, debit |-> Units(lines[i].debit), credit |-> Units(lines[i].credit)]
    BY <1>1, <1>2
  <2>2. lines[i].debit \in Int /\ lines[i].credit \in Int
    BY <2>1 DEF IsLine, Debit, Credit
  <2>3. Units(lines[i].debit) \in Int /\ Units(lines[i].credit) \in Int
    BY <2>2, UnitsNear
  <2>4. /\ Signed(lines[i]) \in Int /\ Signed(units[i]) \in Int
        /\ 10 * Signed(units[i]) - Signed(lines[i]) \in -5..5
    BY <2>1, LineRounds
  <2> QED BY <2>1, <2>3, <2>4
<1> QED BY <1>2, <1>4, <1>5

(* An entry says of an account what its document says, to half a unit for  *)
(* each of up to three lines: what the rounding of the lines moved between *)
(* the sides is either outside the account or makes up for the other lines *)
(* only.                                                                   *)
LEMMA EntryWithin ==
  ASSUME NEW K, NEW lines, AreLines(lines, K), NEW account, account # "rounding",
         \E i \in 1..K : lines[i].account # account
  PROVE  /\ OnAccount(Rounded(lines), account) \in Int /\ OnAccount(lines, account) \in Int
         /\ 10 * OnAccount(Rounded(lines), account) - OnAccount(lines, account) \in -15..15
<1> DEFINE units == InUnits(lines)
           D == 1..K
           S == On(units, account)
           f == [i \in D |-> Signed(lines[i])]
           u == [i \in D |-> Signed(units[i])]
           e == [i \in D |-> 10 * u[i] - f[i]]
           n == Residual(units)
           even == Evened(lines)
<1>1. /\ K \in 2..4 /\ DOMAIN lines = D /\ DOMAIN units = D /\ Len(units) = K
      /\ \E T : units \in Seq(T)
      /\ \A i \in D : /\ units[i].account = lines[i].account
                      /\ units[i].debit \in Int /\ units[i].credit \in Int
                      /\ Signed(lines[i]) \in Int /\ Signed(units[i]) \in Int
                      /\ 10 * Signed(units[i]) - Signed(lines[i]) \in -5..5
  BY LinesInUnits DEF AreLines
<1>2. \A i \in D : f[i] = Signed(lines[i]) /\ u[i] = Signed(units[i]) /\ f[i] \in Int /\ u[i] \in Int /\ e[i] \in -5..5
                   /\ e[i] = 10 * u[i] - f[i]
  BY <1>1
<1>3. IsFiniteSet(D) /\ Cardinality(D) = K
  BY <1>1, FS_Interval
<1>4. S \in SUBSET D /\ S # D /\ On(lines, account) = S
  BY <1>1 DEF On
<1> HIDE DEF f, u, e, D, S, units
<1>5. IsFiniteSet(S) /\ IsFiniteSet(D \ S) /\ Cardinality(S) \in Nat /\ Cardinality(D \ S) \in Nat
  BY <1>3, <1>4, FS_Subset, FS_CardinalityType
<1>6. Cardinality(S) <= 3 /\ (S # {} => Cardinality(D \ S) <= 3)
  <2>1. \A T \in SUBSET D : T # D => Cardinality(T) <= 3
    <3> SUFFICES ASSUME NEW T \in SUBSET D, T # D PROVE Cardinality(T) <= 3
      OBVIOUS
    <3>1. Cardinality(T) \in Nat /\ Cardinality(T) <= Cardinality(D) /\ Cardinality(T) # Cardinality(D)
      BY <1>3, FS_Subset, FS_CardinalityType
    <3> QED BY <1>1, <1>3, <3>1
  <2>2. S # {} => D \ S # D
    BY <1>4
  <2> QED BY <1>4, <2>1, <2>2
<1>7. \A T \in SUBSET D : /\ SumFunctionOnSet(f, T) \in Int /\ SumFunctionOnSet(u, T) \in Int
                          /\ SumFunctionOnSet(e, T) = 10 * SumFunctionOnSet(u, T) - SumFunctionOnSet(f, T)
  <2> SUFFICES ASSUME NEW T \in SUBSET D
               PROVE  /\ SumFunctionOnSet(f, T) \in Int /\ SumFunctionOnSet(u, T) \in Int
                      /\ SumFunctionOnSet(e, T) = 10 * SumFunctionOnSet(u, T) - SumFunctionOnSet(f, T)
    OBVIOUS
  <2> DEFINE t == [i \in D |-> 10 * u[i]]
  <2>1. IsFiniteSet(T)
    BY <1>3, FS_Subset
  <2>2. \A i \in T : u[i] \in Int /\ t[i] = 10 * u[i]
    BY <1>2
  <2>3. \A i \in T : t[i] \in Int /\ f[i] \in Int /\ e[i] = t[i] - f[i]
    <3> SUFFICES ASSUME NEW i \in T PROVE t[i] \in Int /\ f[i] \in Int /\ e[i] = t[i] - f[i]
      OBVIOUS
    <3>1. f[i] \in Int /\ u[i] \in Int /\ e[i] = 10 * u[i] - f[i] /\ t[i] = 10 * u[i]
      BY <1>2
    <3> HIDE DEF t
    <3> QED BY <3>1
  <2> HIDE DEF t
  <2>4. SumFunctionOnSet(t, T) = 10 * SumFunctionOnSet(u, T)
    BY <2>1, <2>2, SumTenfold
  <2>5. SumFunctionOnSet(e, T) = SumFunctionOnSet(t, T) - SumFunctionOnSet(f, T)
    BY <2>1, <2>3, SumMinus
  <2>6. SumFunctionOnSet(f, T) \in Int /\ SumFunctionOnSet(u, T) \in Int
    BY <2>1, <2>2, <2>3, SumInt
  <2> QED BY <2>4, <2>5, <2>6
<1>8. n = SumFunctionOnSet(u, D) /\ SumFunctionOnSet(f, D) = 0
  <2>1. Residual(units) = SumFunctionOnSet(u, D)
    BY <1>1, <1>2, <1>3, ResidualIsSum
  <2>2. Residual(lines) = SumFunctionOnSet(f, D)
    BY <1>1, <1>2, <1>3, ResidualIsSum
  <2> QED BY <2>1, <2>2 DEF AreLines
<1>9. n \in Int /\ SumFunctionOnSet(e, D) = 10 * n
  BY <1>7, <1>8
<1> HIDE DEF n
<1>10. OnAccount(lines, account) = SumFunctionOnSet(f, S)
  BY <1>1, <1>2, <1>3, <1>4, OnAccountIsSum
<1>11. /\ SumFunctionOnSet(e, S) \in -15..15
       /\ S # {} => SumFunctionOnSet(e, S) - SumFunctionOnSet(e, D) \in -15..15
  <2>1. ASSUME NEW T \in SUBSET D, Cardinality(T) <= 3 PROVE SumFunctionOnSet(e, T) \in -15..15
    <3>1. IsFiniteSet(T) /\ \A i \in T : e[i] \in -5..5
      BY <1>2, <1>3, FS_Subset
    <3>2. /\ SumFunctionOnSet(e, T) \in Int /\ Cardinality(T) \in Nat
          /\ SumFunctionOnSet(e, T) <= 5 * Cardinality(T)
          /\ -5 * Cardinality(T) <= SumFunctionOnSet(e, T)
      BY <3>1, SumOfFives
    <3> QED BY <2>1, <3>2
  <2>2. SumFunctionOnSet(e, S \cup (D \ S)) = SumFunctionOnSet(e, S) + SumFunctionOnSet(e, D \ S)
    <3>1. \A i \in S \cup (D \ S) : e[i] \in Int
      <4>1. \A i \in D : e[i] \in Int
        <5> SUFFICES ASSUME NEW i \in D PROVE e[i] \in Int
          OBVIOUS
        <5>1. e[i] \in -5..5
          BY <1>2
        <5> QED BY <5>1
      <4> QED BY <1>4, <4>1
    <3>2. S \cap (D \ S) = {}
      OBVIOUS
    <3> QED BY <1>5, <3>1, <3>2, SumDisjoint
  <2>3. S \cup (D \ S) = D
    BY <1>4
  <2>4. SumFunctionOnSet(e, D) = SumFunctionOnSet(e, S) + SumFunctionOnSet(e, D \ S)
    BY <2>2, <2>3
  <2>5. SumFunctionOnSet(e, S) \in -15..15
    BY <1>4, <1>6, <2>1
  <2>6. S # {} => SumFunctionOnSet(e, D \ S) \in -15..15
    BY <1>6, <2>1
  <2> QED BY <2>4, <2>5, <2>6
<1>12. /\ IsFiniteSet(DOMAIN even) /\ \A i \in DOMAIN even : Signed(even[i]) \in Int
       /\ On(even, account) = S
       /\ \/ \A i \in S : Signed(even[i]) = u[i]
          \/ \E k \in S : Signed(even[k]) = u[k] - n /\ \A i \in S \ {k} : Signed(even[i]) = u[i]
  <2>1. CASE n = 0
    <3>1. even = units
      BY <2>1 DEF Evened, n, units
    <3> QED BY <1>1, <1>2, <1>3, <1>4, <3>1 DEF S
  <2>2. CASE n # 0
    <3>1. PICK T : units \in Seq(T)
      BY <1>1
    <3>2. EvenedAs(even, units, account, n)
      <4>1. K \in Nat \ {0} /\ n \in Int \ {0} /\ n = Residual(units) /\ units = InUnits(lines)
            /\ \A i \in 1..K : units[i].debit \in Int /\ units[i].credit \in Int
        BY <1>1, <1>9, <2>2 DEF n, D, units
      <4>2. even = Evened(lines) /\ Len(units) = K
        BY <1>1
      <4> HIDE DEF even
      <4> QED BY <3>1, <4>1, <4>2, EvenedLines
    <3> QED BY <1>2, <1>4, <3>2 DEF S, EvenedAs
  <2> QED BY <2>1, <2>2
<1> HIDE DEF even
<1>13. OnAccount(even, account) \in Int /\ 10 * OnAccount(even, account) - SumFunctionOnSet(f, S) \in -15..15
  <2> DEFINE v == [i \in S |-> Signed(even[i])]
  <2>1. OnAccount(even, account) = SumFunctionOnSet(v, S)
    <3>1. \A i \in On(even, account) : v[i] = Signed(even[i])
      BY <1>12
    <3> HIDE DEF v
    <3>2. OnAccount(even, account) = SumFunctionOnSet(v, On(even, account))
      BY <1>12, <3>1, OnAccountIsSum
    <3> QED BY <1>12, <3>2
  <2>2. SumFunctionOnSet(u, S) \in Int /\ SumFunctionOnSet(f, S) \in Int
        /\ SumFunctionOnSet(e, S) = 10 * SumFunctionOnSet(u, S) - SumFunctionOnSet(f, S)
    BY <1>4, <1>7
  <2>3. CASE \A i \in S : Signed(even[i]) = u[i]
    <3>1. \A i \in S : v[i] = u[i]
      BY <2>3
    <3> HIDE DEF v
    <3>2. SumFunctionOnSet(v, S) = SumFunctionOnSet(u, S)
      BY <1>5, <3>1, SumSame
    <3> QED BY <1>11, <2>1, <2>2, <3>2
  <2>4. CASE \E k \in S : Signed(even[k]) = u[k] - n /\ \A i \in S \ {k} : Signed(even[i]) = u[i]
    <3>1. PICK k \in S : Signed(even[k]) = u[k] - n /\ \A i \in S \ {k} : Signed(even[i]) = u[i]
      BY <2>4
    <3>2. v[k] = u[k] - n /\ u[k] \in Int /\ v[k] \in Int /\ (\A i \in S \ {k} : v[i] = u[i]) /\ \A i \in S : u[i] \in Int
      BY <1>2, <1>4, <1>9, <3>1
    <3> HIDE DEF v
    <3>3. SumFunctionOnSet(v, S) = SumFunctionOnSet(u, S) - u[k] + v[k]
      BY <1>5, <3>2, SumChange
    <3>4. SumFunctionOnSet(v, S) = SumFunctionOnSet(u, S) - n
      BY <1>9, <2>2, <3>2, <3>3
    <3>5. SumFunctionOnSet(e, S) - SumFunctionOnSet(e, D) \in -15..15
      BY <1>11
    <3> QED BY <1>9, <2>1, <2>2, <3>4, <3>5
  <2> QED BY <1>12, <2>3, <2>4
<1>14. OnAccount(Rounded(lines), account) = OnAccount(even, account)
  <2>1. Rounded(lines) = Restrict(even, {i \in DOMAIN even : even[i].debit # 0 \/ even[i].credit # 0})
    BY DEF Rounded, even
  <2> QED BY <1>12, <2>1, DroppedLines
<1>15. SumFunctionOnSet(f, S) \in Int
  BY <1>4, <1>7
<1> QED BY <1>10, <1>13, <1>14, <1>15

-----------------------------------------------------------------------------
(* What up to four lines move an account by, and what they leave over.     *)
LEMMA OnAccountOfFour ==
  ASSUME NEW K \in 2..4, NEW lines, DOMAIN lines = 1..K, \A i \in 1..K : Signed(lines[i]) \in Int, NEW z
  PROVE  /\ K = 2 => /\ OnAccount(lines, z) = Moving(lines[1], z) + Moving(lines[2], z)
                     /\ Residual(lines) = Signed(lines[1]) + Signed(lines[2])
         /\ K = 3 => /\ OnAccount(lines, z) = Moving(lines[1], z) + Moving(lines[2], z) + Moving(lines[3], z)
                     /\ Residual(lines) = Signed(lines[1]) + Signed(lines[2]) + Signed(lines[3])
         /\ K = 4 => /\ OnAccount(lines, z) =
                          Moving(lines[1], z) + Moving(lines[2], z) + Moving(lines[3], z) + Moving(lines[4], z)
                     /\ Residual(lines) =
                          Signed(lines[1]) + Signed(lines[2]) + Signed(lines[3]) + Signed(lines[4])
<1> DEFINE f == [i \in 1..K |-> Moving(lines[i], z)]
           g == [i \in 1..K |-> Signed(lines[i])]
           S == On(lines, z)
<1>1. IsFiniteSet(1..K)
  BY FS_Interval
<1>2. \A i \in 1..K : f[i] = Moving(lines[i], z) /\ f[i] \in Int /\ g[i] = Signed(lines[i]) /\ g[i] \in Int
  BY DEF Moving
<1>3. S \in SUBSET (1..K) /\ (\A i \in S : f[i] = Signed(lines[i])) /\ \A i \in (1..K) \ S : f[i] = 0
  BY DEF On, Moving
<1> HIDE DEF f, g, S
<1>4. OnAccount(lines, z) = SumFunctionOnSet(f, 1..K)
  <2>1. OnAccount(lines, z) = SumFunctionOnSet(f, S)
    BY <1>1, <1>3, OnAccountIsSum DEF S
  <2>2. \A i \in S : f[i] \in Int
    BY <1>2, <1>3
  <2>3. SumFunctionOnSet(f, 1..K) = SumFunctionOnSet(f, S)
    BY <1>1, <1>3, <2>2, SumSupport
  <2> QED BY <2>1, <2>3
<1>5. Residual(lines) = SumFunctionOnSet(g, 1..K)
  BY <1>1, <1>2, ResidualIsSum
<1>6. SumFunctionOnSet(f, 1..K) =
        f[1] + (IF K >= 2 THEN f[2] ELSE 0) + (IF K >= 3 THEN f[3] ELSE 0) + (IF K = 4 THEN f[4] ELSE 0)
  <2>1. K \in 1..4 /\ \A i \in 1..K : f[i] \in Int
    BY <1>2
  <2> QED BY <2>1, SumOfFour
<1>7. SumFunctionOnSet(g, 1..K) =
        g[1] + (IF K >= 2 THEN g[2] ELSE 0) + (IF K >= 3 THEN g[3] ELSE 0) + (IF K = 4 THEN g[4] ELSE 0)
  <2>1. K \in 1..4 /\ \A i \in 1..K : g[i] \in Int
    BY <1>2
  <2> QED BY <2>1, SumOfFour
<1>8. CASE K = 2
  <2>1. f[1] = Moving(lines[1], z) /\ f[2] = Moving(lines[2], z) /\ f[1] \in Int /\ f[2] \in Int
    BY <1>2, <1>8
  <2>2. g[1] = Signed(lines[1]) /\ g[2] = Signed(lines[2]) /\ g[1] \in Int /\ g[2] \in Int
    BY <1>2, <1>8
  <2> QED BY <1>4, <1>5, <1>6, <1>7, <1>8, <2>1, <2>2
<1>9. CASE K = 3
  <2>1. /\ f[1] = Moving(lines[1], z) /\ f[2] = Moving(lines[2], z) /\ f[3] = Moving(lines[3], z)
        /\ f[1] \in Int /\ f[2] \in Int /\ f[3] \in Int
    BY <1>2, <1>9
  <2>2. /\ g[1] = Signed(lines[1]) /\ g[2] = Signed(lines[2]) /\ g[3] = Signed(lines[3])
        /\ g[1] \in Int /\ g[2] \in Int /\ g[3] \in Int
    BY <1>2, <1>9
  <2> QED BY <1>4, <1>5, <1>6, <1>7, <1>9, <2>1, <2>2
<1>10. CASE K = 4
  <2>1. /\ f[1] = Moving(lines[1], z) /\ f[2] = Moving(lines[2], z) /\ f[3] = Moving(lines[3], z)
        /\ f[4] = Moving(lines[4], z)
        /\ f[1] \in Int /\ f[2] \in Int /\ f[3] \in Int /\ f[4] \in Int
    BY <1>2, <1>10
  <2>2. /\ g[1] = Signed(lines[1]) /\ g[2] = Signed(lines[2]) /\ g[3] = Signed(lines[3])
        /\ g[4] = Signed(lines[4])
        /\ g[1] \in Int /\ g[2] \in Int /\ g[3] \in Int /\ g[4] \in Int
    BY <1>2, <1>10
  <2> QED BY <1>4, <1>5, <1>6, <1>7, <1>10, <2>1, <2>2
<1> QED BY <1>8, <1>9, <1>10

(* A line of a document moves one account by its amount.                   *)
LEMMA LineMoves ==
  ASSUME NEW account, NEW n \in Int
  PROVE  /\ IsLine(Debit(account, n)) /\ Signed(Debit(account, n)) = n /\ Debit(account, n).account = account
         /\ IsLine(Credit(account, n)) /\ Signed(Credit(account, n)) = -n /\ Credit(account, n).account = account
         /\ \A z : /\ Moving(Debit(account, n), z) = IF z = account THEN n ELSE 0
                   /\ Moving(Credit(account, n), z) = IF z = account THEN -n ELSE 0
<1>1. Signed(Debit(account, n)) = n /\ Signed(Credit(account, n)) = -n
  BY DEF Signed, Debit, Credit
<1>2. Debit(account, n).account = account /\ Credit(account, n).account = account
  BY DEF Debit, Credit
<1>3. IsLine(Debit(account, n)) /\ IsLine(Credit(account, n))
  BY DEF IsLine
<1> QED BY <1>1, <1>2, <1>3 DEF Moving

\* The lines of an entry, one by one.
AreTwo(lines, a, b) == lines = <<a, b>>
AreThree(lines, a, b, c) == lines = <<a, b, c>>
AreFour(lines, a, b, c, d) == lines = <<a, b, c, d>>

\* What two or three lines move an account by, and what four that balance do.
TwoMove(lines, a, b) == \A z : OnAccount(lines, z) = Moving(a, z) + Moving(b, z)
ThreeMove(lines, a, b, c) == \A z : OnAccount(lines, z) = Moving(a, z) + Moving(b, z) + Moving(c, z)
FourBalance(a, b, c, d) == Signed(a) + Signed(b) + Signed(c) + Signed(d) = 0

(* A balanced entry of so many lines moves an account by what they say.    *)
LEMMA LinesOfTwo ==
  ASSUME NEW a, NEW b, IsLine(a), IsLine(b), NEW lines, AreTwo(lines, a, b), Residual(lines) = 0
  PROVE  /\ AreLines(lines, 2) /\ Signed(a) \in Int /\ Signed(b) \in Int /\ Signed(a) + Signed(b) = 0
         /\ lines[1] = a /\ lines[2] = b
         /\ TwoMove(lines, a, b)
<1>1. /\ DOMAIN lines = 1..2 /\ Len(lines) = 2 /\ lines[1] = a /\ lines[2] = b /\ lines \in Seq({a, b})
      /\ \A i \in 1..2 : i = 1 \/ i = 2
  BY DEF AreTwo
<1>2. \A i \in 1..2 : IsLine(lines[i])
  BY <1>1
<1>3. Signed(a) \in Int /\ Signed(b) \in Int
  BY LineRounds
<1>4. \A i \in 1..2 : Signed(lines[i]) \in Int
  BY <1>1, <1>3
<1>5. /\ \A z : OnAccount(lines, z) = Moving(a, z) + Moving(b, z)
      /\ Residual(lines) = Signed(a) + Signed(b)
  <2> SUFFICES ASSUME NEW z
               PROVE  OnAccount(lines, z) = Moving(a, z) + Moving(b, z) /\ Residual(lines) = Signed(a) + Signed(b)
    OBVIOUS
  <2>1. Moving(a, z) \in Int /\ Moving(b, z) \in Int
    BY <1>3 DEF Moving
  <2>2. PICK k \in 2..4 : k = 2
    OBVIOUS
  <2>3. DOMAIN lines = 1..k /\ \A i \in 1..k : Signed(lines[i]) \in Int
    BY <1>1, <1>4, <2>2
  <2>4. /\ OnAccount(lines, z) = Moving(lines[1], z) + Moving(lines[2], z)
        /\ Residual(lines) = Signed(lines[1]) + Signed(lines[2])
    BY <2>2, <2>3, OnAccountOfFour
  <2>5. /\ Moving(lines[1], z) = Moving(a, z) /\ Moving(lines[2], z) = Moving(b, z)
        /\ Signed(lines[1]) = Signed(a) /\ Signed(lines[2]) = Signed(b)
    BY <1>1
  <2> QED BY <2>4, <2>5
<1>6. AreLines(lines, 2)
  <2>1. \E S : lines \in Seq(S)
    BY <1>1
  <2>2. DOMAIN lines = 1..2 /\ Len(lines) = 2 /\ (\A i \in 1..2 : IsLine(lines[i])) /\ 2 \in 2..4
    BY <1>1, <1>2
  <2> QED BY <2>1, <2>2 DEF AreLines
<1>7. Signed(a) + Signed(b) = 0
  BY <1>5
<1> QED BY <1>1, <1>3, <1>5, <1>6, <1>7 DEF TwoMove

(* The same of three lines.                                                *)
LEMMA LinesOfThree ==
  ASSUME NEW a, NEW b, NEW c, IsLine(a), IsLine(b), IsLine(c),
         NEW lines, AreThree(lines, a, b, c), Residual(lines) = 0
  PROVE  /\ AreLines(lines, 3) /\ Signed(a) \in Int /\ Signed(b) \in Int /\ Signed(c) \in Int
         /\ Signed(a) + Signed(b) + Signed(c) = 0
         /\ lines[1] = a /\ lines[2] = b /\ lines[3] = c
         /\ ThreeMove(lines, a, b, c)
<1>1. /\ DOMAIN lines = 1..3 /\ Len(lines) = 3 /\ lines[1] = a /\ lines[2] = b /\ lines[3] = c
      /\ lines \in Seq({a, b, c})
      /\ \A i \in 1..3 : i = 1 \/ i = 2 \/ i = 3
  BY DEF AreThree
<1>2. \A i \in 1..3 : IsLine(lines[i])
  BY <1>1
<1>3. Signed(a) \in Int /\ Signed(b) \in Int /\ Signed(c) \in Int
  BY LineRounds
<1>4. \A i \in 1..3 : Signed(lines[i]) \in Int
  BY <1>1, <1>3
<1>5. /\ \A z : OnAccount(lines, z) = Moving(a, z) + Moving(b, z) + Moving(c, z)
      /\ Residual(lines) = Signed(a) + Signed(b) + Signed(c)
  <2> SUFFICES ASSUME NEW z
               PROVE  /\ OnAccount(lines, z) = Moving(a, z) + Moving(b, z) + Moving(c, z)
                      /\ Residual(lines) = Signed(a) + Signed(b) + Signed(c)
    OBVIOUS
  <2>1. PICK k \in 2..4 : k = 3
    OBVIOUS
  <2>2. DOMAIN lines = 1..k /\ \A i \in 1..k : Signed(lines[i]) \in Int
    BY <1>1, <1>4, <2>1
  <2>3. /\ OnAccount(lines, z) = Moving(lines[1], z) + Moving(lines[2], z) + Moving(lines[3], z)
        /\ Residual(lines) = Signed(lines[1]) + Signed(lines[2]) + Signed(lines[3])
    BY <2>1, <2>2, OnAccountOfFour
  <2> QED BY <1>1, <2>3
<1>6. AreLines(lines, 3)
  <2>1. \E S : lines \in Seq(S)
    BY <1>1
  <2>2. DOMAIN lines = 1..3 /\ Len(lines) = 3 /\ (\A i \in 1..3 : IsLine(lines[i])) /\ 3 \in 2..4
    BY <1>1, <1>2
  <2> QED BY <2>1, <2>2 DEF AreLines
<1>7. Signed(a) + Signed(b) + Signed(c) = 0
  BY <1>5
<1> QED BY <1>1, <1>3, <1>5, <1>6, <1>7 DEF ThreeMove

(* Four lines of a balanced entry.                                         *)
LEMMA LinesOfFour ==
  ASSUME NEW a, NEW b, NEW c, NEW d, IsLine(a), IsLine(b), IsLine(c), IsLine(d),
         NEW lines, AreFour(lines, a, b, c, d), Residual(lines) = 0
  PROVE  FourBalance(a, b, c, d)
<1>1. /\ DOMAIN lines = 1..4 /\ lines[1] = a /\ lines[2] = b /\ lines[3] = c /\ lines[4] = d
      /\ \A i \in 1..4 : i = 1 \/ i = 2 \/ i = 3 \/ i = 4
  BY DEF AreFour
<1>2. Signed(a) \in Int /\ Signed(b) \in Int /\ Signed(c) \in Int /\ Signed(d) \in Int
  BY LineRounds
<1>3. \A i \in 1..4 : Signed(lines[i]) \in Int
  BY <1>1, <1>2
<1>4. PICK k \in 2..4 : k = 4
  OBVIOUS
<1>5. DOMAIN lines = 1..k /\ \A i \in 1..k : Signed(lines[i]) \in Int
  BY <1>1, <1>3, <1>4
<1>6. Residual(lines) = Signed(lines[1]) + Signed(lines[2]) + Signed(lines[3]) + Signed(lines[4])
  BY <1>4, <1>5, OnAccountOfFour
<1> QED BY <1>1, <1>6 DEF FourBalance

(* Two lines of one amount are rounded alike: nothing is left to even out. *)
LEMMA RoundedPair ==
  ASSUME NEW x, NEW y, x # y, NEW n \in Int, NEW lines,
         lines = <<Debit(x, n), Credit(y, n)>> \/ lines = <<Credit(y, n), Debit(x, n)>>, NEW z
  PROVE  /\ OnAccount(Rounded(lines), z) = (IF z = x THEN Units(n) ELSE IF z = y THEN -Units(n) ELSE 0)
         /\ OnAccount(Rounded(lines), z) \in Int
<1> DEFINE units == InUnits(lines)
           even == Evened(lines)
<1>1. Units(n) \in Int /\ Units(0) = 0
  BY UnitsNear DEF Units
<1>2. DOMAIN units = 1..2 /\ lines[1].account # lines[2].account /\ units =
        [i \in 1..2 |->
           [account |-> lines[i].account, debit |-> Units(lines[i].debit), credit |-> Units(lines[i].credit)]]
  BY DEF InUnits, Debit, Credit
<1> HIDE DEF units
<1>3. \/ units[1] = Debit(x, Units(n)) /\ units[2] = Credit(y, Units(n))
      \/ units[1] = Credit(y, Units(n)) /\ units[2] = Debit(x, Units(n))
  <2>1. CASE lines = <<Debit(x, n), Credit(y, n)>>
    BY <1>1, <1>2, <2>1 DEF Debit, Credit
  <2>2. CASE lines = <<Credit(y, n), Debit(x, n)>>
    BY <1>1, <1>2, <2>2 DEF Debit, Credit
  <2> QED BY <2>1, <2>2
<1>4. /\ Signed(Debit(x, Units(n))) = Units(n) /\ Signed(Credit(y, Units(n))) = -Units(n)
      /\ Moving(Debit(x, Units(n)), z) = (IF z = x THEN Units(n) ELSE 0)
      /\ Moving(Credit(y, Units(n)), z) = (IF z = y THEN -Units(n) ELSE 0)
  BY <1>1, LineMoves
<1>5. \A i \in DOMAIN units : Signed(units[i]) \in Int
  BY <1>1, <1>2, <1>3, <1>4
<1>6. /\ OnAccount(units, z) = Moving(units[1], z) + Moving(units[2], z)
      /\ Residual(units) = Signed(units[1]) + Signed(units[2])
  <2>1. PICK k \in 2..4 : k = 2
    OBVIOUS
  <2>2. DOMAIN units = 1..k /\ \A i \in 1..k : Signed(units[i]) \in Int
    BY <1>2, <1>5, <2>1
  <2> QED BY <2>1, <2>2, OnAccountOfFour
<1>7. Residual(units) = 0
  BY <1>1, <1>3, <1>4, <1>6
<1>8. OnAccount(units, z) = (IF z = x THEN Units(n) ELSE IF z = y THEN -Units(n) ELSE 0)
  BY <1>1, <1>3, <1>4, <1>6
<1>9. Evened(lines) = units
  BY <1>7 DEF Evened, units
<1>10. OnAccount(Rounded(lines), z) = OnAccount(units, z)
  <2>0. /\ Rounded(lines) = Restrict(even, {i \in DOMAIN even : even[i].debit # 0 \/ even[i].credit # 0})
        /\ even = units
    BY <1>9 DEF Rounded
  <2> HIDE DEF even
  <2>1. Rounded(lines) = Restrict(units, {i \in DOMAIN units : units[i].debit # 0 \/ units[i].credit # 0})
    BY <2>0
  <2>2. IsFiniteSet(DOMAIN units)
    <3>1. PICK k \in Int : k = 2
      OBVIOUS
    <3>2. IsFiniteSet(1..k)
      BY FS_Interval
    <3> QED BY <1>2, <3>1, <3>2
  <2> QED BY <1>5, <2>1, <2>2, DroppedLines
<1> QED BY <1>1, <1>8, <1>10

-----------------------------------------------------------------------------
(* What a journal j says of a source.                                      *)
EntriesIn(j, source) == {e \in j : e.source = source}
SumIn(j, source, account) == SumFunction([e \in EntriesIn(j, source) |-> OnAccount(e.lines, account)])
Absent(j, source) == EntriesIn(j, source) = {}
Tells(j, source, account, tenths) ==
  SumIn(j, source, account) \in Int /\ 10 * SumIn(j, source, account) - tenths \in -15..15

\* The journal k is j, but that the source has an entry with the lines given.
Adds(j, k, source, lines) ==
  /\ Absent(j, source) /\ ~Absent(k, source)
  /\ \A s : s # source => EntriesIn(k, s) = EntriesIn(j, s)
  /\ \A z : OnAccount(lines, z) \in Int => SumIn(k, source, z) = OnAccount(lines, z)

(* An accepted posting adds the first entry of its source; a refused one   *)
(* nothing.                                                                *)
LEMMA Posting ==
  ASSUME NEW ok, NEW source, NEW p, NEW lines, Posts(ok, source, p, lines)
  PROVE  /\ ~ok => journal' = journal
         /\ ok /\ Accepts(source, p, lines) => Adds(journal, journal', source, Rounded(lines))
<1>1. ~ok => journal' = journal
  BY DEF Posts
<1>2. ASSUME ok, Accepts(source, p, lines) PROVE Adds(journal, journal', source, Rounded(lines))
  <2> DEFINE new == [source |-> source, period |-> p, lines |-> Rounded(lines)]
  <2>1. journal' = journal \cup {new} /\ \A e \in journal : e.source # source
    BY <1>2 DEF Posts, Accepts
  <2>2. new.source = source /\ new.lines = Rounded(lines)
    OBVIOUS
  <2> HIDE DEF new
  <2>3. Absent(journal, source) /\ EntriesIn(journal', source) = {new}
    BY <2>1, <2>2 DEF Absent, EntriesIn
  <2>4. \A s : s # source => EntriesIn(journal', s) = EntriesIn(journal, s)
    BY <2>1, <2>2 DEF EntriesIn
  <2>5. ASSUME NEW z, OnAccount(Rounded(lines), z) \in Int
        PROVE  SumIn(journal', source, z) = OnAccount(Rounded(lines), z)
    <3> DEFINE f == [e \in {new} |-> OnAccount(e.lines, z)]
    <3>1. SumIn(journal', source, z) = SumFunctionOnSet(f, {new})
      BY <2>3 DEF SumIn, SumFunction
    <3>2. f[new] = OnAccount(Rounded(lines), z)
      BY <2>2
    <3> HIDE DEF f
    <3> QED BY <2>5, <3>1, <3>2, SumOne
  <2> QED BY <2>3, <2>4, <2>5 DEF Adds, Absent
<1> QED BY <1>1, <1>2

-----------------------------------------------------------------------------
(* The inductive invariant of the books: a document and the first entry of *)
(* its source are there together or not at all, and say the same.  What    *)
(* would be the source's second entry is refused, so no document is ever   *)
(* depreciated, disposed of or paid.  A company's rows are given as        *)
(* parameters, as are those of the journal j.                              *)
AssetTold(j, a, row) ==
  IF row = None THEN Absent(j, AssetSource(a))
  ELSE /\ ~Absent(j, AssetSource(a)) /\ row.status = "active" /\ row.depreciated = 0
       /\ Tells(j, AssetSource(a), "asset", row.cost) /\ Tells(j, AssetSource(a), "accumulated", 0)
AssetsTold(j, f) == DOMAIN f = Assets /\ \A a \in Assets : AssetTold(j, a, f[a])

PayrollTold(j, r, row) ==
  IF row = None THEN Absent(j, PayrollSource(r))
  ELSE /\ ~Absent(j, PayrollSource(r)) /\ row.status = "posted"
       /\ Tells(j, PayrollSource(r), "salaries", row.gross) /\ Tells(j, PayrollSource(r), "payable", -row.gross)
PayrollsTold(j, f) == DOMAIN f = Payrolls /\ \A r \in Payrolls : PayrollTold(j, r, f[r])

ExpenseTold(j, x, row) ==
  IF row = None THEN Absent(j, <<"expense", x>>)
  ELSE /\ Tells(j, <<"expense", x>>, "expense", SumFunction(row.items))
       /\ Tells(j, <<"expense", x>>, "cash", -(SumFunction(row.items) + row.tax))
ExpensesTold(j, f) == DOMAIN f = Expenses /\ \A x \in Expenses : ExpenseTold(j, x, f[x])

TransferTold(j, t, row) ==
  IF row = None THEN Absent(j, <<"account_transfer", t>>)
  ELSE /\ Tells(j, <<"account_transfer", t>>, "cash", -row.from)
       /\ Tells(j, <<"account_transfer", t>>, "bank", row.to)
TransfersTold(j, f) == DOMAIN f = AccountTransfers /\ \A t \in AccountTransfers : TransferTold(j, t, f[t])

\* A row with a payment k, the account beside the cash, and the reversal.
PaidTold(j, source, k, account, row) ==
  IF row = None THEN Absent(j, source) /\ Absent(j, ReversalSource(k))
  ELSE /\ row \in PaidRows
       /\ SumIn(j, source, account) = -Units(row.amount)
       /\ SumIn(j, source, "cash") = IF row.payment = None THEN 0 ELSE Units(row.amount)
       /\ IF row.payment = "reversed" THEN SumIn(j, ReversalSource(k), "cash") = -Units(row.amount)
          ELSE Absent(j, ReversalSource(k))
CardsTold(j, f) == DOMAIN f = GiftCards /\ \A g \in GiftCards :
  /\ PaidTold(j, <<"gift_card", g>>, g, "gift_cards", f[g])
  /\ f[g] # None => 10 * Units(f[g].amount) = f[g].amount
AdvancesTold(j, f) == DOMAIN f = Advances /\ \A a \in Advances : PaidTold(j, <<"payment", a>>, a, "advances", f[a])

SettlementTold(j, s) ==
  /\ ~Absent(j, <<"courier_cod_settlement", s.items>>)
  /\ Tells(j, <<"courier_cod_settlement", s.items>>, "cash", s.net)
  /\ Tells(j, <<"courier_cod_settlement", s.items>>, "clearing", s.fee - s.gross)
SettlementsTold(j, ss) == \A s \in ss : SettlementTold(j, s)

StatementRows ==
  [status : {"none", "in_progress", "has_variance", "reconciled"}, variance : Int, period : Periods \cup {None}]
StatementTold(j, st) ==
  /\ st \in StatementRows
  /\ IF st.status = "has_variance"
     THEN /\ ~Absent(j, StatementSource) /\ Size(st.variance) > 10
          /\ Tells(j, StatementSource, "bank", st.variance)
     ELSE Absent(j, StatementSource)

BookInv ==
  /\ AssetsTold(journal, asset) /\ PayrollsTold(journal, payroll) /\ ExpensesTold(journal, expense)
  /\ TransfersTold(journal, accountTransfer)
  /\ CardsTold(journal, giftCard) /\ AdvancesTold(journal, advance)
  /\ SettlementsTold(journal, settlements) /\ StatementTold(journal, statement)

(* What a journal says of a source is in the source's entries.             *)
LEMMA SameEntries ==
  ASSUME NEW j, NEW k, NEW source, EntriesIn(k, source) = EntriesIn(j, source)
  PROVE  /\ Absent(k, source) <=> Absent(j, source)
         /\ \A account : SumIn(k, source, account) = SumIn(j, source, account)
         /\ \A account, n : Tells(k, source, account, n) <=> Tells(j, source, account, n)
BY DEF Absent, SumIn, Tells

(* A source without entries has moved nothing.                             *)
LEMMA AbsentIsNothing ==
  ASSUME NEW j, NEW source, Absent(j, source)
  PROVE  \A account : SumIn(j, source, account) = 0
BY SumEmpty DEF Absent, SumIn, SumFunction

\* The journal k is j, but for the entries of the source.
OnlyAt(j, k, source) == \A s : s # source => EntriesIn(k, s) = EntriesIn(j, s)

(* Rows whose sources are not the one that got an entry are as before.     *)
LEMMA RowsKept ==
  ASSUME NEW j, NEW k, NEW source, OnlyAt(j, k, source)
  PROVE  /\ (\A a \in Assets : AssetSource(a) # source) => \A f : AssetsTold(j, f) => AssetsTold(k, f)
         /\ (\A r \in Payrolls : PayrollSource(r) # source) => \A f : PayrollsTold(j, f) => PayrollsTold(k, f)
         /\ (\A x \in Expenses : <<"expense", x>> # source) => \A f : ExpensesTold(j, f) => ExpensesTold(k, f)
         /\ (\A t \in AccountTransfers : <<"account_transfer", t>> # source) =>
              \A f : TransfersTold(j, f) => TransfersTold(k, f)
         /\ (\A g \in GiftCards : <<"gift_card", g>> # source /\ ReversalSource(g) # source) =>
              \A f : CardsTold(j, f) => CardsTold(k, f)
         /\ (\A a \in Advances : <<"payment", a>> # source /\ ReversalSource(a) # source) =>
              \A f : AdvancesTold(j, f) => AdvancesTold(k, f)
         /\ (\A items : <<"courier_cod_settlement", items>> # source) =>
              \A ss : SettlementsTold(j, ss) => SettlementsTold(k, ss)
         /\ StatementSource # source => \A st : StatementTold(j, st) => StatementTold(k, st)
<1>1. \A s : s # source =>
        /\ Absent(k, s) <=> Absent(j, s)
        /\ \A account : SumIn(k, s, account) = SumIn(j, s, account)
        /\ \A account, n : Tells(k, s, account, n) <=> Tells(j, s, account, n)
  BY SameEntries DEF OnlyAt
<1>2. (\A a \in Assets : AssetSource(a) # source) => \A f : AssetsTold(j, f) => AssetsTold(k, f)
  BY <1>1 DEF AssetsTold, AssetTold
<1>3. (\A r \in Payrolls : PayrollSource(r) # source) => \A f : PayrollsTold(j, f) => PayrollsTold(k, f)
  BY <1>1 DEF PayrollsTold, PayrollTold
<1>4. (\A x \in Expenses : <<"expense", x>> # source) => \A f : ExpensesTold(j, f) => ExpensesTold(k, f)
  BY <1>1 DEF ExpensesTold, ExpenseTold
<1>5. (\A t \in AccountTransfers : <<"account_transfer", t>> # source) =>
        \A f : TransfersTold(j, f) => TransfersTold(k, f)
  BY <1>1 DEF TransfersTold, TransferTold
<1>6. (\A g \in GiftCards : <<"gift_card", g>> # source /\ ReversalSource(g) # source) =>
        \A f : CardsTold(j, f) => CardsTold(k, f)
  BY <1>1 DEF CardsTold, PaidTold
<1>7. (\A a \in Advances : <<"payment", a>> # source /\ ReversalSource(a) # source) =>
        \A f : AdvancesTold(j, f) => AdvancesTold(k, f)
  BY <1>1 DEF AdvancesTold, PaidTold
<1>8. (\A items : <<"courier_cod_settlement", items>> # source) =>
        \A ss : SettlementsTold(j, ss) => SettlementsTold(k, ss)
  BY <1>1 DEF SettlementsTold, SettlementTold
<1>9. StatementSource # source => \A st : StatementTold(j, st) => StatementTold(k, st)
  BY <1>1 DEF StatementTold
<1> QED BY <1>2, <1>3, <1>4, <1>5, <1>6, <1>7, <1>8, <1>9

(* The books agree: what is wanted of them follows from the invariant.     *)
LEMMA BooksAgreeWithDocuments == BookInv => BooksFollowDocuments
<1> SUFFICES ASSUME BookInv PROVE BooksFollowDocuments
  OBVIOUS
<1>1. \A source : EntriesOf(source) = EntriesIn(journal, source)
      /\ \A account : Booked(source, account) = SumIn(journal, source, account)
  BY DEF EntriesOf, EntriesIn, Booked, SumIn
<1>2. \A source, account : \A n : Tells(journal, source, account, n) => Says(source, account, n)
  BY <1>1 DEF Tells, Says, Size
<1>3. \A source : Absent(journal, source) =>
        EntriesOf(source) = {} /\ (\A account : Booked(source, account) = 0) /\ \A account : Says(source, account, 0)
  BY <1>1, AbsentIsNothing DEF Absent, Says, Size
<1>4. \A a \in Assets : AssetIsBooked(a)
  <2> SUFFICES ASSUME NEW a \in Assets PROVE AssetIsBooked(a)
    OBVIOUS
  <2>1. AssetTold(journal, a, asset[a])
    BY DEF BookInv, AssetsTold
  <2> QED BY <1>2, <1>3, <2>1 DEF AssetTold, AssetIsBooked
<1>5. \A r \in Payrolls : PayrollIsBooked(r)
  BY <1>2, <1>3 DEF BookInv, PayrollsTold, PayrollTold, PayrollIsBooked
<1>6. \A x \in Expenses : ExpenseIsBooked(x)
  BY <1>2, <1>3 DEF BookInv, ExpensesTold, ExpenseTold, ExpenseIsBooked
<1>7. \A t \in AccountTransfers : TransferIsBooked(t)
  BY <1>2, <1>3 DEF BookInv, TransfersTold, TransferTold, TransferIsBooked
<1>8. \A g \in GiftCards : CardIsBooked(g)
  <2> SUFFICES ASSUME NEW g \in GiftCards PROVE CardIsBooked(g)
    OBVIOUS
  <2> DEFINE row == giftCard[g]
             source == <<"gift_card", g>>
  <2>1. PaidTold(journal, source, g, "gift_cards", row) /\ (row # None => 10 * Units(row.amount) = row.amount)
    BY DEF BookInv, CardsTold
  <2>2. CASE row = None
    BY <1>3, <2>1, <2>2 DEF PaidTold, CardIsBooked
  <2>3. CASE row # None
    <3>1. /\ row \in PaidRows /\ row.amount \in Int /\ Units(row.amount) \in Int
          /\ 10 * Units(row.amount) = row.amount
          /\ Booked(source, "gift_cards") = -Units(row.amount)
          /\ Booked(source, "cash") = IF row.payment = None THEN 0 ELSE Units(row.amount)
      BY <1>1, <2>1, <2>3, UnitsNear DEF PaidTold, PaidRows
    <3>2. Booked(ReversalSource(g), "cash") = IF row.payment = "reversed" THEN -Units(row.amount) ELSE 0
      BY <1>1, <1>3, <2>1, <2>3 DEF PaidTold
    <3>3. row.payment \in {"posted", "reversed", None} /\ None \notin {"posted", "reversed"}
      BY <3>1, InstrumentsAssumption DEF PaidRows
    <3>4. 10 * CashOf(source, g) = IF row.payment = "posted" THEN row.amount ELSE 0
      BY <3>1, <3>2, <3>3 DEF CashOf
    <3>5. 10 * Booked(source, "gift_cards") = -row.amount
      BY <3>1
    <3> QED BY <2>3, <3>4, <3>5 DEF CardIsBooked
  <2> QED BY <2>2, <2>3
<1>9. \A a \in Advances : AdvanceIsBooked(a)
  <2> SUFFICES ASSUME NEW a \in Advances PROVE AdvanceIsBooked(a)
    OBVIOUS
  <2> DEFINE row == advance[a]
             source == <<"payment", a>>
  <2>1. PaidTold(journal, source, a, "advances", row)
    BY DEF BookInv, AdvancesTold
  <2>2. CASE row = None
    BY <1>3, <2>1, <2>2 DEF PaidTold, AdvanceIsBooked
  <2>3. CASE row # None
    <3>1. /\ row \in PaidRows /\ row.amount \in Int /\ Units(row.amount) \in Int
          /\ Booked(source, "cash") = IF row.payment = None THEN 0 ELSE Units(row.amount)
      BY <1>1, <2>1, <2>3, UnitsNear DEF PaidTold, PaidRows
    <3>2. Booked(ReversalSource(a), "cash") = IF row.payment = "reversed" THEN -Units(row.amount) ELSE 0
      BY <1>1, <1>3, <2>1, <2>3 DEF PaidTold
    <3>3. row.payment \in {"posted", "reversed", None} /\ None \notin {"posted", "reversed"}
      BY <3>1, InstrumentsAssumption DEF PaidRows
    <3>4. CashOf(source, a) = IF row.payment = "posted" THEN Units(row.amount) ELSE 0
      BY <3>1, <3>2, <3>3 DEF CashOf
    <3> QED BY <2>3, <3>4 DEF AdvanceIsBooked
  <2> QED BY <2>2, <2>3
<1>10. \A s \in settlements : SettlementIsBooked(s)
  BY <1>2 DEF BookInv, SettlementsTold, SettlementTold, SettlementIsBooked
<1>11. Says(StatementSource, "bank", IF statement.status = "has_variance" THEN statement.variance ELSE 0)
  BY <1>2, <1>3 DEF BookInv, StatementTold
<1>12. DocumentsAreBooked
  BY <1>4, <1>5, <1>6 DEF DocumentsAreBooked
<1>13. InstrumentsAreBooked
  BY <1>7, <1>8, <1>9, <1>10 DEF InstrumentsAreBooked
<1> QED BY <1>11, <1>12, <1>13 DEF BooksFollowDocuments

-----------------------------------------------------------------------------
(* Lines one after the other.                                              *)
LEMMA JoinedTwo ==
  ASSUME NEW a, NEW b
  PROVE  <<a>> \o <<b>> = <<a, b>> /\ <<a>> \o <<>> = <<a>> /\ <<a, b>> \o <<>> = <<a, b>>
<1> DEFINE S == {a, b}
           s == <<a>> \o <<b>>
           t == <<a, b>>
<1>1. <<a>> \in Seq(S) /\ <<b>> \in Seq(S) /\ Len(<<a>>) = 1 /\ Len(<<b>>) = 1
  OBVIOUS
<1>2. s \in Seq(S) /\ Len(s) = 2
  BY <1>1
<1>3. \A i \in 1..2 : s[i] = t[i]
  BY <1>1
<1>4. t \in Seq(S) /\ Len(t) = 2
  OBVIOUS
<1> HIDE DEF s, t, S
<1>5. s \in [1..2 -> S] /\ t \in [1..2 -> S]
  BY <1>2, <1>4
<1>6. s = t
  BY <1>3, <1>5
<1> QED BY <1>6 DEF s, t

(* Two lines and a third.                                                  *)
LEMMA JoinedThree ==
  ASSUME NEW a, NEW b, NEW c
  PROVE  <<a, b>> \o <<c>> = <<a, b, c>>
<1> DEFINE S == {a, b, c}
           s == <<a, b>> \o <<c>>
           t == <<a, b, c>>
<1>1. <<a, b>> \in Seq(S) /\ <<c>> \in Seq(S) /\ Len(<<a, b>>) = 2 /\ Len(<<c>>) = 1
  OBVIOUS
<1>2. s \in Seq(S) /\ Len(s) = 3
  BY <1>1
<1>3. \A i \in 1..3 : s[i] = t[i]
  BY <1>1
<1>4. t \in Seq(S) /\ Len(t) = 3
  OBVIOUS
<1> HIDE DEF s, t, S
<1>5. s \in [1..3 -> S] /\ t \in [1..3 -> S]
  BY <1>2, <1>4
<1>6. s = t
  BY <1>3, <1>5
<1> QED BY <1>6 DEF s, t

(* Three lines and a fourth.                                               *)
LEMMA JoinedFour ==
  ASSUME NEW a, NEW b, NEW c, NEW d
  PROVE  <<a, b, c>> \o <<d>> = <<a, b, c, d>> /\ <<a, b, c>> \o <<>> = <<a, b, c>>
<1> DEFINE S == {a, b, c, d}
           s == <<a, b, c>> \o <<d>>
           t == <<a, b, c, d>>
<1>1. <<a, b, c>> \in Seq(S) /\ <<d>> \in Seq(S) /\ Len(<<a, b, c>>) = 3 /\ Len(<<d>>) = 1
  OBVIOUS
<1>2. s \in Seq(S) /\ Len(s) = 4
  BY <1>1
<1>3. \A i \in 1..4 : s[i] = t[i]
  BY <1>1
<1>4. t \in Seq(S) /\ Len(t) = 4
  OBVIOUS
<1> HIDE DEF s, t, S
<1>5. s \in [1..4 -> S] /\ t \in [1..4 -> S]
  BY <1>2, <1>4
<1>6. s = t
  BY <1>3, <1>5
<1> QED BY <1>6 DEF s, t

(* What a new entry says of its source.                                    *)
LEMMA NewEntry ==
  ASSUME NEW j, NEW k, NEW source, NEW lines, Adds(j, k, source, lines)
  PROVE  OnlyAt(j, k, source) /\ Absent(j, source) /\ ~Absent(k, source)
BY DEF Adds, OnlyAt

(* An entry of two lines of one amount moves both accounts by its units.   *)
LEMMA PairEntry ==
  ASSUME NEW x, NEW y, x # y, NEW n \in Int, NEW lines,
         lines = <<Debit(x, n), Credit(y, n)>> \/ lines = <<Credit(y, n), Debit(x, n)>>,
         NEW j, NEW k, NEW source, Adds(j, k, source, Rounded(lines))
  PROVE  /\ Units(n) \in Int /\ 10 * Units(n) - n \in -5..5
         /\ \A z : SumIn(k, source, z) = (IF z = x THEN Units(n) ELSE IF z = y THEN -Units(n) ELSE 0)
<1>1. ASSUME NEW z
      PROVE  SumIn(k, source, z) = (IF z = x THEN Units(n) ELSE IF z = y THEN -Units(n) ELSE 0)
  <2>1. /\ OnAccount(Rounded(lines), z) = (IF z = x THEN Units(n) ELSE IF z = y THEN -Units(n) ELSE 0)
        /\ OnAccount(Rounded(lines), z) \in Int
    BY RoundedPair
  <2>2. SumIn(k, source, z) = OnAccount(Rounded(lines), z)
    BY <2>1 DEF Adds
  <2> QED BY <2>1, <2>2
<1> QED BY <1>1, UnitsNear

(* An entry says of an account what its document's lines say.              *)
LEMMA LinesEntry ==
  ASSUME NEW K, NEW lines, AreLines(lines, K), NEW account, account # "rounding",
         \E i \in 1..K : lines[i].account # account,
         NEW j, NEW k, NEW source, Adds(j, k, source, Rounded(lines))
  PROVE  Tells(k, source, account, OnAccount(lines, account))
<1>1. /\ OnAccount(Rounded(lines), account) \in Int /\ OnAccount(lines, account) \in Int
      /\ 10 * OnAccount(Rounded(lines), account) - OnAccount(lines, account) \in -15..15
  BY EntryWithin
<1>2. SumIn(k, source, account) = OnAccount(Rounded(lines), account)
  BY <1>1 DEF Adds
<1> QED BY <1>1, <1>2 DEF Tells

\* The line is of another account.
Elsewhere(l, account) == l.account # account

(* What an entry of two or of three balanced lines says of an account that *)
(* one of them is not on.                                                  *)
LEMMA EntryOfTwo ==
  ASSUME NEW a, NEW b, IsLine(a), IsLine(b), NEW lines, AreTwo(lines, a, b), Residual(lines) = 0,
         NEW j, NEW k, NEW source, Adds(j, k, source, Rounded(lines)),
         NEW z, z # "rounding", Elsewhere(a, z) \/ Elsewhere(b, z)
  PROVE  Tells(k, source, z, Moving(a, z) + Moving(b, z))
<1>1. AreLines(lines, 2) /\ TwoMove(lines, a, b)
  BY LinesOfTwo
<1>2. \E i \in 1..2 : lines[i].account # z
  BY DEF Elsewhere, AreTwo
<1>3. Tells(k, source, z, OnAccount(lines, z))
  BY <1>1, <1>2, LinesEntry
<1> QED BY <1>1, <1>3 DEF TwoMove

(* The same of an entry of three lines.                                    *)
LEMMA EntryOfThree ==
  ASSUME NEW a, NEW b, NEW c, IsLine(a), IsLine(b), IsLine(c), NEW lines, AreThree(lines, a, b, c), Residual(lines) = 0,
         NEW j, NEW k, NEW source, Adds(j, k, source, Rounded(lines)),
         NEW z, z # "rounding", Elsewhere(a, z) \/ Elsewhere(b, z) \/ Elsewhere(c, z)
  PROVE  Tells(k, source, z, Moving(a, z) + Moving(b, z) + Moving(c, z))
<1>1. AreLines(lines, 3) /\ ThreeMove(lines, a, b, c)
  BY LinesOfThree
<1>2. \E i \in 1..3 : lines[i].account # z
  BY DEF Elsewhere, AreThree
<1>3. Tells(k, source, z, OnAccount(lines, z))
  BY <1>1, <1>2, LinesEntry
<1> QED BY <1>1, <1>3 DEF ThreeMove

(* A refused command leaves the books as they are.                         *)
LEMMA Refused ==
  ASSUME BookInv, journal' = journal,
         UNCHANGED <<asset, payroll, expense, accountTransfer, giftCard, advance, settlements, statement>>
  PROVE  BookInv'
BY DEF BookInv

(* The row of a document that was posted, among the others of its table.   *)
LEMMA AssetRow ==
  ASSUME NEW j, NEW k, NEW a \in Assets, OnlyAt(j, k, AssetSource(a)),
         NEW f, AssetsTold(j, f), NEW row, AssetTold(k, a, row)
  PROVE  AssetsTold(k, [f EXCEPT ![a] = row])
<1>1. ASSUME NEW b \in Assets, b # a PROVE AssetTold(k, b, f[b])
  <2>1. EntriesIn(k, AssetSource(b)) = EntriesIn(j, AssetSource(b))
    BY <1>1 DEF OnlyAt, AssetSource
  <2> QED BY <2>1, SameEntries DEF AssetsTold, AssetTold
<1> QED BY <1>1 DEF AssetsTold

(* The same of a payroll run,                                              *)
LEMMA PayrollRow ==
  ASSUME NEW j, NEW k, NEW r \in Payrolls, OnlyAt(j, k, PayrollSource(r)),
         NEW f, PayrollsTold(j, f), NEW row, PayrollTold(k, r, row)
  PROVE  PayrollsTold(k, [f EXCEPT ![r] = row])
<1>1. ASSUME NEW s \in Payrolls, s # r PROVE PayrollTold(k, s, f[s])
  <2>1. EntriesIn(k, PayrollSource(s)) = EntriesIn(j, PayrollSource(s))
    BY <1>1 DEF OnlyAt, PayrollSource
  <2> QED BY <2>1, SameEntries DEF PayrollsTold, PayrollTold
<1> QED BY <1>1 DEF PayrollsTold

(* of an expense,                                                          *)
LEMMA ExpenseRow ==
  ASSUME NEW j, NEW k, NEW x \in Expenses, OnlyAt(j, k, <<"expense", x>>),
         NEW f, ExpensesTold(j, f), NEW row, ExpenseTold(k, x, row)
  PROVE  ExpensesTold(k, [f EXCEPT ![x] = row])
<1>1. ASSUME NEW y \in Expenses, y # x PROVE ExpenseTold(k, y, f[y])
  <2>1. EntriesIn(k, <<"expense", y>>) = EntriesIn(j, <<"expense", y>>)
    BY <1>1 DEF OnlyAt
  <2> QED BY <2>1, SameEntries DEF ExpensesTold, ExpenseTold
<1> QED BY <1>1 DEF ExpensesTold

(* and of a transfer.                                                      *)
LEMMA TransferRow ==
  ASSUME NEW j, NEW k, NEW t \in AccountTransfers, OnlyAt(j, k, <<"account_transfer", t>>),
         NEW f, TransfersTold(j, f), NEW row, TransferTold(k, t, row)
  PROVE  TransfersTold(k, [f EXCEPT ![t] = row])
<1>1. ASSUME NEW u \in AccountTransfers, u # t PROVE TransferTold(k, u, f[u])
  <2>1. EntriesIn(k, <<"account_transfer", u>>) = EntriesIn(j, <<"account_transfer", u>>)
    BY <1>1 DEF OnlyAt
  <2> QED BY <2>1, SameEntries DEF TransfersTold, TransferTold
<1> QED BY <1>1 DEF TransfersTold

(* A card's or an advance's sources are the issue and its reversal.        *)
LEMMA PaidKept ==
  ASSUME NEW j, NEW k, NEW at, OnlyAt(j, k, at), NEW source, source # at, NEW id, ReversalSource(id) # at,
         NEW account, NEW row, PaidTold(j, source, id, account, row)
  PROVE  PaidTold(k, source, id, account, row)
<1>1. EntriesIn(k, source) = EntriesIn(j, source)
      /\ EntriesIn(k, ReversalSource(id)) = EntriesIn(j, ReversalSource(id))
  BY DEF OnlyAt
<1> QED BY <1>1, SameEntries DEF PaidTold

(* A card that was issued or whose payment was reversed, among the others. *)
LEMMA CardRow ==
  ASSUME NEW j, NEW k, NEW g \in GiftCards, NEW at, at \in {<<"gift_card", g>>, ReversalSource(g)}, OnlyAt(j, k, at),
         NEW f, CardsTold(j, f), NEW row, PaidTold(k, <<"gift_card", g>>, g, "gift_cards", row),
         row # None => 10 * Units(row.amount) = row.amount
  PROVE  CardsTold(k, [f EXCEPT ![g] = row])
<1>1. ASSUME NEW h \in GiftCards, h # g PROVE PaidTold(k, <<"gift_card", h>>, h, "gift_cards", f[h])
  <2>1. <<"gift_card", h>> # at /\ ReversalSource(h) # at
    BY <1>1 DEF ReversalSource
  <2>2. PaidTold(j, <<"gift_card", h>>, h, "gift_cards", f[h])
    BY DEF CardsTold
  <2> QED BY <2>1, <2>2, PaidKept
<1> QED BY <1>1 DEF CardsTold

(* The same of an advance.                                                 *)
LEMMA AdvanceRow ==
  ASSUME NEW j, NEW k, NEW a \in Advances, NEW at, at \in {<<"payment", a>>, ReversalSource(a)}, OnlyAt(j, k, at),
         NEW f, AdvancesTold(j, f), NEW row, PaidTold(k, <<"payment", a>>, a, "advances", row)
  PROVE  AdvancesTold(k, [f EXCEPT ![a] = row])
<1>1. ASSUME NEW b \in Advances, b # a PROVE PaidTold(k, <<"payment", b>>, b, "advances", f[b])
  <2>1. <<"payment", b>> # at /\ ReversalSource(b) # at
    BY <1>1 DEF ReversalSource
  <2>2. PaidTold(j, <<"payment", b>>, b, "advances", f[b])
    BY DEF AdvancesTold
  <2> QED BY <2>1, <2>2, PaidKept
<1> QED BY <1>1 DEF AdvancesTold

(* An asset is entered at its cost, and nothing of it is depreciated.      *)
LEMMA AcquireBooks ==
  ASSUME BookInv, NEW a \in Assets, NEW n \in Amounts, NEW salvage \in {0, n}, NEW p, Acquire(a, n, salvage, p),
         UNCHANGED <<instruments, statement>>
  PROVE  BookInv'
<1> DEFINE lines == <<Debit("asset", n), Credit("cash", n)>>
           source == AssetSource(a)
           ok == Accepts(source, p, lines)
           row == [status |-> "active", cost |-> n, salvage |-> salvage, depreciated |-> 0]
<1>1. /\ Posts(ok, source, p, lines) /\ asset' = Written(ok, asset, a, row)
      /\ UNCHANGED <<payroll, expense, accountTransfer, giftCard, advance, settlements, statement>>
  BY DEF Acquire, instruments
<1>2. CASE ~ok
  <2>1. journal' = journal /\ asset' = asset
    BY <1>1, <1>2, Posting DEF Written
  <2> QED BY <1>1, <2>1, Refused
<1>3. CASE ok
  <2>1. Adds(journal, journal', source, Rounded(lines)) /\ asset' = [asset EXCEPT ![a] = row]
    BY <1>1, <1>3, Posting DEF Written
  <2>2. n \in Int /\ n \in Nat
    BY LedgerAssumption
  <2> HIDE DEF ok, source
  <2>3. /\ Units(n) \in Int /\ 10 * Units(n) - n \in -5..5
        /\ \A z : SumIn(journal', source, z) = (IF z = "asset" THEN Units(n) ELSE IF z = "cash" THEN -Units(n) ELSE 0)
    <3>1. "asset" # "cash"
      OBVIOUS
    <3>2. lines = <<Debit("asset", n), Credit("cash", n)>> \/ lines = <<Credit("cash", n), Debit("asset", n)>>
      OBVIOUS
    <3> HIDE DEF lines
    <3> QED BY <2>1, <2>2, <3>1, <3>2, PairEntry
  <2> HIDE DEF lines
  <2>4. OnlyAt(journal, journal', source) /\ ~Absent(journal', source)
    BY <2>1, NewEntry
  <2>5. row # None /\ row.status = "active" /\ row.depreciated = 0 /\ row.cost = n
    <3>1. row \in AssetRows
      BY <2>2 DEF AssetRows
    <3> QED BY <3>1, LedgerAssumption
  <2>6. AssetTold(journal', a, row)
    BY <2>2, <2>3, <2>4, <2>5 DEF AssetTold, Tells, source
  <2> HIDE DEF row
  <2>7. AssetsTold(journal', asset')
    BY <2>1, <2>4, <2>6, AssetRow DEF BookInv, source
  <2>8. /\ (\A r \in Payrolls : PayrollSource(r) # source) /\ (\A x \in Expenses : <<"expense", x>> # source)
        /\ (\A t \in AccountTransfers : <<"account_transfer", t>> # source)
        /\ (\A g \in GiftCards : <<"gift_card", g>> # source /\ ReversalSource(g) # source)
        /\ (\A d \in Advances : <<"payment", d>> # source /\ ReversalSource(d) # source)
        /\ (\A items : <<"courier_cod_settlement", items>> # source) /\ StatementSource # source
    BY DEF source, AssetSource, PayrollSource, ReversalSource, StatementSource
  <2> QED BY <1>1, <2>4, <2>7, <2>8, RowsKept DEF BookInv
<1> QED BY <1>2, <1>3

(* An asset has its entry: a second one is refused.                        *)
LEMMA SecondEntries ==
  ASSUME NEW source, ~Absent(journal, source), NEW p, NEW lines
  PROVE  ~Accepts(source, p, lines)
BY DEF Absent, EntriesIn, Accepts

(* The entry of a depreciation would be the asset's second.                *)
LEMMA DepreciateBooks ==
  ASSUME BookInv, NEW a \in Assets, NEW n, NEW p, Depreciate(a, n, p), UNCHANGED <<instruments, statement>>
  PROVE  BookInv'
<1>1. asset[a] # None
  BY DEF Depreciate
<1>2. ~Absent(journal, AssetSource(a))
  BY <1>1 DEF BookInv, AssetsTold, AssetTold
<1>3. \A lines : ~Accepts(AssetSource(a), p, lines)
  BY <1>2, SecondEntries
<1>4. PICK ok, lines, row : /\ ok = FALSE /\ Posts(ok, AssetSource(a), p, lines)
                            /\ asset' = Written(ok, asset, a, row)
  BY <1>3, Zenon DEF Depreciate
<1>5. journal' = journal /\ asset' = asset
  BY <1>4, Posting DEF Written
<1>6. UNCHANGED <<payroll, expense, accountTransfer, giftCard, advance, settlements, statement>>
  BY DEF Depreciate, instruments
<1> QED BY <1>5, <1>6, Refused

(* The sum of two values.                                                  *)
LEMMA SumOfTwo ==
  ASSUME NEW x, NEW y, x # y, NEW f, f[x] \in Int, f[y] \in Int
  PROVE  SumFunctionOnSet(f, {x, y}) = f[x] + f[y]
<1>1. IsFiniteSet({x}) /\ y \notin {x} /\ {x} \cup {y} = {x, y}
  BY FS_Singleton
<1>2. \A z \in {x} \cup {y} : f[z] \in Int
  OBVIOUS
<1>3. SumFunctionOnSet(f, {x} \cup {y}) = f[y] + SumFunctionOnSet(f, {x})
  BY <1>1, <1>2, SumAdd
<1>4. SumFunctionOnSet(f, {x}) = f[x]
  BY SumOne
<1> QED BY <1>1, <1>3, <1>4

(* So would be that of its disposal,                                       *)
LEMMA DisposeBooks ==
  ASSUME BookInv, NEW a \in Assets, NEW n, NEW p, Dispose(a, n, p), UNCHANGED <<instruments, statement>>
  PROVE  BookInv'
<1>1. asset[a] # None
  BY DEF Dispose
<1>2. ~Absent(journal, AssetSource(a))
  BY <1>1 DEF BookInv, AssetsTold, AssetTold
<1>3. \A lines : ~Accepts(AssetSource(a), p, lines)
  BY <1>2, SecondEntries
<1> DEFINE gain == n - (asset[a].cost - asset[a].depreciated)
           lines == SelectSeq(
             << Debit("cash", n), Debit("accumulated", asset[a].depreciated),
                Debit("gain_loss", IF gain < 0 THEN -gain ELSE 0),
                Credit("asset", asset[a].cost), Credit("gain_loss", IF gain > 0 THEN gain ELSE 0) >>,
             OneSided)
           row == [asset[a] EXCEPT !.status = "disposed"]
           ok == Accepts(AssetSource(a), p, lines)
<1>4. ~ok /\ Posts(ok, AssetSource(a), p, lines) /\ asset' = Written(ok, asset, a, row)
  BY <1>3 DEF Dispose
<1> HIDE DEF ok, row, lines
<1>5. journal' = journal /\ asset' = asset
  BY <1>4, Posting DEF Written
<1>6. UNCHANGED <<payroll, expense, accountTransfer, giftCard, advance, settlements, statement>>
  BY DEF Dispose, instruments
<1> QED BY <1>5, <1>6, Refused

(* Two lines, or a third for what is withheld: the two credits of the      *)
(* payable add up to the gross pay.                                        *)
LEMMA PayrollLines ==
  ASSUME NEW gross \in Int, NEW withheld \in {0, 10},
         NEW lines, lines = <<Debit("salaries", gross)>>
           \o (IF withheld > 0 THEN <<Credit("payable", withheld)>> ELSE <<>>) \o <<Credit("payable", gross - withheld)>>,
         Residual(lines) = 0, NEW j, NEW k, NEW source, Adds(j, k, source, Rounded(lines))
  PROVE  Tells(k, source, "salaries", gross) /\ Tells(k, source, "payable", -gross)
<1> DEFINE a == Debit("salaries", gross)
           b == Credit("payable", withheld)
           c == Credit("payable", gross - withheld)
<1>1. /\ IsLine(a) /\ IsLine(b) /\ IsLine(c)
      /\ a.account = "salaries" /\ b.account = "payable" /\ c.account = "payable"
      /\ \A z : /\ Moving(a, z) = (IF z = "salaries" THEN gross ELSE 0)
                /\ Moving(b, z) = (IF z = "payable" THEN -withheld ELSE 0)
                /\ Moving(c, z) = (IF z = "payable" THEN -(gross - withheld) ELSE 0)
  <2>1. withheld \in Int /\ gross - withheld \in Int
    OBVIOUS
  <2> QED BY <2>1, LineMoves
<1>2. /\ "salaries" # "rounding" /\ "payable" # "rounding"
      /\ Elsewhere(a, "payable") /\ Elsewhere(b, "salaries") /\ Elsewhere(c, "salaries")
  BY <1>1 DEF Elsewhere
<1>3. CASE withheld = 10
  <2>1. lines = <<a>> \o <<b>> \o <<c>>
    BY <1>3
  <2> HIDE DEF a, b, c
  <2>1a. lines = <<a, b>> \o <<c>>
    BY <2>1, JoinedTwo
  <2>2. AreThree(lines, a, b, c)
    BY <2>1a, JoinedThree DEF AreThree
  <2>3. Tells(k, source, "salaries", Moving(a, "salaries") + Moving(b, "salaries") + Moving(c, "salaries"))
    BY <1>1, <1>2, <2>2, EntryOfThree
  <2>4. Tells(k, source, "payable", Moving(a, "payable") + Moving(b, "payable") + Moving(c, "payable"))
    BY <1>1, <1>2, <2>2, EntryOfThree
  <2>5. /\ Moving(a, "salaries") + Moving(b, "salaries") + Moving(c, "salaries") = gross
        /\ Moving(a, "payable") + Moving(b, "payable") + Moving(c, "payable") = -gross
    BY <1>1, <1>3
  <2> QED BY <2>3, <2>4, <2>5
<1>4. CASE withheld = 0
  <2>1. lines = <<a>> \o <<>> \o <<c>>
    BY <1>4
  <2> HIDE DEF a, b, c
  <2>2. AreTwo(lines, a, c)
    BY <2>1, JoinedTwo DEF AreTwo
  <2>3. Tells(k, source, "salaries", Moving(a, "salaries") + Moving(c, "salaries"))
    BY <1>1, <1>2, <2>2, EntryOfTwo
  <2>4. Tells(k, source, "payable", Moving(a, "payable") + Moving(c, "payable"))
    BY <1>1, <1>2, <2>2, EntryOfTwo
  <2>5. /\ Moving(a, "salaries") + Moving(c, "salaries") = gross
        /\ Moving(a, "payable") + Moving(c, "payable") = -gross
    BY <1>1, <1>4
  <2> QED BY <2>3, <2>4, <2>5
<1> QED BY <1>3, <1>4

(* A payroll run is entered with its pay and what it withholds.            *)
LEMMA PostPayrollBooks ==
  ASSUME BookInv, NEW r \in Payrolls, NEW gross \in Amounts, NEW deductions \in {0, 10}, NEW p,
         PostPayroll(r, gross, deductions, p), UNCHANGED <<instruments, statement>>
  PROVE  BookInv'
<1> DEFINE withheld == IF deductions > 0 THEN <<Credit("payable", deductions)>> ELSE <<>>
           lines == <<Debit("salaries", gross)>> \o withheld \o <<Credit("payable", gross - deductions)>>
           source == PayrollSource(r)
           ok == Accepts(source, p, lines)
           row == [status |-> "posted", gross |-> gross, deductions |-> deductions]
<1>1. /\ Posts(ok, source, p, lines) /\ payroll' = Written(ok, payroll, r, row)
      /\ UNCHANGED <<asset, expense, accountTransfer, giftCard, advance, settlements, statement>>
  BY DEF PostPayroll, instruments
<1>2. CASE ~ok
  <2>1. journal' = journal /\ payroll' = payroll
    BY <1>1, <1>2, Posting DEF Written
  <2> QED BY <1>1, <2>1, Refused
<1>3. CASE ok
  <2>1. Adds(journal, journal', source, Rounded(lines)) /\ payroll' = [payroll EXCEPT ![r] = row]
    BY <1>1, <1>3, Posting DEF Written
  <2>2. gross \in Int /\ Residual(lines) = 0
    BY <1>3, LedgerAssumption DEF Accepts, Balanced
  <2> HIDE DEF ok, source
  <2>3. lines = <<Debit("salaries", gross)>>
          \o (IF deductions > 0 THEN <<Credit("payable", deductions)>> ELSE <<>>) \o <<Credit("payable", gross - deductions)>>
    OBVIOUS
  <2> HIDE DEF lines
  <2>4. Tells(journal', source, "salaries", gross) /\ Tells(journal', source, "payable", -gross)
    BY <2>1, <2>2, <2>3, PayrollLines
  <2>5. OnlyAt(journal, journal', source) /\ ~Absent(journal', source)
    BY <2>1, NewEntry
  <2>6. row # None /\ row.status = "posted" /\ row.gross = gross
    <3>1. row \in PayrollRows
      BY <2>2 DEF PayrollRows
    <3> QED BY <3>1, LedgerAssumption
  <2> HIDE DEF row
  <2>7. PayrollTold(journal', r, row)
    BY <2>4, <2>5, <2>6 DEF PayrollTold, source
  <2>8. PayrollsTold(journal', payroll')
    BY <2>1, <2>5, <2>7, PayrollRow DEF BookInv, source
  <2>9. /\ (\A a \in Assets : AssetSource(a) # source) /\ (\A x \in Expenses : <<"expense", x>> # source)
        /\ (\A t \in AccountTransfers : <<"account_transfer", t>> # source)
        /\ (\A g \in GiftCards : <<"gift_card", g>> # source /\ ReversalSource(g) # source)
        /\ (\A d \in Advances : <<"payment", d>> # source /\ ReversalSource(d) # source)
        /\ (\A items : <<"courier_cod_settlement", items>> # source) /\ StatementSource # source
    BY DEF source, AssetSource, PayrollSource, ReversalSource, StatementSource
  <2> QED BY <1>1, <2>5, <2>8, <2>9, RowsKept DEF BookInv
<1> QED BY <1>2, <1>3

(* and that of the payment of a payroll run.                               *)
LEMMA PayPayrollBooks ==
  ASSUME BookInv, NEW r \in Payrolls, NEW p, PayPayroll(r, p), UNCHANGED <<instruments, statement>>
  PROVE  BookInv'
<1>1. payroll[r] # None
  BY DEF PayPayroll
<1>2. ~Absent(journal, PayrollSource(r))
  BY <1>1 DEF BookInv, PayrollsTold, PayrollTold
<1>3. \A lines : ~Accepts(PayrollSource(r), p, lines)
  BY <1>2, SecondEntries
<1> DEFINE net == payroll[r].gross - payroll[r].deductions
           lines == <<Debit("payable", net), Credit("cash", net)>>
           row == [payroll[r] EXCEPT !.status = "paid"]
           ok == Accepts(PayrollSource(r), p, lines)
<1>4. ~ok /\ Posts(ok, PayrollSource(r), p, lines) /\ payroll' = Written(ok, payroll, r, row)
  BY <1>3 DEF PayPayroll
<1> HIDE DEF ok, row, lines
<1>5. journal' = journal /\ payroll' = payroll
  BY <1>4, Posting DEF Written
<1>6. UNCHANGED <<asset, expense, accountTransfer, giftCard, advance, settlements, statement>>
  BY DEF PayPayroll, instruments
<1> QED BY <1>5, <1>6, Refused

(* The debits of an expense are what its items add up to, its credit the   *)
(* grand total.                                                            *)
LEMMA ExpenseLines ==
  ASSUME NEW m \in Int, NEW n \in Int, NEW tax \in Int, NEW items, items = <<m, n>>,
         NEW lines, lines = [i \in DOMAIN items |-> Debit("expense", items[i])]
           \o <<Credit("cash", SumFunction(items) + tax)>>,
         Residual(lines) = 0, NEW j, NEW k, NEW source, Adds(j, k, source, Rounded(lines))
  PROVE  Tells(k, source, "expense", SumFunction(items)) /\ Tells(k, source, "cash", -(SumFunction(items) + tax))
<1> DEFINE a == Debit("expense", m)
           b == Debit("expense", n)
           c == Credit("cash", m + n + tax)
<1>1. SumFunction(items) = m + n
  <2>1. DOMAIN items = {1, 2} /\ items[1] = m /\ items[2] = n
    OBVIOUS
  <2>2. PICK x, y : x = 1 /\ y = 2
    OBVIOUS
  <2>3. x # y /\ items[x] = m /\ items[y] = n /\ items[x] \in Int /\ items[y] \in Int
    BY <2>1, <2>2
  <2>4. SumFunctionOnSet(items, {x, y}) = items[x] + items[y]
    BY <2>3, SumOfTwo
  <2>5. SumFunction(items) = SumFunctionOnSet(items, {x, y})
    BY <2>1, <2>2 DEF SumFunction
  <2> QED BY <2>3, <2>4, <2>5
<1>2. AreThree(lines, a, b, c)
  <2>1. DOMAIN items = 1..2 /\ items[1] = m /\ items[2] = n
    OBVIOUS
  <2>2. [i \in DOMAIN items |-> Debit("expense", items[i])] = <<a, b>>
    BY <2>1
  <2>3. lines = <<a, b>> \o <<c>>
    BY <1>1, <2>2
  <2> HIDE DEF a, b, c
  <2> QED BY <2>3, JoinedThree DEF AreThree
<1>3. /\ IsLine(a) /\ IsLine(b) /\ IsLine(c)
      /\ Signed(a) = m /\ Signed(b) = n /\ Signed(c) = -(m + n + tax)
      /\ a.account = "expense" /\ c.account = "cash"
      /\ \A z : /\ Moving(a, z) = (IF z = "expense" THEN m ELSE 0)
                /\ Moving(b, z) = (IF z = "expense" THEN n ELSE 0)
                /\ Moving(c, z) = (IF z = "cash" THEN -(m + n + tax) ELSE 0)
  <2>1. m + n + tax \in Int
    OBVIOUS
  <2> QED BY <2>1, LineMoves
<1> HIDE DEF a, b, c
<1>4. "expense" # "rounding" /\ "cash" # "rounding" /\ Elsewhere(a, "cash") /\ Elsewhere(c, "expense")
  BY <1>3 DEF Elsewhere
<1>5. Tells(k, source, "expense", Moving(a, "expense") + Moving(b, "expense") + Moving(c, "expense"))
  BY <1>2, <1>3, <1>4, EntryOfThree
<1>6. Tells(k, source, "cash", Moving(a, "cash") + Moving(b, "cash") + Moving(c, "cash"))
  BY <1>2, <1>3, <1>4, EntryOfThree
<1>7. /\ Moving(a, "expense") + Moving(b, "expense") + Moving(c, "expense") = m + n
      /\ Moving(a, "cash") + Moving(b, "cash") + Moving(c, "cash") = -(m + n + tax)
  BY <1>3
<1> QED BY <1>1, <1>5, <1>6, <1>7

(* An expense is entered with its items.                                   *)
LEMMA PostExpenseBooks ==
  ASSUME BookInv, NEW x \in Expenses, NEW m \in Amounts, NEW n \in Amounts, NEW tax \in {0, 10}, NEW p,
         PostExpense(x, <<m, n>>, tax, p), UNCHANGED <<instruments, statement>>
  PROVE  BookInv'
<1> DEFINE items == <<m, n>>
           lines == [i \in DOMAIN items |-> Debit("expense", items[i])] \o <<Credit("cash", SumFunction(items) + tax)>>
           source == <<"expense", x>>
           ok == Accepts(source, p, lines)
           row == [items |-> items, tax |-> tax]
<1>1. /\ Posts(ok, source, p, lines) /\ expense' = Written(ok, expense, x, row)
      /\ UNCHANGED <<asset, payroll, accountTransfer, giftCard, advance, settlements, statement>>
  BY DEF PostExpense, instruments
<1>2. CASE ~ok
  <2>1. journal' = journal /\ expense' = expense
    BY <1>1, <1>2, Posting DEF Written
  <2> QED BY <1>1, <2>1, Refused
<1>3. CASE ok
  <2>1. Adds(journal, journal', source, Rounded(lines)) /\ expense' = [expense EXCEPT ![x] = row]
    BY <1>1, <1>3, Posting DEF Written
  <2>2. m \in Int /\ n \in Int /\ tax \in Int /\ Residual(lines) = 0
    BY <1>3, LedgerAssumption DEF Accepts, Balanced
  <2> HIDE DEF ok
  <2>3. lines = [i \in DOMAIN items |-> Debit("expense", items[i])] \o <<Credit("cash", SumFunction(items) + tax)>>
        /\ items = <<m, n>>
    OBVIOUS
  <2>4. row # None /\ row.items = items /\ row.tax = tax
    <3>1. row \in ExpenseRows
      BY <2>2 DEF ExpenseRows
    <3> QED BY <3>1, LedgerAssumption
  <2> HIDE DEF row, lines, items
  <2>5. OnlyAt(journal, journal', source)
    BY <2>1, NewEntry
  <2>6. /\ Tells(journal', source, "expense", SumFunction(items))
        /\ Tells(journal', source, "cash", -(SumFunction(items) + tax))
    BY <2>1, <2>2, <2>3, ExpenseLines
  <2>7. ExpenseTold(journal', x, row)
    BY <2>4, <2>6 DEF ExpenseTold
  <2>8. ExpensesTold(journal', expense')
    BY <2>1, <2>5, <2>7, ExpenseRow DEF BookInv
  <2>9. /\ (\A a \in Assets : AssetSource(a) # source) /\ (\A r \in Payrolls : PayrollSource(r) # source)
        /\ (\A t \in AccountTransfers : <<"account_transfer", t>> # source)
        /\ (\A g \in GiftCards : <<"gift_card", g>> # source /\ ReversalSource(g) # source)
        /\ (\A d \in Advances : <<"payment", d>> # source /\ ReversalSource(d) # source)
        /\ (\A s : <<"courier_cod_settlement", s>> # source) /\ StatementSource # source
    BY DEF AssetSource, PayrollSource, ReversalSource, StatementSource
  <2> HIDE DEF source
  <2> QED BY <1>1, <2>5, <2>8, <2>9, RowsKept DEF BookInv
<1> QED BY <1>2, <1>3

(* A manual entry is no document's.                                        *)
LEMMA PostManuallyBooks ==
  ASSUME BookInv, NEW n, NEW p, PostManually(n, p), UNCHANGED <<instruments, statement>>
  PROVE  BookInv'
<1> DEFINE lines == <<Debit("expense", n), Credit("cash", n)>>
           source == <<"manual", "manual">>
           ok == Accepts(source, p, lines)
<1>1. /\ Posts(ok, source, p, lines)
      /\ UNCHANGED <<asset, payroll, expense, accountTransfer, giftCard, advance, settlements, statement>>
  BY DEF PostManually, instruments, documents
<1>2. CASE ~ok
  <2>1. journal' = journal
    BY <1>1, <1>2, Posting
  <2> QED BY <1>1, <2>1, Refused
<1>3. CASE ok
  <2>1. Adds(journal, journal', source, Rounded(lines))
    BY <1>1, <1>3, Posting
  <2> HIDE DEF ok, lines
  <2>2. OnlyAt(journal, journal', source)
    BY <2>1, NewEntry
  <2>3. /\ (\A a \in Assets : AssetSource(a) # source) /\ (\A r \in Payrolls : PayrollSource(r) # source)
        /\ (\A x \in Expenses : <<"expense", x>> # source)
        /\ (\A t \in AccountTransfers : <<"account_transfer", t>> # source)
        /\ (\A g \in GiftCards : <<"gift_card", g>> # source /\ ReversalSource(g) # source)
        /\ (\A d \in Advances : <<"payment", d>> # source /\ ReversalSource(d) # source)
        /\ (\A s : <<"courier_cod_settlement", s>> # source) /\ StatementSource # source
    BY DEF AssetSource, PayrollSource, ReversalSource, StatementSource
  <2> HIDE DEF source
  <2> QED BY <1>1, <2>2, <2>3, RowsKept DEF BookInv
<1> QED BY <1>2, <1>3

(* A transfer takes what it says from the one account and brings what it   *)
(* says to the other, with or without a line for its fee.                  *)
LEMMA TransferLines ==
  ASSUME NEW from \in Int, NEW to \in Int, NEW fee \in Int, NEW charged \in BOOLEAN,
         NEW lines, lines = <<Debit("bank", to), Credit("cash", from)>>
           \o (IF charged THEN <<Debit("clearing", fee)>> ELSE <<>>),
         Residual(lines) = 0, NEW j, NEW k, NEW source, Adds(j, k, source, Rounded(lines))
  PROVE  Tells(k, source, "cash", -from) /\ Tells(k, source, "bank", to)
<1> DEFINE a == Debit("bank", to)
           b == Credit("cash", from)
           c == Debit("clearing", fee)
<1>1. /\ IsLine(a) /\ IsLine(b) /\ IsLine(c)
      /\ a.account = "bank" /\ b.account = "cash" /\ c.account = "clearing"
      /\ \A z : /\ Moving(a, z) = (IF z = "bank" THEN to ELSE 0)
                /\ Moving(b, z) = (IF z = "cash" THEN -from ELSE 0)
                /\ Moving(c, z) = (IF z = "clearing" THEN fee ELSE 0)
  BY LineMoves
<1>2. "bank" # "rounding" /\ "cash" # "rounding" /\ Elsewhere(a, "cash") /\ Elsewhere(b, "bank")
  BY <1>1 DEF Elsewhere
<1>3. CASE charged
  <2>1. lines = <<a, b>> \o <<c>>
    BY <1>3
  <2> HIDE DEF a, b, c
  <2>2. AreThree(lines, a, b, c)
    BY <2>1, JoinedThree DEF AreThree
  <2>3. Tells(k, source, "cash", Moving(a, "cash") + Moving(b, "cash") + Moving(c, "cash"))
    BY <1>1, <1>2, <2>2, EntryOfThree
  <2>4. Tells(k, source, "bank", Moving(a, "bank") + Moving(b, "bank") + Moving(c, "bank"))
    BY <1>1, <1>2, <2>2, EntryOfThree
  <2>5. /\ Moving(a, "cash") + Moving(b, "cash") + Moving(c, "cash") = -from
        /\ Moving(a, "bank") + Moving(b, "bank") + Moving(c, "bank") = to
    BY <1>1
  <2> QED BY <2>3, <2>4, <2>5
<1>4. CASE ~charged
  <2>1. lines = <<a, b>> \o <<>>
    BY <1>4
  <2> HIDE DEF a, b, c
  <2>2. AreTwo(lines, a, b)
    BY <2>1, JoinedTwo DEF AreTwo
  <2>3. Tells(k, source, "cash", Moving(a, "cash") + Moving(b, "cash"))
    BY <1>1, <1>2, <2>2, EntryOfTwo
  <2>4. Tells(k, source, "bank", Moving(a, "bank") + Moving(b, "bank"))
    BY <1>1, <1>2, <2>2, EntryOfTwo
  <2>5. /\ Moving(a, "cash") + Moving(b, "cash") = -from
        /\ Moving(a, "bank") + Moving(b, "bank") = to
    BY <1>1
  <2> QED BY <2>3, <2>4, <2>5
<1> QED BY <1>3, <1>4

(* A transfer is entered with what leaves the one account for the other.   *)
LEMMA TransferBooks ==
  ASSUME BookInv, NEW t \in AccountTransfers, NEW from \in Int, NEW to \in Int, NEW fee \in Int,
         NEW hasClearing \in BOOLEAN, NEW p, TransferAccount(t, from, to, fee, hasClearing, p), UNCHANGED statement
  PROVE  BookInv'
<1> DEFINE charged == fee > 0 /\ hasClearing
           lines == <<Debit("bank", to), Credit("cash", from)>> \o If(charged, Debit("clearing", fee))
           source == <<"account_transfer", t>>
           ok == Accepts(source, p, lines)
           row == [from |-> from, to |-> to, fee |-> fee]
<1>1. /\ Posts(ok, source, p, lines) /\ accountTransfer' = Written(ok, accountTransfer, t, row)
      /\ UNCHANGED <<asset, payroll, expense, giftCard, advance, settlements, statement>>
  BY DEF TransferAccount, documents
<1>2. CASE ~ok
  <2>1. journal' = journal /\ accountTransfer' = accountTransfer
    BY <1>1, <1>2, Posting DEF Written
  <2> QED BY <1>1, <2>1, Refused
<1>3. CASE ok
  <2>1. Adds(journal, journal', source, Rounded(lines)) /\ accountTransfer' = [accountTransfer EXCEPT ![t] = row]
    BY <1>1, <1>3, Posting DEF Written
  <2>2. Residual(lines) = 0 /\ charged \in BOOLEAN
    BY <1>3 DEF Accepts, Balanced
  <2> HIDE DEF ok
  <2>3. lines = <<Debit("bank", to), Credit("cash", from)>> \o (IF charged THEN <<Debit("clearing", fee)>> ELSE <<>>)
    BY DEF If
  <2>4. row # None /\ row.from = from /\ row.to = to
    <3>1. row \in TransferRows
      BY DEF TransferRows
    <3> QED BY <3>1, InstrumentsAssumption
  <2> HIDE DEF row, lines, charged
  <2>5. OnlyAt(journal, journal', source)
    BY <2>1, NewEntry
  <2>6. Tells(journal', source, "cash", -from) /\ Tells(journal', source, "bank", to)
    BY <2>1, <2>2, <2>3, TransferLines
  <2>7. TransferTold(journal', t, row)
    BY <2>4, <2>6 DEF TransferTold
  <2>8. TransfersTold(journal', accountTransfer')
    BY <2>1, <2>5, <2>7, TransferRow DEF BookInv
  <2>9. /\ (\A a \in Assets : AssetSource(a) # source) /\ (\A r \in Payrolls : PayrollSource(r) # source)
        /\ (\A x \in Expenses : <<"expense", x>> # source)
        /\ (\A g \in GiftCards : <<"gift_card", g>> # source /\ ReversalSource(g) # source)
        /\ (\A d \in Advances : <<"payment", d>> # source /\ ReversalSource(d) # source)
        /\ (\A s : <<"courier_cod_settlement", s>> # source) /\ StatementSource # source
    BY DEF AssetSource, PayrollSource, ReversalSource, StatementSource
  <2> HIDE DEF source
  <2> QED BY <1>1, <2>5, <2>8, <2>9, RowsKept DEF BookInv
<1> QED BY <1>2, <1>3

(* The face of a card is a whole amount, so its entry says it exactly.     *)
LEMMA CardBooks ==
  ASSUME BookInv, NEW g \in GiftCards, NEW mode \in {"sold", "promotional"}, NEW n \in Int, NEW p \in Periods,
         IssueGiftCard(g, mode, 10 * Units(n), p), UNCHANGED statement
  PROVE  BookInv'
<1> DEFINE face == 10 * Units(n)
           account == IF mode = "sold" THEN "cash" ELSE "marketing"
           lines == <<Debit(account, face), Credit("gift_cards", face)>>
           source == <<"gift_card", g>>
           ok == Accepts(source, p, lines)
           row == [amount |-> face, period |-> p, payment |-> IF mode = "sold" THEN "posted" ELSE None]
<1>1. /\ giftCard[g] = None /\ Posts(ok, source, p, lines) /\ giftCard' = Written(ok, giftCard, g, row)
      /\ UNCHANGED <<asset, payroll, expense, accountTransfer, advance, settlements, statement>>
  BY DEF IssueGiftCard, documents
<1>2. CASE ~ok
  <2>1. journal' = journal /\ giftCard' = giftCard
    BY <1>1, <1>2, Posting DEF Written
  <2> QED BY <1>1, <2>1, Refused
<1>3. CASE ok
  <2>1. Adds(journal, journal', source, Rounded(lines)) /\ giftCard' = [giftCard EXCEPT ![g] = row]
    BY <1>1, <1>3, Posting DEF Written
  <2> HIDE DEF ok
  <2>2. face \in Int /\ Units(face) \in Int /\ 10 * Units(face) = face
    <3>1. Units(n) \in Int
      BY UnitsNear
    <3>2. Units(face) = Units(n)
      BY <3>1, UnitsOfWhole
    <3> QED BY <3>1, <3>2
  <2>3. account # "gift_cards" /\ (lines = <<Debit(account, face), Credit("gift_cards", face)>>
                                   \/ lines = <<Credit("gift_cards", face), Debit(account, face)>>)
    OBVIOUS
  <2>4. row \in PaidRows /\ row # None /\ row.amount = face /\ row.payment # "reversed"
        /\ (row.payment = None <=> mode # "sold")
    <3>1. row \in PaidRows
      BY <2>2 DEF PaidRows
    <3> QED BY <3>1, InstrumentsAssumption
  <2>5. account = "cash" <=> mode = "sold"
    OBVIOUS
  <2> HIDE DEF row, lines, face, account
  <2>6. OnlyAt(journal, journal', source)
    BY <2>1, NewEntry
  <2>7. \A z : SumIn(journal', source, z) =
                 (IF z = account THEN Units(face) ELSE IF z = "gift_cards" THEN -Units(face) ELSE 0)
    BY <2>1, <2>2, <2>3, PairEntry
  <2>8. Absent(journal', ReversalSource(g))
    <3>1. Absent(journal, ReversalSource(g)) /\ ReversalSource(g) # source
      BY <1>1 DEF BookInv, CardsTold, PaidTold, ReversalSource
    <3> QED BY <2>6, <3>1 DEF OnlyAt, Absent
  <2>9. PaidTold(journal', source, g, "gift_cards", row)
    <3>1. SumIn(journal', source, "gift_cards") = -Units(face)
      BY <2>3, <2>7
    <3>2. SumIn(journal', source, "cash") = IF row.payment = None THEN 0 ELSE Units(face)
      BY <2>4, <2>5, <2>7
    <3> QED BY <2>4, <2>8, <3>1, <3>2 DEF PaidTold
  <2>10. 10 * Units(row.amount) = row.amount
    BY <2>2, <2>4
  <2>11. CardsTold(journal', giftCard')
    BY <2>1, <2>6, <2>9, <2>10, CardRow DEF BookInv
  <2>12. /\ (\A a \in Assets : AssetSource(a) # source) /\ (\A r \in Payrolls : PayrollSource(r) # source)
        /\ (\A x \in Expenses : <<"expense", x>> # source)
        /\ (\A t \in AccountTransfers : <<"account_transfer", t>> # source)
        /\ (\A d \in Advances : <<"payment", d>> # source /\ ReversalSource(d) # source)
        /\ (\A s : <<"courier_cod_settlement", s>> # source) /\ StatementSource # source
    BY DEF AssetSource, PayrollSource, ReversalSource, StatementSource
  <2> HIDE DEF source
  <2> QED BY <1>1, <2>6, <2>11, <2>12, RowsKept DEF BookInv
<1> QED BY <1>2, <1>3

(* An advance is entered with what was paid.                               *)
LEMMA AdvanceBooks ==
  ASSUME BookInv, NEW a \in Advances, NEW n \in Int, NEW p \in Periods,
         ReceiveAdvance(a, n, p), UNCHANGED statement
  PROVE  BookInv'
<1> DEFINE lines == <<Debit("cash", n), Credit("advances", n)>>
           source == <<"payment", a>>
           ok == Accepts(source, p, lines)
           row == [amount |-> n, period |-> p, payment |-> "posted"]
<1>1. /\ advance[a] = None /\ Posts(ok, source, p, lines) /\ advance' = Written(ok, advance, a, row)
      /\ UNCHANGED <<asset, payroll, expense, accountTransfer, giftCard, settlements, statement>>
  BY DEF ReceiveAdvance, documents
<1>2. CASE ~ok
  <2>1. journal' = journal /\ advance' = advance
    BY <1>1, <1>2, Posting DEF Written
  <2> QED BY <1>1, <2>1, Refused
<1>3. CASE ok
  <2>1. Adds(journal, journal', source, Rounded(lines)) /\ advance' = [advance EXCEPT ![a] = row]
    BY <1>1, <1>3, Posting DEF Written
  <2> HIDE DEF ok
  <2>2. "cash" # "advances" /\ (lines = <<Debit("cash", n), Credit("advances", n)>>
                                \/ lines = <<Credit("advances", n), Debit("cash", n)>>)
    OBVIOUS
  <2>3. row \in PaidRows /\ row # None /\ row.amount = n /\ row.payment # "reversed" /\ row.payment # None
    <3>1. row \in PaidRows
      BY DEF PaidRows
    <3> QED BY <3>1, InstrumentsAssumption
  <2> HIDE DEF row, lines
  <2>4. OnlyAt(journal, journal', source)
    BY <2>1, NewEntry
  <2>5. \A z : SumIn(journal', source, z) =
                 (IF z = "cash" THEN Units(n) ELSE IF z = "advances" THEN -Units(n) ELSE 0)
    BY <2>1, <2>2, PairEntry
  <2>6. Absent(journal', ReversalSource(a))
    <3>1. Absent(journal, ReversalSource(a)) /\ ReversalSource(a) # source
      BY <1>1 DEF BookInv, AdvancesTold, PaidTold, ReversalSource
    <3> QED BY <2>4, <3>1 DEF OnlyAt, Absent
  <2>7. PaidTold(journal', source, a, "advances", row)
    BY <2>3, <2>5, <2>6 DEF PaidTold
  <2>8. AdvancesTold(journal', advance')
    BY <2>1, <2>4, <2>7, AdvanceRow DEF BookInv
  <2>9. /\ (\A x \in Assets : AssetSource(x) # source) /\ (\A r \in Payrolls : PayrollSource(r) # source)
        /\ (\A x \in Expenses : <<"expense", x>> # source)
        /\ (\A t \in AccountTransfers : <<"account_transfer", t>> # source)
        /\ (\A g \in GiftCards : <<"gift_card", g>> # source /\ ReversalSource(g) # source)
        /\ (\A s : <<"courier_cod_settlement", s>> # source) /\ StatementSource # source
    BY DEF AssetSource, PayrollSource, ReversalSource, StatementSource
  <2> HIDE DEF source
  <2> QED BY <1>1, <2>4, <2>8, <2>9, RowsKept DEF BookInv
<1> QED BY <1>2, <1>3

(* A reversal takes back from the cash what the payment brought.           *)
LEMMA ReversedTold ==
  ASSUME NEW row, row # None, row.payment = "posted", NEW j, NEW source, NEW id, source # ReversalSource(id),
         NEW account, PaidTold(j, source, id, account, row),
         NEW counterparty, counterparty # "cash", NEW k, Adds(j, k, ReversalSource(id), Rounded(ReversalLines(row, counterparty)))
  PROVE  /\ PaidTold(k, source, id, account, ReversedRow(row))
         /\ ReversedRow(row) # None /\ ReversedRow(row).amount = row.amount
<1> DEFINE lines == ReversalLines(row, counterparty)
           n == row.amount
<1>1. row \in PaidRows /\ n \in Int /\ row.payment # None
  BY InstrumentsAssumption DEF PaidTold, PaidRows
<1>2. ReversedRow(row) \in PaidRows /\ ReversedRow(row).amount = n /\ ReversedRow(row).payment = "reversed"
  BY <1>1 DEF ReversedRow, PaidRows
<1>3. ReversedRow(row) # None /\ ReversedRow(row).payment # None
  BY <1>2, InstrumentsAssumption
<1>4. lines = <<Debit(counterparty, n), Credit("cash", n)>> \/ lines = <<Credit("cash", n), Debit(counterparty, n)>>
  BY DEF ReversalLines
<1>5. /\ SumIn(j, source, account) = -Units(n) /\ SumIn(j, source, "cash") = Units(n)
  BY <1>1 DEF PaidTold
<1> DEFINE at == ReversalSource(id)
<1>6. Adds(j, k, at, Rounded(lines)) /\ at = ReversalSource(id) /\ source # at
  OBVIOUS
<1> HIDE DEF lines, n, at
<1>7. SumIn(k, at, "cash") = -Units(n)
  BY <1>1, <1>4, <1>6, PairEntry
<1>8. EntriesIn(k, source) = EntriesIn(j, source)
  BY <1>6, NewEntry DEF OnlyAt
<1>9. SumIn(k, source, account) = -Units(n) /\ SumIn(k, source, "cash") = Units(n)
  BY <1>5, <1>8, SameEntries
<1> QED BY <1>2, <1>3, <1>6, <1>7, <1>9 DEF PaidTold, n

(* The entry of a reversal is that of no other payment, nor of a card's:   *)
(* every payment has an identifier of its own.                             *)
LEMMA ReverseAdvanceBooks ==
  ASSUME BookInv, NEW a \in Advances, ReverseAdvance(a), UNCHANGED statement
  PROVE  BookInv'
<1> DEFINE row == advance[a]
           lines == ReversalLines(row, "advances")
           source == ReversalSource(a)
           ok == Accepts(source, row.period, lines)
<1>1. /\ row # None /\ row.payment = "posted"
      /\ Posts(ok, source, row.period, lines) /\ advance' = Written(ok, advance, a, ReversedRow(row))
      /\ UNCHANGED <<asset, payroll, expense, accountTransfer, giftCard, settlements, statement>>
  BY DEF ReverseAdvance, documents
<1>2. CASE ~ok
  <2>1. journal' = journal /\ advance' = advance
    BY <1>1, <1>2, Posting DEF Written
  <2> QED BY <1>1, <2>1, Refused
<1>3. CASE ok
  <2>1. Adds(journal, journal', source, Rounded(lines)) /\ advance' = [advance EXCEPT ![a] = ReversedRow(row)]
    BY <1>1, <1>3, Posting DEF Written
  <2> HIDE DEF ok
  <2>2. PaidTold(journal, <<"payment", a>>, a, "advances", row) /\ <<"payment", a>> # ReversalSource(a)
        /\ "advances" # "cash"
    BY DEF BookInv, AdvancesTold, ReversalSource
  <2>3. PaidTold(journal', <<"payment", a>>, a, "advances", ReversedRow(row))
    BY <1>1, <2>1, <2>2, ReversedTold
  <2>4. OnlyAt(journal, journal', source)
    BY <2>1, NewEntry
  <2>5. AdvancesTold(journal', advance')
    BY <2>1, <2>3, <2>4, AdvanceRow DEF BookInv
  <2>6. /\ (\A x \in Assets : AssetSource(x) # source) /\ (\A r \in Payrolls : PayrollSource(r) # source)
        /\ (\A x \in Expenses : <<"expense", x>> # source)
        /\ (\A t \in AccountTransfers : <<"account_transfer", t>> # source)
        /\ (\A g \in GiftCards : <<"gift_card", g>> # source /\ ReversalSource(g) # source)
        /\ (\A s : <<"courier_cod_settlement", s>> # source) /\ StatementSource # source
    BY InstrumentsAssumption DEF AssetSource, PayrollSource, ReversalSource, StatementSource
  <2> HIDE DEF source
  <2> QED BY <1>1, <2>4, <2>5, <2>6, RowsKept DEF BookInv
<1> QED BY <1>2, <1>3

(* The same of the payment of a card.                                      *)
LEMMA ReverseCardBooks ==
  ASSUME BookInv, NEW g \in GiftCards, ReverseCardPayment(g), UNCHANGED statement
  PROVE  BookInv'
<1> DEFINE row == giftCard[g]
           lines == ReversalLines(row, "receivable")
           source == ReversalSource(g)
           ok == Accepts(source, row.period, lines)
<1>1. /\ row # None /\ row.payment = "posted"
      /\ Posts(ok, source, row.period, lines) /\ giftCard' = Written(ok, giftCard, g, ReversedRow(row))
      /\ UNCHANGED <<asset, payroll, expense, accountTransfer, advance, settlements, statement>>
  BY DEF ReverseCardPayment, documents
<1>2. CASE ~ok
  <2>1. journal' = journal /\ giftCard' = giftCard
    BY <1>1, <1>2, Posting DEF Written
  <2> QED BY <1>1, <2>1, Refused
<1>3. CASE ok
  <2>1. Adds(journal, journal', source, Rounded(lines)) /\ giftCard' = [giftCard EXCEPT ![g] = ReversedRow(row)]
    BY <1>1, <1>3, Posting DEF Written
  <2> HIDE DEF ok
  <2>2. /\ PaidTold(journal, <<"gift_card", g>>, g, "gift_cards", row) /\ <<"gift_card", g>> # ReversalSource(g)
        /\ "receivable" # "cash" /\ 10 * Units(row.amount) = row.amount
    BY <1>1 DEF BookInv, CardsTold, ReversalSource
  <2>3. PaidTold(journal', <<"gift_card", g>>, g, "gift_cards", ReversedRow(row))
    BY <1>1, <2>1, <2>2, ReversedTold
  <2>4. ReversedRow(row).amount = row.amount
    BY <1>1, <2>1, <2>2, ReversedTold
  <2>5. OnlyAt(journal, journal', source)
    BY <2>1, NewEntry
  <2>6. CardsTold(journal', giftCard')
    BY <2>1, <2>2, <2>3, <2>4, <2>5, CardRow DEF BookInv
  <2>7. /\ (\A x \in Assets : AssetSource(x) # source) /\ (\A r \in Payrolls : PayrollSource(r) # source)
        /\ (\A x \in Expenses : <<"expense", x>> # source)
        /\ (\A t \in AccountTransfers : <<"account_transfer", t>> # source)
        /\ (\A d \in Advances : <<"payment", d>> # source /\ ReversalSource(d) # source)
        /\ (\A s : <<"courier_cod_settlement", s>> # source) /\ StatementSource # source
    BY InstrumentsAssumption DEF AssetSource, PayrollSource, ReversalSource, StatementSource
  <2> HIDE DEF source
  <2> QED BY <1>1, <2>5, <2>6, <2>7, RowsKept DEF BookInv
<1> QED BY <1>2, <1>3

(* The lines of a settlement balance only without an adjustment, which is  *)
(* in what is settled and on a line of its own.                            *)
LEMMA SettlementLines ==
  ASSUME NEW gross \in Int, NEW fees \in Int, NEW extra \in Int, NEW net, net = gross - fees + extra,
         NEW lines, lines = <<Debit("cash", net), Debit("clearing", fees)>>
           \o (IF extra > 0 THEN <<Debit("clearing", extra)>> ELSE <<>>)
           \o (IF extra < 0 THEN <<Credit("clearing", -extra)>> ELSE <<>>)
           \o <<Credit("clearing", gross)>>,
         Residual(lines) = 0, NEW j, NEW k, NEW source, Adds(j, k, source, Rounded(lines))
  PROVE  Tells(k, source, "cash", net) /\ Tells(k, source, "clearing", fees - gross)
<1> DEFINE a == Debit("cash", net)
           b == Debit("clearing", fees)
           c == IF extra > 0 THEN Debit("clearing", extra) ELSE Credit("clearing", -extra)
           d == Credit("clearing", gross)
<1>1. net \in Int /\ -extra \in Int
  OBVIOUS
<1>2. /\ IsLine(a) /\ IsLine(b) /\ IsLine(d)
      /\ Signed(a) = net /\ Signed(b) = fees /\ Signed(d) = -gross
      /\ a.account = "cash" /\ b.account = "clearing"
      /\ \A z : /\ Moving(a, z) = (IF z = "cash" THEN net ELSE 0)
                /\ Moving(b, z) = (IF z = "clearing" THEN fees ELSE 0)
                /\ Moving(d, z) = (IF z = "clearing" THEN -gross ELSE 0)
  BY <1>1, LineMoves
<1>3. IsLine(c) /\ Signed(c) = extra
  BY <1>1, LineMoves
<1>4. extra = 0
  <2> SUFFICES ASSUME extra # 0 PROVE FALSE
    OBVIOUS
  <2>1. lines = <<a, b>> \o <<c>> \o <<d>>
    <3>1. CASE extra > 0
      <4>1. lines = <<a, b>> \o <<c>> \o <<>> \o <<d>>
        BY <3>1
      <4> HIDE DEF a, b, c, d
      <4> QED BY <4>1, JoinedThree, JoinedFour
    <3>2. CASE extra < 0
      <4>1. lines = <<a, b>> \o <<>> \o <<c>> \o <<d>>
        BY <3>2
      <4> HIDE DEF a, b, c, d
      <4> QED BY <4>1, JoinedTwo
    <3> QED BY <3>1, <3>2
  <2> HIDE DEF a, b, c, d
  <2>2. lines = <<a, b, c>> \o <<d>>
    BY <2>1, JoinedThree
  <2>3. AreFour(lines, a, b, c, d)
    BY <2>2, JoinedFour DEF AreFour
  <2>4. FourBalance(a, b, c, d)
    BY <1>2, <1>3, <2>3, LinesOfFour
  <2> QED BY <1>1, <1>2, <1>3, <2>4 DEF FourBalance
<1>5. lines = <<a, b>> \o <<>> \o <<>> \o <<d>>
  BY <1>4
<1> HIDE DEF a, b, c, d
<1>6. lines = <<a, b>> \o <<d>>
  BY <1>5, JoinedTwo
<1>7. AreThree(lines, a, b, d)
  BY <1>6, JoinedThree DEF AreThree
<1>8. "cash" # "rounding" /\ "clearing" # "rounding" /\ Elsewhere(a, "clearing") /\ Elsewhere(b, "cash")
  BY <1>2 DEF Elsewhere
<1>9. Tells(k, source, "cash", Moving(a, "cash") + Moving(b, "cash") + Moving(d, "cash"))
  BY <1>2, <1>7, <1>8, EntryOfThree
<1>10. Tells(k, source, "clearing", Moving(a, "clearing") + Moving(b, "clearing") + Moving(d, "clearing"))
  BY <1>2, <1>7, <1>8, EntryOfThree
<1>11. /\ Moving(a, "cash") + Moving(b, "cash") + Moving(d, "cash") = net
       /\ Moving(a, "clearing") + Moving(b, "clearing") + Moving(d, "clearing") = fees - gross
  <2>1. "cash" # "clearing"
    OBVIOUS
  <2>2. Moving(a, "cash") = net /\ Moving(b, "cash") = 0 /\ Moving(d, "cash") = 0
    BY ONLY <1>2, <2>1
  <2>3. Moving(a, "clearing") = 0 /\ Moving(b, "clearing") = fees /\ Moving(d, "clearing") = -gross
    BY ONLY <1>2, <2>1
  <2>4. /\ net + 0 + 0 = net
        /\ 0 + fees + (-gross) = fees - gross
    BY <1>1
  <2> QED BY ONLY <2>2, <2>3, <2>4
<1> QED BY <1>9, <1>10, <1>11

(* What is charged for each of so many deliveries.                         *)
LEMMA Times ==
  ASSUME NEW n \in Nat \ {0}, NEW cod \in Int, NEW fee \in Int, NEW adjustment \in Int
  PROVE  /\ n * cod \in Int /\ n * fee \in Int /\ n * adjustment \in Int
         /\ n * (cod - fee + adjustment) = n * cod - n * fee + n * adjustment
         /\ (adjustment > 0 <=> n * adjustment > 0) /\ (adjustment < 0 <=> n * adjustment < 0)
         /\ -n * adjustment = -(n * adjustment)
<1>1. n * cod \in Int /\ n * fee \in Int /\ n * adjustment \in Int
  OBVIOUS
<1>2. n * (cod - fee + adjustment) = n * cod - n * fee + n * adjustment
  OBVIOUS
<1>3. adjustment > 0 => n * adjustment > 0
  OBVIOUS
<1>4. adjustment < 0 => n * adjustment < 0
  OBVIOUS
<1>5. adjustment = 0 => n * adjustment = 0
  OBVIOUS
<1>6. -n * adjustment = -(n * adjustment)
  OBVIOUS
<1> QED BY <1>1, <1>2, <1>3, <1>4, <1>5, <1>6

(* A settlement is entered with what the courier hands over and keeps; the *)
(* settlements before it have sources of their own, for they have entries. *)
LEMMA SettleBooks ==
  ASSUME BookInv, NEW items \in (SUBSET Deliveries) \ {{}}, NEW cod \in Int, NEW fee \in Int,
         NEW adjustment \in Int, NEW p, SettleCod(items, cod, fee, adjustment, p), UNCHANGED statement
  PROVE  BookInv'
<1> DEFINE n == Cardinality(items)
           net == n * (cod - fee + adjustment)
           source == <<"courier_cod_settlement", items>>
           lines == <<Debit("cash", net), Debit("clearing", n * fee)>>
                      \o If(adjustment > 0, Debit("clearing", n * adjustment))
                      \o If(adjustment < 0, Credit("clearing", -n * adjustment))
                      \o <<Credit("clearing", n * cod)>>
           ok == net >= 0 /\ items \cap UNION {s.items : s \in settlements} = {} /\ Accepts(source, p, lines)
           settlement == [items |-> items, gross |-> n * cod, fee |-> n * fee, net |-> net]
<1>1. /\ Posts(ok, source, p, lines) /\ settlements' = IF ok THEN settlements \cup {settlement} ELSE settlements
      /\ UNCHANGED <<asset, payroll, expense, accountTransfer, giftCard, advance, statement>>
  BY DEF SettleCod, documents
<1>2. CASE ~ok
  <2>1. journal' = journal /\ settlements' = settlements
    BY <1>1, <1>2, Posting
  <2> QED BY <1>1, <2>1, Refused
<1>3. CASE ok
  <2>1. Adds(journal, journal', source, Rounded(lines)) /\ settlements' = settlements \cup {settlement}
    BY <1>1, <1>3, Posting
  <2>2. Residual(lines) = 0
    BY <1>3 DEF Accepts, Balanced
  <2> HIDE DEF ok
  <2>3. n \in Nat \ {0}
    <3>1. IsFiniteSet(items)
      BY InstrumentsAssumption, FS_Subset
    <3>2. Cardinality(items) \in Nat
      BY <3>1, FS_CardinalityType
    <3>3. Cardinality(items) # 0
      BY <3>1, FS_EmptySet
    <3> QED BY <3>2, <3>3
  <2> HIDE DEF n
  <2> DEFINE gross == n * cod
             fees == n * fee
             extra == n * adjustment
  <2>4. /\ gross \in Int /\ fees \in Int /\ extra \in Int /\ net = gross - fees + extra
        /\ (adjustment > 0 <=> extra > 0) /\ (adjustment < 0 <=> extra < 0) /\ -n * adjustment = -extra
    BY <2>3, Times
  <2>5. /\ settlement.items = items /\ settlement.net = net
        /\ settlement.gross = gross /\ settlement.fee = fees
    OBVIOUS
  <2>6. lines = <<Debit("cash", net), Debit("clearing", fees)>>
           \o (IF adjustment > 0 THEN <<Debit("clearing", extra)>> ELSE <<>>)
           \o (IF adjustment < 0 THEN <<Credit("clearing", -n * adjustment)>> ELSE <<>>)
           \o <<Credit("clearing", gross)>>
    BY DEF If
  <2> HIDE DEF gross, fees, extra, net, lines, settlement
  <2>7. lines = <<Debit("cash", net), Debit("clearing", fees)>>
           \o (IF extra > 0 THEN <<Debit("clearing", extra)>> ELSE <<>>)
           \o (IF extra < 0 THEN <<Credit("clearing", -extra)>> ELSE <<>>)
           \o <<Credit("clearing", gross)>>
    BY <2>4, <2>6
  <2>8. Tells(journal', source, "cash", net) /\ Tells(journal', source, "clearing", fees - gross)
    BY <2>1, <2>2, <2>4, <2>7, SettlementLines
  <2>9. OnlyAt(journal, journal', source) /\ Absent(journal, source) /\ ~Absent(journal', source)
    BY <2>1, NewEntry
  <2>10. SettlementTold(journal', settlement)
    BY <2>5, <2>8, <2>9 DEF SettlementTold
  <2>11. ASSUME NEW s \in settlements PROVE SettlementTold(journal', s)
    <3>1. SettlementTold(journal, s)
      BY DEF BookInv, SettlementsTold
    <3>2. <<"courier_cod_settlement", s.items>> # source
      BY <2>9, <3>1 DEF SettlementTold
    <3>3. EntriesIn(journal', <<"courier_cod_settlement", s.items>>) = EntriesIn(journal, <<"courier_cod_settlement", s.items>>)
      BY <2>9, <3>2 DEF OnlyAt
    <3> QED BY <3>1, <3>3, SameEntries DEF SettlementTold
  <2>12. SettlementsTold(journal', settlements')
    BY <2>1, <2>10, <2>11 DEF SettlementsTold
  <2>13. /\ (\A a \in Assets : AssetSource(a) # source) /\ (\A r \in Payrolls : PayrollSource(r) # source)
         /\ (\A x \in Expenses : <<"expense", x>> # source)
         /\ (\A t \in AccountTransfers : <<"account_transfer", t>> # source)
         /\ (\A g \in GiftCards : <<"gift_card", g>> # source /\ ReversalSource(g) # source)
         /\ (\A d \in Advances : <<"payment", d>> # source /\ ReversalSource(d) # source)
         /\ StatementSource # source
    BY DEF AssetSource, PayrollSource, ReversalSource, StatementSource
  <2> HIDE DEF source
  <2> QED BY <1>1, <2>9, <2>12, <2>13, RowsKept DEF BookInv
<1> QED BY <1>2, <1>3

(* The variance of the statement is posted once, on the side of its sign.  *)
LEMMA FinaliseBooks ==
  ASSUME BookInv, Finalise
  PROVE  BookInv'
<1> DEFINE v == statement.variance
           n == Size(v)
           gain == v > 0
           lines == IF gain THEN <<Debit("bank", n), Credit("rounding", n)>> ELSE <<Debit("rounding", n), Credit("bank", n)>>
           p == statement.period
           ok == Accepts(StatementSource, p, lines)
           varied == [statement EXCEPT !.status = "has_variance"]
           agreed == [statement EXCEPT !.status = "reconciled"]
<1>1. /\ statement.status \notin {"none", "reconciled"}
      /\ IF n > 10
         THEN Posts(ok, StatementSource, p, lines) /\ statement' = IF ok THEN varied ELSE statement
         ELSE statement' = agreed /\ UNCHANGED books
      /\ UNCHANGED <<asset, payroll, expense, accountTransfer, giftCard, advance, settlements>>
  BY DEF Finalise, documents, instruments
<1>2. /\ statement \in StatementRows /\ v \in Int /\ n \in Int
      /\ varied \in StatementRows /\ varied.status = "has_variance" /\ varied.variance = v
      /\ agreed \in StatementRows /\ agreed.status = "reconciled"
      /\ (gain => n = v) /\ (~gain => n = -v)
  BY DEF BookInv, StatementTold, StatementRows, Size
<1>3. CASE ~(n > 10)
  <2>1. journal' = journal /\ statement' = agreed
    BY <1>1, <1>3 DEF books
  <2>2. Absent(journal, StatementSource)
    BY <1>3 DEF BookInv, StatementTold
  <2>3. StatementTold(journal', statement')
    BY <1>2, <2>1, <2>2 DEF StatementTold
  <2> QED BY <1>1, <2>1, <2>3 DEF BookInv
<1>4. CASE n > 10 /\ ~ok
  <2>1. journal' = journal /\ statement' = statement
    BY <1>1, <1>4, Posting
  <2> QED BY <1>1, <2>1, Refused
<1>5. CASE n > 10 /\ ok
  <2>1. Adds(journal, journal', StatementSource, Rounded(lines)) /\ statement' = varied
    BY <1>1, <1>5, Posting
  <2>2. "bank" # "rounding"
    OBVIOUS
  <2>3. \/ gain /\ lines = <<Debit("bank", n), Credit("rounding", n)>>
        \/ ~gain /\ lines = <<Debit("rounding", n), Credit("bank", n)>>
    OBVIOUS
  <2>4. Size(varied.variance) > 10
    BY <1>2, <1>5
  <2> HIDE DEF ok, lines, n, v, gain, varied
  <2>5. OnlyAt(journal, journal', StatementSource) /\ ~Absent(journal', StatementSource)
    BY <2>1, NewEntry
  <2>6. Tells(journal', StatementSource, "bank", v)
    <3>1. Units(n) \in Int /\ 10 * Units(n) - n \in -5..5
      BY <1>2, UnitsNear
    <3>2. CASE gain /\ lines = <<Debit("bank", n), Credit("rounding", n)>>
      <4>1. SumIn(journal', StatementSource, "bank") = Units(n)
        BY <1>2, <2>1, <2>2, <3>2, PairEntry
      <4> QED BY <1>2, <3>1, <3>2, <4>1 DEF Tells
    <3>3. CASE ~gain /\ lines = <<Debit("rounding", n), Credit("bank", n)>>
      <4>1. SumIn(journal', StatementSource, "bank") = -Units(n)
        BY <1>2, <2>1, <2>2, <3>3, PairEntry
      <4> QED BY <1>2, <3>1, <3>3, <4>1 DEF Tells
    <3> QED BY <2>3, <3>2, <3>3
  <2>7. StatementTold(journal', statement')
    BY <1>2, <2>1, <2>4, <2>5, <2>6 DEF StatementTold
  <2> DEFINE source == StatementSource
  <2>8. /\ (\A a \in Assets : AssetSource(a) # source) /\ (\A r \in Payrolls : PayrollSource(r) # source)
        /\ (\A x \in Expenses : <<"expense", x>> # source)
        /\ (\A t \in AccountTransfers : <<"account_transfer", t>> # source)
        /\ (\A g \in GiftCards : <<"gift_card", g>> # source /\ ReversalSource(g) # source)
        /\ (\A d \in Advances : <<"payment", d>> # source /\ ReversalSource(d) # source)
        /\ (\A s : <<"courier_cod_settlement", s>> # source)
    BY DEF AssetSource, PayrollSource, ReversalSource, StatementSource
  <2>9. OnlyAt(journal, journal', source)
    BY <2>5
  <2> HIDE DEF source
  <2> QED BY <1>1, <2>7, <2>8, <2>9, RowsKept DEF BookInv
<1> QED BY <1>3, <1>4, <1>5

(* Whatever is posted to the ledger,                                       *)
LEMMA PostBooks ==
  ASSUME BookInv, NEW p \in Periods, Post(p), UNCHANGED <<instruments, statement>>
  PROVE  BookInv'
<1>1. CASE \E a \in Assets : \E n \in Amounts :
             \/ \E salvage \in {0, n} : Acquire(a, n, salvage, p)
             \/ Depreciate(a, n, p) \/ Dispose(a, n, p)
  <2>1. PICK a \in Assets : \E n \in Amounts :
             \/ \E salvage \in {0, n} : Acquire(a, n, salvage, p)
             \/ Depreciate(a, n, p) \/ Dispose(a, n, p)
    BY <1>1
  <2>2. PICK n \in Amounts :
             \/ \E salvage \in {0, n} : Acquire(a, n, salvage, p)
             \/ Depreciate(a, n, p) \/ Dispose(a, n, p)
    BY <2>1
  <2> QED BY <2>2, AcquireBooks, DepreciateBooks, DisposeBooks
<1>2. CASE \E r \in Payrolls :
             \/ \E gross \in Amounts, deductions \in {0, 10} : PostPayroll(r, gross, deductions, p)
             \/ PayPayroll(r, p)
  BY <1>2, PostPayrollBooks, PayPayrollBooks
<1>3. CASE \E x \in Expenses, m \in Amounts, n \in Amounts, tax \in {0, 10} : PostExpense(x, <<m, n>>, tax, p)
  BY <1>3, PostExpenseBooks
<1>4. CASE \E n \in Amounts : PostManually(n, p)
  BY <1>4, PostManuallyBooks
<1> QED BY <1>1, <1>2, <1>3, <1>4 DEF Post

(* whoever closes a period meanwhile,                                      *)
LEMMA CloseBooks ==
  ASSUME BookInv, NEW v \in Reviewers, Close(v), UNCHANGED <<instruments, statement>>
  PROVE  BookInv'
<1>1. UNCHANGED <<books, documents>>
  BY DEF Close, StartClose, StartLock, StartUnlock, Check, SoftLock, CheckLastRun, Lock, Unlock, Abandon
<1> QED BY <1>1, Refused DEF books, documents, instruments

(* and however money moves beside it, the books follow.                    *)
LEMMA InstrumentsBooks ==
  ASSUME BookInv, InstrumentsNext, UNCHANGED <<statement, line>>
  PROVE  BookInv'
<1>1. CASE LedgerNext /\ UNCHANGED instruments
  BY <1>1, PostBooks, CloseBooks DEF LedgerNext
<1>2. CASE \E p \in Periods, n \in Amounts, fee \in Fees \cup {0} :
       \/ \E t \in AccountTransfers, to \in {n, n - fee}, hasClearing \in BOOLEAN :
            to > 0 /\ TransferAccount(t, n, to, fee, hasClearing, p)
       \/ \E items \in (SUBSET Deliveries) \ {{}}, adjustment \in {-fee, 0, fee} : SettleCod(items, n, fee, adjustment, p)
  <2>1. PICK p \in Periods, n \in Amounts, fee \in Fees \cup {0} :
       \/ \E t \in AccountTransfers, to \in {n, n - fee}, hasClearing \in BOOLEAN :
            to > 0 /\ TransferAccount(t, n, to, fee, hasClearing, p)
       \/ \E items \in (SUBSET Deliveries) \ {{}}, adjustment \in {-fee, 0, fee} : SettleCod(items, n, fee, adjustment, p)
    BY <1>2
  <2>2. n \in Int /\ fee \in Int /\ n - fee \in Int /\ -fee \in Int
    BY LedgerAssumption, InstrumentsAssumption
  <2>3. CASE \E t \in AccountTransfers, to \in {n, n - fee}, hasClearing \in BOOLEAN :
               to > 0 /\ TransferAccount(t, n, to, fee, hasClearing, p)
    <3>1. PICK t \in AccountTransfers, to \in {n, n - fee}, hasClearing \in BOOLEAN :
               TransferAccount(t, n, to, fee, hasClearing, p)
      BY <2>3
    <3>2. to \in Int
      BY <2>2
    <3> QED BY <2>2, <3>1, <3>2, TransferBooks
  <2>4. CASE \E items \in (SUBSET Deliveries) \ {{}}, adjustment \in {-fee, 0, fee} :
               SettleCod(items, n, fee, adjustment, p)
    <3>1. PICK items \in (SUBSET Deliveries) \ {{}}, adjustment \in {-fee, 0, fee} :
               SettleCod(items, n, fee, adjustment, p)
      BY <2>4
    <3>2. adjustment \in Int
      BY <2>2
    <3> QED BY <2>2, <3>1, <3>2, SettleBooks
  <2> QED BY <2>1, <2>3, <2>4
<1>3. CASE \E p \in Periods, n \in Amounts :
       \/ \E g \in GiftCards, mode \in {"sold", "promotional"} : IssueGiftCard(g, mode, 10 * Units(n), p)
       \/ \E a \in Advances : ReceiveAdvance(a, n, p)
  <2>1. PICK p \in Periods, n \in Amounts :
       \/ \E g \in GiftCards, mode \in {"sold", "promotional"} : IssueGiftCard(g, mode, 10 * Units(n), p)
       \/ \E a \in Advances : ReceiveAdvance(a, n, p)
    BY <1>3
  <2>2. n \in Int
    BY LedgerAssumption
  <2> QED BY <2>1, <2>2, CardBooks, AdvanceBooks
<1>4. CASE \E a \in Advances : ReverseAdvance(a)
  BY <1>4, ReverseAdvanceBooks
<1>5. CASE \E g \in GiftCards : ReverseCardPayment(g)
  BY <1>5, ReverseCardBooks
<1> QED BY <1>1, <1>2, <1>3, <1>4, <1>5 DEF InstrumentsNext

(* Every step keeps the invariant, and it holds before the first.          *)
LEMMA BooksStep == BookInv /\ [ReconciliationNext]_reconciliationVars => BookInv'
<1> SUFFICES ASSUME BookInv, [ReconciliationNext]_reconciliationVars PROVE BookInv'
  OBVIOUS
<1>1. CASE InstrumentsNext /\ UNCHANGED <<statement, line>>
  BY <1>1, InstrumentsBooks
<1>2. CASE \E p \in Periods, v \in Variances : Create(p, v)
  <2>1. PICK p \in Periods, v \in Variances : Create(p, v)
    BY <1>2
  <2>2. /\ statement.status = "none" /\ UNCHANGED instrumentVars
        /\ statement' = [status |-> "in_progress", variance |-> v, period |-> p]
    BY <2>1 DEF Create
  <2>3. statement' \in StatementRows /\ statement'.status = "in_progress" /\ Absent(journal, StatementSource)
    BY <2>2, LinesAssumption DEF StatementRows, BookInv, StatementTold
  <2>4. UNCHANGED <<journal, asset, payroll, expense, accountTransfer, giftCard, advance, settlements>>
    BY <2>2 DEF instrumentVars, ledgerVars, instruments
  <2>5. StatementTold(journal', statement')
    BY <2>3, <2>4 DEF StatementTold
  <2> QED BY <2>4, <2>5 DEF BookInv
<1>3. ASSUME UNCHANGED <<instrumentVars, statement>> PROVE BookInv'
  BY <1>3, Refused DEF instrumentVars, ledgerVars, instruments
<1>4. CASE \E new \in SUBSET StatementLines : AddStatementLines(new)
  BY <1>3, <1>4 DEF AddStatementLines
<1>5. CASE AutoMatch
  BY <1>3, <1>5 DEF AutoMatch
<1>6. CASE \E s \in SystemLines, t \in StatementLines : ManualMatch(s, t)
  BY <1>3, <1>6 DEF ManualMatch
<1>7. CASE Finalise
  BY <1>7, FinaliseBooks
<1>8. CASE UNCHANGED reconciliationVars
  BY <1>3, <1>8 DEF reconciliationVars
<1> QED BY <1>1, <1>2, <1>4, <1>5, <1>6, <1>7, <1>8 DEF ReconciliationNext

(* Before the first step there are neither documents nor entries.          *)
LEMMA BooksBegin == ReconciliationInit => BookInv
<1> SUFFICES ASSUME ReconciliationInit PROVE BookInv
  OBVIOUS
<1>1. \A source : Absent(journal, source)
  BY DEF ReconciliationInit, InstrumentsInit, LedgerInit, Absent, EntriesIn
<1>2. statement \in StatementRows /\ statement.status = "none"
  BY DEF ReconciliationInit, StatementRows
<1>3. AssetsTold(journal, asset) /\ PayrollsTold(journal, payroll) /\ ExpensesTold(journal, expense)
  BY <1>1 DEF ReconciliationInit, InstrumentsInit, LedgerInit, AssetsTold, PayrollsTold, ExpensesTold,
              AssetTold, PayrollTold, ExpenseTold
<1>4. TransfersTold(journal, accountTransfer) /\ CardsTold(journal, giftCard) /\ AdvancesTold(journal, advance)
  BY <1>1 DEF ReconciliationInit, InstrumentsInit, TransfersTold, CardsTold, AdvancesTold, TransferTold, PaidTold
<1>5. SettlementsTold(journal, settlements) /\ StatementTold(journal, statement)
  BY <1>1, <1>2 DEF ReconciliationInit, InstrumentsInit, SettlementsTold, StatementTold
<1> QED BY <1>3, <1>4, <1>5 DEF BookInv

(* What the documents say is what the journal says, to the rounding of an  *)
(* entry's lines: the register of assets, the payroll runs, the expenses,  *)
(* transfers, cards, advances, settlements and the statement's variance    *)
(* (PostJournalEntry.ts:174, AssetManagement.ts:270-277,                   *)
(* PostExpense.ts:62, PostPayrollRun.ts:68, PostCourierCodSettlement.ts:64 *)
(* and the commands of m3, m4 and m6), for any number of each and any      *)
(* amounts, with and without an account for rounding.                      *)
THEOREM BooksStayWithDocuments == ReconciliationSpec => []BooksFollowDocuments
BY BooksBegin, BooksStep, BooksAgreeWithDocuments, PTL DEF ReconciliationSpec
=============================================================================
