------------------------------- MODULE Outbox -------------------------------
(***************************************************************************)
(* The webhook outbox (src/workers/outboxWorker.ts).                       *)
(*                                                                         *)
(* Several runners drain one table.  A run of processOutboxBatch reads the *)
(* due events with the endpoints of their company, then takes them one by  *)
(* one: it claims the event by a conditional update that hides it for a    *)
(* lease, sends it to the subscribed endpoints in turn, and records what   *)
(* became of it.  No step is in a transaction with another.  A runner may  *)
(* die at any of them and may outlive its lease, which runs from the       *)
(* moment the batch began and not from the claim; an answer may be lost    *)
(* after the endpoint took the event.                                      *)
(*                                                                         *)
(* Times are relative: wait is how long an event is still hidden, age how  *)
(* long ago a batch began.  A claim compares next_attempt_at with the      *)
(* value read.  Every write moves it forward, so the comparison says that  *)
(* nobody wrote since: fresh are the events a runner would still find so.  *)
(*                                                                         *)
(* One company; every endpoint subscribes to every event and stays active. *)
(* No code of the repository writes an outbox event yet (the tests do), so *)
(* an event and an endpoint may appear at any moment.                      *)
(***************************************************************************)
EXTENDS Integers, FiniteSets

CONSTANTS
  Events, Endpoints, Runners,
  Undecipherable,   \* endpoints whose secret cannot be decrypted
  Lease,            \* OUTBOX_LEASE_MS, in ticks
  Backoffs,         \* what computeBackoff may answer, in ticks
  MaxAttempts,
  MaxCrashes,       \* bound: runners that die
  None

ASSUME OutboxAssumption ==
  /\ Undecipherable \subseteq Endpoints
  /\ Lease \in Nat \ {0} /\ Backoffs \subseteq Nat \ {0}
  /\ MaxAttempts \in Nat \ {0} /\ MaxCrashes \in Nat
  /\ None \notin Events \cup Endpoints

VARIABLES
  active,                     \* webhook_endpoints
  status, attempts, wait,     \* outbox_events
  delivery,                   \* status of the webhook_deliveries row
  job, fresh,                 \* a runner's batch
  owed, got,                  \* history: registered before the event; has received it
  overran,                    \* history: events worked on beyond the lease
  crashes

outbox == <<status, attempts, wait>>
ghosts == <<owed, got, overran>>
vars == <<active, outbox, delivery, job, fresh, ghosts, crashes>>
-----------------------------------------------------------------------------
Statuses == {"none", "pending", "published", "skipped", "dead_letter"}
Rows == {"none", "pending", "failed", "delivered"}
Steps == {"idle", "next", "claimed", "create", "post", "accepted", "refused"}

Job == [at : Steps,
        batch : SUBSET Events,        \* still to be claimed
        read : [Events -> Nat],       \* attempts, when the batch was read
        targets : SUBSET Endpoints,   \* active, when the batch was read
        age : 0..Lease,
        event : Events \cup {None},
        left : SUBSET Endpoints,      \* still to be sent to
        to : Endpoints \cup {None},
        failed : BOOLEAN]

NoJob == [at |-> "idle", batch |-> {}, read |-> [e \in Events |-> 0], targets |-> {}, age |-> 0,
          event |-> None, left |-> {}, to |-> None, failed |-> FALSE]

Init ==
  /\ active = {}
  /\ status = [e \in Events |-> "none"]
  /\ attempts = [e \in Events |-> 0]
  /\ wait = [e \in Events |-> 0]
  /\ delivery = [e \in Events |-> [p \in Endpoints |-> "none"]]
  /\ job = [r \in Runners |-> NoJob]
  /\ fresh = [r \in Runners |-> {}]
  /\ owed = [e \in Events |-> {}]
  /\ got = [e \in Events |-> {}]
  /\ overran = {}
  /\ crashes = 0
-----------------------------------------------------------------------------
(***************************************************************************)
(* The writers of the table                                                *)
(***************************************************************************)
Register(p) ==
  /\ p \notin active
  /\ active' = active \cup {p}
  /\ UNCHANGED <<outbox, delivery, job, fresh, ghosts, crashes>>

Emit(e) ==
  /\ status[e] = "none"
  /\ status' = [status EXCEPT ![e] = "pending"]
  /\ owed' = [owed EXCEPT ![e] = active]
  /\ UNCHANGED <<active, attempts, wait, delivery, job, fresh, got, overran, crashes>>
-----------------------------------------------------------------------------
(***************************************************************************)
(* processOutboxBatch                                                      *)
(***************************************************************************)
Goes(r, j) == job' = [job EXCEPT ![r] = j]

Due == {e \in Events : status[e] = "pending" /\ wait[e] = 0}

Poll(r) ==
  /\ job[r].at = "idle" /\ Due # {}
  /\ Goes(r, [NoJob EXCEPT !.at = "next", !.batch = Due, !.read = attempts, !.targets = active])
  /\ fresh' = [fresh EXCEPT ![r] = Due]
  /\ UNCHANGED <<active, outbox, delivery, ghosts, crashes>>

(* next_attempt_at of e is written: what anybody read of it is out of date. *)
Postpone(e, ticks) ==
  /\ wait' = [wait EXCEPT ![e] = ticks]
  /\ fresh' = [r \in Runners |-> fresh[r] \ {e}]

\* seeded fault: the claim asks only whether the event is pending
ClaimablePending(r, e) == status[e] = "pending"

Claimable(r, e) == status[e] = "pending" /\ e \in fresh[r]

Claim(r, e) ==
  /\ job[r].at = "next" /\ e \in job[r].batch
  /\ Claimable(r, e)
  /\ Postpone(e, Lease - job[r].age)
  /\ Goes(r, [job[r] EXCEPT !.at = "claimed", !.batch = @ \ {e}, !.event = e,
                            !.left = job[r].targets, !.failed = FALSE])
  /\ overran' = IF job[r].age = Lease THEN overran \cup {e} ELSE overran
  /\ UNCHANGED <<active, status, attempts, delivery, owed, got, crashes>>

(* Another runner has it.                                                  *)
LoseClaim(r, e) ==
  /\ job[r].at = "next" /\ e \in job[r].batch
  /\ ~ Claimable(r, e)
  /\ Goes(r, [job[r] EXCEPT !.batch = @ \ {e}])
  /\ UNCHANGED <<active, outbox, delivery, fresh, ghosts, crashes>>

EndBatch(r) ==
  /\ job[r].at = "next" /\ job[r].batch = {}
  /\ Goes(r, NoJob)
  /\ fresh' = [fresh EXCEPT ![r] = {}]
  /\ UNCHANGED <<active, outbox, delivery, ghosts, crashes>>

(* Done with the event, whatever its row says.                             *)
Leave(r) == Goes(r, [job[r] EXCEPT !.at = "next", !.event = None, !.failed = FALSE])

(* Nobody subscribes.  The one update that does not ask for 'pending'.     *)
Skip(r) ==
  /\ job[r].at = "claimed" /\ job[r].targets = {}
  /\ status' = [status EXCEPT ![job[r].event] = "skipped"]
  /\ Leave(r)
  /\ UNCHANGED <<active, attempts, wait, delivery, fresh, ghosts, crashes>>
-----------------------------------------------------------------------------
(***************************************************************************)
(* deliverWebhook                                                          *)
(***************************************************************************)
Row(r) == delivery[job[r].event][job[r].to]

Write(r, s) == delivery' = [delivery EXCEPT ![job[r].event][job[r].to] = s]

\* seeded fault: the row is only asked whether it exists
SeenRow(e, p) == IF delivery[e][p] = "none" THEN "create" ELSE "post"

(* What comes of the look at the row: the step, and whether it failed.     *)
Seen(e, p) ==
  CASE delivery[e][p] = "delivered" -> "claimed"
    [] delivery[e][p] # "delivered" /\ p \in Undecipherable -> "claimed"
    [] delivery[e][p] = "none" /\ p \notin Undecipherable -> "create"
    [] OTHER -> "post"

Unusable(e, p) == delivery[e][p] # "delivered" /\ p \in Undecipherable

Look(r, p) ==
  LET e == job[r].event IN
  /\ job[r].at = "claimed" /\ p \in job[r].left
  /\ Goes(r, [job[r] EXCEPT !.at = Seen(e, p), !.left = @ \ {p},
                            !.to = IF Seen(e, p) = "claimed" THEN None ELSE p,
                            !.failed = @ \/ Unusable(e, p)])
  /\ UNCHANGED <<active, outbox, delivery, fresh, ghosts, crashes>>

CreateRow(r) ==
  /\ job[r].at = "create" /\ Row(r) = "none"
  /\ Write(r, "pending")
  /\ Goes(r, [job[r] EXCEPT !.at = "post"])
  /\ UNCHANGED <<active, outbox, fresh, ghosts, crashes>>

(* The unique key refuses a second row, and the whole batch is thrown away. *)
ThrowBatch(r) ==
  /\ job[r].at = "create" /\ Row(r) # "none"
  /\ Goes(r, NoJob)
  /\ fresh' = [fresh EXCEPT ![r] = {}]
  /\ UNCHANGED <<active, outbox, delivery, ghosts, crashes>>

(* The endpoint takes the event or not, and may take it without a word.    *)
Post(r, took, answered) ==
  /\ job[r].at = "post"
  /\ answered => took
  /\ got' = IF took THEN [got EXCEPT ![job[r].event] = @ \cup {job[r].to}] ELSE got
  /\ Goes(r, [job[r] EXCEPT !.at = IF answered THEN "accepted" ELSE "refused"])
  /\ UNCHANGED <<active, outbox, delivery, fresh, owed, overran, crashes>>

\* seeded fault: the failure is written on the row and forgotten
RecordOnly(r) ==
  /\ job[r].at \in {"accepted", "refused"}
  /\ Write(r, IF job[r].at = "accepted" THEN "delivered" ELSE "failed")
  /\ Goes(r, [job[r] EXCEPT !.at = "claimed", !.to = None])
  /\ UNCHANGED <<active, outbox, fresh, ghosts, crashes>>

Record(r) ==
  /\ job[r].at \in {"accepted", "refused"}
  /\ Write(r, IF job[r].at = "accepted" THEN "delivered" ELSE "failed")
  /\ Goes(r, [job[r] EXCEPT !.at = "claimed", !.to = None,
                            !.failed = @ \/ job[r].at = "refused"])
  /\ UNCHANGED <<active, outbox, fresh, ghosts, crashes>>
-----------------------------------------------------------------------------
(***************************************************************************)
(* What became of the event                                                *)
(***************************************************************************)
Done(r) == job[r].at = "claimed" /\ job[r].targets # {} /\ job[r].left = {}

Settle(r, s) ==
  LET e == job[r].event IN
  status' = IF status[e] = "pending" THEN [status EXCEPT ![e] = s] ELSE status

Publish(r) ==
  /\ Done(r) /\ ~ job[r].failed
  /\ Settle(r, "published")
  /\ Leave(r)
  /\ UNCHANGED <<active, attempts, wait, delivery, fresh, ghosts, crashes>>

Attempt(r) == job[r].read[job[r].event] + 1

Count(r) ==
  LET e == job[r].event IN
  attempts' = IF status[e] = "pending" THEN [attempts EXCEPT ![e] = Attempt(r)] ELSE attempts

DeadLetter(r) ==
  /\ Done(r) /\ job[r].failed /\ Attempt(r) >= MaxAttempts
  /\ Settle(r, "dead_letter") /\ Count(r)
  /\ Leave(r)
  /\ UNCHANGED <<active, wait, delivery, fresh, ghosts, crashes>>

\* seeded fault: the failed attempt is not counted
RetryUncounted(r) ==
  LET e == job[r].event IN
  /\ Done(r) /\ job[r].failed /\ Attempt(r) < MaxAttempts
  /\ IF status[e] = "pending" THEN \E b \in Backoffs : Postpone(e, b) ELSE UNCHANGED <<wait, fresh>>
  /\ Leave(r)
  /\ UNCHANGED <<active, status, attempts, delivery, ghosts, crashes>>

(* Writes over the lease of whoever holds the event now, if it is late.    *)
Retry(r) ==
  LET e == job[r].event IN
  /\ Done(r) /\ job[r].failed /\ Attempt(r) < MaxAttempts
  /\ Count(r)
  /\ IF status[e] = "pending" THEN \E b \in Backoffs : Postpone(e, b) ELSE UNCHANGED <<wait, fresh>>
  /\ Leave(r)
  /\ UNCHANGED <<active, status, delivery, ghosts, crashes>>
-----------------------------------------------------------------------------
Crash(r) ==
  /\ job[r].at # "idle" /\ crashes < MaxCrashes
  /\ Goes(r, NoJob)
  /\ fresh' = [fresh EXCEPT ![r] = {}]
  /\ crashes' = crashes + 1
  /\ UNCHANGED <<active, outbox, delivery, ghosts>>

Aged(r) == IF job[r].at = "idle" \/ job[r].age = Lease THEN job[r].age ELSE job[r].age + 1

Tick ==
  /\ wait' = [e \in Events |-> IF wait[e] = 0 THEN 0 ELSE wait[e] - 1]
  /\ job' = [r \in Runners |-> [job[r] EXCEPT !.age = Aged(r)]]
  /\ overran' = overran \cup ({job[r].event : r \in {q \in Runners : Aged(q) = Lease}} \ {None})
  /\ UNCHANGED <<active, status, attempts, delivery, fresh, owed, got, crashes>>

Deliver(r) ==
  \/ \E p \in job[r].left : Look(r, p)
  \/ CreateRow(r) \/ ThrowBatch(r)
  \/ \E took, answered \in BOOLEAN : Post(r, took, answered)
  \/ Record(r)

Step(r) ==
  \/ \E e \in job[r].batch : Claim(r, e) \/ LoseClaim(r, e)
  \/ EndBatch(r)
  \/ Skip(r) \/ Publish(r) \/ DeadLetter(r) \/ Retry(r)
  \/ Deliver(r)

Next ==
  \/ \E p \in Endpoints : Register(p)
  \/ \E e \in Events : Emit(e)
  \/ \E r \in Runners : Poll(r) \/ Step(r) \/ Crash(r)
  \/ Tick

(* Every await of a batch returns, the post at the latest by its time-out; *)
(* time passes.  That somebody polls is left to EveryEventSettles.         *)
Fairness ==
  /\ \A r \in Runners : WF_vars(Step(r))
  /\ WF_vars(Tick)

Spec == Init /\ [][Next]_vars
FairSpec == Spec /\ Fairness
-----------------------------------------------------------------------------
TypeOK ==
  /\ active \subseteq Endpoints
  /\ status \in [Events -> Statuses]
  /\ attempts \in [Events -> 0..MaxAttempts]
  /\ wait \in [Events -> Nat]
  /\ delivery \in [Events -> [Endpoints -> Rows]]
  /\ job \in [Runners -> Job]
  /\ fresh \in [Runners -> SUBSET Events]
  /\ owed \in [Events -> SUBSET Endpoints]
  /\ got \in [Events -> SUBSET Endpoints]
  /\ overran \subseteq Events
  /\ crashes \in 0..MaxCrashes

(* As long as no batch outlives its lease, an event is in the hands of one *)
(* runner: a retry that is due, a crash and a new claim never bring two    *)
(* together (the conditional claim of processOutboxBatch).                 *)
OneRunnerPerEvent ==
  \A e \in Events \ overran : \A q, r \in Runners :
    job[q].event = e /\ job[r].event = e => q = r

(* As long as no batch outlives its lease, an endpoint that confirmed an   *)
(* event is never sent it again and its row never says otherwise, through  *)
(* the retries for the other endpoints and the crashes of runners          *)
(* (deliverWebhook: an endpoint that already received the event ...).      *)
ConfirmedIsFinal ==
  [][\A e \in Events \ overran', p \in Endpoints : delivery[e][p] = "delivered" =>
       /\ delivery'[e][p] = "delivered"
       /\ \A r \in Runners : job'[r].at = "post" => <<job'[r].event, job'[r].to>> # <<e, p>>]_vars

(* The outbox implements EventDelivery: an event is published only when    *)
(* every endpoint registered before it has it, dropped only when there was *)
(* none, and neither a late runner nor a dead one changes its outcome.     *)
Delivery == INSTANCE EventDelivery WITH outcome <- status
ImplementsDelivery == Delivery!Spec

(* Due events do not stay unread for ever.  The interval timer of          *)
(* startOutboxWorker sees to it in development.  In production it returns  *)
(* before it sets the timer, and no code adds the jobs that the worker of  *)
(* workers/index.ts runs a batch for: there it is up to the operator.      *)
SomebodyPolls == []<>(Due = {} \/ \E r \in Runners : job[r].at # "idle")

(* If somebody keeps polling, every event is published, given up or        *)
(* dropped in the end, whichever endpoint never answers and however late   *)
(* runners overwrite each other's count of attempts: endpoints that never  *)
(* answer are not tried for ever.                                          *)
EveryEventSettles ==
  SomebodyPolls =>
    \A e \in Events : status[e] = "pending" ~> status[e] \in {"published", "skipped", "dead_letter"}
=============================================================================
