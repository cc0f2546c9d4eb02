--------------------------- MODULE OutboundMessages ---------------------------
(***************************************************************************)
(* The text messages of a company, from the request to the provider        *)
(* (src/domain/receivables/reminders.ts, src/domain/communication/         *)
(* campaigns.ts, the tick of src/workers/dueReminders.ts).                 *)
(*                                                                         *)
(* A message is queued by one of four routes and sent by a job of several  *)
(* workers: claim, check, call the provider outside any transaction,       *)
(* record the outcome.  The provider cannot be asked whether it took a     *)
(* message.  Between any two of those steps the worker may die, the tick   *)
(* may take it for dead, and staff may settle what the tick gave up.       *)
(*                                                                         *)
(* There is no clock: a worker may be as slow as it likes, so a send may   *)
(* always be older than the ten minutes after which it is recovered, and a *)
(* retry delay may always be over.  The messages are those queued on one   *)
(* day of the company, whose daily limits start afresh at midnight: every  *)
(* createdAt is today, and claimedAt is today or, in the queue, null.      *)
(* What blockReason reads (installment, sale, balance, policy, consent) is *)
(* not modelled: any check may find any reason to stop.                    *)
(***************************************************************************)
EXTENDS Integers, FiniteSets

CONSTANTS
  Workers,
  Reminders, Manuals, Bulks, Marketing,  \* the messages, by trigger_source
  Campaigns,
  InstallmentOf,  \* of a manual reminder
  CampaignOf,     \* of a marketing message
  CustomerOf,     \* of any message: the customer and the number it goes to
  CustomerLimit, CompanyLimit,           \* messages a day
  MaxRetries,     \* the length of RETRY_DELAYS_MS
  MaxMessages,    \* bound: the messages ever planned or queued
  None            \* no message

Messages == Reminders \cup Manuals \cup Bulks \cup Marketing

ASSUME MessagesAssumption ==
  /\ IsFiniteSet(Messages) /\ None \notin Messages
  /\ Reminders \cap (Manuals \cup Bulks \cup Marketing) = {}
  /\ Manuals \cap (Bulks \cup Marketing) = {} /\ Bulks \cap Marketing = {}
  /\ DOMAIN InstallmentOf = Manuals /\ DOMAIN CustomerOf = Messages
  /\ CampaignOf \in [Marketing -> Campaigns]
  /\ CustomerLimit \in Nat /\ CompanyLimit \in Nat
  /\ MaxRetries \in Nat /\ MaxMessages \in Nat

VARIABLES
  occurrence,                          \* reminder_occurrences
  status, attempts,                    \* outbound_messages
  tracked,                             \* messages with a provider_message_id
  campaign,                            \* communication_campaigns
  at, job,                             \* a send job: where it is, its message
  taken                                \* the provider: how often it took a message

messages == <<status, attempts, tracked>>
jobs == <<at, job>>
vars == <<occurrence, messages, campaign, jobs, taken>>
-----------------------------------------------------------------------------
Waiting == {"queued", "sending"}
Counted == {"sending", "sent", "delivered", "unknown"}
NotSent == {"cancelled", "skipped", "failed"}
Statuses == {"none", "dead_letter"} \cup Waiting \cup Counted \cup NotSent

(* What a job has decided or been told, to be written by its finish.       *)
Outcomes == {"skipped", "cancelled", "failed", "sent", "unknown", "dead_letter", "retry", "defer"}
Steps == {"idle", "claimed", "send"} \cup Outcomes

Init ==
  /\ occurrence = [m \in Reminders |-> "none"]
  /\ status = [m \in Messages |-> "none"]
  /\ attempts = [m \in Messages |-> 0]
  /\ tracked = {}
  /\ campaign = [c \in Campaigns |-> "draft"]
  /\ at = [w \in Workers |-> "idle"]
  /\ job = [w \in Workers |-> None]
  /\ taken = [m \in Messages |-> 0]
-----------------------------------------------------------------------------
(***************************************************************************)
(* Queueing                                                                *)
(***************************************************************************)
Begun == {m \in Messages : status[m] # "none"} \cup {m \in Reminders : occurrence[m] # "none"}

Fits(S) == Cardinality(Begun \cup S) <= MaxMessages

Enqueue(S) ==
  /\ Fits(S)
  /\ status' = [m \in Messages |-> IF m \in S THEN "queued" ELSE status[m]]
  /\ UNCHANGED <<attempts, tracked, jobs, taken>>

New(S) == {m \in S : status[m] = "none"}

(* The installments a stage falls on today; a rerun finds them planned.    *)
PlanDueReminders(S) ==
  /\ S # {} /\ \A m \in S : occurrence[m] = "none"
  /\ Fits(S)
  /\ occurrence' = [m \in Reminders |-> IF m \in S THEN "pending" ELSE occurrence[m]]
  /\ UNCHANGED <<messages, campaign, jobs, taken>>

QueueDueReminderMessage(m) ==
  /\ occurrence[m] = "pending"
  /\ occurrence' = [occurrence EXCEPT ![m] = "messaged"]
  /\ Enqueue({m})
  /\ UNCHANGED campaign

DropDueReminder(m, reason) ==
  /\ occurrence[m] = "pending"
  /\ occurrence' = [occurrence EXCEPT ![m] = reason]
  /\ UNCHANGED <<messages, campaign, jobs, taken>>

\* Queued, and not known to have stayed here.
Active(n) == status[n] \notin {"none"} \cup NotSent

\* seeded fault: an uncertain message is no reason to refuse another
ManualAlreadyIfCertain(m) == \E n \in Manuals :
  InstallmentOf[n] = InstallmentOf[m] /\ Active(n) /\ status[n] # "unknown"

ManualAlready(m) == \E n \in Manuals : InstallmentOf[n] = InstallmentOf[m] /\ Active(n)

QueueManualReminder(m) ==
  /\ m \in New(Manuals)
  /\ ~ ManualAlready(m)
  /\ Enqueue({m})
  /\ UNCHANGED <<occurrence, campaign>>

Remaining == CompanyLimit -
  Cardinality({n \in Messages : status[n] \in Counted \cup {"queued"}})

(* One message per customer, for none who was queued one today.            *)
QueueBulkReminders(S) ==
  /\ S # {} /\ S \subseteq New(Bulks)
  /\ \A m, n \in S : m # n => CustomerOf[m] # CustomerOf[n]
  /\ \A m \in S, n \in Messages : CustomerOf[n] = CustomerOf[m] => ~ Active(n)
  /\ Cardinality(S) <= Remaining
  /\ Enqueue(S)
  /\ UNCHANGED <<occurrence, campaign>>

SendCampaign(c, S) ==
  /\ campaign[c] = "draft"
  /\ S # {} /\ S \subseteq {m \in New(Marketing) : CampaignOf[m] = c}
  /\ \A m, n \in S : m # n => CustomerOf[m] # CustomerOf[n]
  /\ Cardinality(S) <= Remaining
  /\ Enqueue(S)
  /\ campaign' = [campaign EXCEPT ![c] = "running"]
  /\ UNCHANGED occurrence

Of(c) == {m \in Marketing : CampaignOf[m] = c}

CancelCampaign(c) ==
  /\ campaign[c] \in {"draft", "running"}
  /\ campaign' = [campaign EXCEPT ![c] = "cancelled"]
  /\ status' = [m \in Messages |->
       IF m \in Of(c) /\ status[m] = "queued" THEN "cancelled" ELSE status[m]]
  /\ UNCHANGED <<occurrence, attempts, tracked, jobs, taken>>

\* seeded fault: a message being sent is taken for one that has been
NothingQueued(c) == \A m \in Of(c) : status[m] # "queued"

NothingLeft(c) == \A m \in Of(c) : status[m] \notin Waiting

CompleteFinishedCampaign(c) ==
  /\ campaign[c] = "running"
  /\ NothingLeft(c)
  /\ campaign' = [campaign EXCEPT ![c] = "completed"]
  /\ UNCHANGED <<occurrence, messages, jobs, taken>>
-----------------------------------------------------------------------------
(***************************************************************************)
(* sendOutboundMessage, step by step                                       *)
(***************************************************************************)

Claim(w, m) ==
  /\ at[w] = "idle"
  /\ status[m] = "queued"
  /\ status' = [status EXCEPT ![m] = "sending"]
  /\ attempts' = [attempts EXCEPT ![m] = @ + 1]
  /\ at' = [at EXCEPT ![w] = "claimed"]
  /\ job' = [job EXCEPT ![w] = m]
  /\ UNCHANGED <<occurrence, tracked, campaign, taken>>

CountedMessages == {n \in Messages : status[n] \in Counted}

\* seeded fault: only messages whose outcome is known count
OthersSent(m) == {n \in CountedMessages \ {m} : status[n] # "sending"}

Others(m) == CountedMessages \ {m}

WithinLimits(m) ==
  /\ m \notin Manuals \cup Marketing =>
       Cardinality({n \in Others(m) : CustomerOf[n] = CustomerOf[m]}) < CustomerLimit
  /\ Cardinality(Others(m)) < CompanyLimit

Running(m) == m \in Marketing => campaign[CampaignOf[m]] = "running"

(* The checks before a send.  The message's own status is not among them.  *)
Checked(w) ==
  LET m == job[w]
  IN IF ~ Running(m) THEN {"cancelled"}
     ELSE {"skipped", "defer"}
            \cup (IF m \in Marketing THEN {} ELSE {"cancelled"})
            \cup (IF WithinLimits(m) THEN {"send", "failed"} ELSE {})

Prepare(w, next) ==
  /\ at[w] = "claimed"
  /\ next \in Checked(w)
  /\ at' = [at EXCEPT ![w] = next]
  /\ UNCHANGED <<occurrence, messages, campaign, job, taken>>

\* seeded fault: an answer that does not come in time is a refusal
TimeoutIsRefusal == {[took |-> 1, says |-> "sent"], [took |-> 0, says |-> "failed"],
                     [took |-> 0, says |-> "retry"], [took |-> 1, says |-> "retry"]}

(* An ambiguous answer may be to a message that was taken or not.  A       *)
(* refusal to be retried is taken at its word: it was not.                 *)
Answers == {[took |-> 1, says |-> "sent"], [took |-> 0, says |-> "failed"],
            [took |-> 0, says |-> "unknown"], [took |-> 1, says |-> "unknown"],
            [took |-> 0, says |-> "retry"]}

Exhausted(m) == attempts[m] > MaxRetries

CallGateway(w, answer) ==
  /\ at[w] = "send"
  /\ taken' = [taken EXCEPT ![job[w]] = @ + answer.took]
  /\ at' = [at EXCEPT ![w] =
       IF answer.says = "retry" /\ Exhausted(job[w]) THEN "dead_letter" ELSE answer.says]
  /\ UNCHANGED <<occurrence, messages, campaign, job>>

\* seeded fault: the outcome is written whatever became of the message
StillMineAlways(m) == TRUE

StillMine(m) == status[m] = "sending"

(* Every outcome is written on the condition that the message is still     *)
(* being sent; a job that was taken for dead changes nothing.              *)
Finish(w) ==
  LET m == job[w]
      requeue == at[w] \in {"retry", "defer"}
  IN /\ at[w] \in Outcomes
     /\ IF StillMine(m)
          THEN /\ status' = [status EXCEPT ![m] = IF requeue THEN "queued" ELSE at[w]]
               /\ attempts' = [attempts EXCEPT ![m] = IF at[w] = "defer" THEN @ - 1 ELSE @]
               /\ tracked' = IF at[w] = "sent" THEN tracked \cup {m} ELSE tracked
          ELSE UNCHANGED <<status, attempts, tracked>>
     /\ at' = [at EXCEPT ![w] = "idle"]
     /\ job' = [job EXCEPT ![w] = None]
     /\ UNCHANGED <<occurrence, campaign, taken>>

(* The process ends, or a step of the job throws: its queue does not       *)
(* retry.                                                                  *)
Die(w) ==
  /\ at[w] # "idle"
  /\ at' = [at EXCEPT ![w] = "idle"]
  /\ job' = [job EXCEPT ![w] = None]
  /\ UNCHANGED <<occurrence, messages, campaign, taken>>
-----------------------------------------------------------------------------
(***************************************************************************)
(* Recovery, delivery reports, staff                                       *)
(***************************************************************************)
\* seeded fault: only reminders are recovered
InterruptedReminder(m) == m \in Reminders /\ status[m] = "sending"

Interrupted(m) == status[m] = "sending"

RecoverInterruptedSends(S) ==
  /\ S # {} /\ \A m \in S : Interrupted(m)
  /\ status' = [m \in Messages |-> IF m \in S THEN "unknown" ELSE status[m]]
  /\ UNCHANGED <<occurrence, attempts, tracked, campaign, jobs, taken>>

Settle(m, s) ==
  /\ status' = [status EXCEPT ![m] = s]
  /\ UNCHANGED <<occurrence, attempts, tracked, campaign, jobs, taken>>

PollDeliveryReport(m, report) ==
  /\ status[m] = "sent" /\ m \in tracked
  /\ Settle(m, report)

ResolveUnknownMessage(m, outcome) ==
  /\ status[m] = "unknown"
  /\ Settle(m, outcome)

-----------------------------------------------------------------------------
QueueSteps ==
  \/ \E S \in SUBSET Reminders : PlanDueReminders(S)
  \/ \E m \in Reminders : \/ QueueDueReminderMessage(m)
                          \/ \E reason \in {"skipped", "cancelled"} : DropDueReminder(m, reason)
  \/ \E m \in Manuals : QueueManualReminder(m)
  \/ \E S \in SUBSET Bulks : QueueBulkReminders(S)

CampaignSteps == \E c \in Campaigns :
  \/ \E S \in SUBSET Marketing : SendCampaign(c, S)
  \/ CancelCampaign(c)
  \/ CompleteFinishedCampaign(c)

WorkerSteps == \E w \in Workers :
  \/ \E m \in Messages : Claim(w, m)
  \/ \E next \in Steps : Prepare(w, next)
  \/ \E answer \in Answers : CallGateway(w, answer)
  \/ Finish(w)
  \/ Die(w)

SettlingSteps ==
  \/ \E S \in SUBSET Messages : RecoverInterruptedSends(S)
  \/ \E m \in Messages : \/ \E report \in {"delivered", "failed"} : PollDeliveryReport(m, report)
                         \/ \E outcome \in {"sent", "failed"} : ResolveUnknownMessage(m, outcome)

Next == QueueSteps \/ CampaignSteps \/ WorkerSteps \/ SettlingSteps

Spec == Init /\ [][Next]_vars

(* The tick comes every five minutes: it recovers what is left in sending, *)
(* and hands what is queued to the send queue again and again, some of it  *)
(* in the sending window.  A job that does not die goes on.                *)
Fairness ==
  /\ SF_vars(\E w \in Workers, m \in Messages : Claim(w, m))
  /\ SF_vars(\E w \in Workers, next \in Steps \ {"defer"} : Prepare(w, next))
  /\ WF_vars(\E w \in Workers : Finish(w) \/ \E answer \in Answers : CallGateway(w, answer))
  /\ WF_vars(\E m \in Messages : RecoverInterruptedSends({m}))

FairSpec == Spec /\ Fairness
-----------------------------------------------------------------------------
(***************************************************************************)
(* Properties                                                              *)
(***************************************************************************)
(* The types: a message is tried at most once more than it is retried.     *)
TypeOK ==
  /\ occurrence \in [Reminders -> {"none", "pending", "messaged", "skipped", "cancelled"}]
  /\ status \in [Messages -> Statuses]
  /\ attempts \in [Messages -> 0..MaxRetries + 1]
  /\ tracked \subseteq Messages
  /\ campaign \in [Campaigns -> {"draft", "running", "cancelled", "completed"}]
  /\ at \in [Workers -> Steps]
  /\ job \in [Workers -> Messages \cup {None}]
  /\ taken \in [Messages -> Nat]

(* The provider takes no message twice, whoever dies, retries, is taken    *)
(* for dead or comes back late ("it is never sent again automatically").   *)
SentAtMostOnce == \A m \in Messages : taken[m] <= 1

\* The provider took it, and it is not reported lost or said to be unsent.
Reached(m) == taken[m] > 0 /\ status[m] # "failed"

(* A customer is reached by no more reminders a day than the policy allows *)
(* (those staff ask for one by one are exempt), a company's customers by   *)
(* no more messages, though jobs check the limits side by side.            *)
WithinDailyLimits ==
  LET reached == {m \in Messages : Reached(m)}
      limited == {m \in reached : m \notin Manuals \cup Marketing}
  IN /\ Cardinality(reached) <= CompanyLimit
     /\ \A m \in limited : Cardinality({n \in limited : CustomerOf[n] = CustomerOf[m]}) <= CustomerLimit

\* Reminders of which a customer should get one a day.
Twins(m, n) ==
  \/ {m, n} \subseteq Manuals /\ InstallmentOf[m] = InstallmentOf[n]
  \/ {m, n} \subseteq Bulks /\ CustomerOf[m] = CustomerOf[n]

(* Staff reach nobody with a second manual reminder for an installment, or *)
(* a second bulk reminder, queued the same day.                            *)
OnceADay == \A m, n \in Messages :
  m # n /\ Twins(m, n) => ~ (Reached(m) /\ Reached(n))

(* A completed campaign has nothing left to send, and never will.          *)
CompletedIsQuiet == \A m \in Marketing :
  campaign[CampaignOf[m]] = "completed" => status[m] \notin Waiting

\* The moves of a message, from a status to the next.
Forward == {<<"none", "queued">>, <<"queued", "sending">>, <<"queued", "cancelled">>,
            <<"unknown", "sent">>, <<"unknown", "failed">>,
            <<"sent", "delivered">>, <<"sent", "failed">>}
           \cup {<<"sending", s>> : s \in {"queued", "sent", "unknown", "dead_letter"} \cup NotSent}

(* A duplicate or late job never moves a message backwards: what is final  *)
(* stays, what is sent can only be delivered or lost, what is unknown can  *)
(* only be settled, and only a send puts a message back in the queue.      *)
OnlyForward == [][\A m \in Messages :
  status'[m] # status[m] => <<status[m], status'[m]>> \in Forward]_vars

(* Nothing is left in the queue or in sending for ever: not after a crash, *)
(* not by deferrals, not when its campaign is cancelled under it.          *)
EveryMessageSettles == <>[](\A m \in Messages : status[m] \notin Waiting)
=============================================================================
