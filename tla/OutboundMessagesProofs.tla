------------------------ MODULE OutboundMessagesProofs ------------------------
(***************************************************************************)
(* What OutboundMessages promises for every company, number of workers and *)
(* limits.                                                                 *)
(*                                                                         *)
(* SendInv is the argument that no message is sent twice: a message has at *)
(* most one job, and none when it is in the queue or was stopped, so a job *)
(* that was taken for dead can come back but never finds a second one; and *)
(* nothing is in the queue that the provider has taken.  The daily limits  *)
(* and the once-a-day rule stand on it: whatever reached the provider is   *)
(* still counted.                                                          *)
(***************************************************************************)
EXTENDS OutboundMessages, FiniteSetTheorems, TLAPS

(* A message nobody is sending and the provider has not taken.             *)
Untouched == {"none", "queued", "skipped", "cancelled", "dead_letter"}

(* Steps of a job up to an answer that means the provider has the message. *)
NotTaken == Steps \ {"idle", "sent", "unknown"}

JobKept == \A w \in Workers :
  /\ at[w] = "idle" <=> job[w] = None
  /\ at[w] \in NotTaken => taken[job[w]] = 0
  /\ at[w] # "idle" => attempts[job[w]] >= 1
  /\ at[w] = "retry" => attempts[job[w]] <= MaxRetries

OneJob == \A v, w \in Workers : v # w /\ job[v] = job[w] => job[w] = None

MessageKept == \A m \in Messages :
  /\ taken[m] <= 1
  /\ status[m] \in Untouched => taken[m] = 0 /\ \A w \in Workers : job[w] # m
  /\ status[m] \in {"none", "queued"} => attempts[m] <= MaxRetries

(* The unique key of outbound_messages.reminder_occurrence_id.            *)
OccurrenceKept == \A m \in Reminders : status[m] # "none" => occurrence[m] = "messaged"

SendInv == TypeOK /\ JobKept /\ OneJob /\ MessageKept /\ OccurrenceKept
-----------------------------------------------------------------------------
LEMMA InitSend == Init => SendInv
  BY MessagesAssumption DEF Init, SendInv, TypeOK, JobKept, OneJob, MessageKept, OccurrenceKept, Statuses, Steps,
     NotTaken, Untouched, Outcomes, Messages

USE DEF Statuses, Waiting, Counted, NotSent

(* Queueing new messages, whatever route they take.                        *)
LEMMA EnqueueSend ==
  ASSUME SendInv, NEW S \in SUBSET Messages, \A m \in S : status[m] = "none", Enqueue(S)
  PROVE  /\ status' \in [Messages -> Statuses]
         /\ JobKept' /\ OneJob' /\ MessageKept'
         /\ UNCHANGED <<attempts, tracked, at, job, taken>>
  <1>1. UNCHANGED <<attempts, tracked, at, job, taken>>
    BY DEF Enqueue, jobs
  <1>2. status' = [m \in Messages |-> IF m \in S THEN "queued" ELSE status[m]]
    BY DEF Enqueue
  <1>3. status' \in [Messages -> Statuses]
    BY <1>2 DEF SendInv, TypeOK
  <1>4. JobKept' /\ OneJob'
    BY <1>1 DEF SendInv, JobKept, OneJob
  <1>5. MessageKept'
    BY <1>1, <1>2 DEF SendInv, MessageKept, Untouched
  <1> QED BY <1>1, <1>3, <1>4, <1>5

LEMMA EnqueueOther ==
  ASSUME SendInv, NEW S \in SUBSET (Messages \ Reminders), \A m \in S : status[m] = "none",
         Enqueue(S), UNCHANGED occurrence, campaign' \in [Campaigns -> {"draft", "running", "cancelled", "completed"}]
  PROVE  SendInv'
  <1>1. S \in SUBSET Messages
    OBVIOUS
  <1>2. OccurrenceKept'
    BY DEF Enqueue, SendInv, OccurrenceKept, Messages
  <1>3. TypeOK'
    BY <1>1, EnqueueSend DEF SendInv, TypeOK
  <1> QED BY <1>1, <1>2, <1>3, EnqueueSend DEF SendInv

LEMMA QueueSend == SendInv /\ QueueSteps => SendInv'
  <1> SUFFICES ASSUME SendInv, QueueSteps PROVE SendInv'
    OBVIOUS
  <1>1. ASSUME NEW S \in SUBSET Reminders, PlanDueReminders(S) PROVE SendInv'
    BY <1>1 DEF PlanDueReminders, messages, jobs, SendInv, TypeOK, JobKept, OneJob, MessageKept, OccurrenceKept
  <1>2. ASSUME NEW m \in Reminders, QueueDueReminderMessage(m) PROVE SendInv'
    <2>1. m \in Messages /\ status[m] = "none" /\ Enqueue({m}) /\ UNCHANGED campaign
      BY <1>2 DEF QueueDueReminderMessage, SendInv, OccurrenceKept, Messages
    <2>2. occurrence' = [occurrence EXCEPT ![m] = "messaged"]
      BY <1>2 DEF QueueDueReminderMessage
    <2>3. TypeOK'
      BY <2>1, <2>2, EnqueueSend DEF SendInv, TypeOK
    <2>4. OccurrenceKept'
      BY <2>1, <2>2 DEF SendInv, TypeOK, OccurrenceKept, Enqueue, Messages
    <2> QED BY <2>1, <2>3, <2>4, EnqueueSend DEF SendInv
  <1>3. ASSUME NEW m \in Reminders, NEW reason \in {"skipped", "cancelled"}, DropDueReminder(m, reason)
        PROVE  SendInv'
    BY <1>3 DEF DropDueReminder, messages, jobs, SendInv, TypeOK, JobKept, OneJob, MessageKept, OccurrenceKept
  <1>4. ASSUME NEW m \in Manuals, QueueManualReminder(m) PROVE SendInv'
    <2>1. m \in Messages \ Reminders /\ status[m] = "none" /\ Enqueue({m}) /\ UNCHANGED <<occurrence, campaign>>
      BY <1>4, MessagesAssumption DEF QueueManualReminder, New, Messages
    <2> QED BY <2>1, EnqueueOther DEF SendInv, TypeOK
  <1>5. ASSUME NEW S \in SUBSET Bulks, QueueBulkReminders(S) PROVE SendInv'
    <2>1. S \in SUBSET (Messages \ Reminders) /\ (\A m \in S : status[m] = "none")
          /\ Enqueue(S) /\ UNCHANGED <<occurrence, campaign>>
      BY <1>5, MessagesAssumption DEF QueueBulkReminders, New, Messages
    <2> QED BY <2>1, EnqueueOther DEF SendInv, TypeOK
  <1> QED BY <1>1, <1>2, <1>3, <1>4, <1>5 DEF QueueSteps

LEMMA CampaignSend == SendInv /\ CampaignSteps => SendInv'
  <1> SUFFICES ASSUME SendInv, NEW c \in Campaigns,
                      \/ \E S \in SUBSET Marketing : SendCampaign(c, S)
                      \/ CancelCampaign(c)
                      \/ CompleteFinishedCampaign(c)
               PROVE  SendInv'
    BY DEF CampaignSteps
  <1>1. ASSUME NEW S \in SUBSET Marketing, SendCampaign(c, S) PROVE SendInv'
    <2>1. S \in SUBSET (Messages \ Reminders) /\ (\A m \in S : status[m] = "none")
          /\ Enqueue(S) /\ UNCHANGED occurrence
      BY <1>1, MessagesAssumption DEF SendCampaign, New, Messages
    <2>2. campaign' \in [Campaigns -> {"draft", "running", "cancelled", "completed"}]
      BY <1>1 DEF SendCampaign, SendInv, TypeOK
    <2> QED BY <2>1, <2>2, EnqueueOther
  <1>2. CASE CancelCampaign(c)
    BY <1>2 DEF CancelCampaign, jobs, SendInv, TypeOK, JobKept, OneJob, MessageKept, OccurrenceKept,
       Untouched, Messages
  <1>3. CASE CompleteFinishedCampaign(c)
    BY <1>3 DEF CompleteFinishedCampaign, messages, jobs, SendInv, TypeOK, JobKept, OneJob, MessageKept,
       OccurrenceKept
  <1> QED BY <1>1, <1>2, <1>3

LEMMA ClaimSend == ASSUME SendInv, NEW w \in Workers, NEW m \in Messages, Claim(w, m) PROVE SendInv'
  <1> USE DEF Claim
  <1>1. m # None
    BY MessagesAssumption
  <1>2. TypeOK'
    BY MessagesAssumption DEF SendInv, TypeOK, MessageKept, Steps
  <1>3. JobKept'
    BY <1>1 DEF SendInv, TypeOK, JobKept, MessageKept, Untouched, NotTaken, Steps
  <1>4. OneJob'
    BY DEF SendInv, TypeOK, OneJob, MessageKept, Untouched
  <1>5. MessageKept'
    BY DEF SendInv, TypeOK, MessageKept, Untouched
  <1>6. OccurrenceKept'
    BY DEF SendInv, TypeOK, OccurrenceKept
  <1> QED BY <1>2, <1>3, <1>4, <1>5, <1>6 DEF SendInv

LEMMA PrepareSend == ASSUME SendInv, NEW w \in Workers, NEW next \in Steps, Prepare(w, next) PROVE SendInv'
  <1>1. next \in Steps \ {"idle", "sent", "unknown", "retry"}
    BY DEF Prepare, Checked, Steps, Outcomes
  <1> QED BY <1>1 DEF Prepare, messages, SendInv, TypeOK, JobKept, OneJob, MessageKept, OccurrenceKept,
             NotTaken, Steps

LEMMA CallSend == ASSUME SendInv, NEW w \in Workers, NEW answer \in Answers, CallGateway(w, answer) PROVE SendInv'
  <1> DEFINE m == job[w]
             next == IF answer.says = "retry" /\ Exhausted(m) THEN "dead_letter" ELSE answer.says
  <1>1. m \in Messages /\ taken[m] = 0 /\ attempts[m] \in 1..MaxRetries + 1
    BY MessagesAssumption DEF CallGateway, SendInv, TypeOK, JobKept, NotTaken, Steps
  <1>2. answer.took \in {0, 1} /\ answer.says \in {"sent", "failed", "unknown", "retry"}
        /\ (answer.took = 1 => answer.says \in {"sent", "unknown"})
    BY DEF Answers
  <1>3. /\ next \in Outcomes \ {"defer", "skipped", "cancelled"}
        /\ next = "retry" => attempts[m] <= MaxRetries
        /\ answer.took = 1 => next \in {"sent", "unknown"}
    BY <1>1, <1>2, MessagesAssumption DEF Outcomes, Exhausted
  <1>4. /\ at' = [at EXCEPT ![w] = next] /\ at[w] = "send"
        /\ taken' = [taken EXCEPT ![m] = answer.took]
        /\ UNCHANGED <<occurrence, status, attempts, tracked, campaign, job>>
    <2>1. taken' = [taken EXCEPT ![m] = taken[m] + answer.took]
      BY DEF CallGateway
    <2>2. taken[m] + answer.took = answer.took
      BY <1>1, <1>2
    <2>3. at' = [at EXCEPT ![w] = next]
      BY DEF CallGateway
    <2> QED BY <2>1, <2>2, <2>3 DEF CallGateway, messages
  <1>5. \A v \in Workers : job[v] = m => v = w
    BY <1>1, MessagesAssumption DEF SendInv, OneJob
  <1>6. status[m] \notin Untouched
    BY <1>1 DEF SendInv, MessageKept
  <1> HIDE DEF m, next
  <1>7. TypeOK'
    BY <1>1, <1>2, <1>3, <1>4 DEF SendInv, TypeOK, Steps
  <1>8. JobKept'
    BY <1>1, <1>2, <1>3, <1>4, <1>5 DEF SendInv, TypeOK, JobKept, NotTaken, Steps, Outcomes, m
  <1>9. OneJob' /\ OccurrenceKept'
    BY <1>4 DEF SendInv, OneJob, OccurrenceKept
  <1>10. MessageKept'
    BY <1>1, <1>2, <1>4, <1>6 DEF SendInv, TypeOK, MessageKept
  <1> QED BY <1>7, <1>8, <1>9, <1>10 DEF SendInv

LEMMA FinishSend == ASSUME SendInv, NEW w \in Workers, Finish(w) PROVE SendInv'
  <1> DEFINE m == job[w]
             s == IF at[w] \in {"retry", "defer"} THEN "queued" ELSE at[w]
             n == IF at[w] = "defer" THEN attempts[m] - 1 ELSE attempts[m]
  <1>1. m \in Messages /\ m # None /\ attempts[m] \in 1..MaxRetries + 1
        /\ at[w] \in Outcomes
        /\ (at[w] \notin {"sent", "unknown"} => taken[m] = 0)
        /\ (at[w] = "retry" => attempts[m] <= MaxRetries)
    BY MessagesAssumption DEF Finish, SendInv, TypeOK, JobKept, NotTaken, Steps, Outcomes
  <1>2. /\ s \in Statuses \ {"none", "sending"}
        /\ s \in Untouched => taken[m] = 0
        /\ n \in 0..MaxRetries + 1
        /\ s = "queued" => n <= MaxRetries
    BY <1>1, MessagesAssumption DEF Outcomes, Untouched
  <1>3. \A v \in Workers : v # w => job[v] # m
    BY <1>1 DEF SendInv, OneJob
  <1>4. /\ at' = [at EXCEPT ![w] = "idle"] /\ job' = [job EXCEPT ![w] = None]
        /\ UNCHANGED <<occurrence, campaign, taken>>
    BY DEF Finish
  <1>5. \/ /\ status[m] = "sending"
           /\ status' = [status EXCEPT ![m] = s]
           /\ attempts' = [attempts EXCEPT ![m] = n]
           /\ tracked' \subseteq Messages
        \/ UNCHANGED <<status, attempts, tracked>>
    BY <1>1 DEF Finish, StillMine, SendInv, TypeOK
  <1> HIDE DEF m, s, n
  <1>6. TypeOK'
    BY <1>1, <1>2, <1>4, <1>5 DEF SendInv, TypeOK, Steps
  <1>7. JobKept'
    BY <1>1, <1>3, <1>4, <1>5, MessagesAssumption DEF SendInv, TypeOK, JobKept, NotTaken, Steps
  <1>8. OneJob'
    BY <1>4 DEF SendInv, TypeOK, OneJob
  <1>9. MessageKept'
    BY <1>1, <1>2, <1>3, <1>4, <1>5, MessagesAssumption DEF SendInv, TypeOK, MessageKept
  <1>10. OccurrenceKept'
    BY <1>1, <1>4, <1>5 DEF SendInv, TypeOK, OccurrenceKept, Messages
  <1> QED BY <1>6, <1>7, <1>8, <1>9, <1>10 DEF SendInv

LEMMA DieSend == ASSUME SendInv, NEW w \in Workers, Die(w) PROVE SendInv'
  BY MessagesAssumption DEF Die, messages, SendInv, TypeOK, JobKept, OneJob, MessageKept, OccurrenceKept,
     NotTaken, Steps

LEMMA SettleSend == SendInv /\ SettlingSteps => SendInv'
  <1> SUFFICES ASSUME SendInv, SettlingSteps PROVE SendInv'
    OBVIOUS
  <1>1. ASSUME NEW S \in SUBSET Messages, RecoverInterruptedSends(S) PROVE SendInv'
    BY <1>1 DEF RecoverInterruptedSends, Interrupted, jobs, SendInv, TypeOK, JobKept, OneJob, MessageKept,
       OccurrenceKept, Untouched, Messages
  <1>2. ASSUME NEW m \in Messages, NEW s \in {"sent", "delivered", "failed"},
               status[m] \in {"sent", "unknown"}, Settle(m, s)
        PROVE  SendInv'
    BY <1>2 DEF Settle, jobs, SendInv, TypeOK, JobKept, OneJob, MessageKept, OccurrenceKept, Untouched
  <1> QED BY <1>1, <1>2 DEF SettlingSteps, PollDeliveryReport, ResolveUnknownMessage

LEMMA NextSend == SendInv /\ [Next]_vars => SendInv'
  <1> SUFFICES ASSUME SendInv, [Next]_vars PROVE SendInv'
    OBVIOUS
  <1>1. CASE QueueSteps BY <1>1, QueueSend
  <1>2. CASE CampaignSteps BY <1>2, CampaignSend
  <1>3. CASE WorkerSteps
    BY <1>3, ClaimSend, PrepareSend, CallSend, FinishSend, DieSend DEF WorkerSteps
  <1>4. CASE SettlingSteps BY <1>4, SettleSend
  <1>5. CASE UNCHANGED vars
    BY <1>5 DEF vars, messages, jobs, SendInv, TypeOK, JobKept, OneJob, MessageKept, OccurrenceKept
  <1> QED BY <1>1, <1>2, <1>3, <1>4, <1>5 DEF Next

LEMMA AlwaysSend == Spec => []SendInv
  BY InitSend, NextSend, PTL DEF Spec

(* The types hold, the number of attempts among them: a message is tried   *)
(* once more than it is retried and no more.                               *)
THEOREM TypeCorrect == Spec => []TypeOK
  <1>1. SendInv => TypeOK
    BY DEF SendInv
  <1> QED BY <1>1, AlwaysSend, PTL

(* The provider takes no message twice, whoever dies, is taken for dead or *)
(* comes back late.                                                        *)
THEOREM NeverSentTwice == Spec => []SentAtMostOnce
  <1>1. SendInv => SentAtMostOnce
    BY DEF SendInv, MessageKept, SentAtMostOnce
  <1> QED BY <1>1, AlwaysSend, PTL
-----------------------------------------------------------------------------
(***************************************************************************)
(* Statuses                                                                *)
(***************************************************************************)

(* Only the four queueing routes begin a message.                          *)
LEMMA StaysNew ==
  ASSUME SendInv, WorkerSteps \/ SettlingSteps \/ UNCHANGED vars, NEW m \in Messages, status[m] = "none"
  PROVE  status'[m] = "none"
  <1>1. ASSUME NEW w \in Workers, NEW n \in Messages, Claim(w, n) PROVE status'[m] = "none"
    BY <1>1 DEF Claim, SendInv, TypeOK
  <1>2. ASSUME NEW w \in Workers, Finish(w) PROVE status'[m] = "none"
    BY <1>2 DEF Finish, StillMine, SendInv, TypeOK
  <1>3. ASSUME NEW w \in Workers,
               \/ \E next \in Steps : Prepare(w, next)
               \/ \E answer \in Answers : CallGateway(w, answer)
               \/ Die(w)
        PROVE  status'[m] = "none"
    BY <1>3 DEF Prepare, CallGateway, Die, messages
  <1>4. CASE SettlingSteps
    BY <1>4 DEF SettlingSteps, RecoverInterruptedSends, Interrupted, PollDeliveryReport,
       ResolveUnknownMessage, Settle, SendInv, TypeOK
  <1>5. CASE UNCHANGED vars
    BY <1>5 DEF vars, messages
  <1> QED BY <1>1, <1>2, <1>3, <1>4, <1>5 DEF WorkerSteps

LEMMA Moves ==
  ASSUME SendInv, [Next]_vars, NEW m \in Messages, status'[m] # status[m]
  PROVE  <<status[m], status'[m]>> \in Forward
  <1> USE DEF Forward
  <1>1. ASSUME NEW S \in SUBSET Messages, \A n \in S : status[n] = "none", Enqueue(S)
        PROVE  <<status[m], status'[m]>> \in Forward
    BY <1>1 DEF Enqueue
  <1>2. CASE QueueSteps
    <2>1. ASSUME NEW n \in Reminders, QueueDueReminderMessage(n) PROVE <<status[m], status'[m]>> \in Forward
      <3>1. n \in Messages /\ status[n] = "none" /\ Enqueue({n})
        BY <2>1 DEF QueueDueReminderMessage, SendInv, OccurrenceKept, Messages
      <3> QED BY <3>1, <1>1
    <2>2. ASSUME NEW n \in Manuals, QueueManualReminder(n) PROVE <<status[m], status'[m]>> \in Forward
      BY <2>2, <1>1 DEF QueueManualReminder, New, Messages
    <2>3. ASSUME NEW S \in SUBSET Bulks, QueueBulkReminders(S) PROVE <<status[m], status'[m]>> \in Forward
      <3>1. S \in SUBSET Messages /\ (\A n \in S : status[n] = "none") /\ Enqueue(S)
        BY <2>3 DEF QueueBulkReminders, New, Messages
      <3> QED BY <3>1, <1>1
    <2> QED BY <1>2, <2>1, <2>2, <2>3 DEF QueueSteps, PlanDueReminders, DropDueReminder, messages
  <1>3. CASE CampaignSteps
    <2>1. ASSUME NEW c \in Campaigns, NEW S \in SUBSET Marketing, SendCampaign(c, S)
          PROVE  <<status[m], status'[m]>> \in Forward
      <3>1. S \in SUBSET Messages /\ (\A n \in S : status[n] = "none") /\ Enqueue(S)
        BY <2>1 DEF SendCampaign, New, Messages
      <3> QED BY <3>1, <1>1
    <2>2. ASSUME NEW c \in Campaigns, CancelCampaign(c) PROVE <<status[m], status'[m]>> \in Forward
      BY <2>2 DEF CancelCampaign
    <2> QED BY <1>3, <2>1, <2>2 DEF CampaignSteps, CompleteFinishedCampaign, messages
  <1>4. CASE WorkerSteps
    <2>1. ASSUME NEW w \in Workers, NEW n \in Messages, Claim(w, n)
          PROVE  <<status[m], status'[m]>> \in Forward
      BY <2>1 DEF Claim, SendInv, TypeOK
    <2>2. ASSUME NEW w \in Workers, Finish(w) PROVE <<status[m], status'[m]>> \in Forward
      BY <2>2 DEF Finish, StillMine, Outcomes, SendInv, TypeOK
    <2> QED BY <1>4, <2>1, <2>2 DEF WorkerSteps, Prepare, CallGateway, Die, messages
  <1>5. CASE SettlingSteps
    BY <1>5 DEF SettlingSteps, RecoverInterruptedSends, Interrupted, PollDeliveryReport,
       ResolveUnknownMessage, Settle, SendInv, TypeOK
  <1>6. CASE UNCHANGED vars
    BY <1>6 DEF vars, messages
  <1> QED BY <1>2, <1>3, <1>4, <1>5, <1>6 DEF Next

(* No duplicate or late job moves a message backwards.                     *)
THEOREM NeverBackwards == Spec => OnlyForward
  <1>1. SendInv /\ [Next]_vars =>
          [\A m \in Messages : status'[m] # status[m] => <<status[m], status'[m]>> \in Forward]_vars
    BY Moves
  <1> QED BY <1>1, AlwaysSend, PTL DEF Spec, OnlyForward
-----------------------------------------------------------------------------
(***************************************************************************)
(* Campaigns                                                               *)
(***************************************************************************)
LEMMA NextQuiet == SendInv /\ CompletedIsQuiet /\ [Next]_vars => CompletedIsQuiet'
  <1> SUFFICES ASSUME SendInv, CompletedIsQuiet, [Next]_vars, NEW m \in Marketing,
                      campaign'[CampaignOf[m]] = "completed"
               PROVE  status'[m] \notin Waiting
    BY DEF CompletedIsQuiet
  <1>1. m \in Messages /\ CampaignOf[m] \in Campaigns
    BY MessagesAssumption DEF Messages
  <1>2. m \notin Reminders /\ m \notin Manuals /\ m \notin Bulks
    BY MessagesAssumption
  <1>3. ASSUME campaign[CampaignOf[m]] = "completed", status'[m] = status[m] PROVE status'[m] \notin Waiting
    BY <1>3 DEF CompletedIsQuiet
  <1>4. CASE QueueSteps
    <2>1. UNCHANGED campaign /\ status'[m] = status[m]
      BY <1>4, <1>1, <1>2 DEF QueueSteps, PlanDueReminders, QueueDueReminderMessage, DropDueReminder,
         QueueManualReminder, QueueBulkReminders, New, Enqueue, messages
    <2> QED BY <2>1, <1>3
  <1>5. CASE CampaignSteps
    <2>1. ASSUME NEW c \in Campaigns, NEW S \in SUBSET Marketing, SendCampaign(c, S)
          PROVE  status'[m] \notin Waiting
      <3>1. CampaignOf[m] # c /\ campaign[CampaignOf[m]] = "completed" /\ m \notin S
        BY <2>1, <1>1 DEF SendCampaign, SendInv, TypeOK
      <3>2. status'[m] = status[m]
        BY <2>1, <3>1, <1>1 DEF SendCampaign, Enqueue
      <3> QED BY <3>1, <3>2, <1>3
    <2>2. ASSUME NEW c \in Campaigns, CancelCampaign(c) PROVE status'[m] \notin Waiting
      BY <2>2, <1>1 DEF CancelCampaign, CompletedIsQuiet, SendInv, TypeOK
    <2>3. ASSUME NEW c \in Campaigns, CompleteFinishedCampaign(c) PROVE status'[m] \notin Waiting
      BY <2>3, <1>1 DEF CompleteFinishedCampaign, NothingLeft, Of, messages, CompletedIsQuiet, SendInv, TypeOK
    <2> QED BY <1>5, <2>1, <2>2, <2>3 DEF CampaignSteps
  <1>6. CASE WorkerSteps \/ SettlingSteps \/ UNCHANGED vars
    <2>1. UNCHANGED campaign
      BY <1>6 DEF WorkerSteps, SettlingSteps, Claim, Prepare, CallGateway, Finish, Die,
         RecoverInterruptedSends, PollDeliveryReport, ResolveUnknownMessage, Settle, vars
    <2>2. status[m] \notin Waiting
      BY <2>1 DEF CompletedIsQuiet
    <2>3. status'[m] \in Waiting => status[m] = "none"
      BY <2>2, <1>1, Moves DEF Forward
    <2> QED BY <2>3, <1>1, <1>6, StaysNew
  <1> QED BY <1>4, <1>5, <1>6 DEF Next

(* A completed campaign has nothing left to send, and never will.          *)
THEOREM CampaignsEndQuietly == Spec => []CompletedIsQuiet
  <1>1. Init => CompletedIsQuiet
    BY MessagesAssumption DEF Init, CompletedIsQuiet
  <1> QED BY <1>1, NextQuiet, AlwaysSend, PTL DEF Spec
-----------------------------------------------------------------------------
(***************************************************************************)
(* What was sent is still counted                                          *)
(***************************************************************************)

(* Of two reminders that may not both reach a customer one is not active:  *)
(* not queued, or known to have stayed here.                               *)
OneActive == \A m, n \in Messages : m # n /\ Twins(m, n) => ~ (Active(m) /\ Active(n))

(* No step but the queueing of m makes m active.                           *)
LEMMA StaysInactive ==
  ASSUME SendInv, WorkerSteps \/ SettlingSteps \/ UNCHANGED vars, NEW m \in Messages, ~ Active(m)
  PROVE  ~ Active(m)'
  <1>1. CASE status[m] = "none"
    BY <1>1, StaysNew DEF Active
  <1>2. CASE status[m] \in NotSent
    <2>1. [Next]_vars
      BY DEF Next
    <2> QED BY <1>2, <2>1, Moves DEF Forward, Active
  <1> QED BY <1>1, <1>2 DEF Active

LEMMA NextOneActive == SendInv /\ OneActive /\ [Next]_vars => OneActive'
  <1> SUFFICES ASSUME SendInv, OneActive, [Next]_vars, NEW m \in Messages, NEW n \in Messages,
                      m # n, Twins(m, n), Active(m)', Active(n)'
               PROVE  FALSE
    BY DEF OneActive, Twins
  <1>1. ~ (Active(m) /\ Active(n))
    BY DEF OneActive
  <1>2. {m, n} \subseteq Manuals \/ {m, n} \subseteq Bulks
    BY DEF Twins
  <1>3. CASE WorkerSteps \/ SettlingSteps \/ UNCHANGED vars
    BY <1>1, <1>3, StaysInactive
  <1>4. CASE QueueSteps
    <2>1. ASSUME NEW x \in Manuals, QueueManualReminder(x) PROVE FALSE
      <3>1. \A y \in Messages : Active(y)' => Active(y) \/ y = x
        BY <2>1 DEF QueueManualReminder, Enqueue, Active
      <3>2. \A y \in Manuals : InstallmentOf[y] = InstallmentOf[x] => ~ Active(y)
        BY <2>1 DEF QueueManualReminder, ManualAlready
      <3> QED BY <3>1, <3>2, <1>1, <1>2, MessagesAssumption DEF Twins
    <2>2. ASSUME NEW S \in SUBSET Bulks, QueueBulkReminders(S) PROVE FALSE
      <3>1. \A y \in Messages : Active(y)' => Active(y) \/ y \in S
        BY <2>2 DEF QueueBulkReminders, Enqueue, Active
      <3>2. \A x \in S, y \in Messages : CustomerOf[y] = CustomerOf[x] => ~ Active(y)
        BY <2>2 DEF QueueBulkReminders
      <3>3. \A x, y \in S : x # y => CustomerOf[x] # CustomerOf[y]
        BY <2>2 DEF QueueBulkReminders
      <3> QED BY <3>1, <3>2, <3>3, <1>1, <1>2, MessagesAssumption DEF Twins
    <2>3. ASSUME NEW x \in Reminders, QueueDueReminderMessage(x) PROVE FALSE
      <3>1. \A y \in Messages : Active(y)' => Active(y) \/ y = x
        BY <2>3 DEF QueueDueReminderMessage, Enqueue, Active
      <3> QED BY <3>1, <1>1, <1>2, MessagesAssumption
    <2> QED BY <1>1, <1>4, <2>1, <2>2, <2>3 DEF QueueSteps, PlanDueReminders, DropDueReminder, messages, Active
  <1>5. CASE CampaignSteps
    <2>1. ASSUME NEW c \in Campaigns, NEW S \in SUBSET Marketing, SendCampaign(c, S) PROVE FALSE
      <3>1. \A y \in Messages : Active(y)' => Active(y) \/ y \in S
        BY <2>1 DEF SendCampaign, Enqueue, Active
      <3> QED BY <3>1, <1>1, <1>2, MessagesAssumption
    <2>2. ASSUME NEW c \in Campaigns, CancelCampaign(c) PROVE FALSE
      BY <1>1, <2>2 DEF CancelCampaign, Active
    <2> QED BY <1>1, <1>5, <2>1, <2>2 DEF CampaignSteps, CompleteFinishedCampaign, messages, Active
  <1> QED BY <1>3, <1>4, <1>5 DEF Next

(* No second manual reminder for an installment, and no second bulk        *)
(* reminder to a customer, reaches anybody the same day.                   *)
THEOREM NobodyTwiceADay == Spec => []OnceADay
  <1>1. Init => OneActive
    BY DEF Init, OneActive, Active
  <1>2. SendInv /\ OneActive => OnceADay
    <2>1. SendInv => \A m \in Messages : Reached(m) => Active(m)
      BY DEF SendInv, TypeOK, MessageKept, Untouched, Reached, Active
    <2> QED BY <2>1 DEF OneActive, OnceADay
  <1> QED BY <1>1, <1>2, NextOneActive, AlwaysSend, PTL DEF Spec
-----------------------------------------------------------------------------
(* Past the check of the limits, and not failed since.                     *)
Cleared(m) == /\ status[m] # "failed"
              /\ taken[m] > 0 \/ \E w \in Workers : job[w] = m /\ at[w] = "send"
AllCleared == {m \in Messages : Cleared(m)}
ClearedLike(m) == {n \in AllCleared : n \notin Manuals \cup Marketing /\ CustomerOf[n] = CustomerOf[m]}

LimitInv == /\ Cardinality(AllCleared) <= CompanyLimit
            /\ \A m \in Messages : Cardinality(ClearedLike(m)) <= CustomerLimit

LEMMA Smaller ==
  ASSUME NEW S \in SUBSET Messages, NEW T \in SUBSET S
  PROVE  IsFiniteSet(S) /\ IsFiniteSet(T) /\ Cardinality(S) \in Nat /\ Cardinality(T) \in Nat
         /\ Cardinality(T) <= Cardinality(S)
  BY MessagesAssumption, FS_Subset, FS_CardinalityType

LEMMA OneMore ==
  ASSUME NEW S \in SUBSET Messages, NEW m \in Messages, NEW T \in SUBSET (S \cup {m}),
         NEW limit \in Nat, Cardinality(S) < limit
  PROVE  Cardinality(T) <= limit
  <1>1. IsFiniteSet(S) /\ Cardinality(S) \in Nat
    BY Smaller
  <1>2. Cardinality(S \cup {m}) <= Cardinality(S) + 1
    BY <1>1, FS_AddElement
  <1>3. Cardinality(T) <= Cardinality(S \cup {m}) /\ Cardinality(T) \in Nat /\ Cardinality(S \cup {m}) \in Nat
    <2>1. S \cup {m} \in SUBSET Messages
      OBVIOUS
    <2> QED BY <2>1, Smaller
  <1> QED BY <1>1, <1>2, <1>3

(* What is cleared counts against the limits of every other message.       *)
LEMMA ClearedCounts == ASSUME SendInv, NEW m \in Messages, Cleared(m) PROVE status[m] \in Counted
  BY DEF SendInv, TypeOK, MessageKept, Untouched, Cleared

(* Only the check of a job clears a message.                               *)
LEMMA ClearedStays ==
  ASSUME SendInv, [Next]_vars, NEW m \in Messages, Cleared(m)', ~ Cleared(m)
  PROVE  \E w \in Workers : job[w] = m /\ Prepare(w, "send")
  <1>1. status[m] # "failed"
    BY Moves DEF Forward, Cleared
  <1>2. CASE UNCHANGED <<at, job, taken>>
    BY <1>1, <1>2 DEF Cleared
  <1>3. CASE WorkerSteps
    <2>1. PICK w \in Workers :
            \/ \E n \in Messages : Claim(w, n)
            \/ \E next \in Steps : Prepare(w, next)
            \/ \E answer \in Answers : CallGateway(w, answer)
            \/ Finish(w)
            \/ Die(w)
      BY <1>3 DEF WorkerSteps
    <2>2. ASSUME NEW n \in Messages, Claim(w, n) PROVE FALSE
      BY <1>1, <2>2 DEF Claim, Cleared, SendInv, TypeOK
    <2>3. ASSUME NEW next \in Steps, Prepare(w, next) PROVE job[w] = m /\ Prepare(w, "send")
      BY <1>1, <2>3 DEF Prepare, Cleared, SendInv, TypeOK
    <2>4. ASSUME NEW answer \in Answers, CallGateway(w, answer) PROVE FALSE
      <3>1. at[w] = "send" /\ UNCHANGED job /\ \A n \in Messages : n # job[w] => taken'[n] = taken[n]
        BY <2>4 DEF CallGateway, SendInv, TypeOK
      <3>2. \A v \in Workers : at'[v] = "send" => at[v] = "send"
        BY <2>4 DEF CallGateway, Answers, SendInv, TypeOK
      <3> QED BY <1>1, <3>1, <3>2 DEF Cleared
    <2>5. ASSUME Finish(w) \/ Die(w) PROVE FALSE
      BY <1>1, <2>5, MessagesAssumption DEF Finish, Die, Cleared, SendInv, TypeOK
    <2> QED BY <2>1, <2>2, <2>3, <2>4, <2>5
  <1>4. CASE ~ WorkerSteps
    BY <1>2, <1>4 DEF Next, QueueSteps, CampaignSteps, SettlingSteps, PlanDueReminders,
       QueueDueReminderMessage, DropDueReminder, QueueManualReminder, QueueBulkReminders, SendCampaign,
       CancelCampaign, CompleteFinishedCampaign, Enqueue, RecoverInterruptedSends, PollDeliveryReport,
       ResolveUnknownMessage, Settle, vars, jobs
  <1> QED BY <1>3, <1>4

LEMMA NextLimit == SendInv /\ LimitInv /\ [Next]_vars => LimitInv'
  <1> SUFFICES ASSUME SendInv, LimitInv, [Next]_vars PROVE LimitInv'
    OBVIOUS
  <1> USE DEF AllCleared, ClearedLike
  <1>1. CASE \E w \in Workers : Prepare(w, "send")
    <2>1. PICK w \in Workers : Prepare(w, "send")
      BY <1>1
    <2> DEFINE x == job[w]
    <2>2. x \in Messages
      BY <2>1, MessagesAssumption DEF Prepare, SendInv, TypeOK, JobKept
    <2>3. WithinLimits(x)
      BY <2>1 DEF Prepare, Checked, Outcomes
    <2>4. \A m \in Messages : Cleared(m)' => m = x \/ Cleared(m)
      BY <2>1 DEF Prepare, messages, Cleared, SendInv, TypeOK
    <2>5. \A m \in Messages : m # x /\ Cleared(m)' => m \in Others(x)
      BY <2>4, ClearedCounts DEF Others, CountedMessages
    <2>6. Others(x) \in SUBSET Messages
      BY DEF Others, CountedMessages
    <2> HIDE DEF x
    <2>7. Cardinality(AllCleared') <= CompanyLimit
      <3>1. AllCleared' \in SUBSET (Others(x) \cup {x})
        BY <2>2, <2>5
      <3>2. Cardinality(Others(x)) < CompanyLimit
        BY <2>3 DEF WithinLimits
      <3> QED BY <3>1, <3>2, <2>2, <2>6, OneMore, MessagesAssumption
    <2>8. ASSUME NEW m \in Messages PROVE Cardinality(ClearedLike(m)') <= CustomerLimit
      <3>1. CASE x \notin Manuals \cup Marketing /\ CustomerOf[x] = CustomerOf[m]
        <4> DEFINE S == {n \in Others(x) : CustomerOf[n] = CustomerOf[x]}
        <4>1. S \in SUBSET Messages /\ ClearedLike(m)' \in SUBSET (S \cup {x})
          BY <2>5, <2>6, <3>1
        <4>2. Cardinality(S) < CustomerLimit
          BY <2>3, <3>1 DEF WithinLimits
        <4> HIDE DEF S
        <4> QED BY <4>1, <4>2, <2>2, OneMore, MessagesAssumption
      <3>2. CASE ~ (x \notin Manuals \cup Marketing /\ CustomerOf[x] = CustomerOf[m])
        <4>1. ClearedLike(m) \in SUBSET Messages /\ ClearedLike(m)' \in SUBSET ClearedLike(m)
          BY <2>4, <3>2
        <4>2. Cardinality(ClearedLike(m)) <= CustomerLimit
          BY DEF LimitInv
        <4> HIDE DEF ClearedLike
        <4> QED BY <4>1, <4>2, Smaller, MessagesAssumption
      <3> QED BY <3>1, <3>2
    <2> QED BY <2>7, <2>8 DEF LimitInv
  <1>2. CASE ~ \E w \in Workers : Prepare(w, "send")
    <2>1. \A m \in Messages : Cleared(m)' => Cleared(m)
      BY <1>2, ClearedStays
    <2>2. /\ AllCleared \in SUBSET Messages /\ AllCleared' \in SUBSET AllCleared
          /\ \A m \in Messages : ClearedLike(m) \in SUBSET Messages /\ ClearedLike(m)' \in SUBSET ClearedLike(m)
      BY <2>1
    <2> HIDE DEF AllCleared, ClearedLike
    <2> QED BY <2>2, Smaller, MessagesAssumption DEF LimitInv
  <1> QED BY <1>1, <1>2

(* A customer is reached by no more reminders a day than the policy allows *)
(* and the company's customers by no more messages, though jobs check the  *)
(* limits side by side.                                                    *)
THEOREM LimitsHold == Spec => []WithinDailyLimits
  <1>1. Init => LimitInv
    <2> SUFFICES ASSUME Init PROVE LimitInv
      OBVIOUS
    <2>1. AllCleared = {} /\ \A m \in Messages : ClearedLike(m) = {}
      BY DEF Init, AllCleared, ClearedLike, Cleared
    <2> QED BY <2>1, FS_EmptySet, MessagesAssumption DEF LimitInv
  <1>2. LimitInv => WithinDailyLimits
    <2> SUFFICES ASSUME LimitInv PROVE WithinDailyLimits
      OBVIOUS
    <2> DEFINE reached == {m \in Messages : Reached(m)}
               limited == {m \in reached : m \notin Manuals \cup Marketing}
               like(m) == {n \in limited : CustomerOf[n] = CustomerOf[m]}
    <2>1. \A m \in Messages : Reached(m) => Cleared(m)
      BY DEF Reached, Cleared
    <2>2. reached \in SUBSET AllCleared /\ AllCleared \in SUBSET Messages
      BY <2>1 DEF AllCleared
    <2>3. Cardinality(reached) <= CompanyLimit
      BY <2>2, Smaller, MessagesAssumption DEF LimitInv
    <2>4. ASSUME NEW m \in limited PROVE Cardinality(like(m)) <= CustomerLimit
      <3>1. like(m) \in SUBSET ClearedLike(m) /\ ClearedLike(m) \in SUBSET Messages
        BY <2>2 DEF ClearedLike
      <3>2. Cardinality(ClearedLike(m)) <= CustomerLimit
        BY DEF LimitInv
      <3> HIDE DEF limited, like
      <3> QED BY <3>1, <3>2, Smaller, MessagesAssumption
    <2> QED BY <2>3, <2>4 DEF WithinDailyLimits
  <1> QED BY <1>1, <1>2, NextLimit, AlwaysSend, PTL DEF Spec
=============================================================================
