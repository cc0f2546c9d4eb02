---------------------------- MODULE OutboxProofs ----------------------------
(***************************************************************************)
(* The outbox implements EventDelivery, and within a lease an event is in  *)
(* the hands of one runner, for any number of runners, endpoints, events,  *)
(* deaths and attempts.                                                    *)
(*                                                                         *)
(* What a runner read of an event stays true of it: who was owed it is     *)
(* among the endpoints it read, and whoever is off its list without a      *)
(* failure has the event (Kept).  A lease is kept in wait: it runs out no  *)
(* earlier than the batch becomes too old, and while it runs nobody else   *)
(* has the event or a fresh reading of it (Leased).                        *)
(***************************************************************************)
EXTENDS Outbox, TLAPS

Holding == {"claimed", "create", "post", "accepted", "refused"}
Sending == {"create", "post", "accepted", "refused"}

\* A batch and its event go with the step.
Shaped(r) ==
  /\ job[r].event # None <=> job[r].at \in Holding
  /\ job[r].to # None <=> job[r].at \in Sending

\* What was read of an event when the batch began.
ReadOf(r, e) ==
  /\ status[e] # "none"
  /\ owed[e] \subseteq job[r].targets
  /\ job[r].read[e] < MaxAttempts

\* Of the endpoint p of the event in hand: to be sent, being sent, or done.
Reached(r, p) ==
  \/ p \in job[r].left
  \/ p = job[r].to /\ job[r].at # "accepted"
  \/ p \in got[job[r].event]

Kept(r) ==
  /\ \A e \in Events : e \in job[r].batch \/ e = job[r].event => ReadOf(r, e)
  /\ job[r].at = "accepted" => job[r].to \in got[job[r].event]
  /\ job[r].at \in Holding /\ ~ job[r].failed => \A p \in job[r].targets : Reached(r, p)

Rowed == \A e \in Events, p \in Endpoints : delivery[e][p] = "delivered" => p \in got[e]

Counted == \A e \in Events :
  /\ owed[e] \subseteq active
  /\ status[e] \in {"none", "pending"} => attempts[e] < MaxAttempts

DeliveryInv ==
  /\ TypeOK
  /\ \A r \in Runners : Shaped(r) /\ Kept(r)
  /\ Rowed /\ Counted

\* Within its lease a runner has the event to itself.
Leased == \A e \in Events \ overran, r \in Runners : job[r].event = e =>
  /\ job[r].age < Lease /\ wait[e] >= Lease - job[r].age
  /\ \A q \in Runners : e \notin fresh[q] /\ (job[q].event = e => q = r)

\* Nobody is sending an event to an endpoint that confirmed it.
Unconfirmed == \A r \in Runners :
  job[r].at \in Sending /\ job[r].event \notin overran => delivery[job[r].event][job[r].to] # "delivered"
-----------------------------------------------------------------------------
LEMMA NoJobType == NoJob \in Job
  BY OutboxAssumption DEF NoJob, Job, Steps

LEMMA InitDelivery == Init => DeliveryInv
  <1> SUFFICES ASSUME Init PROVE DeliveryInv
    OBVIOUS
  <1>2. TypeOK
    BY NoJobType, OutboxAssumption DEF Init, TypeOK, Statuses, Rows
  <1>3. \A r \in Runners : job[r] = NoJob
    BY DEF Init
  <1>4. \A r \in Runners : Shaped(r) /\ Kept(r)
    BY <1>3, OutboxAssumption DEF NoJob, Shaped, Kept, Holding, Sending
  <1> QED BY <1>2, <1>4, OutboxAssumption DEF Init, DeliveryInv, Rowed, Counted

(* What a runner knows survives the steps of the others: events never stop *)
(* being known, endpoints never lose one, and nobody is owed an event      *)
(* later.                                                                  *)
LEMMA KeptByOthers ==
  ASSUME NEW r \in Runners, TypeOK, Shaped(r), Kept(r), job'[r] = job[r],
         \A e \in Events : status[e] # "none" => status'[e] # "none" /\ owed'[e] = owed[e],
         \A e \in Events : got[e] \subseteq got'[e]
  PROVE  Shaped(r)' /\ Kept(r)'
  <1>1. Shaped(r)'
    BY DEF Shaped
  <1>2. job[r].at \in Holding => job[r].event \in Events
    BY DEF TypeOK, Job, Shaped
  <1>3. ASSUME NEW e \in Events, e \in job'[r].batch \/ e = job'[r].event PROVE ReadOf(r, e)'
    BY <1>3 DEF Kept, ReadOf
  <1>4. job'[r].at = "accepted" => job'[r].to \in got'[job'[r].event]
    BY <1>2 DEF Kept, Holding
  <1>5. ASSUME job'[r].at \in Holding, ~ job'[r].failed, NEW p \in job'[r].targets PROVE Reached(r, p)'
    BY <1>2, <1>5 DEF Kept, Reached
  <1> QED BY <1>1, <1>3, <1>4, <1>5 DEF Kept

LEMMA GoesTo ==
  ASSUME DeliveryInv, NEW r \in Runners, NEW j, Goes(r, j)
  PROVE  job' = [job EXCEPT ![r] = j] /\ job'[r] = j
  BY DEF DeliveryInv, TypeOK, Goes

(* The steps of one runner, which changes its job to j and of the tables   *)
(* what a runner may.                                                      *)
LEMMA OneJob ==
  ASSUME DeliveryInv, NEW r \in Runners, NEW j \in Job, job' = [job EXCEPT ![r] = j],
         UNCHANGED <<active, owed>>, crashes' \in 0..MaxCrashes,
         status' \in [Events -> Statuses], attempts' \in [Events -> 0..MaxAttempts], wait' \in [Events -> Nat],
         delivery' \in [Events -> [Endpoints -> Rows]], got' \in [Events -> SUBSET Endpoints],
         fresh' \in [Runners -> SUBSET Events], overran' \subseteq Events,
         \A e \in Events : status[e] # "none" => status'[e] # "none",
         \A e \in Events : status'[e] \in {"none", "pending"} => attempts'[e] < MaxAttempts,
         \A e \in Events : got[e] \subseteq got'[e],
         Rowed', Shaped(r)', Kept(r)'
  PROVE  DeliveryInv'
  <1>1. TypeOK'
    BY DEF DeliveryInv, TypeOK
  <1>2. ASSUME NEW q \in Runners, q # r PROVE Shaped(q)' /\ Kept(q)'
    <2>1. job'[q] = job[q] /\ TypeOK /\ Shaped(q) /\ Kept(q)
      BY <1>2 DEF DeliveryInv, TypeOK
    <2> QED BY <2>1, KeptByOthers
  <1>3. Counted'
    BY DEF DeliveryInv, Counted
  <1> QED BY <1>1, <1>2, <1>3 DEF DeliveryInv

\* The same when only the job, its fresh readings and the history change.
LEMMA JobOnly ==
  ASSUME DeliveryInv, NEW r \in Runners, NEW j \in Job, job' = [job EXCEPT ![r] = j],
         UNCHANGED <<active, outbox, delivery, owed, got>>, crashes' \in 0..MaxCrashes,
         fresh' \in [Runners -> SUBSET Events], overran' \subseteq Events,
         Shaped(r)', Kept(r)'
  PROVE  DeliveryInv'
  <1>1. /\ status' \in [Events -> Statuses] /\ attempts' \in [Events -> 0..MaxAttempts] /\ wait' \in [Events -> Nat]
        /\ delivery' \in [Events -> [Endpoints -> Rows]] /\ got' \in [Events -> SUBSET Endpoints]
    BY DEF DeliveryInv, TypeOK, outbox
  <1>2. \A e \in Events : status'[e] \in {"none", "pending"} => attempts'[e] < MaxAttempts
    BY DEF DeliveryInv, Counted, outbox
  <1>3. Rowed'
    BY DEF DeliveryInv, Rowed
  <1> QED BY <1>1, <1>2, <1>3, OneJob DEF outbox
-----------------------------------------------------------------------------
LEMMA RegisterKeeps == ASSUME DeliveryInv, NEW p \in Endpoints, Register(p) PROVE DeliveryInv'
  <1>1. TypeOK'
    BY DEF DeliveryInv, TypeOK, Register, outbox, ghosts
  <1>2. \A r \in Runners : Shaped(r)' /\ Kept(r)'
    BY KeptByOthers DEF DeliveryInv, Register, outbox, ghosts
  <1> QED BY <1>1, <1>2 DEF DeliveryInv, Register, Rowed, Counted, outbox, ghosts

LEMMA EmitKeeps == ASSUME DeliveryInv, NEW e \in Events, Emit(e) PROVE DeliveryInv'
  <1>1. TypeOK'
    BY DEF DeliveryInv, TypeOK, Emit, Statuses
  <1>2. \A d \in Events : status[d] # "none" => status'[d] # "none" /\ owed'[d] = owed[d]
    BY DEF DeliveryInv, TypeOK, Emit
  <1>3. \A r \in Runners : Shaped(r)' /\ Kept(r)'
    BY <1>2, KeptByOthers DEF DeliveryInv, Emit
  <1>4. Rowed' /\ Counted'
    BY DEF DeliveryInv, TypeOK, Emit, Rowed, Counted
  <1> QED BY <1>1, <1>3, <1>4 DEF DeliveryInv

LEMMA PollKeeps == ASSUME DeliveryInv, NEW r \in Runners, Poll(r) PROVE DeliveryInv'
  <1>0. attempts \in [Events -> Nat] /\ Due \in SUBSET Events /\ active \in SUBSET Endpoints /\ Lease \in Nat
    BY OutboxAssumption DEF DeliveryInv, TypeOK, Due
  <1>8. [NoJob EXCEPT !.at = "next", !.batch = Due, !.read = attempts, !.targets = active] \in Job
    BY <1>0, NoJobType DEF Job, Steps
  <1>1. PICK j \in Job : j = [NoJob EXCEPT !.at = "next", !.batch = Due, !.read = attempts, !.targets = active]
    BY <1>8
  <1>2. job' = [job EXCEPT ![r] = j] /\ job'[r] = j
    BY <1>1, GoesTo DEF Poll
  <1>3. /\ j.at = "next" /\ j.batch = Due /\ j.read = attempts /\ j.targets = active /\ j.event = None /\ j.to = None
        /\ status' = status /\ owed' = owed
    BY <1>1 DEF Poll, outbox, ghosts, NoJob
  <1>4. Shaped(r)'
    BY <1>2, <1>3 DEF Shaped, Holding, Sending
  <1>5. \A e \in Events : e \in Due => status[e] # "none" /\ owed[e] \subseteq active /\ attempts[e] < MaxAttempts
    BY DEF DeliveryInv, Counted, Due
  <1>6. Kept(r)'
    BY <1>2, <1>3, <1>5, OutboxAssumption DEF Kept, ReadOf, Holding
  <1>7. fresh' \in [Runners -> SUBSET Events] /\ overran' \subseteq Events /\ crashes' \in 0..MaxCrashes
    BY <1>0 DEF DeliveryInv, TypeOK, Poll, ghosts
  <1> QED BY <1>1, <1>2, <1>4, <1>6, <1>7, JobOnly DEF Poll, ghosts

\* A runner that gives its batch up.
LEMMA IdleKeeps ==
  ASSUME DeliveryInv, NEW r \in Runners, Goes(r, NoJob), fresh' = [fresh EXCEPT ![r] = {}],
         UNCHANGED <<active, outbox, delivery, ghosts>>, crashes' \in 0..MaxCrashes
  PROVE  DeliveryInv'
  <1>1. PICK j \in Job : j = NoJob
    BY NoJobType
  <1>2. job' = [job EXCEPT ![r] = j] /\ job'[r] = j /\ j.at = "idle" /\ j.batch = {} /\ j.event = None /\ j.to = None
    BY <1>1, GoesTo DEF NoJob
  <1>3. Shaped(r)' /\ Kept(r)'
    BY <1>2, OutboxAssumption DEF Shaped, Kept, Holding, Sending
  <1>4. fresh' \in [Runners -> SUBSET Events] /\ overran' \subseteq Events
    BY DEF DeliveryInv, TypeOK, ghosts
  <1> QED BY <1>1, <1>2, <1>3, <1>4, JobOnly DEF ghosts

LEMMA LoseClaimKeeps == ASSUME DeliveryInv, NEW r \in Runners, NEW e \in Events, LoseClaim(r, e) PROVE DeliveryInv'
  <1>0. job[r] \in Job /\ Shaped(r) /\ Kept(r) /\ job[r].at = "next"
    BY DEF DeliveryInv, TypeOK, LoseClaim
  <1>1. PICK j \in Job : j = [job[r] EXCEPT !.batch = @ \ {e}]
    BY <1>0 DEF Job
  <1>2. /\ job' = [job EXCEPT ![r] = j] /\ job'[r] = j
        /\ j.at = "next" /\ j.batch \subseteq job[r].batch /\ j.read = job[r].read /\ j.targets = job[r].targets
        /\ j.event = job[r].event /\ j.to = job[r].to
    BY <1>0, <1>1, GoesTo DEF LoseClaim, Job
  <1>3. Shaped(r)'
    BY <1>0, <1>2 DEF Shaped
  <1>4. Kept(r)'
    BY <1>0, <1>2 DEF Kept, ReadOf, LoseClaim, Holding, outbox, ghosts
  <1>5. fresh' \in [Runners -> SUBSET Events] /\ overran' \subseteq Events /\ crashes' \in 0..MaxCrashes
    BY DEF DeliveryInv, TypeOK, LoseClaim, ghosts
  <1> QED BY <1>1, <1>2, <1>3, <1>4, <1>5, JobOnly DEF LoseClaim, ghosts

LEMMA ClaimKeeps == ASSUME DeliveryInv, NEW r \in Runners, NEW e \in Events, Claim(r, e) PROVE DeliveryInv'
  <1>0. job[r] \in Job /\ Shaped(r) /\ Kept(r) /\ job[r].at = "next" /\ e \in job[r].batch
    BY DEF DeliveryInv, TypeOK, Claim
  <1>1. PICK j \in Job : j = [job[r] EXCEPT !.at = "claimed", !.batch = @ \ {e}, !.event = e,
                                            !.left = job[r].targets, !.failed = FALSE]
    BY <1>0 DEF Job, Steps
  <1>8. job' = [job EXCEPT ![r] = j] /\ job'[r] = j
    BY <1>1, GoesTo DEF Claim
  <1>2. /\ j.at = "claimed" /\ j.batch \subseteq job[r].batch /\ j.read = job[r].read /\ j.targets = job[r].targets
        /\ j.event = e /\ j.to = job[r].to /\ j.left = j.targets
    BY <1>0, <1>1 DEF Job
  <1>3. Shaped(r)'
    BY <1>0, <1>2, <1>8, OutboxAssumption DEF Shaped, Holding, Sending
  <1>4. Kept(r)'
    BY <1>0, <1>2, <1>8 DEF Kept, ReadOf, Reached, Claim
  <1>5. Lease - job[r].age \in Nat
    BY <1>0, OutboxAssumption DEF Job
  <1>6. /\ wait' \in [Events -> Nat] /\ fresh' \in [Runners -> SUBSET Events] /\ overran' \subseteq Events
        /\ crashes' \in 0..MaxCrashes /\ status' \in [Events -> Statuses] /\ attempts' \in [Events -> 0..MaxAttempts]
        /\ delivery' \in [Events -> [Endpoints -> Rows]] /\ got' \in [Events -> SUBSET Endpoints]
    BY <1>5 DEF DeliveryInv, TypeOK, Claim, Postpone
  <1>7. Rowed' /\ \A d \in Events : status'[d] \in {"none", "pending"} => attempts'[d] < MaxAttempts
    BY DEF DeliveryInv, Counted, Rowed, Claim
  <1> QED BY <1>1, <1>8, <1>3, <1>4, <1>6, <1>7, OneJob DEF Claim

\* A runner that is done with its event.
LEMMA LeaveKeeps ==
  ASSUME DeliveryInv, NEW r \in Runners, job[r].at = "claimed", Leave(r),
         UNCHANGED <<active, owed, got, delivery, overran, crashes>>,
         status' \in [Events -> Statuses], attempts' \in [Events -> 0..MaxAttempts], wait' \in [Events -> Nat],
         fresh' \in [Runners -> SUBSET Events],
         \A e \in Events : status[e] # "none" => status'[e] # "none",
         \A e \in Events : status'[e] \in {"none", "pending"} => attempts'[e] < MaxAttempts
  PROVE  DeliveryInv'
  <1>0. job[r] \in Job /\ Shaped(r) /\ Kept(r)
    BY DEF DeliveryInv, TypeOK
  <1>1. PICK j \in Job : j = [job[r] EXCEPT !.at = "next", !.event = None, !.failed = FALSE]
    BY <1>0 DEF Job, Steps
  <1>2. job' = [job EXCEPT ![r] = j] /\ job'[r] = j
    BY <1>1, GoesTo DEF Leave
  <1>3. /\ j.at = "next" /\ j.batch = job[r].batch /\ j.read = job[r].read /\ j.targets = job[r].targets
        /\ j.event = None /\ j.to = job[r].to
    BY <1>0, <1>1 DEF Job
  <1>4. Shaped(r)'
    BY <1>0, <1>2, <1>3 DEF Shaped, Holding, Sending
  <1>5. Kept(r)'
    BY <1>0, <1>2, <1>3, OutboxAssumption DEF Kept, ReadOf, Holding
  <1>6. /\ delivery' \in [Events -> [Endpoints -> Rows]] /\ got' \in [Events -> SUBSET Endpoints]
        /\ overran' \subseteq Events /\ crashes' \in 0..MaxCrashes /\ Rowed'
    BY DEF DeliveryInv, TypeOK, Rowed
  <1> QED BY <1>1, <1>2, <1>4, <1>5, <1>6, OneJob

LEMMA Tables ==
  ASSUME DeliveryInv
  PROVE  /\ status \in [Events -> Statuses] /\ attempts \in [Events -> 0..MaxAttempts] /\ wait \in [Events -> Nat]
         /\ delivery \in [Events -> [Endpoints -> Rows]] /\ got \in [Events -> SUBSET Endpoints]
         /\ fresh \in [Runners -> SUBSET Events] /\ overran \subseteq Events /\ crashes \in 0..MaxCrashes
         /\ \A e \in Events : status[e] \in {"none", "pending"} => attempts[e] < MaxAttempts
  BY DEF DeliveryInv, TypeOK, Counted

\* What a runner with an event in hand knows of it.
LEMMA InHand ==
  ASSUME DeliveryInv, NEW r \in Runners, job[r].at \in Holding
  PROVE  /\ job[r] \in Job /\ Shaped(r) /\ Kept(r)
         /\ job[r].event \in Events /\ ReadOf(r, job[r].event)
         /\ Attempt(r) \in 1..MaxAttempts
         /\ job[r].at \in Sending => job[r].to \in Endpoints
  <1>1. job[r] \in Job /\ Shaped(r) /\ Kept(r)
    BY DEF DeliveryInv, TypeOK
  <1>2. job[r].event \in Events /\ (job[r].at \in Sending => job[r].to \in Endpoints)
    BY <1>1 DEF Shaped, Job
  <1>3. ReadOf(r, job[r].event)
    BY <1>1, <1>2 DEF Kept
  <1>4. job[r].read[job[r].event] \in Nat
    BY <1>1, <1>2 DEF Job
  <1> QED BY <1>1, <1>2, <1>3, <1>4, OutboxAssumption DEF ReadOf, Attempt

LEMMA SkipKeeps == ASSUME DeliveryInv, NEW r \in Runners, Skip(r) PROVE DeliveryInv'
  <1>1. job[r].event \in Events
    BY InHand DEF Skip, Holding
  <1> QED BY <1>1, Tables, LeaveKeeps DEF Skip, Statuses, ghosts

LEMMA PublishKeeps == ASSUME DeliveryInv, NEW r \in Runners, Publish(r) PROVE DeliveryInv'
  <1>1. job[r].event \in Events
    BY InHand DEF Publish, Done, Holding
  <1> QED BY <1>1, Tables, LeaveKeeps DEF Publish, Settle, Done, Statuses, ghosts

LEMMA DeadLetterKeeps == ASSUME DeliveryInv, NEW r \in Runners, DeadLetter(r) PROVE DeliveryInv'
  <1>1. job[r].event \in Events /\ Attempt(r) \in 0..MaxAttempts
    BY InHand, OutboxAssumption DEF DeadLetter, Done, Holding
  <1> QED BY <1>1, Tables, LeaveKeeps DEF DeadLetter, Settle, Count, Done, Statuses, ghosts

LEMMA RetryKeeps == ASSUME DeliveryInv, NEW r \in Runners, Retry(r) PROVE DeliveryInv'
  <1>1. job[r].event \in Events /\ Attempt(r) \in 0..MaxAttempts /\ Attempt(r) < MaxAttempts
    BY InHand, OutboxAssumption DEF Retry, Done, Holding
  <1>2. /\ attempts' \in [Events -> 0..MaxAttempts]
        /\ \A e \in Events : status'[e] \in {"none", "pending"} => attempts'[e] < MaxAttempts
    BY <1>1, Tables DEF Retry, Count
  <1>3. wait' \in [Events -> Nat] /\ fresh' \in [Runners -> SUBSET Events]
    BY <1>1, Tables, OutboxAssumption DEF Retry, Postpone
  <1> QED BY <1>1, <1>2, <1>3, Tables, LeaveKeeps DEF Retry, Done, ghosts

LEMMA LookKeeps == ASSUME DeliveryInv, NEW r \in Runners, NEW p \in Endpoints, Look(r, p) PROVE DeliveryInv'
  <1>0. job[r] \in Job /\ Shaped(r) /\ Kept(r) /\ job[r].at = "claimed" /\ job[r].event \in Events /\ p \in job[r].left
    BY InHand DEF Look, Holding
  <1> DEFINE e == job[r].event
  <1>1. Seen(e, p) \in {"claimed", "create", "post"} /\ Unusable(e, p) \in BOOLEAN
    BY DEF Seen, Unusable
  <1> DEFINE at == Seen(e, p)
             to == IF Seen(e, p) = "claimed" THEN None ELSE p
             failed == job[r].failed \/ Unusable(e, p)
  <1>10. at \in Steps /\ to \in Endpoints \cup {None} /\ failed \in BOOLEAN
    BY <1>1 DEF Steps
  <1>11. [job[r] EXCEPT !.at = at, !.left = job[r].left \ {p}, !.to = to, !.failed = failed] \in Job
    <2> HIDE DEF at, to, failed
    <2> QED BY <1>0, <1>10 DEF Job
  <1>12. [job[r] EXCEPT !.at = at, !.left = job[r].left \ {p}, !.to = to, !.failed = failed]
           = [job[r] EXCEPT !.at = Seen(e, p), !.left = @ \ {p},
                            !.to = IF Seen(e, p) = "claimed" THEN None ELSE p,
                            !.failed = @ \/ Unusable(e, p)]
    OBVIOUS
  <1>2. PICK j \in Job : j = [job[r] EXCEPT !.at = Seen(e, p), !.left = @ \ {p},
                                            !.to = IF Seen(e, p) = "claimed" THEN None ELSE p,
                                            !.failed = @ \/ Unusable(e, p)]
    BY <1>11, <1>12
  <1>3. job' = [job EXCEPT ![r] = j] /\ job'[r] = j
    BY <1>2, GoesTo DEF Look
  <1>4. /\ j.at = Seen(e, p) /\ j.batch = job[r].batch /\ j.read = job[r].read /\ j.targets = job[r].targets
        /\ j.event = e /\ j.left = job[r].left \ {p}
        /\ j.to = (IF Seen(e, p) = "claimed" THEN None ELSE p)
        /\ j.failed = (job[r].failed \/ Unusable(e, p))
    BY <1>0, <1>2 DEF Job
  <1>5. UNCHANGED <<status, owed, got>>
    BY DEF Look, outbox, ghosts
  <1>6. Shaped(r)'
    BY <1>0, <1>1, <1>3, <1>4, OutboxAssumption DEF Shaped, Holding, Sending
  <1>7. job[r].to = None
    BY <1>0 DEF Shaped, Sending
  <1>8. ASSUME ~ j.failed, NEW q \in j.targets PROVE Reached(r, q)'
    <2>1. Reached(r, q) /\ ~ Unusable(e, p)
      BY <1>0, <1>4, <1>8 DEF Kept, Holding
    <2>2. q \in Endpoints
      BY <1>0, <1>4 DEF Job
    <2>3. CASE q # p
      BY <1>3, <1>4, <1>5, <1>7, <2>1, <2>2, <2>3, OutboxAssumption DEF Reached
    <2>4. CASE q = p /\ Seen(e, p) # "claimed"
      BY <1>1, <1>3, <1>4, <2>4 DEF Reached
    <2>5. CASE q = p /\ Seen(e, p) = "claimed"
      <3>1. delivery[e][p] = "delivered"
        BY <2>1, <2>5 DEF Seen, Unusable
      <3> QED BY <1>0, <1>3, <1>4, <1>5, <2>5, <3>1 DEF Reached, DeliveryInv, Rowed
    <2> QED BY <2>3, <2>4, <2>5
  <1>9. Kept(r)'
    BY <1>0, <1>1, <1>3, <1>4, <1>5, <1>8 DEF Kept, ReadOf
  <1> QED BY <1>2, <1>3, <1>6, <1>9, Tables, JobOnly DEF Look, ghosts

LEMMA CreateRowKeeps == ASSUME DeliveryInv, NEW r \in Runners, CreateRow(r) PROVE DeliveryInv'
  <1>0. /\ job[r] \in Job /\ Shaped(r) /\ Kept(r) /\ job[r].at = "create"
        /\ job[r].event \in Events /\ job[r].to \in Endpoints
    BY InHand DEF CreateRow, Holding, Sending
  <1>1. PICK j \in Job : j = [job[r] EXCEPT !.at = "post"]
    BY <1>0 DEF Job, Steps
  <1>2. job' = [job EXCEPT ![r] = j] /\ job'[r] = j
    BY <1>1, GoesTo DEF CreateRow
  <1>3. /\ j.at = "post" /\ j.batch = job[r].batch /\ j.read = job[r].read /\ j.targets = job[r].targets
        /\ j.event = job[r].event /\ j.left = job[r].left /\ j.to = job[r].to /\ j.failed = job[r].failed
    BY <1>0, <1>1 DEF Job
  <1>4. UNCHANGED <<status, attempts, wait, owed, got>>
    BY DEF CreateRow, outbox, ghosts
  <1>5. Shaped(r)'
    BY <1>0, <1>2, <1>3 DEF Shaped, Holding, Sending
  <1>6. Kept(r)'
    BY <1>0, <1>2, <1>3, <1>4 DEF Kept, ReadOf, Reached, Holding
  <1>7. delivery' \in [Events -> [Endpoints -> Rows]]
    BY <1>0, Tables DEF CreateRow, Write, Rows
  <1>8. Rowed'
    BY <1>0, <1>4, Tables DEF CreateRow, Write, DeliveryInv, Rowed
  <1> QED BY <1>1, <1>2, <1>4, <1>5, <1>6, <1>7, <1>8, Tables, OneJob DEF CreateRow, ghosts

LEMMA PostKeeps ==
  ASSUME DeliveryInv, NEW r \in Runners, NEW took \in BOOLEAN, NEW answered \in BOOLEAN, Post(r, took, answered)
  PROVE  DeliveryInv'
  <1>0. /\ job[r] \in Job /\ Shaped(r) /\ Kept(r) /\ job[r].at = "post"
        /\ job[r].event \in Events /\ job[r].to \in Endpoints
    BY InHand DEF Post, Holding, Sending
  <1> DEFINE at == IF answered THEN "accepted" ELSE "refused"
  <1>1. PICK j \in Job : j = [job[r] EXCEPT !.at = at]
    BY <1>0 DEF Job, Steps
  <1>2. job' = [job EXCEPT ![r] = j] /\ job'[r] = j
    BY <1>1, GoesTo DEF Post
  <1>3. /\ j.at = at /\ j.batch = job[r].batch /\ j.read = job[r].read /\ j.targets = job[r].targets
        /\ j.event = job[r].event /\ j.left = job[r].left /\ j.to = job[r].to /\ j.failed = job[r].failed
    BY <1>0, <1>1 DEF Job
  <1>4. UNCHANGED <<status, attempts, wait, delivery, owed>>
    BY DEF Post, outbox
  <1>5. /\ got' \in [Events -> SUBSET Endpoints]
        /\ \A e \in Events : got[e] \subseteq got'[e]
        /\ answered => job[r].to \in got'[job[r].event]
    BY <1>0, Tables DEF Post
  <1>6. Shaped(r)'
    BY <1>0, <1>2, <1>3 DEF Shaped, Holding, Sending
  <1>7. ASSUME j.at \in Holding, ~ j.failed, NEW p \in j.targets PROVE Reached(r, p)'
    <2>1. Reached(r, p)
      BY <1>0, <1>3, <1>7 DEF Kept, Holding
    <2>2. job'[r].at = "accepted" => job'[r].to \in got'[job'[r].event]
      BY <1>2, <1>3, <1>5
    <2>3. p \in Endpoints
      BY <1>0, <1>3 DEF Job
    <2> QED BY <1>0, <1>2, <1>3, <1>5, <2>1, <2>2, <2>3 DEF Reached
  <1>8. Kept(r)'
    BY <1>0, <1>2, <1>3, <1>4, <1>5, <1>7 DEF Kept, ReadOf
  <1>9. Rowed'
    BY <1>4, <1>5 DEF DeliveryInv, Rowed
  <1>10. /\ UNCHANGED <<active, owed, fresh, overran, crashes>> /\ fresh' \in [Runners -> SUBSET Events]
         /\ overran' \subseteq Events /\ crashes' \in 0..MaxCrashes /\ j \in Job
         /\ job' = [job EXCEPT ![r] = j]
    BY <1>1, <1>2, Tables DEF Post
  <1>11. /\ status' \in [Events -> Statuses] /\ attempts' \in [Events -> 0..MaxAttempts] /\ wait' \in [Events -> Nat]
         /\ delivery' \in [Events -> [Endpoints -> Rows]]
         /\ \A e \in Events : status'[e] \in {"none", "pending"} => attempts'[e] < MaxAttempts
         /\ \A e \in Events : status[e] # "none" => status'[e] # "none"
    BY <1>4, Tables
  <1> HIDE DEF at
  <1> QED BY <1>5, <1>6, <1>8, <1>9, <1>10, <1>11, OneJob

LEMMA RecordKeeps == ASSUME DeliveryInv, NEW r \in Runners, Record(r) PROVE DeliveryInv'
  <1>0. /\ job[r] \in Job /\ Shaped(r) /\ Kept(r) /\ job[r].at \in {"accepted", "refused"}
        /\ job[r].event \in Events /\ job[r].to \in Endpoints
    BY InHand DEF Record, Holding, Sending
  <1> DEFINE failed == job[r].failed \/ job[r].at = "refused"
  <1>11. failed \in BOOLEAN
    OBVIOUS
  <1>12. [job[r] EXCEPT !.at = "claimed", !.to = None, !.failed = failed] \in Job
    <2> HIDE DEF failed
    <2> QED BY <1>0, <1>11 DEF Job, Steps
  <1>13. [job[r] EXCEPT !.at = "claimed", !.to = None, !.failed = failed]
           = [job[r] EXCEPT !.at = "claimed", !.to = None, !.failed = @ \/ job[r].at = "refused"]
    OBVIOUS
  <1>1. PICK j \in Job : j = [job[r] EXCEPT !.at = "claimed", !.to = None,
                                            !.failed = @ \/ job[r].at = "refused"]
    BY <1>12, <1>13
  <1>2. job' = [job EXCEPT ![r] = j] /\ job'[r] = j
    BY <1>1, GoesTo DEF Record
  <1>3. /\ j.at = "claimed" /\ j.batch = job[r].batch /\ j.read = job[r].read /\ j.targets = job[r].targets
        /\ j.event = job[r].event /\ j.left = job[r].left /\ j.to = None /\ j.failed = failed
    BY <1>0, <1>1 DEF Job
  <1>4. UNCHANGED <<status, attempts, wait, owed, got>>
    BY DEF Record, outbox, ghosts
  <1>5. Shaped(r)'
    BY <1>0, <1>2, <1>3, OutboxAssumption DEF Shaped, Holding, Sending
  <1>6. ASSUME ~ j.failed, NEW p \in j.targets PROVE Reached(r, p)'
    <2>1. job[r].at = "accepted" /\ Reached(r, p) /\ job[r].to \in got[job[r].event]
      BY <1>0, <1>3, <1>6 DEF Kept, Holding
    <2> QED BY <1>2, <1>3, <1>4, <2>1 DEF Reached
  <1>7. Kept(r)'
    BY <1>0, <1>2, <1>3, <1>4, <1>6 DEF Kept, ReadOf
  <1>8. delivery' \in [Events -> [Endpoints -> Rows]]
    BY <1>0, Tables DEF Record, Write, Rows
  <1>9. Rowed'
    <2>1. job[r].at = "accepted" => job[r].to \in got[job[r].event]
      BY <1>0 DEF Kept
    <2> QED BY <1>0, <1>4, <2>1, Tables DEF Record, Write, DeliveryInv, Rowed
  <1> QED BY <1>1, <1>2, <1>4, <1>5, <1>7, <1>8, <1>9, Tables, OneJob DEF Record, ghosts

\* A tick ages the jobs and leaves the rest of them alone.
LEMMA TickJob ==
  ASSUME DeliveryInv, Tick, NEW r \in Runners
  PROVE  /\ job[r] \in Job /\ job'[r] \in Job /\ Aged(r) \in 0..Lease
         /\ job'[r].at = job[r].at /\ job'[r].batch = job[r].batch /\ job'[r].read = job[r].read
         /\ job'[r].targets = job[r].targets /\ job'[r].event = job[r].event /\ job'[r].left = job[r].left
         /\ job'[r].to = job[r].to /\ job'[r].failed = job[r].failed /\ job'[r].age = Aged(r)
  <1>1. job[r] \in Job
    BY DEF DeliveryInv, TypeOK
  <1>2. Aged(r) \in 0..Lease
    BY <1>1, OutboxAssumption DEF Aged, Job
  <1>3. job'[r] = [job[r] EXCEPT !.age = Aged(r)]
    BY DEF Tick
  <1> HIDE DEF Aged
  <1> QED BY <1>1, <1>2, <1>3 DEF Job

LEMMA TickKeeps == ASSUME DeliveryInv, Tick PROVE DeliveryInv'
  <1>1. UNCHANGED <<active, status, attempts, delivery, fresh, owed, got, crashes>>
    BY DEF Tick
  <1>2. job' \in [Runners -> Job]
    <2>1. job' = [r \in Runners |-> [job[r] EXCEPT !.age = Aged(r)]]
      BY DEF Tick
    <2>2. \A r \in Runners : job'[r] \in Job
      BY TickJob
    <2> QED BY <2>1, <2>2
  <1>3. wait' \in [Events -> Nat]
    <2>1. wait \in [Events -> Nat]
      BY Tables
    <2>2. \A e \in Events : (IF wait[e] = 0 THEN 0 ELSE wait[e] - 1) \in Nat
      BY <2>1
    <2>3. wait' = [e \in Events |-> IF wait[e] = 0 THEN 0 ELSE wait[e] - 1]
      BY DEF Tick
    <2> QED BY <2>2, <2>3
  <1>4. overran' \subseteq Events
    <2>1. \A r \in Runners : job[r].event \in Events \cup {None}
      BY TickJob DEF Job
    <2> QED BY <2>1, Tables DEF Tick
  <1>5. TypeOK'
    BY <1>1, <1>2, <1>3, <1>4 DEF DeliveryInv, TypeOK
  <1>6. ASSUME NEW r \in Runners PROVE Shaped(r)' /\ Kept(r)'
    <2>1. Shaped(r) /\ Kept(r)
      BY DEF DeliveryInv
    <2> QED BY <1>1, <2>1, TickJob DEF Shaped, Kept, ReadOf, Reached
  <1> QED BY <1>1, <1>5, <1>6 DEF DeliveryInv, Rowed, Counted

LEMMA StepKeeps == ASSUME DeliveryInv, NEW r \in Runners, Step(r) PROVE DeliveryInv'
  <1>0. job[r] \in Job /\ crashes \in 0..MaxCrashes
    BY DEF DeliveryInv, TypeOK
  <1>1. CASE \E e \in job[r].batch : Claim(r, e) \/ LoseClaim(r, e)
    BY <1>0, <1>1, ClaimKeeps, LoseClaimKeeps DEF Job
  <1>2. CASE EndBatch(r)
    BY <1>0, <1>2, IdleKeeps DEF EndBatch
  <1>3. CASE ThrowBatch(r)
    BY <1>0, <1>3, IdleKeeps DEF ThrowBatch
  <1>4. CASE \E p \in job[r].left : Look(r, p)
    BY <1>0, <1>4, LookKeeps DEF Job
  <1> QED BY <1>1, <1>2, <1>3, <1>4, SkipKeeps, PublishKeeps, DeadLetterKeeps, RetryKeeps,
             CreateRowKeeps, PostKeeps, RecordKeeps DEF Step, Deliver

LEMMA NextKeeps == ASSUME DeliveryInv, [Next]_vars PROVE DeliveryInv'
  <1>1. ASSUME NEW r \in Runners, Crash(r) PROVE DeliveryInv'
    <2>1. crashes' \in 0..MaxCrashes
      BY <1>1, OutboxAssumption DEF DeliveryInv, TypeOK, Crash
    <2> QED BY <1>1, <2>1, IdleKeeps DEF Crash
  <1>2. CASE UNCHANGED vars
    <2>1. UNCHANGED <<active, status, attempts, wait, delivery, job, fresh, owed, got, overran, crashes>>
      BY <1>2 DEF vars, outbox, ghosts
    <2> QED BY <2>1 DEF DeliveryInv, TypeOK, Shaped, Kept, ReadOf, Reached, Rowed, Counted
  <1> QED BY <1>1, <1>2, RegisterKeeps, EmitKeeps, PollKeeps, StepKeeps, TickKeeps DEF Next

(* Every table and every batch of processOutboxBatch keeps its shape: a    *)
(* runner has an event in hand and an endpoint only while it works on one, *)
(* and no event is tried more often than MAX_ATTEMPTS.                     *)
THEOREM TypeCorrect == Spec => []TypeOK
  <1>1. DeliveryInv => TypeOK
    BY DEF DeliveryInv
  <1> QED BY <1>1, InitDelivery, NextKeeps, PTL DEF Spec
-----------------------------------------------------------------------------
\* Steps that change neither the outcome of an event nor who has it.
LEMMA Silent ==
  ASSUME UNCHANGED <<status, owed, got>>
  PROVE  [Delivery!Next]_<<status, owed, got>>
  OBVIOUS

LEMMA EmitRefines == ASSUME DeliveryInv, NEW e \in Events, Emit(e) PROVE Delivery!Next
  <1>1. active \in SUBSET Endpoints
    BY DEF DeliveryInv, TypeOK
  <1>2. Delivery!Happen(e, active)
    BY DEF Emit, Delivery!Happen
  <1> QED BY <1>1, <1>2 DEF Delivery!Next

LEMMA PostRefines ==
  ASSUME DeliveryInv, NEW r \in Runners, NEW took \in BOOLEAN, NEW answered \in BOOLEAN, Post(r, took, answered)
  PROVE  [Delivery!Next]_<<status, owed, got>>
  <1>1. /\ job[r].event \in Events /\ job[r].to \in Endpoints
        /\ ReadOf(r, job[r].event)
    BY InHand DEF Post, Holding, Sending
  <1>2. UNCHANGED <<status, owed>>
    BY DEF Post, outbox
  <1>3. CASE took
    <2>1. Delivery!Receive(job[r].event, job[r].to)
      BY <1>1, <1>2, <1>3 DEF Post, ReadOf, Delivery!Receive
    <2> QED BY <1>1, <2>1 DEF Delivery!Next
  <1>4. CASE ~ took
    BY <1>2, <1>4, Silent DEF Post
  <1> QED BY <1>3, <1>4

LEMMA PublishRefines ==
  ASSUME DeliveryInv, NEW r \in Runners, Publish(r)
  PROVE  [Delivery!Next]_<<status, owed, got>>
  <1> DEFINE e == job[r].event
  <1>1. /\ job[r] \in Job /\ Shaped(r) /\ Kept(r) /\ e \in Events /\ ReadOf(r, e)
        /\ job[r].at = "claimed" /\ job[r].left = {} /\ ~ job[r].failed
    BY InHand DEF Publish, Done, Holding
  <1>2. UNCHANGED <<owed, got>>
    BY DEF Publish, ghosts
  <1>3. ASSUME NEW p \in owed[e] PROVE p \in got[e]
    <2>1. p \in Endpoints /\ p \in job[r].targets
      BY <1>1, <1>3 DEF ReadOf, Job
    <2>2. Reached(r, p)
      BY <1>1, <2>1 DEF Kept, Holding
    <2>3. job[r].to = None
      BY <1>1 DEF Shaped, Sending
    <2> QED BY <1>1, <2>1, <2>2, <2>3, OutboxAssumption DEF Reached
  <1>4. CASE status[e] = "pending"
    <2>1. Delivery!Publish(e)
      BY <1>2, <1>3, <1>4 DEF Publish, Settle, Delivery!Publish
    <2> QED BY <1>1, <2>1 DEF Delivery!Next
  <1>5. CASE status[e] # "pending"
    BY <1>2, <1>5, Silent DEF Publish, Settle
  <1> QED BY <1>4, <1>5

LEMMA DeadLetterRefines ==
  ASSUME DeliveryInv, NEW r \in Runners, DeadLetter(r)
  PROVE  [Delivery!Next]_<<status, owed, got>>
  <1> DEFINE e == job[r].event
  <1>1. e \in Events
    BY InHand DEF DeadLetter, Done, Holding
  <1>2. UNCHANGED <<owed, got>>
    BY DEF DeadLetter, ghosts
  <1>3. CASE status[e] = "pending"
    <2>1. Delivery!GiveUp(e)
      BY <1>2, <1>3 DEF DeadLetter, Settle, Delivery!GiveUp
    <2> QED BY <1>1, <2>1 DEF Delivery!Next
  <1>4. CASE status[e] # "pending"
    BY <1>2, <1>4, Silent DEF DeadLetter, Settle
  <1> QED BY <1>3, <1>4

LEMMA SkipRefines == ASSUME DeliveryInv, NEW r \in Runners, Skip(r) PROVE Delivery!Next
  <1> DEFINE e == job[r].event
  <1>1. e \in Events /\ ReadOf(r, e) /\ job[r].targets = {}
    BY InHand DEF Skip, Holding
  <1>2. owed[e] = {}
    BY <1>1 DEF ReadOf
  <1>3. Delivery!Drop(e)
    BY <1>1, <1>2 DEF Skip, ReadOf, ghosts, Delivery!Drop
  <1> QED BY <1>1, <1>3 DEF Delivery!Next

LEMMA NextRefines ==
  ASSUME DeliveryInv, [Next]_vars
  PROVE  [Delivery!Next]_<<status, owed, got>>
  <1>1. CASE \E e \in Events : Emit(e)
    BY <1>1, EmitRefines
  <1>2. ASSUME NEW r \in Runners, Step(r) PROVE [Delivery!Next]_<<status, owed, got>>
    <2>1. CASE \E e \in job[r].batch : Claim(r, e) \/ LoseClaim(r, e)
      BY <2>1, Silent DEF Claim, LoseClaim, outbox, ghosts
    <2>2. CASE EndBatch(r) \/ Retry(r) \/ CreateRow(r) \/ ThrowBatch(r) \/ Record(r)
      BY <2>2, Silent DEF EndBatch, Retry, CreateRow, ThrowBatch, Record, outbox, ghosts
    <2>3. CASE \E p \in job[r].left : Look(r, p)
      BY <2>3, Silent DEF Look, outbox, ghosts
    <2> QED BY <1>2, <2>1, <2>2, <2>3, SkipRefines, PublishRefines, DeadLetterRefines, PostRefines
            DEF Step, Deliver
  <1>3. CASE \/ \E p \in Endpoints : Register(p)
             \/ \E r \in Runners : Poll(r) \/ Crash(r)
             \/ Tick
    BY <1>3, Silent DEF Register, Poll, Crash, Tick, outbox, ghosts
  <1>4. CASE UNCHANGED vars
    BY <1>4, Silent DEF vars, outbox, ghosts
  <1> QED BY <1>1, <1>2, <1>3, <1>4 DEF Next

(* The outbox implements EventDelivery: nothing is published that somebody *)
(* owed it lacks, nothing is dropped that somebody was owed, and what is   *)
(* over stays over, whichever runners of processOutboxBatch are late, die  *)
(* or lose an answer.                                                      *)
THEOREM OutboxImplementsDelivery == Spec => ImplementsDelivery
  <1>1. Init => Delivery!Init
    BY DEF Init, Delivery!Init
  <1> QED BY <1>1, InitDelivery, NextKeeps, NextRefines, PTL DEF Spec, ImplementsDelivery, Delivery!Spec
-----------------------------------------------------------------------------
LEMMA InitLeased == Init => Leased
  BY OutboxAssumption DEF Init, Leased, NoJob

\* A step that takes no event in hand, reads none and moves no due time.
LEMMA LeasedByRest ==
  ASSUME Leased, overran \subseteq overran', wait' = wait,
         \A q \in Runners : fresh'[q] \subseteq fresh[q],
         \A q \in Runners : job'[q].event \in Events =>
           job'[q].event = job[q].event /\ job'[q].age = job[q].age
  PROVE  Leased'
  BY DEF Leased

LEMMA PollLeased == ASSUME DeliveryInv, Leased, NEW r \in Runners, Poll(r) PROVE Leased'
  <1>1. /\ job'[r].event = None
        /\ \A q \in Runners : q # r => job'[q] = job[q] /\ fresh'[q] = fresh[q]
        /\ fresh'[r] = Due
    <2>1. job \in [Runners -> Job] /\ fresh \in [Runners -> SUBSET Events]
      BY DEF DeliveryInv, TypeOK
    <2>2. PICK j : j = [NoJob EXCEPT !.at = "next", !.batch = Due, !.read = attempts, !.targets = active]
      OBVIOUS
    <2>3. job' = [job EXCEPT ![r] = j] /\ job'[r] = j /\ fresh' = [fresh EXCEPT ![r] = Due]
      BY <2>2, GoesTo DEF Poll
    <2>4. j.event = None
      BY <2>2 DEF NoJob
    <2> QED BY <2>1, <2>3, <2>4
  <1>2. ASSUME NEW e \in Events \ overran, NEW q \in Runners, job[q].event = e PROVE e \notin Due
    <2>1. job[q].age < Lease /\ wait[e] >= Lease - job[q].age
      BY <1>2 DEF Leased
    <2>2. job[q].age \in Nat /\ Lease \in Nat
      BY OutboxAssumption DEF DeliveryInv, TypeOK, Job
    <2> QED BY <2>1, <2>2 DEF Due
  <1>3. wait' = wait /\ overran' = overran
    BY DEF Poll, outbox, ghosts
  <1> QED BY <1>1, <1>2, <1>3, OutboxAssumption DEF Leased

LEMMA ClaimLeased == ASSUME DeliveryInv, Leased, NEW r \in Runners, NEW e \in Events, Claim(r, e) PROVE Leased'
  <1>1. job[r] \in Job /\ job[r].age \in 0..Lease /\ Lease \in Nat /\ e \in fresh[r]
    BY OutboxAssumption DEF DeliveryInv, TypeOK, Job, Claim, Claimable
  <1>2. /\ job'[r].event = e /\ job'[r].age = job[r].age
        /\ \A q \in Runners : q # r => job'[q] = job[q]
    BY <1>1, GoesTo DEF Claim, DeliveryInv, TypeOK, Goes, Job
  <1>3. /\ \A q \in Runners : e \notin fresh'[q] /\ fresh'[q] \subseteq fresh[q]
        /\ wait'[e] = Lease - job[r].age
        /\ \A d \in Events : d # e => wait'[d] = wait[d]
        /\ overran \subseteq overran' /\ (e \notin overran' => job[r].age < Lease)
    <2>1. wait \in [Events -> Nat] /\ fresh \in [Runners -> SUBSET Events]
      BY DEF DeliveryInv, TypeOK
    <2>2. /\ wait' = [wait EXCEPT ![e] = Lease - job[r].age]
          /\ fresh' = [q \in Runners |-> fresh[q] \ {e}]
          /\ overran' = IF job[r].age = Lease THEN overran \cup {e} ELSE overran
      BY DEF Claim, Postpone
    <2>3. overran \subseteq overran' /\ (e \notin overran' => job[r].age < Lease)
      BY <1>1, <2>2
    <2> QED BY <2>1, <2>2, <2>3
  <1>4. e \notin overran => \A q \in Runners : job[q].event # e
    BY <1>1 DEF Leased
  <1>5. ASSUME NEW d \in Events \ overran', NEW q \in Runners, job'[q].event = d
        PROVE  /\ job'[q].age < Lease /\ wait'[d] >= Lease - job'[q].age
               /\ \A w \in Runners : d \notin fresh'[w] /\ (job'[w].event = d => w = q)
    <2>1. CASE d = e
      <3>1. q = r
        BY <1>2, <1>3, <1>4, <1>5, <2>1
      <3> QED BY <1>1, <1>2, <1>3, <1>4, <2>1, <3>1
    <2>2. CASE d # e
      <3>1. q # r
        BY <1>2, <1>5, <2>2
      <3> QED BY <1>2, <1>3, <1>5, <2>2, <3>1 DEF Leased
    <2> QED BY <2>1, <2>2
  <1> QED BY <1>5 DEF Leased

LEMMA RetryLeased == ASSUME DeliveryInv, Leased, NEW r \in Runners, Retry(r) PROVE Leased'
  <1> DEFINE e == job[r].event
  <1>1. e \in Events /\ job[r] \in Job
    BY InHand DEF Retry, Done, Holding
  <1>2. /\ job'[r].event = None
        /\ \A q \in Runners : q # r => job'[q] = job[q]
    BY <1>1, GoesTo DEF Retry, Leave, DeliveryInv, TypeOK, Goes, Job
  <1>3. /\ overran' = overran
        /\ \A q \in Runners : fresh'[q] \subseteq fresh[q]
        /\ \A d \in Events : d # e => wait'[d] = wait[d]
    BY <1>1 DEF Retry, Postpone, DeliveryInv, TypeOK, ghosts
  <1>4. e \notin overran => \A q \in Runners : job[q].event = e => q = r
    BY <1>1 DEF Leased
  <1>5. ASSUME NEW d \in Events \ overran', NEW q \in Runners, job'[q].event = d
        PROVE  /\ job'[q].age < Lease /\ wait'[d] >= Lease - job'[q].age
               /\ \A w \in Runners : d \notin fresh'[w] /\ (job'[w].event = d => w = q)
    <2>1. q # r /\ d # e /\ job[q].event = d
      BY <1>2, <1>3, <1>4, <1>5, OutboxAssumption
    <2> QED BY <1>2, <1>3, <1>5, <2>1, OutboxAssumption DEF Leased
  <1> QED BY <1>5 DEF Leased

LEMMA TickLeased == ASSUME DeliveryInv, Leased, Tick PROVE Leased'
  <1>1. overran \subseteq overran' /\ fresh' = fresh
    BY DEF Tick
  <1>2. ASSUME NEW e \in Events \ overran', NEW r \in Runners, job'[r].event = e
        PROVE  job'[r].age < Lease /\ wait'[e] >= Lease - job'[r].age
    <2>1. /\ job[r].event = e /\ job'[r].age = Aged(r) /\ Aged(r) \in 0..Lease /\ job[r] \in Job
      BY <1>2, TickJob
    <2>2. job[r].at # "idle"
      BY <2>1, OutboxAssumption DEF DeliveryInv, Shaped, Holding
    <2>3. Aged(r) # Lease
      BY <1>2, <2>1, OutboxAssumption DEF Tick
    <2>4. job[r].age < Lease /\ wait[e] >= Lease - job[r].age
      BY <1>1, <1>2, <2>1 DEF Leased
    <2>5. job[r].age \in Nat /\ Lease \in Nat /\ wait[e] \in Nat
      BY <2>1, OutboxAssumption DEF DeliveryInv, TypeOK, Job
    <2>6. Aged(r) = job[r].age + 1 /\ wait'[e] = wait[e] - 1
      BY <1>2, <2>2, <2>4, <2>5 DEF Aged, Tick
    <2> QED BY <2>1, <2>3, <2>4, <2>5, <2>6
  <1>3. \A r \in Runners : job'[r].event = job[r].event
    BY TickJob
  <1> QED BY <1>1, <1>2, <1>3 DEF Leased

LEMMA StepLeased == ASSUME DeliveryInv, Leased, NEW r \in Runners, Step(r) PROVE Leased'
  <1>1. job[r] \in Job /\ fresh \in [Runners -> SUBSET Events] /\ job \in [Runners -> Job]
    BY DEF DeliveryInv, TypeOK
  <1>2. ASSUME NEW j, Goes(r, j), j.event \in Events => j.event = job[r].event /\ j.age = job[r].age,
               overran' = overran, wait' = wait, \A q \in Runners : fresh'[q] \subseteq fresh[q]
        PROVE  Leased'
    <2>1. job'[r] = j /\ \A q \in Runners : q # r => job'[q] = job[q]
      BY <1>1, <1>2, GoesTo
    <2> QED BY <1>2, <2>1, LeasedByRest
  <1>3. CASE \E e \in job[r].batch : Claim(r, e)
    BY <1>1, <1>3, ClaimLeased DEF Job
  <1>4. CASE \E e \in job[r].batch : LoseClaim(r, e)
    BY <1>1, <1>2, <1>4 DEF LoseClaim, Job, outbox, ghosts
  <1>5. CASE EndBatch(r) \/ ThrowBatch(r)
    BY <1>1, <1>2, <1>5, OutboxAssumption DEF EndBatch, ThrowBatch, NoJob, outbox, ghosts
  <1>6. CASE Skip(r) \/ Publish(r) \/ DeadLetter(r)
    BY <1>1, <1>2, <1>6, OutboxAssumption DEF Skip, Publish, DeadLetter, Leave, Job, ghosts
  <1>7. CASE \E p \in job[r].left : Look(r, p)
    BY <1>1, <1>2, <1>7 DEF Look, Job, outbox, ghosts
  <1>8. CASE CreateRow(r) \/ Record(r)
    BY <1>1, <1>2, <1>8 DEF CreateRow, Record, Job, outbox, ghosts
  <1>9. CASE \E took, answered \in BOOLEAN : Post(r, took, answered)
    BY <1>1, <1>2, <1>9 DEF Post, Job, outbox
  <1> QED BY <1>3, <1>4, <1>5, <1>6, <1>7, <1>8, <1>9, RetryLeased DEF Step, Deliver

LEMMA NextLeased == ASSUME DeliveryInv, Leased, [Next]_vars PROVE Leased'
  <1>1. CASE \E p \in Endpoints : Register(p)
    BY <1>1, LeasedByRest DEF Register, outbox, ghosts
  <1>2. CASE \E e \in Events : Emit(e)
    BY <1>2, LeasedByRest DEF Emit
  <1>3. ASSUME NEW r \in Runners, Crash(r) PROVE Leased'
    <2>1. /\ job'[r].event = None /\ \A q \in Runners : q # r => job'[q] = job[q]
          /\ \A q \in Runners : fresh'[q] \subseteq fresh[q]
      BY <1>3, GoesTo DEF Crash, DeliveryInv, TypeOK, NoJob
    <2> QED BY <1>3, <2>1, LeasedByRest, OutboxAssumption DEF Crash, outbox, ghosts
  <1>4. CASE UNCHANGED vars
    BY <1>4, LeasedByRest DEF vars, outbox, ghosts
  <1> QED BY <1>1, <1>2, <1>3, <1>4, PollLeased, StepLeased, TickLeased DEF Next

(* Within its lease a runner has the event to itself (the conditional      *)
(* claim of processOutboxBatch), for any number of runners and any pauses  *)
(* between retries.                                                        *)
THEOREM OneRunner == Spec => []OneRunnerPerEvent
  <1>1. Leased => OneRunnerPerEvent
    BY DEF Leased, OneRunnerPerEvent
  <1> QED BY <1>1, InitDelivery, InitLeased, NextKeeps, NextLeased, PTL DEF Spec
-----------------------------------------------------------------------------
LEMMA InitUnconfirmed == Init => Unconfirmed
  BY DEF Init, Unconfirmed, NoJob, Sending

\* A step that writes no row and begins to send nothing.
LEMMA UnconfirmedByRest ==
  ASSUME Unconfirmed, overran \subseteq overran', delivery' = delivery,
         \A q \in Runners : job'[q].at \in Sending =>
           job[q].at \in Sending /\ job'[q].event = job[q].event /\ job'[q].to = job[q].to
  PROVE  Unconfirmed'
  BY DEF Unconfirmed

\* The row that a runner writes is of no event that another has in hand.
LEMMA RowUnconfirmed ==
  ASSUME DeliveryInv, Leased, Unconfirmed, NEW r \in Runners, NEW j, NEW s, Goes(r, j), Write(r, s),
         job[r].at \in Sending, overran' = overran, j.at \in Sending => s # "delivered",
         j.at \in Sending => j.event = job[r].event /\ j.to = job[r].to
  PROVE  Unconfirmed'
  <1>1. job[r].event \in Events /\ job[r].to \in Endpoints
    BY InHand DEF Holding, Sending
  <1>2. delivery \in [Events -> [Endpoints -> Rows]] /\ job \in [Runners -> Job]
    BY DEF DeliveryInv, TypeOK
  <1>3. job'[r] = j /\ \A q \in Runners : q # r => job'[q] = job[q]
    BY <1>2, GoesTo
  <1>4. /\ delivery'[job[r].event][job[r].to] = s
        /\ \A e \in Events : e # job[r].event => delivery'[e] = delivery[e]
    BY <1>1, <1>2 DEF Write
  <1>5. ASSUME NEW q \in Runners, job'[q].at \in Sending, job'[q].event \notin overran
        PROVE  delivery'[job'[q].event][job'[q].to] # "delivered"
    <2>1. CASE q = r
      BY <1>3, <1>4, <1>5, <2>1
    <2>2. CASE q # r
      <3>1. job'[q] = job[q]
        BY <1>3, <2>2
      <3>2. job[q].event \in Events
        BY <1>5, <3>1, InHand DEF Holding, Sending
      <3>3. job[q].event # job[r].event
        BY <1>1, <1>5, <2>2, <3>1 DEF Leased
      <3> QED BY <1>4, <1>5, <3>1, <3>2, <3>3 DEF Unconfirmed
    <2> QED BY <2>1, <2>2
  <1> QED BY <1>5 DEF Unconfirmed

LEMMA LookUnconfirmed ==
  ASSUME DeliveryInv, Unconfirmed, NEW r \in Runners, NEW p \in Endpoints, Look(r, p)
  PROVE  Unconfirmed'
  <1> DEFINE e == job[r].event
  <1>1. job[r] \in Job /\ job \in [Runners -> Job]
    BY DEF DeliveryInv, TypeOK
  <1>2. PICK j : j = [job[r] EXCEPT !.at = Seen(e, p), !.left = @ \ {p},
                                    !.to = IF Seen(e, p) = "claimed" THEN None ELSE p,
                                    !.failed = @ \/ Unusable(e, p)]
    OBVIOUS
  <1>3. job'[r] = j /\ \A q \in Runners : q # r => job'[q] = job[q]
    BY <1>1, <1>2, GoesTo DEF Look
  <1>4. j.at = Seen(e, p) /\ j.event = e /\ (Seen(e, p) # "claimed" => j.to = p)
    BY <1>1, <1>2 DEF Job
  <1>5. Seen(e, p) # "claimed" => delivery[e][p] # "delivered"
    BY DEF Seen
  <1>6. delivery' = delivery /\ overran' = overran
    BY DEF Look, ghosts
  <1>7. ASSUME NEW q \in Runners, job'[q].at \in Sending, job'[q].event \notin overran'
        PROVE  delivery'[job'[q].event][job'[q].to] # "delivered"
    <2>1. CASE q = r
      BY <1>3, <1>4, <1>5, <1>6, <1>7, <2>1 DEF Sending
    <2>2. CASE q # r
      BY <1>3, <1>6, <1>7, <2>2 DEF Unconfirmed
    <2> QED BY <2>1, <2>2
  <1> QED BY <1>7 DEF Unconfirmed

LEMMA StepUnconfirmed ==
  ASSUME DeliveryInv, Leased, Unconfirmed, NEW r \in Runners, Step(r)
  PROVE  Unconfirmed'
  <1>1. job[r] \in Job /\ job \in [Runners -> Job]
    BY DEF DeliveryInv, TypeOK
  <1>2. ASSUME NEW j, Goes(r, j), delivery' = delivery, overran \subseteq overran',
               j.at \in Sending => job[r].at \in Sending /\ j.event = job[r].event /\ j.to = job[r].to
        PROVE  Unconfirmed'
    <2>1. job'[r] = j /\ \A q \in Runners : q # r => job'[q] = job[q]
      BY <1>1, <1>2, GoesTo
    <2> QED BY <1>2, <2>1, UnconfirmedByRest
  <1>3. CASE \E e \in job[r].batch : Claim(r, e)
    BY <1>1, <1>2, <1>3 DEF Claim, Job, Sending
  <1>4. CASE \E e \in job[r].batch : LoseClaim(r, e)
    BY <1>1, <1>2, <1>4 DEF LoseClaim, Job, Sending, ghosts
  <1>5. CASE EndBatch(r) \/ ThrowBatch(r)
    BY <1>1, <1>2, <1>5 DEF EndBatch, ThrowBatch, NoJob, Sending, ghosts
  <1>6. CASE Skip(r) \/ Publish(r) \/ DeadLetter(r) \/ Retry(r)
    BY <1>1, <1>2, <1>6 DEF Skip, Publish, DeadLetter, Retry, Leave, Job, Sending, ghosts
  <1>7. CASE \E p \in job[r].left : Look(r, p)
    BY <1>1, <1>7, LookUnconfirmed DEF Job
  <1>8. CASE CreateRow(r)
    <2>1. [job[r] EXCEPT !.at = "post"].event = job[r].event /\ [job[r] EXCEPT !.at = "post"].to = job[r].to
      BY <1>1 DEF Job
    <2> QED BY <1>8, <2>1, RowUnconfirmed DEF CreateRow, Sending, ghosts
  <1>9. CASE Record(r)
    <2> DEFINE j == [job[r] EXCEPT !.at = "claimed", !.to = None, !.failed = @ \/ job[r].at = "refused"]
    <2>1. j.at = "claimed"
      BY <1>1 DEF Job
    <2>2. PICK s : Write(r, s) /\ s = (IF job[r].at = "accepted" THEN "delivered" ELSE "failed")
      BY <1>9 DEF Record
    <2>3. Goes(r, j) /\ overran' = overran /\ job[r].at \in Sending
      BY <1>9 DEF Record, Sending, ghosts
    <2> HIDE DEF j
    <2> QED BY <2>1, <2>2, <2>3, RowUnconfirmed DEF Sending
  <1>10. CASE \E took, answered \in BOOLEAN : Post(r, took, answered)
    BY <1>1, <1>2, <1>10 DEF Post, Job, Sending
  <1> QED BY <1>3, <1>4, <1>5, <1>6, <1>7, <1>8, <1>9, <1>10 DEF Step, Deliver

LEMMA NextUnconfirmed == ASSUME DeliveryInv, Leased, Unconfirmed, [Next]_vars PROVE Unconfirmed'
  <1>1. job \in [Runners -> Job]
    BY DEF DeliveryInv, TypeOK
  <1>2. CASE (\E p \in Endpoints : Register(p)) \/ (\E e \in Events : Emit(e))
    BY <1>2, UnconfirmedByRest DEF Register, Emit, ghosts
  <1>3. ASSUME NEW r \in Runners, Poll(r) \/ Crash(r) PROVE Unconfirmed'
    <2>1. PICK j : Goes(r, j) /\ j.at \in {"next", "idle"}
      <3>1. CASE Poll(r)
        <4>1. PICK j : j = [NoJob EXCEPT !.at = "next", !.batch = Due, !.read = attempts, !.targets = active]
          OBVIOUS
        <4>2. j.at = "next"
          BY <4>1 DEF NoJob
        <4> QED BY <3>1, <4>1, <4>2 DEF Poll
      <3>2. CASE Crash(r)
        <4>1. NoJob.at = "idle"
          BY DEF NoJob
        <4> QED BY <3>2, <4>1 DEF Crash
      <3> QED BY <1>3, <3>1, <3>2
    <2>2. job'[r] = j /\ \A q \in Runners : q # r => job'[q] = job[q]
      BY <1>1, <2>1, GoesTo
    <2>3. job'[r].at \notin Sending
      BY <2>1, <2>2 DEF Sending
    <2>4. delivery' = delivery /\ overran' = overran
      BY <1>3 DEF Poll, Crash, ghosts
    <2> QED BY <2>2, <2>3, <2>4, UnconfirmedByRest
  <1>4. CASE Tick
    <2>1. delivery' = delivery /\ overran \subseteq overran'
      BY <1>4 DEF Tick
    <2> QED BY <1>4, <2>1, TickJob, UnconfirmedByRest
  <1>5. CASE UNCHANGED vars
    BY <1>5, UnconfirmedByRest DEF vars, ghosts
  <1> QED BY <1>2, <1>3, <1>4, <1>5, StepUnconfirmed DEF Next

\* A row says delivered for good, as long as its event is within its lease.
LEMMA DeliveredStays ==
  ASSUME DeliveryInv, Unconfirmed, [Next]_vars,
         NEW e \in Events \ overran', NEW p \in Endpoints, delivery[e][p] = "delivered"
  PROVE  delivery'[e][p] = "delivered"
  <1>1. CASE delivery' = delivery
    BY <1>1
  <1>2. ASSUME NEW r \in Runners, NEW s, Write(r, s), job[r].at \in Sending, overran' = overran,
               Row(r) # "delivered" \/ job[r].event \notin overran
        PROVE  delivery'[e][p] = "delivered"
    <2>1. job[r].event \in Events /\ job[r].to \in Endpoints
      BY <1>2, InHand DEF Holding, Sending
    <2>2. Row(r) # "delivered"
      BY <1>2 DEF Unconfirmed, Row
    <2>3. job[r].event # e \/ job[r].to # p
      BY <2>2 DEF Row
    <2>4. delivery \in [Events -> [Endpoints -> Rows]]
      BY DEF DeliveryInv, TypeOK
    <2> QED BY <1>2, <2>1, <2>3, <2>4 DEF Write
  <1>3. ASSUME NEW r \in Runners, CreateRow(r) PROVE delivery'[e][p] = "delivered"
    BY <1>2, <1>3 DEF CreateRow, Sending, ghosts
  <1>4. ASSUME NEW r \in Runners, Record(r) PROVE delivery'[e][p] = "delivered"
    <2>1. overran' = overran /\ job[r].at \in Sending /\ job[r].event \in Events /\ job[r].to \in Endpoints
      BY <1>4, InHand DEF Record, Sending, Holding, ghosts
    <2>2. PICK s : Write(r, s)
      BY <1>4 DEF Record
    <2>3. CASE job[r].event = e
      BY <1>2, <2>1, <2>2, <2>3
    <2>4. CASE job[r].event # e
      <3>1. delivery \in [Events -> [Endpoints -> Rows]]
        BY DEF DeliveryInv, TypeOK
      <3> QED BY <2>1, <2>2, <2>4, <3>1 DEF Write
    <2> QED BY <2>3, <2>4
  <1>5. ASSUME NEW r \in Runners, Step(r) PROVE delivery' = delivery \/ CreateRow(r) \/ Record(r)
    BY <1>5 DEF Step, Deliver, Claim, LoseClaim, EndBatch, Skip, Publish, DeadLetter, Retry, Look, ThrowBatch, Post
  <1>6. CASE Next
    BY <1>1, <1>3, <1>4, <1>5, <1>6 DEF Next, Register, Emit, Poll, Crash, Tick
  <1>7. CASE UNCHANGED vars
    BY <1>1, <1>7 DEF vars
  <1> QED BY <1>6, <1>7

(* Within a lease an endpoint that confirmed an event is never sent it     *)
(* again, and its row says so for good (the look at the row at the head of *)
(* deliverWebhook, and the claim that keeps other runners away from it).   *)
THEOREM Confirmed == Spec => ConfirmedIsFinal
  <1>1. ASSUME DeliveryInv, Unconfirmed, Unconfirmed', [Next]_vars
        PROVE  [\A e \in Events \ overran', p \in Endpoints : delivery[e][p] = "delivered" =>
                 /\ delivery'[e][p] = "delivered"
                 /\ \A r \in Runners : job'[r].at = "post" => <<job'[r].event, job'[r].to>> # <<e, p>>]_vars
    BY <1>1, DeliveredStays DEF Unconfirmed, Sending
  <1> QED BY <1>1, InitDelivery, InitLeased, InitUnconfirmed, NextKeeps, NextLeased, NextUnconfirmed,
             PTL DEF Spec, ConfirmedIsFinal
=============================================================================
