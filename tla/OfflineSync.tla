---------------------------- MODULE OfflineSync ----------------------------
(***************************************************************************)
(* Batches of commands a till captured offline (POST /api/v1/offline/sync, *)
(* src/domain/offline/syncOfflineBatch.ts).  A batch is one Serializable   *)
(* transaction: it applies the commands whose sequence number the device   *)
(* has not used, in order, and numbers the journal entry of each sale as   *)
(* JournalNumbers does.  The till sends a batch again when it lost the      *)
(* answer, and may send one command in two batches.                        *)
(*                                                                         *)
(* One device.  A payload stands for the type of its command too; a sale   *)
(* posts one entry, and so does a shift closed with a difference, which    *)
(* counts as one.  Batches refused before their first write (a revoked     *)
(* device, a wrong hash, a key used for another body) change nothing.      *)
(***************************************************************************)
EXTENDS JournalNumbers, Sequences, FiniteSets

CONSTANTS
  Requests,      \* request bodies the till sends
  Keys, Key,     \* Key[r]: the Idempotency-Key it sends r with
  Batch,         \* Batch[r]: its commands
  SeqNumbers, Payloads,
  SalePayloads,  \* payloads of type cash_sale
  ShiftPayloads  \* shifts opened, or closed without a difference

ASSUME BatchAssumption ==
  /\ Key \in [Requests -> Keys]
  /\ \A r \in Requests : Batch[r] \in Seq([seq : SeqNumbers, payload : Payloads])
  /\ SalePayloads \subseteq Payloads /\ ShiftPayloads \subseteq Payloads \ SalePayloads
  /\ None \notin Requests \union Payloads
  /\ Entries = UNION {{<<r, i>> : i \in {j \in DOMAIN Batch[r] : Batch[r][j].payload \in SalePayloads}}
                      : r \in Requests}

VARIABLES
  recorded,   \* offline_commands: the payload under each sequence number
  rows,       \* idempotency_requests
  reply,      \* the stored response of each request
  request,    \* of each transaction: the request it handles
  seen        \* and what it read of offline_commands

syncVars == <<recorded, rows, reply, request, seen>>
vars == <<numberVars, syncVars>>

Idempotency == INSTANCE IdempotencyKeys WITH NoRow <- None

Nothing == [s \in SeqNumbers |-> None]

Init ==
  /\ NumbersInit
  /\ recorded = Nothing
  /\ Idempotency!NoRows
  /\ reply = [r \in Requests |-> <<>>]
  /\ request = [c \in Callers |-> None]
  /\ seen = [c \in Callers |-> Nothing]

-----------------------------------------------------------------------------

Busy(c) == pc[c] # "idle"

\* seeded fault: only what earlier batches recorded counts
IsNewToTable(r, i, known) == known[Batch[r][i].seq] = None

\* `seen` has nothing for command i: no earlier batch and no command before it in
\* this one took its number.
IsNew(r, i, known) ==
  /\ known[Batch[r][i].seq] = None
  /\ \A j \in 1..(i - 1) : Batch[r][j].seq # Batch[r][i].seq

First(r, s) ==
  CHOOSE j \in DOMAIN Batch[r] : Batch[r][j].seq = s /\ \A k \in 1..(j - 1) : Batch[r][k].seq # s

\* What a command with number s that is not new is compared with.
Recorded(r, s, known) == IF known[s] # None THEN known[s] ELSE Batch[r][First(r, s)].payload

IsSale(r, i) == Batch[r][i].payload \in SalePayloads

\* What applyOfflineCommand answers: a draft, a reprint and a customer are only kept.
Applied(r, i) == IF Batch[r][i].payload \in SalePayloads \union ShiftPayloads THEN "applied" ELSE "stored"

\* seeded fault: a used number is always a duplicate
OutcomeByNumber(r, i, known) == IF IsNew(r, i, known) THEN Applied(r, i) ELSE "duplicate"

Outcome(r, i, known) ==
  IF IsNew(r, i, known) THEN Applied(r, i)
  ELSE IF Recorded(r, Batch[r][i].seq, known) = Batch[r][i].payload THEN "duplicate" ELSE "conflict"

\* The entries of r's sales that this transaction has not posted yet.
ToPost(c) ==
  LET r == request[c] IN
  {i \in DOMAIN Batch[r] : IsSale(r, i) /\ IsNew(r, i, seen[c]) /\ writer[<<r, i>>] # c}

\* The transaction's key is its own until it ends: the insert of another one with
\* the same key waits.  A key with a row answers with the stored response or 409.
Start(c, p, r) ==
  /\ Begin(c, p)
  /\ Idempotency!MayRun(Key[r])
  /\ \A d \in Callers : Busy(d) => Key[request[d]] # Key[r]
  /\ request' = [request EXCEPT ![c] = r]
  /\ seen' = [seen EXCEPT ![c] = recorded]
  /\ UNCHANGED <<recorded, rows, reply>>

\* applyOfflineCommand of the next sale.
Apply(c) ==
  /\ Busy(c)
  /\ \E i \in ToPost(c) :
       /\ \A j \in ToPost(c) : i <= j
       /\ Ask(c, <<request[c], i>>)
  /\ UNCHANGED syncVars

\* Nobody recorded under the numbers of c's batch since c read them.
Current(c) ==
  \A i \in DOMAIN Batch[request[c]] :
    LET s == Batch[request[c]][i].seq IN recorded[s] = seen[c][s]

\* The transactions C are over.
Leave(C) ==
  /\ request' = [c \in Callers |-> IF c \in C THEN None ELSE request[c]]
  /\ seen' = [c \in Callers |-> IF c \in C THEN Nothing ELSE seen[c]]

\* The rows of the new commands, the batch, the response and the key commit at once.
Finish(c) ==
  LET r == request[c] IN
  /\ Busy(c) /\ ToPost(c) = {} /\ Current(c)
  /\ Commit(c)
  /\ recorded' = [s \in SeqNumbers |->
       IF \E i \in DOMAIN Batch[r] : Batch[r][i].seq = s THEN Recorded(r, s, seen[c]) ELSE recorded[s]]
  /\ Idempotency!Complete(Key[r], r)
  /\ reply' = [reply EXCEPT ![r] = [i \in DOMAIN Batch[r] |-> Outcome(r, i, seen[c])]]
  /\ Leave({c})

\* A Serializable transaction whose reads another one has overwritten is aborted.
WriteConflict(c) ==
  /\ Abort(c) /\ ~Current(c) /\ Leave({c})
  /\ UNCHANGED <<recorded, rows, reply>>

\* A command is refused, or the row of the numbers was waited for too long: the
\* whole batch rolls back.
Refuse(c) == Rollback(c) /\ Leave({c}) /\ UNCHANGED <<recorded, rows, reply>>

Die(p) ==
  /\ Crash(p) /\ Leave({c \in Callers : at[c] = p})
  /\ UNCHANGED <<recorded, rows, reply>>

HandlerStep(c) ==
  \/ Apply(c) \/ Finish(c) \/ WriteConflict(c)
  \/ CallerStep(c) /\ UNCHANGED syncVars

ProcessWork(p) == ProcessStep(p) /\ UNCHANGED syncVars

Next ==
  \/ \E c \in Callers :
       \/ \E p \in Processes, r \in Requests : Start(c, p, r)
       \/ HandlerStep(c) \/ Refuse(c)
  \/ \E p \in Processes :
       \/ ProcessWork(p) \/ Die(p)
       \/ (LoseReservation(p) \/ PauseOver(p)) /\ UNCHANGED syncVars

Spec == Init /\ [][Next]_vars

\* A handler that waits for nothing goes on, a wait for the row ends with its
\* holder, a reservation is answered or fails within a second.
Fairness ==
  /\ \A c \in Callers : WF_vars(HandlerStep(c))
  /\ \A p \in Processes : WF_vars(ProcessWork(p))

FairSpec == Spec /\ Fairness

-----------------------------------------------------------------------------

Posts(s) == {e \in Entries : writer[e] = Posted /\ Batch[e[1]][e[2]].seq = s}

\* A sequence number of the device is applied once, whatever is sent again, in which
\* batches and to which process: a recorded sale has exactly one posted entry, of the
\* payload on record, and nothing else has one (syncOfflineBatch's `seen`, the unique
\* key of offline_commands and the idempotency row together).
AppliedOnce ==
  \A s \in SeqNumbers :
    IF recorded[s] \in SalePayloads
      THEN /\ Cardinality(Posts(s)) = 1
           /\ \A e \in Posts(s) : Batch[e[1]][e[2]].payload = recorded[s]
      ELSE Posts(s) = {}

\* A stored response stays true: a command answered applied, stored or duplicate is
\* the one on record, one answered conflict is not and another is, and the sales that
\* posted are those answered applied (syncOfflineBatch.ts:74-91).
AnswersAreTrue ==
  \A r \in Requests : \A i \in DOMAIN reply[r] :
    LET kept == recorded[Batch[r][i].seq] IN
    /\ kept # None
    /\ reply[r][i] = "conflict" <=> kept # Batch[r][i].payload
    /\ IsSale(r, i) => (reply[r][i] = "applied" <=> writer[<<r, i>>] = Posted)

\* No batch waits for ever: not for a number whose row it holds itself, nor for a
\* block that never comes (nextJournalNumber's catch: "waiting would deadlock the
\* two").
EveryBatchEnds == \A c \in Callers : Busy(c) ~> ~Busy(c)

=============================================================================
