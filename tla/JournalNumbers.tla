--------------------------- MODULE JournalNumbers ---------------------------
(***************************************************************************)
(* Journal entry numbers (src/lib/numbering/index.ts).  Every process      *)
(* reserves blocks of numbers from one row of document_sequences, in a     *)
(* short transaction of its own, and hands them out from memory; when a    *)
(* reservation fails, a posting takes its number from the row inside its   *)
(* own transaction and holds the row until that ends.                      *)
(*                                                                         *)
(* Steps end where the code awaits.  One company and year: one row.        *)
(***************************************************************************)
EXTENDS Integers

CONSTANTS
  Processes,    \* server processes
  Callers,      \* transactions that post journal entries
  Entries,      \* journal entries
  BlockSize,    \* JOURNAL_NUMBER_BLOCK
  MaxFaults,    \* bound: rolled back transactions, crashes and lost answers
  None, Posted

ASSUME NumberAssumption ==
  /\ BlockSize \in Nat \ {0} /\ MaxFaults \in Nat
  /\ None \notin Callers \union Processes /\ Posted \notin Callers /\ None # Posted

VARIABLES
  next,      \* next_number of the sequence row, as the latest writer left it
  committed, \* and as the latest committed transaction did
  lock,      \* the transaction that wrote the row and has not ended
  block,     \* journalBlocks of each process
  refill,    \* journalRefills of each process
  paused,    \* journalBlockFailedAt is less than 30 seconds ago
  pc, at,    \* of each transaction: its step and its process
  want,      \* the entry it is numbering
  writer,    \* of each entry: the transaction writing it, Posted or None
  number,    \* its entry_no
  faults

numberVars == <<next, committed, lock, block, refill, paused, pc, at, want, writer, number, faults>>

NoBlock == [next |-> 1, end |-> 0]
NoRefill == [state |-> "none", start |-> 0]

NumbersInit ==
  /\ next = 1 /\ committed = 1 /\ lock = None
  /\ block = [p \in Processes |-> NoBlock]
  /\ refill = [p \in Processes |-> NoRefill]
  /\ paused = [p \in Processes |-> FALSE]
  /\ pc = [c \in Callers |-> "idle"]
  /\ at = [c \in Callers |-> None]
  /\ want = [c \in Callers |-> None]
  /\ writer = [e \in Entries |-> None]
  /\ number = [e \in Entries |-> 0]
  /\ faults = 0

-----------------------------------------------------------------------------
(* A transaction *)

Begin(c, p) ==
  /\ pc[c] = "idle"
  /\ pc' = [pc EXCEPT ![c] = "work"] /\ at' = [at EXCEPT ![c] = p]
  /\ UNCHANGED <<next, committed, lock, block, refill, paused, want, writer, number, faults>>

\* postJournalEntry calls nextJournalNumber for entry e.
Ask(c, e) ==
  /\ pc[c] = "work" /\ writer[e] = None
  /\ \A d \in Callers : pc[d] \notin {"idle", "work"} => want[d] # e
  /\ pc' = [pc EXCEPT ![c] = "ask"] /\ want' = [want EXCEPT ![c] = e]
  /\ UNCHANGED <<next, committed, lock, block, refill, paused, at, writer, number, faults>>

\* The entry c is numbering gets number n.
Number(c, n) ==
  /\ writer' = [writer EXCEPT ![want[c]] = c]
  /\ number' = [number EXCEPT ![want[c]] = n]
  /\ pc' = [pc EXCEPT ![c] = "work"]

Left(p) == block[p].next <= block[p].end

\* A call looks at the pause once, before its loop.
LooksAtBlock(c) == pc[c] = "again" \/ (pc[c] = "ask" /\ ~paused[at[c]])

FromBlock(c) ==
  LET p == at[c] IN
  /\ LooksAtBlock(c) /\ Left(p)
  /\ Number(c, block[p].next)
  /\ block' = [block EXCEPT ![p].next = @ + 1]
  /\ UNCHANGED <<next, committed, lock, refill, paused, at, want, faults>>

\* The block is used up: start a refill or wait for the one that runs.
AwaitRefill(c) ==
  LET p == at[c] IN
  /\ LooksAtBlock(c) /\ ~Left(p)
  /\ pc' = [pc EXCEPT ![c] = "waiting"]
  /\ refill' = [refill EXCEPT ![p] = IF @.state = "none" THEN [@ EXCEPT !.state = "running"] ELSE @]
  /\ UNCHANGED <<next, committed, lock, block, paused, at, want, writer, number, faults>>

SkipBlock(c) ==
  /\ pc[c] = "ask" /\ paused[at[c]]
  /\ pc' = [pc EXCEPT ![c] = "queued"]
  /\ UNCHANGED <<next, committed, lock, block, refill, paused, at, want, writer, number, faults>>

\* seeded fault: the row is not held until the transaction ends
RowIsFree(c) == TRUE

\* The update of the row waits while another transaction holds it.
MayWriteRow(c) == lock \in {None, c}

\* nextDocumentNumber inside the caller's transaction.
FromRow(c) ==
  /\ pc[c] = "queued" /\ MayWriteRow(c)
  /\ Number(c, next)
  /\ next' = next + 1 /\ lock' = c
  /\ UNCHANGED <<committed, block, refill, paused, at, want, faults>>

\* A transaction that wrote the row lets go of it.
Release(c) ==
  IF lock = c THEN lock' = None /\ committed' = next ELSE UNCHANGED <<lock, committed>>

Commit(c) ==
  /\ pc[c] = "work"
  /\ pc' = [pc EXCEPT ![c] = "idle"] /\ at' = [at EXCEPT ![c] = None]
  /\ writer' = [e \in Entries |-> IF writer[e] = c THEN Posted ELSE writer[e]]
  /\ Release(c)
  /\ want' = [want EXCEPT ![c] = None]
  /\ UNCHANGED <<next, block, refill, paused, number, faults>>

\* What the end of the transactions C without a commit does to the row.
UndoRow(C) ==
  /\ next' = IF lock \in C THEN committed ELSE next
  /\ lock' = IF lock \in C THEN None ELSE lock

\* What it does to them and to their entries.
Undo(C) ==
  /\ pc' = [c \in Callers |-> IF c \in C THEN "idle" ELSE pc[c]]
  /\ at' = [c \in Callers |-> IF c \in C THEN None ELSE at[c]]
  /\ writer' = [e \in Entries |-> IF writer[e] \in C THEN None ELSE writer[e]]
  /\ number' = [e \in Entries |-> IF writer[e] \in C THEN 0 ELSE number[e]]
  /\ want' = [c \in Callers |-> IF c \in C THEN None ELSE want[c]]
  /\ UndoRow(C)

Fault == faults < MaxFaults /\ faults' = faults + 1

\* A Serializable transaction that conflicts with another one is aborted.
Abort(c) ==
  /\ pc[c] = "work"
  /\ Undo({c})
  /\ UNCHANGED <<committed, block, refill, paused, faults>>

\* The posting is refused, or waited too long for the row.
Rollback(c) ==
  /\ pc[c] \in {"work", "queued"}
  /\ Fault /\ Undo({c})
  /\ UNCHANGED <<committed, block, refill, paused>>

-----------------------------------------------------------------------------
(* A reservation, in its own transaction *)

\* reserveMariaDbRange of a block.
Reserve(p) ==
  /\ refill[p].state = "running" /\ lock = None
  /\ refill' = [refill EXCEPT ![p] = [state |-> "reserved", start |-> next]]
  /\ next' = next + BlockSize /\ committed' = next'
  /\ UNCHANGED <<lock, block, paused, pc, at, want, writer, number, faults>>

Waiting(p) == {c \in Callers : at[c] = p /\ pc[c] = "waiting"}

Resume(p, step) == pc' = [c \in Callers |-> IF c \in Waiting(p) THEN step ELSE pc[c]]

\* rangeStart and rangeEnd of the reservation.
ReservedBlock(p) == [next |-> refill[p].start, end |-> refill[p].start + BlockSize - 1]

Refilled(p) ==
  /\ refill[p].state = "reserved"
  /\ block' = [block EXCEPT ![p] = ReservedBlock(p)]
  /\ refill' = [refill EXCEPT ![p] = NoRefill]
  /\ Resume(p, "again")
  /\ UNCHANGED <<next, committed, lock, paused, at, want, writer, number, faults>>

\* The catch of a failed refill: who waited for it goes to the row, and for a while
\* so does every call of the process.
GiveUp(p) ==
  /\ refill' = [refill EXCEPT ![p] = NoRefill]
  /\ paused' = [paused EXCEPT ![p] = TRUE]
  /\ Resume(p, "queued")
  /\ UNCHANGED <<next, committed, lock, block, at, want, writer, number>>

\* seeded fault: the reservation waits for the row as long as it takes
ReserveFailsUnlocked(p) ==
  /\ refill[p].state = "running" /\ lock = None
  /\ GiveUp(p) /\ UNCHANGED faults

\* No connection, or a second of waiting for the row.
ReserveFails(p) ==
  /\ refill[p].state = "running"
  /\ GiveUp(p) /\ UNCHANGED faults

\* The reservation committed and its answer was lost.
LoseReservation(p) ==
  /\ refill[p].state = "reserved"
  /\ GiveUp(p) /\ Fault

PauseOver(p) ==
  /\ paused[p]
  /\ paused' = [paused EXCEPT ![p] = FALSE]
  /\ UNCHANGED <<next, committed, lock, block, refill, pc, at, want, writer, number, faults>>

\* The process dies with what it had in memory; its transactions roll back.
Crash(p) ==
  /\ Fault /\ Undo({c \in Callers : at[c] = p})
  /\ block' = [block EXCEPT ![p] = NoBlock]
  /\ refill' = [refill EXCEPT ![p] = NoRefill]
  /\ paused' = [paused EXCEPT ![p] = FALSE]
  /\ UNCHANGED committed

-----------------------------------------------------------------------------

CallerStep(c) ==
  FromBlock(c) \/ AwaitRefill(c) \/ SkipBlock(c) \/ FromRow(c)

ProcessStep(p) == Reserve(p) \/ Refilled(p) \/ ReserveFails(p)

NumbersNext ==
  \/ \E c \in Callers :
       \/ \E p \in Processes : Begin(c, p)
       \/ \E e \in Entries : Ask(c, e)
       \/ CallerStep(c) \/ Commit(c) \/ Abort(c) \/ Rollback(c)
  \/ \E p \in Processes : ProcessStep(p) \/ LoseReservation(p) \/ PauseOver(p) \/ Crash(p)

NumbersSpec == NumbersInit /\ [][NumbersNext]_numberVars

-----------------------------------------------------------------------------

Numbered(e) == writer[e] # None

NumbersTypeOK ==
  /\ next \in Nat /\ committed \in Nat /\ faults \in 0..MaxFaults
  /\ lock \in Callers \union {None}
  /\ block \in [Processes -> [next : Int, end : Int]]
  /\ refill \in [Processes -> [state : {"none", "running", "reserved"}, start : Nat]]
  /\ paused \in [Processes -> BOOLEAN]
  /\ pc \in [Callers -> {"idle", "work", "ask", "waiting", "again", "queued"}]
  /\ at \in [Callers -> Processes \union {None}]
  /\ \A c \in Callers : pc[c] # "idle" => at[c] \in Processes
  /\ want \in [Callers -> Entries \union {None}]
  /\ \A c \in Callers : pc[c] \notin {"idle", "work"} => want[c] \in Entries
  /\ writer \in [Entries -> Callers \union {None, Posted}]
  /\ number \in [Entries -> Int]

\* No two entries have one number, whichever processes, blocks or fall-backs they
\* got it from, and whatever rolled back or died in between ("Numbers stay unique",
\* src/lib/numbering/index.ts:166).
NumberedOnce ==
  \A e, f \in Entries : e # f /\ Numbered(e) /\ Numbered(f) => number[e] # number[f]

=============================================================================
