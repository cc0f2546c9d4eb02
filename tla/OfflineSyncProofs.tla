-------------------------- MODULE OfflineSyncProofs --------------------------
(***************************************************************************)
(* Journal numbers are unique for any number of processes, transactions,   *)
(* entries and block sizes, and stay so under offline batches.             *)
(*                                                                         *)
(* A number is to be handed out (Hands) while it lies in the memory of a   *)
(* process: in its block, or in the range of a reservation whose answer is *)
(* on its way.  NumberInv says that such a number belongs to one process,  *)
(* that no entry has it, and that it is below what is committed of the     *)
(* row: a rollback, which gives back only what is above, never returns a   *)
(* number someone still holds.                                             *)
(***************************************************************************)
EXTENDS OfflineSync, FiniteSetTheorems, TLAPS

InBlock(p, n) == block[p].next <= n /\ n <= block[p].end

InRefill(p, n) ==
  /\ refill[p].state = "reserved"
  /\ refill[p].start <= n /\ n < refill[p].start + BlockSize

Hands(p, n) == InBlock(p, n) \/ InRefill(p, n)

RowOrdered == committed <= next /\ (lock = None => committed = next)

GivenBelow == \A e \in Entries : Numbered(e) =>
                /\ number[e] < next
                /\ writer[e] # lock => number[e] < committed

FreeBelow == \A p \in Processes, n \in Int : Hands(p, n) => n < committed

FreeApart == \A p, q \in Processes, n \in Int : Hands(p, n) /\ Hands(q, n) => p = q

FreeUnused == \A p \in Processes, n \in Int, e \in Entries : Hands(p, n) /\ Numbered(e) => number[e] # n

OneSource == \A p \in Processes : refill[p].state # "none" => ~Left(p)

Steps == {"idle", "work", "ask", "waiting", "again", "queued"}

NumberInv ==
  /\ NumbersTypeOK
  /\ RowOrdered /\ GivenBelow /\ FreeBelow /\ FreeApart /\ FreeUnused /\ OneSource /\ NumberedOnce

-----------------------------------------------------------------------------

LEMMA InitNumbers == NumbersInit => NumberInv
  <1> SUFFICES ASSUME NumbersInit PROVE NumberInv
    OBVIOUS
  <1>1. \A p \in Processes, n \in Int : ~Hands(p, n)
    BY DEF NumbersInit, Hands, InBlock, InRefill, NoBlock, NoRefill
  <1>2. \A e \in Entries : ~Numbered(e)
    BY DEF NumbersInit, Numbered
  <1>3. NumbersTypeOK
    BY NumberAssumption DEF NumbersInit, NumbersTypeOK, NoBlock, NoRefill
  <1>4. RowOrdered
    BY DEF NumbersInit, RowOrdered
  <1> QED BY <1>1, <1>2, <1>3, <1>4 DEF NumberInv, GivenBelow, FreeBelow, FreeApart, FreeUnused, NumberedOnce,
       OneSource, NumbersInit, NoRefill

(* What the steps of one part leave alone, as far as numbers go.           *)
LEMMA NumbersFrame ==
  ASSUME NumberInv, UNCHANGED <<next, committed, lock, block, refill, writer, number>>
  PROVE  RowOrdered' /\ GivenBelow' /\ FreeBelow' /\ FreeApart' /\ FreeUnused' /\ OneSource' /\ NumberedOnce'
  <1>1. \A p \in Processes, n \in Int : Hands(p, n)' <=> Hands(p, n)
    BY DEF Hands, InBlock, InRefill
  <1>2. \A e \in Entries : Numbered(e)' <=> Numbered(e)
    BY DEF Numbered
  <1> QED BY <1>1, <1>2 DEF NumberInv, RowOrdered, GivenBelow, FreeBelow, FreeApart, FreeUnused, OneSource, Left, NumberedOnce

LEMMA BeginNumbers ==
  ASSUME NumberInv, NEW c \in Callers, NEW p \in Processes, Begin(c, p)
  PROVE  NumberInv'
  <1>1. NumbersTypeOK'
    BY DEF NumberInv, NumbersTypeOK, Begin
  <1>2. UNCHANGED <<next, committed, lock, block, refill, writer, number>>
    BY DEF Begin
  <1> QED BY <1>1, <1>2, NumbersFrame DEF NumberInv

LEMMA AskNumbers ==
  ASSUME NumberInv, NEW c \in Callers, NEW e \in Entries, Ask(c, e)
  PROVE  NumberInv'
  <1>1. NumbersTypeOK'
    BY DEF NumberInv, NumbersTypeOK, Ask
  <1>2. UNCHANGED <<next, committed, lock, block, refill, writer, number>>
    BY DEF Ask
  <1> QED BY <1>1, <1>2, NumbersFrame DEF NumberInv

LEMMA SkipNumbers ==
  ASSUME NumberInv, NEW c \in Callers, SkipBlock(c)
  PROVE  NumberInv'
  <1>1. NumbersTypeOK'
    BY DEF NumberInv, NumbersTypeOK, SkipBlock
  <1>2. UNCHANGED <<next, committed, lock, block, refill, writer, number>>
    BY DEF SkipBlock
  <1> QED BY <1>1, <1>2, NumbersFrame DEF NumberInv

LEMMA PauseOverNumbers ==
  ASSUME NumberInv, NEW p \in Processes, PauseOver(p)
  PROVE  NumberInv'
  <1>1. NumbersTypeOK'
    BY DEF NumberInv, NumbersTypeOK, PauseOver
  <1>2. UNCHANGED <<next, committed, lock, block, refill, writer, number>>
    BY DEF PauseOver
  <1> QED BY <1>1, <1>2, NumbersFrame DEF NumberInv

(* A refill that starts or is given up: numbers may be lost, never added.  *)
LEMMA FewerNumbers ==
  ASSUME NumberInv, UNCHANGED <<next, committed, lock, writer, number>>,
         \A p \in Processes, n \in Int : Hands(p, n)' => Hands(p, n)
  PROVE  RowOrdered' /\ GivenBelow' /\ FreeBelow' /\ FreeApart' /\ FreeUnused' /\ NumberedOnce'
  <1>1. \A e \in Entries : Numbered(e)' <=> Numbered(e)
    BY DEF Numbered
  <1> QED BY <1>1 DEF NumberInv, RowOrdered, GivenBelow, FreeBelow, FreeApart, FreeUnused, NumberedOnce

LEMMA AwaitNumbers ==
  ASSUME NumberInv, NEW c \in Callers, AwaitRefill(c)
  PROVE  NumberInv'
  <1> DEFINE p == at[c]
  <1>1. p \in Processes /\ pc[c] \in Steps
    BY DEF NumberInv, NumbersTypeOK, AwaitRefill, LooksAtBlock, Steps
  <1>2. refill' = [refill EXCEPT ![p] = IF @.state = "none" THEN [@ EXCEPT !.state = "running"] ELSE @]
    BY DEF AwaitRefill
  <1>3. \A q \in Processes : refill[q] \in [state : {"none", "running", "reserved"}, start : Nat]
    BY DEF NumberInv, NumbersTypeOK
  <1>4. /\ refill' \in [Processes -> [state : {"none", "running", "reserved"}, start : Nat]]
        /\ \A q \in Processes : refill'[q].state = "reserved" => refill'[q] = refill[q]
    BY <1>1, <1>2, <1>3 DEF NumberInv, NumbersTypeOK
  <1>5. NumbersTypeOK'
    BY <1>1, <1>4 DEF NumberInv, NumbersTypeOK, AwaitRefill, LooksAtBlock
  <1>6. \A q \in Processes, n \in Int : Hands(q, n)' => Hands(q, n)
    BY <1>4 DEF AwaitRefill, Hands, InBlock, InRefill
  <1>7. OneSource'
    BY <1>1, <1>2, <1>3 DEF AwaitRefill, OneSource, Left, NumberInv, NumbersTypeOK
  <1> QED BY <1>5, <1>6, <1>7, FewerNumbers DEF NumberInv, AwaitRefill

LEMMA ResumeType ==
  ASSUME NumbersTypeOK, NEW p \in Processes, NEW step \in {"again", "queued"}, Resume(p, step)
  PROVE  /\ pc' \in [Callers -> Steps]
         /\ \A c \in Callers : /\ pc[c] = "idle" <=> pc'[c] = "idle"
                               /\ pc'[c] \notin {"idle", "work"} <=> pc[c] \notin {"idle", "work"}
  BY DEF NumbersTypeOK, Resume, Waiting, Steps

LEMMA GiveUpNumbers ==
  ASSUME NumberInv, NEW p \in Processes, ReserveFails(p) \/ LoseReservation(p)
  PROVE  NumberInv'
  <1>1. GiveUp(p) /\ faults' \in 0..MaxFaults
    BY NumberAssumption DEF ReserveFails, LoseReservation, Fault, NumberInv, NumbersTypeOK
  <1>2. NumbersTypeOK'
    BY <1>1, ResumeType DEF NumberInv, NumbersTypeOK, GiveUp, NoRefill, Steps
  <1>3. \A q \in Processes, n \in Int : Hands(q, n)' => Hands(q, n)
    BY <1>1 DEF GiveUp, Hands, InBlock, InRefill, NoRefill, NumberInv, NumbersTypeOK
  <1>4. OneSource'
    BY <1>1 DEF GiveUp, OneSource, Left, NoRefill, NumberInv, NumbersTypeOK
  <1> QED BY <1>1, <1>2, <1>3, <1>4, FewerNumbers DEF NumberInv, GiveUp

LEMMA RefilledNumbers ==
  ASSUME NumberInv, NEW p \in Processes, Refilled(p)
  PROVE  NumberInv'
  <1>1. /\ BlockSize \in Nat /\ refill[p].start \in Nat
        /\ ReservedBlock(p) \in [next : Int, end : Int]
    BY NumberAssumption DEF NumberInv, NumbersTypeOK, ReservedBlock
  <1>2. NumbersTypeOK'
    BY <1>1, ResumeType DEF NumberInv, NumbersTypeOK, Refilled, NoRefill, Steps
  <1>3. ASSUME NEW q \in Processes, NEW n \in Int, Hands(q, n)' PROVE Hands(q, n)
    <2>1. CASE q = p
      <3>1. block'[p] = ReservedBlock(p) /\ refill'[p] = NoRefill /\ refill[p].state = "reserved"
        BY DEF Refilled, NumberInv, NumbersTypeOK
      <3>2. refill[p].start <= n /\ n <= refill[p].start + BlockSize - 1
        BY <1>3, <2>1, <3>1 DEF Hands, InBlock, InRefill, NoRefill, ReservedBlock
      <3> QED BY <1>1, <2>1, <3>1, <3>2 DEF Hands, InRefill
    <2>2. CASE q # p
      BY <1>3, <2>2 DEF Refilled, Hands, InBlock, InRefill, NumberInv, NumbersTypeOK
    <2> QED BY <2>1, <2>2
  <1>4. OneSource'
    BY DEF Refilled, OneSource, Left, NoRefill, NumberInv, NumbersTypeOK
  <1> QED BY <1>2, <1>3, <1>4, FewerNumbers DEF NumberInv, Refilled

LEMMA ReserveNumbers ==
  ASSUME NumberInv, NEW p \in Processes, Reserve(p)
  PROVE  NumberInv'
  <1>1. /\ next \in Nat /\ BlockSize \in Nat /\ BlockSize > 0 /\ lock = None /\ committed = next
        /\ next' = next + BlockSize /\ committed' = next + BlockSize
        /\ UNCHANGED <<lock, block, writer, number>>
    BY NumberAssumption DEF Reserve, NumberInv, NumbersTypeOK, RowOrdered
  <1>2. /\ refill' = [refill EXCEPT ![p] = [state |-> "reserved", start |-> next]]
        /\ refill'[p] = [state |-> "reserved", start |-> next]
        /\ \A q \in Processes : q # p => refill'[q] = refill[q]
    BY DEF Reserve, NumberInv, NumbersTypeOK
  <1>3. NumbersTypeOK'
    BY <1>1, <1>2 DEF NumberInv, NumbersTypeOK, Reserve
  <1>4. \A q \in Processes, n \in Int :
          Hands(q, n)' => Hands(q, n) \/ (q = p /\ committed <= n /\ n < committed')
    BY <1>1, <1>2 DEF Hands, InBlock, InRefill
  <1>5. \A e \in Entries : /\ Numbered(e)' <=> Numbered(e)
                           /\ number[e] \in Int
                           /\ Numbered(e) => number[e] < committed
    BY <1>1 DEF Numbered, NumberInv, NumbersTypeOK, GivenBelow
  <1>6. RowOrdered' /\ GivenBelow' /\ NumberedOnce'
    BY <1>1, <1>5 DEF NumberInv, RowOrdered, GivenBelow, NumberedOnce
  <1>7. FreeBelow'
    BY <1>1, <1>4 DEF NumberInv, FreeBelow
  <1>8. FreeApart'
    BY <1>1, <1>4 DEF NumberInv, FreeBelow, FreeApart
  <1>9. FreeUnused'
    BY <1>1, <1>4, <1>5 DEF NumberInv, FreeUnused
  <1>10. OneSource'
    BY <1>1, <1>2 DEF Reserve, OneSource, Left, NumberInv
  <1> QED BY <1>3, <1>6, <1>7, <1>8, <1>9, <1>10 DEF NumberInv

-----------------------------------------------------------------------------
(* The two places a number comes from                                      *)

LEMMA FromBlockNumbers ==
  ASSUME NumberInv, NEW c \in Callers, FromBlock(c)
  PROVE  NumberInv'
  <1>0. at[c] \in Processes /\ want[c] \in Entries /\ block[at[c]].next \in Int
    BY DEF NumberInv, NumbersTypeOK, FromBlock, LooksAtBlock
  <1> PICK p \in Processes, n \in Int, e \in Entries : p = at[c] /\ n = block[p].next /\ e = want[c]
    BY <1>0
  <1>1. p \in Processes /\ e \in Entries /\ n \in Int /\ block[p].end \in Int /\ n <= block[p].end
    BY DEF NumberInv, NumbersTypeOK, FromBlock, LooksAtBlock, Left
  <1>2. /\ writer' = [writer EXCEPT ![e] = c] /\ number' = [number EXCEPT ![e] = n]
        /\ block' = [block EXCEPT ![p].next = @ + 1] /\ pc' = [pc EXCEPT ![c] = "work"]
        /\ UNCHANGED <<next, committed, lock, refill, paused, at, want, faults>>
    BY DEF FromBlock, Number
  <1>3. block' \in [Processes -> [next : Int, end : Int]]
    BY <1>1, <1>2 DEF NumberInv, NumbersTypeOK
  <1>4. NumbersTypeOK'
    BY <1>1, <1>2, <1>3 DEF NumberInv, NumbersTypeOK
  <1>5. /\ block'[p].next = n + 1 /\ block'[p].end = block[p].end
        /\ \A q \in Processes : q # p => block'[q] = block[q]
    BY <1>1, <1>2 DEF NumberInv, NumbersTypeOK
  <1>6. /\ writer'[e] = c /\ number'[e] = n /\ c # None /\ c # Posted
        /\ \A f \in Entries : f # e => writer'[f] = writer[f] /\ number'[f] = number[f]
    BY <1>1, <1>2, NumberAssumption DEF NumberInv, NumbersTypeOK
  <1>7. Hands(p, n)
    BY <1>1 DEF Hands, InBlock
  <1>8. n < committed /\ committed <= next /\ committed \in Nat /\ next \in Nat
    BY <1>1, <1>7 DEF NumberInv, FreeBelow, RowOrdered, NumbersTypeOK
  <1>9. \A f \in Entries : Numbered(f) => number[f] # n
    BY <1>1, <1>7 DEF NumberInv, FreeUnused
  <1>10. \A q \in Processes, k \in Int : Hands(q, k)' => Hands(q, k)
    BY <1>1, <1>2, <1>5 DEF Hands, InBlock, InRefill
  <1>11. ~Hands(p, n)'
    BY <1>1, <1>2, <1>5 DEF Hands, InBlock, InRefill, NumberInv, OneSource, Left
  <1>12. \A q \in Processes : ~Hands(q, n)'
    BY <1>1, <1>7, <1>10, <1>11 DEF NumberInv, FreeApart
  <1>13. \A f \in Entries : f # e => (Numbered(f)' <=> Numbered(f))
    BY <1>6 DEF Numbered
  <1>14. RowOrdered' /\ GivenBelow'
    BY <1>2, <1>6, <1>8, <1>13 DEF NumberInv, RowOrdered, GivenBelow
  <1>15. FreeBelow' /\ FreeApart'
    BY <1>2, <1>10 DEF NumberInv, FreeBelow, FreeApart
  <1>16. FreeUnused'
    BY <1>6, <1>10, <1>12, <1>13 DEF NumberInv, FreeUnused
  <1>17. OneSource'
    BY <1>1, <1>2, <1>5 DEF NumberInv, OneSource, Left
  <1>18. NumberedOnce'
    BY <1>6, <1>9, <1>13 DEF NumberInv, NumberedOnce
  <1> QED BY <1>4, <1>14, <1>15, <1>16, <1>17, <1>18 DEF NumberInv

LEMMA FromRowNumbers ==
  ASSUME NumberInv, NEW c \in Callers, FromRow(c)
  PROVE  NumberInv'
  <1>0. want[c] \in Entries
    BY DEF NumberInv, NumbersTypeOK, FromRow
  <1> PICK e \in Entries : e = want[c]
    BY <1>0
  <1>1. e \in Entries /\ c # None /\ c # Posted /\ next \in Nat /\ committed \in Nat /\ committed <= next
    BY NumberAssumption DEF NumberInv, NumbersTypeOK, FromRow, RowOrdered
  <1>2. /\ writer' = [writer EXCEPT ![e] = c] /\ number' = [number EXCEPT ![e] = next]
        /\ next' = next + 1 /\ lock' = c /\ lock \in {None, c} /\ pc' = [pc EXCEPT ![c] = "work"]
        /\ UNCHANGED <<committed, block, refill, paused, at, want, faults>>
    BY DEF FromRow, Number, MayWriteRow
  <1>3. NumbersTypeOK'
    <2>1. next' \in Nat /\ lock' \in Callers \union {None} /\ committed' \in Nat
      BY <1>1, <1>2
    <2>2. /\ writer' \in [Entries -> Callers \union {None, Posted}]
          /\ number' \in [Entries -> Int]
      BY <1>1, <1>2 DEF NumberInv, NumbersTypeOK
    <2>3. /\ pc' \in [Callers -> Steps] /\ \A d \in Callers : pc'[d] = IF d = c THEN "work" ELSE pc[d]
      BY <1>1, <1>2 DEF NumberInv, NumbersTypeOK, Steps
    <2>4. pc[c] = "queued"
      BY DEF FromRow
    <2> QED BY <1>2, <2>1, <2>2, <2>3, <2>4 DEF NumberInv, NumbersTypeOK, Steps
  <1>4. /\ writer'[e] = c /\ number'[e] = next
        /\ \A f \in Entries : f # e => writer'[f] = writer[f] /\ number'[f] = number[f]
    BY <1>1, <1>2 DEF NumberInv, NumbersTypeOK
  <1>5. \A f \in Entries : f # e => (Numbered(f)' <=> Numbered(f))
    BY <1>4 DEF Numbered
  <1>6. \A f \in Entries : number[f] \in Int /\ (Numbered(f) => number[f] < next)
    BY DEF NumberInv, NumbersTypeOK, GivenBelow
  <1>7. \A f \in Entries : Numbered(f) /\ writer[f] # c => number[f] < committed
    BY <1>1, <1>2 DEF NumberInv, GivenBelow, RowOrdered, Numbered
  <1>8. \A q \in Processes, k \in Int : Hands(q, k)' <=> Hands(q, k)
    BY <1>2 DEF Hands, InBlock, InRefill
  <1>9. \A q \in Processes : ~Hands(q, next)
    BY <1>1 DEF NumberInv, FreeBelow
  <1>10. RowOrdered' /\ GivenBelow'
    BY <1>1, <1>2, <1>4, <1>5, <1>6, <1>7 DEF RowOrdered, GivenBelow
  <1>11. FreeBelow' /\ FreeApart'
    BY <1>2, <1>8 DEF NumberInv, FreeBelow, FreeApart
  <1>12. FreeUnused'
    BY <1>4, <1>5, <1>8, <1>9 DEF NumberInv, FreeUnused
  <1>13. OneSource'
    BY <1>2 DEF NumberInv, OneSource, Left
  <1>14. NumberedOnce'
    BY <1>1, <1>4, <1>5, <1>6 DEF NumberInv, NumberedOnce
  <1> QED BY <1>3, <1>10, <1>11, <1>12, <1>13, <1>14 DEF NumberInv

-----------------------------------------------------------------------------
(* The end of a transaction                                                *)

LEMMA CommitNumbers ==
  ASSUME NumberInv, NEW c \in Callers, Commit(c)
  PROVE  NumberInv'
  <1>1. /\ next \in Nat /\ committed \in Nat /\ committed <= next
        /\ c # None /\ c # Posted /\ None # Posted /\ lock # Posted
    BY NumberAssumption DEF NumberInv, NumbersTypeOK, RowOrdered
  <1>2. /\ UNCHANGED <<next, block, refill, number>>
        /\ lock' \in Callers \union {None} /\ committed' \in Nat /\ committed <= committed'
        /\ committed' <= next' /\ (lock' = None => committed' = next')
        /\ lock = c => lock' = None
        /\ lock # c => lock' = lock /\ committed' = committed
    BY <1>1 DEF Commit, Release, NumberInv, NumbersTypeOK, RowOrdered
  <1>3. \A e \in Entries : /\ Numbered(e)' <=> Numbered(e)
                           /\ writer'[e] = IF writer[e] = c THEN Posted ELSE writer[e]
    BY <1>1 DEF Commit, Numbered
  <1>4. NumbersTypeOK'
    BY <1>2 DEF NumberInv, NumbersTypeOK, Commit
  <1>5. \A q \in Processes, k \in Int : Hands(q, k)' <=> Hands(q, k)
    BY <1>2 DEF Hands, InBlock, InRefill
  <1>6. \A e \in Entries : number[e] \in Int /\ number'[e] = number[e]
    BY <1>2 DEF NumberInv, NumbersTypeOK
  <1>7. GivenBelow'
    BY <1>1, <1>2, <1>3, <1>6 DEF NumberInv, GivenBelow
  <1>8. FreeBelow'
    BY <1>1, <1>2, <1>5 DEF NumberInv, FreeBelow
  <1> QED BY <1>2, <1>3, <1>4, <1>5, <1>6, <1>7, <1>8
        DEF NumberInv, RowOrdered, FreeApart, FreeUnused, OneSource, Left, NumberedOnce

(* A rollback gives back what the row's holder took and nothing more.      *)
LEMMA UndoNumbers ==
  ASSUME NumberInv, NEW C \in SUBSET Callers, Undo(C), UNCHANGED committed,
         \A p \in Processes, n \in Int : Hands(p, n)' => Hands(p, n)
  PROVE  RowOrdered' /\ GivenBelow' /\ FreeBelow' /\ FreeApart' /\ FreeUnused' /\ NumberedOnce'
  <1>1. /\ next \in Nat /\ committed \in Nat /\ committed <= next /\ None \notin C
        /\ lock \in Callers \union {None}
    BY NumberAssumption DEF NumberInv, NumbersTypeOK, RowOrdered
  <1>2. /\ lock \in C => next' = committed /\ lock' = None
        /\ lock \notin C => next' = next /\ lock' = lock
    BY DEF Undo, UndoRow
  <1>3. \A e \in Entries : Numbered(e)' => /\ Numbered(e) /\ writer'[e] = writer[e] /\ number'[e] = number[e]
                                           /\ writer[e] \notin C
    BY DEF Undo, Numbered
  <1>4. \A e \in Entries : number[e] \in Int
    BY DEF NumberInv, NumbersTypeOK
  <1>5. RowOrdered'
    BY <1>1, <1>2 DEF NumberInv, RowOrdered
  <1>6. GivenBelow'
    BY <1>1, <1>2, <1>3, <1>4 DEF NumberInv, GivenBelow
  <1> QED BY <1>3, <1>5, <1>6 DEF NumberInv, FreeBelow, FreeApart, FreeUnused, NumberedOnce

LEMMA UndoType ==
  ASSUME NumbersTypeOK, NEW C \in SUBSET Callers, Undo(C), UNCHANGED committed
  PROVE  /\ next' \in Nat /\ committed' \in Nat /\ lock' \in Callers \union {None}
         /\ pc' \in [Callers -> Steps]
         /\ at' \in [Callers -> Processes \union {None}]
         /\ \A c \in Callers : pc'[c] # "idle" => at'[c] \in Processes
         /\ want' \in [Callers -> Entries \union {None}]
         /\ \A c \in Callers : pc'[c] \notin {"idle", "work"} => want'[c] \in Entries
         /\ writer' \in [Entries -> Callers \union {None, Posted}]
         /\ number' \in [Entries -> Int]
  BY DEF NumbersTypeOK, Undo, UndoRow, Steps

LEMMA RollbackNumbers ==
  ASSUME NumberInv, NEW c \in Callers, Undo({c}), faults' \in 0..MaxFaults,
         UNCHANGED <<committed, block, refill, paused>>
  PROVE  NumberInv'
  <1>1. NumbersTypeOK'
    BY UndoType DEF NumberInv, NumbersTypeOK, Steps
  <1>2. \A p \in Processes, n \in Int : Hands(p, n)' => Hands(p, n)
    BY DEF Hands, InBlock, InRefill
  <1>3. OneSource'
    BY DEF NumberInv, OneSource, Left
  <1> QED BY <1>1, <1>2, <1>3, UndoNumbers DEF NumberInv

LEMMA CrashNumbers ==
  ASSUME NumberInv, NEW p \in Processes, Crash(p)
  PROVE  NumberInv'
  <1> DEFINE C == {c \in Callers : at[c] = p}
  <1>1. Undo(C) /\ UNCHANGED committed /\ faults' \in 0..MaxFaults
    BY NumberAssumption DEF Crash, Fault, NumberInv, NumbersTypeOK
  <1>2. /\ block' \in [Processes -> [next : Int, end : Int]] /\ paused' \in [Processes -> BOOLEAN]
        /\ refill' \in [Processes -> [state : {"none", "running", "reserved"}, start : Nat]]
    BY DEF Crash, NoBlock, NoRefill, NumberInv, NumbersTypeOK
  <1>3. NumbersTypeOK'
    BY <1>1, <1>2, UndoType DEF NumberInv, NumbersTypeOK, Steps
  <1>4. \A q \in Processes, n \in Int : Hands(q, n)' => Hands(q, n)
    BY DEF Crash, NoBlock, NoRefill, Hands, InBlock, InRefill, NumberInv, NumbersTypeOK
  <1>5. OneSource'
    BY DEF Crash, NoBlock, NoRefill, NumberInv, NumbersTypeOK, OneSource, Left
  <1> QED BY <1>1, <1>3, <1>4, <1>5, UndoNumbers DEF NumberInv

-----------------------------------------------------------------------------

LEMMA NextNumbers == NumberInv /\ [NumbersNext]_numberVars => NumberInv'
  <1> SUFFICES ASSUME NumberInv, [NumbersNext]_numberVars PROVE NumberInv'
    OBVIOUS
  <1>1. CASE UNCHANGED numberVars
    <2>1. NumbersTypeOK' /\ UNCHANGED <<next, committed, lock, block, refill, writer, number>>
      BY <1>1 DEF numberVars, NumberInv, NumbersTypeOK
    <2> QED BY <2>1, NumbersFrame DEF NumberInv
  <1>2. ASSUME NEW c \in Callers, NEW p \in Processes, Begin(c, p) PROVE NumberInv'
    BY <1>2, BeginNumbers
  <1>3. ASSUME NEW c \in Callers, NEW e \in Entries, Ask(c, e) PROVE NumberInv'
    BY <1>3, AskNumbers
  <1>4. ASSUME NEW c \in Callers, CallerStep(c) PROVE NumberInv'
    BY <1>4, FromBlockNumbers, AwaitNumbers, SkipNumbers, FromRowNumbers DEF CallerStep
  <1>5. ASSUME NEW c \in Callers, Commit(c) PROVE NumberInv'
    BY <1>5, CommitNumbers
  <1>6. ASSUME NEW c \in Callers, Rollback(c) PROVE NumberInv'
    <2>1. Undo({c}) /\ faults' \in 0..MaxFaults /\ UNCHANGED <<committed, block, refill, paused>>
      BY <1>6, NumberAssumption DEF Rollback, Fault, NumberInv, NumbersTypeOK
    <2> QED BY <2>1, RollbackNumbers
  <1>9. ASSUME NEW c \in Callers, Abort(c) PROVE NumberInv'
    <2>1. Undo({c}) /\ faults' \in 0..MaxFaults /\ UNCHANGED <<committed, block, refill, paused>>
      BY <1>9 DEF Abort, NumberInv, NumbersTypeOK
    <2> QED BY <2>1, RollbackNumbers
  <1>7. ASSUME NEW p \in Processes, ProcessStep(p) \/ LoseReservation(p) PROVE NumberInv'
    BY <1>7, ReserveNumbers, RefilledNumbers, GiveUpNumbers DEF ProcessStep
  <1>8. ASSUME NEW p \in Processes, PauseOver(p) \/ Crash(p) PROVE NumberInv'
    BY <1>8, PauseOverNumbers, CrashNumbers
  <1> QED BY <1>1, <1>2, <1>3, <1>4, <1>5, <1>6, <1>7, <1>8, <1>9 DEF NumbersNext

(* The row, the blocks and the reservations keep their types, whatever is  *)
(* rolled back, lost or crashes between two statements of nextJournalNumber. *)
THEOREM NumberTypes == NumbersSpec => []NumbersTypeOK
  <1>1. NumberInv => NumbersTypeOK
    BY DEF NumberInv
  <1> QED BY <1>1, InitNumbers, NextNumbers, PTL DEF NumbersSpec

(* Journal entry numbers are unique, whatever posts the entries (nextJournalNumber). *)
THEOREM NumbersAreUnique == NumbersSpec => []NumberedOnce
  <1>1. NumberInv => NumberedOnce
    BY DEF NumberInv
  <1> QED BY <1>1, InitNumbers, NextNumbers, PTL DEF NumbersSpec

-----------------------------------------------------------------------------
(* Offline batches post their entries by JournalNumbers' steps             *)

Requested == \A c \in Callers : Busy(c) => request[c] \in Requests

LEMMA EntryOf ==
  ASSUME NEW e \in Entries
  PROVE  /\ e[1] \in Requests /\ e[2] \in DOMAIN Batch[e[1]] /\ e = <<e[1], e[2]>>
         /\ Batch[e[1]][e[2]].payload \in SalePayloads
  BY BatchAssumption

LEMMA SaleEntry ==
  ASSUME NEW r \in Requests, NEW i \in DOMAIN Batch[r], IsSale(r, i)
  PROVE  <<r, i>> \in Entries
  BY BatchAssumption DEF IsSale

LEMMA StepIsNumbersStep ==
  ASSUME Requested, Next
  PROVE  NumbersNext \/ UNCHANGED numberVars
  <1>1. ASSUME NEW c \in Callers, NEW p \in Processes, NEW r \in Requests, Start(c, p, r) PROVE NumbersNext
    BY <1>1 DEF Start, NumbersNext
  <1>2. ASSUME NEW c \in Callers, Apply(c) PROVE NumbersNext
    <2>1. PICK i \in ToPost(c) : Ask(c, <<request[c], i>>)
      BY <1>2 DEF Apply
    <2>2. <<request[c], i>> \in Entries
      BY <1>2, SaleEntry DEF Requested, Apply, ToPost
    <2> QED BY <2>1, <2>2 DEF NumbersNext
  <1>3. ASSUME NEW c \in Callers, Finish(c) \/ WriteConflict(c) \/ Refuse(c) \/ CallerStep(c) PROVE NumbersNext
    BY <1>3 DEF Finish, WriteConflict, Refuse, NumbersNext
  <1>4. ASSUME NEW p \in Processes, ProcessWork(p) \/ Die(p) \/ LoseReservation(p) \/ PauseOver(p) PROVE NumbersNext
    BY <1>4 DEF ProcessWork, Die, NumbersNext
  <1> QED BY <1>1, <1>2, <1>3, <1>4 DEF Next, HandlerStep

(* Which transactions are busy, and with what.                             *)
LEMMA NextRequested ==
  ASSUME NumbersTypeOK, Requested, request \in [Callers -> Requests \union {None}], [Next]_vars
  PROVE  Requested' /\ request' \in [Callers -> Requests \union {None}]
  <1>1. CASE UNCHANGED vars
    BY <1>1 DEF vars, numberVars, syncVars, Requested, Busy
  <1>2. ASSUME NEW c \in Callers, NEW p \in Processes, NEW r \in Requests, Start(c, p, r)
        PROVE  Requested' /\ request' \in [Callers -> Requests \union {None}]
    BY <1>2 DEF Start, Begin, Requested, Busy, NumbersTypeOK
  <1>3. ASSUME NEW C \in SUBSET Callers, Leave(C), \A c \in Callers \ C : pc'[c] = pc[c],
               \A c \in C : pc'[c] = "idle"
        PROVE  Requested' /\ request' \in [Callers -> Requests \union {None}]
    BY <1>3 DEF Leave, Requested, Busy
  <1>4. ASSUME NEW c \in Callers, Finish(c) \/ WriteConflict(c) \/ Refuse(c)
        PROVE  Requested' /\ request' \in [Callers -> Requests \union {None}]
    <2>1. Leave({c}) /\ pc'[c] = "idle" /\ \A d \in Callers \ {c} : pc'[d] = pc[d]
      BY <1>4 DEF Finish, WriteConflict, Refuse, Commit, Abort, Rollback, Undo, NumbersTypeOK
    <2> QED BY <2>1, <1>3
  <1>5. ASSUME NEW p \in Processes, Die(p)
        PROVE  Requested' /\ request' \in [Callers -> Requests \union {None}]
    <2> DEFINE C == {c \in Callers : at[c] = p}
    <2>1. Leave(C) /\ \A c \in Callers : pc'[c] = IF c \in C THEN "idle" ELSE pc[c]
      BY <1>5 DEF Die, Crash, Undo
    <2> HIDE DEF C
    <2>2. C \in SUBSET Callers
      BY DEF C
    <2> QED BY <2>1, <2>2, <1>3
  <1>6. ASSUME UNCHANGED request, \A c \in Callers : Busy(c)' => Busy(c)
        PROVE  Requested' /\ request' \in [Callers -> Requests \union {None}]
    BY <1>6 DEF Requested
  <1>7. ASSUME NEW c \in Callers, Apply(c) \/ (CallerStep(c) /\ UNCHANGED syncVars)
        PROVE  UNCHANGED request /\ \A d \in Callers : Busy(d)' => Busy(d)
    BY <1>7 DEF Apply, Ask, CallerStep, FromBlock, AwaitRefill, SkipBlock, FromRow, Number, LooksAtBlock,
                Busy, syncVars, NumbersTypeOK
  <1>8. ASSUME NEW p \in Processes, ProcessStep(p) \/ LoseReservation(p) \/ PauseOver(p), UNCHANGED syncVars
        PROVE  UNCHANGED request /\ \A d \in Callers : Busy(d)' => Busy(d)
    BY <1>8 DEF ProcessStep, Reserve, Refilled, ReserveFails, LoseReservation, GiveUp, Resume, Waiting, PauseOver,
                Busy, syncVars, NumbersTypeOK
  <1> QED BY <1>1, <1>2, <1>4, <1>5, <1>6, <1>7, <1>8 DEF Next, HandlerStep, ProcessWork

LEMMA AlwaysNumbers ==
  Spec => [](NumberInv /\ Requested /\ request \in [Callers -> Requests \union {None}])
  <1> DEFINE Inv == NumberInv /\ Requested /\ request \in [Callers -> Requests \union {None}]
  <1>1. Init => Inv
    BY InitNumbers, BatchAssumption DEF Init, NumbersInit, Requested, Busy
  <1>2. Inv /\ [Next]_vars => Inv'
    <2> SUFFICES ASSUME Inv, [Next]_vars PROVE Inv'
      OBVIOUS
    <2>1. NumbersTypeOK
      BY DEF NumberInv
    <2>2. [NumbersNext]_numberVars
      BY StepIsNumbersStep DEF vars
    <2> QED BY <2>1, <2>2, NextNumbers, NextRequested
  <1> QED BY <1>1, <1>2, PTL DEF Spec

(* Numbers stay unique when tills upload batches (syncOfflineBatch).       *)
THEOREM OfflineNumbersAreUnique == Spec => []NumberedOnce
  <1>1. NumberInv => NumberedOnce
    BY DEF NumberInv
  <1> QED BY <1>1, AlwaysNumbers, PTL

(* A batch takes numbers as any posting does: the module implements JournalNumbers. *)
THEOREM OfflineSyncNumbers == Spec => NumbersSpec
  <1>1. Init => NumbersInit
    BY DEF Init
  <1>2. Requested /\ [Next]_vars => [NumbersNext]_numberVars
    BY StepIsNumbersStep DEF vars
  <1> QED BY <1>1, <1>2, AlwaysNumbers, PTL DEF Spec, NumbersSpec

-----------------------------------------------------------------------------
(* A sequence number is applied once                                       *)

SeqOf(e) == Batch[e[1]][e[2]].seq
PayloadOf(e) == Batch[e[1]][e[2]].payload

Asking(c) == pc[c] \notin {"idle", "work"}

SyncTypeOK ==
  /\ recorded \in [SeqNumbers -> Payloads \union {None}]
  /\ rows \in [Keys -> Requests \union {None}]
  /\ request \in [Callers -> Requests \union {None}]
  /\ seen \in [Callers -> [SeqNumbers -> Payloads \union {None}]]
  /\ DOMAIN reply = Requests
  /\ \A r \in Requests : DOMAIN reply[r] \subseteq DOMAIN Batch[r]

(* A key has one transaction at a time and none once it has a row.         *)
KeysApart ==
  \A c \in Callers : Busy(c) =>
    /\ rows[Key[request[c]]] = None
    /\ \A d \in Callers : Busy(d) /\ Key[request[d]] = Key[request[c]] => d = c

(* What a transaction has posted or is about to is new to it.              *)
DraftsAreNew ==
  \A e \in Entries, c \in Callers :
    writer[e] = c \/ (Asking(c) /\ want[c] = e) =>
      Busy(c) /\ e[1] = request[c] /\ IsNew(e[1], e[2], seen[c])

PostedIsRecorded ==
  \A e \in Entries : writer[e] = Posted =>
    recorded[SeqOf(e)] = PayloadOf(e) /\ rows[Key[e[1]]] # None

PostedOnce ==
  \A e, f \in Entries : writer[e] = Posted /\ writer[f] = Posted /\ SeqOf(e) = SeqOf(f) => e = f

SalesArePosted ==
  \A s \in SeqNumbers : recorded[s] \in SalePayloads =>
    \E e \in Entries : writer[e] = Posted /\ SeqOf(e) = s

SyncInv ==
  /\ NumbersTypeOK /\ Requested /\ SyncTypeOK /\ KeysApart /\ DraftsAreNew
  /\ PostedIsRecorded /\ PostedOnce /\ SalesArePosted /\ AnswersAreTrue

LEMMA Least ==
  ASSUME NEW S \in SUBSET Nat, S # {}
  PROVE  \E m \in S : \A k \in S : m <= k
  <1> DEFINE T == {1..m : m \in S}
  <1>1. T \subseteq FiniteSubsetsOf(Nat) /\ T # {}
    <2>1. \A m \in S : 1..m \in SUBSET Nat /\ IsFiniteSet(1..m)
      BY FS_Interval
    <2> QED BY <2>1 DEF FiniteSubsetsOf
  <1>2. PICK x \in T : \A y \in T : ~(<<y, x>> \in StrictSubsetOrdering(Nat))
    <2> HIDE DEF T
    <2> QED BY <1>1, FS_StrictSubsetOrderingWellFounded, WFMin
  <1>3. PICK m \in S : x = 1..m
    OBVIOUS
  <1>4. ASSUME NEW k \in S, k < m PROVE FALSE
    <2>1. 1..k \in T /\ 1..k \subseteq 1..m /\ 1..k \in SUBSET Nat /\ 1..m \in SUBSET Nat
      BY <1>4
    <2>2. 1..k # 1..m
      <3>1. m \in 1..m /\ m \notin 1..k
        BY <1>4
      <3> QED BY <3>1
    <2> QED BY <2>1, <2>2, <1>2, <1>3 DEF StrictSubsetOrdering
  <1> QED BY <1>4

LEMMA BatchType ==
  ASSUME NEW r \in Requests, NEW i \in DOMAIN Batch[r]
  PROVE  /\ i \in Nat /\ i >= 1 /\ \A j \in 1..i : j \in DOMAIN Batch[r]
         /\ Batch[r][i].seq \in SeqNumbers /\ Batch[r][i].payload \in Payloads
  <1> DEFINE commands == [seq : SeqNumbers, payload : Payloads]
  <1>1. Batch[r] \in Seq(commands)
    BY BatchAssumption
  <1>2. DOMAIN Batch[r] = 1..Len(Batch[r]) /\ Len(Batch[r]) \in Nat /\ Batch[r][i] \in commands
    <2> HIDE DEF commands
    <2> QED BY <1>1
  <1> QED BY <1>2

(* The first command with a number is the one that is new, if any is.      *)
LEMMA FirstCommand ==
  ASSUME NEW r \in Requests, NEW i \in DOMAIN Batch[r], NEW s, s = Batch[r][i].seq
  PROVE  /\ First(r, s) \in DOMAIN Batch[r] /\ Batch[r][First(r, s)].seq = s
         /\ \A k \in 1..(First(r, s) - 1) : Batch[r][k].seq # s
  <1> DEFINE S == {j \in DOMAIN Batch[r] : Batch[r][j].seq = s}
  <1>1. S \in SUBSET Nat /\ S # {}
    BY BatchType
  <1>2. PICK m \in S : \A k \in S : m <= k
    BY <1>1, Least
  <1>3. \A k \in 1..(m - 1) : Batch[r][k].seq # s
    BY <1>1, <1>2, BatchType
  <1> QED BY <1>2, <1>3 DEF First

LEMMA OneFirst ==
  ASSUME NEW r \in Requests, NEW i \in DOMAIN Batch[r], NEW j \in DOMAIN Batch[r],
         Batch[r][i].seq = Batch[r][j].seq,
         \A k \in 1..(i - 1) : Batch[r][k].seq # Batch[r][i].seq,
         \A k \in 1..(j - 1) : Batch[r][k].seq # Batch[r][j].seq
  PROVE  i = j
  <1>1. i \in Nat /\ j \in Nat /\ i >= 1 /\ j >= 1
    BY BatchType
  <1>2. ASSUME i < j PROVE FALSE
    <2>1. i \in 1..(j - 1)
      BY <1>1, <1>2
    <2> QED BY <2>1
  <1>3. ASSUME j < i PROVE FALSE
    <2>1. j \in 1..(i - 1)
      BY <1>1, <1>3
    <2> QED BY <2>1
  <1> QED BY <1>1, <1>2, <1>3

LEMMA NewIsFirst ==
  ASSUME NEW r \in Requests, NEW i \in DOMAIN Batch[r], NEW known
  PROVE  IsNew(r, i, known) <=> known[Batch[r][i].seq] = None /\ First(r, Batch[r][i].seq) = i
  <1> DEFINE s == Batch[r][i].seq
  <1>1. /\ First(r, s) \in DOMAIN Batch[r] /\ Batch[r][First(r, s)].seq = s
        /\ \A k \in 1..(First(r, s) - 1) : Batch[r][k].seq # s
    BY FirstCommand
  <1> HIDE DEF First
  <1>2. ASSUME IsNew(r, i, known) PROVE First(r, s) = i
    BY <1>1, <1>2, OneFirst DEF IsNew
  <1> QED BY <1>1, <1>2 DEF IsNew

Drafts(e, c) == writer[e] = c \/ (Asking(c) /\ want[c] = e)

LEMMA InitSync == Init => SyncInv
  <1> SUFFICES ASSUME Init PROVE SyncInv
    OBVIOUS
  <1>1. NumbersTypeOK
    BY InitNumbers DEF Init, NumberInv
  <1>2. /\ \A c \in Callers : pc[c] = "idle"
        /\ \A e \in Entries : writer[e] = None
    BY DEF Init, NumbersInit
  <1>3. Nothing \in [SeqNumbers -> Payloads \union {None}] /\ \A s \in SeqNumbers : Nothing[s] = None
    BY DEF Nothing
  <1>4. SyncTypeOK
    BY <1>3, BatchAssumption DEF Init, SyncTypeOK, Idempotency!NoRows
  <1>5. Requested /\ KeysApart /\ DraftsAreNew
    BY <1>2, NumberAssumption DEF Requested, KeysApart, DraftsAreNew, Busy, Asking
  <1>6. PostedIsRecorded /\ PostedOnce
    BY <1>2, NumberAssumption DEF PostedIsRecorded, PostedOnce
  <1>7. SalesArePosted
    BY <1>3, BatchAssumption DEF Init, SalesArePosted
  <1>8. AnswersAreTrue
    BY DEF Init, AnswersAreTrue
  <1> QED BY <1>1, <1>4, <1>5, <1>6, <1>7, <1>8 DEF SyncInv

(* A step that ends or goes on with transactions but commits none.         *)
LEMMA SyncFrame ==
  ASSUME SyncInv, NumbersTypeOK', Requested',
         UNCHANGED <<recorded, rows, reply>>,
         request' \in [Callers -> Requests \union {None}],
         seen' \in [Callers -> [SeqNumbers -> Payloads \union {None}]],
         \A e \in Entries : writer'[e] = Posted <=> writer[e] = Posted,
         \A c \in Callers : Busy(c)' => Busy(c) /\ request'[c] = request[c] /\ seen'[c] = seen[c],
         \A e \in Entries, c \in Callers : Drafts(e, c)' => Drafts(e, c) /\ Busy(c)'
  PROVE  SyncInv'
  <1>1. SyncTypeOK'
    BY DEF SyncInv, SyncTypeOK
  <1>2. KeysApart'
    BY DEF SyncInv, KeysApart
  <1>3. DraftsAreNew'
    <2> SUFFICES ASSUME NEW e \in Entries, NEW c \in Callers, Drafts(e, c)'
                 PROVE  Busy(c)' /\ e[1] = request'[c] /\ IsNew(e[1], e[2], seen'[c])
      BY DEF DraftsAreNew, Drafts, IsNew
    <2>1. Drafts(e, c) /\ Busy(c)'
      OBVIOUS
    <2>2. e[1] = request[c] /\ IsNew(e[1], e[2], seen[c])
      BY <2>1 DEF SyncInv, DraftsAreNew, Drafts
    <2> QED BY <2>1, <2>2 DEF IsNew
  <1>4. PostedIsRecorded' /\ PostedOnce' /\ SalesArePosted'
    BY DEF SyncInv, PostedIsRecorded, PostedOnce, SalesArePosted, SeqOf, PayloadOf
  <1>5. AnswersAreTrue'
    <2> SUFFICES ASSUME NEW r \in Requests, NEW i \in DOMAIN reply[r]
                 PROVE  /\ recorded[Batch[r][i].seq] # None
                        /\ reply[r][i] = "conflict" <=> recorded[Batch[r][i].seq] # Batch[r][i].payload
                        /\ IsSale(r, i) => (reply[r][i] = "applied" <=> writer'[<<r, i>>] = Posted)
      BY DEF AnswersAreTrue, IsSale
    <2>1. i \in DOMAIN Batch[r]
      BY DEF SyncInv, SyncTypeOK
    <2> QED BY <2>1, SaleEntry DEF SyncInv, AnswersAreTrue
  <1> QED BY <1>1, <1>2, <1>3, <1>4, <1>5 DEF SyncInv

LEMMA StartSync ==
  ASSUME SyncInv, NumbersTypeOK', Requested', NEW c \in Callers, NEW p \in Processes, NEW r \in Requests,
         Start(c, p, r)
  PROVE  SyncInv'
  <1>1. /\ pc' = [pc EXCEPT ![c] = "work"] /\ UNCHANGED <<want, writer, recorded, rows, reply>>
        /\ request' = [request EXCEPT ![c] = r] /\ seen' = [seen EXCEPT ![c] = recorded] /\ ~Busy(c)
        /\ rows[Key[r]] = None /\ \A d \in Callers : Busy(d) => Key[request[d]] # Key[r]
    BY DEF Start, Begin, Busy, Idempotency!MayRun
  <1>2. SyncTypeOK'
    BY <1>1 DEF SyncInv, SyncTypeOK
  <1>3. \A d \in Callers : /\ Busy(d)' <=> Busy(d) \/ d = c
                           /\ Asking(d)' <=> Asking(d) /\ d # c
                           /\ d # c => request'[d] = request[d] /\ seen'[d] = seen[d]
    BY <1>1 DEF Busy, Asking, SyncInv, SyncTypeOK, NumbersTypeOK
  <1>4. request'[c] = r
    BY <1>1 DEF SyncInv, SyncTypeOK
  <1>5. KeysApart'
    BY <1>1, <1>3, <1>4 DEF SyncInv, KeysApart
  <1>6. DraftsAreNew'
    <2> SUFFICES ASSUME NEW e \in Entries, NEW d \in Callers, Drafts(e, d)'
                 PROVE  Busy(d)' /\ e[1] = request'[d] /\ IsNew(e[1], e[2], seen'[d])
      BY DEF DraftsAreNew, Drafts, IsNew
    <2>1. Drafts(e, d)
      BY <1>1, <1>3 DEF Drafts
    <2>2. Busy(d) /\ e[1] = request[d] /\ IsNew(e[1], e[2], seen[d])
      BY <2>1 DEF SyncInv, DraftsAreNew, Drafts
    <2> QED BY <2>2, <1>1, <1>3 DEF IsNew
  <1>7. PostedIsRecorded' /\ PostedOnce' /\ SalesArePosted' /\ AnswersAreTrue'
    BY <1>1 DEF SyncInv, PostedIsRecorded, PostedOnce, SalesArePosted, AnswersAreTrue, SeqOf, PayloadOf, IsSale
  <1> QED BY <1>2, <1>5, <1>6, <1>7 DEF SyncInv

LEMMA ApplySync ==
  ASSUME SyncInv, NumbersTypeOK', Requested', NEW c \in Callers, Apply(c)
  PROVE  SyncInv'
  <1>1. PICK i \in ToPost(c) : Ask(c, <<request[c], i>>)
    BY DEF Apply
  <1>2. /\ UNCHANGED <<writer, recorded, rows, reply, request, seen>>
        /\ pc' = [pc EXCEPT ![c] = "ask"] /\ want' = [want EXCEPT ![c] = <<request[c], i>>] /\ Busy(c)
    BY <1>1 DEF Apply, Ask, syncVars
  <1>3. IsNew(request[c], i, seen[c])
    BY DEF ToPost
  <1>4. \A d \in Callers : Busy(d)' <=> Busy(d)
    BY <1>2 DEF Busy, SyncInv, NumbersTypeOK
  <1>5. SyncTypeOK' /\ KeysApart'
    BY <1>2, <1>4 DEF SyncInv, SyncTypeOK, KeysApart
  <1>6. DraftsAreNew'
    <2> SUFFICES ASSUME NEW e \in Entries, NEW d \in Callers, Drafts(e, d)'
                 PROVE  Busy(d) /\ e[1] = request[d] /\ IsNew(e[1], e[2], seen[d])
      BY <1>2, <1>4 DEF DraftsAreNew, Drafts, IsNew
    <2>1. Drafts(e, d) \/ (d = c /\ e = <<request[c], i>>)
      BY <1>2 DEF Drafts, Asking, SyncInv, NumbersTypeOK
    <2>2. CASE Drafts(e, d)
      BY <2>2 DEF SyncInv, DraftsAreNew, Drafts
    <2>3. CASE d = c /\ e = <<request[c], i>>
      BY <2>3, <1>2, <1>3
    <2> QED BY <2>1, <2>2, <2>3
  <1>7. PostedIsRecorded' /\ PostedOnce' /\ SalesArePosted' /\ AnswersAreTrue'
    BY <1>2 DEF SyncInv, PostedIsRecorded, PostedOnce, SalesArePosted, AnswersAreTrue, SeqOf, PayloadOf, IsSale
  <1> QED BY <1>5, <1>6, <1>7 DEF SyncInv

(* The steps of JournalNumbers that take and lose numbers.                 *)
LEMMA WaitSync ==
  ASSUME SyncInv, NumbersTypeOK', Requested', UNCHANGED syncVars, UNCHANGED <<want, writer>>,
         \A c \in Callers : (Busy(c)' <=> Busy(c)) /\ (Asking(c)' <=> Asking(c))
  PROVE  SyncInv'
  <1>1. \A e \in Entries, c \in Callers : Drafts(e, c)' => Drafts(e, c) /\ Busy(c)'
    BY DEF Drafts, SyncInv, DraftsAreNew
  <1> QED BY <1>1, SyncFrame DEF syncVars, SyncInv, SyncTypeOK

LEMMA NumberedSync ==
  ASSUME SyncInv, NumbersTypeOK', Requested', UNCHANGED <<syncVars, want>>, NEW c \in Callers, NEW n,
         Number(c, n), Asking(c)
  PROVE  SyncInv'
  <1>1. /\ want[c] \in Entries /\ Busy(c)
        /\ writer' = [writer EXCEPT ![want[c]] = c] /\ pc' = [pc EXCEPT ![c] = "work"]
    BY DEF Number, Asking, Busy, SyncInv, NumbersTypeOK
  <1>2. writer[want[c]] # Posted
    <2>1. want[c][1] = request[c]
      BY <1>1 DEF SyncInv, DraftsAreNew
    <2> QED BY <1>1, <2>1 DEF SyncInv, PostedIsRecorded, KeysApart
  <1>3. \A d \in Callers : /\ Busy(d)' <=> Busy(d)
                           /\ Asking(d)' => Asking(d)
    BY <1>1 DEF Busy, Asking, SyncInv, NumbersTypeOK
  <1>4. \A e \in Entries : writer'[e] = IF e = want[c] THEN c ELSE writer[e]
    BY <1>1 DEF SyncInv, NumbersTypeOK
  <1>5. \A e \in Entries : writer'[e] = Posted <=> writer[e] = Posted
    BY <1>2, <1>4, NumberAssumption
  <1>6. \A e \in Entries, d \in Callers : Drafts(e, d)' => Drafts(e, d) /\ Busy(d)'
    BY <1>1, <1>3, <1>4 DEF Drafts, SyncInv, DraftsAreNew
  <1> QED BY <1>3, <1>5, <1>6, SyncFrame DEF syncVars, SyncInv, SyncTypeOK

LEMMA UndoSync ==
  ASSUME SyncInv, NumbersTypeOK', Requested', NEW C \in SUBSET Callers, Undo(C), Leave(C),
         UNCHANGED <<recorded, rows, reply>>
  PROVE  SyncInv'
  <1>1. /\ \A c \in Callers : /\ pc'[c] = IF c \in C THEN "idle" ELSE pc[c]
                              /\ want'[c] = IF c \in C THEN None ELSE want[c]
        /\ \A e \in Entries : writer'[e] = IF writer[e] \in C THEN None ELSE writer[e]
    BY DEF Undo
  <1>2. /\ request' \in [Callers -> Requests \union {None}]
        /\ seen' \in [Callers -> [SeqNumbers -> Payloads \union {None}]]
    BY DEF Leave, Nothing, SyncInv, SyncTypeOK
  <1>3. \A e \in Entries : writer'[e] = Posted <=> writer[e] = Posted
    BY <1>1, NumberAssumption
  <1>4. \A c \in Callers : Busy(c)' => c \notin C /\ Busy(c) /\ request'[c] = request[c] /\ seen'[c] = seen[c]
    BY <1>1 DEF Leave, Busy
  <1>5. \A e \in Entries, c \in Callers : Drafts(e, c)' => Drafts(e, c) /\ Busy(c)'
    BY <1>1, NumberAssumption DEF Drafts, Asking, Busy, SyncInv, DraftsAreNew
  <1> QED BY <1>2, <1>3, <1>4, <1>5, SyncFrame

-----------------------------------------------------------------------------
(* The commit of a batch                                                   *)

LEMMA FinishSync ==
  ASSUME SyncInv, NumbersTypeOK', Requested', NEW c \in Callers, Finish(c)
  PROVE  SyncInv'
  <1>0. request[c] \in Requests
    BY DEF Finish, SyncInv, Requested
  <1> PICK r \in Requests : r = request[c]
    BY <1>0
  <1> DEFINE inBatch(s) == \E i \in DOMAIN Batch[r] : Batch[r][i].seq = s
  <1>1. /\ Busy(c) /\ pc[c] = "work" /\ ToPost(c) = {} /\ Current(c)
        /\ \A d \in Callers : pc'[d] = IF d = c THEN "idle" ELSE pc[d]
        /\ \A d \in Callers : want'[d] = IF d = c THEN None ELSE want[d]
        /\ \A e \in Entries : writer'[e] = IF writer[e] = c THEN Posted ELSE writer[e]
        /\ \A s \in SeqNumbers : recorded'[s] = IF inBatch(s) THEN Recorded(r, s, seen[c]) ELSE recorded[s]
        /\ recorded' = [s \in SeqNumbers |-> recorded'[s]]
        /\ rows' = [rows EXCEPT ![Key[r]] = r]
        /\ reply' = [reply EXCEPT ![r] = [i \in DOMAIN Batch[r] |-> Outcome(r, i, seen[c])]]
        /\ Leave({c})
    BY DEF Finish, Commit, Idempotency!Complete, SyncInv, NumbersTypeOK
  <1>2. Key[r] \in Keys /\ r # None /\ None \notin Payloads /\ SalePayloads \subseteq Payloads
        /\ c # None /\ c # Posted /\ None # Posted /\ Posted \notin Callers
    BY BatchAssumption, NumberAssumption
  <1>3. \A i \in DOMAIN Batch[r] :
          /\ Batch[r][i].seq \in SeqNumbers /\ Batch[r][i].payload \in Payloads
          /\ seen[c][Batch[r][i].seq] = recorded[Batch[r][i].seq]
    BY <1>1, BatchType DEF Current
  <1>4. \A i \in DOMAIN Batch[r] :
          /\ First(r, Batch[r][i].seq) \in DOMAIN Batch[r]
          /\ Batch[r][First(r, Batch[r][i].seq)].seq = Batch[r][i].seq
    BY FirstCommand
  <1> HIDE DEF inBatch
  <1>5. \A s \in SeqNumbers : recorded[s] # None => recorded'[s] = recorded[s]
    BY <1>1, <1>3 DEF inBatch, Recorded
  <1>6. \A i \in DOMAIN Batch[r] :
          LET s == Batch[r][i].seq IN
          /\ recorded'[s] = Recorded(r, s, seen[c]) /\ recorded'[s] # None /\ recorded'[s] \in Payloads
          /\ IsNew(r, i, seen[c]) => recorded'[s] = Batch[r][i].payload /\ recorded[s] = None
    <2> SUFFICES ASSUME NEW i \in DOMAIN Batch[r], NEW s \in SeqNumbers, s = Batch[r][i].seq
                 PROVE  /\ recorded'[s] = Recorded(r, s, seen[c]) /\ recorded'[s] # None /\ recorded'[s] \in Payloads
                        /\ IsNew(r, i, seen[c]) => recorded'[s] = Batch[r][i].payload /\ recorded[s] = None
      BY <1>3
    <2>1. recorded'[s] = Recorded(r, s, seen[c])
      BY <1>1 DEF inBatch
    <2>2. seen[c][s] = recorded[s] /\ recorded[s] \in Payloads \union {None}
      BY <1>3 DEF SyncInv, SyncTypeOK
    <2>3. Batch[r][First(r, s)].payload \in Payloads
      BY <1>3, <1>4
    <2>4. IsNew(r, i, seen[c]) => First(r, s) = i /\ seen[c][s] = None
      BY NewIsFirst
    <2> QED BY <2>1, <2>2, <2>3, <2>4, <1>2 DEF Recorded
  <1>7. \A e \in Entries : writer[e] = c =>
          /\ e[1] = r /\ e[2] \in DOMAIN Batch[r] /\ e = <<r, e[2]>> /\ IsNew(r, e[2], seen[c])
    BY EntryOf DEF SyncInv, DraftsAreNew
  <1>8. \A i \in DOMAIN Batch[r] : IsSale(r, i) /\ IsNew(r, i, seen[c]) =>
          <<r, i>> \in Entries /\ writer[<<r, i>>] = c
    BY <1>1, SaleEntry DEF ToPost
  <1>9. \A e \in Entries : SeqOf(e) \in SeqNumbers /\ PayloadOf(e) \in SalePayloads
    BY EntryOf, BatchType DEF SeqOf, PayloadOf
  <1>10. \A d \in Callers : /\ Busy(d)' <=> Busy(d) /\ d # c
                            /\ Asking(d)' <=> Asking(d)
                            /\ d # c => request'[d] = request[d] /\ seen'[d] = seen[d]
    BY <1>1 DEF Busy, Asking, Leave
  <1>11. SyncTypeOK'
    <2>1. recorded' \in [SeqNumbers -> Payloads \union {None}]
      BY <1>1, <1>6 DEF inBatch, SyncInv, SyncTypeOK
    <2>2. /\ request' \in [Callers -> Requests \union {None}]
          /\ seen' \in [Callers -> [SeqNumbers -> Payloads \union {None}]]
      BY <1>1 DEF Leave, Nothing, SyncInv, SyncTypeOK
    <2>3. rows' \in [Keys -> Requests \union {None}]
      BY <1>1 DEF SyncInv, SyncTypeOK
    <2>4. DOMAIN reply' = Requests /\ \A q \in Requests : DOMAIN reply'[q] \subseteq DOMAIN Batch[q]
      BY <1>1 DEF SyncInv, SyncTypeOK
    <2> QED BY <2>1, <2>2, <2>3, <2>4 DEF SyncTypeOK
  <1>12. KeysApart'
    <2> SUFFICES ASSUME NEW d \in Callers, Busy(d), d # c
                 PROVE  /\ rows'[Key[request[d]]] = None
                        /\ \A f \in Callers : Busy(f) /\ f # c /\ Key[request[f]] = Key[request[d]] => f = d
      BY <1>10 DEF KeysApart
    <2>1. Key[request[d]] # Key[r] /\ request[d] \in Requests /\ Key[request[d]] \in Keys
      BY <1>1, BatchAssumption DEF SyncInv, KeysApart, Requested
    <2> QED BY <2>1, <1>1 DEF SyncInv, KeysApart, SyncTypeOK
  <1>13. DraftsAreNew'
    <2> SUFFICES ASSUME NEW e \in Entries, NEW d \in Callers, Drafts(e, d)'
                 PROVE  Busy(d)' /\ e[1] = request'[d] /\ IsNew(e[1], e[2], seen'[d])
      BY DEF DraftsAreNew, Drafts, IsNew
    <2>1. d # c /\ Drafts(e, d)
      BY <1>1, <1>2, <1>10 DEF Drafts, Asking
    <2>2. Busy(d) /\ e[1] = request[d] /\ IsNew(e[1], e[2], seen[d])
      BY <2>1 DEF SyncInv, DraftsAreNew, Drafts
    <2> QED BY <2>1, <2>2, <1>10 DEF IsNew
  <1>14. \A e \in Entries : writer'[e] = Posted <=> writer[e] = Posted \/ writer[e] = c
    BY <1>1, <1>2
  <1>15. PostedIsRecorded'
    <2> SUFFICES ASSUME NEW e \in Entries, writer'[e] = Posted
                 PROVE  recorded'[SeqOf(e)] = PayloadOf(e) /\ rows'[Key[e[1]]] # None
      BY DEF PostedIsRecorded, SeqOf, PayloadOf
    <2>1. CASE writer[e] = c
      BY <2>1, <1>1, <1>2, <1>6, <1>7 DEF SeqOf, PayloadOf, SyncInv, SyncTypeOK
    <2>2. CASE writer[e] = Posted
      <3>1. recorded[SeqOf(e)] = PayloadOf(e) /\ rows[Key[e[1]]] # None /\ SeqOf(e) \in SeqNumbers
        BY <2>2, <1>9 DEF SyncInv, PostedIsRecorded
      <3>2. rows'[Key[e[1]]] # None
        BY <3>1, <1>1, <1>2 DEF SyncInv, SyncTypeOK
      <3> QED BY <3>1, <3>2, <1>2, <1>5, <1>9
    <2> QED BY <2>1, <2>2, <1>14
  <1>16. PostedOnce'
    <2> SUFFICES ASSUME NEW e \in Entries, NEW f \in Entries, writer'[e] = Posted, writer'[f] = Posted,
                        SeqOf(e) = SeqOf(f)
                 PROVE  e = f
      BY DEF PostedOnce, SeqOf
    <2>1. CASE writer[e] = Posted /\ writer[f] = Posted
      BY <2>1 DEF SyncInv, PostedOnce
    <2>2. CASE writer[e] = c /\ writer[f] = c
      BY <2>2, <1>7, OneFirst DEF IsNew, SeqOf
    <2>3. ASSUME NEW g \in Entries, NEW h \in Entries, writer[g] = c, writer[h] = Posted, SeqOf(g) = SeqOf(h)
          PROVE  FALSE
      <3>1. recorded[SeqOf(h)] = PayloadOf(h)
        BY <2>3 DEF SyncInv, PostedIsRecorded
      <3>2. recorded[SeqOf(g)] = None
        BY <2>3, <1>6, <1>7 DEF SeqOf
      <3> QED BY <3>1, <3>2, <2>3, <1>2, <1>9
    <2> QED BY <2>1, <2>2, <2>3, <1>14
  <1>17. SalesArePosted'
    <2> SUFFICES ASSUME NEW s \in SeqNumbers, recorded'[s] \in SalePayloads
                 PROVE  \E e \in Entries : writer'[e] = Posted /\ SeqOf(e) = s
      BY DEF SalesArePosted, SeqOf
    <2>1. CASE recorded[s] = recorded'[s]
      BY <2>1, <1>14 DEF SyncInv, SalesArePosted
    <2>2. CASE recorded[s] # recorded'[s]
      <3>1. inBatch(s) /\ recorded[s] = None /\ recorded'[s] = Recorded(r, s, seen[c])
        BY <2>2, <1>1, <1>5 
      <3>2. PICK i \in DOMAIN Batch[r] : Batch[r][i].seq = s
        BY <3>1 DEF inBatch
      <3>3. PICK j \in DOMAIN Batch[r] : j = First(r, s) /\ Batch[r][j].seq = s
        BY <3>2, <1>4
      <3>4. IsNew(r, j, seen[c]) /\ recorded'[s] = Batch[r][j].payload
        BY <3>1, <3>3, <1>3, NewIsFirst DEF Recorded
      <3>5. IsSale(r, j)
        BY <3>4 DEF IsSale
      <3> QED BY <3>3, <3>4, <3>5, <1>8, <1>14 DEF SeqOf
    <2> QED BY <2>1, <2>2
  <1>18. AnswersAreTrue'
    <2> SUFFICES ASSUME NEW q \in Requests, NEW i \in DOMAIN reply'[q]
                 PROVE  /\ recorded'[Batch[q][i].seq] # None
                        /\ reply'[q][i] = "conflict" <=> recorded'[Batch[q][i].seq] # Batch[q][i].payload
                        /\ IsSale(q, i) => (reply'[q][i] = "applied" <=> writer'[<<q, i>>] = Posted)
      BY DEF AnswersAreTrue, IsSale
    <2>1. CASE q = r
      <3>1. i \in DOMAIN Batch[r] /\ reply'[r][i] = Outcome(r, i, seen[c])
        BY <2>1, <1>1 DEF SyncInv, SyncTypeOK
      <3>2. IsNew(r, i, seen[c]) => recorded'[Batch[r][i].seq] = Batch[r][i].payload
        BY <3>1, <1>6
      <3>3. /\ recorded'[Batch[r][i].seq] # None
            /\ reply'[r][i] = "conflict" <=> recorded'[Batch[r][i].seq] # Batch[r][i].payload
        BY <3>1, <3>2, <1>6 DEF Outcome, Applied
      <3>4. ASSUME IsSale(r, i) PROVE reply'[r][i] = "applied" <=> writer'[<<r, i>>] = Posted
        <4>1. <<r, i>> \in Entries
          BY <3>1, <3>4, SaleEntry
        <4>2. reply'[r][i] = "applied" <=> IsNew(r, i, seen[c])
          <5>1. CASE IsNew(r, i, seen[c])
            BY <3>1, <3>4, <5>1 DEF Outcome, Applied, IsSale
          <5>2. CASE ~IsNew(r, i, seen[c])
            BY <3>1, <5>2 DEF Outcome
          <5>3. IsNew(r, i, seen[c]) \in BOOLEAN
            BY DEF IsNew
          <5> QED BY <5>1, <5>2, <5>3
        <4>3. writer[<<r, i>>] # Posted
          BY <4>1, <1>1 DEF SyncInv, PostedIsRecorded, KeysApart
        <4>4. writer[<<r, i>>] = c <=> IsNew(r, i, seen[c])
          BY <4>1, <3>1, <3>4, <1>7, <1>8
        <4> QED BY <4>1, <4>2, <4>3, <4>4, <1>14
      <3> QED BY <2>1, <3>3, <3>4
    <2>2. CASE q # r
      <3>1. reply'[q] = reply[q] /\ i \in DOMAIN Batch[q]
        BY <2>2, <1>1 DEF SyncInv, SyncTypeOK
      <3>2. Batch[q][i].seq \in SeqNumbers /\ recorded[Batch[q][i].seq] # None
        BY <3>1, BatchType DEF SyncInv, AnswersAreTrue
      <3>3. recorded'[Batch[q][i].seq] = recorded[Batch[q][i].seq]
        BY <3>2, <1>5
      <3>4. ASSUME IsSale(q, i) PROVE writer'[<<q, i>>] = Posted <=> writer[<<q, i>>] = Posted
        BY <3>1, <3>4, <2>2, <1>7, <1>14, SaleEntry
      <3> QED BY <3>1, <3>2, <3>3, <3>4 DEF SyncInv, AnswersAreTrue
    <2> QED BY <2>1, <2>2
  <1> QED BY <1>11, <1>12, <1>13, <1>15, <1>16, <1>17, <1>18 DEF SyncInv

-----------------------------------------------------------------------------

LEMMA NextSync ==
  ASSUME SyncInv, [Next]_vars, NumbersTypeOK', Requested'
  PROVE  SyncInv'
  <1>1. CASE UNCHANGED vars
    BY <1>1, WaitSync DEF vars, numberVars, Busy, Asking
  <1>2. ASSUME NEW c \in Callers, NEW p \in Processes, NEW r \in Requests, Start(c, p, r) PROVE SyncInv'
    BY <1>2, StartSync
  <1>3. ASSUME NEW c \in Callers, Apply(c) \/ Finish(c) PROVE SyncInv'
    BY <1>3, ApplySync, FinishSync
  <1>4. ASSUME NEW c \in Callers, WriteConflict(c) \/ Refuse(c) PROVE SyncInv'
    BY <1>4, UndoSync DEF WriteConflict, Abort, Refuse, Rollback
  <1>5. ASSUME NEW c \in Callers, CallerStep(c), UNCHANGED syncVars PROVE SyncInv'
    <2>1. CASE FromBlock(c) \/ FromRow(c)
      BY <1>5, <2>1, NumberedSync DEF FromBlock, FromRow, LooksAtBlock, Asking
    <2>2. CASE AwaitRefill(c) \/ SkipBlock(c)
      <3>1. /\ UNCHANGED <<want, writer>>
            /\ \A d \in Callers : (Busy(d)' <=> Busy(d)) /\ (Asking(d)' <=> Asking(d))
        BY <2>2 DEF AwaitRefill, SkipBlock, LooksAtBlock, Busy, Asking, SyncInv, NumbersTypeOK
      <3> QED BY <1>5, <3>1, WaitSync
    <2> QED BY <1>5, <2>1, <2>2 DEF CallerStep
  <1>6. ASSUME NEW p \in Processes, ProcessStep(p) \/ LoseReservation(p) \/ PauseOver(p), UNCHANGED syncVars
        PROVE  SyncInv'
    <2>1. /\ UNCHANGED <<want, writer>>
          /\ \A d \in Callers : (Busy(d)' <=> Busy(d)) /\ (Asking(d)' <=> Asking(d))
      BY <1>6 DEF ProcessStep, Reserve, Refilled, ReserveFails, LoseReservation, GiveUp, Resume, Waiting, PauseOver,
                  Busy, Asking, SyncInv, NumbersTypeOK
    <2> QED BY <1>6, <2>1, WaitSync
  <1>7. ASSUME NEW p \in Processes, Die(p) PROVE SyncInv'
    <2> DEFINE C == {c \in Callers : at[c] = p}
    <2>1. Undo(C) /\ Leave(C) /\ UNCHANGED <<recorded, rows, reply>> /\ C \in SUBSET Callers
      BY <1>7 DEF Die, Crash
    <2> HIDE DEF C
    <2> QED BY <2>1, UndoSync
  <1> QED BY <1>1, <1>2, <1>3, <1>4, <1>5, <1>6, <1>7 DEF Next, HandlerStep, ProcessWork

LEMMA AlwaysSync == Spec => []SyncInv
  <1>1. SyncInv /\ [Next]_vars /\ (NumberInv /\ Requested)' => SyncInv'
    BY NextSync DEF NumberInv
  <1> QED BY <1>1, InitSync, AlwaysNumbers, PTL DEF Spec

(* What a till captured is applied once, whatever it sends how often and to *)
(* however many processes (syncOfflineBatch).                               *)
THEOREM CommandsAreAppliedOnce == Spec => []AppliedOnce
  <1>1. SyncInv => AppliedOnce
    <2> SUFFICES ASSUME SyncInv, NEW s \in SeqNumbers
                 PROVE  IF recorded[s] \in SalePayloads
                          THEN /\ Cardinality(Posts(s)) = 1
                               /\ \A e \in Posts(s) : PayloadOf(e) = recorded[s]
                          ELSE Posts(s) = {}
      BY DEF AppliedOnce, PayloadOf
    <2>1. \A e \in Posts(s) : e \in Entries /\ writer[e] = Posted /\ SeqOf(e) = s
      BY DEF Posts, SeqOf
    <2>2. \A e \in Posts(s) : PayloadOf(e) = recorded[s] /\ PayloadOf(e) \in SalePayloads
      BY <2>1, EntryOf DEF SyncInv, PostedIsRecorded, PayloadOf
    <2>3. CASE recorded[s] \in SalePayloads
      <3>1. PICK e \in Entries : e \in Posts(s)
        BY <2>3 DEF SyncInv, SalesArePosted, Posts, SeqOf
      <3>2. Posts(s) = {e}
        BY <2>1, <3>1 DEF SyncInv, PostedOnce
      <3> QED BY <2>2, <2>3, <3>2, FS_Singleton
    <2>4. CASE recorded[s] \notin SalePayloads
      BY <2>2, <2>4
    <2> QED BY <2>3, <2>4
  <1> QED BY <1>1, AlwaysSync, PTL

(* The stored answers stay true (syncOfflineBatch's results).              *)
THEOREM AnswersStayTrue == Spec => []AnswersAreTrue
  <1>1. SyncInv => AnswersAreTrue
    BY DEF SyncInv
  <1> QED BY <1>1, AlwaysSync, PTL
=============================================================================
