CONSTANTS
  Processes = {p1, p2}
  Callers = {c1, c2}
  Entries <- MCEntries
  BlockSize = 2
  MaxFaults = 1
  None = None
  Posted = Posted
  Requests = {r1, r2}
  r1 = r1
  r2 = r2
  Keys = {k1, k2}
  k1 = k1
  k2 = k2
  Key <- MCKey
  Batch <- MCBatch
  SeqNumbers = {1, 2, 3}
  Payloads = {saleA, saleB, draft, shift}
  saleA = saleA
  saleB = saleB
  draft = draft
  shift = shift
  SalePayloads = {saleA, saleB}
  ShiftPayloads = {shift}
SPECIFICATION FairSpec
INVARIANTS
  NumberedOnce
  AppliedOnce
  AnswersAreTrue
PROPERTIES
  EveryBatchEnds
CHECK_DEADLOCK FALSE
