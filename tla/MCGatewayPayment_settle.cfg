SPECIFICATION FairSpec
CONSTANTS
  Handlers = {h1, h2}
  Keys = {k1, k2}
  Payments = {p1}
  Settled = {}
  Txns = {t1, t2}
  Amount = 1
  HasPolicies = FALSE
  MaxCrashes = 1
  NoRow = NoRow
  NoTxn = NoTxn
  NoPayment = NoPayment
INVARIANTS
  CompletedIsPaid
PROPERTY
  AnswerIsApplied
CHECK_DEADLOCK FALSE
