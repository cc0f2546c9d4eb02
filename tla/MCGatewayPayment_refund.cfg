SPECIFICATION Spec
CONSTANTS
  Handlers = {h1, h2, h3}
  Keys = {k1, k2, k3}
  Payments = {p1, p2}
  Settled = {p1, p2}
  Txns = {}
  Amount = 2
  HasPolicies = TRUE
  MaxCrashes = 2
  NoRow = NoRow
  NoTxn = NoTxn
  NoPayment = NoPayment
SYMMETRY Symmetry
INVARIANTS
  RefundOncePerKey
  NoOverRefund
  CashOutOnce
  ClaimStands
CHECK_DEADLOCK FALSE
