CONSTANTS
  Warehouses = {w1}
  Products = {p1}
  Users = {u1, u2}
  Transfers = {}
  Counts = {c1}
  Adjustments = {a1}
  Approvals = {r1, r2}
  Requesters = {}
  Policies = {"block", "warn"}
  StrictLines = {p1}
  MaxLine = 1
  MaxStock = 2
  None = None
SPECIFICATION Spec
SYMMETRY Symmetry
INVARIANTS
  VariancesApproved
  AdjustmentApproved
