CONSTANTS
  Warehouses = {w1, w2}
  Products = {p1}
  Users = {u1}
  Transfers = {t1}
  Counts = {c1, c2}
  Adjustments = {}
  Approvals = {}
  Requesters = {}
  Policies = {"block", "warn"}
  StrictLines = {}
  MaxLine = 1
  MaxStock = 1
  None = None
SPECIFICATION Spec
SYMMETRY Symmetry
INVARIANTS
  SnapshotIsCurrent
PROPERTIES
  PostedAsCounted
