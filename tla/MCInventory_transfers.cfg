CONSTANTS
  Warehouses = {w1, w2}
  Products = {p1}
  Users = {u1}
  Transfers = {t1, t2}
  Counts = {}
  Adjustments = {}
  Approvals = {}
  Requesters = {}
  Policies = {"block", "warn"}
  StrictLines = {}
  MaxLine = 2
  MaxStock = 2
  None = None
SPECIFICATION Spec
SYMMETRY Symmetry
INVARIANTS
  ReservationProjection
  TransitProjection
  ReservedIsOnHand
PROPERTIES
  ImplementsCustody
