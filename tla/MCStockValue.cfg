CONSTANTS
  Warehouses = {w1, w2}
  w1 = w1
  w2 = w2
  Purchases = {p1, p2}
  p1 = p1
  p2 = p2
  Sales = {s1}
  Transfers = {t1}
  Site <- MCSite
  Ordered <- MCOrdered
  Price <- MCPrice
  Costs = {3}
  Cent = 4
  Grain = 2
  MaxQty = 3
  MaxMoves = 4
SPECIFICATION ValueSpec
INVARIANTS
  ValueLedger
  
CHECK_DEADLOCK FALSE
