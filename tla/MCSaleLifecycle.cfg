CONSTANTS
  Units = {u1, u2}
  NumSales = 2
  NumShifts = 1
  Conditions = {"resalable", "scrap"}
  Dispositions = {"restock", "scrap"}
  MaxDay = 2
  MaxInstallments = 2
  MaxPayments = 3
  MaxReturns = 1
  CreditLimit = 2
  MaxVariance = 1
  VarianceLimit = 0
  None = None
SPECIFICATION Spec
SYMMETRY Symmetry
CHECK_DEADLOCK FALSE
INVARIANTS
  ReversedOnce
  NeverOverCollected
  LedgerFollowsSales
  VoidedSaleIsEmpty
  BooksAgree
