CONSTANTS
  Periods = {p1}
  Assets = {a1}
  Payrolls = {r1}
  Expenses = {x1}
  Reviewers = {v1}
  Amounts = {23}
  AccountTransfers = {t1}
  GiftCards = {g1}
  Advances = {d1}
  Deliveries = {o1}
  Fees = {8}
  MaxEntries = 2
  None = None
  s1 = s1
  s2 = s2
  u1 = u1
  SystemLines = {s1, s2}
  StatementLines = {u1}
  Value <- AmountOf
  Day <- DateOf
  Variances = {0, 30}
SPECIFICATION ReconciliationSpec
INVARIANTS
  BooksFollowDocuments
  AutoPairsHold
