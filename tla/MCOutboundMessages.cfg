CONSTANTS
  c1 = c1
  i1 = i1
  k1 = k1
  Workers = {w1, w2}
  Reminders = {r1}
  Manuals = {m1, m2}
  Bulks = {b1}
  Marketing = {s1}
  Campaigns = {k1}
  InstallmentOf <- OneInstallment
  CampaignOf <- OneCampaign
  CustomerOf <- OneCustomer
  CustomerLimit = 1
  CompanyLimit = 2
  MaxRetries = 1
  MaxMessages = 2
  None = None
SPECIFICATION FairSpec
INVARIANTS
  SentAtMostOnce
  WithinDailyLimits
  OnceADay
  CompletedIsQuiet
PROPERTIES
  OnlyForward
  EveryMessageSettles
CHECK_DEADLOCK FALSE
