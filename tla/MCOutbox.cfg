CONSTANTS
  Events = {e1}
  Endpoints = {p1, p2}
  Runners = {r1, r2}
  Undecipherable = {p2}
  Lease = 2
  Backoffs = {1}
  MaxAttempts = 2
  MaxCrashes = 1
  None = None
SPECIFICATION FairSpec
INVARIANTS
  OneRunnerPerEvent
PROPERTIES
  ConfirmedIsFinal
  ImplementsDelivery
  EveryEventSettles
CHECK_DEADLOCK FALSE
