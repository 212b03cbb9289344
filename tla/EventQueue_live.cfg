SPECIFICATION FairSpec
CONSTANTS
  d1 = d1
  d2 = d2
  d3 = d3
  d4 = d4
  k1 = k1
  k2 = k2
  None = None
  Delivery = {d1, d2, d4}
  Key = {k1, k2}
  KeyOf <- Issues
  Manual = {d2}
  StopCommand = {d4}
  MaxRetries = 1
  Slots = 1
  EnvBudget = 1
  ClaimMayFail = FALSE
PROPERTIES EveryPendingRuns EveryDeliverySettles CancelLands
CHECK_DEADLOCK FALSE
