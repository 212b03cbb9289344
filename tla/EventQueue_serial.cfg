SPECIFICATION Spec
CONSTANTS
  d1 = d1
  d2 = d2
  d3 = d3
  d4 = d4
  k1 = k1
  k2 = k2
  None = None
  Delivery = {d1, d2, d3}
  Key = {k1, k2}
  KeyOf <- Issues
  Manual = {d2}
  StopCommand = {}
  MaxRetries = 1
  Slots = 1
  EnvBudget = 1
  ClaimMayFail = TRUE
INVARIANTS TypeOK OneRunPerKey AgentsWithinSlots
PROPERTY Implements
CHECK_DEADLOCK FALSE
