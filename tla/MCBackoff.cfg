SPECIFICATION LiveSpec
CONSTANTS
  o = o
  g1 = g1
  g2 = g2
  Sessions = {o, g1, g2}
  Owner = o
  Free = 1
  Base = 1
  MaxDelay = 2
  Window = 3
  MaxAttempts = 2
  MaxFails = 3
INVARIANTS
  OneCheck
  TableMatches
PROPERTIES
  OwnerGetsIn
