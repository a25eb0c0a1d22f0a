SPECIFICATION LiveSpec
CONSTANTS
  c1 = c1
  c2 = c2
  alice = alice
  bob = bob
  o1 = o1
  None = None
  Conns = {c1, c2}
  Persons = {alice, bob}
  PersonOf <- MCPersonOf
  Ops = {o1}
  MaxId = 2
INVARIANTS
  LockedOrSlipped
  NoStrayHangup
PROPERTIES
  LockedLeaves
CHECK_DEADLOCK FALSE
