SPECIFICATION FairSpec
CONSTANTS
  a = a
  b = b
  s = s
  V4 = {a, b}
  V6 = {s}
  Name = Name
  None = None
  Slots = 2
  MaxFaults = 1
  Files <- Boundary
INVARIANTS
  DatagramsFit
PROPERTIES
  FollowsProvider
CHECK_DEADLOCK FALSE
