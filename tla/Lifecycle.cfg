SPECIFICATION Spec
CONSTANTS
  Instances = {i1}
  Ups = {a, b}
  Peers = {p}
  Tables = {1, 2}
  Eth = eth0
  Them = them
  None = None
INVARIANTS
  FailClosed
  AdmittedAsCached
  TablesAreOwn
PROPERTIES
  ForeignKept
  CleanExit
