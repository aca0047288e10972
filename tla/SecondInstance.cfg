SPECIFICATION Spec
CONSTANTS
  Instances = {i1, i2}
  Ups = {a}
  Peers = {p}
  Tables = {1}
  Eth = eth0
  Them = them
  None = None
INVARIANTS
  FailClosed
