SPECIFICATION Spec
CONSTANTS
  Procs = {p1, p2, p3}
  Users = {u1}
  Devices = {default, phone}
  Profiles = {f}
  Default = default
  Hosts = {2, 3}
  Legacy = legacy
  None = None
INVARIANTS
  IdentityAgrees
  LegacyBackedUp
  RowsHaveUsers
PROPERTIES
  ExistsIsTrue
  PeersOnlyRemoved
CHECK_DEADLOCK FALSE
