SPECIFICATION Spec
CONSTANTS
  a = a
  b = b
  s1 = s1
  s2 = s2
  x = x
  y = y
  None = None
  Ups = {a, b}
  Ips = {i1}
  Keys = {k1, k2}
  Profiles = {x}
  Sources = {s1, s2}
  Configs <- ThreeConfigs
  Cap = 1
  MaxFaults = 2
  FaultKinds = {"unroute", "route", "alive", "reload", "open", "device", "list"}
SYMMETRY Symmetry
INVARIANTS
  OneOwnerPerAddress
  NothingOutlivesItsPeer
  SettledIsAdmitted
  StoredPeerKeepsItsTunnel
  PinsAreAliveOrRetried
  CleanReconcileConverges
PROPERTIES
  ReportsAGateway
