SPECIFICATION FairSpec
CONSTANTS
  a = a
  b = b
  s1 = s1
  s2 = s2
  x = x
  y = y
  None = None
  Ups = {a, b}
  Ips = {i1}
  Keys = {k1}
  Profiles = {x}
  Sources = {s1, s2}
  Configs <- TwoConfigs
  Cap = 1
  MaxFaults = 1
  FaultKinds = {"alive", "unroute", "open", "device"}
PROPERTIES
  DeadUpstreamLosesPins
  ActsAsAGateway
  ServedWhileHealthy
