SPECIFICATION FairSpec
CONSTANTS
  a = a
  b = b
  s1 = s1
  s2 = s2
  x = x
  y = y
  None = None
  Ups = {b}
  Ips = {i1}
  Keys = {k1, k2}
  Profiles = {y}
  Sources = {s1, s2}
  Configs <- AddedConfigs
  Cap = 1
  MaxFaults = 1
  FaultKinds = {"unroute", "route", "device", "reload"}
INVARIANTS
  IInv
PROPERTIES
  RevokedPeerLosesTunnel
  CleanupFinishes
  
