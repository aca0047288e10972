SPECIFICATION FairSpec
CONSTANTS
  None = None
  Instances = {i1, i2}
  Keys = {k}
  Overlap = FALSE
INVARIANTS
  NudgeFindsDaemon
PROPERTIES
  NudgeIsServed
  ShutdownFinishes
