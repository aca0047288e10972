SPECIFICATION Spec
CONSTANTS
  Ups = {a, b, c}
  Ips = {p}
  Flows = {f, g}
  None = None
  MaxFaults = 2
  Source <- OneClient
SYMMETRY Interchangeable
INVARIANTS
  FlowsStick
PROPERTIES
  MakeBeforeBreak
  CallsAreAtomic
