SPECIFICATION Spec
CONSTANTS
  Cap = 3
  MaxLog = 5
INVARIANTS
  StreakDecides
PROPERTIES
  MovesOnlyOnStreak
