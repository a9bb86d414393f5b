CONSTANTS
  MaxRunning = 2
  MaxSent = 9
  Setups <- AllSessions
SPECIFICATION Spec
INVARIANTS BelievesTruly DecodesRight FrequenciesRestored NoControlLeft
PROPERTIES SessionEnds
CHECK_DEADLOCK FALSE
