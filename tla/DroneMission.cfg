CONSTANTS
  TakeoffCycles = 1
  LiftoffCycles = 1
  SettleCycles = 1
  StartCycles = 1
  NFds = 8
  Steps = 2
  Setups <- OldFirmware
SPECIFICATION MissionSpec
INVARIANTS AttemptsApart OwnDescriptors FliesOnPress
PROPERTIES AttemptEnds
