CONSTANTS
  TakeoffCycles = 2
  LiftoffCycles = 2
  SettleCycles = 4
  StartCycles = 2
  LoopCycles = 3
  SpeedFactor = 2
  Threshold = 0
  Drift = 1
  Side = 3
  Setups <- BothFirmwares
  Offsets <- FewOffsets
SPECIFICATION SetpointSpec
INVARIANTS TakeoffTruth FirstLandingWaits SteersWell
PROPERTIES CallsReturn
