CONSTANTS
  Callers = {"app"}
  AutoSessions = {2}
  Slots = {1, 2}
  SeqMod = 8
  RetryMod = 4
  Modes = {0, 1, 2}
  Retries = {2, 4}
  KeyMissing = TRUE
  MaxCmds = 3
  MaxInFlight = 2
  MaxTx = 2
  Setups <- Lossy
SPECIFICATION Spec
INVARIANTS SessionsIntact RightHandler
PROPERTIES ImplementsService
CHECK_DEADLOCK FALSE
