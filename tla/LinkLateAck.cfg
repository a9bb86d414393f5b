CONSTANTS
  Callers = {"app"}
  AutoSessions = {2}
  Slots = {1}
  SeqMod = 8
  RetryMod = 32
  Modes = {2}
  Retries = {1}
  KeyMissing = FALSE
  MaxCmds = 3
  MaxInFlight = 2
  MaxTx = 4
  Setups <- Perfect
SPECIFICATION Spec
PROPERTIES MutexReleased
CHECK_DEADLOCK FALSE
