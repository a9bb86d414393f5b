CONSTANTS
  Callers = {"app"}
  AutoSessions = {2, 3}
  Slots = {1, 2}
  SeqMod = 16
  RetryMod = 32
  Modes = {0, 2}
  Retries = {2}
  KeyMissing = FALSE
  MaxCmds = 4
  MaxInFlight = 2
  MaxTx = 4
  Setups <- NoLateAcks
SPECIFICATION Spec
INVARIANTS SentAsAsked
PROPERTIES EveryCommandEnds
CHECK_DEADLOCK FALSE
