CONSTANTS
  Sessions = {0, 1, 2}
  Entries = {1, 2}
  MaxRequests = 3
  MaxLine = 2
  Setups <- Surroundings
SPECIFICATION MobileSpec
INVARIANTS RepliesKept EachAsAsked
PROPERTIES ImplementsRequests OnlyWhatWasAsked EveryRequestAnswered EveryCommandBegun
CHECK_DEADLOCK FALSE
