CONSTANTS
  Callers = {"main", "mobile"}
  MaxCmds = 3
  Setups <- AllUses
SPECIFICATION Spec
PROPERTIES AnswerIsNew OwnAnswer CallbackUndisturbed EveryoneReturns
CHECK_DEADLOCK FALSE
