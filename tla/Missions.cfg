CONSTANTS
  MaxPoints = 2
  Setups <- AllUses
SPECIFICATION Spec
INVARIANTS TableHolds FlownIsUploaded ObjectsAgree ExampleFlies
CHECK_DEADLOCK FALSE
