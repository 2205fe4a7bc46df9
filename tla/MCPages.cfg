SPECIFICATION Spec
CONSTANTS
  MaxChanges = 2
  MaxTroubles = 1
  MaxChoices = 3
  MaxMishaps = 1
INVARIANTS
  OwnChangesShow
  ChoicesKept
CHECK_DEADLOCK FALSE
