SPECIFICATION Spec
CONSTANTS
  REALM_MAX_PETS = 1
  MaxEggs = 1
  MaxChanges = 3
  MaxFaults = 0
INVARIANT EarnedIsFlagged
CHECK_DEADLOCK FALSE
