SPECIFICATION Spec
CONSTANTS
  T <- MCThresholds
  Foods <- MCFoods
  Drinks <- MCDrinks
  MiniGames = {"nim"}
  Traits <- MCTraits
  Saves <- MCSaves
  Gaps = {1, 720}
  MaxSteps = 3
INVARIANTS
  LeavesOnlyWhenDue
  LookingChangesNothing
  WakesInTime
  BrokeCanAlwaysWork
  OneRewardPerCooldown
PROPERTIES
  FrozenStaysFrozen
CHECK_DEADLOCK FALSE
