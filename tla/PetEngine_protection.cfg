SPECIFICATION Spec
CONSTANTS
  T <- MCThresholds
  Foods <- MCFoods
  Drinks <- MCDrinks
  MiniGames = {"nim"}
  Traits <- MCTraits
  Saves <- MCSaves
  Gaps = {1, 720}
  MaxSteps = 3
INVARIANT ProtectionWindowHolds
CHECK_DEADLOCK FALSE
