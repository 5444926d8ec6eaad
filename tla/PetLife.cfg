SPECIFICATION FairSpec
CONSTANTS
  REALM_MAX_PETS = 2
  MaxEggs = 2
  MaxChanges = 7
  MaxFaults = 1
INVARIANTS
  TypeOK
  ListsReachFlash
  PetReachesFlash
  RealmIsHistory
PROPERTY ListsSettle
CHECK_DEADLOCK FALSE
