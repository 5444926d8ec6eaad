SPECIFICATION DeviceSpec
CONSTANTS
  NumSlots = 3
  MaxMsgs = 8
  MaxCrashes = 2
  MaxErrors = 2

  MaxSettings = 2
  MaxReboots = 1
  MaxFaults = 1

  NoTime = NoTime
  SecsPerMin = 3
  MinsPerHour = 2
  HoursPerDay = 1
  DaysPerWeek = 2
  Weekend = {1}
  Events <- MCEvents
  NumTones = 1
  RingRepeats = 2
  RepeatSecs = 2
  LastDay = 1
  MaxClockSets = 1
  MaxPresses = 4
  MaxBoots = 1

  NoHour = NoHour
  EventSlots = {1, 2, 3}
  Files <- MCFiles
  HoursADay = 4
  TzHours = 1
  HoursVisible = 2
  MorningHour = 1
  RowsVisible = 1
  WeekLength = 2
  FirstDay = 0
  LatestDay = 2
  AheadHours = 1
  MaxHours = 2
  MaxQuick = 1
  MaxButtons = 5

  k1 = k1
  k2 = k2
  k3 = k3
  ContactKeys = {k1, k2, k3}
  NodeType <- MCNodeType
  InitialStores <- MCStores
  NoContact = NoContact
  StoreSlots = 2
  CacheCap = 2
  ObsCap = 2
  DiscCap = 2
  EditCap = 1
  VisibleRows = 1
  MaxHeard = 2
  MaxChanges = 1
  MaxKeyPresses = 4
  MaxFailures = 1

  SlotPages = 3
  ImageLen = 2
  CopyIdleTicks = 1
  MaxRequests = 7
  MaxPowerUps = 2

  Bits = {1, 2}
  Sectors = 2
  PerSector = 2
  BootData = {1}
  FatData = {2}
  DirData = {}
  MaxWrites = 2
  MaxMounts = 2

  LastCluster = 3
  ClusterBytes = 2
  MaxSize = 5
  MaxLinks = 1

  Capacity = 2
  OldCapacities = {1, 4}
  NumBuckets = 2
  BucketOf <- MCBucketOf
  MaxStarts = 3
  MaxKvErrors = 1
CHECK_DEADLOCK FALSE
INVARIANTS
  
  ChangesReachFlash
  AlarmsAreSound
  ScreenFollowsStore
PROPERTIES
  ImplementsFifo
  PopMissesOnlyInRace
  RingsOnTime
  DaysAreShown
