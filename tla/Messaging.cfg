SPECIFICATION MessagingSpec
CONSTANTS
  NumSlots = 3
  MaxMsgs = 2
  MaxCrashes = 1
  MaxErrors = 1
  OutboxCap = 3
  MaxContacts = 1
  Commands = {"other"}
  MaxCommands = 0
  MaxEvents = 3
  MaxLosses = 1
  MaxNotifyErrors = 1
  MaxChanges = 0

  PmPeers = {p1, p2}
  MaxEntries = 2
  ReadCursorsCap = 2
  VisibleRows = 1
  ThreadLines = 1
  AckWindow = 1
  TxQueueCap = 2
  MaxPms = 3
  MaxSeconds = 3
  MaxTxErrors = 1

  Nodes = {n1, n2}
  Known = {n1}
  TxCap = 1
  ResultCap = 1
  RequestTimeout = 0
  MaxRequests = 2
  MaxAnswers = 2
  MaxTicks = 2

  NumChannels = 2
  Defaults <- MCDefaults
  ShdwSlot = 1
  AppNames = {"mine"}
  SeenCap = 2
  RingSize = 2
  ChanTxCap = 1
  MaxRepeats = 1
  BodyLines = 4
  ListRows = 1
  LinesOfMsg <- MCLines
  MaxSets = 1
  MaxChanMsgs = 2
  MaxHeard = 2
  MaxCuts = 1

  NoRegion = NoRegion
  Badges <- MCBadges
  Links <- MCLinks
  Repeaters <- MCBadges
  RegionOf <- MCRegion
  TelemMode <- MCTelemMode
  Flagged <- MCFlagged
  Contacts <- MCContacts
  KnownRoutes <- MCRoutes
  RelayCap = 3
  FloodTxCap = 2
  MaxHops = 2
  MaxPackets = 2

  NoClock = NoClock
  Errors <- MCErrors
  Tolerance = 1
  MaxDelta = 5
  SecondsPerHop = 1
  FloodHops = {0, 1}
  DirectByte = 4
  Samples = 3
  MaxHeardTimes = 5

  MaxText = 2
  SpecialSize = 11
  NumberSize = 10
  NoEntry = NoEntry
  EventRows = 1
  Presets = 2
  AboutPages = 2
  MaxHatches = 2
  MaxPulls = 2
CHECK_DEADLOCK FALSE
INVARIANTS
  HeardInOrder
  
  OneResultPerRequest
  
  FloodsAreSound
  UiIsSound
PROPERTIES
  MessageNotDisplaced
  
