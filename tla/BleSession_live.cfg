SPECIFICATION FairSpec
CONSTANTS
  NumSlots = 2
  MaxMsgs = 1
  MaxCrashes = 1
  MaxErrors = 0
  OutboxCap = 5
  MaxContacts = 2
  Commands = {"contacts","add"}
  MaxCommands = 1
  MaxEvents = 1
  MaxLosses = 1
  MaxNotifyErrors = 0
  MaxChanges = 1
CHECK_DEADLOCK FALSE
PROPERTIES
  Announced
  StreamComplete
