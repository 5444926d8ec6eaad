SPECIFICATION FairSpec
CONSTANTS
  NumSlots = 2
  MaxMsgs = 0
  MaxCrashes = 0
  MaxErrors = 0
  OutboxCap = 4
  MaxContacts = 3
  Commands = {"contacts"}
  MaxCommands = 1
  MaxEvents = 0
  MaxLosses = 0
  MaxNotifyErrors = 0
  MaxChanges = 1
CHECK_DEADLOCK FALSE
PROPERTY StreamEnds
