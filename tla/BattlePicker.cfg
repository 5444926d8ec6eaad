SPECIFICATION PickerSpec
CONSTANTS
  a = a
  b = b
  s = s
  t = t
  Badges = {a, b}
  Strangers = {s, t}
  Hears <- MCHears
  Saves <- MCSaves
  Players = {a}
  Snaps = {"fit"}
  Outcomes <- MCOutcomes
  FRIENDS_MAX = 2
  SEEN = 2
  FRIEND_BOOST_COOLDOWN_TICKS = 2
  MaxPackets = 3
  MaxTime = 2
  MaxUpsets = 0
PROPERTY HighlightedIsChallenged
CHECK_DEADLOCK FALSE
