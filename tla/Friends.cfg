SPECIFICATION CompanySpec
CONSTANTS
  a = a
  b = b
  s = s
  t = t
  Badges = {a, b}
  Strangers = {s, t}
  Hears <- MCHears
  Saves <- MCSaves
  Players = {a}
  Snaps = {"fit"}
  Outcomes <- MCOutcomes
  FRIENDS_MAX = 2
  SEEN = 2
  FRIEND_BOOST_COOLDOWN_TICKS = 2
  MaxPackets = 3
  MaxTime = 2
  MaxUpsets = 1
  INITIAL_ROWS <- MCRows
  Toggles = {1, 2}
  MaxToggles = 1
  BOARD_W = 3
  BOARD_H = 3
  Gems = {1, 2}
  MOVES_LIMIT = 2
  MAX_CASCADE_ITERS = 1
  HOLE_ROWS = 3
INVARIANTS NewestFirst TalliesAgree GamesAreSound
PROPERTY BoostsApart
CHECK_DEADLOCK FALSE
