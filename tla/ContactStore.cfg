CONSTANTS
  k1 = k1
  k2 = k2
  k3 = k3
  h1 = h1
  h2 = h2
  Keys = {k1, k2, k3}
  Hashes = {h1, h2}
  HashOf <- TwoBuckets
  Times = {0, 1}
  NoPath = noPath
  Paths = {noPath}
  NSlots = 2
  BucketCap = 1
  Mesh = mesh
  Ble = ble
  Ui = ui
  Persister = persister
  None = none
  Free = free
  MaxCalls = 3
  MaxCrashes = 1
  MaxErrors = 1
SPECIFICATION Spec
\* calls are bounded and the callers may stop
CHECK_DEADLOCK FALSE
INVARIANTS
  TypeOK
  NoLostUpdate
  NoDangling
  Consistent
  RoomGuaranteed
PROPERTIES
  FavouritesLast
  ClearAllClears
