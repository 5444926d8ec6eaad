CONSTANTS
  k1 = k1
  k2 = k2
  k3 = k3
  h1 = h1
  h2 = h2
  Keys = {k1}
  Hashes = {h1}
  HashOf <- OneBucket
  Times = {0, 1}
  NoPath = noPath
  Paths = {noPath}
  NSlots = 1
  BucketCap = 1
  Mesh = mesh
  Ble = ble
  Ui = ui
  Persister = persister
  None = none
  Free = free
  MaxCalls = 3
  MaxCrashes = 0
  MaxErrors = 0
SPECIFICATION Spec
\* calls are bounded and the callers may stop
CHECK_DEADLOCK FALSE
PROPERTY SyncMonotone
