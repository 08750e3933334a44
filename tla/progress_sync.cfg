SPECIFICATION SyncSpec
CONSTANTS
  phone = phone
  tablet = tablet
  p1 = p1
  p2 = p2
  t1 = t1
  nobody = nobody
  Books = {1, 2}
  Editions = {1, 2}
  EditionBook <- OneEach
  WatchedEditions = {}
  EventIds = {1, 2, 3}
  Places = {"a", "b", "c"}
  FinishedPlaces = {"c"}
  Changes <- ThreeReads
  Clients = {p1, t1, nobody}
  Batches <- ThreeBatches
  Cursors = {0, 1, 2, 3}
  MaxBatchSize = 2
  PullPageSize = 1
  MaxFutureClockSkew = 5
  MaxNow = 0
  Devices = {phone, tablet}
  Engines = {p1, t1}
  EngineDevice <- Phones
  Nobody = nobody
  BatchSize = 2
  MaxPages = 2
  AccessSets = {}
  Removals = {}
  MaxFailures = 1
  MaxSignOuts = 0
  MaxRelease = 0
SYMMETRY SwapDevices
INVARIANTS
  DeviceTypeOK
  NoQueuedWorkLost
  FreshActivityVisible
  ShowsCanonical
PROPERTIES
  CursorNeverRewinds
