SPECIFICATION SyncSpec
CONSTANTS
  phone = phone
  tablet = tablet
  p1 = p1
  p2 = p2
  t1 = t1
  nobody = nobody
  Books = {1, 2}
  Editions = {1, 2, 3}
  EditionBook <- TwoBooks
  WatchedEditions = {2}
  EventIds = {1, 2, 3}
  Places = {"a", "b", "c"}
  FinishedPlaces = {"c"}
  Changes <- HardReads
  Clients = {p1, p2, nobody}
  Batches <- HardBatches
  Cursors = {0, 1, 2, 3}
  MaxBatchSize = 2
  PullPageSize = 1
  MaxFutureClockSkew = 5
  MaxNow = 0
  Devices = {phone}
  Engines = {p1, p2}
  EngineDevice <- TwoThreads
  Nobody = nobody
  BatchSize = 2
  MaxPages = 2
  AccessSets = {}
  Removals = {{2}}
  MaxFailures = 0
  MaxSignOuts = 1
  MaxRelease = 0
SYMMETRY SwapThreads
INVARIANTS
  FreshActivityVisible
  
