SPECIFICATION FairSyncSpec
CONSTANTS
  phone = phone
  tablet = tablet
  p1 = p1
  p2 = p2
  t1 = t1
  nobody = nobody
  Books = {1, 2}
  Editions = {1, 2, 3}
  EditionBook <- TwoBooks
  WatchedEditions = {2}
  EventIds = {1, 2, 3}
  Places = {"a", "b", "c"}
  FinishedPlaces = {"c"}
  Changes <- EarlyReads
  Clients = {p1, nobody}
  Batches <- EarlyBatches
  Cursors = {0, 1, 2, 3}
  MaxBatchSize = 2
  PullPageSize = 1
  MaxFutureClockSkew = 5
  MaxNow = 1
  Devices = {phone}
  Engines = {p1}
  EngineDevice <- OneThread
  Nobody = nobody
  BatchSize = 2
  MaxPages = 2
  AccessSets = {{2}}
  Removals = {}
  MaxFailures = 1
  MaxSignOuts = 0
  MaxRelease = 1
PROPERTIES
  OutboxDrains
  DevicesCatchUp
