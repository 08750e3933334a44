SPECIFICATION StoreSpec
CONSTANTS
  Books = {1, 2}
  Editions = {1, 2, 3}
  EditionBook <- MCBookOf
  WatchedEditions = {2, 3}
  EventIds = {1, 2, 3, 4, 5, 6, 7}
  Places = {"mid", "end"}
  FinishedPlaces = {"end"}
  Changes <- MCChanges
  Clients = {"a"}
  Batches <- MCBatches
  Cursors = {0, 2}
  MaxBatchSize = 2
  PullPageSize = 2
  MaxFutureClockSkew = 1
  MaxNow = 1
INVARIANTS
  TypeOK
  KeysOK
  CanonicalIsLogged
  
  FinishedMatchesCanonical
  AcksAreDurable
PROPERTIES
  CanonicalNeverRegresses
  LogIsAppendOnly
  ImplementsRegister
