SPECIFICATION SyncSpec
CONSTANTS
  phone = phone
  tablet = tablet
  p1 = p1
  t1 = t1
  t2 = t2
  Books = {1}
  Ids = {1}
  IdBook <- OneBook
  Texts = {1, 2, 3}
  Overlong = {1}
  PullPageSize = 1
  MaxFutureSkew = 2
  MaxNow = 1
  Devices = {tablet}
  Engines = {t1, t2}
  EngineDevice <- TwoJobs
  Times = {1, 2, 3}
  Volatile = {}
  BatchSize = 2
  MaxPages = 2
  MaxFailures = 0
  MaxSignOuts = 1
SYMMETRY SwapThreads
INVARIANTS
  NoEditLost

