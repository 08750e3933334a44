SPECIFICATION SyncSpec
CONSTANTS
  phone = phone
  tablet = tablet
  p1 = p1
  t1 = t1
  t2 = t2
  Books = {1}
  Ids = {1}
  IdBook <- OneBook
  Texts = {1, 2, 3}
  Overlong = {}
  PullPageSize = 1
  MaxFutureSkew = 2
  MaxNow = 0
  Devices = {phone, tablet}
  Engines = {p1, t1}
  EngineDevice <- OneEach
  Times = {1, 2}
  Volatile = {1}
  BatchSize = 2
  MaxPages = 2
  MaxFailures = 1
  MaxSignOuts = 0
SYMMETRY SwapDevices
INVARIANTS
  RevisionsOK
  NoEditLost
  ShowsWinner
PROPERTIES
  NewestKept
