SPECIFICATION FairSyncSpec
CONSTANTS
  phone = phone
  tablet = tablet
  p1 = p1
  t1 = t1
  t2 = t2
  Books = {1}
  Ids = {1, 2}
  IdBook <- TwoIds
  Texts = {1, 2}
  Overlong = {}
  PullPageSize = 1
  MaxFutureSkew = 2
  MaxNow = 0
  Devices = {phone, tablet}
  Engines = {p1, t1}
  EngineDevice <- OneEach
  Times = {1}
  Volatile = {}
  BatchSize = 1
  MaxPages = 1
  MaxFailures = 1
  MaxSignOuts = 0

INVARIANTS
  AnnotationTypeOK
PROPERTIES
  DevicesConverge
