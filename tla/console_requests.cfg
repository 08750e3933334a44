SPECIFICATION RequestSpec
CONSTANTS
  p1 = p1
  l1 = l1
  s1 = s1
  f1 = f1
  x1 = x1
  None = None
  Requests = {1, 2}
  Keys = {1}
  Key <- OneGroup
  Books = {1}
  Releases = {x1}
  Pages = {p1}
  Lists = {l1}
  Sheets = {s1}
  Followers = {f1}
  PageOf <- Desks
  Watchful = {2}
  MaxRefreshes = 1
CHECK_DEADLOCK FALSE
INVARIANTS
  AnnouncedIsDone
  ListForgets
PROPERTIES
  ResolvedOnce
  DoneHasContent
