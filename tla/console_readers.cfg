SPECIFICATION ReadersSpec
CONSTANTS
  ada = ada
  bob = bob
  rita = rita
  c1 = c1
  c2 = c2
  None = None
  Accounts = {ada, bob, rita}
  Admins = {ada, bob}
  Me = ada
  Connections = {1}
  Calls = {c1, c2}
  MaxActs = 3
  MaxPasswords = 1
SYMMETRY Interchangeable
CHECK_DEADLOCK FALSE
INVARIANTS
  AdminRemains
  ConnectionsCurrent
  RowsFollow
