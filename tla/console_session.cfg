SPECIFICATION SessionSpec
CONSTANTS
  t1 = t1
  t2 = t2
  c1 = c1
  c2 = c2
  r1 = r1
  r2 = r2
  ada = ada
  bob = bob
  None = None
  Tabs = {t1, t2}
  Calls = {c1, c2}
  Accounts = {ada, bob}
  Admins = {ada}
  Rows = {r1, r2}
  MaxPairs = 2
  MaxLosses = 1
  MaxReloads = 1
SYMMETRY Interchangeable
CHECK_DEADLOCK FALSE
INVARIANTS
  ExchangedOnce
  CarriedOutOnce
PROPERTIES
  PresentedOnce
