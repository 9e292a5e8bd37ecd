SPECIFICATION QuerySpec
CONSTANTS
  Tabs = {t1}
  Sids = {s1, s2}
  None = None
  Updates = 1
  Inserts = 1
  MaxLosses = 1
  MaxRuns = 2
INVARIANTS
  QueryTypeOK
  SessionHasItsTab
  SaveTellsTheTruth
  InsertedOnce
  OpenTransactionIsShown
CHECK_DEADLOCK FALSE
PROPERTIES
  ClosedTabFreesItsConnection
