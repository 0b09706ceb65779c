SPECIFICATION FairSpec
CONSTANTS
  t1 = t1
  t2 = t2
  MaxRows = 4
  Days <- OneOrTwoDays
  PerPages = {1, 2}
  Tabs = {t1, t2}
  Limit = 2
INVARIANTS Inv WalkMissesAreBounded QuietWalkIsExact
PROPERTIES MarkAllLeavesLaterOrOlder EveryNotificationIsRead
CHECK_DEADLOCK FALSE
