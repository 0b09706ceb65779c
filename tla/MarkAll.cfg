SPECIFICATION Spec
CONSTANTS
  t1 = t1
  t2 = t2
  MaxRows = 2
  Days <- OneOrTwoDays
  PerPages = {1}
  Tabs = {t1}
  Limit = 1
PROPERTIES MarkAllReadsAll
CHECK_DEADLOCK FALSE
