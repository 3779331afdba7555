SPECIFICATION FairSpec
CONSTANTS
  l1 = l1  l2 = l2  l3 = l3
  q1 = q1  f1 = f1
  x1 = x1  x2 = x2
  Rows <- MCRows
  Loads <- ThreeLoads
  LoadRows <- ThreeLoadRows
  Malformed = {l2}
  Unroutable = {l3}
  Queries <- OneQuery
  Flights <- OneFlight
  Target <- MCTarget
  Config <- MCConfig
  Impatient = {l1, q1}
  SerialLoads = TRUE
  MaxCrashes = 1
INVARIANTS TypeOK ReadYourWrites CacheNeverAhead AnsweredLoadsStored
PROPERTIES AllAnswered VisibleStays
CHECK_DEADLOCK FALSE
