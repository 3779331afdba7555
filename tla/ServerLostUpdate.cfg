SPECIFICATION Spec
CONSTANTS
  l1 = l1  l2 = l2  l3 = l3
  q1 = q1  f1 = f1
  x1 = x1  x2 = x2
  Rows <- MCRows
  Loads <- ThreeLoads
  LoadRows <- RacingLoadRows
  Malformed = {}
  Unroutable = {}
  Queries <- OneQuery
  Flights = {}
  Target <- OneTarget
  Config <- MCConfig
  Impatient = {}
  SerialLoads = FALSE
  MaxCrashes = 0
INVARIANTS ReadYourWrites
CHECK_DEADLOCK FALSE
