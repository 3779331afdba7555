SPECIFICATION Spec
CONSTANTS
  s1 = s1  s2 = s2
  noNumber = noNumber  notFinite = notFinite  absent = absent
  Segments <- MCSegments
  Cells <- MCCells
  Absent = absent
  Number <- MCNumber
  NoNumber = noNumber
  NotFinite = notFinite
  MaxF = 8
  MaxRows = 4
INVARIANTS TypeOK AggregatesExact ResultWhenPresent
CHECK_DEADLOCK FALSE
