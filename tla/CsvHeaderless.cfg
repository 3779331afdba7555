SPECIFICATION Spec
CONSTANTS
  Columns <- MCColumns
  Values <- MCValues
  Empty = ""
  Wide <- MCWide
  Junk = "junk"
  Garbled = "garbled"
  Batches <- MCBatches
  MaxFlushes = 3
INVARIANTS ReplayRecovers
CHECK_DEADLOCK FALSE
