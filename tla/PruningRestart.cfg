SPECIFICATION Spec
CONSTANTS
  missing = missing
  nan = nan
  Columns <- RestartColumns
  Values <- MCValues
  Missing = missing
  Empty = ""
  Hash <- MCHash
  Parse <- MCParse
  NaN = nan
  Scale = 2
  Layouts <- RestartLayouts
  TableRows <- RestartRows
  ExactSets <- RestartSets
  Bounds <- MCBounds
  RangeColumns = {}
  MinF <- MCMinF
  MaxF <- MCMaxF
INVARIANTS NoFalseNegatives
