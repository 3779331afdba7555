SPECIFICATION Spec
CONSTANTS
  missing = missing
  nan = nan
  Columns <- MCColumns
  Values <- MCValues
  Missing = missing
  Empty = ""
  Hash <- MCHash
  Parse <- MCParse
  NaN = nan
  Scale = 2
  Layouts <- MarsOnly
  TableRows <- MCTableRows
  ExactSets <- MCExactSets
  Bounds <- MCBounds
  RangeColumns <- FareOnly
  MinF <- MCMinF
  MaxF <- MCMaxF
INVARIANTS TypeOK NoFalseNegatives NearOptimal
PROPERTIES BoundsOnlyNarrow
