SPECIFICATION ParquetSpec
CONSTANTS
  missing = missing
  nan = nan
  Columns <- MCColumns
  Values <- MCValues
  Missing = missing
  Empty = ""
  Hash <- MCHash
  Parse <- MCParse
  NaN = nan
  Scale = 2
  Layouts <- MCLayouts
  TableRows <- MCTableRows
  ExactSets <- MCExactSets
  Bounds <- MCBounds
  RangeColumns <- OnFare
  MinF <- MCMinF
  MaxF <- MCMaxF
  Schemas <- MCSchemas
  Canon <- MCCanon
  Rank <- MCRank
  Dotted <- MCDotted
  GroupSize = 2
  MaxRows = 3
INVARIANTS ParquetTypeOK SegmentsWhole AnswerExact CountExactAgrees CountNeverUnder
