SPECIFICATION FairSpec
CONSTANTS
  r1 = r1  r2 = r2  r3 = r3
  s1 = s1  s2 = s2
  b1 = b1  b2 = b2
  Rows <- MCRows
  Segments <- MCSegments
  Bits <- MCBits
  SegOf <- MCSegOf
  BitOf <- MCBitOf
  NonFinite <- MCNonFinite
  WalLog = "wal.log"
  Threshold = 2
  Format = "Parquet"
  OneShot = FALSE
  MaxOpens = 2
PROPERTIES CoverageStays CallsReturn
CHECK_DEADLOCK FALSE
