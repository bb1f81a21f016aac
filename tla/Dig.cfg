SPECIFICATION FairSpec
CONSTANTS
  Byte <- Bytes
  BufSize = 4
  MaxSize = 7
  SearchSpec <- MCSpec
  Images <- MCImages
  Options <- MCOptions
INVARIANTS TypeOK HeadersFound UsefulFootersFound
PROPERTIES SearchEnds
