SPECIFICATION Spec
CONSTANTS
  BufSize = 4
  ByteBits = 2
  MaxBlocks = 6
  MaxRuns = 2
  MaxAudits = 1
  NoFile = NoFile
  Sizes = {10, 11, 12}
  Maps <- MCMaps
  Options <- MCOptions
  Files <- MCFiles
INVARIANTS ReadsMeantBytes AllFreeSeen PlacesExact BlockmapCounts
PROPERTIES DigAdvances
