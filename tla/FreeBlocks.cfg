SPECIFICATION FairSpec
CONSTANTS
  Disks <- MCDisks
  Tools = {"live", "offline"}
  MaxChanges = 2
INVARIANTS QuietListed RawFaithful RawComplete
PROPERTIES ExtractEnds
