SPECIFICATION FairSpec
CONSTANTS
  MaxImages = 3
  MaxHeaders = 1
  NoImage = NoImage
  Lists <- MCLists
  Size <- MCSize
  BaseName <- MCBaseName
  Options <- MCOptions
INVARIANTS NamesUnique TakenInOrder HeadersTraced 
PROPERTIES RunEnds
