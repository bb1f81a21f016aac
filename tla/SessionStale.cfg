SPECIFICATION Spec
CONSTANTS
  MaxImages = 2
  MaxHeaders = 1
  NoImage = NoImage
  Lists <- MCLists
  Size <- MCSize
  BaseName <- MCBaseName
  Options <- MCOptions
INVARIANTS OwnHeadersOnly
