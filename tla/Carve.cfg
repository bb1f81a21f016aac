SPECIFICATION FairSpec
CONSTANTS
  Word = 64
  BufSize = 3
  MaxOpen = 1
  OrganizeMax = 2
  SearchSpec <- MCSpec
  Images <- CarveImages
  Options <- CarveOptions
INVARIANTS TypeOK CarvedBytes AuditedWhole OpenBound SubdirBound EndsWell WorkFiled
PROPERTIES AuditedIsFinal StartedResolved
