SPECIFICATION Spec
CONSTANTS
  Word = 64
  BufSize = 3
  MaxOpen = 1
  OrganizeMax = 2
  SearchSpec <- MCSpec
  Images <- PlanImages
  Options <- PlanOptions
INVARIANTS PlannedIsIdeal
PROPERTIES KeepsPromise
