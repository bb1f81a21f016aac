SPECIFICATION Spec
CONSTANTS
  MaxWords = 4
  MaxLines = 3
  MaxNeedle = 3
  MaxText = 4
  MaxFileTypes = 2
  NoPath = NoPath
  Alphabet <- MCAlphabet
  Texts <- MCTexts
  Paths <- MCPaths
  Parent <- MCParent
  Strtoull <- MCStrtoull
  Words <- MCWords
  Scenarios <- MCScenarios
INVARIANTS NeedlesFound SpecsUsable
PROPERTIES BeginsAsTold BeginsSession
CHECK_DEADLOCK FALSE
