SPECIFICATION Spec
CONSTANTS
  Files = {1, 2}
  Carved <- MCCarved
  Scripts <- MCScripts
INVARIANTS ImagesSorted
