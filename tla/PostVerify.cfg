SPECIFICATION FairSpec
CONSTANTS
  Files = {1, 2}
  Carved <- MCCarved
  Scripts <- MCScripts
INVARIANTS GoodKept DoneSorted MovedOnce
PROPERTIES VerifyEnds
