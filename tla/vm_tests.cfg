CONSTANTS
  MemWords <- MCMemWords
  Foreign <- MCForeign
  Images <- MCImages
  StdoutCap <- MCStdoutCap
SPECIFICATION FairSpec
INVARIANT Results
INVARIANT BranchesOnRelation
PROPERTY Terminates
PROPERTY CompareDecidesBranch
