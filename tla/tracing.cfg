CONSTANTS
  MemWords <- MCMemWords
  Foreign <- MCForeign
  Images <- MCImages
  StdoutCap <- MCStdoutCap
SPECIFICATION TracingSpec
INVARIANT TracingTypeOK
PROPERTY TraceDeterminesStep
PROPERTY LitFlagsDecideJumps
