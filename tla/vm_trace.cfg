CONSTANTS
  MemWords <- MCMemWords
  Foreign <- MCForeign
  Images <- MCImages
  StdoutCap <- MCStdoutCap
SPECIFICATION Spec
INVARIANT TraceShowsInstruction
