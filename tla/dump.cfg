CONSTANTS
  MemWords <- MCMemWords
  Foreign <- MCForeign
  Images <- MCImages
  StdoutCap <- MCStdoutCap
  Bounds <- MCBounds
SPECIFICATION FairDumpSpec
INVARIANT DumpTypeOK
INVARIANT CharsUnderWords
INVARIANT DumpsRange
PROPERTY DumpEnds
