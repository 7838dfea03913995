CONSTANTS
  MemWords <- MCMemWords
  Foreign <- MCForeign
  Images <- MCImages
  StdoutCap <- MCStdoutCap
SPECIFICATION Spec
INVARIANT TypeOK
INVARIANT R0Zero
INVARIANT DecodeCoherent
PROPERTY DivisionIdentity
PROPERTY ImplementsISA
