CONSTANTS
  MemWords <- MCMemWords
  Foreign <- MCForeign
  Images <- MCImages
  StdoutCap <- MCStdoutCap
  Sources <- MCSources
SPECIFICATION ToolchainSpec
INVARIANT AsmTypeOK
INVARIANT LabelsResolve
INVARIANT EncodesForInterpreter
INVARIANT DisTypeOK
INVARIANT ListsWhatRuns
INVARIANT ListsUpToUndecodable
INVARIANT RoundTrip
