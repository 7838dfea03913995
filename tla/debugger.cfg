CONSTANTS
  MemWords <- MCMemWords
  Foreign <- MCForeign
  Images <- MCImages
  StdoutCap <- MCStdoutCap
  StepInputs <- MCStepInputs
  BpInputs <- MCBpInputs
  RegInputs <- MCRegInputs
  ValInputs <- MCValInputs
  MaxBreakpoints <- MCMaxBreakpoints
SPECIFICATION FairDebuggerSpec
INVARIANT DebuggerTypeOK
INVARIANT StepCount
INVARIANT BreakpointStops
PROPERTY TransparentSession
PROPERTY StepReturns
