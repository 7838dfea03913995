CONSTANTS
  MemWords <- MCMemWords
  Foreign <- MCForeign
  Images <- MCImages
  StdoutCap <- MCStdoutCap
  StepInputs <- MCStepInputs
  BpInputs <- MCBpInputs
  RegInputs <- MCRegInputs
  ValInputs <- MCValInputs
  MaxBreakpoints <- MCMaxBreakpoints
SPECIFICATION DebuggerSpec
INVARIANT ExecutesNSteps
