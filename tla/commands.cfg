CONSTANTS
  MemWords <- MCMemWords
  Foreign <- MCForeign
  Images <- MCImages
  StdoutCap <- MCStdoutCap
  StepInputs <- MCStepInputs
  BpInputs <- MCBpInputs
  RegInputs <- MCRegInputs
  ValInputs <- MCValInputs
  MaxBreakpoints <- MCMaxBreakpoints
  Lines <- MCLines
  MaxEmpty <- MCMaxEmpty
SPECIFICATION CommandsSpec
INVARIANT CommandsTypeOK
INVARIANT ReleasedOnce
PROPERTY PromptIsOneStep
