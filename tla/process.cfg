CONSTANTS
  MemWords <- MCMemWords
  Foreign <- MCForeign
  Images <- MCImages
  StdoutCap <- MCStdoutCap
  StepInputs <- MCStepInputs
  BpInputs <- MCBpInputs
  RegInputs <- MCRegInputs
  ValInputs <- MCValInputs
  MaxBreakpoints <- MCMaxBreakpoints
SPECIFICATION FairProcessSpec
INVARIANT ProcessTypeOK
INVARIANT ExitStatus
INVARIANT EndReleases
PROPERTY OutcomeReported
