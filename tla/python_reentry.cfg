CONSTANTS
  v1 = v1
  v2 = v2
  v3 = v3
  f1 = f1
  f2 = f2
  h1 = h1
  NULL = NULL
  Vms <- MCVms
  Files <- MCFiles
  Handlers <- MCHandlers
  MaxDepth <- MCMaxDepth
  MaxDecodes <- MCMaxDecodes
SPECIFICATION PythonSpec
INVARIANT ShownIsExecuted
