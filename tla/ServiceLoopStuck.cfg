SPECIFICATION Spec
CONSTANTS
  None = None
  Missing = Missing
  MaxEnvVars = 100
  MaxSignals = 2
  Arguments <- MCArguments
  Files <- MCFiles
  Environments <- MCEnvironments
INVARIANTS NeverStuck
CHECK_DEADLOCK FALSE
