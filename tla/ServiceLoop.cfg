SPECIFICATION FairSpec
CONSTANTS
  None = None
  Missing = Missing
  MaxEnvVars = 100
  MaxSignals = 2
  Arguments <- MCArguments
  Files <- MCFiles
  Environments <- MCEnvironments
INVARIANTS TypeOK PortByPriority EndsInOrder LevelIsKept
PROPERTIES SignalEnds
CHECK_DEADLOCK FALSE
