SPECIFICATION Spec
CONSTANTS
  Configs <- MCConfigs
  Second = 3
  LongAgo = 6
  Never = Never
  MaxId = 2
INVARIANTS TypeOK OneConfiguration
PROPERTIES Spaced
