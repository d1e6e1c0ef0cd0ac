SPECIFICATION StackSpec
CONSTANTS
  MaxMessageSize = 80
  Size = {20, 80}
  MaxSends = 2
  Room = 78
  Secrets <- MCSecrets
  Keys <- MCKeys
INVARIANTS OwnKeyOpens CipherIsStandard
PROPERTIES ImplementsChannel
