CONSTANTS
  MaxMessageSize = 2
  SendSize = {0, 1, 2}
  RecvSize = {2}
  SocketRoom = 2
  MaxConns = 2
  MaxBytes = 3
SPECIFICATION Spec
INVARIANTS
  EndsMatch
