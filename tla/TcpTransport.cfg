CONSTANTS
  MaxMessageSize = 2
  SendSize = {0, 1, 2, 3}
  RecvSize = {1, 2}
  SocketRoom = 3
  MaxConns = 3
  MaxBytes = 5
SPECIFICATION CallFairSpec
INVARIANTS
  TypeOK
  NoDescriptorLeak
  NeverHalfOpen
  StreamInOrder
PROPERTIES
  ImplementsChannel
  CallsReturn
