CONSTANTS
  MaxDatagramSize = 2
  SendSize = {0, 1, 2, 3}
  RecvSize = {1, 2}
  Port = {p1, p2}
  NoPort = NoPort
  MaxSends = 3
SPECIFICATION FairSpec
INVARIANTS
  PeerIsOwnPort
  NoOvertaking
PROPERTIES
  ImplementsChannel
  ArrivedIsFetched
