SPECIFICATION Spec
CONSTANTS
  ManualIds = {2, 6}
  Infos = {"trusted", "plain"}
  Trusted = "trusted"
  Capacity = 3
  MaxNodes = 4
  MaxId = 4
INVARIANTS SharedIdWasChosen
PROPERTIES OverrunNeedsPeers OrderKept ImplementsDirectory
