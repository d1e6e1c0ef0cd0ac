SPECIFICATION StoreSpec
CONSTANTS
  MaxChunk = 2
  Room = 3
  Lengths = {0, 2, 3, 4}
  BufferSize = 12
  MaxMessages = 2
INVARIANTS RoundTrip CutIsDetected AcceptedWasSent
