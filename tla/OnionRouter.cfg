SPECIFICATION RouterSpec
CONSTANTS
  Addresses = {a1, a2, a3}
  Null = Null
  Keys = {k1, k2}
  CircuitCapacity = 2
  MaxHops = 2
  MaxCircuitId = 4
INVARIANTS CountIsExact CircuitIdsUnique TableIsExact LayersPeelInOrder
