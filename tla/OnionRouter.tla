---------------------------- MODULE OnionRouter ----------------------------
(***************************************************************************)
(* SimpleOnionRouter (src/onion/onion.cpp): a table of circuits that       *)
(* callers create, send through and destroy, each circuit an object on the *)
(* heap that the router lists in one of circuit_capacity slots.            *)
(*                                                                         *)
(* An address of the heap is a model value and is used again once freed,   *)
(* as an allocator does.  A hop is its session key.  A ChaCha20 layer is   *)
(* the keystream it adds, named by its key and nonce (the block counter    *)
(* starts at 0 in every call); a packet is the set of keystreams that its  *)
(* bytes carry, since two equal ones cancel.  A caller uses and destroys   *)
(* only circuits that are not destroyed yet, as C++ demands of it.         *)
(***************************************************************************)
EXTENDS Integers, FiniteSets, Sequences

CONSTANTS Addresses,        \* where `new Circuit' may place an object
          Null,             \* the null pointer
          Keys,             \* session keys
          CircuitCapacity,  \* circuit_capacity: 16
          MaxHops,          \* the sanity limit: 10
          MaxCircuitId      \* bound on the circuits a router creates

ASSUME OnionAssumption == /\ Null \notin Addresses
                          /\ CircuitCapacity \in Nat
                          /\ MaxHops \in Nat

VARIABLES router,         \* "built" or "destroyed"
          bridge,         \* bridge_mode_enabled: "on" or "off"
          slots,          \* active_circuits
          count,          \* circuit_count
          nextCircuitId,  \* next_circuit_id
          heap,           \* the circuit at an address, or Freed
          packet          \* the last onion_packet, with the hops it was sent through

routerVars == <<router, bridge, slots, count, nextCircuitId, heap, packet>>

Slots == 1..CircuitCapacity
Circuits == [id : Nat, hops : Seq(Keys)]
Pads == [key : Keys, nonce : Nat \X Nat]
Freed == [id |-> 0, hops |-> <<>>]
NoPacket == [id |-> 0, hops |-> <<>>, layers |-> {}]
Live == {a \in Addresses : heap[a] # Freed}
HopLists == UNION {[1..n -> Keys] : n \in 1..MaxHops}

RouterTypeOK == /\ router \in {"built", "destroyed"}
                /\ bridge \in {"on", "off"}
                /\ slots \in [Slots -> Addresses \cup {Null}]
                /\ count \in 0..CircuitCapacity
                /\ nextCircuitId \in Nat \ {0}
                /\ heap \in [Addresses -> Circuits]
                /\ packet \in [id : Nat, hops : Seq(Keys), layers : SUBSET Pads]

RouterInit == /\ router = "built"
              /\ bridge = "off"
              /\ slots = [i \in Slots |-> Null]
              /\ count = 0
              /\ nextCircuitId = 1
              /\ heap = [a \in Addresses |-> Freed]
              /\ packet = NoPacket

\* variant: takes the first slot whatever it lists
FirstSlot(i) == i = 1

----------------------------------------------------------------------------
\* The first free slot.
FreeSlot(i) == /\ slots[i] = Null
               /\ \A j \in Slots : j < i => slots[j] # Null

\* circuit_count says that no slot is left.
NoSlotLeft == count >= CircuitCapacity

\* variant: numbers the next circuit by how many there are now
CountAsId == count + 2

FollowingId == nextCircuitId + 1

Create == /\ router = "built"
          /\ ~NoSlotLeft
          /\ nextCircuitId <= MaxCircuitId
          /\ \E a \in Addresses, hops \in HopLists, i \in Slots :
                /\ heap[a] = Freed
                /\ FreeSlot(i)
                /\ heap' = [heap EXCEPT ![a] = [id |-> nextCircuitId, hops |-> hops]]
                /\ slots' = [slots EXCEPT ![i] = a]
          /\ count' = count + 1
          /\ nextCircuitId' = FollowingId
          /\ UNCHANGED <<router, bridge, packet>>

\* No hops, too many hops, or no slot left.
CreateRefused == /\ router = "built"
                 /\ \E n \in 0..MaxHops + 1 : n = 0 \/ n > MaxHops \/ NoSlotLeft
                 /\ UNCHANGED routerVars

\* variant: leaves the position out of the nonce
PadWithoutPosition(id, hops, i) == [key |-> hops[i], nonce |-> <<id, 0>>]

\* The keystream of a layer: the hop's key, and a nonce made of the circuit's id
\* and, in its own bits, the position of the hop.  (It is id XOR position * 2^16,
\* onion.cpp:145: a pair as far as one circuit goes, and the model compares no pads
\* of two.)
Pad(id, hops, i) == [key |-> hops[i], nonce |-> <<id, i - 1>>]

\* What remains of the layers from first to last: those added an odd number of times.
Layers(id, hops, first, last) ==
  LET Adding(p) == {i \in first..last : Pad(id, hops, i) = p}
  IN  {p \in {Pad(id, hops, i) : i \in first..last} : Cardinality(Adding(p)) % 2 = 1}

\* What it refuses (onion.cpp:116-122) changes nothing, and is left out.
Send(a) == LET circuit == heap[a]
           IN  /\ router = "built"
               /\ packet' = [id     |-> circuit.id,
                             hops   |-> circuit.hops,
                             layers |-> Layers(circuit.id, circuit.hops, 1, Len(circuit.hops))]
               /\ UNCHANGED <<router, bridge, slots, count, nextCircuitId, heap>>

\* The slot that lists the circuit is free again.
Unlist(a) == [i \in Slots |-> IF slots[i] = a THEN Null ELSE slots[i]]

Destroy(a) == /\ router = "built"
              /\ slots' = Unlist(a)
              /\ count' = IF \E i \in Slots : slots[i] = a THEN count - 1 ELSE count
              /\ heap' = [heap EXCEPT ![a] = Freed]
              /\ UNCHANGED <<router, bridge, nextCircuitId, packet>>

SetBridge(mode) == /\ router = "built"
                   /\ bridge' = mode
                   /\ UNCHANGED <<router, slots, count, nextCircuitId, heap, packet>>

\* variant: the destructor's loop stops one slot early
ListedButLast == {slots[i] : i \in Slots \ {CircuitCapacity}} \ {Null}

\* What the destructor destroys: every circuit that a slot lists.
Listed == {slots[i] : i \in Slots} \ {Null}

Destructor == /\ router = "built"
              /\ router' = "destroyed"
              /\ slots' = [i \in Slots |-> Null]
              /\ count' = count - Cardinality(Listed)
              /\ heap' = [a \in Addresses |-> IF a \in Listed THEN Freed ELSE heap[a]]
              /\ UNCHANGED <<bridge, nextCircuitId, packet>>

\* A router built after another was destroyed.
Constructor == /\ router = "destroyed"
               /\ router' = "built"
               /\ bridge' = "off"
               /\ slots' = [i \in Slots |-> Null]
               /\ count' = 0
               /\ nextCircuitId' = 1
               /\ UNCHANGED <<heap, packet>>

RouterNext == \/ Create
              \/ CreateRefused
              \/ \E a \in Live : Send(a) \/ Destroy(a)
              \/ \E mode \in {"on", "off"} : SetBridge(mode)
              \/ Destructor
              \/ Constructor

RouterSpec == RouterInit /\ [][RouterNext]_routerVars

----------------------------------------------------------------------------
\* circuit_count is the number of occupied slots.  It is what makes the branch
\* of create_circuit that frees the new circuit again unreachable ("shouldn't
\* happen due to check above", onion.cpp:98): the check looks at the count, the
\* loop below it at the slots.
Occupied == {i \in Slots : slots[i] # Null}
CountIsExact == count = Cardinality(Occupied)

\* "Unique identifier" (onion.h:76): no two circuits of a router have the same id.
CircuitIdsUnique == \A a, b \in Live : heap[a].id = heap[b].id => a = b

\* The table lists each live circuit once and nothing else: a stale entry would
\* be destroyed a second time by the destructor, a missing one never.
TableIsExact ==
  /\ \A i, j \in Slots : slots[i] = slots[j] /\ slots[i] # Null => i = j
  /\ Listed = Live

\* After each relay has taken off its own layer, first hop first, the packet
\* carries exactly the layers of the hops behind it, and no packet is plain
\* before the last hop, even when hops share a session key (onion.h:30-34).
LayersPeelInOrder ==
  LET n == Len(packet.hops)
      Peeled(k) == packet.layers \ {Pad(packet.id, packet.hops, i) : i \in 1..k}
  IN  \A k \in 0..n : /\ Peeled(k) = Layers(packet.id, packet.hops, k + 1, n)
                      /\ Peeled(k) = {} <=> k = n
=============================================================================
