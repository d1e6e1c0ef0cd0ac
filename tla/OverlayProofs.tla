--------------------------- MODULE OverlayProofs ----------------------------
(***************************************************************************)
(* The two tables that an overlay node keeps, for every capacity: the      *)
(* circuits of its OnionRouter and the peers of its Federation.            *)
(*                                                                         *)
(* Of the router, the count, the slots and the heap agree with one         *)
(* another, so the check of the count is as good as a look for a free      *)
(* slot, no two live circuits have one id, and the layers of a packet come *)
(* off in order.  Of the federation, whatever its callers do: where two    *)
(* peers share an id a caller had chosen it, only initialize() behind      *)
(* listed peers overruns the array, and every other call on a list that is *)
(* a PeerDirectory does what a PeerDirectory does.                         *)
(***************************************************************************)
EXTENDS OnionRouter, Federation, FiniteSetTheorems, TLAPS

----------------------------------------------------------------------------
(***************************************************************************)
(* The circuits of the router.                                             *)
(***************************************************************************)

\* Ids are given out in ascending order, so the next one is new.
IdsPassed == \A a \in Live : heap[a].id < nextCircuitId

\* A destroyed router lists nothing, so the next one may start empty.
NothingLeft == router = "destroyed" => Listed = {}

RouterInv == /\ RouterTypeOK /\ CountIsExact /\ TableIsExact /\ CircuitIdsUnique
             /\ IdsPassed /\ NothingLeft

LEMMA SlotsFinite == IsFiniteSet(Slots) /\ Cardinality(Slots) = CircuitCapacity
  BY OnionAssumption, FS_Interval DEF Slots

LEMMA OccupiedFinite == IsFiniteSet(Occupied)
  BY SlotsFinite, FS_Subset DEF Occupied

LEMMA RouterStart == RouterInit => RouterInv
<1> SUFFICES ASSUME RouterInit PROVE RouterInv
    OBVIOUS
<1>1. <<>> \in Seq(Keys)
  OBVIOUS
<1>2. Live = {} /\ Listed = {} /\ Occupied = {}
  BY DEF RouterInit, Live, Listed, Occupied
<1>3. RouterTypeOK
  BY <1>1, OnionAssumption DEF RouterInit, RouterTypeOK, Freed, NoPacket, Circuits, Pads
<1>4. CountIsExact
  BY <1>2, FS_EmptySet DEF RouterInit, CountIsExact
<1>5. TableIsExact
  BY <1>2 DEF RouterInit, TableIsExact
<1> QED
  BY <1>2, <1>3, <1>4, <1>5 DEF RouterInv, CircuitIdsUnique, IdsPassed, NothingLeft

\* Where the router has a free slot: create_circuit's loop finds one whenever
\* its check of circuit_count passes.
LEMMA SlotIsLeft == ASSUME RouterTypeOK, CountIsExact, ~NoSlotLeft
                    PROVE  \E i \in Slots : slots[i] = Null
<1> SUFFICES ASSUME \A i \in Slots : slots[i] # Null PROVE FALSE
    OBVIOUS
<1>1. Occupied = Slots
  BY DEF Occupied
<1> QED
  BY <1>1, SlotsFinite, OnionAssumption DEF CountIsExact, NoSlotLeft, RouterTypeOK

LEMMA CreateKeeps == ASSUME RouterInv, Create PROVE RouterInv'
<1> USE DEF RouterInv
<1>1. PICK a \in Addresses, hops \in HopLists, i \in Slots :
         /\ heap[a] = Freed
         /\ slots[i] = Null
         /\ heap' = [heap EXCEPT ![a] = [id |-> nextCircuitId, hops |-> hops]]
         /\ slots' = [slots EXCEPT ![i] = a]
  BY DEF Create, FreeSlot
<1>2. /\ count' = count + 1 /\ nextCircuitId' = nextCircuitId + 1
      /\ router = "built" /\ router' = "built"
      /\ UNCHANGED <<bridge, packet>> /\ count < CircuitCapacity
  BY OnionAssumption DEF Create, FollowingId, NoSlotLeft, RouterTypeOK
<1>3. hops \in Seq(Keys)
  BY <1>1 DEF HopLists
<1>4. nextCircuitId \in Nat \ {0} /\ a # Null
  BY OnionAssumption DEF RouterTypeOK
<1>5. heap'[a] # Freed
  BY <1>1, <1>4 DEF RouterTypeOK, Freed
<1>6. RouterTypeOK'
  BY <1>1, <1>2, <1>3, OnionAssumption DEF RouterTypeOK, Circuits
<1>7. Live' = Live \cup {a} /\ a \notin Live
  BY <1>1, <1>5 DEF Live, RouterTypeOK
<1>8. Occupied' = Occupied \cup {i} /\ i \notin Occupied
  BY <1>1, <1>4 DEF Occupied, RouterTypeOK
<1>9. Listed' = Listed \cup {a}
  BY <1>1, <1>4 DEF Listed, RouterTypeOK
<1>10. CountIsExact'
  BY <1>2, <1>8, OccupiedFinite, FS_AddElement DEF CountIsExact
<1>11. TableIsExact'
  BY <1>1, <1>4, <1>7, <1>9 DEF TableIsExact, Listed, RouterTypeOK
<1>12. IdsPassed' /\ CircuitIdsUnique'
  <2>1. \A b \in Live : heap'[b] = heap[b] /\ heap[b].id < nextCircuitId
    BY <1>1, <1>7 DEF IdsPassed, RouterTypeOK, Live
  <2>2. heap'[a].id = nextCircuitId
    BY <1>1 DEF RouterTypeOK
  <2>3. \A b \in Live : heap[b].id \in Nat
    BY DEF Live, RouterTypeOK, Circuits
  <2>4. IdsPassed'
    BY <2>1, <2>2, <2>3, <1>2, <1>4, <1>7 DEF IdsPassed
  <2> QED
    BY <2>1, <2>2, <2>3, <2>4, <1>4, <1>7 DEF CircuitIdsUnique
<1> QED
  BY <1>2, <1>6, <1>10, <1>11, <1>12 DEF NothingLeft

LEMMA DestroyKeeps == ASSUME RouterInv, NEW a \in Live, Destroy(a) PROVE RouterInv'
<1> USE DEF RouterInv
<1>1. PICK i \in Slots : slots[i] = a
  BY DEF TableIsExact, Listed
<1>2. /\ slots' = [j \in Slots |-> IF slots[j] = a THEN Null ELSE slots[j]]
      /\ count' = count - 1
      /\ heap' = [heap EXCEPT ![a] = Freed]
      /\ router = "built" /\ UNCHANGED <<router, bridge, nextCircuitId, packet>>
  BY <1>1 DEF Destroy, Unlist
<1>3. a \in Addresses /\ a # Null
  BY OnionAssumption DEF Live
<1>4. Occupied' = Occupied \ {i} /\ i \in Occupied
  BY <1>1, <1>2, <1>3 DEF Occupied, TableIsExact
<1>5. count' = Cardinality(Occupied') /\ count' \in 0..CircuitCapacity
  <2>1. Cardinality(Occupied') = Cardinality(Occupied) - 1
    BY <1>4, OccupiedFinite, FS_RemoveElement
  <2>2. Cardinality(Occupied') \in Nat
    BY <1>4, OccupiedFinite, FS_RemoveElement, FS_CardinalityType
  <2> QED
    BY <2>1, <2>2, <1>2, OnionAssumption DEF CountIsExact, RouterTypeOK
<1>6. Live' = Live \ {a}
  BY <1>2, <1>3 DEF Live, RouterTypeOK
<1>7. Listed' = Listed \ {a}
  BY <1>2, <1>3 DEF Listed
<1>8. <<>> \in Seq(Keys)
  OBVIOUS
<1>9. RouterTypeOK'
  BY <1>2, <1>5, <1>8 DEF RouterTypeOK, Freed, Circuits
<1>10. TableIsExact'
  BY <1>2, <1>6, <1>7 DEF TableIsExact
<1>11. \A b \in Live' : b \in Live /\ heap'[b] = heap[b]
  BY <1>2, <1>6 DEF Live, RouterTypeOK
<1>12. CircuitIdsUnique' /\ IdsPassed'
  BY <1>2, <1>11 DEF CircuitIdsUnique, IdsPassed
<1> QED
  BY <1>2, <1>5, <1>9, <1>10, <1>12 DEF CountIsExact, NothingLeft

LEMMA DestructorKeeps == ASSUME RouterInv, Destructor PROVE RouterInv'
<1> USE DEF RouterInv
<1>1. /\ slots' = [i \in Slots |-> Null]
      /\ count' = count - Cardinality(Listed)
      /\ heap' = [b \in Addresses |-> IF b \in Listed THEN Freed ELSE heap[b]]
      /\ router' = "destroyed" /\ UNCHANGED <<bridge, nextCircuitId, packet>>
  BY DEF Destructor
<1>2. Live' = {} /\ Listed' = {} /\ Occupied' = {}
  BY <1>1 DEF Live, Listed, Occupied, TableIsExact
<1>3. Cardinality(Listed) = Cardinality(Occupied)
  <2> DEFINE f == [i \in Occupied |-> slots[i]]
  <2>1. f \in Bijection(Occupied, Listed)
    BY DEF Occupied, Listed, TableIsExact, Bijection, Injection, Surjection, IsInjective
  <2> QED
    BY <2>1, OccupiedFinite, FS_Bijection DEF ExistsBijection
<1>4. Cardinality(Occupied) \in Nat
  BY OccupiedFinite, FS_CardinalityType
<1>5. count' = 0
  BY <1>1, <1>3, <1>4 DEF CountIsExact
<1>6. <<>> \in Seq(Keys)
  OBVIOUS
<1>7. RouterTypeOK'
  BY <1>1, <1>5, <1>6, OnionAssumption DEF RouterTypeOK, Freed, Circuits
<1>8. CountIsExact'
  BY <1>2, <1>5, FS_EmptySet DEF CountIsExact
<1>9. TableIsExact'
  BY <1>1, <1>2 DEF TableIsExact
<1> QED
  BY <1>2, <1>7, <1>8, <1>9 DEF CircuitIdsUnique, IdsPassed, NothingLeft

LEMMA ConstructorKeeps == ASSUME RouterInv, Constructor PROVE RouterInv'
<1> USE DEF RouterInv
<1>1. /\ router = "destroyed" /\ router' = "built" /\ bridge' = "off"
      /\ slots' = [i \in Slots |-> Null] /\ count' = 0 /\ nextCircuitId' = 1
      /\ UNCHANGED <<heap, packet>>
  BY DEF Constructor
<1>2. Live' = {} /\ Listed' = {} /\ Occupied' = {}
  BY <1>1 DEF Live, Listed, Occupied, TableIsExact, NothingLeft
<1>3. RouterTypeOK'
  BY <1>1, OnionAssumption DEF RouterTypeOK
<1>4. CountIsExact'
  BY <1>1, <1>2, FS_EmptySet DEF CountIsExact
<1> QED
  BY <1>1, <1>2, <1>3, <1>4 DEF TableIsExact, CircuitIdsUnique, IdsPassed, NothingLeft

\* A packet changes nothing of the table.
LEMMA SendKeeps == ASSUME RouterInv, NEW a \in Live, Send(a) PROVE RouterInv'
<1> USE DEF RouterInv
<1>1. UNCHANGED <<router, bridge, slots, count, nextCircuitId, heap>>
  BY DEF Send
<1>2. /\ heap[a].id \in Nat /\ heap[a].hops \in Seq(Keys)
      /\ Len(heap[a].hops) \in Nat
      /\ \A i \in 1..Len(heap[a].hops) : heap[a].hops[i] \in Keys
  BY DEF Live, RouterTypeOK, Circuits
<1>3. Layers(heap[a].id, heap[a].hops, 1, Len(heap[a].hops)) \in SUBSET Pads
  BY <1>2 DEF Layers, Pad, Pads
<1>4. RouterTypeOK'
  BY <1>1, <1>2, <1>3 DEF Send, RouterTypeOK
<1>5. Live' = Live /\ Listed' = Listed /\ Occupied' = Occupied
  BY <1>1 DEF Live, Listed, Occupied
<1> QED
  BY <1>1, <1>4, <1>5 DEF CountIsExact, TableIsExact, CircuitIdsUnique, IdsPassed, NothingLeft

LEMMA RouterStep == RouterInv /\ [RouterNext]_routerVars => RouterInv'
<1> SUFFICES ASSUME RouterInv, [RouterNext]_routerVars PROVE RouterInv'
    OBVIOUS
<1>1. CASE Create
  BY <1>1, CreateKeeps
<1>2. CASE UNCHANGED routerVars
  <2>1. UNCHANGED <<router, bridge, slots, count, nextCircuitId, heap, packet>>
    BY <1>2 DEF routerVars
  <2>2. Live' = Live /\ Listed' = Listed /\ Occupied' = Occupied
    BY <2>1 DEF Live, Listed, Occupied
  <2>3. RouterTypeOK'
    BY <2>1 DEF RouterTypeOK, RouterInv
  <2> QED
    BY <2>1, <2>2, <2>3
    DEF RouterInv, CountIsExact, TableIsExact, CircuitIdsUnique, IdsPassed, NothingLeft
<1>3. CASE CreateRefused
  BY <1>2, <1>3 DEF CreateRefused
<1>4. ASSUME NEW a \in Live, Send(a) PROVE RouterInv'
  BY <1>4, SendKeeps
<1>5. ASSUME NEW a \in Live, Destroy(a) PROVE RouterInv'
  BY <1>5, DestroyKeeps
<1>6. ASSUME NEW mode \in {"on", "off"}, SetBridge(mode) PROVE RouterInv'
  BY <1>6 DEF SetBridge, RouterInv, RouterTypeOK, CountIsExact, TableIsExact, CircuitIdsUnique,
              IdsPassed, NothingLeft, Live, Listed, Occupied
<1>7. CASE Destructor
  BY <1>7, DestructorKeeps
<1>8. CASE Constructor
  BY <1>8, ConstructorKeeps
<1> QED
  BY <1>1, <1>2, <1>3, <1>4, <1>5, <1>6, <1>7, <1>8 DEF RouterNext

LEMMA RouterInvariant == RouterSpec => []RouterInv
  BY RouterStart, RouterStep, PTL DEF RouterSpec

\* The router's table, count and heap agree in every reachable state: no live
\* circuit is lost, no freed one is listed (onion.cpp:87-105, 204-231).
THEOREM OnionTableIsExact == RouterSpec => []TableIsExact
<1>1. RouterInv => TableIsExact
  BY DEF RouterInv
<1> QED
  BY <1>1, RouterInvariant, PTL

\* The count is the number of occupied slots, so that create_circuit refuses
\* exactly when the table is full and its clean-up branch is dead code.
THEOREM OnionCountIsExact ==
  RouterSpec => [](CountIsExact /\ (~NoSlotLeft => \E i \in Slots : slots[i] = Null))
<1>1. RouterInv => CountIsExact /\ (~NoSlotLeft => \E i \in Slots : slots[i] = Null)
  BY SlotIsLeft DEF RouterInv
<1> QED
  BY <1>1, RouterInvariant, PTL

\* The ids of live circuits differ (onion.h:76), before the 32-bit counter wraps.
THEOREM OnionIdsUnique == RouterSpec => []CircuitIdsUnique
<1>1. RouterInv => CircuitIdsUnique
  BY DEF RouterInv
<1> QED
  BY <1>1, RouterInvariant, PTL

----------------------------------------------------------------------------
\* The packet carries the layers of all its hops.
PacketIsWhole == /\ packet.hops \in Seq(Keys)
                 /\ packet.layers = Layers(packet.id, packet.hops, 1, Len(packet.hops))

\* No two layers of a packet are the same keystream, since the position of a hop
\* is in the nonce; so none cancels another, whatever keys the hops have.
LEMMA LayersAre ==
  ASSUME NEW id, NEW hops, NEW first \in Nat, NEW last \in Nat
  PROVE  Layers(id, hops, first, last) = {Pad(id, hops, i) : i \in first..last}
<1> DEFINE Adding(p) == {i \in first..last : Pad(id, hops, i) = p}
<1>1. ASSUME NEW i \in first..last
      PROVE  Cardinality(Adding(Pad(id, hops, i))) % 2 = 1
  <2>1. \A j \in first..last : Pad(id, hops, j) = Pad(id, hops, i) => j = i
    <3> SUFFICES ASSUME NEW j \in first..last, Pad(id, hops, j) = Pad(id, hops, i) PROVE j = i
      OBVIOUS
    <3>1. Pad(id, hops, j).nonce = Pad(id, hops, i).nonce
      OBVIOUS
    <3>2. <<id, j - 1>> = <<id, i - 1>>
      BY <3>1 DEF Pad
    <3>3. j - 1 = i - 1
      BY <3>2
    <3> QED BY <3>3
  <2>2. Adding(Pad(id, hops, i)) = {i}
    BY <2>1
  <2>3. Cardinality({i}) = 1
    BY FS_Singleton
  <2> HIDE DEF Adding
  <2> QED BY <2>2, <2>3
<1> QED
  BY <1>1 DEF Layers

LEMMA PacketInit == RouterInit => PacketIsWhole
<1> SUFFICES ASSUME RouterInit PROVE PacketIsWhole
  OBVIOUS
<1>1. packet.id = 0 /\ packet.hops = <<>> /\ packet.layers = {}
  BY DEF RouterInit, NoPacket
<1>2. Len(packet.hops) = 0
  BY <1>1
<1>3. Layers(0, <<>>, 1, 0) = {}
  BY LayersAre
<1> QED
  BY <1>1, <1>2, <1>3 DEF PacketIsWhole

LEMMA PacketStep == RouterInv /\ PacketIsWhole /\ [RouterNext]_routerVars => PacketIsWhole'
<1> SUFFICES ASSUME RouterInv, PacketIsWhole, [RouterNext]_routerVars PROVE PacketIsWhole'
  OBVIOUS
<1>1. ASSUME NEW a \in Live, Send(a) PROVE PacketIsWhole'
  <2>1. heap[a].hops \in Seq(Keys)
    BY DEF RouterInv, Live, RouterTypeOK, Circuits
  <2> QED
    BY <1>1, <2>1 DEF Send, PacketIsWhole
<1>2. CASE UNCHANGED packet
  BY <1>2 DEF PacketIsWhole
<1> QED
  BY <1>1, <1>2 DEF RouterNext, routerVars, Create, CreateRefused, Destroy, SetBridge, Destructor,
                    Constructor

\* Each relay that takes off its own layer leaves exactly those of the hops behind
\* it, and only the last one finds plain text (onion.cpp:136), for circuits of any
\* length and hops that share any keys, as long as ids leave the upper half of the
\* nonce's first word to the position (onion.cpp:145).
THEOREM OnionLayersPeelInOrder == RouterSpec => []LayersPeelInOrder
<1>1. PacketIsWhole => LayersPeelInOrder
  <2> SUFFICES ASSUME PacketIsWhole PROVE LayersPeelInOrder
    OBVIOUS
  <2> DEFINE n == Len(packet.hops)
             P(i) == Pad(packet.id, packet.hops, i)
             Peeled(k) == packet.layers \ {P(i) : i \in 1..k}
  <2>1. n \in Nat
    BY DEF PacketIsWhole
  <2>2. packet.layers = {P(i) : i \in 1..n}
    BY <2>1, LayersAre DEF PacketIsWhole
  <2>3. \A i, j \in 1..n : P(i) = P(j) => i = j
    <3> SUFFICES ASSUME NEW i \in 1..n, NEW j \in 1..n, P(i) = P(j) PROVE i = j
      OBVIOUS
    <3>1. P(i).nonce = P(j).nonce
      OBVIOUS
    <3>2. <<packet.id, i - 1>> = <<packet.id, j - 1>>
      BY <3>1 DEF Pad
    <3>3. i - 1 = j - 1
      BY <3>2
    <3> QED BY <2>1, <3>3
  <2> SUFFICES ASSUME NEW k \in 0..n
               PROVE  /\ Peeled(k) = Layers(packet.id, packet.hops, k + 1, n)
                      /\ Peeled(k) = {} <=> k = n
    BY DEF LayersPeelInOrder
  <2>4. Layers(packet.id, packet.hops, k + 1, n) = {P(i) : i \in k + 1..n}
    <3>1. k + 1 \in Nat
      BY <2>1
    <3> QED BY <2>1, <3>1, LayersAre
  <2> HIDE DEF P, n
  <2>5. Peeled(k) = {P(i) : i \in k + 1..n}
    <3>1. 1..n = 1..k \cup k + 1..n /\ 1..k \cap k + 1..n = {}
      BY <2>1
    <3> QED BY <2>2, <2>3, <3>1
  <2>6. k + 1..n = {} <=> k = n
    BY <2>1
  <2>7. {P(i) : i \in k + 1..n} = {} <=> k = n
    BY <2>6
  <2> QED
    BY <2>4, <2>5, <2>7
<1> QED
  BY <1>1, PacketInit, PacketStep, RouterInvariant, PTL DEF RouterSpec

----------------------------------------------------------------------------
(***************************************************************************)
(* The peers of the federation.                                            *)
(***************************************************************************)

IInv == TypeOK /\ SharedIdWasChosen

\* A list of bootstrap nodes has a length.
LEMMA NodeListLen == ASSUME NEW nodes \in NodeLists PROVE Len(nodes) \in Nat
<1>1. PICK n \in 0..MaxNodes : nodes \in [1..n -> {"node", "null"}]
  BY DEF NodeLists
<1>2. n \in Nat
  BY FederationAssumption
<1>3. nodes \in Seq({"node", "null"})
  BY <1>1, <1>2
<1> QED BY <1>3

\* initialize() counts its nodes, and reaches no more than there are places.
LEMMA ReachedFits == ASSUME NEW nodes \in NodeLists
                     PROVE  /\ Cardinality(Reached(nodes)) \in Nat
                            /\ Cardinality(Reached(nodes)) <= Capacity
<1>1. IsFiniteSet(1..Capacity) /\ Cardinality(1..Capacity) = Capacity
  BY FederationAssumption, FS_Interval
<1>2. Reached(nodes) \subseteq 1..Capacity
  BY NodeListLen, FederationAssumption DEF Reached
<1>3. IsFiniteSet(Reached(nodes)) /\ Cardinality(Reached(nodes)) <= Cardinality(1..Capacity)
  BY <1>1, <1>2, FS_Subset
<1> QED BY <1>1, <1>3, FS_CardinalityType

\* Where some entry has an id, there is a first one: of the intervals 1..i that
\* end in such an entry, one holds no other.
LEMMA FirstMatches == ASSUME TypeOK, NEW id, Matches(id) # {}
                      PROVE  /\ First(Matches(id)) \in Matches(id)
                             /\ \A j \in Matches(id) : First(Matches(id)) <= j
<1> DEFINE M == Matches(id)
           all == 1..Len(peers)
           upTo == {1..i : i \in M}
<1>1. Len(peers) \in Nat /\ M \subseteq all
  BY DEF Matches, TypeOK
<1>2. upTo \subseteq SUBSET all /\ upTo # {}
  BY <1>1
<1>3. IsWellFoundedOn(StrictSubsetOrdering(all), SUBSET all)
  <2>1. IsFiniteSet(all)
    BY <1>1, FS_Interval
  <2> HIDE DEF all
  <2>2. FiniteSubsetsOf(all) = SUBSET all
    BY <2>1, FS_FiniteSubsetsOfFinite
  <2>3. IsWellFoundedOn(StrictSubsetOrdering(all), FiniteSubsetsOf(all))
    BY FS_StrictSubsetOrderingWellFounded
  <2> QED BY <2>2, <2>3
<1> HIDE DEF upTo, all, M
<1>4. \E T \in upTo : \A U \in upTo : <<U, T>> \notin StrictSubsetOrdering(all)
  BY <1>2, <1>3, WFMin
<1> USE DEF upTo, all, M
<1>5. PICK i \in M : \A j \in M : <<1..j, 1..i>> \notin StrictSubsetOrdering(all)
  BY <1>4
<1>6. \A j \in M : i <= j
  <2> SUFFICES ASSUME NEW j \in M, j < i PROVE FALSE
    BY <1>1
  <2>1. 1..j \subseteq 1..i /\ 1..j # 1..i /\ 1..i \subseteq all
    BY <1>1
  <2> QED BY <1>5, <2>1 DEF StrictSubsetOrdering
<1> QED BY <1>5, <1>6 DEF First

\* What the list holds with new entries at its end.
LEMMA AppendedIs ==
  ASSUME NEW S, NEW s \in Seq(S), NEW t \in Seq(S)
  PROVE  /\ s \o t \in Seq(S)
         /\ Len(s \o t) = Len(s) + Len(t)
         /\ \A i \in 1..Len(s) : (s \o t)[i] = s[i]
         /\ \A i \in Len(s) + 1..Len(s) + Len(t) : (s \o t)[i] = t[i - Len(s)]
  OBVIOUS

\* A new federation knows nobody.
LEMMA FederationInit == Init => IInv
<1> SUFFICES ASSUME Init PROVE IInv
  OBVIOUS
<1>1. peers \in Seq(Peer) /\ Len(peers) = 0
  BY DEF Init
<1> QED BY <1>1, FederationAssumption DEF Init, IInv, TypeOK, SharedIdWasChosen, Results

\* initialize() appends its nodes under the ids that come next.
LEMMA InitializeAppends ==
  ASSUME TypeOK, NEW nodes \in NodeLists, Initialize(nodes)
  PROVE  LET n == Cardinality(Reached(nodes))
         IN  /\ TypeOK'
             /\ n \in Nat /\ n <= Capacity
             /\ nextId' = nextId + n
             /\ Len(peers') = Len(peers) + n
             /\ \A i \in 1..Len(peers) : peers'[i] = peers[i]
             /\ \A i \in Len(peers) + 1..Len(peers) + n :
                   /\ peers'[i].id = nextId + (i - Len(peers)) - 1
                   /\ peers'[i].info = Trusted
<1> DEFINE n == Cardinality(Reached(nodes))
           new == [i \in 1..n |-> [id |-> nextId + i - 1, info |-> Trusted]]
<1>1. n \in Nat /\ n <= Capacity
  BY ReachedFits
<1>2. /\ peers \in Seq(Peer)
      /\ Len(peers) \in Nat
      /\ nextId \in Nat /\ nextId >= 1
      /\ nextId' = nextId + n
      /\ nextId' <= MaxId + 1
      /\ peers' = peers \o new
  BY <1>1, FederationAssumption DEF TypeOK, Initialize, FirstNewId
<1>3. new \in Seq(Peer')
  <2>1. \A i \in 1..n : new[i] \in Peer'
    <3> TAKE i \in 1..n
    <3>1. nextId + i - 1 \in 1..nextId' - 1
      BY <1>1, <1>2
    <3> QED BY <3>1, FederationAssumption DEF Peer
  <2> QED BY <2>1, <1>1
<1>4. peers \in Seq(Peer')
  <2>1. Peer \subseteq Peer'
    BY <1>1, <1>2 DEF Peer
  <2> QED BY <2>1, <1>2
<1>5. /\ peers' \in Seq(Peer')
      /\ Len(peers') = Len(peers) + n
      /\ \A i \in 1..Len(peers) : peers'[i] = peers[i]
      /\ \A i \in Len(peers) + 1..Len(peers) + n : peers'[i] = new[i - Len(peers)]
  <2>1. Len(new) = n
    BY <1>1
  <2> HIDE DEF new
  <2>2. /\ peers \o new \in Seq(Peer')
        /\ Len(peers \o new) = Len(peers) + Len(new)
        /\ \A i \in 1..Len(peers) : (peers \o new)[i] = peers[i]
        /\ \A i \in Len(peers) + 1..Len(peers) + Len(new) :
              (peers \o new)[i] = new[i - Len(peers)]
    BY <1>3, <1>4, AppendedIs
  <2>3. peers' = peers \o new
    BY <1>2
  <2> QED BY <2>1, <2>2, <2>3
<1>6. TypeOK'
  BY <1>1, <1>2, <1>5, FederationAssumption DEF TypeOK, Initialize, Results
<1>7. \A i \in Len(peers) + 1..Len(peers) + n :
         /\ peers'[i].id = nextId + (i - Len(peers)) - 1
         /\ peers'[i].info = Trusted
  <2> TAKE i \in Len(peers) + 1..Len(peers) + n
  <2> HIDE DEF n
  <2>1. i - Len(peers) \in 1..n
    BY <1>1, <1>2
  <2>2. /\ new[i - Len(peers)].id = nextId + (i - Len(peers)) - 1
        /\ new[i - Len(peers)].info = Trusted
    BY <2>1
  <2> HIDE DEF new
  <2> QED BY <1>5, <2>2
<1> HIDE DEF new
<1> QED BY <1>1, <1>2, <1>5, <1>6, <1>7

\* The ids of new entries are larger than all that were counted up before, so each
\* of them meets at most one entry, whose id a caller chose.
LEMMA InitializeKeeps ==
  ASSUME IInv, NEW nodes \in NodeLists, Initialize(nodes)
  PROVE  IInv'
<1> DEFINE n == Cardinality(Reached(nodes))
<1>1. /\ TypeOK'
      /\ n \in Nat
      /\ nextId' = nextId + n
      /\ Len(peers') = Len(peers) + n
      /\ \A i \in 1..Len(peers) : peers'[i] = peers[i]
      /\ \A i \in Len(peers) + 1..Len(peers) + n :
            /\ peers'[i].id = nextId + (i - Len(peers)) - 1
            /\ peers'[i].info = Trusted
  BY InitializeAppends DEF IInv
<1> HIDE DEF n
<1>2. /\ peers \in Seq(Peer)
      /\ Len(peers) \in Nat
      /\ Len(peers') \in Nat
      /\ nextId \in Nat /\ nextId >= 1
  BY <1>1, FederationAssumption DEF IInv, TypeOK
<1>3. \A i \in 1..Len(peers) : peers'[i].id \in ManualIds \cup 1..nextId - 1
  <2> TAKE i \in 1..Len(peers)
  <2>1. peers[i] \in Peer
    BY <1>2
  <2> QED BY <1>1, <2>1 DEF Peer
<1>4. \A i \in Len(peers) + 1..Len(peers) + n :
         peers'[i].id \in nextId..nextId' - 1 /\ peers'[i].id < nextId'
  BY <1>1, <1>2
<1>5. \A i, j \in Len(peers) + 1..Len(peers) + n : peers'[i].id = peers'[j].id => i = j
  BY <1>1, <1>2
<1>6. 1..Len(peers') = 1..Len(peers) \cup (Len(peers) + 1..Len(peers) + n)
  BY <1>1, <1>2
<1>7. ASSUME NEW i \in 1..Len(peers'), NEW j \in 1..Len(peers'),
             peers'[i].id = peers'[j].id, i < j
      PROVE  /\ peers'[i].id \in ManualIds /\ peers'[i].id < nextId'
             /\ peers'[j].info = Trusted
             /\ \A k \in 1..Len(peers') : peers'[k].id = peers'[i].id => k \in {i, j}
  <2>1. CASE j <= Len(peers)
    <3>1. i \in 1..Len(peers) /\ j \in 1..Len(peers)
      BY <1>2, <1>7, <2>1
    <3>2. /\ peers[i].id \in ManualIds /\ peers[i].id < nextId
          /\ peers[j].info = Trusted
          /\ \A k \in 1..Len(peers) : peers[k].id = peers[i].id => k \in {i, j}
      BY <1>1, <1>7, <3>1 DEF IInv, SharedIdWasChosen
    <3>3. \A k \in Len(peers) + 1..Len(peers) + n : peers'[k].id # peers'[i].id
      BY <1>1, <1>2, <1>4, <3>1, <3>2, FederationAssumption
    <3>4. peers'[i] = peers[i] /\ peers'[j] = peers[j]
      BY <1>1, <3>1
    <3>5. peers[i].id < nextId'
      <4>1. nextId \in Nat /\ nextId' \in Nat /\ nextId <= nextId'
        BY <1>1, <1>2
      <4>2. peers[i].id \in Nat
        BY <3>2, FederationAssumption
      <4> QED BY <3>2, <4>1, <4>2
    <3>6. \A k \in 1..Len(peers) : peers'[k].id = peers'[i].id => k \in {i, j}
      BY <1>1, <3>2, <3>4
    <3>7. \A k \in 1..Len(peers') : peers'[k].id = peers'[i].id => k \in {i, j}
      BY <1>6, <3>3, <3>6
    <3> QED BY <3>2, <3>4, <3>5, <3>7
  <2>2. CASE i > Len(peers)
    <3>1. i \in Len(peers) + 1..Len(peers) + n /\ j \in Len(peers) + 1..Len(peers) + n
      BY <1>1, <1>2, <1>7, <2>2
    <3> QED BY <1>2, <1>5, <1>7, <3>1
  <2>3. CASE i <= Len(peers) /\ j > Len(peers)
    <3>1. i \in 1..Len(peers) /\ j \in Len(peers) + 1..Len(peers) + n
      BY <1>1, <1>2, <2>3
    <3>2. peers'[i].id \in nextId..nextId' - 1 /\ peers'[i].id < nextId'
      BY <1>4, <1>7, <3>1
    <3>3. peers'[i].id \in ManualIds
      BY <1>2, <1>3, <3>1, <3>2
    <3>4. \A k \in 1..Len(peers) : peers'[k].id = peers'[i].id => k = i
      <4> SUFFICES ASSUME NEW k \in 1..Len(peers), peers[k].id = peers[i].id, k # i
                   PROVE  FALSE
        BY <1>1, <3>1
      <4>1. peers[i].id < nextId
        BY <1>2, <3>1 DEF IInv, SharedIdWasChosen
      <4> QED BY <1>1, <1>2, <3>1, <3>2, <4>1
    <3>5. \A k \in Len(peers) + 1..Len(peers) + n : peers'[k].id = peers'[i].id => k = j
      BY <1>5, <1>7, <3>1
    <3> QED BY <1>1, <1>6, <3>1, <3>2, <3>3, <3>4, <3>5
  <2> QED BY <2>1, <2>2, <2>3, <1>2
<1>8. SharedIdWasChosen'
  BY <1>7 DEF SharedIdWasChosen
<1> QED BY <1>1, <1>8 DEF IInv

\* add_peer writes one entry: the first of its id, or a new one.
LEMMA AddPeerWrites ==
  ASSUME TypeOK, NEW id \in ManualIds, NEW info \in Infos, AddPeer([id |-> id, info |-> info])
  PROVE  /\ TypeOK'
         /\ \E e \in 1..Len(peers) + 1 :
              /\ \/ e = Len(peers) + 1 /\ Matches(id) = {} /\ Len(peers') = Len(peers) + 1
                 \/ /\ e \in Matches(id) /\ Len(peers') = Len(peers)
                    /\ \A i \in Matches(id) : e <= i
              /\ e \in 1..Len(peers')
              /\ peers'[e] = [id |-> id, info |-> info]
              /\ \A i \in 1..Len(peers') : i # e => i \in 1..Len(peers) /\ peers'[i] = peers[i]
<1> DEFINE p == [id |-> id, info |-> info]
           e == Entry(p)
<1>1. p \in Peer /\ p.id = id
  BY DEF Peer
<1>2. peers \in Seq(Peer) /\ Len(peers) \in Nat
  BY DEF TypeOK
<1>3. /\ e \in 1..Len(peers) + 1
      /\ \/ e = Len(peers) + 1 /\ Matches(id) = {}
         \/ e \in Matches(id) /\ e \in 1..Len(peers) /\ \A i \in Matches(id) : e <= i
  <2>1. CASE Matches(id) = {}
    BY <2>1, <1>1, <1>2 DEF Entry
  <2>2. CASE Matches(id) # {}
    <3>1. e = First(Matches(id))
      BY <2>2, <1>1 DEF Entry
    <3>2. e \in Matches(id) /\ \A i \in Matches(id) : e <= i
      BY <2>2, <3>1, FirstMatches
    <3> QED BY <3>2, <1>2 DEF Matches
  <2> QED BY <2>1, <2>2
<1>4. UNCHANGED <<initialized, nextId, local>> /\ result' = "OK"
  BY DEF AddPeer
<1> HIDE DEF p
<1>5. peers' = [i \in 1..Len(peers) \cup {e} |-> IF i = e THEN p ELSE peers[i]]
  BY DEF AddPeer, p
<1> HIDE DEF e
<1>6. PICK m \in Nat : /\ 1..Len(peers) \cup {e} = 1..m
                       /\ \/ e = Len(peers) + 1 /\ Matches(id) = {} /\ m = Len(peers) + 1
                          \/ e \in Matches(id) /\ m = Len(peers)
  <2>1. CASE e = Len(peers) + 1 /\ Matches(id) = {}
    <3>1. 1..Len(peers) \cup {e} = 1..Len(peers) + 1
      BY <2>1, <1>2
    <3> QED BY <2>1, <3>1, <1>2
  <2>2. CASE e \in Matches(id) /\ e \in 1..Len(peers)
    <3>1. 1..Len(peers) \cup {e} = 1..Len(peers)
      BY <2>2, <1>2
    <3> QED BY <2>2, <3>1, <1>2
  <2> QED BY <2>1, <2>2, <1>3
<1>7. \A i \in 1..m : i # e => i \in 1..Len(peers)
  BY <1>6
<1>8. peers' \in [1..m -> Peer]
  BY <1>1, <1>2, <1>5, <1>6, <1>7
<1>9. peers' \in Seq(Peer) /\ Len(peers') = m
  BY <1>6, <1>8
<1>10. TypeOK'
  BY <1>4, <1>9 DEF TypeOK, Results, Peer
<1>11. peers'[e] = p /\ e \in 1..m
  BY <1>5, <1>6
<1>12. \A i \in 1..m : i # e => peers'[i] = peers[i]
  BY <1>5, <1>6
<1> QED BY <1>3, <1>6, <1>7, <1>9, <1>10, <1>11, <1>12 DEF p

\* A new entry is one of a new id, and an update writes over the first of its id,
\* so the one behind it stays as it is.
LEMMA AddPeerKeeps ==
  ASSUME IInv, NEW id \in ManualIds, NEW info \in Infos, AddPeer([id |-> id, info |-> info])
  PROVE  IInv'
<1>1. TypeOK' /\ nextId' = nextId /\ Len(peers) \in Nat
  <2>1. TypeOK'
    BY AddPeerWrites DEF IInv
  <2>2. nextId' = nextId
    BY DEF AddPeer
  <2>3. Len(peers) \in Nat
    BY DEF IInv, TypeOK
  <2> QED BY <2>1, <2>2, <2>3
<1>2. PICK e \in 1..Len(peers) + 1 :
        /\ \/ e = Len(peers) + 1 /\ Matches(id) = {} /\ Len(peers') = Len(peers) + 1
           \/ /\ e \in Matches(id) /\ Len(peers') = Len(peers)
              /\ \A i \in Matches(id) : e <= i
        /\ e \in 1..Len(peers')
        /\ peers'[e] = [id |-> id, info |-> info]
        /\ \A i \in 1..Len(peers') : i # e => i \in 1..Len(peers) /\ peers'[i] = peers[i]
  BY AddPeerWrites DEF IInv
<1>3. ASSUME NEW i \in 1..Len(peers'), NEW j \in 1..Len(peers'),
             peers'[i].id = peers'[j].id, i < j
      PROVE  /\ peers'[i].id \in ManualIds /\ peers'[i].id < nextId'
             /\ peers'[j].info = Trusted
             /\ \A k \in 1..Len(peers') : peers'[k].id = peers'[i].id => k \in {i, j}
  <2>1. CASE e = Len(peers) + 1 /\ Matches(id) = {} /\ Len(peers') = Len(peers) + 1
    <3>1. \A k \in 1..Len(peers') : k # e => peers'[k].id # id
      BY <1>2, <2>1 DEF Matches
    <3>2. i # e /\ j # e /\ peers'[i].id # id
      BY <1>2, <1>3, <3>1
    <3>3. /\ i \in 1..Len(peers) /\ peers'[i] = peers[i]
          /\ j \in 1..Len(peers) /\ peers'[j] = peers[j]
      BY <1>2, <3>2
    <3>4. /\ peers[i].id \in ManualIds /\ peers[i].id < nextId
          /\ peers[j].info = Trusted
          /\ \A k \in 1..Len(peers) : peers[k].id = peers[i].id => k \in {i, j}
      BY <1>3, <3>3 DEF IInv, SharedIdWasChosen
    <3> QED BY <1>1, <1>2, <3>2, <3>3, <3>4
  <2>2. CASE /\ e \in Matches(id) /\ Len(peers') = Len(peers)
             /\ \A k \in Matches(id) : e <= k
    <3>1. \A k \in 1..Len(peers) : peers'[k].id = peers[k].id
      BY <1>2, <2>2 DEF Matches
    <3>2. /\ peers[i].id \in ManualIds /\ peers[i].id < nextId
          /\ peers[j].info = Trusted
          /\ \A k \in 1..Len(peers) : peers[k].id = peers[i].id => k \in {i, j}
      BY <1>3, <2>2, <3>1 DEF IInv, SharedIdWasChosen
    <3>3. j # e
      <4> SUFFICES ASSUME j = e PROVE FALSE
        OBVIOUS
      <4>1. i \in Matches(id)
        BY <1>2, <1>3, <2>2, <3>1 DEF Matches
      <4>2. e <= i
        BY <2>2, <4>1
      <4> QED BY <1>3, <4>2
    <3>4. peers'[j] = peers[j]
      BY <1>2, <3>3
    <3> QED BY <1>1, <2>2, <3>1, <3>2, <3>4
  <2> QED BY <1>2, <2>1, <2>2
<1>4. SharedIdWasChosen'
  BY <1>3 DEF SharedIdWasChosen
<1> QED BY <1>1, <1>4 DEF IInv

\* The entries behind the one that goes move up.
LEMMA RemovedIs ==
  ASSUME TypeOK, NEW id, RemovePeer(id)
  PROVE  /\ TypeOK'
         /\ \E k \in 1..Len(peers) :
              /\ peers[k].id = id
              /\ Len(peers') = Len(peers) - 1
              /\ \A i \in 1..Len(peers') : peers'[i] = peers[IF i < k THEN i ELSE i + 1]
<1> DEFINE k == First(Matches(id))
<1>1. k \in 1..Len(peers) /\ peers[k].id = id
  BY FirstMatches DEF RemovePeer, Matches
<1>2. peers \in Seq(Peer) /\ Len(peers) \in Nat
  BY DEF TypeOK
<1>3. UNCHANGED <<initialized, nextId, local>> /\ result' = "OK" /\ peers' = Without(k)
  BY DEF RemovePeer
<1> HIDE DEF k
<1>4. /\ peers' \in Seq(Peer)
      /\ Len(peers') = Len(peers) - 1
      /\ \A i \in 1..Len(peers') : peers'[i] = peers[IF i < k THEN i ELSE i + 1]
  <2> DEFINE front == SubSeq(peers, 1, k - 1)
             back  == SubSeq(peers, k + 1, Len(peers))
  <2>1. /\ front \in Seq(Peer)
        /\ Len(front) = k - 1
        /\ \A i \in 1..k - 1 : front[i] = peers[i]
    BY <1>1, <1>2
  <2>2. /\ back \in Seq(Peer)
        /\ Len(back) = Len(peers) - k
        /\ \A i \in 1..Len(peers) - k : back[i] = peers[k + i]
    BY <1>1, <1>2
  <2>3. peers' = front \o back
    BY <1>3 DEF Without
  <2> HIDE DEF front, back
  <2>4. /\ front \o back \in Seq(Peer)
        /\ Len(front \o back) = Len(front) + Len(back)
        /\ \A i \in 1..Len(front) : (front \o back)[i] = front[i]
        /\ \A i \in Len(front) + 1..Len(front) + Len(back) :
              (front \o back)[i] = back[i - Len(front)]
    BY <2>1, <2>2, AppendedIs
  <2>5. peers' \in Seq(Peer) /\ Len(peers') = Len(peers) - 1
    BY <2>1, <2>2, <2>3, <2>4, <1>1, <1>2
  <2>6. ASSUME NEW i \in 1..Len(peers'), i < k
        PROVE  peers'[i] = peers[i]
    BY <2>1, <2>3, <2>4, <2>6, <1>1, <1>2
  <2>7. ASSUME NEW i \in 1..Len(peers'), ~(i < k)
        PROVE  peers'[i] = peers[i + 1]
    <3>1. i \in Len(front) + 1..Len(front) + Len(back)
      BY <2>1, <2>2, <2>5, <2>7, <1>1, <1>2
    <3>2. i - Len(front) \in 1..Len(peers) - k /\ k + (i - Len(front)) = i + 1
      BY <2>1, <2>2, <3>1, <1>1, <1>2
    <3> QED BY <2>2, <2>3, <2>4, <3>1, <3>2
  <2> QED BY <2>5, <2>6, <2>7
<1>5. TypeOK'
  BY <1>3, <1>4 DEF TypeOK, Results, Peer
<1> QED BY <1>1, <1>4, <1>5

\* Who is left keeps its order, and none is met twice on the way.
LEMMA RemovePeerKeeps ==
  ASSUME IInv, NEW id, RemovePeer(id)
  PROVE  IInv'
<1>1. TypeOK' /\ nextId' = nextId
  BY RemovedIs DEF IInv, RemovePeer
<1>2. PICK gone \in 1..Len(peers) :
         /\ Len(peers') = Len(peers) - 1
         /\ \A i \in 1..Len(peers') : peers'[i] = peers[IF i < gone THEN i ELSE i + 1]
  BY RemovedIs DEF IInv
<1> DEFINE from(i) == IF i < gone THEN i ELSE i + 1
<1>3. Len(peers) \in Nat
  BY DEF IInv, TypeOK
<1>4. \A i \in 1..Len(peers') : from(i) \in 1..Len(peers) /\ peers'[i] = peers[from(i)]
  BY <1>2, <1>3
<1>5. \A i, j \in 1..Len(peers') : /\ i < j => from(i) < from(j)
                                   /\ from(i) = from(j) => i = j
  BY <1>2, <1>3
<1> HIDE DEF from
<1>6. ASSUME NEW i \in 1..Len(peers'), NEW j \in 1..Len(peers'),
             peers'[i].id = peers'[j].id, i < j
      PROVE  /\ peers'[i].id \in ManualIds /\ peers'[i].id < nextId'
             /\ peers'[j].info = Trusted
             /\ \A k \in 1..Len(peers') : peers'[k].id = peers'[i].id => k \in {i, j}
  <2>1. /\ from(i) \in 1..Len(peers) /\ from(j) \in 1..Len(peers) /\ from(i) < from(j)
        /\ peers[from(i)].id = peers[from(j)].id
    BY <1>4, <1>5, <1>6
  <2>2. /\ peers[from(i)].id \in ManualIds /\ peers[from(i)].id < nextId
        /\ peers[from(j)].info = Trusted
        /\ \A k \in 1..Len(peers) : peers[k].id = peers[from(i)].id => k \in {from(i), from(j)}
    BY <2>1 DEF IInv, SharedIdWasChosen
  <2>3. ASSUME NEW k \in 1..Len(peers'), peers'[k].id = peers'[i].id
        PROVE  k \in {i, j}
    <3>1. from(k) = from(i) \/ from(k) = from(j)
      BY <1>4, <2>2, <2>3
    <3> QED BY <1>5, <3>1
  <2> QED BY <1>1, <1>4, <2>2, <2>3
<1>7. SharedIdWasChosen'
  BY <1>6 DEF SharedIdWasChosen
<1> QED BY <1>1, <1>7 DEF IInv

\* An empty list has no id twice.
LEMMA ClearPeersKeeps == ASSUME TypeOK, ClearPeers
                         PROVE  TypeOK' /\ SharedIdWasChosen' /\ Len(peers') = 0
  BY DEF TypeOK, SharedIdWasChosen, ClearPeers, Results, Peer

\* The calls that leave the list alone.
Reading == \/ InitializeRefused
           \/ Discover
           \/ GetPeers
           \/ RegisterNode
           \/ Broadcast
           \/ AddPeerRefused
           \/ \E id \in RemovableIds : RemoveRefused(id)

\* They keep the types, too.
LEMMA ReadingKeeps == ASSUME TypeOK, Reading \/ UNCHANGED vars
                      PROVE  TypeOK' /\ UNCHANGED <<peers, nextId>>
<1>1. UNCHANGED <<peers, nextId, initialized>> /\ local' \in {"unset", "set"} /\ result' \in Results
  BY DEF TypeOK, Reading, vars, InitializeRefused, Discover, GetPeers, RegisterNode, Broadcast,
         AddPeerRefused, RemoveRefused, Results
<1> QED BY <1>1 DEF TypeOK, Peer

\* Every step keeps the types, whatever ids callers use.
LEMMA TypeStep == TypeOK /\ [Next]_vars => TypeOK'
<1> SUFFICES ASSUME TypeOK, [Next]_vars PROVE TypeOK'
  OBVIOUS
<1>1. CASE \E nodes \in NodeLists : Initialize(nodes)
  BY <1>1, InitializeAppends
<1>2. CASE \E id \in ManualIds, info \in Infos : AddPeer([id |-> id, info |-> info])
  BY <1>2, AddPeerWrites
<1>3. CASE \E id \in RemovableIds : RemovePeer(id)
  BY <1>3, RemovedIs
<1>4. CASE ClearPeers
  BY <1>4, ClearPeersKeeps
<1>5. CASE Reading \/ UNCHANGED vars
  BY <1>5, ReadingKeeps
<1> QED BY <1>1, <1>2, <1>3, <1>4, <1>5 DEF Next, Reading

\* Every step keeps the invariant.
LEMMA FederationStep == IInv /\ [Next]_vars => IInv'
<1> SUFFICES ASSUME IInv, [Next]_vars PROVE IInv'
  OBVIOUS
<1>1. CASE \E nodes \in NodeLists : Initialize(nodes)
  BY <1>1, InitializeKeeps
<1>2. CASE \E id \in ManualIds, info \in Infos : AddPeer([id |-> id, info |-> info])
  BY <1>2, AddPeerKeeps
<1>3. CASE \E id \in RemovableIds : RemovePeer(id)
  BY <1>3, RemovePeerKeeps
<1>4. CASE ClearPeers
  BY <1>4, ClearPeersKeeps DEF IInv
<1>5. CASE Reading \/ UNCHANGED vars
  BY <1>5, ReadingKeeps DEF IInv, SharedIdWasChosen
<1> QED BY <1>1, <1>2, <1>3, <1>4, <1>5 DEF Next, Reading

\* Two peers of a federation share an id only if a caller of add_peer chose it before
\* initialize() counted it up (federation.cpp:49), and never three, whatever ids
\* callers use and however often they initialize, clear and remove.
THEOREM FederationSharedIdWasChosen == Spec => []SharedIdWasChosen
<1>1. Init => IInv
  BY FederationInit
<1>2. IInv /\ [Next]_vars => IInv'
  BY FederationStep
<1>3. IInv => SharedIdWasChosen
  BY DEF IInv
<1> QED BY <1>1, <1>2, <1>3, PTL DEF Spec

\* Every variable of a federation keeps its range, whatever ids callers use.
LEMMA FederationTypeOK == Spec => []TypeOK
<1>1. Init => TypeOK
  BY FederationInit DEF IInv
<1> QED BY <1>1, TypeStep, PTL DEF Spec

\* The array is overrun by one call only, an initialize() that finds peers in it
\* (federation.cpp:45): on an empty list its loop ends with the array, and add_peer
\* looks at the count first (federation.cpp:167).
THEOREM FederationOverrunNeedsPeers == Spec => OverrunNeedsPeers
<1> DEFINE Overrun == Len(peers') > Len(peers) /\ Len(peers') > Capacity
<1>1. TypeOK /\ [Next]_vars => (Overrun => peers # <<>> /\ nextId' > nextId)
  <2> SUFFICES ASSUME TypeOK, [Next]_vars, Overrun PROVE peers # <<>> /\ nextId' > nextId
    OBVIOUS
  <2> USE FederationAssumption
  <2>1. Len(peers) \in Nat /\ nextId \in Nat
    BY DEF TypeOK
  <2>2. ASSUME NEW nodes \in NodeLists, Initialize(nodes)
        PROVE  peers # <<>> /\ nextId' > nextId
    <3> DEFINE n == Cardinality(Reached(nodes))
    <3>1. n \in Nat /\ n <= Capacity /\ Len(peers') = Len(peers) + n /\ nextId' = nextId + n
      BY <2>2, InitializeAppends
    <3> HIDE DEF n
    <3>2. n > 0 /\ Len(peers) > 0
      BY <2>1, <3>1
    <3> QED BY <2>1, <3>1, <3>2
  <2>3. ASSUME NEW id \in ManualIds, NEW info \in Infos, AddPeer([id |-> id, info |-> info])
        PROVE  FALSE
    <3>1. Len(peers) < Capacity
      BY <2>1, <2>3 DEF AddPeer, Full
    <3>2. Len(peers') = Len(peers) \/ Len(peers') = Len(peers) + 1
      BY <2>3, AddPeerWrites
    <3> QED BY <2>1, <3>1, <3>2
  <2>4. ASSUME NEW id, RemovePeer(id) PROVE FALSE
    BY <2>1, <2>4, RemovedIs
  <2>5. CASE ClearPeers
    BY <2>1, <2>5, ClearPeersKeeps
  <2>6. CASE Reading \/ UNCHANGED vars
    BY <2>1, <2>6, ReadingKeeps
  <2> QED BY <2>2, <2>3, <2>4, <2>5, <2>6 DEF Next, Reading
<1> QED BY <1>1, FederationTypeOK, PTL DEF Spec, OverrunNeedsPeers

\* Of peers that stay at their places, the one that is alone with its id after the
\* call is found where it was.
LEMMA SamePlacesInOrder ==
  ASSUME \A i \in 1..Len(peers) : i \in 1..Len(peers') /\ peers'[i].id = peers[i].id,
         NEW i \in 1..Len(peers), NEW j \in 1..Len(peers), i < j,
         NEW k \in 1..Len(peers'), NEW l \in 1..Len(peers'),
         peers'[k].id = peers[i].id, peers'[l].id = peers[j].id,
         Alone(k)', Alone(l)'
  PROVE  k < l
<1>1. k = i /\ l = j
  BY DEF Alone
<1> QED BY <1>1

\* Of two peers in the list before and after a call with ids of their own, the one in
\* front stays in front (federation.cpp:175 and 193): an update writes in place, and
\* whoever goes is closed up on from behind.
THEOREM FederationOrderKept == Spec => OrderKept
<1> DEFINE InOrder ==
      \A i, j \in 1..Len(peers) : i < j /\ Alone(i) /\ Alone(j) =>
        \A k, l \in 1..Len(peers') :
          /\ peers'[k].id = peers[i].id /\ Alone(k)'
          /\ peers'[l].id = peers[j].id /\ Alone(l)'
          => k < l
<1>1. TypeOK /\ TypeOK' /\ [Next]_vars => InOrder
  <2> SUFFICES ASSUME TypeOK, TypeOK', [Next]_vars,
                      NEW i \in 1..Len(peers), NEW j \in 1..Len(peers), i < j,
                      Alone(i), Alone(j),
                      NEW k \in 1..Len(peers'), NEW l \in 1..Len(peers'),
                      peers'[k].id = peers[i].id, peers'[l].id = peers[j].id,
                      Alone(k)', Alone(l)'
               PROVE  k < l
    OBVIOUS
  <2>1. Len(peers) \in Nat /\ Len(peers') \in Nat
    BY DEF TypeOK
  <2>2. ASSUME NEW nodes \in NodeLists, Initialize(nodes) PROVE k < l
    <3>1. \A q \in 1..Len(peers) : q \in 1..Len(peers') /\ peers'[q].id = peers[q].id
      <4> DEFINE n == Cardinality(Reached(nodes))
      <4>1. /\ n \in Nat
            /\ Len(peers') = Len(peers) + n
            /\ \A q \in 1..Len(peers) : peers'[q] = peers[q]
        BY <2>2, InitializeAppends
      <4> HIDE DEF n
      <4> QED BY <2>1, <4>1
    <3> QED BY <3>1, SamePlacesInOrder
  <2>3. ASSUME NEW id \in ManualIds, NEW info \in Infos, AddPeer([id |-> id, info |-> info])
        PROVE  k < l
    <3>1. PICK e \in 1..Len(peers) + 1 :
             /\ \/ e = Len(peers) + 1 /\ Len(peers') = Len(peers) + 1
                \/ e \in Matches(id) /\ Len(peers') = Len(peers)
             /\ peers'[e] = [id |-> id, info |-> info]
             /\ \A q \in 1..Len(peers') : q # e => peers'[q] = peers[q]
      BY <2>3, AddPeerWrites
    <3>2. \A q \in 1..Len(peers) : q \in 1..Len(peers') /\ peers'[q].id = peers[q].id
      BY <2>1, <3>1 DEF Matches
    <3> QED BY <3>2, SamePlacesInOrder
  <2>4. ASSUME NEW id, RemovePeer(id) PROVE k < l
    <3>1. PICK gone \in 1..Len(peers) :
             /\ Len(peers') = Len(peers) - 1
             /\ \A q \in 1..Len(peers') : peers'[q] = peers[IF q < gone THEN q ELSE q + 1]
      BY <2>4, RemovedIs
    <3> DEFINE from(q) == IF q < gone THEN q ELSE q + 1
    <3>2. from(k) \in 1..Len(peers) /\ from(l) \in 1..Len(peers)
      BY <2>1, <3>1
    <3>3. peers[from(k)].id = peers[i].id /\ peers[from(l)].id = peers[j].id
      BY <3>1
    <3>4. from(k) = i /\ from(l) = j
      BY <3>2, <3>3 DEF Alone
    <3> QED BY <2>1, <3>1, <3>4
  <2>5. CASE ClearPeers
    BY <2>5, <2>1, ClearPeersKeeps
  <2>6. CASE Reading \/ UNCHANGED vars
    <3>1. UNCHANGED peers
      BY <2>6, ReadingKeeps
    <3> QED BY <3>1, SamePlacesInOrder
  <2> QED BY <2>2, <2>3, <2>4, <2>5, <2>6 DEF Next, Reading
<1> QED BY <1>1, FederationTypeOK, PTL DEF Spec, OrderKept

\* An array holds no more different entries than it has places.
LEMMA EntriesAtMost ==
  ASSUME NEW f, NEW S, IsFiniteSet(S)
  PROVE  IsFiniteSet({f[i] : i \in S}) /\ Cardinality({f[i] : i \in S}) <= Cardinality(S)
<1> DEFINE T == {f[i] : i \in S}
           g == [i \in S |-> f[i]]
<1>1. g \in Surjection(S, T)
  BY DEF Surjection
<1> HIDE DEF g, T
<1>2. IsFiniteSet(T) /\ Cardinality(T) <= Cardinality(S)
  BY <1>1, FS_Surjection
<1> QED BY <1>2 DEF T

\* The directory is a set of peers, no larger than the list.
LEMMA KnownIs ==
  ASSUME TypeOK
  PROVE  /\ Known \in SUBSET Directory!Peer
         /\ IsFiniteSet(Known)
         /\ Cardinality(Known) <= Len(peers)
<1>1. peers \in Seq(Peer) /\ Len(peers) \in Nat
  BY DEF TypeOK
<1>2. Peer \subseteq Directory!Peer
  BY FederationAssumption DEF Peer, Directory!Peer, TypeOK
<1>3. Known \subseteq Peer
  BY <1>1 DEF Known
<1>4. IsFiniteSet(1..Len(peers)) /\ Cardinality(1..Len(peers)) = Len(peers)
  BY <1>1, FS_Interval
<1>5. IsFiniteSet(Known) /\ Cardinality(Known) <= Len(peers)
  BY <1>4, EntriesAtMost DEF Known
<1> QED BY <1>2, <1>3, <1>5

\* The directory counts as the list does.
LEMMA SameCardinality == \A S : Directory!Cardinality(S) = Cardinality(S)
  BY DEF Directory!Cardinality, Cardinality

\* initialize() is a bootstrap with the entries that it appends, when it finds room.
LEMMA BootstrapStep ==
  ASSUME TypeOK, NEW nodes \in NodeLists, Initialize(nodes), FindsRoom
  PROVE  Directory!Next \/ UNCHANGED Known
<1> DEFINE n == Cardinality(Reached(nodes))
           added == Len(peers) + 1..Len(peers) + n
           new == {peers'[i] : i \in added}
<1>1. /\ n \in Nat
      /\ Len(peers) \in Nat
      /\ nextId \in Nat /\ nextId' = nextId + n
      /\ Len(peers') = Len(peers) + n
      /\ \A i \in 1..Len(peers) : peers'[i] = peers[i]
      /\ \A i \in added : peers'[i].id = nextId + (i - Len(peers)) - 1
      /\ TypeOK'
  BY InitializeAppends DEF TypeOK
<1> HIDE DEF n
<1>2. 1..Len(peers') = 1..Len(peers) \cup added
  BY <1>1
<1>3. Known' = Known \cup new
  BY <1>1, <1>2 DEF Known
<1>4. new \in SUBSET Directory!Peer
  <2>1. \A i \in added : peers'[i] \in Peer'
    BY <1>1, <1>2 DEF TypeOK
  <2>2. Peer' \subseteq Directory!Peer
    BY <1>1, FederationAssumption DEF Peer, Directory!Peer, TypeOK
  <2> QED BY <2>1, <2>2
<1>10. CASE n = 0
  <2>1. added = {}
    BY <1>1, <1>10
  <2> QED BY <1>3, <2>1
<1>11. ASSUME n # 0
       PROVE  /\ \A i \in 1..Len(peers) : peers[i].id \notin nextId..nextId' - 1
              /\ Len(peers) + n <= Capacity
  <2> DEFINE counted == nextId..nextId' - 1
  <2>4. nextId \in Int /\ nextId' - 1 \in Int /\ nextId <= nextId' - 1 /\ nextId' - 1 - nextId + 1 = n
    BY <1>1, <1>11
  <2>1. nextId \in counted /\ Cardinality(counted) = n
    BY <2>4, FS_Interval
  <2>2. counted # {}
    BY <2>1
  <2> HIDE DEF counted
  <2>3. /\ \A i \in 1..Len(peers) : peers[i].id \notin counted
        /\ Len(peers) + Cardinality(counted) <= Capacity
    BY <2>2 DEF FindsRoom, counted
  <2> QED BY <2>1, <2>3 DEF counted
<1> SUFFICES ASSUME n # 0 PROVE Directory!Next
  BY <1>10
<1>5. {p.id : p \in new} \cap Directory!KnownIds = {}
  <2> SUFFICES ASSUME NEW i \in added, NEW j \in 1..Len(peers), peers'[i].id = peers[j].id
               PROVE  FALSE
    BY DEF Directory!KnownIds, Known
  <2>1. peers'[i].id \in nextId..nextId' - 1
    BY <1>1
  <2> QED BY <1>11, <2>1
<1>6. Cardinality(Known) + Cardinality(new) <= Capacity
  <2>5. n \in Nat /\ Len(peers) \in Nat
    BY <1>1
  <2>1. IsFiniteSet(added) /\ Cardinality(added) = n
    BY <2>5, FS_Interval
  <2>2. IsFiniteSet(new) /\ Cardinality(new) <= n
    BY <2>1, EntriesAtMost
  <2>3. IsFiniteSet(Known) /\ Cardinality(Known) <= Len(peers)
    BY <1>1, KnownIs
  <2>4. Cardinality(new) \in Nat /\ Cardinality(Known) \in Nat
    BY <2>2, <2>3, FS_CardinalityType
  <2> HIDE DEF new, added
  <2> QED BY <1>1, <1>11, <2>2, <2>3, <2>4, FederationAssumption
<1> HIDE DEF new
<1>7. PICK S : S = new
  OBVIOUS
<1>8. Directory!Bootstrap(S)
  BY <1>3, <1>5, <1>6, <1>7, SameCardinality DEF Directory!Bootstrap, Known
<1>9. S \in SUBSET Directory!Peer
  BY <1>4, <1>7
<1> QED BY <1>8, <1>9 DEF Directory!Next

\* add_peer puts a peer, in place of the one of its id.
LEMMA PutStep ==
  ASSUME TypeOK, IdsUnique, NEW id \in ManualIds, NEW info \in Infos, AddPeer([id |-> id, info |-> info])
  PROVE  Directory!Next
<1> DEFINE p == [id |-> id, info |-> info]
<1>1. Len(peers) \in Nat /\ Len(peers) < Capacity /\ TypeOK
  BY FederationAssumption DEF TypeOK, AddPeer, Full
<1>2. PICK e \in 1..Len(peers) + 1 :
        /\ \/ e = Len(peers) + 1 /\ Matches(id) = {} /\ Len(peers') = Len(peers) + 1
           \/ e \in Matches(id) /\ Len(peers') = Len(peers)
        /\ e \in 1..Len(peers')
        /\ peers'[e] = [id |-> id, info |-> info]
        /\ \A i \in 1..Len(peers') : i # e => i \in 1..Len(peers) /\ peers'[i] = peers[i]
  BY <1>1, AddPeerWrites
<1>3. \A i \in 1..Len(peers) : peers[i].id = id <=> i = e
  BY <1>1, <1>2 DEF Matches, IdsUnique
<1>4. \A i \in 1..Len(peers) : i # e => i \in 1..Len(peers') /\ peers'[i] = peers[i]
  BY <1>1, <1>2
<1>5. Known' = {q \in Known : q.id # p.id} \cup {p}
  <2>1. ASSUME NEW i \in 1..Len(peers')
        PROVE  peers'[i] \in {q \in Known : q.id # p.id} \cup {p}
    BY <1>2, <1>3, <2>1 DEF Known
  <2>2. ASSUME NEW i \in 1..Len(peers), peers[i].id # p.id
        PROVE  peers[i] \in Known'
    BY <1>3, <1>4, <2>2 DEF Known
  <2>3. p \in Known'
    BY <1>2 DEF Known
  <2> QED BY <2>1, <2>2, <2>3 DEF Known
<1>6. Cardinality(Known) < Capacity
  BY <1>1, KnownIs, FS_CardinalityType, FederationAssumption
<1>7. p \in Directory!Peer
  BY DEF Directory!Peer
<1> HIDE DEF p
<1>8. Directory!Put(p)
  BY <1>5, <1>6, SameCardinality DEF Directory!Put, Known
<1> QED BY <1>7, <1>8 DEF Directory!Next

\* remove_peer forgets whom it was called for, and nobody else.
LEMMA ForgetStep ==
  ASSUME TypeOK, IdsUnique, NEW id \in RemovableIds, RemovePeer(id)
  PROVE  Directory!Next
<1>1. PICK k \in 1..Len(peers) :
        /\ peers[k].id = id
        /\ Len(peers') = Len(peers) - 1
        /\ \A i \in 1..Len(peers') : peers'[i] = peers[IF i < k THEN i ELSE i + 1]
  BY RemovedIs
<1>2. peers \in Seq(Peer) /\ Len(peers) \in Nat /\ TypeOK
  BY DEF TypeOK
<1>3. \A i \in 1..Len(peers) : peers[i].id = id <=> i = k
  BY <1>1 DEF IdsUnique
<1>4. Known' = {q \in Known : q.id # id}
  <2>1. ASSUME NEW i \in 1..Len(peers')
        PROVE  peers'[i] \in {q \in Known : q.id # id}
    <3> DEFINE j == IF i < k THEN i ELSE i + 1
    <3>1. j \in 1..Len(peers) /\ j # k
      BY <1>1, <1>2
    <3>2. peers'[i] = peers[j]
      BY <1>1
    <3> HIDE DEF j
    <3> QED BY <1>3, <3>1, <3>2 DEF Known
  <2>2. ASSUME NEW j \in 1..Len(peers), peers[j].id # id
        PROVE  peers[j] \in Known'
    <3> DEFINE i == IF j < k THEN j ELSE j - 1
    <3>1. j # k
      BY <1>3, <2>2
    <3>2. i \in 1..Len(peers') /\ j = IF i < k THEN i ELSE i + 1
      BY <1>1, <1>2, <3>1
    <3> HIDE DEF i
    <3>3. peers'[i] = peers[j]
      BY <1>1, <3>2
    <3> QED BY <3>2, <3>3 DEF Known
  <2> QED BY <2>1, <2>2 DEF Known
<1>5. id \in Directory!KnownIds
  BY <1>1 DEF Directory!KnownIds, Known
<1>6. Directory!Forget(id)
  BY <1>4, <1>5 DEF Directory!Forget, Known
<1>7. id \in 1..MaxId \cup ManualIds
  <2>1. peers[k] \in Peer
    BY <1>2
  <2> QED BY <1>1, <1>2, <2>1, FederationAssumption DEF Peer, TypeOK
<1> QED BY <1>6, <1>7 DEF Directory!Next

\* Every call on a directory that finds room is a step of the directory, or none.
LEMMA DirectoryStep ==
  ASSUME TypeOK, IdsUnique, FindsRoom, [Next]_vars
  PROVE  Directory!Next \/ UNCHANGED Known
<1>1. CASE \E nodes \in NodeLists : Initialize(nodes)
  BY <1>1, BootstrapStep
<1>2. CASE \E id \in ManualIds, info \in Infos : AddPeer([id |-> id, info |-> info])
  BY <1>2, PutStep
<1>3. CASE \E id \in RemovableIds : RemovePeer(id)
  BY <1>3, ForgetStep
<1>4. CASE ClearPeers
  <2>1. Len(peers') = 0
    BY <1>4, ClearPeersKeeps
  <2>2. Known' = {}
    BY <2>1 DEF Known
  <2> QED BY <2>2 DEF Directory!Next, Directory!Clear, Known
<1>5. CASE Reading \/ UNCHANGED vars
  BY <1>5, ReadingKeeps DEF Known
<1> QED BY <1>1, <1>2, <1>3, <1>4, <1>5 DEF Next, Reading

\* As long as ids are unique and the list fits, each call does to the list what a
\* directory by id does, but for an initialize() that counts up an id of the list or
\* finds too few places (federation.cpp:45 and 49), whatever callers do.
THEOREM FederationImplementsDirectory == Spec => ImplementsDirectory
<1>1. Init => Directory!Init
  BY DEF Init, Directory!Init, Known
<1>2. TypeOK /\ [Next]_vars =>
        (IdsUnique /\ WithinCapacity /\ FindsRoom => Directory!Next \/ UNCHANGED Known)
  BY DirectoryStep
<1> QED BY <1>1, <1>2, FederationTypeOK, PTL DEF Spec, ImplementsDirectory
=============================================================================
