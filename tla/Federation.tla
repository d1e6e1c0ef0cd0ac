---------------------------- MODULE Federation -----------------------------
(***************************************************************************)
(* SimpleFederation (src/federation/federation.cpp): a list of peers in an *)
(* array of peer_capacity entries, filled from bootstrap nodes under ids   *)
(* the federation counts up, and by add_peer under ids the caller chooses. *)
(*                                                                         *)
(* Of a peer the model keeps the id and an info that stands for address,   *)
(* port, capabilities and trust.  send_to_peer is a stub, so broadcast,    *)
(* like get_peers and discover_peers, leaves the list alone.               *)
(*                                                                         *)
(* Nothing keeps initialize() from writing past the end of the array, nor  *)
(* from counting up an id that add_peer has taken.  Both happen here.  Of  *)
(* what a write behind the array may do, the model has the outcome in      *)
(* which nothing else breaks: the list is longer than the array.           *)
(***************************************************************************)
EXTENDS Integers, Sequences, FiniteSets

CONSTANTS ManualIds,  \* ids that callers of add_peer and remove_peer use
          Infos,      \* what may be known of a peer
          Trusted,    \* the info of a bootstrap node
          Capacity,   \* peer_capacity: 100
          MaxNodes,   \* bound on the bootstrap nodes of one call
          MaxId       \* bound on the ids counted up

ASSUME FederationAssumption == /\ Capacity \in Nat
                               /\ ManualIds \subseteq Nat
                               /\ MaxNodes \in Nat
                               /\ MaxId \in Nat
                               /\ Trusted \in Infos

VARIABLES peers,        \* peer_list, up to peer_count
          initialized,  \* is_initialized: "yes" or "no"
          nextId,       \* next_peer_id
          local,        \* local_node_info: "unset" or "set"
          result        \* what the last call returned

vars == <<peers, initialized, nextId, local, result>>

\* Ids are chosen by callers or were counted up before.
Peer == [id : ManualIds \cup 1..nextId - 1, info : Infos]
Results == {"OK", "ERR_INVALID_ARG", "ERR_OUT_OF_MEMORY", "ERR_NOT_FOUND", "ERR_NOT_INITIALIZED"}
Matches(id) == {i \in 1..Len(peers) : peers[i].id = id}
First(S) == CHOOSE i \in S : \A j \in S : i <= j

TypeOK == /\ peers \in Seq(Peer)
          /\ initialized \in {"yes", "no"}
          /\ nextId \in 1..MaxId + 1
          /\ local \in {"unset", "set"}
          /\ result \in Results

Init == /\ peers = <<>>
        /\ initialized = "no"
        /\ nextId = 1
        /\ local = "unset"
        /\ result = "OK"

----------------------------------------------------------------------------
\* variant: the loop takes the nodes for as many as there are places
ReachedAll(nodes) == {i \in 1..Len(nodes) : nodes[i] = "node"}

\* The entries that the loop reaches, null ones left out: it bounds its own counter,
\* and not peer_count.
Reached(nodes) == {i \in 1..Len(nodes) : i <= Capacity /\ nodes[i] = "node"}

\* variant: counts up from the length of the list
IdFromLength == Len(peers) + 1

FirstNewId == nextId

Initialize(nodes) ==
  LET n == Cardinality(Reached(nodes))
  IN  /\ FirstNewId + n - 1 <= MaxId
      /\ peers' = peers \o [i \in 1..n |-> [id |-> FirstNewId + i - 1, info |-> Trusted]]
      /\ nextId' = FirstNewId + n
      /\ initialized' = "yes"
      /\ result' = "OK"
      /\ UNCHANGED local

\* A count without an array.
InitializeRefused == /\ result' = "ERR_INVALID_ARG"
                     /\ UNCHANGED <<peers, initialized, nextId, local>>

\* Null pointers for the answer are refused first, here and in GetPeers.
Discover == /\ \/ result' = "ERR_INVALID_ARG"
               \/ result' = IF initialized = "yes" THEN "OK" ELSE "ERR_NOT_INITIALIZED"
            /\ UNCHANGED <<peers, initialized, nextId, local>>

GetPeers == /\ result' \in {"OK", "ERR_INVALID_ARG"}
            /\ UNCHANGED <<peers, initialized, nextId, local>>

RegisterNode == /\ local' = "set"
                /\ result' = "OK"
                /\ UNCHANGED <<peers, initialized, nextId>>

\* An empty message is refused, by send_to_peer too.
Broadcast == \E size \in 0..1 :
                /\ result' = IF size = 0 THEN "ERR_INVALID_ARG" ELSE "OK"
                /\ UNCHANGED <<peers, initialized, nextId, local>>

\* variant: one entry too many
FullPastOne == Len(peers) > Capacity

Full == Len(peers) >= Capacity

AddPeerRefused == /\ Full
                  /\ result' = "ERR_OUT_OF_MEMORY"
                  /\ UNCHANGED <<peers, initialized, nextId, local>>

\* variant: appends without looking for the id
NewEntry(p) == Len(peers) + 1

\* The entry that add_peer writes: that of the first match, or a new one.
Entry(p) == IF Matches(p.id) = {} THEN Len(peers) + 1 ELSE First(Matches(p.id))

AddPeer(p) == /\ ~Full
              /\ peers' = [i \in 1..Len(peers) \cup {Entry(p)} |->
                             IF i = Entry(p) THEN p ELSE peers[i]]
              /\ result' = "OK"
              /\ UNCHANGED <<initialized, nextId, local>>

\* variant: moves the last entry into the gap
WithoutBySwap(i) == [j \in 1..Len(peers) - 1 |-> IF j = i THEN peers[Len(peers)] ELSE peers[j]]

\* The list without entry i, the later ones moved up.
Without(i) == SubSeq(peers, 1, i - 1) \o SubSeq(peers, i + 1, Len(peers))

RemovePeer(id) == /\ Matches(id) # {}
                  /\ peers' = Without(First(Matches(id)))
                  /\ result' = "OK"
                  /\ UNCHANGED <<initialized, nextId, local>>

RemoveRefused(id) == /\ Matches(id) = {}
                     /\ result' = "ERR_NOT_FOUND"
                     /\ UNCHANGED <<peers, initialized, nextId, local>>

ClearPeers == /\ peers' = <<>>
              /\ initialized' = "no"
              /\ result' = "OK"
              /\ UNCHANGED <<nextId, local>>

\* Callers remove peers by ids they chose or were shown by get_peers.
RemovableIds == ManualIds \cup {peers[i].id : i \in 1..Len(peers)}
NodeLists == UNION {[1..n -> {"node", "null"}] : n \in 0..MaxNodes}

Next == \/ \E nodes \in NodeLists : Initialize(nodes)
        \/ InitializeRefused
        \/ Discover
        \/ GetPeers
        \/ RegisterNode
        \/ Broadcast
        \/ AddPeerRefused
        \/ \E id \in ManualIds, info \in Infos : AddPeer([id |-> id, info |-> info])
        \/ \E id \in RemovableIds : RemovePeer(id) \/ RemoveRefused(id)
        \/ ClearPeers

Spec == Init /\ [][Next]_vars

----------------------------------------------------------------------------
\* peer_id is a "Unique identifier" (federation.h:42).  Spec does not have this
\* property: initialize() looks for no id that add_peer took before.
IdsUnique == \A i, j \in 1..Len(peers) : peers[i].id = peers[j].id => i = j

\* peer_count stays within the array, or the call reports an error ("all errors
\* returned explicitly", README.md:676).  Spec does not have this property: the loop
\* of initialize() bounds its own counter only (federation.cpp:45).
WithinCapacity == Len(peers) <= Capacity

\* Where two peers share an id all the same, a caller had chosen it before the
\* counter came to it (federation.cpp:49), the later one is a bootstrap node as
\* initialize() wrote it, and there is no third.  An id that was counted up does not
\* come back, over removals, clear_peers() and repeated initialize().
SharedIdWasChosen ==
  \A i, j \in 1..Len(peers) : i < j /\ peers[i].id = peers[j].id =>
     /\ peers[i].id \in ManualIds /\ peers[i].id < nextId
     /\ peers[j].info = Trusted
     /\ \A k \in 1..Len(peers) : peers[k].id = peers[i].id => k \in {i, j}

\* One way only leads past the end of the array: initialize() behind peers that are
\* listed already.  On an empty list it stays within, with any number of nodes, and
\* add_peer() does whatever the list is like (federation.cpp:45 and 167).
OverrunNeedsPeers ==
  [][Len(peers') > Len(peers) /\ Len(peers') > Capacity => peers # <<>> /\ nextId' > nextId]_vars

\* Nobody else has the id of entry i.
Alone(i) == \A j \in 1..Len(peers) : peers[j].id = peers[i].id => j = i

\* The list keeps its order: get_peers and discover_peers hand out a prefix of
\* it, so the bootstrap nodes stay in front of whom was met later.  Of two peers with
\* ids of their own before and after a call, the one in front stays in front.
OrderKept ==
  [][\A i, j \in 1..Len(peers) : i < j /\ Alone(i) /\ Alone(j) =>
       \A k, l \in 1..Len(peers') :
          /\ peers'[k].id = peers[i].id /\ Alone(k)'
          /\ peers'[l].id = peers[j].id /\ Alone(l)'
          => k < l]_vars

\* What the list is as a directory keyed by the id.
Known == {peers[i] : i \in 1..Len(peers)}
Directory == INSTANCE PeerDirectory WITH Ids <- 1..MaxId \cup ManualIds, known <- Known

\* The ids that a call counts up are free and there are places for them, or it
\* counts up none.
FindsRoom ==
  LET counted == nextId..nextId' - 1
  IN  counted = {} \/ /\ \A i \in 1..Len(peers) : peers[i].id \notin counted
                      /\ Len(peers) + Cardinality(counted) <= Capacity

\* Every call on a list that is a directory does what a directory does: what matches
\* first is all there is, removals leave nothing of a peer behind, an update
\* replaces, a full list refuses.  Only an initialize() that counts up an id of the
\* list, or more nodes than there are places left, does not.
ImplementsDirectory ==
  /\ Directory!Init
  /\ [][IdsUnique /\ WithinCapacity /\ FindsRoom => Directory!Next \/ UNCHANGED Known]_vars
=============================================================================
