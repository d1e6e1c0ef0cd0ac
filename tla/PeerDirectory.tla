--------------------------- MODULE PeerDirectory ---------------------------
(***************************************************************************)
(* What a federation promises of its peers, whatever keeps them: at most   *)
(* Capacity peers, each known by an id of its own, looked up, replaced and *)
(* forgotten by that id.                                                   *)
(***************************************************************************)
EXTENDS Naturals, FiniteSets

CONSTANTS Ids, Infos, Capacity

VARIABLE known  \* what is known of whom: a set of [id, info]

Peer == [id : Ids, info : Infos]
KnownIds == {p.id : p \in known}

TypeOK == /\ known \subseteq Peer
          /\ Cardinality(known) <= Capacity

Init == known = {}

\* New peers come all at once, under ids that nobody has.
Bootstrap(new) == /\ {p.id : p \in new} \cap KnownIds = {}
                  /\ Cardinality(known) + Cardinality(new) <= Capacity
                  /\ known' = known \cup new

Put(p) == /\ p.id \in KnownIds \/ Cardinality(known) < Capacity
          /\ known' = {q \in known : q.id # p.id} \cup {p}

Forget(id) == /\ id \in KnownIds
              /\ known' = {q \in known : q.id # id}

Clear == known' = {}

Next == \/ \E new \in SUBSET Peer : Bootstrap(new)
        \/ \E p \in Peer : Put(p)
        \/ \E id \in Ids : Forget(id)
        \/ Clear

Spec == Init /\ [][Next]_known
=============================================================================
