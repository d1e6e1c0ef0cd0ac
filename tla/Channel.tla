------------------------------ MODULE Channel ------------------------------
(***************************************************************************)
(* What every transport of the library promises to the caller of open,     *)
(* close, send and recv, whatever carries the data: a session-scoped       *)
(* channel that may lose units but never repeats or invents one, never     *)
(* carries a unit over a close, and, when it is Ordered, never overtakes.   *)
(* A unit is a whole message for the datagram-like transports and a byte   *)
(* for the stream one; units are numbered in the order they are accepted,  *)
(* over all sessions, so that a unit's number is also its age.             *)
(* The modules of the transports are shown to implement this one.          *)
(***************************************************************************)
EXTENDS Naturals

CONSTANT Ordered      \* TRUE iff the transport promises to keep the order

VARIABLES
  session,    \* "open" or "closed"
  accepted,   \* how many units all the sessions have accepted so far
  pending,    \* units of this session accepted and not yet handed over
  delivered   \* units this session has handed to the caller of recv

vars == <<session, accepted, pending, delivered>>

Init ==
  /\ session = "closed"
  /\ accepted = 0
  /\ pending = {}
  /\ delivered = {}

Open ==
  /\ session = "closed"
  /\ session' = "open"
  /\ pending' = {}
  /\ delivered' = {}
  /\ UNCHANGED accepted

Close ==
  /\ session = "open"
  /\ session' = "closed"
  /\ pending' = {}
  /\ UNCHANGED <<accepted, delivered>>

(* Units accepted+1 .. accepted' join the channel; some of them may be     *)
(* lost on the way in.                                                     *)
Accept ==
  /\ session = "open"
  /\ accepted' \in Nat
  /\ accepted < accepted'
  /\ pending \subseteq pending'
  /\ pending' \ pending \subseteq accepted + 1 .. accepted'
  /\ UNCHANGED <<session, delivered>>

(* Some pending units, the oldest ones if the channel is Ordered, are      *)
(* handed to the caller.                                                   *)
Deliver ==
  /\ session = "open"
  /\ \E batch \in SUBSET pending :
        /\ Ordered => \A u \in batch, v \in pending \ batch : u < v
        /\ delivered' = delivered \cup batch
        /\ pending' = pending \ batch
  /\ UNCHANGED <<session, accepted>>

(* Some pending units are lost.                                            *)
Lose ==
  /\ pending' \subseteq pending
  /\ UNCHANGED <<session, accepted, delivered>>

Next == Open \/ Close \/ Accept \/ Deliver \/ Lose

Spec == Init /\ [][Next]_vars

-----------------------------------------------------------------------------

TypeOK ==
  /\ session \in {"open", "closed"}
  /\ accepted \in Nat
  /\ pending \in SUBSET Nat
  /\ delivered \in SUBSET Nat

(* Nothing is handed over or waiting that was not accepted before: the     *)
(* receive paths of the transports invent no data.                         *)
NothingInvented == \A u \in pending \cup delivered : u <= accepted

(* What was handed over is not waiting any more, so that no later recv can *)
(* return it again.                                                        *)
AtMostOnce == pending \cap delivered = {}

(* In an ordered transport whatever waits is younger than all that recv    *)
(* has returned, so that no later recv can return an older unit.           *)
InOrder == Ordered => \A u \in delivered, v \in pending : u < v
=============================================================================
