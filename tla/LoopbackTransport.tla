------------------------- MODULE LoopbackTransport -------------------------
(***************************************************************************)
(* The in-memory transport of src/transport/loopback.cpp: a static         *)
(* std::queue of messages behind an open flag.  Payloads are abstracted to  *)
(* a size and a number, the order in which send accepted them.             *)
(***************************************************************************)
EXTENDS Naturals, Sequences

CONSTANTS
  MaxMessageSize,   \* MAX_MESSAGE_SIZE
  Size,             \* the buffer sizes callers pass to send and recv
  MaxSends          \* bound: how many messages send accepts in a behaviour

ASSUME LoopbackAssumption ==
  /\ MaxMessageSize \in Nat
  /\ Size \subseteq Nat
  /\ MaxSends \in Nat

VARIABLES
  state,      \* g_loopback_open, as "open" or "closed"
  queue,      \* g_loopback_queue
  ret,        \* what the last call returned
  sent,       \* ghost: how many messages send has accepted
  delivered   \* ghost: the messages recv has returned since the last open

vars == <<state, queue, ret, sent, delivered>>

Message == [id : Nat, size : 0 .. MaxMessageSize]
ErrorCode == {"OK", "ERR_IO", "ERR_FORMAT", "ERR_TIMEOUT"}

Init ==
  /\ state = "closed"
  /\ queue = <<>>
  /\ ret = "OK"
  /\ sent = 0
  /\ delivered = {}

(* The queue after a pop.                                                  *)
Popped == Tail(queue)

(* Clearing the queue, which open() and close() do alike.                  *)
\* variant: the queue is kept
ClearNothing == UNCHANGED queue
Clear == queue' = <<>>

TooLarge(size) == size > MaxMessageSize

(* open() clears the queue even when the transport is already open.        *)
Open ==
  /\ state' = "open"
  /\ Clear
  /\ ret' = "OK"
  /\ delivered' = IF state = "open" THEN delivered ELSE {}
  /\ UNCHANGED sent

Close ==
  /\ state' = "closed"
  /\ Clear
  /\ ret' = "OK"
  /\ UNCHANGED <<sent, delivered>>

Refuse(code) ==
  /\ ret' = code
  /\ UNCHANGED <<state, queue, sent, delivered>>

Send(size) ==
  \/ /\ state = "closed"
     /\ Refuse("ERR_IO")
  \/ /\ state = "open"
     /\ TooLarge(size)
     /\ Refuse("ERR_FORMAT")
  \/ /\ state = "open"
     /\ ~TooLarge(size)
     /\ sent < MaxSends
     /\ queue' = Append(queue, [id |-> sent + 1, size |-> size])
     /\ sent' = sent + 1
     /\ ret' = "OK"
     /\ UNCHANGED <<state, delivered>>

(* recv() takes the message off the queue before it compares the sizes, so *)
(* a message larger than the caller's buffer is gone.                      *)
Recv(size) ==
  \/ /\ state = "closed"
     /\ Refuse("ERR_IO")
  \/ /\ state = "open"
     /\ queue = <<>>
     /\ Refuse("ERR_TIMEOUT")
  \/ /\ state = "open"
     /\ queue # <<>>
     /\ queue' = Popped
     /\ \/ /\ Head(queue).size > size
           /\ ret' = "ERR_FORMAT"
           /\ UNCHANGED delivered
        \/ /\ Head(queue).size <= size
           /\ ret' = "OK"
           /\ delivered' = delivered \cup {Head(queue).id}
     /\ UNCHANGED <<state, sent>>

Next ==
  \/ Open
  \/ Close
  \/ \E size \in Size : Send(size) \/ Recv(size)

Spec == Init /\ [][Next]_vars

(* Callers poll with a buffer that holds any message.                      *)
FairSpec == Spec /\ WF_vars(queue # <<>> /\ Recv(MaxMessageSize))

-----------------------------------------------------------------------------

TypeOK ==
  /\ state \in {"open", "closed"}
  /\ queue \in Seq(Message)
  /\ ret \in ErrorCode
  /\ sent \in Nat
  /\ delivered \in SUBSET Nat

Queued == {queue[i].id : i \in 1 .. Len(queue)}

(* The queue holds, oldest first, messages that send accepted, that recv   *)
(* has not returned, and that are younger than all recv has returned.      *)
QueueInOrder ==
  /\ \A i, j \in 1 .. Len(queue) : i < j => queue[i].id < queue[j].id
  /\ \A i \in 1 .. Len(queue) : queue[i].id <= sent
  /\ \A d \in delivered :
        d <= sent /\ \A i \in 1 .. Len(queue) : d < queue[i].id

(* The transport implements an ordered channel of messages: what a session *)
(* did not fetch dies with it, nothing is repeated, nothing overtakes.      *)
Abstract == INSTANCE Channel WITH
  Ordered <- TRUE, session <- state, accepted <- sent, pending <- Queued
ImplementsChannel == Abstract!Spec
=============================================================================
