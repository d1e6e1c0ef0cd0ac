--------------------------- MODULE UdpTransport ----------------------------
(***************************************************************************)
(* The datagram transport of src/transport/udp.cpp: one socket bound       *)
(* to an ephemeral local port that sends to itself.  send() and recv()      *)
(* block in recvfrom for up to RECV_TIMEOUT_MS, so the network moves while  *)
(* a call is in progress: pc says where the caller is.  A datagram is a     *)
(* number (the order of the sendto), a size and the port it is sent to.     *)
(***************************************************************************)
EXTENDS Naturals, Sequences, SequencesExt

CONSTANTS
  MaxDatagramSize,  \* MAX_DATAGRAM_SIZE
  SendSize,         \* the sizes callers send
  RecvSize,         \* the buffer sizes callers pass to recv
  Port,             \* the ephemeral ports the kernel hands out
  NoPort,           \* local_port, or the peer's port, when there is none
  MaxSends          \* bound: how many datagrams are sent in a behaviour

ASSUME UdpAssumption ==
  /\ MaxDatagramSize \in Nat
  /\ MaxSends \in Nat
  /\ SendSize \subseteq Nat
  /\ RecvSize \subseteq Nat
  /\ NoPort \notin Port

VARIABLES
  state,      \* is_open, as "open" or "closed"
  port,       \* local_port
  peer,       \* peer_addr while has_peer, NoPort otherwise
  queue,      \* recv_queue
  pc,         \* "idle", or in the recvfrom of "send" or "recv"
  want,       \* the size of the buffer of the recv in progress
  ret,        \* what the last call returned
  network,    \* whether it keeps the order: "fifo" or "reorders"
  wire,       \* network: datagrams on their way, oldest first
  buffer,     \* kernel: the socket's receive buffer
  sent,       \* ghost: how many datagrams were sent
  delivered   \* ghost: the datagrams recv has returned since the open

vars == <<state, port, peer, queue, pc, want, ret, network, wire, buffer, sent, delivered>>
netVars == <<network, wire, buffer>>
ghostVars == <<sent, delivered>>

Datagram == [id : Nat, size : 0 .. MaxDatagramSize, to : Port]
ErrorCode == {"OK", "ERR_IO", "ERR_FORMAT", "ERR_TIMEOUT"}

Init ==
  /\ state = "closed"
  /\ port = NoPort
  /\ peer = NoPort
  /\ queue = <<>>
  /\ pc = "idle"
  /\ want = 0
  /\ ret = "OK"
  /\ network \in {"fifo", "reorders"}
  /\ wire = <<>>
  /\ buffer = <<>>
  /\ sent = 0
  /\ delivered = {}

(* A call that returns code at once and changes nothing else.              *)
Refuse(code) ==
  /\ pc = "idle"
  /\ ret' = code
  /\ UNCHANGED <<state, port, peer, queue, pc, want, wire, buffer, sent, delivered, network>>

(* A fresh ephemeral port is not the destination of a datagram in flight.  *)
Open ==
  \/ /\ state = "open"
     /\ Refuse("OK")
  \/ /\ state = "closed"
     /\ Refuse("ERR_IO")        \* socket, bind or getsockname fails
  \/ /\ pc = "idle"
     /\ state = "closed"
     /\ \E p \in Port \ {d.to : d \in ToSet(wire)} : port' = p
     /\ state' = "open"
     /\ ret' = "OK"
     /\ delivered' = {}
     /\ UNCHANGED <<peer, queue, pc, want, wire, buffer, sent, network>>

(* What close() resets besides the socket.                                 *)
\* variant: the peer is kept
ResetButPeer == port' = NoPort /\ queue' = <<>> /\ UNCHANGED peer
\* variant: the queue is kept
ResetButQueue == port' = NoPort /\ peer' = NoPort /\ UNCHANGED queue
Reset == port' = NoPort /\ peer' = NoPort /\ queue' = <<>>

Close ==
  \/ /\ state = "closed"
     /\ Refuse("OK")
  \/ /\ pc = "idle"
     /\ state = "open"
     /\ state' = "closed"
     /\ Reset
     /\ buffer' = <<>>
     /\ ret' = "OK"
     /\ UNCHANGED <<pc, want, wire, sent, delivered, network>>

(* The peer of the socket: its own port, unless a peer is set already.     *)
Peer == IF peer = NoPort THEN port ELSE peer

TooLarge(size) == size > MaxDatagramSize

Send(size) ==
  \/ /\ state = "closed"
     /\ Refuse("ERR_IO")
  \/ /\ state = "open"
     /\ TooLarge(size)
     /\ Refuse("ERR_FORMAT")
  \/ /\ pc = "idle"
     /\ state = "open"
     /\ ~TooLarge(size)
     /\ sent < MaxSends
     /\ peer' = Peer
     /\ \/ /\ ret' = "ERR_IO"    \* sendto fails
           /\ UNCHANGED <<pc, wire, sent>>
        \/ /\ wire' = Append(wire, [id |-> sent + 1, size |-> size, to |-> Peer])
           /\ sent' = sent + 1
           /\ pc' = "send"
           /\ UNCHANGED ret
     /\ UNCHANGED <<state, port, queue, want, buffer, delivered, network>>

(* The queue when the recvfrom of send() returns d.                        *)
\* variant: the datagram is dropped
QueueWithoutEcho(d) == queue
QueueWithEcho(d) == IF d.size > 0 THEN Append(queue, d) ELSE queue

(* The recvfrom at the end of send() finds a datagram, not always the one  *)
(* just sent, and queues it unless it is empty.                            *)
SendEcho ==
  /\ pc = "send"
  /\ buffer # <<>>
  /\ buffer' = Tail(buffer)
  /\ queue' = QueueWithEcho(Head(buffer))
  /\ pc' = "idle"
  /\ ret' = "OK"
  /\ UNCHANGED <<state, port, peer, want, wire, sent, delivered, network>>

(* It times out or fails: send() reports success all the same.             *)
SendNoEcho ==
  /\ pc = "send"
  /\ buffer = <<>>
  /\ pc' = "idle"
  /\ ret' = "OK"
  /\ UNCHANGED <<state, port, peer, queue, want, netVars, ghostVars>>

(* The end of recv(): datagram d, off its queue, against a buffer of size. *)
Hand(d, size) ==
  \/ /\ d.size > size
     /\ ret' = "ERR_FORMAT"
     /\ UNCHANGED delivered
  \/ /\ d.size <= size
     /\ ret' = "OK"
     /\ delivered' = delivered \cup {d.id}

(* recv() turns to the socket only when its queue is empty.                *)
\* variant: the socket is asked first
AlwaysAsk == TRUE
AskSocket == queue = <<>>

Recv(size) ==
  \/ /\ state = "closed"
     /\ Refuse("ERR_IO")
  \/ /\ pc = "idle"
     /\ state = "open"
     /\ \/ /\ AskSocket
           /\ pc' = "recv"
           /\ want' = size
           /\ UNCHANGED <<queue, ret, delivered>>
        \/ /\ queue # <<>>
           /\ queue' = Tail(queue)
           /\ Hand(Head(queue), size)
           /\ UNCHANGED <<pc, want>>
     /\ UNCHANGED <<state, port, peer, wire, buffer, sent, network>>

(* The recvfrom of recv() returns: an empty datagram is taken for a        *)
(* timeout, any other passes through the empty queue to the caller.        *)
RecvArrived ==
  /\ pc = "recv"
  /\ buffer # <<>>
  /\ buffer' = Tail(buffer)
  /\ pc' = "idle"
  /\ \/ /\ Head(buffer).size = 0
        /\ ret' = "ERR_TIMEOUT"
        /\ UNCHANGED delivered
     \/ /\ Head(buffer).size > 0
        /\ Hand(Head(buffer), want)
  /\ UNCHANGED <<state, port, peer, queue, want, wire, sent, network>>

RecvNothing ==
  /\ pc = "recv"
  /\ buffer = <<>>
  /\ pc' = "idle"
  /\ ret' \in {"ERR_TIMEOUT", "ERR_IO"}
  /\ UNCHANGED <<state, port, peer, queue, want, netVars, ghostVars>>

(* A datagram leaves the wire: into the buffer of the socket that is bound *)
(* to its port, if there is one.                                           *)
Arrive(i) ==
  /\ network = "reorders" \/ i = 1
  /\ wire' = RemoveAt(wire, i)
  /\ buffer' = IF wire[i].to = port THEN Append(buffer, wire[i]) ELSE buffer
  /\ UNCHANGED <<state, port, peer, queue, pc, want, ret, ghostVars, network>>

Drop(i) ==
  /\ wire' = RemoveAt(wire, i)
  /\ UNCHANGED <<state, port, peer, queue, pc, want, ret, buffer, ghostVars, network>>

Network == \E i \in DOMAIN wire : Arrive(i) \/ Drop(i)

Next ==
  \/ Open
  \/ Close
  \/ \E size \in SendSize : Send(size)
  \/ \E size \in RecvSize : Recv(size)
  \/ SendEcho
  \/ SendNoEcho
  \/ RecvArrived
  \/ RecvNothing
  \/ Network

Spec == Init /\ [][Next]_vars

(* The kernel delivers or drops what is on the wire, recvfrom returns, and *)
(* the caller keeps polling recv() with a buffer of some size in RecvSize. *)
Fairness ==
  /\ WF_vars(Network)
  /\ WF_vars(SendEcho \/ SendNoEcho)
  /\ WF_vars(RecvArrived \/ RecvNothing)
  /\ WF_vars(state = "open" /\ \E size \in RecvSize : Recv(size))

FairSpec == Spec /\ Fairness

-----------------------------------------------------------------------------

TypeOK ==
  /\ state \in {"open", "closed"}
  /\ port \in Port \cup {NoPort}
  /\ peer \in Port \cup {NoPort}
  /\ queue \in Seq(Datagram)
  /\ pc \in {"idle", "send", "recv"}
  /\ want \in RecvSize \cup {0}
  /\ ret \in ErrorCode
  /\ network \in {"fifo", "reorders"}
  /\ wire \in Seq(Datagram)
  /\ buffer \in Seq(Datagram)
  /\ sent \in 0 .. MaxSends
  /\ delivered \subseteq 1 .. MaxSends

Ids(ds) == {d.id : d \in ToSet(ds)}

(* What this session has accepted and not handed over: in the queue, in    *)
(* the socket, or on the way to it.                                        *)
Pending ==
  Ids(queue) \cup Ids(buffer) \cup {d.id : d \in {e \in ToSet(wire) : e.to = port}}

(* A session never talks to the port of an earlier one, so that what it    *)
(* sends can come back: close() forgets the peer that send() remembered.   *)
PeerIsOwnPort == peer # NoPort => state = "open" /\ peer = port

(* The transport implements a channel of datagrams: the eager recvfrom of  *)
(* send() and the queue it fills neither repeat a datagram nor carry one   *)
(* over a close.                                                           *)
Abstract == INSTANCE Channel WITH
  Ordered <- FALSE, session <- state, accepted <- sent, pending <- Pending
ImplementsChannel == Abstract!Spec

(* When the network keeps the order, so does the transport: whatever waits *)
(* is younger than what recv() has returned, although datagrams reach the  *)
(* caller by two ways, the queue and the socket.                           *)
NoOvertaking == network = "fifo" => \A u \in delivered, v \in Pending : u < v

(* A datagram with a payload that reached the socket, also one that the    *)
(* recvfrom of a later send() takes out of it, is fetched in the end by a  *)
(* caller who polls with buffers it fits in and does not close.            *)
Fits(d) == d.size > 0 /\ \A size \in RecvSize : d.size <= size
ArrivedIsFetched ==
  \A id \in 1 .. MaxSends :
    (\E d \in ToSet(buffer) : d.id = id /\ Fits(d))
      ~> (id \in delivered \/ state = "closed")
=============================================================================
