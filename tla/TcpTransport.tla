--------------------------- MODULE TcpTransport ----------------------------
(***************************************************************************)
(* The stream transport of src/transport/tcp.cpp: a process that           *)
(* connects to its own listening socket, writes on the client end and, in   *)
(* the same send() call, reads the server end into recv_queue; recv() only  *)
(* looks at that queue.  The calls block in select, so the kernel moves     *)
(* while one is in progress: pc says where the caller is.  Bytes are        *)
(* numbered in the order they are written, connections in the order of      *)
(* their client sockets; 0 stands for INVALID_SOCKET.                       *)
(***************************************************************************)
EXTENDS Naturals, Sequences, SequencesExt

CONSTANTS
  MaxMessageSize,   \* MAX_MESSAGE_SIZE
  SendSize,         \* the sizes callers send
  RecvSize,         \* the buffer sizes callers pass to recv
  SocketRoom,       \* bytes the kernel holds between the ends of a connection
  MaxConns,         \* bound: how many client sockets are created
  MaxBytes          \* bound: how many bytes are written

ASSUME TcpAssumption ==
  /\ MaxMessageSize \in Nat
  /\ SendSize \subseteq Nat
  /\ RecvSize \subseteq Nat
  /\ SocketRoom \in Nat \ {0}
  /\ MaxConns \in Nat
  /\ MaxBytes \in Nat

Conn == 1 .. MaxConns
NoSocket == 0

VARIABLES
  state,       \* is_open, as "open" or "closed"
  established, \* connection_established
  client,      \* client_socket: the connection it is the client end of
  server,      \* server_socket: the connection it is the server end of
  queue,       \* recv_queue: messages as sequences of bytes
  pc,          \* where the call in progress is, "idle" when there is none
  op,          \* the call in progress, or the last one
  size,        \* data.size of the call in progress
  total,       \* total_sent
  temp,        \* temp_buf up to total_received
  ret,         \* what the last call returned
  conns,       \* kernel: how many client sockets were created
  clients,     \* kernel: the client sockets that are not closed
  servers,     \* kernel: the accepted sockets that are not closed
  syn,         \* kernel: connections whose handshake is in progress
  backlog,     \* kernel: connections ready to be accepted, oldest first
  wire,        \* kernel: bytes under way on each connection
  arrived,     \* kernel: bytes in the receive buffer of each server end
  sent,        \* ghost: how many bytes were written
  delivered    \* ghost: the bytes recv has returned since the open

callVars == <<op, size, total, temp>>
connVars == <<established, client, server>>
kernelVars == <<conns, clients, servers, syn, backlog>>
streamVars == <<wire, arrived>>
ghostVars == <<sent, delivered>>
vars == <<state, queue, pc, ret, callVars, connVars, kernelVars, streamVars,
          ghostVars>>

Init ==
  /\ state = "closed"
  /\ established = FALSE
  /\ client = NoSocket
  /\ server = NoSocket
  /\ queue = <<>>
  /\ pc = "idle"
  /\ op = "open"
  /\ size = 0
  /\ total = 0
  /\ temp = <<>>
  /\ ret = "OK"
  /\ conns = 0
  /\ clients = {}
  /\ servers = {}
  /\ syn = {}
  /\ backlog = <<>>
  /\ wire = [c \in Conn |-> <<>>]
  /\ arrived = [c \in Conn |-> <<>>]
  /\ sent = 0
  /\ delivered = {}

-----------------------------------------------------------------------------
(* open() and close()                                                      *)

(* A call that returns code at once and changes nothing.                   *)
Refuse(call, code) ==
  /\ pc = "idle"
  /\ op' = call
  /\ ret' = code
  /\ UNCHANGED <<state, queue, pc, size, total, temp, connVars, kernelVars, streamVars,
                 ghostVars>>

Open ==
  \/ /\ state = "open"
     /\ Refuse("open", "OK")
  \/ /\ state = "closed"
     /\ Refuse("open", "ERR_IO")     \* socket, bind, getsockname or listen fails
  \/ /\ pc = "idle"
     /\ state = "closed"
     /\ state' = "open"
     /\ op' = "open"
     /\ ret' = "OK"
     /\ delivered' = {}
     /\ UNCHANGED <<queue, pc, size, total, temp, connVars, kernelVars, streamVars, sent>>

\* variant: the queue is kept
ClearNothing == UNCHANGED queue
Clear == queue' = <<>>

(* Closing the listening socket resets what waits in its backlog.          *)
Close ==
  \/ /\ state = "closed"
     /\ Refuse("close", "OK")
  \/ /\ pc = "idle"
     /\ state = "open"
     /\ state' = "closed"
     /\ op' = "close"
     /\ established' = FALSE
     /\ client' = NoSocket
     /\ clients' = clients \ {client}
     /\ server' = NoSocket
     /\ servers' = servers \ {server}
     /\ syn' = {}
     /\ backlog' = <<>>
     /\ wire' = [c \in Conn |-> <<>>]
     /\ arrived' = [c \in Conn |-> <<>>]
     /\ Clear
     /\ ret' = "OK"
     /\ UNCHANGED <<pc, size, total, temp, conns, ghostVars>>

-----------------------------------------------------------------------------
(* ensure_connection()                                                     *)

(* The end of a call.                                                      *)
Return(code) ==
  /\ pc' = "idle"
  /\ ret' = code
  /\ total' = 0
  /\ temp' = <<>>
  /\ UNCHANGED <<op, size>>

(* recv() past ensure_connection(): the oldest message leaves the queue    *)
(* before its size is compared with the caller's buffer.                   *)
Dequeue(room) ==
  \/ /\ queue = <<>>
     /\ ret' = "ERR_TIMEOUT"
     /\ UNCHANGED <<queue, delivered>>
  \/ /\ queue # <<>>
     /\ queue' = Tail(queue)
     /\ \/ /\ Len(Head(queue)) > room
           /\ ret' = "ERR_FORMAT"
           /\ UNCHANGED delivered
        \/ /\ Len(Head(queue)) <= room
           /\ ret' = "OK"
           /\ delivered' = delivered \cup ToSet(Head(queue))

(* send() past ensure_connection(): nothing to write in an empty message.  *)
WriteOrAwait(n) == IF n = 0 THEN "await" ELSE "write"

(* The non-blocking connect is under way; select waits on the listening    *)
(* socket.  socket() or connect() may fail instead.                        *)
Connect(call, n) ==
  \/ Refuse(call, "ERR_IO")
  \/ /\ conns < MaxConns
     /\ conns' = conns + 1
     /\ client' = conns + 1
     /\ clients' = clients \cup {conns + 1}
     /\ syn' = syn \cup {conns + 1}
     /\ pc' = "connect"
     /\ op' = call
     /\ size' = n
     /\ UNCHANGED <<state, queue, ret, total, temp, established, server,
                    servers, backlog, streamVars, ghostVars>>

(* select says the listening socket is ready, accept takes the oldest      *)
(* connection of the backlog, and the call goes on.                        *)
Accept ==
  /\ pc = "connect"
  /\ backlog # <<>>
  /\ server' = Head(backlog)
  /\ servers' = servers \cup {Head(backlog)}
  /\ backlog' = Tail(backlog)
  /\ established' = TRUE
  /\ \/ /\ op = "send"
        /\ pc' = WriteOrAwait(size)
        /\ UNCHANGED <<queue, ret, delivered>>
     \/ /\ op = "recv"
        /\ pc' = "idle"
        /\ Dequeue(size)
  /\ UNCHANGED <<state, callVars, client, conns, clients, syn, streamVars, sent>>

(* Closing the client socket on the way out of a failed connect.           *)
\* variant: the descriptor leaks
ForgetClient == client' = NoSocket /\ UNCHANGED clients
\* variant: the stale number is kept
CloseClientOnly == clients' = clients \ {client} /\ UNCHANGED client
CloseClient == client' = NoSocket /\ clients' = clients \ {client}

(* The client socket of a connection that was not accepted is closed; its  *)
(* handshake is given up, but not its place in the backlog.                *)
GiveUp ==
  /\ CloseClient
  /\ syn' = syn \ {client}
  /\ Return("ERR_IO")
  /\ UNCHANGED <<state, queue, established, server, conns, servers, backlog,
                 streamVars, ghostVars>>

AcceptFails ==
  /\ pc = "connect"
  /\ backlog # <<>>
  /\ GiveUp

(* select timed out or was interrupted.  The handshake may still end       *)
(* before the client socket is closed.                                     *)
SelectTimeout ==
  /\ pc = "connect"
  /\ backlog = <<>>
  /\ pc' = "abandon"
  /\ UNCHANGED <<state, queue, ret, callVars, connVars, kernelVars, streamVars,
                 ghostVars>>

Abandon ==
  /\ pc = "abandon"
  /\ GiveUp

-----------------------------------------------------------------------------
(* send()                                                                  *)

\* variant: off by one
TooLargeByTwo(n) == n > MaxMessageSize + 1
TooLarge(n) == n > MaxMessageSize

Send(n) ==
  \/ /\ state = "closed"
     /\ Refuse("send", "ERR_IO")
  \/ /\ state = "open"
     /\ TooLarge(n)
     /\ Refuse("send", "ERR_FORMAT")
  \/ /\ pc = "idle"
     /\ state = "open"
     /\ ~TooLarge(n)
     /\ sent + n <= MaxBytes
     /\ \/ /\ ~established
           /\ Connect("send", n)
        \/ /\ established
           /\ pc' = WriteOrAwait(n)
           /\ op' = "send"
           /\ size' = n
           /\ UNCHANGED <<state, queue, ret, total, temp, connVars, kernelVars,
                          streamVars, ghostVars>>

(* send on the client socket takes as many bytes as the kernel has room.   *)
Room == SocketRoom - Len(wire[client]) - Len(arrived[client])

(* The next n bytes of the message: those past total_sent.                 *)
\* variant: a retry starts over
FirstBytes(n) == [k \in 1 .. n |-> sent - total + k]
NextBytes(n) == [k \in 1 .. n |-> sent + k]

Write(n) ==
  /\ pc = "write"
  /\ client \notin syn
  /\ n <= Room
  /\ total + n <= size
  /\ wire' = [wire EXCEPT ![client] = @ \o NextBytes(n)]
  /\ sent' = sent + n
  /\ total' = total + n
  /\ pc' = IF total + n = size THEN "await" ELSE "write"
  /\ UNCHANGED <<state, queue, ret, op, size, temp, connVars, kernelVars,
                 arrived, delivered>>

(* EAGAIN, and the socket does not become writable in 100 ms.              *)
WriteStalls ==
  /\ pc = "write"
  /\ client \in syn \/ Room = 0
  /\ Return("ERR_TIMEOUT")
  /\ UNCHANGED <<state, queue, connVars, kernelVars, streamVars, ghostVars>>

(* Another error of send.                                                  *)
WriteFails ==
  /\ pc = "write"
  /\ Return("ERR_IO")
  /\ UNCHANGED <<state, queue, connVars, kernelVars, streamVars, ghostVars>>

(* What select and recv see of the server socket.                          *)
EndOfStream == server \notin clients /\ wire[server] = <<>>
Readable == arrived[server] # <<>> \/ EndOfStream

AwaitDone ==
  /\ pc = "await"
  /\ \/ /\ ~Readable
        /\ Return("ERR_TIMEOUT")
     \/ /\ Readable
        /\ size = 0
        /\ Return("OK")
     \/ /\ Readable
        /\ size > 0
        /\ pc' = "read"
        /\ UNCHANGED <<ret, callVars>>
  /\ UNCHANGED <<state, queue, connVars, kernelVars, streamVars, ghostVars>>

(* What was read becomes one message of the queue, whatever it is.         *)
Enqueue(bytes) ==
  /\ queue' = IF bytes = <<>> THEN queue ELSE Append(queue, bytes)
  /\ Return("OK")

Read ==
  /\ pc = "read"
  /\ arrived[server] # <<>>
  /\ LET n == IF Len(arrived[server]) < size - Len(temp)
              THEN Len(arrived[server]) ELSE size - Len(temp)
         bytes == temp \o SubSeq(arrived[server], 1, n)
     IN /\ arrived' = [arrived EXCEPT ![server] = SubSeq(@, n + 1, Len(@))]
        /\ \/ /\ Len(bytes) = size
              /\ Enqueue(bytes)
           \/ /\ Len(bytes) < size
              /\ temp' = bytes
              /\ UNCHANGED <<queue, pc, ret, op, size, total>>
  /\ UNCHANGED <<state, connVars, kernelVars, wire, ghostVars>>

(* recv returns 0 at the end of the stream, or select times out.           *)
\* variant: the end of the stream is not noticed
NoMoreYet == arrived[server] = <<>> /\ ~EndOfStream
NoMore == arrived[server] = <<>>

(* End of the stream, or no byte for 10 ms after the first ones: send()    *)
(* queues what it has and reports success.                                 *)
ReadStops ==
  /\ pc = "read"
  /\ NoMore
  /\ Enqueue(temp)
  /\ UNCHANGED <<state, connVars, kernelVars, streamVars, ghostVars>>

(* recv fails: the bytes read so far go with temp_buf.                     *)
ReadFails ==
  /\ pc = "read"
  /\ Return("ERR_IO")
  /\ UNCHANGED <<state, queue, connVars, kernelVars, streamVars, ghostVars>>

-----------------------------------------------------------------------------
(* recv()                                                                  *)

Recv(room) ==
  \/ /\ state = "closed"
     /\ Refuse("recv", "ERR_IO")
  \/ /\ pc = "idle"
     /\ state = "open"
     /\ ~established
     /\ Connect("recv", room)
  \/ /\ pc = "idle"
     /\ state = "open"
     /\ established
     /\ op' = "recv"
     /\ Dequeue(room)
     /\ UNCHANGED <<state, pc, size, total, temp, connVars, kernelVars, streamVars, sent>>

-----------------------------------------------------------------------------
(* The kernel: handshakes end, bytes move.                                 *)

HandshakeEnds(c) ==
  /\ c \in syn
  /\ syn' = syn \ {c}
  /\ backlog' = Append(backlog, c)
  /\ UNCHANGED <<state, queue, pc, ret, callVars, connVars, conns, clients,
                 servers, streamVars, ghostVars>>

BytesArrive(c) ==
  /\ wire[c] # <<>>
  /\ \E n \in 1 .. Len(wire[c]) :
        /\ arrived' = [arrived EXCEPT ![c] = @ \o SubSeq(wire[c], 1, n)]
        /\ wire' = [wire EXCEPT ![c] = SubSeq(@, n + 1, Len(@))]
  /\ UNCHANGED <<state, queue, pc, ret, callVars, connVars, kernelVars, ghostVars>>

Kernel == \E c \in Conn : HandshakeEnds(c) \/ BytesArrive(c)

-----------------------------------------------------------------------------

(* The steps of a call in progress when no system call fails.              *)
Step ==
  \/ Accept
  \/ SelectTimeout
  \/ Abandon
  \/ \E n \in 1 .. SocketRoom : Write(n)
  \/ WriteStalls
  \/ AwaitDone
  \/ Read
  \/ ReadStops

Fault == AcceptFails \/ WriteFails \/ ReadFails

Next ==
  \/ Open
  \/ Close
  \/ \E n \in SendSize : Send(n)
  \/ \E room \in RecvSize : Recv(room)
  \/ Step
  \/ Fault
  \/ Kernel

Spec == Init /\ [][Next]_vars

(* The process runs, select comes back, and the kernel moves the bytes; no *)
(* call counts on a system call to fail.                                   *)
CallFairSpec == Spec /\ WF_vars(Step) /\ WF_vars(Kernel)

(* In addition, a caller polls recv() with a buffer for any message.       *)
FairSpec ==
  CallFairSpec /\ WF_vars(state = "open" /\ established /\ Recv(MaxMessageSize))

-----------------------------------------------------------------------------

TypeOK ==
  /\ state \in {"open", "closed"}
  /\ established \in BOOLEAN
  /\ client \in Conn \cup {NoSocket}
  /\ server \in Conn \cup {NoSocket}
  /\ queue \in Seq(Seq(1 .. MaxBytes))
  /\ pc \in {"idle", "connect", "abandon", "write", "await", "read"}
  /\ op \in {"open", "close", "send", "recv"}
  /\ size \in SendSize \cup RecvSize \cup {0}
  /\ total \in 0 .. MaxMessageSize
  /\ temp \in Seq(1 .. MaxBytes)
  /\ ret \in {"OK", "ERR_IO", "ERR_FORMAT", "ERR_TIMEOUT"}
  /\ conns \in 0 .. MaxConns
  /\ clients \subseteq Conn
  /\ servers \subseteq Conn
  /\ syn \subseteq Conn
  /\ backlog \in Seq(Conn)
  /\ wire \in [Conn -> Seq(1 .. MaxBytes)]
  /\ arrived \in [Conn -> Seq(1 .. MaxBytes)]
  /\ sent \in 0 .. MaxBytes
  /\ delivered \subseteq 1 .. MaxBytes

(* Every descriptor the process holds is one it still knows: no exit of    *)
(* ensure_connection() or close() drops a socket without closing it.       *)
NoDescriptorLeak ==
  /\ clients = {client} \ {NoSocket}
  /\ servers = {server} \ {NoSocket}

(* Between calls the transport is connected at both ends or at none: a     *)
(* failed connect leaves nothing that a later call takes for a connection. *)
NeverHalfOpen ==
  pc = "idle" =>
    /\ established => state = "open" /\ client # NoSocket /\ server # NoSocket
    /\ ~established => client = NoSocket /\ server = NoSocket

(* The bytes of this session that are in no message yet, oldest first.     *)
OnTheWay == IF server = NoSocket THEN <<>> ELSE arrived[server] \o wire[server]
Coming == temp \o OnTheWay

(* What this session can still deliver: the messages of the queue and then *)
(* what is coming.                                                         *)
Stream == Append(queue, Coming)

Before(i, k, j, l) == i < j \/ (i = j /\ k < l)

InOrder(pieces) ==
  \A i, j \in DOMAIN pieces : \A k \in DOMAIN pieces[i], l \in DOMAIN pieces[j] :
     Before(i, k, j, l) => pieces[i][k] < pieces[j][l]

(* Bytes keep their order through the socket, temp_buf and the messages of *)
(* the queue, also after a send() that stopped half way.                   *)
StreamInOrder == InOrder(Stream)

BytesOf(pieces) == UNION {ToSet(pieces[i]) : i \in DOMAIN pieces}
Pending == BytesOf(Stream)

(* The transport implements an ordered channel of bytes: recv() may miss   *)
(* bytes but never repeats one, never overtakes, and never returns a byte  *)
(* of an earlier session.                                                  *)
Abstract == INSTANCE Channel WITH
  Ordered <- TRUE, session <- state, accepted <- sent,
  pending <- Pending
ImplementsChannel == Abstract!Spec

(* No call waits for ever: every select and every loop of a call ends.     *)
CallsReturn == pc # "idle" ~> pc = "idle"

(* tcp.cpp:268, "Accept the connection on server side": the two ends that  *)
(* ensure_connection() leaves behind belong to one connection.             *)
EndsMatch == established => server = client

(* tcp.h:18, "Reliable delivery with flow control": while the caller polls  *)
(* recv(), the last byte of a send() that succeeded does not stay behind.  *)
(* FairSpec does not have this property: send() stops reading at the first *)
(* pause, and recv() does not read the socket.                             *)
LastByteFetched ==
  \A b \in 1 .. MaxBytes :
    (/\ op = "send" /\ pc = "idle" /\ ret = "OK" /\ size > 0
     /\ b = sent /\ b \in Pending)
      ~> (b \notin Pending \/ state = "closed")
=============================================================================
