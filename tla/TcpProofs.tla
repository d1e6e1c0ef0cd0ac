----------------------------- MODULE TcpProofs -----------------------------
(***************************************************************************)
(* The stream transport leaks no socket, is never left half connected,     *)
(* keeps the order of bytes and implements an ordered Channel, for every   *)
(* number of connections and every size of messages, whichever select,     *)
(* accept, send or recv fails.                                             *)
(*                                                                         *)
(* What close() and the exits of ensure_connection() leave behind depends  *)
(* on how far the call had come; Stage says what each point of a call may  *)
(* rely on.  For the stream, bytes are followed as pieces: the messages of *)
(* the queue, and behind them what is Coming.                              *)
(***************************************************************************)
EXTENDS TcpTransport, SequenceTheorems, TLAPS

Connecting == {"connect", "abandon"}
Moving == {"write", "await", "read"}

(* The kernel numbers connections from 1, so that none is NoSocket.        *)
KernelOK ==
  /\ conns \in Nat
  /\ backlog \in Seq(Nat \ {0})
  /\ syn \subseteq Nat \ {0}

(* While a connect is under way there is a client end and no server end;   *)
(* while bytes are moved there are both.                                   *)
Stage ==
  /\ pc \in {"idle"} \cup Connecting \cup Moving
  /\ pc \in Connecting => state = "open" /\ ~established /\ client # NoSocket /\ server = NoSocket
  /\ pc \in Moving => established
  /\ established => state = "open" /\ client # NoSocket /\ server # NoSocket
  /\ pc = "idle" /\ ~established => client = NoSocket /\ server = NoSocket

TcpInv == KernelOK /\ Stage /\ NoDescriptorLeak

----------------------------------------------------------------------------

LEMMA TcpInit == Init => TcpInv
  BY DEF Init, TcpInv, KernelOK, Stage, NoDescriptorLeak, Connecting, Moving, NoSocket

SocketsSame ==
  UNCHANGED <<state, established, client, server, conns, clients, servers, syn, backlog>>

(* A call that leaves the sockets as they are and ends, or goes on moving  *)
(* bytes over a connection that is there.                                  *)
LEMMA SocketsKept ==
  ASSUME TcpInv, SocketsSame,
         \/ pc' = pc
         \/ pc' = "idle" /\ pc \notin Connecting
         \/ pc' \in Moving /\ established
  PROVE  TcpInv'
  BY DEF TcpInv, KernelOK, Stage, NoDescriptorLeak, Connecting, Moving, SocketsSame

LEMMA RefuseKeepsSockets ==
  ASSUME TcpInv, NEW call, NEW code, Refuse(call, code)
  PROVE  TcpInv'
<1>1. SocketsSame /\ pc' = pc
  BY DEF Refuse, SocketsSame, connVars, kernelVars
<1> QED
  BY <1>1, SocketsKept

LEMMA OpenKeepsSockets == TcpInv /\ Open => TcpInv'
<1> SUFFICES ASSUME TcpInv, Open, ~\E call, code : Refuse(call, code) PROVE TcpInv'
  BY RefuseKeepsSockets
<1>1. /\ pc = "idle" /\ state = "closed" /\ state' = "open"
      /\ UNCHANGED <<pc, connVars, kernelVars>>
  BY DEF Open
<1> QED
  BY <1>1 DEF TcpInv, KernelOK, Stage, NoDescriptorLeak, Connecting, Moving, connVars, kernelVars

LEMMA CloseKeepsSockets == TcpInv /\ Close => TcpInv'
<1> SUFFICES ASSUME TcpInv, Close, ~\E call, code : Refuse(call, code) PROVE TcpInv'
  BY RefuseKeepsSockets
<1>1. /\ pc = "idle"
      /\ state' = "closed"
      /\ established' = FALSE
      /\ client' = NoSocket
      /\ clients' = clients \ {client}
      /\ server' = NoSocket
      /\ servers' = servers \ {server}
      /\ syn' = {}
      /\ backlog' = <<>>
      /\ UNCHANGED <<pc, conns>>
  BY DEF Close
<1> QED
  BY <1>1 DEF TcpInv, KernelOK, Stage, NoDescriptorLeak, Connecting, Moving

LEMMA ConnectKeepsSockets ==
  ASSUME TcpInv, NEW call, NEW n, Connect(call, n), pc = "idle", state = "open", ~established
  PROVE  TcpInv'
<1>1. CASE Refuse(call, "ERR_IO")
  BY <1>1, RefuseKeepsSockets
<1>2. CASE ~Refuse(call, "ERR_IO")
  <2>1. /\ conns' = conns + 1
        /\ client' = conns + 1
        /\ clients' = clients \cup {conns + 1}
        /\ syn' = syn \cup {conns + 1}
        /\ pc' = "connect"
        /\ UNCHANGED <<state, established, server, servers, backlog>>
    BY <1>2 DEF Connect
  <2>2. conns + 1 \in Nat \ {0} /\ clients = {} /\ server = NoSocket
    BY DEF TcpInv, KernelOK, Stage, NoDescriptorLeak
  <2> QED
    BY <2>1, <2>2 DEF TcpInv, KernelOK, Stage, NoDescriptorLeak, Connecting, Moving, NoSocket
<1> QED
  BY <1>1, <1>2

LEMMA SendKeepsSockets == ASSUME NEW n PROVE TcpInv /\ Send(n) => TcpInv'
<1> SUFFICES ASSUME TcpInv, Send(n), ~\E call, code : Refuse(call, code) PROVE TcpInv'
  BY RefuseKeepsSockets
<1>1. /\ pc = "idle" /\ state = "open"
      /\ \/ ~established /\ Connect("send", n)
         \/ /\ established /\ pc' = WriteOrAwait(n)
            /\ SocketsSame
  BY DEF Send, SocketsSame, connVars, kernelVars
<1> QED
  BY <1>1, ConnectKeepsSockets, SocketsKept DEF WriteOrAwait, Moving

LEMMA RecvKeepsSockets == ASSUME NEW room PROVE TcpInv /\ Recv(room) => TcpInv'
<1> SUFFICES ASSUME TcpInv, Recv(room), ~\E call, code : Refuse(call, code) PROVE TcpInv'
  BY RefuseKeepsSockets
<1>1. /\ pc = "idle" /\ state = "open"
      /\ \/ ~established /\ Connect("recv", room)
         \/ pc' = pc /\ SocketsSame
  BY DEF Recv, SocketsSame, connVars, kernelVars
<1> QED
  BY <1>1, ConnectKeepsSockets, SocketsKept

(* The accepted socket is the server end: no other was there.              *)
LEMMA AcceptKeepsSockets == TcpInv /\ Accept => TcpInv'
<1> SUFFICES ASSUME TcpInv, Accept PROVE TcpInv'
  OBVIOUS
<1>1. /\ pc = "connect"
      /\ backlog # <<>>
      /\ server' = Head(backlog)
      /\ servers' = servers \cup {Head(backlog)}
      /\ backlog' = Tail(backlog)
      /\ established' = TRUE
      /\ pc' \in {"idle", "write", "await"}
      /\ UNCHANGED <<state, client, conns, clients, syn>>
  BY DEF Accept, WriteOrAwait
<1>2. Head(backlog) \in Nat \ {0} /\ Tail(backlog) \in Seq(Nat \ {0})
  BY <1>1 DEF TcpInv, KernelOK
<1>3. servers = {} /\ client # NoSocket /\ state = "open"
  BY <1>1 DEF TcpInv, Stage, NoDescriptorLeak, Connecting
<1> QED
  BY <1>1, <1>2, <1>3 DEF TcpInv, KernelOK, Stage, NoDescriptorLeak, Connecting, Moving, NoSocket

(* A connect that fails closes the client end, its only socket.            *)
LEMMA GiveUpKeepsSockets == TcpInv /\ pc \in Connecting /\ GiveUp => TcpInv'
<1> SUFFICES ASSUME TcpInv, pc \in Connecting, GiveUp PROVE TcpInv'
  OBVIOUS
<1>1. /\ client' = NoSocket /\ clients' = clients \ {client}
      /\ syn' = syn \ {client}
      /\ pc' = "idle"
      /\ UNCHANGED <<state, established, server, conns, servers, backlog>>
  BY DEF GiveUp, CloseClient, Return
<1> QED
  BY <1>1 DEF TcpInv, KernelOK, Stage, NoDescriptorLeak, Connecting, Moving

LEMMA SelectTimeoutKeepsSockets == TcpInv /\ SelectTimeout => TcpInv'
  BY DEF SelectTimeout, TcpInv, KernelOK, Stage, NoDescriptorLeak, Connecting, Moving,
         connVars, kernelVars

LEMMA MovingKeepsSockets ==
  ASSUME TcpInv,
         \/ \E n \in 1 .. SocketRoom : Write(n)
         \/ WriteStalls \/ WriteFails \/ AwaitDone \/ Read \/ ReadStops \/ ReadFails
  PROVE  TcpInv'
<1>1. /\ pc \in Moving
      /\ pc' \in Moving \cup {"idle"}
      /\ SocketsSame
  BY DEF SocketsSame, connVars, kernelVars, Write, WriteStalls, WriteFails, AwaitDone, Read, ReadStops, ReadFails, Return, Enqueue,
         Moving
<1> QED
  BY <1>1, SocketsKept DEF TcpInv, Stage, Moving, Connecting

LEMMA KernelKeepsSockets == TcpInv /\ Kernel => TcpInv'
<1> SUFFICES ASSUME TcpInv, NEW c \in Conn, HandshakeEnds(c) \/ BytesArrive(c) PROVE TcpInv'
  BY DEF Kernel
<1>1. CASE BytesArrive(c)
  <2>1. SocketsSame /\ pc' = pc
    BY <1>1 DEF BytesArrive, SocketsSame, connVars, kernelVars
  <2> QED
    BY <2>1, SocketsKept
<1>2. CASE HandshakeEnds(c)
  <2>1. c \in Nat \ {0}
    BY <1>2 DEF HandshakeEnds, TcpInv, KernelOK
  <2>2. backlog' \in Seq(Nat \ {0}) /\ syn' \subseteq Nat \ {0}
    BY <1>2, <2>1 DEF HandshakeEnds, TcpInv, KernelOK
  <2> QED
    BY <1>2, <2>2 DEF HandshakeEnds, TcpInv, KernelOK, Stage, NoDescriptorLeak, connVars
<1> QED
  BY <1>1, <1>2

LEMMA TcpStep == TcpInv /\ [Next]_vars => TcpInv'
<1> SUFFICES ASSUME TcpInv, [Next]_vars PROVE TcpInv'
  OBVIOUS
<1>1. CASE UNCHANGED vars
  <2>1. SocketsSame /\ pc' = pc
    BY <1>1 DEF vars, SocketsSame, connVars, kernelVars
  <2> QED
    BY <2>1, SocketsKept
<1>2. CASE AcceptFails \/ Abandon
  BY <1>2, GiveUpKeepsSockets DEF AcceptFails, Abandon, Connecting
<1>3. CASE Next /\ ~(AcceptFails \/ Abandon)
  BY <1>3, OpenKeepsSockets, CloseKeepsSockets, SendKeepsSockets, RecvKeepsSockets,
     AcceptKeepsSockets, SelectTimeoutKeepsSockets, MovingKeepsSockets, KernelKeepsSockets
     DEF Next, Step, Fault
<1> QED
  BY <1>1, <1>2, <1>3

THEOREM TcpInvariant == Spec => []TcpInv
<1>1. Init => TcpInv
  BY TcpInit
<1>2. TcpInv /\ [Next]_vars => TcpInv'
  BY TcpStep
<1> QED
  BY <1>1, <1>2, PTL DEF Spec

(* Whatever fails on the way, ensure_connection() and close() close every  *)
(* socket that they forget (transport/tcp.cpp).                            *)
THEOREM TcpNoDescriptorLeak == Spec => []NoDescriptorLeak
<1>1. TcpInv => NoDescriptorLeak
  BY DEF TcpInv
<1> QED
  BY <1>1, TcpInvariant, PTL

(* Between calls connection_established tells of both ends at once: a      *)
(* connect that failed leaves none (transport/tcp.cpp).                    *)
THEOREM TcpNeverHalfOpen == Spec => []NeverHalfOpen
<1>1. TcpInv => NeverHalfOpen
  BY DEF TcpInv, Stage, NeverHalfOpen
<1> QED
  BY <1>1, TcpInvariant, PTL

----------------------------------------------------------------------------

(***************************************************************************)
(* Sequences of bytes.                                                     *)
(***************************************************************************)

Ascends(s) == \A k, l \in DOMAIN s : k < l => s[k] < s[l]
Below(s, t) == \A k \in DOMAIN s, l \in DOMAIN t : s[k] < t[l]

LEMMA JoinedIs ==
  ASSUME NEW S, NEW s \in Seq(S), NEW t \in Seq(S)
  PROVE  /\ s \o t \in Seq(S)
         /\ Len(s) \in Nat /\ Len(t) \in Nat
         /\ DOMAIN s = 1 .. Len(s) /\ DOMAIN t = 1 .. Len(t)
         /\ DOMAIN (s \o t) = 1 .. Len(s) + Len(t)
         /\ \A k \in DOMAIN s : k \in DOMAIN (s \o t) /\ (s \o t)[k] = s[k]
         /\ \A k \in DOMAIN t : Len(s) + k \in DOMAIN (s \o t) /\ (s \o t)[Len(s) + k] = t[k]
         /\ \A k \in DOMAIN (s \o t) : \/ k \in DOMAIN s /\ (s \o t)[k] = s[k]
                                       \/ /\ k > Len(s) /\ k - Len(s) \in DOMAIN t
                                          /\ (s \o t)[k] = t[k - Len(s)]
<1>1. /\ Len(s) \in Nat /\ Len(t) \in Nat
      /\ DOMAIN s = 1 .. Len(s) /\ DOMAIN t = 1 .. Len(t)
  OBVIOUS
<1>2. /\ s \o t \in Seq(S)
      /\ Len(s \o t) = Len(s) + Len(t)
      /\ \A k \in 1 .. Len(s) + Len(t) :
            (s \o t)[k] = IF k <= Len(s) THEN s[k] ELSE t[k - Len(s)]
  BY ConcatProperties
<1>3. DOMAIN (s \o t) = 1 .. Len(s) + Len(t)
  BY <1>2
<1> QED
  BY <1>1, <1>2, <1>3

LEMMA Regroup ==
  ASSUME NEW s \in Seq(Nat), NEW t \in Seq(Nat), NEW u \in Seq(Nat)
  PROVE  (s \o t) \o u = s \o (t \o u)
  BY ConcatAssociative, SMTT(30)

(* Two sequences ascend as one exactly when each does and the first is     *)
(* below the second.                                                       *)
LEMMA JoinedAscends ==
  ASSUME NEW s \in Seq(Nat), NEW t \in Seq(Nat)
  PROVE  Ascends(s \o t) <=> Ascends(s) /\ Ascends(t) /\ Below(s, t)
<1>0. /\ s \o t \in Seq(Nat)
      /\ Len(s) \in Nat /\ Len(t) \in Nat
      /\ DOMAIN s = 1 .. Len(s) /\ DOMAIN t = 1 .. Len(t)
      /\ DOMAIN (s \o t) = 1 .. Len(s) + Len(t)
      /\ \A k \in DOMAIN s : k \in DOMAIN (s \o t) /\ (s \o t)[k] = s[k]
      /\ \A k \in DOMAIN t : Len(s) + k \in DOMAIN (s \o t) /\ (s \o t)[Len(s) + k] = t[k]
      /\ \A k \in DOMAIN (s \o t) : \/ k \in DOMAIN s /\ (s \o t)[k] = s[k]
                                    \/ /\ k > Len(s) /\ k - Len(s) \in DOMAIN t
                                       /\ (s \o t)[k] = t[k - Len(s)]
  BY JoinedIs, SMTT(30)
<1>1. ASSUME Ascends(s \o t) PROVE Ascends(s) /\ Ascends(t) /\ Below(s, t)
  <2>1. Ascends(s)
    BY <1>0, <1>1 DEF Ascends
  <2>2. ASSUME NEW k \in DOMAIN t, NEW l \in DOMAIN t, k < l PROVE t[k] < t[l]
    <3>1. /\ Len(s) + k \in DOMAIN (s \o t) /\ Len(s) + l \in DOMAIN (s \o t)
          /\ Len(s) + k < Len(s) + l
      BY <1>0, <2>2
    <3> QED
      BY <1>0, <1>1, <3>1 DEF Ascends
  <2>3. ASSUME NEW k \in DOMAIN s, NEW l \in DOMAIN t PROVE s[k] < t[l]
    <3>1. /\ k \in DOMAIN (s \o t) /\ Len(s) + l \in DOMAIN (s \o t)
          /\ k < Len(s) + l
      BY <1>0, <2>3
    <3> QED
      BY <1>0, <1>1, <3>1 DEF Ascends
  <2> QED
    BY <2>1, <2>2, <2>3 DEF Ascends, Below
<1>2. ASSUME Ascends(s), Ascends(t), Below(s, t) PROVE Ascends(s \o t)
  <2> SUFFICES ASSUME NEW k \in DOMAIN (s \o t), NEW l \in DOMAIN (s \o t), k < l
               PROVE  (s \o t)[k] < (s \o t)[l]
    BY DEF Ascends
  <2>1. CASE k \in DOMAIN s /\ l \in DOMAIN s
    BY <2>1, <1>0, <1>2 DEF Ascends
  <2>2. CASE k \in DOMAIN s /\ l \notin DOMAIN s
    BY <2>2, <1>0, <1>2 DEF Below
  <2>3. CASE k \notin DOMAIN s
    <3>1. l \notin DOMAIN s
      BY <2>3, <1>0
    <3>2. k - Len(s) \in DOMAIN t /\ l - Len(s) \in DOMAIN t /\ k - Len(s) < l - Len(s)
      BY <2>3, <3>1, <1>0
    <3>3. (s \o t)[k] = t[k - Len(s)] /\ (s \o t)[l] = t[l - Len(s)]
      BY <2>3, <3>1, <1>0
    <3> QED
      BY <3>2, <3>3, <1>2 DEF Ascends
  <2> QED
    BY <2>1, <2>2, <2>3
<1> QED
  BY <1>1, <1>2

LEMMA BelowJoined ==
  ASSUME NEW q, NEW s \in Seq(Nat), NEW t \in Seq(Nat)
  PROVE  Below(q, s \o t) <=> Below(q, s) /\ Below(q, t)
<1>1. /\ \A k \in DOMAIN s : k \in DOMAIN (s \o t) /\ (s \o t)[k] = s[k]
      /\ \A k \in DOMAIN t : Len(s) + k \in DOMAIN (s \o t) /\ (s \o t)[Len(s) + k] = t[k]
      /\ \A k \in DOMAIN (s \o t) : \/ k \in DOMAIN s /\ (s \o t)[k] = s[k]
                                    \/ /\ k - Len(s) \in DOMAIN t
                                       /\ (s \o t)[k] = t[k - Len(s)]
  BY JoinedIs
<1> QED
  BY <1>1 DEF Below

LEMMA ToSetJoined ==
  ASSUME NEW S, NEW s \in Seq(S), NEW t \in Seq(S)
  PROVE  ToSet(s \o t) = ToSet(s) \cup ToSet(t)
<1>1. /\ \A k \in DOMAIN s : k \in DOMAIN (s \o t) /\ (s \o t)[k] = s[k]
      /\ \A k \in DOMAIN t : Len(s) + k \in DOMAIN (s \o t) /\ (s \o t)[Len(s) + k] = t[k]
      /\ \A k \in DOMAIN (s \o t) : \/ k \in DOMAIN s /\ (s \o t)[k] = s[k]
                                    \/ /\ k - Len(s) \in DOMAIN t
                                       /\ (s \o t)[k] = t[k - Len(s)]
  BY JoinedIs
<1>2. ASSUME NEW u \in ToSet(s \o t) PROVE u \in ToSet(s) \cup ToSet(t)
  <2>1. PICK k \in DOMAIN (s \o t) : u = (s \o t)[k]
    BY <1>2 DEF ToSet
  <2> QED
    BY <1>1, <2>1 DEF ToSet
<1>3. ASSUME NEW u \in ToSet(s) PROVE u \in ToSet(s \o t)
  BY <1>1, <1>3 DEF ToSet
<1>4. ASSUME NEW u \in ToSet(t) PROVE u \in ToSet(s \o t)
  <2>1. PICK k \in DOMAIN t : u = t[k]
    BY <1>4 DEF ToSet
  <2> QED
    BY <1>1, <2>1 DEF ToSet
<1> QED
  BY <1>2, <1>3, <1>4

(* A sequence is its first n elements and the others.                      *)
LEMMA Split ==
  ASSUME NEW S, NEW s \in Seq(S), NEW n \in 0 .. Len(s)
  PROVE  /\ SubSeq(s, 1, n) \in Seq(S)
         /\ Len(SubSeq(s, 1, n)) = n
         /\ SubSeq(s, n + 1, Len(s)) \in Seq(S)
         /\ SubSeq(s, 1, n) \o SubSeq(s, n + 1, Len(s)) = s
<1>1. Len(s) \in Nat /\ n \in Nat
  OBVIOUS
<1>2. \A i \in 1 .. Len(s) : s[i] \in S
  OBVIOUS
<1>3. SubSeq(s, 1, n) \in Seq(S) /\ Len(SubSeq(s, 1, n)) = n
  <2>1. \A i \in 1 .. n : s[i] \in S
    BY <1>1, <1>2
  <2> QED
    BY <1>1, <2>1, SubSeqProperties
<1>4. SubSeq(s, n + 1, Len(s)) \in Seq(S)
  <2>1. n + 1 \in Int /\ Len(s) \in Int /\ \A i \in n + 1 .. Len(s) : s[i] \in S
    BY <1>1, <1>2
  <2> QED
    BY <2>1, SubSeqProperties
<1>5. SubSeq(s, 1, n) \o SubSeq(s, n + 1, Len(s)) = SubSeq(s, 1, Len(s))
  <2>1. 1 \in 1 .. Len(s) + 1 /\ n \in 1 - 1 .. Len(s) /\ Len(s) \in n .. Len(s)
    BY <1>1
  <2> QED
    BY <2>1, ConcatAdjacentSubSeq
<1> QED
  BY <1>3, <1>4, <1>5, SubSeqFull

(***************************************************************************)
(* A queue of messages and what is coming behind it.                       *)
(***************************************************************************)

Message == Seq(Nat)

LEMMA AppendedIs ==
  ASSUME NEW q \in Seq(Message), NEW r \in Message
  PROVE  /\ Append(q, r) \in Seq(Message)
         /\ Len(q) \in Nat
         /\ DOMAIN q = 1 .. Len(q)
         /\ DOMAIN Append(q, r) = 1 .. Len(q) + 1
         /\ DOMAIN Append(q, r) = DOMAIN q \cup {Len(q) + 1}
         /\ \A i \in DOMAIN q : Append(q, r)[i] = q[i] /\ q[i] \in Message /\ i <= Len(q)
         /\ Append(q, r)[Len(q) + 1] = r
<1>1. /\ Append(q, r) \in Seq(Message)
      /\ Len(Append(q, r)) = Len(q) + 1
      /\ \A i \in 1 .. Len(q) : Append(q, r)[i] = q[i]
      /\ Append(q, r)[Len(q) + 1] = r
  BY AppendProperties
<1>2. Len(q) \in Nat /\ DOMAIN q = 1 .. Len(q) /\ \A i \in DOMAIN q : q[i] \in Message
  OBVIOUS
<1>3. DOMAIN Append(q, r) = 1 .. Len(q) + 1
  BY <1>1
<1> QED
  BY <1>1, <1>2, <1>3

(* What the order of all bytes says of each message and each pair.         *)
Sorted(q, r) ==
  /\ \A i \in DOMAIN q : Ascends(q[i]) /\ Below(q[i], r)
  /\ \A i, j \in DOMAIN q : i < j => Below(q[i], q[j])
  /\ Ascends(r)

LEMMA InOrderIsSorted ==
  ASSUME NEW q \in Seq(Message), NEW r \in Message
  PROVE  InOrder(Append(q, r)) <=> Sorted(q, r)
<1> DEFINE p == Append(q, r)
           n == Len(q) + 1
<1>1. /\ Len(q) \in Nat
      /\ DOMAIN q = 1 .. Len(q)
      /\ DOMAIN p = DOMAIN q \cup {n}
      /\ \A i \in DOMAIN q : p[i] = q[i] /\ i < n
      /\ p[n] = r
      /\ n \in Nat
  BY AppendedIs
<1> HIDE DEF p, n
<1>2. ASSUME InOrder(p) PROVE Sorted(q, r)
  <2>1. ASSUME NEW i \in DOMAIN p PROVE Ascends(p[i])
    BY <1>2 DEF InOrder, Before, Ascends
  <2>2. ASSUME NEW i \in DOMAIN p, NEW j \in DOMAIN p, i < j PROVE Below(p[i], p[j])
    BY <1>2, <2>2 DEF InOrder, Before, Below
  <2>3. \A i \in DOMAIN q : Ascends(q[i]) /\ Below(q[i], r)
    BY <1>1, <2>1, <2>2
  <2>4. \A i, j \in DOMAIN q : i < j => Below(q[i], q[j])
    BY <1>1, <2>2
  <2>5. Ascends(r)
    BY <1>1, <2>1
  <2> QED
    BY <2>3, <2>4, <2>5 DEF Sorted
<1>3. ASSUME Sorted(q, r) PROVE InOrder(p)
  <2>1. ASSUME NEW i \in DOMAIN p PROVE Ascends(p[i])
    BY <1>1, <1>3 DEF Sorted
  <2>2. ASSUME NEW i \in DOMAIN p, NEW j \in DOMAIN p, i < j PROVE Below(p[i], p[j])
    <3>1. i \in DOMAIN q
      BY <1>1, <2>2
    <3> QED
      BY <1>1, <1>3, <2>2, <3>1 DEF Sorted
  <2> QED
    BY <2>1, <2>2 DEF InOrder, Before, Ascends, Below
<1> QED
  BY <1>2, <1>3 DEF p

LEMMA BytesAre ==
  ASSUME NEW q \in Seq(Message), NEW r \in Message
  PROVE  /\ BytesOf(Append(q, r)) = BytesOf(q) \cup ToSet(r)
         /\ BytesOf(Append(q, r)) \subseteq Nat
<1> DEFINE p == Append(q, r)
           n == Len(q) + 1
<1>1. /\ DOMAIN p = DOMAIN q \cup {n}
      /\ \A i \in DOMAIN q : p[i] = q[i] /\ q[i] \in Message
      /\ p[n] = r
  BY AppendedIs
<1> HIDE DEF p, n
<1>2. BytesOf(p) = BytesOf(q) \cup ToSet(r)
  BY <1>1 DEF BytesOf
<1>3. \A m \in Message : ToSet(m) \subseteq Nat
  BY DEF ToSet, Message
<1>4. BytesOf(q) \subseteq Nat
  BY <1>1, <1>3 DEF BytesOf
<1> QED
  BY <1>2, <1>3, <1>4 DEF p

(* recv() takes the oldest message: it is below all that stays.            *)
LEMMA OldestTaken ==
  ASSUME NEW q \in Seq(Message), NEW r \in Message, q # <<>>, InOrder(Append(q, r))
  PROVE  /\ Tail(q) \in Seq(Message) /\ Head(q) \in Message
         /\ InOrder(Append(Tail(q), r))
         /\ BytesOf(Append(q, r)) = ToSet(Head(q)) \cup BytesOf(Append(Tail(q), r))
         /\ \A u \in ToSet(Head(q)), v \in BytesOf(Append(Tail(q), r)) : u < v
<1> DEFINE t == Tail(q)
           h == Head(q)
<1>1. /\ t \in Seq(Message)
      /\ h \in Message
      /\ Len(t) = Len(q) - 1
      /\ Len(q) \in Nat \ {0}
      /\ DOMAIN q = 1 .. Len(q)
      /\ DOMAIN t = 1 .. Len(q) - 1
      /\ \A i \in DOMAIN t : t[i] = q[i + 1]
      /\ q[1] = h
  BY HeadTailProperties
<1>2. /\ \A i \in DOMAIN t : i + 1 \in DOMAIN q /\ 1 < i + 1 /\ t[i] = q[i + 1]
      /\ \A i, j \in DOMAIN t : i < j => i + 1 < j + 1
      /\ 1 \in DOMAIN q
      /\ \A j \in DOMAIN q : j = 1 \/ (j - 1 \in DOMAIN t /\ t[j - 1] = q[j])
  BY <1>1
<1> HIDE DEF t, h
<1>3. Sorted(q, r)
  BY InOrderIsSorted
<1>4. Sorted(t, r)
  <2>1. ASSUME NEW i \in DOMAIN t PROVE Ascends(t[i]) /\ Below(t[i], r)
    BY <1>2, <1>3 DEF Sorted
  <2>2. ASSUME NEW i \in DOMAIN t, NEW j \in DOMAIN t, i < j PROVE Below(t[i], t[j])
    BY <1>2, <1>3, <2>2 DEF Sorted
  <2> QED
    BY <2>1, <2>2, <1>3 DEF Sorted
<1>5. InOrder(Append(t, r))
  BY <1>1, <1>4, InOrderIsSorted
<1>6. BytesOf(q) = ToSet(h) \cup BytesOf(t)
  <2>1. ASSUME NEW u \in BytesOf(q) PROVE u \in ToSet(h) \cup BytesOf(t)
    <3>1. PICK j \in DOMAIN q : u \in ToSet(q[j])
      BY <2>1 DEF BytesOf
    <3> QED
      BY <1>1, <1>2, <3>1 DEF BytesOf
  <2>2. ASSUME NEW u \in ToSet(h) \cup BytesOf(t) PROVE u \in BytesOf(q)
    BY <1>1, <1>2, <2>2 DEF BytesOf
  <2> QED
    BY <2>1, <2>2
<1>7. ASSUME NEW u \in ToSet(h), NEW v \in BytesOf(t) \cup ToSet(r) PROVE u < v
  <2>1. PICK k \in DOMAIN h : u = h[k]
    BY DEF ToSet
  <2>2. CASE v \in ToSet(r)
    <3>1. Below(h, r)
      BY <1>1, <1>2, <1>3 DEF Sorted
    <3> QED
      BY <2>1, <2>2, <3>1 DEF Below, ToSet
  <2>3. CASE v \in BytesOf(t)
    <3>1. PICK i \in DOMAIN t : v \in ToSet(t[i])
      BY <2>3 DEF BytesOf
    <3>2. Below(h, t[i])
      BY <1>1, <1>2, <1>3 DEF Sorted
    <3> QED
      BY <2>1, <3>1, <3>2 DEF Below, ToSet
  <2> QED
    BY <1>7, <2>2, <2>3
<1>8. /\ BytesOf(Append(q, r)) = BytesOf(q) \cup ToSet(r)
      /\ BytesOf(Append(t, r)) = BytesOf(t) \cup ToSet(r)
  BY <1>1, BytesAre
<1> QED
  BY <1>1, <1>5, <1>6, <1>7, <1>8 DEF t, h

(* What was read becomes a message: the bytes keep their places.           *)
LEMMA MessageMade ==
  ASSUME NEW q \in Seq(Message), NEW b \in Message, NEW r \in Message,
         InOrder(Append(q, b \o r))
  PROVE  /\ Append(q, b) \in Seq(Message)
         /\ InOrder(Append(Append(q, b), r))
         /\ BytesOf(Append(Append(q, b), r)) = BytesOf(Append(q, b \o r))
<1> DEFINE p == Append(q, b)
           n == Len(q) + 1
<1>1. /\ p \in Seq(Message)
      /\ Len(q) \in Nat
      /\ DOMAIN p = DOMAIN q \cup {n}
      /\ \A i \in DOMAIN q : p[i] = q[i] /\ i \in Nat /\ i < n
      /\ p[n] = b
      /\ n \in Nat
  BY AppendedIs
<1>2. b \o r \in Message
  BY JoinedIs DEF Message
<1> HIDE DEF p, n
<1>3. Sorted(q, b \o r)
  BY <1>2, InOrderIsSorted
<1>4. /\ Ascends(b) /\ Ascends(r) /\ Below(b, r)
      /\ \A i \in DOMAIN q : Ascends(q[i]) /\ Below(q[i], b) /\ Below(q[i], r)
      /\ \A i, j \in DOMAIN q : i < j => Below(q[i], q[j])
  BY <1>3, JoinedAscends, BelowJoined DEF Sorted, Message
<1>5. Sorted(p, r)
  <2>1. ASSUME NEW i \in DOMAIN p PROVE Ascends(p[i]) /\ Below(p[i], r)
    BY <1>1, <1>4
  <2>2. ASSUME NEW i \in DOMAIN p, NEW j \in DOMAIN p, i < j PROVE Below(p[i], p[j])
    <3>1. i \in DOMAIN q
      BY <1>1, <2>2
    <3> QED
      BY <1>1, <1>4, <2>2, <3>1
  <2> QED
    BY <2>1, <2>2, <1>4 DEF Sorted
<1>6. InOrder(Append(p, r))
  BY <1>1, <1>5, InOrderIsSorted
<1>7. /\ BytesOf(Append(p, r)) = BytesOf(p) \cup ToSet(r)
      /\ BytesOf(p) = BytesOf(q) \cup ToSet(b)
      /\ BytesOf(Append(q, b \o r)) = BytesOf(q) \cup ToSet(b \o r)
  BY <1>1, <1>2, BytesAre DEF p
<1>8. ToSet(b \o r) = ToSet(b) \cup ToSet(r)
  BY ToSetJoined DEF Message
<1> QED
  BY <1>1, <1>6, <1>7, <1>8 DEF p

(* What was read is dropped.                                               *)
LEMMA FrontDropped ==
  ASSUME NEW q \in Seq(Message), NEW b \in Message, NEW r \in Message,
         InOrder(Append(q, b \o r))
  PROVE  /\ InOrder(Append(q, r))
         /\ BytesOf(Append(q, r)) \subseteq BytesOf(Append(q, b \o r))
<1>1. b \o r \in Message
  BY JoinedIs DEF Message
<1>2. Sorted(q, b \o r)
  BY <1>1, InOrderIsSorted
<1>3. Sorted(q, r)
  BY <1>2, JoinedAscends, BelowJoined DEF Sorted, Message
<1>4. InOrder(Append(q, r))
  BY <1>3, InOrderIsSorted
<1>5. ToSet(b \o r) = ToSet(b) \cup ToSet(r)
  BY ToSetJoined DEF Message
<1> QED
  BY <1>1, <1>4, <1>5, BytesAre

(* Younger bytes come behind.                                              *)
LEMMA BytesWritten ==
  ASSUME NEW q \in Seq(Message), NEW r \in Message, NEW b \in Message,
         InOrder(Append(q, r)), Ascends(b),
         \A u \in BytesOf(Append(q, r)), v \in ToSet(b) : u < v
  PROVE  /\ r \o b \in Message
         /\ InOrder(Append(q, r \o b))
         /\ BytesOf(Append(q, r \o b)) = BytesOf(Append(q, r)) \cup ToSet(b)
<1>1. r \o b \in Message
  BY JoinedIs DEF Message
<1>2. Sorted(q, r)
  BY InOrderIsSorted
<1>3. BytesOf(Append(q, r)) = BytesOf(q) \cup ToSet(r)
  BY BytesAre
<1>4. Below(r, b)
  BY <1>3 DEF Below, ToSet
<1>5. ASSUME NEW i \in DOMAIN q PROVE Below(q[i], b)
  <2>1. ToSet(q[i]) \subseteq BytesOf(q)
    BY DEF BytesOf
  <2> QED
    BY <1>3, <2>1 DEF Below, ToSet
<1>6. Sorted(q, r \o b)
  BY <1>2, <1>4, <1>5, JoinedAscends, BelowJoined DEF Sorted, Message
<1>7. ToSet(r \o b) = ToSet(r) \cup ToSet(b)
  BY ToSetJoined DEF Message
<1> QED
  BY <1>1, <1>3, <1>6, <1>7, InOrderIsSorted, BytesAre

(***************************************************************************)
(* The stream of a session.                                                *)
(***************************************************************************)

(* Bytes lie only between the ends of the connection that is in use, and   *)
(* in temp_buf only while send() reads.                                    *)
StreamShape ==
  /\ sent \in Nat /\ size \in Nat /\ conns \in Nat
  /\ queue \in Seq(Message) /\ temp \in Message
  /\ wire \in [Conn -> Message] /\ arrived \in [Conn -> Message]
  /\ client \in Conn \cup {NoSocket} /\ server \in Conn \cup {NoSocket}
  /\ backlog \in Seq(Conn)
  /\ pc # "read" => temp = <<>>
  /\ pc = "read" => Len(temp) < size
  /\ state = "closed" => queue = <<>>
  /\ \A c \in Conn : ~established \/ c # client => wire[c] = <<>> /\ arrived[c] = <<>>

(* What can still be delivered was written, and after all that recv() has  *)
(* returned.                                                               *)
StreamOrder ==
  /\ StreamInOrder
  /\ delivered \in SUBSET Nat
  /\ \A u \in delivered \cup Pending : u <= sent
  /\ \A u \in delivered, v \in Pending : u < v

StreamInv == TcpInv /\ StreamShape /\ StreamOrder

(* A step keeps the order and is one of the abstract channel.              *)
Refines == StreamOrder' /\ [Abstract!Next]_(Abstract!vars)

LEMMA EmptyIs == <<>> \in Message /\ <<>> \in Seq(Message) /\ ToSet(<<>>) = {} /\ BytesOf(<<>>) = {}
  BY EmptySeq DEF Message, ToSet, BytesOf

LEMMA StreamIs ==
  ASSUME StreamShape
  PROVE  /\ OnTheWay \in Message
         /\ Coming = temp \o OnTheWay
         /\ Coming \in Message
         /\ pc # "read" => Coming = OnTheWay
         /\ ~established => OnTheWay = <<>>
         /\ Pending \subseteq Nat
<1>1. server # NoSocket => arrived[server] \in Message /\ wire[server] \in Message
  BY DEF StreamShape
<1>2. OnTheWay \in Message
  BY <1>1, JoinedIs, EmptyIs DEF OnTheWay, Message
<1>3. Coming = temp \o OnTheWay /\ Coming \in Message
  BY <1>2, JoinedIs DEF Coming, StreamShape, Message
<1>4. pc # "read" => Coming = OnTheWay
  BY <1>2, <1>3, ConcatEmptySeq DEF StreamShape, Message
<1>5. ASSUME ~established PROVE OnTheWay = <<>>
  <2>1. CASE server = NoSocket
    BY <2>1 DEF OnTheWay
  <2>2. CASE server # NoSocket
    <3>1. arrived[server] = <<>> /\ wire[server] = <<>>
      BY <1>5, <2>2 DEF StreamShape
    <3> QED
      BY <2>2, <3>1, EmptyIs, ConcatEmptySeq DEF OnTheWay, Message
  <2> QED
    BY <2>1, <2>2
<1> QED
  BY <1>2, <1>3, <1>4, <1>5, BytesAre DEF Pending, Stream, StreamShape

(* Bytes that are lost, or that only change places.                        *)
LEMMA FewerBytes ==
  ASSUME StreamOrder, InOrder(Stream'), Pending' \subseteq Pending,
         UNCHANGED <<state, sent, delivered>>
  PROVE  Refines
<1>1. StreamOrder'
  BY DEF StreamOrder, StreamInOrder
<1>2. Abstract!Lose
  BY DEF Abstract!Lose
<1> QED
  BY <1>1, <1>2 DEF Refines, Abstract!Next

LEMMA SameBytes ==
  ASSUME StreamOrder, UNCHANGED <<state, sent, delivered, queue, temp, server, wire, arrived>>
  PROVE  Refines
<1>1. Stream' = Stream
  BY DEF Stream, Coming, OnTheWay
<1> QED
  BY <1>1, FewerBytes DEF StreamOrder, StreamInOrder, Pending

LEMMA RefuseRefines ==
  ASSUME StreamInv, NEW call, NEW code, Refuse(call, code)
  PROVE  StreamShape' /\ Refines
<1>1. StreamShape'
  BY DEF StreamInv, StreamShape, Refuse, connVars, kernelVars, streamVars, ghostVars
<1>2. Refines
  BY SameBytes DEF StreamInv, Refuse, connVars, kernelVars, streamVars, ghostVars
<1> QED
  BY <1>1, <1>2

LEMMA EmptyStream ==
  ASSUME queue = <<>>, temp = <<>>, OnTheWay = <<>>
  PROVE  InOrder(Stream) /\ Pending = {}
<1>1. Coming = <<>>
  BY EmptyIs, ConcatEmptySeq DEF Coming, Message
<1>2. Stream = Append(<<>>, <<>>)
  BY <1>1 DEF Stream
<1>3. BytesOf(Append(<<>>, <<>>)) = {}
  BY EmptyIs, BytesAre
<1>4. Sorted(<<>>, <<>>)
  BY DEF Sorted, Ascends
<1> QED
  BY <1>2, <1>3, <1>4, EmptyIs, InOrderIsSorted DEF Pending

LEMMA OpenRefines == StreamInv /\ Open => StreamShape' /\ Refines
<1> SUFFICES ASSUME StreamInv, Open, ~\E call, code : Refuse(call, code)
             PROVE  StreamShape' /\ Refines
  BY RefuseRefines
<1>1. /\ pc = "idle" /\ state = "closed" /\ state' = "open"
      /\ delivered' = {}
      /\ UNCHANGED <<queue, pc, size, temp, established, client, server, conns, backlog,
                     wire, arrived, sent>>
  BY DEF Open, connVars, kernelVars, streamVars
<1>2. StreamShape'
  BY <1>1 DEF StreamInv, StreamShape
<1>3. ~established /\ queue = <<>> /\ temp = <<>>
  BY <1>1 DEF StreamInv, TcpInv, Stage, StreamShape
<1>4. OnTheWay = <<>>
  BY <1>3, StreamIs DEF StreamInv
<1>5. InOrder(Stream) /\ Pending = {}
  BY <1>3, <1>4, EmptyStream
<1>6. Stream' = Stream
  BY <1>1 DEF Stream, Coming, OnTheWay
<1>7. InOrder(Stream') /\ Pending' = {}
  BY <1>5, <1>6 DEF Pending
<1>8. StreamOrder'
  BY <1>1, <1>7 DEF StreamOrder, StreamInOrder
<1>9. Abstract!Open
  BY <1>1, <1>7 DEF Abstract!Open
<1> QED
  BY <1>2, <1>8, <1>9 DEF Refines, Abstract!Next

LEMMA CloseRefines == StreamInv /\ Close => StreamShape' /\ Refines
<1> SUFFICES ASSUME StreamInv, Close, ~\E call, code : Refuse(call, code)
             PROVE  StreamShape' /\ Refines
  BY RefuseRefines
<1>1. /\ pc = "idle" /\ state = "open" /\ state' = "closed"
      /\ established' = FALSE
      /\ client' = NoSocket /\ server' = NoSocket
      /\ backlog' = <<>>
      /\ wire' = [c \in Conn |-> <<>>]
      /\ arrived' = [c \in Conn |-> <<>>]
      /\ queue' = <<>>
      /\ UNCHANGED <<pc, size, temp, conns, sent, delivered>>
  BY DEF Close, Clear, ghostVars
<1>2. temp = <<>>
  BY <1>1 DEF StreamInv, StreamShape
<1>3. StreamShape'
  BY <1>1, <1>2, EmptyIs DEF StreamInv, StreamShape
<1>4. InOrder(Stream') /\ Pending' = {}
  <2>1. OnTheWay' = <<>> /\ Coming' = <<>>
    BY <1>1, <1>2, EmptyIs, ConcatEmptySeq DEF OnTheWay, Coming, Message
  <2>2. Stream' = Append(<<>>, <<>>)
    BY <1>1, <2>1 DEF Stream
  <2>3. BytesOf(Append(<<>>, <<>>)) = {}
    BY EmptyIs, BytesAre
  <2>4. Sorted(<<>>, <<>>)
    BY DEF Sorted, Ascends
  <2> QED
    BY <2>2, <2>3, <2>4, EmptyIs, InOrderIsSorted DEF Pending
<1>5. StreamOrder'
  BY <1>1, <1>4 DEF StreamInv, StreamOrder, StreamInOrder
<1>6. Abstract!Close
  BY <1>1, <1>4 DEF Abstract!Close
<1> QED
  BY <1>3, <1>5, <1>6 DEF Refines, Abstract!Next

(* recv() takes the oldest message, and nothing else of the stream moves.  *)
LEMMA DequeueRefines ==
  ASSUME StreamInv, NEW room, Dequeue(room), Coming' = Coming,
         state = "open", UNCHANGED <<state, sent>>
  PROVE  queue' \in Seq(Message) /\ Refines
<1>1. StreamShape /\ StreamOrder /\ InOrder(Append(queue, Coming)) /\ Coming \in Message
  BY StreamIs DEF StreamInv, StreamOrder, StreamInOrder, Stream
<1>2. CASE queue = <<>>
  <2>1. UNCHANGED <<queue, delivered>>
    BY <1>2 DEF Dequeue
  <2>2. Stream' = Stream
    BY <2>1 DEF Stream
  <2>3. Refines
    BY <1>1, <2>1, <2>2, FewerBytes DEF StreamOrder, StreamInOrder, Pending
  <2> QED
    BY <1>1, <2>1, <2>3 DEF StreamShape
<1>3. CASE queue # <<>>
  <2> DEFINE rest == Append(Tail(queue), Coming)
             batch == ToSet(Head(queue))
  <2>1. /\ Tail(queue) \in Seq(Message)
        /\ InOrder(rest)
        /\ Pending = batch \cup BytesOf(rest)
        /\ \A u \in batch, v \in BytesOf(rest) : u < v
    BY <1>1, <1>3, OldestTaken DEF StreamShape, Pending, Stream
  <2>2. queue' = Tail(queue) /\ Stream' = rest /\ Pending' = BytesOf(rest)
    BY <1>3 DEF Dequeue, Stream, Pending
  <2>3. \/ UNCHANGED delivered
        \/ delivered' = delivered \cup batch
    BY <1>3 DEF Dequeue
  <2> HIDE DEF rest, batch
  <2>4. CASE UNCHANGED delivered
    BY <1>1, <2>1, <2>2, <2>4, FewerBytes
  <2>5. CASE delivered' = delivered \cup batch
    <3>0. Pending \subseteq Nat
      BY <1>1, StreamIs
    <3>1. StreamOrder'
      BY <1>1, <2>1, <2>2, <2>5, <3>0 DEF StreamOrder, StreamInOrder
    <3>2. \A u \in batch : u \notin BytesOf(rest)
      BY <2>1, <3>0
    <3>3. batch \in SUBSET Pending /\ BytesOf(rest) = Pending \ batch
      BY <2>1, <3>2
    <3>4. Abstract!Deliver
      BY <2>1, <2>2, <2>5, <3>3 DEF Abstract!Deliver
    <3> QED
      BY <2>1, <2>2, <3>1, <3>4 DEF Refines, Abstract!Next
  <2> QED
    BY <2>3, <2>4, <2>5
<1> QED
  BY <1>2, <1>3

LEMMA ConnectRefines ==
  ASSUME StreamInv, NEW call, NEW n \in Nat, Connect(call, n), pc = "idle", ~established
  PROVE  StreamShape' /\ Refines
<1>1. CASE Refuse(call, "ERR_IO")
  BY <1>1, RefuseRefines
<1>2. CASE ~Refuse(call, "ERR_IO")
  <2>1. /\ conns < MaxConns
        /\ conns' = conns + 1
        /\ client' = conns + 1
        /\ pc' = "connect"
        /\ size' = n
        /\ UNCHANGED <<state, queue, temp, established, server, backlog, wire, arrived,
                       sent, delivered>>
    BY <1>2 DEF Connect, streamVars, ghostVars
  <2>2. conns + 1 \in Conn
    BY <2>1, TcpAssumption DEF StreamInv, StreamShape, Conn
  <2>3. StreamShape'
    BY <2>1, <2>2 DEF StreamInv, StreamShape
  <2> QED
    BY <2>1, <2>3, SameBytes DEF StreamInv
<1> QED
  BY <1>1, <1>2

LEMMA SendRefines == ASSUME NEW n \in SendSize PROVE StreamInv /\ Send(n) => StreamShape' /\ Refines
<1> SUFFICES ASSUME StreamInv, Send(n), ~\E call, code : Refuse(call, code)
             PROVE  StreamShape' /\ Refines
  BY RefuseRefines
<1>0. n \in Nat
  BY TcpAssumption
<1>1. pc = "idle"
  BY DEF Send
<1>2. CASE ~established
  BY <1>0, <1>1, <1>2, ConnectRefines DEF Send
<1>3. CASE established
  <2>1. /\ pc' \in {"await", "write"}
        /\ size' = n
        /\ UNCHANGED <<state, queue, temp, established, client, server, conns, backlog,
                       wire, arrived, sent, delivered>>
    BY <1>3 DEF Send, WriteOrAwait, connVars, kernelVars, streamVars, ghostVars
  <2>2. StreamShape'
    BY <1>0, <1>1, <2>1 DEF StreamInv, StreamShape
  <2> QED
    BY <2>1, <2>2, SameBytes DEF StreamInv
<1> QED
  BY <1>2, <1>3

LEMMA RecvRefines ==
  ASSUME NEW room \in RecvSize PROVE StreamInv /\ Recv(room) => StreamShape' /\ Refines
<1> SUFFICES ASSUME StreamInv, Recv(room), ~\E call, code : Refuse(call, code)
             PROVE  StreamShape' /\ Refines
  BY RefuseRefines
<1>0. room \in Nat
  BY TcpAssumption
<1>1. pc = "idle" /\ state = "open"
  BY DEF Recv
<1>2. CASE ~established
  BY <1>0, <1>1, <1>2, ConnectRefines DEF Recv
<1>3. CASE established
  <2>1. /\ Dequeue(room)
        /\ UNCHANGED <<state, pc, size, temp, established, client, server, conns, backlog,
                       wire, arrived, sent>>
    BY <1>3 DEF Recv, connVars, kernelVars, streamVars
  <2>2. Coming' = Coming
    BY <2>1 DEF Coming, OnTheWay
  <2>3. queue' \in Seq(Message) /\ Refines
    BY <1>1, <2>1, <2>2, DequeueRefines
  <2>4. StreamShape'
    BY <1>1, <2>1, <2>3 DEF StreamInv, StreamShape
  <2> QED
    BY <2>3, <2>4
<1> QED
  BY <1>2, <1>3

(* No byte waits on a connection that is only now accepted.                *)
LEMMA AcceptRefines == StreamInv /\ Accept => StreamShape' /\ Refines
<1> SUFFICES ASSUME StreamInv, Accept PROVE StreamShape' /\ Refines
  OBVIOUS
<1>1. /\ pc = "connect"
      /\ backlog # <<>>
      /\ server' = Head(backlog)
      /\ backlog' = Tail(backlog)
      /\ established' = TRUE
      /\ pc' \in {"idle", "write", "await"}
      /\ \/ UNCHANGED <<queue, delivered>>
         \/ Dequeue(size)
      /\ UNCHANGED <<state, size, temp, client, conns, wire, arrived, sent>>
  BY DEF Accept, WriteOrAwait, callVars, streamVars
<1>2. Head(backlog) \in Conn /\ Tail(backlog) \in Seq(Conn)
  BY <1>1 DEF StreamInv, StreamShape
<1>3. ~established /\ state = "open"
  BY <1>1 DEF StreamInv, TcpInv, Stage, Connecting
<1>4. OnTheWay = <<>>
  BY <1>3, StreamIs DEF StreamInv
<1>5. OnTheWay' = <<>>
  <2>1. arrived[Head(backlog)] = <<>> /\ wire[Head(backlog)] = <<>>
    BY <1>2, <1>3 DEF StreamInv, StreamShape
  <2>2. OnTheWay' = IF Head(backlog) = NoSocket THEN <<>> ELSE arrived[Head(backlog)] \o wire[Head(backlog)]
    BY <1>1 DEF OnTheWay
  <2> QED
    BY <2>1, <2>2, EmptyIs, ConcatEmptySeq DEF Message
<1>6. Coming' = Coming
  BY <1>1, <1>4, <1>5 DEF Coming
<1>7. queue' \in Seq(Message) /\ Refines
  <2>1. CASE Dequeue(size)
    BY <1>1, <1>3, <1>6, <2>1, DequeueRefines
  <2>2. CASE UNCHANGED <<queue, delivered>>
    <3>1. Stream' = Stream
      BY <1>6, <2>2 DEF Stream
    <3> QED
      BY <1>1, <2>2, <3>1, FewerBytes DEF StreamInv, StreamShape, StreamOrder, StreamInOrder, Pending
  <2> QED
    BY <1>1, <2>1, <2>2
<1>8. StreamShape'
  <2>1. temp = <<>> /\ \A c \in Conn : wire[c] = <<>> /\ arrived[c] = <<>>
    BY <1>1, <1>3 DEF StreamInv, StreamShape
  <2> QED
    BY <1>1, <1>2, <1>3, <1>7, <2>1 DEF StreamInv, StreamShape
<1> QED
  BY <1>7, <1>8

LEMMA GiveUpRefines == StreamInv /\ pc \in Connecting /\ GiveUp => StreamShape' /\ Refines
<1> SUFFICES ASSUME StreamInv, pc \in Connecting, GiveUp PROVE StreamShape' /\ Refines
  OBVIOUS
<1>1. /\ client' = NoSocket
      /\ pc' = "idle" /\ temp' = <<>>
      /\ UNCHANGED <<state, size, queue, established, server, conns, backlog, wire, arrived,
                     sent, delivered>>
  BY DEF GiveUp, CloseClient, Return, streamVars, ghostVars
<1>2. temp = <<>> /\ ~established
  BY DEF StreamInv, StreamShape, TcpInv, Stage, Connecting
<1>3. StreamShape'
  BY <1>1, <1>2 DEF StreamInv, StreamShape
<1> QED
  BY <1>1, <1>2, <1>3, SameBytes DEF StreamInv

(* A call that ends, or goes on, without a byte being moved.               *)
LEMMA QuietRefines ==
  StreamInv /\ (SelectTimeout \/ WriteStalls \/ WriteFails \/ AwaitDone) => StreamShape' /\ Refines
<1> SUFFICES ASSUME StreamInv, SelectTimeout \/ WriteStalls \/ WriteFails \/ AwaitDone
             PROVE  StreamShape' /\ Refines
  OBVIOUS
<1>1. /\ pc \in {"connect", "write", "await"}
      /\ \/ pc' \in {"abandon", "idle"}
         \/ pc' = "read" /\ size > 0
      /\ temp' = temp \/ temp' = <<>>
      /\ UNCHANGED <<state, size, queue, established, client, server, conns, backlog, wire,
                     arrived, sent, delivered>>
  BY DEF SelectTimeout, WriteStalls, WriteFails, AwaitDone, Return, callVars, connVars,
         kernelVars, streamVars, ghostVars
<1>2. temp = <<>> /\ temp' = <<>>
  BY <1>1 DEF StreamInv, StreamShape
<1>3. StreamShape'
  BY <1>1, <1>2 DEF StreamInv, StreamShape
<1> QED
  BY <1>1, <1>2, <1>3, SameBytes DEF StreamInv

LEMMA NextBytesAre ==
  ASSUME NEW n \in Nat \ {0}, sent \in Nat
  PROVE  /\ NextBytes(n) \in Message
         /\ Ascends(NextBytes(n))
         /\ ToSet(NextBytes(n)) = sent + 1 .. sent + n
<1> DEFINE b == NextBytes(n)
<1>1. DOMAIN b = 1 .. n /\ \A k \in 1 .. n : b[k] = sent + k
  BY DEF NextBytes
<1>2. b \in Message
  BY IsASeq DEF NextBytes, Message
<1>3. Ascends(b)
  BY <1>1 DEF Ascends
<1>4. ToSet(b) \subseteq sent + 1 .. sent + n
  BY <1>1 DEF ToSet
<1>5. ASSUME NEW u \in sent + 1 .. sent + n PROVE u \in ToSet(b)
  <2>1. u - sent \in 1 .. n /\ sent + (u - sent) = u
    OBVIOUS
  <2>2. b[u - sent] = u /\ u - sent \in DOMAIN b
    BY <1>1, <2>1
  <2> QED
    BY <2>2 DEF ToSet
<1> QED
  BY <1>2, <1>3, <1>4, <1>5

(* Bytes join the stream when the connection is whole, and are lost when   *)
(* the server end belongs to another one.                                  *)
LEMMA WriteRefines ==
  ASSUME NEW n \in 1 .. SocketRoom PROVE StreamInv /\ Write(n) => StreamShape' /\ Refines
<1> SUFFICES ASSUME StreamInv, Write(n) PROVE StreamShape' /\ Refines
  OBVIOUS
<1> DEFINE b == NextBytes(n)
<1>1. /\ pc = "write"
      /\ wire' = [wire EXCEPT ![client] = @ \o b]
      /\ sent' = sent + n
      /\ pc' \in {"await", "write"}
      /\ UNCHANGED <<state, queue, size, temp, established, client, server, conns, backlog,
                     arrived, delivered>>
  BY DEF Write, connVars, kernelVars
<1>2. /\ StreamShape /\ StreamOrder /\ sent \in Nat
      /\ established /\ state = "open" /\ client \in Conn
      /\ n \in Nat \ {0}
  BY <1>1, TcpAssumption DEF StreamInv, StreamShape, TcpInv, Stage, Moving
<1>3. b \in Message /\ Ascends(b) /\ ToSet(b) = sent + 1 .. sent + n
  BY <1>2, NextBytesAre
<1> HIDE DEF b
<1>4. /\ wire \in [Conn -> Message]
      /\ wire'[client] = wire[client] \o b
      /\ wire[client] \o b \in Message
      /\ \A c \in Conn \ {client} : wire'[c] = wire[c]
      /\ wire' \in [Conn -> Message]
  <2>1. wire \in [Conn -> Message] /\ wire[client] \in Message
    BY <1>2 DEF StreamShape
  <2>2. wire[client] \o b \in Message
    BY <1>3, <2>1, JoinedIs DEF Message
  <2> QED
    BY <1>1, <1>2, <2>1, <2>2
<1>5. StreamShape'
  <2>1. temp = <<>>
    BY <1>1, <1>2 DEF StreamShape
  <2>2. \A c \in Conn : ~established' \/ c # client' => wire'[c] = <<>> /\ arrived'[c] = <<>>
    BY <1>1, <1>2, <1>4 DEF StreamShape
  <2> QED
    BY <1>1, <1>2, <1>4, <2>1, <2>2 DEF StreamShape
<1>6. \/ Stream' = Stream
      \/ /\ InOrder(Stream')
         /\ Pending' = Pending \cup ToSet(b)
  <2>1. CASE server # client
    <3>1. OnTheWay' = OnTheWay
      BY <1>1, <1>2, <1>4, <2>1 DEF OnTheWay, StreamShape
    <3> QED
      BY <1>1, <3>1 DEF Stream, Coming
  <2>2. CASE server = client
    <3>0. server # NoSocket /\ arrived[server] \in Message /\ wire[server] \in Message
      BY <1>2, <2>2, TcpAssumption DEF StreamShape, Conn, NoSocket
    <3>1. OnTheWay' = arrived[server] \o (wire[server] \o b)
      BY <1>1, <1>4, <2>2, <3>0 DEF OnTheWay
    <3>2. OnTheWay' = OnTheWay \o b
      BY <1>3, <3>0, <3>1, Regroup DEF OnTheWay, Message
    <3>3. OnTheWay \in Message /\ Coming = OnTheWay /\ temp = <<>>
      BY <1>1, <1>2, StreamIs DEF StreamShape
    <3>4. OnTheWay \o b \in Message
      BY <1>3, <3>3, JoinedIs DEF Message
    <3>5. Coming' = Coming \o b
      BY <1>1, <3>2, <3>3, <3>4, ConcatEmptySeq DEF Coming, Message
    <3>6. \A u \in BytesOf(Append(queue, Coming)), v \in ToSet(b) : u < v
      <4>1. \A u \in Pending : u \in Nat /\ u <= sent
        BY <1>2, StreamIs DEF StreamOrder
      <4> QED
        BY <1>2, <1>3, <4>1 DEF Pending, Stream
    <3>7. /\ InOrder(Append(queue, Coming \o b))
          /\ BytesOf(Append(queue, Coming \o b)) = BytesOf(Append(queue, Coming)) \cup ToSet(b)
      BY <1>2, <1>3, <3>3, <3>6, BytesWritten DEF StreamShape, StreamOrder, StreamInOrder, Stream
    <3> QED
      BY <1>1, <3>5, <3>7 DEF Stream, Pending
  <2> QED
    BY <2>1, <2>2
<1>7. InOrder(Stream') /\ Pending \subseteq Pending' /\ Pending' \subseteq Pending \cup ToSet(b)
  BY <1>2, <1>6 DEF StreamOrder, StreamInOrder, Pending
<1>8. StreamOrder'
  <2>1. Pending \subseteq Nat /\ delivered \subseteq Nat
    BY <1>2, StreamIs DEF StreamOrder
  <2>2. \A u \in delivered \cup Pending : u <= sent + n
    BY <1>2, <2>1 DEF StreamOrder
  <2>3. \A u \in delivered, v \in ToSet(b) : u < v
    BY <1>2, <1>3, <2>1 DEF StreamOrder
  <2>4. \A v \in ToSet(b) : v <= sent + n
    BY <1>2, <1>3
  <2> QED
    BY <1>1, <1>2, <1>7, <2>1, <2>2, <2>3, <2>4 DEF StreamOrder, StreamInOrder
<1>9. Abstract!Accept
  <2>1. sent' \in Nat /\ sent < sent'
    BY <1>1, <1>2
  <2> QED
    BY <1>1, <1>2, <1>3, <1>7, <2>1 DEF Abstract!Accept
<1> QED
  BY <1>5, <1>8, <1>9 DEF Refines, Abstract!Next

(* What send() queues at its end are the bytes at the front of the stream. *)
LEMMA EnqueueRefines ==
  ASSUME StreamShape, StreamOrder, NEW bytes \in Message, Enqueue(bytes),
         OnTheWay' \in Message, Coming = bytes \o OnTheWay',
         UNCHANGED <<state, sent, delivered>>
  PROVE  queue' \in Seq(Message) /\ Refines
<1>1. /\ queue' = IF bytes = <<>> THEN queue ELSE Append(queue, bytes)
      /\ temp' = <<>>
  BY DEF Enqueue, Return
<1>2. Coming' = OnTheWay'
  <2>1. Coming' = temp' \o OnTheWay'
    BY DEF Coming
  <2> QED
    BY <1>1, <2>1, ConcatEmptySeq DEF Message
<1>3. queue \in Seq(Message) /\ InOrder(Append(queue, bytes \o OnTheWay'))
  BY DEF StreamShape, StreamOrder, StreamInOrder, Stream
<1>4. CASE bytes = <<>>
  <2>1. Coming = OnTheWay'
    BY <1>4, ConcatEmptySeq DEF Message
  <2>2. queue' = queue /\ Stream' = Stream
    BY <1>1, <1>2, <1>4, <2>1 DEF Stream
  <2> QED
    BY <1>3, <2>2, FewerBytes DEF StreamOrder, StreamInOrder, Pending
<1>5. CASE bytes # <<>>
  <2>1. queue' = Append(queue, bytes) /\ Stream' = Append(Append(queue, bytes), OnTheWay')
    BY <1>1, <1>2, <1>5 DEF Stream
  <2>2. /\ queue' \in Seq(Message)
        /\ InOrder(Stream')
        /\ BytesOf(Stream') = BytesOf(Stream)
    BY <1>3, <2>1, MessageMade DEF Stream
  <2> QED
    BY <2>2, FewerBytes DEF Pending
<1> QED
  BY <1>4, <1>5

LEMMA ReadStopsRefines == StreamInv /\ ReadStops => StreamShape' /\ Refines
<1> SUFFICES ASSUME StreamInv, ReadStops PROVE StreamShape' /\ Refines
  OBVIOUS
<1>1. /\ pc = "read" /\ pc' = "idle" /\ temp' = <<>>
      /\ Enqueue(temp)
      /\ UNCHANGED <<state, size, established, client, server, conns, backlog, wire, arrived,
                     sent, delivered>>
  BY DEF ReadStops, Enqueue, Return, connVars, kernelVars, streamVars, ghostVars
<1>2. StreamShape /\ StreamOrder /\ state = "open" /\ temp \in Message
  BY <1>1 DEF StreamInv, StreamShape, TcpInv, Stage, Moving
<1>3. OnTheWay' = OnTheWay /\ OnTheWay \in Message /\ Coming = temp \o OnTheWay
  BY <1>1, <1>2, StreamIs DEF OnTheWay
<1>4. queue' \in Seq(Message) /\ Refines
  BY <1>1, <1>2, <1>3, EnqueueRefines
<1>5. StreamShape'
  BY <1>1, <1>2, <1>4, EmptyIs DEF StreamShape
<1> QED
  BY <1>4, <1>5

LEMMA ReadFailsRefines == StreamInv /\ ReadFails => StreamShape' /\ Refines
<1> SUFFICES ASSUME StreamInv, ReadFails PROVE StreamShape' /\ Refines
  OBVIOUS
<1>1. /\ pc = "read" /\ pc' = "idle" /\ temp' = <<>>
      /\ UNCHANGED <<state, size, queue, established, client, server, conns, backlog, wire,
                     arrived, sent, delivered>>
  BY DEF ReadFails, Return, connVars, kernelVars, streamVars, ghostVars
<1>2. StreamShape /\ StreamOrder /\ state = "open"
  BY <1>1 DEF StreamInv, TcpInv, Stage, Moving
<1>3. StreamShape'
  BY <1>1, <1>2, EmptyIs DEF StreamShape
<1>4. /\ OnTheWay' = OnTheWay /\ OnTheWay \in Message /\ Coming = temp \o OnTheWay
      /\ temp \in Message /\ queue \in Seq(Message)
  BY <1>1, <1>2, StreamIs DEF OnTheWay, StreamShape
<1>5. Coming' = OnTheWay
  <2>1. Coming' = temp' \o OnTheWay'
    BY DEF Coming
  <2> QED
    BY <1>1, <1>4, <2>1, ConcatEmptySeq DEF Message
<1>6. InOrder(Stream') /\ Pending' \subseteq Pending
  <2>1. Stream' = Append(queue, OnTheWay)
    BY <1>1, <1>5 DEF Stream
  <2>2. InOrder(Append(queue, temp \o OnTheWay))
    BY <1>2, <1>4 DEF StreamOrder, StreamInOrder, Stream
  <2> QED
    BY <1>4, <2>1, <2>2, FrontDropped DEF Pending, Stream
<1> QED
  BY <1>1, <1>2, <1>3, <1>6, FewerBytes

(* What recv() reads leaves the front of the socket for the end of         *)
(* temp_buf.                                                               *)
LEMMA ReadRefines == StreamInv /\ Read => StreamShape' /\ Refines
<1> SUFFICES ASSUME StreamInv, Read PROVE StreamShape' /\ Refines
  OBVIOUS
<1> DEFINE stream == arrived[server]
           n == IF Len(stream) < size - Len(temp) THEN Len(stream) ELSE size - Len(temp)
           front == SubSeq(stream, 1, n)
           rest == SubSeq(stream, n + 1, Len(stream))
           bytes == temp \o front
<1>1. /\ pc = "read"
      /\ arrived' = [arrived EXCEPT ![server] = rest]
      /\ \/ Len(bytes) = size /\ Enqueue(bytes)
         \/ /\ Len(bytes) < size /\ temp' = bytes
            /\ UNCHANGED <<queue, pc>>
      /\ UNCHANGED <<state, size, established, client, server, conns, backlog, wire, sent,
                     delivered>>
  BY DEF Read, Enqueue, Return, connVars, kernelVars, ghostVars
<1>2. /\ StreamShape /\ StreamOrder /\ state = "open" /\ established
      /\ server \in Conn /\ server # NoSocket
      /\ temp \in Message /\ size \in Nat /\ Len(temp) < size
      /\ arrived \in [Conn -> Message] /\ wire \in [Conn -> Message]
      /\ stream \in Message
  BY <1>1 DEF StreamInv, StreamShape, TcpInv, Stage, Moving
<1>3. n \in 0 .. Len(stream)
  <2>1. Len(stream) \in Nat /\ Len(temp) \in Nat
    BY <1>2 DEF Message
  <2> QED
    BY <1>2, <2>1
<1>4. front \in Message /\ rest \in Message /\ front \o rest = stream
  BY <1>2, <1>3, Split DEF Message
<1>5. bytes \in Message
  BY <1>2, <1>4, JoinedIs DEF Message
<1> HIDE DEF stream, n, front, rest, bytes
<1>6. /\ arrived' \in [Conn -> Message]
      /\ arrived'[server] = rest
      /\ \A c \in Conn \ {server} : arrived'[c] = arrived[c]
  BY <1>1, <1>2, <1>4
<1>7. \A c \in Conn : ~established' \/ c # client' => wire'[c] = <<>> /\ arrived'[c] = <<>>
  <2>1. arrived[server] # <<>>
    BY DEF Read
  <2>2. server = client
    BY <1>2, <2>1 DEF StreamShape
  <2> QED
    BY <1>1, <1>2, <1>6, <2>2 DEF StreamShape
<1>8. OnTheWay' = rest \o wire[server]
  BY <1>1, <1>2, <1>6 DEF OnTheWay
<1>9. OnTheWay' \in Message
  BY <1>2, <1>4, <1>8, JoinedIs DEF Message
<1>10. Coming = bytes \o OnTheWay'
  <2>1. OnTheWay = stream \o wire[server]
    BY <1>2 DEF OnTheWay, stream
  <2>2. OnTheWay = front \o (rest \o wire[server])
    <3>1. wire[server] \in Message
      BY <1>2
    <3>2. (front \o rest) \o wire[server] = front \o (rest \o wire[server])
      BY <1>4, <3>1, Regroup DEF Message
    <3> QED
      BY <1>4, <2>1, <3>2
  <2>3. Coming = temp \o (front \o OnTheWay')
    BY <1>8, <2>2 DEF Coming
  <2> QED
    BY <1>2, <1>4, <1>9, <2>3, Regroup, ZenonT(30) DEF Message, bytes
<1>11. CASE Enqueue(bytes)
  <2>1. queue' \in Seq(Message) /\ Refines
    BY <1>1, <1>2, <1>5, <1>9, <1>10, <1>11, EnqueueRefines
  <2>2. temp' = <<>> /\ pc' = "idle"
    BY <1>11 DEF Enqueue, Return
  <2>3. StreamShape'
    BY <1>1, <1>2, <1>6, <1>7, <2>1, <2>2, EmptyIs DEF StreamShape
  <2> QED
    BY <2>1, <2>3
<1>12. CASE Len(bytes) < size /\ temp' = bytes /\ UNCHANGED <<queue, pc>>
  <2>1. StreamShape'
    BY <1>1, <1>2, <1>5, <1>6, <1>7, <1>12 DEF StreamShape
  <2>2. Coming' = Coming
    BY <1>10, <1>12 DEF Coming
  <2>3. Stream' = Stream
    BY <1>12, <2>2 DEF Stream
  <2>4. Refines
    BY <1>1, <1>2, <2>3, FewerBytes DEF StreamOrder, StreamInOrder, Pending
  <2> QED
    BY <2>1, <2>4
<1> QED
  BY <1>1, <1>11, <1>12

LEMMA BytesArriveRefines ==
  ASSUME NEW c \in Conn PROVE StreamInv /\ BytesArrive(c) => StreamShape' /\ Refines
<1> SUFFICES ASSUME StreamInv, BytesArrive(c) PROVE StreamShape' /\ Refines
  OBVIOUS
<1>1. PICK n \in 1 .. Len(wire[c]) :
         /\ arrived' = [arrived EXCEPT ![c] = @ \o SubSeq(wire[c], 1, n)]
         /\ wire' = [wire EXCEPT ![c] = SubSeq(@, n + 1, Len(@))]
  BY DEF BytesArrive
<1>2. /\ wire[c] # <<>>
      /\ UNCHANGED <<state, queue, pc, size, temp, established, client, server, conns, backlog,
                     sent, delivered>>
  BY DEF BytesArrive, callVars, connVars, kernelVars, ghostVars
<1>3. /\ StreamShape /\ StreamOrder
      /\ arrived \in [Conn -> Message] /\ wire \in [Conn -> Message]
      /\ arrived[c] \in Message /\ wire[c] \in Message
  BY DEF StreamInv, StreamShape
<1> DEFINE front == SubSeq(wire[c], 1, n)
           rest == SubSeq(wire[c], n + 1, Len(wire[c]))
<1>4. front \in Message /\ rest \in Message /\ front \o rest = wire[c]
  <2>1. n \in 0 .. Len(wire[c])
    OBVIOUS
  <2> QED
    BY <1>3, <2>1, Split DEF Message
<1> HIDE DEF front, rest
<1>5. arrived[c] \o front \in Message
  BY <1>3, <1>4, JoinedIs DEF Message
<1>6. /\ arrived' \in [Conn -> Message] /\ wire' \in [Conn -> Message]
      /\ arrived'[c] = arrived[c] \o front /\ wire'[c] = rest
      /\ \A d \in Conn \ {c} : arrived'[d] = arrived[d] /\ wire'[d] = wire[d]
  BY <1>1, <1>3, <1>4, <1>5 DEF front, rest
<1>7. StreamShape'
  <2>1. established /\ client = c
    BY <1>2, <1>3 DEF StreamShape
  <2>2. \A d \in Conn : ~established' \/ d # client' => wire'[d] = <<>> /\ arrived'[d] = <<>>
    BY <1>2, <1>3, <1>6, <2>1 DEF StreamShape
  <2> QED
    BY <1>2, <1>3, <1>6, <2>2 DEF StreamShape
<1>8. OnTheWay' = OnTheWay
  <2>1. CASE server = c
    <3>1. c # NoSocket
      BY DEF Conn, NoSocket
    <3>2. OnTheWay' = (arrived[c] \o front) \o rest
      BY <1>2, <1>6, <2>1, <3>1 DEF OnTheWay
    <3>3. OnTheWay' = arrived[c] \o (front \o rest)
      BY <1>3, <1>4, <3>2, Regroup DEF Message
    <3> QED
      BY <1>4, <2>1, <3>1, <3>3 DEF OnTheWay
  <2>2. CASE server # c
    <3>1. server = NoSocket \/ server \in Conn \ {c}
      BY <1>3, <2>2 DEF StreamShape
    <3> QED
      BY <1>2, <1>6, <3>1 DEF OnTheWay
  <2> QED
    BY <2>1, <2>2
<1>9. Stream' = Stream
  BY <1>2, <1>8 DEF Stream, Coming
<1>10. Refines
  BY <1>2, <1>3, <1>9, FewerBytes DEF StreamOrder, StreamInOrder, Pending
<1> QED
  BY <1>7, <1>10

LEMMA HandshakeEndsRefines ==
  ASSUME NEW c \in Conn PROVE StreamInv /\ HandshakeEnds(c) => StreamShape' /\ Refines
<1> SUFFICES ASSUME StreamInv, HandshakeEnds(c) PROVE StreamShape' /\ Refines
  OBVIOUS
<1>1. /\ backlog' = Append(backlog, c)
      /\ UNCHANGED <<state, queue, pc, size, temp, established, client, server, conns, wire,
                     arrived, sent, delivered>>
  BY DEF HandshakeEnds, callVars, connVars, streamVars, ghostVars
<1>2. StreamShape'
  BY <1>1 DEF StreamInv, StreamShape
<1> QED
  BY <1>1, <1>2, SameBytes DEF StreamInv

LEMMA StreamStep == StreamInv /\ [Next]_vars => StreamInv' /\ [Abstract!Next]_(Abstract!vars)
<1> SUFFICES ASSUME StreamInv, [Next]_vars PROVE StreamShape' /\ Refines
  BY TcpStep DEF StreamInv, Refines
<1>1. CASE UNCHANGED vars
  <2>1. UNCHANGED <<state, queue, pc, size, temp, established, client, server, conns, backlog,
                    wire, arrived, sent, delivered>>
    BY <1>1 DEF vars, callVars, connVars, kernelVars, streamVars, ghostVars
  <2>2. StreamShape'
    BY <2>1 DEF StreamInv, StreamShape
  <2> QED
    BY <2>1, <2>2, SameBytes DEF StreamInv
<1>2. CASE AcceptFails \/ Abandon
  BY <1>2, GiveUpRefines DEF AcceptFails, Abandon, Connecting
<1>3. CASE Kernel
  BY <1>3, BytesArriveRefines, HandshakeEndsRefines DEF Kernel
<1>4. CASE \E n \in 1 .. SocketRoom : Write(n)
  BY <1>4, WriteRefines
<1>5. CASE SelectTimeout \/ WriteStalls \/ WriteFails \/ AwaitDone
  BY <1>5, QuietRefines
<1>6. CASE \/ Open \/ Close \/ Accept \/ Read \/ ReadStops \/ ReadFails
           \/ \E n \in SendSize : Send(n)
           \/ \E room \in RecvSize : Recv(room)
  BY <1>6, OpenRefines, CloseRefines, AcceptRefines, ReadRefines, ReadStopsRefines,
     ReadFailsRefines, SendRefines, RecvRefines
<1> QED
  BY <1>1, <1>2, <1>3, <1>4, <1>5, <1>6 DEF Next, Step, Fault

LEMMA StreamInit == Init => StreamInv /\ Abstract!Init
<1> SUFFICES ASSUME Init PROVE StreamShape /\ StreamOrder /\ Abstract!Init
  BY TcpInit DEF StreamInv
<1>1. StreamShape
  BY EmptyIs, EmptySeq DEF Init, StreamShape, NoSocket
<1>2. OnTheWay = <<>>
  BY DEF Init, OnTheWay
<1>3. InOrder(Stream) /\ Pending = {}
  BY <1>2, EmptyStream DEF Init
<1>4. StreamOrder
  BY <1>3 DEF Init, StreamOrder, StreamInOrder
<1>5. Abstract!Init
  BY <1>3 DEF Init, Abstract!Init
<1> QED
  BY <1>1, <1>4, <1>5

THEOREM StreamInvariant == Spec => []StreamInv
<1>1. Init => StreamInv
  BY StreamInit
<1>2. StreamInv /\ [Next]_vars => StreamInv'
  BY StreamStep
<1> QED
  BY <1>1, <1>2, PTL DEF Spec

(* Bytes keep their order through the socket, temp_buf and recv_queue,     *)
(* whichever call stops half way (transport/tcp.cpp).                      *)
THEOREM TcpStreamInOrder == Spec => []StreamInOrder
<1>1. StreamInv => StreamInOrder
  BY DEF StreamInv, StreamOrder
<1> QED
  BY <1>1, StreamInvariant, PTL

(* The transport is an ordered channel of bytes: recv() repeats no byte,   *)
(* overtakes none, and returns none of an earlier session, even when       *)
(* ensure_connection() has joined two different connections.               *)
THEOREM TcpImplementsChannel == Spec => ImplementsChannel
<1>1. Init => Abstract!Init
  BY StreamInit
<1>2. StreamInv /\ [Next]_vars => [Abstract!Next]_(Abstract!vars)
  BY StreamStep
<1> QED
  BY <1>1, <1>2, StreamInvariant, PTL DEF Spec, Abstract!Spec, ImplementsChannel

----------------------------------------------------------------------------
(***************************************************************************)
(* What the variables are, for all bounds.                                 *)
(***************************************************************************)

Byte == 1 .. MaxBytes

(* What is written of a message never exceeds it, nor what all messages    *)
(* may be: total_sent counts up to a size that send() has admitted.        *)
Budget ==
  /\ pc \in {"idle"} \cup Connecting => total = 0
  /\ pc \in Moving => op = "send"
  /\ pc # "idle" /\ op = "send" =>
       size <= MaxMessageSize /\ total <= size /\ sent + (size - total) <= MaxBytes

Control ==
  /\ state \in {"open", "closed"}
  /\ established \in BOOLEAN
  /\ client \in Conn \cup {NoSocket}
  /\ server \in Conn \cup {NoSocket}
  /\ pc \in {"idle", "connect", "abandon", "write", "await", "read"}
  /\ op \in {"open", "close", "send", "recv"}
  /\ size \in SendSize \cup RecvSize \cup {0}
  /\ total \in 0 .. MaxMessageSize
  /\ ret \in {"OK", "ERR_IO", "ERR_FORMAT", "ERR_TIMEOUT"}
  /\ conns \in 0 .. MaxConns
  /\ clients \subseteq Conn
  /\ servers \subseteq Conn
  /\ syn \subseteq Conn
  /\ backlog \in Seq(Conn)
  /\ sent \in 0 .. MaxBytes
  /\ Budget

Data ==
  /\ queue \in Seq(Seq(Byte))
  /\ temp \in Seq(Byte)
  /\ wire \in [Conn -> Seq(Byte)]
  /\ arrived \in [Conn -> Seq(Byte)]
  /\ delivered \subseteq Byte

TypedInv == StreamInv /\ Control /\ Data

LEMMA TypedInit == Init => TypedInv
<1> SUFFICES ASSUME Init PROVE Control /\ Data
  BY StreamInit DEF TypedInv
<1>1. /\ state = "closed" /\ established = FALSE /\ client = NoSocket /\ server = NoSocket
      /\ pc = "idle" /\ op = "open" /\ size = 0 /\ total = 0 /\ ret = "OK"
      /\ conns = 0 /\ clients = {} /\ servers = {} /\ syn = {} /\ backlog = <<>> /\ sent = 0
  BY DEF Init
<1>2. Budget
  BY <1>1 DEF Budget, Moving, Connecting
<1>3. Control
  <2>1. total \in 0 .. MaxMessageSize /\ conns \in 0 .. MaxConns /\ sent \in 0 .. MaxBytes
    BY <1>1, TcpAssumption
  <2>2. backlog \in Seq(Conn)
    BY <1>1, EmptySeq
  <2> QED
    BY <1>1, <1>2, <2>1, <2>2 DEF Control
<1>4. Data
  BY EmptySeq DEF Init, Data
<1> QED
  BY <1>3, <1>4

LEMMA DataSame ==
  ASSUME Data, UNCHANGED <<queue, temp, wire, arrived, delivered>>
  PROVE  Data'
  BY DEF Data

LEMMA RefuseTyped ==
  ASSUME TypedInv, NEW call \in {"open", "close", "send", "recv"},
         NEW code \in {"OK", "ERR_IO", "ERR_FORMAT"}, Refuse(call, code)
  PROVE  Control' /\ Data'
<1>1. /\ pc = "idle" /\ op' = call /\ ret' = code
      /\ UNCHANGED <<state, queue, pc, size, total, temp, established, client, server, conns,
                     clients, servers, syn, backlog, wire, arrived, sent, delivered>>
  BY DEF Refuse, connVars, kernelVars, streamVars, ghostVars
<1>2. Control /\ Data
  BY DEF TypedInv
<1>3. Control'
  BY <1>1, <1>2 DEF Control, Budget, Moving, Connecting
<1> QED
  BY <1>1, <1>2, <1>3, DataSame

LEMMA OpenTyped == TypedInv /\ Open => Control' /\ Data'
<1> SUFFICES ASSUME TypedInv, Open,
                    ~\E call \in {"open", "close", "send", "recv"},
                       code \in {"OK", "ERR_IO", "ERR_FORMAT"} : Refuse(call, code)
             PROVE  Control' /\ Data'
  BY RefuseTyped
<1>1. /\ pc = "idle" /\ state' = "open" /\ op' = "open" /\ ret' = "OK"
      /\ delivered' = {}
      /\ UNCHANGED <<queue, pc, size, total, temp, established, client, server, conns,
                     clients, servers, syn, backlog, wire, arrived, sent>>
  BY DEF Open, connVars, kernelVars, streamVars
<1>2. Control /\ Data
  BY DEF TypedInv
<1> QED
  BY <1>1, <1>2 DEF Control, Data, Budget, Moving, Connecting

LEMMA CloseTyped == TypedInv /\ Close => Control' /\ Data'
<1> SUFFICES ASSUME TypedInv, Close,
                    ~\E call \in {"open", "close", "send", "recv"},
                       code \in {"OK", "ERR_IO", "ERR_FORMAT"} : Refuse(call, code)
             PROVE  Control' /\ Data'
  BY RefuseTyped
<1>1. /\ pc = "idle" /\ state' = "closed" /\ op' = "close" /\ ret' = "OK"
      /\ established' = FALSE
      /\ client' = NoSocket /\ clients' = clients \ {client}
      /\ server' = NoSocket /\ servers' = servers \ {server}
      /\ syn' = {} /\ backlog' = <<>>
      /\ wire' = [c \in Conn |-> <<>>] /\ arrived' = [c \in Conn |-> <<>>]
      /\ queue' = <<>>
      /\ UNCHANGED <<pc, size, total, temp, conns, sent, delivered>>
  BY DEF Close, Clear, ghostVars
<1>2. Control /\ Data
  BY DEF TypedInv
<1>3. Control'
  BY <1>1, <1>2, EmptySeq DEF Control, Budget, Moving, Connecting
<1>4. Data'
  BY <1>1, <1>2, EmptySeq DEF Data
<1> QED
  BY <1>3, <1>4

(* A call begins: what it is to send fits what all messages may be.        *)
LEMMA ConnectTyped ==
  ASSUME TypedInv, NEW call \in {"send", "recv"}, NEW n \in SendSize \cup RecvSize,
         Connect(call, n), pc = "idle",
         call = "send" => n <= MaxMessageSize /\ sent + n <= MaxBytes
  PROVE  Control' /\ Data'
<1>1. CASE Refuse(call, "ERR_IO")
  BY <1>1, RefuseTyped
<1>2. CASE ~Refuse(call, "ERR_IO")
  <2>1. /\ conns < MaxConns /\ conns' = conns + 1
        /\ client' = conns + 1
        /\ clients' = clients \cup {conns + 1}
        /\ syn' = syn \cup {conns + 1}
        /\ pc' = "connect" /\ op' = call /\ size' = n
        /\ UNCHANGED <<state, queue, ret, total, temp, established, server, servers, backlog,
                       wire, arrived, sent, delivered>>
    BY <1>2 DEF Connect, streamVars, ghostVars
  <2>2. Control /\ Data /\ n \in Nat /\ n - 0 = n
    BY TcpAssumption DEF TypedInv
  <2>3. conns + 1 \in Conn /\ conns' \in 0 .. MaxConns
    BY <2>1, <2>2, TcpAssumption DEF Control, Conn
  <2>4. Control'
    BY <2>1, <2>2, <2>3, TcpAssumption DEF Control, Budget, Moving, Connecting
  <2> QED
    BY <2>1, <2>2, <2>4, DataSame
<1> QED
  BY <1>1, <1>2

LEMMA SendTyped == ASSUME NEW n \in SendSize PROVE TypedInv /\ Send(n) => Control' /\ Data'
<1> SUFFICES ASSUME TypedInv, Send(n),
                    ~\E call \in {"open", "close", "send", "recv"},
                       code \in {"OK", "ERR_IO", "ERR_FORMAT"} : Refuse(call, code)
             PROVE  Control' /\ Data'
  BY RefuseTyped
<1>1. /\ pc = "idle" /\ ~(n > MaxMessageSize) /\ sent + n <= MaxBytes
      /\ \/ Connect("send", n)
         \/ /\ established /\ pc' \in {"write", "await"} /\ op' = "send" /\ size' = n
            /\ UNCHANGED <<state, queue, ret, total, temp, established, client, server, conns,
                           clients, servers, syn, backlog, wire, arrived, sent, delivered>>
  BY DEF Send, TooLarge, WriteOrAwait, connVars, kernelVars, streamVars, ghostVars
<1>2. n \in Nat /\ n - 0 = n /\ n <= MaxMessageSize
  BY <1>1, TcpAssumption
<1>3. CASE Connect("send", n)
  BY <1>1, <1>2, <1>3, ConnectTyped
<1>4. CASE /\ pc' \in {"write", "await"} /\ op' = "send" /\ size' = n
           /\ UNCHANGED <<state, queue, ret, total, temp, established, client, server, conns,
                          clients, servers, syn, backlog, wire, arrived, sent, delivered>>
  <2>1. Control /\ Data /\ total = 0
    BY <1>1 DEF TypedInv, Control, Budget
  <2>2. Control'
    BY <1>1, <1>2, <1>4, <2>1, TcpAssumption DEF Control, Budget, Moving, Connecting
  <2> QED
    BY <1>4, <2>1, <2>2, DataSame
<1> QED
  BY <1>1, <1>3, <1>4

(* What leaves the queue is a message of bytes.                            *)
LEMMA DequeueTyped ==
  ASSUME Data, NEW room, Dequeue(room)
  PROVE  /\ queue' \in Seq(Seq(Byte))
         /\ delivered' \subseteq Byte
         /\ ret' \in {"OK", "ERR_FORMAT", "ERR_TIMEOUT"}
<1> DEFINE M == Seq(Byte)
<1>1. queue \in Seq(M) /\ delivered \subseteq Byte
  BY DEF Data
<1>2. CASE queue = <<>>
  BY <1>1, <1>2 DEF Dequeue
<1>3. CASE queue # <<>>
  <2>1. /\ queue' = Tail(queue)
        /\ delivered' \in {delivered, delivered \cup ToSet(Head(queue))}
        /\ ret' \in {"OK", "ERR_FORMAT"}
    BY <1>3 DEF Dequeue
  <2> HIDE DEF M
  <2>2. Tail(queue) \in Seq(M) /\ Head(queue) \in M
    BY <1>1, <1>3
  <2> USE DEF M
  <2>3. ToSet(Head(queue)) \subseteq Byte
    BY <2>2 DEF ToSet
  <2> QED
    BY <1>1, <2>1, <2>2, <2>3
<1> QED
  BY <1>2, <1>3

LEMMA RecvTyped == ASSUME NEW room \in RecvSize PROVE TypedInv /\ Recv(room) => Control' /\ Data'
<1> SUFFICES ASSUME TypedInv, Recv(room),
                    ~\E call \in {"open", "close", "send", "recv"},
                       code \in {"OK", "ERR_IO", "ERR_FORMAT"} : Refuse(call, code)
             PROVE  Control' /\ Data'
  BY RefuseTyped
<1>1. /\ pc = "idle"
      /\ \/ Connect("recv", room)
         \/ /\ op' = "recv" /\ Dequeue(room)
            /\ UNCHANGED <<state, pc, size, total, temp, established, client, server, conns,
                           clients, servers, syn, backlog, wire, arrived, sent>>
  BY DEF Recv, connVars, kernelVars, streamVars
<1>2. CASE Connect("recv", room)
  BY <1>1, <1>2, ConnectTyped
<1>3. CASE /\ op' = "recv" /\ Dequeue(room)
           /\ UNCHANGED <<state, pc, size, total, temp, established, client, server, conns,
                          clients, servers, syn, backlog, wire, arrived, sent>>
  <2>1. Control /\ Data
    BY DEF TypedInv
  <2>2. /\ queue' \in Seq(Seq(Byte)) /\ delivered' \subseteq Byte
        /\ ret' \in {"OK", "ERR_FORMAT", "ERR_TIMEOUT"}
    BY <1>3, <2>1, DequeueTyped
  <2>3. Control'
    BY <1>1, <1>3, <2>1, <2>2 DEF Control, Budget, Moving, Connecting
  <2>4. Data'
    BY <1>3, <2>1, <2>2 DEF Data
  <2> QED
    BY <2>3, <2>4
<1> QED
  BY <1>1, <1>2, <1>3

LEMMA AcceptTyped == TypedInv /\ Accept => Control' /\ Data'
<1> SUFFICES ASSUME TypedInv, Accept PROVE Control' /\ Data'
  OBVIOUS
<1>1. /\ pc = "connect" /\ backlog # <<>>
      /\ server' = Head(backlog) /\ servers' = servers \cup {Head(backlog)}
      /\ backlog' = Tail(backlog) /\ established' = TRUE
      /\ \/ /\ op = "send" /\ pc' \in {"write", "await"}
            /\ UNCHANGED <<queue, ret, delivered>>
         \/ /\ op = "recv" /\ pc' = "idle" /\ Dequeue(size)
      /\ UNCHANGED <<state, op, size, total, temp, client, conns, clients, syn, wire, arrived,
                     sent>>
  BY DEF Accept, WriteOrAwait, callVars, streamVars
<1>2. Control /\ Data
  BY DEF TypedInv
<1>3. /\ queue' \in Seq(Seq(Byte)) /\ delivered' \subseteq Byte
      /\ ret' \in {"OK", "ERR_IO", "ERR_FORMAT", "ERR_TIMEOUT"}
  BY <1>1, <1>2, DequeueTyped DEF Control, Data
<1>4. Head(backlog) \in Conn /\ Tail(backlog) \in Seq(Conn)
  BY <1>1, <1>2 DEF Control
<1>5. Control'
  BY <1>1, <1>2, <1>3, <1>4 DEF Control, Budget, Moving, Connecting
<1>6. Data'
  BY <1>1, <1>2, <1>3 DEF Data
<1> QED
  BY <1>5, <1>6

(* A call ends, with what recv_queue then holds.                           *)
LEMMA ReturnTyped ==
  ASSUME TypedInv, NEW code \in {"OK", "ERR_IO", "ERR_TIMEOUT"}, Return(code),
         queue' \in Seq(Seq(Byte)), arrived' \in [Conn -> Seq(Byte)],
         client' \in {client, NoSocket}, clients' \subseteq clients, syn' \subseteq syn,
         UNCHANGED <<state, established, server, conns, servers, backlog, wire, sent, delivered>>
  PROVE  Control' /\ Data'
<1>1. /\ pc' = "idle" /\ ret' = code /\ total' = 0 /\ temp' = <<>>
      /\ UNCHANGED <<op, size>>
  BY DEF Return
<1>2. Control /\ Data
  BY DEF TypedInv
<1>3. Control'
  BY <1>1, <1>2, TcpAssumption DEF Control, Budget, Moving, Connecting
<1>4. Data'
  BY <1>1, <1>2, EmptySeq DEF Data
<1> QED
  BY <1>3, <1>4

LEMMA GiveUpTyped == TypedInv /\ GiveUp => Control' /\ Data'
<1> SUFFICES ASSUME TypedInv, GiveUp PROVE Control' /\ Data'
  OBVIOUS
<1>1. /\ Return("ERR_IO")
      /\ client' = NoSocket /\ clients' \subseteq clients /\ syn' \subseteq syn
      /\ UNCHANGED <<state, queue, established, server, conns, servers, backlog, wire, arrived,
                     sent, delivered>>
  BY DEF GiveUp, CloseClient, streamVars, ghostVars
<1>2. queue' \in Seq(Seq(Byte)) /\ arrived' \in [Conn -> Seq(Byte)]
  BY <1>1 DEF TypedInv, Data
<1> QED
  BY <1>1, <1>2, ReturnTyped

LEMMA StopTyped ==
  TypedInv /\ (WriteStalls \/ WriteFails \/ ReadFails) => Control' /\ Data'
<1> SUFFICES ASSUME TypedInv, WriteStalls \/ WriteFails \/ ReadFails PROVE Control' /\ Data'
  OBVIOUS
<1>1. /\ Return("ERR_IO") \/ Return("ERR_TIMEOUT")
      /\ UNCHANGED <<state, queue, established, client, server, conns, clients, servers, syn,
                     backlog, wire, arrived, sent, delivered>>
  BY DEF WriteStalls, WriteFails, ReadFails, connVars, kernelVars, streamVars, ghostVars
<1>2. queue' \in Seq(Seq(Byte)) /\ arrived' \in [Conn -> Seq(Byte)]
  BY <1>1 DEF TypedInv, Data
<1> QED
  BY <1>1, <1>2, ReturnTyped

LEMMA AwaitTyped == TypedInv /\ (SelectTimeout \/ AwaitDone) => Control' /\ Data'
<1> SUFFICES ASSUME TypedInv, SelectTimeout \/ AwaitDone PROVE Control' /\ Data'
  OBVIOUS
<1>1. /\ \/ pc = "connect" /\ pc' = "abandon" /\ UNCHANGED <<ret, op, size, total, temp>>
         \/ pc = "await" /\ pc' = "read" /\ UNCHANGED <<ret, op, size, total, temp>>
         \/ Return("OK") \/ Return("ERR_TIMEOUT")
      /\ UNCHANGED <<state, queue, established, client, server, conns, clients, servers, syn,
                     backlog, wire, arrived, sent, delivered>>
  BY DEF SelectTimeout, AwaitDone, callVars, connVars, kernelVars, streamVars, ghostVars
<1>2. Control /\ Data
  BY DEF TypedInv
<1>3. CASE Return("OK") \/ Return("ERR_TIMEOUT")
  <2>1. queue' \in Seq(Seq(Byte)) /\ arrived' \in [Conn -> Seq(Byte)]
    BY <1>1, <1>2 DEF Data
  <2> QED
    BY <1>1, <1>3, <2>1, ReturnTyped
<1>4. CASE /\ \/ pc = "connect" /\ pc' = "abandon"
              \/ pc = "await" /\ pc' = "read"
           /\ UNCHANGED <<ret, op, size, total, temp>>
  <2>1. Control'
    BY <1>1, <1>2, <1>4 DEF Control, Budget, Moving, Connecting
  <2> QED
    BY <1>1, <1>2, <1>4, <2>1, DataSame
<1> QED
  BY <1>1, <1>3, <1>4

(* The bytes of a message are numbered within what all messages may be.    *)
LEMMA WriteTyped ==
  ASSUME NEW n \in 1 .. SocketRoom PROVE TypedInv /\ Write(n) => Control' /\ Data'
<1> SUFFICES ASSUME TypedInv, Write(n) PROVE Control' /\ Data'
  OBVIOUS
<1> DEFINE b == NextBytes(n)
<1>1. /\ pc = "write" /\ pc' \in {"write", "await"}
      /\ total + n <= size
      /\ wire' = [wire EXCEPT ![client] = @ \o b]
      /\ sent' = sent + n /\ total' = total + n
      /\ UNCHANGED <<state, queue, ret, op, size, temp, established, client, server, conns,
                     clients, servers, syn, backlog, arrived, delivered>>
  BY DEF Write, connVars, kernelVars
<1>2. Control /\ Data /\ n \in Nat \ {0}
  BY TcpAssumption DEF TypedInv
<1>3. /\ op = "send" /\ size <= MaxMessageSize /\ sent + (size - total) <= MaxBytes
      /\ size \in Nat /\ total \in Nat /\ sent \in Nat
  BY <1>1, <1>2, TcpAssumption DEF Control, Budget, Moving
<1>4. client \in Conn
  BY <1>1, <1>2 DEF TypedInv, StreamInv, TcpInv, Stage, Moving, Control
<1>5. sent + n <= MaxBytes /\ sent' \in 0 .. MaxBytes /\ total' \in 0 .. MaxMessageSize
  BY <1>1, <1>2, <1>3, TcpAssumption
<1>6. b \in Seq(Byte)
  <2>1. \A k \in 1 .. n : sent + k \in Byte
    BY <1>2, <1>3, <1>5, TcpAssumption DEF Byte
  <2> QED
    BY <1>2, <2>1, IsASeq DEF NextBytes
<1> HIDE DEF b
<1>7. wire' \in [Conn -> Seq(Byte)]
  <2>1. wire \in [Conn -> Seq(Byte)] /\ wire[client] \in Seq(Byte)
    BY <1>2, <1>4 DEF Data
  <2>2. wire[client] \o b \in Seq(Byte)
    BY <1>6, <2>1
  <2> QED
    BY <1>1, <1>4, <2>1, <2>2
<1>8. Budget'
  BY <1>1, <1>2, <1>3, <1>5, TcpAssumption DEF Budget, Moving, Connecting
<1>9. Control'
  BY <1>1, <1>2, <1>5, <1>8 DEF Control
<1>10. Data'
  BY <1>1, <1>2, <1>7 DEF Data
<1> QED
  BY <1>9, <1>10

LEMMA EnqueueTyped ==
  ASSUME TypedInv, NEW bytes \in Seq(Byte), Enqueue(bytes), arrived' \in [Conn -> Seq(Byte)],
         UNCHANGED <<state, established, client, server, conns, clients, servers, syn, backlog,
                     wire, sent, delivered>>
  PROVE  Control' /\ Data'
<1> DEFINE M == Seq(Byte)
<1>1. queue \in Seq(M) /\ bytes \in M
  BY DEF TypedInv, Data
<1>2. queue' \in {queue, Append(queue, bytes)} /\ Return("OK")
  BY DEF Enqueue
<1> HIDE DEF M
<1>3. queue' \in Seq(M)
  BY <1>1, <1>2
<1> USE DEF M
<1> QED
  BY <1>2, <1>3, ReturnTyped

LEMMA ReadStopsTyped == TypedInv /\ ReadStops => Control' /\ Data'
<1> SUFFICES ASSUME TypedInv, ReadStops PROVE Control' /\ Data'
  OBVIOUS
<1>1. /\ Enqueue(temp)
      /\ UNCHANGED <<state, established, client, server, conns, clients, servers, syn, backlog,
                     wire, arrived, sent, delivered>>
  BY DEF ReadStops, connVars, kernelVars, streamVars, ghostVars
<1>2. temp \in Seq(Byte) /\ arrived' \in [Conn -> Seq(Byte)]
  BY <1>1 DEF TypedInv, Data
<1> QED
  BY <1>1, <1>2, EnqueueTyped

(* Splitting a sequence of bytes.                                          *)
LEMMA SplitTyped ==
  ASSUME NEW s \in Seq(Byte), NEW n \in 0 .. Len(s)
  PROVE  SubSeq(s, 1, n) \in Seq(Byte) /\ SubSeq(s, n + 1, Len(s)) \in Seq(Byte)
<1>1. Len(s) \in Nat /\ DOMAIN s = 1 .. Len(s) /\ n \in Nat
  OBVIOUS
<1>2. \A i \in 1 .. n : s[i] \in Byte
  BY <1>1
<1>3. \A i \in n + 1 .. Len(s) : s[i] \in Byte
  BY <1>1
<1> QED
  BY <1>1, <1>2, <1>3, SubSeqProperties

LEMMA ReadTyped == TypedInv /\ Read => Control' /\ Data'
<1> SUFFICES ASSUME TypedInv, Read PROVE Control' /\ Data'
  OBVIOUS
<1> DEFINE n == IF Len(arrived[server]) < size - Len(temp)
                THEN Len(arrived[server]) ELSE size - Len(temp)
           front == SubSeq(arrived[server], 1, n)
           rest == SubSeq(arrived[server], n + 1, Len(arrived[server]))
           bytes == temp \o front
<1>1. /\ pc = "read"
      /\ arrived' = [arrived EXCEPT ![server] = rest]
      /\ \/ Enqueue(bytes)
         \/ temp' = bytes /\ UNCHANGED <<queue, pc, ret, op, size, total>>
      /\ UNCHANGED <<state, established, client, server, conns, clients, servers, syn, backlog,
                     wire, sent, delivered>>
  BY DEF Read, connVars, kernelVars, ghostVars
<1>2. Control /\ Data /\ server \in Conn
  BY <1>1 DEF TypedInv, StreamInv, TcpInv, Stage, Moving, Control
<1>3. arrived[server] \in Seq(Byte) /\ temp \in Seq(Byte)
  BY <1>2 DEF Data
<1>4. n \in 0 .. Len(arrived[server])
  <2>1. Len(temp) < size /\ size \in Nat
    BY <1>1 DEF TypedInv, StreamInv, StreamShape
  <2>2. Len(temp) \in Nat /\ Len(arrived[server]) \in Nat
    BY <1>3
  <2> QED
    BY <2>1, <2>2
<1> HIDE DEF n
<1>5. front \in Seq(Byte) /\ rest \in Seq(Byte)
  BY <1>3, <1>4, SplitTyped
<1> HIDE DEF front, rest
<1>6. bytes \in Seq(Byte)
  BY <1>3, <1>5
<1>7. arrived' \in [Conn -> Seq(Byte)]
  BY <1>1, <1>2, <1>5 DEF Data
<1> HIDE DEF bytes
<1>8. CASE Enqueue(bytes)
  BY <1>1, <1>6, <1>7, <1>8, EnqueueTyped
<1>9. CASE temp' = bytes /\ UNCHANGED <<queue, pc, ret, op, size, total>>
  <2>1. Control'
    BY <1>1, <1>2, <1>9 DEF Control, Budget
  <2>2. Data'
    BY <1>1, <1>2, <1>6, <1>7, <1>9 DEF Data
  <2> QED
    BY <2>1, <2>2
<1> QED
  BY <1>1, <1>8, <1>9

LEMMA KernelTyped == TypedInv /\ Kernel => Control' /\ Data'
<1> SUFFICES ASSUME TypedInv, NEW c \in Conn, HandshakeEnds(c) \/ BytesArrive(c)
             PROVE  Control' /\ Data'
  BY DEF Kernel
<1>1. Control /\ Data
  BY DEF TypedInv
<1>2. CASE HandshakeEnds(c)
  <2>1. /\ syn' = syn \ {c} /\ backlog' = Append(backlog, c)
        /\ UNCHANGED <<state, queue, pc, ret, op, size, total, temp, established, client, server,
                       conns, clients, servers, wire, arrived, sent, delivered>>
    BY <1>2 DEF HandshakeEnds, callVars, connVars, streamVars, ghostVars
  <2>2. backlog' \in Seq(Conn)
    BY <1>1, <2>1 DEF Control
  <2>3. Control'
    BY <1>1, <2>1, <2>2 DEF Control, Budget
  <2> QED
    BY <1>1, <2>1, <2>3, DataSame
<1>3. CASE BytesArrive(c)
  <2>1. PICK n \in 1 .. Len(wire[c]) :
           /\ arrived' = [arrived EXCEPT ![c] = @ \o SubSeq(wire[c], 1, n)]
           /\ wire' = [wire EXCEPT ![c] = SubSeq(@, n + 1, Len(@))]
    BY <1>3 DEF BytesArrive
  <2>2. UNCHANGED <<state, queue, pc, ret, op, size, total, temp, established, client, server,
                    conns, clients, servers, syn, backlog, sent, delivered>>
    BY <1>3 DEF BytesArrive, callVars, connVars, kernelVars, ghostVars
  <2>3. arrived[c] \in Seq(Byte) /\ wire[c] \in Seq(Byte)
    BY <1>1 DEF Data
  <2> DEFINE front == SubSeq(wire[c], 1, n)
             rest == SubSeq(wire[c], n + 1, Len(wire[c]))
  <2>4. n \in 0 .. Len(wire[c])
    BY <2>3
  <2>5. front \in Seq(Byte) /\ rest \in Seq(Byte)
    BY <2>3, <2>4, SplitTyped
  <2> HIDE DEF front
  <2>6. arrived[c] \o front \in Seq(Byte)
    BY <2>3, <2>5
  <2> USE DEF front
  <2>7. arrived' \in [Conn -> Seq(Byte)] /\ wire' \in [Conn -> Seq(Byte)]
    BY <1>1, <2>1, <2>5, <2>6 DEF Data
  <2>8. Control'
    BY <1>1, <2>2 DEF Control, Budget
  <2> QED
    BY <1>1, <2>2, <2>7, <2>8 DEF Data
<1> QED
  BY <1>2, <1>3

LEMMA TypedStep == TypedInv /\ [Next]_vars => TypedInv'
<1> SUFFICES ASSUME TypedInv, [Next]_vars PROVE Control' /\ Data'
  BY StreamStep DEF TypedInv
<1>1. CASE UNCHANGED vars
  <2>1. UNCHANGED <<state, queue, pc, ret, op, size, total, temp, established, client, server,
                    conns, clients, servers, syn, backlog, wire, arrived, sent, delivered>>
    BY <1>1 DEF vars, callVars, connVars, kernelVars, streamVars, ghostVars
  <2>2. Control'
    BY <2>1 DEF TypedInv, Control, Budget
  <2> QED
    BY <2>1, <2>2, DataSame DEF TypedInv
<1>2. CASE AcceptFails \/ Abandon
  BY <1>2, GiveUpTyped DEF AcceptFails, Abandon
<1>3. CASE SelectTimeout \/ AwaitDone \/ WriteStalls \/ WriteFails \/ ReadFails
  BY <1>3, AwaitTyped, StopTyped
<1>4. CASE \/ Open \/ Close \/ Accept \/ Read \/ ReadStops \/ Kernel
           \/ \E n \in SendSize : Send(n)
           \/ \E room \in RecvSize : Recv(room)
           \/ \E n \in 1 .. SocketRoom : Write(n)
  BY <1>4, OpenTyped, CloseTyped, AcceptTyped, ReadTyped, ReadStopsTyped, KernelTyped,
     SendTyped, RecvTyped, WriteTyped
<1> QED
  BY <1>1, <1>2, <1>3, <1>4 DEF Next, Step, Fault

THEOREM TypedInvariant == Spec => []TypedInv
<1>1. Init => TypedInv
  BY TypedInit
<1>2. TypedInv /\ [Next]_vars => TypedInv'
  BY TypedStep
<1> QED
  BY <1>1, <1>2, PTL DEF Spec

(* Every variable of the transport keeps its range: total_sent never       *)
(* passes the size that send() has admitted, and only bytes that were      *)
(* written are in a buffer (transport/tcp.cpp).                            *)
THEOREM TcpTypeOK == Spec => []TypeOK
<1>1. TypedInv => TypeOK
  BY DEF TypedInv, Control, Data, TypeOK, Byte
<1> QED
  BY <1>1, TypedInvariant, PTL
=============================================================================
