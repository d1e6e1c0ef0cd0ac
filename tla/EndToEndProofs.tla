--------------------------- MODULE EndToEndProofs ---------------------------
(***************************************************************************)
(* Every layer that a message passes gives back what it was given, for     *)
(* every text, key and cipher, every message size limit and any calls of   *)
(* senders and receivers: the ciphers, the length prefix and the loopback  *)
(* transport.  And the ciphers are what their standards say: ChaCha20 is   *)
(* that of RFC 8439, AES that of FIPS 197, for every key and text.         *)
(*                                                                         *)
(* First the transport and the channel that it implements; then bytes and  *)
(* their bits, the loops of the ciphers, ChaCha20, and AES from its tables *)
(* up to its chaining and padding, each step with what undoes it; after    *)
(* that ChaCha20 and AES beside their standards; at last the stack of all. *)
(***************************************************************************)
EXTENDS EndToEnd, SequenceTheorems, WellFoundedInduction, TLAPS

----------------------------------------------------------------------------
(***************************************************************************)
(* Any channel.                                                            *)
(***************************************************************************)

CONSTANT InOrderToo       \* whether the channel promises to keep the order

VARIABLES
  session,    \* "open" or "closed"
  accepted,   \* how many units were accepted
  pending,    \* units not yet handed over
  handed      \* units this session has handed to the caller

AnyChannel == INSTANCE Channel WITH Ordered <- InOrderToo, delivered <- handed

(* The three promises and the type invariant, inductive together.          *)
ChannelInv == AnyChannel!TypeOK /\ AnyChannel!NothingInvented /\ AnyChannel!AtMostOnce /\ AnyChannel!InOrder

(* No step of a channel breaks one of its promises: what recv() of a       *)
(* transport hands over was accepted by send(), is handed over once, and   *)
(* in order if that is promised.                                           *)
THEOREM ChannelInvariant == AnyChannel!Spec => []ChannelInv
<1>1. AnyChannel!Init => ChannelInv
  BY DEF AnyChannel!Init, ChannelInv, AnyChannel!TypeOK, AnyChannel!NothingInvented, AnyChannel!AtMostOnce, AnyChannel!InOrder
<1>2. ASSUME ChannelInv, [AnyChannel!Next]_(AnyChannel!vars) PROVE ChannelInv'
  <2> USE <1>2 DEF ChannelInv, AnyChannel!TypeOK, AnyChannel!NothingInvented, AnyChannel!AtMostOnce, AnyChannel!InOrder
  <2>1. CASE AnyChannel!Open
    BY <2>1 DEF AnyChannel!Open
  <2>2. CASE AnyChannel!Close
    BY <2>2 DEF AnyChannel!Close
  <2>3. CASE AnyChannel!Accept
    BY <2>3 DEF AnyChannel!Accept
  <2>4. CASE AnyChannel!Deliver
    BY <2>4 DEF AnyChannel!Deliver
  <2>5. CASE AnyChannel!Lose
    BY <2>5 DEF AnyChannel!Lose
  <2>6. CASE UNCHANGED AnyChannel!vars
    BY <2>6 DEF AnyChannel!vars
  <2> QED
    BY <1>2, <2>1, <2>2, <2>3, <2>4, <2>5, <2>6 DEF AnyChannel!Next
<1> QED
  BY <1>1, <1>2, PTL DEF AnyChannel!Spec

----------------------------------------------------------------------------
(***************************************************************************)
(* The loopback transport.                                                 *)
(***************************************************************************)

LoopbackInv == TypeOK /\ QueueInOrder

(* What Tail leaves of a queue: every message one place nearer the front.  *)
LEMMA TailIs ==
  ASSUME NEW q \in Seq(Message), q # <<>>
  PROVE  /\ Tail(q) \in Seq(Message)
         /\ Len(q) \in Nat \ {0}
         /\ Len(Tail(q)) = Len(q) - 1
         /\ \A i \in 1 .. Len(q) - 1 : Tail(q)[i] = q[i + 1]
         /\ Head(q) = q[1]
  OBVIOUS

(* Every element of a queue is a message, with a number.                   *)
LEMMA MessageFields ==
  ASSUME NEW q \in Seq(Message), NEW i \in 1 .. Len(q)
  PROVE  q[i].id \in Nat
<1>1. q[i] \in Message
  OBVIOUS
<1> QED
  BY <1>1 DEF Message

(* What any user of the transport does with it, sizes of any kind included. *)
AnyNext ==
  \/ Open
  \/ Close
  \/ \E size \in Nat : Send(size) \/ Recv(size)

(* A transport that was never opened has nothing in its queue.             *)
LEMMA LoopbackInit == Init => LoopbackInv
  BY EmptySeq DEF Init, LoopbackInv, TypeOK, QueueInOrder, ErrorCode

(* open, close, send and recv keep the queue in order.                     *)
LEMMA LoopbackKeeps ==
  ASSUME LoopbackInv, [AnyNext]_vars
  PROVE  LoopbackInv'
<1>0. /\ queue \in Seq(Message) /\ sent \in Nat /\ delivered \in SUBSET Nat
      /\ state \in {"open", "closed"} /\ ret \in ErrorCode
      /\ QueueInOrder
  BY DEF LoopbackInv, TypeOK
<1>1. CASE Open
  BY <1>0, <1>1, EmptySeq
  DEF Open, Clear, LoopbackInv, TypeOK, QueueInOrder, ErrorCode
<1>2. CASE Close
  BY <1>0, <1>2, EmptySeq
  DEF Close, Clear, LoopbackInv, TypeOK, QueueInOrder, ErrorCode
<1>3. ASSUME NEW size \in Nat, Send(size) PROVE LoopbackInv'
  <2>1. CASE \E code \in ErrorCode : Refuse(code)
    BY <1>0, <2>1 DEF Refuse, LoopbackInv, TypeOK, QueueInOrder
  <2>2. CASE /\ size \in 0 .. MaxMessageSize
             /\ queue' = Append(queue, [id |-> sent + 1, size |-> size])
             /\ sent' = sent + 1
             /\ ret' = "OK"
             /\ UNCHANGED <<state, delivered>>
    <3> DEFINE m == [id |-> sent + 1, size |-> size]
    <3>1. m \in Message /\ m.id = sent + 1
      BY <1>0, <2>2 DEF Message
    <3> HIDE DEF m
    <3>2. /\ queue' \in Seq(Message)
          /\ Len(queue) \in Nat
          /\ Len(queue') = Len(queue) + 1
          /\ \A i \in 1 .. Len(queue) : queue'[i] = queue[i]
          /\ queue'[Len(queue) + 1] = m
      BY <1>0, <2>2, <3>1 DEF m
    <3>3. TypeOK'
      BY <1>0, <2>2, <3>2 DEF TypeOK, ErrorCode
    <3>4. QueueInOrder'
      <4>1. ASSUME NEW i \in 1 .. Len(queue'), NEW j \in 1 .. Len(queue'), i < j
            PROVE  queue'[i].id < queue'[j].id
        <5>1. i \in 1 .. Len(queue) /\ queue'[i] = queue[i]
          BY <3>2, <4>1
        <5>2. CASE j \in 1 .. Len(queue)
          BY <1>0, <3>2, <4>1, <5>1, <5>2 DEF QueueInOrder
        <5>3. CASE j = Len(queue) + 1
          <6>1. queue[i].id <= sent /\ queue[i].id \in Nat
            BY <1>0, <5>1, MessageFields DEF QueueInOrder
          <6> QED
            BY <1>0, <3>1, <3>2, <5>1, <5>3, <6>1
        <5> QED
          BY <3>2, <5>2, <5>3
      <4>2. ASSUME NEW i \in 1 .. Len(queue') PROVE queue'[i].id <= sent'
        <5>1. CASE i \in 1 .. Len(queue)
          <6>1. queue[i].id <= sent /\ queue[i].id \in Nat
            BY <1>0, <5>1, MessageFields DEF QueueInOrder
          <6> QED
            BY <1>0, <2>2, <3>2, <5>1, <6>1
        <5>2. CASE i = Len(queue) + 1
          BY <1>0, <2>2, <3>1, <3>2, <5>2
        <5> QED
          BY <3>2, <5>1, <5>2
      <4>3. ASSUME NEW d \in delivered', NEW i \in 1 .. Len(queue')
            PROVE  d < queue'[i].id
        <5>1. CASE i \in 1 .. Len(queue)
          BY <1>0, <2>2, <3>2, <5>1 DEF QueueInOrder
        <5>2. CASE i = Len(queue) + 1
          BY <1>0, <2>2, <3>1, <3>2, <5>2 DEF QueueInOrder
        <5> QED
          BY <3>2, <5>1, <5>2
      <4>4. \A d \in delivered' : d <= sent'
        <5>1. \A d \in delivered : d \in Nat /\ d <= sent
          BY <1>0 DEF QueueInOrder
        <5>2. delivered' = delivered /\ sent' = sent + 1
          BY <2>2
        <5> QED
          BY <1>0, <5>1, <5>2
      <4> QED
        BY <4>1, <4>2, <4>3, <4>4 DEF QueueInOrder
    <3> QED
      BY <3>3, <3>4 DEF LoopbackInv
  <2> QED
    BY <1>3, <2>1, <2>2, LoopbackAssumption DEF Send, TooLarge, ErrorCode
<1>4. ASSUME NEW size \in Nat, Recv(size) PROVE LoopbackInv'
  <2>1. CASE \E code \in ErrorCode : Refuse(code)
    BY <1>0, <2>1 DEF Refuse, LoopbackInv, TypeOK, QueueInOrder
  <2>2. CASE /\ queue # <<>>
             /\ queue' = Tail(queue)
             /\ ret' \in ErrorCode
             /\ delivered' \in {delivered, delivered \cup {Head(queue).id}}
             /\ UNCHANGED <<state, sent>>
    <3>1. /\ queue' \in Seq(Message)
          /\ Len(queue) \in Nat \ {0}
          /\ Len(queue') = Len(queue) - 1
          /\ \A i \in 1 .. Len(queue) - 1 : queue'[i] = queue[i + 1]
          /\ Head(queue) = queue[1]
      BY <1>0, <2>2, TailIs
    <3>2. queue[1].id \in Nat
      BY <1>0, <3>1, MessageFields
    <3>3. TypeOK'
      BY <1>0, <2>2, <3>1, <3>2 DEF TypeOK
    <3>4. QueueInOrder'
      <4>1. ASSUME NEW i \in 1 .. Len(queue'), NEW j \in 1 .. Len(queue'), i < j
            PROVE  queue'[i].id < queue'[j].id
        <5>1. /\ i + 1 \in 1 .. Len(queue) /\ queue'[i] = queue[i + 1]
              /\ j + 1 \in 1 .. Len(queue) /\ queue'[j] = queue[j + 1]
          BY <3>1
        <5> QED
          BY <1>0, <4>1, <5>1 DEF QueueInOrder
      <4>2. ASSUME NEW i \in 1 .. Len(queue')
            PROVE  /\ queue'[i].id <= sent'
                   /\ \A d \in delivered' : d < queue'[i].id
        <5>1. i + 1 \in 1 .. Len(queue) /\ queue'[i] = queue[i + 1]
          BY <3>1
        <5>2. queue[i + 1].id <= sent /\ queue[1].id < queue[i + 1].id
          BY <1>0, <3>1, <5>1 DEF QueueInOrder
        <5> QED
          BY <1>0, <2>2, <3>1, <5>1, <5>2 DEF QueueInOrder
      <4>3. \A d \in delivered' : d <= sent'
        BY <1>0, <2>2, <3>1, <3>2 DEF QueueInOrder
      <4> QED
        BY <4>1, <4>2, <4>3 DEF QueueInOrder
    <3> QED
      BY <3>3, <3>4 DEF LoopbackInv
  <2> QED
    BY <1>4, <2>1, <2>2 DEF Recv, Popped, ErrorCode
<1>5. CASE UNCHANGED vars
  BY <1>0, <1>5 DEF vars, LoopbackInv, TypeOK, QueueInOrder
<1> QED
  BY <1>1, <1>2, <1>3, <1>4, <1>5 DEF AnyNext

(* The queue stays sorted, and younger than what recv has returned.        *)
THEOREM LoopbackInvariant == Spec => []LoopbackInv
<1>1. [Next]_vars => [AnyNext]_vars
  BY LoopbackAssumption DEF Next, AnyNext
<1> QED
  BY <1>1, LoopbackInit, LoopbackKeeps, PTL DEF Spec

(* The part of the invariant the run checks: recv finds the oldest message *)
(* it has not returned at the front of the queue.                          *)
THEOREM LoopbackQueueInOrder == Spec => []QueueInOrder
  BY LoopbackInvariant, PTL DEF LoopbackInv

(* Sending, fetching, losing, opening and closing map to the steps of an   *)
(* ordered channel; every refused call is a stutter of it.                 *)
LEMMA LoopbackMaps ==
  ASSUME LoopbackInv, [AnyNext]_vars
  PROVE  [Abstract!Next]_(Abstract!vars)
<1> USE DEF Abstract!vars
<1>0. /\ queue \in Seq(Message) /\ sent \in Nat /\ delivered \in SUBSET Nat
      /\ state \in {"open", "closed"}
      /\ QueueInOrder
  BY DEF LoopbackInv, TypeOK
<1>1. CASE Open
  <2>1. Queued' = {}
    BY <1>1, EmptySeq DEF Open, Clear, Queued
  <2>2. CASE state = "open"
    BY <1>1, <2>1, <2>2 DEF Open, Abstract!Next, Abstract!Lose
  <2>3. CASE state = "closed"
    BY <1>1, <2>1, <2>3 DEF Open, Abstract!Next, Abstract!Open
  <2> QED
    BY <1>0, <2>2, <2>3
<1>2. CASE Close
  <2>1. Queued' = {}
    BY <1>2, EmptySeq DEF Close, Clear, Queued
  <2>2. CASE state = "open"
    BY <1>2, <2>1, <2>2 DEF Close, Abstract!Next, Abstract!Close
  <2>3. CASE state = "closed"
    BY <1>2, <2>1, <2>3 DEF Close, Abstract!Next, Abstract!Lose
  <2> QED
    BY <1>0, <2>2, <2>3
<1>3. ASSUME NEW size \in Nat, Send(size)
      PROVE  [Abstract!Next]_(Abstract!vars)
  <2>1. CASE \E code \in ErrorCode : Refuse(code)
    BY <2>1 DEF Refuse, Queued
  <2>2. CASE /\ state = "open"
             /\ size \in 0 .. MaxMessageSize
             /\ queue' = Append(queue, [id |-> sent + 1, size |-> size])
             /\ sent' = sent + 1
             /\ UNCHANGED <<state, delivered>>
    <3> DEFINE m == [id |-> sent + 1, size |-> size]
    <3>1. m \in Message /\ m.id = sent + 1
      BY <1>0, <2>2 DEF Message
    <3> HIDE DEF m
    <3>2. /\ Len(queue) \in Nat
          /\ Len(queue') = Len(queue) + 1
          /\ \A i \in 1 .. Len(queue) : queue'[i] = queue[i]
          /\ queue'[Len(queue) + 1] = m
      BY <1>0, <2>2, <3>1 DEF m
    <3>3. Queued' = Queued \cup {sent + 1}
      BY <3>1, <3>2 DEF Queued
    <3> QED
      BY <1>0, <2>2, <3>3 DEF Abstract!Next, Abstract!Accept
  <2> QED
    BY <1>3, <2>1, <2>2, LoopbackAssumption DEF Send, TooLarge, ErrorCode
<1>4. ASSUME NEW size \in Nat, Recv(size)
      PROVE  [Abstract!Next]_(Abstract!vars)
  <2>1. CASE \E code \in ErrorCode : Refuse(code)
    BY <2>1 DEF Refuse, Queued
  <2>2. CASE /\ state = "open"
             /\ queue # <<>>
             /\ queue' = Tail(queue)
             /\ delivered' \in {delivered, delivered \cup {Head(queue).id}}
             /\ UNCHANGED <<state, sent>>
    <3>1. /\ Len(queue) \in Nat \ {0}
          /\ Len(queue') = Len(queue) - 1
          /\ \A i \in 1 .. Len(queue) - 1 : queue'[i] = queue[i + 1]
          /\ Head(queue) = queue[1]
      BY <1>0, <2>2, TailIs
    <3>2. \A i \in 2 .. Len(queue) : queue[1].id < queue[i].id
      BY <1>0, <3>1 DEF QueueInOrder
    <3>3. queue[1].id \in Nat
      BY <1>0, <3>1, MessageFields
    <3>4. Queued' = Queued \ {queue[1].id} /\ queue[1].id \in Queued
      <4>1. queue[1].id \in Queued
        BY <3>1 DEF Queued
      <4>2. ASSUME NEW v \in Queued' PROVE v \in Queued \ {queue[1].id}
        <5>1. PICK i \in 1 .. Len(queue') : v = queue'[i].id
          BY DEF Queued
        <5>2. i + 1 \in 2 .. Len(queue) /\ v = queue[i + 1].id
          BY <3>1, <5>1
        <5> QED
          BY <3>1, <3>2, <3>3, <5>2 DEF Queued
      <4>3. ASSUME NEW v \in Queued \ {queue[1].id} PROVE v \in Queued'
        <5>1. PICK i \in 1 .. Len(queue) : v = queue[i].id
          BY DEF Queued
        <5>2. i # 1
          BY <5>1
        <5>3. i - 1 \in 1 .. Len(queue') /\ v = queue'[i - 1].id
          BY <3>1, <5>1, <5>2
        <5> QED
          BY <5>3 DEF Queued
      <4> QED
        BY <4>1, <4>2, <4>3
    <3>5. \A v \in Queued \ {queue[1].id} : queue[1].id < v
      <4>1. \A v \in Queued \ {queue[1].id} :
               \E i \in 2 .. Len(queue) : v = queue[i].id
        BY <3>1 DEF Queued
      <4> QED
        BY <3>2, <4>1
    <3>6. CASE delivered' = delivered
      BY <2>2, <3>4, <3>6 DEF Abstract!Next, Abstract!Lose
    <3>7. CASE delivered' = delivered \cup {queue[1].id}
      BY <2>2, <3>4, <3>5, <3>7 DEF Abstract!Next, Abstract!Deliver
    <3> QED
      BY <2>2, <3>1, <3>6, <3>7
  <2> QED
    BY <1>4, <2>1, <2>2 DEF Recv, Popped, ErrorCode
<1>5. CASE UNCHANGED vars
  BY <1>5 DEF vars, Queued
<1> QED
  BY <1>1, <1>2, <1>3, <1>4, <1>5 DEF AnyNext

(* And a channel begins like the transport.                                *)
LEMMA LoopbackInitMaps == Init => Abstract!Init
  BY DEF Init, Abstract!Init, Queued

(* The loopback transport implements an ordered channel.                   *)
THEOREM LoopbackImplementsChannel == Spec => ImplementsChannel
<1>1. [Next]_vars => [AnyNext]_vars
  BY LoopbackAssumption DEF Next, AnyNext
<1> QED
  BY <1>1, LoopbackInitMaps, LoopbackMaps, LoopbackInvariant, PTL
  DEF Spec, ImplementsChannel, Abstract!Spec

----------------------------------------------------------------------------
(***************************************************************************)
(* Bytes by their bits.                                                    *)
(***************************************************************************)

(* The eight bits of a byte, by the place value of each.                   *)
Places == {1, 2, 4, 8, 16, 32, 64, 128}
On(a, p) == (a \div p) % 2 = 1

(* A function on 1..n is a sequence, and all of it is itself.              *)
LEMMA AllOf ==
  ASSUME NEW V, NEW n \in Nat, NEW f \in [1..n -> V]
  PROVE  f \in Seq(V) /\ Len(f) = n /\ SubSeq(f, 1, n) = f
<1>1. f \in Seq(V)
  BY SeqDef
<1>2. Len(f) = n
  BY <1>1, LenProperties
<1> QED
  BY <1>1, <1>2, SubSeqFull

(* The bits of a sum of bits.                                              *)
LEMMA BitsOfSum ==
  ASSUME NEW b0 \in {0, 1}, NEW b1 \in {0, 1}, NEW b2 \in {0, 1}, NEW b3 \in {0, 1},
         NEW b4 \in {0, 1}, NEW b5 \in {0, 1}, NEW b6 \in {0, 1}, NEW b7 \in {0, 1},
         NEW n, n = b0 + 2 * b1 + 4 * b2 + 8 * b3 + 16 * b4 + 32 * b5 + 64 * b6 + 128 * b7
  PROVE  /\ n \in Byte
         /\ On(n, 1) <=> b0 = 1
         /\ On(n, 2) <=> b1 = 1
         /\ On(n, 4) <=> b2 = 1
         /\ On(n, 8) <=> b3 = 1
         /\ On(n, 16) <=> b4 = 1
         /\ On(n, 32) <=> b5 = 1
         /\ On(n, 64) <=> b6 = 1
         /\ On(n, 128) <=> b7 = 1
  BY DEF Byte, On

(* Two bytes that agree on all bits are one.                               *)
LEMMA SameBits ==
  ASSUME NEW a \in Byte, NEW b \in Byte, \A p \in Places : On(a, p) <=> On(b, p)
  PROVE  a = b
<1>1. \A n \in Byte : n = (n % 2) + 2 * ((n \div 2) % 2) + 4 * ((n \div 4) % 2)
                          + 8 * ((n \div 8) % 2) + 16 * ((n \div 16) % 2) + 32 * ((n \div 32) % 2)
                          + 64 * ((n \div 64) % 2) + 128 * ((n \div 128) % 2)
  BY DEF Byte
<1>2. \A n \in Byte : \A p \in Places : (n \div p) % 2 \in {0, 1}
  BY DEF Byte, Places
<1>3. \A p \in Places : (a \div p) % 2 = (b \div p) % 2
  BY <1>2 DEF On
<1>4. a \div 1 = a /\ b \div 1 = b
  BY DEF Byte
<1>5. /\ a % 2 = b % 2
      /\ (a \div 2) % 2 = (b \div 2) % 2
      /\ (a \div 4) % 2 = (b \div 4) % 2
      /\ (a \div 8) % 2 = (b \div 8) % 2
      /\ (a \div 16) % 2 = (b \div 16) % 2
      /\ (a \div 32) % 2 = (b \div 32) % 2
      /\ (a \div 64) % 2 = (b \div 64) % 2
      /\ (a \div 128) % 2 = (b \div 128) % 2
  BY <1>3, <1>4 DEF Places
<1> QED
  BY <1>1, <1>5

(* The code's ^ on bytes, by bits.                                         *)
LEMMA XorOn ==
  ASSUME NEW a \in Byte, NEW b \in Byte
  PROVE  /\ Xor(a, b) \in Byte
         /\ \A p \in Places : On(Xor(a, b), p) <=> ~(On(a, p) <=> On(b, p))
<1>1. \A n \in Byte : /\ Bit(n, 0) \in {0, 1} /\ (On(n, 1) <=> Bit(n, 0) = 1)
                      /\ Bit(n, 1) \in {0, 1} /\ (On(n, 2) <=> Bit(n, 1) = 1)
                      /\ Bit(n, 2) \in {0, 1} /\ (On(n, 4) <=> Bit(n, 2) = 1)
                      /\ Bit(n, 3) \in {0, 1} /\ (On(n, 8) <=> Bit(n, 3) = 1)
                      /\ Bit(n, 4) \in {0, 1} /\ (On(n, 16) <=> Bit(n, 4) = 1)
                      /\ Bit(n, 5) \in {0, 1} /\ (On(n, 32) <=> Bit(n, 5) = 1)
                      /\ Bit(n, 6) \in {0, 1} /\ (On(n, 64) <=> Bit(n, 6) = 1)
                      /\ Bit(n, 7) \in {0, 1} /\ (On(n, 128) <=> Bit(n, 7) = 1)
  BY DEF Byte, Bit, On
<1> DEFINE sum(i) == (Bit(a, i) + Bit(b, i)) % 2
<1>2. \A x, y \in {0, 1} : (x + y) % 2 \in {0, 1} /\ ((x + y) % 2 = 1 <=> ~(x = 1 <=> y = 1))
  OBVIOUS
<1>3. /\ sum(0) \in {0, 1} /\ (sum(0) = 1 <=> ~(On(a, 1) <=> On(b, 1)))
      /\ sum(1) \in {0, 1} /\ (sum(1) = 1 <=> ~(On(a, 2) <=> On(b, 2)))
      /\ sum(2) \in {0, 1} /\ (sum(2) = 1 <=> ~(On(a, 4) <=> On(b, 4)))
      /\ sum(3) \in {0, 1} /\ (sum(3) = 1 <=> ~(On(a, 8) <=> On(b, 8)))
      /\ sum(4) \in {0, 1} /\ (sum(4) = 1 <=> ~(On(a, 16) <=> On(b, 16)))
      /\ sum(5) \in {0, 1} /\ (sum(5) = 1 <=> ~(On(a, 32) <=> On(b, 32)))
      /\ sum(6) \in {0, 1} /\ (sum(6) = 1 <=> ~(On(a, 64) <=> On(b, 64)))
      /\ sum(7) \in {0, 1} /\ (sum(7) = 1 <=> ~(On(a, 128) <=> On(b, 128)))
  BY <1>1, <1>2
<1>4. Xor(a, b) = sum(0) + 2 * sum(1) + 4 * sum(2) + 8 * sum(3)
                    + 16 * sum(4) + 32 * sum(5) + 64 * sum(6) + 128 * sum(7)
  BY DEF Xor, FromBits
<1> HIDE DEF sum
<1> QED
  BY <1>3, <1>4, BitsOfSum DEF Places

(* The table of sums has what the code computes.                           *)
LEMMA AddedIs ==
  ASSUME NEW a \in Byte, NEW b \in Byte
  PROVE  Added(a, b) = Xor(a, b)
<1> DEFINE row(x) == [i \in 1..256 |-> Xor(x, i - 1)]
           rows == [i \in 1..256 |-> row(i - 1)]
<1>1. \A i \in 1..256 : i - 1 \in Byte
  BY DEF Byte
<1>2. ASSUME NEW x \in Byte
      PROVE  /\ row(x) \in [1..256 -> Byte]
             /\ row(x) \in Seq(Byte)
             /\ Table(LAMBDA y : Xor(x, y)) = row(x)
  <2>1. row(x) \in [1..256 -> Byte]
    BY <1>1, XorOn
  <2>2. row(x) \in Seq(Byte) /\ SubSeq(row(x), 1, 256) = row(x)
    BY <2>1, AllOf
  <2> QED
    BY <2>1, <2>2 DEF Table
<1>3. XorTable = rows
  <2>1. rows \in [1..256 -> Seq(Byte)]
    <3> HIDE DEF row
    <3> QED
      BY <1>1, <1>2
  <2>2. SubSeq(rows, 1, 256) = rows
    <3> HIDE DEF rows
    <3> QED
      BY <2>1, AllOf
  <2>3. [i \in 1..256 |-> Table(LAMBDA y : Xor(i - 1, y))] = rows
    <3> HIDE DEF row
    <3> QED
      BY <1>1, <1>2
  <2> QED
    BY <2>2, <2>3 DEF XorTable, Table
<1>4. a + 1 \in 1..256 /\ (a + 1) - 1 = a /\ b + 1 \in 1..256 /\ (b + 1) - 1 = b
  BY DEF Byte
<1>5. XorTable[a + 1] = row(a)
  BY <1>3, <1>4, Zenon
<1>6. row(a)[b + 1] = Xor(a, b)
  BY <1>4
<1> QED
  BY <1>5, <1>6 DEF Added

(* The group that bytes are with it.                                       *)
LEMMA AddedOn ==
  ASSUME NEW a \in Byte, NEW b \in Byte
  PROVE  /\ Added(a, b) \in Byte
         /\ \A p \in Places : On(Added(a, b), p) <=> ~(On(a, p) <=> On(b, p))
<1>1. Added(a, b) = Xor(a, b)
  BY AddedIs
<1> QED
  BY <1>1, XorOn

(* Combining with the same byte twice leaves a byte as it was.             *)
LEMMA AddedTwice ==
  ASSUME NEW a \in Byte, NEW b \in Byte
  PROVE  Added(Added(a, b), b) = a
<1>1. Added(a, b) \in Byte /\ Added(Added(a, b), b) \in Byte
  BY AddedOn
<1>2. \A p \in Places : On(Added(Added(a, b), b), p) <=> On(a, p)
  BY <1>1, AddedOn
<1> QED
  BY <1>1, <1>2, SameBits

----------------------------------------------------------------------------
(***************************************************************************)
(* Loops.  A function that a LET of a cipher defines by recursion is the   *)
(* run of a loop over a set of values.                                     *)
(***************************************************************************)

(* Induction up to n, over the set of the numbers that have a property.    *)
LEMMA UpTo ==
  ASSUME NEW n \in Nat, NEW T, 0 \in T, \A i \in 1..n : i - 1 \in T => i \in T
  PROVE  \A i \in 0..n : i \in T
<1> DEFINE Out == {i \in 0..n : i \notin T}
<1>1. SUFFICES ASSUME Out # {} PROVE FALSE
  OBVIOUS
<1>2. Out \subseteq Nat
  OBVIOUS
<1>3. PICK i \in Out : \A j \in Out : <<j, i>> \notin OpToRel(<, Nat)
  <2> HIDE DEF Out
  <2> QED
    BY <1>1, <1>2, NatLessThanWellFounded, WFMin, Zenon
<1>4. i \in 1..n /\ i - 1 \in 0..n /\ i - 1 < i /\ i - 1 \in Nat
  OBVIOUS
<1>5. i - 1 \notin Out
  BY <1>2, <1>3, <1>4 DEF OpToRel
<1> QED
  BY <1>4, <1>5

(* A loop of n turns, each of which makes a value of V from one, has run.  *)
Loop(n, V, base, step) == n \in Nat /\ base \in V /\ step \in [1..n -> [V -> V]]
IsRun(f, n, V, base, step) ==
  f \in [0..n -> V] /\ f[0] = base /\ \A i \in 1..n : f[i] = step[i][f[i - 1]]

(* What such a loop computes exists.                                       *)
LEMMA Iteration ==
  ASSUME NEW n, NEW V, NEW base, NEW step, Loop(n, V, base, step)
  PROVE  \E f : IsRun(f, n, V, base, step)
<1> USE DEF Loop
<1> DEFINE Ran(k, f) == f[0] = base /\ \A i \in 1..k : f[i] = step[i][f[i - 1]]
           T == {k \in 0..n : \E f \in [0..k -> V] : Ran(k, f)}
<1>1. 0 \in T
  <2> DEFINE f == [i \in 0..0 |-> base]
  <2>1. f \in [0..0 -> V] /\ f[0] = base /\ 1..0 = {}
    OBVIOUS
  <2> HIDE DEF f
  <2>2. \E g \in [0..0 -> V] : Ran(0, g)
    BY <2>1
  <2> QED
    BY <2>2
<1>2. ASSUME NEW k \in 1..n, k - 1 \in T PROVE k \in T
  <2>1. PICK f \in [0..(k - 1) -> V] : Ran(k - 1, f)
    BY <1>2
  <2> DEFINE g == [i \in 0..k |-> IF i = k THEN step[k][f[k - 1]] ELSE f[i]]
  <2>2. f[k - 1] \in V /\ step[k] \in [V -> V]
    OBVIOUS
  <2>3. g \in [0..k -> V] /\ g[k] = step[k][f[k - 1]] /\ \A i \in 0..(k - 1) : g[i] = f[i]
    BY <2>2
  <2> HIDE DEF g
  <2>4. Ran(k, g)
    <3>1. g[0] = base
      BY <2>1, <2>3
    <3>2. ASSUME NEW i \in 1..k, i # k PROVE g[i] = step[i][g[i - 1]]
      <4>1. i \in 1..(k - 1) /\ i \in 0..(k - 1) /\ i - 1 \in 0..(k - 1)
        BY <3>2
      <4> QED
        BY <2>1, <2>3, <4>1
    <3>3. g[k] = step[k][g[k - 1]]
      <4>1. k - 1 \in 0..(k - 1)
        OBVIOUS
      <4> QED
        BY <2>3, <4>1
    <3> QED
      BY <3>1, <3>2, <3>3
  <2>5. \E h \in [0..k -> V] : Ran(k, h)
    <3> HIDE DEF Ran
    <3> QED
      BY <2>3, <2>4
  <2>6. k \in 0..n
    OBVIOUS
  <2> HIDE DEF Ran
  <2> QED
    BY <2>5, <2>6
<1> HIDE DEF T
<1>3. n \in T
  <2>1. \A k \in 1..n : k - 1 \in T => k \in T
    BY <1>2
  <2>2. \A k \in 0..n : k \in T
    BY <1>1, <2>1, UpTo
  <2> QED
    BY <2>2
<1>4. PICK f \in [0..n -> V] : Ran(n, f)
  BY <1>3 DEF T
<1> QED
  BY <1>4 DEF IsRun

(* What follows such a loop, as long as it is in V.                        *)
Follows(g, n, V, base, step) ==
  g[0] = base /\ \A i \in 1..n : g[i - 1] \in V => g[i] = step[i][g[i - 1]]

(* It is in V all along.                                                   *)
LEMMA StaysIn ==
  ASSUME NEW n, NEW V, NEW base, NEW step, Loop(n, V, base, step),
         NEW g, Follows(g, n, V, base, step)
  PROVE  \A i \in 0..n : g[i] \in V
<1> DEFINE T == {i \in 0..n : g[i] \in V}
<1>1. n \in Nat /\ 0 \in T
  BY DEF Loop, Follows
<1>2. \A i \in 1..n : i - 1 \in T => i \in T
  BY <1>1 DEF Loop, Follows
<1> HIDE DEF T
<1>3. \A i \in 0..n : i \in T
  BY <1>1, <1>2, UpTo
<1> QED
  BY <1>3 DEF T

----------------------------------------------------------------------------
(***************************************************************************)
(* Bytes combined and parts joined.                                        *)
(***************************************************************************)

(* Bytes combined with as many others, and with the same again.            *)
LEMMA XorEachIs ==
  ASSUME NEW s \in Seq(Byte), NEW t \in Seq(Byte), Len(s) <= Len(t)
  PROVE  /\ XorEach(s, t) \in Seq(Byte)
         /\ Len(XorEach(s, t)) = Len(s)
         /\ \A i \in 1..Len(s) : XorEach(s, t)[i] = Added(s[i], t[i])
<1>1. Len(s) \in Nat /\ Len(t) \in Nat
  BY LenProperties
<1> DEFINE f == [i \in 1..Len(s) |-> Added(s[i], t[i])]
<1>2. f \in [1..Len(s) -> Byte]
  <2>1. ASSUME NEW i \in 1..Len(s) PROVE Added(s[i], t[i]) \in Byte
    <3>1. s[i] \in Byte /\ i \in 1..Len(t)
      BY <1>1, ElementOfSeq
    <3>2. t[i] \in Byte
      BY <3>1, ElementOfSeq
    <3> QED
      BY <3>1, <3>2, AddedOn
  <2> QED
    BY <2>1
<1>3. f \in Seq(Byte) /\ Len(f) = Len(s) /\ SubSeq(f, 1, Len(s)) = f
  BY <1>1, <1>2, AllOf
<1> QED
  BY <1>3 DEF XorEach

(* The same for as many bytes: the key of a stream taken off again.        *)
LEMMA XorEachTwice ==
  ASSUME NEW s \in Seq(Byte), NEW t \in Seq(Byte), Len(s) <= Len(t)
  PROVE  XorEach(XorEach(s, t), t) = s
<1> DEFINE x == XorEach(s, t)
<1>1. /\ x \in Seq(Byte) /\ Len(x) = Len(s)
      /\ \A i \in 1..Len(s) : x[i] = Added(s[i], t[i])
  BY XorEachIs
<1> HIDE DEF x
<1>2. /\ XorEach(x, t) \in Seq(Byte) /\ Len(XorEach(x, t)) = Len(s)
      /\ \A i \in 1..Len(s) : XorEach(x, t)[i] = Added(x[i], t[i])
  BY <1>1, XorEachIs
<1>3. ASSUME NEW i \in 1..Len(s) PROVE XorEach(x, t)[i] = s[i]
  <2>1. Len(s) \in Nat /\ Len(t) \in Nat
    BY LenProperties
  <2>2. s[i] \in Byte /\ i \in 1..Len(t)
    BY <2>1, ElementOfSeq
  <2>3. t[i] \in Byte
    BY <2>2, ElementOfSeq
  <2> QED
    BY <1>1, <1>2, <2>2, <2>3, AddedTwice
<1>4. XorEach(x, t) = s
  BY <1>2, <1>3, SeqEqual
<1> QED
  BY <1>4 DEF x

(* Where the bytes of parts are when the parts are joined.                 *)
LEMMA JoinedIs ==
  ASSUME NEW width \in {4, 16, 64}, NEW parts \in Seq(Seq(Byte)),
         \A i \in 1..Len(parts) : Len(parts[i]) = width
  PROVE  /\ Joined(width, parts) \in Seq(Byte)
         /\ Len(Joined(width, parts)) = width * Len(parts)
         /\ \A k \in 1..(width * Len(parts)) :
               /\ ((k - 1) \div width) + 1 \in 1..Len(parts)
               /\ ((k - 1) % width) + 1 \in 1..width
               /\ Joined(width, parts)[k] = parts[((k - 1) \div width) + 1][((k - 1) % width) + 1]
<1> DEFINE n == width * Len(parts)
           at(k) == ((k - 1) \div width) + 1
           in(k) == ((k - 1) % width) + 1
           f == [k \in 1..n |-> parts[at(k)][in(k)]]
<1>1. Len(parts) \in Nat /\ n \in Nat
  BY LenProperties
<1>2. SubSeq(parts, 1, Len(parts)) = parts
  BY SubSeqFull
<1>3. ASSUME NEW k \in 1..n PROVE at(k) \in 1..Len(parts) /\ in(k) \in 1..width
  <2>1. CASE width = 4
    BY <1>1, <2>1
  <2>2. CASE width = 16
    BY <1>1, <2>2
  <2>3. CASE width = 64
    BY <1>1, <2>3
  <2> QED
    BY <2>1, <2>2, <2>3
<1>4. f \in [1..n -> Byte]
  <2>1. ASSUME NEW k \in 1..n PROVE parts[at(k)][in(k)] \in Byte
    <3> HIDE DEF at, in
    <3>1. parts[at(k)] \in Seq(Byte) /\ in(k) \in 1..Len(parts[at(k)])
      BY <1>3, ElementOfSeq
    <3> QED
      BY <3>1, ElementOfSeq
  <2> QED
    BY <2>1
<1>5. f \in Seq(Byte) /\ Len(f) = n /\ SubSeq(f, 1, n) = f
  <2> HIDE DEF f, n
  <2> QED
    BY <1>1, <1>4, AllOf
<1>6. Joined(width, parts) = SubSeq(f, 1, n)
  BY <1>2 DEF Joined
<1>7. Joined(width, parts) = f
  BY <1>5, <1>6
<1>8. \A k \in 1..n : f[k] = parts[at(k)][in(k)]
  OBVIOUS
<1> HIDE DEF f
<1> QED
  BY <1>3, <1>5, <1>7, <1>8

----------------------------------------------------------------------------
(***************************************************************************)
(* ChaCha20: whatever it computes, it is as many bytes as it should be,    *)
(* and that is all it takes for the same stream to be taken off again.     *)
(***************************************************************************)

(* The sum of two words, its carries going from byte to byte, is a word.   *)
LEMMA PlusType ==
  ASSUME NEW a \in Word, NEW b \in Word
  PROVE  Plus(a, b) \in Word
<1> DEFINE carry == CHOOSE g : g = [i \in 0..4 |-> IF i = 0 THEN 0 ELSE (a[i] + b[i] + g[i - 1]) \div 256]
           n == 4
           step == [i \in 1..n |-> [c \in Nat |-> (a[i] + b[i] + c) \div 256]]
<1>0. \A x, y \in Byte, c \in Nat : (x + y + c) \div 256 \in Nat /\ (x + y + c) % 256 \in Byte
  BY DEF Byte
<1>1. \A i \in 1..4 : a[i] \in Byte /\ b[i] \in Byte
  BY DEF Word
<1>2. step \in [1..n -> [Nat -> Nat]] /\ n \in Nat /\ 0 \in Nat
  BY <1>0, <1>1, Zenon
<1>3. \A i \in 1..4, c \in Nat : step[i][c] = (a[i] + b[i] + c) \div 256
  OBVIOUS
<1>4. Loop(n, Nat, 0, step) /\ \E f : IsRun(f, n, Nat, 0, step)
  <2>1. Loop(n, Nat, 0, step)
    BY <1>2 DEF Loop
  <2> HIDE DEF step, n
  <2> QED
    BY <2>1, Iteration
<1>20. PICK f : IsRun(f, n, Nat, 0, step)
  BY <1>4
<1> HIDE DEF step, n
<1>5. f = [i \in 0..4 |-> IF i = 0 THEN 0 ELSE (a[i] + b[i] + f[i - 1]) \div 256]
  <2>1. \A i \in 1..4 : f[i] = (a[i] + b[i] + f[i - 1]) \div 256
    BY <1>3, <1>20 DEF IsRun, n
  <2> QED
    BY <1>20, <2>1 DEF IsRun, n
<1>6. carry = [i \in 0..4 |-> IF i = 0 THEN 0 ELSE (a[i] + b[i] + carry[i - 1]) \div 256]
  BY <1>5, Zenon
<1> DEFINE s == [i \in 1..4 |-> (a[i] + b[i] + carry[i - 1]) % 256]
<1>7. Plus(a, b) = SubSeq(s, 1, 4)
  BY DEF Plus
<1> HIDE DEF carry
<1>8. Follows(carry, n, Nat, 0, step)
  BY <1>3, <1>6 DEF Follows, n
<1>9. \A i \in 0..4 : carry[i] \in Nat
  BY <1>4, <1>8, StaysIn DEF n
<1>10. s \in [1..4 -> Byte]
  <2>1. \A i \in 1..4 : i - 1 \in 0..4
    OBVIOUS
  <2>2. \A i \in 1..4 : carry[i - 1] \in Nat
    BY <1>9, <2>1
  <2>3. \A i \in 1..4 : (a[i] + b[i] + carry[i - 1]) % 256 \in Byte
    BY <1>0, <1>1, <2>2
  <2> QED
    BY <2>3
<1> HIDE DEF s
<1>11. SubSeq(s, 1, 4) = s
  BY <1>10, AllOf
<1> QED
  BY <1>7, <1>10, <1>11 DEF Word

(* Sequences of n bytes, as functions.                                     *)
LEMMA BytesAre ==
  ASSUME NEW n \in Nat, NEW s
  PROVE  s \in [1..n -> Byte] <=> s \in Seq(Byte) /\ Len(s) = n
<1>1. ASSUME s \in [1..n -> Byte] PROVE s \in Seq(Byte) /\ Len(s) = n
  BY <1>1, AllOf
<1>2. ASSUME s \in Seq(Byte), Len(s) = n PROVE s \in [1..n -> Byte]
  BY <1>2, LenProperties, ElementOfSeq
<1> QED
  BY <1>1, <1>2

(* A word is a sequence of four bytes.                                     *)
LEMMA WordIs ==
  ASSUME NEW s
  PROVE  s \in Word <=> s \in Seq(Byte) /\ Len(s) = 4
<1>1. 4 \in Nat
  OBVIOUS
<1> QED
  BY <1>1, BytesAre DEF Word

(* Turning a word left by whole bytes and bits leaves a word.              *)
LEMMA RotLType ==
  ASSUME NEW w \in Word, NEW n \in {16, 12, 8, 7}
  PROVE  RotL(w, n) \in Word
<1> DEFINE byte(i) == w[((i - 1 - (n \div 8)) % 4) + 1]
           bits == 2^(n % 8)
           s == [i \in 1..4 |-> ((byte(i) * bits) % 256) + ((byte(i - 1) * bits) \div 256)]
<1>1. RotL(w, n) = SubSeq(s, 1, 4)
  BY DEF RotL
<1>2. bits \in {1, 16, 128}
  <2>1. n % 8 \in {0, 4, 7}
    OBVIOUS
  <2>2. 2^0 = 1 /\ 2^4 = 16 /\ 2^7 = 128
    OBVIOUS
  <2> QED
    BY <2>1, <2>2
<1>3. \A i \in 0..4 : byte(i) \in Byte
  <2>1. \A i \in 0..4 : ((i - 1 - (n \div 8)) % 4) + 1 \in 1..4
    OBVIOUS
  <2> QED
    BY <2>1 DEF Word
<1>4. \A i \in 1..4 : i \in 0..4 /\ i - 1 \in 0..4
  OBVIOUS
<1>5. \A x, y \in Byte, b \in {1, 16, 128} : ((x * b) % 256) + ((y * b) \div 256) \in Byte
  BY SMTT(30) DEF Byte
<1> HIDE DEF byte, bits
<1>6. s \in [1..4 -> Byte]
  BY <1>2, <1>3, <1>4, <1>5
<1>7. SubSeq(s, 1, 4) = s
  <2> HIDE DEF s
  <2> QED
    BY <1>6, AllOf
<1> QED
  BY <1>1, <1>6, <1>7 DEF Word

(* A line of quarter_round() makes words of words.                         *)
LEMMA StepType ==
  ASSUME NEW x \in Word, NEW y \in Word, NEW z \in Word, NEW n \in {16, 12, 8, 7}
  PROVE  Step(x, y, z, n)[1] \in Word /\ Step(x, y, z, n)[2] \in Word
<1>1. Plus(x, y) \in Word
  BY PlusType
<1>2. XorEach(z, Plus(x, y)) \in Word
  <2>1. z \in Seq(Byte) /\ Len(z) = 4 /\ Plus(x, y) \in Seq(Byte) /\ Len(Plus(x, y)) = 4
    BY <1>1, WordIs
  <2> QED
    BY <2>1, XorEachIs, WordIs
<1>3. RotL(XorEach(z, Plus(x, y)), n) \in Word
  BY <1>2, RotLType
<1>4. Step(x, y, z, n) = <<Plus(x, y), RotL(XorEach(z, Plus(x, y)), n)>>
  BY DEF Step
<1> QED
  BY <1>1, <1>3, <1>4

(* States of sixteen words.                                                *)
Words16 == [1..16 -> Word]

(* quarter_round() makes a state of a state, whatever places it works at.  *)
LEMMA QuarterRoundType ==
  ASSUME NEW words \in Words16, NEW at \in [1..4 -> 0..15]
  PROVE  QuarterRound(words, at) \in Words16
<1> DEFINE add(w, x, y, z, n) ==
             LET new == Step(w[at[x] + 1], w[at[y] + 1], w[at[z] + 1], n)
             IN  [w EXCEPT ![at[x] + 1] = new[1], ![at[z] + 1] = new[2]]
           one == add(words, 1, 2, 4, Turns[1])
           two == add(one, 3, 4, 2, Turns[2])
           three == add(two, 1, 2, 4, Turns[3])
           four == add(three, 3, 4, 2, Turns[4])
<1>1. ASSUME NEW w \in Words16, NEW x \in 1..4, NEW y \in 1..4, NEW z \in 1..4, NEW n \in {16, 12, 8, 7}
      PROVE  add(w, x, y, z, n) \in Words16
  <2>1. \A i \in 1..4 : at[i] + 1 \in 1..16
    OBVIOUS
  <2>2. \A i \in 1..4 : w[at[i] + 1] \in Word
    BY <2>1 DEF Words16
  <2> DEFINE new == Step(w[at[x] + 1], w[at[y] + 1], w[at[z] + 1], n)
  <2>3. new[1] \in Word /\ new[2] \in Word
    BY <2>2, StepType
  <2> HIDE DEF new
  <2>4. [w EXCEPT ![at[x] + 1] = new[1], ![at[z] + 1] = new[2]] \in Words16
    BY <2>3 DEF Words16
  <2> QED
    BY <2>4 DEF new
<1>2. Turns[1] = 16 /\ Turns[2] = 12 /\ Turns[3] = 8 /\ Turns[4] = 7
  BY DEF Turns
<1>3. QuarterRound(words, at) = four
  BY Zenon DEF QuarterRound
<1>4. \A i \in {1, 2, 3, 4} : i \in 1..4
  OBVIOUS
<1> HIDE DEF add
<1>5. one \in Words16
  BY <1>1, <1>2, <1>4
<1> HIDE DEF one
<1>6. two \in Words16
  BY <1>1, <1>2, <1>4, <1>5
<1> HIDE DEF two
<1>7. three \in Words16
  BY <1>1, <1>2, <1>4, <1>6
<1> HIDE DEF three
<1>8. four \in Words16
  BY <1>1, <1>2, <1>4, <1>7
<1> QED
  BY <1>3, <1>8

(* Functions of words are sequences of words.                              *)
LEMMA WordsAre ==
  ASSUME NEW n \in Nat, NEW s \in [1..n -> Word]
  PROVE  s \in Seq(Word) /\ Len(s) = n /\ SubSeq(s, 1, n) = s /\ s \in Seq(Seq(Byte))
<1>1. s \in [1..n -> Seq(Byte)]
  BY WordIs
<1> QED
  BY <1>1, AllOf

(* Parts of a sequence, and what two sequences make.                       *)
LEMMA PartOf ==
  ASSUME NEW V, NEW s \in Seq(V), NEW m \in Nat, NEW n \in Nat,
         1 <= m, m <= n + 1, n <= Len(s)
  PROVE  /\ SubSeq(s, m, n) \in Seq(V)
         /\ Len(SubSeq(s, m, n)) = n + 1 - m
         /\ \A i \in 1..(n + 1 - m) : SubSeq(s, m, n)[i] = s[m + i - 1]
<1> QED
  BY SubSeqProperties, LenProperties

(* The places that a round works at are in the state.                      *)
LEMMA QuartersType ==
  \A i \in 1..8 : Quarters[i] \in [1..4 -> 0..15]
  BY DEF Quarters

(* A turn of the loop in chacha20_block() makes a state of a state.        *)
LEMMA DoubleRoundType ==
  ASSUME NEW words \in Words16
  PROVE  DoubleRound[words] \in Words16
<1> DEFINE after == CHOOSE g : g = [i \in 0..8 |-> IF i = 0 THEN words ELSE QuarterRound(g[i - 1], Quarters[i])]
           n == 8
           step == [i \in 1..n |-> [w \in Words16 |-> QuarterRound(w, Quarters[i])]]
<1>1. \A i \in 1..n, w \in Words16 : QuarterRound(w, Quarters[i]) \in Words16
  BY QuartersType, QuarterRoundType
<1>2. Loop(n, Words16, words, step)
  BY <1>1 DEF Loop
<1>3. \A i \in 1..n, w \in Words16 : step[i][w] = QuarterRound(w, Quarters[i])
  OBVIOUS
<1> HIDE DEF step, n
<1>4. PICK f : IsRun(f, n, Words16, words, step)
  BY <1>2, Iteration
<1>5. f = [i \in 0..8 |-> IF i = 0 THEN words ELSE QuarterRound(f[i - 1], Quarters[i])]
  <2>1. \A i \in 1..n : f[i] = QuarterRound(f[i - 1], Quarters[i])
    <3>1. \A i \in 1..n : i - 1 \in 0..n
      BY DEF n
    <3> QED
      BY <1>3, <1>4, <3>1 DEF IsRun
  <2> QED
    BY <1>4, <2>1 DEF IsRun, n
<1>6. after = [i \in 0..8 |-> IF i = 0 THEN words ELSE QuarterRound(after[i - 1], Quarters[i])]
  BY <1>5
<1>7. DoubleRound[words] = after[8]
  <2>1. words \in Seq(Word)
    BY WordsAre DEF Words16
  <2> QED
    BY <2>1 DEF DoubleRound
<1> HIDE DEF after
<1>8. Follows(after, n, Words16, words, step)
  BY <1>3, <1>6 DEF Follows, n
<1>9. \A i \in 0..n : after[i] \in Words16
  BY <1>2, <1>8, StaysIn
<1> QED
  BY <1>7, <1>9 DEF n

(* chacha20_block() writes 64 bytes.                                       *)
LEMMA ChaChaBlockType ==
  ASSUME NEW start \in Words16
  PROVE  ChaChaBlock(start) \in Seq(Byte) /\ Len(ChaChaBlock(start)) = 64
<1> DEFINE working == CHOOSE g : g = [i \in 0..10 |-> IF i = 0 THEN start ELSE DoubleRound[g[i - 1]]]
           n == 10
           step == [i \in 1..n |-> [w \in Words16 |-> DoubleRound[w]]]
<1>2. Loop(n, Words16, start, step)
  BY DoubleRoundType DEF Loop
<1>3. \A i \in 1..n, w \in Words16 : step[i][w] = DoubleRound[w]
  OBVIOUS
<1> HIDE DEF step, n
<1>4. PICK f : IsRun(f, n, Words16, start, step)
  BY <1>2, Iteration
<1>5. f = [i \in 0..10 |-> IF i = 0 THEN start ELSE DoubleRound[f[i - 1]]]
  <2>1. \A i \in 1..n : f[i] = DoubleRound[f[i - 1]]
    <3>1. \A i \in 1..n : i - 1 \in 0..n
      BY DEF n
    <3> QED
      BY <1>3, <1>4, <3>1 DEF IsRun
  <2> QED
    BY <1>4, <2>1 DEF IsRun, n
<1>6. working = [i \in 0..10 |-> IF i = 0 THEN start ELSE DoubleRound[working[i - 1]]]
  BY <1>5, Zenon
<1> DEFINE s == [i \in 1..16 |-> Plus(working[10][i], start[i])]
<1>7. ChaChaBlock(start) = Joined(4, s)
  BY DEF ChaChaBlock
<1> HIDE DEF working
<1>8. Follows(working, n, Words16, start, step)
  BY <1>3, <1>6 DEF Follows, n
<1>9. working[10] \in Words16
  <2>1. \A i \in 0..n : working[i] \in Words16
    BY <1>2, <1>8, StaysIn
  <2> QED
    BY <2>1 DEF n
<1>10. s \in [1..16 -> Word]
  BY <1>9, PlusType DEF Words16
<1> HIDE DEF s
<1>11. s \in Seq(Seq(Byte)) /\ Len(s) = 16
  BY <1>10, WordsAre
<1>12. \A i \in 1..Len(s) : Len(s[i]) = 4
  BY <1>10, <1>11, WordIs
<1>13. Joined(4, s) \in Seq(Byte) /\ Len(Joined(4, s)) = 4 * 16
  BY <1>11, <1>12, JoinedIs
<1> QED
  BY <1>7, <1>13

(* Four times n bytes are n words.                                         *)
LEMMA WordsType ==
  ASSUME NEW bytes \in Seq(Byte), NEW n \in Nat, Len(bytes) = 4 * n
  PROVE  Words(bytes) \in [1..n -> Word]
<1>1. Len(bytes) \div 4 = n
  OBVIOUS
<1>2. ASSUME NEW i \in 1..n PROVE SubSeq(bytes, 4 * i - 3, 4 * i) \in Word
  <2>1. 4 * i - 3 \in 1..Len(bytes) + 1 /\ 4 * i \in 0..Len(bytes)
    OBVIOUS
  <2>2. SubSeq(bytes, 4 * i - 3, 4 * i) \in Seq(Byte) /\ Len(SubSeq(bytes, 4 * i - 3, 4 * i)) = 4
    BY <2>1
  <2> QED
    BY <2>2, WordIs
<1> QED
  BY <1>1, <1>2 DEF Words

(* Every key of an admitted length gives a state of sixteen words.         *)
LEMMA ChaChaStateType ==
  ASSUME NEW key \in Seq(Byte), Len(key) \in 44..48
  PROVE  ChaChaState(key) \in Words16
<1>0. Len(key) \in Nat /\ 44 <= Len(key)
  <2>1. \A n \in 44..48 : n \in Nat /\ 44 <= n
    OBVIOUS
  <2> QED
    BY <2>1
<1> DEFINE k == Words(SubSeq(key, 1, 32))
           c == IF Len(key) >= 48 THEN SubSeq(key, 45, 48) ELSE <<0, 0, 0, 0>>
           nonce == Words(SubSeq(key, 33, 44))
<1>1. k \in [1..8 -> Word]
  <2> DEFINE first == 1
             last == 32
  <2>1. first \in Nat /\ last \in Nat /\ 1 <= first /\ first <= last + 1 /\ last <= Len(key)
    BY <1>0
  <2> HIDE DEF first, last
  <2>2. SubSeq(key, first, last) \in Seq(Byte) /\ Len(SubSeq(key, first, last)) = last + 1 - first
    BY <2>1, PartOf
  <2> USE DEF first, last
  <2>3. Len(SubSeq(key, 1, 32)) = 4 * 8
    BY <2>2
  <2> QED
    BY <2>2, <2>3, WordsType
<1>2. nonce \in [1..3 -> Word]
  <2>1. SubSeq(key, 33, 44) \in Seq(Byte) /\ Len(SubSeq(key, 33, 44)) = 4 * 3
    BY <1>0, PartOf
  <2> QED
    BY <2>1, WordsType
<1>3. c \in Word
  <2>1. CASE Len(key) >= 48
    <3>1. SubSeq(key, 45, 48) \in Seq(Byte) /\ Len(SubSeq(key, 45, 48)) = 4
      BY <1>0, <2>1, PartOf
    <3> QED
      BY <2>1, <3>1, WordIs
  <2>2. CASE ~(Len(key) >= 48)
    <3>1. <<0, 0, 0, 0>> \in Word
      BY DEF Word, Byte
    <3> QED
      BY <2>2, <3>1
  <2> QED
    BY <2>1, <2>2
<1>4. ChaChaConstants \in [1..4 -> Word]
  BY DEF ChaChaConstants, Word, Byte
<1> HIDE DEF k, c, nonce
<1>5. /\ k \in Seq(Word) /\ Len(k) = 8
      /\ nonce \in Seq(Word) /\ Len(nonce) = 3
      /\ ChaChaConstants \in Seq(Word) /\ Len(ChaChaConstants) = 4
      /\ <<c>> \in Seq(Word) /\ Len(<<c>>) = 1
  <2>1. <<c>> \in Seq(Word) /\ Len(<<c>>) = 1
    BY <1>3
  <2>2. 8 \in Nat /\ 3 \in Nat /\ 4 \in Nat
    OBVIOUS
  <2>3. k \in Seq(Word) /\ Len(k) = 8
    BY <1>1, <2>2, WordsAre
  <2>4. nonce \in Seq(Word) /\ Len(nonce) = 3
    BY <1>2, <2>2, WordsAre
  <2>5. ChaChaConstants \in Seq(Word) /\ Len(ChaChaConstants) = 4
    BY <1>4, <2>2, WordsAre
  <2> QED
    BY <2>1, <2>3, <2>4, <2>5
<1> DEFINE one == ChaChaConstants \o k
           two == one \o <<c>>
           three == two \o nonce
<1>6. one \in Seq(Word) /\ Len(one) = 12
  <2>1. one \in Seq(Word) /\ Len(one) = Len(ChaChaConstants) + Len(k)
    BY <1>5, ConcatProperties
  <2> QED
    BY <1>5, <2>1
<1> HIDE DEF one
<1>7. two \in Seq(Word) /\ Len(two) = 13
  <2>1. two \in Seq(Word) /\ Len(two) = Len(one) + Len(<<c>>)
    BY <1>5, <1>6, ConcatProperties
  <2> QED
    BY <1>5, <1>6, <2>1
<1> HIDE DEF two
<1>8. three \in Seq(Word) /\ Len(three) = 16
  <2>1. three \in Seq(Word) /\ Len(three) = Len(two) + Len(nonce)
    BY <1>5, <1>7, ConcatProperties
  <2> QED
    BY <1>5, <1>7, <2>1
<1>9. three \in [1..16 -> Word]
  <2> HIDE DEF three
  <2>1. \A i \in 1..16 : three[i] \in Word
    BY <1>8, ElementOfSeq
  <2>2. three = [i \in 1..16 |-> three[i]]
    BY <1>8, SeqDef, LenProperties
  <2> QED
    BY <2>1, <2>2
<1>10. ChaChaState(key) = three
  BY DEF ChaChaState, k, c, nonce, one, two
<1> QED
  BY <1>9, <1>10 DEF Words16

(* The key stream has as many bytes as its blocks.                         *)
LEMMA KeyStreamType ==
  ASSUME NEW key \in Seq(Byte), Len(key) \in 44..48, NEW blocks \in Nat
  PROVE  KeyStream(key, blocks) \in Seq(Byte) /\ Len(KeyStream(key, blocks)) = 64 * blocks
<1> DEFINE start == ChaChaState(key)
           counter == CHOOSE g : g = [i \in 0..blocks |-> IF i = 0 THEN start[13] ELSE NextCounter(g[i - 1])]
           step == [i \in 1..blocks |-> [w \in Word |-> NextCounter(w)]]
           parts == [i \in 1..blocks |-> ChaChaBlock([start EXCEPT ![13] = counter[i - 1]])]
<1>1. start \in Words16
  BY ChaChaStateType
<1>2. KeyStream(key, blocks) = Joined(64, parts)
  BY DEF KeyStream
<1> HIDE DEF start
<1>3. start[13] \in Word
  BY <1>1 DEF Words16
<1>4. \A w \in Word : NextCounter(w) \in Word
  <2>1. <<1, 0, 0, 0>> \in Word
    BY DEF Word, Byte
  <2> QED
    BY <2>1, PlusType DEF NextCounter
<1>5. Loop(blocks, Word, start[13], step)
  BY <1>3, <1>4 DEF Loop
<1>6. \A i \in 1..blocks, w \in Word : step[i][w] = NextCounter(w)
  OBVIOUS
<1> HIDE DEF step
<1>7. PICK f : IsRun(f, blocks, Word, start[13], step)
  BY <1>5, Iteration
<1>8. \A i \in 1..blocks : i - 1 \in 0..blocks
  OBVIOUS
<1>9. f = [i \in 0..blocks |-> IF i = 0 THEN start[13] ELSE NextCounter(f[i - 1])]
  <2>1. \A i \in 1..blocks : f[i] = NextCounter(f[i - 1])
    BY <1>6, <1>7, <1>8 DEF IsRun
  <2> QED
    BY <1>7, <2>1 DEF IsRun
<1>10. counter = [i \in 0..blocks |-> IF i = 0 THEN start[13] ELSE NextCounter(counter[i - 1])]
  BY <1>9
<1> HIDE DEF counter
<1>11. Follows(counter, blocks, Word, start[13], step)
  BY <1>6, <1>10 DEF Follows
<1>12. \A i \in 0..blocks : counter[i] \in Word
  BY <1>5, <1>11, StaysIn
<1>13. ASSUME NEW i \in 1..blocks
       PROVE  parts[i] \in Seq(Byte) /\ Len(parts[i]) = 64
  <2>1. counter[i - 1] \in Word
    BY <1>8, <1>12
  <2>2. [start EXCEPT ![13] = counter[i - 1]] \in Words16
    BY <1>1, <2>1 DEF Words16
  <2> QED
    BY <2>2, ChaChaBlockType
<1>14. parts \in [1..blocks -> Seq(Byte)]
  BY <1>13
<1> HIDE DEF parts
<1>15. parts \in Seq(Seq(Byte)) /\ Len(parts) = blocks
  BY <1>14, AllOf
<1> QED
  BY <1>2, <1>13, <1>15, JoinedIs

(* chacha20_crypt() undoes itself, for every key, with a counter of its own *)
(* or without, and data of any number of blocks that there is room for.    *)
THEOREM ChaCha20Opens ==
  ASSUME NEW data \in Seq(Byte), NEW key \in Seq(Byte), NEW room \in Nat,
         ChaCha20Crypt(data, key, room).code = "OK"
  PROVE  LET sealed == ChaCha20Crypt(data, key, room).text
         IN  /\ sealed \in Seq(Byte) /\ Len(sealed) <= room
             /\ ChaCha20Crypt(sealed, key, room) = Succeeded(data)
<1>1. Len(key) \in 44..48 /\ Len(data) <= room
  BY DEF ChaCha20Crypt, Failed
<1> DEFINE blocks == (Len(data) + 63) \div 64
           stream == KeyStream(key, blocks)
<1>2. Len(data) \in Nat /\ blocks \in Nat /\ Len(data) <= 64 * blocks
  BY LenProperties
<1>3. stream \in Seq(Byte) /\ Len(data) <= Len(stream)
  BY <1>1, <1>2, KeyStreamType
<1>4. ChaCha20Crypt(data, key, room) = Succeeded(XorEach(data, stream))
  BY <1>1, <1>2 DEF ChaCha20Crypt
<1> HIDE DEF stream
<1> DEFINE x == XorEach(data, stream)
<1>5. x \in Seq(Byte) /\ Len(x) = Len(data) /\ XorEach(x, stream) = data
  BY <1>3, XorEachIs, XorEachTwice
<1> HIDE DEF x
<1>6. ChaCha20Crypt(x, key, room) = Succeeded(XorEach(x, stream))
  BY <1>1, <1>2, <1>5 DEF ChaCha20Crypt, stream
<1> QED
  BY <1>1, <1>4, <1>5, <1>6 DEF Succeeded, x

----------------------------------------------------------------------------
(***************************************************************************)
(* AES: each step of a round has one that undoes it.  Bytes are            *)
(* substituted and moved by tables; columns are multiplied with matrices   *)
(* whose product is the unit matrix, by the algebra of doubling.           *)
(***************************************************************************)

(* INV_SBOX undoes SBOX, entry by entry.                                   *)
LEMMA SubByteBack ==
  ASSUME NEW a \in Byte
  PROVE  SBox[a + 1] \in Byte /\ InvSBox[SBox[a + 1] + 1] = a
<1>1. \A i \in 1..256 : SBox[i] \in Byte
  BY DEF SBox, Byte
<1>2. \A i \in 1..256 : InvSBox[SBox[i] + 1] = i - 1
  BY DEF SBox, InvSBox
<1>3. a + 1 \in 1..256 /\ (a + 1) - 1 = a
  BY DEF Byte
<1> QED
  BY <1>1, <1>2, <1>3

(* INV_SBOX holds bytes.                                                   *)
LEMMA InvSubByteType ==
  ASSUME NEW a \in Byte
  PROVE  InvSBox[a + 1] \in Byte
<1>1. \A i \in 1..256 : InvSBox[i] \in Byte
  BY DEF InvSBox, Byte
<1>2. a + 1 \in 1..256
  BY DEF Byte
<1> QED
  BY <1>1, <1>2

(* A function of sixteen bytes is a block.                                 *)
LEMMA BlockIs ==
  ASSUME NEW f \in [1..16 -> Byte]
  PROVE  Block(f) = f
  BY AllOf DEF Block

(* inv_shift_rows() and inv_sub_bytes() undo sub_bytes() and shift_rows(). *)
LEMMA SubAndShiftBack ==
  ASSUME NEW s \in State
  PROVE  /\ SubAndShift[s] \in State
         /\ InvSubAndShift[SubAndShift[s]] = s
<1> DEFINE sub == [i \in 1..16 |-> SBox[s[i] + 1]]
           shifted == [i \in 1..16 |-> sub[ShiftFrom[i] + 1]]
           back == [i \in 1..16 |-> shifted[UnshiftFrom[i] + 1]]
           unsub == [i \in 1..16 |-> InvSBox[back[i] + 1]]
<1>1. s \in [1..16 -> Byte] /\ \A i \in 1..16 : s[i] \in Byte
  BY DEF State
<1>2. sub \in [1..16 -> Byte]
  BY <1>1, SubByteBack
<1>3. SubBytes(s) = sub
  BY <1>2, BlockIs DEF SubBytes
<1>4. /\ \A i \in 1..16 : ShiftFrom[i] + 1 \in 1..16 /\ UnshiftFrom[i] + 1 \in 1..16
      /\ \A i \in 1..16 : ShiftFrom[UnshiftFrom[i] + 1] + 1 = i
  BY DEF ShiftFrom, UnshiftFrom
<1>5. shifted \in [1..16 -> Byte]
  BY <1>2, <1>4
<1>6. ShiftRows(sub) = shifted
  BY <1>5, BlockIs DEF ShiftRows
<1>7. SubAndShift[s] = shifted
  BY <1>3, <1>6 DEF SubAndShift
<1>8. \A i \in 1..16 : back[i] = sub[i]
  BY <1>4
<1>9. back = sub
  BY <1>2, <1>8, Zenon
<1>10. InvShiftRows(shifted) = back
  BY <1>2, <1>9, BlockIs, Zenon DEF InvShiftRows
<1>11. unsub = s
  <2>1. \A i \in 1..16 : back[i] = SBox[s[i] + 1]
    BY <1>8, Zenon
  <2>2. \A i \in 1..16 : unsub[i] = InvSBox[back[i] + 1]
    BY Zenon
  <2> HIDE DEF back
  <2>3. \A i \in 1..16 : InvSBox[SBox[s[i] + 1] + 1] = s[i]
    BY <1>1, SubByteBack
  <2>4. \A i \in 1..16 : InvSBox[back[i] + 1] = s[i]
    BY <2>1, <2>3
  <2> QED
    BY <1>1, <2>4
<1>12. InvSubBytes(back) = unsub
  BY <1>1, <1>11, BlockIs, Zenon DEF InvSubBytes
<1>13. InvSubAndShift[shifted] = s
  BY <1>5, <1>10, <1>11, <1>12, Zenon DEF InvSubAndShift, State
<1> QED
  BY <1>5, <1>7, <1>13 DEF State

(* And they make a block of any block.                                     *)
LEMMA InvSubAndShiftType ==
  ASSUME NEW s \in State
  PROVE  InvSubAndShift[s] \in State
<1> DEFINE back == [i \in 1..16 |-> s[UnshiftFrom[i] + 1]]
           unsub == [i \in 1..16 |-> InvSBox[back[i] + 1]]
<1>1. \A i \in 1..16 : UnshiftFrom[i] + 1 \in 1..16
  BY DEF UnshiftFrom
<1>2. back \in [1..16 -> Byte]
  BY <1>1 DEF State
<1>3. InvShiftRows(s) = back
  BY <1>2, BlockIs DEF InvShiftRows
<1> HIDE DEF back
<1>4. unsub \in [1..16 -> Byte]
  BY <1>2, InvSubByteType
<1>5. InvSubBytes(back) = unsub
  BY <1>4, BlockIs DEF InvSubBytes
<1> QED
  BY <1>3, <1>4, <1>5 DEF InvSubAndShift, State

(* Doubling by bits, and that it is linear.                                *)
LEMMA DoubledOn ==
  ASSUME NEW a \in Byte
  PROVE  /\ Doubled(a) \in Byte
         /\ On(Doubled(a), 1) <=> On(a, 128)
         /\ On(Doubled(a), 2) <=> ~(On(a, 1) <=> On(a, 128))
         /\ On(Doubled(a), 4) <=> On(a, 2)
         /\ On(Doubled(a), 8) <=> ~(On(a, 4) <=> On(a, 128))
         /\ On(Doubled(a), 16) <=> ~(On(a, 8) <=> On(a, 128))
         /\ On(Doubled(a), 32) <=> On(a, 16)
         /\ On(Doubled(a), 64) <=> On(a, 32)
         /\ On(Doubled(a), 128) <=> On(a, 64)
<1> DEFINE d == (2 * a) % 256
<1>1. /\ d \in Byte
      /\ ~On(d, 1)
      /\ On(d, 2) <=> On(a, 1)
      /\ On(d, 4) <=> On(a, 2)
      /\ On(d, 8) <=> On(a, 4)
      /\ On(d, 16) <=> On(a, 8)
      /\ On(d, 32) <=> On(a, 16)
      /\ On(d, 64) <=> On(a, 32)
      /\ On(d, 128) <=> On(a, 64)
  BY SMTT(30) DEF Byte, On
<1>2. /\ \h1b \in Byte
      /\ On(\h1b, 1) /\ On(\h1b, 2) /\ On(\h1b, 8) /\ On(\h1b, 16)
      /\ ~On(\h1b, 4) /\ ~On(\h1b, 32) /\ ~On(\h1b, 64) /\ ~On(\h1b, 128)
  BY DEF Byte, On
<1>3. On(a, 128) <=> a >= 128
  BY DEF Byte, On
<1>4. ~(a >= 128) => 2 * a = d
  BY DEF Byte
<1>5. {1, 2, 4, 8, 16, 32, 64, 128} = Places
  BY DEF Places
<1> HIDE DEF d
<1>6. CASE a >= 128
  <2>1. Doubled(a) = Added(d, \h1b)
    BY <1>6 DEF Doubled, d
  <2>2. Added(d, \h1b) \in Byte /\ \A p \in Places : On(Added(d, \h1b), p) <=> ~(On(d, p) <=> On(\h1b, p))
    BY <1>1, <1>2, AddedOn
  <2> QED
    BY <1>1, <1>2, <1>3, <1>5, <1>6, <2>1, <2>2
<1>7. CASE ~(a >= 128)
  <2>1. Doubled(a) = d
    BY <1>4, <1>7 DEF Doubled
  <2> QED
    BY <1>1, <1>3, <1>7, <2>1
<1> QED
  BY <1>6, <1>7

(* A sum doubled is the sum of the doubles.                                *)
LEMMA DoubledSum ==
  ASSUME NEW a \in Byte, NEW b \in Byte
  PROVE  Doubled(Added(a, b)) = Added(Doubled(a), Doubled(b))
<1> DEFINE c == Added(a, b)
           d == Added(Doubled(a), Doubled(b))
<1>1. c \in Byte /\ \A p \in Places : On(c, p) <=> ~(On(a, p) <=> On(b, p))
  BY AddedOn
<1>2. Doubled(a) \in Byte /\ Doubled(b) \in Byte /\ Doubled(c) \in Byte
  BY <1>1, DoubledOn
<1>3. d \in Byte /\ \A p \in Places : On(d, p) <=> ~(On(Doubled(a), p) <=> On(Doubled(b), p))
  BY <1>2, AddedOn
<1> HIDE DEF c, d
<1>4. \A p \in Places : On(Doubled(c), p) <=> On(d, p)
  <2>1. /\ On(Doubled(c), 1) <=> On(d, 1)
        /\ On(Doubled(c), 2) <=> On(d, 2)
        /\ On(Doubled(c), 4) <=> On(d, 4)
        /\ On(Doubled(c), 8) <=> On(d, 8)
        /\ On(Doubled(c), 16) <=> On(d, 16)
        /\ On(Doubled(c), 32) <=> On(d, 32)
        /\ On(Doubled(c), 64) <=> On(d, 64)
        /\ On(Doubled(c), 128) <=> On(d, 128)
    <3>1. \A p \in {1, 2, 4, 8, 16, 32, 64, 128} :
             /\ On(c, p) <=> ~(On(a, p) <=> On(b, p))
             /\ On(d, p) <=> ~(On(Doubled(a), p) <=> On(Doubled(b), p))
      BY <1>1, <1>3 DEF Places
    <3> QED
      BY <1>1, <3>1, DoubledOn
  <2> QED
    BY <2>1 DEF Places
<1>5. Doubled(c) = d
  BY <1>2, <1>3, <1>4, SameBits
<1> QED
  BY <1>5 DEF c, d

(* The doublings of a byte.                                                *)
D1(a) == Doubled(a)
D2(a) == Doubled(D1(a))
D3(a) == Doubled(D2(a))
D4(a) == Doubled(D3(a))

(* All of them are bytes.                                                  *)
LEMMA DoublingsType ==
  ASSUME NEW a \in Byte
  PROVE  D1(a) \in Byte /\ D2(a) \in Byte /\ D3(a) \in Byte /\ D4(a) \in Byte
<1>1. D1(a) \in Byte
  BY DoubledOn DEF D1
<1>2. D2(a) \in Byte
  BY <1>1, DoubledOn DEF D2
<1>3. D3(a) \in Byte
  BY <1>2, DoubledOn DEF D3
<1>4. D4(a) \in Byte
  BY <1>3, DoubledOn DEF D4
<1> QED
  BY <1>1, <1>2, <1>3, <1>4

(* Either but not both.                                                    *)
Xors(x, y) == ~(x <=> y)

(* What multiplication by a factor below 16 makes of the bits.             *)
LEMMA GmulOn ==
  ASSUME NEW a \in Byte, NEW b \in 0..15
  PROVE  /\ Gmul(a, b) \in Byte
         /\ \A p \in Places :
               On(Gmul(a, b), p) <=>
                  Xors(Xors(Bit(b, 0) = 1 /\ On(a, p), Bit(b, 1) = 1 /\ On(D1(a), p)),
                       Xors(Bit(b, 2) = 1 /\ On(D2(a), p), Bit(b, 3) = 1 /\ On(D3(a), p)))
<1> DEFINE power == CHOOSE g : g = [i \in 0..7 |-> IF i = 0 THEN a ELSE Doubled(g[i - 1])]
           n == 7
           step == [i \in 1..n |-> [x \in Byte |-> Doubled(x)]]
           product == CHOOSE g : g = [i \in 0..8 |-> IF i = 0 THEN 0
                                                     ELSE IF Bit(b, i - 1) = 1 THEN Added(g[i - 1], power[i - 1])
                                                     ELSE g[i - 1]]
           m == 8
           turn(i, x) == IF Bit(b, i - 1) = 1 THEN Added(x, power[i - 1]) ELSE x
           turns == [i \in 1..m |-> [x \in Byte |-> turn(i, x)]]
<1>1. Gmul(a, b) = product[8]
  BY DEF Gmul
<1>2. /\ power = [i \in 0..7 |-> IF i = 0 THEN a ELSE Doubled(power[i - 1])]
      /\ \A i \in 0..7 : power[i] \in Byte
  <2> HIDE DEF product
  <2>1. Loop(n, Byte, a, step)
    BY DoubledOn DEF Loop
  <2>2. \A i \in 1..n, x \in Byte : step[i][x] = Doubled(x)
    OBVIOUS
  <2> HIDE DEF step, n
  <2>3. PICK f : IsRun(f, n, Byte, a, step)
    BY <2>1, Iteration
  <2>4. f = [i \in 0..7 |-> IF i = 0 THEN a ELSE Doubled(f[i - 1])]
    <3>1. \A i \in 1..n : i - 1 \in 0..n
      BY DEF n
    <3>2. \A i \in 1..n : f[i] = Doubled(f[i - 1])
      BY <2>2, <2>3, <3>1 DEF IsRun
    <3> QED
      BY <2>3, <3>2 DEF IsRun, n
  <2>5. power = [i \in 0..7 |-> IF i = 0 THEN a ELSE Doubled(power[i - 1])]
    BY <2>4
  <2> HIDE DEF power
  <2>6. Follows(power, n, Byte, a, step)
    BY <2>2, <2>5 DEF Follows, n
  <2>7. \A i \in 0..n : power[i] \in Byte
    BY <2>1, <2>6, StaysIn
  <2> QED
    BY <2>5, <2>7 DEF n
<1> HIDE DEF power
<1>3. /\ product = [i \in 0..8 |-> IF i = 0 THEN 0
                                   ELSE IF Bit(b, i - 1) = 1 THEN Added(product[i - 1], power[i - 1])
                                   ELSE product[i - 1]]
      /\ \A i \in 0..8 : product[i] \in Byte
  <2>1. \A i \in 1..m, x \in Byte : turn(i, x) \in Byte
    <3>1. \A i \in 1..m : i - 1 \in 0..7
      OBVIOUS
    <3> QED
      BY <1>2, <3>1, AddedOn
  <2>2. Loop(m, Byte, 0, turns)
    <3>1. 0 \in Byte /\ m \in Nat
      BY DEF Byte
    <3> HIDE DEF turn, m
    <3> QED
      BY <2>1, <3>1 DEF Loop
  <2>3. \A i \in 1..m, x \in Byte : turns[i][x] = turn(i, x)
    OBVIOUS
  <2> HIDE DEF turns, m
  <2>4. PICK f : IsRun(f, m, Byte, 0, turns)
    BY <2>2, Iteration
  <2>5. f = [i \in 0..8 |-> IF i = 0 THEN 0
                            ELSE IF Bit(b, i - 1) = 1 THEN Added(f[i - 1], power[i - 1])
                            ELSE f[i - 1]]
    <3>1. \A i \in 1..m : i - 1 \in 0..m
      BY DEF m
    <3>2. \A i \in 1..m : f[i] = turn(i, f[i - 1])
      <4> HIDE DEF turn
      <4> QED
        BY <2>3, <2>4, <3>1 DEF IsRun
    <3> QED
      BY <2>4, <3>2 DEF IsRun, m
  <2>6. product = [i \in 0..8 |-> IF i = 0 THEN 0
                                  ELSE IF Bit(b, i - 1) = 1 THEN Added(product[i - 1], power[i - 1])
                                  ELSE product[i - 1]]
    BY <2>5, Zenon
  <2> HIDE DEF product
  <2>7. Follows(product, m, Byte, 0, turns)
    <3>1. \A i \in 1..m : product[i] = turn(i, product[i - 1])
      BY <2>6 DEF m
    <3>2. product[0] = 0
      BY <2>6
    <3> HIDE DEF turn
    <3> QED
      BY <2>3, <3>1, <3>2 DEF Follows
  <2>8. \A i \in 0..m : product[i] \in Byte
    BY <2>2, <2>7, StaysIn
  <2> QED
    BY <2>6, <2>8 DEF m
<1> HIDE DEF product
<1>4. power[0] = a /\ power[1] = D1(a) /\ power[2] = D2(a) /\ power[3] = D3(a)
  <2>1. power[0] = a
    BY <1>2
  <2>2. power[1] = Doubled(power[0])
    BY <1>2
  <2>3. power[2] = Doubled(power[1])
    BY <1>2
  <2>4. power[3] = Doubled(power[2])
    BY <1>2
  <2> QED
    BY <2>1, <2>2, <2>3, <2>4 DEF D1, D2, D3
<1>5. product[8] = product[4]
  <2>1. Bit(b, 4) = 0 /\ Bit(b, 5) = 0 /\ Bit(b, 6) = 0 /\ Bit(b, 7) = 0
    BY DEF Bit
  <2>2. product[5] = product[4]
    BY <1>3, <2>1
  <2>3. product[6] = product[5]
    BY <1>3, <2>1
  <2>4. product[7] = product[6]
    BY <1>3, <2>1
  <2>5. product[8] = product[7]
    BY <1>3, <2>1
  <2> QED
    BY <2>2, <2>3, <2>4, <2>5
<1>6. ASSUME NEW p \in Places
      PROVE  /\ ~On(product[0], p)
             /\ On(product[1], p) <=> Xors(On(product[0], p), Bit(b, 0) = 1 /\ On(a, p))
             /\ On(product[2], p) <=> Xors(On(product[1], p), Bit(b, 1) = 1 /\ On(D1(a), p))
             /\ On(product[3], p) <=> Xors(On(product[2], p), Bit(b, 2) = 1 /\ On(D2(a), p))
             /\ On(product[4], p) <=> Xors(On(product[3], p), Bit(b, 3) = 1 /\ On(D3(a), p))
  <2>1. product[0] = 0
    BY <1>3
  <2>2. ~On(0, p)
    BY DEF On, Places
  <2>3. \A i \in 1..4 : /\ i \in 1..8 /\ i - 1 \in 0..7 /\ i - 1 \in 0..8
    OBVIOUS
  <2>4. \A i \in 1..4 : product[i] = turn(i, product[i - 1])
    BY <1>3, <2>3
  <2>5. ASSUME NEW i \in 1..4
        PROVE  On(product[i], p) <=> ~(On(product[i - 1], p) <=> (Bit(b, i - 1) = 1 /\ On(power[i - 1], p)))
    <3>1. product[i - 1] \in Byte /\ power[i - 1] \in Byte
      BY <1>2, <1>3, <2>3
    <3>2. CASE Bit(b, i - 1) = 1
      <4>1. product[i] = Added(product[i - 1], power[i - 1])
        BY <2>4, <3>2
      <4> QED
        BY <3>1, <3>2, <4>1, AddedOn
    <3>3. CASE Bit(b, i - 1) # 1
      <4>1. product[i] = product[i - 1]
        BY <2>4, <3>3
      <4> QED
        BY <3>3, <4>1
    <3> QED
      BY <3>2, <3>3
  <2>6. 1 - 1 = 0 /\ 2 - 1 = 1 /\ 3 - 1 = 2 /\ 4 - 1 = 3 /\ {1, 2, 3, 4} \subseteq 1..4
    OBVIOUS
  <2> HIDE DEF turn
  <2> QED
    BY <1>4, <2>1, <2>2, <2>5, <2>6 DEF Xors
<1>7. \A p \in Places :
               On(Gmul(a, b), p) <=>
                  Xors(Xors(Bit(b, 0) = 1 /\ On(a, p), Bit(b, 1) = 1 /\ On(D1(a), p)),
                       Xors(Bit(b, 2) = 1 /\ On(D2(a), p), Bit(b, 3) = 1 /\ On(D3(a), p)))
  <2>1. Gmul(a, b) = product[4]
    BY <1>1, <1>5
  <2> QED
    BY <1>6, <2>1 DEF Xors
<1> QED
  BY <1>1, <1>3, <1>7

(* The table of products has what gmul() computes.                         *)
LEMMA TimesIs ==
  ASSUME NEW f \in 1..14, NEW a \in Byte
  PROVE  Times[f][a + 1] = Gmul(a, f) /\ Gmul(a, f) \in Byte
<1> DEFINE row(x) == [i \in 1..256 |-> Gmul(i - 1, x)]
           rows == [i \in 1..14 |-> row(i)]
<1>1. \A i \in 1..256 : i - 1 \in Byte
  BY DEF Byte
<1>2. \A x \in 1..14, y \in Byte : Gmul(y, x) \in Byte
  <2>1. \A x \in 1..14 : x \in 0..15
    OBVIOUS
  <2> QED
    BY <2>1, GmulOn
<1>3. ASSUME NEW x \in 1..14
      PROVE  /\ row(x) \in [1..256 -> Byte]
             /\ row(x) \in Seq(Byte)
             /\ Table(LAMBDA y : Gmul(y, x)) = row(x)
  <2>1. row(x) \in [1..256 -> Byte]
    BY <1>1, <1>2
  <2>2. row(x) \in Seq(Byte) /\ SubSeq(row(x), 1, 256) = row(x)
    BY <2>1, AllOf
  <2> QED
    BY <2>1, <2>2 DEF Table
<1>4. Times = rows
  <2>1. rows \in [1..14 -> Seq(Byte)]
    BY <1>3
  <2>2. SubSeq(rows, 1, 14) = rows
    BY <2>1, AllOf
  <2>3. [i \in 1..14 |-> Table(LAMBDA y : Gmul(y, i))] = rows
    BY <1>3, Zenon
  <2> QED
    BY <2>2, <2>3 DEF Times
<1>5. a + 1 \in 1..256 /\ (a + 1) - 1 = a
  BY DEF Byte
<1>6. Times[f] = row(f)
  BY <1>4
<1>7. row(f)[a + 1] = Gmul(a, f)
  BY <1>5
<1> QED
  BY <1>2, <1>6, <1>7

(* The factors that the code uses.                                         *)
LEMMA FactorsOn ==
  ASSUME NEW a \in Byte, NEW p \in Places
  PROVE  /\ On(Gmul(a, 1), p) <=> On(a, p)
         /\ On(Gmul(a, 2), p) <=> On(D1(a), p)
         /\ On(Gmul(a, 3), p) <=> Xors(On(a, p), On(D1(a), p))
         /\ On(Gmul(a, 9), p) <=> Xors(On(a, p), On(D3(a), p))
         /\ On(Gmul(a, 11), p) <=> Xors(Xors(On(a, p), On(D1(a), p)), On(D3(a), p))
         /\ On(Gmul(a, 13), p) <=> Xors(Xors(On(a, p), On(D2(a), p)), On(D3(a), p))
         /\ On(Gmul(a, 14), p) <=> Xors(Xors(On(D1(a), p), On(D2(a), p)), On(D3(a), p))
<1> DEFINE is(b) ==
             On(Gmul(a, b), p) <=>
                  Xors(Xors(Bit(b, 0) = 1 /\ On(a, p), Bit(b, 1) = 1 /\ On(D1(a), p)),
                       Xors(Bit(b, 2) = 1 /\ On(D2(a), p), Bit(b, 3) = 1 /\ On(D3(a), p)))
<1>1. \A b \in 0..15 : is(b)
  BY GmulOn
<1>2. is(1) /\ is(2) /\ is(3) /\ is(9) /\ is(11) /\ is(13) /\ is(14)
  BY <1>1
<1>3. /\ Bit(1, 0) = 1 /\ Bit(1, 1) = 0 /\ Bit(1, 2) = 0 /\ Bit(1, 3) = 0
      /\ Bit(2, 0) = 0 /\ Bit(2, 1) = 1 /\ Bit(2, 2) = 0 /\ Bit(2, 3) = 0
      /\ Bit(3, 0) = 1 /\ Bit(3, 1) = 1 /\ Bit(3, 2) = 0 /\ Bit(3, 3) = 0
      /\ Bit(9, 0) = 1 /\ Bit(9, 1) = 0 /\ Bit(9, 2) = 0 /\ Bit(9, 3) = 1
      /\ Bit(11, 0) = 1 /\ Bit(11, 1) = 1 /\ Bit(11, 2) = 0 /\ Bit(11, 3) = 1
      /\ Bit(13, 0) = 1 /\ Bit(13, 1) = 0 /\ Bit(13, 2) = 1 /\ Bit(13, 3) = 1
      /\ Bit(14, 0) = 0 /\ Bit(14, 1) = 1 /\ Bit(14, 2) = 1 /\ Bit(14, 3) = 1
  BY DEF Bit
<1> QED
  BY <1>2, <1>3 DEF Xors

(* What a row of the matrix makes of a column.                             *)
Sum4(w, x, y, z) == Added(Added(w, x), Added(y, z))
Mix(a, b, c, d) == Sum4(Gmul(a, 2), Gmul(b, 3), Gmul(c, 1), Gmul(d, 1))
Unmix(a, b, c, d) == Sum4(Gmul(a, 14), Gmul(b, 11), Gmul(c, 13), Gmul(d, 9))

(* Its bits, and that it may be turned.                                    *)
LEMMA Sum4On ==
  ASSUME NEW w \in Byte, NEW x \in Byte, NEW y \in Byte, NEW z \in Byte
  PROVE  /\ Sum4(w, x, y, z) \in Byte
         /\ \A p \in Places :
               On(Sum4(w, x, y, z), p) <=> Xors(Xors(On(w, p), On(x, p)), Xors(On(y, p), On(z, p)))
         /\ Sum4(w, x, y, z) = Sum4(x, y, z, w)
<1>1. ASSUME NEW i \in Byte, NEW j \in Byte, NEW k \in Byte, NEW l \in Byte
      PROVE  /\ Sum4(i, j, k, l) \in Byte
             /\ \A p \in Places :
                   On(Sum4(i, j, k, l), p) <=> Xors(Xors(On(i, p), On(j, p)), Xors(On(k, p), On(l, p)))
  <2>1. Added(i, j) \in Byte /\ \A p \in Places : On(Added(i, j), p) <=> Xors(On(i, p), On(j, p))
    BY AddedOn DEF Xors
  <2>2. Added(k, l) \in Byte /\ \A p \in Places : On(Added(k, l), p) <=> Xors(On(k, p), On(l, p))
    BY AddedOn DEF Xors
  <2>3. /\ Sum4(i, j, k, l) \in Byte
        /\ \A p \in Places : On(Sum4(i, j, k, l), p) <=> Xors(On(Added(i, j), p), On(Added(k, l), p))
    BY <2>1, <2>2, AddedOn DEF Sum4, Xors
  <2> QED
    BY <2>1, <2>2, <2>3 DEF Xors
<1>2. \A p \in Places : On(Sum4(w, x, y, z), p) <=> On(Sum4(x, y, z, w), p)
  BY <1>1 DEF Xors
<1> QED
  BY <1>1, <1>2, SameBits

(* The sum that a mixed byte is, and its doublings.                        *)
Sum5(v, w, x, y, z) == Sum4(v, Added(w, x), y, z)

Odd5(p, v, w, x, y, z) == Xors(Xors(Xors(On(v, p), On(w, p)), Xors(On(x, p), On(y, p))), On(z, p))

Five(v, w, x, y, z) == v \in Byte /\ w \in Byte /\ x \in Byte /\ y \in Byte /\ z \in Byte

(* Its bits, and that doubling goes through it.                            *)
LEMMA Sum5On ==
  ASSUME NEW v, NEW w, NEW x, NEW y, NEW z, Five(v, w, x, y, z)
  PROVE  /\ Sum5(v, w, x, y, z) \in Byte
         /\ \A p \in Places : On(Sum5(v, w, x, y, z), p) <=> Odd5(p, v, w, x, y, z)
         /\ Doubled(Sum5(v, w, x, y, z)) = Sum5(Doubled(v), Doubled(w), Doubled(x), Doubled(y), Doubled(z))
<1> USE DEF Five
<1>1. Added(w, x) \in Byte /\ \A p \in Places : On(Added(w, x), p) <=> Xors(On(w, p), On(x, p))
  BY AddedOn DEF Xors
<1>2. /\ Sum5(v, w, x, y, z) \in Byte
      /\ \A p \in Places : On(Sum5(v, w, x, y, z), p) <=>
                              Xors(Xors(On(v, p), On(Added(w, x), p)), Xors(On(y, p), On(z, p)))
  BY <1>1, Sum4On DEF Sum5
<1>3. Doubled(Sum5(v, w, x, y, z)) = Sum5(Doubled(v), Doubled(w), Doubled(x), Doubled(y), Doubled(z))
  <2>1. Added(v, Added(w, x)) \in Byte /\ Added(y, z) \in Byte
    BY <1>1, AddedOn
  <2>2. Doubled(Added(Added(v, Added(w, x)), Added(y, z)))
          = Added(Doubled(Added(v, Added(w, x))), Doubled(Added(y, z)))
    BY <2>1, DoubledSum
  <2>3. Doubled(Added(v, Added(w, x))) = Added(Doubled(v), Doubled(Added(w, x)))
    BY <1>1, DoubledSum
  <2>4. Doubled(Added(w, x)) = Added(Doubled(w), Doubled(x)) /\ Doubled(Added(y, z)) = Added(Doubled(y), Doubled(z))
    BY DoubledSum
  <2> QED
    BY <2>2, <2>3, <2>4 DEF Sum5, Sum4
<1> QED
  BY <1>1, <1>2, <1>3 DEF Xors, Odd5

(* A byte that mix_columns() writes, and its doublings, as such sums.      *)
LEMMA MixOn ==
  ASSUME NEW a \in Byte, NEW b \in Byte, NEW c \in Byte, NEW d \in Byte
  PROVE  /\ Mix(a, b, c, d) \in Byte
         /\ Mix(a, b, c, d) = Sum5(D1(a), b, D1(b), c, d)
         /\ D1(Mix(a, b, c, d)) = Sum5(D2(a), D1(b), D2(b), D1(c), D1(d))
         /\ D2(Mix(a, b, c, d)) = Sum5(D3(a), D2(b), D3(b), D2(c), D2(d))
         /\ D3(Mix(a, b, c, d)) = Sum5(D4(a), D3(b), D4(b), D3(c), D3(d))
<1>1. /\ D1(a) \in Byte /\ D2(a) \in Byte /\ D3(a) \in Byte /\ D4(a) \in Byte
      /\ D1(b) \in Byte /\ D2(b) \in Byte /\ D3(b) \in Byte /\ D4(b) \in Byte
      /\ D1(c) \in Byte /\ D2(c) \in Byte /\ D3(c) \in Byte /\ D4(c) \in Byte
      /\ D1(d) \in Byte /\ D2(d) \in Byte /\ D3(d) \in Byte /\ D4(d) \in Byte
  BY DoublingsType
<1>2. \A x \in Byte, f \in {1, 2, 3} : Gmul(x, f) \in Byte
  BY TimesIs
<1>3. ASSUME NEW x \in Byte
      PROVE  Gmul(x, 1) = x /\ Gmul(x, 2) = D1(x) /\ Gmul(x, 3) = Added(x, D1(x))
  <2>1. Added(x, D1(x)) \in Byte /\ \A p \in Places : On(Added(x, D1(x)), p) <=> Xors(On(x, p), On(D1(x), p))
    BY DoublingsType, AddedOn DEF Xors
  <2>2. \A p \in Places : /\ On(Gmul(x, 1), p) <=> On(x, p)
                          /\ On(Gmul(x, 2), p) <=> On(D1(x), p)
                          /\ On(Gmul(x, 3), p) <=> On(Added(x, D1(x)), p)
    BY <2>1, FactorsOn
  <2>3. Gmul(x, 1) \in Byte /\ Gmul(x, 2) \in Byte /\ Gmul(x, 3) \in Byte
    BY <1>2
  <2> QED
    BY DoublingsType, <2>1, <2>2, <2>3, SameBits
<1>4. Mix(a, b, c, d) = Sum5(D1(a), b, D1(b), c, d)
  BY <1>3 DEF Mix, Sum5
<1>5. Mix(a, b, c, d) \in Byte
  <2>1. Five(D1(a), b, D1(b), c, d)
    BY <1>1 DEF Five
  <2> QED
    BY <1>4, <2>1, Sum5On
<1>9. \A x : Doubled(x) = D1(x) /\ Doubled(D1(x)) = D2(x) /\ Doubled(D2(x)) = D3(x) /\ Doubled(D3(x)) = D4(x)
  BY DEF D1, D2, D3, D4
<1>6. D1(Mix(a, b, c, d)) = Sum5(D2(a), D1(b), D2(b), D1(c), D1(d))
  <2>0. Five(D1(a), b, D1(b), c, d)
    BY <1>1 DEF Five
  <2>1. Doubled(Sum5(D1(a), b, D1(b), c, d))
          = Sum5(Doubled(D1(a)), Doubled(b), Doubled(D1(b)), Doubled(c), Doubled(d))
    BY <2>0, Sum5On
  <2> QED
    BY <1>4, <1>9, <2>1
<1>7. D2(Mix(a, b, c, d)) = Sum5(D3(a), D2(b), D3(b), D2(c), D2(d))
  <2>0. Five(D2(a), D1(b), D2(b), D1(c), D1(d))
    BY <1>1 DEF Five
  <2>1. Doubled(Sum5(D2(a), D1(b), D2(b), D1(c), D1(d)))
          = Sum5(Doubled(D2(a)), Doubled(D1(b)), Doubled(D2(b)), Doubled(D1(c)), Doubled(D1(d)))
    BY <2>0, Sum5On
  <2> QED
    BY <1>6, <1>9, <2>1
<1>8. D3(Mix(a, b, c, d)) = Sum5(D4(a), D3(b), D4(b), D3(c), D3(d))
  <2>0. Five(D3(a), D2(b), D3(b), D2(c), D2(d))
    BY <1>1 DEF Five
  <2>1. Doubled(Sum5(D3(a), D2(b), D3(b), D2(c), D2(d)))
          = Sum5(Doubled(D3(a)), Doubled(D2(b)), Doubled(D3(b)), Doubled(D2(c)), Doubled(D2(d)))
    BY <2>0, Sum5On
  <2> QED
    BY <1>7, <1>9, <2>1
<1> QED
  BY <1>4, <1>5, <1>6, <1>7, <1>8

(* A column that has been mixed comes back: in powers of the doubling,     *)
(* 14*2 + 11*1 + 13*1 + 9*3 = 1, and the other three sums are 0.           *)
LEMMA ColumnBack ==
  ASSUME NEW a \in Byte, NEW b \in Byte, NEW c \in Byte, NEW d \in Byte
  PROVE  Unmix(Mix(a, b, c, d), Mix(b, c, d, a), Mix(c, d, a, b), Mix(d, a, b, c)) = a
<1> DEFINE m1 == Mix(a, b, c, d)
           m2 == Mix(b, c, d, a)
           m3 == Mix(c, d, a, b)
           m4 == Mix(d, a, b, c)
           u == Unmix(m1, m2, m3, m4)
<1>1. /\ D1(a) \in Byte /\ D2(a) \in Byte /\ D3(a) \in Byte /\ D4(a) \in Byte
      /\ D1(b) \in Byte /\ D2(b) \in Byte /\ D3(b) \in Byte /\ D4(b) \in Byte
      /\ D1(c) \in Byte /\ D2(c) \in Byte /\ D3(c) \in Byte /\ D4(c) \in Byte
      /\ D1(d) \in Byte /\ D2(d) \in Byte /\ D3(d) \in Byte /\ D4(d) \in Byte
  BY DoublingsType
<1>2. /\ m1 \in Byte /\ m2 \in Byte /\ m3 \in Byte /\ m4 \in Byte
      /\ D1(m1) = Sum5(D2(a), D1(b), D2(b), D1(c), D1(d))
      /\ D2(m1) = Sum5(D3(a), D2(b), D3(b), D2(c), D2(d))
      /\ D3(m1) = Sum5(D4(a), D3(b), D4(b), D3(c), D3(d))
      /\ m2 = Sum5(D1(b), c, D1(c), d, a)
      /\ D1(m2) = Sum5(D2(b), D1(c), D2(c), D1(d), D1(a))
      /\ D3(m2) = Sum5(D4(b), D3(c), D4(c), D3(d), D3(a))
      /\ m3 = Sum5(D1(c), d, D1(d), a, b)
      /\ D2(m3) = Sum5(D3(c), D2(d), D3(d), D2(a), D2(b))
      /\ D3(m3) = Sum5(D4(c), D3(d), D4(d), D3(a), D3(b))
      /\ m4 = Sum5(D1(d), a, D1(a), b, c)
      /\ D3(m4) = Sum5(D4(d), D3(a), D4(a), D3(b), D3(c))
  BY MixOn
<1>3. u \in Byte /\ \A p \in Places :
        On(u, p) <=> Xors(Xors(On(Gmul(m1, 14), p), On(Gmul(m2, 11), p)),
                          Xors(On(Gmul(m3, 13), p), On(Gmul(m4, 9), p)))
  <2>1. Gmul(m1, 14) \in Byte /\ Gmul(m2, 11) \in Byte /\ Gmul(m3, 13) \in Byte /\ Gmul(m4, 9) \in Byte
    <3>1. 14 \in 1..14 /\ 11 \in 1..14 /\ 13 \in 1..14 /\ 9 \in 1..14
      OBVIOUS
    <3> HIDE DEF m1, m2, m3, m4
    <3> QED
      BY <1>2, <3>1, TimesIs
  <2> HIDE DEF m1, m2, m3, m4
  <2> QED
    BY <2>1, Sum4On DEF Unmix
<1> HIDE DEF m1, m2, m3, m4, u
<1>4. ASSUME NEW p \in Places PROVE On(u, p) <=> On(a, p)
  <2>10. On(D1(m1), p) <=> Odd5(p, D2(a), D1(b), D2(b), D1(c), D1(d))
    <3>1. Five(D2(a), D1(b), D2(b), D1(c), D1(d))
      BY <1>1 DEF Five
    <3> QED
      BY <1>2, <3>1, Sum5On
  <2>11. On(D2(m1), p) <=> Odd5(p, D3(a), D2(b), D3(b), D2(c), D2(d))
    <3>1. Five(D3(a), D2(b), D3(b), D2(c), D2(d))
      BY <1>1 DEF Five
    <3> QED
      BY <1>2, <3>1, Sum5On
  <2>12. On(D3(m1), p) <=> Odd5(p, D4(a), D3(b), D4(b), D3(c), D3(d))
    <3>1. Five(D4(a), D3(b), D4(b), D3(c), D3(d))
      BY <1>1 DEF Five
    <3> QED
      BY <1>2, <3>1, Sum5On
  <2>13. On(m2, p) <=> Odd5(p, D1(b), c, D1(c), d, a)
    <3>1. Five(D1(b), c, D1(c), d, a)
      BY <1>1 DEF Five
    <3> QED
      BY <1>2, <3>1, Sum5On
  <2>14. On(D1(m2), p) <=> Odd5(p, D2(b), D1(c), D2(c), D1(d), D1(a))
    <3>1. Five(D2(b), D1(c), D2(c), D1(d), D1(a))
      BY <1>1 DEF Five
    <3> QED
      BY <1>2, <3>1, Sum5On
  <2>15. On(D3(m2), p) <=> Odd5(p, D4(b), D3(c), D4(c), D3(d), D3(a))
    <3>1. Five(D4(b), D3(c), D4(c), D3(d), D3(a))
      BY <1>1 DEF Five
    <3> QED
      BY <1>2, <3>1, Sum5On
  <2>16. On(m3, p) <=> Odd5(p, D1(c), d, D1(d), a, b)
    <3>1. Five(D1(c), d, D1(d), a, b)
      BY <1>1 DEF Five
    <3> QED
      BY <1>2, <3>1, Sum5On
  <2>17. On(D2(m3), p) <=> Odd5(p, D3(c), D2(d), D3(d), D2(a), D2(b))
    <3>1. Five(D3(c), D2(d), D3(d), D2(a), D2(b))
      BY <1>1 DEF Five
    <3> QED
      BY <1>2, <3>1, Sum5On
  <2>18. On(D3(m3), p) <=> Odd5(p, D4(c), D3(d), D4(d), D3(a), D3(b))
    <3>1. Five(D4(c), D3(d), D4(d), D3(a), D3(b))
      BY <1>1 DEF Five
    <3> QED
      BY <1>2, <3>1, Sum5On
  <2>19. On(m4, p) <=> Odd5(p, D1(d), a, D1(a), b, c)
    <3>1. Five(D1(d), a, D1(a), b, c)
      BY <1>1 DEF Five
    <3> QED
      BY <1>2, <3>1, Sum5On
  <2>20. On(D3(m4), p) <=> Odd5(p, D4(d), D3(a), D4(a), D3(b), D3(c))
    <3>1. Five(D4(d), D3(a), D4(a), D3(b), D3(c))
      BY <1>1 DEF Five
    <3> QED
      BY <1>2, <3>1, Sum5On
  <2>6. /\ On(Gmul(m1, 14), p) <=> Xors(Xors(On(D1(m1), p), On(D2(m1), p)), On(D3(m1), p))
        /\ On(Gmul(m2, 11), p) <=> Xors(Xors(On(m2, p), On(D1(m2), p)), On(D3(m2), p))
        /\ On(Gmul(m3, 13), p) <=> Xors(Xors(On(m3, p), On(D2(m3), p)), On(D3(m3), p))
        /\ On(Gmul(m4, 9), p) <=> Xors(On(m4, p), On(D3(m4), p))
    BY <1>2, FactorsOn
  <2> QED
    BY <1>3, <2>6, <2>10, <2>11, <2>12, <2>13, <2>14, <2>15, <2>16, <2>17, <2>18, <2>19, <2>20,
       SMTT(60) DEF Odd5, Xors
<1>5. u = a
  BY <1>3, <1>4, SameBits
<1> QED
  BY <1>5 DEF u, m1, m2, m3, m4

Matrix == [1..4 -> [1..4 -> 1..14]]

(* What multiplication by a matrix makes of the byte in a row of a column, *)
(* the column beginning after byte c.                                      *)
LEMMA MixedIs ==
  ASSUME NEW factors \in Matrix, NEW s \in State
  PROVE  /\ Mixed(factors, s) \in State
         /\ \A c \in {0, 4, 8, 12}, r \in 1..4 :
               Mixed(factors, s)[c + r] = Sum4(Gmul(s[c + 1], factors[r][1]), Gmul(s[c + 2], factors[r][2]),
                                               Gmul(s[c + 3], factors[r][3]), Gmul(s[c + 4], factors[r][4]))
<1> DEFINE at(c, r) == Sum4(Gmul(s[c + 1], factors[r][1]), Gmul(s[c + 2], factors[r][2]),
                            Gmul(s[c + 3], factors[r][3]), Gmul(s[c + 4], factors[r][4]))
           column(i) == 4 * ((i - 1) \div 4)
           row(i) == ((i - 1) % 4) + 1
           term(i, j) == Times[factors[row(i)][j]][s[column(i) + j] + 1]
           mixed == [i \in 1..16 |-> Added(Added(term(i, 1), term(i, 2)), Added(term(i, 3), term(i, 4)))]
           m == [i \in 1..16 |-> at(column(i), row(i))]
<1>1. \A i \in 1..16 : column(i) \in {0, 4, 8, 12} /\ row(i) \in 1..4
  OBVIOUS
<1>2. \A c \in {0, 4, 8, 12}, r \in 1..4 : c + r \in 1..16 /\ column(c + r) = c /\ row(c + r) = r
  OBVIOUS
<1>3. ASSUME NEW c \in {0, 4, 8, 12}, NEW r \in 1..4, NEW j \in 1..4
      PROVE  /\ Times[factors[r][j]][s[c + j] + 1] = Gmul(s[c + j], factors[r][j])
             /\ Gmul(s[c + j], factors[r][j]) \in Byte
  <2>1. factors[r][j] \in 1..14
    BY DEF Matrix
  <2>2. s[c + j] \in Byte
    BY <1>2 DEF State
  <2> QED
    BY <2>1, <2>2, TimesIs
<1>4. {1, 2, 3, 4} = 1..4
  OBVIOUS
<1>5. \A c \in {0, 4, 8, 12}, r \in 1..4 : at(c, r) \in Byte
  <2> TAKE c \in {0, 4, 8, 12}, r \in 1..4
  <2>1. /\ Gmul(s[c + 1], factors[r][1]) \in Byte /\ Gmul(s[c + 2], factors[r][2]) \in Byte
        /\ Gmul(s[c + 3], factors[r][3]) \in Byte /\ Gmul(s[c + 4], factors[r][4]) \in Byte
    BY <1>3, <1>4
  <2> QED
    BY <2>1, Sum4On
<1>6. \A i \in 1..16 : Added(Added(term(i, 1), term(i, 2)), Added(term(i, 3), term(i, 4))) = at(column(i), row(i))
  <2> TAKE i \in 1..16
  <2> HIDE DEF column, row
  <2>1. \A j \in {1, 2, 3, 4} : term(i, j) = Gmul(s[column(i) + j], factors[row(i)][j])
    BY <1>1, <1>3, <1>4
  <2> HIDE DEF term
  <2> QED
    BY <2>1 DEF Sum4
<1>7. mixed = m
  <2> HIDE DEF at, term
  <2> QED
    BY <1>6
<1>8. m \in [1..16 -> Byte]
  <2> HIDE DEF at, column, row
  <2> QED
    BY <1>1, <1>5
<1>9. Mixed(factors, s) = Block(mixed)
  BY DEF Mixed
<1>10. Mixed(factors, s) = m
  <2> HIDE DEF mixed, m
  <2> QED
    BY <1>7, <1>8, <1>9, BlockIs
<1>11. \A c \in {0, 4, 8, 12}, r \in 1..4 : m[c + r] = at(c, r)
  <2> HIDE DEF at, column, row
  <2> QED
    BY <1>2
<1> HIDE DEF m
<1> QED
  BY <1>8, <1>10, <1>11 DEF State

(* The entries of the matrices that the code spells out.                   *)
LEMMA FactorsAre ==
  /\ MixFactors \in Matrix /\ UnmixFactors \in Matrix
  /\ MixFactors[1] = <<2, 3, 1, 1>> /\ MixFactors[2] = <<1, 2, 3, 1>>
  /\ MixFactors[3] = <<1, 1, 2, 3>> /\ MixFactors[4] = <<3, 1, 1, 2>>
  /\ UnmixFactors[1] = <<14, 11, 13, 9>> /\ UnmixFactors[2] = <<9, 14, 11, 13>>
  /\ UnmixFactors[3] = <<13, 9, 14, 11>> /\ UnmixFactors[4] = <<11, 13, 9, 14>>
  BY DEF MixFactors, UnmixFactors, Matrix

(* The rows of either matrix are turns of its first.                       *)
LEMMA MixedColumn ==
  ASSUME NEW s \in State, NEW c \in {0, 4, 8, 12}
  PROVE  LET a == s[c + 1]
             b == s[c + 2]
             d == s[c + 3]
             e == s[c + 4]
             m == Mixed(MixFactors, s)
             u == Mixed(UnmixFactors, s)
         IN  /\ a \in Byte /\ b \in Byte /\ d \in Byte /\ e \in Byte
             /\ m[c + 1] = Mix(a, b, d, e) /\ m[c + 2] = Mix(b, d, e, a)
             /\ m[c + 3] = Mix(d, e, a, b) /\ m[c + 4] = Mix(e, a, b, d)
             /\ u[c + 1] = Unmix(a, b, d, e) /\ u[c + 2] = Unmix(b, d, e, a)
             /\ u[c + 3] = Unmix(d, e, a, b) /\ u[c + 4] = Unmix(e, a, b, d)
<1> DEFINE a == s[c + 1]
           b == s[c + 2]
           d == s[c + 3]
           e == s[c + 4]
           m == Mixed(MixFactors, s)
           u == Mixed(UnmixFactors, s)
<1>1. a \in Byte /\ b \in Byte /\ d \in Byte /\ e \in Byte
  <2>1. c + 1 \in 1..16 /\ c + 2 \in 1..16 /\ c + 3 \in 1..16 /\ c + 4 \in 1..16
    OBVIOUS
  <2> QED
    BY <2>1 DEF State
<1>2. 1 \in 1..4 /\ 2 \in 1..4 /\ 3 \in 1..4 /\ 4 \in 1..4
  OBVIOUS
<1> DEFINE sum(f, r) == Sum4(Gmul(a, f[r][1]), Gmul(b, f[r][2]), Gmul(d, f[r][3]), Gmul(e, f[r][4]))
<1>3. \A r \in 1..4 : m[c + r] = sum(MixFactors, r) /\ u[c + r] = sum(UnmixFactors, r)
  BY FactorsAre, MixedIs
<1>4. \A x \in {a, b, d, e}, f \in {1, 2, 3, 9, 11, 13, 14} : Gmul(x, f) \in Byte
  <2>1. \A f \in {1, 2, 3, 9, 11, 13, 14} : f \in 1..14
    OBVIOUS
  <2> HIDE DEF a, b, d, e
  <2> QED
    BY <1>1, <2>1, TimesIs
<1> HIDE DEF a, b, d, e, m, u
<1>5. ASSUME NEW w \in Byte, NEW x \in Byte, NEW y \in Byte, NEW z \in Byte
      PROVE  Sum4(w, x, y, z) = Sum4(x, y, z, w) /\ Sum4(w, x, y, z) = Sum4(y, z, w, x)
             /\ Sum4(w, x, y, z) = Sum4(z, w, x, y)
  <2>1. Sum4(w, x, y, z) = Sum4(x, y, z, w)
    BY Sum4On
  <2>2. Sum4(x, y, z, w) = Sum4(y, z, w, x)
    BY Sum4On
  <2>3. Sum4(y, z, w, x) = Sum4(z, w, x, y)
    BY Sum4On
  <2> QED
    BY <2>1, <2>2, <2>3
<1>10. m[c + 1] = Mix(a, b, d, e)
  BY <1>2, <1>3, FactorsAre DEF Mix
<1>11. m[c + 2] = Mix(b, d, e, a)
  <2>1. m[c + 2] = Sum4(Gmul(a, 1), Gmul(b, 2), Gmul(d, 3), Gmul(e, 1))
    BY <1>2, <1>3, FactorsAre
  <2>2. Gmul(a, 1) \in Byte /\ Gmul(b, 2) \in Byte /\ Gmul(d, 3) \in Byte /\ Gmul(e, 1) \in Byte
    BY <1>4
  <2> QED
    BY <2>1, <2>2, <1>5 DEF Mix
<1>12. m[c + 3] = Mix(d, e, a, b)
  <2>1. m[c + 3] = Sum4(Gmul(a, 1), Gmul(b, 1), Gmul(d, 2), Gmul(e, 3))
    BY <1>2, <1>3, FactorsAre
  <2>2. Gmul(a, 1) \in Byte /\ Gmul(b, 1) \in Byte /\ Gmul(d, 2) \in Byte /\ Gmul(e, 3) \in Byte
    BY <1>4
  <2> QED
    BY <2>1, <2>2, <1>5 DEF Mix
<1>13. m[c + 4] = Mix(e, a, b, d)
  <2>1. m[c + 4] = Sum4(Gmul(a, 3), Gmul(b, 1), Gmul(d, 1), Gmul(e, 2))
    BY <1>2, <1>3, FactorsAre
  <2>2. Gmul(a, 3) \in Byte /\ Gmul(b, 1) \in Byte /\ Gmul(d, 1) \in Byte /\ Gmul(e, 2) \in Byte
    BY <1>4
  <2> QED
    BY <2>1, <2>2, <1>5 DEF Mix
<1>14. u[c + 1] = Unmix(a, b, d, e)
  BY <1>2, <1>3, FactorsAre DEF Unmix
<1>15. u[c + 2] = Unmix(b, d, e, a)
  <2>1. u[c + 2] = Sum4(Gmul(a, 9), Gmul(b, 14), Gmul(d, 11), Gmul(e, 13))
    BY <1>2, <1>3, FactorsAre
  <2>2. Gmul(a, 9) \in Byte /\ Gmul(b, 14) \in Byte /\ Gmul(d, 11) \in Byte /\ Gmul(e, 13) \in Byte
    BY <1>4
  <2> QED
    BY <2>1, <2>2, <1>5 DEF Unmix
<1>16. u[c + 3] = Unmix(d, e, a, b)
  <2>1. u[c + 3] = Sum4(Gmul(a, 13), Gmul(b, 9), Gmul(d, 14), Gmul(e, 11))
    BY <1>2, <1>3, FactorsAre
  <2>2. Gmul(a, 13) \in Byte /\ Gmul(b, 9) \in Byte /\ Gmul(d, 14) \in Byte /\ Gmul(e, 11) \in Byte
    BY <1>4
  <2> QED
    BY <2>1, <2>2, <1>5 DEF Unmix
<1>17. u[c + 4] = Unmix(e, a, b, d)
  <2>1. u[c + 4] = Sum4(Gmul(a, 11), Gmul(b, 13), Gmul(d, 9), Gmul(e, 14))
    BY <1>2, <1>3, FactorsAre
  <2>2. Gmul(a, 11) \in Byte /\ Gmul(b, 13) \in Byte /\ Gmul(d, 9) \in Byte /\ Gmul(e, 14) \in Byte
    BY <1>4
  <2> QED
    BY <2>1, <2>2, <1>5 DEF Unmix
<1> QED
  BY <1>1, <1>10, <1>11, <1>12, <1>13, <1>14, <1>15, <1>16, <1>17 DEF a, b, d, e, m, u

(* Mixing the columns back.                                                *)
LEMMA MixColumnsBack ==
  ASSUME NEW s \in State
  PROVE  /\ MixColumns[s] \in State
         /\ InvMixColumns[MixColumns[s]] = s
<1> DEFINE m == Mixed(MixFactors, s)
           u == Mixed(UnmixFactors, m)
<1>1. m \in State
  BY FactorsAre, MixedIs
<1>2. u \in State
  <2> HIDE DEF m
  <2> QED
    BY <1>1, FactorsAre, MixedIs
<1>3. MixColumns[s] = m /\ InvMixColumns[m] = u
  BY <1>1 DEF MixColumns, InvMixColumns
<1>4. ASSUME NEW c \in {0, 4, 8, 12}
      PROVE  u[c + 1] = s[c + 1] /\ u[c + 2] = s[c + 2] /\ u[c + 3] = s[c + 3] /\ u[c + 4] = s[c + 4]
  <2> DEFINE a == s[c + 1]
             b == s[c + 2]
             d == s[c + 3]
             e == s[c + 4]
  <2>1. /\ a \in Byte /\ b \in Byte /\ d \in Byte /\ e \in Byte
        /\ m[c + 1] = Mix(a, b, d, e) /\ m[c + 2] = Mix(b, d, e, a)
        /\ m[c + 3] = Mix(d, e, a, b) /\ m[c + 4] = Mix(e, a, b, d)
    BY MixedColumn
  <2>2. /\ u[c + 1] = Unmix(m[c + 1], m[c + 2], m[c + 3], m[c + 4])
        /\ u[c + 2] = Unmix(m[c + 2], m[c + 3], m[c + 4], m[c + 1])
        /\ u[c + 3] = Unmix(m[c + 3], m[c + 4], m[c + 1], m[c + 2])
        /\ u[c + 4] = Unmix(m[c + 4], m[c + 1], m[c + 2], m[c + 3])
    <3> HIDE DEF m
    <3> QED
      BY <1>1, MixedColumn
  <2> HIDE DEF a, b, d, e, m, u
  <2>3. /\ Unmix(Mix(a, b, d, e), Mix(b, d, e, a), Mix(d, e, a, b), Mix(e, a, b, d)) = a
        /\ Unmix(Mix(b, d, e, a), Mix(d, e, a, b), Mix(e, a, b, d), Mix(a, b, d, e)) = b
        /\ Unmix(Mix(d, e, a, b), Mix(e, a, b, d), Mix(a, b, d, e), Mix(b, d, e, a)) = d
        /\ Unmix(Mix(e, a, b, d), Mix(a, b, d, e), Mix(b, d, e, a), Mix(d, e, a, b)) = e
    BY <2>1, ColumnBack
  <2>4. u[c + 1] = a /\ u[c + 2] = b /\ u[c + 3] = d /\ u[c + 4] = e
    BY <2>1, <2>2, <2>3
  <2> QED
    BY <2>4 DEF a, b, d, e
<1> HIDE DEF m, u
<1>5. ASSUME NEW i \in 1..16 PROVE u[i] = s[i]
  <2>1. \E c \in {0, 4, 8, 12} : i = c + 1 \/ i = c + 2 \/ i = c + 3 \/ i = c + 4
    OBVIOUS
  <2> QED
    BY <1>4, <2>1
<1>6. u = s
  BY <1>2, <1>5 DEF State
<1> QED
  BY <1>1, <1>3, <1>6

(* And inv_mix_columns() makes a block of any block.                       *)
LEMMA InvMixColumnsType ==
  ASSUME NEW s \in State
  PROVE  InvMixColumns[s] \in State
<1>1. Mixed(UnmixFactors, s) \in State
  BY FactorsAre, MixedIs
<1> QED
  BY <1>1 DEF InvMixColumns

(* A block is a sequence of sixteen bytes.                                 *)
LEMMA StateIs ==
  ASSUME NEW s
  PROVE  s \in State <=> s \in Seq(Byte) /\ Len(s) = 16
<1>1. 16 \in Nat
  OBVIOUS
<1> QED
  BY <1>1, BytesAre DEF State

(* add_round_key() undoes itself on blocks.                                *)
LEMMA XorState ==
  ASSUME NEW s \in State, NEW t \in State
  PROVE  XorEach(s, t) \in State /\ XorEach(XorEach(s, t), t) = s
<1>1. s \in Seq(Byte) /\ Len(s) = 16 /\ t \in Seq(Byte) /\ Len(t) = 16
  BY StateIs
<1>2. XorEach(s, t) \in Seq(Byte) /\ Len(XorEach(s, t)) = 16
  BY <1>1, XorEachIs
<1>3. XorEach(XorEach(s, t), t) = s
  BY <1>1, XorEachTwice
<1> QED
  BY <1>2, <1>3, StateIs

IsExpanded(expanded) == expanded \in Seq(Byte) /\ Len(expanded) = 176

(* The part of the expanded key for every round is a block.                *)
LEMMA RoundKeyType ==
  ASSUME NEW expanded, IsExpanded(expanded), NEW round \in 0..10
  PROVE  RoundKey(expanded, round) \in State
<1> DEFINE first == 16 * round + 1
           last == 16 * round + 16
<1>1. /\ first \in Nat /\ last \in Nat /\ 1 <= first /\ first <= last + 1 /\ last <= 176
      /\ last + 1 - first = 16
  OBVIOUS
<1>2. RoundKey(expanded, round) = SubSeq(expanded, first, last)
  BY DEF RoundKey
<1> HIDE DEF first, last
<1>3. SubSeq(expanded, first, last) \in Seq(Byte) /\ Len(SubSeq(expanded, first, last)) = last + 1 - first
  BY <1>1, PartOf DEF IsExpanded
<1> QED
  BY <1>1, <1>2, <1>3, StateIs

(* The states of a block after each of its rounds but the last.           *)
IsEncryption(done, input, expanded) ==
  /\ done[0] = XorEach(input, RoundKey(expanded, 0))
  /\ \A i \in 1..9 : done[i] = XorEach(MixColumns[SubAndShift[done[i - 1]]], RoundKey(expanded, i))
  /\ \A i \in 0..9 : done[i] \in State
  /\ EncryptBlock(input, expanded) = XorEach(SubAndShift[done[9]], RoundKey(expanded, 10))

(* The rounds of aes_encrypt_block() run through.                          *)
LEMMA EncryptionRuns ==
  ASSUME NEW input \in State, NEW expanded, IsExpanded(expanded)
  PROVE  \E done : IsEncryption(done, input, expanded)
<1> DEFINE key(round) == RoundKey(expanded, round)
           n == 9
           next(i, s) == XorEach(MixColumns[SubAndShift[s]], key(i))
           done == CHOOSE g : g = [round \in 0..9 |-> IF round = 0 THEN XorEach(input, key(0))
                                                      ELSE next(round, g[round - 1])]
           steps == [i \in 1..n |-> [s \in State |-> next(i, s)]]
<1>1. EncryptBlock(input, expanded) = XorEach(SubAndShift[done[9]], key(10))
  BY DEF EncryptBlock
<1>2. \A i \in 0..10 : key(i) \in State
  BY RoundKeyType
<1>3. \A i \in 1..n : i - 1 \in 0..n /\ i \in 0..n /\ i # 0 /\ i \in 0..10 /\ 0 \in 0..10
  OBVIOUS
<1> HIDE DEF key
<1>4. XorEach(input, key(0)) \in State
  BY <1>2, <1>3, XorState
<1>5. \A i \in 1..n, s \in State : next(i, s) \in State
  BY <1>2, <1>3, SubAndShiftBack, MixColumnsBack, XorState
<1>6. \A i \in 1..n, s \in State : steps[i][s] = next(i, s)
  OBVIOUS
<1>7. Loop(n, State, XorEach(input, key(0)), steps)
  <2>1. n \in Nat
    OBVIOUS
  <2> HIDE DEF next, n
  <2> QED
    BY <1>4, <1>5, <2>1 DEF Loop
<1> HIDE DEF steps, next, n
<1>8. PICK f : IsRun(f, n, State, XorEach(input, key(0)), steps)
  BY <1>7, Iteration
<1>9. f = [round \in 0..9 |-> IF round = 0 THEN XorEach(input, key(0)) ELSE next(round, f[round - 1])]
  <2>1. \A i \in 1..n : f[i] = next(i, f[i - 1])
    BY <1>3, <1>6, <1>8 DEF IsRun
  <2> QED
    BY <1>8, <2>1 DEF IsRun, n
<1>10. done = [round \in 0..9 |-> IF round = 0 THEN XorEach(input, key(0)) ELSE next(round, done[round - 1])]
  BY <1>9
<1> HIDE DEF done
<1>11. done[0] = XorEach(input, key(0)) /\ \A i \in 1..n : done[i] = next(i, done[i - 1])
  BY <1>3, <1>10 DEF n
<1>12. Follows(done, n, State, XorEach(input, key(0)), steps)
  BY <1>6, <1>11 DEF Follows
<1>13. \A i \in 0..n : done[i] \in State
  BY <1>7, <1>12, StaysIn
<1>14. IsEncryption(done, input, expanded)
  BY <1>1, <1>11, <1>13 DEF IsEncryption, n, next, key
<1> QED
  BY <1>14

(* aes_decrypt_block() undoes aes_encrypt_block(), for every block and     *)
(* expanded key: it goes the way back, a round at a time.                  *)
THEOREM BlockBack ==
  ASSUME NEW input \in State, NEW expanded, IsExpanded(expanded)
  PROVE  /\ EncryptBlock(input, expanded) \in State
         /\ DecryptBlock(EncryptBlock(input, expanded), expanded) = input
<1> DEFINE key(round) == RoundKey(expanded, round)
           n == 9
           next(i, s) == XorEach(MixColumns[SubAndShift[s]], key(i))
           output == EncryptBlock(input, expanded)
           before(i, s) == InvMixColumns[XorEach(InvSubAndShift[s], key(10 - i))]
           undone == CHOOSE g : g = [u \in 0..9 |-> IF u = 0 THEN XorEach(output, key(10))
                                                    ELSE before(u, g[u - 1])]
           back == [i \in 1..n |-> [s \in State |-> before(i, s)]]
<1>1. DecryptBlock(output, expanded) = XorEach(InvSubAndShift[undone[9]], key(0))
  BY DEF DecryptBlock
<1>2. \A i \in 0..10 : key(i) \in State
  BY RoundKeyType
<1>3. \A i \in 1..n : i - 1 \in 0..n /\ i \in 0..10 /\ 10 - i \in 0..10 /\ 0 \in 0..10 /\ 10 \in 0..10
  OBVIOUS
<1>4. PICK done : IsEncryption(done, input, expanded)
  BY EncryptionRuns
<1>13. /\ done[0] = XorEach(input, key(0)) /\ \A i \in 1..n : done[i] = next(i, done[i - 1])
       /\ \A i \in 0..9 : done[i] \in State
       /\ output = XorEach(SubAndShift[done[9]], key(10))
  BY <1>4 DEF IsEncryption
<1> HIDE DEF key, undone, output
<1>5. SubAndShift[done[9]] \in State /\ output \in State
  <2>1. SubAndShift[done[9]] \in State
    BY <1>13, SubAndShiftBack
  <2> QED
    BY <1>2, <1>3, <1>13, <2>1, XorState
<1>6. XorEach(output, key(10)) = SubAndShift[done[9]]
  BY <1>2, <1>3, <1>5, <1>13, XorState
<1>7. undone = [u \in 0..9 |-> IF u = 0 THEN XorEach(output, key(10)) ELSE before(u, undone[u - 1])]
  <2>1. XorEach(output, key(10)) \in State
    BY <1>5, <1>6
  <2>2. \A i \in 1..n, s \in State : before(i, s) \in State
    BY <1>2, <1>3, InvSubAndShiftType, InvMixColumnsType, XorState
  <2>3. \A i \in 1..n, s \in State : back[i][s] = before(i, s)
    OBVIOUS
  <2>4. Loop(n, State, XorEach(output, key(10)), back)
    <3>1. n \in Nat
      OBVIOUS
    <3> HIDE DEF before, n
    <3> QED
      BY <2>1, <2>2, <3>1 DEF Loop
  <2> HIDE DEF back, before, n
  <2>5. PICK f : IsRun(f, n, State, XorEach(output, key(10)), back)
    BY <2>4, Iteration
  <2>6. f = [u \in 0..9 |-> IF u = 0 THEN XorEach(output, key(10)) ELSE before(u, f[u - 1])]
    <3>1. \A i \in 1..n : f[i] = before(i, f[i - 1])
      BY <1>3, <2>3, <2>5 DEF IsRun
    <3> QED
      BY <2>5, <3>1 DEF IsRun, n
  <2> QED
    BY <2>6 DEF undone
<1> DEFINE T == {u \in 0..9 : undone[u] = SubAndShift[done[9 - u]]}
<1>8. \A u \in 0..9 : u \in T
  <2>1. 0 \in T
    <3>1. undone[0] = XorEach(output, key(10)) /\ 9 - 0 = 9
      BY <1>7
    <3> QED
      BY <1>6, <3>1
  <2>2. ASSUME NEW u \in 1..9, u - 1 \in T PROVE u \in T
    <3>1. 10 - u \in 1..9 /\ 9 - u \in 0..9 /\ (10 - u) - 1 = 9 - u /\ 9 - (u - 1) = 10 - u /\ u \in 0..9 /\ u # 0
      OBVIOUS
    <3>2. undone[u - 1] = SubAndShift[done[10 - u]]
      BY <2>2, <3>1
    <3>3. undone[u] = before(u, undone[u - 1])
      BY <1>7, <3>1
    <3>4. done[10 - u] = next(10 - u, done[9 - u])
      <4> HIDE DEF next
      <4> QED
        BY <1>13, <3>1
    <3>5. done[10 - u] \in State /\ done[9 - u] \in State /\ key(10 - u) \in State
      BY <1>2, <1>13, <3>1
    <3> DEFINE x == SubAndShift[done[9 - u]]
    <3>6. x \in State
      BY <3>5, SubAndShiftBack
    <3> HIDE DEF x
    <3>7. MixColumns[x] \in State /\ InvMixColumns[MixColumns[x]] = x
      BY <3>6, MixColumnsBack
    <3>8. done[10 - u] = XorEach(MixColumns[x], key(10 - u))
      BY <3>4 DEF x
    <3>9. XorEach(done[10 - u], key(10 - u)) = MixColumns[x]
      BY <3>5, <3>7, <3>8, XorState
    <3>10. InvSubAndShift[undone[u - 1]] = done[10 - u]
      BY <3>2, <3>5, SubAndShiftBack
    <3>11. undone[u] = x
      BY <3>3, <3>7, <3>9, <3>10
    <3> QED
      BY <3>1, <3>11 DEF x
  <2>3. 9 \in Nat
    OBVIOUS
  <2> HIDE DEF T
  <2> QED
    BY <2>1, <2>2, <2>3, UpTo
<1>9. undone[9] = SubAndShift[done[0]]
  <2>1. 9 \in 0..9 /\ 9 - 9 = 0
    OBVIOUS
  <2> QED
    BY <1>8, <2>1
<1>10. done[0] = XorEach(input, key(0)) /\ done[0] \in State
  BY <1>13
<1>11. InvSubAndShift[undone[9]] = done[0]
  BY <1>9, <1>10, SubAndShiftBack
<1>12. XorEach(done[0], key(0)) = input
  BY <1>2, <1>3, <1>10, XorState
<1> QED
  BY <1>1, <1>5, <1>11, <1>12 DEF output

----------------------------------------------------------------------------
(***************************************************************************)
(* AES: the expanded key, the chained blocks and the padding.              *)
(***************************************************************************)

(* Two words combined are a word.                                          *)
LEMMA XorWord ==
  ASSUME NEW s \in Word, NEW t \in Word
  PROVE  XorEach(s, t) \in Word
<1>1. s \in Seq(Byte) /\ Len(s) = 4 /\ t \in Seq(Byte) /\ Len(t) = 4
  BY WordIs
<1> QED
  BY <1>1, XorEachIs, WordIs

(* Every turn of the loop in key_expansion_128() makes a word.             *)
LEMMA NextWordType ==
  ASSUME NEW words \in Seq(Word), Len(words) \in 4..43
  PROVE  NextWord(words) \in Word
<1> DEFINE n == Len(words)
           last == words[n]
           rotated == <<last[2], last[3], last[4], last[1]>>
           substituted == [j \in 1..4 |-> SBox[rotated[j] + 1]]
           first == Added(substituted[1], Rcon[n \div 4])
           temp == IF n % 4 = 0
                   THEN [substituted EXCEPT ![1] = Added(@, Rcon[n \div 4])]
                   ELSE last
<1>1. NextWord(words) = XorEach(words[n - 3], temp)
  BY DEF NextWord
<1>2. n \in Nat /\ n \in 1..n /\ n - 3 \in 1..n /\ n \div 4 \in 1..10
  <2>1. \A k \in 4..43 : k \in Nat /\ k \in 1..k /\ k - 3 \in 1..k /\ k \div 4 \in 1..10
    OBVIOUS
  <2> QED
    BY <2>1
<1>3. last \in Word /\ words[n - 3] \in Word
  BY <1>2, ElementOfSeq
<1> HIDE DEF last
<1>4. \A j \in 1..4 : rotated[j] \in Byte
  <2>1. last[1] \in Byte /\ last[2] \in Byte /\ last[3] \in Byte /\ last[4] \in Byte
    BY <1>3 DEF Word
  <2> QED
    BY <2>1
<1> HIDE DEF rotated
<1>5. substituted \in Word
  BY <1>4, SubByteBack DEF Word
<1>6. Rcon[n \div 4] \in Byte
  <2>1. Rcon \in [1..10 -> Byte]
    BY DEF Rcon, Byte
  <2> QED
    BY <1>2, <2>1
<1> HIDE DEF substituted, n
<1>7. first \in Byte
  <2>1. substituted[1] \in Byte
    BY <1>5 DEF Word
  <2> QED
    BY <1>6, <2>1, AddedOn
<1>8. temp \in Word
  <2>1. [substituted EXCEPT ![1] = first] \in Word
    <3> HIDE DEF first
    <3> QED
      BY <1>5, <1>7 DEF Word
  <2> QED
    BY <1>3, <2>1
<1> HIDE DEF temp
<1> QED
  BY <1>1, <1>3, <1>8, XorWord

(* The loop of key_expansion_128(), which makes one word in each of its 40 *)
(* turns, runs through.                                                    *)
KeyWords(key) == [i \in 1..4 |-> SubSeq(key, 4 * i - 3, 4 * i)]
IsKeyRun(words, key) ==
  /\ words[0] = KeyWords(key)
  /\ \A i \in 1..40 : words[i] = Extended(words[i - 1])
  /\ \A i \in 0..40 : words[i] \in Seq(Word) /\ Len(words[i]) = i + 4

(* The loop runs through, whatever the key.                                *)
LEMMA KeyExpansionRuns ==
  ASSUME NEW key \in Seq(Byte), Len(key) = 16
  PROVE  \E words : IsKeyRun(words, key) /\ KeyExpansion(key) = Joined(4, words[40])
<1> DEFINE V == {w \in Seq(Word) : Len(w) \in 4..44}
           base == [i \in 1..4 |-> SubSeq(key, 4 * i - 3, 4 * i)]
           next(w) == IF Len(w) \in 4..43 THEN Extended(w) ELSE w
           n == 40
           step == [i \in 1..n |-> [w \in V |-> next(w)]]
           words == CHOOSE g : g = [i \in 0..40 |-> IF i = 0 THEN base ELSE Extended(g[i - 1])]
<1>1. KeyExpansion(key) = Joined(4, words[40])
  BY DEF KeyExpansion
<1>0. base = KeyWords(key)
  BY DEF KeyWords
<1>2. base \in Seq(Word) /\ Len(base) = 4
  <2>1. ASSUME NEW i \in 1..4 PROVE base[i] \in Word
    <3>1. \A j \in 1..4 : /\ 4 * j - 3 \in Nat /\ 4 * j \in Nat /\ 1 <= 4 * j - 3
                          /\ 4 * j - 3 <= 4 * j + 1 /\ 4 * j <= 16 /\ 4 * j + 1 - (4 * j - 3) = 4
      OBVIOUS
    <3> DEFINE first == 4 * i - 3
               last == 4 * i
    <3>2. base[i] = SubSeq(key, first, last)
      OBVIOUS
    <3>3. /\ first \in Nat /\ last \in Nat /\ 1 <= first /\ first <= last + 1 /\ last <= 16
          /\ last + 1 - first = 4
      BY <3>1
    <3> HIDE DEF first, last
    <3>4. SubSeq(key, first, last) \in Seq(Byte) /\ Len(SubSeq(key, first, last)) = last + 1 - first
      BY <3>3, PartOf
    <3> HIDE DEF base
    <3> QED
      BY <3>2, <3>3, <3>4, WordIs
  <2>2. base \in [1..4 -> Word]
    BY <2>1
  <2> HIDE DEF base
  <2> QED
    BY <2>2, WordsAre
<1> HIDE DEF base
<1>3. ASSUME NEW w \in Seq(Word), Len(w) \in 4..43
      PROVE  Extended(w) \in Seq(Word) /\ Len(Extended(w)) = Len(w) + 1
  <2>1. NextWord(w) \in Word
    BY <1>3, NextWordType
  <2> QED
    BY <2>1, AppendProperties DEF Extended
<1>4. \A w \in V : next(w) \in V
  <2> TAKE w \in V
  <2>1. CASE Len(w) \in 4..43
    <3>1. Extended(w) \in Seq(Word) /\ Len(Extended(w)) = Len(w) + 1
      BY <1>3, <2>1
    <3>2. \A k \in 4..43 : k + 1 \in 4..44
      OBVIOUS
    <3> QED
      BY <2>1, <3>1, <3>2
  <2>2. CASE Len(w) \notin 4..43
    BY <2>2
  <2> QED
    BY <2>1, <2>2
<1>5. base \in V /\ n \in Nat
  BY <1>2
<1>6. \A i \in 1..n, w \in V : step[i][w] = next(w)
  BY Zenon
<1>7. Loop(n, V, base, step)
  <2> HIDE DEF V, next, n
  <2> QED
    BY <1>4, <1>5 DEF Loop
<1> HIDE DEF step
<1>8. PICK f : IsRun(f, n, V, base, step)
  <2> HIDE DEF V, n
  <2> QED
    BY <1>7, Iteration
<1>9. \A i \in 0..40 : f[i] \in Seq(Word) /\ Len(f[i]) = i + 4
  <2> DEFINE T == {i \in 0..40 : f[i] \in Seq(Word) /\ Len(f[i]) = i + 4}
  <2>1. 0 \in T
    BY <1>2, <1>8 DEF IsRun
  <2>2. ASSUME NEW i \in 1..40, i - 1 \in T PROVE i \in T
    <3>1. i - 1 \in 0..n /\ i \in 1..n /\ i \in 0..40
      OBVIOUS
    <3>2. f[i - 1] \in Seq(Word) /\ Len(f[i - 1]) = (i - 1) + 4
      BY <2>2
    <3>3. (i - 1) + 4 \in 4..43 /\ (i - 1) + 4 + 1 = i + 4
      OBVIOUS
    <3>4. f[i] = next(f[i - 1])
      <4> HIDE DEF next, V
      <4> QED
        BY <1>6, <1>8, <3>1 DEF IsRun
    <3>5. f[i] = Extended(f[i - 1])
      BY <3>2, <3>3, <3>4
    <3>6. f[i] \in Seq(Word) /\ Len(f[i]) = i + 4
      BY <1>3, <3>2, <3>3, <3>5
    <3> QED
      BY <3>1, <3>6
  <2>3. 40 \in Nat
    OBVIOUS
  <2> HIDE DEF T
  <2>4. \A i \in 0..40 : i \in T
    BY <2>1, <2>2, <2>3, UpTo
  <2> QED
    BY <2>4 DEF T
<1>10. f = [i \in 0..40 |-> IF i = 0 THEN base ELSE Extended(f[i - 1])]
  <2>1. ASSUME NEW i \in 1..40 PROVE f[i] = Extended(f[i - 1])
    <3>1. i - 1 \in 0..n /\ i \in 1..n /\ i - 1 \in 0..40
      OBVIOUS
    <3>2. Len(f[i - 1]) \in 4..43
      <4>1. (i - 1) + 4 \in 4..43
        OBVIOUS
      <4> QED
        BY <1>9, <3>1, <4>1
    <3>3. f[i] = next(f[i - 1])
      <4> HIDE DEF next, V
      <4> QED
        BY <1>6, <1>8, <3>1, Zenon DEF IsRun
    <3> QED
      BY <3>2, <3>3
  <2> QED
    BY <1>8, <2>1, SMTT(30) DEF IsRun
<1>11. words = [i \in 0..40 |-> IF i = 0 THEN base ELSE Extended(words[i - 1])]
  BY <1>10, Zenon
<1> HIDE DEF words
<1>12. \A i \in 0..40 : words[i] = f[i]
  <2> DEFINE T == {i \in 0..40 : words[i] = f[i]}
  <2>1. 0 \in T
    BY <1>10, <1>11
  <2>2. ASSUME NEW i \in 1..40, i - 1 \in T PROVE i \in T
    <3>1. i - 1 \in 0..40 /\ i \in 0..40 /\ i # 0
      OBVIOUS
    <3>2. words[i - 1] = f[i - 1]
      BY <2>2
    <3>3. words[i] = Extended(words[i - 1]) /\ f[i] = Extended(f[i - 1])
      BY <1>10, <1>11, <3>1
    <3> QED
      BY <3>1, <3>2, <3>3
  <2>3. 40 \in Nat
    OBVIOUS
  <2> HIDE DEF T
  <2>4. \A i \in 0..40 : i \in T
    BY <2>1, <2>2, <2>3, UpTo
  <2> QED
    BY <2>4 DEF T
<1>13. IsKeyRun(words, key)
  <2>1. ASSUME NEW i \in 0..40 PROVE words[i] \in Seq(Word) /\ Len(words[i]) = i + 4
    BY <1>9, <1>12
  <2>2. words[0] = base
    BY <1>11
  <2>3. ASSUME NEW i \in 1..40 PROVE words[i] = Extended(words[i - 1])
    <3>1. i \in 0..40 /\ i # 0
      OBVIOUS
    <3> QED
      BY <1>11, <3>1
  <2> QED
    BY <1>0, <2>1, <2>2, <2>3 DEF IsKeyRun
<1> QED
  BY <1>1, <1>13

(* key_expansion_128() writes 176 bytes, whatever the key.                 *)
LEMMA KeyExpansionType ==
  ASSUME NEW key \in Seq(Byte), Len(key) = 16
  PROVE  IsExpanded(KeyExpansion(key))
<1>1. PICK words : IsKeyRun(words, key) /\ KeyExpansion(key) = Joined(4, words[40])
  BY KeyExpansionRuns
<1> DEFINE w == words[40]
<1>2. w \in Seq(Word) /\ Len(w) = 44
  <2>1. 40 \in 0..40 /\ 40 + 4 = 44
    OBVIOUS
  <2> QED
    BY <1>1, <2>1 DEF IsKeyRun
<1>3. KeyExpansion(key) = Joined(4, w)
  BY <1>1
<1> HIDE DEF w
<1>4. \A i \in 1..Len(w) : w[i] \in Seq(Byte) /\ Len(w[i]) = 4
  BY <1>2, ElementOfSeq, WordIs
<1>5. w \in Seq(Seq(Byte))
  <2>1. w \in [1..44 -> Word] /\ 44 \in Nat
    BY <1>2, ElementOfSeq, SeqDef, LenProperties
  <2> QED
    BY <2>1, WordsAre
<1>6. Joined(4, w) \in Seq(Byte) /\ Len(Joined(4, w)) = 4 * 44
  <2>1. 4 \in {4, 16, 64}
    OBVIOUS
  <2>2. Joined(4, w) \in Seq(Byte) /\ Len(Joined(4, w)) = 4 * Len(w)
    BY <1>4, <1>5, <2>1, JoinedIs, ZenonT(30)
  <2> QED
    BY <1>2, <2>2
<1> QED
  BY <1>3, <1>6 DEF IsExpanded

(* What each block has become, one after the other.                        *)
IsChain(cipher, blocks, iv, expanded) ==
  /\ cipher[0] = iv
  /\ \A i \in 1..Len(blocks) : cipher[i] = EncryptBlock(XorEach(blocks[i], cipher[i - 1]), expanded)
  /\ \A i \in 0..Len(blocks) : cipher[i] \in State
  /\ Chained(blocks, iv, expanded) = [i \in 1..Len(blocks) |-> cipher[i]]

(* The chaining of aes_encrypt() runs through the blocks.                  *)
LEMMA ChainRuns ==
  ASSUME NEW blocks \in Seq(State), NEW iv \in State, NEW expanded, IsExpanded(expanded)
  PROVE  \E cipher : IsChain(cipher, blocks, iv, expanded)
<1> DEFINE n == Len(blocks)
           next(i, s) == EncryptBlock(XorEach(blocks[i], s), expanded)
           cipher == CHOOSE g : g = [i \in 0..n |-> IF i = 0 THEN iv ELSE next(i, g[i - 1])]
           step == [i \in 1..n |-> [s \in State |-> next(i, s)]]
<1>1. n \in Nat /\ \A i \in 1..n : i - 1 \in 0..n /\ i \in 0..n /\ i # 0
  BY LenProperties
<1>2. Chained(blocks, iv, expanded) = [i \in 1..n |-> cipher[i]]
  BY DEF Chained
<1>3. \A i \in 1..n : blocks[i] \in State
  BY ElementOfSeq
<1>4. \A i \in 1..n, s \in State : next(i, s) \in State
  BY <1>3, XorState, BlockBack
<1>5. \A i \in 1..n, s \in State : step[i][s] = next(i, s)
  OBVIOUS
<1>6. Loop(n, State, iv, step)
  <2> HIDE DEF next, n
  <2> QED
    BY <1>1, <1>4 DEF Loop
<1> HIDE DEF step, next, n, cipher
<1>7. PICK f : IsRun(f, n, State, iv, step)
  BY <1>6, Iteration
<1>8. f = [i \in 0..n |-> IF i = 0 THEN iv ELSE next(i, f[i - 1])]
  <2>1. \A i \in 1..n : f[i] = next(i, f[i - 1])
    BY <1>1, <1>5, <1>7 DEF IsRun
  <2> QED
    BY <1>7, <2>1 DEF IsRun
<1>9. cipher = [i \in 0..n |-> IF i = 0 THEN iv ELSE next(i, cipher[i - 1])]
  BY <1>8 DEF cipher
<1>10. cipher[0] = iv /\ \A i \in 1..n : cipher[i] = next(i, cipher[i - 1])
  BY <1>1, <1>9
<1>11. Follows(cipher, n, State, iv, step)
  BY <1>5, <1>10 DEF Follows
<1>12. \A i \in 0..n : cipher[i] \in State
  BY <1>6, <1>11, StaysIn
<1>13. IsChain(cipher, blocks, iv, expanded)
  BY <1>2, <1>10, <1>12 DEF IsChain, n, next
<1> QED
  BY <1>13

(* Each block is combined with what was written before it, and is found    *)
(* again by combining with that.                                           *)
LEMMA ChainedBack ==
  ASSUME NEW blocks \in Seq(State), NEW iv \in State, NEW expanded, IsExpanded(expanded)
  PROVE  /\ Chained(blocks, iv, expanded) \in Seq(State)
         /\ Len(Chained(blocks, iv, expanded)) = Len(blocks)
         /\ Unchained(Chained(blocks, iv, expanded), iv, expanded) = blocks
<1> DEFINE n == Len(blocks)
           next(i, s) == EncryptBlock(XorEach(blocks[i], s), expanded)
<1>1. n \in Nat /\ \A i \in 1..n : i - 1 \in 0..n /\ i \in 0..n /\ i # 0
  BY LenProperties
<1>3. \A i \in 1..n : blocks[i] \in State
  BY ElementOfSeq
<1>4. PICK cipher : IsChain(cipher, blocks, iv, expanded)
  BY ChainRuns
<1> DEFINE done == [i \in 1..n |-> cipher[i]]
<1>2. Chained(blocks, iv, expanded) = done
  BY <1>4 DEF IsChain
<1>7. /\ cipher[0] = iv /\ \A i \in 1..n : cipher[i] = next(i, cipher[i - 1])
      /\ \A i \in 0..n : cipher[i] \in State
  BY <1>4 DEF IsChain
<1>8. done \in Seq(State) /\ Len(done) = n
  <2>1. done \in [1..n -> State]
    BY <1>1, <1>7
  <2> HIDE DEF done, n
  <2> QED
    BY <1>1, <2>1, AllOf
<1> DEFINE before == <<iv>> \o done
<1>9. \A i \in 1..n : before[i] = cipher[i - 1]
  <2>1. <<iv>> \in Seq(State) /\ Len(<<iv>>) = 1 /\ <<iv>>[1] = iv
    OBVIOUS
  <2>2. \A i \in 1..(1 + n) : before[i] = IF i <= 1 THEN <<iv>>[i] ELSE done[i - 1]
    <3> HIDE DEF done
    <3>1. \A i \in 1..(Len(<<iv>>) + Len(done)) :
             before[i] = IF i <= Len(<<iv>>) THEN <<iv>>[i] ELSE done[i - Len(<<iv>>)]
      BY <1>8, <2>1, ConcatProperties
    <3> HIDE DEF before, n
    <3> QED
      BY <1>8, <2>1, <3>1
  <2>3. TAKE i \in 1..n
  <2>4. CASE i = 1
    <3>1. 1 \in 1..(1 + n) /\ 1 <= 1 /\ 1 - 1 = 0 /\ 0 \in 0..n
      BY <1>1
    <3>2. before[1] = iv
      <4> HIDE DEF before, done, n
      <4> QED
        BY <2>1, <2>2, <3>1
    <3>3. cipher[0] = iv
      BY <1>7, <3>1
    <3> HIDE DEF before, n
    <3> QED
      BY <2>4, <3>1, <3>2, <3>3
  <2>5. CASE i # 1
    <3>1. i \in 1..(1 + n) /\ ~(i <= 1) /\ i - 1 \in 1..n
      BY <1>1, <2>5
    <3>2. before[i] = done[i - 1]
      <4> HIDE DEF before, done, n
      <4> QED
        BY <2>2, <3>1
    <3> HIDE DEF before, n
    <3> QED
      BY <3>1, <3>2
  <2> QED
    BY <2>4, <2>5
<1>10. \A i \in 1..n : XorEach(DecryptBlock(done[i], expanded), before[i]) = blocks[i]
  <2> TAKE i \in 1..n
  <2>1. done[i] = cipher[i] /\ before[i] = cipher[i - 1] /\ cipher[i - 1] \in State /\ blocks[i] \in State
    BY <1>1, <1>3, <1>7, <1>9
  <2>2. cipher[i] = next(i, cipher[i - 1])
    <3> HIDE DEF next
    <3> QED
      BY <1>1, <1>7
  <2> HIDE DEF before, done, n
  <2>3. /\ XorEach(blocks[i], cipher[i - 1]) \in State
        /\ XorEach(XorEach(blocks[i], cipher[i - 1]), cipher[i - 1]) = blocks[i]
    BY <2>1, XorState
  <2>4. DecryptBlock(cipher[i], expanded) = XorEach(blocks[i], cipher[i - 1])
    BY <2>2, <2>3, BlockBack
  <2> QED
    BY <2>1, <2>3, <2>4
<1>11. Unchained(done, iv, expanded) = [i \in 1..n |-> blocks[i]]
  <2> DEFINE undone == [i \in 1..Len(done) |-> XorEach(DecryptBlock(done[i], expanded), before[i])]
  <2>1. Unchained(done, iv, expanded) = undone
    BY DEF Unchained
  <2> HIDE DEF before, done, n
  <2>2. undone = [i \in 1..n |-> blocks[i]]
    BY <1>8, <1>10
  <2> QED
    BY <2>1, <2>2
<1>12. [i \in 1..n |-> blocks[i]] = blocks
  BY SeqDef, LenProperties
<1> QED
  BY <1>2, <1>8, <1>11, <1>12

(* Blocks are sequences of sixteen bytes each.                             *)
LEMMA StatesAre ==
  ASSUME NEW blocks \in Seq(State)
  PROVE  blocks \in Seq(Seq(Byte)) /\ \A i \in 1..Len(blocks) : blocks[i] \in Seq(Byte) /\ Len(blocks[i]) = 16
<1>1. \A i \in 1..Len(blocks) : blocks[i] \in Seq(Byte) /\ Len(blocks[i]) = 16
  BY ElementOfSeq, StateIs
<1>2. blocks = [i \in 1..Len(blocks) |-> blocks[i]] /\ Len(blocks) \in Nat
  BY SeqDef, LenProperties
<1>3. blocks \in [1..Len(blocks) -> Seq(Byte)]
  BY <1>1, <1>2
<1> QED
  BY <1>1, <1>2, <1>3, AllOf

(* Blocks that were joined are cut where they met.                         *)
LEMMA JoinedCut ==
  ASSUME NEW blocks \in Seq(State)
  PROVE  /\ Joined(16, blocks) \in Seq(Byte)
         /\ Len(Joined(16, blocks)) = 16 * Len(blocks)
         /\ Blocks(Joined(16, blocks)) = blocks
<1> DEFINE n == Len(blocks)
           s == Joined(16, blocks)
<1>1. n \in Nat
  BY LenProperties
<1>2. /\ s \in Seq(Byte) /\ Len(s) = 16 * n
      /\ \A k \in 1..(16 * n) : s[k] = blocks[((k - 1) \div 16) + 1][((k - 1) % 16) + 1]
  BY StatesAre, JoinedIs, SMTT(30)
<1> HIDE DEF s
<1>3. Len(s) \div 16 = n
  <2> HIDE DEF n
  <2> QED
    BY <1>1, <1>2
<1>4. ASSUME NEW i \in 1..n PROVE SubSeq(s, 16 * i - 15, 16 * i) = blocks[i]
  <2> DEFINE first == 16 * i - 15
             last == 16 * i
             part == SubSeq(s, first, last)
             At(k, j) == /\ k \in 1..(16 * n)
                         /\ ((k - 1) \div 16) + 1 = i
                         /\ ((k - 1) % 16) + 1 = j
  <2>1. /\ first \in Nat /\ last \in Nat /\ 1 <= first /\ first <= last + 1 /\ last <= Len(s)
        /\ last + 1 - first = 16
    <3> HIDE DEF n
    <3> QED
      BY <1>1, <1>2
  <2>2. \A j \in 1..16 : At(first + j - 1, j)
    <3> HIDE DEF n
    <3>1. \A c \in Nat, r \in 0..15 : (16 * c + r) \div 16 = c /\ (16 * c + r) % 16 = r
      OBVIOUS
    <3> TAKE j \in 1..16
    <3> DEFINE k == first + j - 1
    <3>2. k \in 1..(16 * n) /\ k - 1 = 16 * (i - 1) + (j - 1)
      BY <1>1
    <3>3. i - 1 \in Nat /\ j - 1 \in 0..15 /\ (i - 1) + 1 = i /\ (j - 1) + 1 = j
      BY <1>1
    <3> HIDE DEF k, first
    <3>4. (k - 1) \div 16 = i - 1 /\ (k - 1) % 16 = j - 1
      BY <3>1, <3>2, <3>3
    <3>5. At(k, j)
      BY <3>2, <3>3, <3>4
    <3> QED
      BY <3>5 DEF k
  <2> HIDE DEF first, last
  <2>3. /\ part \in Seq(Byte) /\ Len(part) = 16
        /\ \A j \in 1..16 : part[j] = s[first + j - 1]
    BY <1>2, <2>1, PartOf
  <2> HIDE DEF part
  <2>4. blocks[i] \in Seq(Byte) /\ Len(blocks[i]) = 16
    BY StatesAre
  <2>5. \A j \in 1..16 : part[j] = blocks[i][j]
    <3> TAKE j \in 1..16
    <3> DEFINE k == first + j - 1
    <3>0. At(k, j)
      <4> HIDE DEF At
      <4> QED
        BY <2>2
    <3>1. k \in 1..(16 * n) /\ ((k - 1) \div 16) + 1 = i /\ ((k - 1) % 16) + 1 = j
      <4> HIDE DEF k, n
      <4> QED
        BY <3>0
    <3>2. part[j] = s[k]
      BY <2>3
    <3> HIDE DEF k, n
    <3>3. s[k] = blocks[((k - 1) \div 16) + 1][((k - 1) % 16) + 1]
      BY <1>2, <3>1
    <3> QED
      BY <3>1, <3>2, <3>3
  <2>6. part = blocks[i]
    BY <2>3, <2>4, <2>5, SeqEqual
  <2> QED
    BY <2>6 DEF part, first, last
<1>5. Blocks(s) = [i \in 1..n |-> blocks[i]]
  <2> HIDE DEF n
  <2> QED
    BY <1>3, <1>4 DEF Blocks
<1>6. [i \in 1..n |-> blocks[i]] = blocks
  BY SeqDef, LenProperties
<1> QED
  BY <1>2, <1>5, <1>6 DEF s

(* Whole blocks are cut and joined again.                                  *)
LEMMA CutJoined ==
  ASSUME NEW s \in Seq(Byte), NEW n \in Nat, Len(s) = 16 * n
  PROVE  /\ Blocks(s) \in Seq(State)
         /\ Len(Blocks(s)) = n
         /\ Joined(16, Blocks(s)) = s
<1> DEFINE blocks == Blocks(s)
<1>1. Len(s) \div 16 = n
  OBVIOUS
<1>2. blocks = [i \in 1..n |-> SubSeq(s, 16 * i - 15, 16 * i)]
  BY <1>1 DEF Blocks
<1>3. ASSUME NEW i \in 1..n
      PROVE  /\ blocks[i] \in State
             /\ \A j \in 1..16 : blocks[i][j] = s[16 * i - 15 + j - 1]
  <2> DEFINE first == 16 * i - 15
             last == 16 * i
             part == SubSeq(s, first, last)
  <2>1. /\ first \in Nat /\ last \in Nat /\ 1 <= first /\ first <= last + 1 /\ last <= Len(s)
        /\ last + 1 - first = 16
    OBVIOUS
  <2>2. blocks[i] = part
    <3> HIDE DEF blocks
    <3> QED
      BY <1>2
  <2> HIDE DEF first, last
  <2>3. /\ part \in Seq(Byte) /\ Len(part) = 16
        /\ \A j \in 1..16 : part[j] = s[first + j - 1]
    BY <2>1, PartOf
  <2> HIDE DEF part, blocks
  <2>4. part \in State
    BY <2>3, StateIs
  <2> QED
    BY <2>2, <2>3, <2>4 DEF first
<1> HIDE DEF blocks
<1>4. blocks \in Seq(State) /\ Len(blocks) = n
  <2>1. blocks \in [1..n -> State]
    BY <1>2, <1>3
  <2> QED
    BY <2>1, AllOf
<1>5. /\ Joined(16, blocks) \in Seq(Byte) /\ Len(Joined(16, blocks)) = 16 * n
      /\ \A k \in 1..(16 * n) :
            /\ ((k - 1) \div 16) + 1 \in 1..n
            /\ ((k - 1) % 16) + 1 \in 1..16
            /\ Joined(16, blocks)[k] = blocks[((k - 1) \div 16) + 1][((k - 1) % 16) + 1]
  BY <1>4, StatesAre, JoinedIs, Zenon
<1> DEFINE all == Joined(16, blocks)
<1>6. \A k \in 1..(16 * n) : all[k] = s[k]
  <2> HIDE DEF all
  <2> TAKE k \in 1..(16 * n)
  <2> DEFINE i == ((k - 1) \div 16) + 1
             j == ((k - 1) % 16) + 1
  <2>1. i \in 1..n /\ j \in 1..16 /\ all[k] = blocks[i][j]
    BY <1>5 DEF all
  <2>2. 16 * i - 15 + j - 1 = k
    <3>1. \A x \in Int : x = 16 * (x \div 16) + (x % 16)
      OBVIOUS
    <3>2. k - 1 \in Int /\ k \in Int
      OBVIOUS
    <3> DEFINE q == (k - 1) \div 16
               r == (k - 1) % 16
    <3>3. k - 1 = 16 * q + r /\ q \in Int /\ r \in Int
      BY <3>1, <3>2
    <3>4. i = q + 1 /\ j = r + 1
      OBVIOUS
    <3> HIDE DEF q, r, i, j
    <3> QED
      BY <3>2, <3>3, <3>4
  <2> HIDE DEF i, j
  <2>3. blocks[i][j] = s[16 * i - 15 + j - 1]
    BY <1>3, <2>1
  <2> QED
    BY <2>1, <2>2, <2>3
<1>7. all = s
  <2>1. all \in Seq(Byte) /\ Len(all) = 16 * n
    BY <1>5
  <2> HIDE DEF all
  <2> QED
    BY <1>6, <2>1, SeqEqual
<1> QED
  BY <1>4, <1>7 DEF blocks

(* The padding makes whole blocks, and is taken off again whatever the     *)
(* text ends with.                                                         *)
LEMMA PaddedBack ==
  ASSUME NEW text \in Seq(Byte)
  PROVE  /\ Padded(text) \in Seq(Byte)
         /\ \E n \in Nat : /\ Len(Padded(text)) = 16 * n
                           /\ n # 0
                           /\ text = <<>> => n = 1
         /\ Unpadded(Padded(text)) = text
<1> DEFINE len == Len(text)
           n == PaddingLen(len)
           padding == [i \in 1..n |-> n]
           padded == text \o padding
<1>1. len \in Nat
  BY LenProperties
<1>2. n \in 1..16 /\ n \in Byte /\ n \in Nat /\ n = 16 - (len % 16)
  BY <1>1, SMTT(30) DEF PaddingLen, Byte
<1>3. \E c \in Nat : len + n = 16 * c /\ c # 0 /\ (len = 0 => c = 1)
  <2> DEFINE q == len \div 16
             r == len % 16
  <2>1. q \in Nat /\ r \in 0..15 /\ len = 16 * q + r
    BY <1>1
  <2>2. n = 16 - r
    BY <1>2
  <2> HIDE DEF q, r, n, len
  <2>3. len + n = 16 * (q + 1) /\ q + 1 \in Nat /\ q + 1 # 0 /\ (len = 0 => q + 1 = 1)
    BY <2>1, <2>2
  <2> QED
    BY <2>3
<1>4. Padded(text) = padded
  BY DEF Padded
<1> HIDE DEF n
<1>5. padding \in Seq(Byte) /\ Len(padding) = n /\ \A i \in 1..n : padding[i] = n
  <2>1. padding \in [1..n -> Byte] /\ \A i \in 1..n : padding[i] = n
    BY <1>2
  <2> HIDE DEF padding
  <2> QED
    BY <1>2, <2>1, AllOf
<1> HIDE DEF padding, len
<1>6. /\ padded \in Seq(Byte)
      /\ Len(padded) = len + n
      /\ \A i \in 1..(len + n) : padded[i] = IF i <= len THEN text[i] ELSE padding[i - len]
  <2>1. /\ padded \in Seq(Byte)
        /\ Len(padded) = Len(text) + Len(padding)
        /\ \A i \in 1..(Len(text) + Len(padding)) :
              padded[i] = IF i <= Len(text) THEN text[i] ELSE padding[i - Len(text)]
    BY <1>5, ConcatProperties
  <2> HIDE DEF padded
  <2> QED
    BY <1>5, <2>1 DEF len
<1> HIDE DEF padded
<1>7. \A i \in (len + 1)..(len + n) : padded[i] = n
  <2>1. \A i \in (len + 1)..(len + n) : i \in 1..(len + n) /\ ~(i <= len) /\ i - len \in 1..n
    BY <1>1, <1>2
  <2> QED
    BY <1>5, <1>6, <2>1
<1>8. Last(padded) = n
  <2>1. len + n \in (len + 1)..(len + n)
    BY <1>1, <1>2
  <2> QED
    BY <1>6, <1>7, <2>1 DEF Last
<1>9. \A i \in 0..(n - 1) : padded[Len(padded) - i] = n
  <2>1. \A i \in 0..(n - 1) : Len(padded) - i \in (len + 1)..(len + n)
    BY <1>1, <1>2, <1>6
  <2> QED
    BY <1>7, <2>1
<1>10. Unpadded(padded) = SubSeq(padded, 1, Len(padded) - n)
  BY <1>2, <1>8, <1>9 DEF Unpadded
<1>11. SubSeq(padded, 1, len) = text
  <2>1. /\ 1 \in Nat /\ len \in Nat /\ 1 <= 1 /\ 1 <= len + 1 /\ len <= Len(padded)
        /\ len + 1 - 1 = len
    BY <1>1, <1>2, <1>6
  <2> DEFINE part == SubSeq(padded, 1, len)
  <2>2. /\ part \in Seq(Byte) /\ Len(part) = len
        /\ \A i \in 1..len : part[i] = padded[1 + i - 1]
    BY <1>6, <2>1, PartOf
  <2> HIDE DEF part
  <2>3. \A i \in 1..len : part[i] = text[i]
    <3>1. \A i \in 1..len : 1 + i - 1 = i /\ i \in 1..(len + n) /\ i <= len
      BY <1>1, <1>2
    <3> QED
      BY <1>6, <2>2, <3>1
  <2>4. part = text
    BY <2>2, <2>3, SeqEqual DEF len
  <2> QED
    BY <2>4 DEF part
<1>12. Len(padded) - n = len
  BY <1>1, <1>2, <1>6
<1>13. text = <<>> => len = 0
  BY DEF len
<1> QED
  BY <1>3, <1>4, <1>6, <1>10, <1>11, <1>12, <1>13

(* aes_decrypt() gives back what aes_encrypt() was given, for every key and *)
(* text: one of no bytes, one of whole blocks and one that ends like       *)
(* padding included.                                                       *)
THEOREM AesOpens ==
  ASSUME NEW text \in Seq(Byte), NEW key \in Seq(Byte), AesEncrypt(text, key).code = "OK"
  PROVE  LET sealed == AesEncrypt(text, key).text
         IN  sealed \in Seq(Byte) /\ AesDecrypt(sealed, key) = Succeeded(text)
<1> DEFINE expanded == KeyExpansion(SubSeq(key, 1, 16))
           iv == SubSeq(key, 17, 32)
           plain == Blocks(Padded(text))
           chained == Chained(plain, iv, expanded)
           sealed == Joined(16, chained)
<1>1. Len(key) = 32
  BY DEF AesEncrypt, Failed
<1>2. AesEncrypt(text, key) = Succeeded(sealed)
  BY <1>1 DEF AesEncrypt
<1>3. iv \in State
  <2>1. 17 \in Nat /\ 32 \in Nat /\ 17 <= 32 + 1 /\ 1 <= 17 /\ 32 <= Len(key) /\ 32 + 1 - 17 = 16
    BY <1>1
  <2>2. iv \in Seq(Byte) /\ Len(iv) = 16
    BY <2>1, PartOf
  <2> HIDE DEF iv
  <2> QED
    BY <2>2, StateIs
<1>4. IsExpanded(expanded)
  <2>1. 1 \in Nat /\ 16 \in Nat /\ 1 <= 16 + 1 /\ 1 <= 1 /\ 16 <= Len(key) /\ 16 + 1 - 1 = 16
    BY <1>1
  <2>2. SubSeq(key, 1, 16) \in Seq(Byte) /\ Len(SubSeq(key, 1, 16)) = 16
    BY <2>1, PartOf
  <2> QED
    BY <2>2, KeyExpansionType
<1> HIDE DEF iv, expanded
<1>5. PICK n \in Nat : Len(Padded(text)) = 16 * n /\ n # 0 /\ (text = <<>> => n = 1)
  BY PaddedBack
<1>6. plain \in Seq(State) /\ Len(plain) = n /\ Joined(16, plain) = Padded(text)
  BY <1>5, PaddedBack, CutJoined
<1> HIDE DEF plain
<1>7. /\ chained \in Seq(State) /\ Len(chained) = n
      /\ Unchained(chained, iv, expanded) = plain
  BY <1>3, <1>4, <1>6, ChainedBack
<1> HIDE DEF chained
<1>8. sealed \in Seq(Byte) /\ Len(sealed) = 16 * n /\ Blocks(sealed) = chained
  BY <1>7, JoinedCut
<1> HIDE DEF sealed
<1>9. sealed # <<>> /\ Len(sealed) % 16 = 0 /\ (text = <<>> => Len(sealed) = 16)
  <2>1. \A m \in Nat : (16 * m) % 16 = 0
    OBVIOUS
  <2>2. sealed # <<>>
    BY <1>5, <1>8
  <2> QED
    BY <1>5, <1>8, <2>1, <2>2
<1>10. Unpadded(Joined(16, Unchained(Blocks(sealed), iv, expanded))) = text
  BY <1>6, <1>7, <1>8, PaddedBack
<1>11. AesDecrypt(sealed, key) = Succeeded(text)
  BY <1>1, <1>9, <1>10 DEF AesDecrypt, iv, expanded
<1>12. Succeeded(sealed).text = sealed
  BY DEF Succeeded
<1> QED
  BY <1>2, <1>8, <1>11, <1>12

----------------------------------------------------------------------------
(***************************************************************************)
(* ChaCha20 is RFC 8439's. The code works on words of four bytes, in       *)
(* place, at the places that a table has; the RFC on columns and diagonals *)
(* of a square of numbers, here pairs of halves. Each operation, quarter   *)
(* round, double round, block and counter of the one is that of the other. *)
(***************************************************************************)

(* add: each byte of a sum takes the carry from the one below.             *)
LEMMA PlusIs ==
  ASSUME NEW a \in Word, NEW b \in Word
  PROVE  LET c1 == (a[1] + b[1]) \div 256
             c2 == (a[2] + b[2] + c1) \div 256
             c3 == (a[3] + b[3] + c2) \div 256
         IN  /\ Plus(a, b)[1] = (a[1] + b[1]) % 256
             /\ Plus(a, b)[2] = (a[2] + b[2] + c1) % 256
             /\ Plus(a, b)[3] = (a[3] + b[3] + c2) % 256
             /\ Plus(a, b)[4] = (a[4] + b[4] + c3) % 256
<1> DEFINE carry == CHOOSE g : g = [i \in 0..4 |-> IF i = 0 THEN 0 ELSE (a[i] + b[i] + g[i - 1]) \div 256]
           n == 4
           step == [i \in 1..n |-> [c \in Nat |-> (a[i] + b[i] + c) \div 256]]
<1>0. \A x, y \in Byte, c \in Nat : (x + y + c) \div 256 \in Nat /\ (x + y + c) % 256 \in Byte
  BY DEF Byte
<1>1. \A i \in 1..4 : a[i] \in Byte /\ b[i] \in Byte
  BY DEF Word
<1>2. step \in [1..n -> [Nat -> Nat]] /\ n \in Nat /\ 0 \in Nat
  BY <1>0, <1>1
<1>3. \A i \in 1..4, c \in Nat : step[i][c] = (a[i] + b[i] + c) \div 256
  OBVIOUS
<1>4. Loop(n, Nat, 0, step) /\ \E f : IsRun(f, n, Nat, 0, step)
  <2>1. Loop(n, Nat, 0, step)
    BY <1>2 DEF Loop
  <2> HIDE DEF step, n
  <2> QED
    BY <2>1, Iteration
<1>20. PICK f : IsRun(f, n, Nat, 0, step)
  BY <1>4
<1> HIDE DEF step, n
<1>5. f = [i \in 0..4 |-> IF i = 0 THEN 0 ELSE (a[i] + b[i] + f[i - 1]) \div 256]
  <2>1. \A i \in 1..4 : f[i] = (a[i] + b[i] + f[i - 1]) \div 256
    BY <1>3, <1>20 DEF IsRun, n
  <2> QED
    BY <1>20, <2>1 DEF IsRun, n
<1>6. carry = [i \in 0..4 |-> IF i = 0 THEN 0 ELSE (a[i] + b[i] + carry[i - 1]) \div 256]
  BY <1>5
<1> DEFINE s == [i \in 1..4 |-> (a[i] + b[i] + carry[i - 1]) % 256]
<1>7. Plus(a, b) = SubSeq(s, 1, 4)
  BY DEF Plus
<1> HIDE DEF carry
<1>8. Follows(carry, n, Nat, 0, step)
  BY <1>3, <1>6 DEF Follows, n
<1>9. \A i \in 0..4 : carry[i] \in Nat
  BY <1>4, <1>8, StaysIn DEF n
<1>10. s \in [1..4 -> Byte]
  <2>1. \A i \in 1..4 : i - 1 \in 0..4
    OBVIOUS
  <2>2. \A i \in 1..4 : carry[i - 1] \in Nat
    BY <1>9, <2>1
  <2>3. \A i \in 1..4 : (a[i] + b[i] + carry[i - 1]) % 256 \in Byte
    BY <1>0, <1>1, <2>2
  <2> QED
    BY <2>3
<1>11. SubSeq(s, 1, 4) = s
  <2> HIDE DEF s
  <2> QED
    BY <1>10, AllOf
<1>12. \A i \in 1..4 : Plus(a, b)[i] = (a[i] + b[i] + carry[i - 1]) % 256
  BY <1>7, <1>11
<1>13. /\ carry[0] = 0
       /\ carry[1] = (a[1] + b[1] + carry[0]) \div 256
       /\ carry[2] = (a[2] + b[2] + carry[1]) \div 256
       /\ carry[3] = (a[3] + b[3] + carry[2]) \div 256
  BY <1>6
<1>14. a[1] + b[1] + 0 = a[1] + b[1]
  <2>1. \A x, y \in Nat : x + y + 0 = x + y
    OBVIOUS
  <2>2. a[1] \in Nat /\ b[1] \in Nat
    BY <1>1 DEF Byte
  <2> QED
    BY <2>1, <2>2
<1>15. 1 - 1 = 0 /\ 2 - 1 = 1 /\ 3 - 1 = 2 /\ 4 - 1 = 3
  OBVIOUS
<1>16. /\ Plus(a, b)[1] = (a[1] + b[1] + carry[0]) % 256
       /\ Plus(a, b)[2] = (a[2] + b[2] + carry[1]) % 256
       /\ Plus(a, b)[3] = (a[3] + b[3] + carry[2]) % 256
       /\ Plus(a, b)[4] = (a[4] + b[4] + carry[3]) % 256
  BY <1>12, <1>15
<1> QED
  BY <1>13, <1>14, <1>16

(* Halves of words.                                                        *)
HalfRange == {n \in Nat : n < 65536}

(* The two halves of a word, from its bytes, and back.                     *)
LEMMA HalvesType ==
  ASSUME NEW w \in Word
  PROVE  /\ HalvesOf(w)[1] \in HalfRange /\ HalvesOf(w)[2] \in HalfRange
         /\ HalvesOf(w) = <<w[1] + 256 * w[2], w[3] + 256 * w[4]>>
         /\ HalvesOf(w) \in [1..2 -> HalfRange]
         /\ BytesOf(HalvesOf(w)) = w
<1>1. w[1] \in Byte /\ w[2] \in Byte /\ w[3] \in Byte /\ w[4] \in Byte
  BY DEF Word
<1>2. HalvesOf(w) = <<w[1] + 256 * w[2], w[3] + 256 * w[4]>>
  BY DEF HalvesOf
<1>3. w[1] + 256 * w[2] \in HalfRange /\ w[3] + 256 * w[4] \in HalfRange
  <2>1. \A x, y \in Byte : x + 256 * y \in HalfRange
    BY DEF Byte, HalfRange
  <2> QED
    BY <1>1, <2>1
<1>4. \A x, y \in Byte : (x + 256 * y) % 256 = x /\ (x + 256 * y) \div 256 = y
  BY DEF Byte
<1>5. BytesOf(HalvesOf(w)) = <<w[1], w[2], w[3], w[4]>>
  BY <1>1, <1>2, <1>4 DEF BytesOf
<1>6. w = <<w[1], w[2], w[3], w[4]>>
  BY DEF Word
<1>7. HalvesOf(w) \in [1..2 -> HalfRange]
  BY <1>2, <1>3
<1> QED
  BY <1>2, <1>3, <1>5, <1>6, <1>7

(* Two digits added, the lower one with a carry, as the halves they make.  *)
AreDigits(u, v) ==
  LET c == u \div 256
      d == (v + c) \div 256
  IN  /\ (u % 256) + 256 * ((v + c) % 256) = (u + 256 * v) % 65536
      /\ d = (u + 256 * v) \div 65536
      /\ c \in {0, 1} /\ d \in {0, 1}

(* So are sums of two bytes and a carry.                                   *)
LEMMA Digits ==
  ASSUME NEW u \in Nat, u < 512, NEW v \in Nat, v < 511
  PROVE  AreDigits(u, v)
<1>7. u \in 0..511 /\ v \in 0..510
  OBVIOUS
<1>1. PICK p \in {0, 1}, r \in 0..255 : u = 256 * p + r
  <2>1. u = 256 * (u \div 256) + (u % 256) /\ u \div 256 \in {0, 1} /\ u % 256 \in 0..255
    OBVIOUS
  <2> QED
    BY <2>1
<1>2. u \div 256 = p /\ u % 256 = r
  BY <1>1
<1>3. PICK q \in {0, 1}, t \in 0..255 : v + p = 256 * q + t
  <2>1. PICK y \in 0..511 : y = v + p
    OBVIOUS
  <2>2. y = 256 * (y \div 256) + (y % 256) /\ y \div 256 \in {0, 1} /\ y % 256 \in 0..255
    OBVIOUS
  <2> QED
    BY <2>1, <2>2
<1>4. (v + p) \div 256 = q /\ (v + p) % 256 = t
  BY <1>3
<1>5. u + 256 * v = 65536 * q + (r + 256 * t)
  BY <1>1, <1>3
<1>6. (u + 256 * v) % 65536 = r + 256 * t /\ (u + 256 * v) \div 65536 = q
  BY <1>5
<1> QED
  BY <1>2, <1>4, <1>6 DEF AreDigits

(* The sum of two words, as the RFC's addition of halves.                  *)
LEMMA SumIs ==
  ASSUME NEW a \in Word, NEW b \in Word
  PROVE  HalvesOf(Plus(a, b)) = SumOf(HalvesOf(a), HalvesOf(b))
<1>1. PICK a1 \in Byte, a2 \in Byte, a3 \in Byte, a4 \in Byte :
        a1 = a[1] /\ a2 = a[2] /\ a3 = a[3] /\ a4 = a[4]
  BY DEF Word
<1>2. PICK b1 \in Byte, b2 \in Byte, b3 \in Byte, b4 \in Byte :
        b1 = b[1] /\ b2 = b[2] /\ b3 = b[3] /\ b4 = b[4]
  BY DEF Word
<1> DEFINE c1 == (a1 + b1) \div 256
           c2 == (a2 + b2 + c1) \div 256
           c3 == (a3 + b3 + c2) \div 256
           low == (a1 + 256 * a2) + (b1 + 256 * b2)
           high == (a3 + 256 * a4) + (b3 + 256 * b4) + (low \div 65536)
           p == Plus(a, b)
<1>3. /\ p[1] = (a1 + b1) % 256 /\ p[2] = (a2 + b2 + c1) % 256
      /\ p[3] = (a3 + b3 + c2) % 256 /\ p[4] = (a4 + b4 + c3) % 256
  BY <1>1, <1>2, PlusIs
<1>4. /\ ((a1 + b1) % 256) + 256 * ((a2 + b2 + c1) % 256) = low % 65536
      /\ ((a3 + b3 + c2) % 256) + 256 * ((a4 + b4 + c3) % 256) = high % 65536
  <2> DEFINE u == a1 + b1
             v == a2 + b2
             c == (v + (u \div 256)) \div 256
             w == a3 + b3 + c
             x == a4 + b4
  <2>1. u \in Nat /\ u < 512 /\ v \in Nat /\ v < 511
    BY DEF Byte
  <2>2. u + 256 * v = low
    BY DEF Byte
  <2>3. AreDigits(u, v)
    <3> HIDE DEF u, v
    <3> QED
      BY <2>1, Digits
  <2>4. /\ (u % 256) + 256 * ((v + (u \div 256)) % 256) = low % 65536
        /\ c = low \div 65536 /\ c \in {0, 1}
    <3> HIDE DEF u, v, low
    <3> QED
      BY <2>2, <2>3 DEF AreDigits
  <2>5. w \in Nat /\ w < 512 /\ x \in Nat /\ x < 511
    <3> HIDE DEF c
    <3> QED
      BY <2>4 DEF Byte
  <2>6. w + 256 * x = (a3 + 256 * a4) + (b3 + 256 * b4) + c
    <3> HIDE DEF c
    <3> QED
      BY <2>4 DEF Byte
  <2>7. w + 256 * x = high
    <3> HIDE DEF w, x, c, low
    <3> QED
      BY <2>4, <2>6
  <2>8. AreDigits(w, x)
    <3> HIDE DEF w, x
    <3> QED
      BY <2>5, Digits
  <2>9. (w % 256) + 256 * ((x + (w \div 256)) % 256) = high % 65536
    <3> HIDE DEF w, x, high
    <3> QED
      BY <2>7, <2>8 DEF AreDigits
  <2>10. c1 = u \div 256 /\ c2 = c /\ c3 = (a3 + b3 + c) \div 256
    <3>1. a2 + b2 + c1 = v + (u \div 256)
      OBVIOUS
    <3> QED
      OBVIOUS
  <2>11. ((a1 + b1) % 256) + 256 * ((a2 + b2 + c1) % 256) = low % 65536
    <3> HIDE DEF low
    <3> QED
      BY <2>4, <2>10
  <2>12. ((a3 + b3 + c2) % 256) + 256 * ((a4 + b4 + c3) % 256) = high % 65536
    <3> HIDE DEF high, c, c2
    <3>1. c3 = w \div 256
      BY <2>10
    <3> QED
      BY <2>9, <2>10, <3>1
  <2> QED
    BY <2>11, <2>12
<1>5. HalvesOf(p) = <<low % 65536, high % 65536>>
  <2> HIDE DEF p, c1, c2, c3, low, high
  <2>1. p[1] + 256 * p[2] = low % 65536 /\ p[3] + 256 * p[4] = high % 65536
    BY <1>3, <1>4
  <2> QED
    BY <2>1 DEF HalvesOf
<1>6. Half = 65536
  <2>1. 2^16 = 65536
    OBVIOUS
  <2> QED
    BY <2>1 DEF Half
<1>7. SumOf(HalvesOf(a), HalvesOf(b)) = <<low % 65536, high % 65536>>
  <2>1. HalvesOf(a)[1] = a1 + 256 * a2 /\ HalvesOf(a)[2] = a3 + 256 * a4
    BY <1>1 DEF HalvesOf
  <2>2. HalvesOf(b)[1] = b1 + 256 * b2 /\ HalvesOf(b)[2] = b3 + 256 * b4
    BY <1>2 DEF HalvesOf
  <2> QED
    BY <1>6, <2>1, <2>2 DEF SumOf
<1> QED
  BY <1>5, <1>7

(* Words are combined by halves.                                           *)
LEMMA XorHalves ==
  ASSUME NEW a \in Word, NEW b \in Word
  PROVE  XorEach(a, b) \in Word /\ HalvesOf(XorEach(a, b)) = XorOf(HalvesOf(a), HalvesOf(b))
<1> DEFINE x == XorEach(a, b)
<1>1. a \in Seq(Byte) /\ Len(a) = 4 /\ b \in Seq(Byte) /\ Len(b) = 4
  BY WordIs
<1>2. x \in Word
  BY XorWord
<1>3. \A i \in 1..4 : x[i] = Added(a[i], b[i])
  BY <1>1, XorEachIs
<1> HIDE DEF x
<1>4. \A i \in 1..4 : a[i] \in Byte /\ b[i] \in Byte
  BY DEF Word
<1>5. \A u, v \in Byte : (u + 256 * v) % 256 = u /\ (u + 256 * v) \div 256 = v
  BY DEF Byte
<1>6. \A u, v, y, z \in Byte : HalfXor(u + 256 * v, y + 256 * z) = Added(u, y) + 256 * Added(v, z)
  BY <1>5 DEF HalfXor
<1>7. /\ x[1] = Added(a[1], b[1]) /\ x[2] = Added(a[2], b[2])
      /\ x[3] = Added(a[3], b[3]) /\ x[4] = Added(a[4], b[4])
  BY <1>3
<1>8. /\ HalvesOf(a)[1] = a[1] + 256 * a[2] /\ HalvesOf(a)[2] = a[3] + 256 * a[4]
      /\ HalvesOf(b)[1] = b[1] + 256 * b[2] /\ HalvesOf(b)[2] = b[3] + 256 * b[4]
  BY DEF HalvesOf
<1>9. /\ HalfXor(a[1] + 256 * a[2], b[1] + 256 * b[2]) = x[1] + 256 * x[2]
      /\ HalfXor(a[3] + 256 * a[4], b[3] + 256 * b[4]) = x[3] + 256 * x[4]
  <2>1. /\ a[1] \in Byte /\ a[2] \in Byte /\ a[3] \in Byte /\ a[4] \in Byte
        /\ b[1] \in Byte /\ b[2] \in Byte /\ b[3] \in Byte /\ b[4] \in Byte
    BY <1>4
  <2> QED
    BY <1>6, <1>7, <2>1, SMTT(30)
<1>10. HalvesOf(x) = XorOf(HalvesOf(a), HalvesOf(b))
  BY <1>8, <1>9 DEF HalvesOf, XorOf
<1> QED
  BY <1>2, <1>10 DEF x

(* A turn by n bits, as a turn of bytes and of bits in them.               *)
LEMMA RotIs ==
  ASSUME NEW w \in Word, NEW n \in {16, 12, 8, 7}
  PROVE  HalvesOf(RotL(w, n)) = Rotated(HalvesOf(w), n)
<1> DEFINE byte(i) == w[((i - 1 - (n \div 8)) % 4) + 1]
           bits == 2^(n % 8)
           s == [i \in 1..4 |-> ((byte(i) * bits) % 256) + ((byte(i - 1) * bits) \div 256)]
<1>1. RotL(w, n) = SubSeq(s, 1, 4)
  BY DEF RotL
<1>2. RotL(w, n) \in Word
  BY RotLType
<1>3. SubSeq(s, 1, 4) = s
  <2>1. 4 \in Nat
    OBVIOUS
  <2>2. s \in [1..4 -> {s[i] : i \in 1..4}]
    OBVIOUS
  <2> HIDE DEF s
  <2> QED
    BY <2>1, <2>2, AllOf
<1>4. w[1] \in Byte /\ w[2] \in Byte /\ w[3] \in Byte /\ w[4] \in Byte
  BY DEF Word
<1>5. HalvesOf(RotL(w, n)) = <<s[1] + 256 * s[2], s[3] + 256 * s[4]>>
  BY <1>1, <1>3 DEF HalvesOf
<1>6. /\ s[1] = ((byte(1) * bits) % 256) + ((byte(0) * bits) \div 256)
      /\ s[2] = ((byte(2) * bits) % 256) + ((byte(1) * bits) \div 256)
      /\ s[3] = ((byte(3) * bits) % 256) + ((byte(2) * bits) \div 256)
      /\ s[4] = ((byte(4) * bits) % 256) + ((byte(3) * bits) \div 256)
  <2>1. 1 - 1 = 0 /\ 2 - 1 = 1 /\ 3 - 1 = 2 /\ 4 - 1 = 3
    OBVIOUS
  <2>2. \A i \in 1..4 : s[i] = ((byte(i) * bits) % 256) + ((byte(i - 1) * bits) \div 256)
    OBVIOUS
  <2> HIDE DEF s, byte, bits
  <2>3. /\ s[1] = ((byte(1) * bits) % 256) + ((byte(1 - 1) * bits) \div 256)
        /\ s[2] = ((byte(2) * bits) % 256) + ((byte(2 - 1) * bits) \div 256)
        /\ s[3] = ((byte(3) * bits) % 256) + ((byte(3 - 1) * bits) \div 256)
        /\ s[4] = ((byte(4) * bits) % 256) + ((byte(4 - 1) * bits) \div 256)
    BY <2>2
  <2> QED
    BY <2>1, <2>3
<1> HIDE DEF s
<1>7. HalvesOf(w)[1] = w[1] + 256 * w[2] /\ HalvesOf(w)[2] = w[3] + 256 * w[4]
  BY DEF HalvesOf
<1>8. 2^0 = 1 /\ 2^4 = 16 /\ 2^7 = 128 /\ 2^8 = 256 /\ 2^12 = 4096 /\ 2^9 = 512 /\ Half = 65536
  <2>1. 2^0 = 1 /\ 2^4 = 16 /\ 2^7 = 128 /\ 2^8 = 256 /\ 2^12 = 4096 /\ 2^9 = 512 /\ 2^16 = 65536
    OBVIOUS
  <2> QED
    BY <2>1 DEF Half
<1>9. CASE n = 16
  <2>1. byte(0) = w[2] /\ byte(1) = w[3] /\ byte(2) = w[4] /\ byte(3) = w[1] /\ byte(4) = w[2]
    <3>1. n \div 8 = 2
      BY <1>9
    <3>3. \A i \in 0..4 : ((i - 1 - 2) % 4) + 1 = <<2, 3, 4, 1, 2>>[i + 1]
      OBVIOUS
    <3>2. ((0 - 1 - 2) % 4) + 1 = 2 /\ ((1 - 1 - 2) % 4) + 1 = 3 /\ ((2 - 1 - 2) % 4) + 1 = 4 /\ ((3 - 1 - 2) % 4) + 1 = 1 /\ ((4 - 1 - 2) % 4) + 1 = 2
      BY <3>3
    <3> QED
      BY <3>1, <3>2
  <2>2. bits = 1
    BY <1>8, <1>9
  <2> HIDE DEF byte, bits
  <2>3. \A x, y \in Byte : ((x * 1) % 256) + ((y * 1) \div 256) = x
    BY DEF Byte
  <2>4. s[1] = w[3] /\ s[2] = w[4] /\ s[3] = w[1] /\ s[4] = w[2]
    BY <1>4, <1>6, <2>1, <2>2, <2>3
  <2>5. Rotated(HalvesOf(w), n) = <<HalvesOf(w)[2], HalvesOf(w)[1]>>
    BY <1>9 DEF Rotated
  <2> QED
    BY <1>5, <1>7, <2>4, <2>5
<1>10. CASE n = 8
  <2>1. byte(0) = w[3] /\ byte(1) = w[4] /\ byte(2) = w[1] /\ byte(3) = w[2] /\ byte(4) = w[3]
    <3>1. n \div 8 = 1
      BY <1>10
    <3>3. \A i \in 0..4 : ((i - 1 - 1) % 4) + 1 = <<3, 4, 1, 2, 3>>[i + 1]
      OBVIOUS
    <3>2. ((0 - 1 - 1) % 4) + 1 = 3 /\ ((1 - 1 - 1) % 4) + 1 = 4 /\ ((2 - 1 - 1) % 4) + 1 = 1 /\ ((3 - 1 - 1) % 4) + 1 = 2 /\ ((4 - 1 - 1) % 4) + 1 = 3
      BY <3>3
    <3> QED
      BY <3>1, <3>2
  <2>2. bits = 1
    BY <1>8, <1>10
  <2> HIDE DEF byte, bits
  <2>3. \A x, y \in Byte : ((x * 1) % 256) + ((y * 1) \div 256) = x
    BY DEF Byte
  <2>4. s[1] = w[4] /\ s[2] = w[1] /\ s[3] = w[2] /\ s[4] = w[3]
    BY <1>4, <1>6, <2>1, <2>2, <2>3
  <2>5. ASSUME NEW x \in Byte, NEW y \in Byte, NEW z \in Byte, NEW t \in Byte
        PROVE  (((x + 256 * y) * 256) % 65536) + ((z + 256 * t) \div 256) = t + 256 * x
    BY DEF Byte
  <2>6. Rotated(HalvesOf(w), n) = <<(((w[1] + 256 * w[2]) * 256) % 65536) + ((w[3] + 256 * w[4]) \div 256),
                                    (((w[3] + 256 * w[4]) * 256) % 65536) + ((w[1] + 256 * w[2]) \div 256)>>
    <3>1. 16 - 8 = 8 /\ n # 16
      BY <1>10
    <3> QED
      BY <1>7, <1>8, <1>10, <3>1 DEF Rotated
  <2>7. Rotated(HalvesOf(w), n) = <<w[4] + 256 * w[1], w[2] + 256 * w[3]>>
    BY <1>4, <2>5, <2>6
  <2> QED
    BY <1>5, <2>4, <2>7
<1>11. CASE n = 12
  <2>1. byte(0) = w[3] /\ byte(1) = w[4] /\ byte(2) = w[1] /\ byte(3) = w[2] /\ byte(4) = w[3]
    <3>1. n \div 8 = 1
      BY <1>11
    <3>3. \A i \in 0..4 : ((i - 1 - 1) % 4) + 1 = <<3, 4, 1, 2, 3>>[i + 1]
      OBVIOUS
    <3>2. ((0 - 1 - 1) % 4) + 1 = 3 /\ ((1 - 1 - 1) % 4) + 1 = 4 /\ ((2 - 1 - 1) % 4) + 1 = 1 /\ ((3 - 1 - 1) % 4) + 1 = 2 /\ ((4 - 1 - 1) % 4) + 1 = 3
      BY <3>3
    <3> QED
      BY <3>1, <3>2
  <2>2. bits = 16
    BY <1>8, <1>11
  <2> HIDE DEF byte, bits
  <2>5. ASSUME NEW x \in Byte, NEW y \in Byte, NEW z \in Byte, NEW t \in Byte
        PROVE  (((x + 256 * y) * 4096) % 65536) + ((z + 256 * t) \div 16) =
                 (((t * 16) % 256) + ((z * 16) \div 256)) + 256 * (((x * 16) % 256) + ((t * 16) \div 256))
    BY DEF Byte
  <2>6. Rotated(HalvesOf(w), n) = <<(((w[1] + 256 * w[2]) * 4096) % 65536) + ((w[3] + 256 * w[4]) \div 16),
                                    (((w[3] + 256 * w[4]) * 4096) % 65536) + ((w[1] + 256 * w[2]) \div 16)>>
    <3>1. 16 - 12 = 4 /\ n # 16
      BY <1>11
    <3> QED
      BY <1>7, <1>8, <1>11, <3>1 DEF Rotated
  <2> QED
    BY <1>4, <1>5, <1>6, <2>1, <2>2, <2>5, <2>6
<1>12. CASE n = 7
  <2>1. byte(0) = w[4] /\ byte(1) = w[1] /\ byte(2) = w[2] /\ byte(3) = w[3] /\ byte(4) = w[4]
    <3>1. n \div 8 = 0
      BY <1>12
    <3>3. \A i \in 0..4 : ((i - 1 - 0) % 4) + 1 = <<4, 1, 2, 3, 4>>[i + 1]
      OBVIOUS
    <3>2. ((0 - 1 - 0) % 4) + 1 = 4 /\ ((1 - 1 - 0) % 4) + 1 = 1 /\ ((2 - 1 - 0) % 4) + 1 = 2 /\ ((3 - 1 - 0) % 4) + 1 = 3 /\ ((4 - 1 - 0) % 4) + 1 = 4
      BY <3>3
    <3> QED
      BY <3>1, <3>2
  <2>2. bits = 128
    BY <1>8, <1>12
  <2> HIDE DEF byte, bits
  <2>5. ASSUME NEW x \in Byte, NEW y \in Byte, NEW z \in Byte, NEW t \in Byte
        PROVE  (((x + 256 * y) * 128) % 65536) + ((z + 256 * t) \div 512) =
                 (((x * 128) % 256) + ((t * 128) \div 256)) + 256 * (((y * 128) % 256) + ((x * 128) \div 256))
    <3>1. (z + 256 * t) \div 512 = t \div 2 /\ (t * 128) \div 256 = t \div 2
      BY DEF Byte
    <3>2. ((x + 256 * y) * 128) % 65536 = 128 * x + 32768 * (y % 2) /\ (y * 128) % 256 = 128 * (y % 2)
      BY DEF Byte
    <3>3. 128 * x = ((x * 128) % 256) + 256 * ((x * 128) \div 256)
      BY DEF Byte
    <3> DEFINE p == (x * 128) % 256
               q == (x * 128) \div 256
               h == t \div 2
               o == y % 2
    <3>4. p \in Nat /\ q \in Nat /\ h \in Nat /\ o \in Nat /\ x \in Nat
      BY DEF Byte
    <3> HIDE DEF p, q, h, o
    <3>5. (128 * x + 32768 * o) + h = (p + h) + 256 * (128 * o + q)
      <4>1. 128 * x = p + 256 * q
        BY <3>3 DEF p, q
      <4> QED
        BY <3>4, <4>1
    <3> QED
      BY <3>1, <3>2, <3>5 DEF p, q, h, o
  <2>6. Rotated(HalvesOf(w), n) = <<(((w[1] + 256 * w[2]) * 128) % 65536) + ((w[3] + 256 * w[4]) \div 512),
                                    (((w[3] + 256 * w[4]) * 128) % 65536) + ((w[1] + 256 * w[2]) \div 512)>>
    <3>1. 16 - 7 = 9 /\ n # 16
      BY <1>12
    <3> QED
      BY <1>7, <1>8, <1>12, <3>1 DEF Rotated
  <2> QED
    BY <1>4, <1>5, <1>6, <2>1, <2>2, <2>5, <2>6
<1> QED
  BY <1>9, <1>10, <1>11, <1>12

(* A line of quarter_round(), on halves.                                   *)
StepDone(x, y, z, n) ==
  LET new == Step(x, y, z, n)
      sum == SumOf(HalvesOf(x), HalvesOf(y))
  IN  /\ new[1] \in Word /\ new[2] \in Word
      /\ HalvesOf(new[1]) = sum
      /\ HalvesOf(new[2]) = Rotated(XorOf(HalvesOf(z), sum), n)

(* Such a line, for every three words and each of the four turns.          *)
LEMMA StepIs ==
  ASSUME NEW x \in Word, NEW y \in Word, NEW z \in Word, NEW n \in {16, 12, 8, 7}
  PROVE  StepDone(x, y, z, n)
<1> DEFINE p == Plus(x, y)
<1>1. p \in Word
  BY PlusType
<1>2. HalvesOf(p) = SumOf(HalvesOf(x), HalvesOf(y))
  BY SumIs
<1> HIDE DEF p
<1>3. XorEach(z, p) \in Word /\ HalvesOf(XorEach(z, p)) = XorOf(HalvesOf(z), HalvesOf(p))
  BY <1>1, XorHalves
<1>4. HalvesOf(RotL(XorEach(z, p), n)) = Rotated(HalvesOf(XorEach(z, p)), n)
  BY <1>3, RotIs
<1>5. Step(x, y, z, n) = <<p, RotL(XorEach(z, p), n)>>
  BY DEF Step, p
<1>6. Step(x, y, z, n)[1] \in Word /\ Step(x, y, z, n)[2] \in Word
  BY StepType
<1>7. Step(x, y, z, n)[1] = p /\ Step(x, y, z, n)[2] = RotL(XorEach(z, p), n)
  BY <1>5
<1> QED
  BY <1>2, <1>3, <1>4, <1>6, <1>7 DEF StepDone

(* The quarter round at these places of a state, on halves.                *)
QuarterAt(words, at) ==
  RfcQuarter(<<HalvesOf(words[at[1] + 1]), HalvesOf(words[at[2] + 1]),
               HalvesOf(words[at[3] + 1]), HalvesOf(words[at[4] + 1])>>)

(* quarter_round() is the RFC's, and leaves the other places alone.        *)
LEMMA QuarterRoundIs ==
  ASSUME NEW words \in Words16, NEW at \in [1..4 -> 0..15],
         \A i, j \in 1..4 : at[i] = at[j] => i = j
  PROVE  LET new == QuarterRound(words, at)
             q == QuarterAt(words, at)
         IN  /\ new \in Words16
             /\ \A i \in 1..4 : HalvesOf(new[at[i] + 1]) = q[i]
             /\ \A k \in 1..16 : (\A i \in 1..4 : k # at[i] + 1) => new[k] = words[k]
<1> DEFINE add(w, x, y, z, n) ==
             LET new == Step(w[at[x] + 1], w[at[y] + 1], w[at[z] + 1], n)
             IN  [w EXCEPT ![at[x] + 1] = new[1], ![at[z] + 1] = new[2]]
           one == add(words, 1, 2, 4, Turns[1])
           two == add(one, 3, 4, 2, Turns[2])
           three == add(two, 1, 2, 4, Turns[3])
           four == add(three, 3, 4, 2, Turns[4])
           H(w, i) == HalvesOf(w[at[i] + 1])
           Same(w, v) == \A k \in 1..16 : (\A i \in 1..4 : k # at[i] + 1) => w[k] = v[k]
<1>1. ASSUME NEW w \in Words16, NEW x \in 1..4, NEW y \in 1..4, NEW z \in 1..4, NEW n \in {16, 12, 8, 7}, x # z
      PROVE  LET v == add(w, x, y, z, n)
                 sum == SumOf(H(w, x), H(w, y))
             IN  /\ v \in Words16
                 /\ H(v, x) = sum
                 /\ H(v, z) = Rotated(XorOf(H(w, z), sum), n)
                 /\ \A i \in 1..4 : i # x /\ i # z => H(v, i) = H(w, i)
                 /\ Same(v, w)
  <2>1. \A i \in 1..4 : at[i] + 1 \in 1..16
    OBVIOUS
  <2>2. \A i \in 1..4 : w[at[i] + 1] \in Word
    BY <2>1 DEF Words16
  <2> DEFINE new == Step(w[at[x] + 1], w[at[y] + 1], w[at[z] + 1], n)
             sum == SumOf(H(w, x), H(w, y))
  <2>3. /\ new[1] \in Word /\ new[2] \in Word
        /\ HalvesOf(new[1]) = sum
        /\ HalvesOf(new[2]) = Rotated(XorOf(H(w, z), sum), n)
    <3> DEFINE wx == w[at[x] + 1]
               wy == w[at[y] + 1]
               wz == w[at[z] + 1]
    <3>1. wx \in Word /\ wy \in Word /\ wz \in Word
      BY <2>2
    <3> HIDE DEF wx, wy, wz
    <3>2. StepDone(wx, wy, wz, n)
      BY <3>1, StepIs
    <3> QED
      BY <3>2 DEF wx, wy, wz, StepDone
  <2> HIDE DEF new
  <2> DEFINE v == [w EXCEPT ![at[x] + 1] = new[1], ![at[z] + 1] = new[2]]
  <2>4. v \in Words16
    BY <2>3 DEF Words16
  <2>5. at[x] + 1 # at[z] + 1
    <3>1. at[x] # at[z] /\ at[x] \in 0..15 /\ at[z] \in 0..15
      BY <1>1
    <3>2. \A i, j \in 0..15 : i # j => i + 1 # j + 1
      OBVIOUS
    <3> QED
      BY <3>1, <3>2
  <2>6. v[at[x] + 1] = new[1] /\ v[at[z] + 1] = new[2]
    BY <2>1, <2>5 DEF Words16
  <2>7. \A k \in 1..16 : k # at[x] + 1 /\ k # at[z] + 1 => v[k] = w[k]
    BY DEF Words16
  <2> HIDE DEF v
  <2>8. \A i \in 1..4 : i # x /\ i # z => at[i] + 1 # at[x] + 1 /\ at[i] + 1 # at[z] + 1
    OBVIOUS
  <2>9. \A i \in 1..4 : i # x /\ i # z => H(v, i) = H(w, i)
    BY <2>1, <2>7, <2>8
  <2>10. H(v, x) = sum /\ H(v, z) = Rotated(XorOf(H(w, z), sum), n)
    <3> HIDE DEF sum
    <3> QED
      BY <2>3, <2>6
  <2>11. Same(v, w)
    BY <2>7
  <2>12. v = add(w, x, y, z, n)
    BY DEF v, new
  <2> HIDE DEF add, sum, H, Same
  <2> QED
    BY <2>4, <2>9, <2>10, <2>11, <2>12 DEF sum
<1>2. Turns[1] = 16 /\ Turns[2] = 12 /\ Turns[3] = 8 /\ Turns[4] = 7
  BY DEF Turns
<1>3. QuarterRound(words, at) = four
  BY Zenon DEF QuarterRound
<1>4. /\ 1 \in 1..4 /\ 2 \in 1..4 /\ 3 \in 1..4 /\ 4 \in 1..4
      /\ 1 # 4 /\ 3 # 2 /\ 2 # 1 /\ 2 # 4 /\ 3 # 1 /\ 3 # 4 /\ 1 # 3 /\ 1 # 2 /\ 4 # 3 /\ 4 # 2
  OBVIOUS
<1> HIDE DEF add, Same
<1> DEFINE a0 == H(words, 1)
           b0 == H(words, 2)
           c0 == H(words, 3)
           d0 == H(words, 4)
           a1 == SumOf(a0, b0)
           d1 == Rotated(XorOf(d0, a1), 16)
           c1 == SumOf(c0, d1)
           b1 == Rotated(XorOf(b0, c1), 12)
           a2 == SumOf(a1, b1)
           d2 == Rotated(XorOf(d1, a2), 8)
           c2 == SumOf(c1, d2)
           b2 == Rotated(XorOf(b1, c2), 7)
<1>5. one \in Words16 /\ H(one, 1) = a1 /\ H(one, 4) = d1 /\ H(one, 2) = b0 /\ H(one, 3) = c0 /\ Same(one, words)
  <2> HIDE DEF H, c1, b1, a2, d2, c2, b2
  <2> QED
    BY <1>1, <1>2, <1>4
<1> HIDE DEF one
<1>6. two \in Words16 /\ H(two, 3) = c1 /\ H(two, 2) = b1 /\ H(two, 1) = a1 /\ H(two, 4) = d1 /\ Same(two, one)
  <2> HIDE DEF H, a1, d1
  <2> QED
    BY <1>1, <1>2, <1>4, <1>5
<1> HIDE DEF two
<1>7. three \in Words16 /\ H(three, 1) = a2 /\ H(three, 4) = d2 /\ H(three, 2) = b1 /\ H(three, 3) = c1 /\ Same(three, two)
  <2> HIDE DEF H, a1, d1, b1, c1
  <2> QED
    BY <1>1, <1>2, <1>4, <1>6
<1> HIDE DEF three
<1>8. four \in Words16 /\ H(four, 3) = c2 /\ H(four, 2) = b2 /\ H(four, 1) = a2 /\ H(four, 4) = d2 /\ Same(four, three)
  <2> HIDE DEF H, a2, d2, b1, c1
  <2> QED
    BY <1>1, <1>2, <1>4, <1>7
<1> HIDE DEF four
<1>9. Same(four, words)
  BY <1>5, <1>6, <1>7, <1>8 DEF Same
<1>10. QuarterAt(words, at) = <<a2, b2, c2, d2>>
  BY Zenon DEF QuarterAt, RfcQuarter
<1> DEFINE q == QuarterAt(words, at)
<1>11. q[1] = a2 /\ q[2] = b2 /\ q[3] = c2 /\ q[4] = d2
  <2> HIDE DEF a2, b2, c2, d2
  <2> QED
    BY <1>10
<1>12. \A i \in 1..4 : HalvesOf(four[at[i] + 1]) = q[i]
  <2> HIDE DEF a2, b2, c2, d2, q
  <2>1. HalvesOf(four[at[1] + 1]) = q[1] /\ HalvesOf(four[at[2] + 1]) = q[2]
     /\ HalvesOf(four[at[3] + 1]) = q[3] /\ HalvesOf(four[at[4] + 1]) = q[4]
    BY <1>8, <1>11
  <2>2. 1..4 = {1, 2, 3, 4}
    OBVIOUS
  <2> QED
    BY <2>1, <2>2
<1> HIDE DEF q
<1> QED
  BY <1>3, <1>8, <1>9, <1>12 DEF Same, q

(* The loop of chacha20_block() works at four columns, then at four        *)
(* diagonals, none of which has a place in common with another.            *)
LEMMA QuartersApart ==
  ASSUME NEW k \in {0, 4}
  PROVE  /\ \A c \in 1..4 : k + c \in 1..8
         /\ \A c, i, j \in 1..4 : Quarters[k + c][i] = Quarters[k + c][j] => i = j
         /\ \A c, d, i, j \in 1..4 : c # d => Quarters[k + c][i] # Quarters[k + d][j]
<1>1. \A i, j \in 1..4 :
        /\ \A c \in 1..4 : Quarters[c][i] = Quarters[c][j] => i = j
        /\ \A c, d \in 1..4 : c # d => Quarters[c][i] # Quarters[d][j]
  <2>1. \A c, i \in 1..4 : Quarters[c][i] = 4 * (i - 1) + (c - 1)
    BY DEF Quarters
  <2> QED
    BY <2>1
<1>2. \A i, j \in 1..4 :
        /\ \A c \in 1..4 : Quarters[4 + c][i] = Quarters[4 + c][j] => i = j
        /\ \A c, d \in 1..4 : c # d => Quarters[4 + c][i] # Quarters[4 + d][j]
  <2>1. \A c, i \in 1..4 : Quarters[4 + c][i] = 4 * (i - 1) + ((c - 1 + (i - 1)) % 4)
    <3>1. \A i \in 1..4 : /\ Quarters[5][i] = <<0, 5, 10, 15>>[i] /\ Quarters[6][i] = <<1, 6, 11, 12>>[i]
                          /\ Quarters[7][i] = <<2, 7, 8, 13>>[i] /\ Quarters[8][i] = <<3, 4, 9, 14>>[i]
      BY DEF Quarters
    <3>2. \A c, i \in 1..4 : c - 1 + (i - 1) = c + i - 2
      OBVIOUS
    <3>3. \A i \in 1..4 : /\ <<0, 5, 10, 15>>[i] = 4 * (i - 1) + ((1 + i - 2) % 4)
                          /\ <<1, 6, 11, 12>>[i] = 4 * (i - 1) + ((2 + i - 2) % 4)
                          /\ <<2, 7, 8, 13>>[i] = 4 * (i - 1) + ((3 + i - 2) % 4)
                          /\ <<3, 4, 9, 14>>[i] = 4 * (i - 1) + ((4 + i - 2) % 4)
      OBVIOUS
    <3>4. ASSUME NEW c \in 1..4, NEW i \in 1..4 PROVE Quarters[4 + c][i] = 4 * (i - 1) + ((c + i - 2) % 4)
      <4>1. c = 1 \/ c = 2 \/ c = 3 \/ c = 4
        OBVIOUS
      <4> QED
        BY <3>1, <3>3, <4>1
    <3> QED
      BY <3>2, <3>4
  <2>2. \A c, i \in 1..4 : (c - 1 + (i - 1)) % 4 \in 0..3
    OBVIOUS
  <2>3. \A c, d, i \in 1..4 : c # d => (c - 1 + (i - 1)) % 4 # (d - 1 + (i - 1)) % 4
    OBVIOUS
  <2>4. \A i, j \in 1..4, x, y \in 0..3 : 4 * (i - 1) + x = 4 * (j - 1) + y => i = j /\ x = y
    OBVIOUS
  <2> QED
    BY <2>1, <2>2, <2>3, <2>4
<1>3. \A c \in 1..4 : k + c \in 1..8 /\ 0 + c = c
  OBVIOUS
<1>4. CASE k = 0
  BY <1>1, <1>3, <1>4
<1>5. CASE k = 4
  BY <1>2, <1>3, <1>5
<1> QED
  BY <1>4, <1>5

(* Four such quarter rounds, each on what they all started from.           *)
LEMMA FourQuarters ==
  ASSUME NEW k \in {0, 4}, NEW w \in [0..4 -> Words16],
         \A c \in 1..4 : w[c] = QuarterRound(w[c - 1], Quarters[k + c])
  PROVE  \A c, i \in 1..4 : HalvesOf(w[4][Quarters[k + c][i] + 1]) = QuarterAt(w[0], Quarters[k + c])[i]
<1> DEFINE at(c) == Quarters[k + c]
           place(c, i) == at(c)[i] + 1
<1>1. \A c \in 1..4 : at(c) \in [1..4 -> 0..15]
  BY QuartersApart, QuartersType
<1>2. \A c, i \in 1..4 : at(c)[i] \in 0..15 /\ place(c, i) \in 1..16
  <2>1. \A c, i \in 1..4 : at(c)[i] \in 0..15
    BY <1>1
  <2>2. \A x \in 0..15 : x + 1 \in 1..16
    OBVIOUS
  <2> HIDE DEF at
  <2> QED
    BY <2>1, <2>2
<1>3. \A c, i, j \in 1..4 : at(c)[i] = at(c)[j] => i = j
  BY QuartersApart
<1>4. \A c, d, i, j \in 1..4 : c # d => place(c, i) # place(d, j)
  <2>1. \A c, d, i, j \in 1..4 : c # d => at(c)[i] # at(d)[j]
    BY QuartersApart
  <2>2. \A x, y \in 0..15 : x # y => x + 1 # y + 1
    OBVIOUS
  <2> HIDE DEF at
  <2> QED
    BY <1>2, <2>1, <2>2, SMTT(30)
<1>5. \A c \in 1..4 : w[c] = QuarterRound(w[c - 1], at(c)) /\ w[c - 1] \in Words16
  <2>1. \A c \in 1..4 : c - 1 \in 0..4
    OBVIOUS
  <2> QED
    BY <2>1
<1> HIDE DEF at
<1>6. ASSUME NEW c \in 1..4
      PROVE  /\ \A i \in 1..4 : HalvesOf(w[c][place(c, i)]) = QuarterAt(w[c - 1], at(c))[i]
             /\ \A d, i \in 1..4 : d # c => w[c][place(d, i)] = w[c - 1][place(d, i)]
  <2> DEFINE u == w[c - 1]
             a == at(c)
  <2>1. u \in Words16 /\ a \in [1..4 -> 0..15] /\ \A i, j \in 1..4 : a[i] = a[j] => i = j
    BY <1>1, <1>3, <1>5
  <2>2. w[c] = QuarterRound(u, a)
    BY <1>5
  <2> HIDE DEF u
  <2>3. /\ \A i \in 1..4 : HalvesOf(w[c][a[i] + 1]) = QuarterAt(u, a)[i]
        /\ \A x \in 1..16 : (\A i \in 1..4 : x # a[i] + 1) => w[c][x] = u[x]
    <3> HIDE DEF a
    <3> QED
      BY <2>1, <2>2, QuarterRoundIs, SMTT(30)
  <2>4. \A d, i \in 1..4 : d # c => w[c][place(d, i)] = u[place(d, i)]
    BY <1>2, <1>4, <2>3, SMTT(30)
  <2> QED
    BY <2>3, <2>4 DEF u
<1>7. 1..4 = {1, 2, 3, 4} /\ 1 - 1 = 0 /\ 2 - 1 = 1 /\ 3 - 1 = 2 /\ 4 - 1 = 3
  OBVIOUS
<1>8. /\ \A c, i \in 1..4 : 1 # c => w[1][place(c, i)] = w[0][place(c, i)]
      /\ \A c, i \in 1..4 : 2 # c => w[2][place(c, i)] = w[1][place(c, i)]
      /\ \A c, i \in 1..4 : 3 # c => w[3][place(c, i)] = w[2][place(c, i)]
      /\ \A c, i \in 1..4 : 4 # c => w[4][place(c, i)] = w[3][place(c, i)]
  <2> HIDE DEF place
  <2> QED
    BY <1>6, <1>7
<1>9. \A c, i \in 1..4 : w[c - 1][place(c, i)] = w[0][place(c, i)] /\ w[4][place(c, i)] = w[c][place(c, i)]
  <2> HIDE DEF place
  <2>1. ASSUME NEW i \in 1..4
        PROVE  /\ w[1 - 1][place(1, i)] = w[0][place(1, i)] /\ w[4][place(1, i)] = w[1][place(1, i)]
               /\ w[2 - 1][place(2, i)] = w[0][place(2, i)] /\ w[4][place(2, i)] = w[2][place(2, i)]
               /\ w[3 - 1][place(3, i)] = w[0][place(3, i)] /\ w[4][place(3, i)] = w[3][place(3, i)]
               /\ w[4 - 1][place(4, i)] = w[0][place(4, i)] /\ w[4][place(4, i)] = w[4][place(4, i)]
    <3>1. /\ 1 \in 1..4 /\ 2 \in 1..4 /\ 3 \in 1..4 /\ 4 \in 1..4
          /\ 1 # 2 /\ 1 # 3 /\ 1 # 4 /\ 2 # 1 /\ 2 # 3 /\ 2 # 4 /\ 3 # 1 /\ 3 # 2 /\ 3 # 4 /\ 4 # 1 /\ 4 # 2 /\ 4 # 3
      OBVIOUS
    <3> QED
      BY <1>7, <1>8, <3>1
  <2> QED
    BY <1>7, <2>1
<1>10. ASSUME NEW c \in 1..4, NEW i \in 1..4
       PROVE  HalvesOf(w[4][place(c, i)]) = QuarterAt(w[0], at(c))[i]
  <2>1. QuarterAt(w[c - 1], at(c)) = QuarterAt(w[0], at(c))
    <3>1. /\ w[c - 1][at(c)[1] + 1] = w[0][at(c)[1] + 1] /\ w[c - 1][at(c)[2] + 1] = w[0][at(c)[2] + 1]
          /\ w[c - 1][at(c)[3] + 1] = w[0][at(c)[3] + 1] /\ w[c - 1][at(c)[4] + 1] = w[0][at(c)[4] + 1]
      BY <1>7, <1>9
    <3> QED
      BY <3>1 DEF QuarterAt
  <2> HIDE DEF place
  <2> QED
    BY <1>6, <1>9, <2>1
<1> QED
  BY <1>10 DEF at

(* The eight quarter rounds of a turn of that loop.                        *)
IsTurn(after, words) ==
  /\ after \in [0..8 -> Words16]
  /\ after[0] = words
  /\ \A i \in 1..8 : after[i] = QuarterRound(after[i - 1], Quarters[i])

(* The eight quarter rounds of a turn run through, one after the other.    *)
LEMMA DoubleRoundRuns ==
  ASSUME NEW words \in Words16
  PROVE  \E f : IsTurn(f, words) /\ DoubleRound[words] = f[8]
<1> DEFINE after == CHOOSE g : g = [i \in 0..8 |-> IF i = 0 THEN words ELSE QuarterRound(g[i - 1], Quarters[i])]
           n == 8
           step == [i \in 1..n |-> [w \in Words16 |-> QuarterRound(w, Quarters[i])]]
<1>1. \A i \in 1..n, w \in Words16 : QuarterRound(w, Quarters[i]) \in Words16
  BY QuartersType, QuarterRoundType
<1>2. Loop(n, Words16, words, step)
  BY <1>1 DEF Loop
<1>3. \A i \in 1..n, w \in Words16 : step[i][w] = QuarterRound(w, Quarters[i])
  OBVIOUS
<1> HIDE DEF step, n
<1>4. PICK f : IsRun(f, n, Words16, words, step)
  BY <1>2, Iteration
<1>5. f = [i \in 0..8 |-> IF i = 0 THEN words ELSE QuarterRound(f[i - 1], Quarters[i])]
  <2>1. \A i \in 1..n : f[i] = QuarterRound(f[i - 1], Quarters[i])
    <3>1. \A i \in 1..n : i - 1 \in 0..n
      BY DEF n
    <3> QED
      BY <1>3, <1>4, <3>1 DEF IsRun
  <2> QED
    BY <1>4, <2>1 DEF IsRun, n
<1>6. after = [i \in 0..8 |-> IF i = 0 THEN words ELSE QuarterRound(after[i - 1], Quarters[i])]
  BY <1>5
<1>7. DoubleRound[words] = after[8]
  <2>1. words \in Seq(Word)
    BY WordsAre DEF Words16
  <2> QED
    BY <2>1 DEF DoubleRound
<1> HIDE DEF after
<1>8. Follows(after, n, Words16, words, step)
  BY <1>3, <1>6 DEF Follows, n
<1>9. \A i \in 0..n : after[i] \in Words16
  BY <1>2, <1>8, StaysIn
<1>10. after \in [0..8 -> Words16] /\ after[0] = words
  BY <1>6, <1>9 DEF n
<1>11. \A i \in 1..8 : after[i] = QuarterRound(after[i - 1], Quarters[i])
  BY <1>6
<1>12. IsTurn(after, words)
  BY <1>10, <1>11 DEF IsTurn
<1> QED
  BY <1>7, <1>12

(* The state as the RFC's columns of halves.                               *)
ColumnOf(words, c) == <<HalvesOf(words[c]), HalvesOf(words[c + 4]), HalvesOf(words[c + 8]), HalvesOf(words[c + 12])>>
GridOf(words) == <<ColumnOf(words, 1), ColumnOf(words, 2), ColumnOf(words, 3), ColumnOf(words, 4)>>

(* The columns of a state are columns of halves.                           *)
LEMMA GridType ==
  ASSUME NEW words \in Words16
  PROVE  GridOf(words) \in Columns
<1>1. \A i \in 1..16 : words[i] \in Word
  BY DEF Words16
<1>2. \A w \in Word : HalvesOf(w) \in [1..2 -> Nat]
  <2>1. HalfRange \subseteq Nat
    BY DEF HalfRange
  <2> QED
    BY <2>1, HalvesType, ZenonT(30)
<1>3. \A c \in 1..4 : c \in 1..16 /\ c + 4 \in 1..16 /\ c + 8 \in 1..16 /\ c + 12 \in 1..16
  OBVIOUS
<1>4. ASSUME NEW c \in 1..4 PROVE ColumnOf(words, c) \in [1..4 -> [1..2 -> Nat]]
  <2>1. /\ HalvesOf(words[c]) \in [1..2 -> Nat] /\ HalvesOf(words[c + 4]) \in [1..2 -> Nat]
        /\ HalvesOf(words[c + 8]) \in [1..2 -> Nat] /\ HalvesOf(words[c + 12]) \in [1..2 -> Nat]
    BY <1>1, <1>2, <1>3
  <2> QED
    BY <2>1 DEF ColumnOf
<1>5. /\ ColumnOf(words, 1) \in [1..4 -> [1..2 -> Nat]] /\ ColumnOf(words, 2) \in [1..4 -> [1..2 -> Nat]]
      /\ ColumnOf(words, 3) \in [1..4 -> [1..2 -> Nat]] /\ ColumnOf(words, 4) \in [1..4 -> [1..2 -> Nat]]
  BY <1>4
<1> QED
  BY <1>5 DEF GridOf, Columns

(* Four columns turned to diagonals, and back.                             *)
Turn(a, b, c, d) ==
  << <<a[1], b[2], c[3], d[4]>>, <<b[1], c[2], d[3], a[4]>>,
     <<c[1], d[2], a[3], b[4]>>, <<d[1], a[2], b[3], c[4]>> >>
Unturn(a, b, c, d) ==
  << <<a[1], d[2], c[3], b[4]>>, <<b[1], a[2], d[3], c[4]>>,
     <<c[1], b[2], a[3], d[4]>>, <<d[1], c[2], b[3], a[4]>> >>

(* The turns that the RFC's double round makes, entry by entry.            *)
LEMMA TurnedIs ==
  ASSUME NEW a, NEW b, NEW c, NEW d
  PROVE  /\ Turned(<<a, b, c, d>>, 1) = Turn(a, b, c, d)
         /\ Turned(<<a, b, c, d>>, -1) = Unturn(a, b, c, d)
<1> DEFINE m == <<a, b, c, d>>
<1>1. m[1] = a /\ m[2] = b /\ m[3] = c /\ m[4] = d
  OBVIOUS
<1> HIDE DEF m
<1>2. \A x, y \in 1..4 : /\ ((x - 1 + 1 * (y - 1)) % 4) + 1 = <<1, 2, 3, 4, 1, 2, 3>>[x + y - 1]
                         /\ ((x - 1 + (-1) * (y - 1)) % 4) + 1 = <<2, 3, 4, 1, 2, 3, 4>>[x - y + 4]
  OBVIOUS
<1>3. \A x, y \in 1..4 : x + y - 1 \in 1..7 /\ x - y + 4 \in 1..7
  OBVIOUS
<1> DEFINE f(x, y) == m[((x - 1 + 1 * (y - 1)) % 4) + 1][y]
           g(x, y) == m[((x - 1 + (-1) * (y - 1)) % 4) + 1][y]
<1>4. /\ f(1, 1) = a[1] /\ f(1, 2) = b[2] /\ f(1, 3) = c[3] /\ f(1, 4) = d[4]
      /\ f(2, 1) = b[1] /\ f(2, 2) = c[2] /\ f(2, 3) = d[3] /\ f(2, 4) = a[4]
      /\ f(3, 1) = c[1] /\ f(3, 2) = d[2] /\ f(3, 3) = a[3] /\ f(3, 4) = b[4]
      /\ f(4, 1) = d[1] /\ f(4, 2) = a[2] /\ f(4, 3) = b[3] /\ f(4, 4) = c[4]
  <2>1. \A x, y \in 1..4 : f(x, y) = m[<<1, 2, 3, 4, 1, 2, 3>>[x + y - 1]][y]
    BY <1>2
  <2> HIDE DEF f
  <2> QED
    BY <1>1, <2>1
<1>5. /\ g(1, 1) = a[1] /\ g(1, 2) = d[2] /\ g(1, 3) = c[3] /\ g(1, 4) = b[4]
      /\ g(2, 1) = b[1] /\ g(2, 2) = a[2] /\ g(2, 3) = d[3] /\ g(2, 4) = c[4]
      /\ g(3, 1) = c[1] /\ g(3, 2) = b[2] /\ g(3, 3) = a[3] /\ g(3, 4) = d[4]
      /\ g(4, 1) = d[1] /\ g(4, 2) = c[2] /\ g(4, 3) = b[3] /\ g(4, 4) = a[4]
  <2>1. \A x, y \in 1..4 : g(x, y) = m[<<2, 3, 4, 1, 2, 3, 4>>[x - y + 4]][y]
    BY <1>2
  <2> HIDE DEF g
  <2> QED
    BY <1>1, <2>1
<1>6. Turned(m, 1) = << <<f(1, 1), f(1, 2), f(1, 3), f(1, 4)>>, <<f(2, 1), f(2, 2), f(2, 3), f(2, 4)>>,
                        <<f(3, 1), f(3, 2), f(3, 3), f(3, 4)>>, <<f(4, 1), f(4, 2), f(4, 3), f(4, 4)>> >>
  BY Zenon DEF Turned, Four
<1>7. Turned(m, -1) = << <<g(1, 1), g(1, 2), g(1, 3), g(1, 4)>>, <<g(2, 1), g(2, 2), g(2, 3), g(2, 4)>>,
                         <<g(3, 1), g(3, 2), g(3, 3), g(3, 4)>>, <<g(4, 1), g(4, 2), g(4, 3), g(4, 4)>> >>
  BY Zenon DEF Turned, Four
<1> HIDE DEF f, g
<1>8. Turned(m, 1) = Turn(a, b, c, d)
  BY <1>4, <1>6, Zenon DEF Turn
<1>9. Turned(m, -1) = Unturn(a, b, c, d)
  BY <1>5, <1>7, Zenon DEF Unturn
<1> QED
  BY <1>8, <1>9 DEF m

(* The RFC's double round: the quarter round of each column, and of each   *)
(* diagonal.                                                               *)
LEMMA RfcDoubleIs ==
  ASSUME NEW a, NEW b, NEW c, NEW d, <<a, b, c, d>> \in Columns
  PROVE  LET t == Turn(RfcQuarter(a), RfcQuarter(b), RfcQuarter(c), RfcQuarter(d))
         IN  RfcDouble[<<a, b, c, d>>] =
               Unturn(RfcQuarter(t[1]), RfcQuarter(t[2]), RfcQuarter(t[3]), RfcQuarter(t[4]))
<1> DEFINE m == <<a, b, c, d>>
           all(x) == <<RfcQuarter(x[1]), RfcQuarter(x[2]), RfcQuarter(x[3]), RfcQuarter(x[4])>>
           t == Turn(RfcQuarter(a), RfcQuarter(b), RfcQuarter(c), RfcQuarter(d))
<1>1. RfcDouble[m] = Turned(all(Turned(all(m), 1)), -1)
  <2>1. m \in Columns
    OBVIOUS
  <2> HIDE DEF m
  <2>2. RfcDouble = [columns \in Columns |-> Turned(all(Turned(all(columns), 1)), -1)]
    BY Zenon DEF RfcDouble, Four
  <2> QED
    BY <2>1, <2>2, Zenon
<1>2. all(m) = <<RfcQuarter(a), RfcQuarter(b), RfcQuarter(c), RfcQuarter(d)>>
  <2>1. m[1] = a /\ m[2] = b /\ m[3] = c /\ m[4] = d
    OBVIOUS
  <2> HIDE DEF m
  <2> QED
    BY <2>1
<1>3. Turned(all(m), 1) = t
  BY <1>2, TurnedIs
<1>4. Turned(all(t), -1) = Unturn(RfcQuarter(t[1]), RfcQuarter(t[2]), RfcQuarter(t[3]), RfcQuarter(t[4]))
  BY TurnedIs
<1> QED
  BY <1>1, <1>3, <1>4

(* A turn of the loop in chacha20_block() is the RFC's double round.       *)
LEMMA DoubleRoundIs ==
  ASSUME NEW words \in Words16
  PROVE  /\ DoubleRound[words] \in Words16
         /\ GridOf(DoubleRound[words]) = RfcDouble[GridOf(words)]
<1>1. PICK f : IsTurn(f, words) /\ DoubleRound[words] = f[8]
  BY DoubleRoundRuns
<1> DEFINE first == [c \in 0..4 |-> f[c]]
           last == [c \in 0..4 |-> f[4 + c]]
           w == f[0]
           m == f[4]
           e == f[8]
<1>2. first \in [0..4 -> Words16] /\ \A c \in 1..4 : first[c] = QuarterRound(first[c - 1], Quarters[0 + c])
  <2>1. \A c \in 1..4 : c \in 0..4 /\ c \in 0..8 /\ c - 1 \in 0..4 /\ c \in 1..8 /\ 0 + c = c
    OBVIOUS
  <2>2. \A c \in 0..4 : c \in 0..8
    OBVIOUS
  <2> QED
    BY <1>1, <2>1, <2>2 DEF IsTurn
<1>3. last \in [0..4 -> Words16] /\ \A c \in 1..4 : last[c] = QuarterRound(last[c - 1], Quarters[4 + c])
  <2>1. \A c \in 1..4 : c \in 0..4 /\ c - 1 \in 0..4 /\ 4 + c \in 1..8 /\ 4 + (c - 1) = (4 + c) - 1
    OBVIOUS
  <2>2. \A c \in 0..4 : 4 + c \in 0..8
    OBVIOUS
  <2>3. \A i \in 1..8 : f[i] = QuarterRound(f[i - 1], Quarters[i])
    BY <1>1 DEF IsTurn
  <2>4. last \in [0..4 -> Words16]
    BY <1>1, <2>2 DEF IsTurn
  <2> QED
    BY <2>1, <2>3, <2>4
<1>4. first[0] = w /\ first[4] = m /\ last[0] = m /\ last[4] = e
  OBVIOUS
<1> HIDE DEF first, last
<1>5. \A c, i \in 1..4 : HalvesOf(m[Quarters[0 + c][i] + 1]) = QuarterAt(w, Quarters[0 + c])[i]
  BY <1>2, <1>4, FourQuarters
<1>6. \A c, i \in 1..4 : HalvesOf(e[Quarters[4 + c][i] + 1]) = QuarterAt(m, Quarters[4 + c])[i]
  BY <1>3, <1>4, FourQuarters
<1>7. w = words /\ e \in Words16
  BY <1>1 DEF IsTurn
<1> HIDE DEF w, m, e
<1>8. 1..4 = {1, 2, 3, 4} /\ 0 + 1 = 1 /\ 0 + 2 = 2 /\ 0 + 3 = 3 /\ 0 + 4 = 4
  OBVIOUS
<1>9. /\ Quarters[1] = <<0, 4, 8, 12>>
      /\ Quarters[2] = <<1, 5, 9, 13>>
      /\ Quarters[3] = <<2, 6, 10, 14>>
      /\ Quarters[4] = <<3, 7, 11, 15>>
      /\ Quarters[5] = <<0, 5, 10, 15>>
      /\ Quarters[6] = <<1, 6, 11, 12>>
      /\ Quarters[7] = <<2, 7, 8, 13>>
      /\ Quarters[8] = <<3, 4, 9, 14>>
  BY DEF Quarters
<1> DEFINE
    qw1 == RfcQuarter(<<HalvesOf(w[1]), HalvesOf(w[5]), HalvesOf(w[9]), HalvesOf(w[13])>>)
    qw2 == RfcQuarter(<<HalvesOf(w[2]), HalvesOf(w[6]), HalvesOf(w[10]), HalvesOf(w[14])>>)
    qw3 == RfcQuarter(<<HalvesOf(w[3]), HalvesOf(w[7]), HalvesOf(w[11]), HalvesOf(w[15])>>)
    qw4 == RfcQuarter(<<HalvesOf(w[4]), HalvesOf(w[8]), HalvesOf(w[12]), HalvesOf(w[16])>>)
    qm1 == RfcQuarter(<<HalvesOf(m[1]), HalvesOf(m[6]), HalvesOf(m[11]), HalvesOf(m[16])>>)
    qm2 == RfcQuarter(<<HalvesOf(m[2]), HalvesOf(m[7]), HalvesOf(m[12]), HalvesOf(m[13])>>)
    qm3 == RfcQuarter(<<HalvesOf(m[3]), HalvesOf(m[8]), HalvesOf(m[9]), HalvesOf(m[14])>>)
    qm4 == RfcQuarter(<<HalvesOf(m[4]), HalvesOf(m[5]), HalvesOf(m[10]), HalvesOf(m[15])>>)
<1>10. QuarterAt(w, Quarters[1]) = qw1 /\ QuarterAt(w, Quarters[2]) = qw2 /\ QuarterAt(w, Quarters[3]) = qw3 /\ QuarterAt(w, Quarters[4]) = qw4
  <2>1. QuarterAt(w, Quarters[1]) = qw1
    <3>1. Quarters[1][1] + 1 = 1 /\ Quarters[1][2] + 1 = 5 /\ Quarters[1][3] + 1 = 9 /\ Quarters[1][4] + 1 = 13
      BY <1>9
    <3> QED
      BY <3>1 DEF QuarterAt
  <2>2. QuarterAt(w, Quarters[2]) = qw2
    <3>1. Quarters[2][1] + 1 = 2 /\ Quarters[2][2] + 1 = 6 /\ Quarters[2][3] + 1 = 10 /\ Quarters[2][4] + 1 = 14
      BY <1>9
    <3> QED
      BY <3>1 DEF QuarterAt
  <2>3. QuarterAt(w, Quarters[3]) = qw3
    <3>1. Quarters[3][1] + 1 = 3 /\ Quarters[3][2] + 1 = 7 /\ Quarters[3][3] + 1 = 11 /\ Quarters[3][4] + 1 = 15
      BY <1>9
    <3> QED
      BY <3>1 DEF QuarterAt
  <2>4. QuarterAt(w, Quarters[4]) = qw4
    <3>1. Quarters[4][1] + 1 = 4 /\ Quarters[4][2] + 1 = 8 /\ Quarters[4][3] + 1 = 12 /\ Quarters[4][4] + 1 = 16
      BY <1>9
    <3> QED
      BY <3>1 DEF QuarterAt
  <2> QED
    BY <2>1, <2>2, <2>3, <2>4
<1>11. QuarterAt(m, Quarters[5]) = qm1 /\ QuarterAt(m, Quarters[6]) = qm2 /\ QuarterAt(m, Quarters[7]) = qm3 /\ QuarterAt(m, Quarters[8]) = qm4
  <2>1. QuarterAt(m, Quarters[5]) = qm1
    <3>1. Quarters[5][1] + 1 = 1 /\ Quarters[5][2] + 1 = 6 /\ Quarters[5][3] + 1 = 11 /\ Quarters[5][4] + 1 = 16
      BY <1>9
    <3> QED
      BY <3>1 DEF QuarterAt
  <2>2. QuarterAt(m, Quarters[6]) = qm2
    <3>1. Quarters[6][1] + 1 = 2 /\ Quarters[6][2] + 1 = 7 /\ Quarters[6][3] + 1 = 12 /\ Quarters[6][4] + 1 = 13
      BY <1>9
    <3> QED
      BY <3>1 DEF QuarterAt
  <2>3. QuarterAt(m, Quarters[7]) = qm3
    <3>1. Quarters[7][1] + 1 = 3 /\ Quarters[7][2] + 1 = 8 /\ Quarters[7][3] + 1 = 9 /\ Quarters[7][4] + 1 = 14
      BY <1>9
    <3> QED
      BY <3>1 DEF QuarterAt
  <2>4. QuarterAt(m, Quarters[8]) = qm4
    <3>1. Quarters[8][1] + 1 = 4 /\ Quarters[8][2] + 1 = 5 /\ Quarters[8][3] + 1 = 10 /\ Quarters[8][4] + 1 = 15
      BY <1>9
    <3> QED
      BY <3>1 DEF QuarterAt
  <2> QED
    BY <2>1, <2>2, <2>3, <2>4
<1> HIDE DEF qw1, qw2, qw3, qw4, qm1, qm2, qm3, qm4
<1>12. /\ HalvesOf(m[1]) = qw1[1] /\ HalvesOf(m[5]) = qw1[2] /\ HalvesOf(m[9]) = qw1[3] /\ HalvesOf(m[13]) = qw1[4]
       /\ HalvesOf(m[2]) = qw2[1] /\ HalvesOf(m[6]) = qw2[2] /\ HalvesOf(m[10]) = qw2[3] /\ HalvesOf(m[14]) = qw2[4]
       /\ HalvesOf(m[3]) = qw3[1] /\ HalvesOf(m[7]) = qw3[2] /\ HalvesOf(m[11]) = qw3[3] /\ HalvesOf(m[15]) = qw3[4]
       /\ HalvesOf(m[4]) = qw4[1] /\ HalvesOf(m[8]) = qw4[2] /\ HalvesOf(m[12]) = qw4[3] /\ HalvesOf(m[16]) = qw4[4]
  <2>1. HalvesOf(m[1]) = qw1[1] /\ HalvesOf(m[5]) = qw1[2] /\ HalvesOf(m[9]) = qw1[3] /\ HalvesOf(m[13]) = qw1[4]
    <3>1. Quarters[1][1] + 1 = 1 /\ Quarters[1][2] + 1 = 5 /\ Quarters[1][3] + 1 = 9 /\ Quarters[1][4] + 1 = 13
      BY <1>9
    <3>2. \A i \in {1, 2, 3, 4} : HalvesOf(m[Quarters[1][i] + 1]) = QuarterAt(w, Quarters[1])[i]
      <4>1. 1 \in 1..4 /\ 0 + 1 = 1
        OBVIOUS
      <4> QED
        BY <1>5, <1>8, <4>1
    <3> QED
      BY <1>10, <3>1, <3>2
  <2>2. HalvesOf(m[2]) = qw2[1] /\ HalvesOf(m[6]) = qw2[2] /\ HalvesOf(m[10]) = qw2[3] /\ HalvesOf(m[14]) = qw2[4]
    <3>1. Quarters[2][1] + 1 = 2 /\ Quarters[2][2] + 1 = 6 /\ Quarters[2][3] + 1 = 10 /\ Quarters[2][4] + 1 = 14
      BY <1>9
    <3>2. \A i \in {1, 2, 3, 4} : HalvesOf(m[Quarters[2][i] + 1]) = QuarterAt(w, Quarters[2])[i]
      <4>1. 2 \in 1..4 /\ 0 + 2 = 2
        OBVIOUS
      <4> QED
        BY <1>5, <1>8, <4>1
    <3> QED
      BY <1>10, <3>1, <3>2
  <2>3. HalvesOf(m[3]) = qw3[1] /\ HalvesOf(m[7]) = qw3[2] /\ HalvesOf(m[11]) = qw3[3] /\ HalvesOf(m[15]) = qw3[4]
    <3>1. Quarters[3][1] + 1 = 3 /\ Quarters[3][2] + 1 = 7 /\ Quarters[3][3] + 1 = 11 /\ Quarters[3][4] + 1 = 15
      BY <1>9
    <3>2. \A i \in {1, 2, 3, 4} : HalvesOf(m[Quarters[3][i] + 1]) = QuarterAt(w, Quarters[3])[i]
      <4>1. 3 \in 1..4 /\ 0 + 3 = 3
        OBVIOUS
      <4> QED
        BY <1>5, <1>8, <4>1
    <3> QED
      BY <1>10, <3>1, <3>2
  <2>4. HalvesOf(m[4]) = qw4[1] /\ HalvesOf(m[8]) = qw4[2] /\ HalvesOf(m[12]) = qw4[3] /\ HalvesOf(m[16]) = qw4[4]
    <3>1. Quarters[4][1] + 1 = 4 /\ Quarters[4][2] + 1 = 8 /\ Quarters[4][3] + 1 = 12 /\ Quarters[4][4] + 1 = 16
      BY <1>9
    <3>2. \A i \in {1, 2, 3, 4} : HalvesOf(m[Quarters[4][i] + 1]) = QuarterAt(w, Quarters[4])[i]
      <4>1. 4 \in 1..4 /\ 0 + 4 = 4
        OBVIOUS
      <4> QED
        BY <1>5, <1>8, <4>1
    <3> QED
      BY <1>10, <3>1, <3>2
  <2> QED
    BY <2>1, <2>2, <2>3, <2>4
<1>13. /\ HalvesOf(e[1]) = qm1[1] /\ HalvesOf(e[6]) = qm1[2] /\ HalvesOf(e[11]) = qm1[3] /\ HalvesOf(e[16]) = qm1[4]
       /\ HalvesOf(e[2]) = qm2[1] /\ HalvesOf(e[7]) = qm2[2] /\ HalvesOf(e[12]) = qm2[3] /\ HalvesOf(e[13]) = qm2[4]
       /\ HalvesOf(e[3]) = qm3[1] /\ HalvesOf(e[8]) = qm3[2] /\ HalvesOf(e[9]) = qm3[3] /\ HalvesOf(e[14]) = qm3[4]
       /\ HalvesOf(e[4]) = qm4[1] /\ HalvesOf(e[5]) = qm4[2] /\ HalvesOf(e[10]) = qm4[3] /\ HalvesOf(e[15]) = qm4[4]
  <2>1. HalvesOf(e[1]) = qm1[1] /\ HalvesOf(e[6]) = qm1[2] /\ HalvesOf(e[11]) = qm1[3] /\ HalvesOf(e[16]) = qm1[4]
    <3>1. Quarters[5][1] + 1 = 1 /\ Quarters[5][2] + 1 = 6 /\ Quarters[5][3] + 1 = 11 /\ Quarters[5][4] + 1 = 16
      BY <1>9
    <3>2. \A i \in {1, 2, 3, 4} : HalvesOf(e[Quarters[5][i] + 1]) = QuarterAt(m, Quarters[5])[i]
      <4>1. 1 \in 1..4 /\ 4 + 1 = 5
        OBVIOUS
      <4> QED
        BY <1>6, <1>8, <4>1
    <3> QED
      BY <1>11, <3>1, <3>2
  <2>2. HalvesOf(e[2]) = qm2[1] /\ HalvesOf(e[7]) = qm2[2] /\ HalvesOf(e[12]) = qm2[3] /\ HalvesOf(e[13]) = qm2[4]
    <3>1. Quarters[6][1] + 1 = 2 /\ Quarters[6][2] + 1 = 7 /\ Quarters[6][3] + 1 = 12 /\ Quarters[6][4] + 1 = 13
      BY <1>9
    <3>2. \A i \in {1, 2, 3, 4} : HalvesOf(e[Quarters[6][i] + 1]) = QuarterAt(m, Quarters[6])[i]
      <4>1. 2 \in 1..4 /\ 4 + 2 = 6
        OBVIOUS
      <4> QED
        BY <1>6, <1>8, <4>1
    <3> QED
      BY <1>11, <3>1, <3>2
  <2>3. HalvesOf(e[3]) = qm3[1] /\ HalvesOf(e[8]) = qm3[2] /\ HalvesOf(e[9]) = qm3[3] /\ HalvesOf(e[14]) = qm3[4]
    <3>1. Quarters[7][1] + 1 = 3 /\ Quarters[7][2] + 1 = 8 /\ Quarters[7][3] + 1 = 9 /\ Quarters[7][4] + 1 = 14
      BY <1>9
    <3>2. \A i \in {1, 2, 3, 4} : HalvesOf(e[Quarters[7][i] + 1]) = QuarterAt(m, Quarters[7])[i]
      <4>1. 3 \in 1..4 /\ 4 + 3 = 7
        OBVIOUS
      <4> QED
        BY <1>6, <1>8, <4>1
    <3> QED
      BY <1>11, <3>1, <3>2
  <2>4. HalvesOf(e[4]) = qm4[1] /\ HalvesOf(e[5]) = qm4[2] /\ HalvesOf(e[10]) = qm4[3] /\ HalvesOf(e[15]) = qm4[4]
    <3>1. Quarters[8][1] + 1 = 4 /\ Quarters[8][2] + 1 = 5 /\ Quarters[8][3] + 1 = 10 /\ Quarters[8][4] + 1 = 15
      BY <1>9
    <3>2. \A i \in {1, 2, 3, 4} : HalvesOf(e[Quarters[8][i] + 1]) = QuarterAt(m, Quarters[8])[i]
      <4>1. 4 \in 1..4 /\ 4 + 4 = 8
        OBVIOUS
      <4> QED
        BY <1>6, <1>8, <4>1
    <3> QED
      BY <1>11, <3>1, <3>2
  <2> QED
    BY <2>1, <2>2, <2>3, <2>4
<1>14. GridOf(w) \in Columns
  BY <1>7, GridType
<1>15. RfcQuarter(ColumnOf(w, 1)) = qw1 /\ RfcQuarter(ColumnOf(w, 2)) = qw2
    /\ RfcQuarter(ColumnOf(w, 3)) = qw3 /\ RfcQuarter(ColumnOf(w, 4)) = qw4
  BY DEF ColumnOf, qw1, qw2, qw3, qw4
<1> DEFINE t == Turn(qw1, qw2, qw3, qw4)
<1>16. RfcDouble[GridOf(w)] = Unturn(RfcQuarter(t[1]), RfcQuarter(t[2]), RfcQuarter(t[3]), RfcQuarter(t[4]))
  <2>1. GridOf(w) = <<ColumnOf(w, 1), ColumnOf(w, 2), ColumnOf(w, 3), ColumnOf(w, 4)>>
    BY DEF GridOf
  <2> QED
    BY <1>14, <1>15, <2>1, RfcDoubleIs
<1>17. RfcQuarter(t[1]) = qm1 /\ RfcQuarter(t[2]) = qm2 /\ RfcQuarter(t[3]) = qm3 /\ RfcQuarter(t[4]) = qm4
  <2>1. /\ t[1] = <<HalvesOf(m[1]), HalvesOf(m[6]), HalvesOf(m[11]), HalvesOf(m[16])>>
        /\ t[2] = <<HalvesOf(m[2]), HalvesOf(m[7]), HalvesOf(m[12]), HalvesOf(m[13])>>
        /\ t[3] = <<HalvesOf(m[3]), HalvesOf(m[8]), HalvesOf(m[9]), HalvesOf(m[14])>>
        /\ t[4] = <<HalvesOf(m[4]), HalvesOf(m[5]), HalvesOf(m[10]), HalvesOf(m[15])>>
    <3>1. /\ t[1] = <<qw1[1], qw2[2], qw3[3], qw4[4]>> /\ t[2] = <<qw2[1], qw3[2], qw4[3], qw1[4]>>
          /\ t[3] = <<qw3[1], qw4[2], qw1[3], qw2[4]>> /\ t[4] = <<qw4[1], qw1[2], qw2[3], qw3[4]>>
      BY DEF Turn
    <3> HIDE DEF t
    <3> QED
      BY <1>12, <3>1
  <2> HIDE DEF t
  <2> QED
    BY <2>1 DEF qm1, qm2, qm3, qm4
<1>18. GridOf(e) = Unturn(qm1, qm2, qm3, qm4)
  <2>1. 1 + 4 = 5 /\ 1 + 8 = 9 /\ 1 + 12 = 13 /\ 2 + 4 = 6 /\ 2 + 8 = 10 /\ 2 + 12 = 14
     /\ 3 + 4 = 7 /\ 3 + 8 = 11 /\ 3 + 12 = 15 /\ 4 + 4 = 8 /\ 4 + 8 = 12 /\ 4 + 12 = 16
    OBVIOUS
  <2>2. /\ ColumnOf(e, 1) = <<qm1[1], qm4[2], qm3[3], qm2[4]>> /\ ColumnOf(e, 2) = <<qm2[1], qm1[2], qm4[3], qm3[4]>>
        /\ ColumnOf(e, 3) = <<qm3[1], qm2[2], qm1[3], qm4[4]>> /\ ColumnOf(e, 4) = <<qm4[1], qm3[2], qm2[3], qm1[4]>>
    BY <1>13, <2>1 DEF ColumnOf
  <2> QED
    BY <2>2 DEF GridOf, Unturn
<1> QED
  BY <1>1, <1>7, <1>16, <1>17, <1>18 DEF e

(* The turns of the loop of chacha20_block(), and what it writes then.     *)
IsBlockRun(working, start) ==
  /\ working \in [0..10 -> Words16]
  /\ working[0] = start
  /\ \A i \in 1..10 : working[i] = DoubleRound[working[i - 1]]

(* The ten turns run through, and then the state they began with is added. *)
LEMMA ChaChaBlockRuns ==
  ASSUME NEW start \in Words16
  PROVE  \E f : /\ IsBlockRun(f, start)
                /\ ChaChaBlock(start) = Joined(4, [i \in 1..16 |-> Plus(f[10][i], start[i])])
<1> DEFINE working == CHOOSE g : g = [i \in 0..10 |-> IF i = 0 THEN start ELSE DoubleRound[g[i - 1]]]
           n == 10
           step == [i \in 1..n |-> [w \in Words16 |-> DoubleRound[w]]]
<1>2. Loop(n, Words16, start, step)
  BY DoubleRoundType DEF Loop
<1>3. \A i \in 1..n, w \in Words16 : step[i][w] = DoubleRound[w]
  OBVIOUS
<1> HIDE DEF step, n
<1>4. PICK f : IsRun(f, n, Words16, start, step)
  BY <1>2, Iteration
<1>5. f = [i \in 0..10 |-> IF i = 0 THEN start ELSE DoubleRound[f[i - 1]]]
  <2>1. \A i \in 1..n : f[i] = DoubleRound[f[i - 1]]
    <3>1. \A i \in 1..n : i - 1 \in 0..n
      BY DEF n
    <3> QED
      BY <1>3, <1>4, <3>1 DEF IsRun
  <2> QED
    BY <1>4, <2>1 DEF IsRun, n
<1>6. working = [i \in 0..10 |-> IF i = 0 THEN start ELSE DoubleRound[working[i - 1]]]
  BY <1>5
<1>7. ChaChaBlock(start) = Joined(4, [i \in 1..16 |-> Plus(working[10][i], start[i])])
  BY DEF ChaChaBlock
<1> HIDE DEF working
<1>8. Follows(working, n, Words16, start, step)
  BY <1>3, <1>6 DEF Follows, n
<1>9. \A i \in 0..n : working[i] \in Words16
  BY <1>2, <1>8, StaysIn
<1>10. working \in [0..10 -> Words16] /\ working[0] = start
  BY <1>6, <1>9 DEF n
<1>11. \A i \in 1..10 : working[i] = DoubleRound[working[i - 1]]
  BY <1>6
<1>12. IsBlockRun(working, start)
  BY <1>10, <1>11 DEF IsBlockRun
<1> QED
  BY <1>7, <1>12

(* Where a word of the state is in the RFC's columns.                      *)
LEMMA GridAt ==
  ASSUME NEW words, NEW i \in 1..16
  PROVE  GridOf(words)[((i - 1) % 4) + 1][((i - 1) \div 4) + 1] = HalvesOf(words[i])
<1>1. 1 + 4 = 5 /\ 1 + 8 = 9 /\ 1 + 12 = 13 /\ 2 + 4 = 6 /\ 2 + 8 = 10 /\ 2 + 12 = 14
      /\ 3 + 4 = 7 /\ 3 + 8 = 11 /\ 3 + 12 = 15 /\ 4 + 4 = 8 /\ 4 + 8 = 12 /\ 4 + 12 = 16
  OBVIOUS
<1> DEFINE h(k) == HalvesOf(words[k])
<1>2. /\ GridOf(words)[1] = <<h(1), h(5), h(9), h(13)>> /\ GridOf(words)[2] = <<h(2), h(6), h(10), h(14)>>
      /\ GridOf(words)[3] = <<h(3), h(7), h(11), h(15)>> /\ GridOf(words)[4] = <<h(4), h(8), h(12), h(16)>>
  BY <1>1 DEF GridOf, ColumnOf
<1> HIDE DEF h
<1>3. PICK c \in {1, 2, 3, 4}, r \in {1, 2, 3, 4} : c = ((i - 1) % 4) + 1 /\ r = ((i - 1) \div 4) + 1
  OBVIOUS
<1>4. i = 4 * (r - 1) + c
  BY <1>3
<1>5. GridOf(words)[c][r] = h(4 * (r - 1) + c)
  <2>1. CASE r = 1
    <3>1. 4 * (r - 1) + c = c
      BY <2>1
    <3> QED
      BY <1>2, <2>1, <3>1
  <2>2. CASE r = 2
    <3>1. 4 * (r - 1) + c = c + 4
      BY <2>2
    <3> QED
      BY <1>1, <1>2, <2>2, <3>1
  <2>3. CASE r = 3
    <3>1. 4 * (r - 1) + c = c + 8
      BY <2>3
    <3> QED
      BY <1>1, <1>2, <2>3, <3>1
  <2>4. CASE r = 4
    <3>1. 4 * (r - 1) + c = c + 12
      BY <2>4
    <3> QED
      BY <1>1, <1>2, <2>4, <3>1
  <2> QED
    BY <2>1, <2>2, <2>3, <2>4
<1> QED
  BY <1>3, <1>4, <1>5 DEF h

(* A sum of halves, as bytes, is the sum of the words.                     *)
LEMMA SumBack ==
  ASSUME NEW a \in Word, NEW b \in Word
  PROVE  BytesOf(SumOf(HalvesOf(a), HalvesOf(b))) = Plus(b, a)
<1>1. PICK x \in HalfRange, y \in HalfRange, u \in HalfRange, v \in HalfRange :
        /\ x = HalvesOf(a)[1] /\ y = HalvesOf(a)[2] /\ u = HalvesOf(b)[1] /\ v = HalvesOf(b)[2]
  BY HalvesType
<1>2. SumOf(HalvesOf(a), HalvesOf(b)) = SumOf(HalvesOf(b), HalvesOf(a))
  <2>1. x + u = u + x /\ y + v = v + y
    BY <1>1 DEF HalfRange
  <2>2. /\ SumOf(HalvesOf(a), HalvesOf(b)) = <<(x + u) % Half, (y + v + ((x + u) \div Half)) % Half>>
        /\ SumOf(HalvesOf(b), HalvesOf(a)) = <<(u + x) % Half, (v + y + ((u + x) \div Half)) % Half>>
    BY <1>1 DEF SumOf
  <2> QED
    BY <2>1, <2>2
<1>3. Plus(b, a) \in Word /\ HalvesOf(Plus(b, a)) = SumOf(HalvesOf(b), HalvesOf(a))
  BY SumIs, PlusType
<1>4. BytesOf(HalvesOf(Plus(b, a))) = Plus(b, a)
  BY <1>3, HalvesType
<1> QED
  BY <1>2, <1>3, <1>4

(* What chacha20_block() makes of a state is what the RFC's block function *)
(* makes of the bytes that the state was read from.                        *)
Input(key, nonce, counter) == Joined(4, ChaChaConstants) \o key \o counter \o nonce

(* They are the same when the words of the state are those bytes, four by  *)
(* four.                                                                   *)
LEMMA RfcBlockIs ==
  ASSUME NEW key, NEW nonce, NEW counter, NEW start \in Words16,
         \A i \in 1..16 : start[i] = SubSeq(Input(key, nonce, counter), 4 * i - 3, 4 * i)
  PROVE  ChaChaBlock(start) = RfcBlock(key, nonce, counter)
<1> DEFINE bytes == Input(key, nonce, counter)
           word(c, r) == HalvesOf(SubSeq(bytes, 16 * (r - 1) + 4 * c - 3, 16 * (r - 1) + 4 * c))
           first == << <<word(1, 1), word(1, 2), word(1, 3), word(1, 4)>>, <<word(2, 1), word(2, 2), word(2, 3), word(2, 4)>>,
                       <<word(3, 1), word(3, 2), word(3, 3), word(3, 4)>>, <<word(4, 1), word(4, 2), word(4, 3), word(4, 4)>> >>
           after == CHOOSE g : g = [i \in 0..10 |-> IF i = 0 THEN first ELSE RfcDouble[g[i - 1]]]
           sum(k) == SumOf(first[(k % 4) + 1][(k \div 4) + 1], after[10][(k % 4) + 1][(k \div 4) + 1])
<1>1. RfcBlock(key, nonce, counter) = Joined(4, [i \in 1..16 |-> BytesOf(sum(i - 1))])
  BY Zenon DEF RfcBlock, Four, Input
<1>2. first = GridOf(start)
  <2>1. \A c, r \in 1..4 : /\ 4 * (r - 1) + c \in 1..16
                           /\ 4 * (4 * (r - 1) + c) = 16 * (r - 1) + 4 * c
                           /\ 4 * (4 * (r - 1) + c) - 3 = 16 * (r - 1) + 4 * c - 3
    OBVIOUS
  <2>2. \A c, r \in 1..4 : word(c, r) = HalvesOf(start[4 * (r - 1) + c])
    BY <2>1
  <2> HIDE DEF word
  <2>3. \A c \in 1..4 : 4 * (1 - 1) + c = c /\ 4 * (2 - 1) + c = c + 4 /\ 4 * (3 - 1) + c = c + 8 /\ 4 * (4 - 1) + c = c + 12
    OBVIOUS
  <2>4. \A c \in 1..4 : <<word(c, 1), word(c, 2), word(c, 3), word(c, 4)>> = ColumnOf(start, c)
    <3>1. 1 \in 1..4 /\ 2 \in 1..4 /\ 3 \in 1..4 /\ 4 \in 1..4
      OBVIOUS
    <3>2. \A c \in 1..4 : /\ word(c, 1) = HalvesOf(start[c]) /\ word(c, 2) = HalvesOf(start[c + 4])
                          /\ word(c, 3) = HalvesOf(start[c + 8]) /\ word(c, 4) = HalvesOf(start[c + 12])
      BY <2>2, <2>3, <3>1
    <3> QED
      BY <3>2, Zenon DEF ColumnOf
  <2>5. 1 \in 1..4 /\ 2 \in 1..4 /\ 3 \in 1..4 /\ 4 \in 1..4
    OBVIOUS
  <2> QED
    BY <2>4, <2>5, Zenon DEF GridOf
<1> HIDE DEF first
<1>3. PICK f : /\ IsBlockRun(f, start)
               /\ ChaChaBlock(start) = Joined(4, [i \in 1..16 |-> Plus(f[10][i], start[i])])
  BY ChaChaBlockRuns
<1> DEFINE h == [i \in 0..10 |-> GridOf(f[i])]
<1>4. \A i \in 1..10 : i - 1 \in 0..10 /\ i \in 0..10
  OBVIOUS
<1>5. \A i \in 1..10 : GridOf(f[i]) = RfcDouble[GridOf(f[i - 1])]
  BY <1>3, <1>4, DoubleRoundIs DEF IsBlockRun
<1>6. h[0] = first /\ \A i \in 1..10 : h[i] = RfcDouble[h[i - 1]]
  BY <1>2, <1>3, <1>4, <1>5 DEF IsBlockRun
<1>7. h = [i \in 0..10 |-> IF i = 0 THEN first ELSE RfcDouble[h[i - 1]]]
  <2> DEFINE k == [i \in 0..10 |-> IF i = 0 THEN first ELSE RfcDouble[h[i - 1]]]
  <2>1. \A i \in 0..10 : i = 0 \/ i \in 1..10
    OBVIOUS
  <2>2. \A i \in 0..10 : h[i] = k[i]
    <3> HIDE DEF h
    <3> QED
      BY <1>6, <2>1
  <2>3. h = [i \in 0..10 |-> h[i]] /\ k = [i \in 0..10 |-> k[i]]
    OBVIOUS
  <2> HIDE DEF h, k
  <2>4. h = k
    BY <2>2, <2>3
  <2> QED
    BY <2>4 DEF k
<1> HIDE DEF h
<1>8. after = [i \in 0..10 |-> IF i = 0 THEN first ELSE RfcDouble[after[i - 1]]]
  BY <1>7, Zenon
<1> HIDE DEF after
<1>9. after[10] = h[10]
  <2> DEFINE T == {i \in 0..10 : after[i] = h[i]}
  <2>1. 0 \in T
    BY <1>6, <1>8
  <2>2. \A i \in 1..10 : i - 1 \in T => i \in T
    BY <1>4, <1>6, <1>8
  <2>3. 10 \in Nat
    OBVIOUS
  <2> HIDE DEF T
  <2>4. \A i \in 0..10 : i \in T
    BY <2>1, <2>2, <2>3, UpTo
  <2> QED
    BY <2>4 DEF T
<1>10. after[10] = GridOf(f[10])
  BY <1>9 DEF h
<1>11. f[10] \in Words16
  BY <1>3 DEF IsBlockRun
<1>12. ASSUME NEW i \in 1..16 PROVE BytesOf(sum(i - 1)) = Plus(f[10][i], start[i])
  <2>1. sum(i - 1) = SumOf(HalvesOf(start[i]), HalvesOf(f[10][i]))
    BY <1>2, <1>10, GridAt
  <2>2. start[i] \in Word /\ f[10][i] \in Word
    BY <1>11 DEF Words16
  <2> HIDE DEF sum
  <2> QED
    BY <2>1, <2>2, SumBack
<1>13. [i \in 1..16 |-> BytesOf(sum(i - 1))] = [i \in 1..16 |-> Plus(f[10][i], start[i])]
  <2> HIDE DEF sum
  <2> QED
    BY <1>12
<1> QED
  BY <1>1, <1>3, <1>13

(* A counter one more, as the RFC adds to it.                              *)
LEMMA NextIs ==
  ASSUME NEW x \in HalfRange, NEW y \in HalfRange, NEW i \in Nat
  PROVE  SumOf(SumOf(<<x, y>>, <<i, 0>>), <<1, 0>>) = SumOf(<<x, y>>, <<i + 1, 0>>)
<1>1. Half = 65536
  <2>1. 2^16 = 65536
    OBVIOUS
  <2> QED
    BY <2>1 DEF Half
<1>2. PICK q \in Nat, r \in HalfRange : x + i = 65536 * q + r
  <2>1. PICK u \in Nat : u = x + i
    BY DEF HalfRange
  <2>2. u = 65536 * (u \div 65536) + (u % 65536) /\ u \div 65536 \in Nat /\ u % 65536 \in HalfRange
    BY DEF HalfRange
  <2> QED
    BY <2>1, <2>2
<1>3. PICK p \in Nat, z \in HalfRange : y + q = 65536 * p + z
  <2>1. PICK u \in Nat : u = y + q
    BY DEF HalfRange
  <2>2. u = 65536 * (u \div 65536) + (u % 65536) /\ u \div 65536 \in Nat /\ u % 65536 \in HalfRange
    BY DEF HalfRange
  <2> QED
    BY <2>1, <2>2
<1>4. (x + i) % 65536 = r /\ (x + i) \div 65536 = q
  BY <1>2 DEF HalfRange
<1>5. (y + 0 + q) % 65536 = z
  BY <1>3 DEF HalfRange
<1>6. SumOf(<<x, y>>, <<i, 0>>) = <<r, z>>
  <2>1. SumOf(<<x, y>>, <<i, 0>>) = <<(x + i) % 65536, (y + 0 + ((x + i) \div 65536)) % 65536>>
    BY <1>1 DEF SumOf
  <2> QED
    BY <1>4, <1>5, <2>1
<1>7. SumOf(<<r, z>>, <<1, 0>>) = <<(r + 1) % 65536, (z + 0 + ((r + 1) \div 65536)) % 65536>>
  BY <1>1 DEF SumOf
<1>8. SumOf(<<x, y>>, <<i + 1, 0>>) = <<(x + (i + 1)) % 65536, (y + 0 + ((x + (i + 1)) \div 65536)) % 65536>>
  BY <1>1 DEF SumOf
<1>9. CASE r < 65535
  <2>1. (r + 1) % 65536 = r + 1 /\ (r + 1) \div 65536 = 0
    BY <1>9, <1>2 DEF HalfRange
  <2>2. (x + (i + 1)) % 65536 = r + 1 /\ (x + (i + 1)) \div 65536 = q
    <3>1. x + (i + 1) = 65536 * q + (r + 1) /\ r + 1 \in HalfRange
      BY <1>9, <1>2 DEF HalfRange
    <3> QED
      BY <1>2, <3>1 DEF HalfRange
  <2>3. (z + 0 + 0) % 65536 = z
    BY <1>3 DEF HalfRange
  <2>4. SumOf(<<r, z>>, <<1, 0>>) = <<r + 1, z>>
    <3>1. z + 0 + ((r + 1) \div 65536) = z + 0 + 0
      BY <2>1
    <3> QED
      BY <1>7, <2>1, <2>3, <3>1
  <2>5. SumOf(<<x, y>>, <<i + 1, 0>>) = <<r + 1, z>>
    BY <1>5, <1>8, <2>2
  <2> QED
    BY <1>6, <2>4, <2>5
<1>10. CASE r = 65535
  <2>1. (r + 1) % 65536 = 0 /\ (r + 1) \div 65536 = 1
    BY <1>10
  <2>2. (x + (i + 1)) % 65536 = 0 /\ (x + (i + 1)) \div 65536 = q + 1
    <3>1. x + (i + 1) = 65536 * (q + 1) + 0
      BY <1>10, <1>2 DEF HalfRange
    <3> QED
      BY <1>2, <3>1 DEF HalfRange
  <2>3. (y + 0 + (q + 1)) % 65536 = (z + 0 + 1) % 65536
    <3>1. y + 0 + (q + 1) = 65536 * p + (z + 1)
      BY <1>2, <1>3 DEF HalfRange
    <3>2. CASE z < 65535
      BY <1>3, <3>1, <3>2 DEF HalfRange
    <3>3. CASE z = 65535
      <4>1. 65536 * p + (z + 1) = 65536 * (p + 1)
        BY <1>3, <3>3
      <4> QED
        BY <1>3, <3>1, <3>3, <4>1
    <3> QED
      BY <1>3, <3>2, <3>3 DEF HalfRange
  <2>4. SumOf(<<r, z>>, <<1, 0>>) = <<0, (z + 0 + 1) % 65536>>
    BY <1>7, <2>1
  <2>5. SumOf(<<x, y>>, <<i + 1, 0>>) = <<0, (y + 0 + (q + 1)) % 65536>>
    BY <1>8, <2>2
  <2> QED
    BY <1>6, <2>3, <2>4, <2>5
<1> QED
  BY <1>2, <1>9, <1>10 DEF HalfRange

(* The counter of block i is i more than that of the first block.          *)
LEMMA CounterIs ==
  ASSUME NEW n \in Nat, NEW counter \in [0..n -> Word],
         \A i \in 1..n : counter[i] = NextCounter(counter[i - 1])
  PROVE  \A i \in 0..n : counter[i] = BytesOf(SumOf(HalvesOf(counter[0]), <<i, 0>>))
<1> DEFINE h == HalvesOf(counter[0])
           T == {i \in 0..n : HalvesOf(counter[i]) = SumOf(h, <<i, 0>>)}
<1>1. 0 \in 0..n /\ counter[0] \in Word
  OBVIOUS
<1>2. PICK x \in HalfRange, y \in HalfRange : h = <<x, y>>
  BY <1>1, HalvesType
<1> HIDE DEF h
<1>3. 0 \in T
  <2>1. Half = 65536
    <3>1. 2^16 = 65536
      OBVIOUS
    <3> QED
      BY <3>1 DEF Half
  <2>2. SumOf(<<x, y>>, <<0, 0>>) = <<(x + 0) % 65536, (y + 0 + ((x + 0) \div 65536)) % 65536>>
    BY <2>1 DEF SumOf
  <2>3. (x + 0) % 65536 = x /\ (x + 0) \div 65536 = 0 /\ (y + 0 + 0) % 65536 = y
    BY <1>2 DEF HalfRange
  <2>4. SumOf(h, <<0, 0>>) = h
    BY <1>2, <2>2, <2>3
  <2> QED
    BY <1>1, <2>4 DEF h
<1>4. ASSUME NEW i \in 1..n, i - 1 \in T PROVE i \in T
  <2>1. i - 1 \in 0..n /\ i \in 0..n /\ (i - 1) + 1 = i /\ i - 1 \in Nat
    OBVIOUS
  <2>2. counter[i - 1] \in Word /\ <<1, 0, 0, 0>> \in Word
    BY <2>1 DEF Word, Byte
  <2>3. HalvesOf(<<1, 0, 0, 0>>) = <<1, 0>>
    <3>1. 1 + 256 * 0 = 1 /\ 0 + 256 * 0 = 0
      OBVIOUS
    <3> QED
      BY <3>1 DEF HalvesOf
  <2>4. HalvesOf(counter[i]) = SumOf(HalvesOf(counter[i - 1]), <<1, 0>>)
    BY <2>2, <2>3, SumIs DEF NextCounter
  <2>5. HalvesOf(counter[i - 1]) = SumOf(<<x, y>>, <<i - 1, 0>>)
    BY <1>2, <1>4
  <2>6. SumOf(SumOf(<<x, y>>, <<i - 1, 0>>), <<1, 0>>) = SumOf(<<x, y>>, <<i, 0>>)
    BY <1>2, <2>1, NextIs
  <2> QED
    BY <1>2, <2>1, <2>4, <2>5, <2>6
<1>5. \A i \in 1..n : i - 1 \in T => i \in T
  BY <1>4
<1> HIDE DEF T
<1>6. \A i \in 0..n : i \in T
  BY <1>3, <1>5, UpTo
<1>7. \A i \in 0..n : HalvesOf(counter[i]) = SumOf(h, <<i, 0>>)
  BY <1>6, Zenon DEF T
<1> QED
  BY <1>7, HalvesType, Zenon DEF h

(* Two sequences one after the other.                                      *)
AreBehind(both, s, t) ==
  /\ Len(both) = Len(s) + Len(t)
  /\ \A i \in 1..Len(s) : both[i] = s[i]
  /\ \A i \in 1..Len(t) : both[Len(s) + i] = t[i]

(* Each element of two such sequences is in what they make.                *)
LEMMA Behind ==
  ASSUME NEW V, NEW s \in Seq(V), NEW t \in Seq(V)
  PROVE  s \o t \in Seq(V) /\ AreBehind(s \o t, s, t)
<1>1. Len(s) \in Nat /\ Len(t) \in Nat
  BY LenProperties
<1>2. s \o t \in Seq(V) /\ Len(s \o t) = Len(s) + Len(t)
  BY ConcatProperties
<1>3. \A i \in 1..(Len(s) + Len(t)) : (s \o t)[i] = IF i <= Len(s) THEN s[i] ELSE t[i - Len(s)]
  BY ConcatProperties
<1>4. ASSUME NEW i \in 1..Len(s) PROVE (s \o t)[i] = s[i]
  <2>1. i \in 1..(Len(s) + Len(t)) /\ i <= Len(s)
    BY <1>1
  <2> QED
    BY <1>3, <2>1
<1>5. ASSUME NEW i \in 1..Len(t) PROVE (s \o t)[Len(s) + i] = t[i]
  <2>1. Len(s) + i \in 1..(Len(s) + Len(t)) /\ ~(Len(s) + i <= Len(s)) /\ (Len(s) + i) - Len(s) = i
    BY <1>1
  <2> QED
    BY <1>3, <2>1
<1> QED
  BY <1>2, <1>4, <1>5 DEF AreBehind

(* The counter that a key has, and the state that is set up from a key     *)
(* and a counter.                                                          *)
CounterOf(key) == IF Len(key) = 48 THEN SubSeq(key, 45, 48) ELSE <<0, 0, 0, 0>>

(* The counter is a word, four bytes of a key that has 48 and else zero.   *)
LEMMA CounterType ==
  ASSUME NEW key \in Seq(Byte), Len(key) \in 44..48
  PROVE  /\ CounterOf(key) \in Word
         /\ CounterOf(key) = IF Len(key) >= 48 THEN SubSeq(key, 45, 48) ELSE <<0, 0, 0, 0>>
<1>0. Len(key) \in Nat /\ (Len(key) >= 48 <=> Len(key) = 48)
  <2>1. \A n \in 44..48 : n \in Nat /\ (n >= 48 <=> n = 48)
    OBVIOUS
  <2> QED
    BY <2>1
<1>1. Len(key) >= 48 <=> Len(key) = 48
  BY <1>0
<1>2. CASE Len(key) = 48
  <2>1. SubSeq(key, 45, 48) \in Seq(Byte) /\ Len(SubSeq(key, 45, 48)) = 4
    <3> DEFINE first == 45
               last == 48
    <3>1. first \in Nat /\ last \in Nat /\ 1 <= first /\ first <= last + 1 /\ last <= Len(key)
      BY <1>2
    <3> HIDE DEF first, last
    <3>2. SubSeq(key, first, last) \in Seq(Byte) /\ Len(SubSeq(key, first, last)) = last + 1 - first
      BY <3>1, PartOf
    <3> USE DEF first, last
    <3> QED
      BY <3>2
  <2> QED
    BY <1>1, <1>2, <2>1, WordIs DEF CounterOf
<1>3. CASE Len(key) # 48
  <2>1. <<0, 0, 0, 0>> \in Word
    BY DEF Word, Byte
  <2> QED
    BY <1>1, <1>3, <2>1 DEF CounterOf
<1> QED
  BY <1>2, <1>3

(* What chacha20_crypt() sets up: constants, key, counter and nonce, in    *)
(* this order.                                                             *)
LEMMA StateOf ==
  ASSUME NEW key \in Seq(Byte), Len(key) \in 44..48
  PROVE  LET start == ChaChaState(key)
         IN  /\ start \in Words16
             /\ \A i \in 1..4 : start[i] = ChaChaConstants[i]
             /\ \A i \in 1..8 : start[4 + i] = SubSeq(SubSeq(key, 1, 32), 4 * i - 3, 4 * i)
             /\ start[13] = CounterOf(key)
             /\ \A i \in 1..3 : start[13 + i] = SubSeq(SubSeq(key, 33, 44), 4 * i - 3, 4 * i)
<1>0. Len(key) \in Nat /\ 44 <= Len(key)
  <2>1. \A n \in 44..48 : n \in Nat /\ 44 <= n
    OBVIOUS
  <2> QED
    BY <2>1
<1> DEFINE k == Words(SubSeq(key, 1, 32))
           c == CounterOf(key)
           nonce == Words(SubSeq(key, 33, 44))
<1>1. k \in [1..8 -> Word] /\ \A i \in 1..8 : k[i] = SubSeq(SubSeq(key, 1, 32), 4 * i - 3, 4 * i)
  <2>1. 1 \in Nat /\ 32 \in Nat /\ 32 <= Len(key) /\ 32 + 1 - 1 = 4 * 8 /\ 1 <= 32 + 1 /\ 8 \in Nat
    BY <1>0
  <2>2. SubSeq(key, 1, 32) \in Seq(Byte) /\ Len(SubSeq(key, 1, 32)) = 4 * 8
    <3> DEFINE first == 1
               last == 32
    <3>1. first \in Nat /\ last \in Nat /\ 1 <= first /\ first <= last + 1 /\ last <= Len(key)
      BY <2>1
    <3> HIDE DEF first, last
    <3>2. SubSeq(key, first, last) \in Seq(Byte) /\ Len(SubSeq(key, first, last)) = last + 1 - first
      BY <3>1, PartOf
    <3> USE DEF first, last
    <3> QED
      BY <3>2
  <2>3. k \in [1..8 -> Word]
    BY <2>1, <2>2, WordsType
  <2>4. Len(SubSeq(key, 1, 32)) \div 4 = 8
    BY <2>2
  <2> QED
    BY <2>3, <2>4 DEF Words
<1>2. nonce \in [1..3 -> Word] /\ \A i \in 1..3 : nonce[i] = SubSeq(SubSeq(key, 33, 44), 4 * i - 3, 4 * i)
  <2>1. SubSeq(key, 33, 44) \in Seq(Byte) /\ Len(SubSeq(key, 33, 44)) = 4 * 3
    BY <1>0, PartOf
  <2>2. nonce \in [1..3 -> Word]
    BY <2>1, WordsType
  <2>3. Len(SubSeq(key, 33, 44)) \div 4 = 3
    BY <2>1
  <2> QED
    BY <2>2, <2>3 DEF Words
<1>3. c \in Word
  BY CounterType
<1>4. ChaChaConstants \in [1..4 -> Word]
  BY DEF ChaChaConstants, Word, Byte
<1>10. ChaChaState(key) = ((ChaChaConstants \o k) \o <<c>>) \o nonce
  BY CounterType DEF ChaChaState
<1> HIDE DEF k, c, nonce
<1>5. /\ k \in Seq(Word) /\ Len(k) = 8
      /\ nonce \in Seq(Word) /\ Len(nonce) = 3
      /\ ChaChaConstants \in Seq(Word) /\ Len(ChaChaConstants) = 4
      /\ <<c>> \in Seq(Word) /\ Len(<<c>>) = 1
  <2>1. <<c>> \in Seq(Word) /\ Len(<<c>>) = 1
    BY <1>3
  <2>2. 8 \in Nat /\ 3 \in Nat /\ 4 \in Nat
    OBVIOUS
  <2>3. k \in Seq(Word) /\ Len(k) = 8
    BY <1>1, <2>2, WordsAre
  <2>4. nonce \in Seq(Word) /\ Len(nonce) = 3
    BY <1>2, <2>2, WordsAre
  <2>5. ChaChaConstants \in Seq(Word) /\ Len(ChaChaConstants) = 4
    BY <1>4, <2>2, WordsAre
  <2> QED
    BY <2>1, <2>3, <2>4, <2>5
<1> DEFINE one == ChaChaConstants \o k
           two == one \o <<c>>
           three == two \o nonce
<1>6. one \in Seq(Word) /\ Len(one) = 12 /\ (\A i \in 1..4 : one[i] = ChaChaConstants[i]) /\ \A i \in 1..8 : one[4 + i] = k[i]
  <2>1. one \in Seq(Word) /\ AreBehind(one, ChaChaConstants, k)
    BY <1>5, Behind
  <2> HIDE DEF one
  <2> QED
    BY <1>5, <2>1 DEF AreBehind
<1> HIDE DEF one
<1>7. two \in Seq(Word) /\ Len(two) = 13 /\ (\A i \in 1..12 : two[i] = one[i]) /\ two[13] = c
  <2>1. two \in Seq(Word) /\ AreBehind(two, one, <<c>>)
    BY <1>5, <1>6, Behind
  <2>2. <<c>>[1] = c
    OBVIOUS
  <2> HIDE DEF two
  <2> QED
    BY <1>5, <1>6, <2>1, <2>2 DEF AreBehind
<1> HIDE DEF two
<1>8. three \in Seq(Word) /\ Len(three) = 16 /\ (\A i \in 1..13 : three[i] = two[i]) /\ \A i \in 1..3 : three[13 + i] = nonce[i]
  <2>1. three \in Seq(Word) /\ AreBehind(three, two, nonce)
    BY <1>5, <1>7, Behind
  <2> HIDE DEF three
  <2> QED
    BY <1>5, <1>7, <2>1 DEF AreBehind
<1>9. ChaChaState(key) = three
  BY <1>10 DEF one, two
<1> HIDE DEF three
<1>11. ChaChaState(key) \in Words16
  BY ChaChaStateType
<1>12. \A i \in 1..4 : i \in 1..12 /\ i \in 1..13
  OBVIOUS
<1>13. \A i \in 1..8 : 4 + i \in 1..12 /\ 4 + i \in 1..13
  OBVIOUS
<1>14. 13 \in 1..13
  OBVIOUS
<1>15. \A i \in 1..4 : three[i] = ChaChaConstants[i]
  BY <1>6, <1>7, <1>8, <1>12
<1>16. \A i \in 1..8 : three[4 + i] = k[i]
  BY <1>6, <1>7, <1>8, <1>13
<1>17. three[13] = c
  BY <1>7, <1>8, <1>14
<1> QED
  BY <1>1, <1>2, <1>8, <1>9, <1>11, <1>15, <1>16, <1>17 DEF c

(* The bytes that the RFC's state is read from.                            *)
IsInput(bytes, k, nonce, counter) ==
  /\ bytes \in Seq(Byte) /\ Len(bytes) = 64
  /\ \A i \in 1..4, j \in 1..4 : bytes[4 * (i - 1) + j] = ChaChaConstants[i][j]
  /\ \A i \in 1..32 : bytes[16 + i] = k[i]
  /\ \A i \in 1..4 : bytes[48 + i] = counter[i]
  /\ \A i \in 1..12 : bytes[52 + i] = nonce[i]

(* Where the constants, the key, the counter and the nonce are in it.      *)
LEMMA InputIs ==
  ASSUME NEW k \in Seq(Byte), Len(k) = 32, NEW nonce \in Seq(Byte), Len(nonce) = 12, NEW counter \in Word
  PROVE  IsInput(Input(k, nonce, counter), k, nonce, counter)
<1> DEFINE head == Joined(4, ChaChaConstants)
           one == head \o k
           two == one \o counter
           three == two \o nonce
<1>1. /\ head \in Seq(Byte) /\ Len(head) = 16
      /\ \A i \in 1..4, j \in 1..4 : head[4 * (i - 1) + j] = ChaChaConstants[i][j]
  <2>1. ChaChaConstants \in [1..4 -> Word] /\ 4 \in Nat /\ 4 \in {4, 16, 64}
    BY DEF ChaChaConstants, Word, Byte
  <2>2. ChaChaConstants \in Seq(Seq(Byte)) /\ Len(ChaChaConstants) = 4
    BY <2>1, WordsAre
  <2>3. \A i \in 1..Len(ChaChaConstants) : Len(ChaChaConstants[i]) = 4
    BY <2>1, <2>2, WordIs
  <2>4. /\ head \in Seq(Byte) /\ Len(head) = 4 * Len(ChaChaConstants)
        /\ \A n \in 1..(4 * Len(ChaChaConstants)) : head[n] = ChaChaConstants[((n - 1) \div 4) + 1][((n - 1) % 4) + 1]
    BY <2>1, <2>2, <2>3, JoinedIs
  <2>5. ASSUME NEW i \in 1..4, NEW j \in 1..4
        PROVE  4 * (i - 1) + j \in 1..16 /\ ((4 * (i - 1) + j - 1) \div 4) + 1 = i /\ ((4 * (i - 1) + j - 1) % 4) + 1 = j
    BY SMTT(30)
  <2> HIDE DEF head
  <2> QED
    BY <2>2, <2>4, <2>5
<1> HIDE DEF head
<1>2. counter \in Seq(Byte) /\ Len(counter) = 4
  BY WordIs
<1>3. one \in Seq(Byte) /\ Len(one) = 48 /\ (\A i \in 1..16 : one[i] = head[i]) /\ \A i \in 1..32 : one[16 + i] = k[i]
  <2>1. one \in Seq(Byte) /\ AreBehind(one, head, k)
    BY <1>1, Behind
  <2> HIDE DEF one
  <2> QED
    BY <1>1, <2>1 DEF AreBehind
<1> HIDE DEF one
<1>4. two \in Seq(Byte) /\ Len(two) = 52 /\ (\A i \in 1..48 : two[i] = one[i]) /\ \A i \in 1..4 : two[48 + i] = counter[i]
  <2>1. two \in Seq(Byte) /\ AreBehind(two, one, counter)
    BY <1>2, <1>3, Behind
  <2> HIDE DEF two
  <2> QED
    BY <1>2, <1>3, <2>1 DEF AreBehind
<1> HIDE DEF two
<1>5. three \in Seq(Byte) /\ Len(three) = 64 /\ (\A i \in 1..52 : three[i] = two[i]) /\ \A i \in 1..12 : three[52 + i] = nonce[i]
  <2>1. three \in Seq(Byte) /\ AreBehind(three, two, nonce)
    BY <1>4, Behind
  <2> HIDE DEF three
  <2> QED
    BY <1>4, <2>1 DEF AreBehind
<1>6. Input(k, nonce, counter) = three
  BY DEF Input, head, one, two
<1> HIDE DEF three
<1>7. \A i \in 1..16 : i \in 1..48 /\ i \in 1..52
  OBVIOUS
<1>8. \A i \in 1..32 : 16 + i \in 1..48 /\ 16 + i \in 1..52
  OBVIOUS
<1>9. \A i \in 1..4 : 48 + i \in 1..52
  OBVIOUS
<1>10. ASSUME NEW i \in 1..16 PROVE three[i] = head[i]
  <2>1. three[i] = two[i] /\ two[i] = one[i] /\ one[i] = head[i]
    BY <1>3, <1>4, <1>5, <1>7
  <2> QED
    BY <2>1
<1>11. ASSUME NEW i \in 1..32 PROVE three[16 + i] = k[i]
  <2>1. three[16 + i] = two[16 + i]
    BY <1>5, <1>8
  <2>2. two[16 + i] = one[16 + i]
    BY <1>4, <1>8
  <2>3. one[16 + i] = k[i]
    BY <1>3
  <2> QED
    BY <2>1, <2>2, <2>3
<1>12. ASSUME NEW i \in 1..4 PROVE three[48 + i] = counter[i]
  <2>1. three[48 + i] = two[48 + i]
    BY <1>5, <1>9
  <2>2. two[48 + i] = counter[i]
    BY <1>4
  <2> QED
    BY <2>1, <2>2
<1>13. \A i, j \in 1..4 : three[4 * (i - 1) + j] = ChaChaConstants[i][j]
  <2>1. \A i, j \in 1..4 : 4 * (i - 1) + j \in 1..16
    OBVIOUS
  <2> QED
    BY <1>1, <1>10, <2>1, SMTT(30)
<1> QED
  BY <1>5, <1>6, <1>11, <1>12, <1>13 DEF IsInput

(* Four bytes in a row are a word.                                         *)
LEMMA FourBytes ==
  ASSUME NEW bytes \in Seq(Byte), NEW m \in Nat, m + 4 <= Len(bytes), NEW w \in Word,
         \A j \in 1..4 : bytes[m + j] = w[j]
  PROVE  SubSeq(bytes, m + 1, m + 4) = w
<1> DEFINE s == SubSeq(bytes, m + 1, m + 4)
<1>1. m + 1 \in Nat /\ m + 4 \in Nat /\ 1 <= m + 1 /\ m + 1 <= (m + 4) + 1 /\ (m + 4) + 1 - (m + 1) = 4
  OBVIOUS
<1>2. /\ s \in Seq(Byte) /\ Len(s) = (m + 4) + 1 - (m + 1)
      /\ \A i \in 1..((m + 4) + 1 - (m + 1)) : s[i] = bytes[(m + 1) + i - 1]
  BY <1>1, PartOf
<1>3. \A i \in 1..4 : (m + 1) + i - 1 = m + i
  OBVIOUS
<1>4. s \in Seq(Byte) /\ Len(s) = 4 /\ \A i \in 1..4 : s[i] = w[i]
  BY <1>1, <1>2, <1>3
<1> HIDE DEF s
<1>5. s \in Word
  BY <1>4, WordIs
<1>6. s = [i \in 1..4 |-> s[i]] /\ w = [i \in 1..4 |-> w[i]]
  BY <1>5 DEF Word
<1>7. s = w
  BY <1>4, <1>6
<1> QED
  BY <1>7 DEF s

(* A word among bytes, byte by byte.                                       *)
LEMMA WordAmong ==
  ASSUME NEW s \in Seq(Byte), NEW n \in Nat \ {0}, 4 * n <= Len(s)
  PROVE  /\ SubSeq(s, 4 * n - 3, 4 * n) \in Word
         /\ \A j \in 1..4 : SubSeq(s, 4 * n - 3, 4 * n)[j] = s[4 * (n - 1) + j]
<1> DEFINE m == 4 * n - 3
           l == 4 * n
           p == SubSeq(s, m, l)
<1>1. m \in Nat /\ l \in Nat /\ 1 <= m /\ m <= l + 1 /\ l <= Len(s) /\ l + 1 - m = 4
  OBVIOUS
<1>2. \A j \in 1..4 : m + j - 1 = 4 * (n - 1) + j
  OBVIOUS
<1> HIDE DEF m, l
<1>3. p \in Seq(Byte) /\ Len(p) = l + 1 - m /\ \A j \in 1..(l + 1 - m) : p[j] = s[m + j - 1]
  BY <1>1, PartOf
<1> HIDE DEF p
<1>4. p \in Word /\ \A j \in 1..4 : p[j] = s[4 * (n - 1) + j]
  BY <1>1, <1>2, <1>3, WordIs
<1> QED
  BY <1>4 DEF p, m, l

(* The state with a counter, as the RFC's block function reads it.         *)
LEMMA StateRead ==
  ASSUME NEW key \in Seq(Byte), Len(key) \in 44..48, NEW counter \in Word
  PROVE  LET s == [ChaChaState(key) EXCEPT ![13] = counter]
         IN  /\ s \in Words16
             /\ \A i \in 1..16 :
                  s[i] = SubSeq(Input(SubSeq(key, 1, 32), SubSeq(key, 33, 44), counter), 4 * i - 3, 4 * i)
<1> DEFINE start == ChaChaState(key)
           s == [start EXCEPT ![13] = counter]
           k == SubSeq(key, 1, 32)
           nonce == SubSeq(key, 33, 44)
           bytes == Input(k, nonce, counter)
           Read(i) == s[i] = SubSeq(bytes, 4 * i - 3, 4 * i)
<1>0. Len(key) \in Nat /\ 44 <= Len(key)
  <2>1. \A n \in 44..48 : n \in Nat /\ 44 <= n
    OBVIOUS
  <2> QED
    BY <2>1
<1>1. /\ start \in Words16
      /\ \A i \in 1..4 : start[i] = ChaChaConstants[i]
      /\ \A i \in 1..8 : start[4 + i] = SubSeq(k, 4 * i - 3, 4 * i)
      /\ \A i \in 1..3 : start[13 + i] = SubSeq(nonce, 4 * i - 3, 4 * i)
  BY StateOf
<1>2. k \in Seq(Byte) /\ Len(k) = 32
  <2> DEFINE first == 1
             last == 32
  <2>1. first \in Nat /\ last \in Nat /\ 1 <= first /\ first <= last + 1 /\ last <= Len(key)
    BY <1>0
  <2> HIDE DEF first, last
  <2>2. SubSeq(key, first, last) \in Seq(Byte) /\ Len(SubSeq(key, first, last)) = last + 1 - first
    BY <2>1, PartOf
  <2> USE DEF first, last
  <2> QED
    BY <2>2
<1>3. nonce \in Seq(Byte) /\ Len(nonce) = 12
  <2> DEFINE first == 33
             last == 44
  <2>1. first \in Nat /\ last \in Nat /\ 1 <= first /\ first <= last + 1 /\ last <= Len(key)
    BY <1>0
  <2> HIDE DEF first, last
  <2>2. SubSeq(key, first, last) \in Seq(Byte) /\ Len(SubSeq(key, first, last)) = last + 1 - first
    BY <2>1, PartOf
  <2> USE DEF first, last
  <2> QED
    BY <2>2
<1> HIDE DEF k, nonce, start
<1>4. /\ bytes \in Seq(Byte) /\ Len(bytes) = 64
      /\ \A i \in 1..4, j \in 1..4 : bytes[4 * (i - 1) + j] = ChaChaConstants[i][j]
      /\ \A i \in 1..32 : bytes[16 + i] = k[i]
      /\ \A i \in 1..4 : bytes[48 + i] = counter[i]
      /\ \A i \in 1..12 : bytes[52 + i] = nonce[i]
  <2>1. IsInput(bytes, k, nonce, counter)
    BY <1>2, <1>3, InputIs
  <2> HIDE DEF bytes
  <2> QED
    BY <2>1 DEF IsInput
<1> HIDE DEF bytes
<1>5. s \in Words16 /\ s[13] = counter /\ \A i \in 1..16 : i # 13 => s[i] = start[i]
  <2>1. start \in [1..16 -> Word] /\ 13 \in 1..16
    BY <1>1 DEF Words16
  <2>2. s \in [1..16 -> Word]
    BY <2>1
  <2>3. s[13] = counter
    BY <2>1
  <2>4. \A i \in 1..16 : i # 13 => s[i] = start[i]
    BY <2>1
  <2> QED
    BY <2>2, <2>3, <2>4 DEF Words16
<1> HIDE DEF s
<1>6. \A i \in 1..16 : s[i] \in Word
  BY <1>5 DEF Words16
<1>7. ASSUME NEW i \in 1..16, NEW m \in Nat, m = 4 * (i - 1), \A j \in 1..4 : bytes[m + j] = s[i][j]
      PROVE  Read(i)
  <2>1. m + 4 <= 64 /\ m + 1 = 4 * i - 3 /\ m + 4 = 4 * i
    BY <1>7
  <2>2. SubSeq(bytes, m + 1, m + 4) = s[i]
    BY <1>4, <1>6, <1>7, <2>1, FourBytes
  <2> QED
    BY <2>1, <2>2
<1> HIDE DEF Read
<1>8. ASSUME NEW i \in 1..4 PROVE Read(i)
  <2>1. i \in 1..16 /\ i # 13 /\ 4 * (i - 1) \in Nat
    OBVIOUS
  <2>2. s[i] = ChaChaConstants[i]
    <3>1. s[i] = start[i]
      BY <1>5, <2>1
    <3>2. start[i] = ChaChaConstants[i]
      BY <1>1
    <3> QED
      BY <3>1, <3>2
  <2>3. ASSUME NEW j \in 1..4 PROVE bytes[4 * (i - 1) + j] = s[i][j]
    <3>1. bytes[4 * (i - 1) + j] = ChaChaConstants[i][j]
      BY <1>4, ZenonT(30)
    <3> QED
      BY <2>2, <3>1
  <2> QED
    BY <1>7, <2>1, <2>3
<1>9. ASSUME NEW n \in 1..8 PROVE Read(4 + n)
  <2>1. 4 + n \in 1..16 /\ 4 + n # 13 /\ 4 * ((4 + n) - 1) \in Nat /\ n \in Nat \ {0} /\ 4 * n <= 32
    OBVIOUS
  <2>2. ASSUME NEW j \in 1..4 PROVE bytes[4 * ((4 + n) - 1) + j] = s[4 + n][j]
    <3>1. 4 * ((4 + n) - 1) + j = 16 + (4 * (n - 1) + j) /\ 4 * (n - 1) + j \in 1..32
      OBVIOUS
    <3>2. bytes[16 + (4 * (n - 1) + j)] = k[4 * (n - 1) + j]
      BY <1>4, <3>1
    <3>3. SubSeq(k, 4 * n - 3, 4 * n)[j] = k[4 * (n - 1) + j]
      BY <1>2, <2>1, WordAmong
    <3>4. s[4 + n] = start[4 + n] /\ start[4 + n] = SubSeq(k, 4 * n - 3, 4 * n)
      BY <1>1, <1>5, <2>1
    <3> QED
      BY <3>1, <3>2, <3>3, <3>4
  <2> QED
    BY <1>7, <2>1, <2>2
<1>10. Read(13)
  <2>1. 13 \in 1..16 /\ 48 = 4 * (13 - 1) /\ 48 \in Nat
    OBVIOUS
  <2>2. \A j \in 1..4 : bytes[48 + j] = s[13][j]
    BY <1>4, <1>5
  <2> QED
    BY <1>7, <2>1, <2>2
<1>11. ASSUME NEW n \in 1..3 PROVE Read(13 + n)
  <2>1. 13 + n \in 1..16 /\ 13 + n # 13 /\ 4 * ((13 + n) - 1) \in Nat /\ n \in Nat \ {0} /\ 4 * n <= 12
    OBVIOUS
  <2>2. ASSUME NEW j \in 1..4 PROVE bytes[4 * ((13 + n) - 1) + j] = s[13 + n][j]
    <3>1. 4 * ((13 + n) - 1) + j = 52 + (4 * (n - 1) + j) /\ 4 * (n - 1) + j \in 1..12
      OBVIOUS
    <3>2. bytes[52 + (4 * (n - 1) + j)] = nonce[4 * (n - 1) + j]
      BY <1>4, <3>1
    <3>3. SubSeq(nonce, 4 * n - 3, 4 * n)[j] = nonce[4 * (n - 1) + j]
      BY <1>3, <2>1, WordAmong
    <3>4. s[13 + n] = start[13 + n] /\ start[13 + n] = SubSeq(nonce, 4 * n - 3, 4 * n)
      BY <1>1, <1>5, <2>1
    <3> QED
      BY <3>1, <3>2, <3>3, <3>4
  <2> QED
    BY <1>7, <2>1, <2>2
<1>12. \A i \in 1..16 : Read(i)
  <2>1. \A i \in 1..16 : i \in 1..4 \/ (i - 4 \in 1..8 /\ 4 + (i - 4) = i) \/ i = 13 \/ (i - 13 \in 1..3 /\ 13 + (i - 13) = i)
    OBVIOUS
  <2> QED
    BY <1>8, <1>9, <1>10, <1>11, <2>1
<1> QED
  BY <1>5, <1>12 DEF Read, s, bytes, k, nonce, start

(* The key stream, block by block.                                         *)
LEMMA KeyStreamIs ==
  ASSUME NEW key \in Seq(Byte), Len(key) \in 44..48, NEW blocks \in Nat
  PROVE  KeyStream(key, blocks) =
           Joined(64, [i \in 1..blocks |->
             RfcBlock(SubSeq(key, 1, 32), SubSeq(key, 33, 44),
                      BytesOf(SumOf(HalvesOf(CounterOf(key)), <<i - 1, 0>>)))])
<1> DEFINE start == ChaChaState(key)
           counter == CHOOSE g : g = [i \in 0..blocks |-> IF i = 0 THEN start[13] ELSE NextCounter(g[i - 1])]
           step == [i \in 1..blocks |-> [w \in Word |-> NextCounter(w)]]
           parts == [i \in 1..blocks |-> ChaChaBlock([start EXCEPT ![13] = counter[i - 1]])]
<1>1. start \in Words16
  BY ChaChaStateType
<1>2. KeyStream(key, blocks) = Joined(64, parts)
  BY DEF KeyStream
<1>13. start[13] = CounterOf(key)
  BY StateOf
<1> HIDE DEF start
<1>3. start[13] \in Word
  BY <1>1 DEF Words16
<1>4. \A w \in Word : NextCounter(w) \in Word
  <2>1. <<1, 0, 0, 0>> \in Word
    BY DEF Word, Byte
  <2> QED
    BY <2>1, PlusType DEF NextCounter
<1>5. Loop(blocks, Word, start[13], step)
  BY <1>3, <1>4 DEF Loop
<1>6. \A i \in 1..blocks, w \in Word : step[i][w] = NextCounter(w)
  OBVIOUS
<1> HIDE DEF step
<1>7. PICK f : IsRun(f, blocks, Word, start[13], step)
  BY <1>5, Iteration
<1>8. \A i \in 1..blocks : i - 1 \in 0..blocks
  OBVIOUS
<1>9. f = [i \in 0..blocks |-> IF i = 0 THEN start[13] ELSE NextCounter(f[i - 1])]
  <2>1. \A i \in 1..blocks : f[i] = NextCounter(f[i - 1])
    BY <1>6, <1>7, <1>8 DEF IsRun
  <2> QED
    BY <1>7, <2>1 DEF IsRun
<1>10. counter = [i \in 0..blocks |-> IF i = 0 THEN start[13] ELSE NextCounter(counter[i - 1])]
  BY <1>9
<1> HIDE DEF counter
<1>11. Follows(counter, blocks, Word, start[13], step)
  BY <1>6, <1>10 DEF Follows
<1>12. \A i \in 0..blocks : counter[i] \in Word
  BY <1>5, <1>11, StaysIn
<1>14. counter \in [0..blocks -> Word] /\ counter[0] = start[13]
  BY <1>10, <1>12
<1>15. \A i \in 1..blocks : counter[i] = NextCounter(counter[i - 1])
  BY <1>10
<1>16. \A i \in 0..blocks : counter[i] = BytesOf(SumOf(HalvesOf(CounterOf(key)), <<i, 0>>))
  BY <1>13, <1>14, <1>15, CounterIs, ZenonT(30)
<1> DEFINE count(i) == BytesOf(SumOf(HalvesOf(CounterOf(key)), <<i - 1, 0>>))
           block(i) == RfcBlock(SubSeq(key, 1, 32), SubSeq(key, 33, 44), count(i))
<1>17. ASSUME NEW i \in 1..blocks PROVE parts[i] = block(i)
  <2>1. counter[i - 1] = count(i) /\ counter[i - 1] \in Word
    BY <1>8, <1>12, <1>16
  <2> DEFINE w == counter[i - 1]
             s == [start EXCEPT ![13] = w]
  <2>2. w = count(i) /\ w \in Word
    BY <2>1
  <2>3. parts[i] = ChaChaBlock(s)
    OBVIOUS
  <2> HIDE DEF w, parts, count
  <2>4. /\ s \in Words16
        /\ \A j \in 1..16 : s[j] = SubSeq(Input(SubSeq(key, 1, 32), SubSeq(key, 33, 44), w), 4 * j - 3, 4 * j)
    BY <2>2, StateRead DEF start
  <2> HIDE DEF s
  <2>5. ChaChaBlock(s) = RfcBlock(SubSeq(key, 1, 32), SubSeq(key, 33, 44), w)
    BY <2>4, RfcBlockIs
  <2> QED
    BY <2>2, <2>3, <2>5
<1>18. parts = [i \in 1..blocks |-> block(i)]
  <2>1. parts = [i \in 1..blocks |-> parts[i]]
    OBVIOUS
  <2> HIDE DEF parts, block
  <2> QED
    BY <1>17, <2>1
<1> QED
  BY <1>2, <1>18

(* chacha20_crypt() is RFC 8439's encryption, whatever the key, with the   *)
(* counter that the key has or from zero, and for data of any length       *)
(* (chacha20.cpp:25-132): the quarter rounds on columns and diagonals, the *)
(* sum at the end, the order of the state and the counter of each block.   *)
THEOREM ChaCha20IsRfc ==
  ASSUME NEW data \in Seq(Byte), NEW key \in Seq(Byte), NEW room \in Nat,
         ChaCha20Crypt(data, key, room).code = "OK"
  PROVE  ChaCha20Crypt(data, key, room).text =
           RfcCipher(data, SubSeq(key, 1, 32), SubSeq(key, 33, 44),
                     IF Len(key) = 48 THEN SubSeq(key, 45, 48) ELSE <<0, 0, 0, 0>>)
<1>1. Len(key) \in 44..48 /\ Len(data) <= room
  BY DEF ChaCha20Crypt, Failed
<1> DEFINE blocks == (Len(data) + 63) \div 64
<1>2. Len(data) \in Nat /\ blocks \in Nat
  BY LenProperties
<1>3. ChaCha20Crypt(data, key, room).text = XorEach(data, KeyStream(key, blocks))
  BY <1>1, <1>2 DEF ChaCha20Crypt, Succeeded
<1>4. KeyStream(key, blocks) =
           Joined(64, [i \in 1..blocks |->
             RfcBlock(SubSeq(key, 1, 32), SubSeq(key, 33, 44),
                      BytesOf(SumOf(HalvesOf(CounterOf(key)), <<i - 1, 0>>)))])
  BY <1>1, <1>2, KeyStreamIs
<1>5. RfcCipher(data, SubSeq(key, 1, 32), SubSeq(key, 33, 44), CounterOf(key)) =
        XorEach(data, Joined(64, [i \in 1..blocks |->
             RfcBlock(SubSeq(key, 1, 32), SubSeq(key, 33, 44),
                      BytesOf(SumOf(HalvesOf(CounterOf(key)), <<i - 1, 0>>)))]))
  BY Zenon DEF RfcCipher
<1> QED
  BY <1>3, <1>4, <1>5 DEF CounterOf

----------------------------------------------------------------------------
(***************************************************************************)
(* AES's field. The product of two bytes as polynomials is what gmul()     *)
(* computes for the factors of the code, and SBOX is the substitution that *)
(* FIPS 197 defines by inverses: every byte but 0 is a power of x + 1, so  *)
(* an inverse is a power as well, and the only one.                        *)
(***************************************************************************)

(* Bytes are a group under ^, each its own inverse.                        *)
LEMMA AddedGroup ==
  ASSUME NEW a \in Byte, NEW b \in Byte, NEW c \in Byte
  PROVE  /\ Added(a, b) = Added(b, a)
         /\ Added(Added(a, b), c) = Added(a, Added(b, c))
         /\ Added(a, 0) = a /\ Added(0, a) = a /\ Added(a, a) = 0
<1>1. 0 \in Byte /\ \A p \in Places : ~On(0, p)
  BY DEF Byte, On, Places
<1>2. \A x, y \in Byte : Added(x, y) \in Byte /\ \A p \in Places : On(Added(x, y), p) <=> ~(On(x, p) <=> On(y, p))
  BY AddedOn
<1>3. \A x, y \in Byte : (\A p \in Places : On(x, p) <=> On(y, p)) => x = y
  BY SameBits
<1>4. Added(a, b) = Added(b, a)
  BY <1>2, <1>3
<1>5. Added(Added(a, b), c) = Added(a, Added(b, c))
  <2>1. Added(a, b) \in Byte /\ Added(b, c) \in Byte /\ Added(Added(a, b), c) \in Byte /\ Added(a, Added(b, c)) \in Byte
    BY <1>2
  <2>2. \A p \in Places : On(Added(Added(a, b), c), p) <=> On(Added(a, Added(b, c)), p)
    BY <1>2, <2>1
  <2> QED
    BY <1>3, <2>1, <2>2
<1>6. Added(a, 0) = a
  BY <1>1, <1>2, <1>3
<1>7. Added(0, a) = a
  BY <1>1, <1>2, <1>3
<1>8. Added(a, a) = 0
  BY <1>1, <1>2, <1>3
<1> QED
  BY <1>4, <1>5, <1>6, <1>7, <1>8

(* Two sums may be added term by term.                                     *)
Swapped(a, b, c, d) == Added(Added(a, b), Added(c, d)) = Added(Added(a, c), Added(b, d))

(* The two in the middle change places.                                    *)
LEMMA Interchange ==
  ASSUME NEW a \in Byte, NEW b \in Byte, NEW c \in Byte, NEW d \in Byte
  PROVE  Swapped(a, b, c, d)
<1>1. /\ Added(a, b) \in Byte /\ Added(c, d) \in Byte /\ Added(b, d) \in Byte
      /\ Added(b, c) \in Byte /\ Added(c, b) \in Byte /\ Added(a, c) \in Byte
  BY AddedOn
<1>2. Added(Added(a, b), Added(c, d)) = Added(a, Added(b, Added(c, d)))
  BY <1>1, AddedGroup
<1>3. Added(b, Added(c, d)) = Added(Added(b, c), d)
  BY AddedGroup
<1>4. Added(b, c) = Added(c, b)
  BY AddedGroup
<1>5. Added(Added(c, b), d) = Added(c, Added(b, d))
  BY AddedGroup
<1>6. Added(a, Added(c, Added(b, d))) = Added(Added(a, c), Added(b, d))
  BY <1>1, AddedGroup
<1> QED
  BY <1>2, <1>3, <1>4, <1>5, <1>6 DEF Swapped

(* A sum of eight terms, which are the values of a function from 0 to 7.   *)
Terms == [0..7 -> Byte]
Sum8(f) ==
  Added(Added(Added(Added(Added(Added(Added(f[0], f[1]), f[2]), f[3]), f[4]), f[5]), f[6]), f[7])
Together(f, g) == [i \in 0..7 |-> Added(f[i], g[i])]
Twice(f) == [i \in 0..7 |-> Doubled(f[i])]

(* Its terms, one by one.                                                  *)
LEMMA TermsAre ==
  ASSUME NEW f \in Terms
  PROVE  /\ f[0] \in Byte /\ f[1] \in Byte /\ f[2] \in Byte /\ f[3] \in Byte
         /\ f[4] \in Byte /\ f[5] \in Byte /\ f[6] \in Byte /\ f[7] \in Byte
<1>1. 0 \in 0..7 /\ 1 \in 0..7 /\ 2 \in 0..7 /\ 3 \in 0..7 /\ 4 \in 0..7 /\ 5 \in 0..7 /\ 6 \in 0..7 /\ 7 \in 0..7
  OBVIOUS
<1> QED
  BY <1>1 DEF Terms

(* Such sums can be added and doubled term by term.                        *)
LEMMA Sum8Is ==
  ASSUME NEW f \in Terms, NEW g \in Terms
  PROVE  /\ Sum8(f) \in Byte
         /\ Together(f, g) \in Terms /\ Sum8(Together(f, g)) = Added(Sum8(f), Sum8(g))
         /\ Twice(f) \in Terms /\ Sum8(Twice(f)) = Doubled(Sum8(f))
<1>1. /\ f[0] \in Byte /\ f[1] \in Byte /\ f[2] \in Byte /\ f[3] \in Byte
      /\ f[4] \in Byte /\ f[5] \in Byte /\ f[6] \in Byte /\ f[7] \in Byte
  BY TermsAre
<1>2. /\ g[0] \in Byte /\ g[1] \in Byte /\ g[2] \in Byte /\ g[3] \in Byte
      /\ g[4] \in Byte /\ g[5] \in Byte /\ g[6] \in Byte /\ g[7] \in Byte
  BY TermsAre
<1> DEFINE f1 == Added(f[0], f[1])
           f2 == Added(f1, f[2])
           f3 == Added(f2, f[3])
           f4 == Added(f3, f[4])
           f5 == Added(f4, f[5])
           f6 == Added(f5, f[6])
           f7 == Added(f6, f[7])
           g1 == Added(g[0], g[1])
           g2 == Added(g1, g[2])
           g3 == Added(g2, g[3])
           g4 == Added(g3, g[4])
           g5 == Added(g4, g[5])
           g6 == Added(g5, g[6])
           g7 == Added(g6, g[7])
           t == Together(f, g)
           d == Twice(f)
<1>3. Sum8(f) = f7 /\ Sum8(g) = g7
  BY DEF Sum8
<1>4. \A i \in 0..7 : t[i] = Added(f[i], g[i]) /\ d[i] = Doubled(f[i]) /\ f[i] \in Byte /\ g[i] \in Byte
  BY DEF Together, Twice, Terms
<1>5. t \in Terms /\ d \in Terms
  <2>1. \A i \in 0..7 : Added(f[i], g[i]) \in Byte /\ Doubled(f[i]) \in Byte
    BY <1>4, AddedOn, DoubledOn
  <2> QED
    BY <2>1 DEF Terms, Together, Twice
<1>6. /\ t[0] = Added(f[0], g[0]) /\ t[1] = Added(f[1], g[1]) /\ t[2] = Added(f[2], g[2]) /\ t[3] = Added(f[3], g[3])
      /\ t[4] = Added(f[4], g[4]) /\ t[5] = Added(f[5], g[5]) /\ t[6] = Added(f[6], g[6]) /\ t[7] = Added(f[7], g[7])
  BY <1>4
<1>7. /\ d[0] = Doubled(f[0]) /\ d[1] = Doubled(f[1]) /\ d[2] = Doubled(f[2]) /\ d[3] = Doubled(f[3])
      /\ d[4] = Doubled(f[4]) /\ d[5] = Doubled(f[5]) /\ d[6] = Doubled(f[6]) /\ d[7] = Doubled(f[7])
  BY <1>4
<1> HIDE DEF t, d
<1>8. f1 \in Byte /\ f2 \in Byte /\ f3 \in Byte /\ f4 \in Byte /\ f5 \in Byte /\ f6 \in Byte /\ f7 \in Byte
  <2>1. f1 \in Byte
    BY <1>1, AddedOn
  <2>2. f2 \in Byte
    BY <1>1, <2>1, AddedOn
  <2>3. f3 \in Byte
    BY <1>1, <2>2, AddedOn
  <2>4. f4 \in Byte
    BY <1>1, <2>3, AddedOn
  <2>5. f5 \in Byte
    BY <1>1, <2>4, AddedOn
  <2>6. f6 \in Byte
    BY <1>1, <2>5, AddedOn
  <2>7. f7 \in Byte
    BY <1>1, <2>6, AddedOn
  <2> QED
    BY <2>1, <2>2, <2>3, <2>4, <2>5, <2>6, <2>7
<1>9. g1 \in Byte /\ g2 \in Byte /\ g3 \in Byte /\ g4 \in Byte /\ g5 \in Byte /\ g6 \in Byte /\ g7 \in Byte
  <2>1. g1 \in Byte
    BY <1>2, AddedOn
  <2>2. g2 \in Byte
    BY <1>2, <2>1, AddedOn
  <2>3. g3 \in Byte
    BY <1>2, <2>2, AddedOn
  <2>4. g4 \in Byte
    BY <1>2, <2>3, AddedOn
  <2>5. g5 \in Byte
    BY <1>2, <2>4, AddedOn
  <2>6. g6 \in Byte
    BY <1>2, <2>5, AddedOn
  <2>7. g7 \in Byte
    BY <1>2, <2>6, AddedOn
  <2> QED
    BY <2>1, <2>2, <2>3, <2>4, <2>5, <2>6, <2>7
<1> DEFINE Chain(x, x1, x2, x3, x4, x5, x6, x7) ==
             /\ x1 = Added(x[0], x[1]) /\ x2 = Added(x1, x[2]) /\ x3 = Added(x2, x[3]) /\ x4 = Added(x3, x[4])
             /\ x5 = Added(x4, x[5]) /\ x6 = Added(x5, x[6]) /\ x7 = Added(x6, x[7])
<1>12. Chain(f, f1, f2, f3, f4, f5, f6, f7) /\ Chain(g, g1, g2, g3, g4, g5, g6, g7)
  OBVIOUS
<1> HIDE DEF f1, f2, f3, f4, f5, f6, f7, g1, g2, g3, g4, g5, g6, g7
<1>10. Sum8(t) = Added(f7, g7)
  <2>1. Added(Added(f[0], g[0]), t[1]) = Added(f1, g1)
    <3>1. Swapped(f[0], g[0], f[1], g[1])
      BY <1>1, <1>2, <1>8, <1>9, Interchange
    <3> QED
      BY <1>6, <1>12, <3>1 DEF Swapped
  <2>2. Added(Added(f1, g1), t[2]) = Added(f2, g2)
    <3>1. Swapped(f1, g1, f[2], g[2])
      BY <1>1, <1>2, <1>8, <1>9, Interchange
    <3> QED
      BY <1>6, <1>12, <3>1 DEF Swapped
  <2>3. Added(Added(f2, g2), t[3]) = Added(f3, g3)
    <3>1. Swapped(f2, g2, f[3], g[3])
      BY <1>1, <1>2, <1>8, <1>9, Interchange
    <3> QED
      BY <1>6, <1>12, <3>1 DEF Swapped
  <2>4. Added(Added(f3, g3), t[4]) = Added(f4, g4)
    <3>1. Swapped(f3, g3, f[4], g[4])
      BY <1>1, <1>2, <1>8, <1>9, Interchange
    <3> QED
      BY <1>6, <1>12, <3>1 DEF Swapped
  <2>5. Added(Added(f4, g4), t[5]) = Added(f5, g5)
    <3>1. Swapped(f4, g4, f[5], g[5])
      BY <1>1, <1>2, <1>8, <1>9, Interchange
    <3> QED
      BY <1>6, <1>12, <3>1 DEF Swapped
  <2>6. Added(Added(f5, g5), t[6]) = Added(f6, g6)
    <3>1. Swapped(f5, g5, f[6], g[6])
      BY <1>1, <1>2, <1>8, <1>9, Interchange
    <3> QED
      BY <1>6, <1>12, <3>1 DEF Swapped
  <2>7. Added(Added(f6, g6), t[7]) = Added(f7, g7)
    <3>1. Swapped(f6, g6, f[7], g[7])
      BY <1>1, <1>2, <1>8, <1>9, Interchange
    <3> QED
      BY <1>6, <1>12, <3>1 DEF Swapped
  <2> QED
    BY <1>6, <2>1, <2>2, <2>3, <2>4, <2>5, <2>6, <2>7 DEF Sum8
<1>11. Sum8(d) = Doubled(f7)
  <2>1. Added(Doubled(f[0]), d[1]) = Doubled(f1)
    BY <1>1, <1>7, <1>8, <1>12, DoubledSum
  <2>2. Added(Doubled(f1), d[2]) = Doubled(f2)
    BY <1>1, <1>7, <1>8, <1>12, DoubledSum
  <2>3. Added(Doubled(f2), d[3]) = Doubled(f3)
    BY <1>1, <1>7, <1>8, <1>12, DoubledSum
  <2>4. Added(Doubled(f3), d[4]) = Doubled(f4)
    BY <1>1, <1>7, <1>8, <1>12, DoubledSum
  <2>5. Added(Doubled(f4), d[5]) = Doubled(f5)
    BY <1>1, <1>7, <1>8, <1>12, DoubledSum
  <2>6. Added(Doubled(f5), d[6]) = Doubled(f6)
    BY <1>1, <1>7, <1>8, <1>12, DoubledSum
  <2>7. Added(Doubled(f6), d[7]) = Doubled(f7)
    BY <1>1, <1>7, <1>8, <1>12, DoubledSum
  <2> QED
    BY <1>7, <2>1, <2>2, <2>3, <2>4, <2>5, <2>6, <2>7 DEF Sum8
<1> QED
  BY <1>3, <1>5, <1>8, <1>10, <1>11 DEF t, d

(* What the bits of a byte are called, here and there.                     *)
LEMMA BitOn ==
  ASSUME NEW i \in 0..7
  PROVE  \E p \in Places : \A x \in Byte : Bit(x, i) = 1 <=> On(x, p)
<1>1. \A x \in Byte : /\ (On(x, 1) <=> Bit(x, 0) = 1) /\ (On(x, 2) <=> Bit(x, 1) = 1)
                      /\ (On(x, 4) <=> Bit(x, 2) = 1) /\ (On(x, 8) <=> Bit(x, 3) = 1)
                      /\ (On(x, 16) <=> Bit(x, 4) = 1) /\ (On(x, 32) <=> Bit(x, 5) = 1)
                      /\ (On(x, 64) <=> Bit(x, 6) = 1) /\ (On(x, 128) <=> Bit(x, 7) = 1)
  BY DEF Byte, Bit, On
<1>2. i \in {0, 1, 2, 3, 4, 5, 6, 7}
  OBVIOUS
<1> QED
  BY <1>1, <1>2 DEF Places

(* A sum of no bytes doubled is none.                                      *)
LEMMA DoubledZero == Doubled(0) = 0 /\ 0 \in Byte
  BY DEF Doubled, Byte

(* A term is linear in its value and in the byte whose term it is.         *)
LEMMA ForTermIs ==
  ASSUME NEW i \in 0..7, NEW a \in Byte, NEW b \in Byte, NEW v \in Byte, NEW w \in Byte
  PROVE  /\ ForTerm(a, i, v) \in Byte
         /\ ForTerm(a, i, Added(v, w)) = Added(ForTerm(a, i, v), ForTerm(a, i, w))
         /\ ForTerm(a, i, Doubled(v)) = Doubled(ForTerm(a, i, v))
         /\ ForTerm(Added(a, b), i, v) = Added(ForTerm(a, i, v), ForTerm(b, i, v))
<1>1. Added(0, 0) = 0 /\ Added(v, 0) = v /\ Added(0, v) = v /\ Added(v, v) = 0
  BY AddedGroup, DoubledZero
<1>2. Bit(Added(a, b), i) = 1 <=> ~(Bit(a, i) = 1 <=> Bit(b, i) = 1)
  <2>1. PICK p \in Places : \A x \in Byte : Bit(x, i) = 1 <=> On(x, p)
    BY BitOn
  <2>2. Added(a, b) \in Byte /\ (On(Added(a, b), p) <=> ~(On(a, p) <=> On(b, p)))
    BY AddedOn
  <2> QED
    BY <2>1, <2>2
<1> QED
  BY <1>1, <1>2, DoubledZero DEF ForTerm

(* The powers of x, one further than the definition has them.              *)
Powers == <<1, 2, 4, 8, 16, 32, 64, 128, \h1b, \h36, \h6c, \hd8, \hab, \h4d, \h9a, \h2f>>

\* The product of x^i and a byte, and of two bytes, by terms.
RowTerms(i, b) == [j \in 0..7 |-> ForTerm(b, j, Powers[i + j + 1])]
Row(i, b) == Sum8(RowTerms(i, b))
ProductTerms(a, b) == [i \in 0..7 |-> ForTerm(a, i, Row(i, b))]

(* Each power is the one before it doubled, and the eighth is what is      *)
(* added for it: x^4 + x^3 + x + 1.                                        *)
LEMMA PowersAre ==
  /\ \A k \in 1..16 : Powers[k] \in Byte
  /\ \A k \in 1..15 : Powers[k + 1] = Doubled(Powers[k]) /\ PowersOfX[k] = Powers[k]
  /\ \A k \in 1..8 : Powers[k + 8] = Added(Added(Powers[k], Powers[k + 1]), Added(Powers[k + 3], Powers[k + 4]))
<1>1. \A k \in 1..16 : Powers[k] \in Byte
  BY DEF Powers, Byte
<1>2. \A k \in 1..15 : PowersOfX[k] = Powers[k]
  BY DEF Powers, PowersOfX
<1>3. \A k \in 1..7 : Powers[k + 1] = 2 * Powers[k] /\ ~(Powers[k] >= 128)
  BY DEF Powers
<1>4. \A k \in 1..7 : Powers[k + 1] = Doubled(Powers[k])
  BY <1>3 DEF Doubled
<1>5. \A x \in Byte : x >= 128 => Doubled(x) = Xor((2 * x) % 256, \h1b)
  <2> TAKE x \in Byte
  <2>1. (2 * x) % 256 \in Byte /\ \h1b \in Byte
    BY DEF Byte
  <2> QED
    BY <2>1, AddedIs DEF Doubled
<1>6. \A x \in Byte : ~(x >= 128) => Doubled(x) = 2 * x
  BY DEF Doubled
<1>7. \A k \in 8..15 : Powers[k + 1] = IF Powers[k] >= 128 THEN Xor((2 * Powers[k]) % 256, \h1b) ELSE 2 * Powers[k]
  BY DEF Powers, Xor, FromBits, Bit
<1>8. \A k \in 8..15 : Powers[k + 1] = Doubled(Powers[k])
  <2> TAKE k \in 8..15
  <2>1. Powers[k] \in Byte
    BY <1>1
  <2> QED
    BY <1>5, <1>6, <1>7, <2>1
<1>9. \A k \in 1..15 : Powers[k + 1] = Doubled(Powers[k])
  <2>1. \A k \in 1..15 : k \in 1..7 \/ k \in 8..15
    OBVIOUS
  <2> QED
    BY <1>4, <1>8, <2>1
<1>10. \A k \in 1..8 : Powers[k + 8] = Xor(Xor(Powers[k], Powers[k + 1]), Xor(Powers[k + 3], Powers[k + 4]))
  <2> DEFINE sums == <<3, 6, 12, 24, 48, 96, 192, 155, 45, 90, 180>>
  <2>1. \A k \in 1..11 : Xor(Powers[k], Powers[k + 1]) = sums[k]
    BY SMTT(30) DEF Powers, Xor, FromBits, Bit
  <2>2. \A k \in 1..8 : Xor(sums[k], sums[k + 3]) = Powers[k + 8]
    BY SMTT(30) DEF Powers, Xor, FromBits, Bit
  <2> HIDE DEF sums
  <2> TAKE k \in 1..8
  <2>3. k \in 1..11 /\ k + 3 \in 1..11 /\ (k + 3) + 1 = k + 4
    OBVIOUS
  <2>4. Xor(Powers[k], Powers[k + 1]) = sums[k] /\ Xor(Powers[k + 3], Powers[k + 4]) = sums[k + 3]
    BY <2>1, <2>3
  <2> QED
    BY <2>2, <2>4
<1>11. \A k \in 1..8 : Powers[k + 8] = Added(Added(Powers[k], Powers[k + 1]), Added(Powers[k + 3], Powers[k + 4]))
  <2> TAKE k \in 1..8
  <2>1. k \in 1..16 /\ k + 1 \in 1..16 /\ k + 3 \in 1..16 /\ k + 4 \in 1..16
    OBVIOUS
  <2>2. Powers[k] \in Byte /\ Powers[k + 1] \in Byte /\ Powers[k + 3] \in Byte /\ Powers[k + 4] \in Byte
    BY <1>1, <2>1
  <2>3. /\ Added(Powers[k], Powers[k + 1]) = Xor(Powers[k], Powers[k + 1])
        /\ Added(Powers[k + 3], Powers[k + 4]) = Xor(Powers[k + 3], Powers[k + 4])
    BY <2>2, AddedIs
  <2>4. Added(Powers[k], Powers[k + 1]) \in Byte /\ Added(Powers[k + 3], Powers[k + 4]) \in Byte
    BY <2>2, AddedOn
  <2> QED
    BY <1>10, <2>3, <2>4, AddedIs
<1> QED
  BY <1>1, <1>2, <1>9, <1>11

(* The product is the sum of the rows of its terms.                        *)
LEMMA FieldProductIs ==
  ASSUME NEW a \in Byte, NEW b \in Byte
  PROVE  FieldProduct(a, b) = Sum8(ProductTerms(a, b))
<1>1. ASSUME NEW i \in 0..7
      PROVE  FieldSum(LAMBDA j : ForTerm(b, j, PowersOfX[i + j + 1])) = Row(i, b)
  <2>1. \A j \in 0..7 : PowersOfX[i + j + 1] = Powers[i + j + 1]
    <3>1. \A j \in 0..7 : i + j + 1 \in 1..15
      OBVIOUS
    <3> QED
      BY <3>1, PowersAre
  <2> DEFINE t == RowTerms(i, b)
  <2>2. \A j \in 0..7 : t[j] = ForTerm(b, j, PowersOfX[i + j + 1])
    BY <2>1 DEF RowTerms
  <2>3. {0, 1, 2, 3, 4, 5, 6, 7} = 0..7
    OBVIOUS
  <2>4. \A j \in {0, 1, 2, 3, 4, 5, 6, 7} : t[j] = ForTerm(b, j, PowersOfX[i + j + 1])
    BY <2>2, <2>3
  <2> HIDE DEF t
  <2>5. /\ t[0] = ForTerm(b, 0, PowersOfX[i + 0 + 1]) /\ t[1] = ForTerm(b, 1, PowersOfX[i + 1 + 1])
        /\ t[2] = ForTerm(b, 2, PowersOfX[i + 2 + 1]) /\ t[3] = ForTerm(b, 3, PowersOfX[i + 3 + 1])
        /\ t[4] = ForTerm(b, 4, PowersOfX[i + 4 + 1]) /\ t[5] = ForTerm(b, 5, PowersOfX[i + 5 + 1])
        /\ t[6] = ForTerm(b, 6, PowersOfX[i + 6 + 1]) /\ t[7] = ForTerm(b, 7, PowersOfX[i + 7 + 1])
    BY <2>4, Zenon
  <2>6. FieldSum(LAMBDA j : ForTerm(b, j, PowersOfX[i + j + 1])) = Sum8(t)
    BY <2>5, Zenon DEF FieldSum, Sum8
  <2> QED
    BY <2>6 DEF t, Row
<1> DEFINE t == ProductTerms(a, b)
           row(i) == FieldSum(LAMBDA j : ForTerm(b, j, PowersOfX[i + j + 1]))
<1>2. \A i \in 0..7 : t[i] = ForTerm(a, i, row(i))
  <2> HIDE DEF row
  <2>1. \A i \in 0..7 : row(i) = Row(i, b)
    BY <1>1 DEF row
  <2> QED
    BY <2>1 DEF ProductTerms
<1>3. {0, 1, 2, 3, 4, 5, 6, 7} = 0..7
  OBVIOUS
<1>4. \A i \in {0, 1, 2, 3, 4, 5, 6, 7} : t[i] = ForTerm(a, i, row(i))
  <2> HIDE DEF t, row
  <2> QED
    BY <1>2, <1>3
<1>5. FieldProduct(a, b) = FieldSum(LAMBDA i : ForTerm(a, i, row(i)))
  BY Zenon DEF FieldProduct
<1> HIDE DEF t, row
<1>6. FieldSum(LAMBDA i : ForTerm(a, i, row(i))) = Sum8(t)
  <2>1. /\ t[0] = ForTerm(a, 0, row(0)) /\ t[1] = ForTerm(a, 1, row(1))
        /\ t[2] = ForTerm(a, 2, row(2)) /\ t[3] = ForTerm(a, 3, row(3))
        /\ t[4] = ForTerm(a, 4, row(4)) /\ t[5] = ForTerm(a, 5, row(5))
        /\ t[6] = ForTerm(a, 6, row(6)) /\ t[7] = ForTerm(a, 7, row(7))
    BY <1>4, Zenon
  <2> QED
    BY <2>1, Zenon DEF FieldSum, Sum8
<1> QED
  BY <1>5, <1>6 DEF t

(* The rows of a product: each the one before it doubled, and the eighth   *)
(* the sum of the four that are added for it.                              *)
LEMMA RowsAre ==
  ASSUME NEW b \in Byte
  PROVE  /\ \A i \in 0..8 : RowTerms(i, b) \in Terms /\ Row(i, b) \in Byte
         /\ \A i \in 0..7 : Row(i + 1, b) = Doubled(Row(i, b))
         /\ Row(8, b) = Added(Added(Row(0, b), Row(1, b)), Added(Row(3, b), Row(4, b)))
<1>1. \A i \in 0..8, j \in 0..7 : i + j + 1 \in 1..16 /\ Powers[i + j + 1] \in Byte
  <2>1. \A i \in 0..8, j \in 0..7 : i + j + 1 \in 1..16
    OBVIOUS
  <2> QED
    BY <2>1, PowersAre
<1>2. \A i \in 0..8 : RowTerms(i, b) \in Terms /\ Row(i, b) \in Byte
  <2> TAKE i \in 0..8
  <2>1. \A j \in 0..7 : ForTerm(b, j, Powers[i + j + 1]) \in Byte
    BY <1>1, ForTermIs
  <2>2. RowTerms(i, b) \in Terms
    BY <2>1 DEF RowTerms, Terms
  <2> QED
    BY <2>2, Sum8Is DEF Row
<1>3. ASSUME NEW i \in 0..7 PROVE Row(i + 1, b) = Doubled(Row(i, b))
  <2>1. i \in 0..8 /\ i + 1 \in 0..8
    OBVIOUS
  <2>2. ASSUME NEW j \in 0..7
        PROVE  ForTerm(b, j, Powers[(i + 1) + j + 1]) = Doubled(RowTerms(i, b)[j])
    <3>1. i + j + 1 \in 1..15 /\ (i + 1) + j + 1 = (i + j + 1) + 1
      OBVIOUS
    <3>2. Powers[(i + 1) + j + 1] = Doubled(Powers[i + j + 1])
      BY <3>1, PowersAre
    <3>3. ForTerm(b, j, Doubled(Powers[i + j + 1])) = Doubled(ForTerm(b, j, Powers[i + j + 1]))
      BY <1>1, <2>1, ForTermIs
    <3>4. RowTerms(i, b)[j] = ForTerm(b, j, Powers[i + j + 1])
      BY DEF RowTerms
    <3> QED
      BY <3>2, <3>3, <3>4
  <2>3. RowTerms(i + 1, b) = Twice(RowTerms(i, b))
    BY <2>2 DEF RowTerms, Twice
  <2> QED
    BY <1>2, <2>1, <2>3, Sum8Is DEF Row
<1>4. Row(8, b) = Added(Added(Row(0, b), Row(1, b)), Added(Row(3, b), Row(4, b)))
  <2>1. 0 \in 0..8 /\ 1 \in 0..8 /\ 3 \in 0..8 /\ 4 \in 0..8 /\ 8 \in 0..8
    OBVIOUS
  <2> DEFINE s == Together(RowTerms(0, b), RowTerms(1, b))
             t == Together(RowTerms(3, b), RowTerms(4, b))
  <2>2. /\ RowTerms(0, b) \in Terms /\ RowTerms(1, b) \in Terms
        /\ RowTerms(3, b) \in Terms /\ RowTerms(4, b) \in Terms
    BY <1>2, <2>1
  <2>3. /\ s \in Terms /\ Sum8(s) = Added(Row(0, b), Row(1, b))
        /\ t \in Terms /\ Sum8(t) = Added(Row(3, b), Row(4, b))
    BY <2>2, Sum8Is DEF Row
  <2>4. ASSUME NEW j \in 0..7
        PROVE  ForTerm(b, j, Powers[8 + j + 1]) = Added(s[j], t[j])
    <3>1. /\ j + 1 \in 1..8 /\ 8 + j + 1 = (j + 1) + 8 /\ 0 + j + 1 = j + 1 /\ 1 + j + 1 = (j + 1) + 1
          /\ 3 + j + 1 = (j + 1) + 3 /\ 4 + j + 1 = (j + 1) + 4
      OBVIOUS
    <3> DEFINE k == j + 1
    <3>2. /\ Powers[k] \in Byte /\ Powers[k + 1] \in Byte /\ Powers[k + 3] \in Byte /\ Powers[k + 4] \in Byte
      <4>1. k \in 1..16 /\ k + 1 \in 1..16 /\ k + 3 \in 1..16 /\ k + 4 \in 1..16
        OBVIOUS
      <4> QED
        BY <4>1, PowersAre
    <3>3. Powers[k + 8] = Added(Added(Powers[k], Powers[k + 1]), Added(Powers[k + 3], Powers[k + 4]))
      BY <3>1, PowersAre
    <3>4. /\ s[j] = Added(ForTerm(b, j, Powers[k]), ForTerm(b, j, Powers[k + 1]))
          /\ t[j] = Added(ForTerm(b, j, Powers[k + 3]), ForTerm(b, j, Powers[k + 4]))
      BY <3>1 DEF Together, RowTerms
    <3> HIDE DEF k, s, t
    <3>5. Added(Powers[k], Powers[k + 1]) \in Byte /\ Added(Powers[k + 3], Powers[k + 4]) \in Byte
      BY <3>2, AddedOn
    <3>6. ForTerm(b, j, Powers[k + 8]) = Added(ForTerm(b, j, Added(Powers[k], Powers[k + 1])),
                                               ForTerm(b, j, Added(Powers[k + 3], Powers[k + 4])))
      BY <3>3, <3>5, ForTermIs
    <3>7. \A v, w \in Byte : ForTerm(b, j, Added(v, w)) = Added(ForTerm(b, j, v), ForTerm(b, j, w))
      BY ForTermIs
    <3>8. /\ ForTerm(b, j, Added(Powers[k], Powers[k + 1])) = s[j]
          /\ ForTerm(b, j, Added(Powers[k + 3], Powers[k + 4])) = t[j]
      BY <3>2, <3>4, <3>7
    <3> QED
      BY <3>1, <3>6, <3>8 DEF k
  <2>5. RowTerms(8, b) = Together(s, t)
    <3> HIDE DEF s, t
    <3> QED
      BY <2>4 DEF RowTerms, Together
  <2> HIDE DEF s, t
  <2>6. Sum8(Together(s, t)) = Added(Sum8(s), Sum8(t))
    BY <2>3, Sum8Is
  <2> QED
    BY <2>3, <2>5, <2>6 DEF Row
<1> QED
  BY <1>2, <1>3, <1>4

(* A product is a byte, and additive in its first factor.                  *)
LEMMA ProductSum ==
  ASSUME NEW a \in Byte, NEW b \in Byte, NEW c \in Byte
  PROVE  /\ ProductTerms(a, b) \in Terms /\ FieldProduct(a, b) \in Byte
         /\ FieldProduct(Added(a, c), b) = Added(FieldProduct(a, b), FieldProduct(c, b))
<1>1. \A i \in 0..7 : Row(i, b) \in Byte
  <2>1. \A i \in 0..7 : i \in 0..8
    OBVIOUS
  <2> QED
    BY <2>1, RowsAre
<1>2. ASSUME NEW x \in Byte
      PROVE  ProductTerms(x, b) \in Terms /\ FieldProduct(x, b) \in Byte /\ FieldProduct(x, b) = Sum8(ProductTerms(x, b))
  <2>1. \A i \in 0..7 : ForTerm(x, i, Row(i, b)) \in Byte
    BY <1>1, ForTermIs
  <2>2. ProductTerms(x, b) \in Terms
    BY <2>1 DEF ProductTerms, Terms
  <2> QED
    BY <2>2, FieldProductIs, Sum8Is
<1>3. ProductTerms(Added(a, c), b) = Together(ProductTerms(a, b), ProductTerms(c, b))
  <2>1. \A i \in 0..7 : ForTerm(Added(a, c), i, Row(i, b)) = Added(ForTerm(a, i, Row(i, b)), ForTerm(c, i, Row(i, b)))
    BY <1>1, ForTermIs
  <2> QED
    BY <2>1 DEF ProductTerms, Together
<1>4. Added(a, c) \in Byte
  BY AddedOn
<1>5. /\ FieldProduct(Added(a, c), b) = Sum8(ProductTerms(Added(a, c), b))
      /\ FieldProduct(a, b) = Sum8(ProductTerms(a, b)) /\ FieldProduct(c, b) = Sum8(ProductTerms(c, b))
      /\ ProductTerms(a, b) \in Terms /\ ProductTerms(c, b) \in Terms
  BY <1>2, <1>4
<1>6. Sum8(Together(ProductTerms(a, b), ProductTerms(c, b))) = Added(Sum8(ProductTerms(a, b)), Sum8(ProductTerms(c, b)))
  BY <1>5, Sum8Is
<1> QED
  BY <1>2, <1>3, <1>5, <1>6

(* Which terms a doubled byte has: those one below, and where x^8 is       *)
(* replaced also the highest.                                              *)
LEMMA DoubledBits ==
  ASSUME NEW a \in Byte
  PROVE  LET d == Doubled(a)
             high == Bit(a, 7) = 1
         IN  /\ Bit(d, 0) = 1 <=> high
             /\ Bit(d, 1) = 1 <=> ~(Bit(a, 0) = 1 <=> high)
             /\ Bit(d, 2) = 1 <=> Bit(a, 1) = 1
             /\ Bit(d, 3) = 1 <=> ~(Bit(a, 2) = 1 <=> high)
             /\ Bit(d, 4) = 1 <=> ~(Bit(a, 3) = 1 <=> high)
             /\ Bit(d, 5) = 1 <=> Bit(a, 4) = 1
             /\ Bit(d, 6) = 1 <=> Bit(a, 5) = 1
             /\ Bit(d, 7) = 1 <=> Bit(a, 6) = 1
<1>1. \A x \in Byte : /\ (On(x, 1) <=> Bit(x, 0) = 1) /\ (On(x, 2) <=> Bit(x, 1) = 1)
                      /\ (On(x, 4) <=> Bit(x, 2) = 1) /\ (On(x, 8) <=> Bit(x, 3) = 1)
                      /\ (On(x, 16) <=> Bit(x, 4) = 1) /\ (On(x, 32) <=> Bit(x, 5) = 1)
                      /\ (On(x, 64) <=> Bit(x, 6) = 1) /\ (On(x, 128) <=> Bit(x, 7) = 1)
  BY DEF Byte, Bit, On
<1> QED
  BY <1>1, DoubledOn

(* A product with x is the product doubled.                                *)
LEMMA ProductDoubled ==
  ASSUME NEW a \in Byte, NEW b \in Byte
  PROVE  FieldProduct(Doubled(a), b) = Doubled(FieldProduct(a, b))
<1> DEFINE t(i, r) == ForTerm(a, i, Row(r, b))
           f == ProductTerms(a, b)
           shift == [i \in 0..7 |-> IF i = 0 THEN 0 ELSE t(i - 1, i)]
           carry == [i \in 0..7 |-> IF i \in {0, 1, 3, 4} THEN t(7, i) ELSE 0]
           d == ProductTerms(Doubled(a), b)
<1>1. Doubled(a) \in Byte
  BY DoubledOn
<1>2. \A i \in 0..8 : Row(i, b) \in Byte
  BY RowsAre
<1>3. \A i \in 0..7, r \in 0..8 : t(i, r) \in Byte
  BY <1>2, ForTermIs
<1>4. FieldProduct(a, b) = Sum8(f) /\ FieldProduct(Doubled(a), b) = Sum8(d) /\ f \in Terms /\ d \in Terms
  BY <1>1, ProductSum, FieldProductIs
<1>5. shift \in Terms /\ carry \in Terms
  <2>1. \A i \in 0..7 : i # 0 => i - 1 \in 0..7 /\ i \in 0..8
    OBVIOUS
  <2>2. \A i \in 0..7 : 7 \in 0..7 /\ i \in 0..8
    OBVIOUS
  <2> HIDE DEF t
  <2> QED
    BY <1>3, <2>1, <2>2, DoubledZero DEF Terms
<1>6. d = Together(shift, carry)
  <2>1. ASSUME NEW i \in 0..7 PROVE d[i] = Added(shift[i], carry[i])
    <3>1. d[i] = ForTerm(Doubled(a), i, Row(i, b))
      BY DEF ProductTerms
    <3>2. i \in 0..8
      OBVIOUS
    <3>3. PICK v \in Byte : v = Row(i, b)
      BY <1>2, <3>2
    <3>4. Added(0, 0) = 0 /\ Added(v, 0) = v /\ Added(0, v) = v /\ Added(v, v) = 0
      BY AddedGroup, DoubledZero
    <3>5. shift[i] = IF i # 0 /\ Bit(a, i - 1) = 1 THEN v ELSE 0
      BY <3>3 DEF ForTerm
    <3>6. carry[i] = IF i \in {0, 1, 3, 4} /\ Bit(a, 7) = 1 THEN v ELSE 0
      BY <3>3 DEF ForTerm
    <3>7. d[i] = IF Bit(Doubled(a), i) = 1 THEN v ELSE 0
      BY <3>1, <3>3 DEF ForTerm
    <3>8. Bit(Doubled(a), i) = 1 <=> ~((i # 0 /\ Bit(a, i - 1) = 1) <=> (i \in {0, 1, 3, 4} /\ Bit(a, 7) = 1))
      <4>1. i \in {0, 1, 2, 3, 4, 5, 6, 7}
        OBVIOUS
      <4> QED
        BY <4>1, DoubledBits
    <3> HIDE DEF d, shift, carry
    <3> QED
      BY <3>4, <3>5, <3>6, <3>7, <3>8
  <2>2. d = [i \in 0..7 |-> d[i]]
    BY <1>4 DEF Terms
  <2> HIDE DEF d, shift, carry
  <2> QED
    BY <2>1, <2>2 DEF Together
<1>7. Sum8(d) = Added(Sum8(shift), Sum8(carry))
  <2> HIDE DEF shift, carry, d
  <2> QED
    BY <1>5, <1>6, Sum8Is
<1>8. Sum8(carry) = t(7, 8)
  <2>1. /\ carry[0] = t(7, 0) /\ carry[1] = t(7, 1) /\ carry[2] = 0 /\ carry[3] = t(7, 3)
        /\ carry[4] = t(7, 4) /\ carry[5] = 0 /\ carry[6] = 0 /\ carry[7] = 0
    <3> HIDE DEF t
    <3> QED
      OBVIOUS
  <2>2. t(7, 0) \in Byte /\ t(7, 1) \in Byte /\ t(7, 3) \in Byte /\ t(7, 4) \in Byte
    BY <1>3
  <2>3. t(7, 8) = Added(Added(t(7, 0), t(7, 1)), Added(t(7, 3), t(7, 4)))
    <3>1. /\ Row(0, b) \in Byte /\ Row(1, b) \in Byte /\ Row(3, b) \in Byte /\ Row(4, b) \in Byte
          /\ 7 \in 0..7
      BY <1>2
    <3>2. Added(Row(0, b), Row(1, b)) \in Byte /\ Added(Row(3, b), Row(4, b)) \in Byte
      BY <3>1, AddedOn
    <3>3. Row(8, b) = Added(Added(Row(0, b), Row(1, b)), Added(Row(3, b), Row(4, b)))
      BY RowsAre
    <3>4. t(7, 8) = Added(ForTerm(a, 7, Added(Row(0, b), Row(1, b))), ForTerm(a, 7, Added(Row(3, b), Row(4, b))))
      BY <3>1, <3>2, <3>3, ForTermIs
    <3>5. ForTerm(a, 7, Added(Row(0, b), Row(1, b))) = Added(t(7, 0), t(7, 1))
      BY <3>1, ForTermIs
    <3>6. ForTerm(a, 7, Added(Row(3, b), Row(4, b))) = Added(t(7, 3), t(7, 4))
      BY <3>1, ForTermIs
    <3> QED
      BY <3>4, <3>5, <3>6
  <2> HIDE DEF t, carry
  <2> DEFINE u == Added(t(7, 0), t(7, 1))
             w == Added(u, t(7, 3))
             x == Added(w, t(7, 4))
  <2>4. u \in Byte
    BY <2>2, AddedOn
  <2>5. w \in Byte
    BY <2>2, <2>4, AddedOn
  <2>6. x \in Byte
    BY <2>2, <2>5, AddedOn
  <2>7. x = t(7, 8)
    <3> HIDE DEF u
    <3>1. x = Added(u, Added(t(7, 3), t(7, 4)))
      BY <2>2, <2>4, AddedGroup
    <3> QED
      BY <2>3, <3>1 DEF u
  <2>8. Added(u, 0) = u /\ Added(x, 0) = x
    <3> HIDE DEF u, x
    <3> QED
      BY <2>4, <2>6, AddedGroup
  <2> QED
    BY <2>1, <2>7, <2>8 DEF Sum8
<1>9. Doubled(Sum8(f)) = Added(Sum8(shift), t(7, 8))
  <2> DEFINE e == Twice(f)
  <2>1. e \in Terms /\ Sum8(e) = Doubled(Sum8(f))
    BY <1>4, Sum8Is
  <2>2. ASSUME NEW i \in 0..7 PROVE e[i] = t(i, i + 1)
    <3>1. e[i] = Doubled(t(i, i))
      BY DEF Twice, ProductTerms
    <3>2. i \in 0..8 /\ Row(i, b) \in Byte
      BY <1>2
    <3>3. Row(i + 1, b) = Doubled(Row(i, b))
      BY RowsAre
    <3> QED
      BY <3>1, <3>2, <3>3, ForTermIs
  <2>3. \A i \in {0, 1, 2, 3, 4, 5, 6, 7} : e[i] = t(i, i + 1)
    <3> HIDE DEF e, t
    <3>1. {0, 1, 2, 3, 4, 5, 6, 7} = 0..7
      OBVIOUS
    <3> QED
      BY <2>2, <3>1
  <2>4. /\ e[0] = t(0, 1) /\ e[1] = t(1, 2) /\ e[2] = t(2, 3) /\ e[3] = t(3, 4)
        /\ e[4] = t(4, 5) /\ e[5] = t(5, 6) /\ e[6] = t(6, 7) /\ e[7] = t(7, 8)
    <3>1. 0 + 1 = 1 /\ 1 + 1 = 2 /\ 2 + 1 = 3 /\ 3 + 1 = 4 /\ 4 + 1 = 5 /\ 5 + 1 = 6 /\ 6 + 1 = 7 /\ 7 + 1 = 8
      OBVIOUS
    <3> HIDE DEF e, t
    <3> QED
      BY <2>3, <3>1
  <2>5. /\ shift[0] = 0 /\ shift[1] = t(0, 1) /\ shift[2] = t(1, 2) /\ shift[3] = t(2, 3)
        /\ shift[4] = t(3, 4) /\ shift[5] = t(4, 5) /\ shift[6] = t(5, 6) /\ shift[7] = t(6, 7)
    <3> HIDE DEF t
    <3> QED
      OBVIOUS
  <2>6. Added(0, t(0, 1)) = t(0, 1)
    <3>1. t(0, 1) \in Byte
      BY <1>3
    <3> HIDE DEF t
    <3> QED
      BY <3>1, AddedGroup
  <2> HIDE DEF e, shift, t
  <2> QED
    BY <2>1, <2>4, <2>5, <2>6 DEF Sum8
<1> HIDE DEF d, f, shift, carry, t
<1> QED
  BY <1>4, <1>7, <1>8, <1>9

(* A sum of eight terms of which one has a bit has that bit, too.          *)
LEMMA Sum8On ==
  ASSUME NEW f \in Terms, NEW p \in Places
  PROVE  On(Sum8(f), p) <=>
           Xors(Xors(Xors(Xors(Xors(Xors(Xors(On(f[0], p), On(f[1], p)), On(f[2], p)), On(f[3], p)),
                On(f[4], p)), On(f[5], p)), On(f[6], p)), On(f[7], p))
<1> DEFINE f1 == Added(f[0], f[1])
           f2 == Added(f1, f[2])
           f3 == Added(f2, f[3])
           f4 == Added(f3, f[4])
           f5 == Added(f4, f[5])
           f6 == Added(f5, f[6])
           f7 == Added(f6, f[7])
<1>1. /\ f[0] \in Byte /\ f[1] \in Byte /\ f[2] \in Byte /\ f[3] \in Byte
      /\ f[4] \in Byte /\ f[5] \in Byte /\ f[6] \in Byte /\ f[7] \in Byte
  BY TermsAre
<1>2. \A x, y \in Byte : Added(x, y) \in Byte /\ (On(Added(x, y), p) <=> Xors(On(x, p), On(y, p)))
  BY AddedOn DEF Xors
<1>3. f1 \in Byte /\ (On(f1, p) <=> Xors(On(f[0], p), On(f[1], p)))
  BY <1>1, <1>2
<1> HIDE DEF f1
<1>4. f2 \in Byte /\ (On(f2, p) <=> Xors(On(f1, p), On(f[2], p)))
  BY <1>1, <1>2, <1>3
<1> HIDE DEF f2
<1>5. f3 \in Byte /\ (On(f3, p) <=> Xors(On(f2, p), On(f[3], p)))
  BY <1>1, <1>2, <1>4
<1> HIDE DEF f3
<1>6. f4 \in Byte /\ (On(f4, p) <=> Xors(On(f3, p), On(f[4], p)))
  BY <1>1, <1>2, <1>5
<1> HIDE DEF f4
<1>7. f5 \in Byte /\ (On(f5, p) <=> Xors(On(f4, p), On(f[5], p)))
  BY <1>1, <1>2, <1>6
<1> HIDE DEF f5
<1>8. f6 \in Byte /\ (On(f6, p) <=> Xors(On(f5, p), On(f[6], p)))
  BY <1>1, <1>2, <1>7
<1> HIDE DEF f6
<1>9. f7 \in Byte /\ (On(f7, p) <=> Xors(On(f6, p), On(f[7], p)))
  BY <1>1, <1>2, <1>8
<1> HIDE DEF f7
<1>10. Sum8(f) = f7
  BY DEF Sum8, f1, f2, f3, f4, f5, f6, f7
<1> QED
  BY <1>3, <1>4, <1>5, <1>6, <1>7, <1>8, <1>9, <1>10 DEF Xors

(* The first row is the byte itself: it is the sum of its terms.           *)
LEMMA FirstRow ==
  ASSUME NEW b \in Byte
  PROVE  Row(0, b) = b
<1> DEFINE r == RowTerms(0, b)
           is(j, q) == \A p \in Places : On(r[j], p) <=> (p = q /\ On(b, p))
<1>1. r \in Terms /\ Row(0, b) = Sum8(r) /\ Row(0, b) \in Byte
  <2>1. 0 \in 0..8
    OBVIOUS
  <2> QED
    BY <2>1, RowsAre DEF Row
<1>2. \A x \in Byte : /\ (On(x, 1) <=> Bit(x, 0) = 1) /\ (On(x, 2) <=> Bit(x, 1) = 1)
                      /\ (On(x, 4) <=> Bit(x, 2) = 1) /\ (On(x, 8) <=> Bit(x, 3) = 1)
                      /\ (On(x, 16) <=> Bit(x, 4) = 1) /\ (On(x, 32) <=> Bit(x, 5) = 1)
                      /\ (On(x, 64) <=> Bit(x, 6) = 1) /\ (On(x, 128) <=> Bit(x, 7) = 1)
  BY DEF Byte, Bit, On
<1>3. ASSUME NEW j \in 0..7, NEW q \in Places, Powers[j + 1] = q, Bit(b, j) = 1 <=> On(b, q)
      PROVE  is(j, q)
  <2>1. \A p \in Places : /\ On(q, p) <=> p = q
                          /\ ~On(0, p)
    BY DEF Places, On
  <2>2. r[j] = IF On(b, q) THEN q ELSE 0
    <3>1. 0 + j + 1 = j + 1
      OBVIOUS
    <3>2. r[j] = ForTerm(b, j, Powers[j + 1])
      BY <3>1 DEF RowTerms
    <3> QED
      BY <1>3, <3>2 DEF ForTerm
  <2> HIDE DEF r
  <2> QED
    BY <2>1, <2>2
<1> HIDE DEF is
<1>4. is(0, 1) /\ is(1, 2) /\ is(2, 4) /\ is(3, 8) /\ is(4, 16) /\ is(5, 32) /\ is(6, 64) /\ is(7, 128)
  <2>1. /\ Powers[0 + 1] = 1 /\ Powers[1 + 1] = 2 /\ Powers[2 + 1] = 4 /\ Powers[3 + 1] = 8
        /\ Powers[4 + 1] = 16 /\ Powers[5 + 1] = 32 /\ Powers[6 + 1] = 64 /\ Powers[7 + 1] = 128
    BY DEF Powers
  <2>2. {0, 1, 2, 3, 4, 5, 6, 7} = 0..7 /\ {1, 2, 4, 8, 16, 32, 64, 128} = Places
    BY DEF Places
  <2>3. is(0, 1) /\ is(1, 2) /\ is(2, 4) /\ is(3, 8)
    BY <1>2, <1>3, <2>1, <2>2
  <2>4. is(4, 16) /\ is(5, 32) /\ is(6, 64) /\ is(7, 128)
    BY <1>2, <1>3, <2>1, <2>2
  <2> QED
    BY <2>3, <2>4
<1> HIDE DEF r
<1>5. \A p \in Places : On(Sum8(r), p) <=> On(b, p)
  <2> TAKE p \in Places
  <2>2. /\ On(r[0], p) <=> (p = 1 /\ On(b, p))
        /\ On(r[1], p) <=> (p = 2 /\ On(b, p))
        /\ On(r[2], p) <=> (p = 4 /\ On(b, p))
        /\ On(r[3], p) <=> (p = 8 /\ On(b, p))
        /\ On(r[4], p) <=> (p = 16 /\ On(b, p))
        /\ On(r[5], p) <=> (p = 32 /\ On(b, p))
        /\ On(r[6], p) <=> (p = 64 /\ On(b, p))
        /\ On(r[7], p) <=> (p = 128 /\ On(b, p))
    BY <1>4 DEF is
  <2>3. On(Sum8(r), p) <=>
           Xors(Xors(Xors(Xors(Xors(Xors(Xors(On(r[0], p), On(r[1], p)), On(r[2], p)), On(r[3], p)),
                On(r[4], p)), On(r[5], p)), On(r[6], p)), On(r[7], p))
    BY <1>1, Sum8On
  <2> QED
    BY <2>2, <2>3 DEF Xors, Places
<1> QED
  BY <1>1, <1>5, SameBits

(* Products with the factors of mix_columns(), and with nothing.           *)
LEMMA ProductsAre ==
  ASSUME NEW b \in Byte
  PROVE  /\ FieldProduct(0, b) = 0
         /\ FieldProduct(1, b) = b
         /\ FieldProduct(2, b) = Doubled(b)
         /\ FieldProduct(3, b) = Added(Doubled(b), b)
<1>1. 0 \in Byte /\ 1 \in Byte /\ 2 \in Byte
  BY DEF Byte
<1>2. Doubled(1) = 2 /\ Added(2, 1) = 3 /\ Added(0, 0) = 0
  <2>1. Xor(2, 1) = 3
    BY DEF Xor, FromBits, Bit
  <2> QED
    BY <1>1, <2>1, AddedIs, AddedGroup DEF Doubled
<1>3. FieldProduct(0, b) = 0
  <2>1. FieldProduct(0, b) \in Byte /\ FieldProduct(Added(0, 0), b) = Added(FieldProduct(0, b), FieldProduct(0, b))
    BY <1>1, ProductSum
  <2> QED
    BY <1>2, <2>1, AddedGroup
<1>4. FieldProduct(1, b) = b
  <2> DEFINE t == ProductTerms(1, b)
  <2>1. FieldProduct(1, b) = Sum8(t)
    BY <1>1, FieldProductIs
  <2>2. \A i \in 0..7 : Bit(1, i) = 1 <=> i = 0
    <3>1. /\ Bit(1, 0) = 1 /\ Bit(1, 1) = 0 /\ Bit(1, 2) = 0 /\ Bit(1, 3) = 0
          /\ Bit(1, 4) = 0 /\ Bit(1, 5) = 0 /\ Bit(1, 6) = 0 /\ Bit(1, 7) = 0
      BY DEF Bit
    <3>2. 0..7 = {0, 1, 2, 3, 4, 5, 6, 7}
      OBVIOUS
    <3> QED
      BY <3>1, <3>2
  <2>3. \A i \in 0..7 : t[i] = IF i = 0 THEN b ELSE 0
    <3>1. \A i \in 0..7 : t[i] = IF i = 0 THEN Row(i, b) ELSE 0
      BY <2>2 DEF ProductTerms, ForTerm
    <3> HIDE DEF t
    <3> QED
      BY <3>1, FirstRow
  <2> HIDE DEF t
  <2>4. t[0] = b /\ t[1] = 0 /\ t[2] = 0 /\ t[3] = 0 /\ t[4] = 0 /\ t[5] = 0 /\ t[6] = 0 /\ t[7] = 0
    BY <2>3
  <2>5. Added(b, 0) = b
    BY <1>1, AddedGroup
  <2> QED
    BY <2>1, <2>4, <2>5 DEF Sum8
<1>5. FieldProduct(2, b) = Doubled(b)
  BY <1>1, <1>2, <1>4, ProductDoubled
<1>6. FieldProduct(3, b) = Added(Doubled(b), b)
  BY <1>1, <1>2, <1>4, <1>5, ProductSum
<1> QED
  BY <1>3, <1>4, <1>5, <1>6

(* Every byte but 0 is a power of x + 1, and the logarithm of each.        *)
Exp ==
  << \h01, \h03, \h05, \h0f, \h11, \h33, \h55, \hff, \h1a, \h2e, \h72, \h96, \ha1, \hf8, \h13, \h35,
     \h5f, \he1, \h38, \h48, \hd8, \h73, \h95, \ha4, \hf7, \h02, \h06, \h0a, \h1e, \h22, \h66, \haa,
     \he5, \h34, \h5c, \he4, \h37, \h59, \heb, \h26, \h6a, \hbe, \hd9, \h70, \h90, \hab, \he6, \h31,
     \h53, \hf5, \h04, \h0c, \h14, \h3c, \h44, \hcc, \h4f, \hd1, \h68, \hb8, \hd3, \h6e, \hb2, \hcd,
     \h4c, \hd4, \h67, \ha9, \he0, \h3b, \h4d, \hd7, \h62, \ha6, \hf1, \h08, \h18, \h28, \h78, \h88,
     \h83, \h9e, \hb9, \hd0, \h6b, \hbd, \hdc, \h7f, \h81, \h98, \hb3, \hce, \h49, \hdb, \h76, \h9a,
     \hb5, \hc4, \h57, \hf9, \h10, \h30, \h50, \hf0, \h0b, \h1d, \h27, \h69, \hbb, \hd6, \h61, \ha3,
     \hfe, \h19, \h2b, \h7d, \h87, \h92, \had, \hec, \h2f, \h71, \h93, \hae, \he9, \h20, \h60, \ha0,
     \hfb, \h16, \h3a, \h4e, \hd2, \h6d, \hb7, \hc2, \h5d, \he7, \h32, \h56, \hfa, \h15, \h3f, \h41,
     \hc3, \h5e, \he2, \h3d, \h47, \hc9, \h40, \hc0, \h5b, \hed, \h2c, \h74, \h9c, \hbf, \hda, \h75,
     \h9f, \hba, \hd5, \h64, \hac, \hef, \h2a, \h7e, \h82, \h9d, \hbc, \hdf, \h7a, \h8e, \h89, \h80,
     \h9b, \hb6, \hc1, \h58, \he8, \h23, \h65, \haf, \hea, \h25, \h6f, \hb1, \hc8, \h43, \hc5, \h54,
     \hfc, \h1f, \h21, \h63, \ha5, \hf4, \h07, \h09, \h1b, \h2d, \h77, \h99, \hb0, \hcb, \h46, \hca,
     \h45, \hcf, \h4a, \hde, \h79, \h8b, \h86, \h91, \ha8, \he3, \h3e, \h42, \hc6, \h51, \hf3, \h0e,
     \h12, \h36, \h5a, \hee, \h29, \h7b, \h8d, \h8c, \h8f, \h8a, \h85, \h94, \ha7, \hf2, \h0d, \h17,
     \h39, \h4b, \hdd, \h7c, \h84, \h97, \ha2, \hfd, \h1c, \h24, \h6c, \hb4, \hc7, \h52, \hf6 >>
Log ==
  <<   0,  25,   1,  50,   2,  26, 198,  75, 199,  27, 104,  51, 238, 223,   3, 100,
       4, 224,  14,  52, 141, 129, 239,  76, 113,   8, 200, 248, 105,  28, 193, 125,
     194,  29, 181, 249, 185,  39, 106,  77, 228, 166, 114, 154, 201,   9, 120, 101,
      47, 138,   5,  33,  15, 225,  36,  18, 240, 130,  69,  53, 147, 218, 142, 150,
     143, 219, 189,  54, 208, 206, 148,  19,  92, 210, 241,  64,  70, 131,  56, 102,
     221, 253,  48, 191,   6, 139,  98, 179,  37, 226, 152,  34, 136, 145,  16, 126,
     110,  72, 195, 163, 182,  30,  66,  58, 107,  40,  84, 250, 133,  61, 186,  43,
     121,  10,  21, 155, 159,  94, 202,  78, 212, 172, 229, 243, 115, 167,  87, 175,
      88, 168,  80, 244, 234, 214, 116,  79, 174, 233, 213, 231, 230, 173, 232,  44,
     215, 117, 122, 235,  22,  11, 245,  89, 203,  95, 176, 156, 169,  81, 160, 127,
      12, 246, 111,  23, 196,  73, 236, 216,  67,  31,  45, 164, 118, 123, 183, 204,
     187,  62,  90, 251,  96, 177, 134,  59,  82, 161, 108, 170,  85,  41, 157, 151,
     178, 135, 144,  97, 190, 220, 252, 188, 149, 207, 205,  55,  63,  91, 209,  83,
      57, 132,  60,  65, 162, 109,  71,  20,  42, 158,  93,  86, 242, 211, 171,  68,
      17, 146, 217,  35,  32,  46, 137, 180, 124, 184,  38, 119, 153, 227, 165, 103,
      74, 237, 222, 197,  49, 254,  24,  13,  99, 140, 128, 192, 247, 112,   7 >>

NonZero == Byte \ {0}
Exponents == {n \in Nat : n < 255}
Power(n) == Exp[n + 1]

(* What the two tables have to do with one another.                        *)
LEMMA ExpAndLog ==
  /\ \A n \in Exponents : Power(n) \in NonZero /\ Log[Power(n)] = n
  /\ \A a \in NonZero : Log[a] \in Exponents /\ Power(Log[a]) = a
  /\ Power(0) = 1
<1>1. \A i \in 1..255 : Exp[i] \in 1..255
  BY DEF Exp
<1>2. \A i \in 1..255 : Log[Exp[i]] = i - 1
  BY DEF Exp, Log
<1>3. \A a \in 1..255 : Log[a] \in 0..254
  BY DEF Log
<1>4. \A a \in 1..255 : Exp[Log[a] + 1] = a
  BY DEF Exp, Log
<1>5. Power(0) = 1
  BY DEF Exp, Power
<1>6. NonZero = 1..255
  BY DEF Byte, NonZero
<1>7. 0..254 = Exponents
  BY DEF Exponents
<1>8. \A n \in Exponents : n + 1 \in NonZero /\ (n + 1) - 1 = n
  BY DEF Exponents, Byte, NonZero
<1> DEFINE N == 1..255
           E == 0..254
<1>9. /\ \A i \in N : Exp[i] \in N /\ Log[Exp[i]] = i - 1
      /\ \A a \in N : Log[a] \in E /\ Exp[Log[a] + 1] = a
      /\ N = NonZero /\ E = Exponents
  <2>1. \A i \in N : Exp[i] \in N
    BY <1>1, Zenon
  <2>2. \A i \in N : Log[Exp[i]] = i - 1
    BY <1>2, Zenon
  <2>3. \A a \in N : Log[a] \in E
    BY <1>3, Zenon
  <2>4. \A a \in N : Exp[Log[a] + 1] = a
    BY <1>4, Zenon
  <2>5. N = NonZero /\ E = Exponents
    BY <1>6, <1>7
  <2> HIDE DEF N, E
  <2> QED
    BY <2>1, <2>2, <2>3, <2>4, <2>5, Zenon
<1> HIDE DEF N, E
<1> QED
  BY <1>5, <1>8, <1>9 DEF Power

(* Each power is the one before it times x + 1, and after the last comes   *)
(* the first.                                                              *)
Tripled(a) == Added(Doubled(a), a)
After(n) == IF n = 254 THEN 0 ELSE n + 1

(* The power after each is three times it, as the code's field has it.     *)
LEMMA NextPower ==
  ASSUME NEW n \in Exponents
  PROVE  After(n) \in Exponents /\ Power(After(n)) = Tripled(Power(n))
<1> DEFINE twice(a) == IF a >= 128 THEN 2 * a - 229 - 4 * (a % 2) - 16 * ((a \div 4) % 2) - 32 * ((a \div 8) % 2)
                       ELSE 2 * a
<1>1. \A i \in 1..254 : Xor(Exp[i + 1], Exp[i]) = twice(Exp[i])
  BY SMTT(60) DEF Exp, Xor, FromBits, Bit
<1>2. Xor(Exp[1], Exp[255]) = twice(Exp[255])
  BY DEF Exp, Xor, FromBits, Bit
<1>3. \A a \in Byte : Doubled(a) = twice(a)
  <2> TAKE a \in Byte
  <2>1. CASE a >= 128
    <3>1. (2 * a) % 256 = 2 * a - 256 /\ (2 * a) % 256 \in Byte /\ \h1b \in Byte
      BY <2>1 DEF Byte
    <3>2. Xor(2 * a - 256, \h1b) = twice(a)
      BY <2>1 DEF Xor, FromBits, Bit, Byte
    <3>3. Doubled(a) = Added((2 * a) % 256, \h1b)
      BY <2>1 DEF Doubled
    <3> HIDE DEF twice
    <3> QED
      BY <3>1, <3>2, <3>3, AddedIs
  <2>2. CASE ~(a >= 128)
    BY <2>2 DEF Doubled
  <2> QED
    BY <2>1, <2>2
<1>4. \A a \in NonZero : a \in Byte
  BY DEF NonZero
<1>5. After(n) \in Exponents
  BY DEF After, Exponents
<1> DEFINE a == Power(n)
           b == Power(After(n))
<1>6. a \in Byte /\ b \in Byte
  BY <1>4, <1>5, ExpAndLog
<1>7. Xor(b, a) = twice(a)
  <2> HIDE DEF twice
  <2>1. CASE n = 254
    <3>1. b = Exp[0 + 1] /\ a = Exp[254 + 1] /\ 0 + 1 = 1 /\ 254 + 1 = 255
      BY <2>1 DEF Power, After
    <3> HIDE DEF a, b
    <3> QED
      BY <1>2, <3>1
  <2>2. CASE n # 254
    <3>1. b = Exp[(n + 1) + 1] /\ a = Exp[n + 1]
      BY <2>2 DEF Power, After
    <3>2. n + 1 \in 1..254
      BY <2>2 DEF Exponents
    <3> HIDE DEF a, b
    <3> QED
      BY <1>1, <3>1, <3>2
  <2> QED
    BY <2>1, <2>2
<1> HIDE DEF twice, a, b
<1>8. Added(b, a) = Doubled(a)
  BY <1>3, <1>6, <1>7, AddedIs
<1>9. Added(Added(b, a), a) = b
  BY <1>6, AddedTwice
<1> QED
  BY <1>5, <1>8, <1>9 DEF Tripled, a, b

(* Products of powers are powers: the exponents are added.                 *)
LEMMA ProductOfPowers ==
  ASSUME NEW i \in Exponents, NEW j \in Exponents
  PROVE  (i + j) % 255 \in Exponents /\ FieldProduct(Power(i), Power(j)) = Power((i + j) % 255)
<1> DEFINE b == Power(j)
           is(n) == FieldProduct(Power(n), b) = Power((n + j) % 255)
           T == {n \in Exponents : is(n)}
<1>1. b \in Byte
  BY ExpAndLog DEF NonZero
<1>2. 0 \in T
  <2>1. (0 + j) % 255 = j /\ 0 \in Exponents
    BY DEF Exponents
  <2>2. FieldProduct(1, b) = b
    <3> HIDE DEF b
    <3> QED
      BY <1>1, ProductsAre
  <2> QED
    BY <2>1, <2>2, ExpAndLog
<1>3. ASSUME NEW n \in Exponents, n # 254, is(n) PROVE is(n + 1)
  <2> DEFINE e == Power(n)
             m == (n + j) % 255
  <2>1. After(n) = n + 1
    BY <1>3 DEF After
  <2>2. e \in Byte /\ Power(n + 1) = Tripled(e)
    BY <2>1, ExpAndLog, NextPower DEF NonZero
  <2>3. m \in Exponents /\ ((n + 1) + j) % 255 = After(m)
    BY DEF Exponents, After
  <2> HIDE DEF m
  <2>4. Power(((n + 1) + j) % 255) = Tripled(Power(m))
    BY <2>3, NextPower
  <2>5. FieldProduct(e, b) = Power(m)
    BY <1>3 DEF m
  <2> HIDE DEF e, b
  <2>6. Doubled(e) \in Byte
    BY <2>2, DoubledOn
  <2>7. FieldProduct(Tripled(e), b) = Added(FieldProduct(Doubled(e), b), FieldProduct(e, b))
    BY <1>1, <2>2, <2>6, ProductSum DEF Tripled
  <2>8. FieldProduct(Doubled(e), b) = Doubled(FieldProduct(e, b))
    BY <1>1, <2>2, ProductDoubled
  <2>9. FieldProduct(Tripled(e), b) = Tripled(Power(m))
    BY <2>5, <2>7, <2>8 DEF Tripled
  <2> QED
    BY <2>2, <2>4, <2>9
<1>4. \A n \in 1..254 : n - 1 \in Exponents /\ n - 1 # 254 /\ (n - 1) + 1 = n /\ n \in Exponents
  BY DEF Exponents
<1> HIDE DEF is
<1>5. \A n \in 1..254 : n - 1 \in T => n \in T
  BY <1>3, <1>4
<1>6. 254 \in Nat /\ \A n \in Exponents : n \in 0..254
  BY DEF Exponents
<1> HIDE DEF T
<1>7. \A n \in 0..254 : n \in T
  BY <1>2, <1>5, <1>6, UpTo
<1>8. is(i)
  BY <1>6, <1>7 DEF T
<1>9. (i + j) % 255 \in Exponents
  BY DEF Exponents
<1> QED
  BY <1>8, <1>9 DEF is

(* A sum of nothing is nothing.                                            *)
LEMMA ZeroSum ==
  ASSUME NEW f, \A i \in 0..7 : f[i] = 0
  PROVE  Sum8(f) = 0
<1>1. f[0] = 0 /\ f[1] = 0 /\ f[2] = 0 /\ f[3] = 0 /\ f[4] = 0 /\ f[5] = 0 /\ f[6] = 0 /\ f[7] = 0
  OBVIOUS
<1>2. Added(0, 0) = 0
  BY AddedGroup, DoubledZero
<1> QED
  BY <1>1, <1>2 DEF Sum8

(* A product with nothing is nothing.                                      *)
LEMMA ProductWithZero ==
  ASSUME NEW a \in Byte
  PROVE  FieldProduct(a, 0) = 0
<1>1. \A m \in 0..7 : Bit(0, m) = 0
  <2>1. /\ Bit(0, 0) = 0 /\ Bit(0, 1) = 0 /\ Bit(0, 2) = 0 /\ Bit(0, 3) = 0
        /\ Bit(0, 4) = 0 /\ Bit(0, 5) = 0 /\ Bit(0, 6) = 0 /\ Bit(0, 7) = 0
    BY DEF Bit
  <2>2. 0..7 = {0, 1, 2, 3, 4, 5, 6, 7}
    OBVIOUS
  <2> QED
    BY <2>1, <2>2
<1>2. \A i \in 0..7 : Row(i, 0) = 0
  <2> TAKE i \in 0..7
  <2>1. \A m \in 0..7 : RowTerms(i, 0)[m] = 0
    BY <1>1 DEF RowTerms, ForTerm
  <2> QED
    BY <2>1, ZeroSum DEF Row
<1>3. \A i \in 0..7 : ProductTerms(a, 0)[i] = 0
  BY <1>2 DEF ProductTerms, ForTerm
<1> QED
  BY <1>3, DoubledZero, ZeroSum, FieldProductIs

(* The inverse of a byte in the field.                                     *)
LEMMA InverseIs ==
  ASSUME NEW i \in Exponents
  PROVE  FieldInverse(Power(i)) = Power((255 - i) % 255)
<1> DEFINE a == Power(i)
           k == (255 - i) % 255
           c == Power(k)
<1>1. k \in Exponents /\ (i + k) % 255 = 0
  BY DEF Exponents
<1>2. \A j \in Exponents : (i + j) % 255 = 0 => j = k
  BY DEF Exponents
<1> HIDE DEF k
<1>3. a \in Byte /\ a # 0 /\ c \in Byte
  BY <1>1, ExpAndLog DEF NonZero
<1>4. FieldProduct(a, c) = 1
  BY <1>1, ProductOfPowers, ExpAndLog
<1>5. ASSUME NEW b \in Byte, FieldProduct(a, b) = 1 PROVE b = c
  <2>1. b # 0
    <3> HIDE DEF a
    <3> QED
      BY <1>3, <1>5, ProductWithZero
  <2>2. Log[b] \in Exponents /\ Power(Log[b]) = b
    BY <2>1, ExpAndLog DEF NonZero
  <2>3. PICK j \in Exponents : Power(j) = b
    BY <2>2
  <2>4. (i + j) % 255 \in Exponents /\ Power((i + j) % 255) = 1
    BY <1>5, <2>3, ProductOfPowers
  <2>5. PICK m \in Exponents : m = (i + j) % 255
    BY <2>4
  <2>6. m = 0
    <3>1. Log[Power(m)] = m /\ Log[Power(0)] = 0 /\ Power(m) = Power(0)
      <4>1. 0 \in Exponents
        BY DEF Exponents
      <4> QED
        BY <2>4, <2>5, <4>1, ExpAndLog
    <3> QED
      BY <3>1
  <2> QED
    BY <1>2, <2>3, <2>5, <2>6
<1> HIDE DEF a, c
<1>6. FieldInverse(a) = CHOOSE b \in Byte : FieldProduct(a, b) = 1
  BY <1>3 DEF FieldInverse
<1>7. FieldInverse(a) = c
  BY <1>3, <1>4, <1>5, <1>6
<1> QED
  BY <1>7 DEF a, c, k

(* The entries of SBOX, each the transformation of an inverse.             *)
FromInverse(i) == SBox[Exp[i] + 1] = Affine(Exp[((256 - i) % 255) + 1])

LEMMA SBoxIs ==
  \A i \in 1..255 : FromInverse(i)
<1>1. PICK exp, sbox : exp = Exp /\ sbox = SBox
  BY Zenon
<1> DEFINE Is(i) == sbox[exp[i] + 1] = Affine(exp[((256 - i) % 255) + 1])
           All == 1..255
           R1 == 1..32
           R2 == 33..64
           R3 == 65..96
           R4 == 97..128
           R5 == 129..160
           R6 == 161..192
           R7 == 193..224
           R8 == 225..255
<1>2. \A i \in R1 : Is(i)
  BY <1>1, SMTT(60) DEF Exp, SBox, Affine, FromBits, Bit
<1>3. \A i \in R2 : Is(i)
  BY <1>1, SMTT(60) DEF Exp, SBox, Affine, FromBits, Bit
<1>4. \A i \in R3 : Is(i)
  BY <1>1, SMTT(60) DEF Exp, SBox, Affine, FromBits, Bit
<1>5. \A i \in R4 : Is(i)
  BY <1>1, SMTT(60) DEF Exp, SBox, Affine, FromBits, Bit
<1>6. \A i \in R5 : Is(i)
  BY <1>1, SMTT(60) DEF Exp, SBox, Affine, FromBits, Bit
<1>7. \A i \in R6 : Is(i)
  BY <1>1, SMTT(60) DEF Exp, SBox, Affine, FromBits, Bit
<1>8. \A i \in R7 : Is(i)
  BY <1>1, SMTT(60) DEF Exp, SBox, Affine, FromBits, Bit
<1>9. \A i \in R8 : Is(i)
  BY <1>1, SMTT(60) DEF Exp, SBox, Affine, FromBits, Bit
<1>10. \A i \in All : \/ i \in R1 \/ i \in R2 \/ i \in R3 \/ i \in R4
                     \/ i \in R5 \/ i \in R6 \/ i \in R7 \/ i \in R8
  OBVIOUS
<1>11. \A i \in All : Is(i)
  <2> HIDE DEF Is, All, R1, R2, R3, R4, R5, R6, R7, R8
  <2> QED
    BY <1>2, <1>3, <1>4, <1>5, <1>6, <1>7, <1>8, <1>9, <1>10
<1>12. \A i \in All : FromInverse(i)
  <2> HIDE DEF All, R1, R2, R3, R4, R5, R6, R7, R8
  <2> TAKE i \in All
  <2>1. Is(i)
    BY <1>11
  <2> QED
    BY <1>1, <2>1 DEF FromInverse
<1> QED
  BY <1>12, Zenon

(* SBOX is the substitution that FIPS 197 defines: the inverse of each     *)
(* byte in the field, and an affine transformation of its bits             *)
(* (aes.cpp:8-25).                                                         *)
THEOREM SubstitutionIs ==
  ASSUME NEW a \in Byte
  PROVE  FipsSubstitution[a + 1] = SBox[a + 1]
<1> DEFINE V == {Affine(FieldInverse(x)) : x \in Byte}
           f == [i \in 1..256 |-> Affine(FieldInverse(i - 1))]
<1>1. \A i \in 1..256 : i - 1 \in Byte
  BY DEF Byte
<1>2. f \in [1..256 -> V]
  BY <1>1
<1>3. SubSeq(f, 1, 256) = f
  <2> HIDE DEF f, V
  <2> QED
    BY <1>2, AllOf
<1>4. FipsSubstitution = f
  BY <1>3 DEF FipsSubstitution, Table
<1>5. a + 1 \in 1..256 /\ (a + 1) - 1 = a
  BY DEF Byte
<1>6. FipsSubstitution[a + 1] = Affine(FieldInverse(a))
  BY <1>4, <1>5
<1>7. SBox[1] = Affine(0)
  BY DEF SBox, Affine, FromBits, Bit
<1>8. \A i \in 1..255 : FromInverse(i)
  BY SBoxIs
<1>9. CASE a = 0
  <2>1. a + 1 = 1 /\ FieldInverse(a) = 0
    BY <1>9 DEF FieldInverse
  <2> QED
    BY <1>6, <1>7, <2>1
<1>10. CASE a # 0
  <2>1. PICK n \in Exponents : Power(n) = a
    BY <1>10, ExpAndLog DEF NonZero
  <2>2. FieldInverse(a) = Power((255 - n) % 255)
    BY <2>1, InverseIs
  <2>3. n + 1 \in 1..255 /\ 256 - (n + 1) = 255 - n
    BY DEF Exponents
  <2>4. SBox[Power(n) + 1] = Affine(Power((255 - n) % 255))
    <3>1. FromInverse(n + 1)
      BY <1>8, <2>3
    <3> QED
      BY <2>3, <3>1 DEF Power, FromInverse
  <2> QED
    BY <1>6, <2>1, <2>2, <2>4
<1> QED
  BY <1>9, <1>10

(* gmul() is the product of the field for the factors of mix_columns()     *)
(* (aes.cpp:53-63).                                                        *)
THEOREM GmulIsProduct ==
  ASSUME NEW a \in Byte, NEW f \in 1..3
  PROVE  FieldProduct(f, a) = Gmul(a, f) /\ FieldTimes[f][a + 1] = Gmul(a, f)
<1>1. ASSUME NEW x \in Byte PROVE Gmul(x, 1) = x /\ Gmul(x, 2) = Doubled(x) /\ Gmul(x, 3) = Added(Doubled(x), x)
  <2>1. 1 \in 1..14 /\ 2 \in 1..14 /\ 3 \in 1..14
    OBVIOUS
  <2>2. Gmul(x, 1) \in Byte /\ Gmul(x, 2) \in Byte /\ Gmul(x, 3) \in Byte
    BY <2>1, TimesIs
  <2>3. Doubled(x) \in Byte
    BY DoubledOn
  <2>4. Added(Doubled(x), x) \in Byte
    BY <2>3, AddedOn
  <2>5. Gmul(x, 1) = x
    <3>1. \A p \in Places : On(Gmul(x, 1), p) <=> On(x, p)
      BY FactorsOn
    <3> QED
      BY <2>2, <3>1, SameBits
  <2>6. Gmul(x, 2) = Doubled(x)
    <3>1. \A p \in Places : On(Gmul(x, 2), p) <=> On(Doubled(x), p)
      BY FactorsOn DEF D1
    <3> QED
      BY <2>2, <2>3, <3>1, SameBits
  <2>7. Gmul(x, 3) = Added(Doubled(x), x)
    <3>1. \A p \in Places : On(Gmul(x, 3), p) <=> ~(On(x, p) <=> On(Doubled(x), p))
      BY FactorsOn DEF D1, Xors
    <3>2. \A p \in Places : On(Added(Doubled(x), x), p) <=> ~(On(Doubled(x), p) <=> On(x, p))
      BY <2>3, AddedOn
    <3>3. \A p \in Places : On(Gmul(x, 3), p) <=> On(Added(Doubled(x), x), p)
      BY <3>1, <3>2
    <3> QED
      BY <2>2, <2>4, <3>3, SameBits
  <2> QED
    BY <2>5, <2>6, <2>7
<1>2. 1..3 = {1, 2, 3}
  OBVIOUS
<1>3. \A x \in Byte, g \in 1..3 : FieldProduct(g, x) = Gmul(x, g) /\ FieldProduct(g, x) \in Byte
  <2> TAKE x \in Byte, g \in 1..3
  <2>1. g = 1 \/ g = 2 \/ g = 3
    BY <1>2
  <2>2. FieldProduct(g, x) = Gmul(x, g)
    BY <1>1, <2>1, ProductsAre
  <2>3. g \in Byte
    BY <2>1 DEF Byte
  <2> QED
    BY <2>2, <2>3, ProductSum
<1> DEFINE row(g) == [i \in 1..256 |-> FieldProduct(g, i - 1)]
           rows == [g \in 1..3 |-> row(g)]
<1>4. \A i \in 1..256 : i - 1 \in Byte
  BY DEF Byte
<1>5. ASSUME NEW g \in 1..3
      PROVE  row(g) \in Seq(Byte) /\ Table(LAMBDA b : FieldProduct(g, b)) = row(g)
  <2>1. row(g) \in [1..256 -> Byte]
    BY <1>3, <1>4
  <2>2. row(g) \in Seq(Byte) /\ SubSeq(row(g), 1, 256) = row(g)
    BY <2>1, AllOf
  <2> QED
    BY <2>2 DEF Table
<1>6. FieldTimes = rows
  <2>1. rows \in [1..3 -> Seq(Byte)]
    BY <1>5
  <2>2. SubSeq(rows, 1, 3) = rows
    BY <2>1, AllOf
  <2>3. [g \in 1..3 |-> Table(LAMBDA b : FieldProduct(g, b))] = rows
    BY <1>5
  <2> QED
    BY <2>2, <2>3 DEF FieldTimes
<1>7. a + 1 \in 1..256 /\ (a + 1) - 1 = a
  BY DEF Byte
<1>8. FieldTimes[f][a + 1] = FieldProduct(f, a)
  BY <1>6, <1>7
<1> QED
  BY <1>3, <1>8

----------------------------------------------------------------------------
(***************************************************************************)
(* AES is FIPS 197's: the rounds, the expanded key and the chained blocks. *)
(***************************************************************************)

(* The last round without its key: sub_bytes() and shift_rows() are the    *)
(* substitution of FIPS 197 and its shifting of the rows (aes.cpp:66-100). *)
LEMMA ShiftedIs ==
  ASSUME NEW s \in State
  PROVE  FipsShifted[s] = SubAndShift[s]
<1> DEFINE sub == [i \in 1..16 |-> SBox[s[i] + 1]]
           shifted == [i \in 1..16 |-> sub[ShiftFrom[i] + 1]]
           at(r, c) == sub[4 * ((c + r) % 4) + (r + 1)]
           turned == [i \in 1..16 |-> at((i - 1) % 4, (i - 1) \div 4)]
<1>1. \A i \in 1..16 : s[i] \in Byte
  BY DEF State
<1>2. sub \in [1..16 -> Byte]
  BY <1>1, SubByteBack
<1>3. SubBytes(s) = sub
  BY <1>2, BlockIs DEF SubBytes
<1>4. [i \in 1..16 |-> FipsSubstitution[s[i] + 1]] = sub
  BY <1>1, SubstitutionIs
<1>5. Block([i \in 1..16 |-> FipsSubstitution[s[i] + 1]]) = sub
  BY <1>2, <1>4, BlockIs
<1>6. \A i \in 1..16 : ShiftFrom[i] + 1 \in 1..16
  BY DEF ShiftFrom
<1>7. \A i \in 1..16 : 4 * ((((i - 1) \div 4) + ((i - 1) % 4)) % 4) + (((i - 1) % 4) + 1) = ShiftFrom[i] + 1
  BY DEF ShiftFrom
<1>8. shifted \in [1..16 -> Byte]
  BY <1>2, <1>6
<1>9. turned = shifted
  <2> HIDE DEF sub
  <2> QED
    BY <1>7
<1>10. SubAndShift[s] = Block(shifted)
  BY <1>3 DEF SubAndShift, ShiftRows
<1>11. FipsShifted[s] = Block(turned)
  <2> HIDE DEF sub
  <2> QED
    BY <1>5 DEF FipsShifted
<1> HIDE DEF turned, shifted
<1> QED
  BY <1>9, <1>10, <1>11

(* The mixing: mix_columns() multiplies by the matrix of FIPS 197, whose   *)
(* rows are turns of the first (aes.cpp:126-138).                          *)
LEMMA MixesAre ==
  ASSUME NEW s \in State
  PROVE  FipsMixed[s] = MixColumns[s]
<1> DEFINE m == Mixed(MixFactors, s)
           factor(k) == <<2, 3, 1, 1>>[(k % 4) + 1]
           term(r, c, k) == FieldTimes[factor(k - r + 4)][s[4 * c + (k + 1)] + 1]
           mixed(r, c) == Added(Added(term(r, c, 0), term(r, c, 1)), Added(term(r, c, 2), term(r, c, 3)))
           f == [i \in 1..16 |-> mixed((i - 1) % 4, (i - 1) \div 4)]
<1>1. m \in State
  BY FactorsAre, MixedIs
<1>2. \A r \in 0..3, k \in 0..3 : factor(k - r + 4) = MixFactors[r + 1][k + 1] /\ factor(k - r + 4) \in 1..3
  BY DEF MixFactors
<1>3. \A r \in 0..3, c \in 0..3, k \in 0..3 : term(r, c, k) = Gmul(s[4 * c + (k + 1)], MixFactors[r + 1][k + 1])
  <2> TAKE r \in 0..3, c \in 0..3, k \in 0..3
  <2>1. s[4 * c + (k + 1)] \in Byte
    BY DEF State
  <2> HIDE DEF factor
  <2> QED
    BY <1>2, <2>1, GmulIsProduct
<1> HIDE DEF term
<1>4. \A r \in 0..3, c \in 0..3 :
        m[4 * c + (r + 1)] = Sum4(Gmul(s[4 * c + 1], MixFactors[r + 1][1]), Gmul(s[4 * c + 2], MixFactors[r + 1][2]),
                                  Gmul(s[4 * c + 3], MixFactors[r + 1][3]), Gmul(s[4 * c + 4], MixFactors[r + 1][4]))
  <2> TAKE r \in 0..3, c \in 0..3
  <2> DEFINE d == 4 * c
             q == r + 1
  <2>1. d \in {0, 4, 8, 12} /\ q \in 1..4
    OBVIOUS
  <2> HIDE DEF d, q, m
  <2>2. m[d + q] = Sum4(Gmul(s[d + 1], MixFactors[q][1]), Gmul(s[d + 2], MixFactors[q][2]),
                        Gmul(s[d + 3], MixFactors[q][3]), Gmul(s[d + 4], MixFactors[q][4]))
    BY <2>1, FactorsAre, MixedIs DEF m
  <2> QED
    BY <2>2 DEF d, q
<1> HIDE DEF m
<1>5. \A r \in 0..3, c \in 0..3 : mixed(r, c) = m[4 * c + (r + 1)]
  <2> TAKE r \in 0..3, c \in 0..3
  <2>1. 0 \in 0..3 /\ 1 \in 0..3 /\ 2 \in 0..3 /\ 3 \in 0..3 /\ 0 + 1 = 1 /\ 1 + 1 = 2 /\ 2 + 1 = 3 /\ 3 + 1 = 4
    OBVIOUS
  <2>2. /\ term(r, c, 0) = Gmul(s[4 * c + 1], MixFactors[r + 1][1])
        /\ term(r, c, 1) = Gmul(s[4 * c + 2], MixFactors[r + 1][2])
        /\ term(r, c, 2) = Gmul(s[4 * c + 3], MixFactors[r + 1][3])
        /\ term(r, c, 3) = Gmul(s[4 * c + 4], MixFactors[r + 1][4])
    BY <1>3, <2>1
  <2> QED
    BY <1>4, <2>2 DEF Sum4
<1> HIDE DEF mixed
<1>6. \A i \in 1..16 : (i - 1) % 4 \in 0..3 /\ (i - 1) \div 4 \in 0..3 /\ 4 * ((i - 1) \div 4) + (((i - 1) % 4) + 1) = i
  OBVIOUS
<1>7. \A i \in 1..16 : f[i] = m[i]
  <2> TAKE i \in 1..16
  <2> DEFINE r == (i - 1) % 4
             c == (i - 1) \div 4
  <2>1. r \in 0..3 /\ c \in 0..3 /\ 4 * c + (r + 1) = i
    BY <1>6
  <2>2. f[i] = mixed(r, c)
    OBVIOUS
  <2> HIDE DEF r, c, f
  <2> QED
    BY <1>5, <2>1, <2>2
<1>8. f = m
  BY <1>1, <1>7 DEF State
<1>9. Block(m) = m
  BY <1>1, BlockIs DEF State
<1>10. FipsMixed[s] = Block(f)
  BY DEF FipsMixed, f, mixed, term
<1>11. MixColumns[s] = m
  BY DEF MixColumns, m
<1> HIDE DEF f
<1> QED
  BY <1>8, <1>9, <1>10, <1>11

(* The word that begins the key of a round, before it is combined with     *)
(* another: the last one turned, substituted and changed by the constant   *)
(* of the round.                                                           *)
TurnedWord(w, round) == <<Added(FipsSubstitution[w[2] + 1], PowersOfX[round]), FipsSubstitution[w[3] + 1],
                          FipsSubstitution[w[4] + 1], FipsSubstitution[w[1] + 1]>>
WordAfter(words, n) == XorEach(words[n - 3], IF n % 4 = 0 THEN TurnedWord(words[n], n \div 4) ELSE words[n])

(* A turn of the loop in key_expansion_128() makes the word of FIPS 197    *)
(* (aes.cpp:165-190).                                                      *)
LEMMA NextWordIs ==
  ASSUME NEW words \in Seq(Word), Len(words) \in 4..43
  PROVE  NextWord(words) = WordAfter(words, Len(words))
<1> DEFINE n == Len(words)
           last == words[n]
           rotated == <<last[2], last[3], last[4], last[1]>>
           substituted == [j \in 1..4 |-> SBox[rotated[j] + 1]]
           temp == IF n % 4 = 0
                   THEN [substituted EXCEPT ![1] = Added(@, Rcon[n \div 4])]
                   ELSE last
<1>1. NextWord(words) = XorEach(words[n - 3], temp)
  BY DEF NextWord
<1>2. n \in 1..n /\ n \div 4 \in 1..10
  <2>1. \A k \in 4..43 : k \in 1..k /\ k \div 4 \in 1..10
    OBVIOUS
  <2> QED
    BY <2>1
<1>3. last[1] \in Byte /\ last[2] \in Byte /\ last[3] \in Byte /\ last[4] \in Byte
  <2>1. last \in Word
    BY <1>2, ElementOfSeq
  <2> QED
    BY <2>1 DEF Word
<1>4. \A i \in 1..10 : Rcon[i] = PowersOfX[i]
  BY SMTT(30) DEF Rcon, PowersOfX
<1> HIDE DEF last
<1>5. /\ SBox[last[1] + 1] = FipsSubstitution[last[1] + 1] /\ SBox[last[2] + 1] = FipsSubstitution[last[2] + 1]
      /\ SBox[last[3] + 1] = FipsSubstitution[last[3] + 1] /\ SBox[last[4] + 1] = FipsSubstitution[last[4] + 1]
  BY <1>3, SubstitutionIs
<1>6. substituted = <<SBox[last[2] + 1], SBox[last[3] + 1], SBox[last[4] + 1], SBox[last[1] + 1]>>
  OBVIOUS
<1>7. substituted = <<FipsSubstitution[last[2] + 1], FipsSubstitution[last[3] + 1],
                      FipsSubstitution[last[4] + 1], FipsSubstitution[last[1] + 1]>>
  BY <1>5, <1>6
<1> HIDE DEF substituted
<1>8. [substituted EXCEPT ![1] = Added(@, Rcon[n \div 4])] = TurnedWord(last, n \div 4)
  <2> DEFINE r == n \div 4
             a == FipsSubstitution[last[2] + 1]
             b == FipsSubstitution[last[3] + 1]
             c == FipsSubstitution[last[4] + 1]
             d == FipsSubstitution[last[1] + 1]
  <2>1. Rcon[r] = PowersOfX[r]
    BY <1>2, <1>4
  <2>2. TurnedWord(last, r) = <<Added(a, PowersOfX[r]), b, c, d>>
    BY DEF TurnedWord
  <2>3. substituted = <<a, b, c, d>>
    BY <1>7
  <2>4. [substituted EXCEPT ![1] = Added(@, Rcon[r])] = TurnedWord(last, r)
    <3> HIDE DEF r, a, b, c, d
    <3>1. [substituted EXCEPT ![1] = Added(substituted[1], Rcon[r])] = <<Added(substituted[1], Rcon[r]), b, c, d>>
      BY <2>3
    <3>2. substituted[1] = a
      BY <2>3
    <3> QED
      BY <2>1, <2>2, <3>1, <3>2
  <2> QED
    BY <2>4 DEF r
<1> HIDE DEF n
<1>9. temp = IF n % 4 = 0 THEN TurnedWord(last, n \div 4) ELSE last
  BY <1>8
<1> QED
  BY <1>1, <1>9 DEF WordAfter, last, n

(* The words of an expanded key, as far as they have been made: the key    *)
(* itself, and after it each word from those before.                       *)
IsSchedule(words, key) ==
  /\ words \in Seq(Word) /\ Len(words) \in 4..44
  /\ \A i \in 1..4 : words[i] = KeyWords(key)[i]
  /\ \A n \in 4..43 : n < Len(words) => words[n + 1] = WordAfter(words, n)

(* The loop makes one more word and leaves those it has.                   *)
LEMMA ExtendedIs ==
  ASSUME NEW key, NEW words, IsSchedule(words, key), Len(words) \in 4..43
  PROVE  IsSchedule(Extended(words), key) /\ Len(Extended(words)) = Len(words) + 1
<1> DEFINE w == Extended(words)
<1>1. words \in Seq(Word)
  BY DEF IsSchedule
<1>2. NextWord(words) \in Word
  BY <1>1, NextWordType
<1>3. /\ w \in Seq(Word) /\ Len(w) = Len(words) + 1
      /\ \A i \in 1..Len(words) : w[i] = words[i]
      /\ w[Len(words) + 1] = NextWord(words)
  BY <1>1, <1>2, AppendProperties DEF Extended
<1> HIDE DEF w
<1>4. Len(w) \in 4..44
  <2>1. \A k \in 4..43 : k + 1 \in 4..44
    OBVIOUS
  <2> QED
    BY <1>3, <2>1
<1>5. \A i \in 1..4 : w[i] = KeyWords(key)[i]
  <2>1. \A k \in 4..43 : \A i \in 1..4 : i \in 1..k
    OBVIOUS
  <2>2. \A i \in 1..4 : w[i] = words[i]
    BY <1>3, <2>1
  <2> QED
    BY <2>2 DEF IsSchedule
<1>6. ASSUME NEW n \in 4..43, n < Len(w) PROVE w[n + 1] = WordAfter(w, n)
  <2>1. n \in 1..Len(words) /\ n - 3 \in 1..Len(words)
    BY <1>3, <1>6
  <2>2. WordAfter(w, n) = WordAfter(words, n)
    BY <1>3, <2>1 DEF WordAfter
  <2>3. CASE n = Len(words)
    BY <1>1, <1>3, <2>2, <2>3, NextWordIs
  <2>4. CASE n < Len(words)
    <3>1. n + 1 \in 1..Len(words)
      BY <2>4
    <3> QED
      BY <1>3, <2>2, <2>4, <3>1 DEF IsSchedule
  <2> QED
    BY <1>3, <1>6, <2>3, <2>4
<1>7. IsSchedule(w, key)
  BY <1>3, <1>4, <1>5, <1>6 DEF IsSchedule
<1> QED
  BY <1>3, <1>7 DEF w

(* The expanded key is the words that FIPS 197 has it made of, joined.     *)
LEMMA KeyExpansionIs ==
  ASSUME NEW key \in Seq(Byte), Len(key) = 16
  PROVE  \E words : IsSchedule(words, key) /\ Len(words) = 44 /\ KeyExpansion(key) = Joined(4, words)
<1>1. PICK run : IsKeyRun(run, key) /\ KeyExpansion(key) = Joined(4, run[40])
  BY KeyExpansionRuns
<1> DEFINE T == {i \in 0..40 : IsSchedule(run[i], key)}
<1>2. 0 \in T
  <2>1. run[0] = KeyWords(key) /\ run[0] \in Seq(Word) /\ Len(run[0]) = 4
    <3>1. 0 \in 0..40 /\ 0 + 4 = 4
      OBVIOUS
    <3> QED
      BY <1>1, <3>1 DEF IsKeyRun
  <2>2. 4 \in 4..44 /\ \A n \in 4..43 : ~(n < 4)
    OBVIOUS
  <2>3. IsSchedule(run[0], key)
    BY <2>1, <2>2 DEF IsSchedule
  <2> QED
    BY <2>3
<1>3. ASSUME NEW i \in 1..40, i - 1 \in T PROVE i \in T
  <2>1. i - 1 \in 0..40 /\ i \in 0..40 /\ (i - 1) + 4 \in 4..43
    OBVIOUS
  <2>2. IsSchedule(run[i - 1], key)
    BY <1>3
  <2>3. Len(run[i - 1]) \in 4..43 /\ run[i] = Extended(run[i - 1])
    BY <1>1, <2>1 DEF IsKeyRun
  <2>4. IsSchedule(run[i], key)
    BY <2>2, <2>3, ExtendedIs
  <2> QED
    BY <2>1, <2>4
<1>4. \A i \in 0..40 : i \in T
  <2>1. 40 \in Nat
    OBVIOUS
  <2> HIDE DEF T
  <2> QED
    BY <1>2, <1>3, <2>1, UpTo
<1>5. 40 \in 0..40 /\ 40 + 4 = 44
  OBVIOUS
<1>6. IsSchedule(run[40], key)
  BY <1>4, <1>5
<1>7. Len(run[40]) = 44
  BY <1>1, <1>5 DEF IsKeyRun
<1> QED
  BY <1>1, <1>6, <1>7

(* Blocks of the same bytes are the same.                                  *)
LEMMA SameBlocks ==
  ASSUME NEW s \in State, NEW t \in State, \A i \in 1..16 : s[i] = t[i]
  PROVE  s = t
  BY DEF State

(* The bytes of the key for a round.                                       *)
LEMMA RoundKeyAt ==
  ASSUME NEW expanded, IsExpanded(expanded), NEW round \in 0..10
  PROVE  \A k \in 1..16 : RoundKey(expanded, round)[k] = expanded[16 * round + k]
<1> DEFINE first == 16 * round + 1
           last == 16 * round + 16
<1>1. /\ first \in Nat /\ last \in Nat /\ 1 <= first /\ first <= last + 1 /\ last <= 176
      /\ last + 1 - first = 16 /\ \A k \in 1..16 : first + k - 1 = 16 * round + k
  OBVIOUS
<1>2. RoundKey(expanded, round) = SubSeq(expanded, first, last)
  BY DEF RoundKey
<1> HIDE DEF first, last
<1>3. \A k \in 1..(last + 1 - first) : SubSeq(expanded, first, last)[k] = expanded[first + k - 1]
  BY <1>1, PartOf DEF IsExpanded
<1> QED
  BY <1>1, <1>2, <1>3

(* The four words for a round.                                             *)
RoundWords(words, round) == [j \in 1..4 |-> words[4 * round + j]]

(* They are words, and joined they are the part of the expanded key for    *)
(* the round.                                                              *)
LEMMA RoundKeyIs ==
  ASSUME NEW words \in Seq(Word), Len(words) = 44, NEW round \in 0..10
  PROVE  /\ \A j \in 1..4 : 4 * round + j \in 1..44 /\ words[4 * round + j] \in Word
         /\ RoundKey(Joined(4, words), round) = Joined(4, RoundWords(words, round))
         /\ Joined(4, RoundWords(words, round)) \in State
<1> DEFINE part == RoundWords(words, round)
           all == Joined(4, words)
           first == 16 * round + 1
           last == 16 * round + 16
<1>1. \A j \in 1..4 : 4 * round + j \in 1..44
  OBVIOUS
<1>2. \A j \in 1..4 : words[4 * round + j] \in Word
  BY <1>1, ElementOfSeq
<1>3. part \in [1..4 -> Word]
  BY <1>2 DEF RoundWords
<1>4. \A j \in 1..4 : part[j] = words[4 * round + j]
  BY DEF RoundWords
<1> HIDE DEF part
<1>5. part \in Seq(Seq(Byte)) /\ Len(part) = 4
  <2>1. 4 \in Nat
    OBVIOUS
  <2> QED
    BY <1>3, <2>1, WordsAre
<1>6. \A i \in 1..Len(part) : Len(part[i]) = 4
  BY <1>3, <1>5, WordIs
<1>7. /\ Joined(4, part) \in Seq(Byte) /\ Len(Joined(4, part)) = 4 * Len(part)
      /\ \A k \in 1..(4 * Len(part)) : Joined(4, part)[k] = part[((k - 1) \div 4) + 1][((k - 1) % 4) + 1]
  BY <1>5, <1>6, JoinedIs
<1>18. /\ Len(Joined(4, part)) = 16
       /\ \A k \in 1..16 : Joined(4, part)[k] = part[((k - 1) \div 4) + 1][((k - 1) % 4) + 1]
  <2>1. 4 * Len(part) = 16
    BY <1>5
  <2> QED
    BY <1>7, <2>1
<1>8. \A i \in 1..Len(words) : words[i] \in Seq(Byte) /\ Len(words[i]) = 4
  BY ElementOfSeq, WordIs
<1>9. words \in Seq(Seq(Byte))
  <2>1. words \in [1..44 -> Word] /\ 44 \in Nat
    BY ElementOfSeq, SeqDef, LenProperties
  <2> QED
    BY <2>1, WordsAre
<1>10. /\ all \in Seq(Byte) /\ Len(all) = 4 * Len(words)
       /\ \A k \in 1..(4 * Len(words)) : all[k] = words[((k - 1) \div 4) + 1][((k - 1) % 4) + 1]
  BY <1>8, <1>9, JoinedIs
<1>11. IsExpanded(all)
  <2>1. Len(all) = 176
    BY <1>10
  <2> QED
    BY <1>10, <2>1 DEF IsExpanded
<1>12. \A k \in 1..16 : /\ 16 * round + k \in 1..176
                        /\ ((16 * round + k) - 1) \div 4 + 1 = 4 * round + (((k - 1) \div 4) + 1)
                        /\ ((16 * round + k) - 1) % 4 = (k - 1) % 4
                        /\ ((k - 1) \div 4) + 1 \in 1..4
  OBVIOUS
<1> HIDE DEF all
<1>13. RoundKey(all, round) \in State /\ \A k \in 1..16 : RoundKey(all, round)[k] = all[16 * round + k]
  BY <1>11, RoundKeyType, RoundKeyAt, ZenonT(40)
<1>14. Joined(4, part) \in State
  BY <1>7, <1>18, StateIs
<1>15. ASSUME NEW k \in 1..16 PROVE RoundKey(all, round)[k] = Joined(4, part)[k]
  <2> DEFINE b == ((k - 1) \div 4) + 1
             i == 16 * round + k
  <2>1. i \in 1..176 /\ ((i - 1) \div 4) + 1 = 4 * round + b /\ (i - 1) % 4 = (k - 1) % 4 /\ b \in 1..4
    BY <1>12
  <2>2. Joined(4, part)[k] = part[b][((k - 1) % 4) + 1]
    BY <1>18
  <2> HIDE DEF i, b
  <2>3. i \in 1..(4 * Len(words))
    BY <2>1
  <2>4. all[i] = words[((i - 1) \div 4) + 1][((i - 1) % 4) + 1]
    BY <1>10, <2>3
  <2>5. all[i] = part[b][((k - 1) % 4) + 1]
    BY <1>4, <2>1, <2>4
  <2> QED
    BY <1>13, <2>2, <2>5 DEF i
<1>16. RoundKey(all, round) = Joined(4, part)
  BY <1>13, <1>14, <1>15, SameBlocks
<1> QED
  BY <1>1, <1>2, <1>14, <1>16 DEF all, part

(* The words for a round are those that FIPS 197 makes from the ones for   *)
(* the round before.                                                       *)
LEMMA NextKeyIs ==
  ASSUME NEW key, NEW words, IsSchedule(words, key), Len(words) = 44, NEW round \in 1..10
  PROVE  NextFipsKey(RoundWords(words, round - 1), round) = RoundWords(words, round)
<1> DEFINE n == 4 * round
           old == RoundWords(words, round - 1)
           turned == TurnedWord(old[4], round)
           first == XorEach(old[1], turned)
           second == XorEach(old[2], first)
           third == XorEach(old[3], second)
           fourth == XorEach(old[4], third)
<1>1. NextFipsKey(old, round) = <<first, second, third, fourth>>
  BY DEF NextFipsKey, TurnedWord
<1>2. /\ n \in 4..43 /\ n + 1 \in 4..43 /\ n + 2 \in 4..43 /\ n + 3 \in 4..43
      /\ n % 4 = 0 /\ n \div 4 = round /\ (n + 1) % 4 # 0 /\ (n + 2) % 4 # 0 /\ (n + 3) % 4 # 0
      /\ 4 * (round - 1) + 1 = n - 3 /\ 4 * (round - 1) + 2 = (n + 1) - 3
      /\ 4 * (round - 1) + 3 = (n + 2) - 3 /\ 4 * (round - 1) + 4 = (n + 3) - 3
      /\ 4 * (round - 1) + 4 = n /\ (n + 1) + 1 = n + 2 /\ (n + 2) + 1 = n + 3 /\ (n + 3) + 1 = n + 4
  OBVIOUS
<1>3. \A i \in 4..43 : words[i + 1] = WordAfter(words, i)
  <2>1. \A i \in 4..43 : i < 44
    OBVIOUS
  <2>2. \A i \in 4..43 : i < Len(words) => words[i + 1] = WordAfter(words, i)
    BY DEF IsSchedule
  <2> QED
    BY <2>1, <2>2
<1>4. /\ old[1] = words[n - 3] /\ old[2] = words[(n + 1) - 3] /\ old[3] = words[(n + 2) - 3]
      /\ old[4] = words[(n + 3) - 3] /\ old[4] = words[n]
  <2>1. /\ old[1] = words[4 * (round - 1) + 1] /\ old[2] = words[4 * (round - 1) + 2]
        /\ old[3] = words[4 * (round - 1) + 3] /\ old[4] = words[4 * (round - 1) + 4]
    BY DEF RoundWords
  <2> HIDE DEF n, old
  <2> QED
    BY <1>2, <2>1
<1>5. RoundWords(words, round) = <<words[n + 1], words[n + 2], words[n + 3], words[n + 4]>>
  BY DEF RoundWords
<1> HIDE DEF n, old
<1>6. words[n + 1] = first
  <2>1. words[n + 1] = WordAfter(words, n)
    BY <1>2, <1>3
  <2> QED
    BY <1>2, <1>4, <2>1 DEF WordAfter
<1>7. words[n + 2] = second
  <2>1. words[(n + 1) + 1] = WordAfter(words, n + 1)
    BY <1>2, <1>3
  <2>2. WordAfter(words, n + 1) = XorEach(words[(n + 1) - 3], words[n + 1])
    BY <1>2 DEF WordAfter
  <2> HIDE DEF first
  <2> QED
    BY <1>2, <1>4, <1>6, <2>1, <2>2
<1>8. words[n + 3] = third
  <2>1. words[(n + 2) + 1] = WordAfter(words, n + 2)
    BY <1>2, <1>3
  <2>2. WordAfter(words, n + 2) = XorEach(words[(n + 2) - 3], words[n + 2])
    BY <1>2 DEF WordAfter
  <2> HIDE DEF second
  <2> QED
    BY <1>2, <1>4, <1>7, <2>1, <2>2
<1>9. words[n + 4] = fourth
  <2>1. words[(n + 3) + 1] = WordAfter(words, n + 3)
    BY <1>2, <1>3
  <2>2. WordAfter(words, n + 3) = XorEach(words[(n + 3) - 3], words[n + 3])
    BY <1>2 DEF WordAfter
  <2> HIDE DEF third
  <2> QED
    BY <1>2, <1>4, <1>8, <2>1, <2>2
<1> HIDE DEF first, second, third, fourth
<1>10. NextFipsKey(old, round) = RoundWords(words, round)
  BY <1>1, <1>5, <1>6, <1>7, <1>8, <1>9
<1> QED
  BY <1>10 DEF old

(* A block that the code encrypts is the one that FIPS 197 has.            *)
LEMMA EncryptBlockIs ==
  ASSUME NEW input \in State, NEW key \in Seq(Byte), Len(key) = 16
  PROVE  EncryptBlock(input, KeyExpansion(key)) = FipsBlock(input, key)
<1>1. PICK words : IsSchedule(words, key) /\ Len(words) = 44 /\ KeyExpansion(key) = Joined(4, words)
  BY KeyExpansionIs
<1> DEFINE expanded == KeyExpansion(key)
<1>2. PICK done : IsEncryption(done, input, expanded)
  BY KeyExpansionType, EncryptionRuns
<1>3. \A r \in 0..10 : RoundKey(expanded, r) = Joined(4, RoundWords(words, r))
  BY <1>1, RoundKeyIs DEF IsSchedule
<1> HIDE DEF expanded
<1> DEFINE keys == CHOOSE g : g = [round \in 0..10 |-> IF round = 0 THEN [i \in 1..4 |-> SubSeq(key, 4 * i - 3, 4 * i)]
                                                       ELSE NextFipsKey(g[round - 1], round)]
           states == CHOOSE g : g = [round \in 0..9 |->
                       XorEach(IF round = 0 THEN input ELSE FipsMixed[FipsShifted[g[round - 1]]],
                               Joined(4, keys[round]))]
<1>4. FipsBlock(input, key) = XorEach(FipsShifted[states[9]], Joined(4, keys[10]))
  BY DEF FipsBlock
<1> HIDE DEF states
<1>5. \A r \in 0..10 : keys[r] = RoundWords(words, r)
  <2> DEFINE k == [r \in 0..10 |-> RoundWords(words, r)]
             base == [i \in 1..4 |-> SubSeq(key, 4 * i - 3, 4 * i)]
  <2>1. k[0] = base
    <3>1. \A i \in 1..4 : words[i] = base[i]
      BY <1>1 DEF IsSchedule, KeyWords
    <3>2. k[0] = RoundWords(words, 0)
      OBVIOUS
    <3>3. \A i \in 1..4 : 4 * 0 + i = i
      OBVIOUS
    <3>4. RoundWords(words, 0) = [i \in 1..4 |-> words[i]]
      BY <3>3 DEF RoundWords
    <3> QED
      BY <3>1, <3>2, <3>4
  <2>2. \A r \in 1..10 : k[r] = NextFipsKey(k[r - 1], r)
    <3> TAKE r \in 1..10
    <3>1. r \in 0..10 /\ r - 1 \in 0..10
      OBVIOUS
    <3>2. NextFipsKey(RoundWords(words, r - 1), r) = RoundWords(words, r)
      BY <1>1, NextKeyIs
    <3> QED
      BY <3>1, <3>2
  <2>3. \A r \in 0..10 : k[r] = RoundWords(words, r)
    OBVIOUS
  <2>4. k = [r \in 0..10 |-> k[r]]
    OBVIOUS
  <2> HIDE DEF k, base
  <2>5. \A r \in 0..10 : k[r] = IF r = 0 THEN base ELSE NextFipsKey(k[r - 1], r)
    <3>1. \A r \in 0..10 : r = 0 \/ r \in 1..10
      OBVIOUS
    <3> QED
      BY <2>1, <2>2, <3>1
  <2>6. k = [r \in 0..10 |-> IF r = 0 THEN base ELSE NextFipsKey(k[r - 1], r)]
    BY <2>4, <2>5
  <2>7. keys = [r \in 0..10 |-> IF r = 0 THEN base ELSE NextFipsKey(keys[r - 1], r)]
    BY <2>6, Zenon DEF base
  <2> HIDE DEF keys
  <2> DEFINE T == {r \in 0..10 : keys[r] = k[r]}
  <2>8. 0 \in T
    BY <2>1, <2>7
  <2>9. ASSUME NEW r \in 1..10, r - 1 \in T PROVE r \in T
    <3>1. r \in 0..10 /\ r # 0
      OBVIOUS
    <3>2. keys[r] = NextFipsKey(keys[r - 1], r) /\ keys[r - 1] = k[r - 1]
      BY <2>7, <2>9, <3>1
    <3> QED
      BY <2>2, <3>1, <3>2
  <2>10. \A r \in 0..10 : r \in T
    <3>1. 10 \in Nat
      OBVIOUS
    <3> HIDE DEF T
    <3> QED
      BY <2>8, <2>9, <3>1, UpTo
  <2> QED
    BY <2>3, <2>10
<1> HIDE DEF keys
<1>6. \A r \in 0..10 : Joined(4, keys[r]) = RoundKey(expanded, r)
  BY <1>3, <1>5
<1> DEFINE turn(r, s) == XorEach(IF r = 0 THEN input ELSE FipsMixed[FipsShifted[s]], Joined(4, keys[r]))
<1>7. turn(0, 0) = done[0] /\ \A s : turn(0, s) = turn(0, 0)
  <2>1. 0 \in 0..10
    OBVIOUS
  <2>2. Joined(4, keys[0]) = RoundKey(expanded, 0)
    BY <1>6, <2>1
  <2> QED
    BY <1>2, <2>2 DEF IsEncryption
<1>8. \A s \in State : FipsMixed[FipsShifted[s]] = MixColumns[SubAndShift[s]]
  BY ShiftedIs, MixesAre, SubAndShiftBack
<1>9. \A r \in 1..9 : turn(r, done[r - 1]) = done[r]
  <2> TAKE r \in 1..9
  <2>1. r \in 0..10 /\ r - 1 \in 0..9 /\ r # 0
    OBVIOUS
  <2>2. done[r - 1] \in State /\ done[r] = XorEach(MixColumns[SubAndShift[done[r - 1]]], RoundKey(expanded, r))
    BY <1>2, <2>1 DEF IsEncryption
  <2>3. Joined(4, keys[r]) = RoundKey(expanded, r)
    BY <1>6, <2>1
  <2> QED
    BY <1>8, <2>1, <2>2, <2>3
<1>10. states = [r \in 0..9 |-> turn(r, states[r - 1])]
  <2> DEFINE f == [r \in 0..9 |-> done[r]]
  <2>1. \A r \in 0..9 : f[r] = turn(r, f[r - 1])
    <3>1. \A r \in 0..9 : r = 0 \/ (r \in 1..9 /\ r - 1 \in 0..9)
      OBVIOUS
    <3> HIDE DEF turn
    <3> QED
      BY <1>7, <1>9, <3>1
  <2>2. f = [r \in 0..9 |-> f[r]]
    OBVIOUS
  <2> HIDE DEF f
  <2>3. f = [r \in 0..9 |-> turn(r, f[r - 1])]
    BY <2>1, <2>2
  <2> QED
    BY <2>3, Zenon DEF states
<1> HIDE DEF turn
<1> DEFINE T == {r \in 0..9 : states[r] = done[r]}
<1>11. 0 \in T
  <2>1. 0 \in 0..9
    OBVIOUS
  <2> QED
    BY <1>7, <1>10, <2>1
<1>12. ASSUME NEW r \in 1..9, r - 1 \in T PROVE r \in T
  <2>1. r \in 0..9
    OBVIOUS
  <2>2. states[r] = turn(r, states[r - 1]) /\ states[r - 1] = done[r - 1]
    BY <1>10, <1>12, <2>1
  <2> QED
    BY <1>9, <2>1, <2>2
<1>13. states[9] = done[9]
  <2>1. 9 \in Nat /\ 9 \in 0..9
    OBVIOUS
  <2> HIDE DEF T
  <2>2. \A r \in 0..9 : r \in T
    BY <1>11, <1>12, <2>1, UpTo
  <2>3. 9 \in T
    BY <2>1, <2>2
  <2> QED
    BY <2>3 DEF T
<1>14. FipsShifted[states[9]] = SubAndShift[done[9]]
  <2>1. 9 \in 0..9
    OBVIOUS
  <2>2. done[9] \in State
    BY <1>2, <2>1 DEF IsEncryption
  <2> QED
    BY <1>13, <2>2, ShiftedIs
<1>15. Joined(4, keys[10]) = RoundKey(expanded, 10)
  <2>1. 10 \in 0..10
    OBVIOUS
  <2> QED
    BY <1>6, <2>1
<1> QED
  BY <1>2, <1>4, <1>14, <1>15 DEF IsEncryption, expanded

(* What is padded: the text, and after it as many bytes as make whole      *)
(* blocks, each of them that number (aes.cpp:236-252).                     *)
LEMMA PaddedIs ==
  ASSUME NEW text \in Seq(Byte)
  PROVE  LET n == Len(text) \div 16 + 1
             fill == 16 * n - Len(text)
         IN  /\ n \in Nat /\ Padded(text) \in Seq(Byte) /\ Len(Padded(text)) = 16 * n
             /\ \A k \in 1..(16 * n) : Padded(text)[k] = IF k <= Len(text) THEN text[k] ELSE fill
<1> DEFINE len == Len(text)
           m == PaddingLen(len)
           n == len \div 16 + 1
           padding == [i \in 1..m |-> m]
           padded == text \o padding
<1>1. len \in Nat
  BY LenProperties
<1>2. m \in 1..16 /\ m \in Byte /\ m \in Nat /\ n \in Nat /\ m = 16 * n - len
  <2> DEFINE q == len \div 16
             r == len % 16
  <2>1. q \in Nat /\ r \in 0..15 /\ len = 16 * q + r
    BY <1>1
  <2>2. m = 16 - r /\ n = q + 1
    BY DEF PaddingLen
  <2> HIDE DEF q, r, m, n, len
  <2> QED
    BY <2>1, <2>2 DEF Byte
<1>3. Padded(text) = padded
  BY DEF Padded
<1> HIDE DEF m, n
<1>9. m \in Nat /\ m \in Byte
  BY <1>2
<1>4. padding \in Seq(Byte) /\ Len(padding) = m /\ \A i \in 1..m : padding[i] = m
  <2>1. padding \in [1..m -> Byte] /\ \A i \in 1..m : padding[i] = m
    BY <1>9
  <2> HIDE DEF padding
  <2> QED
    BY <1>9, <2>1, AllOf
<1> HIDE DEF padding, len
<1>5. /\ padded \in Seq(Byte)
      /\ Len(padded) = len + m
      /\ \A i \in 1..(len + m) : padded[i] = IF i <= len THEN text[i] ELSE padding[i - len]
  <2>1. /\ padded \in Seq(Byte)
        /\ Len(padded) = Len(text) + Len(padding)
        /\ \A i \in 1..(Len(text) + Len(padding)) :
              padded[i] = IF i <= Len(text) THEN text[i] ELSE padding[i - Len(text)]
    BY <1>4, ConcatProperties
  <2> HIDE DEF padded
  <2> QED
    BY <1>4, <2>1 DEF len
<1> HIDE DEF padded
<1>6. len + m = 16 * n
  BY <1>1, <1>2
<1>7. \A k \in 1..(16 * n) : padded[k] = IF k <= len THEN text[k] ELSE m
  <2>1. \A k \in 1..(len + m) : ~(k <= len) => k - len \in 1..m
    BY <1>1, <1>2
  <2> QED
    BY <1>4, <1>5, <1>6, <2>1
<1>8. /\ n \in Nat /\ Padded(text) \in Seq(Byte) /\ Len(Padded(text)) = 16 * n
      /\ \A k \in 1..(16 * n) : Padded(text)[k] = IF k <= len THEN text[k] ELSE 16 * n - len
  BY <1>2, <1>3, <1>5, <1>6, <1>7
<1> QED
  BY <1>8 DEF len, n

(* The blocks of the padded text are those of RFC 3602.                    *)
PlainBlock(text, i) ==
  LET n == Len(text) \div 16 + 1
      padding == 16 * n - Len(text)
  IN  Block([j \in 1..16 |-> LET k == 16 * (i - 1) + j
                             IN  IF k <= Len(text) THEN text[k] ELSE padding])

(* The blocks that the padded text is cut into are these.                  *)
LEMMA PlainIs ==
  ASSUME NEW text \in Seq(Byte)
  PROVE  /\ Blocks(Padded(text)) \in Seq(State)
         /\ Len(Blocks(Padded(text))) = Len(text) \div 16 + 1
         /\ Len(text) \div 16 + 1 \in Nat
         /\ \A i \in 1..(Len(text) \div 16 + 1) : Blocks(Padded(text))[i] = PlainBlock(text, i)
<1> DEFINE n == Len(text) \div 16 + 1
           fill == 16 * n - Len(text)
           s == Padded(text)
           at(k) == IF k <= Len(text) THEN text[k] ELSE fill
           f(i) == [j \in 1..16 |-> at(16 * (i - 1) + j)]
<1>1. /\ n \in Nat /\ s \in Seq(Byte) /\ Len(s) = 16 * n
      /\ \A k \in 1..(16 * n) : s[k] = at(k)
  BY PaddedIs
<1>2. \A i : PlainBlock(text, i) = Block(f(i))
  BY DEF PlainBlock
<1> HIDE DEF n, s, at
<1>3. Blocks(s) \in Seq(State) /\ Len(Blocks(s)) = n
  BY <1>1, CutJoined
<1>4. ASSUME NEW i \in 1..n PROVE Blocks(s)[i] = PlainBlock(text, i)
  <2> DEFINE first == 16 * i - 15
             last == 16 * i
             part == SubSeq(s, first, last)
  <2>1. /\ first \in Nat /\ last \in Nat /\ 1 <= first /\ first <= last + 1 /\ last <= Len(s)
        /\ last + 1 - first = 16
    BY <1>1
  <2>8. \A j \in 1..16 : first + j - 1 = 16 * (i - 1) + j /\ 16 * (i - 1) + j \in 1..(16 * n)
    BY <1>1
  <2>2. Blocks(s)[i] = part
    <3>1. Len(s) \div 16 = n
      BY <1>1
    <3> QED
      BY <3>1 DEF Blocks
  <2> HIDE DEF first, last
  <2>3. /\ part \in Seq(Byte) /\ Len(part) = 16
        /\ \A j \in 1..16 : part[j] = s[first + j - 1]
    BY <1>1, <2>1, PartOf
  <2> HIDE DEF part
  <2>4. part \in State
    BY <2>3, StateIs
  <2>5. \A j \in 1..16 : part[j] = at(16 * (i - 1) + j)
    BY <1>1, <2>8, <2>3
  <2>6. f(i) = part
    BY <2>4, <2>5 DEF State
  <2>7. Block(f(i)) = part
    <3> HIDE DEF f
    <3> QED
      BY <2>4, <2>6, BlockIs DEF State
  <2> QED
    BY <1>2, <2>2, <2>7
<1>5. \A i \in 1..n : Blocks(s)[i] = PlainBlock(text, i)
  BY <1>4
<1> QED
  BY <1>1, <1>3, <1>5 DEF n, s

(* What aes_encrypt() makes of a text under a key, when it takes the key,  *)
(* is what FIPS 197, CBC and PKCS#7 have it be (aes.cpp:273-328).          *)
THEOREM AesIsFips ==
  ASSUME NEW text \in Seq(Byte), NEW key \in Seq(Byte), AesEncrypt(text, key).code = "OK"
  PROVE  AesEncrypt(text, key).text = FipsCipher(text, key)
<1> DEFINE short == SubSeq(key, 1, 16)
           iv == SubSeq(key, 17, 32)
           expanded == KeyExpansion(short)
           plain == Blocks(Padded(text))
           chained == Chained(plain, iv, expanded)
           n == Len(text) \div 16 + 1
           cipher == CHOOSE g : g = [i \in 0..n |-> IF i = 0 THEN iv
                                                    ELSE FipsBlock(XorEach(PlainBlock(text, i), g[i - 1]), short)]
<1>1. Len(key) = 32
  BY DEF AesEncrypt, Failed
<1>2. AesEncrypt(text, key).text = Joined(16, chained)
  BY <1>1 DEF AesEncrypt, Succeeded
<1>3. FipsCipher(text, key) = Joined(16, [i \in 1..n |-> cipher[i]])
  BY DEF FipsCipher, PlainBlock
<1>4. iv \in State
  <2>1. 17 \in Nat /\ 32 \in Nat /\ 17 <= 32 + 1 /\ 1 <= 17 /\ 32 <= Len(key) /\ 32 + 1 - 17 = 16
    BY <1>1
  <2>2. iv \in Seq(Byte) /\ Len(iv) = 16
    BY <2>1, PartOf
  <2> HIDE DEF iv
  <2> QED
    BY <2>2, StateIs
<1>5. short \in Seq(Byte) /\ Len(short) = 16
  <2>1. 1 \in Nat /\ 16 \in Nat /\ 1 <= 16 + 1 /\ 1 <= 1 /\ 16 <= Len(key) /\ 16 + 1 - 1 = 16
    BY <1>1
  <2> QED
    BY <2>1, PartOf
<1> HIDE DEF iv, short
<1>6. IsExpanded(expanded) /\ \A s \in State : EncryptBlock(s, expanded) = FipsBlock(s, short)
  BY <1>5, KeyExpansionType, EncryptBlockIs
<1>7. /\ plain \in Seq(State) /\ Len(plain) = n /\ n \in Nat
      /\ \A i \in 1..n : plain[i] = PlainBlock(text, i)
  BY PlainIs
<1> HIDE DEF expanded, plain, n, cipher
<1>8. PICK c : IsChain(c, plain, iv, expanded)
  BY <1>4, <1>6, <1>7, ChainRuns
<1>9. /\ c[0] = iv /\ chained = [i \in 1..n |-> c[i]]
      /\ \A i \in 1..n : c[i] = EncryptBlock(XorEach(plain[i], c[i - 1]), expanded)
      /\ \A i \in 0..n : c[i] \in State
  BY <1>7, <1>8 DEF IsChain
<1>10. ASSUME NEW i \in 1..n PROVE c[i] = FipsBlock(XorEach(PlainBlock(text, i), c[i - 1]), short)
  <2>1. i - 1 \in 0..n /\ i \in 1..Len(plain)
    BY <1>7
  <2>2. plain[i] \in State /\ c[i - 1] \in State
    BY <1>7, <1>9, <2>1, ElementOfSeq
  <2>3. XorEach(plain[i], c[i - 1]) \in State
    BY <2>2, XorState
  <2> QED
    BY <1>6, <1>7, <1>9, <2>3
<1> DEFINE next(i, s) == FipsBlock(XorEach(PlainBlock(text, i), s), short)
<1>11. \A i \in 1..n : c[i] = next(i, c[i - 1])
  BY <1>10
<1>12. cipher = [i \in 0..n |-> IF i = 0 THEN iv ELSE next(i, cipher[i - 1])]
  <2> DEFINE f == [i \in 0..n |-> c[i]]
  <2>1. \A i \in 0..n : f[i] = IF i = 0 THEN iv ELSE next(i, f[i - 1])
    <3>1. \A i \in 0..n : i = 0 \/ (i \in 1..n /\ i - 1 \in 0..n)
      BY <1>7
    <3> HIDE DEF next
    <3> QED
      BY <1>9, <1>11, <3>1
  <2>2. f = [i \in 0..n |-> f[i]]
    OBVIOUS
  <2> HIDE DEF f
  <2>3. f = [i \in 0..n |-> IF i = 0 THEN iv ELSE next(i, f[i - 1])]
    BY <2>1, <2>2
  <2> QED
    BY <2>3 DEF cipher
<1> HIDE DEF next
<1> DEFINE T == {i \in 0..n : cipher[i] = c[i]}
<1>13. 0 \in T
  BY <1>7, <1>9, <1>12
<1>14. ASSUME NEW i \in 1..n, i - 1 \in T PROVE i \in T
  <2>1. i \in 0..n /\ i # 0
    BY <1>7
  <2>2. cipher[i] = next(i, cipher[i - 1]) /\ cipher[i - 1] = c[i - 1]
    BY <1>12, <1>14, <2>1
  <2> QED
    BY <1>11, <2>1, <2>2
<1>15. \A i \in 0..n : cipher[i] = c[i]
  <2> HIDE DEF T
  <2>1. \A i \in 0..n : i \in T
    BY <1>7, <1>13, <1>14, UpTo
  <2> QED
    BY <2>1 DEF T
<1>16. [i \in 1..n |-> cipher[i]] = chained
  <2>1. \A i \in 1..n : i \in 0..n
    BY <1>7
  <2> QED
    BY <1>9, <1>15, <2>1
<1> HIDE DEF chained
<1> QED
  BY <1>2, <1>3, <1>16

----------------------------------------------------------------------------
(***************************************************************************)
(* The other ciphers and the frame.                                        *)
(***************************************************************************)

(* none copies what there is room for, and refuses the rest.               *)
LEMMA CopiedIs ==
  ASSUME NEW data \in Seq(Byte)
  PROVE  /\ Copied(data).code = "OK" <=> Len(data) <= Room
         /\ Len(data) <= Room => Copied(data) = Succeeded(data)
<1>1. Len(data) \in Nat /\ Room \in Nat
  BY LenProperties, EndToEndAssumption
<1>2. Len(data) > Room <=> ~(Len(data) <= Room)
  BY <1>1
<1> QED
  BY <1>2 DEF Copied, Failed, Succeeded

(* xor_stream undoes itself under every key of 1 to 256 bytes.             *)
LEMMA XorStreamOpens ==
  ASSUME NEW data \in Seq(Byte), NEW key \in Seq(Byte), XorStream(data, key).code = "OK"
  PROVE  LET sealed == XorStream(data, key).text
         IN  /\ sealed \in Seq(Byte) /\ Len(sealed) <= Room
             /\ XorStream(sealed, key) = Succeeded(data)
<1> DEFINE stream == [i \in 1..Len(data) |-> KeyByte(key, i)]
           x == XorEach(data, stream)
<1>1. Len(key) \in 1..256
  BY DEF XorStream, Failed
<1>2. XorStream(data, key) = Copied(x)
  BY <1>1 DEF XorStream
<1>3. Len(data) \in Nat
  BY LenProperties
<1>4. stream \in [1..Len(data) -> Byte]
  <2>1. \A n \in 1..256, i \in 1..Len(data) : ((i - 1) % n) + 1 \in 1..n
    OBVIOUS
  <2>2. \A i \in 1..Len(data) : ((i - 1) % Len(key)) + 1 \in 1..Len(key)
    BY <1>1, <2>1, Zenon
  <2>3. \A i \in 1..Len(data) : KeyByte(key, i) \in Byte
    BY <2>2, ElementOfSeq DEF KeyByte
  <2> QED
    BY <2>3
<1>5. stream \in Seq(Byte) /\ Len(stream) = Len(data)
  <2> HIDE DEF stream
  <2> QED
    BY <1>3, <1>4, AllOf
<1> HIDE DEF stream
<1>6. x \in Seq(Byte) /\ Len(x) = Len(data) /\ XorEach(x, stream) = data
  BY <1>3, <1>5, XorEachIs, XorEachTwice
<1> HIDE DEF x
<1>7. Len(x) <= Room /\ Copied(x) = Succeeded(x)
  BY <1>2, <1>6, CopiedIs
<1>8. XorStream(x, key) = Copied(XorEach(x, stream))
  BY <1>1, <1>6 DEF XorStream, stream
<1>9. XorStream(x, key) = Succeeded(data)
  BY <1>6, <1>7, <1>8, CopiedIs
<1> QED
  BY <1>2, <1>6, <1>7, <1>9 DEF Succeeded

(* Whatever encrypt() has succeeded with, decrypt() opens with the same    *)
(* key.                                                                    *)
LEMMA SealedOpens ==
  ASSUME NEW secret \in Secrets, Sealed(secret).code = "OK"
  PROVE  /\ secret.text \in Seq(Byte)
         /\ Sealed(secret).text \in Seq(Byte)
         /\ Decrypt(secret.cipher, Sealed(secret).text, secret.key) = Succeeded(secret.text)
<1> DEFINE text == secret.text
           key == secret.key
           cipher == secret.cipher
<1>1. text \in Seq(Byte) /\ key \in Seq(Byte) /\ cipher \in Ciphers
  BY EndToEndAssumption
<1>2. Sealed(secret) = Encrypt(cipher, text, key)
  BY DEF Sealed
<1>3. CASE cipher = "none"
  <2>1. Encrypt(cipher, text, key) = Copied(text) /\ Decrypt(cipher, text, key) = Copied(text)
    BY <1>3 DEF Encrypt, Decrypt
  <2>2. Copied(text) = Succeeded(text)
    BY <1>1, <1>2, <2>1, CopiedIs
  <2> QED
    BY <1>1, <1>2, <2>1, <2>2 DEF Succeeded
<1>4. CASE cipher = "xor_stream"
  <2>1. \A data : /\ Encrypt(cipher, data, key) = XorStream(data, key)
                  /\ Decrypt(cipher, data, key) = XorStream(data, key)
    BY <1>4 DEF Encrypt, Decrypt
  <2>2. Sealed(secret) = XorStream(text, key)
    BY <1>2, <2>1
  <2> QED
    BY <1>1, <2>1, <2>2, XorStreamOpens
<1>5. CASE cipher = "chacha20"
  <2>1. \A data : /\ Encrypt(cipher, data, key) = ChaCha20Crypt(data, key, Room)
                  /\ Decrypt(cipher, data, key) = ChaCha20Crypt(data, key, Room)
    BY <1>5 DEF Encrypt, Decrypt
  <2>2. Sealed(secret) = ChaCha20Crypt(text, key, Room)
    BY <1>2, <2>1
  <2> QED
    BY <1>1, <2>1, <2>2, ChaCha20Opens, EndToEndAssumption
<1>6. CASE cipher = "aes-128-cbc"
  <2>1. \A data : /\ Encrypt(cipher, data, key) = AesEncrypt(data, key)
                  /\ Decrypt(cipher, data, key) = AesDecrypt(data, key)
    BY <1>6 DEF Encrypt, Decrypt
  <2>2. Sealed(secret) = AesEncrypt(text, key)
    BY <1>2, <2>1
  <2> QED
    BY <1>1, <2>1, <2>2, AesOpens
<1>7. CASE cipher = "public_key"
  <2>1. Encrypt(cipher, text, key) = Failed("ERR_UNSUPPORTED")
    BY <1>7 DEF Encrypt
  <2> QED
    BY <1>2, <2>1 DEF Failed
<1> QED
  BY <1>1, <1>3, <1>4, <1>5, <1>6, <1>7 DEF Ciphers

(* decode() of the length prefix gives back what encode() was given, for   *)
(* every length, if the caller has room for it.                            *)
LEMMA FrameOpens ==
  ASSUME NEW m, NEW data \in Seq(Byte), Len(data) <= Room
  PROVE  Framing!DecodeLengthPrefix(Framing!EncodeLengthPrefix(m, data)) = [code |-> "OK", payload |-> data]
<1> DEFINE header == Framing!Header(m, Len(data))
           frame == <<header>> \o data
           Unit == Byte \cup {header}
<1>0. header.n = Len(data) /\ Len(data) \in Nat
  BY LenProperties DEF Framing!Header
<1> HIDE DEF header
<1>1. <<header>> \in Seq(Unit) /\ Len(<<header>>) = 1 /\ data \in Seq(Unit)
  <2>1. data \in Seq(Unit)
    BY SeqDef
  <2> QED
    BY <2>1
<1> HIDE DEF Unit
<1>2. /\ frame \in Seq(Unit)
      /\ Len(frame) = 1 + Len(data)
      /\ frame[1] = header
      /\ \A i \in 1..Len(data) : frame[i + 1] = data[i]
  <2>1. /\ frame \in Seq(Unit)
        /\ Len(frame) = Len(<<header>>) + Len(data)
        /\ \A i \in 1..(Len(<<header>>) + Len(data)) :
              frame[i] = IF i <= Len(<<header>>) THEN <<header>>[i] ELSE data[i - Len(<<header>>)]
    BY <1>1, ConcatProperties
  <2> HIDE DEF frame
  <2>2. \A i \in 1..Len(data) : i + 1 \in 1..(1 + Len(data)) /\ ~(i + 1 <= 1) /\ (i + 1) - 1 = i
    BY <1>0
  <2>3. 1 \in 1..(1 + Len(data)) /\ <<header>>[1] = header
    BY <1>0
  <2> QED
    BY <1>1, <2>1, <2>2, <2>3
<1>3. Framing!EncodeLengthPrefix(m, data) = frame
  BY DEF Framing!EncodeLengthPrefix, header
<1> HIDE DEF frame
<1>4. frame # <<>> /\ Head(frame) = header
  BY <1>0, <1>2
<1>5. SubSeq(frame, 2, 1 + Len(data)) = data
  <2>1. \A i \in 2..(1 + Len(data)) : frame[i] \in Unit
    BY <1>2, ElementOfSeq
  <2>2. /\ SubSeq(frame, 2, 1 + Len(data)) \in Seq(Unit)
        /\ Len(SubSeq(frame, 2, 1 + Len(data))) = Len(data)
        /\ \A i \in 1..Len(data) : SubSeq(frame, 2, 1 + Len(data))[i] = frame[2 + i - 1]
    <3>1. 2 \in Int /\ 1 + Len(data) \in Int
      BY <1>0
    <3>2. (IF 2 <= 1 + Len(data) THEN 1 + Len(data) - 2 + 1 ELSE 0) = Len(data) /\ 1 + Len(data) - 2 + 1 = Len(data)
      BY <1>0
    <3> QED
      BY <2>1, <3>1, <3>2, SubSeqProperties
  <2>3. \A i \in 1..Len(data) : frame[2 + i - 1] = data[i]
    <3>1. \A i \in 1..Len(data) : 2 + i - 1 = i + 1
      BY <1>0
    <3> QED
      BY <1>2, <3>1
  <2> HIDE DEF frame
  <2> QED
    BY <1>1, <2>2, <2>3, SeqEqual
<1>6. ~(Len(frame) < 1 + Head(frame).n + 0) /\ ~(Len(data) > Room)
  <2>1. Len(frame) = 1 + Len(data) /\ Head(frame).n = Len(data) /\ Room \in Nat
    BY <1>0, <1>2, <1>4, EndToEndAssumption
  <2> QED
    BY <1>0, <2>1
<1>7. Framing!Body(frame) = data
  BY <1>0, <1>4, <1>5 DEF Framing!Body
<1>8. Framing!DecodeLengthPrefix(frame) = Framing!Decoded(data)
  BY <1>4, <1>6, <1>7 DEF Framing!DecodeLengthPrefix, Framing!TooShort
<1>9. Framing!Decoded(data) = [code |-> "OK", payload |-> data]
  BY <1>6 DEF Framing!Decoded
<1> QED
  BY <1>3, <1>8, <1>9

----------------------------------------------------------------------------
(***************************************************************************)
(* The stack.                                                              *)
(***************************************************************************)

(* What is in the queue is the frame of a secret that could be sealed.     *)
FrameOf(i) == Framing!EncodeLengthPrefix(queue[i].id, Sealed(made[i]).text)
Frames == {Framing!EncodeLengthPrefix(m, text) : m \in Nat, text \in Seq(Byte)}

Carried(i) ==
  /\ Sealed(made[i]).code = "OK"
  /\ queue[i].size = HeaderSize + Len(Sealed(made[i]).text)
  /\ wire[i] = FrameOf(i)

StackInv ==
  /\ LoopbackInv
  /\ wire \in Seq(Frames) /\ Len(wire) = Len(queue)
  /\ made \in Seq(Secrets) /\ Len(made) = Len(queue)
  /\ \A i \in 1..Len(queue) : Carried(i)

(* The steps of the stack are steps of its transport.                      *)
LEMMA StackUsesLoopback ==
  ASSUME [StackNext]_stackVars
  PROVE  [AnyNext]_vars
<1>1. \A size \in Size : size \in Nat
  BY LoopbackAssumption
<1>2. ASSUME NEW secret \in Secrets, SendSecret(secret)
      PROVE  \E size \in Nat : Send(size)
  <2>1. Sealed(secret).code = "OK" /\ Send(HeaderSize + Len(Sealed(secret).text))
    BY <1>2 DEF SendSecret
  <2>2. Sealed(secret).text \in Seq(Byte)
    BY <2>1, SealedOpens
  <2>3. HeaderSize + Len(Sealed(secret).text) \in Nat
    BY <2>2, LenProperties DEF HeaderSize
  <2> QED
    BY <2>1, <2>3
<1> QED
  BY <1>1, <1>2
  DEF StackNext, StackOpen, StackClose, EncryptFails, ReceiveFails, ReceiveSecret, stackVars, AnyNext

(* AES allocates what it writes, so the buffer that decode() fills may be  *)
(* too small for it; the other ciphers look for room themselves.           *)
RoomForAes ==
  \A secret \in Secrets :
     LET sealed == Sealed(secret)
     IN  /\ secret.cipher = "aes-128-cbc" /\ sealed.code = "OK"
         /\ HeaderSize + Len(sealed.text) <= MaxMessageSize
         => Len(sealed.text) <= Room

(* What the transport carries can be decoded into a buffer of the caller.  *)
LEMMA CarriedFits ==
  ASSUME RoomForAes, NEW secret \in Secrets, Sealed(secret).code = "OK",
         HeaderSize + Len(Sealed(secret).text) <= MaxMessageSize
  PROVE  Len(Sealed(secret).text) <= Room
<1> DEFINE text == secret.text
           key == secret.key
           cipher == secret.cipher
<1>1. text \in Seq(Byte) /\ key \in Seq(Byte) /\ cipher \in Ciphers
  BY EndToEndAssumption
<1>2. Sealed(secret) = Encrypt(cipher, text, key)
  BY DEF Sealed
<1>3. ASSUME NEW data \in Seq(Byte), Copied(data).code = "OK" PROVE Len(Copied(data).text) <= Room
  BY <1>3, CopiedIs DEF Succeeded
<1>4. CASE cipher = "none"
  <2>1. Sealed(secret) = Copied(text)
    BY <1>2, <1>4 DEF Encrypt
  <2> QED
    BY <1>1, <1>3, <2>1
<1>5. CASE cipher = "xor_stream"
  <2>1. Sealed(secret) = XorStream(text, key)
    BY <1>2, <1>5 DEF Encrypt
  <2> QED
    BY <1>1, <2>1, XorStreamOpens
<1>6. CASE cipher = "chacha20"
  <2>1. Sealed(secret) = ChaCha20Crypt(text, key, Room)
    BY <1>2, <1>6 DEF Encrypt
  <2> QED
    BY <1>1, <2>1, ChaCha20Opens, EndToEndAssumption
<1>7. CASE cipher = "aes-128-cbc"
  BY <1>7 DEF RoomForAes
<1>8. CASE cipher = "public_key"
  BY <1>2, <1>8 DEF Encrypt, Failed
<1> QED
  BY <1>1, <1>4, <1>5, <1>6, <1>7, <1>8 DEF Ciphers

(* What is at the front of the queue was made from what is at the front    *)
(* of made, and opens with its key.                                        *)
LEMMA FrontOpens ==
  ASSUME StackInv, queue # <<>>, RoomForAes
  PROVE  /\ Head(made) \in Secrets
         /\ Opened(Head(made).key) = Succeeded(Head(made).text)
<1>1. queue \in Seq(Message) /\ Len(queue) \in Nat \ {0}
  BY DEF StackInv, LoopbackInv, TypeOK
<1>2. Head(made) = made[1] /\ made[1] \in Secrets /\ Head(wire) = wire[1]
  BY <1>1 DEF StackInv
<1> DEFINE secret == made[1]
           text == Sealed(secret).text
<1>3. 1 \in 1..Len(queue)
  BY <1>1
<1>4. /\ Sealed(secret).code = "OK"
      /\ queue[1].size = HeaderSize + Len(text)
      /\ wire[1] = Framing!EncodeLengthPrefix(queue[1].id, text)
  BY <1>3 DEF StackInv, Carried, FrameOf
<1>5. text \in Seq(Byte) /\ Decrypt(secret.cipher, text, secret.key) = Succeeded(secret.text)
  BY <1>2, <1>4, SealedOpens
<1>6. Len(text) <= Room
  <2>1. queue[1] \in Message
    BY <1>1, <1>3, ElementOfSeq
  <2>2. queue[1].size \in 0..MaxMessageSize
    BY <2>1 DEF Message
  <2>3. HeaderSize + Len(text) <= MaxMessageSize
    BY <1>4, <2>2, LoopbackAssumption
  <2> QED
    BY <1>2, <1>4, <2>3, CarriedFits
<1> HIDE DEF text
<1>7. Framing!DecodeLengthPrefix(wire[1]) = [code |-> "OK", payload |-> text]
  BY <1>4, <1>5, <1>6, FrameOpens
<1> QED
  BY <1>2, <1>5, <1>7 DEF Opened

(* An outcome says of what it is, and with which key.                      *)
LEMMA OutcomeIs ==
  ASSUME NEW of, NEW key, NEW opened
  PROVE  LET outcome == [of |-> of, key |-> key, opened |-> opened]
         IN  outcome.of = of /\ outcome.key = key /\ outcome.opened = opened
  OBVIOUS

(* No call of a sender or receiver breaks the invariant of the stack.      *)
LEMMA StackKeeps ==
  ASSUME StackInv, [StackNext]_stackVars
  PROVE  StackInv'
<1>0. /\ LoopbackInv'
      /\ queue \in Seq(Message) /\ Len(queue) \in Nat /\ sent \in Nat
      /\ wire \in Seq(Frames) /\ Len(wire) = Len(queue)
      /\ made \in Seq(Secrets) /\ Len(made) = Len(queue)
      /\ \A i \in 1..Len(queue) : Carried(i)
  <2>1. LoopbackInv'
    BY StackUsesLoopback, LoopbackKeeps DEF StackInv
  <2> QED
    BY <2>1 DEF StackInv, LoopbackInv, TypeOK
<1>1. ASSUME queue' = <<>>, wire' = <<>>, made' = <<>>
      PROVE  StackInv'
  <2>1. Len(queue') = 0 /\ wire' \in Seq(Frames) /\ made' \in Seq(Secrets) /\ Len(wire') = 0 /\ Len(made') = 0
    BY <1>1
  <2>2. \A i \in 1..Len(queue') : Carried(i)'
    BY <2>1
  <2> QED
    BY <1>0, <2>1, <2>2 DEF StackInv
<1>2. ASSUME UNCHANGED <<queue, wire, made>> PROVE StackInv'
  BY <1>0, <1>2 DEF StackInv, Carried, FrameOf
<1>3. ASSUME queue # <<>>, queue' = Tail(queue), wire' = Tail(wire), made' = Tail(made)
      PROVE  StackInv'
  <2>1. /\ Len(queue) \in Nat \ {0} /\ Len(queue') = Len(queue) - 1
        /\ \A i \in 1..(Len(queue) - 1) : queue'[i] = queue[i + 1]
    BY <1>0, <1>3
  <2>2. /\ wire' \in Seq(Frames) /\ Len(wire') = Len(queue) - 1
        /\ \A i \in 1..(Len(queue) - 1) : wire'[i] = wire[i + 1]
    BY <1>0, <1>3, <2>1
  <2>3. /\ made' \in Seq(Secrets) /\ Len(made') = Len(queue) - 1
        /\ \A i \in 1..(Len(queue) - 1) : made'[i] = made[i + 1]
    BY <1>0, <1>3, <2>1
  <2>4. ASSUME NEW i \in 1..Len(queue') PROVE Carried(i)'
    <3>1. i + 1 \in 1..Len(queue) /\ i \in 1..(Len(queue) - 1)
      BY <2>1
    <3> QED
      BY <1>0, <2>1, <2>2, <2>3, <3>1 DEF Carried, FrameOf
  <2> QED
    BY <1>0, <1>3, <2>1, <2>2, <2>3, <2>4 DEF StackInv
<1>5. CASE StackOpen \/ StackClose
  BY <1>1, <1>5 DEF StackOpen, StackClose, Open, Close, Clear
<1>6. ASSUME NEW secret \in Secrets, EncryptFails(secret) PROVE StackInv'
  BY <1>2, <1>6 DEF EncryptFails, vars
<1>7. ASSUME NEW secret \in Secrets, SendSecret(secret) PROVE StackInv'
  <2> DEFINE text == Sealed(secret).text
             frame == Framing!EncodeLengthPrefix(sent + 1, text)
             message == [id |-> sent + 1, size |-> HeaderSize + Len(text)]
  <2>1. Sealed(secret).code = "OK" /\ Send(HeaderSize + Len(text))
    BY <1>7 DEF SendSecret
  <2>2. text \in Seq(Byte) /\ frame \in Frames /\ Len(text) \in Nat
    <3>1. text \in Seq(Byte)
      BY <2>1, SealedOpens
    <3> HIDE DEF text
    <3>2. Len(text) \in Nat
      BY <3>1, LenProperties
    <3>3. sent + 1 \in Nat
      BY <1>0
    <3>4. frame \in Frames
      BY <3>1, <3>3 DEF Frames
    <3> QED
      BY <3>1, <3>2, <3>4
  <2>3. CASE ret' # "OK"
    <3>1. UNCHANGED <<wire, made>>
      BY <1>7, <2>3 DEF SendSecret
    <3>2. queue' = queue
      BY <2>1, <2>3 DEF Send, Refuse
    <3> QED
      BY <1>2, <2>1, <3>1, <3>2
  <2>4. CASE ret' = "OK"
    <3>1. wire' = Append(wire, frame) /\ made' = Append(made, secret)
      BY <1>7, <2>4 DEF SendSecret
    <3>2. queue' = Append(queue, message) /\ ~TooLarge(HeaderSize + Len(text))
      BY <2>1, <2>4 DEF Send, Refuse
    <3>3. message \in Message /\ message.id = sent + 1 /\ message.size = HeaderSize + Len(text)
      BY <1>0, <2>2, <3>2, LoopbackAssumption DEF Message, TooLarge, HeaderSize
    <3> HIDE DEF message, frame
    <3>4. /\ Len(queue') = Len(queue) + 1 /\ queue'[Len(queue) + 1] = message
          /\ \A i \in 1..Len(queue) : queue'[i] = queue[i]
      BY <1>0, <3>2, <3>3
    <3>5. /\ wire' \in Seq(Frames) /\ Len(wire') = Len(queue) + 1 /\ wire'[Len(queue) + 1] = frame
          /\ \A i \in 1..Len(queue) : wire'[i] = wire[i]
      BY <1>0, <2>2, <3>1
    <3>6. /\ made' \in Seq(Secrets) /\ Len(made') = Len(queue) + 1 /\ made'[Len(queue) + 1] = secret
          /\ \A i \in 1..Len(queue) : made'[i] = made[i]
      BY <1>0, <3>1
    <3>7. ASSUME NEW i \in 1..Len(queue') PROVE Carried(i)'
      <4>1. CASE i \in 1..Len(queue)
        BY <1>0, <3>4, <3>5, <3>6, <4>1 DEF Carried, FrameOf
      <4>2. CASE i = Len(queue) + 1
        BY <2>1, <3>3, <3>4, <3>5, <3>6, <4>2 DEF Carried, FrameOf, frame
      <4> QED
        BY <1>0, <3>4, <4>1, <4>2
    <3> QED
      BY <1>0, <2>1, <3>4, <3>5, <3>6, <3>7 DEF StackInv
  <2> QED
    BY <2>3, <2>4
<1>8. ASSUME NEW size \in Size, ReceiveFails(size) PROVE StackInv'
  <2>1. CASE queue' = queue
    BY <1>2, <1>8, <2>1 DEF ReceiveFails
  <2>2. CASE queue' # queue
    BY <1>3, <1>8, <2>2 DEF ReceiveFails, Recv, Refuse, Popped
  <2> QED
    BY <2>1, <2>2
<1>9. ASSUME NEW size \in Size, NEW key \in Keys, ReceiveSecret(size, key) PROVE StackInv'
  <2>1. queue # <<>> /\ queue' = Tail(queue) /\ wire' = Tail(wire) /\ made' = Tail(made)
    BY <1>9 DEF ReceiveSecret, Recv, Refuse, Popped
  <2> QED
    BY <1>3, <2>1
<1>10. CASE UNCHANGED stackVars
  BY <1>2, <1>10 DEF stackVars, vars
<1> QED
  BY <1>5, <1>6, <1>7, <1>8, <1>9, <1>10 DEF StackNext

(* Whatever a call does, who has the key of a message gets its text.       *)
LEMMA StackOpens ==
  ASSUME StackInv, OwnKeyOpens, [StackNext]_stackVars, RoomForAes
  PROVE  OwnKeyOpens'
<1>1. CASE got' = NoOutcome
  BY <1>1 DEF OwnKeyOpens
<1>2. ASSUME NEW size \in Size, NEW key \in Keys, ReceiveSecret(size, key) PROVE OwnKeyOpens'
  <2>1. queue # <<>>
    BY <1>2 DEF ReceiveSecret, Recv, Refuse, Popped
  <2>2. got' = [of |-> Head(made), key |-> key, opened |-> Opened(key)]
    BY <1>2 DEF ReceiveSecret
  <2>3. got'.of = Head(made) /\ got'.key = key /\ got'.opened = Opened(key)
    BY <2>2, OutcomeIs
  <2>4. key = Head(made).key => Opened(key) = Succeeded(Head(made).text)
    BY <2>1, FrontOpens
  <2> QED
    BY <2>3, <2>4 DEF OwnKeyOpens
<1>3. CASE UNCHANGED stackVars
  BY <1>3 DEF stackVars, OwnKeyOpens
<1> QED
  BY <1>1, <1>2, <1>3
  DEF StackNext, StackOpen, StackClose, EncryptFails, SendSecret, ReceiveFails

(* Before the first open() nothing is on the wire.                         *)
LEMMA StackInitInv == StackInit => StackInv /\ OwnKeyOpens
  BY LoopbackInit, EmptySeq DEF StackInit, Init, StackInv, OwnKeyOpens, NoOutcome

(* Whoever has the key of a message gets its text: over sessions, refused  *)
(* sends, lost frames and any order of calls, what recv() returns is       *)
(* decoded and decrypted to what the sender encrypted, for every text, key *)
(* and cipher, if there is room to decode what AES made and was carried.   *)
THEOREM OwnKeyAlwaysOpens ==
  ASSUME RoomForAes
  PROVE  StackSpec => []OwnKeyOpens
<1>1. StackInv /\ OwnKeyOpens /\ [StackNext]_stackVars => (StackInv /\ OwnKeyOpens)'
  BY StackKeeps, StackOpens
<1> QED
  BY <1>1, StackInitInv, PTL DEF StackSpec

(* What is behind the header of a frame is what encrypt() made.            *)
LEMMA FrameBody ==
  ASSUME NEW m, NEW data \in Seq(Byte)
  PROVE  Tail(Framing!EncodeLengthPrefix(m, data)) = data
<1> DEFINE header == Framing!Header(m, Len(data))
           Unit == Byte \cup {header}
<1>1. Framing!EncodeLengthPrefix(m, data) = <<header>> \o data
  BY DEF Framing!EncodeLengthPrefix
<1> HIDE DEF header
<1>2. header \in Unit /\ data \in Seq(Unit)
  <2>1. data \in Seq(Unit)
    BY SeqDef
  <2> QED
    BY <2>1
<1> HIDE DEF Unit
<1>3. Tail(<<header>> \o data) = data
  BY <1>2
<1> QED
  BY <1>1, <1>3

(* What aes-128-cbc and chacha20 seal is what their standards have.        *)
LEMMA SealedIsStandard ==
  ASSUME NEW secret \in Secrets, Sealed(secret).code = "OK",
         secret.cipher \in {"aes-128-cbc", "chacha20"}
  PROVE  Sealed(secret).text = Standard(secret)
<1> DEFINE text == secret.text
           key == secret.key
<1>1. text \in Seq(Byte) /\ key \in Seq(Byte) /\ Room \in Nat
  BY EndToEndAssumption
<1>2. CASE secret.cipher = "aes-128-cbc"
  <2>1. Sealed(secret) = AesEncrypt(text, key)
    BY <1>2 DEF Sealed, Encrypt
  <2>2. Standard(secret) = FipsCipher(text, key)
    BY <1>2 DEF Standard
  <2> HIDE DEF text, key
  <2> QED
    BY <1>1, <2>1, <2>2, AesIsFips
<1>3. CASE secret.cipher = "chacha20"
  <2>1. Sealed(secret) = ChaCha20Crypt(text, key, Room)
    BY <1>3 DEF Sealed, Encrypt
  <2>2. Standard(secret) = RfcCipher(text, SubSeq(key, 1, 32), SubSeq(key, 33, 44),
                                     IF Len(key) = 48 THEN SubSeq(key, 45, 48) ELSE <<0, 0, 0, 0>>)
    BY <1>3 DEF Standard
  <2> HIDE DEF text, key
  <2> QED
    BY <1>1, <2>1, <2>2, ChaCha20IsRfc
<1> QED
  BY <1>2, <1>3

(* Every message of AES on the wire is FIPS 197's, in CBC with PKCS#7, and *)
(* every one of ChaCha20 is RFC 8439's: whatever was sent, refused or lost *)
(* before, for every text and key that the cipher takes.                   *)
THEOREM CipherAlwaysStandard == StackSpec => []CipherIsStandard
<1>1. StackInv => CipherIsStandard
  <2> SUFFICES ASSUME StackInv, NEW i \in 1..Len(wire), made[i].cipher \in {"aes-128-cbc", "chacha20"}
               PROVE  Tail(wire[i]) = Standard(made[i])
    BY DEF CipherIsStandard
  <2>1. i \in 1..Len(queue) /\ i \in 1..Len(made) /\ made \in Seq(Secrets)
    BY DEF StackInv
  <2>2. made[i] \in Secrets
    BY <2>1, ElementOfSeq
  <2>3. Sealed(made[i]).code = "OK" /\ wire[i] = FrameOf(i)
    BY <2>1 DEF StackInv, Carried
  <2>4. Sealed(made[i]).text \in Seq(Byte)
    BY <2>2, <2>3, SealedOpens
  <2>5. Tail(wire[i]) = Sealed(made[i]).text
    BY <2>3, <2>4, FrameBody DEF FrameOf
  <2> QED
    BY <2>2, <2>3, <2>5, SealedIsStandard
<1>2. StackInv /\ [StackNext]_stackVars => StackInv'
  BY StackKeeps
<1> QED
  BY <1>1, <1>2, StackInitInv, PTL DEF StackSpec

(* What the layers above do with the loopback transport, whatever sizes    *)
(* their frames have, leaves it an ordered channel.                        *)
THEOREM StackImplementsChannel == StackSpec => ImplementsChannel
<1>1. StackInit => LoopbackInv /\ Abstract!Init
  BY LoopbackInit, LoopbackInitMaps DEF StackInit
<1>2. LoopbackInv /\ [StackNext]_stackVars => LoopbackInv' /\ [Abstract!Next]_(Abstract!vars)
  BY StackUsesLoopback, LoopbackKeeps, LoopbackMaps
<1> QED
  BY <1>1, <1>2, PTL DEF StackSpec, ImplementsChannel, Abstract!Spec
=============================================================================
