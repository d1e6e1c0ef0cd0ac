----------------------------- MODULE UdpProofs -----------------------------
(***************************************************************************)
(* The datagram transport never repeats a datagram, carries none over a    *)
(* close and talks to no port but its own, for every set of ports and      *)
(* sizes, and whatever the network reorders or loses.                      *)
(*                                                                         *)
(* Every datagram is in one place at most: on the wire, in the buffer of   *)
(* the socket or in the queue.  That is what makes a step that takes one   *)
(* out of its place take it from what is pending.                          *)
(***************************************************************************)
EXTENDS UdpTransport, SequenceTheorems, TLAPS

(* The datagrams of a sequence differ in their numbers.                    *)
Apart(s) == \A i, j \in 1 .. Len(s) : i # j => s[i].id # s[j].id

(* Those of one set differ from those of another.                          *)
NoneShared(S, T) == \A d \in S, e \in T : d.id # e.id

OnePlaceEach ==
  /\ Apart(queue) /\ Apart(buffer) /\ Apart(wire)
  /\ NoneShared(ToSet(queue), ToSet(buffer))
  /\ NoneShared(ToSet(queue), ToSet(wire))
  /\ NoneShared(ToSet(buffer), ToSet(wire))
  /\ \A d \in ToSet(queue) \cup ToSet(buffer) \cup ToSet(wire) : d.id \in 1 .. sent

(* What is left of a session that was closed, and whom an open one sends to. *)
SessionEnds ==
  /\ state = "closed" => /\ port = NoPort /\ peer = NoPort /\ pc = "idle"
                         /\ queue = <<>> /\ buffer = <<>>
  /\ state = "open" => port \in Port /\ peer \in {NoPort, port}

UdpInv == TypeOK /\ OnePlaceEach /\ SessionEnds

----------------------------------------------------------------------------

LEMMA EmptyIs == <<>> \in Seq(Datagram) /\ Apart(<<>>) /\ ToSet(<<>>) = {}
  BY EmptySeq DEF Apart, ToSet

LEMMA SetIs ==
  ASSUME NEW s \in Seq(Datagram)
  PROVE  /\ ToSet(s) = {s[i] : i \in 1 .. Len(s)}
         /\ ToSet(s) \subseteq Datagram
         /\ Len(s) \in Nat
  BY DEF ToSet

LEMMA FieldsOf ==
  ASSUME NEW d \in Datagram
  PROVE  d.id \in Nat /\ d.size \in 0 .. MaxDatagramSize /\ d.to \in Port
  BY DEF Datagram

(* A datagram with a number of its own at the end.                         *)
LEMMA AppendIs ==
  ASSUME NEW s \in Seq(Datagram), Apart(s), NEW d \in Datagram,
         NoneShared(ToSet(s), {d})
  PROVE  /\ Append(s, d) \in Seq(Datagram)
         /\ Apart(Append(s, d))
         /\ ToSet(Append(s, d)) = ToSet(s) \cup {d}
<1>1. /\ Append(s, d) \in Seq(Datagram)
      /\ Len(s) \in Nat
      /\ Len(Append(s, d)) = Len(s) + 1
      /\ \A i \in 1 .. Len(s) : Append(s, d)[i] = s[i]
      /\ Append(s, d)[Len(s) + 1] = d
  OBVIOUS
<1>2. ToSet(Append(s, d)) = {Append(s, d)[i] : i \in 1 .. Len(s) + 1}
  BY <1>1, SetIs
<1>3. ToSet(s) = {s[i] : i \in 1 .. Len(s)}
  BY SetIs
<1> DEFINE t == Append(s, d)
<1> HIDE DEF t
<1>4. \A i \in 1 .. Len(s) : t[i].id # d.id
  BY <1>1, <1>3 DEF NoneShared, t
<1>5. ASSUME NEW i \in 1 .. Len(t), NEW j \in 1 .. Len(t), i # j PROVE t[i].id # t[j].id
  <2>1. CASE i \in 1 .. Len(s) /\ j \in 1 .. Len(s)
    BY <1>1, <1>5, <2>1 DEF Apart, t
  <2>2. CASE i = Len(s) + 1 /\ j \in 1 .. Len(s)
    BY <1>1, <1>4, <2>2 DEF t
  <2>3. CASE j = Len(s) + 1 /\ i \in 1 .. Len(s)
    BY <1>1, <1>4, <2>3 DEF t
  <2>4. /\ i \in 1 .. Len(s) \/ i = Len(s) + 1
        /\ j \in 1 .. Len(s) \/ j = Len(s) + 1
    BY <1>1, <1>5 DEF t
  <2> QED
    BY <1>5, <2>1, <2>2, <2>3, <2>4
<1>6. ToSet(t) = ToSet(s) \cup {d}
  <2>1. ASSUME NEW x \in ToSet(t) PROVE x \in ToSet(s) \cup {d}
    <3>1. PICK i \in 1 .. Len(s) + 1 : x = t[i]
      BY <1>2, <2>1 DEF t
    <3>2. i \in 1 .. Len(s) \/ i = Len(s) + 1
      BY <1>1
    <3> QED
      BY <1>1, <1>3, <3>1, <3>2 DEF t
  <2>2. ASSUME NEW x \in ToSet(s) PROVE x \in ToSet(t)
    <3>1. PICK i \in 1 .. Len(s) : x = s[i]
      BY <1>3, <2>2
    <3>2. i \in 1 .. Len(s) + 1 /\ x = t[i]
      BY <1>1, <3>1 DEF t
    <3> QED
      BY <1>2, <3>2 DEF t
  <2>3. d \in ToSet(t)
    BY <1>1, <1>2 DEF t
  <2> QED
    BY <2>1, <2>2, <2>3
<1> QED
  BY <1>1, <1>5, <1>6 DEF Apart, t

LEMMA JoinedIs ==
  ASSUME NEW S, NEW p \in Seq(S), NEW q \in Seq(S)
  PROVE  /\ p \o q \in Seq(S)
         /\ Len(p \o q) = Len(p) + Len(q)
         /\ \A i \in 1 .. Len(p) : (p \o q)[i] = p[i]
         /\ \A i \in 1 .. Len(q) : (p \o q)[Len(p) + i] = q[i]
<1>1. Len(p) \in Nat /\ Len(q) \in Nat
  OBVIOUS
<1>2. /\ p \o q \in Seq(S)
      /\ Len(p \o q) = Len(p) + Len(q)
      /\ \A i \in 1 .. Len(p) + Len(q) :
            (p \o q)[i] = IF i <= Len(p) THEN p[i] ELSE q[i - Len(p)]
  BY ConcatProperties
<1>3. \A i \in 1 .. Len(q) : /\ Len(p) + i \in 1 .. Len(p) + Len(q)
                              /\ ~(Len(p) + i <= Len(p))
                              /\ (Len(p) + i) - Len(p) = i
  BY <1>1
<1>4. \A i \in 1 .. Len(p) : i \in 1 .. Len(p) + Len(q) /\ i <= Len(p)
  BY <1>1
<1> QED
  BY <1>2, <1>3, <1>4

(* Where the datagrams of a sequence are when number k is taken out.       *)
From(i, k) == IF i < k THEN i ELSE i + 1

LEMMA RemovedFrom ==
  ASSUME NEW s \in Seq(Datagram), NEW k \in 1 .. Len(s)
  PROVE  /\ RemoveAt(s, k) \in Seq(Datagram)
         /\ Len(s) \in Nat \ {0}
         /\ Len(RemoveAt(s, k)) = Len(s) - 1
         /\ \A i \in 1 .. Len(s) - 1 : RemoveAt(s, k)[i] = s[From(i, k)]
<1> DEFINE t == RemoveAt(s, k)
           from(i) == From(i, k)
<1>1. Len(s) \in Nat \ {0} /\ k \in Nat \ {0}
  OBVIOUS
<1>2. /\ SubSeq(s, 1, k - 1) \in Seq(Datagram)
      /\ Len(SubSeq(s, 1, k - 1)) = k - 1
      /\ \A i \in 1 .. k - 1 : SubSeq(s, 1, k - 1)[i] = s[i]
  BY <1>1
<1>3. /\ SubSeq(s, k + 1, Len(s)) \in Seq(Datagram)
      /\ Len(SubSeq(s, k + 1, Len(s))) = Len(s) - k
      /\ \A i \in 1 .. Len(s) - k : SubSeq(s, k + 1, Len(s))[i] = s[i + k]
  BY <1>1
<1> DEFINE p == SubSeq(s, 1, k - 1)
           q == SubSeq(s, k + 1, Len(s))
<1>4. t = p \o q
  BY DEF RemoveAt
<1>5. /\ p \o q \in Seq(Datagram)
      /\ Len(p \o q) = Len(p) + Len(q)
      /\ \A i \in 1 .. Len(p) : (p \o q)[i] = p[i]
      /\ \A i \in 1 .. Len(q) : (p \o q)[Len(p) + i] = q[i]
  <2>1. p \in Seq(Datagram) /\ q \in Seq(Datagram)
    BY <1>2, <1>3
  <2> HIDE DEF p, q
  <2> QED
    BY <2>1, JoinedIs
<1> HIDE DEF p, q, t
<1>6. /\ t \in Seq(Datagram)
      /\ Len(t) = (k - 1) + (Len(s) - k)
      /\ \A i \in 1 .. k - 1 : t[i] = p[i]
      /\ \A i \in 1 .. Len(s) - k : t[(k - 1) + i] = q[i]
  BY <1>2, <1>3, <1>4, <1>5 DEF p, q
<1>7. ASSUME NEW i \in 1 .. Len(s) - 1 PROVE t[i] = s[from(i)]
  <2>1. CASE i < k
    <3>1. i \in 1 .. k - 1 /\ from(i) = i
      BY <1>1, <2>1 DEF From
    <3> QED
      BY <1>2, <1>6, <3>1 DEF p
  <2>2. CASE i >= k
    <3> DEFINE j == i - (k - 1)
    <3>1. j \in 1 .. Len(s) - k /\ (k - 1) + j = i /\ j + k = i + 1 /\ from(i) = i + 1
      BY <1>1, <2>2 DEF From
    <3> HIDE DEF j
    <3>2. t[i] = q[j]
      BY <1>6, <3>1
    <3>3. q[j] = s[j + k]
      BY <1>3, <3>1 DEF q
    <3> QED
      BY <3>1, <3>2, <3>3
  <2> QED
    BY <1>1, <2>1, <2>2
<1>8. t \in Seq(Datagram) /\ Len(t) = Len(s) - 1
  BY <1>1, <1>6
<1> QED
  BY <1>1, <1>7, <1>8 DEF t

(* One datagram taken out, from wherever it is.                            *)
LEMMA RemovedIs ==
  ASSUME NEW s \in Seq(Datagram), Apart(s), NEW k \in 1 .. Len(s)
  PROVE  /\ RemoveAt(s, k) \in Seq(Datagram)
         /\ Apart(RemoveAt(s, k))
         /\ ToSet(RemoveAt(s, k)) = ToSet(s) \ {s[k]}
         /\ NoneShared(ToSet(RemoveAt(s, k)), {s[k]})
         /\ s[k] \in ToSet(s)
<1> DEFINE t == RemoveAt(s, k)
           from(i) == From(i, k)
<1>1. /\ t \in Seq(Datagram)
      /\ Len(s) \in Nat \ {0}
      /\ Len(t) = Len(s) - 1
      /\ \A i \in 1 .. Len(s) - 1 : t[i] = s[from(i)]
  BY RemovedFrom
<1> HIDE DEF t
<1>2. \A i \in 1 .. Len(s) - 1 : from(i) \in 1 .. Len(s) /\ from(i) # k
  BY <1>1 DEF From
<1>3. \A i, j \in 1 .. Len(s) - 1 : i # j => from(i) # from(j)
  BY <1>1 DEF From
<1>4. \A j \in 1 .. Len(s) : j # k => \E i \in 1 .. Len(s) - 1 : from(i) = j
  <2> SUFFICES ASSUME NEW j \in 1 .. Len(s), j # k
               PROVE  \E i \in 1 .. Len(s) - 1 : from(i) = j
    OBVIOUS
  <2>1. CASE j < k
    <3>1. j \in 1 .. Len(s) - 1 /\ from(j) = j
      BY <1>1, <2>1 DEF From
    <3> QED
      BY <3>1
  <2>2. CASE j > k
    <3>1. j - 1 \in 1 .. Len(s) - 1 /\ from(j - 1) = j
      BY <1>1, <2>2 DEF From
    <3> QED
      BY <3>1
  <2> QED
    BY <1>1, <2>1, <2>2
<1> HIDE DEF from
<1>5. ToSet(s) = {s[i] : i \in 1 .. Len(s)} /\ ToSet(t) = {t[i] : i \in 1 .. Len(s) - 1}
  BY <1>1, SetIs
<1>6. Apart(t)
  <2> SUFFICES ASSUME NEW i \in 1 .. Len(s) - 1, NEW j \in 1 .. Len(s) - 1, i # j
               PROVE  t[i].id # t[j].id
    BY <1>1 DEF Apart
  <2>1. from(i) \in 1 .. Len(s) /\ from(j) \in 1 .. Len(s) /\ from(i) # from(j)
    BY <1>2, <1>3
  <2>2. t[i] = s[from(i)] /\ t[j] = s[from(j)]
    BY <1>1
  <2> QED
    BY <2>1, <2>2 DEF Apart
<1>7. NoneShared(ToSet(t), {s[k]})
  <2> SUFFICES ASSUME NEW i \in 1 .. Len(s) - 1 PROVE t[i].id # s[k].id
    BY <1>5 DEF NoneShared
  <2>1. from(i) \in 1 .. Len(s) /\ from(i) # k /\ t[i] = s[from(i)]
    BY <1>1, <1>2
  <2> QED
    BY <2>1 DEF Apart
<1>8. ToSet(t) = ToSet(s) \ {s[k]}
  <2>1. ToSet(t) \subseteq ToSet(s)
    BY <1>1, <1>2, <1>5
  <2>2. s[k] \notin ToSet(t)
    BY <1>7 DEF NoneShared
  <2>3. ASSUME NEW x \in ToSet(s), x # s[k] PROVE x \in ToSet(t)
    <3>1. PICK j \in 1 .. Len(s) : x = s[j]
      BY <1>5
    <3>2. PICK i \in 1 .. Len(s) - 1 : from(i) = j
      BY <1>4, <2>3, <3>1
    <3> QED
      BY <1>1, <1>5, <3>1, <3>2
  <2> QED
    BY <2>1, <2>2, <2>3
<1> QED
  BY <1>1, <1>5, <1>6, <1>7, <1>8 DEF t

(* The first one taken out.                                                *)
LEMMA TailIs ==
  ASSUME NEW s \in Seq(Datagram), Apart(s), s # <<>>
  PROVE  /\ Tail(s) \in Seq(Datagram)
         /\ Apart(Tail(s))
         /\ Head(s) \in Datagram
         /\ Head(s) \in ToSet(s)
         /\ ToSet(Tail(s)) = ToSet(s) \ {Head(s)}
         /\ NoneShared(ToSet(Tail(s)), {Head(s)})
<1> DEFINE t == Tail(s)
<1>1. /\ t \in Seq(Datagram)
      /\ Len(s) \in Nat \ {0}
      /\ Len(t) = Len(s) - 1
      /\ \A i \in 1 .. Len(s) - 1 : t[i] = s[i + 1]
      /\ Head(s) = s[1]
      /\ s[1] \in Datagram
  OBVIOUS
<1> HIDE DEF t
<1>2. ToSet(s) = {s[i] : i \in 1 .. Len(s)} /\ ToSet(t) = {t[i] : i \in 1 .. Len(s) - 1}
  BY <1>1, SetIs
<1>3. \A i \in 1 .. Len(s) - 1 : i + 1 \in 1 .. Len(s) /\ i + 1 # 1
  BY <1>1
<1>4. Apart(t)
  <2> SUFFICES ASSUME NEW i \in 1 .. Len(t), NEW j \in 1 .. Len(t), i # j
               PROVE  t[i].id # t[j].id
    BY DEF Apart
  <2>1. i + 1 \in 1 .. Len(s) /\ j + 1 \in 1 .. Len(s) /\ i + 1 # j + 1
    BY <1>1
  <2> QED
    BY <1>1, <2>1 DEF Apart
<1>5. NoneShared(ToSet(t), {s[1]})
  <2> SUFFICES ASSUME NEW i \in 1 .. Len(s) - 1 PROVE t[i].id # s[1].id
    BY <1>2 DEF NoneShared
  <2>1. i + 1 \in 1 .. Len(s) /\ 1 \in 1 .. Len(s) /\ i + 1 # 1
    BY <1>1
  <2> QED
    BY <1>1, <2>1 DEF Apart
<1>6. ToSet(t) = ToSet(s) \ {s[1]}
  <2>1. ToSet(t) \subseteq ToSet(s)
    BY <1>1, <1>2, <1>3
  <2>2. s[1] \notin ToSet(t)
    BY <1>5 DEF NoneShared
  <2>3. ASSUME NEW x \in ToSet(s), x # s[1] PROVE x \in ToSet(t)
    <3>1. PICK j \in 1 .. Len(s) : x = s[j]
      BY <1>2
    <3>2. j - 1 \in 1 .. Len(s) - 1 /\ (j - 1) + 1 = j
      BY <1>1, <2>3, <3>1
    <3> QED
      BY <1>1, <1>2, <3>1, <3>2
  <2> QED
    BY <2>1, <2>2, <2>3
<1>7. s[1] \in ToSet(s)
  BY <1>1, <1>2
<1> QED
  BY <1>1, <1>4, <1>5, <1>6, <1>7 DEF t

----------------------------------------------------------------------------

(* Nothing but the call's own variables changes: every datagram stays.     *)
LEMMA PlacesKept ==
  ASSUME OnePlaceEach, UNCHANGED <<queue, buffer, wire, sent>>
  PROVE  OnePlaceEach'
  BY DEF OnePlaceEach

LEMMA RefuseKeeps ==
  ASSUME UdpInv, NEW code \in ErrorCode, Refuse(code)
  PROVE  UdpInv'
<1>1. OnePlaceEach'
  BY PlacesKept DEF UdpInv, Refuse
<1> QED
  BY <1>1 DEF UdpInv, TypeOK, SessionEnds, Refuse

LEMMA InitHolds == Init => UdpInv
<1> SUFFICES ASSUME Init PROVE UdpInv
  OBVIOUS
<1>1. OnePlaceEach
  BY EmptyIs DEF Init, OnePlaceEach, NoneShared
<1>2. TypeOK
  BY EmptyIs, UdpAssumption DEF Init, TypeOK, ErrorCode
<1>3. SessionEnds
  BY DEF Init, SessionEnds
<1> QED
  BY <1>1, <1>2, <1>3 DEF UdpInv

LEMMA OpenKeeps == UdpInv /\ Open => UdpInv'
<1> SUFFICES ASSUME UdpInv, Open PROVE UdpInv'
  OBVIOUS
<1>1. CASE \E code \in ErrorCode : Refuse(code)
  BY <1>1, RefuseKeeps
<1>2. CASE ~\E code \in ErrorCode : Refuse(code)
  <2>1. /\ pc = "idle"
        /\ state = "closed"
        /\ port' \in Port
        /\ state' = "open"
        /\ ret' = "OK"
        /\ delivered' = {}
        /\ UNCHANGED <<peer, queue, pc, want, wire, buffer, sent, network>>
    BY <1>2 DEF Open, ErrorCode
  <2>2. OnePlaceEach'
    BY <2>1, PlacesKept DEF UdpInv
  <2>3. TypeOK' /\ SessionEnds'
    BY <2>1 DEF UdpInv, TypeOK, SessionEnds, ErrorCode
  <2> QED
    BY <2>2, <2>3 DEF UdpInv
<1> QED
  BY <1>1, <1>2

LEMMA CloseKeeps == UdpInv /\ Close => UdpInv'
<1> SUFFICES ASSUME UdpInv, Close PROVE UdpInv'
  OBVIOUS
<1>1. CASE \E code \in ErrorCode : Refuse(code)
  BY <1>1, RefuseKeeps
<1>2. CASE ~\E code \in ErrorCode : Refuse(code)
  <2>1. /\ pc = "idle"
        /\ state' = "closed"
        /\ port' = NoPort /\ queue' = <<>> /\ peer' = NoPort
        /\ buffer' = <<>>
        /\ ret' = "OK"
        /\ UNCHANGED <<pc, want, wire, sent, delivered, network>>
    BY <1>2 DEF Close, Reset, ErrorCode
  <2>2. OnePlaceEach'
    BY <2>1, EmptyIs DEF UdpInv, OnePlaceEach, NoneShared
  <2>3. TypeOK'
    BY <2>1, EmptyIs DEF UdpInv, TypeOK, ErrorCode
  <2>4. SessionEnds'
    BY <2>1 DEF SessionEnds
  <2> QED
    BY <2>2, <2>3, <2>4 DEF UdpInv
<1> QED
  BY <1>1, <1>2

(* The datagram that send() transmits has a number of its own and goes to  *)
(* the session's own port.                                                 *)
LEMMA SentIs ==
  ASSUME UdpInv, state = "open", NEW size \in SendSize, ~TooLarge(size)
  PROVE  LET d == [id |-> sent + 1, size |-> size, to |-> Peer]
         IN  /\ Peer = port
             /\ d \in Datagram
             /\ \A e \in ToSet(queue) \cup ToSet(buffer) \cup ToSet(wire) : e.id # d.id
<1> DEFINE d == [id |-> sent + 1, size |-> size, to |-> Peer]
<1>1. Peer = port /\ port \in Port
  BY DEF Peer, UdpInv, SessionEnds
<1>2. sent \in Nat /\ sent + 1 \notin 1 .. sent
  BY UdpAssumption DEF UdpInv, TypeOK
<1>3. size \in 0 .. MaxDatagramSize
  BY UdpAssumption DEF TooLarge
<1>4. d \in Datagram
  BY <1>1, <1>2, <1>3 DEF Datagram
<1>5. d.id = sent + 1
  OBVIOUS
<1> QED
  BY <1>1, <1>2, <1>4, <1>5 DEF UdpInv, OnePlaceEach

LEMMA SendKeeps == ASSUME NEW size \in SendSize PROVE UdpInv /\ Send(size) => UdpInv'
<1> SUFFICES ASSUME UdpInv, Send(size) PROVE UdpInv'
  OBVIOUS
<1>1. CASE \E code \in ErrorCode : Refuse(code)
  BY <1>1, RefuseKeeps
<1>2. CASE ~\E code \in ErrorCode : Refuse(code)
  <2> DEFINE d == [id |-> sent + 1, size |-> size, to |-> Peer]
  <2>1. /\ pc = "idle"
        /\ state = "open"
        /\ ~TooLarge(size)
        /\ sent < MaxSends
        /\ peer' = Peer
        /\ \/ /\ ret' = "ERR_IO"
              /\ UNCHANGED <<pc, wire, sent>>
           \/ /\ wire' = Append(wire, d)
              /\ sent' = sent + 1
              /\ pc' = "send"
              /\ UNCHANGED ret
        /\ UNCHANGED <<state, port, queue, want, buffer, delivered, network>>
    BY <1>2 DEF Send, ErrorCode
  <2>2. /\ Peer = port
        /\ d \in Datagram
        /\ \A e \in ToSet(queue) \cup ToSet(buffer) \cup ToSet(wire) : e.id # d.id
        /\ d.id = sent + 1
    BY <2>1, SentIs
  <2> HIDE DEF d
  <2>3. SessionEnds'
    BY <2>1, <2>2 DEF UdpInv, SessionEnds
  <2>4. CASE UNCHANGED <<pc, wire, sent>> /\ ret' = "ERR_IO"
    <3>1. OnePlaceEach'
      BY <2>1, <2>4, PlacesKept DEF UdpInv
    <3>2. TypeOK'
      BY <2>1, <2>2, <2>4 DEF UdpInv, TypeOK, SessionEnds, ErrorCode
    <3> QED
      BY <2>3, <3>1, <3>2 DEF UdpInv
  <2>5. CASE /\ wire' = Append(wire, d)
             /\ sent' = sent + 1
             /\ pc' = "send"
             /\ UNCHANGED ret
    <3>1. /\ wire' \in Seq(Datagram)
          /\ Apart(wire')
          /\ ToSet(wire') = ToSet(wire) \cup {d}
      <4>1. wire \in Seq(Datagram) /\ Apart(wire) /\ NoneShared(ToSet(wire), {d})
        BY <2>2 DEF UdpInv, TypeOK, OnePlaceEach, NoneShared
      <4> QED
        BY <2>2, <2>5, <4>1, AppendIs
    <3>2. sent \in Nat /\ sent' \in 0 .. MaxSends
      BY <2>1, <2>5, UdpAssumption DEF UdpInv, TypeOK
    <3>3. \A e \in ToSet(queue) \cup ToSet(buffer) \cup ToSet(wire) : e.id \in 1 .. sent'
      BY <2>5, <3>2 DEF UdpInv, OnePlaceEach
    <3>4. OnePlaceEach'
      <4>1. /\ NoneShared(ToSet(queue), ToSet(wire) \cup {d})
            /\ NoneShared(ToSet(buffer), ToSet(wire) \cup {d})
        BY <2>2 DEF UdpInv, OnePlaceEach, NoneShared
      <4>2. d.id \in 1 .. sent'
        BY <2>2, <2>5, <3>2
      <4> QED
        BY <2>1, <3>1, <3>3, <4>1, <4>2 DEF UdpInv, OnePlaceEach
    <3>5. TypeOK'
      BY <2>1, <2>2, <2>5, <3>1, <3>2 DEF UdpInv, TypeOK, SessionEnds, ErrorCode
    <3> QED
      BY <2>3, <3>4, <3>5 DEF UdpInv
  <2> QED
    BY <2>1, <2>4, <2>5
<1> QED
  BY <1>1, <1>2

(* What the socket's buffer is when its first datagram is taken out.       *)
LEMMA BufferTaken ==
  ASSUME UdpInv, buffer # <<>>, buffer' = Tail(buffer)
  PROVE  /\ buffer' \in Seq(Datagram)
         /\ Apart(buffer')
         /\ ToSet(buffer') = ToSet(buffer) \ {Head(buffer)}
         /\ NoneShared(ToSet(buffer'), {Head(buffer)})
         /\ Head(buffer) \in Datagram
         /\ Head(buffer) \in ToSet(buffer)
  BY TailIs DEF UdpInv, TypeOK, OnePlaceEach

LEMMA SendEchoKeeps == UdpInv /\ SendEcho => UdpInv'
<1> SUFFICES ASSUME UdpInv, SendEcho PROVE UdpInv'
  OBVIOUS
<1> DEFINE d == Head(buffer)
<1>1. /\ buffer # <<>> /\ buffer' = Tail(buffer)
      /\ queue' = IF d.size > 0 THEN Append(queue, d) ELSE queue
      /\ pc' = "idle"
      /\ ret' = "OK"
      /\ UNCHANGED <<state, port, peer, want, wire, sent, delivered, network>>
  BY DEF SendEcho, QueueWithEcho
<1>2. /\ buffer' \in Seq(Datagram)
      /\ Apart(buffer')
      /\ ToSet(buffer') = ToSet(buffer) \ {d}
      /\ NoneShared(ToSet(buffer'), {d})
      /\ d \in Datagram
      /\ d \in ToSet(buffer)
  BY <1>1, BufferTaken
<1> HIDE DEF d
<1>3. /\ queue' \in Seq(Datagram)
      /\ Apart(queue')
      /\ ToSet(queue') \subseteq ToSet(queue) \cup {d}
  <2>1. queue \in Seq(Datagram) /\ Apart(queue) /\ NoneShared(ToSet(queue), {d})
    BY <1>2 DEF UdpInv, TypeOK, OnePlaceEach, NoneShared
  <2>2. CASE d.size > 0
    BY <1>1, <1>2, <2>1, <2>2, AppendIs
  <2>3. CASE ~(d.size > 0)
    BY <1>1, <2>1, <2>3
  <2> QED
    BY <2>2, <2>3
<1>4. OnePlaceEach'
  <2>1. /\ NoneShared(ToSet(queue'), ToSet(buffer'))
        /\ NoneShared(ToSet(queue'), ToSet(wire'))
        /\ NoneShared(ToSet(buffer'), ToSet(wire'))
    BY <1>1, <1>2, <1>3 DEF UdpInv, OnePlaceEach, NoneShared
  <2>2. \A e \in ToSet(queue') \cup ToSet(buffer') \cup ToSet(wire') : e.id \in 1 .. sent'
    BY <1>1, <1>2, <1>3 DEF UdpInv, OnePlaceEach
  <2> QED
    BY <1>1, <1>2, <1>3, <2>1, <2>2 DEF UdpInv, OnePlaceEach
<1>5. state # "closed"
  BY DEF SendEcho, UdpInv, SessionEnds
<1>6. TypeOK' /\ SessionEnds'
  BY <1>1, <1>2, <1>3, <1>5 DEF UdpInv, TypeOK, SessionEnds, ErrorCode
<1> QED
  BY <1>4, <1>6 DEF UdpInv

(* What recv() hands over was sent, and so has a number within bounds.     *)
LEMMA HandKeeps ==
  ASSUME UdpInv, NEW d \in ToSet(queue) \cup ToSet(buffer), NEW size, Hand(d, size)
  PROVE  ret' \in ErrorCode /\ delivered' \subseteq 1 .. MaxSends
<1>1. d.id \in 1 .. MaxSends
  BY UdpAssumption DEF UdpInv, OnePlaceEach, TypeOK
<1> QED
  BY <1>1 DEF Hand, UdpInv, TypeOK, ErrorCode

LEMMA RecvKeeps == ASSUME NEW size \in RecvSize PROVE UdpInv /\ Recv(size) => UdpInv'
<1> SUFFICES ASSUME UdpInv, Recv(size) PROVE UdpInv'
  OBVIOUS
<1>1. CASE \E code \in ErrorCode : Refuse(code)
  BY <1>1, RefuseKeeps
<1>2. CASE ~\E code \in ErrorCode : Refuse(code)
  <2>1. /\ pc = "idle"
        /\ state = "open"
        /\ \/ /\ AskSocket
              /\ pc' = "recv"
              /\ want' = size
              /\ UNCHANGED <<queue, ret, delivered>>
           \/ /\ queue # <<>>
              /\ queue' = Tail(queue)
              /\ Hand(Head(queue), size)
              /\ UNCHANGED <<pc, want>>
        /\ UNCHANGED <<state, port, peer, wire, buffer, sent, network>>
    BY <1>2 DEF Recv, ErrorCode
  <2>2. CASE /\ pc' = "recv"
             /\ want' = size
             /\ UNCHANGED <<queue, ret, delivered>>
    <3>1. OnePlaceEach'
      BY <2>1, <2>2, PlacesKept DEF UdpInv
    <3>2. TypeOK' /\ SessionEnds'
      BY <2>1, <2>2 DEF UdpInv, TypeOK, SessionEnds
    <3> QED
      BY <3>1, <3>2 DEF UdpInv
  <2>3. CASE /\ queue # <<>>
             /\ queue' = Tail(queue)
             /\ Hand(Head(queue), size)
             /\ UNCHANGED <<pc, want>>
    <3>1. /\ queue' \in Seq(Datagram)
          /\ Apart(queue')
          /\ ToSet(queue') \subseteq ToSet(queue)
          /\ Head(queue) \in ToSet(queue)
      BY <2>3, TailIs DEF UdpInv, TypeOK, OnePlaceEach
    <3>2. ret' \in ErrorCode /\ delivered' \subseteq 1 .. MaxSends
      BY <2>3, <3>1, HandKeeps
    <3>3. OnePlaceEach'
      <4>1. /\ NoneShared(ToSet(queue'), ToSet(buffer'))
            /\ NoneShared(ToSet(queue'), ToSet(wire'))
        BY <2>1, <3>1 DEF UdpInv, OnePlaceEach, NoneShared
      <4>2. \A e \in ToSet(queue') \cup ToSet(buffer') \cup ToSet(wire') : e.id \in 1 .. sent'
        BY <2>1, <3>1 DEF UdpInv, OnePlaceEach
      <4> QED
        BY <2>1, <3>1, <4>1, <4>2 DEF UdpInv, OnePlaceEach
    <3>4. TypeOK' /\ SessionEnds'
      BY <2>1, <2>3, <3>1, <3>2 DEF UdpInv, TypeOK, SessionEnds
    <3> QED
      BY <3>3, <3>4 DEF UdpInv
  <2> QED
    BY <2>1, <2>2, <2>3
<1> QED
  BY <1>1, <1>2

LEMMA RecvArrivedKeeps == UdpInv /\ RecvArrived => UdpInv'
<1> SUFFICES ASSUME UdpInv, RecvArrived PROVE UdpInv'
  OBVIOUS
<1> DEFINE d == Head(buffer)
<1>1. /\ buffer # <<>> /\ buffer' = Tail(buffer)
      /\ pc' = "idle"
      /\ \/ ret' = "ERR_TIMEOUT" /\ UNCHANGED delivered
         \/ Hand(d, want)
      /\ UNCHANGED <<state, port, peer, queue, want, wire, sent, network>>
  BY DEF RecvArrived
<1>2. /\ buffer' \in Seq(Datagram)
      /\ Apart(buffer')
      /\ ToSet(buffer') \subseteq ToSet(buffer)
      /\ d \in ToSet(buffer)
  BY <1>1, BufferTaken
<1> HIDE DEF d
<1>3. ret' \in ErrorCode /\ delivered' \subseteq 1 .. MaxSends
  BY <1>1, <1>2, HandKeeps DEF UdpInv, TypeOK, ErrorCode
<1>4. OnePlaceEach'
  <2>1. /\ NoneShared(ToSet(queue'), ToSet(buffer'))
        /\ NoneShared(ToSet(buffer'), ToSet(wire'))
    BY <1>1, <1>2 DEF UdpInv, OnePlaceEach, NoneShared
  <2>2. \A e \in ToSet(queue') \cup ToSet(buffer') \cup ToSet(wire') : e.id \in 1 .. sent'
    BY <1>1, <1>2 DEF UdpInv, OnePlaceEach
  <2> QED
    BY <1>1, <1>2, <2>1, <2>2 DEF UdpInv, OnePlaceEach
<1>5. state # "closed"
  BY DEF RecvArrived, UdpInv, SessionEnds
<1>6. TypeOK' /\ SessionEnds'
  BY <1>1, <1>2, <1>3, <1>5 DEF UdpInv, TypeOK, SessionEnds
<1> QED
  BY <1>4, <1>6 DEF UdpInv

(* A recvfrom that finds nothing.                                          *)
LEMMA NothingKeeps == UdpInv /\ (SendNoEcho \/ RecvNothing) => UdpInv'
<1> SUFFICES ASSUME UdpInv, SendNoEcho \/ RecvNothing PROVE UdpInv'
  OBVIOUS
<1>1. /\ pc' = "idle"
      /\ ret' \in ErrorCode
      /\ UNCHANGED <<state, port, peer, queue, want, network, wire, buffer, sent, delivered>>
  BY DEF SendNoEcho, RecvNothing, ErrorCode, netVars, ghostVars
<1>2. OnePlaceEach'
  BY <1>1, PlacesKept DEF UdpInv
<1> QED
  BY <1>1, <1>2 DEF UdpInv, TypeOK, SessionEnds

(* What the wire is when datagram number i leaves it.                      *)
LEMMA WireTaken ==
  ASSUME UdpInv, NEW i \in DOMAIN wire, wire' = RemoveAt(wire, i)
  PROVE  /\ wire' \in Seq(Datagram)
         /\ Apart(wire')
         /\ ToSet(wire') = ToSet(wire) \ {wire[i]}
         /\ NoneShared(ToSet(wire'), {wire[i]})
         /\ wire[i] \in ToSet(wire)
         /\ wire[i] \in Datagram
<1>1. wire \in Seq(Datagram) /\ Apart(wire) /\ DOMAIN wire = 1 .. Len(wire)
  BY DEF UdpInv, TypeOK, OnePlaceEach
<1> QED
  BY <1>1, RemovedIs

LEMMA NetworkKeeps == UdpInv /\ Network => UdpInv'
<1> SUFFICES ASSUME UdpInv, NEW i \in DOMAIN wire, Arrive(i) \/ Drop(i) PROVE UdpInv'
  BY DEF Network
<1> DEFINE d == wire[i]
<1>1. /\ wire' = RemoveAt(wire, i)
      /\ buffer' = buffer \/ (buffer' = Append(buffer, d) /\ d.to = port)
      /\ UNCHANGED <<state, port, peer, queue, pc, want, ret, sent, delivered, network>>
  BY DEF Arrive, Drop, ghostVars
<1>2. /\ wire' \in Seq(Datagram)
      /\ Apart(wire')
      /\ ToSet(wire') = ToSet(wire) \ {d}
      /\ NoneShared(ToSet(wire'), {d})
      /\ d \in ToSet(wire)
      /\ d \in Datagram
  BY <1>1, WireTaken
<1> HIDE DEF d
<1>3. /\ buffer' \in Seq(Datagram)
      /\ Apart(buffer')
      /\ ToSet(buffer') \subseteq ToSet(buffer) \cup {d}
  <2>1. buffer \in Seq(Datagram) /\ Apart(buffer) /\ NoneShared(ToSet(buffer), {d})
    BY <1>2 DEF UdpInv, TypeOK, OnePlaceEach, NoneShared
  <2>2. CASE buffer' = buffer
    BY <2>1, <2>2
  <2>3. CASE buffer' = Append(buffer, d)
    BY <1>2, <2>1, <2>3, AppendIs
  <2> QED
    BY <1>1, <2>2, <2>3
<1>4. OnePlaceEach'
  <2>1. /\ NoneShared(ToSet(queue'), ToSet(buffer'))
        /\ NoneShared(ToSet(queue'), ToSet(wire'))
        /\ NoneShared(ToSet(buffer'), ToSet(wire'))
    BY <1>1, <1>2, <1>3 DEF UdpInv, OnePlaceEach, NoneShared
  <2>2. \A e \in ToSet(queue') \cup ToSet(buffer') \cup ToSet(wire') : e.id \in 1 .. sent'
    BY <1>1, <1>2, <1>3 DEF UdpInv, OnePlaceEach
  <2> QED
    BY <1>1, <1>2, <1>3, <2>1, <2>2 DEF UdpInv, OnePlaceEach
<1>5. SessionEnds'
  <2>1. state = "closed" => buffer' = <<>>
    <3>1. CASE d.to = port
      BY <1>2, <3>1, UdpAssumption, FieldsOf DEF UdpInv, SessionEnds
    <3>2. CASE d.to # port
      BY <1>1, <3>2 DEF UdpInv, SessionEnds
    <3> QED
      BY <3>1, <3>2
  <2> QED
    BY <1>1, <2>1 DEF UdpInv, SessionEnds
<1>6. TypeOK'
  BY <1>1, <1>2, <1>3 DEF UdpInv, TypeOK
<1> QED
  BY <1>4, <1>5, <1>6 DEF UdpInv

LEMMA UdpStep == UdpInv /\ [Next]_vars => UdpInv'
<1> SUFFICES ASSUME UdpInv, [Next]_vars PROVE UdpInv'
  OBVIOUS
<1>1. CASE Next
  BY <1>1, OpenKeeps, CloseKeeps, SendKeeps, RecvKeeps, SendEchoKeeps, NothingKeeps,
     RecvArrivedKeeps, NetworkKeeps DEF Next
<1>2. CASE UNCHANGED vars
  <2>1. UNCHANGED <<state, port, peer, queue, pc, want, ret, network, wire, buffer, sent, delivered>>
    BY <1>2 DEF vars
  <2>2. OnePlaceEach'
    BY <2>1, PlacesKept DEF UdpInv
  <2> QED
    BY <2>1, <2>2 DEF UdpInv, TypeOK, SessionEnds
<1> QED
  BY <1>1, <1>2

(* Every datagram stays in one place, with a number of its own, and a      *)
(* closed transport keeps nothing of its session (transport/udp.cpp).      *)
THEOREM UdpInvariant == Spec => []UdpInv
<1>1. Init => UdpInv
  BY InitHolds
<1>2. UdpInv /\ [Next]_vars => UdpInv'
  BY UdpStep
<1> QED
  BY <1>1, <1>2, PTL DEF Spec

(* The type invariant of the datagram transport.                           *)
THEOREM UdpTypeOK == Spec => []TypeOK
<1>1. UdpInv => TypeOK
  BY DEF UdpInv
<1> QED
  BY <1>1, UdpInvariant, PTL

(* The peer that send() remembers is the port of the session in progress,  *)
(* for close() forgets it: what is sent can come back.                     *)
THEOREM UdpPeerIsOwnPort == Spec => []PeerIsOwnPort
<1>1. UdpInv => PeerIsOwnPort
  BY DEF UdpInv, TypeOK, SessionEnds, PeerIsOwnPort
<1> QED
  BY <1>1, UdpInvariant, PTL

----------------------------------------------------------------------------

(* The numbers of a set of datagrams, and the datagrams that a session on  *)
(* port p holds.                                                           *)
Numbers(S) == {d.id : d \in S}
Held(q, b, w, p) == q \cup b \cup {e \in w : e.to = p}

LEMMA PendingIs ==
  Pending = Numbers(Held(ToSet(queue), ToSet(buffer), ToSet(wire), port))
  BY DEF Pending, Ids, Numbers, Held

LEMMA NumbersTaken ==
  ASSUME NEW S, NEW d \in S, NoneShared(S \ {d}, {d})
  PROVE  Numbers(S \ {d}) = Numbers(S) \ {d.id} /\ d.id \in Numbers(S)
  BY DEF Numbers, NoneShared

(* A datagram whose number no other of its place has, and which is in no   *)
(* other place, has a number of its own among all that are held.           *)
LEMMA HeldApart ==
  ASSUME UdpInv, NEW d, NEW p,
         d \in ToSet(queue) \cup ToSet(buffer) \cup ToSet(wire)
  PROVE  NoneShared(Held(ToSet(queue), ToSet(buffer), ToSet(wire), p) \ {d}, {d})
<1>1. ASSUME NEW s \in Seq(Datagram), Apart(s), d \in ToSet(s)
      PROVE  NoneShared(ToSet(s) \ {d}, {d})
  <2>1. ToSet(s) = {s[i] : i \in 1 .. Len(s)}
    BY SetIs
  <2> QED
    BY <1>1, <2>1 DEF Apart, NoneShared
<1>2. /\ queue \in Seq(Datagram) /\ Apart(queue)
      /\ buffer \in Seq(Datagram) /\ Apart(buffer)
      /\ wire \in Seq(Datagram) /\ Apart(wire)
      /\ NoneShared(ToSet(queue), ToSet(buffer))
      /\ NoneShared(ToSet(queue), ToSet(wire))
      /\ NoneShared(ToSet(buffer), ToSet(wire))
  BY DEF UdpInv, TypeOK, OnePlaceEach
<1>3. CASE d \in ToSet(queue)
  BY <1>1, <1>2, <1>3 DEF NoneShared, Held
<1>4. CASE d \in ToSet(buffer)
  BY <1>1, <1>2, <1>4 DEF NoneShared, Held
<1>5. CASE d \in ToSet(wire)
  BY <1>1, <1>2, <1>5 DEF NoneShared, Held
<1> QED
  BY <1>3, <1>4, <1>5

LEMMA UdpRefinesInit == Init => Abstract!Init
<1> SUFFICES ASSUME Init PROVE Abstract!Init
  OBVIOUS
<1>1. Pending = {}
  BY EmptyIs, PendingIs DEF Init, Numbers, Held
<1> QED
  BY <1>1 DEF Init, Abstract!Init

LEMMA RefuseStutters ==
  ASSUME NEW code, Refuse(code)
  PROVE  UNCHANGED Abstract!vars
  BY DEF Refuse, Abstract!vars, Pending, Ids

LEMMA OpenRefines == UdpInv /\ Open => [Abstract!Next]_(Abstract!vars)
<1> SUFFICES ASSUME UdpInv, Open, ~\E code : Refuse(code) PROVE Abstract!Open
  BY RefuseStutters DEF Abstract!Next
<1>1. /\ state = "closed"
      /\ port' \in Port \ {d.to : d \in ToSet(wire)}
      /\ state' = "open"
      /\ delivered' = {}
      /\ UNCHANGED <<peer, queue, pc, want, wire, buffer, sent, network>>
  BY DEF Open
<1>2. ToSet(queue') = {} /\ ToSet(buffer') = {}
  BY <1>1, EmptyIs DEF UdpInv, SessionEnds
<1>3. {e \in ToSet(wire') : e.to = port'} = {}
  BY <1>1
<1>4. Pending' = {}
  BY <1>2, <1>3, PendingIs DEF Pending, Ids
<1> QED
  BY <1>1, <1>4 DEF Abstract!Open

LEMMA CloseRefines == UdpInv /\ Close => [Abstract!Next]_(Abstract!vars)
<1> SUFFICES ASSUME UdpInv, Close, ~\E code : Refuse(code) PROVE Abstract!Close
  BY RefuseStutters DEF Abstract!Next
<1>1. /\ state = "open"
      /\ state' = "closed"
      /\ port' = NoPort /\ queue' = <<>> /\ peer' = NoPort
      /\ buffer' = <<>>
      /\ UNCHANGED <<pc, want, wire, sent, delivered, network>>
  BY DEF Close, Reset
<1>2. ToSet(queue') = {} /\ ToSet(buffer') = {}
  BY <1>1, EmptyIs
<1>3. \A e \in ToSet(wire') : e.to # port'
  BY <1>1, SetIs, FieldsOf, UdpAssumption DEF UdpInv, TypeOK
<1>4. Pending' = {}
  BY <1>2, <1>3 DEF Pending, Ids
<1> QED
  BY <1>1, <1>4 DEF Abstract!Close

LEMMA SendRefines ==
  ASSUME NEW size \in SendSize
  PROVE  UdpInv /\ Send(size) => [Abstract!Next]_(Abstract!vars)
<1> SUFFICES ASSUME UdpInv, Send(size), ~\E code : Refuse(code)
             PROVE  Abstract!Accept \/ UNCHANGED Abstract!vars
  BY RefuseStutters DEF Abstract!Next
<1> DEFINE d == [id |-> sent + 1, size |-> size, to |-> Peer]
<1>1. /\ state = "open"
      /\ ~TooLarge(size)
      /\ \/ UNCHANGED <<wire, sent>>
         \/ wire' = Append(wire, d) /\ sent' = sent + 1
      /\ UNCHANGED <<state, port, queue, want, buffer, delivered, network>>
  BY DEF Send
<1>2. /\ d.to = port
      /\ d.id = sent + 1
      /\ d \in Datagram
      /\ \A e \in ToSet(queue) \cup ToSet(buffer) \cup ToSet(wire) : e.id # d.id
  BY <1>1, SentIs
<1> HIDE DEF d
<1>3. CASE UNCHANGED <<wire, sent>>
  BY <1>1, <1>3 DEF Abstract!vars, Pending, Ids
<1>4. CASE wire' = Append(wire, d) /\ sent' = sent + 1
  <2>1. ToSet(wire') = ToSet(wire) \cup {d}
    <3>1. wire \in Seq(Datagram) /\ Apart(wire) /\ NoneShared(ToSet(wire), {d})
      BY <1>2 DEF UdpInv, TypeOK, OnePlaceEach, NoneShared
    <3> QED
      BY <1>2, <1>4, <3>1, AppendIs
  <2>2. Pending' = Pending \cup {sent + 1}
    BY <1>1, <1>2, <2>1 DEF Pending, Ids
  <2>3. sent \in Nat
    BY DEF UdpInv, TypeOK
  <2> QED
    BY <1>1, <1>4, <2>2, <2>3 DEF Abstract!Accept
<1> QED
  BY <1>1, <1>3, <1>4

(* A held datagram leaves its place: it is handed over or lost.            *)
LEMMA TakenRefines ==
  ASSUME state = "open", NEW d, d.id \in Pending,
         Pending' = Pending \ {d.id},
         UNCHANGED <<state, sent>>,
         delivered' \in {delivered, delivered \cup {d.id}}
  PROVE  Abstract!Next
<1>1. CASE delivered' = delivered
  BY <1>1 DEF Abstract!Next, Abstract!Lose
<1>2. CASE delivered' = delivered \cup {d.id}
  <2>1. /\ {d.id} \in SUBSET Pending
        /\ FALSE => \A u \in {d.id}, v \in Pending \ {d.id} : u < v
        /\ delivered' = delivered \cup {d.id}
        /\ Pending' = Pending \ {d.id}
    BY <1>2
  <2>2. Abstract!Deliver
    BY <2>1 DEF Abstract!Deliver
  <2> QED
    BY <2>2 DEF Abstract!Next
<1> QED
  BY <1>1, <1>2

LEMMA RecvRefines ==
  ASSUME NEW size \in RecvSize
  PROVE  UdpInv /\ Recv(size) => [Abstract!Next]_(Abstract!vars)
<1> SUFFICES ASSUME UdpInv, Recv(size), ~\E code : Refuse(code)
             PROVE  Abstract!Next \/ UNCHANGED Abstract!vars
  BY RefuseStutters
<1> DEFINE d == Head(queue)
<1>1. /\ state = "open"
      /\ \/ UNCHANGED <<queue, delivered>>
         \/ /\ queue # <<>>
            /\ queue' = Tail(queue)
            /\ delivered' \in {delivered, delivered \cup {d.id}}
      /\ UNCHANGED <<state, port, peer, wire, buffer, sent, network>>
  BY DEF Recv, Hand
<1> HIDE DEF d
<1>2. CASE UNCHANGED <<queue, delivered>>
  BY <1>1, <1>2 DEF Abstract!vars, Pending, Ids
<1>3. CASE /\ queue # <<>>
           /\ queue' = Tail(queue)
           /\ delivered' \in {delivered, delivered \cup {d.id}}
  <2>1. /\ ToSet(queue') = ToSet(queue) \ {d}
        /\ NoneShared(ToSet(queue'), {d})
        /\ d \in ToSet(queue)
    BY <1>3, TailIs DEF UdpInv, TypeOK, OnePlaceEach, d
  <2>2. d \notin ToSet(buffer) \cup ToSet(wire)
    BY <2>1 DEF UdpInv, OnePlaceEach, NoneShared
  <2> DEFINE S == Held(ToSet(queue), ToSet(buffer), ToSet(wire), port)
  <2>3. /\ d \in S
        /\ S \ {d} = Held(ToSet(queue'), ToSet(buffer'), ToSet(wire'), port')
    BY <1>1, <2>1, <2>2 DEF Held
  <2>4. NoneShared(S \ {d}, {d})
    BY <2>1, HeldApart DEF S
  <2> HIDE DEF S
  <2>5. Numbers(S \ {d}) = Numbers(S) \ {d.id} /\ d.id \in Numbers(S)
    BY <2>3, <2>4, NumbersTaken
  <2>6. Pending = Numbers(S) /\ Pending' = Numbers(S \ {d})
    BY <2>3, PendingIs DEF S, Pending, Ids, Numbers, Held
  <2> QED
    BY <1>1, <1>3, <2>5, <2>6, TakenRefines
<1> QED
  BY <1>1, <1>2, <1>3

(* A recvfrom moves a datagram from the buffer to the queue, or to the     *)
(* caller, or it is lost because it is empty.                              *)
LEMMA SendEchoRefines == UdpInv /\ SendEcho => [Abstract!Next]_(Abstract!vars)
<1> SUFFICES ASSUME UdpInv, SendEcho PROVE Abstract!Next \/ UNCHANGED Abstract!vars
  OBVIOUS
<1> DEFINE d == Head(buffer)
<1>1. /\ buffer # <<>> /\ buffer' = Tail(buffer)
      /\ queue' = IF d.size > 0 THEN Append(queue, d) ELSE queue
      /\ UNCHANGED <<state, port, wire, sent, delivered>>
  BY DEF SendEcho, QueueWithEcho
<1>2. /\ ToSet(buffer') = ToSet(buffer) \ {d}
      /\ d \in Datagram
      /\ d \in ToSet(buffer)
  BY <1>1, BufferTaken
<1>3. queue \in Seq(Datagram) /\ Apart(queue) /\ NoneShared(ToSet(queue), {d})
  BY <1>2 DEF UdpInv, TypeOK, OnePlaceEach, NoneShared
<1> HIDE DEF d
<1>4. CASE d.size > 0
  <2>1. ToSet(queue') = ToSet(queue) \cup {d}
    BY <1>1, <1>2, <1>3, <1>4, AppendIs
  <2>2. Pending' = Pending
    BY <1>1, <1>2, <2>1 DEF Pending, Ids
  <2> QED
    BY <1>1, <2>2 DEF Abstract!vars
<1>5. CASE ~(d.size > 0)
  <2>1. Pending' \subseteq Pending
    BY <1>1, <1>2, <1>5 DEF Pending, Ids
  <2> QED
    BY <1>1, <2>1 DEF Abstract!Next, Abstract!Lose
<1> QED
  BY <1>4, <1>5

LEMMA RecvArrivedRefines == UdpInv /\ RecvArrived => [Abstract!Next]_(Abstract!vars)
<1> SUFFICES ASSUME UdpInv, RecvArrived PROVE Abstract!Next
  OBVIOUS
<1> DEFINE d == Head(buffer)
<1>1. /\ state = "open"
      /\ buffer # <<>> /\ buffer' = Tail(buffer)
      /\ delivered' \in {delivered, delivered \cup {d.id}}
      /\ UNCHANGED <<state, port, queue, wire, sent>>
  BY DEF RecvArrived, Hand, UdpInv, SessionEnds, TypeOK
<1>2. /\ ToSet(buffer') = ToSet(buffer) \ {d}
      /\ d \in ToSet(buffer)
  BY <1>1, BufferTaken
<1> HIDE DEF d
<1>3. d \notin ToSet(queue) \cup ToSet(wire)
  BY <1>2 DEF UdpInv, OnePlaceEach, NoneShared
<1> DEFINE S == Held(ToSet(queue), ToSet(buffer), ToSet(wire), port)
<1>4. /\ d \in S
      /\ S \ {d} = Held(ToSet(queue'), ToSet(buffer'), ToSet(wire'), port')
  BY <1>1, <1>2, <1>3 DEF Held
<1>5. NoneShared(S \ {d}, {d})
  BY <1>2, HeldApart DEF S
<1> HIDE DEF S
<1>6. Numbers(S \ {d}) = Numbers(S) \ {d.id} /\ d.id \in Numbers(S)
  BY <1>4, <1>5, NumbersTaken
<1>7. Pending = Numbers(S) /\ Pending' = Numbers(S \ {d})
  BY <1>4, PendingIs DEF S, Pending, Ids, Numbers, Held
<1> QED
  BY <1>1, <1>6, <1>7, TakenRefines

LEMMA NothingRefines == SendNoEcho \/ RecvNothing => UNCHANGED Abstract!vars
  BY DEF SendNoEcho, RecvNothing, netVars, ghostVars, Abstract!vars, Pending, Ids

(* The network moves a datagram of this session to its socket, or loses it; *)
(* one of an earlier session it can only lose, and nobody counts on it.    *)
LEMMA NetworkRefines == UdpInv /\ Network => [Abstract!Next]_(Abstract!vars)
<1> SUFFICES ASSUME UdpInv, NEW i \in DOMAIN wire, Arrive(i) \/ Drop(i)
             PROVE  Abstract!Next
  BY DEF Network
<1> DEFINE d == wire[i]
<1>1. /\ wire' = RemoveAt(wire, i)
      /\ buffer' = buffer \/ (buffer' = Append(buffer, d) /\ d.to = port)
      /\ UNCHANGED <<state, port, queue, sent, delivered>>
  BY DEF Arrive, Drop, ghostVars
<1>2. /\ ToSet(wire') = ToSet(wire) \ {d}
      /\ d \in ToSet(wire)
      /\ d \in Datagram
  BY <1>1, WireTaken
<1> HIDE DEF d
<1>3. buffer' = buffer \/ (ToSet(buffer') = ToSet(buffer) \cup {d} /\ d.to = port)
  <2>1. buffer \in Seq(Datagram) /\ Apart(buffer) /\ NoneShared(ToSet(buffer), {d})
    BY <1>2 DEF UdpInv, TypeOK, OnePlaceEach, NoneShared
  <2> QED
    BY <1>1, <1>2, <2>1, AppendIs
<1>4. Pending' \subseteq Pending
  BY <1>1, <1>2, <1>3 DEF Pending, Ids
<1> QED
  BY <1>1, <1>4 DEF Abstract!Next, Abstract!Lose

LEMMA UdpRefinesStep == UdpInv /\ [Next]_vars => [Abstract!Next]_(Abstract!vars)
<1> SUFFICES ASSUME UdpInv, [Next]_vars PROVE [Abstract!Next]_(Abstract!vars)
  OBVIOUS
<1>1. CASE Next
  BY <1>1, OpenRefines, CloseRefines, SendRefines, RecvRefines, SendEchoRefines,
     RecvArrivedRefines, NothingRefines, NetworkRefines DEF Next
<1>2. CASE UNCHANGED vars
  BY <1>2 DEF vars, Abstract!vars, Pending, Ids
<1> QED
  BY <1>1, <1>2

(* The datagram transport is a channel: the recvfrom at the end of send()  *)
(* and the queue it fills neither repeat a datagram nor carry one over a   *)
(* close(), whatever the network reorders or loses.                        *)
THEOREM UdpImplementsChannel == Spec => ImplementsChannel
<1>1. Init => Abstract!Init
  BY UdpRefinesInit
<1>2. UdpInv /\ [Next]_vars => [Abstract!Next]_(Abstract!vars)
  BY UdpRefinesStep
<1> QED
  BY <1>1, <1>2, UdpInvariant, PTL DEF Spec, Abstract!Spec, ImplementsChannel

----------------------------------------------------------------------------

(* The order of a network that keeps it: the datagrams of each place in    *)
(* ascending order, those in the queue below those in the buffer, these    *)
(* below those on the wire, and all above what recv() has returned.        *)
Ascending(s) == \A i, j \in 1 .. Len(s) : i < j => s[i].id < s[j].id
Below(S, T) == \A d \in S, e \in T : d.id < e.id
BelowAll(us, S) == \A u \in us, d \in S : u < d.id

PlacesInOrder ==
  /\ Ascending(queue) /\ Ascending(buffer) /\ Ascending(wire)
  /\ Below(ToSet(queue), ToSet(buffer))
  /\ Below(ToSet(queue), ToSet(wire))
  /\ Below(ToSet(buffer), ToSet(wire))
  /\ BelowAll(delivered, ToSet(queue) \cup ToSet(buffer) \cup ToSet(wire))
  /\ delivered \subseteq 1 .. sent
  /\ pc = "recv" => queue = <<>>

OrderInv == network = "fifo" => PlacesInOrder

LEMMA AppendAscends ==
  ASSUME NEW s \in Seq(Datagram), Ascending(s), NEW d \in Datagram, Below(ToSet(s), {d})
  PROVE  Ascending(Append(s, d))
<1>1. /\ Len(s) \in Nat
      /\ Len(Append(s, d)) = Len(s) + 1
      /\ \A i \in 1 .. Len(s) : Append(s, d)[i] = s[i]
      /\ Append(s, d)[Len(s) + 1] = d
  OBVIOUS
<1>2. \A i \in 1 .. Len(s) : s[i].id < d.id
  BY SetIs DEF Below
<1> DEFINE t == Append(s, d)
<1> HIDE DEF t
<1> SUFFICES ASSUME NEW i \in 1 .. Len(t), NEW j \in 1 .. Len(t), i < j
             PROVE  t[i].id < t[j].id
  BY DEF Ascending, t
<1>3. i \in 1 .. Len(s) /\ (j \in 1 .. Len(s) \/ j = Len(s) + 1)
  BY <1>1 DEF t
<1>4. CASE j \in 1 .. Len(s)
  BY <1>1, <1>3, <1>4 DEF Ascending, t
<1>5. CASE j = Len(s) + 1
  BY <1>1, <1>2, <1>3, <1>5 DEF t
<1> QED
  BY <1>3, <1>4, <1>5

LEMMA RemovedAscends ==
  ASSUME NEW s \in Seq(Datagram), Ascending(s), NEW k \in 1 .. Len(s)
  PROVE  Ascending(RemoveAt(s, k))
<1> DEFINE t == RemoveAt(s, k)
<1>1. /\ Len(s) \in Nat \ {0}
      /\ Len(t) = Len(s) - 1
      /\ \A i \in 1 .. Len(s) - 1 : t[i] = s[From(i, k)]
  BY RemovedFrom
<1> HIDE DEF t
<1> SUFFICES ASSUME NEW i \in 1 .. Len(s) - 1, NEW j \in 1 .. Len(s) - 1, i < j
             PROVE  t[i].id < t[j].id
  BY <1>1 DEF Ascending, t
<1>2. From(i, k) \in 1 .. Len(s) /\ From(j, k) \in 1 .. Len(s) /\ From(i, k) < From(j, k)
  BY <1>1 DEF From
<1> QED
  BY <1>1, <1>2 DEF Ascending

LEMMA TailAscends ==
  ASSUME NEW s \in Seq(Datagram), Ascending(s), s # <<>>
  PROVE  Ascending(Tail(s))
<1> DEFINE t == Tail(s)
<1>1. /\ Len(s) \in Nat \ {0}
      /\ Len(t) = Len(s) - 1
      /\ \A i \in 1 .. Len(s) - 1 : t[i] = s[i + 1]
  OBVIOUS
<1> HIDE DEF t
<1> SUFFICES ASSUME NEW i \in 1 .. Len(s) - 1, NEW j \in 1 .. Len(s) - 1, i < j
             PROVE  t[i].id < t[j].id
  BY <1>1 DEF Ascending, t
<1>2. i + 1 \in 1 .. Len(s) /\ j + 1 \in 1 .. Len(s) /\ i + 1 < j + 1
  BY <1>1
<1> QED
  BY <1>1, <1>2 DEF Ascending

LEMMA FirstIsBelow ==
  ASSUME NEW s \in Seq(Datagram), Ascending(s), s # <<>>
  PROVE  Below({s[1]}, ToSet(s) \ {s[1]})
<1>1. /\ Len(s) \in Nat \ {0}
      /\ ToSet(s) = {s[i] : i \in 1 .. Len(s)}
  BY SetIs
<1>2. ASSUME NEW e \in ToSet(s), e # s[1] PROVE s[1].id < e.id
  <2>1. PICK j \in 1 .. Len(s) : e = s[j]
    BY <1>1
  <2>2. 1 \in 1 .. Len(s) /\ 1 < j
    BY <1>1, <1>2, <2>1
  <2> QED
    BY <2>1, <2>2 DEF Ascending
<1> QED
  BY <1>2 DEF Below

LEMMA OrderInit == Init => OrderInv
<1> SUFFICES ASSUME Init PROVE PlacesInOrder
  BY DEF OrderInv
<1>1. Ascending(<<>>)
  BY DEF Ascending
<1> QED
  BY <1>1, EmptyIs DEF Init, PlacesInOrder, Below, BelowAll

LEMMA NumbersAre ==
  ASSUME UdpInv, NEW d \in ToSet(queue) \cup ToSet(buffer) \cup ToSet(wire)
  PROVE  d \in Datagram /\ d.id \in Nat
<1>1. queue \in Seq(Datagram) /\ buffer \in Seq(Datagram) /\ wire \in Seq(Datagram)
  BY DEF UdpInv, TypeOK
<1>2. d \in Datagram
  BY <1>1, SetIs
<1> QED
  BY <1>2, FieldsOf

LEMMA OpenInOrder == UdpInv /\ PlacesInOrder /\ (Open \/ Close) => PlacesInOrder'
<1> SUFFICES ASSUME UdpInv, PlacesInOrder, Open \/ Close PROVE PlacesInOrder'
  OBVIOUS
<1>1. CASE \E code : Refuse(code)
  BY <1>1 DEF Refuse, PlacesInOrder
<1>2. CASE ~(\E code : Refuse(code)) /\ Open
  <2>1. /\ delivered' = {}
        /\ UNCHANGED <<queue, pc, wire, buffer, sent>>
    BY <1>2 DEF Open
  <2> QED
    BY <2>1 DEF PlacesInOrder, BelowAll
<1>3. CASE ~(\E code : Refuse(code)) /\ Close
  <2>1. /\ queue' = <<>> /\ buffer' = <<>>
        /\ UNCHANGED <<pc, wire, delivered, sent>>
    BY <1>3 DEF Close, Reset
  <2>2. Ascending(<<>>)
    BY DEF Ascending
  <2> QED
    BY <2>1, <2>2, EmptyIs DEF PlacesInOrder, Below, BelowAll
<1> QED
  BY <1>1, <1>2, <1>3

LEMMA SendInOrder ==
  ASSUME NEW size \in SendSize
  PROVE  UdpInv /\ PlacesInOrder /\ Send(size) => PlacesInOrder'
<1> SUFFICES ASSUME UdpInv, PlacesInOrder, Send(size) PROVE PlacesInOrder'
  OBVIOUS
<1>1. CASE \E code : Refuse(code)
  BY <1>1 DEF Refuse, PlacesInOrder
<1>2. CASE ~\E code : Refuse(code)
  <2> DEFINE d == [id |-> sent + 1, size |-> size, to |-> Peer]
  <2>1. /\ state = "open"
        /\ ~TooLarge(size)
        /\ pc' # "recv" \/ UNCHANGED pc
        /\ \/ UNCHANGED <<wire, sent>>
           \/ wire' = Append(wire, d) /\ sent' = sent + 1
        /\ UNCHANGED <<queue, buffer, delivered>>
    BY <1>2 DEF Send
  <2>2. d \in Datagram /\ d.id = sent + 1
    BY <2>1, SentIs
  <2> HIDE DEF d
  <2>3. /\ sent \in Nat
        /\ \A e \in ToSet(queue) \cup ToSet(buffer) \cup ToSet(wire) : e.id \in 1 .. sent
        /\ delivered \subseteq 1 .. sent
    BY DEF UdpInv, TypeOK, OnePlaceEach, PlacesInOrder
  <2>4. Below(ToSet(queue) \cup ToSet(buffer) \cup ToSet(wire), {d})
    BY <2>2, <2>3 DEF Below
  <2>5. CASE UNCHANGED <<wire, sent>>
    BY <2>1, <2>5 DEF PlacesInOrder
  <2>6. CASE wire' = Append(wire, d) /\ sent' = sent + 1
    <3>1. wire \in Seq(Datagram) /\ Apart(wire) /\ NoneShared(ToSet(wire), {d})
      BY <2>2, <2>3 DEF UdpInv, TypeOK, OnePlaceEach, NoneShared
    <3>2. ToSet(wire') = ToSet(wire) \cup {d}
      BY <2>2, <2>6, <3>1, AppendIs
    <3>3. Ascending(wire')
      BY <2>2, <2>4, <2>6, <3>1, AppendAscends DEF PlacesInOrder, Below
    <3>4. BelowAll(delivered, {d})
      BY <2>2, <2>3 DEF BelowAll
    <3>5. delivered' \subseteq 1 .. sent'
      BY <2>1, <2>3, <2>6
    <3>6. UNCHANGED <<queue, buffer, delivered>> /\ (pc' # "recv" \/ UNCHANGED pc)
      BY <2>1
    <3> QED
      BY <2>4, <3>2, <3>3, <3>4, <3>5, <3>6 DEF PlacesInOrder, Below, BelowAll
  <2> QED
    BY <2>1, <2>5, <2>6
<1> QED
  BY <1>1, <1>2

LEMMA SendEchoInOrder == UdpInv /\ PlacesInOrder /\ SendEcho => PlacesInOrder'
<1> SUFFICES ASSUME UdpInv, PlacesInOrder, SendEcho PROVE PlacesInOrder'
  OBVIOUS
<1> DEFINE d == Head(buffer)
<1>1. /\ buffer # <<>> /\ buffer' = Tail(buffer)
      /\ queue' = IF d.size > 0 THEN Append(queue, d) ELSE queue
      /\ pc' = "idle"
      /\ UNCHANGED <<wire, sent, delivered>>
  BY DEF SendEcho, QueueWithEcho
<1>2. /\ ToSet(buffer') = ToSet(buffer) \ {d}
      /\ d \in Datagram
      /\ d \in ToSet(buffer)
  BY <1>1, BufferTaken
<1>3. /\ Ascending(buffer')
      /\ Below({d}, ToSet(buffer'))
  <2>1. buffer \in Seq(Datagram) /\ Ascending(buffer) /\ d = buffer[1]
    BY <1>1 DEF UdpInv, TypeOK, PlacesInOrder
  <2> QED
    BY <1>1, <1>2, <2>1, TailAscends, FirstIsBelow
<1> HIDE DEF d
<1>4. queue \in Seq(Datagram) /\ Apart(queue) /\ NoneShared(ToSet(queue), {d})
  BY <1>2 DEF UdpInv, TypeOK, OnePlaceEach, NoneShared
<1>5. Ascending(queue) /\ Below(ToSet(queue), {d})
  BY <1>2 DEF PlacesInOrder, Below
<1>6. /\ Ascending(queue')
      /\ ToSet(queue') \subseteq ToSet(queue) \cup {d}
  <2>1. CASE d.size > 0
    BY <1>1, <1>2, <1>4, <1>5, <2>1, AppendIs, AppendAscends
  <2>2. CASE ~(d.size > 0)
    BY <1>1, <1>5, <2>2
  <2> QED
    BY <2>1, <2>2
<1> QED
  BY <1>1, <1>2, <1>3, <1>6 DEF PlacesInOrder, Below, BelowAll

(* What recv() hands over is below whatever waits.                         *)
LEMMA HandInOrder ==
  ASSUME UdpInv, PlacesInOrder, NEW d \in ToSet(queue) \cup ToSet(buffer),
         delivered' \in {delivered, delivered \cup {d.id}},
         UNCHANGED <<wire, sent>>,
         ToSet(queue') \subseteq ToSet(queue), ToSet(buffer') \subseteq ToSet(buffer),
         Below({d}, ToSet(queue') \cup ToSet(buffer') \cup ToSet(wire'))
  PROVE  /\ delivered' \subseteq 1 .. sent'
         /\ BelowAll(delivered', ToSet(queue') \cup ToSet(buffer') \cup ToSet(wire'))
<1>1. d.id \in 1 .. sent
  BY DEF UdpInv, OnePlaceEach
<1> QED
  BY <1>1 DEF PlacesInOrder, Below, BelowAll

LEMMA RecvInOrder ==
  ASSUME NEW size \in RecvSize
  PROVE  UdpInv /\ PlacesInOrder /\ Recv(size) => PlacesInOrder'
<1> SUFFICES ASSUME UdpInv, PlacesInOrder, Recv(size) PROVE PlacesInOrder'
  OBVIOUS
<1>1. CASE \E code : Refuse(code)
  BY <1>1 DEF Refuse, PlacesInOrder
<1>2. CASE ~\E code : Refuse(code)
  <2> DEFINE d == Head(queue)
  <2>1. /\ \/ queue = <<>> /\ UNCHANGED <<queue, delivered>>
           \/ /\ queue # <<>>
              /\ queue' = Tail(queue)
              /\ delivered' \in {delivered, delivered \cup {d.id}}
              /\ pc' = "idle"
        /\ UNCHANGED <<wire, buffer, sent>>
    BY <1>2 DEF Recv, AskSocket, Hand
  <2>2. CASE queue = <<>> /\ UNCHANGED <<queue, delivered>>
    BY <2>1, <2>2 DEF PlacesInOrder
  <2>3. CASE /\ queue # <<>>
             /\ queue' = Tail(queue)
             /\ delivered' \in {delivered, delivered \cup {d.id}}
             /\ pc' = "idle"
    <3>1. /\ ToSet(queue') = ToSet(queue) \ {d}
          /\ d \in ToSet(queue)
      BY <2>3, TailIs DEF UdpInv, TypeOK, OnePlaceEach
    <3>2. Ascending(queue') /\ Below({d}, ToSet(queue'))
      <4>1. queue \in Seq(Datagram) /\ Ascending(queue) /\ d = queue[1]
        BY <2>3 DEF UdpInv, TypeOK, PlacesInOrder
      <4> QED
        BY <2>3, <3>1, <4>1, TailAscends, FirstIsBelow
    <3> HIDE DEF d
    <3>3. Below({d}, ToSet(queue') \cup ToSet(buffer') \cup ToSet(wire'))
      BY <2>1, <3>1, <3>2 DEF PlacesInOrder, Below
    <3>4. /\ delivered' \subseteq 1 .. sent'
          /\ BelowAll(delivered', ToSet(queue') \cup ToSet(buffer') \cup ToSet(wire'))
      BY <2>1, <2>3, <3>1, <3>3, HandInOrder
    <3> QED
      BY <2>1, <2>3, <3>1, <3>2, <3>4 DEF PlacesInOrder, Below
  <2> QED
    BY <2>1, <2>2, <2>3
<1> QED
  BY <1>1, <1>2

LEMMA RecvArrivedInOrder == UdpInv /\ PlacesInOrder /\ RecvArrived => PlacesInOrder'
<1> SUFFICES ASSUME UdpInv, PlacesInOrder, RecvArrived PROVE PlacesInOrder'
  OBVIOUS
<1> DEFINE d == Head(buffer)
<1>1. /\ queue = <<>>
      /\ buffer # <<>> /\ buffer' = Tail(buffer)
      /\ delivered' \in {delivered, delivered \cup {d.id}}
      /\ pc' = "idle"
      /\ UNCHANGED <<queue, wire, sent>>
  BY DEF RecvArrived, Hand, PlacesInOrder
<1>2. /\ ToSet(buffer') = ToSet(buffer) \ {d}
      /\ d \in ToSet(buffer)
  BY <1>1, BufferTaken
<1>3. Ascending(buffer') /\ Below({d}, ToSet(buffer'))
  <2>1. buffer \in Seq(Datagram) /\ Ascending(buffer) /\ d = buffer[1]
    BY <1>1 DEF UdpInv, TypeOK, PlacesInOrder
  <2> QED
    BY <1>1, <1>2, <2>1, TailAscends, FirstIsBelow
<1> HIDE DEF d
<1>4. ToSet(queue') = {}
  BY <1>1, EmptyIs
<1>5. Below({d}, ToSet(queue') \cup ToSet(buffer') \cup ToSet(wire'))
  BY <1>1, <1>2, <1>3, <1>4 DEF PlacesInOrder, Below
<1>6. /\ delivered' \subseteq 1 .. sent'
      /\ BelowAll(delivered', ToSet(queue') \cup ToSet(buffer') \cup ToSet(wire'))
  BY <1>1, <1>2, <1>4, <1>5, HandInOrder
<1> QED
  BY <1>1, <1>2, <1>3, <1>4, <1>6 DEF PlacesInOrder, Below

LEMMA NothingInOrder == PlacesInOrder /\ (SendNoEcho \/ RecvNothing) => PlacesInOrder'
  BY DEF PlacesInOrder, SendNoEcho, RecvNothing, netVars, ghostVars

LEMMA NetworkInOrder ==
  UdpInv /\ network = "fifo" /\ PlacesInOrder /\ Network => PlacesInOrder'
<1> SUFFICES ASSUME UdpInv, network = "fifo", PlacesInOrder,
                    NEW i \in DOMAIN wire, Arrive(i) \/ Drop(i)
             PROVE  PlacesInOrder'
  BY DEF Network
<1> DEFINE d == wire[i]
<1>1. /\ wire' = RemoveAt(wire, i)
      /\ buffer' = buffer \/ (buffer' = Append(buffer, d) /\ i = 1)
      /\ UNCHANGED <<queue, pc, sent, delivered>>
  BY DEF Arrive, Drop, ghostVars
<1>2. /\ ToSet(wire') = ToSet(wire) \ {d}
      /\ d \in ToSet(wire)
      /\ d \in Datagram
  BY <1>1, WireTaken
<1>3. wire \in Seq(Datagram) /\ Ascending(wire) /\ i \in 1 .. Len(wire)
  BY DEF UdpInv, TypeOK, PlacesInOrder
<1>4. Ascending(wire')
  BY <1>1, <1>3, RemovedAscends
<1>5. i = 1 => Below({d}, ToSet(wire'))
  BY <1>2, <1>3, FirstIsBelow
<1> HIDE DEF d
<1>6. CASE buffer' = buffer
  BY <1>1, <1>2, <1>4, <1>6 DEF PlacesInOrder, Below, BelowAll
<1>7. CASE buffer' = Append(buffer, d) /\ i = 1
  <2>1. buffer \in Seq(Datagram) /\ Apart(buffer) /\ NoneShared(ToSet(buffer), {d})
    BY <1>2 DEF UdpInv, TypeOK, OnePlaceEach, NoneShared
  <2>2. ToSet(buffer') = ToSet(buffer) \cup {d}
    BY <1>2, <1>7, <2>1, AppendIs
  <2>3. Ascending(buffer) /\ Below(ToSet(buffer), {d})
    BY <1>2 DEF PlacesInOrder, Below
  <2>4. Ascending(buffer')
    BY <1>2, <1>7, <2>1, <2>3, AppendAscends
  <2> QED
    BY <1>1, <1>2, <1>4, <1>5, <1>7, <2>2, <2>4 DEF PlacesInOrder, Below, BelowAll
<1> QED
  BY <1>1, <1>6, <1>7

LEMMA OrderStep == UdpInv /\ OrderInv /\ [Next]_vars => OrderInv'
<1> SUFFICES ASSUME UdpInv, network' = "fifo", OrderInv, [Next]_vars PROVE PlacesInOrder'
  BY DEF OrderInv
<1>1. network = "fifo"
  BY DEF Next, vars, Open, Close, Send, Recv, Refuse, SendEcho, SendNoEcho, RecvArrived,
         RecvNothing, Network, Arrive, Drop, netVars
<1>2. PlacesInOrder
  BY <1>1 DEF OrderInv
<1>3. CASE Next
  BY <1>1, <1>2, <1>3, OpenInOrder, SendInOrder, RecvInOrder, SendEchoInOrder,
     RecvArrivedInOrder, NothingInOrder, NetworkInOrder DEF Next
<1>4. CASE UNCHANGED vars
  BY <1>2, <1>4 DEF vars, PlacesInOrder
<1> QED
  BY <1>3, <1>4

(* On a network that keeps the order so does the transport, although       *)
(* datagrams reach the caller of recv() by two ways: the socket is asked   *)
(* only when the queue is empty, and what send() takes out of the socket   *)
(* is older than all that stays in it.                                     *)
THEOREM UdpNoOvertaking == Spec => []NoOvertaking
<1>1. Init => OrderInv
  BY OrderInit
<1>2. UdpInv /\ OrderInv /\ [Next]_vars => OrderInv'
  BY OrderStep
<1>3. OrderInv => NoOvertaking
  BY DEF OrderInv, PlacesInOrder, BelowAll, NoOvertaking, Pending, Ids
<1> QED
  BY <1>1, <1>2, <1>3, UdpInvariant, PTL DEF Spec
=============================================================================
