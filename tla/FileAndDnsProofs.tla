-------------------------- MODULE FileAndDnsProofs --------------------------
(***************************************************************************)
(* The two transports that are no Channel, for all values of their         *)
(* constants.                                                              *)
(*                                                                         *)
(* The limiter of the DNS tunnel keeps queries apart, and every query is   *)
(* of one configuration.                                                   *)
(*                                                                         *)
(* Over the file transport, decode() gives back what encode() was given,   *)
(* for every framer and every length; a cut frame is refused where its     *)
(* length is in front, and with a checksum so is a mixture of frames.      *)
(***************************************************************************)
EXTENDS DnsTunnel, StoreAndForward, SequenceTheorems, WellFoundedInduction, TLAPS

----------------------------------------------------------------------------
(***************************************************************************)
(* The DNS tunnel.                                                         *)
(***************************************************************************)

(* An open tunnel sends to the server of the configuration it has.         *)
ServerIsConfigured == tunnel = "open" => server = config.name

(* The limiter remembers the query it let go last, whatever came between,  *)
(* and reads nothing else off a clock that nobody set.                     *)
RemembersLast == /\ age = since
                 /\ clock = "steady" => drift = 0

(* What has passed since the last query and what is left of the sleep make *)
(* up the interval, and behind it the least jitter as well.                *)
SleepsEnough ==
  since # Never /\ clock = "steady" =>
    /\ pc = "waiting" => since + left >= limits.interval
    /\ pc = "jitter" => since + left >= limits.interval + limits.minJitter

DnsInv == /\ TypeOK
          /\ ServerIsConfigured
          /\ OneConfiguration
          /\ RemembersLast
          /\ SleepsEnough

-----------------------------------------------------------------------------
(* What the numbers of a configuration are, and that all of them fit.      *)
LEMMA LimitsFit ==
  ASSUME NEW c \in Configs
  PROVE  /\ Limits(c).interval \in Nat
         /\ Limits(c).minJitter \in Nat
         /\ Limits(c).maxJitter \in Nat
         /\ Limits(c).interval + Limits(c).minJitter <= LongAgo
         /\ Limits(c).maxJitter <= LongAgo
  BY DnsAssumption DEF Limits

(* The wait is never more than the interval, and makes up for what is      *)
(* missing of it when nobody set the clock.                                *)
LEMMA WaitMakesUp ==
  ASSUME TypeOK, RemembersLast, tunnel = "open"
  PROVE  /\ Wait \in 0..LongAgo
         /\ since # Never /\ clock = "steady" => since + Wait >= limits.interval
<1>1. /\ limits.interval \in Nat
      /\ limits.interval <= LongAgo
      /\ LongAgo \in Nat /\ Never \notin Int
      /\ Second \in Nat
  BY LimitsFit, DnsAssumption DEF TypeOK
<1>2. /\ age \in 0..LongAgo \cup {Never}
      /\ drift \in {-Second, 0, Second}
      /\ age = since
      /\ clock = "steady" => drift = 0
  BY DEF TypeOK, RemembersLast
<1>3. CASE age = Never
  BY <1>1, <1>2, <1>3 DEF Wait
<1>4. CASE age # Never
  <2>1. age \in 0..LongAgo /\ drift \in Int /\ Elapsed = age + drift
    BY <1>1, <1>2, <1>4 DEF Elapsed
  <2>2. CASE Elapsed >= 0 /\ Elapsed < limits.interval
    BY <1>1, <1>2, <1>4, <2>1, <2>2 DEF Wait
  <2>3. CASE ~(Elapsed >= 0 /\ Elapsed < limits.interval)
    BY <1>1, <1>2, <1>4, <2>1, <2>3 DEF Wait
  <2> QED
    BY <2>2, <2>3
<1> QED
  BY <1>3, <1>4

(* A jitter is at least the least one and not beyond the bound.            *)
LEMMA JitterFits ==
  ASSUME TypeOK, tunnel = "open"
  PROVE  \A j \in Jitters : j \in 0..LongAgo /\ j >= limits.minJitter
  BY LimitsFit, DnsAssumption DEF TypeOK, Jitters

(* Time passes, up to the bound, beyond which nobody looks.                *)
LEMMA LaterIs ==
  ASSUME NEW t \in 0..LongAgo \cup {Never}
  PROVE  /\ Later(t) \in 0..LongAgo \cup {Never}
         /\ Later(t) = Never <=> t = Never
         /\ t # Never => Later(t) = t + 1 \/ Later(t) = LongAgo
  BY DnsAssumption DEF Later

(* A tunnel that was never opened.                                         *)
LEMMA DnsInit == Init => DnsInv
  BY DnsAssumption
  DEF Init, DnsInv, TypeOK, ServerIsConfigured, OneConfiguration, RemembersLast,
      SleepsEnough, Sizes, Datagrams, NoQuery

(* Configuring, opening and closing, none of which is done during a call.  *)
LEMMA DnsSession ==
  ASSUME DnsInv, (\E c \in Configs : Configure(c)) \/ Open \/ Close
  PROVE  DnsInv'
<1> USE DnsAssumption
    DEF DnsInv, TypeOK, ServerIsConfigured, OneConfiguration, RemembersLast, SleepsEnough,
        limiter, Return, ServerOfConfig
<1>1. CASE \E c \in Configs : Configure(c)
  BY <1>1 DEF Configure
<1>2. CASE Open
  <2>1. /\ pc = "idle" /\ pc' = "idle"
        /\ ret' \in {"OK", "ERR_IO"}
        /\ UNCHANGED <<config, age, drift, clock, since, size, left, inbox, query>>
    BY <1>2 DEF Open
  <2>2. CASE tunnel' = tunnel
    <3>1. /\ UNCHANGED <<limits, nextId, socket>>
          /\ tunnel = "open" => server' = server
      BY <1>2, <2>2 DEF Open
    <3> QED
      BY <2>1, <2>2, <3>1
  <2>3. CASE tunnel' # tunnel
    <3>1. /\ tunnel' = "open"
          /\ socket' = "open"
          /\ server' = config.name
          /\ limits' = Limits(config)
          /\ nextId' = 1
      BY <1>2, <2>3 DEF Open
    <3> QED
      BY <2>1, <3>1
  <2> QED
    BY <2>2, <2>3
<1>3. CASE Close
  BY <1>3 DEF Close
<1> QED
  BY <1>1, <1>2, <1>3

(* Sending, up to the wait.                                                *)
LEMMA DnsSend ==
  ASSUME DnsInv, (\E s \in Sizes : Send(s)) \/ Limit \/ Jitter
  PROVE  DnsInv'
<1> USE DnsAssumption
    DEF DnsInv, TypeOK, ServerIsConfigured, OneConfiguration, RemembersLast, SleepsEnough,
        limiter, Return
<1>1. CASE \E s \in Sizes : Send(s)
  BY <1>1 DEF Send
<1>2. CASE Limit
  BY <1>2, WaitMakesUp DEF Limit
<1>3. CASE Jitter
  BY <1>3, JitterFits, LimitsFit DEF Jitter, TakeTime, TakesTime
<1> QED
  BY <1>1, <1>2, <1>3

(* Letting the query go, building it and receiving.                        *)
LEMMA DnsCall ==
  ASSUME DnsInv, Release \/ Build \/ Recv \/ Received
  PROVE  DnsInv'
<1> USE DnsAssumption
    DEF DnsInv, TypeOK, ServerIsConfigured, OneConfiguration, RemembersLast, SleepsEnough,
        limiter, Return
<1>1. CASE Release
  BY <1>1 DEF Release, TakeTime, TakesTime
<1>2. CASE Build
  BY <1>2 DEF Build
<1>3. CASE Recv
  BY <1>3 DEF Recv
<1>4. CASE Received
  BY <1>4 DEF Received
<1> QED
  BY <1>1, <1>2, <1>3, <1>4

(* The rest of the world: time, the clock and the network.                 *)
LEMMA DnsWorld ==
  ASSUME DnsInv, Tick \/ SetClock \/ (\E d \in Datagrams : Arrive(d))
  PROVE  DnsInv'
<1> USE DnsAssumption
    DEF DnsInv, TypeOK, ServerIsConfigured, OneConfiguration, RemembersLast, SleepsEnough,
        limiter
<1>1. CASE Tick
  BY <1>1, LaterIs, LimitsFit DEF Tick
<1>2. CASE SetClock
  BY <1>2 DEF SetClock
<1>3. CASE \E d \in Datagrams : Arrive(d)
  BY <1>3 DEF Arrive
<1> QED
  BY <1>1, <1>2, <1>3

(* No step breaks the invariant, whatever the rates are and whoever sets   *)
(* the clock (the limiter and the two copies of the configuration).        *)
THEOREM DnsInvariant == Spec => []DnsInv
<1>1. Init => DnsInv
  BY DnsInit
<1>2. ASSUME DnsInv, [Next]_vars PROVE DnsInv'
  <2>1. CASE UNCHANGED vars
    BY <1>2, <2>1
    DEF vars, limiter, DnsInv, TypeOK, ServerIsConfigured, OneConfiguration, RemembersLast,
        SleepsEnough
  <2> QED
    BY <1>2, <2>1, DnsSession, DnsSend, DnsCall, DnsWorld DEF Next
<1> QED
  BY <1>1, <1>2, PTL DEF Spec

(* A query goes to the server of the configuration whose domain it         *)
(* carries: open() copies the one, build reads the other.                  *)
THEOREM DnsOneConfiguration == Spec => []OneConfiguration
  BY DnsInvariant, PTL DEF DnsInv

(* What the tunnel's variables are, for all bounds.                        *)
THEOREM DnsTypeOK == Spec => []TypeOK
  BY DnsInvariant, PTL DEF DnsInv

(* The interval and the least jitter pass between two queries unless the   *)
(* clock is set in between, although the limiter reads it only once.       *)
THEOREM DnsSpaced == Spec => Spaced
<1>1. ASSUME DnsInv
      PROVE  Release /\ since # Never /\ clock = "steady"
               => since >= limits.interval + limits.minJitter
  <2> SUFFICES ASSUME Release, since # Never, clock = "steady"
               PROVE  since >= limits.interval + limits.minJitter
    OBVIOUS
  <2>1. pc = "jitter" /\ left = 0
    BY DEF Release
  <2>2. since \in 0..LongAgo /\ since + left >= limits.interval + limits.minJitter
    BY <1>1, <2>1 DEF DnsInv, TypeOK, SleepsEnough
  <2> QED
    BY <2>1, <2>2, DnsAssumption
<1> QED
  BY <1>1, DnsInvariant, PTL DEF Spec, Spaced

----------------------------------------------------------------------------
(***************************************************************************)
(* The framers.                                                            *)
(***************************************************************************)

\* A set of numbers up to some bound has a greatest one.
LEMMA Greatest == ASSUME NEW n \in Nat, NEW M \in SUBSET (0..n), M # {}
                  PROVE  \E i \in M : \A j \in M : j <= i
<1> DEFINE T == {n - i : i \in M}
<1>1. T \subseteq Nat /\ T # {}
  <2>1. \A i \in M : i \in 0..n
    OBVIOUS
  <2>2. \A i \in M : n - i \in Nat
    BY <2>1
  <2> QED BY <2>2
<1>2. PICK x \in T : \A y \in T : <<y, x>> \notin OpToRel(<, Nat)
  <2> HIDE DEF T
  <2> QED BY <1>1, NatLessThanWellFounded, WFMin
<1>3. PICK i \in M : x = n - i
  OBVIOUS
<1>4. \A j \in M : j <= i
  <2> SUFFICES ASSUME NEW j \in M, i < j PROVE FALSE
    OBVIOUS
  <2>1. n - j \in T /\ n - j < x /\ n - j \in Nat /\ x \in Nat
    BY <1>3, <1>1
  <2>2. <<n - j, x>> \in OpToRel(<, Nat)
    BY <2>1 DEF OpToRel
  <2> QED BY <1>2, <2>1, <2>2
<1> QED BY <1>4

\* A recursion that looks only at what comes later has a solution: of the offsets
\* from which on it has none, there would be a last one.
\*
\* The library's theorems on recursion take an operator for the step, which no prover
\* here can instantiate, so the step is a function, of an offset and of what is known.
LooksAhead(step, n, V) ==
  /\ step \in [0..n -> [[0..n -> V] -> V]]
  /\ \A i \in 0..n : \A f, g \in [0..n -> V] :
        (\A j \in i + 1..n : f[j] = g[j]) => step[i][f] = step[i][g]

Solutions(step, n, V) == {f \in [0..n -> V] : \A i \in 0..n : f[i] = step[i][f]}

LEMMA Recursion ==
  ASSUME NEW n \in Nat, NEW V, V # {}, NEW step, LooksAhead(step, n, V)
  PROVE  Solutions(step, n, V) # {}
<1> SUFFICES \E f \in [0..n -> V] : \A i \in 0..n : f[i] = step[i][f]
  BY DEF Solutions
<1> USE DEF LooksAhead
<1> DEFINE Solved(i, f) == \A j \in i..n : f[j] = step[j][f]
           M == {i \in 0..n : \A f \in [0..n -> V] : ~Solved(i, f)}
<1>1. SUFFICES M = {}
  <2>1. 0 \notin M
    BY <1>1
  <2> QED BY <2>1
<1>2. SUFFICES ASSUME M # {} PROVE FALSE
  OBVIOUS
<1>3. M \in SUBSET (0..n)
  OBVIOUS
<1>4. PICK i \in M : \A j \in M : j <= i
  <2> HIDE DEF M
  <2> QED BY <1>2, <1>3, Greatest
<1>5. i \in 0..n
  BY <1>3
<1>6. PICK f \in [0..n -> V] : Solved(i + 1, f)
  <2>1. CASE i < n
    <3>1. i + 1 \in 0..n /\ i + 1 \notin M
      <4> HIDE DEF M
      <4> QED BY <1>4, <1>5, <2>1
    <3> HIDE DEF Solved
    <3> QED BY <3>1
  <2>2. CASE i = n
    <3>1. PICK v \in V : TRUE
      OBVIOUS
    <3>2. [k \in 0..n |-> v] \in [0..n -> V]
      BY <3>1
    <3>3. i + 1..n = {}
      BY <1>5, <2>2
    <3> QED BY <3>2, <3>3
  <2> QED BY <1>5, <2>1, <2>2
<1> DEFINE g == [f EXCEPT ![i] = step[i][f]]
<1>7. g \in [0..n -> V]
  BY <1>5
<1>8. \A j \in i + 1..n : g[j] = f[j]
  BY <1>5
<1>9. g[i] = step[i][f]
  BY <1>5
<1> HIDE DEF g
<1>10. \A j \in i..n : step[j][g] = step[j][f]
  <2> SUFFICES ASSUME NEW j \in i..n PROVE step[j][g] = step[j][f]
    OBVIOUS
  <2>1. j \in 0..n /\ \A k \in j + 1..n : g[k] = f[k]
    BY <1>5, <1>8
  <2> QED BY <1>7, <2>1
<1>11. Solved(i, g)
  <2> SUFFICES ASSUME NEW j \in i..n PROVE g[j] = step[j][g]
    OBVIOUS
  <2>1. CASE j = i
    BY <1>9, <1>10, <2>1
  <2>2. CASE j \in i + 1..n
    BY <1>6, <1>8, <1>10, <2>2
  <2> QED BY <1>5, <2>1, <2>2
<1> QED BY <1>7, <1>11

----------------------------------------------------------------------------
\* The units that framers write, by their kind.
Byte == [kind : {"byte"}, m : Nat, at : Nat]
HeaderUnit == [kind : {"length"}, m : Nat, n : Nat]
LineEndUnit == [kind : {"crlf"}, m : Nat]
SizeUnit == [kind : {"size"}, m : Nat, n : Nat]
ChecksumUnit == [kind : {"crc"}, m : Nat, of : Seq(Byte)]
Unit == Byte \cup HeaderUnit \cup LineEndUnit \cup SizeUnit \cup ChecksumUnit

\* What there is in a frame.
LEMMA UnitsAre ==
  /\ \A m, n \in Nat : Header(m, n) \in Unit /\ SizeLine(m, n) \in Unit
  /\ \A m \in Nat : LineEnd(m) \in Unit
  /\ \A m \in Nat, p \in Seq(Byte) : Checksum(m, p) \in Unit
  /\ \A u \in Unit : u.kind = "size" => u.n \in Nat
  /\ \A u \in Unit : u.m \in Nat
<1>1. \A m, n \in Nat : Header(m, n) \in HeaderUnit /\ SizeLine(m, n) \in SizeUnit
  BY DEF Header, SizeLine, HeaderUnit, SizeUnit
<1>2. \A m \in Nat : LineEnd(m) \in LineEndUnit
  BY DEF LineEnd, LineEndUnit
<1>3. \A m \in Nat, p \in Seq(Byte) : Checksum(m, p) \in ChecksumUnit
  BY DEF Checksum, ChecksumUnit
<1>4. \A u \in Unit : u.kind = "size" => u.n \in Nat
  <2>1. \A u \in Byte : u.kind = "byte"
    BY DEF Byte
  <2>2. \A u \in HeaderUnit : u.kind = "length"
    BY DEF HeaderUnit
  <2>3. \A u \in LineEndUnit : u.kind = "crlf"
    BY DEF LineEndUnit
  <2>4. \A u \in SizeUnit : u.n \in Nat
    BY DEF SizeUnit
  <2>5. \A u \in ChecksumUnit : u.kind = "crc"
    BY DEF ChecksumUnit
  <2> QED BY <2>1, <2>2, <2>3, <2>4, <2>5 DEF Unit
<1>5. \A u \in Unit : u.m \in Nat
  <2>1. \A u \in Byte : u.m \in Nat
    BY DEF Byte
  <2>2. \A u \in HeaderUnit : u.m \in Nat
    BY DEF HeaderUnit
  <2>3. \A u \in LineEndUnit : u.m \in Nat
    BY DEF LineEndUnit
  <2>4. \A u \in SizeUnit : u.m \in Nat
    BY DEF SizeUnit
  <2>5. \A u \in ChecksumUnit : u.m \in Nat
    BY DEF ChecksumUnit
  <2> QED BY <2>1, <2>2, <2>3, <2>4, <2>5 DEF Unit
<1> QED BY <1>1, <1>2, <1>3, <1>4, <1>5 DEF Unit

\* A payload is its bytes in order.
LEMMA PayloadIs ==
  ASSUME NEW m \in Nat, NEW n \in Nat
  PROVE  /\ Payload(m, n) \in Seq(Byte)
         /\ Payload(m, n) \in Seq(Unit)
         /\ Len(Payload(m, n)) = n
         /\ \A i \in 1..n : Payload(m, n)[i] = [kind |-> "byte", m |-> m, at |-> i]
<1>1. \A i \in 1..n : [kind |-> "byte", m |-> m, at |-> i] \in Byte
  BY DEF Byte
<1>2. Payload(m, n) \in [1..n -> Byte]
  BY <1>1 DEF Payload
<1>3. Payload(m, n) \in Seq(Byte) /\ Len(Payload(m, n)) = n
  BY <1>2
<1>4. Payload(m, n) \in Seq(Unit)
  BY <1>3, SeqMonotonic DEF Unit
<1> QED BY <1>3, <1>4 DEF Payload

\* Nothing left is the only reason for an empty chunk (MAX_CHUNK_SIZE is not zero).
LEMMA ChunkSizeIs == ASSUME NEW k \in Nat
                     PROVE  ChunkSize(k) \in 0..k /\ (ChunkSize(k) = 0 => k = 0)
BY FramersAssumption DEF ChunkSize

----------------------------------------------------------------------------
\* Two sequences, one after the other.
IsJoin(z, s, t) == /\ z \in Seq(Unit)
                   /\ Len(z) = Len(s) + Len(t)
                   /\ \A i \in 1..Len(s) : z[i] = s[i]
                   /\ \A i \in 1..Len(t) : z[Len(s) + i] = t[i]

LEMMA Joined ==
  ASSUME NEW s \in Seq(Unit), NEW t \in Seq(Unit)
  PROVE  IsJoin(s \o t, s, t)
<1>1. \A i \in 1..Len(s) + Len(t) : (s \o t)[i] = IF i <= Len(s) THEN s[i] ELSE t[i - Len(s)]
  BY ConcatProperties
<1> QED BY <1>1, ConcatProperties DEF IsJoin

\* A piece of a sequence.
IsPiece(z, s, i, n) == /\ z \in Seq(Unit)
                       /\ Len(z) = n
                       /\ \A k \in 1..n : z[k] = s[i + k]

LEMMA PieceOf ==
  ASSUME NEW s \in Seq(Unit), NEW i \in Nat, NEW n \in Nat, i + n <= Len(s)
  PROVE  IsPiece(SubSeq(s, i + 1, i + n), s, i, n)
BY DEF IsPiece

\* The end of a chunked frame, and one chunk with what follows it.
LastChunk(m) == <<SizeLine(m, 0), LineEnd(m), LineEnd(m)>>
OneChunk(m, n, part, rest) == <<SizeLine(m, n), LineEnd(m)>> \o part \o <<LineEnd(m)>> \o rest

\* Where what is in a frame that begins with a chunk.
IsChunk(c, m, n, part, rest) == /\ c \in Seq(Unit)
                                /\ Len(c) = n + 3 + Len(rest)
                                /\ c[1] = SizeLine(m, n)
                                /\ c[2] = LineEnd(m)
                                /\ c[n + 3] = LineEnd(m)
                                /\ \A i \in 1..n : c[i + 2] = part[i]
                                /\ \A i \in 1..Len(rest) : c[i + n + 3] = rest[i]

LEMMA OneChunkIs ==
  ASSUME NEW m \in Nat, NEW n \in Nat, NEW part \in Seq(Unit), NEW rest \in Seq(Unit),
         Len(part) = n
  PROVE  IsChunk(OneChunk(m, n, part, rest), m, n, part, rest)
<1> DEFINE a == <<SizeLine(m, n), LineEnd(m)>>
           b == <<LineEnd(m)>>
<1>1. SizeLine(m, n) \in Unit /\ LineEnd(m) \in Unit
  BY UnitsAre
<1>2. /\ a \in Seq(Unit) /\ Len(a) = 2 /\ a[1] = SizeLine(m, n) /\ a[2] = LineEnd(m)
      /\ b \in Seq(Unit) /\ Len(b) = 1 /\ b[1] = LineEnd(m)
  BY <1>1
<1> HIDE DEF a, b
<1> DEFINE x == a \o part
           y == x \o b
           z == y \o rest
<1>3. IsJoin(x, a, part)
  BY <1>2, Joined
<1> HIDE DEF x
<1>4. IsJoin(y, x, b)
  <2>1. x \in Seq(Unit)
    BY <1>3 DEF IsJoin
  <2> QED BY <1>2, <2>1, Joined
<1> HIDE DEF y
<1>5. IsJoin(z, y, rest)
  <2>1. y \in Seq(Unit)
    BY <1>4 DEF IsJoin
  <2> QED BY <2>1, Joined
<1>6. OneChunk(m, n, part, rest) = z
  BY DEF OneChunk, a, b, x, y
<1> HIDE DEF z
<1>7. Len(rest) \in Nat /\ Len(x) = n + 2 /\ Len(y) = n + 3
  BY <1>2, <1>3, <1>4 DEF IsJoin
<1>8. z \in Seq(Unit) /\ Len(z) = n + 3 + Len(rest)
  BY <1>5, <1>7 DEF IsJoin
<1>9. z[1] = SizeLine(m, n) /\ z[2] = LineEnd(m)
  BY <1>2, <1>3, <1>4, <1>5, <1>7 DEF IsJoin
<1>10. z[n + 3] = LineEnd(m)
  BY <1>2, <1>4, <1>5, <1>7 DEF IsJoin
<1>11. \A i \in 1..n : z[i + 2] = part[i]
  <2> SUFFICES ASSUME NEW i \in 1..n PROVE z[i + 2] = part[i]
    OBVIOUS
  <2>1. x[2 + i] = part[i]
    BY <1>2, <1>3 DEF IsJoin
  <2>2. y[2 + i] = x[2 + i]
    BY <1>4, <1>7 DEF IsJoin
  <2>3. z[2 + i] = y[2 + i]
    BY <1>5, <1>7 DEF IsJoin
  <2>4. 2 + i = i + 2
    OBVIOUS
  <2> QED BY <2>1, <2>2, <2>3, <2>4
<1>12. \A i \in 1..Len(rest) : z[i + n + 3] = rest[i]
  <2> SUFFICES ASSUME NEW i \in 1..Len(rest) PROVE z[i + n + 3] = rest[i]
    OBVIOUS
  <2>1. i + n + 3 = Len(y) + i
    BY <1>7
  <2>2. z[Len(y) + i] = rest[i]
    BY <1>5 DEF IsJoin
  <2> QED BY <2>1, <2>2, Zenon
<1> QED BY <1>6, <1>8, <1>9, <1>10, <1>11, <1>12 DEF IsChunk

\* The end is three units.
LEMMA LastChunkIs == ASSUME NEW m \in Nat
                     PROVE  LastChunk(m) \in Seq(Unit) /\ Len(LastChunk(m)) = 3
<1>1. SizeLine(m, 0) \in Unit /\ LineEnd(m) \in Unit
  BY UnitsAre
<1> QED BY <1>1 DEF LastChunk

----------------------------------------------------------------------------
\* The recursion of chunked_encode() is one that Recursion solves.
LEMMA ChunksFromIs ==
  ASSUME NEW m \in Nat, NEW payload \in Seq(Unit)
  PROVE  \A offset \in 0..Len(payload) :
            LET n == ChunkSize(Len(payload) - offset)
            IN  ChunksFrom(m, payload)[offset] =
                  IF n = 0 THEN LastChunk(m)
                  ELSE OneChunk(m, n, SubSeq(payload, offset + 1, offset + n),
                                ChunksFrom(m, payload)[offset + n])
<1> DEFINE L == Len(payload)
           V == Seq(Unit)
           n(offset) == ChunkSize(L - offset)
           body(offset, f) == IF n(offset) = 0 THEN LastChunk(m)
                              ELSE OneChunk(m, n(offset),
                                            SubSeq(payload, offset + 1, offset + n(offset)),
                                            f[offset + n(offset)])
           step == [offset \in 0..L |-> [f \in [0..L -> V] |-> body(offset, f)]]
<1>1. L \in Nat /\ V # {}
  OBVIOUS
<1>2. \A offset \in 0..L : /\ n(offset) \in Nat
                           /\ offset + n(offset) \in 0..L
                           /\ n(offset) # 0 => offset + n(offset) \in offset + 1..L
  <2> SUFFICES ASSUME NEW offset \in 0..L
               PROVE  /\ n(offset) \in Nat
                      /\ offset + n(offset) \in 0..L
                      /\ n(offset) # 0 => offset + n(offset) \in offset + 1..L
    OBVIOUS
  <2>1. L - offset \in Nat
    BY <1>1
  <2>2. n(offset) \in 0..L - offset
    BY <2>1, ChunkSizeIs
  <2> HIDE DEF n
  <2> QED BY <1>1, <2>2
<1>3. \A offset \in 0..L, f \in [0..L -> V] : body(offset, f) \in V
  <2> SUFFICES ASSUME NEW offset \in 0..L, NEW f \in [0..L -> V]
               PROVE  body(offset, f) \in V
    OBVIOUS
  <2>1. CASE n(offset) = 0
    BY <2>1, LastChunkIs
  <2>2. CASE n(offset) # 0
    <3> DEFINE part == SubSeq(payload, offset + 1, offset + n(offset))
    <3>1. part \in Seq(Unit) /\ Len(part) = n(offset)
      <4>1. n(offset) \in Nat /\ offset \in Nat /\ offset + n(offset) <= L
        <5> HIDE DEF n
        <5> QED BY <1>1, <1>2
      <4> HIDE DEF n
      <4>2. IsPiece(part, payload, offset, n(offset))
        BY <4>1, PieceOf
      <4> QED BY <4>2 DEF IsPiece
    <3>2. f[offset + n(offset)] \in Seq(Unit)
      BY <1>2
    <3>3. n(offset) \in Nat
      BY <1>2
    <3> HIDE DEF part, n
    <3>4. OneChunk(m, n(offset), part, f[offset + n(offset)]) \in Seq(Unit)
      BY <3>1, <3>2, <3>3, OneChunkIs DEF IsChunk
    <3> QED BY <2>2, <3>4 DEF part
  <2> QED BY <2>1, <2>2
<1>4. step \in [0..L -> [[0..L -> V] -> V]]
  BY <1>3
<1>5. \A i \in 0..L : \A f, g \in [0..L -> V] :
         (\A j \in i + 1..L : f[j] = g[j]) => step[i][f] = step[i][g]
  <2> SUFFICES ASSUME NEW i \in 0..L, NEW f \in [0..L -> V], NEW g \in [0..L -> V],
                      \A j \in i + 1..L : f[j] = g[j]
               PROVE  body(i, f) = body(i, g)
    OBVIOUS
  <2>1. n(i) # 0 => f[i + n(i)] = g[i + n(i)]
    BY <1>2
  <2> QED BY <2>1
<1>6. PICK f \in [0..L -> V] : \A i \in 0..L : f[i] = step[i][f]
  <2>1. LooksAhead(step, L, V)
    <3> HIDE DEF step
    <3> QED BY <1>4, <1>5 DEF LooksAhead
  <2> HIDE DEF step, V, L
  <2>2. Solutions(step, L, V) # {}
    BY <1>1, <2>1, Recursion
  <2> QED BY <2>2 DEF Solutions
<1>7. f = [offset \in 0..L |-> body(offset, f)]
  <2>1. \A i \in 0..L : f[i] = body(i, f)
    BY <1>6
  <2> HIDE DEF body
  <2> QED BY <2>1
<1>8. ChunksFrom(m, payload) = [offset \in 0..L |-> body(offset, ChunksFrom(m, payload))]
  <2> SUFFICES (CHOOSE g : g = [offset \in 0..L |-> body(offset, g)])
               = [offset \in 0..L |->
                    body(offset, CHOOSE g : g = [o \in 0..L |-> body(o, g)])]
    BY Zenon DEF ChunksFrom, LastChunk, OneChunk
  <2> HIDE DEF body
  <2> QED BY <1>7, Zenon
<1> HIDE DEF body
<1>9. \A offset \in 0..L : ChunksFrom(m, payload)[offset] = body(offset, ChunksFrom(m, payload))
  BY <1>8
<1> QED BY <1>9 DEF body

----------------------------------------------------------------------------
\* What the decoder makes of the rest of a frame that begins with a chunk of n bytes.
AfterSize(frame, offset, n, at) ==
  LET next == offset + 3 + n
  IN  IF ~IsLineEnd(frame, next) THEN Error
      ELSE IF n = 0 THEN IF next = Len(frame) THEN [code |-> "OK", payload |-> <<>>]
                         ELSE Error
      ELSE IF at[next] = Error THEN Error
      ELSE [code    |-> "OK",
            payload |-> SubSeq(frame, offset + 3, offset + 2 + n) \o at[next].payload]

\* What it makes of the rest of any frame.
AtOffset(frame, offset, at) ==
  IF offset = Len(frame) THEN [code |-> "OK", payload |-> <<>>]
  ELSE IF frame[offset + 1].kind # "size" \/ ~IsLineEnd(frame, offset + 2) THEN Error
  ELSE AfterSize(frame, offset, frame[offset + 1].n, at)

\* What chunked_decode() may return before it looks at the size of its buffer.
Results == {Error} \cup [code : {"OK"}, payload : Seq(Unit)]

LEMMA ResultsAre == /\ Error \in Results
                    /\ \A p \in Seq(Unit) : [code |-> "OK", payload |-> p] \in Results
                    /\ \A r \in Results : r # Error => r.payload \in Seq(Unit)
                    /\ [code |-> "OK", payload |-> <<>>] \in Results
<1>1. <<>> \in Seq(Unit)
  OBVIOUS
<1> QED BY <1>1 DEF Results

\* A chunk lies inside of the frame when the line end after it does.
LEMMA AfterSizeIs ==
  ASSUME NEW frame \in Seq(Unit), NEW offset \in 0..Len(frame), NEW n \in Nat,
         NEW at \in [0..Len(frame) -> Results]
  PROVE  AfterSize(frame, offset, n, at) \in Results
<1>1. CASE ~IsLineEnd(frame, offset + 3 + n) \/ n = 0
  BY <1>1, ResultsAre DEF AfterSize
<1>2. CASE IsLineEnd(frame, offset + 3 + n) /\ n # 0
  <2>1. offset + 3 + n \in 0..Len(frame)
    BY <1>2 DEF IsLineEnd
  <2>2. CASE at[offset + 3 + n] = Error
    BY <1>2, <2>2, ResultsAre DEF AfterSize
  <2>3. CASE at[offset + 3 + n] # Error
    <3>1. at[offset + 3 + n].payload \in Seq(Unit)
      BY <2>1, <2>3, ResultsAre
    <3>2. SubSeq(frame, offset + 3, offset + 2 + n) \in Seq(Unit)
      <4>1. offset + 2 \in Nat /\ (offset + 2) + n <= Len(frame)
        BY <2>1
      <4>2. IsPiece(SubSeq(frame, (offset + 2) + 1, (offset + 2) + n), frame, offset + 2, n)
        BY <4>1, PieceOf
      <4>3. (offset + 2) + 1 = offset + 3 /\ (offset + 2) + n = offset + 2 + n
        OBVIOUS
      <4> QED BY <4>2, <4>3 DEF IsPiece
    <3> DEFINE p == SubSeq(frame, offset + 3, offset + 2 + n) \o at[offset + 3 + n].payload
    <3>3. p \in Seq(Unit)
      BY <3>1, <3>2, ConcatProperties
    <3> HIDE DEF p
    <3>4. [code |-> "OK", payload |-> p] \in Results
      BY <3>3, ResultsAre
    <3> QED BY <1>2, <2>3, <3>4 DEF AfterSize, p
  <2> QED BY <2>2, <2>3
<1> QED BY <1>1, <1>2

\* Only what is behind the chunk is looked up.
LEMMA AfterSizeLooksAhead ==
  ASSUME NEW frame \in Seq(Unit), NEW offset \in 0..Len(frame), NEW n \in Nat,
         NEW f, NEW g, \A j \in offset + 1..Len(frame) : f[j] = g[j]
  PROVE  AfterSize(frame, offset, n, f) = AfterSize(frame, offset, n, g)
<1>1. IsLineEnd(frame, offset + 3 + n) => offset + 3 + n \in offset + 1..Len(frame)
  BY DEF IsLineEnd
<1>2. IsLineEnd(frame, offset + 3 + n) => f[offset + 3 + n] = g[offset + 3 + n]
  BY <1>1
<1> QED BY <1>2 DEF AfterSize

\* So is the recursion of chunked_decode().
LEMMA ChunksAtIs ==
  ASSUME NEW frame \in Seq(Unit)
  PROVE  \A offset \in 0..Len(frame) :
            ChunksAt(frame)[offset] = AtOffset(frame, offset, ChunksAt(frame))
<1> DEFINE L == Len(frame)
           step == [offset \in 0..L |-> [f \in [0..L -> Results] |-> AtOffset(frame, offset, f)]]
<1>1. L \in Nat /\ Results # {}
  BY ResultsAre
<1>2. \A offset \in 0..L : offset # L => frame[offset + 1] \in Unit
  BY <1>1
<1>3. \A offset \in 0..L, f \in [0..L -> Results] : AtOffset(frame, offset, f) \in Results
  <2> SUFFICES ASSUME NEW offset \in 0..L, NEW f \in [0..L -> Results]
               PROVE  AtOffset(frame, offset, f) \in Results
    OBVIOUS
  <2>1. CASE offset = L
    BY <2>1, ResultsAre DEF AtOffset
  <2>2. CASE offset # L /\ (frame[offset + 1].kind # "size" \/ ~IsLineEnd(frame, offset + 2))
    BY <2>2, ResultsAre DEF AtOffset
  <2>3. CASE offset # L /\ frame[offset + 1].kind = "size" /\ IsLineEnd(frame, offset + 2)
    <3>1. frame[offset + 1].n \in Nat
      BY <1>2, <2>3, UnitsAre
    <3>2. AfterSize(frame, offset, frame[offset + 1].n, f) \in Results
      BY <3>1, AfterSizeIs
    <3> QED BY <2>3, <3>2 DEF AtOffset
  <2> QED BY <2>1, <2>2, <2>3
<1>4. step \in [0..L -> [[0..L -> Results] -> Results]]
  BY <1>3
<1>5. \A i \in 0..L : \A f, g \in [0..L -> Results] :
         (\A j \in i + 1..L : f[j] = g[j]) => step[i][f] = step[i][g]
  <2> SUFFICES ASSUME NEW i \in 0..L, NEW f \in [0..L -> Results], NEW g \in [0..L -> Results],
                      \A j \in i + 1..L : f[j] = g[j]
               PROVE  AtOffset(frame, i, f) = AtOffset(frame, i, g)
    OBVIOUS
  <2>1. CASE i # L /\ frame[i + 1].kind = "size"
    <3>1. frame[i + 1].n \in Nat
      BY <1>2, <2>1, UnitsAre
    <3>2. AfterSize(frame, i, frame[i + 1].n, f) = AfterSize(frame, i, frame[i + 1].n, g)
      BY <3>1, AfterSizeLooksAhead
    <3> QED BY <3>2 DEF AtOffset
  <2>2. CASE ~(i # L /\ frame[i + 1].kind = "size")
    BY <2>2 DEF AtOffset
  <2> QED BY <2>1, <2>2
<1>6. PICK f \in [0..L -> Results] : \A i \in 0..L : f[i] = step[i][f]
  <2>1. LooksAhead(step, L, Results)
    <3> HIDE DEF step
    <3> QED BY <1>4, <1>5 DEF LooksAhead
  <2> HIDE DEF step, L
  <2>2. Solutions(step, L, Results) # {}
    BY <1>1, <2>1, Recursion
  <2> QED BY <2>2 DEF Solutions
<1>7. f = [offset \in 0..L |-> AtOffset(frame, offset, f)]
  <2>1. \A i \in 0..L : f[i] = AtOffset(frame, i, f)
    BY <1>6
  <2> QED BY <2>1
<1>8. ChunksAt(frame) = [offset \in 0..L |-> AtOffset(frame, offset, ChunksAt(frame))]
  <2> SUFFICES (CHOOSE g : g = [offset \in 0..L |-> AtOffset(frame, offset, g)])
               = [offset \in 0..L |->
                    AtOffset(frame, offset, CHOOSE g : g = [o \in 0..L |-> AtOffset(frame, o, g)])]
    BY Zenon DEF ChunksAt, AtOffset, AfterSize
  <2> QED BY <1>7
<1> QED BY <1>8

----------------------------------------------------------------------------
\* One step of the encoder: the end, or a chunk of what is left and then the rest.
LEMMA ChunksStep ==
  ASSUME NEW m \in Nat, NEW payload \in Seq(Unit), NEW offset \in 0..Len(payload)
  PROVE  LET L == Len(payload)
             from == ChunksFrom(m, payload)
             n == ChunkSize(L - offset)
         IN  \/ offset = L /\ from[offset] = LastChunk(m)
             \/ /\ n \in Nat \ {0} /\ offset + n \in 0..L
                /\ IsPiece(SubSeq(payload, offset + 1, offset + n), payload, offset, n)
                /\ from[offset] = OneChunk(m, n, SubSeq(payload, offset + 1, offset + n),
                                           from[offset + n])
<1> DEFINE L == Len(payload)
           n == ChunkSize(L - offset)
<1>1. L \in Nat /\ L - offset \in Nat
  OBVIOUS
<1>2. n \in 0..L - offset /\ (n = 0 => L - offset = 0)
  BY <1>1, ChunkSizeIs
<1>3. ChunksFrom(m, payload)[offset] =
         IF n = 0 THEN LastChunk(m)
         ELSE OneChunk(m, n, SubSeq(payload, offset + 1, offset + n),
                       ChunksFrom(m, payload)[offset + n])
  BY ChunksFromIs
<1> HIDE DEF n
<1>4. CASE n = 0
  <2>1. offset = L
    BY <1>1, <1>2, <1>4
  <2> QED BY <1>3, <1>4, <2>1
<1>5. CASE n # 0
  <2>1. n \in Nat \ {0} /\ offset + n \in 0..L /\ offset + n <= L
    BY <1>1, <1>2, <1>5
  <2>2. IsPiece(SubSeq(payload, offset + 1, offset + n), payload, offset, n)
    BY <2>1, PieceOf
  <2> QED BY <1>3, <1>5, <2>1, <2>2 DEF n
<1> QED BY <1>4, <1>5

\* What the encoder writes from any offset on is a frame's worth of units.
LEMMA ChunksFromType ==
  ASSUME NEW m \in Nat, NEW payload \in Seq(Unit)
  PROVE  \A offset \in 0..Len(payload) : ChunksFrom(m, payload)[offset] \in Seq(Unit)
<1> DEFINE L == Len(payload)
           from == ChunksFrom(m, payload)
           M == {offset \in 0..L : from[offset] \notin Seq(Unit)}
<1>1. L \in Nat
  OBVIOUS
<1>2. SUFFICES ASSUME M # {} PROVE FALSE
  OBVIOUS
<1>3. PICK offset \in M : \A j \in M : j <= offset
  <2>1. M \in SUBSET (0..L)
    OBVIOUS
  <2> HIDE DEF M, L
  <2> QED BY <1>1, <1>2, <2>1, Greatest
<1> DEFINE n == ChunkSize(L - offset)
           part == SubSeq(payload, offset + 1, offset + n)
<1>4. \/ offset = L /\ from[offset] = LastChunk(m)
      \/ /\ n \in Nat \ {0} /\ offset + n \in 0..L
         /\ IsPiece(part, payload, offset, n)
         /\ from[offset] = OneChunk(m, n, part, from[offset + n])
  BY ChunksStep
<1> HIDE DEF n, part, from
<1>5. CASE offset = L /\ from[offset] = LastChunk(m)
  BY <1>5, LastChunkIs
<1>6. CASE /\ n \in Nat \ {0} /\ offset + n \in 0..L
           /\ IsPiece(part, payload, offset, n)
           /\ from[offset] = OneChunk(m, n, part, from[offset + n])
  <2>1. offset \in Nat /\ offset + n > offset
    BY <1>1, <1>6
  <2>2. offset + n \notin M
    <3> HIDE DEF M, L
    <3> QED BY <1>3, <1>6, <2>1
  <2>3. from[offset + n] \in Seq(Unit)
    BY <1>6, <2>2
  <2>4. OneChunk(m, n, part, from[offset + n]) \in Seq(Unit)
    BY <1>6, <2>3, OneChunkIs DEF IsPiece, IsChunk
  <2> QED BY <1>6, <2>4
<1> QED BY <1>4, <1>5, <1>6

\* Every unit of a chunked message says which message that is.
LEMMA ChunksLabels ==
  ASSUME NEW m \in Nat, NEW payload \in Seq(Unit), \A i \in 1..Len(payload) : payload[i].m = m
  PROVE  \A i \in 1..Len(Chunks(m, payload)) : Chunks(m, payload)[i].m = m
<1> DEFINE L == Len(payload)
           from == ChunksFrom(m, payload)
           Labelled(offset) == \A i \in 1..Len(from[offset]) : from[offset][i].m = m
           M == {offset \in 0..L : ~Labelled(offset)}
<1>1. L \in Nat /\ \A offset \in 0..L : from[offset] \in Seq(Unit)
  BY ChunksFromType
<1>2. ASSUME NEW offset \in 0..L, \A later \in 0..L : offset < later => Labelled(later)
      PROVE  Labelled(offset)
  <2> DEFINE n == ChunkSize(L - offset)
             part == SubSeq(payload, offset + 1, offset + n)
  <2>1. \/ offset = L /\ from[offset] = LastChunk(m)
        \/ /\ n \in Nat \ {0} /\ offset + n \in 0..L
           /\ IsPiece(part, payload, offset, n)
           /\ from[offset] = OneChunk(m, n, part, from[offset + n])
    BY ChunksStep
  <2> HIDE DEF n, part, from
  <2>2. CASE offset = L /\ from[offset] = LastChunk(m)
    <3>1. /\ Len(LastChunk(m)) = 3
          /\ LastChunk(m)[1] = SizeLine(m, 0)
          /\ LastChunk(m)[2] = LineEnd(m)
          /\ LastChunk(m)[3] = LineEnd(m)
      BY DEF LastChunk
    <3>2. SizeLine(m, 0).m = m /\ LineEnd(m).m = m
      BY DEF SizeLine, LineEnd
    <3>3. \A i \in 1..3 : i = 1 \/ i = 2 \/ i = 3
      OBVIOUS
    <3> QED BY <2>2, <3>1, <3>2, <3>3
  <2>3. CASE /\ n \in Nat \ {0} /\ offset + n \in 0..L
             /\ IsPiece(part, payload, offset, n)
             /\ from[offset] = OneChunk(m, n, part, from[offset + n])
    <3> DEFINE rest == from[offset + n]
               c == from[offset]
    <3>1. rest \in Seq(Unit) /\ part \in Seq(Unit) /\ Len(part) = n
      BY <1>1, <2>3 DEF IsPiece
    <3>2. IsChunk(c, m, n, part, rest)
      BY <2>3, <3>1, OneChunkIs
    <3>3. Labelled(offset + n)
      <4>1. offset + n \in 0..L /\ offset < offset + n
        BY <1>1, <2>3
      <4> HIDE DEF Labelled
      <4> QED BY <1>2, <4>1
    <3>4. \A i \in 1..Len(rest) : rest[i].m = m
      BY <3>3
    <3>5. \A i \in 1..n : part[i].m = m
      <4> SUFFICES ASSUME NEW i \in 1..n PROVE part[i].m = m
        OBVIOUS
      <4>1. part[i] = payload[offset + i]
        BY <2>3 DEF IsPiece
      <4>2. offset + i \in 1..Len(payload)
        BY <1>1, <2>3
      <4> QED BY <4>1, <4>2
    <3> HIDE DEF rest, c
    <3>6. \A i \in 1..Len(c) : c[i].m = m
      <4> SUFFICES ASSUME NEW i \in 1..Len(c) PROVE c[i].m = m
        OBVIOUS
      <4>1. n \in Nat /\ Len(rest) \in Nat /\ i \in Nat /\ i <= n + 3 + Len(rest)
        BY <2>3, <3>1, <3>2 DEF IsChunk
      <4>2. CASE i = 1
        BY <3>2, <4>2 DEF IsChunk, SizeLine
      <4>3. CASE i = 2 \/ i = n + 3
        BY <3>2, <4>3 DEF IsChunk, LineEnd
      <4>4. CASE i \in 3..n + 2
        <5>1. i - 2 \in 1..n /\ (i - 2) + 2 = i
          BY <4>1, <4>4
        <5>2. c[(i - 2) + 2] = part[i - 2]
          BY <3>2, <5>1 DEF IsChunk
        <5> QED BY <3>5, <5>1, <5>2
      <4>5. CASE i > n + 3
        <5> DEFINE j == i - (n + 3)
        <5>1. j \in 1..Len(rest) /\ j + n + 3 = i
          BY <4>1, <4>5
        <5> HIDE DEF j
        <5>2. c[j + n + 3] = rest[j]
          BY <3>2, <5>1 DEF IsChunk
        <5> QED BY <3>4, <5>1, <5>2
      <4> QED BY <4>1, <4>2, <4>3, <4>4, <4>5
    <3> QED BY <3>6 DEF c
  <2> QED BY <2>1, <2>2, <2>3
<1>3. Labelled(0)
  <2> HIDE DEF Labelled
  <2>1. SUFFICES ASSUME M # {} PROVE FALSE
    BY <1>1
  <2>2. PICK offset \in M : \A j \in M : j <= offset
    <3>1. M \in SUBSET (0..L)
      OBVIOUS
    <3> HIDE DEF M, L
    <3> QED BY <1>1, <2>1, <3>1, Greatest
  <2>3. \A later \in 0..L : offset < later => Labelled(later)
    BY <1>1, <2>2
  <2> QED BY <1>2, <2>3
<1> QED BY <1>3 DEF Chunks

\* What the rest of a frame is.
IsRest(frame, position, rest) == /\ Len(frame) = position + Len(rest)
                                 /\ \A i \in 1..Len(rest) : frame[position + i] = rest[i]

\* What the decoder gives when it starts there.
Gives(frame, position, payload) ==
  ChunksAt(frame)[position] = [code |-> "OK", payload |-> payload]

\* The decoder's last step.
LEMMA LastChunkDecoded ==
  ASSUME NEW m \in Nat, NEW frame \in Seq(Unit), NEW position \in 0..Len(frame),
         IsRest(frame, position, LastChunk(m))
  PROVE  Gives(frame, position, <<>>)
<1>1. /\ Len(LastChunk(m)) = 3
      /\ LastChunk(m)[1] = SizeLine(m, 0)
      /\ LastChunk(m)[2] = LineEnd(m)
      /\ LastChunk(m)[3] = LineEnd(m)
  BY DEF LastChunk
<1>2. /\ Len(frame) = position + 3
      /\ frame[position + 1] = SizeLine(m, 0)
      /\ frame[position + 2] = LineEnd(m)
      /\ frame[position + 3] = LineEnd(m)
  BY <1>1 DEF IsRest
<1>3. /\ frame[position + 1].kind = "size"
      /\ frame[position + 1].n = 0
      /\ IsLineEnd(frame, position + 2)
      /\ IsLineEnd(frame, position + 3 + 0)
      /\ position + 3 + 0 = Len(frame)
      /\ position # Len(frame)
  BY <1>2 DEF SizeLine, LineEnd, IsLineEnd
<1>4. ChunksAt(frame)[position] = AtOffset(frame, position, ChunksAt(frame))
  BY ChunksAtIs
<1> QED BY <1>3, <1>4 DEF Gives, AtOffset, AfterSize

\* A step of the decoder that takes one chunk.
LEMMA OneChunkDecoded ==
  ASSUME NEW m \in Nat, NEW frame \in Seq(Unit), NEW position \in 0..Len(frame),
         NEW n \in Nat \ {0}, NEW part \in Seq(Unit), Len(part) = n,
         NEW rest \in Seq(Unit), NEW after \in Seq(Unit),
         IsRest(frame, position, OneChunk(m, n, part, rest)),
         Gives(frame, position + 3 + n, after)
  PROVE  Gives(frame, position, part \o after)
<1> DEFINE c == OneChunk(m, n, part, rest)
<1>1. /\ c \in Seq(Unit) /\ Len(c) = n + 3 + Len(rest)
      /\ c[1] = SizeLine(m, n) /\ c[2] = LineEnd(m) /\ c[n + 3] = LineEnd(m)
      /\ \A i \in 1..n : c[i + 2] = part[i]
  <2>1. IsChunk(c, m, n, part, rest)
    BY OneChunkIs
  <2> HIDE DEF c
  <2> QED BY <2>1 DEF IsChunk
<1>2. Len(frame) = position + Len(c) /\ \A i \in 1..Len(c) : frame[position + i] = c[i]
  BY DEF IsRest
<1> HIDE DEF c
<1>3. Len(rest) \in Nat /\ position \in Nat
  OBVIOUS
<1>4. /\ frame[position + 1] = SizeLine(m, n)
      /\ frame[position + 2] = LineEnd(m)
      /\ frame[position + 3 + n] = LineEnd(m)
      /\ position + 3 + n <= Len(frame)
      /\ position # Len(frame)
  <2>1. Len(c) \in Nat /\ Len(c) >= n + 3
    BY <1>1, <1>3
  <2>2. frame[position + 1] = c[1] /\ frame[position + 2] = c[2]
    BY <1>2, <2>1
  <2>3. frame[position + (n + 3)] = c[n + 3]
    BY <1>2, <2>1
  <2>4. position + (n + 3) = position + 3 + n
    BY <1>3
  <2> QED BY <1>1, <1>2, <1>3, <2>1, <2>2, <2>3, <2>4
<1>5. /\ frame[position + 1].kind = "size"
      /\ frame[position + 1].n = n
      /\ IsLineEnd(frame, position + 2)
      /\ IsLineEnd(frame, position + 3 + n)
  BY <1>1, <1>2, <1>3, <1>4 DEF SizeLine, LineEnd, IsLineEnd
<1>6. SubSeq(frame, position + 3, position + 2 + n) = part
  <2>1. IsPiece(SubSeq(frame, (position + 2) + 1, (position + 2) + n), frame, position + 2, n)
    BY <1>3, <1>4, PieceOf
  <2>2. (position + 2) + 1 = position + 3 /\ (position + 2) + n = position + 2 + n
    BY <1>3
  <2> DEFINE piece == SubSeq(frame, position + 3, position + 2 + n)
  <2>3. IsPiece(piece, frame, position + 2, n)
    BY <2>1, <2>2
  <2> HIDE DEF piece
  <2>4. \A i \in 1..n : piece[i] = part[i]
    <3> SUFFICES ASSUME NEW i \in 1..n PROVE piece[i] = part[i]
      OBVIOUS
    <3>1. piece[i] = frame[(position + 2) + i]
      BY <2>3 DEF IsPiece
    <3>2. frame[position + (i + 2)] = c[i + 2]
      <4>1. i + 2 \in 1..Len(c)
        BY <1>1, <1>3
      <4> QED BY <1>2, <4>1
    <3>3. (position + 2) + i = position + (i + 2)
      BY <1>3
    <3> QED BY <1>1, <3>1, <3>2, <3>3
  <2>5. piece = part
    BY <2>3, <2>4, SeqEqual DEF IsPiece
  <2> QED BY <2>5 DEF piece
<1> DEFINE at == ChunksAt(frame)
<1>7. at[position] = AtOffset(frame, position, at)
  BY ChunksAtIs
<1>8. at[position + 3 + n] # Error /\ at[position + 3 + n].payload = after
  BY DEF Gives, Error
<1> HIDE DEF at
<1>9. AtOffset(frame, position, at) = AfterSize(frame, position, n, at)
  BY <1>4, <1>5 DEF AtOffset
<1>10. AfterSize(frame, position, n, at) =
          [code    |-> "OK",
           payload |-> SubSeq(frame, position + 3, position + 2 + n) \o after]
  BY <1>5, <1>8 DEF AfterSize
<1> QED BY <1>6, <1>7, <1>9, <1>10 DEF Gives, at

\* chunked_decode() undoes chunked_encode(): the bytes that the decoder finds from the
\* place of an offset on are those that the encoder had left there.
LEMMA ChunksDecoded ==
  ASSUME NEW m \in Nat, NEW payload \in Seq(Unit)
  PROVE  /\ Chunks(m, payload) \in Seq(Unit)
         /\ ChunksAt(Chunks(m, payload))[0] = [code |-> "OK", payload |-> payload]
<1> DEFINE L == Len(payload)
           from == ChunksFrom(m, payload)
           frame == Chunks(m, payload)
           remaining(offset) == SubSeq(payload, offset + 1, L)
           Undone(offset) ==
             \A position \in 0..Len(frame) :
                IsRest(frame, position, from[offset])
                   => Gives(frame, position, remaining(offset))
           M == {offset \in 0..L : ~Undone(offset)}
<1>1. L \in Nat /\ \A offset \in 0..L : from[offset] \in Seq(Unit)
  BY ChunksFromType
<1>2. frame = from[0] /\ frame \in Seq(Unit)
  BY <1>1 DEF Chunks
<1>3. ASSUME NEW offset \in 0..L, \A later \in 0..L : offset < later => Undone(later)
      PROVE  Undone(offset)
  <2> SUFFICES ASSUME NEW position \in 0..Len(frame), IsRest(frame, position, from[offset])
               PROVE  Gives(frame, position, remaining(offset))
    OBVIOUS
  <2> DEFINE n == ChunkSize(L - offset)
             part == SubSeq(payload, offset + 1, offset + n)
  <2>1. \/ offset = L /\ from[offset] = LastChunk(m)
        \/ /\ n \in Nat \ {0} /\ offset + n \in 0..L
           /\ IsPiece(part, payload, offset, n)
           /\ from[offset] = OneChunk(m, n, part, from[offset + n])
    BY ChunksStep
  <2> HIDE DEF n, part, from, frame
  <2>2. CASE offset = L /\ from[offset] = LastChunk(m)
    <3>1. Gives(frame, position, <<>>)
      BY <1>2, <2>2, LastChunkDecoded
    <3>2. remaining(offset) = <<>>
      BY <1>1, <2>2, SubSeqEmpty
    <3> QED BY <3>1, <3>2
  <2>3. CASE /\ n \in Nat \ {0} /\ offset + n \in 0..L
             /\ IsPiece(part, payload, offset, n)
             /\ from[offset] = OneChunk(m, n, part, from[offset + n])
    <3> DEFINE rest == from[offset + n]
               next == position + 3 + n
    <3>1. rest \in Seq(Unit) /\ part \in Seq(Unit) /\ Len(part) = n
      BY <1>1, <2>3 DEF IsPiece
    <3>2. IsChunk(from[offset], m, n, part, rest)
      BY <2>3, <3>1, OneChunkIs
    <3>3. next \in 0..Len(frame) /\ IsRest(frame, next, rest)
      <4> DEFINE c == from[offset]
      <4>1. Len(c) = n + 3 + Len(rest) /\ \A i \in 1..Len(rest) : c[i + n + 3] = rest[i]
        BY <3>2 DEF IsChunk
      <4>2. Len(frame) = position + Len(c) /\ \A i \in 1..Len(c) : frame[position + i] = c[i]
        BY DEF IsRest
      <4> HIDE DEF c, rest
      <4>3. n \in Nat /\ Len(rest) \in Nat /\ position \in Nat
        BY <1>2, <2>3, <3>1
      <4>4. Len(frame) = next + Len(rest) /\ next \in Nat
        BY <4>1, <4>2, <4>3
      <4>5. \A i \in 1..Len(rest) : frame[next + i] = rest[i]
        <5> SUFFICES ASSUME NEW i \in 1..Len(rest) PROVE frame[next + i] = rest[i]
          OBVIOUS
        <5>1. i + n + 3 \in 1..Len(c) /\ position + (i + n + 3) = next + i
          BY <4>1, <4>3
        <5>2. frame[position + (i + n + 3)] = c[i + n + 3]
          BY <4>2, <5>1
        <5> QED BY <4>1, <5>1, <5>2
      <4> QED BY <4>3, <4>4, <4>5 DEF IsRest
    <3>4. Gives(frame, next, remaining(offset + n))
      <4>1. Undone(offset + n)
        <5>1. offset + n \in 0..L /\ offset < offset + n
          BY <1>1, <2>3
        <5> HIDE DEF Undone
        <5> QED BY <1>3, <5>1
      <4> QED BY <3>3, <4>1
    <3>5. remaining(offset + n) \in Seq(Unit) /\ remaining(offset) = part \o remaining(offset + n)
      <4>1. offset + 1 \in 1..L + 1 /\ offset + n \in (offset + 1) - 1..L /\ L \in offset + n..L
        BY <1>1, <2>3
      <4>2. remaining(offset) = part \o remaining(offset + n)
        BY <4>1, ConcatAdjacentSubSeq DEF part
      <4>3. remaining(offset + n) \in Seq(Unit)
        BY <1>1, <2>3
      <4> QED BY <4>2, <4>3
    <3>6. IsRest(frame, position, OneChunk(m, n, part, rest))
      BY <2>3
    <3> HIDE DEF rest, remaining
    <3>7. Gives(frame, position, part \o remaining(offset + n))
      BY <1>2, <2>3, <3>1, <3>4, <3>5, <3>6, OneChunkDecoded
    <3> QED BY <3>5, <3>7
  <2> QED BY <2>1, <2>2, <2>3
<1>4. Undone(0)
  <2> HIDE DEF Undone
  <2>1. SUFFICES ASSUME M # {} PROVE FALSE
    BY <1>1
  <2>2. PICK offset \in M : \A j \in M : j <= offset
    <3>1. M \in SUBSET (0..L)
      OBVIOUS
    <3> HIDE DEF M, L
    <3> QED BY <1>1, <2>1, <3>1, Greatest
  <2>3. \A later \in 0..L : offset < later => Undone(later)
    BY <1>1, <2>2
  <2> QED BY <1>3, <2>3
<1>5. IsRest(frame, 0, from[0])
  BY <1>2 DEF IsRest
<1>6. remaining(0) = payload
  BY SubSeqFull
<1> QED BY <1>2, <1>4, <1>5, <1>6 DEF Gives

\* A sequence that another one begins with.
IsStart(s, t) == Len(s) <= Len(t) /\ \A i \in 1..Len(s) : s[i] = t[i]

\* An offset at which a chunk of a payload of n bytes ends.
IsBoundary(n, offset) == offset = n \/ \E chunks \in Nat : offset = chunks * MaxChunk

\* Chunks of a payload that follow an offset, none of them cut.
ChunksAfter(payload, offset) ==
  {SubSeq(payload, offset + 1, end) :
     end \in {e \in offset..Len(payload) : IsBoundary(Len(payload), e)}}

\* The decoder notices that something is wrong, or gives such chunks.
GivesChunks(frame, position, payload, offset) ==
  \/ ChunksAt(frame)[position] = Error
  \/ \E rest \in ChunksAfter(payload, offset) : Gives(frame, position, rest)

\* The chunks that follow one another end at the same places.
LEMMA NextBoundary ==
  ASSUME NEW L \in Nat, NEW offset \in 0..L, IsBoundary(L, offset),
         ChunkSize(L - offset) # 0
  PROVE  IsBoundary(L, offset + ChunkSize(L - offset))
<1>1. CASE L - offset > MaxChunk
  <2>1. ChunkSize(L - offset) = MaxChunk /\ offset # L
    BY <1>1, FramersAssumption DEF ChunkSize
  <2>2. PICK chunks \in Nat : offset = chunks * MaxChunk
    BY <2>1 DEF IsBoundary
  <2>3. offset + MaxChunk = (chunks + 1) * MaxChunk /\ chunks + 1 \in Nat
    BY <2>2, FramersAssumption
  <2> QED BY <2>1, <2>3 DEF IsBoundary
<1>2. CASE ~(L - offset > MaxChunk)
  <2>1. offset + ChunkSize(L - offset) = L
    BY <1>2 DEF ChunkSize
  <2> QED BY <2>1 DEF IsBoundary
<1> QED BY <1>1, <1>2

\* A frame that was cut is the same up to its end.
LEMMA StartOfChunk ==
  ASSUME NEW m \in Nat, NEW whole \in Seq(Unit), NEW frame \in Seq(Unit),
         IsStart(frame, whole), NEW position \in 0..Len(frame), position # Len(frame),
         NEW n \in Nat \ {0}, NEW part \in Seq(Unit), Len(part) = n, NEW rest \in Seq(Unit),
         IsRest(whole, position, OneChunk(m, n, part, rest))
  PROVE  /\ frame[position + 1].n = n
         /\ position + 3 + n \in 0..Len(whole)
         /\ IsRest(whole, position + 3 + n, rest)
         /\ position + 3 + n <= Len(frame)
              => SubSeq(frame, position + 3, position + 2 + n) = part
<1> DEFINE c == OneChunk(m, n, part, rest)
<1>1. IsChunk(c, m, n, part, rest)
  BY OneChunkIs
<1>2. /\ Len(whole) = position + Len(c) /\ \A i \in 1..Len(c) : whole[position + i] = c[i]
      /\ Len(frame) <= Len(whole) /\ \A i \in 1..Len(frame) : frame[i] = whole[i]
  BY DEF IsRest, IsStart
<1> HIDE DEF c
<1>3. /\ n \in Nat /\ Len(rest) \in Nat /\ position \in Nat /\ Len(frame) \in Nat
      /\ Len(c) = n + 3 + Len(rest)
  BY <1>1 DEF IsChunk
<1>4. frame[position + 1].n = n
  <2>1. position + 1 \in 1..Len(frame) /\ 1 \in 1..Len(c)
    BY <1>3
  <2>2. frame[position + 1] = SizeLine(m, n)
    BY <1>1, <1>2, <2>1 DEF IsChunk
  <2> QED BY <2>2 DEF SizeLine
<1>5. position + 3 + n \in 0..Len(whole) /\ Len(whole) = (position + 3 + n) + Len(rest)
  BY <1>2, <1>3
<1>6. \A i \in 1..Len(rest) : whole[position + 3 + n + i] = rest[i]
  <2> SUFFICES ASSUME NEW i \in 1..Len(rest) PROVE whole[position + 3 + n + i] = rest[i]
    OBVIOUS
  <2>1. i + n + 3 \in 1..Len(c) /\ position + (i + n + 3) = position + 3 + n + i
    BY <1>3
  <2>2. whole[position + (i + n + 3)] = c[i + n + 3]
    BY <1>2, <2>1
  <2>3. c[i + n + 3] = rest[i]
    BY <1>1 DEF IsChunk
  <2> QED BY <2>1, <2>2, <2>3
<1>7. ASSUME position + 3 + n <= Len(frame)
      PROVE  SubSeq(frame, position + 3, position + 2 + n) = part
  <2> DEFINE piece == SubSeq(frame, position + 3, position + 2 + n)
  <2>1. IsPiece(SubSeq(frame, (position + 2) + 1, (position + 2) + n), frame, position + 2, n)
    BY <1>3, <1>7, PieceOf
  <2>2. (position + 2) + 1 = position + 3 /\ (position + 2) + n = position + 2 + n
    BY <1>3
  <2>3. IsPiece(piece, frame, position + 2, n)
    BY <2>1, <2>2
  <2> HIDE DEF piece
  <2>4. \A i \in 1..n : piece[i] = part[i]
    <3> SUFFICES ASSUME NEW i \in 1..n PROVE piece[i] = part[i]
      OBVIOUS
    <3>1. piece[i] = frame[(position + 2) + i]
      BY <2>3 DEF IsPiece
    <3>2. i + 2 \in 1..Len(c) /\ (position + 2) + i = position + (i + 2)
      BY <1>3
    <3>3. position + (i + 2) \in 1..Len(frame)
      BY <1>3, <1>7
    <3>4. frame[position + (i + 2)] = c[i + 2]
      BY <1>2, <3>2, <3>3
    <3>5. c[i + 2] = part[i]
      BY <1>1 DEF IsChunk
    <3> QED BY <3>1, <3>2, <3>4, <3>5
  <2>5. piece = part
    BY <2>3, <2>4, SeqEqual DEF IsPiece
  <2> QED BY <2>5 DEF piece
<1> QED BY <1>4, <1>5, <1>6, <1>7 DEF IsRest

\* A step of the decoder that takes a chunk of a frame that was cut behind it.
LEMMA ChunkOfCut ==
  ASSUME NEW frame \in Seq(Unit), NEW position \in 0..Len(frame), position # Len(frame),
         NEW n \in Nat \ {0}, frame[position + 1].n = n, NEW payload \in Seq(Unit),
         NEW offset \in 0..Len(payload), offset + n <= Len(payload),
         position + 3 + n <= Len(frame)
           => /\ SubSeq(frame, position + 3, position + 2 + n)
                   = SubSeq(payload, offset + 1, offset + n)
              /\ GivesChunks(frame, position + 3 + n, payload, offset + n)
  PROVE  GivesChunks(frame, position, payload, offset)
<1> DEFINE at == ChunksAt(frame)
           next == position + 3 + n
           part == SubSeq(payload, offset + 1, offset + n)
<1>1. at[position] = AtOffset(frame, position, at)
  BY ChunksAtIs
<1>2. at[position] = Error \/ at[position] = AfterSize(frame, position, n, at)
  BY <1>1 DEF AtOffset
<1>3. CASE at[position] = Error
  BY <1>3 DEF GivesChunks
<1>4. CASE ~IsLineEnd(frame, next) \/ at[next] = Error
  <2> HIDE DEF at
  <2>1. AfterSize(frame, position, n, at) = Error
    BY <1>4 DEF AfterSize
  <2> QED BY <1>2, <1>3, <2>1
<1>5. CASE at[position] # Error /\ IsLineEnd(frame, next) /\ at[next] # Error
  <2>1. next <= Len(frame)
    BY <1>5 DEF IsLineEnd
  <2>2. PICK rest \in ChunksAfter(payload, offset + n) : Gives(frame, next, rest)
    BY <1>5, <2>1 DEF GivesChunks
  <2>3. at[next].payload = rest
    BY <2>2 DEF Gives
  <2> HIDE DEF at
  <2>4. AfterSize(frame, position, n, at) = [code |-> "OK", payload |-> part \o rest]
    BY <1>5, <2>1, <2>3 DEF AfterSize
  <2>5. Gives(frame, position, part \o rest)
    BY <1>2, <1>5, <2>4 DEF Gives, at
  <2>6. part \o rest \in ChunksAfter(payload, offset)
    <3>1. PICK end \in offset + n..Len(payload) :
             IsBoundary(Len(payload), end) /\ rest = SubSeq(payload, offset + n + 1, end)
      BY <2>2 DEF ChunksAfter
    <3>2. /\ offset + 1 \in 1..Len(payload) + 1 /\ offset + n \in (offset + 1) - 1..Len(payload)
          /\ end \in offset + n..Len(payload) /\ end \in offset..Len(payload)
      OBVIOUS
    <3>3. part \o rest = SubSeq(payload, offset + 1, end)
      BY <3>1, <3>2, ConcatAdjacentSubSeq
    <3> HIDE DEF part
    <3> QED BY <3>1, <3>2, <3>3 DEF ChunksAfter
  <2> QED BY <2>5, <2>6 DEF GivesChunks
<1> QED BY <1>3, <1>4, <1>5

\* Where the frame ends, or has its last chunk, no more chunks are given.
LEMMA NoMoreChunks ==
  ASSUME NEW frame \in Seq(Unit), NEW position \in 0..Len(frame), NEW payload \in Seq(Unit),
         NEW offset \in 0..Len(payload), IsBoundary(Len(payload), offset),
         position # Len(frame) => frame[position + 1].n = 0
  PROVE  GivesChunks(frame, position, payload, offset)
<1>1. <<>> \in ChunksAfter(payload, offset)
  <2>1. SubSeq(payload, offset + 1, offset) = <<>>
    BY SubSeqEmpty
  <2>2. offset \in offset..Len(payload)
    OBVIOUS
  <2> QED BY <2>1, <2>2 DEF ChunksAfter
<1> DEFINE at == ChunksAt(frame)
<1>2. at[position] = AtOffset(frame, position, at)
  BY ChunksAtIs
<1> HIDE DEF at
<1>3. at[position] = Error \/ at[position] = [code |-> "OK", payload |-> <<>>]
  <2>1. CASE position = Len(frame)
    BY <1>2, <2>1 DEF AtOffset
  <2>2. CASE position # Len(frame)
    BY <1>2, <2>2 DEF AtOffset, AfterSize
  <2> QED BY <2>1, <2>2
<1> QED BY <1>1, <1>3 DEF GivesChunks, Gives, at

\* chunked_decode() of a frame that was cut anywhere notices it or gives whole chunks.
LEMMA CutChunksDecoded ==
  ASSUME NEW m \in Nat, NEW payload \in Seq(Unit), NEW frame \in Seq(Unit),
         IsStart(frame, Chunks(m, payload))
  PROVE  GivesChunks(frame, 0, payload, 0)
<1> DEFINE L == Len(payload)
           from == ChunksFrom(m, payload)
           whole == Chunks(m, payload)
           Undone(offset) ==
             IsBoundary(L, offset) =>
               \A position \in 0..Len(frame) :
                  IsRest(whole, position, from[offset])
                     => GivesChunks(frame, position, payload, offset)
           M == {offset \in 0..L : ~Undone(offset)}
<1>1. L \in Nat /\ \A offset \in 0..L : from[offset] \in Seq(Unit)
  BY ChunksFromType
<1>2. whole = from[0] /\ whole \in Seq(Unit)
  BY <1>1 DEF Chunks
<1>3. IsStart(frame, whole)
  OBVIOUS
<1> HIDE DEF whole
<1>4. ASSUME NEW offset \in 0..L, \A later \in 0..L : offset < later => Undone(later)
      PROVE  Undone(offset)
  <2> SUFFICES ASSUME IsBoundary(L, offset), NEW position \in 0..Len(frame),
                      IsRest(whole, position, from[offset])
               PROVE  GivesChunks(frame, position, payload, offset)
    OBVIOUS
  <2> DEFINE n == ChunkSize(L - offset)
             part == SubSeq(payload, offset + 1, offset + n)
  <2>1. \/ offset = L /\ from[offset] = LastChunk(m)
        \/ /\ n \in Nat \ {0} /\ offset + n \in 0..L
           /\ IsPiece(part, payload, offset, n)
           /\ from[offset] = OneChunk(m, n, part, from[offset + n])
    BY ChunksStep
  <2>2. n # 0 => IsBoundary(L, offset + n)
    BY <1>1, NextBoundary
  <2> HIDE DEF n, part, from
  <2>3. CASE position = Len(frame)
    BY <2>3, NoMoreChunks
  <2>4. CASE position # Len(frame) /\ offset = L /\ from[offset] = LastChunk(m)
    <3>1. IsRest(whole, position, LastChunk(m))
      BY <2>4
    <3>2. Len(LastChunk(m)) = 3 /\ LastChunk(m)[1] = SizeLine(m, 0)
      BY DEF LastChunk
    <3>3. whole[position + 1] = SizeLine(m, 0)
      BY <3>1, <3>2 DEF IsRest
    <3>4. position + 1 \in 1..Len(frame)
      BY <2>4
    <3>5. frame[position + 1].n = 0
      BY <1>3, <3>3, <3>4 DEF SizeLine, IsStart
    <3> QED BY <3>5, NoMoreChunks
  <2>5. CASE /\ position # Len(frame) /\ n \in Nat \ {0} /\ offset + n \in 0..L
             /\ IsPiece(part, payload, offset, n)
             /\ from[offset] = OneChunk(m, n, part, from[offset + n])
    <3> DEFINE rest == from[offset + n]
               next == position + 3 + n
    <3>1. rest \in Seq(Unit) /\ part \in Seq(Unit) /\ Len(part) = n
      BY <1>1, <2>5 DEF IsPiece
    <3>2. IsRest(whole, position, OneChunk(m, n, part, rest))
      BY <2>5
    <3> HIDE DEF rest
    <3>3. /\ frame[position + 1].n = n
          /\ next \in 0..Len(whole)
          /\ IsRest(whole, next, rest)
          /\ next <= Len(frame) => SubSeq(frame, position + 3, position + 2 + n) = part
      BY <1>2, <1>3, <2>5, <3>1, <3>2, StartOfChunk
    <3>4. ASSUME next <= Len(frame)
          PROVE  GivesChunks(frame, next, payload, offset + n)
      <4>1. Undone(offset + n)
        <5>1. offset + n \in 0..L /\ offset < offset + n
          BY <1>1, <2>5
        <5> HIDE DEF Undone
        <5> QED BY <1>4, <5>1
      <4>2. next \in 0..Len(frame)
        BY <3>3, <3>4
      <4> QED BY <2>2, <2>5, <3>3, <4>1, <4>2 DEF rest
    <3>5. next <= Len(frame)
            => SubSeq(frame, position + 3, position + 2 + n)
                  = SubSeq(payload, offset + 1, offset + n)
      BY <3>3 DEF part
    <3>6. offset + n <= Len(payload)
      BY <2>5
    <3> QED BY <2>5, <3>3, <3>4, <3>5, <3>6, ChunkOfCut
  <2> QED BY <2>1, <2>3, <2>4, <2>5
<1>5. Undone(0)
  <2> HIDE DEF Undone
  <2>1. SUFFICES ASSUME M # {} PROVE FALSE
    BY <1>1
  <2>2. PICK offset \in M : \A j \in M : j <= offset
    <3>1. M \in SUBSET (0..L)
      OBVIOUS
    <3> HIDE DEF M, L
    <3> QED BY <1>1, <2>1, <3>1, Greatest
  <2>3. \A later \in 0..L : offset < later => Undone(later)
    BY <1>1, <2>2
  <2> QED BY <1>4, <2>3
<1>6. IsBoundary(L, 0)
  <2>1. 0 = 0 * MaxChunk
    BY FramersAssumption
  <2> QED BY <2>1 DEF IsBoundary
<1>7. IsRest(whole, 0, from[0])
  BY <1>2 DEF IsRest
<1> QED BY <1>5, <1>6, <1>7

----------------------------------------------------------------------------
\* A frame that begins with its length.
IsPrefixed(frame, m, n) == /\ frame \in Seq(Unit)
                           /\ frame[1] = Header(m, n)
                           /\ \A i \in 1..n : frame[1 + i] = Payload(m, n)[i]

\* length_prefix_encode() puts the length in front, and crc_encode() a checksum behind as well.
LEMMA LengthPrefixIs ==
  ASSUME NEW m \in Nat, NEW n \in Nat
  PROVE  LET frame == EncodeLengthPrefix(m, Payload(m, n))
         IN  IsPrefixed(frame, m, n) /\ Len(frame) = n + 1
<1> DEFINE p == Payload(m, n)
           a == <<Header(m, n)>>
           x == a \o p
<1>1. p \in Seq(Unit) /\ Len(p) = n
  BY PayloadIs
<1>2. a \in Seq(Unit) /\ Len(a) = 1 /\ a[1] = Header(m, n)
  BY UnitsAre
<1>3. EncodeLengthPrefix(m, Payload(m, n)) = x
  BY <1>1 DEF EncodeLengthPrefix
<1> HIDE DEF p, a
<1>4. IsJoin(x, a, p)
  BY <1>1, <1>2, Joined
<1> HIDE DEF x
<1> QED BY <1>1, <1>2, <1>3, <1>4 DEF IsJoin, IsPrefixed, p

LEMMA CrcIs ==
  ASSUME NEW m \in Nat, NEW n \in Nat
  PROVE  LET frame == EncodeCrc(m, Payload(m, n))
         IN  /\ IsPrefixed(frame, m, n) /\ Len(frame) = n + 2
             /\ frame[2 + n] = Checksum(m, Payload(m, n))
<1> DEFINE p == Payload(m, n)
           a == <<Header(m, n)>>
           b == <<Checksum(m, p)>>
           x == a \o p
           y == x \o b
<1>1. p \in Seq(Unit) /\ Len(p) = n
  BY PayloadIs
<1>2. a \in Seq(Unit) /\ Len(a) = 1 /\ a[1] = Header(m, n)
  BY UnitsAre
<1>3. b \in Seq(Unit) /\ Len(b) = 1 /\ b[1] = Checksum(m, p)
  BY UnitsAre, PayloadIs
<1>4. EncodeCrc(m, Payload(m, n)) = y
  BY <1>1 DEF EncodeCrc
<1> HIDE DEF p, a, b
<1>5. IsJoin(x, a, p)
  BY <1>1, <1>2, Joined
<1> HIDE DEF x
<1>6. IsJoin(y, x, b)
  <2>1. x \in Seq(Unit)
    BY <1>5 DEF IsJoin
  <2> QED BY <1>3, <2>1, Joined
<1> HIDE DEF y
<1>7. Len(x) = n + 1 /\ Len(y) = n + 2
  BY <1>1, <1>2, <1>3, <1>5, <1>6 DEF IsJoin
<1>8. y \in Seq(Unit) /\ y[1] = Header(m, n)
  BY <1>2, <1>5, <1>6, <1>7 DEF IsJoin
<1>9. \A i \in 1..n : y[1 + i] = p[i]
  <2> SUFFICES ASSUME NEW i \in 1..n PROVE y[1 + i] = p[i]
    OBVIOUS
  <2>1. x[1 + i] = p[i]
    BY <1>1, <1>2, <1>5 DEF IsJoin
  <2>2. y[1 + i] = x[1 + i]
    BY <1>6, <1>7 DEF IsJoin
  <2> QED BY <2>1, <2>2
<1>10. y[2 + n] = Checksum(m, p)
  <2>1. y[Len(x) + 1] = b[1]
    BY <1>3, <1>6 DEF IsJoin
  <2>2. Len(x) + 1 = 2 + n
    BY <1>7
  <2> QED BY <1>3, <2>1, <2>2
<1> QED BY <1>4, <1>7, <1>8, <1>9, <1>10 DEF IsPrefixed, p

\* Every framer makes a sequence of units.
LEMMA FrameType ==
  ASSUME NEW kind \in Kinds, NEW m \in Nat, NEW n \in Nat
  PROVE  Encode(kind, m, Payload(m, n)) \in Seq(Unit)
<1>1. CASE kind = "raw"
  BY <1>1, PayloadIs DEF Encode
<1>2. CASE kind = "length_prefix"
  BY <1>2, LengthPrefixIs DEF Encode, IsPrefixed
<1>3. CASE kind = "crc"
  BY <1>3, CrcIs DEF Encode, IsPrefixed
<1>4. CASE kind = "chunked"
  BY <1>4, PayloadIs, ChunksDecoded DEF Encode
<1> QED BY <1>1, <1>2, <1>3, <1>4 DEF Kinds

\* What follows the header of a frame that is long enough.
LEMMA BodyIs ==
  ASSUME NEW frame \in Seq(Unit), NEW m \in Nat, NEW n \in Nat, frame[1] = Header(m, n),
         Len(frame) >= 1 + n
  PROVE  frame # <<>> /\ Head(frame).n = n /\ IsPiece(Body(frame), frame, 1, n)
<1>1. frame # <<>> /\ Head(frame) = frame[1]
  OBVIOUS
<1>2. Head(frame).n = n
  BY <1>1 DEF Header
<1>3. IsPiece(SubSeq(frame, 1 + 1, 1 + n), frame, 1, n)
  BY PieceOf
<1>4. Body(frame) = SubSeq(frame, 1 + 1, 1 + n)
  BY <1>2 DEF Body
<1> QED BY <1>1, <1>2, <1>3, <1>4

\* The body of a frame that is as it was made is the message.
LEMMA BodyOfPrefixed ==
  ASSUME NEW m \in Nat, NEW n \in Nat, NEW frame, IsPrefixed(frame, m, n), Len(frame) >= 1 + n
  PROVE  Body(frame) = Payload(m, n)
<1> DEFINE body == Body(frame)
<1>1. IsPiece(body, frame, 1, n)
  BY BodyIs DEF IsPrefixed
<1> HIDE DEF body
<1>2. \A i \in 1..n : body[i] = Payload(m, n)[i]
  BY <1>1 DEF IsPiece, IsPrefixed
<1>3. body = Payload(m, n)
  BY <1>1, <1>2, PayloadIs, SeqEqual DEF IsPiece
<1> QED BY <1>3 DEF body

\* decode() undoes encode(), for all four framers and payloads of any length.
THEOREM DecodeUndoesEncode ==
  ASSUME NEW kind \in Kinds, NEW m \in Nat, NEW n \in Nat
  PROVE  Decode(kind, Encode(kind, m, Payload(m, n))) = Decoded(Payload(m, n))
<1>1. CASE kind = "raw"
  BY <1>1 DEF Decode, Encode
<1>2. CASE kind = "length_prefix"
  <2> DEFINE frame == EncodeLengthPrefix(m, Payload(m, n))
  <2>1. IsPrefixed(frame, m, n) /\ Len(frame) = n + 1
    BY LengthPrefixIs
  <2> HIDE DEF frame
  <2>2. /\ frame # <<>> /\ Head(frame).n = n /\ Body(frame) = Payload(m, n)
        /\ ~TooShort(frame, 0)
    BY <2>1, BodyIs, BodyOfPrefixed DEF IsPrefixed, TooShort
  <2>3. DecodeLengthPrefix(frame) = Decoded(Payload(m, n))
    BY <2>2 DEF DecodeLengthPrefix
  <2> QED BY <1>2, <2>3 DEF Decode, Encode, frame
<1>3. CASE kind = "crc"
  <2> DEFINE frame == EncodeCrc(m, Payload(m, n))
  <2>1. /\ IsPrefixed(frame, m, n) /\ Len(frame) = n + 2
        /\ frame[2 + n] = Checksum(m, Payload(m, n))
    BY CrcIs
  <2> HIDE DEF frame
  <2>2. Head(frame).n = n /\ Body(frame) = Payload(m, n) /\ ~TooShort(frame, 1)
    BY <2>1, BodyIs, BodyOfPrefixed DEF IsPrefixed, TooShort
  <2>3. DecodeCrc(frame) = Decoded(Payload(m, n))
    BY <2>1, <2>2 DEF DecodeCrc, Checksum
  <2> QED BY <1>3, <2>3 DEF Decode, Encode, frame
<1>4. CASE kind = "chunked"
  <2> DEFINE p == Payload(m, n)
  <2>1. ChunksAt(Chunks(m, p))[0] = [code |-> "OK", payload |-> p]
    BY PayloadIs, ChunksDecoded
  <2> HIDE DEF p
  <2>2. DecodeChunks(Chunks(m, p)) = Decoded(p)
    BY <2>1 DEF DecodeChunks, Error
  <2> QED BY <1>4, <2>2 DEF Decode, Encode, p
<1> QED BY <1>1, <1>2, <1>3, <1>4 DEF Kinds

----------------------------------------------------------------------------
(***************************************************************************)
(* Store and forward: the file, its writer and its reader.                 *)
(***************************************************************************)

\* What was written to the file for a message.
Frame(k) == Encode(framer, k, Whole(k))

\* What the variables hold; the frames are sequences of units.
StoreTyped == /\ framer \in Kinds
              /\ writer \in {"idle", "writing"}
              /\ reader \in {"idle", "reading"}
              /\ sent \in Seq(Lengths)
              /\ file \in Seq(Unit)
              /\ todo \in Seq(Unit)
              /\ got \in Seq(Unit)
              /\ Len(got) <= BufferSize

\* The file is the beginning of the last frame, and what send() has yet to write goes on there.
FileIsOfLast == IF sent = <<>> THEN file = <<>> /\ todo = <<>>
                ELSE IsStart(file \o todo, Frame(Len(sent)))

\* Whatever the reader has at some place was at that place of a frame.
GotWasWritten ==
  \A i \in 1..Len(got) : \E k \in 1..Len(sent) : i <= Len(Frame(k)) /\ got[i] = Frame(k)[i]

\* decode() saw what recv() has read.
ResultIsOfGot == \/ result = Nothing
                 \/ reader = "idle" /\ got # <<>> /\ result = Decode(framer, got)

StoreInv == StoreTyped /\ FileIsOfLast /\ GotWasWritten /\ ResultIsOfGot

\* Nothing was sent yet.
LEMMA StoreStart == StoreInit => StoreInv
<1> SUFFICES ASSUME StoreInit PROVE StoreInv
  OBVIOUS
<1>1. file = <<>> /\ todo = <<>> /\ sent = <<>> /\ got = <<>> /\ result = Nothing
  BY DEF StoreInit
<1>2. StoreTyped
  <2>1. <<>> \in Seq(Unit) /\ <<>> \in Seq(Lengths) /\ Len(<<>>) = 0
    OBVIOUS
  <2> QED BY <1>1, <2>1, StoreAssumption DEF StoreInit, StoreTyped
<1>3. FileIsOfLast
  BY <1>1 DEF FileIsOfLast
<1>4. GotWasWritten
  <2>1. Len(got) = 0
    BY <1>1
  <2> QED BY <2>1 DEF GotWasWritten
<1> QED BY <1>1, <1>2, <1>3, <1>4 DEF StoreInv, ResultIsOfGot

\* What is known of a message and its frame.
LEMMA FrameIs == ASSUME StoreTyped, NEW k \in 1..Len(sent)
                 PROVE  k \in Nat /\ sent[k] \in Nat /\ Frame(k) \in Seq(Unit)
<1>1. k \in Nat /\ sent[k] \in Nat
  <2>1. sent \in Seq(Lengths) /\ Lengths \subseteq Nat
    BY StoreAssumption DEF StoreTyped
  <2>2. sent[k] \in Lengths
    BY <2>1, ElementOfSeq
  <2>3. k \in Nat
    BY <2>1
  <2>4. sent[k] \in Nat
    BY <2>1, <2>2, Zenon
  <2> QED BY <2>3, <2>4
<1>2. Encode(framer, k, Payload(k, sent[k])) \in Seq(Unit)
  BY <1>1, FrameType DEF StoreTyped
<1> QED BY <1>1, <1>2 DEF Frame, Whole

\* Frames of messages that were sent stay what they are.
LEMMA FramesKept ==
  ASSUME StoreTyped, NEW n \in Lengths, sent' = Append(sent, n), framer' = framer
  PROVE  \A k \in 1..Len(sent) : k \in 1..Len(sent)' /\ Frame(k)' = Frame(k)
<1>1. \A k \in 1..Len(sent) : sent'[k] = sent[k]
  BY DEF StoreTyped
<1>2. Len(sent') = Len(sent) + 1 /\ Len(sent) \in Nat
  BY DEF StoreTyped
<1> SUFFICES ASSUME NEW k \in 1..Len(sent) PROVE k \in 1..Len(sent') /\ Frame(k)' = Frame(k)
  OBVIOUS
<1>3. k \in 1..Len(sent')
  BY <1>2
<1>4. Whole(k)' = Whole(k)
  BY <1>1 DEF Whole
<1> QED BY <1>3, <1>4 DEF Frame

\* A reader that does not read keeps what it has, although more is sent.
LEMMA GotStays ==
  ASSUME StoreInv, got' = got, \A k \in 1..Len(sent) : k \in 1..Len(sent)' /\ Frame(k)' = Frame(k)
  PROVE  GotWasWritten'
BY DEF StoreInv, GotWasWritten

\* A new message: its frame is to be written, and the file is empty.
LEMMA StartSendKeeps == ASSUME StoreInv, NEW n \in Lengths, StartSend(n) PROVE StoreInv'
<1>0. PICK m : m = Len(sent) + 1
  OBVIOUS
<1> DEFINE frame == Encode(framer, m, Payload(m, n))
<1>1. /\ writer' = "writing" /\ file' = <<>> /\ todo' = frame /\ sent' = Append(sent, n)
      /\ UNCHANGED <<framer, reader, got, result>>
  BY <1>0 DEF StartSend
<1>2. m \in Nat /\ n \in Nat /\ framer \in Kinds /\ sent \in Seq(Lengths)
  BY <1>0, StoreAssumption DEF StoreInv, StoreTyped
<1>3. frame \in Seq(Unit)
  BY <1>2, FrameType
<1>4. sent' \in Seq(Lengths) /\ Len(sent') = m /\ sent'[m] = n /\ sent' # <<>>
  BY <1>0, <1>1, <1>2
<1>5. StoreTyped'
  <2>1. <<>> \in Seq(Unit)
    OBVIOUS
  <2> HIDE DEF frame
  <2> QED BY <1>1, <1>3, <1>4, <2>1 DEF StoreInv, StoreTyped
<1>6. Frame(m)' = frame
  BY <1>1, <1>4 DEF Frame, Whole
<1>7. FileIsOfLast'
  <2> HIDE DEF frame
  <2>1. <<>> \o frame = frame
    BY <1>3, ConcatEmptySeq
  <2>2. IsStart(frame, frame)
    BY <1>3 DEF IsStart
  <2>3. file' \o todo' = todo' /\ IsStart(todo', Frame(m)')
    BY <1>1, <1>6, <2>1, <2>2
  <2>4. Frame(Len(sent))' = Frame(m)'
    BY <1>4 DEF Frame, Whole
  <2> QED BY <1>4, <2>3, <2>4 DEF FileIsOfLast
<1>8. GotWasWritten'
  BY <1>1, FramesKept, GotStays DEF StoreInv
<1> QED BY <1>1, <1>5, <1>7, <1>8 DEF StoreInv, ResultIsOfGot

\* Pieces may be joined in any order.
LEMMA Regroup ==
  ASSUME NEW s \in Seq(Unit), NEW t \in Seq(Unit), NEW u \in Seq(Unit)
  PROVE  (s \o t) \o u = s \o (t \o u)
BY ConcatAssociative

\* What moves from todo to the file.
LEMMA Moved ==
  ASSUME NEW s \in Seq(Unit), NEW t \in Seq(Unit), NEW n \in 1..Len(t)
  PROVE  LET a == SubSeq(t, 1, n)
             b == SubSeq(t, n + 1, Len(t))
         IN  s \o a \in Seq(Unit) /\ b \in Seq(Unit) /\ (s \o a) \o b = s \o t
<1> DEFINE a == SubSeq(t, 1, n)
           b == SubSeq(t, n + 1, Len(t))
<1>1. a \in Seq(Unit) /\ b \in Seq(Unit)
  OBVIOUS
<1>2. a \o b = t
  <2>1. 1 \in 1..Len(t) + 1 /\ n \in 1 - 1..Len(t) /\ Len(t) \in n..Len(t)
    OBVIOUS
  <2>2. SubSeq(t, 1, n) \o SubSeq(t, n + 1, Len(t)) = SubSeq(t, 1, Len(t))
    BY <2>1, ConcatAdjacentSubSeq
  <2> QED BY <2>2, SubSeqFull
<1> HIDE DEF a, b
<1>3. (s \o a) \o b = s \o (a \o b)
  BY <1>1, Regroup
<1> QED BY <1>1, <1>2, <1>3, ConcatProperties DEF a, b

\* A piece goes from what is to be written to the file.
LEMMA WriteKeeps == ASSUME StoreInv, NEW n \in 1..Len(todo), Write(n) PROVE StoreInv'
<1>1. /\ file' = file \o SubSeq(todo, 1, n) /\ todo' = SubSeq(todo, n + 1, Len(todo))
      /\ UNCHANGED <<framer, writer, sent, reader, got, result>>
  BY DEF Write
<1>2. file \in Seq(Unit) /\ todo \in Seq(Unit)
  BY DEF StoreInv, StoreTyped
<1>3. file' \in Seq(Unit) /\ todo' \in Seq(Unit) /\ file' \o todo' = file \o todo
  BY <1>1, <1>2, Moved
<1>4. StoreTyped'
  BY <1>1, <1>3 DEF StoreInv, StoreTyped
<1>5. Frame(Len(sent))' = Frame(Len(sent))
  BY <1>1 DEF Frame, Whole
<1>6. FileIsOfLast'
  <2>1. todo # <<>>
    BY <1>2
  <2> QED BY <1>1, <1>3, <1>5, <2>1 DEF StoreInv, FileIsOfLast
<1>7. GotWasWritten'
  BY <1>1 DEF StoreInv, GotWasWritten, Frame, Whole
<1> QED BY <1>1, <1>4, <1>6, <1>7 DEF StoreInv, ResultIsOfGot

\* The file stays a beginning of the frame, wherever send() ends.
LEMMA StopSendKeeps == ASSUME StoreInv, StopSend PROVE StoreInv'
<1>1. /\ writer' = "idle" /\ todo' = <<>>
      /\ UNCHANGED <<framer, file, sent, reader, got, result>>
  BY DEF StopSend
<1>2. file \in Seq(Unit) /\ todo \in Seq(Unit)
  BY DEF StoreInv, StoreTyped
<1>3. StoreTyped'
  <2>1. <<>> \in Seq(Unit)
    OBVIOUS
  <2> QED BY <1>1, <2>1 DEF StoreInv, StoreTyped
<1>4. FileIsOfLast'
  <2>1. CASE sent = <<>>
    BY <1>1, <2>1 DEF StoreInv, FileIsOfLast
  <2>2. CASE sent # <<>>
    <3>1. IsStart(file \o todo, Frame(Len(sent)))
      BY <2>2 DEF StoreInv, FileIsOfLast
    <3>2. IsJoin(file \o todo, file, todo)
      BY <1>2, Joined
    <3> DEFINE both == file \o todo
    <3> HIDE DEF both
    <3>3. Len(file) \in Nat /\ Len(todo) \in Nat
      BY <1>2
    <3>4. IsStart(file, Frame(Len(sent)))
      <4>1. IsStart(both, Frame(Len(sent))) /\ IsJoin(both, file, todo)
        BY <3>1, <3>2 DEF both
      <4>2. Len(both) = Len(file) + Len(todo) /\ \A i \in 1..Len(file) : both[i] = file[i]
        BY <4>1 DEF IsJoin
      <4>3. /\ Len(both) <= Len(Frame(Len(sent)))
            /\ \A i \in 1..Len(both) : both[i] = Frame(Len(sent))[i]
        BY <4>1 DEF IsStart
      <4>4. Len(sent) \in 1..Len(sent)
        BY <2>2 DEF StoreInv, StoreTyped
      <4>5. Len(Frame(Len(sent))) \in Nat
        BY <4>4, FrameIs DEF StoreInv
      <4> QED BY <3>3, <4>2, <4>3, <4>5 DEF IsStart
    <3>5. file \o <<>> = file
      BY <1>2, ConcatEmptySeq
    <3>6. Frame(Len(sent))' = Frame(Len(sent))
      BY <1>1 DEF Frame, Whole
    <3> QED BY <1>1, <2>2, <3>4, <3>5, <3>6 DEF FileIsOfLast
  <2> QED BY <2>1, <2>2
<1>5. GotWasWritten'
  BY <1>1 DEF StoreInv, GotWasWritten, Frame, Whole
<1> QED BY <1>1, <1>3, <1>4, <1>5 DEF StoreInv, ResultIsOfGot

\* A new recv() has nothing.
LEMMA StartRecvKeeps == ASSUME StoreInv, StartRecv PROVE StoreInv'
<1>1. /\ reader' = "reading" /\ got' = <<>> /\ result' = Nothing
      /\ UNCHANGED <<framer, file, todo, writer, sent>>
  BY DEF StartRecv
<1>2. StoreTyped'
  <2>1. <<>> \in Seq(Unit) /\ Len(<<>>) = 0
    OBVIOUS
  <2> QED BY <1>1, <2>1, StoreAssumption DEF StoreInv, StoreTyped
<1>3. FileIsOfLast'
  <2>1. Frame(Len(sent))' = Frame(Len(sent))
    BY <1>1 DEF Frame, Whole
  <2> QED BY <1>1, <2>1 DEF StoreInv, FileIsOfLast
<1>4. GotWasWritten'
  <2>1. Len(got') = 0
    BY <1>1
  <2> QED BY <2>1 DEF GotWasWritten
<1> QED BY <1>1, <1>2, <1>3, <1>4 DEF StoreInv, ResultIsOfGot

\* What is in the file is of the last frame.
LEMMA FileWasWritten ==
  ASSUME StoreInv, NEW i \in 1..Len(file)
  PROVE  \E k \in 1..Len(sent) : i <= Len(Frame(k)) /\ file[i] = Frame(k)[i]
<1>1. file \in Seq(Unit) /\ todo \in Seq(Unit)
  BY DEF StoreInv, StoreTyped
<1>2. sent # <<>>
  BY <1>1 DEF StoreInv, FileIsOfLast
<1>3. Len(sent) \in 1..Len(sent)
  BY <1>2 DEF StoreInv, StoreTyped
<1> DEFINE both == file \o todo
<1>4. IsJoin(both, file, todo)
  BY <1>1, Joined
<1>5. IsStart(both, Frame(Len(sent)))
  BY <1>2 DEF StoreInv, FileIsOfLast
<1> HIDE DEF both
<1>6. Len(Frame(Len(sent))) \in Nat
  BY <1>3, FrameIs DEF StoreInv
<1>7. i \in 1..Len(both) /\ both[i] = file[i]
  BY <1>1, <1>4 DEF IsJoin
<1>8. i <= Len(Frame(Len(sent))) /\ file[i] = Frame(Len(sent))[i]
  BY <1>1, <1>4, <1>5, <1>6, <1>7 DEF IsStart, IsJoin
<1> QED BY <1>3, <1>8

\* What is read was in the file, at the place it gets in the buffer.
LEMMA ReadKeeps == ASSUME StoreInv, NEW n \in 1..BufferSize, Read(n) PROVE StoreInv'
<1> DEFINE piece == SubSeq(file, Len(got) + 1, Len(got) + n)
<1>1. /\ reader = "reading" /\ n <= BufferSize - Len(got) /\ Len(got) + n <= Len(file)
      /\ got' = got \o piece
      /\ UNCHANGED <<framer, file, todo, writer, sent, reader, result>>
  BY DEF Read, Left
<1>2. /\ file \in Seq(Unit) /\ got \in Seq(Unit) /\ Len(got) \in Nat /\ n \in Nat
      /\ Len(file) \in Nat
  BY StoreAssumption DEF StoreInv, StoreTyped
<1>3. IsPiece(piece, file, Len(got), n)
  BY <1>1, <1>2, PieceOf
<1> HIDE DEF piece
<1>4. IsJoin(got', got, piece)
  BY <1>1, <1>2, <1>3, Joined DEF IsPiece
<1>5. got' \in Seq(Unit) /\ Len(got') = Len(got) + n
  BY <1>3, <1>4 DEF IsPiece, IsJoin
<1>6. StoreTyped'
  BY <1>1, <1>2, <1>5, StoreAssumption DEF StoreInv, StoreTyped
<1>7. FileIsOfLast'
  <2>1. Frame(Len(sent))' = Frame(Len(sent))
    BY <1>1 DEF Frame, Whole
  <2> QED BY <1>1, <2>1 DEF StoreInv, FileIsOfLast
<1>8. \A k : Frame(k)' = Frame(k)
  BY <1>1 DEF Frame, Whole
<1>9. GotWasWritten'
  <2> SUFFICES ASSUME NEW i \in 1..Len(got')
               PROVE  \E k \in 1..Len(sent) : i <= Len(Frame(k)) /\ got'[i] = Frame(k)[i]
    BY <1>1, <1>8 DEF GotWasWritten
  <2>1. CASE i \in 1..Len(got)
    <3>1. got'[i] = got[i]
      BY <1>4, <2>1 DEF IsJoin
    <3> QED BY <2>1, <3>1 DEF StoreInv, GotWasWritten
  <2>2. CASE i \notin 1..Len(got)
    <3>1. i - Len(got) \in 1..n /\ i \in 1..Len(file)
      BY <1>1, <1>2, <1>5, <2>2
    <3>2. got'[Len(got) + (i - Len(got))] = piece[i - Len(got)]
      BY <1>3, <1>4, <3>1 DEF IsJoin, IsPiece
    <3>3. piece[i - Len(got)] = file[Len(got) + (i - Len(got))]
      BY <1>3, <3>1 DEF IsPiece
    <3>4. Len(got) + (i - Len(got)) = i
      BY <1>2
    <3>5. got'[i] = file[i]
      BY <3>2, <3>3, <3>4
    <3> QED BY <3>1, <3>5, FileWasWritten
  <2> QED BY <2>1, <2>2
<1> QED BY <1>1, <1>6, <1>7, <1>9 DEF StoreInv, ResultIsOfGot

\* decode() is called.
LEMMA EndRecvKeeps == ASSUME StoreInv, EndRecv PROVE StoreInv'
<1>1. /\ reader' = "idle" /\ result' = (IF got = <<>> THEN Nothing ELSE Decode(framer, got))
      /\ UNCHANGED <<framer, file, todo, writer, sent, got>>
  BY DEF EndRecv
<1>2. StoreTyped'
  BY <1>1 DEF StoreInv, StoreTyped
<1>3. \A k : Frame(k)' = Frame(k)
  BY <1>1 DEF Frame, Whole
<1>4. FileIsOfLast' /\ GotWasWritten'
  BY <1>1, <1>3 DEF StoreInv, FileIsOfLast, GotWasWritten
<1> QED BY <1>1, <1>2, <1>4 DEF StoreInv, ResultIsOfGot

\* One step of either process.
LEMMA StoreStep == StoreInv /\ [StoreNext]_storeVars => StoreInv'
<1> SUFFICES ASSUME StoreInv, [StoreNext]_storeVars PROVE StoreInv'
  OBVIOUS
<1>1. CASE UNCHANGED storeVars
  BY <1>1 DEF StoreInv, StoreTyped, FileIsOfLast, GotWasWritten, ResultIsOfGot, Frame, Whole,
              storeVars
<1>2. CASE \E n \in Lengths : StartSend(n)
  BY <1>2, StartSendKeeps
<1>3. CASE \E n \in 1..Len(todo) : Write(n)
  BY <1>3, WriteKeeps
<1>4. CASE StopSend
  BY <1>4, StopSendKeeps
<1>5. CASE StartRecv
  BY <1>5, StartRecvKeeps
<1>6. CASE \E n \in 1..BufferSize : Read(n)
  BY <1>6, ReadKeeps
<1>7. CASE EndRecv
  BY <1>7, EndRecvKeeps
<1> QED BY <1>1, <1>2, <1>3, <1>4, <1>5, <1>6, <1>7 DEF StoreNext

\* No step breaks the invariant, in however many pieces send() and recv() move a frame
\* and wherever the writer stops.
THEOREM StoreInvariant == StoreSpec => []StoreInv
BY StoreStart, StoreStep, PTL DEF StoreSpec

\* decode() returns OK or ERR_FORMAT.
LEMMA DecodedIs ==
  ASSUME NEW frame, NEW kind \in Kinds
  PROVE  Decode(kind, frame).code \in {"OK", "ERR_FORMAT"}
<1>1. Error.code = "ERR_FORMAT" /\ \A p : Decoded(p).code \in {"OK", "ERR_FORMAT"}
  BY DEF Error, Decoded
<1>2. /\ DecodeLengthPrefix(frame).code \in {"OK", "ERR_FORMAT"}
      /\ DecodeChunks(frame).code \in {"OK", "ERR_FORMAT"}
  BY <1>1 DEF DecodeLengthPrefix, DecodeChunks
<1>3. DecodeCrc(frame).code \in {"OK", "ERR_FORMAT"}
  BY <1>1 DEF DecodeCrc
<1> QED BY <1>1, <1>2, <1>3 DEF Decode, Kinds

\* With OK comes what was in the frame.
LEMMA DecodedOK ==
  ASSUME NEW p, Decoded(p).code = "OK"
  PROVE  Decoded(p).payload = p
BY DEF Decoded, Error

\* The variables of both processes keep their ranges, and recv() stays inside of its buffer.
THEOREM StoreTypeIsOK == StoreSpec => []StoreTypeOK
<1>1. StoreInv => StoreTypeOK
  <2>1. Nothing.code = "none"
    BY DEF Nothing
  <2> QED BY <2>1, DecodedIs DEF StoreInv, StoreTyped, ResultIsOfGot, StoreTypeOK
<1> QED BY <1>1, StoreInvariant, PTL

\* What was read as it was written is decoded to the message, for every framer (encode()
\* and decode() of src/framer), every length and every size of a chunk.
THEOREM StoreRoundTrip == StoreSpec => []RoundTrip
<1>1. StoreInv => RoundTrip
  <2> SUFFICES ASSUME StoreInv, NEW m \in 1..Len(sent), result # Nothing, got = Frame(m)
               PROVE  result = Decoded(Whole(m))
    BY DEF RoundTrip, Frame
  <2>1. result = Decode(framer, got)
    BY DEF StoreInv, ResultIsOfGot
  <2>2. m \in Nat /\ sent[m] \in Nat
    BY FrameIs DEF StoreInv
  <2>3. framer \in Kinds
    BY DEF StoreInv, StoreTyped
  <2>4. Decode(framer, Encode(framer, m, Payload(m, sent[m]))) = Decoded(Payload(m, sent[m]))
    BY <2>2, <2>3, DecodeUndoesEncode
  <2> QED BY <2>1, <2>4 DEF Frame, Whole
<1> QED BY <1>1, StoreInvariant, PTL

\* The places of a frame that has its length in front.
LEMMA UnitOfFrame ==
  ASSUME StoreTyped, framer \in {"length_prefix", "crc"}, NEW k \in 1..Len(sent)
  PROVE  /\ Len(Frame(k)) = sent[k] + (IF framer = "crc" THEN 2 ELSE 1)
         /\ Frame(k)[1] = Header(k, sent[k])
         /\ \A i \in 1..sent[k] : Frame(k)[1 + i] = Whole(k)[i]
         /\ framer = "crc" => Frame(k)[2 + sent[k]] = Checksum(k, Whole(k))
<1>1. k \in Nat /\ sent[k] \in Nat
  BY FrameIs
<1>2. CASE framer = "length_prefix"
  <2>1. Frame(k) = EncodeLengthPrefix(k, Payload(k, sent[k]))
    BY <1>2 DEF Frame, Whole, Encode
  <2> QED BY <1>1, <1>2, <2>1, LengthPrefixIs DEF IsPrefixed, Whole
<1>3. CASE framer = "crc"
  <2>1. Frame(k) = EncodeCrc(k, Payload(k, sent[k]))
    BY <1>3 DEF Frame, Whole, Encode
  <2> DEFINE frame == EncodeCrc(k, Payload(k, sent[k]))
  <2>2. /\ IsPrefixed(frame, k, sent[k]) /\ Len(frame) = sent[k] + 2
        /\ frame[2 + sent[k]] = Checksum(k, Payload(k, sent[k]))
    BY <1>1, CrcIs
  <2> HIDE DEF frame
  <2>3. Frame(k) = frame
    BY <2>1 DEF frame
  <2> QED BY <1>3, <2>2, <2>3 DEF IsPrefixed, Whole
<1> QED BY <1>2, <1>3

\* Every unit of such a frame carries its message, and only one place has a checksum.
LEMMA LabelOfUnit ==
  ASSUME StoreTyped, framer \in {"length_prefix", "crc"}, NEW k \in 1..Len(sent),
         NEW i \in 1..Len(Frame(k))
  PROVE  /\ Frame(k)[i].m = k
         /\ Frame(k)[i].kind = "length" <=> i = 1
         /\ Frame(k)[i].kind = "crc" <=> framer = "crc" /\ i = 2 + sent[k]
<1>1. k \in Nat /\ sent[k] \in Nat
  BY FrameIs
<1>2. CASE i = 1
  <2>1. Frame(k)[i] = Header(k, sent[k])
    BY <1>2, UnitOfFrame
  <2> QED BY <1>1, <1>2, <2>1 DEF Header
<1>3. CASE i \in 2..1 + sent[k]
  <2>1. i - 1 \in 1..sent[k] /\ 1 + (i - 1) = i
    BY <1>1, <1>3
  <2>2. Frame(k)[1 + (i - 1)] = Whole(k)[i - 1]
    BY <2>1, UnitOfFrame
  <2>3. Whole(k)[i - 1] = [kind |-> "byte", m |-> k, at |-> i - 1]
    BY <1>1, <2>1, PayloadIs DEF Whole
  <2>4. Frame(k)[i] = [kind |-> "byte", m |-> k, at |-> i - 1]
    BY <2>1, <2>2, <2>3
  <2> QED BY <1>1, <1>3, <2>4
<1>4. CASE framer = "crc" /\ i = 2 + sent[k]
  <2>1. Frame(k)[i] = Checksum(k, Whole(k))
    BY <1>4, UnitOfFrame
  <2> QED BY <1>1, <1>4, <2>1 DEF Checksum
<1>5. i = 1 \/ i \in 2..1 + sent[k] \/ (framer = "crc" /\ i = 2 + sent[k])
  <2>1. Len(Frame(k)) = sent[k] + (IF framer = "crc" THEN 2 ELSE 1)
    BY UnitOfFrame
  <2> QED BY <1>1, <2>1
<1> QED BY <1>2, <1>3, <1>4, <1>5

\* The frame that the first unit begins.
LEMMA FirstUnit ==
  ASSUME StoreInv, framer \in {"length_prefix", "crc"}, got # <<>>
  PROVE  LET k == got[1].m
         IN  /\ k \in 1..Len(sent) /\ got[1] = Header(k, sent[k])
             /\ Head(got).n = sent[k]
<1>1. got \in Seq(Unit) /\ 1 \in 1..Len(got)
  BY DEF StoreInv, StoreTyped
<1>2. PICK k \in 1..Len(sent) : 1 <= Len(Frame(k)) /\ got[1] = Frame(k)[1]
  BY <1>1 DEF StoreInv, GotWasWritten
<1>3. got[1] = Header(k, sent[k])
  BY <1>2, UnitOfFrame DEF StoreInv
<1>4. Head(got) = got[1]
  BY <1>1
<1>5. got[1].m = k /\ got[1].n = sent[k]
  BY <1>3 DEF Header
<1> QED BY <1>2, <1>3, <1>4, <1>5

\* What decode() accepted, and that it was long enough.
LEMMA AcceptedIs ==
  ASSUME StoreInv, framer \in {"length_prefix", "crc"}, result.code = "OK"
  PROVE  /\ got # <<>> /\ result.payload = Body(got)
         /\ Len(got) >= 1 + Head(got).n
         /\ framer = "crc" => /\ Len(got) >= 2 + Head(got).n
                              /\ got[2 + Head(got).n].kind = "crc"
                              /\ got[2 + Head(got).n].of = Body(got)
<1>1. got # <<>> /\ result = Decode(framer, got)
  BY DEF StoreInv, ResultIsOfGot, Nothing
<1>2. Head(got).n \in Nat /\ Len(got) \in Nat
  <2>1. got[1].m \in 1..Len(sent) /\ Head(got).n = sent[got[1].m]
    BY <1>1, FirstUnit
  <2> QED BY <2>1, FrameIs DEF StoreInv, StoreTyped
<1>3. Error.code # "OK"
  BY DEF Error
<1>4. CASE framer = "length_prefix"
  <2>1. Decode(framer, got) = DecodeLengthPrefix(got)
    BY <1>4 DEF Decode
  <2>2. ~TooShort(got, 0) /\ result = Decoded(Body(got))
    BY <1>1, <1>3, <2>1 DEF DecodeLengthPrefix
  <2> QED BY <1>1, <1>2, <1>4, <2>2, DecodedOK DEF TooShort
<1>5. CASE framer = "crc"
  <2>1. Decode(framer, got) = DecodeCrc(got)
    BY <1>5 DEF Decode
  <2>2. /\ ~TooShort(got, 1) /\ result = Decoded(Body(got))
        /\ got[2 + Head(got).n].kind = "crc"
        /\ got[2 + Head(got).n].of = Checksum(0, Body(got)).of
    BY <1>1, <1>3, <2>1 DEF DecodeCrc
  <2>3. Checksum(0, Body(got)).of = Body(got)
    BY DEF Checksum
  <2> QED BY <1>1, <1>2, <2>2, <2>3, DecodedOK DEF TooShort
<1> QED BY <1>4, <1>5

\* Chunks that are all of one message are a beginning of its frame.
LEMMA ChunksOfOne ==
  ASSUME StoreInv, framer = "chunked", result.code = "OK", Unmixed
  PROVE  \E k \in 1..Len(sent) : k = got[1].m /\ IsStart(got, Frame(k))
<1>1. got \in Seq(Unit) /\ got # <<>> /\ 1 \in 1..Len(got)
  BY DEF StoreInv, StoreTyped, ResultIsOfGot, Nothing
<1>2. ASSUME NEW i \in 1..Len(got), NEW k \in 1..Len(sent), i <= Len(Frame(k)),
             got[i] = Frame(k)[i]
      PROVE  k = got[1].m
  <2>1. k \in Nat /\ sent[k] \in Nat /\ Len(Frame(k)) \in Nat
    BY FrameIs DEF StoreInv
  <2> DEFINE p == Payload(k, sent[k])
  <2>2. /\ p \in Seq(Unit) /\ Len(p) = sent[k]
        /\ \A j \in 1..sent[k] : p[j] = [kind |-> "byte", m |-> k, at |-> j]
    BY <2>1, PayloadIs
  <2>3. Frame(k) = Chunks(k, p)
    BY DEF Frame, Whole, Encode
  <2> HIDE DEF p
  <2>4. \A j \in 1..Len(p) : p[j].m = k
    <3> SUFFICES ASSUME NEW j \in 1..sent[k] PROVE p[j].m = k
      BY <2>2
    <3>1. p[j] = [kind |-> "byte", m |-> k, at |-> j]
      BY <2>2
    <3> QED BY <3>1
  <2>5. Frame(k)[i].m = k
    <3>1. i \in 1..Len(Frame(k))
      BY <1>1, <1>2, <2>1
    <3> QED BY <2>1, <2>2, <2>3, <2>4, <3>1, ChunksLabels
  <2> QED BY <1>2, <2>5 DEF Unmixed
<1>3. PICK k \in 1..Len(sent) : k = got[1].m
  BY <1>1, <1>2 DEF StoreInv, GotWasWritten
<1>4. \A i \in 1..Len(got) : i <= Len(Frame(k)) /\ got[i] = Frame(k)[i]
  BY <1>2, <1>3 DEF StoreInv, GotWasWritten
<1>5. Len(got) <= Len(Frame(k))
  BY <1>1, <1>4
<1> QED BY <1>3, <1>4, <1>5 DEF IsStart

\* A message that lost its end, in the file or in the reader's buffer, is refused by
\* length_prefix_decode() and crc_decode(), wherever it was cut, and what chunked_decode()
\* makes of it are its first chunks, none of them cut.
THEOREM StoreCutIsDetected == StoreSpec => []CutIsDetected
<1>1. ASSUME StoreInv, framer \in {"length_prefix", "crc"}, result.code = "OK", Unmixed
      PROVE  result.payload = Whole(got[1].m)
  <2>1. PICK k \in 1..Len(sent) : k = got[1].m
    BY <1>1, AcceptedIs, FirstUnit
  <2>2. /\ got \in Seq(Unit) /\ got[1] = Header(k, sent[k]) /\ Head(got).n = sent[k]
        /\ Len(got) >= 1 + sent[k]
    BY <1>1, <2>1, AcceptedIs, FirstUnit DEF StoreInv, StoreTyped
  <2>3. k \in Nat /\ sent[k] \in Nat
    BY <1>1, FrameIs DEF StoreInv
  <2>4. \A i \in 1..sent[k] : got[1 + i] = Payload(k, sent[k])[i]
    <3> SUFFICES ASSUME NEW i \in 1..sent[k] PROVE got[1 + i] = Payload(k, sent[k])[i]
      OBVIOUS
    <3>1. 1 + i \in 1..Len(got)
      BY <2>2, <2>3
    <3>2. PICK j \in 1..Len(sent) : 1 + i <= Len(Frame(j)) /\ got[1 + i] = Frame(j)[1 + i]
      BY <1>1, <3>1 DEF StoreInv, GotWasWritten
    <3>3. 1 + i \in 1..Len(Frame(j))
      BY <1>1, <2>3, <3>2, FrameIs DEF StoreInv
    <3>4. Frame(j)[1 + i].m = j
      BY <1>1, <3>3, LabelOfUnit DEF StoreInv
    <3>5. j = k
      BY <1>1, <2>1, <3>1, <3>2, <3>4 DEF Unmixed
    <3> QED BY <1>1, <3>2, <3>5, UnitOfFrame DEF StoreInv, Whole
  <2>5. IsPrefixed(got, k, sent[k])
    BY <2>2, <2>4 DEF IsPrefixed
  <2>6. Body(got) = Payload(k, sent[k])
    BY <2>2, <2>3, <2>5, BodyOfPrefixed
  <2> QED BY <1>1, <2>1, <2>6, AcceptedIs DEF Whole
<1>2. ASSUME StoreInv, framer = "chunked", result.code = "OK", Unmixed
      PROVE  WholeChunks(result.payload, got[1].m)
  <2>1. PICK k \in 1..Len(sent) : k = got[1].m /\ IsStart(got, Frame(k))
    BY <1>2, ChunksOfOne
  <2> DEFINE p == Payload(k, sent[k])
             at == ChunksAt(got)
  <2>2. k \in Nat /\ sent[k] \in Nat /\ got \in Seq(Unit)
    BY <1>2, FrameIs DEF StoreInv, StoreTyped
  <2>3. p \in Seq(Unit) /\ Len(p) = sent[k]
    BY <2>2, PayloadIs
  <2>4. Frame(k) = Chunks(k, p)
    BY <1>2 DEF Frame, Whole, Encode
  <2> HIDE DEF p
  <2>5. GivesChunks(got, 0, p, 0)
    BY <2>1, <2>2, <2>3, <2>4, CutChunksDecoded
  <2>6. at[0] # Error /\ result = Decoded(at[0].payload)
    <3>1. result = DecodeChunks(got)
      BY <1>2 DEF StoreInv, ResultIsOfGot, Nothing, Decode
    <3> QED BY <1>2, <3>1 DEF DecodeChunks, Error
  <2>7. PICK end \in 0..sent[k] : IsBoundary(sent[k], end) /\ at[0].payload = SubSeq(p, 1, end)
    <3>1. PICK rest \in ChunksAfter(p, 0) : Gives(got, 0, rest)
      BY <2>5, <2>6 DEF GivesChunks
    <3>2. at[0].payload = rest
      BY <3>1 DEF Gives
    <3> HIDE DEF at
    <3>3. PICK end \in 0..sent[k] : IsBoundary(sent[k], end) /\ rest = SubSeq(p, 0 + 1, end)
      BY <2>3, <3>1 DEF ChunksAfter
    <3>4. 0 + 1 = 1
      OBVIOUS
    <3> QED BY <3>2, <3>3, <3>4
  <2>8. result.payload = SubSeq(p, 1, end)
    <3> DEFINE decoded == at[0].payload
    <3> HIDE DEF decoded
    <3>1. result = Decoded(decoded) /\ Decoded(decoded).code = "OK"
      BY <1>2, <2>6 DEF decoded
    <3>2. result.payload = decoded
      BY <3>1, DecodedOK
    <3> QED BY <2>7, <3>2 DEF decoded
  <2>9. Len(result.payload) = end
    <3>1. IsPiece(SubSeq(p, 0 + 1, 0 + end), p, 0, end)
      BY <2>2, <2>3, PieceOf
    <3>2. 0 + 1 = 1 /\ 0 + end = end
      BY <2>2
    <3> QED BY <2>8, <3>1, <3>2 DEF IsPiece
  <2>10. end = sent[k] \/ \E chunks \in 0..end : end = chunks * MaxChunk
    <3>1. ASSUME NEW chunks \in Nat, end = chunks * MaxChunk PROVE chunks <= end
      BY <3>1, FramersAssumption
    <3> QED BY <2>2, <2>7, <3>1 DEF IsBoundary
  <2> QED BY <2>1, <2>2, <2>8, <2>9, <2>10 DEF WholeChunks, Whole, p
<1>3. StoreInv => CutIsDetected
  BY <1>1, <1>2 DEF CutIsDetected
<1> QED BY <1>3, StoreInvariant, PTL

\* crc_decode() accepts no mixture of messages: a unit that says it is a checksum is the last
\* of its frame, so the length in front is that of its own message.
THEOREM StoreAcceptedWasSent == StoreSpec => []AcceptedWasSent
<1>1. StoreInv => AcceptedWasSent
  <2> SUFFICES ASSUME StoreInv, framer = "crc", result.code = "OK"
               PROVE  \E m \in 1..Len(sent) : result.payload = Whole(m)
    BY DEF AcceptedWasSent
  <2> DEFINE n == Head(got).n
  <2>1. /\ result.payload = Body(got) /\ Len(got) >= 2 + n
        /\ got[2 + n].kind = "crc" /\ got[2 + n].of = Body(got)
    BY AcceptedIs
  <2>2. n \in Nat
    <3>1. got[1].m \in 1..Len(sent) /\ Head(got).n = sent[got[1].m]
      BY AcceptedIs, FirstUnit
    <3> QED BY <3>1, FrameIs DEF StoreInv
  <2> HIDE DEF n
  <2>3. 2 + n \in 1..Len(got)
    BY <2>1, <2>2 DEF StoreInv, StoreTyped
  <2>4. PICK m \in 1..Len(sent) : 2 + n <= Len(Frame(m)) /\ got[2 + n] = Frame(m)[2 + n]
    BY <2>3 DEF StoreInv, GotWasWritten
  <2>5. 2 + n \in 1..Len(Frame(m))
    BY <2>2, <2>4, FrameIs DEF StoreInv
  <2>6. 2 + n = 2 + sent[m]
    BY <2>1, <2>4, <2>5, LabelOfUnit DEF StoreInv
  <2>7. Frame(m)[2 + sent[m]] = Checksum(m, Whole(m))
    BY UnitOfFrame DEF StoreInv
  <2>8. Body(got) = Whole(m)
    BY <2>1, <2>4, <2>6, <2>7 DEF Checksum
  <2> QED BY <2>1, <2>8
<1> QED BY <1>1, StoreInvariant, PTL
=============================================================================
