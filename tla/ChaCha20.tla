----------------------------- MODULE ChaCha20 ------------------------------
(***************************************************************************)
(* The stream cipher of src/crypto/chacha20.cpp.  A 32-bit word is the     *)
(* sequence of its four bytes, the lowest first, which is also how the     *)
(* code reads and writes it; a state is a sequence of sixteen words.       *)
(*                                                                         *)
(* At the end stands the cipher of RFC 8439 in another form, with the      *)
(* state as a matrix whose rows are turned, for the code to be compared    *)
(* with.                                                                   *)
(***************************************************************************)
EXTENDS Aes

\* a + b modulo 2^32.
Plus(a, b) ==
  LET sum(i) == a[i] + b[i]
      carry[i \in 0..4] == IF i = 0 THEN 0 ELSE (sum(i) + carry[i - 1]) \div 256
  IN  SubSeq([i \in 1..4 |-> (sum(i) + carry[i - 1]) % 256], 1, 4)

\* (w << n) | (w >> (32 - n))
RotL(w, n) ==
  LET byte(i) == w[((i - 1 - (n \div 8)) % 4) + 1]
      bits == 2^(n % 8)
  IN  SubSeq([i \in 1..4 |-> ((byte(i) * bits) % 256) + ((byte(i - 1) * bits) \div 256)], 1, 4)

Word == [1..4 -> Byte]

\* x += y; z ^= x; z is rotated by n: the new x and z.
Step(x, y, z, n) ==
  LET sum == Plus(x, y) IN <<sum, RotL(XorEach(z, sum), n)>>

Turns == <<16, 12, 8, 7>>

\* A quarter round on the words with these indices, from 0.
QuarterRound(words, at) ==
  LET add(w, x, y, z, n) ==
        LET new == Step(w[at[x] + 1], w[at[y] + 1], w[at[z] + 1], n)
        IN  [w EXCEPT ![at[x] + 1] = new[1], ![at[z] + 1] = new[2]]
      one == add(words, 1, 2, 4, Turns[1])
      two == add(one, 3, 4, 2, Turns[2])
      three == add(two, 1, 2, 4, Turns[3])
  IN  add(three, 3, 4, 2, Turns[4])

\* The columns, then the diagonals.
Quarters == << <<0, 4, 8, 12>>, <<1, 5, 9, 13>>, <<2, 6, 10, 14>>, <<3, 7, 11, 15>>,
               <<0, 5, 10, 15>>, <<1, 6, 11, 12>>, <<2, 7, 8, 13>>, <<3, 4, 9, 14>> >>

DoubleRound[words \in Seq(Word)] ==
  LET after[i \in 0..8] == IF i = 0 THEN words ELSE QuarterRound(after[i - 1], Quarters[i])
  IN  after[8]

ChaChaBlock(state) ==
  LET working[i \in 0..10] == IF i = 0 THEN state ELSE DoubleRound[working[i - 1]]
      last == working[10]
  IN  Joined(4, [i \in 1..16 |-> Plus(last[i], state[i])])

\* "expand 32-byte k"
ChaChaConstants == << <<\h65, \h78, \h70, \h61>>, <<\h6e, \h64, \h20, \h33>>,
                      <<\h32, \h2d, \h62, \h79>>, <<\h74, \h65, \h20, \h6b>> >>

Words(bytes) == [i \in 1..(Len(bytes) \div 4) |-> SubSeq(bytes, 4 * i - 3, 4 * i)]

\* The counter is there in a key of 48 bytes only.
ChaChaState(key) ==
  ChaChaConstants \o Words(SubSeq(key, 1, 32))
    \o <<IF Len(key) >= 48 THEN SubSeq(key, 45, 48) ELSE <<0, 0, 0, 0>>>>
    \o Words(SubSeq(key, 33, 44))

\* variant: every block gets the same keystream
CounterKept(counter) == counter

NextCounter(counter) == Plus(counter, <<1, 0, 0, 0>>)

\* The keystream of so many blocks.
KeyStream(key, blocks) ==
  LET start == ChaChaState(key)
      counter[i \in 0..blocks] == IF i = 0 THEN start[13] ELSE NextCounter(counter[i - 1])
  IN  Joined(64, [i \in 1..blocks |-> ChaChaBlock([start EXCEPT ![13] = counter[i - 1]])])

ChaCha20Crypt(data, key, room) ==
  IF Len(key) \notin 44..48 THEN Failed("ERR_CRYPTO")
  ELSE IF Len(data) > room THEN Failed("ERR_FORMAT")
  ELSE Succeeded(XorEach(data, KeyStream(key, (Len(data) + 63) \div 64)))

----------------------------------------------------------------------------
\* RFC 8439, with a word as its two halves, the lower one first.
Half == 2^16
HalvesOf(word) == <<word[1] + 256 * word[2], word[3] + 256 * word[4]>>
BytesOf(h) == <<h[1] % 256, h[1] \div 256, h[2] % 256, h[2] \div 256>>
SumOf(a, b) == <<(a[1] + b[1]) % Half, (a[2] + b[2] + ((a[1] + b[1]) \div Half)) % Half>>
HalfXor(x, y) == Added(x % 256, y % 256) + 256 * Added(x \div 256, y \div 256)
XorOf(a, b) == <<HalfXor(a[1], b[1]), HalfXor(a[2], b[2])>>
Rotated(a, n) ==
  IF n = 16 THEN <<a[2], a[1]>>
  ELSE <<((a[1] * 2^n) % Half) + (a[2] \div 2^(16 - n)),
         ((a[2] * 2^n) % Half) + (a[1] \div 2^(16 - n))>>

\* A quarter round makes a column from a column.
RfcQuarter(column) ==
  LET half(q, n, m) ==
        LET a == SumOf(q[1], q[2])
            d == Rotated(XorOf(q[4], a), n)
            c == SumOf(q[3], d)
        IN  <<a, Rotated(XorOf(q[2], c), m), c, d>>
  IN  half(half(column, 16, 12), 8, 7)

\* f(1) to f(4).
Four(f(_)) == <<f(1), f(2), f(3), f(4)>>

\* Columns after the rows have been turned to the left by 0, 1, 2 and 3, or back.
Turned(columns, sign) ==
  Four(LAMBDA c : Four(LAMBDA r : columns[((c - 1 + sign * (r - 1)) % 4) + 1][r]))

Columns == [1..4 -> [1..4 -> [1..2 -> Nat]]]

RfcDouble[columns \in Columns] ==
  LET all(m) == Four(LAMBDA c : RfcQuarter(m[c]))
  IN  Turned(all(Turned(all(columns), 1)), -1)

RfcBlock(key, nonce, counter) ==
  LET bytes == Joined(4, ChaChaConstants) \o key \o counter \o nonce
      word(c, r) == HalvesOf(SubSeq(bytes, 16 * (r - 1) + 4 * c - 3, 16 * (r - 1) + 4 * c))
      first == Four(LAMBDA c : Four(LAMBDA r : word(c, r)))
      after[i \in 0..10] == IF i = 0 THEN first ELSE RfcDouble[after[i - 1]]
      last == after[10]
      sum(k) == SumOf(first[(k % 4) + 1][(k \div 4) + 1], last[(k % 4) + 1][(k \div 4) + 1])
  IN  Joined(4, [i \in 1..16 |-> BytesOf(sum(i - 1))])

\* A block of the keystream for each block of the text, the counter one more for each.
RfcCipher(text, key, nonce, counter) ==
  LET count(i) == BytesOf(SumOf(HalvesOf(counter), <<i - 1, 0>>))
  IN  XorEach(text, Joined(64, [i \in 1..((Len(text) + 63) \div 64) |->
                                  RfcBlock(key, nonce, count(i))]))
=============================================================================
