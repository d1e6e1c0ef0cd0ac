-------------------------------- MODULE Aes --------------------------------
(***************************************************************************)
(* AES-128 in CBC mode with PKCS#7 padding (src/crypto/aes.cpp), on bytes: *)
(* its tables are where a slip would hide.  A block, a key and an IV are   *)
(* sequences of 16 bytes, a block column by column as in the code.         *)
(*                                                                         *)
(* At the end stands the cipher as FIPS 197 defines it, by the algebra of  *)
(* the field and not by tables, for the code to be compared with.          *)
(***************************************************************************)
EXTENDS Integers, Sequences, FiniteSets, SequencesExt

Byte == 0..255

SBox ==
  << \h63, \h7c, \h77, \h7b, \hf2, \h6b, \h6f, \hc5, \h30, \h01, \h67, \h2b, \hfe, \hd7, \hab, \h76,
     \hca, \h82, \hc9, \h7d, \hfa, \h59, \h47, \hf0, \had, \hd4, \ha2, \haf, \h9c, \ha4, \h72, \hc0,
     \hb7, \hfd, \h93, \h26, \h36, \h3f, \hf7, \hcc, \h34, \ha5, \he5, \hf1, \h71, \hd8, \h31, \h15,
     \h04, \hc7, \h23, \hc3, \h18, \h96, \h05, \h9a, \h07, \h12, \h80, \he2, \heb, \h27, \hb2, \h75,
     \h09, \h83, \h2c, \h1a, \h1b, \h6e, \h5a, \ha0, \h52, \h3b, \hd6, \hb3, \h29, \he3, \h2f, \h84,
     \h53, \hd1, \h00, \hed, \h20, \hfc, \hb1, \h5b, \h6a, \hcb, \hbe, \h39, \h4a, \h4c, \h58, \hcf,
     \hd0, \hef, \haa, \hfb, \h43, \h4d, \h33, \h85, \h45, \hf9, \h02, \h7f, \h50, \h3c, \h9f, \ha8,
     \h51, \ha3, \h40, \h8f, \h92, \h9d, \h38, \hf5, \hbc, \hb6, \hda, \h21, \h10, \hff, \hf3, \hd2,
     \hcd, \h0c, \h13, \hec, \h5f, \h97, \h44, \h17, \hc4, \ha7, \h7e, \h3d, \h64, \h5d, \h19, \h73,
     \h60, \h81, \h4f, \hdc, \h22, \h2a, \h90, \h88, \h46, \hee, \hb8, \h14, \hde, \h5e, \h0b, \hdb,
     \he0, \h32, \h3a, \h0a, \h49, \h06, \h24, \h5c, \hc2, \hd3, \hac, \h62, \h91, \h95, \he4, \h79,
     \he7, \hc8, \h37, \h6d, \h8d, \hd5, \h4e, \ha9, \h6c, \h56, \hf4, \hea, \h65, \h7a, \hae, \h08,
     \hba, \h78, \h25, \h2e, \h1c, \ha6, \hb4, \hc6, \he8, \hdd, \h74, \h1f, \h4b, \hbd, \h8b, \h8a,
     \h70, \h3e, \hb5, \h66, \h48, \h03, \hf6, \h0e, \h61, \h35, \h57, \hb9, \h86, \hc1, \h1d, \h9e,
     \he1, \hf8, \h98, \h11, \h69, \hd9, \h8e, \h94, \h9b, \h1e, \h87, \he9, \hce, \h55, \h28, \hdf,
     \h8c, \ha1, \h89, \h0d, \hbf, \he6, \h42, \h68, \h41, \h99, \h2d, \h0f, \hb0, \h54, \hbb, \h16 >>

InvSBox ==
  << \h52, \h09, \h6a, \hd5, \h30, \h36, \ha5, \h38, \hbf, \h40, \ha3, \h9e, \h81, \hf3, \hd7, \hfb,
     \h7c, \he3, \h39, \h82, \h9b, \h2f, \hff, \h87, \h34, \h8e, \h43, \h44, \hc4, \hde, \he9, \hcb,
     \h54, \h7b, \h94, \h32, \ha6, \hc2, \h23, \h3d, \hee, \h4c, \h95, \h0b, \h42, \hfa, \hc3, \h4e,
     \h08, \h2e, \ha1, \h66, \h28, \hd9, \h24, \hb2, \h76, \h5b, \ha2, \h49, \h6d, \h8b, \hd1, \h25,
     \h72, \hf8, \hf6, \h64, \h86, \h68, \h98, \h16, \hd4, \ha4, \h5c, \hcc, \h5d, \h65, \hb6, \h92,
     \h6c, \h70, \h48, \h50, \hfd, \hed, \hb9, \hda, \h5e, \h15, \h46, \h57, \ha7, \h8d, \h9d, \h84,
     \h90, \hd8, \hab, \h00, \h8c, \hbc, \hd3, \h0a, \hf7, \he4, \h58, \h05, \hb8, \hb3, \h45, \h06,
     \hd0, \h2c, \h1e, \h8f, \hca, \h3f, \h0f, \h02, \hc1, \haf, \hbd, \h03, \h01, \h13, \h8a, \h6b,
     \h3a, \h91, \h11, \h41, \h4f, \h67, \hdc, \hea, \h97, \hf2, \hcf, \hce, \hf0, \hb4, \he6, \h73,
     \h96, \hac, \h74, \h22, \he7, \had, \h35, \h85, \he2, \hf9, \h37, \he8, \h1c, \h75, \hdf, \h6e,
     \h47, \hf1, \h1a, \h71, \h1d, \h29, \hc5, \h89, \h6f, \hb7, \h62, \h0e, \haa, \h18, \hbe, \h1b,
     \hfc, \h56, \h3e, \h4b, \hc6, \hd2, \h79, \h20, \h9a, \hdb, \hc0, \hfe, \h78, \hcd, \h5a, \hf4,
     \h1f, \hdd, \ha8, \h33, \h88, \h07, \hc7, \h31, \hb1, \h12, \h10, \h59, \h27, \h80, \hec, \h5f,
     \h60, \h51, \h7f, \ha9, \h19, \hb5, \h4a, \h0d, \h2d, \he5, \h7a, \h9f, \h93, \hc9, \h9c, \hef,
     \ha0, \he0, \h3b, \h4d, \hae, \h2a, \hf5, \hb0, \hc8, \heb, \hbb, \h3c, \h83, \h53, \h99, \h61,
     \h17, \h2b, \h04, \h7e, \hba, \h77, \hd6, \h26, \he1, \h69, \h14, \h63, \h55, \h21, \h0c, \h7d >>

Bit(n, i) == (n \div 2^i) % 2
FromBits(bit(_)) == bit(0) + 2 * bit(1) + 4 * bit(2) + 8 * bit(3)
                      + 16 * bit(4) + 32 * bit(5) + 64 * bit(6) + 128 * bit(7)

\* Exclusive or of bytes.
Xor(a, b) == FromBits(LAMBDA i : (Bit(a, i) + Bit(b, i)) % 2)

\* The values of f for each byte, as a sequence: worked out once, and indexed by the
\* byte plus one like the tables of the code.
Table(f(_)) == SubSeq([i \in 1..256 |-> f(i - 1)], 1, 256)

\* The addition of the field GF(2^8).
XorTable == Table(LAMBDA a : Table(LAMBDA b : Xor(a, b)))
Added(a, b) == XorTable[a + 1][b + 1]
XorEach(s, t) == SubSeq([i \in 1..Len(s) |-> Added(s[i], t[i])], 1, Len(s))

\* The function f as a block.
Block(f) == SubSeq(f, 1, 16)

\* Parts of one width as a sequence of bytes.
Joined(width, parts) ==
  LET all == SubSeq(parts, 1, Len(parts))
      n == width * Len(parts)
  IN  SubSeq([k \in 1..n |-> all[((k - 1) \div width) + 1][((k - 1) % width) + 1]], 1, n)

----------------------------------------------------------------------------
\* One turn of gmul()'s loop takes a to this.
Doubled(a) == IF a >= 128 THEN Added((2 * a) % 256, \h1b) ELSE 2 * a

Gmul(a, b) ==
  LET power[i \in 0..7] == IF i = 0 THEN a ELSE Doubled(power[i - 1])
      product[i \in 0..8] == IF i = 0 THEN 0
                             ELSE IF Bit(b, i - 1) = 1 THEN Added(product[i - 1], power[i - 1])
                             ELSE product[i - 1]
  IN  product[8]

\* What bytes become under the factors that the code multiplies with, the largest 14.
Times == SubSeq([factor \in 1..14 |-> Table(LAMBDA a : Gmul(a, factor))], 1, 14)

SubBytes(state) == Block([i \in 1..16 |-> SBox[state[i] + 1]])
InvSubBytes(state) == Block([i \in 1..16 |-> InvSBox[state[i] + 1]])

\* The place that each byte comes from.
ShiftFrom    == <<0, 5, 10, 15, 4, 9, 14, 3, 8, 13, 2, 7, 12, 1, 6, 11>>
UnshiftFrom  == <<0, 13, 10, 7, 4, 1, 14, 11, 8, 5, 2, 15, 12, 9, 6, 3>>

ShiftRows(state) == Block([i \in 1..16 |-> state[ShiftFrom[i] + 1]])
InvShiftRows(state) == Block([i \in 1..16 |-> state[UnshiftFrom[i] + 1]])

MixFactors   == << <<2, 3, 1, 1>>, <<1, 2, 3, 1>>, <<1, 1, 2, 3>>, <<3, 1, 1, 2>> >>
UnmixFactors == << <<14, 11, 13, 9>>, <<9, 14, 11, 13>>, <<13, 9, 14, 11>>, <<11, 13, 9, 14>> >>

Mixed(factors, state) ==
  Block([i \in 1..16 |->
           LET column == 4 * ((i - 1) \div 4)
               term(j) == Times[factors[((i - 1) % 4) + 1][j]][state[column + j] + 1]
           IN  Added(Added(term(1), term(2)), Added(term(3), term(4)))])

State == [1..16 -> Byte]
SubAndShift[state \in State] == ShiftRows(SubBytes(state))
InvSubAndShift[state \in State] == InvSubBytes(InvShiftRows(state))
MixColumns[state \in State] == Mixed(MixFactors, state)
InvMixColumns[state \in State] == Mixed(UnmixFactors, state)

Rcon == <<\h01, \h02, \h04, \h08, \h10, \h20, \h40, \h80, \h1b, \h36>>

\* The words of the expanded key, four bytes each, made from those before.
NextWord(words) ==
  LET n == Len(words)
      last == words[n]
      rotated == <<last[2], last[3], last[4], last[1]>>
      substituted == [j \in 1..4 |-> SBox[rotated[j] + 1]]
      temp == IF n % 4 = 0
              THEN [substituted EXCEPT ![1] = Added(@, Rcon[n \div 4])]
              ELSE last
  IN  XorEach(words[n - 3], temp)

Extended(words) == Append(words, NextWord(words))

KeyExpansion(key) ==
  LET words[n \in 0..40] == IF n = 0 THEN [i \in 1..4 |-> SubSeq(key, 4 * i - 3, 4 * i)]
                            ELSE Extended(words[n - 1])
  IN  Joined(4, words[40])

\* The part of the expanded key for a round, which is added to the state.
RoundKey(expanded, round) == SubSeq(expanded, 16 * round + 1, 16 * round + 16)

\* The last round does not mix the columns, neither does the first one that is undone.
EncryptBlock(input, expanded) ==
  LET key(round) == RoundKey(expanded, round)
      state[round \in 0..9] ==
        IF round = 0 THEN XorEach(input, key(0))
        ELSE XorEach(MixColumns[SubAndShift[state[round - 1]]], key(round))
  IN  XorEach(SubAndShift[state[9]], key(10))

DecryptBlock(input, expanded) ==
  LET key(round) == RoundKey(expanded, round)
      state[undone \in 0..9] ==
        IF undone = 0 THEN XorEach(input, key(10))
        ELSE InvMixColumns[XorEach(InvSubAndShift[state[undone - 1]], key(10 - undone))]
  IN  XorEach(InvSubAndShift[state[9]], key(0))

----------------------------------------------------------------------------
\* How many bytes of padding follow n bytes of text.
PaddingLen(n) == 16 - (n % 16)

Padded(text) == LET n == PaddingLen(Len(text)) IN text \o [i \in 1..n |-> n]

\* What remove_padding() leaves, which is empty also when there is no padding.
Unpadded(padded) ==
  LET n == Last(padded)
      valid == n \in 1..16 /\ \A i \in 0..(n - 1) : padded[Len(padded) - i] = n
  IN  IF valid THEN SubSeq(padded, 1, Len(padded) - n) ELSE <<>>

Blocks(seq) == [i \in 1..(Len(seq) \div 16) |-> SubSeq(seq, 16 * i - 15, 16 * i)]

Failed(code) == [code |-> code, text |-> <<>>]
Succeeded(text) == [code |-> "OK", text |-> text]

\* Each block is combined with what became of the one before it, the first with the IV.
Chained(blocks, iv, expanded) ==
  LET cipher[i \in 0..Len(blocks)] ==
        IF i = 0 THEN iv ELSE EncryptBlock(XorEach(blocks[i], cipher[i - 1]), expanded)
  IN  [i \in 1..Len(blocks) |-> cipher[i]]

\* A key of 32 bytes is a key and an IV; one of 48 would be for AES-256.
AesEncrypt(text, key) ==
  LET expanded == KeyExpansion(SubSeq(key, 1, 16))
      blocks == Chained(Blocks(Padded(text)), SubSeq(key, 17, 32), expanded)
  IN  IF Len(key) \notin {32, 48} THEN Failed("ERR_INVALID_ARG")
      ELSE IF Len(key) = 48 THEN Failed("ERR_UNSUPPORTED")
      ELSE Succeeded(Joined(16, blocks))

\* variant: chains with the blocks that come out
ChainedByOutput(blocks, iv, expanded) ==
  Tail(FoldLeft(LAMBDA done, block :
                  Append(done, XorEach(DecryptBlock(block, expanded), Last(done))),
                <<iv>>, blocks))

\* Each block is decrypted and combined with the one before it, the first with the IV.
Unchained(blocks, iv, expanded) ==
  LET before == <<iv>> \o blocks
  IN  [i \in 1..Len(blocks) |-> XorEach(DecryptBlock(blocks[i], expanded), before[i])]

\* An empty text is a failure, except from a single block.
AesDecrypt(cipher, key) ==
  LET expanded == KeyExpansion(SubSeq(key, 1, 16))
      text == Unpadded(Joined(16, Unchained(Blocks(cipher), SubSeq(key, 17, 32), expanded)))
  IN  IF Len(key) \notin {32, 48} THEN Failed("ERR_INVALID_ARG")
      ELSE IF cipher = <<>> \/ Len(cipher) % 16 # 0 THEN Failed("ERR_FORMAT")
      ELSE IF Len(key) = 48 THEN Failed("ERR_UNSUPPORTED")
      ELSE IF text = <<>> /\ Len(cipher) # 16 THEN Failed("ERR_CRYPTO")
      ELSE Succeeded(text)

----------------------------------------------------------------------------
\* FIPS 197: the product of two bytes as polynomials over GF(2), modulo
\* x^8 + x^4 + x^3 + x + 1: the sum of the products x^(i+j) of their terms.
\* PowersOfX are 1, x, x^2 .. x^14 modulo that.
PowersOfX == <<1, 2, 4, 8, 16, 32, 64, 128, \h1b, \h36, \h6c, \hd8, \hab, \h4d, \h9a>>

FieldSum(f(_)) ==
  Added(Added(Added(Added(Added(Added(Added(f(0), f(1)), f(2)), f(3)), f(4)), f(5)), f(6)), f(7))

\* The value if the byte has the term x^i, or else nothing.
ForTerm(byte, i, value) == IF Bit(byte, i) = 1 THEN value ELSE 0

FieldProduct(a, b) ==
  FieldSum(LAMBDA i : ForTerm(a, i, FieldSum(LAMBDA j : ForTerm(b, j, PowersOfX[i + j + 1]))))

FieldTimes == SubSeq([a \in 1..3 |-> Table(LAMBDA b : FieldProduct(a, b))], 1, 3)

FieldInverse(a) == IF a = 0 THEN 0 ELSE CHOOSE b \in Byte : FieldProduct(a, b) = 1

\* The affine transformation of a byte.
Affine(b) == FromBits(LAMBDA i : (Bit(b, i) + Bit(b, (i + 4) % 8) + Bit(b, (i + 5) % 8)
                                    + Bit(b, (i + 6) % 8) + Bit(b, (i + 7) % 8) + Bit(\h63, i)) % 2)

FipsSubstitution == Table(LAMBDA a : Affine(FieldInverse(a)))

\* The last round without its key, and the mixing that comes in the other rounds: the
\* byte in row r and column c is at 4c + r.
FipsShifted[state \in State] ==
  LET substituted == Block([i \in 1..16 |-> FipsSubstitution[state[i] + 1]])
      shifted(r, c) == substituted[4 * ((c + r) % 4) + (r + 1)]
  IN  Block([i \in 1..16 |-> shifted((i - 1) % 4, (i - 1) \div 4)])

FipsMixed[state \in State] ==
  LET factor(k) == <<2, 3, 1, 1>>[(k % 4) + 1]
      term(r, c, k) == FieldTimes[factor(k - r + 4)][state[4 * c + (k + 1)] + 1]
      mixed(r, c) == Added(Added(term(r, c, 0), term(r, c, 1)), Added(term(r, c, 2), term(r, c, 3)))
  IN  Block([i \in 1..16 |-> mixed((i - 1) % 4, (i - 1) \div 4)])

\* The four words of the next round's key.  A round constant is a power of x.
NextFipsKey(words, round) ==
  LET w == words[4]
      turned == <<Added(FipsSubstitution[w[2] + 1], PowersOfX[round]), FipsSubstitution[w[3] + 1],
                  FipsSubstitution[w[4] + 1], FipsSubstitution[w[1] + 1]>>
      first == XorEach(words[1], turned)
      second == XorEach(words[2], first)
      third == XorEach(words[3], second)
  IN  <<first, second, third, XorEach(words[4], third)>>

FipsBlock(input, key) ==
  LET keys[round \in 0..10] == IF round = 0 THEN [i \in 1..4 |-> SubSeq(key, 4 * i - 3, 4 * i)]
                               ELSE NextFipsKey(keys[round - 1], round)
      state[round \in 0..9] ==
        XorEach(IF round = 0 THEN input ELSE FipsMixed[FipsShifted[state[round - 1]]],
                Joined(4, keys[round]))
  IN  XorEach(FipsShifted[state[9]], Joined(4, keys[10]))

\* A text as RFC 3602 has it encrypted: padded, chained, block by block.
FipsCipher(text, key) ==
  LET n == Len(text) \div 16 + 1
      padding == 16 * n - Len(text)
      plain(i) == Block([j \in 1..16 |-> LET k == 16 * (i - 1) + j
                                         IN  IF k <= Len(text) THEN text[k] ELSE padding])
      cipher[i \in 0..n] ==
        IF i = 0 THEN SubSeq(key, 17, 32)
        ELSE FipsBlock(XorEach(plain(i), cipher[i - 1]), SubSeq(key, 1, 16))
  IN  Joined(16, [i \in 1..n |-> cipher[i]])
=============================================================================
