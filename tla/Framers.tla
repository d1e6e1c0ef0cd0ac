------------------------------ MODULE Framers ------------------------------
(***************************************************************************)
(* The framers of src/framer: raw, length_prefix, crc and chunked, as      *)
(* functions from payloads to frames and back.                             *)
(*                                                                         *)
(* A frame is a sequence of units, each read and written as one: a byte of *)
(* the payload, a length header, a checksum, a chunk size, a line end.     *)
(* Every unit says which message it was written for, which no framer       *)
(* looks at.  A checksum is the payload it was computed over: two payloads *)
(* with one CRC32 are left out, and so are bytes that happen to look like  *)
(* a unit of another kind.                                                 *)
(***************************************************************************)
EXTENDS Integers, Sequences

CONSTANTS MaxChunk,  \* MAX_CHUNK_SIZE: 1024
          Room       \* the size of the buffer that decode() fills

ASSUME FramersAssumption == MaxChunk \in Nat \ {0} /\ Room \in Nat

Kinds == {"raw", "length_prefix", "crc", "chunked"}
Error == [code |-> "ERR_FORMAT"]
Decoded(payload) == IF Len(payload) > Room THEN Error
                    ELSE [code |-> "OK", payload |-> payload]

\* Message m of n bytes.
Payload(m, n) == [i \in 1..n |-> [kind |-> "byte", m |-> m, at |-> i]]

Header(m, n) == [kind |-> "length", m |-> m, n |-> n]
LineEnd(m) == [kind |-> "crlf", m |-> m]
SizeLine(m, n) == [kind |-> "size", m |-> m, n |-> n]

\* variant: the checksum does not depend on the payload's first byte
ChecksumButFirst(m, payload) ==
  [kind |-> "crc", m |-> m, of |-> SubSeq(payload, 2, Len(payload))]

Checksum(m, payload) == [kind |-> "crc", m |-> m, of |-> payload]

\* The size of the next chunk when so many bytes are left.
ChunkSize(left) == IF left > MaxChunk THEN MaxChunk ELSE left

\* What follows when so much of the payload has been encoded.
ChunksFrom(m, payload) ==
  LET from[offset \in 0..Len(payload)] ==
        LET n == ChunkSize(Len(payload) - offset)
        IN  IF n = 0 THEN <<SizeLine(m, 0), LineEnd(m), LineEnd(m)>>
            ELSE <<SizeLine(m, n), LineEnd(m)>> \o SubSeq(payload, offset + 1, offset + n)
                   \o <<LineEnd(m)>> \o from[offset + n]
  IN  from

Chunks(m, payload) == ChunksFrom(m, payload)[0]

EncodeLengthPrefix(m, payload) == <<Header(m, Len(payload))>> \o payload

EncodeCrc(m, payload) ==
  <<Header(m, Len(payload))>> \o payload \o <<Checksum(m, payload)>>

Encode(kind, m, payload) ==
  CASE kind = "raw"           -> payload
    [] kind = "length_prefix" -> EncodeLengthPrefix(m, payload)
    [] kind = "crc"           -> EncodeCrc(m, payload)
    [] kind = "chunked"       -> Chunks(m, payload)

----------------------------------------------------------------------------
\* A frame is too short for the length that its header announces.
TooShort(frame, trailer) == Len(frame) < 1 + Head(frame).n + trailer

\* variant: the header is not skipped
BodyFromHeader(frame) == SubSeq(frame, 1, Head(frame).n)

\* What follows the header; anything after that is left alone.
Body(frame) == SubSeq(frame, 2, 1 + Head(frame).n)

\* variant: goes by the size of the frame and not by its header
DecodeAllThatFollows(frame) == IF frame = <<>> THEN Error ELSE Decoded(Tail(frame))

DecodeLengthPrefix(frame) ==
  IF frame = <<>> \/ TooShort(frame, 0) THEN Error ELSE Decoded(Body(frame))

DecodeCrc(frame) ==
  IF Len(frame) < 2 \/ TooShort(frame, 1) THEN Error
  ELSE LET received == frame[2 + Head(frame).n]
       IN  IF received.kind = "crc" /\ received.of = Checksum(0, Body(frame)).of
           THEN Decoded(Body(frame)) ELSE Error

IsLineEnd(frame, i) == i <= Len(frame) /\ frame[i].kind = "crlf"

\* What the loop puts into the output from an offset of the frame on.  It also ends
\* where the frame does, after any whole chunk.
ChunksAt(frame) ==
  LET at[offset \in 0..Len(frame)] ==
        IF offset = Len(frame) THEN [code |-> "OK", payload |-> <<>>]
        ELSE IF frame[offset + 1].kind # "size" \/ ~IsLineEnd(frame, offset + 2) THEN Error
        ELSE LET n == frame[offset + 1].n
                 next == offset + 3 + n
             IN  IF ~IsLineEnd(frame, next) THEN Error
                 ELSE IF n = 0 THEN IF next = Len(frame) THEN [code |-> "OK", payload |-> <<>>]
                                    ELSE Error
                 ELSE IF at[next] = Error THEN Error
                 ELSE [code    |-> "OK",
                       payload |-> SubSeq(frame, offset + 3, offset + 2 + n) \o at[next].payload]
  IN  at

DecodeChunks(frame) ==
  IF ChunksAt(frame)[0] = Error THEN Error ELSE Decoded(ChunksAt(frame)[0].payload)

Decode(kind, frame) ==
  CASE kind = "raw"           -> Decoded(frame)
    [] kind = "length_prefix" -> DecodeLengthPrefix(frame)
    [] kind = "crc"           -> DecodeCrc(frame)
    [] kind = "chunked"       -> DecodeChunks(frame)
=============================================================================
