----------------------------- MODULE EndToEnd ------------------------------
(***************************************************************************)
(* A sender and a receiver that put a message through all the layers of    *)
(* the library: Crypto, Framer and Transport, the way that                 *)
(* tests/scenarios/scenario_end_to_end_crypto.cpp does: encrypt, encode    *)
(* with the length prefix, send on the loopback transport, and back.  The  *)
(* ciphers are none, xor_stream, ChaCha20, AES and the stub public_key.    *)
(* Messages and keys are bytes; a frame is the header and the bytes behind *)
(* it.                                                                     *)
(*                                                                         *)
(* The receiver may use another key than the sender did.  Callers have a   *)
(* buffer of Room bytes for what encrypt, decode and decrypt write.        *)
(***************************************************************************)
EXTENDS LoopbackTransport, ChaCha20

CONSTANTS Secrets,  \* what is sent: texts, each with its cipher and key
          Keys,     \* the keys of receivers
          Room      \* the size of callers' buffers

Ciphers == {"none", "xor_stream", "chacha20", "aes-128-cbc", "public_key"}

ASSUME EndToEndAssumption ==
  /\ Room \in Nat
  /\ Secrets \subseteq [text : Seq(Byte), cipher : Ciphers, key : Seq(Byte)]
  /\ Keys \subseteq Seq(Byte)

VARIABLES wire,   \* the frame of each message in the queue
          made,   \* ghost: the secret that each of them was made from
          got     \* ghost: what the last receive made of which secret with which key

stackVars == <<vars, wire, made, got>>

Framing == INSTANCE Framers WITH MaxChunk <- 1
HeaderSize == 4

NoOutcome == [of |-> "none"]

\* What none and xor_stream write, if there is room for it.
Copied(data) == IF Len(data) > Room THEN Failed("ERR_FORMAT") ELSE Succeeded(data)

\* The byte of the key that meets byte i of the data.
KeyByte(key, i) == key[((i - 1) % Len(key)) + 1]

XorStream(data, key) ==
  IF Len(key) \notin 1..256 THEN Failed("ERR_CRYPTO")
  ELSE Copied(XorEach(data, [i \in 1..Len(data) |-> KeyByte(key, i)]))

Encrypt(cipher, text, key) ==
  CASE cipher = "none"        -> Copied(text)
    [] cipher = "xor_stream"  -> XorStream(text, key)
    [] cipher = "chacha20"    -> ChaCha20Crypt(text, key, Room)
    [] cipher = "aes-128-cbc" -> AesEncrypt(text, key)
    [] cipher = "public_key"  -> Failed("ERR_UNSUPPORTED")

Decrypt(cipher, data, key) ==
  CASE cipher = "none"        -> Copied(data)
    [] cipher = "xor_stream"  -> XorStream(data, key)
    [] cipher = "chacha20"    -> ChaCha20Crypt(data, key, Room)
    [] cipher = "aes-128-cbc" -> AesDecrypt(data, key)
    [] cipher = "public_key"  -> Failed("ERR_UNSUPPORTED")

Sealed(secret) == Encrypt(secret.cipher, secret.text, secret.key)

----------------------------------------------------------------------------
StackInit == /\ Init
             /\ wire = <<>>
             /\ made = <<>>
             /\ got = NoOutcome

StackOpen == /\ Open
             /\ wire' = <<>>
             /\ made' = <<>>
             /\ got' = NoOutcome

StackClose == /\ Close
              /\ wire' = <<>>
              /\ made' = <<>>
              /\ got' = NoOutcome

\* The key is not one for the cipher, or there is no room.
EncryptFails(secret) == /\ Sealed(secret).code # "OK"
                        /\ got' = NoOutcome
                        /\ UNCHANGED <<vars, wire, made>>

SendSecret(secret) ==
  LET sealed == Sealed(secret)
      frame == Framing!EncodeLengthPrefix(sent + 1, sealed.text)
  IN  /\ sealed.code = "OK"
      /\ Send(HeaderSize + Len(sealed.text))
      /\ IF ret' = "OK"
         THEN wire' = Append(wire, frame) /\ made' = Append(made, secret)
         ELSE UNCHANGED <<wire, made>>
      /\ got' = NoOutcome

\* The transport has nothing for the receiver, or loses it.
ReceiveFails(size) ==
  /\ Recv(size)
  /\ ret' # "OK"
  /\ IF queue' = queue THEN UNCHANGED <<wire, made>>
     ELSE wire' = Tail(wire) /\ made' = Tail(made)
  /\ got' = NoOutcome

\* What the receiver reads in the first frame.
Opened(key) ==
  LET frame == Framing!DecodeLengthPrefix(Head(wire))
  IN  IF frame.code # "OK" THEN Failed(frame.code)
      ELSE Decrypt(Head(made).cipher, frame.payload, key)

ReceiveSecret(size, key) ==
  /\ Recv(size)
  /\ ret' = "OK"
  /\ wire' = Tail(wire)
  /\ made' = Tail(made)
  /\ got' = [of |-> Head(made), key |-> key, opened |-> Opened(key)]

StackNext == \/ StackOpen
             \/ StackClose
             \/ \E secret \in Secrets : EncryptFails(secret) \/ SendSecret(secret)
             \/ \E size \in Size : ReceiveFails(size)
             \/ \E size \in Size, key \in Keys : ReceiveSecret(size, key)

StackSpec == StackInit /\ [][StackNext]_stackVars

----------------------------------------------------------------------------
\* Whoever has the key of a message gets its text, of whatever length and with
\* whatever cipher: also an empty text, one of whole blocks, and one whose last
\* byte looks like padding (aes.cpp:236-270).
OwnKeyOpens ==
  got # NoOutcome /\ got.key = got.of.key => got.opened = Succeeded(got.of.text)

\* What AES puts on the wire is what FIPS 197 and RFC 3602 demand ("NIST FIPS 197
\* compliant", aes.h:9), to the last entry of the tables, and what ChaCha20 does is
\* RFC 8439's, in every block of a message (chacha20.cpp:24-63).
Standard(secret) ==
  LET key == secret.key
  IN  CASE secret.cipher = "aes-128-cbc" -> FipsCipher(secret.text, key)
        [] secret.cipher = "chacha20" ->
             RfcCipher(secret.text, SubSeq(key, 1, 32), SubSeq(key, 33, 44),
                       IF Len(key) = 48 THEN SubSeq(key, 45, 48) ELSE <<0, 0, 0, 0>>)

CipherIsStandard ==
  \A i \in 1..Len(wire) :
     made[i].cipher \in {"aes-128-cbc", "chacha20"} => Tail(wire[i]) = Standard(made[i])

\* A receiver with another key notices.  StackSpec does not have this property: a
\* message of one block that decrypts to bad padding is taken for an empty text
\* ("empty message was encrypted", aes.cpp:385).
WrongKeyNoticed ==
  got # NoOutcome /\ got.key # got.of.key /\ got.of.cipher = "aes-128-cbc" => got.opened.code # "OK"
=============================================================================
