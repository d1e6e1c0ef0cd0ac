---------------------------- MODULE MCEndToEnd -----------------------------
(***************************************************************************)
(* Texts about the size of a block: empty, one byte short of a block, a    *)
(* block that ends in what looks like padding, two blocks, and texts that  *)
(* callers or the transport have no room for.  Two keys, one for AES-256,  *)
(* and two for ChaCha20, one of them with a counter whose next value       *)
(* carries into its second byte.                                           *)
(* The texts for AES make use of every entry of its two tables.            *)
(***************************************************************************)
EXTENDS EndToEnd

Bytes(n, first, step) == SubSeq([i \in 1..n |-> (first + i * step) % 256], 1, n)

FirstKey == Bytes(32, 0, 1)
SecondKey == Bytes(32, 200, 37)
LongKey == Bytes(48, 5, 3)
NonceKey == Bytes(46, 9, 29)
CountedKey == Bytes(44, 77, 41) \o <<255, 0, 0, 0>>

Msg(text, cipher, key) == [text |-> text, cipher |-> cipher, key |-> key]

MCKeys == {FirstKey, SecondKey, CountedKey}
MCSecrets == {  Msg(<<>>, "aes-128-cbc", FirstKey),
                Msg(Bytes(15, 17, 59), "aes-128-cbc", FirstKey),
                Msg(Bytes(14, 90, 101) \o <<2, 2>>, "aes-128-cbc", SecondKey),
                Msg(Bytes(32, 9, 11), "aes-128-cbc", FirstKey),
                Msg(<<7>>, "aes-128-cbc", LongKey),
                Msg(Bytes(70, 30, 13), "chacha20", CountedKey),
                Msg(Bytes(3, 60, 19), "chacha20", NonceKey),
                Msg(<<7>>, "chacha20", FirstKey),
                Msg(Bytes(20, 0, 11), "xor_stream", FirstKey),
                Msg(Bytes(79, 0, 11), "xor_stream", FirstKey),
                Msg(Bytes(78, 0, 11), "none", FirstKey),
                Msg(<<7>>, "public_key", FirstKey) }
=============================================================================
