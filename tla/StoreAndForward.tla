-------------------------- MODULE StoreAndForward --------------------------
(***************************************************************************)
(* Store and forward (tests/scenarios/scenario_store_and_forward.cpp): one *)
(* process frames messages and sends them through the file transport       *)
(* (src/transport/file.cpp), another receives and decodes them, and all    *)
(* that they share is the file.                                            *)
(*                                                                         *)
(* send() truncates the file and writes the frame through stdio, recv()    *)
(* reads it through stdio, each in as many pieces as the library and the   *)
(* kernel choose, so the two interleave.  A writer may stop at any piece:  *)
(* the process ends, or the disk is full, which send() reports only when   *)
(* fwrite finds it and not when fclose does.                               *)
(***************************************************************************)
EXTENDS Framers

CONSTANTS Lengths,      \* lengths of messages
          BufferSize,   \* the size of the buffer that recv() fills
          MaxMessages   \* bound on the messages sent

ASSUME StoreAssumption == Lengths \subseteq Nat /\ BufferSize \in Nat /\ MaxMessages \in Nat

VARIABLES framer,   \* the framer both use
          file,     \* the units in the file
          todo,     \* the units that send() has yet to write
          writer,   \* "idle" or "writing"
          sent,     \* the messages sent, in order: the length of each
          reader,   \* "idle" or "reading"
          got,      \* the units that recv() has read, or read last
          result    \* what decode() made of them

storeVars == <<framer, file, todo, writer, sent, reader, got, result>>

Nothing == [code |-> "none"]
Whole(m) == Payload(m, sent[m])

StoreInit == /\ framer \in Kinds
             /\ file = <<>>
             /\ todo = <<>>
             /\ writer = "idle"
             /\ sent = <<>>
             /\ reader = "idle"
             /\ got = <<>>
             /\ result = Nothing

----------------------------------------------------------------------------
\* encode(), then fopen() for writing.
StartSend(n) == /\ writer = "idle"
                /\ Len(sent) < MaxMessages
                /\ writer' = "writing"
                /\ file' = <<>>
                /\ todo' = Encode(framer, Len(sent) + 1, Payload(Len(sent) + 1, n))
                /\ sent' = Append(sent, n)
                /\ UNCHANGED <<framer, reader, got, result>>

\* A piece goes to the file.
Write(n) == /\ writer = "writing"
            /\ file' = file \o SubSeq(todo, 1, n)
            /\ todo' = SubSeq(todo, n + 1, Len(todo))
            /\ UNCHANGED <<framer, writer, sent, reader, got, result>>

\* send() is over, or the writer is; what is not written never will be.
StopSend == /\ writer = "writing"
            /\ writer' = "idle"
            /\ todo' = <<>>
            /\ UNCHANGED <<framer, file, sent, reader, got, result>>

StartRecv == /\ reader = "idle"
             /\ reader' = "reading"
             /\ got' = <<>>
             /\ result' = Nothing
             /\ UNCHANGED <<framer, file, todo, writer, sent>>

\* What is left of the buffer.
Left == BufferSize - Len(got)

\* A piece of the file as it is now, from where the last one ended.
Read(n) == /\ reader = "reading"
           /\ n <= Left
           /\ Len(got) + n <= Len(file)
           /\ got' = got \o SubSeq(file, Len(got) + 1, Len(got) + n)
           /\ UNCHANGED <<framer, file, todo, writer, sent, reader, result>>

\* The end of the file or of the buffer.  Nothing read is ERR_IO, and decode()
\* is called with what was read otherwise.
EndRecv == /\ reader = "reading"
           /\ Left = 0 \/ Len(got) >= Len(file)
           /\ reader' = "idle"
           /\ result' = IF got = <<>> THEN Nothing ELSE Decode(framer, got)
           /\ UNCHANGED <<framer, file, todo, writer, sent, got>>

StoreNext == \/ \E n \in Lengths : StartSend(n)
             \/ \E n \in 1..Len(todo) : Write(n)
             \/ StopSend
             \/ StartRecv
             \/ \E n \in 1..BufferSize : Read(n)
             \/ EndRecv

StoreSpec == StoreInit /\ [][StoreNext]_storeVars

----------------------------------------------------------------------------
StoreTypeOK == /\ framer \in Kinds
               /\ writer \in {"idle", "writing"}
               /\ reader \in {"idle", "reading"}
               /\ sent \in Seq(Lengths)
               /\ Len(got) <= BufferSize
               /\ result.code \in {"none", "OK", "ERR_FORMAT"}

\* decode() undoes encode(): a frame that was read as it was written gives the
\* message back, for every framer and every length, unless decode()'s buffer is
\* too small for it.
RoundTrip ==
  \A m \in 1..Len(sent) :
     reader = "idle" /\ result # Nothing /\ got = Encode(framer, m, Whole(m))
        => result = Decoded(Whole(m))

\* One unit of a frame after another came from the same message.
Unmixed == \A i \in 1..Len(got) : got[i].m = got[1].m

\* All of a message, or chunks of it from the first on, none of them cut.
WholeChunks(payload, m) ==
  /\ Len(payload) <= sent[m] /\ payload = SubSeq(Whole(m), 1, Len(payload))
  /\ \/ Len(payload) = sent[m]
     \/ \E chunks \in 0..Len(payload) : Len(payload) = chunks * MaxChunk

\* A message that was cut short, by a writer that stopped, one that has not
\* finished, or a buffer too small, is not taken for a message by the framers
\* that write its length in front; and of chunks only whole ones are.
CutIsDetected ==
  result.code = "OK" /\ Unmixed =>
    /\ framer \in {"length_prefix", "crc"} => result.payload = Whole(got[1].m)
    /\ framer = "chunked" => WholeChunks(result.payload, got[1].m)

\* With a checksum no mixture of messages is accepted either, as a reader may
\* get that is overtaken by the next send(): what decode() accepts is a message
\* that was sent ("reliable detection of transmission errors", crc.h:21).
AcceptedWasSent ==
  framer = "crc" /\ result.code = "OK"
     => \E m \in 1..Len(sent) : result.payload = Whole(m)

\* "Final zero chunk marks end of transmission", "Returns ERR_FORMAT on malformed
\* input" (chunked.h:31, 37): a chunked frame without its end is not accepted.  StoreSpec
\* does not have this property: the decoder's loop also ends where the frame does.
UnterminatedIsDetected ==
  framer = "chunked" /\ result.code = "OK" /\ Unmixed => result.payload = Whole(got[1].m)
=============================================================================
