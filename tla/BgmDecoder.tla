----------------------------- MODULE BgmDecoder -----------------------------
(***************************************************************************)
(* AudioDecoderThread.java: startPlay, called on a record thread, makes an *)
(* extractor and a decoder and starts a thread that decodes and plays      *)
(* until stop() is called or the music ends.  The extractor, the decoder   *)
(* and eosReceived are fields of one object, without a lock: every thread  *)
(* works on whatever the fields hold when it reads them, and the one that  *)
(* ends releases and clears what it finds.                                 *)
(*                                                                         *)
(* An exception on a decoder thread is caught by nobody and ends the       *)
(* process.  MediaCodec is external: a dequeue may time out at any time.   *)
(***************************************************************************)
CONSTANTS Player,    \* the threads that call startPlay
          Decoder,   \* bound: the decoders and their threads alive together
          Null       \* a field that is not set

VARIABLES eosReceived,
          mExtractor,    \* the field is set
          mDecoder,      \* the decoder the field holds
          codec,         \* the state of each decoder
          thread,        \* where the thread of each startPlay is
          player,        \* where each caller of startPlay is
          crashed,       \* an exception has ended the process
          overlapped     \* a startPlay has met a thread of an earlier one

fields == <<eosReceived, mExtractor, mDecoder>>
vars == <<fields, codec, thread, player, crashed, overlapped>>

Init == /\ eosReceived = FALSE /\ mExtractor = FALSE /\ mDecoder = Null
        /\ codec = [d \in Decoder |-> "none"]
        /\ thread = [d \in Decoder |-> "none"]
        /\ player = [p \in Player |-> "idle"]
        /\ crashed = FALSE /\ overlapped = FALSE

Playing == \E d \in Decoder : thread[d] # "none"
-----------------------------------------------------------------------------
(* startPlay and stop                                                      *)

\* The flag is cleared and the extractor made.
StartPlay(p) == /\ player[p] = "idle"
                /\ player' = [player EXCEPT ![p] = "starting"]
                /\ eosReceived' = FALSE
                /\ mExtractor' = TRUE
                /\ overlapped' = (overlapped \/ Playing \/ \E q \in Player : player[q] # "idle")
                /\ UNCHANGED <<mDecoder, codec, thread, crashed>>

\* No audio track of a known rate is found and startPlay returns, or an exception
\* is thrown to its caller before there is a decoder.
NoPlay(p) == /\ player[p] = "starting"
             /\ player' = [player EXCEPT ![p] = "idle"]
             /\ UNCHANGED <<fields, codec, thread, crashed, overlapped>>

\* Faulty variant: the decoder is kept in a local, and the field is not set.
CreateDecoder_Local(p, d) ==
    /\ player[p] = "starting" /\ codec[d] = "none" /\ thread[d] = "none"
    /\ player' = [player EXCEPT ![p] = "idle"]
    /\ codec' = [codec EXCEPT ![d] = "started"]
    /\ thread' = [thread EXCEPT ![d] = "begin"]
    /\ UNCHANGED <<fields, crashed, overlapped>>

\* The decoder is made, configured and started; then its thread.
CreateDecoder(p, d) ==
    /\ player[p] = "starting" /\ codec[d] = "none" /\ thread[d] = "none"
    /\ player' = [player EXCEPT ![p] = "idle"]
    /\ mDecoder' = d
    /\ codec' = [codec EXCEPT ![d] = "started"]
    /\ thread' = [thread EXCEPT ![d] = "begin"]
    /\ UNCHANGED <<eosReceived, mExtractor, crashed, overlapped>>

\* configure or start throws to the caller: the decoder is left in the field.
DecoderThrows(p, d) ==
    /\ player[p] = "starting" /\ codec[d] = "none" /\ thread[d] = "none"
    /\ player' = [player EXCEPT ![p] = "idle"]
    /\ mDecoder' = d
    /\ codec' = [codec EXCEPT ![d] = "made"]
    /\ UNCHANGED <<eosReceived, mExtractor, thread, crashed, overlapped>>

Stop == /\ eosReceived' = TRUE
        /\ UNCHANGED <<mExtractor, mDecoder, codec, thread, player, crashed, overlapped>>
-----------------------------------------------------------------------------
(* AACDecoderAndPlay, the body of a decoder thread                         *)

Goto(d, from, to) == thread[d] = from /\ thread' = [thread EXCEPT ![d] = to]

DecoderUsable == mDecoder # Null

Begin(d) == /\ Goto(d, "begin", "test")
            /\ DecoderUsable
            /\ UNCHANGED <<fields, codec, player, crashed, overlapped>>

\* Faulty variant: the flag is read once and kept, as the language allows.
TestEos_Cached(d) == /\ Goto(d, "test", "input")
                     /\ UNCHANGED <<fields, codec, player, crashed, overlapped>>

TestEos(d) == /\ Goto(d, "test", IF eosReceived THEN "stop" ELSE "input")
              /\ UNCHANGED <<fields, codec, player, crashed, overlapped>>

\* dequeueInputBuffer: a buffer, or none within the timeout.
DequeueInput(d) == /\ thread[d] = "input"
                   /\ DecoderUsable
                   /\ \E next \in {"feed", "test"} : thread' = [thread EXCEPT ![d] = next]
                   /\ UNCHANGED <<fields, codec, player, crashed, overlapped>>

\* A sample of the extractor, or the end-of-stream flag, is queued.
QueueInput(d) == /\ Goto(d, "feed", "output")
                 /\ DecoderUsable /\ mExtractor
                 /\ UNCHANGED <<fields, codec, player, crashed, overlapped>>

\* dequeueOutputBuffer: a chunk for the listener and the loudspeaker, which may be
\* the last, or nothing to play.
DequeueOutput(d) == /\ thread[d] = "output"
                    /\ DecoderUsable /\ mExtractor
                    /\ \E next \in {"stop", "test"} : thread' = [thread EXCEPT ![d] = next]
                    /\ UNCHANGED <<fields, codec, player, crashed, overlapped>>

\* Faulty variant: the decoder is stopped, not released.
ReleaseDecoder_StopOnly(d) ==
    /\ Goto(d, "stop", "release") /\ DecoderUsable
    /\ mDecoder' = Null
    /\ UNCHANGED <<eosReceived, mExtractor, codec, player, crashed, overlapped>>

\* mDecoder.stop(), release(), and the field is cleared.
ReleaseDecoder(d) == /\ Goto(d, "stop", "release") /\ DecoderUsable
                     /\ codec' = [codec EXCEPT ![mDecoder] = "none"]
                     /\ mDecoder' = Null
                     /\ UNCHANGED <<eosReceived, mExtractor, player, crashed, overlapped>>

ReleaseExtractor(d) == /\ Goto(d, "release", "none")
                       /\ mExtractor
                       /\ mExtractor' = FALSE
                       /\ UNCHANGED <<eosReceived, mDecoder, codec, player, crashed, overlapped>>

\* A null field is used.
Crash(d) == /\ \/ thread[d] \in {"begin", "input", "feed", "output", "stop"} /\ ~DecoderUsable
               \/ thread[d] \in {"feed", "output", "release"} /\ ~mExtractor
            /\ crashed' = TRUE
            /\ UNCHANGED <<fields, codec, thread, player, overlapped>>

Decode(d) == \/ Begin(d) \/ TestEos(d) \/ DequeueInput(d) \/ QueueInput(d) \/ DequeueOutput(d)
             \/ ReleaseDecoder(d) \/ ReleaseExtractor(d) \/ Crash(d)
-----------------------------------------------------------------------------
TypeOK == /\ eosReceived \in BOOLEAN /\ mExtractor \in BOOLEAN
          /\ mDecoder \in Decoder \cup {Null}
          /\ codec \in [Decoder -> {"none", "made", "started"}]
          /\ thread \in [Decoder -> {"none", "begin", "test", "input", "feed", "output",
                                     "stop", "release"}]
          /\ player \in [Player -> {"idle", "starting"}]
          /\ crashed \in BOOLEAN /\ overlapped \in BOOLEAN
=============================================================================
