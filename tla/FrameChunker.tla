---------------------------- MODULE FrameChunker ----------------------------
(***************************************************************************)
(* processStream of MainActivity.java with merge and getSRCRight: a record *)
(* thread cuts what the microphone delivers into frames of ten             *)
(* milliseconds, keeps the rest for the next call, and cuts the far-end    *)
(* stream into as many frames.  The rests are fields of the activity and   *)
(* outlive the recording.  One record thread runs at a time here; two of   *)
(* them are the subject of RecordSession.                                  *)
(*                                                                         *)
(* A sample is its position among those passed to processStream.  The      *)
(* far-end chunk has the length of the music chunk and the content of the  *)
(* microphone buffer: line 197 takes the shorts from byteBuffer.  null and *)
(* an empty rest are the same to merge, and both are << >> here.           *)
(***************************************************************************)
EXTENDS Naturals, Sequences

CONSTANTS sampleRate_10ms,  \* samples in ten milliseconds, 480 in the code
          BufferLen,        \* samples in the microphone buffer, 1024
          BgmLen,           \* the lengths a music chunk may have
          MaxSamples        \* bound: samples passed between two failures

ASSUME FrameAssumption == sampleRate_10ms \in Nat \ {0}
ASSUME LengthAssumption == BufferLen \in Nat /\ BgmLen \subseteq Nat

VARIABLES mRightSrcData, mRightBGMData,
          pc,                        \* where the record thread is
          mergeShort, mergeBGMShort, \* locals of processStream
          i,                         \* its loop counter
          given, givenFar,           \* all samples passed since a failure
          sent, sentFar              \* those cut into frames since then

rests == <<mRightSrcData, mRightBGMData>>
locals == <<mergeShort, mergeBGMShort, i>>
history == <<given, givenFar, sent, sentFar>>
vars == <<rests, pc, locals, history>>

Init == /\ mRightSrcData = <<>> /\ mRightBGMData = <<>>
        /\ pc = "idle"
        /\ mergeShort = <<>> /\ mergeBGMShort = <<>> /\ i = 0
        /\ given = <<>> /\ givenFar = <<>> /\ sent = <<>> /\ sentFar = <<>>

-----------------------------------------------------------------------------
\* Faulty variant: a rest is forgotten when there is new data.
Merge_DropsRest(leftData, srcData) == srcData

Merge(leftData, srcData) == leftData \o srcData

\* Faulty variant: the rest is not counted.
LoopCount_OfChunk(merged) == BufferLen \div sampleRate_10ms

LoopCount(merged) == Len(merged) \div sampleRate_10ms

\* Faulty variant: starts at the last sample already used.
GetSRCRight_OffByOne(merged, n) ==
    SubSeq(merged, IF n = 0 THEN 1 ELSE n * sampleRate_10ms, Len(merged))

\* What n frames leave of an array.
GetSRCRight(merged, n) == SubSeq(merged, n * sampleRate_10ms + 1, Len(merged))

\* The frame that follows n frames.
Frame(merged, n) == SubSeq(merged, n * sampleRate_10ms + 1, (n + 1) * sampleRate_10ms)

HasFrame(merged, n) == (n + 1) * sampleRate_10ms <= Len(merged)

-----------------------------------------------------------------------------
\* A record thread comes to its loop.  After a failure both rests are null.
Begin == /\ pc \in {"idle", "short", "failed"}
         /\ pc' = "read"
         /\ IF pc = "idle"
            THEN UNCHANGED history
            ELSE /\ given' = <<>> /\ givenFar' = <<>>
                 /\ sent' = <<>> /\ sentFar' = <<>>
         /\ UNCHANGED <<rests, locals>>

\* The flag is found cleared.
Stop == pc = "read" /\ pc' = "idle" /\ UNCHANGED <<rests, locals, history>>

\* The shorts of the next microphone buffer.
Buffer == [k \in 1 .. BufferLen |-> Len(given) + k]

\* One turn of the loop, with n samples of music decoded since.
CallProcessStream(n) ==
    /\ pc = "read" /\ n <= BufferLen
    /\ Len(given) + BufferLen <= MaxSamples
    /\ LET bgm == SubSeq(Buffer, 1, n) IN
       /\ mergeShort' = Merge(mRightSrcData, Buffer)
       /\ mergeBGMShort' = Merge(mRightBGMData, bgm)
       /\ given' = given \o Buffer
       /\ givenFar' = givenFar \o bgm
    /\ mRightSrcData' = <<>> /\ mRightBGMData' = <<>>
    /\ i' = 0
    /\ pc' = "frame"
    /\ UNCHANGED <<sent, sentFar>>

\* getBuffer finds too little in the microphone buffer, and the thread ends.
BufferUnderflow(n) == /\ pc = "read" /\ n > BufferLen
                      /\ pc' = "idle"
                      /\ UNCHANGED <<rests, locals, history>>

\* A frame of each stream goes through the APM and on to the encoder.
ProcessFrame == /\ pc = "frame" /\ i < LoopCount(mergeShort)
                /\ HasFrame(mergeBGMShort, i)
                /\ sent' = sent \o Frame(mergeShort, i)
                /\ sentFar' = sentFar \o Frame(mergeBGMShort, i)
                /\ i' = i + 1
                /\ UNCHANGED <<rests, pc, mergeShort, mergeBGMShort, given, givenFar>>

\* arraycopy throws: there is no far-end frame to go with the near-end one.
FarEndTooShort == /\ pc = "frame" /\ i < LoopCount(mergeShort)
                  /\ ~HasFrame(mergeBGMShort, i)
                  /\ pc' = "short"
                  /\ UNCHANGED <<rests, locals, history>>

\* The encoder is stopped while the frame is on its way.
PushThrows == /\ pc = "frame" /\ i < LoopCount(mergeShort)
              /\ HasFrame(mergeBGMShort, i)
              /\ pc' = "failed"
              /\ UNCHANGED <<rests, locals, history>>

KeepRests == /\ pc = "frame" /\ i = LoopCount(mergeShort)
             /\ mRightSrcData' = GetSRCRight(mergeShort, i)
             /\ mRightBGMData' = GetSRCRight(mergeBGMShort, i)
             /\ pc' = "read"
             /\ UNCHANGED <<locals, history>>

Next == \/ Begin \/ Stop
        \/ \E n \in BgmLen : CallProcessStream(n) \/ BufferUnderflow(n)
        \/ ProcessFrame \/ FarEndTooShort \/ PushThrows \/ KeepRests

Spec == Init /\ [][Next]_vars

-----------------------------------------------------------------------------
\* The variables have their types, and less than a frame of the near end is
\* kept between calls (processStream, mRightSrcData).
TypeOK == /\ mRightSrcData \in Seq(Nat) /\ mRightBGMData \in Seq(Nat)
          /\ pc \in {"idle", "read", "frame", "short", "failed"}
          /\ mergeShort \in Seq(Nat) /\ mergeBGMShort \in Seq(Nat)
          /\ i \in Nat
          /\ given \in Seq(Nat) /\ givenFar \in Seq(Nat)
          /\ sent \in Seq(Nat) /\ sentFar \in Seq(Nat)
          /\ Len(mRightSrcData) < sampleRate_10ms

\* What is still to be cut of a stream.
Rest(right, merged) ==
    IF pc = "frame" THEN SubSeq(merged, i * sampleRate_10ms + 1, Len(merged)) ELSE right

\* Over any number of calls, merge, the loop and getSRCRight cut both streams
\* into frames with no sample lost, repeated or out of order.
SamplesInOrder ==
    pc \notin {"short", "failed"} => /\ sent \o Rest(mRightSrcData, mergeShort) = given
                                     /\ sentFar \o Rest(mRightBGMData, mergeBGMShort) = givenFar

\* The far end has been given as many whole frames as the near end.
Enough == Len(givenFar) >= sampleRate_10ms * (Len(given) \div sampleRate_10ms)

\* processStream ends in an index exception just when the far end has been
\* given less than the whole frames of the near end, counted over all calls.
FailsWhenShort == /\ pc = "read" => Enough
                  /\ pc = "short" => ~Enough

=============================================================================
