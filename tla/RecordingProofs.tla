------------------------- MODULE RecordingProofs -------------------------
(***************************************************************************)
(* RecordSession for any number of record threads, and RecordMusic for any *)
(* number of record threads and decoders: the latter is a recording        *)
(* session too, so what is shown of the one holds of the other.            *)
(***************************************************************************)
EXTENDS RecordMusic, TLAPS

\* The encoder in the middle of a click.  A start is accepted only when the last
\* click was a stop: record threads set isRecording but never clear it.
EncoderInv ==
    /\ asked = "start" => isRecording
    /\ ui = "start_encoder" => asked = "start" /\ ~mInit /\ ~running
    /\ ui = "spawn" => asked = "start" /\ mInit /\ running
    /\ ui \in {"stop_encoder", "clear_init", "clear_flag", "free"} => asked = "stop"
    /\ ui = "stop_encoder" => (running <=> mInit)
    /\ ui = "clear_init" => ~running
    /\ ui \in {"clear_flag", "free"} => ~mInit /\ ~running

IInv == TypeOK /\ MicHasOwner /\ EncoderFollowsClicks /\ EncoderInv
-----------------------------------------------------------------------------
\* The UI thread: it moves no record thread but the one it spawns.
LEMMA UiKeepsIInv == ASSUME IInv, UiStep PROVE IInv'
  <1> USE DEF IInv, TypeOK, MicHasOwner, EncoderFollowsClicks, EncoderInv, Looping,
              UiGoto, encoder, uiVars
  <1>1. CASE ClickStart
    BY <1>1 DEF ClickStart
  <1>2. CASE StartEncoder
    BY <1>2 DEF StartEncoder
  <1>3. CASE ClickStop
    BY <1>3 DEF ClickStop
  <1>4. CASE Destroy
    BY <1>4 DEF Destroy
  <1>5. CASE ReleaseCodec
    BY <1>5 DEF ReleaseCodec
  <1>6. CASE ClearInit
    BY <1>6 DEF ClearInit
  <1>7. CASE ClearFlag
    BY <1>7 DEF ClearFlag
  <1>8. CASE FreeApm
    BY <1>8 DEF FreeApm
  <1>9. ASSUME NEW r \in Recorder, SpawnRecorder(r) PROVE IInv'
    <2>1. /\ pc' = [pc EXCEPT ![r] = "begin"] /\ pc[r] = "none"
          /\ ui = "spawn" /\ ui' = "idle"
          /\ UNCHANGED <<isRecording, mic, encoder, apm, destroying, asked, failed>>
      BY <1>9 DEF SpawnRecorder
    <2>2. MicHasOwner'
      <3>1. ASSUME NEW q \in Recorder, pc[q] \in Looping PROVE pc'[q] = pc[q]
        BY <2>1, <3>1
      <3>2. QED BY <2>1, <3>1
    <2>3. QED BY <2>1, <2>2
  <1>10. QED
    BY <1>1, <1>2, <1>3, <1>4, <1>5, <1>6, <1>7, <1>8, <1>9 DEF UiStep

\* A record thread: it never touches the encoder, and while it loops it stays in
\* the loop until it stops the microphone or fails.
LEMMA RecorderKeepsIInv == ASSUME IInv, NEW r \in Recorder, RecordStep(r) PROVE IInv'
  <1>1. /\ UNCHANGED <<encoder, apm, uiVars>>
        /\ isRecording' \in BOOLEAN /\ mic' \in BOOLEAN /\ failed' \in BOOLEAN
        /\ pc' = [pc EXCEPT ![r] = pc'[r]]
        /\ pc'[r] \in {"none", "begin", "open"} \cup Looping
        /\ \/ mic' = FALSE
           \/ pc'[r] \in Looping
           \/ failed' = TRUE
           \/ mic' = mic /\ pc[r] \notin Looping
        /\ failed => failed'
        /\ isRecording => isRecording'
    <2>1. CASE Begin(r)
      BY <2>1 DEF Begin, Goto, IInv, TypeOK, Looping
    <2>2. CASE Open(r)
      BY <2>2 DEF Open, Goto, IInv, TypeOK, Looping
    <2>3. CASE OpenFails(r)
      BY <2>3 DEF OpenFails, Goto, IInv, TypeOK, Looping
    <2>4. CASE Play(r)
      BY <2>4 DEF Play, Goto, IInv, TypeOK, Looping
    <2>5. CASE TestFlag(r)
      BY <2>5 DEF TestFlag, Goto, IInv, TypeOK, Looping
    <2>6. CASE Read(r)
      BY <2>6 DEF Read, Goto, IInv, TypeOK, Looping
    <2>7. CASE Process(r)
      BY <2>7 DEF Process, Goto, IInv, TypeOK, Looping
    <2>8. CASE Push(r)
      BY <2>8 DEF Push, Goto, IInv, TypeOK, Looping
    <2>9. CASE UseCodec(r)
      BY <2>9 DEF UseCodec, Goto, IInv, TypeOK, Looping
    <2>10. CASE StopMic(r)
      BY <2>10 DEF StopMic, Goto, IInv, TypeOK, Looping
    <2>11. CASE Fail(r)
      BY <2>11 DEF Fail, Goto, IInv, TypeOK, Looping
    <2>12. QED
      BY <2>1, <2>2, <2>3, <2>4, <2>5, <2>6, <2>7, <2>8, <2>9, <2>10, <2>11 DEF RecordStep
  <1>2. TypeOK' /\ EncoderFollowsClicks' /\ EncoderInv'
    BY <1>1 DEF IInv, TypeOK, EncoderFollowsClicks, EncoderInv, encoder, uiVars
  <1>3. MicHasOwner'
    <2>1. CASE ~mic' \/ failed'
      BY <2>1 DEF MicHasOwner
    <2>2. CASE pc'[r] \in Looping
      BY <2>2 DEF MicHasOwner
    <2>3. CASE mic' = mic /\ pc[r] \notin Looping /\ mic' /\ ~failed'
      <3>1. PICK q \in Recorder : pc[q] \in Looping
        BY <1>1, <2>3 DEF IInv, MicHasOwner
      <3>2. q # r /\ pc'[q] = pc[q]
        BY <1>1, <2>3, <3>1 DEF IInv, TypeOK
      <3>3. QED BY <3>1, <3>2 DEF MicHasOwner
    <2>4. QED BY <1>1, <2>1, <2>2, <2>3
  <1>4. QED BY <1>2, <1>3 DEF IInv

LEMMA NextIInv == IInv /\ [Next]_vars => IInv'
  <1> SUFFICES ASSUME IInv, [Next]_vars PROVE IInv'
    OBVIOUS
  <1>1. CASE UiStep
    BY <1>1, UiKeepsIInv
  <1>2. ASSUME NEW r \in Recorder, RecordStep(r) PROVE IInv'
    BY <1>2, RecorderKeepsIInv
  <1>3. CASE UNCHANGED vars
    BY <1>3 DEF vars, encoder, uiVars, IInv, TypeOK, MicHasOwner, EncoderFollowsClicks,
                EncoderInv
  <1>4. QED BY <1>1, <1>2, <1>3 DEF Next

LEMMA Invariance == Spec => []IInv
  <1>1. Init => IInv
    BY DEF Init, IInv, TypeOK, MicHasOwner, EncoderFollowsClicks, EncoderInv
  <1>2. QED BY <1>1, NextIInv, PTL DEF Spec

(***************************************************************************)
(* The record thread that turned the microphone on is there to turn it off *)
(* (MainActivity.java:225), or one has failed, however many there are.     *)
(***************************************************************************)
THEOREM MicrophoneOwned == Spec => []MicHasOwner
  <1>1. IInv => MicHasOwner
    BY DEF IInv
  <1>2. QED BY <1>1, Invariance, PTL

(***************************************************************************)
(* Between clicks the encoder is on exactly when the last click was a      *)
(* start (AudioMediaCodecEncoder.java:51 and 66), whatever the record      *)
(* threads do to isRecording.                                              *)
(***************************************************************************)
THEOREM EncoderOnAfterStart == Spec => []EncoderFollowsClicks
  <1>1. IInv => EncoderFollowsClicks
    BY DEF IInv
  <1>2. QED BY <1>1, Invariance, PTL

\* No stop is asked for between the spawning of a record thread and its first line.
StopsAfterBegin == [][ClickStop \/ Destroy => \A r \in Recorder : pc[r] # "begin"]_vars

\* Then a thread that is about to set the flag finds it set.
FlagIsSet == \A r \in Recorder : pc[r] = "begin" => ui = "idle" /\ isRecording

LEMMA BeginFindsFlag == Spec /\ StopsAfterBegin => []FlagIsSet
  <1> DEFINE Timely == ClickStop \/ Destroy => \A r \in Recorder : pc[r] # "begin"
  <1>1. Init => FlagIsSet
    BY DEF Init, FlagIsSet
  <1>2. IInv /\ FlagIsSet /\ [Next]_vars /\ [Timely]_vars => FlagIsSet'
    <2> SUFFICES ASSUME IInv, FlagIsSet, [Next]_vars, [Timely]_vars PROVE FlagIsSet'
      OBVIOUS
    <2>1. CASE ClickStart \/ StartEncoder \/ ReleaseCodec \/ ClearInit \/ ClearFlag \/ FreeApm
      BY <2>1 DEF ClickStart, StartEncoder, ReleaseCodec, ClearInit, ClearFlag, FreeApm,
                  UiGoto, FlagIsSet
    <2>2. CASE ClickStop \/ Destroy
      <3>1. ui' # ui
        BY <2>2 DEF ClickStop, Destroy, UiGoto
      <3>2. \A r \in Recorder : pc[r] # "begin"
        BY <2>2, <3>1 DEF vars, uiVars
      <3>3. QED BY <2>2, <3>2 DEF ClickStop, Destroy, FlagIsSet
    <2>3. ASSUME NEW r \in Recorder, SpawnRecorder(r) PROVE FlagIsSet'
      BY <2>3 DEF SpawnRecorder, UiGoto, FlagIsSet, IInv, EncoderInv
    <2>4. ASSUME NEW r \in Recorder, RecordStep(r) PROVE FlagIsSet'
      <3>1. /\ ui' = ui /\ (isRecording => isRecording')
            /\ \A q \in Recorder : pc'[q] = "begin" => pc[q] = "begin"
        BY <2>4
        DEF RecordStep, Begin, Open, OpenFails, Play, TestFlag, Read, Process, Push,
            UseCodec, StopMic, Fail, Goto, uiVars, IInv, TypeOK, Looping
      <3>2. QED BY <3>1 DEF FlagIsSet
    <2>5. CASE UNCHANGED vars
      BY <2>5 DEF vars, uiVars, FlagIsSet
    <2>6. QED BY <2>1, <2>2, <2>3, <2>4, <2>5 DEF Next, UiStep
  <1>3. QED BY <1>1, <1>2, Invariance, PTL DEF Spec, StopsAfterBegin

(***************************************************************************)
(* A stop that comes before the first line of a record thread is the only  *)
(* way in which the flag comes back: when no click falls in between, only  *)
(* a start click sets isRecording (MainActivity.java:139 and 245).         *)
(***************************************************************************)
THEOREM OnlyEarlyStopUndone == Spec /\ StopsAfterBegin => StopIsNotUndone
  <1> DEFINE A == ~isRecording /\ isRecording' => ui = "idle" /\ asked' = "start"
  <1>1. IInv /\ FlagIsSet /\ [Next]_vars => [A]_vars
    <2> SUFFICES ASSUME IInv, FlagIsSet, Next PROVE A
      OBVIOUS
    <2>1. CASE UiStep
      BY <2>1 DEF UiStep, ClickStart, ClickStop, Destroy, StartEncoder, SpawnRecorder,
                  ReleaseCodec, ClearInit, ClearFlag, FreeApm, UiGoto
    <2>2. ASSUME NEW r \in Recorder, RecordStep(r) PROVE A
      BY <2>2
      DEF FlagIsSet, RecordStep, Begin, Open, OpenFails, Play, TestFlag, Read, Process,
          Push, UseCodec, StopMic, Fail, Goto
    <2>3. QED BY <2>1, <2>2 DEF Next
  <1>2. QED BY <1>1, Invariance, BeginFindsFlag, PTL DEF Spec, StopIsNotUndone
-----------------------------------------------------------------------------
\* As long as no startPlay has met an earlier one, one caller or one decoder
\* thread at most is there, and it finds what it uses in the fields.
Alone ==
    /\ ~crashed
    /\ \A p \in Recorder : player[p] = "starting" =>
          /\ mExtractor
          /\ \A d \in Decoder : thread[d] = "none"
          /\ \A q \in Recorder : player[q] = "starting" => q = p
    /\ \A d \in Decoder : thread[d] # "none" =>
          mExtractor /\ \A e \in Decoder : thread[e] # "none" => e = d
    /\ \A d \in Decoder : thread[d] \notin {"none", "release"} => mDecoder = d
    /\ ~failed => \A d \in Decoder : codec[d] # "none" => thread[d] \notin {"none", "release"}

MusicInv == Music!TypeOK /\ (~overlapped => Alone)

\* All that a step may do to what Alone speaks of, as far as RecordSession goes.
LEMMA FailedStays == ASSUME NEW r \in Recorder, RecordStep(r) PROVE failed => failed'
  BY DEF RecordStep, Begin, Open, OpenFails, Play, TestFlag, Read, Process, Push, UseCodec,
         StopMic, Fail

LEMMA UiKeepsFailed == ASSUME UiStep PROVE failed' = failed
  BY DEF UiStep, ClickStart, ClickStop, Destroy, StartEncoder, SpawnRecorder, ReleaseCodec,
         ClearInit, ClearFlag, FreeApm

\* A step without the music.
LEMMA OthersKeepMusicInv == ASSUME MusicInv, UNCHANGED music, failed => failed' PROVE MusicInv'
  BY DEF MusicInv, Music!TypeOK, Alone, music
-----------------------------------------------------------------------------
LEMMA StartPlayKeepsMusicInv ==
    ASSUME MusicInv, NEW r \in Recorder, Music!StartPlay(r), UNCHANGED failed PROVE MusicInv'
  <1>1. Music!TypeOK'
    BY DEF MusicInv, Music!TypeOK, Music!StartPlay
  <1>2. ASSUME ~overlapped' PROVE Alone'
    <2>1. /\ ~overlapped /\ Alone
          /\ \A d \in Decoder : thread[d] = "none"
          /\ \A q \in Recorder : player[q] = "idle"
      BY <1>2 DEF MusicInv, Music!StartPlay, Music!Playing
    <2>2. \A q \in Recorder : player'[q] = "starting" => q = r
      BY <2>1 DEF MusicInv, Music!TypeOK, Music!StartPlay
    <2>3. QED BY <2>1, <2>2 DEF Alone, Music!StartPlay
  <1>3. QED BY <1>1, <1>2 DEF MusicInv

LEMMA NoPlayKeepsMusicInv ==
    ASSUME MusicInv, NEW r \in Recorder, Music!NoPlay(r), failed => failed' PROVE MusicInv'
  BY DEF MusicInv, Music!TypeOK, Alone, Music!NoPlay, Music!fields

LEMMA CreateDecoderKeepsMusicInv ==
    ASSUME MusicInv, NEW r \in Recorder, NEW d \in Decoder, Music!CreateDecoder(r, d),
           UNCHANGED failed
    PROVE  MusicInv'
  BY DEF MusicInv, Music!TypeOK, Alone, Music!CreateDecoder

LEMMA DecoderThrowsKeepsMusicInv ==
    ASSUME MusicInv, NEW r \in Recorder, NEW d \in Decoder, Music!DecoderThrows(r, d), failed'
    PROVE  MusicInv'
  BY DEF MusicInv, Music!TypeOK, Alone, Music!DecoderThrows

LEMMA DecodeKeepsMusicInv ==
    ASSUME MusicInv, NEW d \in Decoder, Music!Decode(d), UNCHANGED failed PROVE MusicInv'
  <1> USE DEF MusicInv, Music!TypeOK, Alone, Music!Goto, Music!DecoderUsable, Music!fields
  <1>1. CASE Music!Begin(d)
    BY <1>1 DEF Music!Begin
  <1>2. CASE Music!TestEos(d)
    BY <1>2 DEF Music!TestEos
  <1>3. CASE Music!DequeueInput(d)
    BY <1>3 DEF Music!DequeueInput
  <1>4. CASE Music!QueueInput(d)
    BY <1>4 DEF Music!QueueInput
  <1>5. CASE Music!DequeueOutput(d)
    BY <1>5 DEF Music!DequeueOutput
  <1>6. CASE Music!ReleaseDecoder(d)
    BY <1>6 DEF Music!ReleaseDecoder
  <1>7. CASE Music!ReleaseExtractor(d)
    BY <1>7 DEF Music!ReleaseExtractor
  <1>8. CASE Music!Crash(d)
    BY <1>8, NullAssumption DEF Music!Crash
  <1>9. QED
    BY <1>1, <1>2, <1>3, <1>4, <1>5, <1>6, <1>7, <1>8 DEF Music!Decode

LEMMA NextMusicInv == MusicInv /\ [MusicNext]_allVars => MusicInv'
  <1> SUFFICES ASSUME MusicInv, [MusicNext]_allVars PROVE MusicInv'
    OBVIOUS
  <1>1. CASE OtherUiStep
    BY <1>1, UiKeepsFailed, OthersKeepMusicInv DEF OtherUiStep, musicVars
  <1>2. CASE StopMusic
    BY <1>2 DEF StopMusic, Music!Stop, vars, MusicInv, Music!TypeOK, Alone
  <1>3. CASE ClearFlagAfterMusic
    BY <1>3, OthersKeepMusicInv DEF ClearFlagAfterMusic, ClearFlag
  <1>4. ASSUME NEW r \in Recorder, RecorderStep(r) PROVE MusicInv'
    <2>1. CASE StartPlay(r)
      BY <2>1, StartPlayKeepsMusicInv DEF StartPlay, vars
    <2>2. CASE PlayReturns(r)
      <3>1. failed' = failed
        BY <2>2 DEF PlayReturns, Play
      <3>2. QED
        BY <2>2, <3>1, NoPlayKeepsMusicInv, CreateDecoderKeepsMusicInv DEF PlayReturns
    <2>3. CASE PlayThrows(r)
      <3>1. failed'
        BY <2>3 DEF PlayThrows, Fail
      <3>2. QED
        BY <2>3, <3>1, NoPlayKeepsMusicInv, DecoderThrowsKeepsMusicInv DEF PlayThrows
    <2>4. CASE OtherRecordStep(r)
      BY <2>4, FailedStays, OthersKeepMusicInv DEF OtherRecordStep, musicVars
    <2>5. QED BY <1>4, <2>1, <2>2, <2>3, <2>4 DEF RecorderStep
  <1>5. ASSUME NEW d \in Decoder, DecoderStep(d) PROVE MusicInv'
    BY <1>5, DecodeKeepsMusicInv DEF DecoderStep, vars
  <1>6. CASE UNCHANGED allVars
    BY <1>6, OthersKeepMusicInv DEF allVars, vars, musicVars
  <1>7. QED BY <1>1, <1>2, <1>3, <1>4, <1>5, <1>6 DEF MusicNext

LEMMA MusicInvariance == MusicSpec => []MusicInv
  <1>1. MusicInit => MusicInv
    BY DEF MusicInit, Music!Init, MusicInv, Music!TypeOK, Alone
  <1>2. QED BY <1>1, NextMusicInv, PTL DEF MusicSpec

(***************************************************************************)
(* The application ends by a cleared field of AudioDecoderThread (lines    *)
(* 229-235) only after a startPlay has met a thread of an earlier one.     *)
(***************************************************************************)
THEOREM OnlyOverlapCrashes == MusicSpec => []CrashNeedsOverlap
  <1>1. MusicInv => CrashNeedsOverlap
    BY DEF MusicInv, Alone, CrashNeedsOverlap
  <1>2. QED BY <1>1, MusicInvariance, PTL

(***************************************************************************)
(* When no decoder thread runs every decoder has been released             *)
(* (AudioDecoderThread.java:229-231), unless two overlapped or a record    *)
(* thread has failed.                                                      *)
(***************************************************************************)
THEOREM NoDecoderLeft == MusicSpec => []DecodersReleased
  <1>1. MusicInv => DecodersReleased
    BY DEF MusicInv, Alone, DecodersReleased, Music!Playing
  <1>2. QED BY <1>1, MusicInvariance, PTL
-----------------------------------------------------------------------------
(***************************************************************************)
(* The session with the music is a session: startPlay and stop of the      *)
(* decoder (MainActivity.java:163 and 242) change nothing of what          *)
(* RecordSession speaks of.                                                *)
(***************************************************************************)
THEOREM MusicIsSession == MusicSpec => Spec
  <1>1. MusicInit => Init
    BY DEF MusicInit
  <1>2. [MusicNext]_allVars => [Next]_vars
    <2> SUFFICES ASSUME [MusicNext]_allVars PROVE [Next]_vars
      OBVIOUS
    <2>1. CASE OtherUiStep
      BY <2>1 DEF OtherUiStep, Next
    <2>2. CASE StopMusic
      BY <2>2 DEF StopMusic
    <2>3. CASE ClearFlagAfterMusic
      BY <2>3 DEF ClearFlagAfterMusic, Next, UiStep
    <2>4. ASSUME NEW r \in Recorder, RecorderStep(r) PROVE [Next]_vars
      BY <2>4 DEF RecorderStep, StartPlay, PlayReturns, PlayThrows, OtherRecordStep, Next, RecordStep
    <2>5. ASSUME NEW d \in Decoder, DecoderStep(d) PROVE [Next]_vars
      BY <2>5 DEF DecoderStep
    <2>6. CASE UNCHANGED allVars
      BY <2>6 DEF allVars
    <2>7. QED BY <2>1, <2>2, <2>3, <2>4, <2>5, <2>6 DEF MusicNext
  <1>3. QED BY <1>1, <1>2, PTL DEF MusicSpec, Spec

(***************************************************************************)
(* With the music too the microphone has a thread to stop it               *)
(* (MainActivity.java:225) and the encoder is what the last click asked    *)
(* for.                                                                    *)
(***************************************************************************)
THEOREM SessionWithMusic == MusicSpec => [](MicHasOwner /\ EncoderFollowsClicks)
  <1>1. MusicSpec => []MicHasOwner
    BY MusicIsSession, MicrophoneOwned, PTL
  <1>2. MusicSpec => []EncoderFollowsClicks
    BY MusicIsSession, EncoderOnAfterStart, PTL
  <1>3. QED BY <1>1, <1>2, PTL
=============================================================================
