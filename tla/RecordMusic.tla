---------------------------- MODULE RecordMusic ----------------------------
(***************************************************************************)
(* RecordSession with the background music: a record thread starts the     *)
(* music before its loop (MainActivity.java:163) and stopRecording stops   *)
(* it between the encoder and the flag (line 242).  All record threads     *)
(* share the one AudioDecoderThread of the activity.                       *)
(***************************************************************************)
EXTENDS RecordSession

CONSTANTS Decoder,   \* bound: the decoders alive together
          Null       \* a field that is not set

ASSUME NullAssumption == Null \notin Decoder

VARIABLES eosReceived, mExtractor, mDecoder, codec, thread, player, crashed, overlapped,
          told      \* the running stopRecording has called audioDecoderThread.stop()

Music == INSTANCE BgmDecoder WITH Player <- Recorder

music == <<eosReceived, mExtractor, mDecoder, codec, thread, player, crashed, overlapped>>
musicVars == <<music, told>>
allVars == <<vars, musicVars>>

MusicInit == Init /\ Music!Init /\ told = FALSE

\* audioDecoderThread.stop(), then isRecording = false.
StopMusic == /\ ui = "clear_flag" /\ ~told
             /\ told' = TRUE
             /\ Music!Stop
             /\ UNCHANGED vars

ClearFlagAfterMusic == ClearFlag /\ told /\ told' = FALSE /\ UNCHANGED music

StartPlay(r) == /\ pc[r] = "play" /\ Music!StartPlay(r)
                /\ UNCHANGED <<vars, told>>

\* startPlay returns with the music playing, without it, or throws.
PlayReturns(r) == /\ Play(r)
                  /\ Music!NoPlay(r) \/ \E d \in Decoder : Music!CreateDecoder(r, d)
                  /\ UNCHANGED told

PlayThrows(r) == /\ pc[r] = "play" /\ Fail(r)
                 /\ Music!NoPlay(r) \/ \E d \in Decoder : Music!DecoderThrows(r, d)
                 /\ UNCHANGED told

\* The steps of RecordSession in which the music has no part.
OtherUiStep == (UiStep /\ ui # "clear_flag") /\ UNCHANGED musicVars

OtherRecordStep(r) == pc[r] # "play" /\ RecordStep(r) /\ UNCHANGED musicVars

RecorderStep(r) == StartPlay(r) \/ PlayReturns(r) \/ PlayThrows(r) \/ OtherRecordStep(r)

DecoderStep(d) == Music!Decode(d) /\ UNCHANGED <<vars, told>>

\* Nothing runs any more once the process has ended.
MusicNext == /\ ~crashed
             /\ \/ OtherUiStep \/ StopMusic \/ ClearFlagAfterMusic
                \/ \E r \in Recorder : RecorderStep(r)
                \/ \E d \in Decoder : DecoderStep(d)

\* Every thread is scheduled; read and the dequeues return.
MusicSpec == /\ MusicInit /\ [][MusicNext]_allVars
             /\ \A r \in Recorder : WF_allVars(~crashed /\ RecorderStep(r))
             /\ \A d \in Decoder : WF_allVars(~crashed /\ DecoderStep(d))
-----------------------------------------------------------------------------
(***************************************************************************)
(* A decoder thread that finds a field cleared ends the application.  That *)
(* can only come about when startPlay is called while the thread of an     *)
(* earlier startPlay still runs (AudioDecoderThread.java:229), as after a  *)
(* quick stop and start: never by the order of startPlay, its thread and   *)
(* stop.                                                                   *)
(***************************************************************************)
CrashNeedsOverlap == crashed => overlapped

(***************************************************************************)
(* Decoders are released: when no decoder thread runs, none is left        *)
(* started, unless two overlapped (AudioDecoderThread.java:229-231) or a   *)
(* startPlay has thrown.  The codecs of a device are few.                  *)
(***************************************************************************)
DecodersReleased == ~overlapped /\ ~failed /\ ~Music!Playing
                       => \A d \in Decoder : codec[d] = "none"

(***************************************************************************)
(* When eosReceived stays set, the music ends: no decoder thread waits for *)
(* the codec (AudioDecoderThread.java:170).                                *)
(***************************************************************************)
StopEndsMusic == <>[]eosReceived => <>[](crashed \/ ~Music!Playing)

(***************************************************************************)
(* When isRecording is cleared for good every record thread ends, music or *)
(* not: none of them waits in the encoder for a buffer that will not come  *)
(* (MainActivity.java:189 and AudioMediaCodecEncoder.java:125).            *)
(***************************************************************************)
RecordersEnd == <>[](~isRecording) => <>[](crashed \/ \A r \in Recorder : pc[r] = "none")
=============================================================================
