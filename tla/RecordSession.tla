--------------------------- MODULE RecordSession ---------------------------
(***************************************************************************)
(* The recording part of MainActivity.java: the UI thread, which runs the  *)
(* click handlers and onDestroy, and the record threads, one for each      *)
(* start.  They share the field isRecording, which is neither volatile nor *)
(* guarded, the AudioRecord, the encoder and the APM instance.             *)
(*                                                                         *)
(* The encoder is the on/off part of AudioEncoder: start and stop are      *)
(* calls that return when they are done.  One turn of the loop reads and   *)
(* pushes one chunk.  Data is left out: whether a file opens and whether a *)
(* chunk of background music has the size the loop needs is a choice.      *)
(***************************************************************************)
EXTENDS Naturals

CONSTANT Recorder         \* bound: the record threads alive together

VARIABLES isRecording,
          mic,            \* the AudioRecord is recording
          mInit, running, \* the encoder is on; its codec is started
          apm,            \* the APM instance exists
          ui,             \* where the UI thread is
          destroying,     \* in onDestroy
          asked,          \* the last click that was accepted
          pc,             \* where each record thread is
          failed          \* a thread has ended in its catch clause, recording

encoder == <<mInit, running>>
uiVars == <<ui, destroying, asked>>
vars == <<isRecording, mic, encoder, apm, uiVars, pc, failed>>

Init == /\ isRecording = FALSE /\ mic = FALSE
        /\ mInit = FALSE /\ running = FALSE
        /\ apm = TRUE
        /\ ui = "idle" /\ destroying = FALSE /\ asked = "stop"
        /\ pc = [r \in Recorder |-> "none"]
        /\ failed = FALSE

-----------------------------------------------------------------------------
(* The UI thread                                                           *)

UiGoto(from, to) == ui = from /\ ui' = to

\* onClick, start button, and the first line of record().
ClickStart == /\ UiGoto("idle", "start_encoder")
              /\ ~isRecording
              /\ \E r \in Recorder : pc[r] = "none"
              /\ isRecording' = TRUE
              /\ asked' = "start"
              /\ UNCHANGED <<mic, encoder, apm, destroying, pc, failed>>

\* mAudioEncoder.start() does nothing when the encoder is on.
StartEncoder == /\ UiGoto("start_encoder", "spawn")
                /\ running' = (running \/ ~mInit)
                /\ mInit' = TRUE
                /\ UNCHANGED <<isRecording, mic, apm, destroying, asked, pc, failed>>

SpawnRecorder(r) == /\ UiGoto("spawn", "idle")
                    /\ pc[r] = "none"
                    /\ pc' = [pc EXCEPT ![r] = "begin"]
                    /\ UNCHANGED <<isRecording, mic, encoder, apm, destroying, asked, failed>>

\* onClick, stop button: stopRecording.
ClickStop == /\ UiGoto("idle", "stop_encoder")
             /\ isRecording
             /\ asked' = "stop"
             /\ UNCHANGED <<isRecording, mic, encoder, apm, destroying, pc, failed>>

\* onDestroy: stopRecording whether or not a recording goes on.
Destroy == /\ UiGoto("idle", "stop_encoder")
           /\ destroying' = TRUE
           /\ asked' = "stop"
           /\ UNCHANGED <<isRecording, mic, encoder, apm, pc, failed>>

\* mAudioEncoder.stop() releases the codec and then clears mInit.
ReleaseCodec == /\ UiGoto("stop_encoder", IF mInit THEN "clear_init" ELSE "clear_flag")
                /\ running' = FALSE
                /\ UNCHANGED <<isRecording, mic, mInit, apm, destroying, asked, pc, failed>>

\* Faulty variant: the encoder takes itself to be on after stop.
ClearInit_StaysOn ==
    /\ UiGoto("clear_init", "clear_flag")
    /\ UNCHANGED <<isRecording, mic, encoder, apm, destroying, asked, pc, failed>>

ClearInit == /\ UiGoto("clear_init", "clear_flag")
             /\ mInit' = FALSE
             /\ UNCHANGED <<isRecording, mic, running, apm, destroying, asked, pc, failed>>

\* The end of stopRecording.
ClearFlag == /\ UiGoto("clear_flag", IF destroying THEN "free" ELSE "idle")
             /\ isRecording' = FALSE
             /\ UNCHANGED <<mic, encoder, apm, destroying, asked, pc, failed>>

\* nativeFreeApmInstance; the activity is gone.
FreeApm == /\ UiGoto("free", "destroyed")
           /\ apm' = FALSE
           /\ UNCHANGED <<isRecording, mic, encoder, destroying, asked, pc, failed>>

-----------------------------------------------------------------------------
(* A record thread                                                         *)

Goto(r, from, to) == pc[r] = from /\ pc' = [pc EXCEPT ![r] = to]

\* The thread sets the flag once more when it comes to run.
Begin(r) == /\ Goto(r, "begin", "open")
            /\ isRecording' = TRUE
            /\ UNCHANGED <<mic, encoder, apm, uiVars, failed>>

\* The file is opened, then audioRecord.startRecording().
Open(r) == /\ Goto(r, "open", "play")
           /\ mic' = TRUE
           /\ UNCHANGED <<isRecording, encoder, apm, uiVars, failed>>

\* The file cannot be opened; the catch clause is reached with the flag set.
OpenFails(r) == /\ Goto(r, "open", "none")
                /\ UNCHANGED <<isRecording, mic, encoder, apm, uiVars, failed>>

\* startPlay of the background music.
Play(r) == /\ Goto(r, "play", "test")
           /\ UNCHANGED <<isRecording, mic, encoder, apm, uiVars, failed>>

\* Faulty variant: the field is read once and kept, as the language allows.
TestFlag_Cached(r) ==
    /\ Goto(r, "test", "read")
    /\ UNCHANGED <<isRecording, mic, encoder, apm, uiVars, failed>>

TestFlag(r) == /\ Goto(r, "test", IF isRecording THEN "read" ELSE "stop_mic")
               /\ UNCHANGED <<isRecording, mic, encoder, apm, uiVars, failed>>

\* Nothing is processed until the music has come.
Read(r) == /\ pc[r] = "read"
           /\ \E next \in {"test", "process"} : pc' = [pc EXCEPT ![r] = next]
           /\ UNCHANGED <<isRecording, mic, encoder, apm, uiVars, failed>>

\* ProcessStream and ProcessReverseStream of the APM instance.
Process(r) == /\ Goto(r, "process", "push")
              /\ UNCHANGED <<isRecording, mic, encoder, apm, uiVars, failed>>

\* pushAudioFrameSync: while the encoder is on it looks for an input buffer.
Push(r) == /\ Goto(r, "push", IF mInit THEN "codec" ELSE "test")
           /\ UNCHANGED <<isRecording, mic, encoder, apm, uiVars, failed>>

\* The chunk is queued, or no buffer is free and the search goes on.
UseCodec(r) == /\ pc[r] = "codec"
               /\ running
               /\ \E next \in {"test", "push"} : pc' = [pc EXCEPT ![r] = next]
               /\ UNCHANGED <<isRecording, mic, encoder, apm, uiVars, failed>>

\* Faulty variant: the loop is left without audioRecord.stop().
StopMic_Forgotten(r) ==
    /\ Goto(r, "stop_mic", "none")
    /\ UNCHANGED <<isRecording, mic, encoder, apm, uiVars, failed>>

StopMic(r) == /\ Goto(r, "stop_mic", "none")
              /\ mic' = FALSE
              /\ UNCHANGED <<isRecording, encoder, apm, uiVars, failed>>

\* catch (Throwable) once the microphone is on: the music cannot be played, the
\* two chunks do not fit, or the codec was released after the test of mInit.
Fail(r) == /\ \/ pc[r] \in {"play", "process"}
              \/ pc[r] = "codec" /\ ~running
           /\ pc' = [pc EXCEPT ![r] = "none"]
           /\ failed' = TRUE
           /\ UNCHANGED <<isRecording, mic, encoder, apm, uiVars>>

-----------------------------------------------------------------------------
UiStep == \/ ClickStart \/ ClickStop \/ Destroy
          \/ StartEncoder \/ (\E r \in Recorder : SpawnRecorder(r))
          \/ ReleaseCodec \/ ClearInit \/ ClearFlag \/ FreeApm

RecordStep(r) == \/ Begin(r) \/ Open(r) \/ OpenFails(r) \/ Play(r)
                 \/ TestFlag(r) \/ Read(r) \/ Process(r) \/ Push(r)
                 \/ UseCodec(r) \/ StopMic(r) \/ Fail(r)

Next == UiStep \/ \E r \in Recorder : RecordStep(r)

Spec == Init /\ [][Next]_vars
-----------------------------------------------------------------------------
Looping == {"play", "test", "read", "process", "push", "codec", "stop_mic"}

TypeOK == /\ isRecording \in BOOLEAN /\ mic \in BOOLEAN
          /\ mInit \in BOOLEAN /\ running \in BOOLEAN
          /\ apm \in BOOLEAN /\ destroying \in BOOLEAN /\ failed \in BOOLEAN
          /\ ui \in {"idle", "start_encoder", "spawn", "stop_encoder", "clear_init",
                     "clear_flag", "free", "destroyed"}
          /\ asked \in {"start", "stop"}
          /\ pc \in [Recorder -> {"none", "begin", "open"} \cup Looping]

(***************************************************************************)
(* The microphone is on only while a record thread is there to stop it     *)
(* (line 225), unless one has failed.  Several threads may share the one   *)
(* AudioRecord after quick clicks; the last of them has to leave it off.   *)
(***************************************************************************)
MicHasOwner == mic => failed \/ \E r \in Recorder : pc[r] \in Looping

(***************************************************************************)
(* Between clicks the encoder is what the last accepted click asked for,   *)
(* though clicks are accepted by isRecording and the encoder goes by its   *)
(* own mInit (AudioMediaCodecEncoder.java:51 and 66), and the record       *)
(* threads write isRecording behind the back of the UI.                    *)
(***************************************************************************)
EncoderFollowsClicks ==
    ui \in {"idle", "destroyed"} => /\ mInit <=> asked = "start"
                                    /\ running <=> mInit

(***************************************************************************)
(* stopRecording is "stop recording" (line 236) and isRecording "true      *)
(* means recording" (line 30): only a start click may set the flag after a *)
(* stop.                                                                   *)
(***************************************************************************)
StopIsNotUndone == [][~isRecording /\ isRecording' => ui = "idle" /\ asked' = "start"]_vars
=============================================================================
