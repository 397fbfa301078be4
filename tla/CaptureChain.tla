---------------------------- MODULE CaptureChain ----------------------------
(***************************************************************************)
(* ProcessStreamLocked of audio_processing_impl.cc: one near-end frame     *)
(* through the components, each of which may end the call with an error,   *)
(* and the stream parameters and settings the caller gives between calls.  *)
(* A call holds crit_capture_ from its first step to its last.             *)
(*                                                                         *)
(* Data: what is remembered of a frame is its age in calls: 0 for the      *)
(* frame in hand, 1 for the one before, Old for anything older.  Of the    *)
(* rate it matters whether frames are split into bands (swb: 32 and 48     *)
(* kHz), of the analog level whether it is within its limits.  Beamformer, *)
(* intelligibility, transient suppression and the experimental AGC are off *)
(* in this library.  A handle fails only where the code can make it fail:  *)
(* ProcessAnalog with a level out of its limits.                           *)
(***************************************************************************)
EXTENDS Naturals

HPF == "high_pass_filter"
NS == "noise_suppression"
AEC == "echo_cancellation"
AECM == "echo_control_mobile"
AGC == "gain_control"
VAD == "voice_detection"
LE == "level_estimator"
Component == {HPF, NS, AEC, AECM, AGC, VAD, LE}

Old == 2
Age == 0 .. Old
Older(age) == IF age = Old THEN Old ELSE age + 1

VARIABLES enabled, mode, swb,
          was_stream_delay_set,
          drift_compensation_enabled_, was_stream_drift_set_,
          was_analog_level_set_,
          level_in_range,      \* analog_capture_level_ is within its limits
          env,                 \* the frames whose envelopes the AGC keeps
          inQueue,             \* how many of them are queued
          reference_copied_,
          low_pass_reference,  \* the frame the noisy reference was copied from
          audio,               \* where the current form of the frame is
          at,                  \* the component that comes next
          given,               \* parameters given since a frame used them
          failed,              \* a call has failed since the AGC was initialized
          lastFailed           \* the last call has failed

settings == <<enabled, mode, swb, drift_compensation_enabled_>>
parameters == <<was_stream_delay_set, was_stream_drift_set_, was_analog_level_set_,
                level_in_range, given>>
agc == <<env, inQueue>>
buffer == <<reference_copied_, low_pass_reference, audio>>
history == <<failed, lastFailed>>
vars == <<settings, parameters, agc, buffer, at, history>>

Init == /\ enabled = [c \in Component |-> FALSE]
        /\ mode = "analog" /\ swb = TRUE
        /\ drift_compensation_enabled_ = FALSE
        /\ was_stream_delay_set = FALSE /\ was_stream_drift_set_ = FALSE
        /\ was_analog_level_set_ = FALSE /\ level_in_range = TRUE
        /\ env = <<Old, Old>> /\ inQueue = 0
        /\ reference_copied_ = FALSE /\ low_pass_reference = Old
        /\ audio = "full"
        /\ at = "idle"
        /\ given = {}
        /\ failed = FALSE /\ lastFailed = FALSE
-----------------------------------------------------------------------------
(* One frame.                                                              *)

\* Faulty variant: of two enabled components one that only listens is enough.
IsDataProcessed_Either ==
    LET on == {c \in Component : enabled[c]}
    IN  on # {} /\ (LE \notin on /\ VAD \notin on)

\* is_data_processed counts the enabled components: none, one that only
\* listens, or the two that only listen.
IsDataProcessed ==
    LET on == {c \in Component : enabled[c]}
    IN  on \notin {{}, {LE}, {VAD}, {LE, VAD}}

AnalysisNeeded == swb /\ (IsDataProcessed \/ enabled[VAD])
SynthesisNeeded == swb /\ IsDataProcessed

\* Component c changes the frame: in the bands, or in place without them.
Change(c) == audio' = IF ~enabled[c] THEN audio
                      ELSE IF ~swb THEN "merged"
                      ELSE IF audio = "full" THEN "unsplit" ELSE "changed"

\* Faulty variant: the reference of the frame before stays valid.
InitForNewData_KeepsReference == UNCHANGED reference_copied_

\* DeinterleaveFrom: what was derived from the frame before is no longer valid.
InitForNewData == reference_copied_' = FALSE

\* The call begins: everything kept is one call older.  The frame is split and
\* high-pass filtered.
ProcessStream ==
    /\ at = "idle" /\ at' = "agc_analyze"
    /\ env' = <<Older(env[1]), Older(env[2])>>
    /\ low_pass_reference' = Older(low_pass_reference)
    /\ InitForNewData
    /\ audio' = IF AnalysisNeeded THEN IF enabled[HPF] THEN "changed" ELSE "split"
                ELSE IF enabled[HPF] THEN "merged" ELSE "full"
    /\ UNCHANGED <<settings, parameters, inQueue, history>>

\* Faulty variant: the number of queued envelopes is not limited to the two.
AddMic_NoLimit == /\ env' = [env EXCEPT ![IF inQueue > 0 THEN 2 ELSE 1] = 0]
                  /\ inQueue' = inQueue + 1

\* WebRtcAgc_AddMic: the envelope goes to the second place when the first is taken.
AddMic == /\ env' = [env EXCEPT ![IF inQueue > 0 THEN 2 ELSE 1] = 0]
          /\ inQueue' = IF inQueue = 0 THEN 1 ELSE 2

\* AnalyzeCaptureAudio of AGC: nothing in the fixed mode.
AgcAnalyze == /\ at = "agc_analyze" /\ at' = "aec"
              /\ IF enabled[AGC] /\ mode # "fixed" THEN AddMic ELSE UNCHANGED agc
              /\ IF mode # "fixed" THEN Change(AGC) ELSE UNCHANGED audio
              /\ UNCHANGED <<settings, parameters, reference_copied_,
                             low_pass_reference, history>>

\* RETURN_ON_ERR: the flags stay as they are, and the caller's frame too.
Fail == /\ at' = "idle" /\ failed' = TRUE /\ lastFailed' = TRUE

AecMissesParameter == /\ enabled[AEC]
                      /\ \/ ~was_stream_delay_set
                         \/ drift_compensation_enabled_ /\ ~was_stream_drift_set_

AecFails == /\ at = "aec" /\ AecMissesParameter
            /\ Fail
            /\ UNCHANGED <<settings, parameters, agc, buffer>>

\* ProcessCaptureAudio of AEC.
AecProcess == /\ at = "aec" /\ at' = "ns"
              /\ ~AecMissesParameter
              /\ IF enabled[AEC]
                 THEN /\ was_stream_drift_set_' = FALSE
                      /\ given' = given \ {"drift"}
                 ELSE UNCHANGED <<was_stream_drift_set_, given>>
              /\ Change(AEC)
              /\ UNCHANGED <<settings, was_stream_delay_set, was_analog_level_set_, level_in_range,
                             agc, reference_copied_, low_pass_reference, history>>

\* CopyLowPassToReference when AECM needs it, then ProcessCaptureAudio of NS.
NsProcess == /\ at = "ns" /\ at' = "aecm"
             /\ IF enabled[AECM] /\ enabled[NS]
                THEN reference_copied_' = TRUE /\ low_pass_reference' = 0
                ELSE UNCHANGED <<reference_copied_, low_pass_reference>>
             /\ Change(NS)
             /\ UNCHANGED <<settings, parameters, agc, history>>

AecmFails == /\ at = "aecm" /\ enabled[AECM] /\ ~was_stream_delay_set
             /\ Fail
             /\ UNCHANGED <<settings, parameters, agc, buffer>>

\* ProcessCaptureAudio of AECM, then voice detection, which only reads.
AecmProcess == /\ at = "aecm" /\ at' = "agc"
               /\ enabled[AECM] => was_stream_delay_set
               /\ Change(AECM)
               /\ UNCHANGED <<settings, parameters, agc, reference_copied_,
                              low_pass_reference, history>>

\* The level was not set, or ProcessAnalog refuses it.
AgcFails == /\ at = "agc" /\ enabled[AGC] /\ mode = "analog"
            /\ ~was_analog_level_set_ \/ ~level_in_range
            /\ Fail
            /\ UNCHANGED <<settings, parameters, agc, buffer>>

\* Faulty variant: the second envelope is not moved up.
Dequeue_NoMove == /\ UNCHANGED env
                  /\ inQueue' = IF inQueue > 0 THEN inQueue - 1 ELSE 0

\* WebRtcAgc_Process: "update queue"
Dequeue == /\ env' = IF inQueue > 1 THEN <<env[2], env[2]>> ELSE env
           /\ inQueue' = IF inQueue > 0 THEN inQueue - 1 ELSE 0

\* ProcessCaptureAudio of AGC; the level it recommends is within the limits.
AgcProcess == /\ at = "agc" /\ at' = "finish"
              /\ enabled[AGC] /\ mode = "analog" => was_analog_level_set_ /\ level_in_range
              /\ IF enabled[AGC]
                 THEN /\ Dequeue
                      /\ was_analog_level_set_' = FALSE
                      /\ given' = given \ {"level"}
                 ELSE UNCHANGED <<agc, was_analog_level_set_, given>>
              /\ Change(AGC)
              /\ UNCHANGED <<settings, was_stream_delay_set, was_stream_drift_set_, level_in_range,
                             reference_copied_, low_pass_reference, history>>

\* Faulty variant: the delay of this frame is taken for the next one too.
FinishParameters_KeepsDelay == UNCHANGED was_stream_delay_set /\ given' = given \ {"delay"}

FinishParameters == was_stream_delay_set' = FALSE /\ given' = given \ {"delay"}

\* The bands are merged, the level estimated, the frame handed back.
Finish == /\ at = "finish" /\ at' = "idle"
          /\ audio' = IF SynthesisNeeded /\ audio # "unsplit" THEN "merged" ELSE audio
          /\ FinishParameters
          /\ lastFailed' = FALSE
          /\ UNCHANGED <<settings, was_stream_drift_set_, was_analog_level_set_, level_in_range,
                         agc, reference_copied_, low_pass_reference, failed>>
-----------------------------------------------------------------------------
(* Between calls.                                                          *)

Between(p) == at = "idle" /\ UNCHANGED <<p, buffer, at, lastFailed>>

\* set_stream_delay_ms: out of range it is clamped, which is a warning.
SetStreamDelay == /\ Between(<<settings, agc, failed, was_stream_drift_set_,
                               was_analog_level_set_, level_in_range>>)
                  /\ was_stream_delay_set' = TRUE
                  /\ given' = given \cup {"delay"}

SetStreamDrift == /\ Between(<<settings, agc, failed, was_stream_delay_set,
                               was_analog_level_set_, level_in_range>>)
                  /\ was_stream_drift_set_' = TRUE
                  /\ given' = given \cup {"drift"}

\* set_stream_analog_level marks the level as set before it looks at it; one
\* out of range is refused and the former level stays.
SetStreamAnalogLevel(accepted) ==
    /\ Between(<<settings, agc, failed, was_stream_delay_set, was_stream_drift_set_>>)
    /\ was_analog_level_set_' = TRUE
    /\ level_in_range' = (accepted \/ level_in_range)
    /\ given' = given \cup {"level"}

EnableDriftCompensation(on) ==
    /\ Between(<<parameters, agc, failed, enabled, mode, swb>>)
    /\ drift_compensation_enabled_' = on

\* Initialize of AGC: WebRtcAgc_Init empties the queue of an enabled one.
InitializeAgc(on) == IF on THEN env' = <<Old, Old>> /\ inQueue' = 0 /\ failed' = FALSE
                     ELSE UNCHANGED <<agc, failed>>

\* Enable of any component; AEC and AECM exclude each other, AECM needs 16 kHz.
Enable(c, on) ==
    /\ Between(<<parameters, mode, swb, drift_compensation_enabled_>>)
    /\ on => /\ c = AEC => ~enabled[AECM]
             /\ c = AECM => ~enabled[AEC] /\ ~swb
    /\ enabled' = [enabled EXCEPT ![c] = on]
    /\ InitializeAgc(c = AGC /\ on /\ ~enabled[AGC])

SetMode(m) == /\ Between(<<parameters, enabled, swb, drift_compensation_enabled_>>)
              /\ mode' = m
              /\ InitializeAgc(enabled[AGC])

\* set_analog_level_limits: the level may be within the new limits or not.
SetAnalogLevelLimits(within) ==
    /\ Between(<<settings, was_stream_delay_set, was_stream_drift_set_,
                 was_analog_level_set_, given>>)
    /\ level_in_range' = within
    /\ InitializeAgc(enabled[AGC])

\* Initialize of the instance, or a frame of another rate.  AECM keeps the
\* processing rate at 16 kHz.  The buffer is a new one.
Initialize(bands) ==
    /\ at = "idle"
    /\ swb' = bands /\ (bands => ~enabled[AECM])
    /\ reference_copied_' = FALSE /\ low_pass_reference' = Old /\ audio' = "full"
    /\ InitializeAgc(enabled[AGC])
    /\ UNCHANGED <<enabled, mode, drift_compensation_enabled_, parameters, at, lastFailed>>

Chain == \/ ProcessStream \/ AgcAnalyze \/ AecFails \/ AecProcess \/ NsProcess
         \/ AecmFails \/ AecmProcess \/ AgcFails \/ AgcProcess \/ Finish

Caller == \/ SetStreamDelay \/ SetStreamDrift
          \/ \E c \in Component, on \in BOOLEAN : Enable(c, on)
          \/ \E m \in {"analog", "digital", "fixed"} : SetMode(m)
          \/ \E b \in BOOLEAN : \/ SetStreamAnalogLevel(b) \/ EnableDriftCompensation(b)
                                \/ SetAnalogLevelLimits(b) \/ Initialize(b)

Next == Chain \/ Caller

Spec == Init /\ [][Next]_vars
-----------------------------------------------------------------------------
TypeOK == /\ enabled \in [Component -> BOOLEAN]
          /\ mode \in {"analog", "digital", "fixed"} /\ swb \in BOOLEAN
          /\ drift_compensation_enabled_ \in BOOLEAN /\ was_stream_delay_set \in BOOLEAN
          /\ was_stream_drift_set_ \in BOOLEAN /\ was_analog_level_set_ \in BOOLEAN
          /\ level_in_range \in BOOLEAN /\ reference_copied_ \in BOOLEAN
          /\ failed \in BOOLEAN /\ lastFailed \in BOOLEAN
          /\ env \in Age \X Age /\ inQueue \in 0 .. 2
          /\ low_pass_reference \in Age
          /\ audio \in {"full", "split", "changed", "merged", "unsplit"}
          /\ at \in {"idle", "agc_analyze", "aec", "ns", "aecm", "agc", "finish"}
          /\ given \subseteq {"delay", "drift", "level"}

(***************************************************************************)
(* "any function with the set_stream_ tag must be called prior to          *)
(* processing the current frame" (audio_processing.h:321): an echo         *)
(* component never runs without a delay given since the last frame that    *)
(* went through, nor AEC with drift compensation or the analog AGC without *)
(* their parameter given since they last ran, whatever calls failed, and   *)
(* whatever was switched, in between.                                      *)
(***************************************************************************)
FreshParameters ==
    [][/\ AecProcess /\ enabled[AEC]
             => "delay" \in given /\ (drift_compensation_enabled_ => "drift" \in given)
       /\ AecmProcess /\ enabled[AECM] => "delay" \in given
       /\ AgcProcess /\ enabled[AGC] /\ mode = "analog" => "level" \in given]_vars

(***************************************************************************)
(* The AGC controls the level by the envelope of the frame in hand as long *)
(* as no call fails.  A call that fails between AnalyzeCaptureAudio and    *)
(* ProcessCaptureAudio leaves its envelope queued and the AGC one frame    *)
(* behind from then on (analog_agc.c:190, 1217); it never is further       *)
(* behind, except in the first call after one that failed.                 *)
(***************************************************************************)
AnalysisLag == at = "agc" /\ enabled[AGC] /\ mode # "fixed"
                  => /\ inQueue > 0
                     /\ ~failed => env[1] = 0
                     /\ ~lastFailed => env[1] <= 1

(***************************************************************************)
(* AECM is given the noisy reference of the frame in hand if noise         *)
(* suppression has cleaned it, and none if not                             *)
(* (echo_control_mobile_impl.cc:189); a reference left by an earlier frame *)
(* must never be taken, whatever was switched in between.                  *)
(***************************************************************************)
NoisyReference == at = "aecm" /\ enabled[AECM]
                     => /\ reference_copied_ <=> enabled[NS]
                        /\ reference_copied_ => low_pass_reference = 0

(***************************************************************************)
(* What the components did reaches the caller: bands are only used when    *)
(* the frame was split, and when one that changes the frame is enabled the *)
(* bands are merged and copied back (audio_processing_impl.cc:666, 707,    *)
(* 746).                                                                   *)
(***************************************************************************)
FrameCarriesResult ==
    /\ audio # "unsplit"
    /\ at = "agc" /\ swb /\ enabled[VAD] => audio # "full"
    /\ at = "idle" /\ ~lastFailed /\ audio # "full" => audio = "merged" \/ audio = "split"
    /\ at = "finish" /\ (\E c \in Component \ {VAD, LE} : enabled[c]) => IsDataProcessed
=============================================================================
