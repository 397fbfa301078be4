------------------------- MODULE CaptureChainProofs -------------------------
(***************************************************************************)
(* What a capture call finds and leaves: parameters, the noisy reference,  *)
(* the bands of the frame and the envelopes of the AGC.  The four concern  *)
(* different state and are proved one after the other, each from TypeOK.   *)
(***************************************************************************)
EXTENDS CaptureChain, TLAPS

FlagsOK == /\ enabled \in [Component -> BOOLEAN] /\ swb \in BOOLEAN
           /\ drift_compensation_enabled_ \in BOOLEAN /\ was_stream_delay_set \in BOOLEAN
           /\ was_stream_drift_set_ \in BOOLEAN /\ was_analog_level_set_ \in BOOLEAN
           /\ level_in_range \in BOOLEAN /\ reference_copied_ \in BOOLEAN
           /\ failed \in BOOLEAN /\ lastFailed \in BOOLEAN

NamesOK == /\ mode \in {"analog", "digital", "fixed"}
           /\ audio \in {"full", "split", "changed", "merged", "unsplit"}
           /\ at \in {"idle", "agc_analyze", "aec", "ns", "aecm", "agc", "finish"}
           /\ given \subseteq {"delay", "drift", "level"}

AgesOK == env \in Age \X Age /\ inQueue \in 0 .. 2 /\ low_pass_reference \in Age

LEMMA TypeParts == (TypeOK <=> FlagsOK /\ NamesOK /\ AgesOK)
                   /\ (TypeOK' <=> FlagsOK' /\ NamesOK' /\ AgesOK')
  BY DEF TypeOK, FlagsOK, NamesOK, AgesOK

LEMMA ChainTypeOK == ASSUME TypeOK, Chain PROVE TypeOK'
  <1> USE DEF ProcessStream, InitForNewData, AgcAnalyze, AecFails, AecmFails, AgcFails, Fail,
              AecProcess, NsProcess, AecmProcess, AgcProcess, Finish, FinishParameters, Change,
              settings, parameters, agc, buffer, history
  <1>1. FlagsOK'
    BY TypeParts DEF Chain, FlagsOK
  <1>2. NamesOK'
    BY TypeParts DEF Chain, NamesOK
  <1>3. AgesOK'
    BY TypeParts DEF Chain, AgesOK, Older, Age, Old, AddMic, Dequeue
  <1>4. QED BY <1>1, <1>2, <1>3, TypeParts

LEMMA CallerTypeOK == ASSUME TypeOK, Caller PROVE TypeOK'
  <1> USE DEF SetStreamDelay, SetStreamDrift, SetStreamAnalogLevel, EnableDriftCompensation,
              Enable, SetMode, SetAnalogLevelLimits, Initialize, InitializeAgc, Between,
              settings, parameters, agc, buffer, history
  <1>1. FlagsOK'
    <2>1. ASSUME NEW c \in Component, NEW on \in BOOLEAN, Enable(c, on) PROVE FlagsOK'
      BY <2>1, TypeParts DEF FlagsOK
    <2>2. ASSUME NEW b \in BOOLEAN, SetStreamAnalogLevel(b) PROVE FlagsOK'
      BY <2>2, TypeParts DEF FlagsOK
    <2>3. ASSUME NEW b \in BOOLEAN, EnableDriftCompensation(b) PROVE FlagsOK'
      BY <2>3, TypeParts DEF FlagsOK
    <2>4. ASSUME NEW b \in BOOLEAN, SetAnalogLevelLimits(b) \/ Initialize(b) PROVE FlagsOK'
      BY <2>4, TypeParts DEF FlagsOK
    <2>5. ASSUME NEW m \in {"analog", "digital", "fixed"}, SetMode(m) PROVE FlagsOK'
      BY <2>5, TypeParts DEF FlagsOK
    <2>6. CASE SetStreamDelay \/ SetStreamDrift
      BY <2>6, TypeParts DEF FlagsOK
    <2> HIDE DEF SetStreamDelay, SetStreamDrift, SetStreamAnalogLevel, EnableDriftCompensation,
                 Enable, SetMode, SetAnalogLevelLimits, Initialize
    <2>7. QED BY <2>1, <2>2, <2>3, <2>4, <2>5, <2>6 DEF Caller
  <1>2. NamesOK'
    BY TypeParts DEF Caller, NamesOK
  <1>3. AgesOK'
    BY TypeParts DEF Caller, AgesOK, Age, Old
  <1>4. QED BY <1>1, <1>2, <1>3, TypeParts

\* A call in progress leaves the settings alone; a caller comes between two calls.
LEMMA ChainKeepsSettings == Chain => UNCHANGED settings
  BY DEF Chain, ProcessStream, AgcAnalyze, AecFails, AecProcess, NsProcess, AecmFails,
         AecmProcess, AgcFails, AgcProcess, Finish

LEMMA CallerBetweenCalls == Caller => at = "idle" /\ at' = "idle" /\ UNCHANGED lastFailed
  BY DEF Caller, SetStreamDelay, SetStreamDrift, SetStreamAnalogLevel, EnableDriftCompensation,
         Enable, SetMode, SetAnalogLevelLimits, Initialize, Between

(***************************************************************************)
(* The variables keep their types; the AGC queues no more than the two     *)
(* envelopes it has room for (analog_agc.c:190).                           *)
(***************************************************************************)
THEOREM ChainTypes == Spec => []TypeOK
  <1>1. Init => TypeOK
    <2> SUFFICES ASSUME Init PROVE TypeOK
      OBVIOUS
    <2>1. FlagsOK
      BY DEF Init, FlagsOK
    <2>2. NamesOK
      BY DEF Init, NamesOK
    <2>3. AgesOK
      BY DEF Init, AgesOK, Age, Old
    <2>4. QED BY <2>1, <2>2, <2>3, TypeParts
  <1>2. ASSUME TypeOK, [Next]_vars PROVE TypeOK'
    <2>1. CASE UNCHANGED vars
      BY <1>2, <2>1 DEF TypeOK, vars, settings, parameters, agc, buffer, history
    <2>2. QED BY <1>2, <2>1, ChainTypeOK, CallerTypeOK DEF Next
  <1>3. QED BY <1>1, <1>2, PTL DEF Spec
-----------------------------------------------------------------------------
(* Stream parameters *)

\* A flag is set only while its parameter is unused.
ParamInv == /\ was_stream_delay_set => "delay" \in given
            /\ was_stream_drift_set_ => "drift" \in given
            /\ was_analog_level_set_ => "level" \in given

LEMMA ParamInvariance == Spec => []ParamInv
  <1>1. Init => ParamInv
    BY DEF Init, ParamInv
  <1>2. ParamInv /\ [Next]_vars => ParamInv'
    <2> SUFFICES ASSUME ParamInv, [Next]_vars PROVE ParamInv'
      OBVIOUS
    <2> USE DEF ParamInv, settings, parameters
    <2>1. CASE Chain
      BY <2>1 DEF Chain, ProcessStream, AgcAnalyze, AecFails, AecProcess, NsProcess, AecmFails,
                  AecmProcess, AgcFails, AgcProcess, Finish, FinishParameters
    <2>2. CASE Caller
      BY <2>2 DEF Caller, SetStreamDelay, SetStreamDrift, SetStreamAnalogLevel,
                  EnableDriftCompensation, Enable, SetMode, SetAnalogLevelLimits, Initialize, Between
    <2>3. CASE UNCHANGED vars
      BY <2>3 DEF vars
    <2>4. QED BY <2>1, <2>2, <2>3 DEF Next
  <1>3. QED BY <1>1, <1>2, PTL DEF Spec

(***************************************************************************)
(* No component takes a delay, a drift or a level that was given for a     *)
(* frame that has used it (gain_control_impl.cc:186,                       *)
(* echo_cancellation_impl.cc:163), whichever calls failed before.          *)
(***************************************************************************)
THEOREM ParametersFresh == Spec => FreshParameters
  <1> DEFINE A == /\ AecProcess /\ enabled[AEC]
                       => "delay" \in given /\ (drift_compensation_enabled_ => "drift" \in given)
                  /\ AecmProcess /\ enabled[AECM] => "delay" \in given
                  /\ AgcProcess /\ enabled[AGC] /\ mode = "analog" => "level" \in given
  <1>1. ParamInv => A
    BY DEF ParamInv, AecProcess, AecMissesParameter, AecmProcess, AgcProcess
  <1>2. ParamInv /\ [Next]_vars => [A]_vars
    BY <1>1
  <1>3. QED BY <1>2, ParamInvariance, PTL DEF Spec, FreshParameters
-----------------------------------------------------------------------------
(* The noisy reference *)

\* Before noise suppression has run no reference is taken for one.
RefInv == /\ at \in {"agc_analyze", "aec", "ns"} => ~reference_copied_
          /\ NoisyReference

LEMMA RefInvariance == Spec => []RefInv
  <1>1. Init => RefInv
    BY DEF Init, RefInv, NoisyReference
  <1>2. RefInv /\ [Next]_vars => RefInv'
    <2> SUFFICES ASSUME RefInv, [Next]_vars PROVE RefInv'
      OBVIOUS
    <2> USE DEF RefInv, NoisyReference, settings, buffer
    <2>1. CASE ProcessStream
      BY <2>1 DEF ProcessStream, InitForNewData
    <2>2. CASE AgcAnalyze
      BY <2>2 DEF AgcAnalyze
    <2>3. CASE AecProcess
      BY <2>3 DEF AecProcess
    <2>4. CASE NsProcess
      BY <2>4 DEF NsProcess
    <2>5. CASE AecFails \/ AecmFails \/ AgcFails \/ AecmProcess \/ AgcProcess \/ Finish
      BY <2>5 DEF AecFails, AecmFails, AgcFails, Fail, AecmProcess, AgcProcess, Finish
    <2>6. CASE Caller
      BY <2>6, CallerBetweenCalls
    <2>7. CASE UNCHANGED vars
      BY <2>7 DEF vars
    <2>8. QED BY <2>1, <2>2, <2>3, <2>4, <2>5, <2>6, <2>7 DEF Next, Chain
  <1>3. QED BY <1>1, <1>2, PTL DEF Spec

(***************************************************************************)
(* AECM never takes the noisy reference of another frame                   *)
(* (echo_control_mobile_impl.cc:189), however noise suppression and AECM   *)
(* are switched between calls.                                             *)
(***************************************************************************)
THEOREM ReferenceIsCurrent == Spec => []NoisyReference
  <1>1. RefInv => NoisyReference
    BY DEF RefInv
  <1>2. QED BY <1>1, RefInvariance, PTL
-----------------------------------------------------------------------------
(* The bands of the frame *)

\* The components that change the frame.
Changing == Component \ {VAD, LE}

\* is_data_processed counts: what it comes to.
LEMMA DataProcessed == IsDataProcessed <=> \E c \in Changing : enabled[c]
  <1> DEFINE on == {c \in Component : enabled[c]}
  <1>1. LE \in Component /\ VAD \in Component
    BY DEF Component
  <1>2. ASSUME NEW c \in Changing, enabled[c] PROVE IsDataProcessed
    <2>1. c \in on /\ c # LE /\ c # VAD
      BY <1>2 DEF Changing
    <2>2. QED BY <2>1 DEF IsDataProcessed
  <1>3. ASSUME \A c \in Changing : ~enabled[c] PROVE ~IsDataProcessed
    <2>1. on \subseteq {LE, VAD}
      BY <1>3 DEF Changing
    <2>2. on \in {{}, {LE}, {VAD}, {LE, VAD}}
      BY <2>1
    <2>3. QED BY <2>2 DEF IsDataProcessed
  <1>4. QED BY <1>2, <1>3

\* Between calls nothing is changed and left in the bands, but by a call that failed.
BandInv ==
    /\ audio # "unsplit"
    /\ at # "idle" /\ swb => /\ audio = "full" <=> ~AnalysisNeeded
                             /\ audio # "merged"
                             /\ audio = "changed" => IsDataProcessed
    /\ at # "idle" /\ ~swb => audio \in {"full", "merged"}
    /\ at = "idle" /\ ~lastFailed => audio # "changed"

\* A component that changes the frame finds the bands.
LEMMA ChangeKeepsBands ==
    ASSUME BandInv, at # "idle", at' # "idle", NEW c \in Changing, Change(c), UNCHANGED settings
    PROVE  BandInv'
  <1>1. IsDataProcessed' = IsDataProcessed /\ AnalysisNeeded' = AnalysisNeeded /\ swb' = swb
    BY DEF settings, IsDataProcessed, AnalysisNeeded
  <1>2. CASE enabled[c]
    <2>1. IsDataProcessed
      BY <1>2, DataProcessed
    <2>2. QED BY <1>1, <1>2, <2>1 DEF BandInv, Change, AnalysisNeeded
  <1>3. CASE ~enabled[c]
    BY <1>1, <1>3 DEF BandInv, Change
  <1>4. QED BY <1>2, <1>3

LEMMA BandInvariance == Spec => []BandInv
  <1>1. Init => BandInv
    BY DEF Init, BandInv
  <1>2. BandInv /\ TypeOK /\ [Next]_vars => BandInv'
    <2> SUFFICES ASSUME BandInv, TypeOK, [Next]_vars PROVE BandInv'
      OBVIOUS
    <2>1. CASE Chain
      <3>1. UNCHANGED settings
        BY <2>1, ChainKeepsSettings
      <3>2. IsDataProcessed' = IsDataProcessed /\ AnalysisNeeded' = AnalysisNeeded /\ swb' = swb
        BY <3>1 DEF settings, IsDataProcessed, AnalysisNeeded
      <3>3. AGC \in Changing /\ AEC \in Changing /\ NS \in Changing /\ AECM \in Changing
            /\ HPF \in Changing
        BY DEF Changing, Component, AGC, AEC, NS, AECM, HPF, VAD, LE
      <3>4. CASE ProcessStream
        <4>1. enabled[HPF] => IsDataProcessed
          BY <3>3, DataProcessed
        <4>2. QED BY <3>2, <3>4, <4>1 DEF ProcessStream, BandInv, AnalysisNeeded
      <3>5. CASE AgcAnalyze
        <4>1. CASE Change(AGC)
          BY <3>1, <3>3, <3>5, <4>1, ChangeKeepsBands DEF AgcAnalyze
        <4>2. CASE UNCHANGED audio
          BY <3>2, <3>5, <4>2 DEF AgcAnalyze, BandInv
        <4>3. QED BY <3>5, <4>1, <4>2 DEF AgcAnalyze
      <3>6. CASE AecProcess
        BY <3>1, <3>3, <3>6, ChangeKeepsBands DEF AecProcess
      <3>7. CASE NsProcess
        BY <3>1, <3>3, <3>7, ChangeKeepsBands DEF NsProcess
      <3>8. CASE AecmProcess
        BY <3>1, <3>3, <3>8, ChangeKeepsBands DEF AecmProcess
      <3>9. CASE AgcProcess
        BY <3>1, <3>3, <3>9, ChangeKeepsBands DEF AgcProcess
      <3>10. CASE AecFails \/ AecmFails \/ AgcFails
        BY <3>10 DEF AecFails, AecmFails, AgcFails, Fail, BandInv, buffer
      <3>11. CASE Finish
        BY <3>11 DEF Finish, BandInv, SynthesisNeeded
      <3>12. QED
        BY <2>1, <3>4, <3>5, <3>6, <3>7, <3>8, <3>9, <3>10, <3>11 DEF Chain
    <2>2. CASE Caller
      <3>1. audio' = audio \/ audio' = "full"
        BY <2>2 DEF Caller, SetStreamDelay, SetStreamDrift, SetStreamAnalogLevel,
                    EnableDriftCompensation, Enable, SetMode, SetAnalogLevelLimits, Initialize,
                    Between, buffer
      <3>2. QED BY <2>2, <3>1, CallerBetweenCalls DEF BandInv
    <2>3. CASE UNCHANGED vars
      BY <2>3 DEF vars, settings, buffer, history, BandInv, IsDataProcessed, AnalysisNeeded
    <2>4. QED BY <2>1, <2>2, <2>3 DEF Next
  <1>3. QED BY <1>1, <1>2, ChainTypes, PTL DEF Spec

(***************************************************************************)
(* No component works on bands that were not made, and what one has        *)
(* changed is merged and handed back (audio_processing_impl.cc:666, 707,   *)
(* 746 and is_data_processed, 1161).                                       *)
(***************************************************************************)
THEOREM ResultReachesCaller == Spec => []FrameCarriesResult
  <1>1. BandInv /\ TypeOK => FrameCarriesResult
    <2> SUFFICES ASSUME BandInv, TypeOK PROVE FrameCarriesResult
      OBVIOUS
    <2>1. at = "agc" /\ swb /\ enabled[VAD] => audio # "full"
      BY DEF BandInv, AnalysisNeeded
    <2>2. at = "idle" /\ ~lastFailed /\ audio # "full" => audio = "merged" \/ audio = "split"
      BY DEF BandInv, TypeOK
    <2>3. (\E c \in Component \ {VAD, LE} : enabled[c]) => IsDataProcessed
      BY DataProcessed DEF Changing
    <2>4. QED BY <2>1, <2>2, <2>3 DEF BandInv, FrameCarriesResult
  <1>2. QED BY <1>1, BandInvariance, ChainTypes, PTL
-----------------------------------------------------------------------------
(* The envelopes of the AGC *)

\* The AGC analyses frames and takes envelopes.
Adaptive == enabled[AGC] /\ mode # "fixed"

\* Between calls the queue is empty until a call fails; a call that goes through
\* leaves at most the envelope of its own frame.  Within a call the last envelope
\* queued is the one of the frame in hand.
QueueInv ==
    Adaptive =>
      /\ at \in {"idle", "agc_analyze", "finish"} /\ ~failed => inQueue = 0
      /\ at \in {"idle", "agc_analyze"} /\ ~lastFailed => inQueue < 2
      /\ at = "idle" /\ ~lastFailed /\ inQueue = 1 => env[1] = 0
      /\ at = "agc_analyze" /\ ~lastFailed /\ inQueue = 1 => env[1] <= 1
      /\ at \in {"aec", "ns", "aecm", "agc"} =>
            /\ inQueue > 0
            /\ inQueue = 1 => env[1] = 0
            /\ inQueue = 2 => env[2] = 0
            /\ ~failed => inQueue = 1
            /\ ~lastFailed => env[1] <= 1
      /\ at = "finish" => inQueue < 2 /\ (inQueue = 1 => env[1] = 0)

LEMMA QueueInvariance == Spec => []QueueInv
  <1>1. Init => QueueInv
    BY DEF Init, QueueInv, Adaptive, Component, AGC
  <1>2. QueueInv /\ TypeOK /\ [Next]_vars => QueueInv'
    <2> SUFFICES ASSUME QueueInv, TypeOK, [Next]_vars PROVE QueueInv'
      OBVIOUS
    <2>1. AgesOK
      BY TypeParts
    <2> USE DEF QueueInv, Adaptive, AgesOK, Age, Old, settings, agc, history
    <2>2. CASE ProcessStream
      BY <2>1, <2>2 DEF ProcessStream, Older
    <2>3. CASE AgcAnalyze
      BY <2>1, <2>3 DEF AgcAnalyze, AddMic
    <2>4. CASE AecProcess \/ NsProcess \/ AecmProcess
      BY <2>4 DEF AecProcess, NsProcess, AecmProcess
    <2>5. CASE AecFails \/ AecmFails \/ AgcFails
      BY <2>5 DEF AecFails, AecmFails, AgcFails, Fail
    <2>6. CASE AgcProcess
      BY <2>1, <2>6 DEF AgcProcess, Dequeue
    <2>7. CASE Finish
      BY <2>1, <2>7 DEF Finish
    <2>8. CASE Caller
      <3>1. CASE UNCHANGED <<enabled[AGC], mode, env, inQueue, failed>>
        BY <2>8, <3>1, CallerBetweenCalls
      <3>2. CASE env' = <<Old, Old>> /\ inQueue' = 0
        BY <2>8, <3>2, CallerBetweenCalls
      <3>3. CASE ~enabled'[AGC]
        BY <3>3
      <3>4. ASSUME NEW c \in Component, NEW on \in BOOLEAN, Enable(c, on) PROVE QueueInv'
        <4>1. CASE c = AGC /\ on /\ ~enabled[AGC]
          BY <3>2, <3>4, <4>1 DEF Enable, InitializeAgc
        <4>2. CASE ~(c = AGC /\ on /\ ~enabled[AGC])
          <5>1. UNCHANGED <<mode, env, inQueue, failed>> /\ enabled' = [enabled EXCEPT ![c] = on]
            BY <3>4, <4>2 DEF Enable, InitializeAgc, Between
          <5>2. enabled'[AGC] = enabled[AGC] \/ ~enabled'[AGC]
            BY <4>2, <5>1 DEF TypeOK
          <5>3. QED BY <3>1, <3>3, <5>1, <5>2
        <4>3. QED BY <4>1, <4>2
      <3>5. ASSUME NEW m \in {"analog", "digital", "fixed"}, SetMode(m) PROVE QueueInv'
        BY <3>2, <3>3, <3>5 DEF SetMode, InitializeAgc, Between
      <3>6. CASE \E b \in BOOLEAN : SetAnalogLevelLimits(b) \/ Initialize(b)
        BY <3>2, <3>3, <3>6 DEF SetAnalogLevelLimits, Initialize, InitializeAgc, Between
      <3>7. CASE \/ SetStreamDelay \/ SetStreamDrift
                 \/ \E b \in BOOLEAN : SetStreamAnalogLevel(b) \/ EnableDriftCompensation(b)
        BY <3>1, <3>7 DEF SetStreamDelay, SetStreamDrift, SetStreamAnalogLevel,
                          EnableDriftCompensation, Between
      <3>8. QED BY <2>8, <3>4, <3>5, <3>6, <3>7 DEF Caller
    <2>9. CASE UNCHANGED vars
      BY <2>9 DEF vars
    <2>10. QED BY <2>2, <2>3, <2>4, <2>5, <2>6, <2>7, <2>8, <2>9 DEF Next, Chain
  <1>3. QED BY <1>1, <1>2, ChainTypes, PTL DEF Spec

(***************************************************************************)
(* The AGC takes the envelope of the frame in hand until a call fails, and *)
(* is at most one frame behind afterwards, but for the call after the      *)
(* failure (analog_agc.c:190, 1217).                                       *)
(***************************************************************************)
THEOREM EnvelopeLag == Spec => []AnalysisLag
  <1>1. QueueInv => AnalysisLag
    BY DEF QueueInv, Adaptive, AnalysisLag
  <1>2. QED BY <1>1, QueueInvariance, PTL
=============================================================================
