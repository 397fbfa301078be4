-------------------------- MODULE AudioProcessing --------------------------
(***************************************************************************)
(* modules/audio_processing/audio_processing_impl.cc with the locking part *)
(* of its components: a render thread in ProcessReverseStream, a capture   *)
(* thread in ProcessStream and control threads that enable components and  *)
(* reinitialize, all on one APM instance.                                  *)
(*                                                                         *)
(* There are two recursive locks, always taken render first.  crit_render_ *)
(* alone is enough to read what the render side reads, crit_capture_ alone *)
(* for the capture side, and what both read is written under both.  A step *)
(* runs from one lock operation to the next, so that every interleaving    *)
(* the locks allow is explored.  A lock the thread holds already (the      *)
(* components lock again what their callers locked) is not taken twice.    *)
(*                                                                         *)
(* Data: a frame is its sample rate in kHz; the number of channels, which  *)
(* the library keeps at one on all streams, is left out.  An element of a  *)
(* render queue is the processing rate of the frame it was made from,      *)
(* which fixes its length.  What the signal processing computes is not     *)
(* modelled.                                                               *)
(***************************************************************************)
EXTENDS Integers, Sequences

CONSTANTS Capture,     \* the thread that calls ProcessStream
          Render,      \* the thread that calls ProcessReverseStream
          Control,     \* the threads that call Enable, Initialize, SetEchoPath
          NoOne,       \* the owner of a free lock
          FrameRate,   \* the rates frames may have
          InitRate,    \* the rate of all streams when the instance is created
          Capacity     \* kMaxNumFramesToBuffer

NativeRate == {8, 16, 32, 48}      \* kNativeSampleRatesHz
MaxAecmRate == 16                  \* kMaxAECMSampleRateHz
NoRate == 0

ASSUME ThreadAssumption == /\ Capture # Render
                           /\ Capture \notin Control
                           /\ Render \notin Control
                           /\ NoOne \notin Control \cup {Capture, Render}
ASSUME RateAssumption == FrameRate \subseteq Nat \ {0} /\ InitRate \in NativeRate
ASSUME CapacityAssumption == Capacity \in Nat \ {0}

Thread == Control \cup {Capture, Render}
AEC == "aec"
AECM == "aecm"
AGC == "agc"
Component == {AEC, AECM, AGC}

\* The in (= out) and reverse rates of an api_format.
Format == [in : NativeRate, rev : NativeRate]
NoFormat == [in |-> NoRate, rev |-> NoRate]

Request == [op : {"enable"}, component : Component, on : BOOLEAN]
           \cup [op : {"initialize"}]
           \cup [op : {"initialize_with"},
                format : [in : FrameRate \cap NativeRate, rev : FrameRate \cap NativeRate]]
           \cup [op : {"set_echo_path"}]
NoRequest == [op |-> "none"]

VARIABLES crit_render_, crit_capture_,   \* the thread that owns each lock
          api_format,                    \* formats_.api_format
          fwd_proc_rate,                 \* capture_nonlocked_.fwd_proc_format
          rev_proc_rate,                 \* formats_.rev_proc_format
          enabled,                       \* enabled_ of each component
          queue,                         \* render_signal_queue_ of each component
          pc,                            \* where each thread is
          frame,                         \* the rate of the frame being processed
          config,                        \* the caller's local processing_config
          stage,                         \* the component the render thread is in
          request                        \* what each control thread was asked

locks == <<crit_render_, crit_capture_>>
formats == <<api_format, fwd_proc_rate, rev_proc_rate>>
locals == <<frame, config, stage, request>>
vars == <<locks, formats, enabled, queue, pc, locals>>

\* Faulty variant: the AECM exception is forgotten.
FwdProcRate_NoException(rate) ==
    IF rate > 48 THEN 48
    ELSE CHOOSE n \in NativeRate :
            n >= rate /\ \A m \in NativeRate : m >= rate => n <= m

\* The closest native rate that is not below rate, with the AECM exception.
FwdProcRate(rate) ==
    IF enabled[AECM] /\ rate > MaxAecmRate
    THEN MaxAecmRate
    ELSE IF rate > 48 THEN 48
         ELSE CHOOSE n \in NativeRate :
                 n >= rate /\ \A m \in NativeRate : m >= rate => n <= m

RevProcRate(fwd, rev) == IF fwd = 8 THEN 8 ELSE IF rev = 32 THEN 32 ELSE 16

Init == /\ crit_render_ = NoOne
        /\ crit_capture_ = NoOne
        /\ api_format = [in |-> InitRate, rev |-> InitRate]
        /\ fwd_proc_rate = InitRate
        /\ rev_proc_rate = RevProcRate(InitRate, InitRate)
        /\ enabled = [c \in Component |-> FALSE]
        /\ queue = [c \in Component |-> <<>>]
        /\ pc = [t \in Thread |-> "idle"]
        /\ frame = [t \in {Capture, Render} |-> NoRate]
        /\ config = [t \in {Capture, Render} |-> NoFormat]
        /\ stage = AEC
        /\ request = [t \in Control |-> NoRequest]

Goto(t, from, to) == pc[t] = from /\ pc' = [pc EXCEPT ![t] = to]

\* A call returns: its locals go out of scope.
Return(t) == 
    /\ pc' = [pc EXCEPT ![t] = "idle"]
    /\ frame' = [u \in {Capture, Render} |-> IF u = t THEN NoRate ELSE frame[u]]
    /\ config' = [u \in {Capture, Render} |-> IF u = t THEN NoFormat ELSE config[u]]
    /\ request' = [u \in Control |-> IF u = t THEN NoRequest ELSE request[u]]

-----------------------------------------------------------------------------
(* Initialization, run by any thread that holds both locks.                *)

\* AECM is the one component whose Initialize() can fail.
AecmRejects(rate) == enabled[AECM] /\ rate > MaxAecmRate

\* Faulty variant: frames of the former format stay queued.
InitializeComponents_KeepQueue(rate) == UNCHANGED queue

\* The components in the order of component_list; the first that fails ends it.
\* Initialize() of an enabled component empties its queue.
InitializeComponents(rate) ==
    queue' = [c \in Component |->
                IF enabled[c] /\ (c = AEC \/ ~AecmRejects(rate))
                THEN <<>> ELSE queue[c]]

InitializeLocked(format) ==
    /\ api_format' = format
    /\ fwd_proc_rate' = FwdProcRate(format.in)
    /\ rev_proc_rate' = RevProcRate(fwd_proc_rate', format.rev)
    /\ InitializeComponents(fwd_proc_rate')

-----------------------------------------------------------------------------
(* The capture thread: ProcessStream of an AudioFrame                      *)

\* ReadQueuedRenderData of the three components under one hold of the capture
\* lock: each enabled one takes all it finds.  Then the native-rate check.
ProcessStream(rate) ==
    /\ pc[Capture] = "idle"
    /\ crit_capture_ = NoOne
    /\ queue' = [c \in Component |-> IF enabled[c] THEN <<>> ELSE queue[c]]
    /\ rate \in NativeRate
    /\ frame' = [frame EXCEPT ![Capture] = rate]
    /\ pc' = [pc EXCEPT ![Capture] = "aecm_check"]
    /\ UNCHANGED <<locks, formats, enabled, config, stage, request>>

\* A frame of another rate: the queues are read, then kBadSampleRateError.
ProcessStreamBadRate(rate) ==
    /\ pc[Capture] = "idle"
    /\ crit_capture_ = NoOne
    /\ rate \notin NativeRate
    /\ queue' = [c \in Component |-> IF enabled[c] THEN <<>> ELSE queue[c]]
    /\ UNCHANGED <<locks, formats, enabled, pc, locals>>

\* is_enabled() of AECM locks capture for itself.
CheckAecmRate ==
    /\ pc[Capture] = "aecm_check"
    /\ crit_capture_ = NoOne
    /\ IF enabled[AECM] /\ frame[Capture] > MaxAecmRate
       THEN Return(Capture)
       ELSE /\ pc' = [pc EXCEPT ![Capture] = "copy_format"]
            /\ UNCHANGED <<frame, config, request>>
    /\ UNCHANGED <<locks, formats, enabled, queue, stage>>

\* Faulty variant: the capture lock stays held over the reinitialization.
CopyFormat_KeepsLock ==
    /\ Goto(Capture, "copy_format", "want_render")
    /\ crit_capture_ = NoOne
    /\ crit_capture_' = Capture
    /\ config' = [config EXCEPT ![Capture] = [api_format EXCEPT !.in = frame[Capture]]]
    /\ UNCHANGED <<crit_render_, formats, enabled, queue, frame, stage, request>>

CopyFormat ==
    /\ Goto(Capture, "copy_format", "want_render")
    /\ crit_capture_ = NoOne
    /\ config' = [config EXCEPT ![Capture] = [api_format EXCEPT !.in = frame[Capture]]]
    /\ UNCHANGED <<locks, formats, enabled, queue, frame, stage, request>>

LockRenderForCapture ==
    /\ Goto(Capture, "want_render", "maybe_init")
    /\ crit_render_ = NoOne
    /\ crit_render_' = Capture
    /\ UNCHANGED <<crit_capture_, formats, enabled, queue, locals>>

\* MaybeInitialize: nothing to do, or the capture lock is needed as well.
MaybeInitializeCapture ==
    /\ pc[Capture] = "maybe_init"
    /\ IF config[Capture] = api_format
       THEN /\ crit_render_' = NoOne
            /\ pc' = [pc EXCEPT ![Capture] = "want_capture"]
       ELSE /\ pc' = [pc EXCEPT ![Capture] = "init"]
            /\ UNCHANGED crit_render_
    /\ UNCHANGED <<crit_capture_, formats, enabled, queue, locals>>

\* Both locks are released at the end of the block.
InitializeCapture ==
    /\ pc[Capture] = "init"
    /\ crit_capture_ = NoOne
    /\ InitializeLocked(config[Capture])
    /\ crit_render_' = NoOne
    /\ IF AecmRejects(fwd_proc_rate')
       THEN Return(Capture)
       ELSE /\ pc' = [pc EXCEPT ![Capture] = "want_capture"]
            /\ UNCHANGED <<frame, config, request>>
    /\ UNCHANGED <<crit_capture_, enabled, stage>>

\* Faulty variant: the length of the frame is not checked again.
LockCapture_NoCheck ==
    /\ Goto(Capture, "want_capture", "process")
    /\ crit_capture_ = NoOne
    /\ crit_capture_' = Capture
    /\ UNCHANGED <<crit_render_, formats, enabled, queue, locals>>

\* The capture lock again, and the length check: a frame has rate / 100 samples.
LockCapture ==
    /\ pc[Capture] = "want_capture"
    /\ crit_capture_ = NoOne
    /\ IF frame[Capture] = api_format.in
       THEN /\ crit_capture_' = Capture
            /\ pc' = [pc EXCEPT ![Capture] = "process"]
            /\ UNCHANGED <<frame, config, request>>
       ELSE Return(Capture) /\ UNCHANGED crit_capture_
    /\ UNCHANGED <<crit_render_, formats, enabled, queue, stage>>

\* ProcessStreamLocked, which changes nothing modelled here.
ProcessStreamLocked ==
    /\ pc[Capture] = "process"
    /\ crit_capture_' = NoOne
    /\ Return(Capture)
    /\ UNCHANGED <<crit_render_, formats, enabled, queue, stage>>

-----------------------------------------------------------------------------
(* The render thread: ProcessReverseStream of an AudioFrame                *)

\* A rate other than the forward one returns an error and changes nothing.
AnalyzeReverseStream(rate) ==
    /\ Goto(Render, "idle", "maybe_init")
    /\ crit_render_ = NoOne
    /\ rate \in NativeRate /\ rate = api_format.in
    /\ crit_render_' = Render
    /\ frame' = [frame EXCEPT ![Render] = rate]
    /\ config' = [config EXCEPT ![Render] = [api_format EXCEPT !.rev = rate]]
    /\ UNCHANGED <<crit_capture_, formats, enabled, queue, stage, request>>

MaybeInitializeRender ==
    /\ pc[Render] = "maybe_init"
    /\ IF config[Render] = api_format
       THEN /\ pc' = [pc EXCEPT ![Render] = "insert"]
            /\ stage' = AEC
       ELSE /\ pc' = [pc EXCEPT ![Render] = "init"]
            /\ UNCHANGED stage
    /\ UNCHANGED <<locks, formats, enabled, queue, frame, config, request>>

\* The capture lock is taken and released; the render lock stays held.
InitializeRender ==
    /\ pc[Render] = "init"
    /\ crit_capture_ = NoOne
    /\ InitializeLocked(config[Render])
    /\ IF AecmRejects(fwd_proc_rate')
       THEN /\ Return(Render)
            /\ crit_render_' = NoOne
            /\ UNCHANGED stage
       ELSE /\ pc' = [pc EXCEPT ![Render] = "insert"]
            /\ stage' = AEC
            /\ UNCHANGED <<crit_render_, frame, config, request>>
    /\ UNCHANGED <<crit_capture_, enabled>>

\* The echo components in order, then AGC.
NextStage ==
    /\ pc' = [pc EXCEPT ![Render] = IF stage = AEC THEN "insert" ELSE "agc"]
    /\ stage' = IF stage = AEC THEN AECM ELSE AEC

\* Faulty variant: the producer does not look whether the queue is full.
InsertRenderFrame_NoFullCheck ==
    /\ pc[Render] = "insert"
    /\ NextStage
    /\ IF ~enabled[stage]
       THEN UNCHANGED queue
       ELSE queue' = [queue EXCEPT ![stage] = Append(@, rev_proc_rate)]
    /\ UNCHANGED <<locks, formats, enabled, frame, config, request>>

\* ProcessRenderAudio of AEC and of AECM, up to a full queue.  enabled_ is
\* read under the render lock alone.
InsertRenderFrame ==
    /\ pc[Render] = "insert"
    /\ IF ~enabled[stage]
       THEN NextStage /\ UNCHANGED queue
       ELSE IF Len(queue[stage]) = Capacity
            THEN /\ pc' = [pc EXCEPT ![Render] = "drain"]
                 /\ UNCHANGED <<stage, queue>>
            ELSE /\ queue' = [queue EXCEPT ![stage] = Append(@, rev_proc_rate)]
                 /\ NextStage
    /\ UNCHANGED <<locks, formats, enabled, frame, config, request>>

\* ReadQueuedRenderData, called by the render thread on the full queue.
DrainFullQueue ==
    /\ Goto(Render, "drain", "retry")
    /\ crit_capture_ = NoOne
    /\ queue' = IF enabled[stage] THEN [queue EXCEPT ![stage] = <<>>] ELSE queue
    /\ UNCHANGED <<locks, formats, enabled, locals>>

\* Faulty variant: what a build that compiles RTC_DCHECK_EQ away would do.
RetryInsert_CompiledOut ==
    /\ pc[Render] = "retry"
    /\ NextStage
    /\ UNCHANGED <<locks, formats, enabled, queue, frame, config, request>>

\* RTC_DCHECK_EQ(Insert(...), true): the condition is evaluated in this build.
RetryInsert ==
    /\ pc[Render] = "retry"
    /\ Len(queue[stage]) < Capacity
    /\ queue' = [queue EXCEPT ![stage] = Append(@, rev_proc_rate)]
    /\ NextStage
    /\ UNCHANGED <<locks, formats, enabled, frame, config, request>>

\* ProcessRenderAudio of AGC, whose two locks are the capture lock: a full
\* queue is emptied and the frame inserted without letting go of it.
InsertAgcFrame ==
    /\ Goto(Render, "agc", "relock")
    /\ crit_capture_ = NoOne
    /\ queue' = IF ~enabled[AGC] THEN queue
                ELSE IF Len(queue[AGC]) = Capacity
                     THEN [queue EXCEPT ![AGC] = <<rev_proc_rate>>]
                     ELSE [queue EXCEPT ![AGC] = Append(@, rev_proc_rate)]
    /\ crit_render_' = NoOne
    /\ UNCHANGED <<crit_capture_, formats, enabled, locals>>

\* Back in ProcessReverseStream, which locks render again.
FinishReverse ==
    /\ pc[Render] = "relock"
    /\ crit_render_ = NoOne
    /\ Return(Render)
    /\ UNCHANGED <<locks, formats, enabled, queue, stage>>

-----------------------------------------------------------------------------
(* The control threads                                                     *)

\* Faulty variant: the echo components too lock capture only.
Call_CaptureOnly(t, r) ==
    /\ Goto(t, "idle", IF r.op = "enable" THEN "want_capture" ELSE "want_render")
    /\ request' = [request EXCEPT ![t] = r]
    /\ UNCHANGED <<locks, formats, enabled, queue, frame, config, stage>>

\* AGC was given the capture lock as its render lock.
Call(t, r) ==
    /\ Goto(t, "idle", IF r.op = "enable" /\ r.component = AGC
                       THEN "want_capture" ELSE "want_render")
    /\ request' = [request EXCEPT ![t] = r]
    /\ UNCHANGED <<locks, formats, enabled, queue, frame, config, stage>>

LockRenderForControl(t) ==
    /\ Goto(t, "want_render", "want_capture")
    /\ crit_render_ = NoOne
    /\ crit_render_' = t
    /\ UNCHANGED <<crit_capture_, formats, enabled, queue, locals>>

LockCaptureForControl(t) ==
    /\ Goto(t, "want_capture", "locked")
    /\ crit_capture_ = NoOne
    /\ crit_capture_' = t
    /\ UNCHANGED <<crit_render_, formats, enabled, queue, locals>>

ReleaseLocks(t) ==
    /\ crit_capture_' = NoOne
    /\ crit_render_' = IF crit_render_ = t THEN NoOne ELSE crit_render_

\* Faulty variant: only AECM looks at the other component.
Excluded_OneSided(c) == c = AECM /\ enabled[AEC]

\* AEC and AECM exclude each other.
Excluded(c) == \/ (c = AEC /\ enabled[AECM])
               \/ (c = AECM /\ enabled[AEC])

\* Enable(on): EnableComponent initializes the component when it comes on, and
\* turns it off again when that fails (AECM above 16 kHz).
Enable(t, c, on) ==
    LET turnsOn == on /\ ~enabled[c]
        fails   == turnsOn /\ c = AECM /\ fwd_proc_rate > MaxAecmRate
        refused == on /\ Excluded(c)
    IN  /\ pc[t] = "locked"
        /\ request[t] = [op |-> "enable", component |-> c, on |-> on]
        /\ IF refused \/ fails
           THEN UNCHANGED <<enabled, queue>>
           ELSE /\ enabled' = [enabled EXCEPT ![c] = on]
                /\ queue' = IF turnsOn THEN [queue EXCEPT ![c] = <<>>] ELSE queue
        /\ ReleaseLocks(t)
        /\ Return(t)
        /\ UNCHANGED <<formats, stage>>

\* Initialize(): every stream keeps its format.
Initialize(t) ==
    /\ pc[t] = "locked" /\ request[t].op = "initialize"
    /\ InitializeComponents(fwd_proc_rate)
    /\ ReleaseLocks(t)
    /\ Return(t)
    /\ UNCHANGED <<formats, enabled, stage>>

\* Initialize(processing_config)
InitializeWith(t) ==
    /\ pc[t] = "locked" /\ request[t].op = "initialize_with"
    /\ InitializeLocked(request[t].format)
    /\ ReleaseLocks(t)
    /\ Return(t)
    /\ UNCHANGED <<enabled, stage>>

\* SetEchoPath of AECM stores the path under both locks and then runs
\* Initialize() without them: three short steps, each on what it then finds.
SetEchoPath(t) ==
    /\ pc[t] = "locked" /\ request[t].op = "set_echo_path"
    /\ pc' = [pc EXCEPT ![t] = "path_enabled"]
    /\ ReleaseLocks(t)
    /\ UNCHANGED <<formats, enabled, queue, locals>>

EchoPathEnabled(t) ==
    /\ pc[t] = "path_enabled"
    /\ crit_capture_ = NoOne
    /\ IF enabled[AECM]
       THEN /\ pc' = [pc EXCEPT ![t] = "path_rate"]
            /\ UNCHANGED <<frame, config, request>>
       ELSE Return(t)
    /\ UNCHANGED <<locks, formats, enabled, queue, stage>>

\* proc_sample_rate_hz() is read without a lock.
EchoPathRate(t) ==
    /\ pc[t] = "path_rate"
    /\ IF fwd_proc_rate > MaxAecmRate
       THEN Return(t)
       ELSE /\ pc' = [pc EXCEPT ![t] = "path_lock"]
            /\ UNCHANGED <<frame, config, request>>
    /\ UNCHANGED <<locks, formats, enabled, queue, stage>>

\* AllocateRenderQueue locks render, then capture, and empties the queue,
\* whether or not AECM is still enabled.
EchoPathLockRender(t) ==
    /\ Goto(t, "path_lock", "path_alloc")
    /\ crit_render_ = NoOne
    /\ crit_render_' = t
    /\ UNCHANGED <<crit_capture_, formats, enabled, queue, locals>>

EchoPathAllocate(t) ==
    /\ pc[t] = "path_alloc"
    /\ crit_capture_ = NoOne
    /\ queue' = [queue EXCEPT ![AECM] = <<>>]
    /\ crit_render_' = NoOne
    /\ Return(t)
    /\ UNCHANGED <<crit_capture_, formats, enabled, stage>>

-----------------------------------------------------------------------------
\* The steps of a call in progress.
CaptureStep == \/ CheckAecmRate \/ CopyFormat
               \/ LockRenderForCapture \/ MaybeInitializeCapture
               \/ InitializeCapture \/ LockCapture \/ ProcessStreamLocked

RenderStep == \/ MaybeInitializeRender \/ InitializeRender
              \/ InsertRenderFrame \/ DrainFullQueue \/ RetryInsert
              \/ InsertAgcFrame \/ FinishReverse

ControlStep(t) == 
    \/ LockRenderForControl(t) \/ LockCaptureForControl(t)
    \/ \E c \in Component, on \in BOOLEAN : Enable(t, c, on)
    \/ Initialize(t) \/ InitializeWith(t) \/ SetEchoPath(t)
    \/ EchoPathEnabled(t) \/ EchoPathRate(t)
    \/ EchoPathLockRender(t) \/ EchoPathAllocate(t)

\* A new call.
NewCall == \/ \E r \in FrameRate : \/ ProcessStream(r)
                                   \/ ProcessStreamBadRate(r)
                                   \/ AnalyzeReverseStream(r)
           \/ \E t \in Control, r \in Request : Call(t, r)

Next == NewCall \/ CaptureStep \/ RenderStep \/ \E t \in Control : ControlStep(t)

Spec == Init /\ [][Next]_vars
-----------------------------------------------------------------------------
TypeOK ==
    /\ crit_render_ \in Thread \cup {NoOne}
    /\ crit_capture_ \in Thread \cup {NoOne}
    /\ api_format \in Format
    /\ fwd_proc_rate \in NativeRate
    /\ rev_proc_rate \in NativeRate
    /\ enabled \in [Component -> BOOLEAN]
    /\ queue \in [Component -> Seq(NativeRate)]
    /\ \A c \in Component : Len(queue[c]) <= Capacity
    /\ pc \in [Thread -> {"idle", "aecm_check", "copy_format", "want_render",
                          "maybe_init", "init", "want_capture", "process",
                          "insert", "drain", "retry", "agc", "relock", "locked",
                          "path_enabled", "path_rate", "path_lock", "path_alloc"}]
    /\ frame \in [{Capture, Render} -> NativeRate \cup {NoRate}]
    /\ config \in [{Capture, Render} -> Format \cup {NoFormat}]
    /\ stage \in {AEC, AECM}
    /\ request \in [Control -> Request \cup {NoRequest}]

(***************************************************************************)
(* The locks are taken render first: no thread waits for crit_render_ with *)
(* crit_capture_ in its hands.  The comment at audio_processing_impl.cc:   *)
(* 598 is about the one place where a method would.                        *)
(***************************************************************************)
LockOrder == \A t \in Thread : pc[t] \in {"want_render", "path_lock", "relock"}
                                  => t \notin {crit_render_, crit_capture_}

(***************************************************************************)
(* Enable of both echo components promises that AEC and AECM are never on  *)
(* together (echo_cancellation_impl.cc:223), whoever enables them and when.*)
(***************************************************************************)
EchoExclusive == ~(enabled[AEC] /\ enabled[AECM])

(***************************************************************************)
(* AECM never runs above 16 kHz (echo_control_mobile_impl.cc:317): Enable  *)
(* checks the rate and InitializeLocked makes an exception for AECM; any   *)
(* order of the two must keep it.  It is also why initialization of the    *)
(* components never stops half way.                                        *)
(***************************************************************************)
AecmRate == enabled[AECM] => fwd_proc_rate <= MaxAecmRate

(***************************************************************************)
(* ReadQueuedRenderData divides an element by the current number of        *)
(* handles (echo_cancellation_impl.cc:147), so an enabled component must   *)
(* never find one that was queued under another processing rate.           *)
(***************************************************************************)
QueueMatchesFormat ==
    \A c \in Component : enabled[c] =>
        \A i \in 1 .. Len(queue[c]) : queue[c][i] = rev_proc_rate

(***************************************************************************)
(* "Retry the insert (should always work)", echo_cancellation_impl.cc:129: *)
(* between the two inserts the render thread lets go of the capture lock,  *)
(* and nobody may fill the queue or disable the component meanwhile.       *)
(***************************************************************************)
RetryHasRoom == pc[Render] = "retry" => /\ enabled[stage]
                                        /\ Len(queue[stage]) < Capacity

(***************************************************************************)
(* The buffers a thread works on are those of its frame's format: after    *)
(* its checks no other thread reinitializes until the call is over         *)
(* (audio_processing_impl.cc:648 and 828).                                 *)
(***************************************************************************)
ProcessedFormat ==
    /\ pc[Capture] = "process" => frame[Capture] = api_format.in
    /\ pc[Render] \in {"insert", "drain", "retry", "agc"}
          => frame[Render] = api_format.rev

\* The render thread is done with component c.
PassesComponent(c) == /\ pc[Render] \in {"insert", "retry"} /\ stage = c
                      /\ (pc'[Render] # pc[Render] \/ stage' # c)
                      /\ pc'[Render] # "drain"

(***************************************************************************)
(* No far-end frame is lost: when the render thread has passed an enabled  *)
(* echo component, its frame is the last in that component's queue         *)
(* (echo_cancellation_impl.cc:124).                                        *)
(***************************************************************************)
EveryFrameQueued ==
    [][\A c \in {AEC, AECM} : PassesComponent(c) /\ enabled[c]
          => queue'[c] = Append(queue[c], rev_proc_rate)]_vars

(***************************************************************************)
(* "The resampler is only for supporting 48kHz to 16kHz in the reverse     *)
(* stream" (audio_buffer.cc:369): a capture frame is processed at the rate *)
(* it came with.                                                           *)
(***************************************************************************)
CaptureNotResampled == pc[Capture] = "process" => fwd_proc_rate = api_format.in
=============================================================================
