# A TLA+ model of APMSDK

APMSDK is an Android application around the audio processing module (APM) of
WebRTC.  It records a microphone, mixes in what is needed for echo tests, runs
ten-millisecond frames through the native APM and encodes the result as AAC.
About 1,900 lines of Java and 500 lines of JNI code are the application's own;
`webrtc/` is a vendored tree of 470,000 lines, of which the application uses
`modules/audio_processing`.

This directory holds TLA+ modules for the parts whose correctness depends on
the order of events: which thread holds which lock, what another thread may do
in between, what a queue, a flag or a codec looks like when a thread comes
back to it.  What the signal processing computes is not modelled.

Paths are abbreviated: `apm/` is
`src/app/src/main/cpp/hwapm/webrtc/modules/audio_processing/` and `java/` is
`src/app/src/main/java/com/huawu/fivesmart/audio/apm/`.

## 1. Inventory

| Component | State | Operations | Threads and interaction |
|---|---|---|---|
| `common_audio/swap_queue.h` | slots, read and write index, count | Insert, Remove, Clear | one lock around each method; producer is the render side, consumer the capture side (or the render side when the queue is full) |
| `apm/audio_processing_impl.cc` | api formats, processing rates, list of components, two recursive locks | ProcessStream, ProcessReverseStream, Initialize | capture, render and any control thread; calls the components with locks held |
| `apm/echo_cancellation_impl.cc`, `echo_control_mobile_impl.cc`, `gain_control_impl.cc`, `processing_component.cc` | enabled flag, handles, render queue | Enable, Initialize, ProcessRenderAudio, ReadQueuedRenderData, ProcessCaptureAudio, SetEchoPath, setters | called by the APM and by control threads; ask the APM for rates and for each other |
| stream parameters (delay, drift, analog level) | set flags and values | set_stream_delay_ms, set_stream_analog_level | set by the capture thread before a frame, consumed by it |
| `common_audio/ring_buffer.c` | cells, two positions, wrap flag | write, read, move of the read position | one thread at a time; under the buffers of AEC and AECM |
| `apm/aecm/echo_control_mobile.c`, `aecm_core.c` | far-end buffer, start-up counters, frame and block buffers | Init, BufferFarend, Process | under the capture lock; the delay comes from the caller |
| `apm/agc/legacy/analog_agc.c` | queue of two envelopes | AddMic, VirtualMic, Process | under the capture lock, two calls per frame |
| `apm/audio_buffer.cc` | the frame, its bands, the noisy reference | deinterleave, split, merge, interleave | one capture call |
| other APM components | enabled flag and numerical state | Enable, ProcessCaptureAudio | under the capture lock only |
| `apmProcessJNI.cpp`, `apm_processing.cpp`, `java/Apm.java` | the native instance and two frames | create, init, free, ProcessStream, settings | any Java thread; no lock of their own |
| `java/AudioMediaCodecEncoder.java` | codec, `mInit`, set of timestamps, counters | start, stop, pushAudioFrameSync, decodeOutput | UI thread, record threads, its own looper thread |
| `java/util/TXCThread.java` | a looper thread and its handler | runSync, runAsync, runAsyncDelay | the caller waits on the handler's monitor |
| `java/MainActivity.java` | `isRecording`, AudioRecord, frame counter, two rests of frames | clicks, record, stopRecording, processStream, getPTSUs, onDestroy | UI thread and one new thread for each recording |
| `java/AudioDecoderThread.java` | extractor, decoder, `eosReceived` | startPlay, stop, decode loop | record thread starts it, UI thread stops it, its own thread runs the loop |
| `java/EchoActivity.java` | none that lasts | doNS, doAECM, doAGC | one sequential thread that processes files |
| `java/util/BufferUtils.java`, `TestUtils.java` | none | byte order, mixing, WAV and ADTS headers | pure functions and file dumps |
| `apm_wrapper*.cpp`, rest of `webrtc/` | | | not used by the application |

What is hard about them:

* two locks with components that lock again, and calls that let go of the locks
  half way and go on with what they read before (APM);
* a bounded queue between two threads that is emptied by its producer when it
  is full (APM);
* configuration of a running system by further threads (APM);
* a synchronous call on another thread, made with wait and notify (TXCThread);
* a chain of messages that posts itself, a codec used by three threads with no
  lock, and timestamps that travel past the codec in a set (encoder);
* a call that ends with an error half way through the components and leaves
  flags, envelopes and references for the next one (capture chain);
* two corrections of one buffer that work against each other, and frames cut
  into blocks of another size (AECM);
* a position that may rest on the end of a buffer, and a wrap flag (ring
  buffer);
* an object whose fields the threads of two calls share (AudioDecoderThread);
* plain fields shared by the UI thread and record threads, and a catch clause
  that undoes nothing (MainActivity).

What makes each correct is listed with the module that models it.

## 2. Modules

| Module | Models | Role |
|---|---|---|
| `BoundedFifo` | | abstract specification of a bounded queue |
| `SwapQueue` | `swap_queue.h` | component; implements `BoundedFifo` |
| `SwapQueueProofs` | | proofs about `SwapQueue` |
| `AudioProcessing` | APM locking, formats, render queues | component |
| `AudioProcessingProofs` | | proofs about `AudioProcessing` |
| `CaptureChain` | `ProcessStreamLocked`, stream parameters, AGC envelopes, `AudioBuffer` | component |
| `CaptureChainProofs` | | proofs about `CaptureChain` |
| `DelayLine` | | abstract specification of a buffer whose past can be read again |
| `RingBuffer` | `ring_buffer.c` | component; implements `DelayLine` |
| `RingBufferProofs` | | proofs about `RingBuffer` |
| `AecmFrames` | `WebRtcAecm_ProcessFrame` and its buffers | component |
| `AecmFarEnd` | `echo_control_mobile.c` | component; extends `AecmFrames` |
| `AecmProofs` | | proofs about both |
| `AudioEncoder` | `AudioMediaCodecEncoder`, `TXCThread` | component |
| `AudioEncoderProofs` | | proofs about `AudioEncoder` |
| `PresentationTime` | `getPTSUs` | pure operator with int width |
| `FrameChunker` | `processStream`, `merge`, `getSRCRight` | component |
| `FrameChunkerProofs` | | proofs about `FrameChunker` |
| `RecordSession` | record part of `MainActivity` | component |
| `BgmDecoder` | `AudioDecoderThread` | component |
| `RecordMusic` | | `RecordSession` composed with `BgmDecoder` |
| `RecordingProofs` | | proofs about `RecordSession` and `RecordMusic` |
| `MCAudioEncoderOverflow` | | `AudioEncoder` fed by `PresentationTime` |
| `MC*` | | instances for TLC |

Operators named `X_Y` (`Insert_NoSwap`, `ClearInit_StaysOn`) are faulty
variants of `X`.  No specification uses them; substituted for `X` each one
makes TLC report one of the properties, which shows that the property speaks
about the code.

### SwapQueue

A buffer is a number; `queue_` says which buffer each slot holds, `input` and
`output` which one the producer and the consumer hold, `content` what is in
it.  Each method holds `crit_queue_` throughout and is one action per outcome:
`Insert`, `InsertFull`, `Remove`, `RemoveEmpty`, `Clear`; `Fill` is the
producer writing into its own buffer.  The constructors are `Init`.

Properties: the index relation of the comment at line 196 (`IndexRelation`),
no buffer in two places (`NoSharedBuffer`), and the refinement of
`BoundedFifo` (`IsFifo`) with `Queued`, the contents from the read index on,
as the refinement mapping.

### AudioProcessing

One capture, one render and any number of control threads.  A step runs from
one lock operation to the next, so every interleaving the locks allow is
explored: `ProcessStream` is seven steps (read the queues; AECM check; copy the
format; take render; compare; reinitialize; take capture and check the length;
process), `ProcessReverseStream` the same way.  Within one step only state
guarded by a lock that is held, or that the thread alone writes, is touched.
The locks are recursive (`base/criticalsection.cc:32`); a lock a thread holds
already is not taken again.  AGC was given the capture lock as both of its
locks (`audio_processing_impl.cc:178`), hence its short way through `Enable`
and `InsertAgcFrame`.

Data: a frame is its rate in kHz and has rate/100 samples, as
`SetFrameSampleRate` and the library's callers make it; an element of a render
queue is the processing rate under which it was made, which fixes its length.
Channel counts are one throughout, as `Apm.java` sets them up.  Queues hold
`Capacity` elements (100 in the code).  `RTC_DCHECK_EQ` is evaluated: the
CMake files define no NDEBUG (`base/checks.h:166`), so the retry happens.

| Property | What it says |
|---|---|
| `AecmRate` | AECM never runs above 16 kHz; it is also why component initialization never stops half way |
| `EchoExclusive` | AEC and AECM are never enabled together |
| `LockOrder` | no thread waits for the render lock with the capture lock held |
| `QueueMatchesFormat` | an enabled component never finds an element of another processing rate |
| `RetryHasRoom` | "Retry the insert (should always work)" |
| `ProcessedFormat` | after its checks a thread's frame has the format of the instance |
| `EveryFrameQueued` | a far-end frame handed to an enabled echo component is the last in its queue |
| `CallsReturn` (`MCAudioProcessingLive`) | every call returns |
| `CaptureNotResampled` | the near end is processed at a rate its frames can be copied back from; not kept, section 4 |

### CaptureChain

One call of `ProcessStreamLocked`, component by component, with the setters and
`Enable` calls a caller may make between two of them.  A call holds the capture
lock, so nothing comes between its steps.  `at` is the component that comes
next; an error return goes straight to the end of the call and leaves the flags
as the code leaves them: `was_stream_delay_set` is cleared only by a call that
succeeds, the drift flag by AEC as soon as it runs, the level flag by the AGC.
A frame is its age in calls, so a stale envelope or reference is an age above 0.
`given` is history: the parameters the caller gave since they were last used.

`set_stream_analog_level` sets its flag before it refuses a level (line 240).
After `set_analog_level_limits` a kept level may be out of range; every call then
fails (`analog_agc.c:656`) until a level is given again.

| Property | What it says |
|---|---|
| `FreshParameters` | no component runs on a delay, drift or level given for a frame that went through before |
| `AnalysisLag` | the AGC works on the envelope of the frame in hand until a call has failed, and is never more than one frame behind after that, but for the call that follows the failure |
| `NoisyReference` | AECM gets the noisy reference exactly when noise suppression is on, and of this frame |
| `FrameCarriesResult` | bands are used only after the split, and what was changed is merged and copied back |

### RingBuffer

Both positions with the code's odd range (0 to `element_count`, the end
included) and the wrap flag.  `WriteBuffer`, `ReadBuffer`, `MoveReadPtr` and
`InitBuffer` are one action each.  `DelayLine` is what AECM relies on: a history
of the last `element_count` samples of which the last `unread` are readable; a
read takes the oldest of these, a move backwards makes old ones readable again.
`WrapConsistent` says which positions go with which flag; `IsDelayLine` is the
refinement.

### AecmFrames and AecmFarEnd

`AecmFrames` counts the readable samples of the four ring buffers of
`WebRtcAecm_ProcessFrame` (`unread` of `DelayLine`) and keeps the two positions
of the far array.  `AecmFarEnd` adds the far-end buffer, the start-up with its
counters, `DelayComp` and `EstBufDelay`; the delay reported may change with each
call.  `knownDelay` and the variables that only lead to it are left out: the
core is always passed its own, which stays 0.

Properties: `FetchesBufferedFrame` (the far frame fetched is the one just
buffered, over every wrap of the far array), `LatencyBound` (what waits in the
buffers equals what was stuffed, less than a block), `NearInStep`, `StartupEnds`
and `DelaySettles`.

Seen on the way: the comment "This should only happen for the first frame"
(`aecm_core.c:626`) is not exact, the first three frames are stuffed by 16
samples each.  At 16 kHz `DelayComp` adds a frame and `EstBufDelay` takes it away
again for ever when the delay keeps the buffer at the edge, and above about 250 ms
the buffer of 4000 samples cannot hold what is missing, so that stuffing
does not end; hence `DelaySettles` speaks about 8 kHz.

### AudioEncoder

Callers of `start` and `stop` go through the monitor of the encoder and then
through `runSync`: post the task with the flag cleared under the handler's
monitor, test the flag, wait, and be woken by `NotifyAll` or for no reason
(`Wake`).  The looper thread takes tasks and `decodeOutput` messages one at a
time; the steps of `startInner` and `stopInner` that other threads can see
between are separate (`RunStart`/`MakePtsSet`, `RunStop`/`ClearInit`).
Pushers add the timestamp, test `mInit`, get an input buffer and queue it, and
`PushThrows` when the codec was released or replaced in between.  MediaCodec
is external: it has a frame or a free buffer whenever it is started, up to
`Extra` frames more than were pushed (the comment at line 290).  Its buffers
are not counted: whether one is free is a choice.  The Java fields are modelled
as sequentially consistent; see the last section.

Properties: `OneChain` (the codec is drained by exactly one message while the
encoder is on), `OutputOnLiveCodec`, `CallTookEffect` (start has started and
stop has stopped when they return), `PtsIncreases`, `CallsReturn`.

The comment above `stop` allows a call from the encoder thread.  A listener that
made it would wait for the encoder's monitor while a caller in `runSync` holds
it and waits for the encoder thread.  No listener of the repository does, so the
model has no such step.

### PresentationTime

`GetPTSUs(k)` is the int product of `getPTSUs`, wrapped at 2^32 and divided
with truncation.  TLC's integers have 32 bits themselves, so the common factor
2^11 is divided out; `MCAudioEncoderOverflow` feeds it to `AudioEncoder`.

### FrameChunker

One record thread and the two rests it keeps between calls of `processStream`.
A sample is its position in what was passed, so a sequence of samples shows any
loss, repetition or exchange.  `CallProcessStream` runs to the loop,
`ProcessFrame` is one turn of it (both arraycopies, both APM calls, the push),
`FarEndTooShort` the index exception of the second arraycopy, `PushThrows` an
exception out of the encoder, `KeepRests` the end.  The far-end chunk has the
length of the music chunk and the content of the microphone buffer, because
line 197 reads `byteBuffer` and not `bgmbyteBuffer`; a music chunk longer than
the buffer is `BufferUnderflow`.  A turn of the loop before the first music
chunk changes nothing here and has no action.  `given`, `givenFar`, `sent` and
`sentFar` are history; they start anew where an exception has thrown samples
away.

Properties: `SamplesInOrder` (frames handed on, then the rest, are what was
passed, for both streams and across recordings) and `FailsWhenShort` (the index
exception comes exactly when the far end is short of a frame in total).

### RecordSession

The UI thread's handlers step by step (flag, encoder, new thread; codec,
`mInit`, flag, `free`) and any number of record threads, each from the second
assignment of `isRecording` through opening, the loop and the end, in
`audioRecord.stop()` or in the catch clause.  `asked` is the last accepted
click and `failed` remembers a thread that ended in its catch clause; both
only serve the properties.  The encoder is reduced to `mInit` and `running`,
which `AudioEncoder` justifies: `CallTookEffect` says what a call has done
when it returns.

Properties: `MicHasOwner`, `EncoderFollowsClicks`, and `StopIsNotUndone`, which
the code does not keep (section 4).

A record thread that ends in its catch clause (line 227) leaves `isRecording`
set and the microphone on; the usual way there is `stopRecording` itself, which
releases the codec while the thread is in `pushAudioFrameSync`.  `MicHasOwner`
says that such a failure is the only way to lose the microphone.

### BgmDecoder and RecordMusic

`startPlay` in two steps (flag and extractor; decoder and thread), `stop`, and the
decoder threads on the shared fields, each turn of the loop as a step per use of
a field.  A field found null ends the process (`crashed`): nobody catches an
exception there.  `DecoderThrows` is a `startPlay` that throws after the decoder
was made.  `RecordMusic` joins the two: `startPlay` is part of the
record thread, `stop` a step of `stopRecording`.  A stop that comes before
`startPlay` clears `eosReceived` is lost, as in the code.

Properties: `CrashNeedsOverlap` (the process ends only after two calls of
`startPlay` have overlapped), `DecodersReleased`, `StopEndsMusic`,
`RecordersEnd`.  `overlapped` is history.

## 3. Runs

| Run | Configuration | Shows |
|---|---|---|
| `swap_queue` | 3 slots, 2 contents | all of the queue's properties; 69,120 states |
| `apm` | 1 control thread, 8/44/48 kHz, queues of 1 | the invariants of the APM and that no frame is lost; 1,022,260 states |
| `apm_live` | 2 control threads, 8 kHz frames on an instance at 48 kHz, 2 calls for capture and render, 1 for each control thread | what control threads can do to each other, and that every call returns; 100,691 states |
| `apm_resample` | as `apm` | violation, section 4 |
| `capture` | no bound: ages of 0, 1 and older | the capture chain; 1,668,480 states |
| `ring_buffer` | 3 cells, 2 contents, blocks of up to 4 | wrap flag and delay line; 8,385 states |
| `aecm` | frames and blocks of the code, far array of 256, far-end buffer of 12 frames, delays of 17 and 150 ms | frames, blocks, start-up and delay; 52,962 states |
| `encoder` | 2 callers, 1 pusher, 3 frames, 2 codecs, 1 extra frame | safety of the encoder, and that start and stop return; 396,516 states |
| `encoder_overflow` | 6 frames with the code's timestamps | violation: timestamps go back |
| `chunks` | frames of 3, buffer of 7, music chunks of 0, 5, 6, 7 and 8, 9 calls | no sample lost, and when `processStream` fails; 848 states |
| `record` | 2 record threads, 2 decoders, 2 start clicks | recording with music; 495,364 states |
| `record_stop` | 1 record thread | violation, section 4 |

Why the bounds are enough. Three slots make the two indices of the queue wrap at
different times and meet both full and empty. 8 kHz is the one rate that changes
the processing rate of the reverse stream, 48 is above what AECM takes and 44 is
no native rate; a queue of one element is full after one frame, so the retry is
reached from every state. A second control thread matters only for what control
threads do to each other, which rates do not influence, hence one rate in
`apm_live`, the one that makes capture and render reinitialize. Two codecs make
a frame buffer of the first one reach the second; three frames let one be passed
over, one be late and one come in time. Frames of 3 and a buffer of 7 leave one
sample over, as 1024 is two frames of 480 and a bit, so that every third call
has one frame more; nine calls go round three times. Two record threads race for
the flag, the encoder and the music, and two decoders are what one overlap
needs; a third start adds a thread that does the same. Three cells let the
positions of the ring buffer rest at the front, in the middle and on the end,
and blocks of four are longer than the buffer. In `aecm` frames and blocks have
the code's lengths, as their ratio is the point; the far array and the far-end
buffer are shorter but wrap and fill up in the same way, 17 ms is no multiple of
a frame and 150 ms above the limit. The proofs remove the bounds for everything
listed in section 5.

The type invariants of `SwapQueue` and `RingBuffer` are part of their inductive
invariants and proved in section 5; no run repeats them.

Deadlock is checked except in `MCAudioProcessingLive`, where the threads have
finitely many calls, and in `RecordSession` and `RecordMusic`, which stop when the
process has ended or the activity is destroyed and its threads are gone.

Fairness.  `apm_live`: weak fairness of each thread's steps in a call.  A
pthread mutex promises no order among waiters, so a thread that never stops
calling may starve another; the run has finitely many calls and so leaves only
blocking for ever as a way not to return.  Weak fairness then suffices, because
a thread that waits for a lock nobody takes any more can move all the time.
`encoder`: threads are scheduled and the looper comes to every task; the
looper gets the handler's monitor when it is free again and again (strong
fairness of `NotifyAll`), as a waiter that wakes for no reason holds it only for
a moment.  No fairness is assumed of new calls, of spurious wake-ups or of the
codec.  A caller that waits for the encoder's own monitor may be
overtaken for ever, so `CallsReturn` starts where the monitor is held.
`record`: the record threads are scheduled and `read` and
`dequeueInputBuffer` return (the latter has a time-out), and so are the decoder
threads, whose dequeues have time-outs; clicks are not fair.  `aecm`: both streams
go on, far frames and near frames; `DelaySettles` further supposes that from some
time on they alternate and the delay is constant, as with a device that runs.

## 4. Disagreements between the code and its comments

* `encoder_overflow`: `java/MainActivity.java:297` (and `EchoActivity.java:247`)
  multiplies in int; the sixth frame's product does not fit and its timestamp
  is negative.  The comment at 292 asks for monotonic timestamps.
* `record_stop`: a stop between the start click and the first step of the record
  thread is undone by `isRecording = true` at `MainActivity.java:139`.
* `apm_resample`: `ProcessStream` checks the rate for AECM, copies the format and
  reinitializes under three holds of the locks (`apm/audio_processing_impl.cc:621`).
  If the instance is initialized at a low rate and AECM enabled between them, the
  48 kHz frame is processed at 16 kHz.  `audio_buffer.cc:369` says that this is
  "only for supporting 48kHz to 16kHz in the reverse stream", and indeed
  `InterleaveTo` (line 435) copies 160 of the 480 samples back.

## 5. Proofs

All are checked by TLAPS for every value of the constants under the named
assumptions of the modules (threads are distinct, rates positive, queues not
empty; for the encoder also that there are finitely many threads, timestamps are
integers and a set of them is not the null reference).

`SwapQueueProofs`.  `IInv` is `TypeOK /\ IndexRelation /\ NoSharedBuffer`,
inductive as it stands.  `SwapQueueIsFifo` shows that initial states map to
initial states and each step to the step of the same name of `BoundedFifo`.
The work is in the lemmas about `SlotOf`: different positions of the queue are
different slots, and the position after the last is the write index.  They need
`IndexRelation`; that the contents of queued buffers survive `Fill` needs
`NoSharedBuffer`.

`AudioProcessingProofs`.  No property of section 2 is inductive: why the
enabled set does not change under the render thread follows from who holds which
lock.  The invariant is

    IInv == TypeOK /\ PcInv /\ LockInv /\ LocalsInv /\ ...

`LockInv` ties each lock to the places in the code where its owner is,
`LocalsInv` says what a thread's locals still are worth at each place, and the
remaining conjuncts are the properties themselves, which need each other:
`AecmRate` makes the initialization of the components complete, which
`QueueMatchesFormat` needs, and `EchoExclusive` needs both locks held in
`Enable`.  There is one lemma per action, then `Invariance`; the theorems follow
from it, `NoFrameLost` as an action property.  `NoDeadlock` is a consequence of
`LockInv` and `LockOrder`: whoever holds the capture lock waits for nobody, whoever
holds the render lock at most for the capture lock.  `OnlyAecmResamples` says how
far the disagreement `apm_resample` goes: as long as nobody initializes the instance
for more than 16 kHz while AECM is on (`AecmOffAbove`), processing and frame rate
agree (`SameRate`), because the processing rate is lowered for AECM only.

`CaptureChainProofs`.  Four independent invariants over `TypeOK` (which is proved in
three parts, as flags, names and ages need different provers).  `ParamInv`: a flag
that is set stands for a parameter the caller gave.  `RefInv`: the reference is
copied by noise suppression in this call or not at all.  `BandInv`: what the bands
are at each component, and that a change is remembered until the merge.  `QueueInv`:
what is in the queue of envelopes at each component, after calls that failed and
calls that did not.  TLC's run is exhaustive here; the proofs give the reason.

`FrameChunkerProofs`.  `SamplesInOrder` is inductive with `LoopInv` (the loop
stays within both arrays) by the associativity of concatenation and the lemma
`Cut` about adjacent stretches of an array.  `FailsWhenShort` compares totals
over all calls; it needs `SentFrames`: both streams have been cut into the same
number of whole frames, which makes the quotient of the near-end total that
number.

`RecordingProofs`.  `MicHasOwner` and `EncoderFollowsClicks` hold for any
number of record threads.  The strengthening `EncoderInv` says what the encoder
is at each place of the UI thread; the record threads never write it.
`OnlyEarlyStopUndone` confines the disagreement `record_stop`: if every stop comes
after the first line of the record threads (`StopsAfterBegin`), a thread about to
set the flag finds it set (`FlagIsSet`), and `StopIsNotUndone` holds.
`MusicIsSession` shows that the composition implements `RecordSession`, so its
theorems carry over (`SessionWithMusic`).  `Alone` says what holds while no two
calls of `startPlay` have overlapped: one caller or one thread, which finds its
decoder in the field.

`RingBufferProofs`.  `IInv` is `TypeOK /\ WrapConsistent`.  The refinement maps
the cell of each age of the delay line to a position modulo the length;
`WrapConsistent` gives the one arithmetic case per wrap that makes a write extend
the history and a move shift it.

`AecmProofs`.  For all lengths, `FramesInv` ties the fill of the far, near and
output buffers to the stuffed samples: the sum of far and output is what was
stuffed, less than a block, which is why the next frame always fits and the
blocks are whole (lemmas `WholeBlocks`, `BlocksOfFrame`, `RoomForBlocks`).
`FarInv` bounds the start-up counters.  `StartupMakesProgress` is what `StartupEnds`
rests on besides fairness, as an action property: two numbers that never grow, the
near-end calls for which the delay may still be checked and the far-end frames still
waited for, and which step lowers which.  That the second falls needs the lemma
`FarFrameCounts`: a far-end frame adds to the number of whole frames in the buffer
unless there are `BUF_SIZE_FRAMES` of them already.

`AudioEncoderProofs`.  `ChainInv` lets codec, `mInit` and the drain message differ
only in the middle of a task, and `SyncInv` says where the one task of the caller
with the monitor is: in the queue, being run, or done, and then its effect holds.
`OneChain`, `OutputOnLiveCodec` and `CallTookEffect` follow for any number of
callers and pushers, and `NoLostWakeup`: whoever waits in `runSync` has a task still
to be run or to be notified.

The type invariant takes counting.  `credit`, the frames in the codec, stays below
the number pushed because each pusher holds at most one frame of them (`FrameInv`,
by cardinality), and a codec's number below the starts made (`CodecInv`).  `StampInv`
keeps the set one of pushed timestamps, hence finite; that a finite set of integers then has the least element that
`pollFirst` returns (lemma `FiniteHasLeast`) is an induction, made by taking a least
counterexample, since the induction rules of the library cannot be instantiated here.

`PtsIncreases` is not true for arbitrary timestamps, and the proof shows what it
needs.  A timestamp made up when the set is empty (line 291) must not reach the next
real one.  Frames are without a timestamp in the set when they were pushed before the
set was made (between `mInit = true` and line 95) or when the codec gives out more
frames than it got (`Extra`);
`Split` and `OrderInv` count them: the listener has got what stands before frame `k`
and `j` made-up timestamps since, the set holds later frames only, and frames in the
codec plus `j` exceed the set by at most `n + 1`.  So `TimestampsIncrease` holds for
frames further apart than `n + 1 + Extra` steps of 100 microseconds, where `n` bounds
the frames that are in the codec as the set is made; `TimestampsIncreaseAlways` puts
`MaxPush` for `n`.  With one pusher the frames are added in order, as in the
application, where one record thread pushes at a time; with two a smaller timestamp
may be added late.  `FirstTimestampsIncrease` uses `getPTSUs` itself: for up to five
frames its timestamps are spaced enough, and `encoder_overflow` shows that the sixth is
not.

Only model-checked: the liveness properties (`CallsReturn` twice, `StopEndsMusic`,
`RecordersEnd`, `StartupEnds`, `DelaySettles`), which are out of the prover's
reach because of fairness and ENABLED.  `NoLostWakeup`, `NoDeadlock` and
`StartupMakesProgress` are the safety parts of three of them.

## 6. Plan

1. `AudioProcessing` with each render queue replaced by a `SwapQueue`, and
   `AecmFrames` with each count replaced by a `RingBuffer`, to connect the
   components by refinement.
2. An abstract specification of a recording (idle, recording, stopped) that
   `RecordSession` implements once the disagreements of section 4 are repaired.
3. The far-end buffer of `aec/echo_cancellation.c`, which steers its delay in
   another way than AECM.

## 7. What is not modelled

* The signal processing and everything in `webrtc/` outside
  `modules/audio_processing`: numerical or unused code.
* The components of the APM without a render side but for their place in
  `CaptureChain`: one lock, one thread at a time, numerical state.
* Noise suppression switched while AECM runs: `AecmFrames` has it on or off for a
  stream.  The clean near end is buffered only while it is on
  (`aecm_core.c:574`), so after a switch it is out of step with the noisy one.
* `stream_has_echo_`, which keeps its last value when AEC is switched off and only
  steers what the AGC computes.
* `onDestroy` under a running record thread: it frees the native instance
  (`MainActivity.java:281`) and nothing in the code waits for the thread.
  `RecordSession` has the state; there is no promise to check.
* `apmProcessJNI.cpp`, `apm_processing.cpp`, `Apm.java`: one call of the APM for
  each Java call.
* Most of the tree by lines: 400,000 of them are WebRTC modules that the
  application does not call (RTP, video, devices) or numerical code.
* The float interface of `ProcessStream` and `ProcessReverseStream`: the JNI code
  calls the `AudioFrame` one only.
* The end-of-stream branches of `pushAudioFrameSync`: no caller passes `isEnd`.
* The setters of the components; they change parameters of the numerical code
  under the capture lock.
* File formats and byte order (`TestUtils`, `BufferUtils`), the user interface,
  `EchoActivity`.
* The Java memory model.  `mInit`, `isRecording` and `mMediaCodec` are neither
  volatile nor guarded.  The models let every thread see the latest value; a
  faulty variant shows what happens to `RecordersEnd` when a thread keeps the
  value it read, which the
  language would allow (in the program, `read` is a native call between two
  tests, and no compiler in use keeps a field across it).
