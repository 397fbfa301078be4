---------------------------- MODULE AudioEncoder ----------------------------
(***************************************************************************)
(* AudioMediaCodecEncoder.java with util/TXCThread.java.  start and stop   *)
(* post a task to the encoder thread and wait until it has run; the same   *)
(* thread drains the codec in a chain of decodeOutput messages, each of    *)
(* which posts the next.  Record threads push frames into the codec with   *)
(* no lock but the one around the set of timestamps.                       *)
(*                                                                         *)
(* A frame is its timestamp.  MediaCodec is external: whether it has a     *)
(* free input buffer or an encoded frame is nondeterministic, and using it *)
(* once it is released throws.  It may return more frames than were pushed *)
(* (the comment at line 290).  No caller pushes an end-of-stream frame, so *)
(* the isEnd branches are left out.                                        *)
(***************************************************************************)
EXTENDS Integers, FiniteSets

CONSTANTS Caller,      \* threads that call start and stop
          Pusher,      \* threads that call pushAudioFrameSync
          None,        \* no thread, and a set of timestamps that is null
          PtsOf(_),    \* the timestamp of the k-th frame, in microseconds
          Extra,       \* encoded frames beyond the pushed ones
          MaxPush,     \* bound: frames pushed
          MaxStart     \* bound: codecs created

ASSUME ThreadAssumption == Caller \cap Pusher = {} /\ None \notin Caller \cup Pusher
ASSUME FiniteAssumption == IsFiniteSet(Caller) /\ IsFiniteSet(Pusher)
ASSUME BoundAssumption == Extra \in Nat /\ MaxPush \in Nat /\ MaxStart \in Nat

Stamps == {PtsOf(k) : k \in 0 .. MaxPush - 1}

ASSUME PtsAssumption == \A k \in 0 .. MaxPush - 1 : PtsOf(k) \in Int
ASSUME NoneAssumption == \A S \in SUBSET Stamps : S # None

NoPts == -1
Step == 100                        \* added when the set is empty

VARIABLES mInit,
          codec, running,          \* which codec mMediaCodec is; it is started
          mAudioPtsSet, mNewPts,
          lastPts,                 \* the last timestamp the listener got
          credit,                  \* frames in the codec (negative: beyond)
          monitor,                 \* the thread in synchronized (this)
          mHandler,                \* the thread in synchronized (mHandler)
          task,                    \* the caller whose task is in the queue
          current,                 \* the caller whose task is being run
          runFlag,                 \* runFlag[0] of each caller
          chain,                   \* decodeOutput messages in the queue
          looper,                  \* where the encoder thread is
          pc, op,                  \* where each other thread is, in which call
          i, pts,                  \* frames so far; the frame of each pusher
          inputCodec               \* the codec a pusher's input index is of

codecVars == <<codec, running, credit>>
ptsVars == <<mAudioPtsSet, mNewPts, lastPts>>
syncVars == <<monitor, mHandler, task, current, runFlag, op>>
pushVars == <<i, pts, inputCodec>>
vars == <<mInit, codecVars, ptsVars, syncVars, chain, looper, pc, pushVars>>

Init == /\ mInit = FALSE
        /\ codec = 0 /\ running = FALSE /\ credit = 0
        /\ mAudioPtsSet = None /\ mNewPts = 0 /\ lastPts = NoPts
        /\ monitor = None /\ mHandler = None
        /\ task = None /\ current = None
        /\ runFlag = [c \in Caller |-> FALSE]
        /\ chain = 0
        /\ looper = "idle"
        /\ pc = [t \in Caller \cup Pusher |-> "idle"]
        /\ op = [c \in Caller |-> "stop"]
        /\ i = 0
        /\ pts = [p \in Pusher |-> NoPts]
        /\ inputCodec = [p \in Pusher |-> 0]

Goto(t, from, to) == pc[t] = from /\ pc' = [pc EXCEPT ![t] = to]

-----------------------------------------------------------------------------
(* start and stop: synchronized (this) around TXCThread.runSync            *)

Starting == {c \in Caller : op[c] = "start" /\ pc[c] # "idle"}

Call(c, o) == /\ Goto(c, "idle", "enter")
              /\ o = "start" => codec + Cardinality(Starting) < MaxStart
              /\ op' = [op EXCEPT ![c] = o]
              /\ UNCHANGED <<mInit, codecVars, ptsVars, monitor, mHandler, task,
                             current, runFlag, chain, looper, pushVars>>

Enter(c) == /\ Goto(c, "enter", "post")
            /\ monitor = None
            /\ monitor' = c
            /\ UNCHANGED <<mInit, codecVars, ptsVars, mHandler, task, current,
                           runFlag, op, chain, looper, pushVars>>

Post(c) == /\ Goto(c, "post", "test")
           /\ mHandler = None
           /\ mHandler' = c
           /\ runFlag' = [runFlag EXCEPT ![c] = FALSE]
           /\ task' = c
           /\ UNCHANGED <<mInit, codecVars, ptsVars, monitor, current, op, chain, looper,
                          pushVars>>

\* while (!runFlag[0]) mHandler.wait(), else both monitors are left.
TestFlag(c) ==
    /\ pc[c] = "test"
    /\ mHandler' = None
    /\ IF runFlag[c]
       THEN pc' = [pc EXCEPT ![c] = "idle"] /\ monitor' = None
       ELSE pc' = [pc EXCEPT ![c] = "waiting"] /\ UNCHANGED monitor
    /\ UNCHANGED <<mInit, codecVars, ptsVars, task, current, runFlag, op, chain, looper,
                   pushVars>>

\* wait() may return for no reason, or throw InterruptedException.
Wake(c) == /\ Goto(c, "waiting", "woken")
           /\ UNCHANGED <<mInit, codecVars, ptsVars, syncVars, chain, looper, pushVars>>

\* Faulty variant: if in the place of while.
Reacquire_Once(c) ==
    /\ Goto(c, "woken", "idle")
    /\ mHandler = None
    /\ monitor' = None
    /\ UNCHANGED <<mInit, codecVars, ptsVars, mHandler, task, current, runFlag, op,
                   chain, looper, pushVars>>

Reacquire(c) == /\ Goto(c, "woken", "test")
                /\ mHandler = None
                /\ mHandler' = c
                /\ UNCHANGED <<mInit, codecVars, ptsVars, monitor, task, current, runFlag,
                               op, chain, looper, pushVars>>

-----------------------------------------------------------------------------
(* The encoder thread                                                      *)

LooperGoto(from, to) == looper = from /\ looper' = to

\* The looper takes the task out of the queue.
TakeTask(o) == /\ looper = "idle" /\ task # None
               /\ op[task] = o
               /\ task' = None /\ current' = task
               /\ UNCHANGED <<monitor, mHandler, runFlag, op>>

\* startInner, unless the encoder is on already.  mInit is set, and pushers
\* may come in, before the set of timestamps is made.
RunStart ==
    /\ TakeTask("start")
    /\ IF mInit
       THEN looper' = "flag" /\ UNCHANGED <<mInit, codecVars, chain>>
       ELSE /\ codec' = codec + 1 /\ running' = TRUE /\ credit' = 0
            /\ mInit' = TRUE
            /\ chain' = chain + 1
            /\ looper' = "make_set"
    /\ UNCHANGED <<ptsVars, pc, pushVars>>

MakePtsSet ==
    /\ LooperGoto("make_set", "flag")
    /\ mAudioPtsSet' = {} /\ mNewPts' = 0 /\ lastPts' = NoPts
    /\ UNCHANGED <<mInit, codecVars, syncVars, chain, pc, pushVars>>

\* stopInner, if the encoder is on: the codec goes before mInit does.
RunStop ==
    /\ TakeTask("stop")
    /\ IF mInit
       THEN running' = FALSE /\ looper' = "clear_init"
       ELSE looper' = "flag" /\ UNCHANGED running
    /\ UNCHANGED <<mInit, codec, credit, ptsVars, chain, pc, pushVars>>

\* Faulty variant: the messages stay in the queue.
ClearInit_KeepsMessages ==
    /\ LooperGoto("clear_init", "flag")
    /\ mInit' = FALSE
    /\ UNCHANGED <<codecVars, ptsVars, syncVars, chain, pc, pushVars>>

\* Faulty variant: mInit stays set.
ClearInit_StaysOn ==
    /\ LooperGoto("clear_init", "flag")
    /\ UNCHANGED <<mInit, chain, codecVars, ptsVars, syncVars, pc, pushVars>>

\* mInit = false, then removeCallbacksAndMessages(null).
ClearInit ==
    /\ LooperGoto("clear_init", "flag")
    /\ mInit' = FALSE
    /\ chain' = 0
    /\ UNCHANGED <<codecVars, ptsVars, syncVars, pc, pushVars>>

SetFlag ==
    /\ LooperGoto("flag", "notify")
    /\ runFlag' = [runFlag EXCEPT ![current] = TRUE]
    /\ UNCHANGED <<mInit, codecVars, ptsVars, monitor, mHandler, task, current, op, chain,
                   pc, pushVars>>

Woken == [t \in Caller \cup Pusher |-> IF pc[t] = "waiting" THEN "woken" ELSE pc[t]]

\* Faulty variant: whoever waits is not told.
NotifyAll_Forgotten ==
    /\ LooperGoto("notify", "idle")
    /\ mHandler = None
    /\ current' = None
    /\ UNCHANGED <<mInit, codecVars, ptsVars, monitor, mHandler, task, runFlag, op, chain,
                   pc, pushVars>>

NotifyAll ==
    /\ LooperGoto("notify", "idle")
    /\ mHandler = None
    /\ pc' = Woken
    /\ current' = None
    /\ UNCHANGED <<mInit, codecVars, ptsVars, monitor, mHandler, task, runFlag, op, chain,
                   pushVars>>

Least(S) == CHOOSE x \in S : \A y \in S : x <= y
Greatest(S) == CHOOSE x \in S : \A y \in S : x >= y

\* Faulty variant: the latest timestamp is taken first.
CalculateCurrentFramePTS_Latest ==
    IF mAudioPtsSet # {}
    THEN /\ mNewPts' = Greatest(mAudioPtsSet)
         /\ mAudioPtsSet' = mAudioPtsSet \ {mNewPts'}
    ELSE mNewPts' = mNewPts + Step /\ UNCHANGED mAudioPtsSet

\* pollFirst() under mLock; 100 us more than last time when nothing is there.
CalculateCurrentFramePTS ==
    IF mAudioPtsSet # {}
    THEN /\ mNewPts' = Least(mAudioPtsSet)
         /\ mAudioPtsSet' = mAudioPtsSet \ {mNewPts'}
    ELSE mNewPts' = mNewPts + Step /\ UNCHANGED mAudioPtsSet

\* The codec has an encoded frame, the first one only when it was fed.
HasOutput == mInit => running /\ \/ credit > 0
                                 \/ lastPts # NoPts /\ credit > 0 - Extra

\* Faulty variant: a frame ends the chain.
DecodeOutput_NoRepost ==
    /\ looper = "idle" /\ chain > 0
    /\ HasOutput
    /\ chain' = chain - 1
    /\ IF ~mInit THEN UNCHANGED <<ptsVars, credit>>
       ELSE /\ CalculateCurrentFramePTS
            /\ lastPts' = mNewPts'
            /\ credit' = credit - 1
    /\ UNCHANGED <<mInit, codec, running, syncVars, looper, pc, pushVars>>

\* decodeOutput and onDecodeOutput.  When the codec has no frame the message is
\* posted again and nothing else changes.
DecodeOutput ==
    /\ looper = "idle" /\ chain > 0
    /\ HasOutput
    /\ IF ~mInit
       THEN chain' = chain - 1 /\ UNCHANGED <<ptsVars, credit>>
       ELSE /\ CalculateCurrentFramePTS
            /\ lastPts' = mNewPts'
            /\ credit' = credit - 1
            /\ UNCHANGED chain
    /\ UNCHANGED <<mInit, codec, running, syncVars, looper, pc, pushVars>>

-----------------------------------------------------------------------------
(* pushAudioFrameSync                                                      *)

TakePts(p) == /\ Goto(p, "idle", "add")
              /\ i < MaxPush
              /\ pts' = [pts EXCEPT ![p] = PtsOf(i)]
              /\ i' = i + 1
              /\ UNCHANGED <<mInit, codecVars, ptsVars, syncVars, chain, looper, inputCodec>>

AddPts(p) == /\ Goto(p, "add", "check")
             /\ mAudioPtsSet' = IF mAudioPtsSet = None THEN None
                                ELSE mAudioPtsSet \cup {pts[p]}
             /\ UNCHANGED <<mInit, codecVars, mNewPts, lastPts, syncVars, chain, looper,
                            pushVars>>

CheckInit(p) == /\ Goto(p, "check", IF mInit THEN "dequeue" ELSE "idle")
                /\ UNCHANGED <<mInit, codecVars, ptsVars, syncVars, chain, looper, pushVars>>

\* No free buffer: back to the test of mInit.
DequeueTimesOut(p) ==
    /\ Goto(p, "dequeue", "check")
    /\ running
    /\ UNCHANGED <<mInit, codecVars, ptsVars, syncVars, chain, looper, pushVars>>

DequeueInput(p) ==
    /\ Goto(p, "dequeue", "queue")
    /\ running
    /\ inputCodec' = [inputCodec EXCEPT ![p] = codec]
    /\ UNCHANGED <<mInit, codecVars, ptsVars, syncVars, chain, looper, i, pts>>

QueueInput(p) ==
    /\ Goto(p, "queue", "idle")
    /\ running /\ codec = inputCodec[p]
    /\ credit' = credit + 1
    /\ UNCHANGED <<mInit, codec, running, ptsVars, syncVars, chain, looper, pushVars>>

\* The codec was released, or another one took its place: an exception.
PushThrows(p) ==
    /\ \/ pc[p] = "dequeue" /\ ~running
       \/ pc[p] = "queue" /\ (~running \/ codec # inputCodec[p])
    /\ pc' = [pc EXCEPT ![p] = "idle"]
    /\ UNCHANGED <<mInit, codecVars, ptsVars, syncVars, chain, looper, pushVars>>

-----------------------------------------------------------------------------
CallerStep(c) == Enter(c) \/ Post(c) \/ TestFlag(c) \/ Reacquire(c)

TaskStep == RunStart \/ MakePtsSet \/ RunStop \/ ClearInit \/ SetFlag \/ NotifyAll

PusherStep(p) == \/ AddPts(p) \/ CheckInit(p) \/ DequeueTimesOut(p)
                 \/ DequeueInput(p) \/ QueueInput(p) \/ PushThrows(p)

Next == \/ \E c \in Caller : \/ \E o \in {"start", "stop"} : Call(c, o)
                             \/ CallerStep(c) \/ Wake(c)
        \/ TaskStep \/ DecodeOutput
        \/ \E p \in Pusher : TakePts(p) \/ PusherStep(p)

Spec == Init /\ [][Next]_vars

\* The threads are scheduled and the looper comes to every message posted.  The
\* encoder thread gets mHandler when it is free again and again: a waiter that
\* is woken for no reason holds it only from time to time.
Fairness == /\ WF_vars(TaskStep) /\ SF_vars(NotifyAll)
            /\ \A c \in Caller : WF_vars(CallerStep(c))

FairSpec == Spec /\ Fairness
-----------------------------------------------------------------------------
TypeOK == /\ mInit \in BOOLEAN /\ running \in BOOLEAN
          /\ codec \in 0 .. MaxStart
          /\ credit \in -Extra .. MaxPush
          /\ mAudioPtsSet = None \/ mAudioPtsSet \subseteq Stamps
          /\ mNewPts \in Int /\ lastPts \in Int
          /\ monitor \in Caller \cup {None} /\ mHandler \in Caller \cup {None}
          /\ task \in Caller \cup {None} /\ current \in Caller \cup {None}
          /\ runFlag \in [Caller -> BOOLEAN]
          /\ chain \in 0 .. 1
          /\ looper \in {"idle", "make_set", "clear_init", "flag", "notify"}
          /\ pc \in [Caller \cup Pusher ->
                       {"idle", "enter", "post", "test", "waiting", "woken",
                        "add", "check", "dequeue", "queue"}]
          /\ op \in [Caller -> {"start", "stop"}]
          /\ i \in 0 .. MaxPush
          /\ pts \in [Pusher -> Stamps \cup {NoPts}]
          /\ inputCodec \in [Pusher -> 0 .. MaxStart]

(***************************************************************************)
(* The codec is drained by one chain of messages (line 279), which nothing *)
(* restarts: while the encoder is on there is exactly one, however start   *)
(* and stop followed each other; with none the codec fills up and pushers  *)
(* spin for ever, with two the polling doubles at each restart.            *)
(***************************************************************************)
OneChain == looper \in {"idle", "flag", "notify"} => (mInit <=> chain = 1)

(***************************************************************************)
(* decodeOutput uses mMediaCodec with no lock (line 221).  That is right   *)
(* only because stop releases the codec in a task of the same thread and   *)
(* takes mInit and the messages away before the thread is free again.      *)
(***************************************************************************)
OutputOnLiveCodec == looper = "idle" /\ chain > 0 /\ mInit => running

(***************************************************************************)
(* runSync returns when its task has run, and what it did still holds:     *)
(* after start the encoder is on, after stop it is off and its codec is    *)
(* released (TXCThread.java:60 and the synchronized blocks of start, stop).*)
(***************************************************************************)
CallTookEffect ==
    [][\A c \in Caller : monitor = c /\ monitor' # c =>
          IF op[c] = "start" THEN mInit /\ running ELSE ~mInit /\ ~running]_vars

(***************************************************************************)
(* Line 290: the muxer needs timestamps that increase, also when the codec *)
(* returns more frames than were pushed.  The timestamp of a frame is not  *)
(* the codec's own, it is taken from a set filled by another thread.       *)
(***************************************************************************)
PtsIncreases == [][credit' < credit /\ codec' = codec /\ lastPts # NoPts
                     => lastPts' > lastPts]_vars

(***************************************************************************)
(* A caller that has come into start or stop gets out: the notification of *)
(* the encoder thread is never lost between the test of runFlag and the    *)
(* wait (TXCThread.java:48-67), nor does a spurious wake-up keep it from   *)
(* setting the flag.  Who comes in first is up to the monitor.             *)
(***************************************************************************)
CallsReturn == \A c \in Caller : pc[c] = "post" ~> pc[c] = "idle"
=============================================================================
