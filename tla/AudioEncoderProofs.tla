------------------------ MODULE AudioEncoderProofs ------------------------
(***************************************************************************)
(* AudioEncoder for any number of callers and pushers: the chain of        *)
(* decodeOutput messages, the hand-over of TXCThread.runSync, and the      *)
(* timestamps that go past the codec in mAudioPtsSet.                      *)
(***************************************************************************)
EXTENDS AudioEncoder, PresentationTime, FiniteSetTheorems, WellFoundedInduction, TLAPS

Place == {"idle", "enter", "post", "test", "waiting", "woken",
          "add", "check", "dequeue", "queue"}

TypeInv == /\ mInit \in BOOLEAN /\ running \in BOOLEAN
           /\ chain \in {0, 1}
           /\ looper \in {"idle", "make_set", "clear_init", "flag", "notify"}
           /\ monitor \in Caller \cup {None} /\ mHandler \in Caller \cup {None}
           /\ task \in Caller \cup {None} /\ current \in Caller \cup {None}
           /\ runFlag \in [Caller -> BOOLEAN]
           /\ op \in [Caller -> {"start", "stop"}]
           /\ pc \in [Caller \cup Pusher -> Place]

\* Codec, mInit and the chain come and go together but for the middle of a task.
ChainInv == /\ looper \in {"idle", "flag", "notify"} =>
                  (mInit <=> chain = 1) /\ (mInit <=> running)
            /\ looper = "make_set" => mInit /\ running /\ chain = 1
            /\ looper = "clear_init" => mInit /\ ~running /\ chain = 1

\* A caller whose task is posted and who has not come back.
Handing == {"test", "waiting", "woken"}

\* What call c was for holds.
Effect(c) == IF op[c] = "start" THEN mInit /\ running ELSE ~mInit /\ ~running

\* The encoder thread has a task that is not done.
Busy == looper \in {"make_set", "clear_init", "flag"}

\* The task of a caller is in the queue, or run, or done: then its effect holds,
\* for no other task can come as long as the caller has the monitor.
SyncInv ==
    /\ \A c \in Caller : monitor = c <=> pc[c] \in {"post"} \cup Handing
    /\ task # None => pc[task] \in Handing /\ ~runFlag[task] /\ ~Busy
    /\ Busy => current # None /\ pc[current] \in Handing /\ ~runFlag[current] /\ task = None
    /\ looper = "notify" => current # None
    /\ looper = "make_set" => op[current] = "start"
    /\ looper = "clear_init" => op[current] = "stop"
    /\ looper = "flag" => Effect(current)
    /\ \A c \in Caller : pc[c] \in Handing /\ runFlag[c] => Effect(c)
    /\ \A c \in Caller : pc[c] \in Handing /\ ~runFlag[c] =>
          task = c \/ (Busy /\ current = c)

IInv == TypeInv /\ ChainInv /\ SyncInv
-----------------------------------------------------------------------------
LEMMA CallerKeepsIInv ==
    ASSUME IInv, NEW c \in Caller,
           (\E o \in {"start", "stop"} : Call(c, o)) \/ CallerStep(c) \/ Wake(c)
    PROVE  IInv'
  <1> USE ThreadAssumption
      DEF IInv, TypeInv, ChainInv, SyncInv, Place, Handing, Effect, Busy, Goto,
          codecVars, ptsVars, pushVars
  <1>1. ASSUME NEW o \in {"start", "stop"}, Call(c, o) PROVE IInv'
    BY <1>1 DEF Call
  <1>2. CASE Enter(c)
    BY <1>2 DEF Enter
  <1>3. CASE Post(c)
    BY <1>3 DEF Post
  <1>4. CASE TestFlag(c)
    BY <1>4 DEF TestFlag
  <1>5. CASE Reacquire(c)
    BY <1>5 DEF Reacquire
  <1>6. CASE Wake(c)
    BY <1>6 DEF Wake, syncVars
  <1>7. QED BY <1>1, <1>2, <1>3, <1>4, <1>5, <1>6 DEF CallerStep

LEMMA TaskKeepsIInv == ASSUME IInv, TaskStep PROVE IInv'
  <1> USE ThreadAssumption
      DEF IInv, TypeInv, ChainInv, SyncInv, Place, Handing, Effect, Busy,
          LooperGoto, codecVars, ptsVars, pushVars
  <1>1. CASE RunStart
    <2>1. /\ task # None /\ task \in Caller /\ op[task] = "start" /\ looper = "idle"
          /\ pc[task] \in Handing /\ runFlag[task] = FALSE
          /\ task' = None /\ current' = task
          /\ UNCHANGED <<monitor, mHandler, runFlag, op, pc>>
      BY <1>1 DEF RunStart, TakeTask
    <2>2. \A c \in Caller : pc[c] \in Handing => c = task
      BY <2>1
    <2>3. CASE mInit
      <3>1. looper' = "flag" /\ UNCHANGED <<mInit, running, chain>>
        BY <1>1, <2>3 DEF RunStart
      <3>2. QED BY <2>1, <2>2, <2>3, <3>1
    <2>4. CASE ~mInit
      <3>1. looper' = "make_set" /\ mInit' = TRUE /\ running' = TRUE /\ chain' = chain + 1
        BY <1>1, <2>4 DEF RunStart
      <3>2. QED BY <2>1, <2>2, <2>4, <3>1
    <2>5. QED BY <2>3, <2>4
  <1>2. CASE MakePtsSet
    BY <1>2 DEF MakePtsSet, syncVars
  <1>3. CASE RunStop
    <2>1. /\ task # None /\ task \in Caller /\ op[task] = "stop" /\ looper = "idle"
          /\ pc[task] \in Handing /\ runFlag[task] = FALSE
          /\ task' = None /\ current' = task
          /\ UNCHANGED <<mInit, chain, monitor, mHandler, runFlag, op, pc>>
      BY <1>3 DEF RunStop, TakeTask
    <2>2. \A c \in Caller : pc[c] \in Handing => c = task
      BY <2>1
    <2>3. CASE mInit
      <3>1. looper' = "clear_init" /\ running' = FALSE
        BY <1>3, <2>3 DEF RunStop
      <3>2. QED BY <2>1, <2>2, <2>3, <3>1
    <2>4. CASE ~mInit
      <3>1. looper' = "flag" /\ running' = running
        BY <1>3, <2>4 DEF RunStop
      <3>2. QED BY <2>1, <2>2, <2>4, <3>1
    <2>5. QED BY <2>3, <2>4
  <1>4. CASE ClearInit
    <2>1. /\ looper = "clear_init" /\ looper' = "flag" /\ mInit' = FALSE /\ chain' = 0
          /\ UNCHANGED <<running, monitor, mHandler, task, current, runFlag, op, pc>>
      BY <1>4 DEF ClearInit, syncVars
    <2>2. ~running /\ op[current] = "stop" /\ current \in Caller
      BY <2>1
    <2>3. \A c \in Caller : pc[c] \in Handing => c = current
      BY <2>1
    <2>4. TypeInv' /\ ChainInv'
      <3> HIDE DEF IInv, SyncInv
      <3>1. TypeInv'
        BY <2>1 DEF IInv
      <3>2. ChainInv'
        BY <2>1, <2>2
      <3>3. QED BY <3>1, <3>2
    <2>5. SyncInv'
      BY <2>1, <2>2, <2>3
    <2>6. QED BY <2>4, <2>5
  <1>5. CASE SetFlag
    BY <1>5 DEF SetFlag
  <1>6. CASE NotifyAll
    BY <1>6 DEF NotifyAll, Woken
  <1>7. QED BY <1>1, <1>2, <1>3, <1>4, <1>5, <1>6 DEF TaskStep

\* A pusher moves itself alone.
LEMMA PusherKeepsIInv ==
    ASSUME IInv, NEW p \in Pusher, TakePts(p) \/ PusherStep(p) PROVE IInv'
  <1>1. /\ UNCHANGED <<mInit, running, chain, looper, syncVars>>
        /\ pc' \in [Caller \cup Pusher -> Place]
        /\ \A c \in Caller : pc'[c] = pc[c]
    BY ThreadAssumption
    DEF IInv, TypeInv, Place, TakePts, PusherStep, AddPts, CheckInit, DequeueTimesOut,
        DequeueInput, QueueInput, PushThrows, Goto, codecVars, syncVars
  <1>2. QED
    BY <1>1, ThreadAssumption
    DEF IInv, TypeInv, ChainInv, SyncInv, Handing, Effect, Busy, syncVars

LEMMA NextIInv == IInv /\ [Next]_vars => IInv'
  <1> SUFFICES ASSUME IInv, [Next]_vars PROVE IInv'
    OBVIOUS
  <1>1. ASSUME NEW c \in Caller,
               (\E o \in {"start", "stop"} : Call(c, o)) \/ CallerStep(c) \/ Wake(c)
        PROVE  IInv'
    BY <1>1, CallerKeepsIInv
  <1>2. CASE TaskStep
    BY <1>2, TaskKeepsIInv
  <1>3. CASE DecodeOutput
    BY <1>3 DEF DecodeOutput, IInv, TypeInv, ChainInv, SyncInv, Effect, Busy, syncVars
  <1>4. ASSUME NEW p \in Pusher, TakePts(p) \/ PusherStep(p) PROVE IInv'
    BY <1>4, PusherKeepsIInv
  <1>5. CASE UNCHANGED vars
    BY <1>5 DEF vars, codecVars, syncVars, IInv, TypeInv, ChainInv, SyncInv, Effect, Busy
  <1>6. QED BY <1>1, <1>2, <1>3, <1>4, <1>5 DEF Next

LEMMA Invariance == Spec => []IInv
  <1>1. Init => IInv
    <2> SUFFICES ASSUME Init PROVE IInv
      OBVIOUS
    <2>1. TypeInv
      BY DEF Init, TypeInv, Place
    <2>2. ChainInv
      BY DEF Init, ChainInv
    <2>3. \A c \in Caller : pc[c] = "idle" /\ monitor # c
      BY ThreadAssumption DEF Init
    <2>4. SyncInv
      BY <2>3 DEF Init, SyncInv, Handing, Busy
    <2>5. QED BY <2>1, <2>2, <2>4 DEF IInv
  <1>2. QED BY <1>1, NextIInv, PTL DEF Spec
-----------------------------------------------------------------------------
(***************************************************************************)
(* While the encoder is on there is exactly one decodeOutput message in    *)
(* the queue (AudioMediaCodecEncoder.java:279), for any callers of start   *)
(* and stop.                                                               *)
(***************************************************************************)
THEOREM OneDrainChain == Spec => []OneChain
  <1>1. IInv => OneChain
    BY DEF IInv, ChainInv, OneChain
  <1>2. QED BY <1>1, Invariance, PTL

(***************************************************************************)
(* decodeOutput never meets a released codec                               *)
(* (AudioMediaCodecEncoder.java:221).                                      *)
(***************************************************************************)
THEOREM DrainsLiveCodec == Spec => []OutputOnLiveCodec
  <1>1. IInv => OutputOnLiveCodec
    BY DEF IInv, ChainInv, OutputOnLiveCodec
  <1>2. QED BY <1>1, Invariance, PTL

(***************************************************************************)
(* start and stop return when their task has run and its effect holds      *)
(* (TXCThread.java:60), whatever other callers and spurious wake-ups come. *)
(***************************************************************************)
THEOREM CallsTakeEffect == Spec => CallTookEffect
  <1> DEFINE A == \A c \in Caller : monitor = c /\ monitor' # c => Effect(c)
  <1>1. IInv /\ [Next]_vars => [A]_vars
    <2> SUFFICES ASSUME IInv, Next PROVE A
      OBVIOUS
    <2>1. ASSUME NEW d \in Caller, TestFlag(d) PROVE A
      BY <2>1, ThreadAssumption DEF TestFlag, IInv, TypeInv, SyncInv, Handing
    <2>2. ASSUME NEW d \in Caller, Enter(d) PROVE A
      BY <2>2, ThreadAssumption DEF Enter
    <2>3. ASSUME UNCHANGED monitor PROVE A
      BY <2>3
    <2>4. QED
      BY <2>1, <2>2, <2>3
      DEF Next, CallerStep, TaskStep, PusherStep, Call, Post, Reacquire, Wake, RunStart,
          TakeTask, MakePtsSet, RunStop, ClearInit, SetFlag, NotifyAll, DecodeOutput,
          TakePts, AddPts, CheckInit, DequeueTimesOut, DequeueInput, QueueInput, PushThrows,
          syncVars
  <1>2. QED BY <1>1, Invariance, PTL DEF Spec, CallTookEffect, Effect
-----------------------------------------------------------------------------
(* The numbers: codecs made, frames in the codec, timestamps.              *)

\* The callers whose start may still make a codec.
Unstarted == {c \in Caller : op[c] = "start" /\ (pc[c] \in {"enter", "post"} \/ task = c)}

\* Each of them was let in by the bound.
CodecInv == /\ codec \in Nat
            /\ codec + Cardinality(Unstarted) <= MaxStart
            /\ inputCodec \in [Pusher -> 0 .. MaxStart]

PushPlace == {"idle", "add", "check", "dequeue", "queue"}

\* The pushers that have taken a frame and not queued it.
InPush == {p \in Pusher : pc[p] # "idle"}

\* A frame is in the hands of a pusher, in the codec, or gone.
FrameInv == /\ i \in 0 .. MaxPush
            /\ credit \in Int /\ credit >= -Extra
            /\ Cardinality(InPush) <= i
            /\ credit + Cardinality(InPush) <= i

\* The set of timestamps has been made since the encoder is on.
Made == mInit /\ looper # "make_set"

StampInv == /\ mAudioPtsSet = None \/ mAudioPtsSet \in SUBSET Stamps
            /\ Made => mAudioPtsSet \in SUBSET Stamps
            /\ pts \in [Pusher -> Stamps \cup {NoPts}]
            /\ \A p \in Pusher : pc[p] \in PushPlace /\ (pc[p] = "add" => pts[p] \in Stamps)
            /\ mNewPts \in Int /\ lastPts \in Int

NInv == CodecInv /\ FrameInv /\ StampInv
-----------------------------------------------------------------------------
LEMMA LeastNatural ==
    ASSUME NEW T \in SUBSET Nat, T # {} PROVE \E x \in T : \A y \in T : x <= y
  <1>1. \E x \in T : \A y \in T : ~(y < x)
    <2> DEFINE R == OpToRel(<, Nat)
    <2>1. PICK x \in T : \A y \in T : ~ (<<y, x>> \in R)
      <3> HIDE DEF R
      <3>1. IsWellFoundedOn(R, Nat)
        BY NatLessThanWellFounded DEF R
      <3>2. QED BY <3>1, WFMin
    <2>2. \A y \in T : ~(y < x)
      BY <2>1 DEF OpToRel
    <2> HIDE DEF R
    <2>3. QED BY <2>2
  <1>2. QED BY <1>1

\* Were there a finite set without a least element, take a smallest one: without
\* one of its elements it has a least element, and that one or the other is least.
LEMMA FiniteHasLeast ==
    ASSUME NEW S \in SUBSET Int, IsFiniteSet(S), S # {}
    PROVE  \E x \in S : \A y \in S : x <= y
  <1> DEFINE Bad(X) == X # {} /\ \A x \in X : \E y \in X : ~(x <= y)
             T == {n \in Nat : \E X \in SUBSET Int :
                                  IsFiniteSet(X) /\ Cardinality(X) = n /\ Bad(X)}
  <1> SUFFICES ASSUME Bad(S) PROVE FALSE
    OBVIOUS
  <1>1. Cardinality(S) \in T
    BY FS_CardinalityType
  <1>2. PICK n \in T : \A m \in T : n <= m
    <2> HIDE DEF T
    <2>1. T \in SUBSET Nat
      BY DEF T
    <2>2. QED BY <1>1, <2>1, LeastNatural
  <1>3. PICK X \in SUBSET Int : IsFiniteSet(X) /\ Cardinality(X) = n /\ Bad(X)
    BY <1>2
  <1>4. PICK x \in X : TRUE
    BY <1>3
  <1> DEFINE Y == X \ {x}
  <1>5. IsFiniteSet(Y) /\ Cardinality(Y) = n - 1 /\ Y \in SUBSET Int /\ n \in Nat
    BY <1>3, <1>4, FS_RemoveElement, FS_CardinalityType
  <1>6. n - 1 \in Nat
    BY <1>5, FS_CardinalityType
  <1>7. n - 1 \notin T
    <2> HIDE DEF T
    <2>1. n \in Nat
      BY DEF T
    <2>2. QED BY <1>2, <2>1
  <1>8. ~Bad(Y)
    BY <1>5, <1>6, <1>7
  <1>9. CASE Y = {}
    BY <1>9, <1>3, <1>4
  <1>10. CASE \E m \in Y : \A y \in Y : m <= y
    <2>1. PICK m \in Y : \A y \in Y : m <= y
      BY <1>10
    <2>2. m \in Int /\ x \in Int
      BY <1>5, <1>4
    <2>3. \A y \in X : y = x \/ y \in Y
      OBVIOUS
    <2>4. CASE m <= x
      <3>1. \A y \in X : m <= y
        BY <2>1, <2>2, <2>3, <2>4
      <3>2. QED BY <3>1, <1>3
    <2>5. CASE x <= m
      <3>1. \A y \in X : x <= y
        BY <2>1, <2>2, <2>3, <2>5
      <3>2. QED BY <3>1, <1>3, <1>4
    <2>6. QED BY <2>2, <2>4, <2>5
  <1>11. QED BY <1>8, <1>9, <1>10

LEMMA StampsFinite == IsFiniteSet(Stamps) /\ Stamps \in SUBSET Int
  <1> DEFINE I == 0 .. MaxPush - 1
             f == [k \in I |-> PtsOf(k)]
  <1>1. f \in Surjection(I, Stamps)
    BY DEF Surjection, Stamps
  <1>2. IsFiniteSet(I)
    BY FS_Interval, BoundAssumption
  <1>3. IsFiniteSet(Stamps)
    <2> HIDE DEF f, I
    <2>1. QED BY <1>1, <1>2, FS_Surjection
  <1>4. QED BY <1>3, PtsAssumption DEF Stamps

\* pollFirst of a set of timestamps gives the least.
LEMMA LeastIsLeast ==
    ASSUME NEW S \in SUBSET Stamps, S # {}
    PROVE  Least(S) \in S /\ \A y \in S : Least(S) <= y
  <1>1. IsFiniteSet(S) /\ S \in SUBSET Int
    BY StampsFinite, FS_Subset
  <1>2. \E x \in S : \A y \in S : x <= y
    BY <1>1, FiniteHasLeast
  <1>3. QED BY <1>2 DEF Least
-----------------------------------------------------------------------------
\* A caller: only a call of start brings a codec nearer.
LEMMA CallerKeepsNInv ==
    ASSUME IInv, NInv, NEW c \in Caller,
           (\E o \in {"start", "stop"} : Call(c, o)) \/ CallerStep(c) \/ Wake(c)
    PROVE  NInv'
  <1>1. /\ UNCHANGED <<mInit, codec, credit, mAudioPtsSet, mNewPts, lastPts, looper, i, pts,
                       inputCodec>>
        /\ \A p \in Pusher : pc'[p] = pc[p]
    BY ThreadAssumption
    DEF CallerStep, Call, Enter, Post, TestFlag, Reacquire, Wake, Goto, codecVars, ptsVars,
        pushVars, syncVars, IInv, TypeInv
  <1>2. FrameInv' /\ StampInv'
    <2>1. InPush' = InPush
      BY <1>1 DEF InPush
    <2>2. QED BY <1>1, <2>1 DEF NInv, FrameInv, StampInv, Made
  <1>3. CodecInv'
    <2>1. IsFiniteSet(Unstarted) /\ IsFiniteSet(Starting)
      BY FiniteAssumption, FS_Subset DEF Unstarted, Starting
    <2>2. Cardinality(Unstarted) \in Nat /\ Cardinality(Starting) \in Nat
      BY <2>1, FS_CardinalityType
    <2>3. CASE Call(c, "start")
      <3>1. /\ pc[c] = "idle" /\ pc' = [pc EXCEPT ![c] = "enter"]
            /\ op' = [op EXCEPT ![c] = "start"] /\ task' = task
            /\ codec + Cardinality(Starting) < MaxStart
        BY <2>3 DEF Call, Goto
      <3>2. /\ Unstarted' = Unstarted \cup {c} /\ c \notin Unstarted
            /\ Unstarted \in SUBSET Starting
        BY <3>1, ThreadAssumption
        DEF Unstarted, Starting, IInv, TypeInv, SyncInv, Handing
      <3>3. Cardinality(Unstarted) <= Cardinality(Starting)
        BY <2>1, <3>2, FS_Subset
      <3>4. Cardinality(Unstarted') = Cardinality(Unstarted) + 1
        BY <2>1, <3>2, FS_AddElement
      <3>5. QED
        BY <1>1, <2>2, <3>1, <3>3, <3>4, BoundAssumption DEF NInv, CodecInv
    <2>4. CASE ~Call(c, "start")
      <3>1. Unstarted' = Unstarted
        BY <2>4, ThreadAssumption
        DEF CallerStep, Call, Enter, Post, TestFlag, Reacquire, Wake, Goto, Unstarted,
            syncVars, IInv, TypeInv, SyncInv, Handing
      <3>2. QED BY <1>1, <3>1 DEF NInv, CodecInv
    <2>5. QED BY <2>3, <2>4
  <1>4. QED BY <1>2, <1>3 DEF NInv

\* The tasks: one that makes a codec is one less to do so.
LEMMA TaskKeepsNInv == ASSUME IInv, NInv, TaskStep PROVE NInv'
  <1>1. /\ UNCHANGED <<i, pts, inputCodec, op>>
        /\ credit' = credit \/ credit' = 0
        /\ \A p \in Pusher : pc'[p] = pc[p]
    BY DEF TaskStep, RunStart, MakePtsSet, RunStop, ClearInit, SetFlag, NotifyAll, Woken,
           TakeTask, codecVars, pushVars, syncVars, IInv, TypeInv, NInv, StampInv, PushPlace
  <1>2. FrameInv'
    <2>1. InPush' = InPush
      BY <1>1 DEF InPush
    <2>2. IsFiniteSet(InPush)
      BY FiniteAssumption, FS_Subset DEF InPush
    <2>3. Cardinality(InPush) \in Nat
      BY <2>2, FS_CardinalityType
    <2>4. QED BY <1>1, <2>1, <2>3, BoundAssumption DEF NInv, FrameInv
  <1>3. StampInv'
    <2>1. CASE MakePtsSet
      <3>1. mAudioPtsSet' = {} /\ mNewPts' = 0 /\ lastPts' = NoPts
        BY <2>1 DEF MakePtsSet
      <3>2. QED BY <1>1, <3>1 DEF NInv, StampInv, NoPts
    <2>2. CASE ~MakePtsSet
      <3>1. UNCHANGED ptsVars /\ (Made' => Made)
        BY <2>2
        DEF TaskStep, RunStart, RunStop, ClearInit, SetFlag, NotifyAll, TakeTask,
            LooperGoto, ptsVars, Made
      <3>2. QED BY <1>1, <3>1 DEF NInv, StampInv, ptsVars
    <2>3. QED BY <2>1, <2>2
  <1>4. CodecInv'
    <2>1. IsFiniteSet(Unstarted)
      BY FiniteAssumption, FS_Subset DEF Unstarted
    <2>2. Cardinality(Unstarted) \in Nat
      BY <2>1, FS_CardinalityType
    <2>3. CASE RunStart
      <3>1. /\ task \in Caller /\ op[task] = "start" /\ task' = None /\ pc' = pc
            /\ pc[task] \in Handing
            /\ codec' = codec + 1 \/ codec' = codec
        BY <2>3, ThreadAssumption DEF RunStart, TakeTask, codecVars, IInv, TypeInv, SyncInv
      <3>2. Unstarted' = Unstarted \ {task} /\ task \in Unstarted
        BY <1>1, <3>1, ThreadAssumption DEF Unstarted, Handing
      <3>3. Cardinality(Unstarted') = Cardinality(Unstarted) - 1
        BY <2>1, <3>2, FS_RemoveElement
      <3>4. QED
        BY <1>1, <2>2, <3>1, <3>3, BoundAssumption DEF NInv, CodecInv
    <2>4. CASE ~RunStart
      <3>1. codec' = codec
        BY <2>4 DEF TaskStep, MakePtsSet, RunStop, ClearInit, SetFlag, NotifyAll, codecVars
      <3>2. Unstarted' = Unstarted
        BY <1>1, <2>4, ThreadAssumption
        DEF TaskStep, MakePtsSet, RunStop, ClearInit, SetFlag, NotifyAll, Woken, TakeTask,
            Unstarted, syncVars, IInv, TypeInv
      <3>3. QED BY <1>1, <3>1, <3>2 DEF NInv, CodecInv
    <2>5. QED BY <2>3, <2>4
  <1>5. QED BY <1>2, <1>3, <1>4 DEF NInv

LEMMA DecodeKeepsNInv == ASSUME IInv, NInv, DecodeOutput PROVE NInv'
  <1>1. UNCHANGED <<mInit, codec, looper, pc, op, task, i, pts, inputCodec>>
    BY DEF DecodeOutput, syncVars, pushVars
  <1>2. CodecInv'
    BY <1>1 DEF NInv, CodecInv, Unstarted
  <1>3. FrameInv'
    <2>1. InPush' = InPush
      BY <1>1 DEF InPush
    <2>2. credit' = credit \/ (credit > -Extra /\ credit' = credit - 1)
      BY BoundAssumption DEF DecodeOutput, HasOutput, NInv, FrameInv
    <2>3. IsFiniteSet(InPush)
      BY FiniteAssumption, FS_Subset DEF InPush
    <2>4. Cardinality(InPush) \in Nat
      BY <2>3, FS_CardinalityType
    <2>5. QED BY <1>1, <2>1, <2>2, <2>4, BoundAssumption DEF NInv, FrameInv
  <1>4. StampInv'
    <2>1. CASE ~mInit
      BY <1>1, <2>1 DEF DecodeOutput, ptsVars, NInv, StampInv, Made
    <2>2. CASE mInit
      <3>1. mAudioPtsSet \in SUBSET Stamps /\ CalculateCurrentFramePTS /\ lastPts' = mNewPts'
        BY <2>2 DEF DecodeOutput, NInv, StampInv, Made
      <3>2. mAudioPtsSet' \in SUBSET Stamps /\ mNewPts' \in Int
        <4>1. CASE mAudioPtsSet # {}
          BY <3>1, <4>1, LeastIsLeast, StampsFinite DEF CalculateCurrentFramePTS
        <4>2. CASE mAudioPtsSet = {}
          <5>1. mAudioPtsSet' = mAudioPtsSet /\ mNewPts' = mNewPts + 100
            BY <3>1, <4>2 DEF CalculateCurrentFramePTS, Step
          <5>2. QED BY <3>1, <5>1 DEF NInv, StampInv
        <4>3. QED BY <4>1, <4>2
      <3>3. QED BY <1>1, <3>1, <3>2 DEF NInv, StampInv
    <2>3. QED BY <2>1, <2>2
  <1>5. QED BY <1>2, <1>3, <1>4 DEF NInv

LEMMA PusherKeepsNInv ==
    ASSUME IInv, NInv, NEW p \in Pusher, TakePts(p) \/ PusherStep(p) PROVE NInv'
  <1>1. /\ UNCHANGED <<mInit, codec, looper, op, task, mNewPts, lastPts>>
        /\ pc' = [pc EXCEPT ![p] = pc'[p]]
        /\ pc'[p] \in PushPlace
    BY DEF TakePts, PusherStep, AddPts, CheckInit, DequeueTimesOut, DequeueInput, QueueInput,
           PushThrows, Goto, codecVars, ptsVars, syncVars, IInv, TypeInv, PushPlace
  <1>2. CodecInv'
    <2>1. \A c \in Caller : pc'[c] = pc[c]
      BY <1>1, ThreadAssumption DEF IInv, TypeInv
    <2>2. Unstarted' = Unstarted
      BY <1>1, <2>1 DEF Unstarted
    <2>3. IsFiniteSet(Unstarted)
      BY FiniteAssumption, FS_Subset DEF Unstarted
    <2>4. Cardinality(Unstarted) \in Nat
      BY <2>3, FS_CardinalityType
    <2>5. codec \in 0 .. MaxStart
      BY <2>4, BoundAssumption DEF NInv, CodecInv
    <2>6. inputCodec' \in [Pusher -> 0 .. MaxStart]
      BY <2>5
      DEF TakePts, PusherStep, AddPts, CheckInit, DequeueTimesOut, DequeueInput, QueueInput,
          PushThrows, pushVars, NInv, CodecInv
    <2>7. QED BY <1>1, <2>2, <2>6 DEF NInv, CodecInv
  <1>3. FrameInv'
    <2>1. IsFiniteSet(InPush) /\ InPush \in SUBSET Pusher
      BY FiniteAssumption, FS_Subset DEF InPush
    <2>2. Cardinality(InPush) \in Nat
      BY <2>1, FS_CardinalityType
    <2>3. \A q \in Pusher : q # p => pc'[q] = pc[q]
      BY <1>1 DEF IInv, TypeInv
    <2>4. CASE TakePts(p)
      <3>1. /\ pc[p] = "idle" /\ pc'[p] = "add" /\ i < MaxPush /\ i' = i + 1
            /\ credit' = credit
        BY <2>4 DEF TakePts, Goto, codecVars, IInv, TypeInv
      <3>2. InPush' = InPush \cup {p} /\ p \notin InPush
        BY <2>3, <3>1 DEF InPush
      <3>3. Cardinality(InPush') = Cardinality(InPush) + 1
        BY <2>1, <3>2, FS_AddElement
      <3>4. QED BY <2>2, <3>1, <3>3, BoundAssumption DEF NInv, FrameInv
    <2>5. CASE QueueInput(p)
      <3>1. pc[p] = "queue" /\ pc'[p] = "idle" /\ i' = i /\ credit' = credit + 1
        BY <2>5 DEF QueueInput, Goto, pushVars, IInv, TypeInv
      <3>2. InPush' = InPush \ {p} /\ p \in InPush
        BY <2>3, <3>1 DEF InPush
      <3>3. Cardinality(InPush') = Cardinality(InPush) - 1
        BY <2>1, <3>2, FS_RemoveElement
      <3>4. QED BY <2>2, <3>1, <3>3, BoundAssumption DEF NInv, FrameInv
    <2>6. CASE ~TakePts(p) /\ ~QueueInput(p)
      <3>1. i' = i /\ credit' = credit /\ pc[p] # "idle"
        BY <2>6
        DEF PusherStep, AddPts, CheckInit, DequeueTimesOut, DequeueInput, PushThrows, Goto,
            codecVars, pushVars
      <3>2. InPush' \in SUBSET InPush
        BY <2>3, <3>1 DEF InPush
      <3>3. Cardinality(InPush') <= Cardinality(InPush)
        BY <2>1, <3>2, FS_Subset
      <3>4. Cardinality(InPush') \in Nat
        BY <2>1, <3>2, FS_Subset, FS_CardinalityType
      <3>5. QED BY <2>2, <3>1, <3>3, <3>4, BoundAssumption DEF NInv, FrameInv
    <2>7. QED BY <2>4, <2>5, <2>6
  <1>4. StampInv'
    <2>1. CASE TakePts(p)
      <3>1. /\ pts' = [pts EXCEPT ![p] = PtsOf(i)] /\ pc' = [pc EXCEPT ![p] = "add"]
            /\ mAudioPtsSet' = mAudioPtsSet
        BY <2>1 DEF TakePts, Goto, ptsVars
      <3>2. PtsOf(i) \in Stamps
        BY <2>1, BoundAssumption DEF TakePts, Stamps, NInv, FrameInv
      <3>3. QED BY <1>1, <3>1, <3>2 DEF NInv, StampInv, Made, PushPlace, IInv, TypeInv
    <2>2. CASE AddPts(p)
      <3>1. /\ pc[p] = "add" /\ pc' = [pc EXCEPT ![p] = "check"] /\ pts' = pts
            /\ mAudioPtsSet' = IF mAudioPtsSet = None THEN None ELSE mAudioPtsSet \cup {pts[p]}
        BY <2>2 DEF AddPts, Goto, pushVars
      <3>2. pts[p] \in Stamps
        BY <3>1 DEF NInv, StampInv
      <3>3. QED BY <1>1, <3>1, <3>2 DEF NInv, StampInv, Made, PushPlace, IInv, TypeInv
    <2>3. CASE ~TakePts(p) /\ ~AddPts(p)
      <3>1. pts' = pts /\ mAudioPtsSet' = mAudioPtsSet /\ pc'[p] # "add"
        BY <2>3
        DEF PusherStep, CheckInit, DequeueTimesOut, DequeueInput, QueueInput, PushThrows,
            Goto, ptsVars, pushVars, IInv, TypeInv
      <3>2. QED BY <1>1, <3>1 DEF NInv, StampInv, Made, IInv, TypeInv
    <2>4. QED BY <2>1, <2>2, <2>3
  <1>5. QED BY <1>2, <1>3, <1>4 DEF NInv

LEMMA NextNInv == IInv /\ NInv /\ [Next]_vars => NInv'
  <1> SUFFICES ASSUME IInv, NInv, [Next]_vars PROVE NInv'
    OBVIOUS
  <1>1. ASSUME NEW c \in Caller,
               (\E o \in {"start", "stop"} : Call(c, o)) \/ CallerStep(c) \/ Wake(c)
        PROVE  NInv'
    BY <1>1, CallerKeepsNInv
  <1>2. CASE TaskStep
    BY <1>2, TaskKeepsNInv
  <1>3. CASE DecodeOutput
    BY <1>3, DecodeKeepsNInv
  <1>4. ASSUME NEW p \in Pusher, TakePts(p) \/ PusherStep(p) PROVE NInv'
    BY <1>4, PusherKeepsNInv
  <1>5. CASE UNCHANGED vars
    BY <1>5 DEF vars, codecVars, ptsVars, syncVars, pushVars, NInv, CodecInv, FrameInv,
                StampInv, Unstarted, InPush, Made
  <1>6. QED BY <1>1, <1>2, <1>3, <1>4, <1>5 DEF Next

LEMMA NumberInvariance == Spec => []NInv
  <1>1. Init => NInv
    <2> SUFFICES ASSUME Init PROVE NInv
      OBVIOUS
    <2>1. Unstarted = {} /\ InPush = {}
      BY ThreadAssumption DEF Init, Unstarted, InPush
    <2>2. CodecInv
      BY <2>1, FS_EmptySet, BoundAssumption DEF Init, CodecInv
    <2>3. FrameInv
      BY <2>1, FS_EmptySet, BoundAssumption DEF Init, FrameInv
    <2>4. StampInv
      BY DEF Init, StampInv, NoPts, PushPlace, Made
    <2>5. QED BY <2>2, <2>3, <2>4 DEF NInv
  <1>2. QED BY <1>1, NextNInv, Invariance, PTL DEF Spec

(***************************************************************************)
(* The types, for any callers, pushers and bounds: codecs, frames and      *)
(* encoded frames keep to the numbers they are bounded by, and the set     *)
(* pollFirst is called on (AudioMediaCodecEncoder.java:285) is there and   *)
(* holds timestamps that were pushed.                                      *)
(***************************************************************************)
THEOREM EncoderTypes == Spec => []TypeOK
  <1>1. IInv /\ NInv => TypeOK
    <2> SUFFICES ASSUME IInv, NInv PROVE TypeOK
      OBVIOUS
    <2>1. Cardinality(Unstarted) \in Nat /\ Cardinality(InPush) \in Nat
      BY FiniteAssumption, FS_Subset, FS_CardinalityType DEF Unstarted, InPush
    <2>2. codec \in 0 .. MaxStart /\ credit \in -Extra .. MaxPush
      BY <2>1, BoundAssumption DEF NInv, CodecInv, FrameInv
    <2>3. chain \in 0 .. 1
      BY DEF IInv, TypeInv
    <2>4. QED BY <2>2, <2>3 DEF TypeOK, IInv, TypeInv, Place, NInv, CodecInv, FrameInv, StampInv
  <1>2. QED BY <1>1, Invariance, NumberInvariance, PTL
-----------------------------------------------------------------------------
(* Timestamps, with one pusher.                                            *)

\* The frames whose timestamps have been added, or dropped for want of a set.
Added(p) == IF pc[p] = "add" THEN i - 1 ELSE i

\* The frames in the codec, with the one the pusher has added and may queue.
Load(p) == credit + (IF pc[p] \in {"check", "dequeue", "queue"} THEN 1 ELSE 0)

\* At most n frames are in the codec when the new set is made.
TimelySet(n) == [][MakePtsSet => credit <= n]_vars

\* How often in a row the listener may get a timestamp that was made up.
Gap(n) == n + 1 + Extra

\* Frames come further apart than that many made-up timestamps.
Spaced(n) == /\ \A k \in 0 .. MaxPush - 1 : PtsOf(k) >= 0
             /\ \A k, m \in 0 .. MaxPush - 1 : k < m => PtsOf(m) > PtsOf(k) + Step * Gap(n)

\* The listener has got what stands before frame k, and j made-up timestamps
\* since frame k - 1; the set is of later frames.  A frame is in the codec
\* without a timestamp in the set only if it came before the set, or if a
\* made-up timestamp was given out too early.
Split(p, n, k, j) ==
    /\ \A x \in mAudioPtsSet : \E m \in k .. Added(p) - 1 : x = PtsOf(m)
    /\ mNewPts >= 0 /\ (lastPts = NoPts => mNewPts = 0)
    /\ lastPts # NoPts => k >= 1 /\ lastPts = mNewPts /\ mNewPts <= PtsOf(k - 1) + Step * j
    /\ Load(p) + j <= Cardinality(mAudioPtsSet) + n + 1

OrderInv(p, n) ==
    /\ pc[p] = "add" => i >= 1 /\ pts[p] = PtsOf(i - 1)
    /\ Made => \E k \in 0 .. Added(p), j \in 0 .. Gap(n) : Split(p, n, k, j)

\* What holds of the one pusher.
LEMMA OnePusher ==
    ASSUME IInv, NInv, NEW p, Pusher = {p}
    PROVE  /\ pc[p] # "idle" => credit + 1 <= i /\ i >= 1
           /\ credit <= i /\ credit \in Int /\ i \in 0 .. MaxPush
           /\ Added(p) \in 0 .. MaxPush
           /\ credit > 0 => Added(p) >= 1
           /\ pc[p] \in PushPlace
  <1>1. CASE pc[p] = "idle"
    <2>1. InPush = {}
      BY <1>1 DEF InPush
    <2>2. Cardinality(InPush) = 0
      BY <2>1, FS_EmptySet
    <2>3. QED
      BY <1>1, <2>2, BoundAssumption DEF NInv, FrameInv, StampInv, Added, PushPlace
  <1>2. CASE pc[p] # "idle"
    <2>1. InPush = {p}
      BY <1>2 DEF InPush
    <2>2. Cardinality(InPush) = 1
      BY <2>1, FS_Singleton
    <2>3. pc[p] \in PushPlace
      BY DEF NInv, StampInv
    <2>4. QED BY <1>2, <2>2, <2>3, BoundAssumption DEF NInv, FrameInv, Added
  <1>3. QED BY <1>1, <1>2

\* A step that is not about timestamps.
LEMMA OthersKeepOrder ==
    ASSUME NEW p, NEW n \in Nat, OrderInv(p, n),
           pc'[p] = "add" => i' >= 1 /\ pts'[p] = PtsOf(i' - 1),
           UNCHANGED <<mAudioPtsSet, mNewPts, lastPts, Added(p)>>,
           Made' => Made,
           Load(p) \in Int, Load(p)' \in Int, Cardinality(mAudioPtsSet) \in Nat \/ ~Made,
           Made' => Load(p)' <= Load(p)
    PROVE  OrderInv(p, n)'
  <1> SUFFICES ASSUME Made' PROVE \E k \in 0 .. Added(p)', j \in 0 .. Gap(n) : Split(p, n, k, j)'
    BY DEF OrderInv, Gap
  <1>1. PICK k \in 0 .. Added(p), j \in 0 .. Gap(n) : Split(p, n, k, j)
    BY DEF OrderInv
  <1>2. Split(p, n, k, j)'
    <2> USE <1>1
    <2>1. Load(p)' + j <= Cardinality(mAudioPtsSet') + n + 1
      BY BoundAssumption DEF Split, Gap
    <2>2. QED BY <2>1 DEF Split
  <1>3. QED BY <1>1, <1>2

\* An encoded frame: its timestamp is later than the one before.
LEMMA DecodeKeepsOrder ==
    ASSUME IInv, NInv, NEW p, Pusher = {p}, NEW n \in Nat, Spaced(n), OrderInv(p, n),
           DecodeOutput
    PROVE  /\ OrderInv(p, n)'
           /\ credit' < credit /\ lastPts # NoPts => lastPts' > lastPts
  <1>1. UNCHANGED <<mInit, looper, pc, i, pts, Added(p)>> /\ looper = "idle"
    BY DEF DecodeOutput, syncVars, pushVars, Added
  <1>2. CASE ~mInit
    <2>1. UNCHANGED credit /\ ~Made'
      BY <1>1, <1>2 DEF DecodeOutput, Made
    <2>2. QED BY <1>1, <2>1, OnePusher DEF OrderInv
  <1>3. CASE mInit
    <2>1. /\ Made /\ mAudioPtsSet \in SUBSET Stamps
          /\ CalculateCurrentFramePTS /\ lastPts' = mNewPts' /\ credit' = credit - 1
          /\ credit > 0 \/ (lastPts # NoPts /\ credit > -Extra)
      BY <1>1, <1>3, BoundAssumption DEF DecodeOutput, HasOutput, Made, NInv, StampInv, FrameInv
    <2>2. IsFiniteSet(mAudioPtsSet)
      BY <2>1, StampsFinite, FS_Subset
    <2>3. PICK k \in 0 .. Added(p), j \in 0 .. Gap(n) : Split(p, n, k, j)
      BY <2>1 DEF OrderInv
    <2>4. /\ credit \in Int /\ mNewPts \in Int /\ lastPts \in Int
          /\ Added(p) \in 0 .. MaxPush /\ (credit > 0 => Added(p) >= 1)
          /\ Gap(n) \in Nat
      BY OnePusher, BoundAssumption DEF Gap, NInv, StampInv
    <2>5. Load(p)' = Load(p) - 1 /\ Load(p) >= credit /\ Load(p) \in Int
      BY <1>1, <2>1, <2>4 DEF Load
    <2>6. \A m \in 0 .. MaxPush - 1 : PtsOf(m) \in Int /\ PtsOf(m) >= 0
      BY PtsAssumption DEF Spaced
    <2>7. CASE mAudioPtsSet # {}
      <3>1. /\ mNewPts' = Least(mAudioPtsSet) /\ mAudioPtsSet' = mAudioPtsSet \ {mNewPts'}
            /\ Least(mAudioPtsSet) \in mAudioPtsSet
            /\ \A y \in mAudioPtsSet : Least(mAudioPtsSet) <= y
        BY <2>1, <2>7, LeastIsLeast DEF CalculateCurrentFramePTS
      <3>2. PICK m \in k .. Added(p) - 1 : mNewPts' = PtsOf(m)
        BY <2>3, <3>1 DEF Split
      <3>3. m \in 0 .. MaxPush - 1 /\ k \in Nat /\ m + 1 \in 0 .. Added(p)
        BY <2>4, BoundAssumption
      <3>4. \A x \in mAudioPtsSet' : \E l \in m + 1 .. Added(p)' - 1 : x = PtsOf(l)
        <4> TAKE x \in mAudioPtsSet'
        <4>1. PICK l \in k .. Added(p) - 1 : x = PtsOf(l)
          BY <2>3, <3>1 DEF Split
        <4>2. l \in 0 .. MaxPush - 1 /\ PtsOf(m) <= PtsOf(l) /\ l # m
          BY <2>4, <3>1, <3>2, <4>1, BoundAssumption
        <4>3. ~(l < m)
          <5> DEFINE W == Step * Gap(n)
          <5>1. W \in Nat
            BY <2>4 DEF Step
          <5>2. l < m => PtsOf(m) > PtsOf(l) + W
            BY <3>3, <4>2 DEF Spaced
          <5> HIDE DEF W
          <5>3. QED BY <2>6, <3>3, <4>2, <5>1, <5>2
        <4>4. l \in m + 1 .. Added(p)' - 1
          BY <1>1, <2>4, <3>3, <4>1, <4>2, <4>3
        <4>5. QED BY <4>1, <4>4
      <3>5. Cardinality(mAudioPtsSet') = Cardinality(mAudioPtsSet) - 1
        BY <2>2, <3>1, FS_RemoveElement
      <3>6. Cardinality(mAudioPtsSet) \in Nat
        BY <2>2, FS_CardinalityType
      <3>7. Load(p)' + 0 <= Cardinality(mAudioPtsSet') + n + 1
        BY <2>3, <2>4, <2>5, <3>5, <3>6 DEF Split
      <3>8. PtsOf(m) <= PtsOf((m + 1) - 1) + Step * 0
        BY <2>6, <3>3 DEF Step
      <3>9. Split(p, n, m + 1, 0)'
        BY <2>1, <2>6, <3>2, <3>3, <3>4, <3>7, <3>8 DEF Split, NoPts
      <3>10. OrderInv(p, n)'
        BY <1>1, <2>4, <3>3, <3>9, OnePusher DEF OrderInv
      <3>11. ASSUME lastPts # NoPts PROVE lastPts' > lastPts
        <4>1. lastPts <= PtsOf(k - 1) + Step * j /\ k >= 1
          BY <2>3, <3>11 DEF Split
        <4>2. k - 1 \in 0 .. MaxPush - 1 /\ k - 1 < m
          BY <2>4, <3>3, <4>1, BoundAssumption
        <4>3. PtsOf(m) > PtsOf(k - 1) + Step * Gap(n)
          BY <3>3, <4>2 DEF Spaced
        <4>4. Step * j <= Step * Gap(n) /\ Step * j \in Int /\ Step * Gap(n) \in Int
          BY <2>4 DEF Step
        <4> DEFINE a == Step * j
                   b == Step * Gap(n)
        <4> HIDE DEF a, b
        <4>5. /\ lastPts <= PtsOf(k - 1) + a /\ PtsOf(m) > PtsOf(k - 1) + b
              /\ a <= b /\ a \in Int /\ b \in Int
          BY <4>1, <4>3, <4>4 DEF a, b
        <4>6. QED BY <2>1, <2>4, <2>6, <3>2, <3>3, <4>2, <4>5
      <3>12. QED BY <3>10, <3>11
    <2>8. CASE mAudioPtsSet = {}
      <3>1. mNewPts' = mNewPts + 100 /\ mAudioPtsSet' = {}
        BY <2>1, <2>8 DEF CalculateCurrentFramePTS, Step
      <3>2. Cardinality(mAudioPtsSet) = 0 /\ Cardinality(mAudioPtsSet') = 0
        BY <2>8, <3>1, FS_EmptySet
      <3>3. Load(p) + j <= n + 1 /\ mNewPts >= 0
        BY <2>3, <2>5, <3>2 DEF Split
      <3>4. CASE lastPts = NoPts
        <4>1. mNewPts = 0 /\ credit > 0 /\ Added(p) >= 1
          BY <2>1, <2>3, <2>4, <3>4 DEF Split
        <4>2. lastPts' = 100 /\ 100 <= PtsOf(Added(p) - 1) + Step * 1
          <5>1. Added(p) - 1 \in 0 .. MaxPush - 1
            BY <2>4, <4>1, BoundAssumption
          <5>2. QED BY <2>1, <2>6, <3>1, <4>1, <5>1 DEF Step
        <4>3. Split(p, n, Added(p), 1)'
          <5>1. Load(p)' + 1 <= Cardinality(mAudioPtsSet') + n + 1
            BY <2>4, <2>5, <3>2, <3>3
          <5>2. QED BY <1>1, <2>1, <3>1, <4>1, <4>2, <5>1 DEF Split, NoPts
        <4>4. 1 \in 0 .. Gap(n)
          BY BoundAssumption DEF Gap
        <4>5. Added(p) \in 0 .. Added(p)'
          BY <1>1, <2>4
        <4>6. OrderInv(p, n)'
          BY <1>1, <4>3, <4>4, <4>5, OnePusher DEF OrderInv
        <4>7. QED BY <3>4, <4>6
      <3>5. CASE lastPts # NoPts
        <4>1. lastPts = mNewPts /\ k >= 1 /\ mNewPts <= PtsOf(k - 1) + Step * j
          BY <2>3, <3>5 DEF Split
        <4>2. j + 1 \in 0 .. Gap(n)
          BY <2>1, <2>4, <2>5, <3>3, BoundAssumption DEF Gap
        <4>3. mNewPts' <= PtsOf(k - 1) + Step * (j + 1)
          <5>1. k - 1 \in 0 .. MaxPush - 1
            BY <2>4, <4>1, BoundAssumption
          <5>2. QED BY <2>4, <2>6, <3>1, <4>1, <5>1 DEF Step
        <4>4. Split(p, n, k, j + 1)'
          <5>1. Load(p)' + (j + 1) <= Cardinality(mAudioPtsSet') + n + 1
            BY <2>4, <2>5, <3>2, <3>3
          <5>2. QED BY <2>1, <2>4, <3>1, <3>3, <4>1, <4>3, <5>1 DEF Split, NoPts
        <4>5. OrderInv(p, n)'
          BY <1>1, <2>3, <4>2, <4>4, OnePusher DEF OrderInv
        <4>6. lastPts' > lastPts
          BY <2>1, <2>4, <3>1, <4>1
        <4>7. QED BY <4>5, <4>6
      <3>6. QED BY <3>4, <3>5
    <2>9. QED BY <2>7, <2>8
  <1>4. QED BY <1>2, <1>3

LEMMA PusherKeepsOrder ==
    ASSUME IInv, NInv, NInv', NEW p, Pusher = {p}, NEW n \in Nat, Spaced(n), OrderInv(p, n),
           TakePts(p) \/ PusherStep(p)
    PROVE  OrderInv(p, n)'
  <1>1. /\ UNCHANGED <<mInit, looper, mNewPts, lastPts>>
        /\ Made' = Made
        /\ pc' = [pc EXCEPT ![p] = pc'[p]]
        /\ i \in 0 .. MaxPush /\ credit \in Int
    BY DEF TakePts, PusherStep, AddPts, CheckInit, DequeueTimesOut, DequeueInput, QueueInput,
           PushThrows, Goto, ptsVars, IInv, TypeInv, Made, NInv, FrameInv
  <1>2. ASSUME Made PROVE Cardinality(mAudioPtsSet) \in Nat /\ IsFiniteSet(mAudioPtsSet)
    BY <1>2, StampsFinite, FS_Subset, FS_CardinalityType DEF NInv, StampInv
  <1>3. CASE AddPts(p)
    <2>1. /\ pc[p] = "add" /\ pc'[p] = "check" /\ i' = i /\ credit' = credit
          /\ mAudioPtsSet' = IF mAudioPtsSet = None THEN None ELSE mAudioPtsSet \cup {pts[p]}
      BY <1>3 DEF AddPts, Goto, pushVars, codecVars, IInv, TypeInv
    <2>2. i >= 1 /\ pts[p] = PtsOf(i - 1)
      BY <2>1 DEF OrderInv
    <2>3. Added(p) = i - 1 /\ Added(p)' = i /\ Load(p) = credit /\ Load(p)' = credit + 1
      BY <1>1, <2>1 DEF Added, Load
    <2> SUFFICES ASSUME Made
                 PROVE \E k \in 0 .. Added(p)', j \in 0 .. Gap(n) : Split(p, n, k, j)'
      BY <1>1, <2>1 DEF OrderInv, Gap
    <2>4. PICK k \in 0 .. Added(p), j \in 0 .. Gap(n) : Split(p, n, k, j)
      BY DEF OrderInv
    <2>5. mAudioPtsSet' = mAudioPtsSet \cup {PtsOf(i - 1)}
      BY <2>1, <2>2, NoneAssumption DEF NInv, StampInv
    <2>6. PtsOf(i - 1) \notin mAudioPtsSet
      <3>1. SUFFICES ASSUME NEW m \in k .. Added(p) - 1, PtsOf(i - 1) = PtsOf(m) PROVE FALSE
        BY <2>4 DEF Split
      <3>2. m < i - 1 /\ m \in 0 .. MaxPush - 1 /\ i - 1 \in 0 .. MaxPush - 1
        BY <1>1, <2>2, <2>3, BoundAssumption
      <3> DEFINE W == Step * Gap(n)
      <3>3. W \in Nat /\ PtsOf(i - 1) > PtsOf(m) + W
        BY <3>2, BoundAssumption DEF Spaced, Step, Gap
      <3> HIDE DEF W
      <3>4. QED BY <3>1, <3>2, <3>3, PtsAssumption
    <2>7. Cardinality(mAudioPtsSet') = Cardinality(mAudioPtsSet) + 1
      BY <1>2, <2>5, <2>6, FS_AddElement
    <2>8. k \in 0 .. Added(p)'
      BY <1>1, <2>3
    <2>9. \A x \in mAudioPtsSet' : \E m \in k .. Added(p)' - 1 : x = PtsOf(m)
      <3> TAKE x \in mAudioPtsSet'
      <3>1. CASE x \in mAudioPtsSet
        <4>1. PICK m \in k .. Added(p) - 1 : x = PtsOf(m)
          BY <2>4, <3>1 DEF Split
        <4>2. m \in k .. Added(p)' - 1
          BY <1>1, <2>3
        <4>3. QED BY <4>1, <4>2
      <3>2. CASE x = PtsOf(i - 1)
        <4>1. i - 1 \in k .. Added(p)' - 1
          BY <1>1, <2>3
        <4>2. QED BY <3>2, <4>1
      <3>3. QED BY <2>5, <3>1, <3>2
    <2>10. Load(p)' + j <= Cardinality(mAudioPtsSet') + n + 1
      <3>1. Load(p) + j <= Cardinality(mAudioPtsSet) + n + 1
        BY <2>4 DEF Split
      <3>2. j \in Int
        BY BoundAssumption DEF Gap
      <3>3. QED BY <1>1, <1>2, <2>3, <2>7, <3>1, <3>2
    <2>11. Split(p, n, k, j)'
      BY <1>1, <2>4, <2>9, <2>10 DEF Split
    <2>12. QED BY <2>8, <2>11
  <1>4. CASE ~AddPts(p)
    <2>1. /\ mAudioPtsSet' = mAudioPtsSet
          /\ pc'[p] = "add" => i' >= 1 /\ pts'[p] = PtsOf(i' - 1)
      BY <1>1, <1>4
      DEF TakePts, PusherStep, CheckInit, DequeueTimesOut, DequeueInput, QueueInput,
          PushThrows, Goto, ptsVars, IInv, TypeInv, NInv, StampInv
    <2>2. Added(p)' = Added(p)
      <3>1. CASE TakePts(p)
        BY <1>1, <3>1 DEF TakePts, Goto, Added, IInv, TypeInv
      <3>2. CASE ~TakePts(p)
        <4>1. i' = i /\ pc[p] # "add" /\ pc'[p] # "add"
          BY <1>4, <3>2
          DEF PusherStep, CheckInit, DequeueTimesOut, DequeueInput, QueueInput, PushThrows,
              Goto, pushVars, IInv, TypeInv
        <4>2. QED BY <4>1 DEF Added
      <3>3. QED BY <3>1, <3>2
    <2>3. Load(p) \in Int /\ Load(p)' \in Int /\ Load(p)' <= Load(p)
      <3>1. CASE QueueInput(p)
        BY <1>1, <3>1 DEF QueueInput, Goto, Load, IInv, TypeInv
      <3>2. CASE ~QueueInput(p)
        <4>1. credit' = credit
          BY <1>4, <3>2
          DEF TakePts, PusherStep, CheckInit, DequeueTimesOut, DequeueInput, PushThrows,
              codecVars
        <4>2. pc'[p] \in {"check", "dequeue", "queue"} => pc[p] \in {"check", "dequeue", "queue"}
          BY <1>4, <3>2
          DEF TakePts, PusherStep, CheckInit, DequeueTimesOut, DequeueInput, PushThrows,
              Goto, IInv, TypeInv
        <4>3. QED BY <1>1, <4>1, <4>2 DEF Load
      <3>3. QED BY <3>1, <3>2
    <2>4. QED BY <1>1, <1>2, <2>1, <2>2, <2>3, OthersKeepOrder
  <1>5. QED BY <1>3, <1>4

LEMMA TaskKeepsOrder ==
    ASSUME IInv, NInv, NInv', NEW p, Pusher = {p}, NEW n \in Nat, OrderInv(p, n),
           TaskStep, MakePtsSet => credit <= n
    PROVE  OrderInv(p, n)'
  <1>1. UNCHANGED <<i, pts>> /\ pc'[p] = pc[p]
    BY DEF TaskStep, RunStart, MakePtsSet, RunStop, ClearInit, SetFlag, NotifyAll, Woken,
           pushVars, IInv, TypeInv, NInv, StampInv, PushPlace
  <1>2. Added(p)' = Added(p) /\ Added(p) \in Nat /\ credit \in Int /\ credit' \in Int
    BY <1>1, OnePusher DEF Added, NInv, FrameInv
  <1>3. CASE MakePtsSet
    <2>1. mAudioPtsSet' = {} /\ mNewPts' = 0 /\ lastPts' = NoPts /\ credit' = credit
      BY <1>3 DEF MakePtsSet, codecVars
    <2>2. Cardinality(mAudioPtsSet') = 0
      BY <2>1, FS_EmptySet
    <2>3. Load(p)' + 0 <= Cardinality(mAudioPtsSet') + n + 1
      BY <1>1, <1>2, <1>3, <2>1, <2>2 DEF Load
    <2>4. Split(p, n, 0, 0)'
      BY <2>1, <2>3 DEF Split
    <2>5. 0 \in 0 .. Added(p)' /\ 0 \in 0 .. Gap(n)
      BY <1>2, BoundAssumption DEF Gap
    <2>6. QED BY <1>1, <2>4, <2>5 DEF OrderInv
  <1>4. CASE ~MakePtsSet
    <2>1. UNCHANGED ptsVars /\ (Made' => Made /\ credit' = credit)
      BY <1>4
      DEF TaskStep, RunStart, RunStop, ClearInit, SetFlag, NotifyAll, TakeTask,
          LooperGoto, ptsVars, codecVars, Made
    <2>2. Load(p) \in Int /\ Load(p)' \in Int /\ (Made' => Load(p)' <= Load(p))
      BY <1>1, <1>2, <2>1 DEF Load
    <2>3. ASSUME Made PROVE Cardinality(mAudioPtsSet) \in Nat
      BY <2>3, StampsFinite, FS_Subset, FS_CardinalityType DEF NInv, StampInv
    <2>4. pc'[p] = "add" => i' >= 1 /\ pts'[p] = PtsOf(i' - 1)
      BY <1>1 DEF OrderInv
    <2>5. QED BY <1>2, <2>1, <2>2, <2>3, <2>4, OthersKeepOrder DEF ptsVars
  <1>5. QED BY <1>3, <1>4

LEMMA CallerKeepsOrder ==
    ASSUME IInv, NInv, NEW p, Pusher = {p}, NEW n \in Nat, OrderInv(p, n), NEW c \in Caller,
           (\E o \in {"start", "stop"} : Call(c, o)) \/ CallerStep(c) \/ Wake(c)
    PROVE  OrderInv(p, n)'
  <1>1. /\ UNCHANGED <<mInit, credit, mAudioPtsSet, mNewPts, lastPts, looper, i, pts>>
        /\ pc'[p] = pc[p]
    BY ThreadAssumption
    DEF CallerStep, Call, Enter, Post, TestFlag, Reacquire, Wake, Goto, codecVars, ptsVars,
        pushVars, syncVars, IInv, TypeInv
  <1>2. QED BY <1>1 DEF OrderInv, Split, Made, Added, Load

LEMMA NextOrder ==
    ASSUME NEW p, Pusher = {p}, NEW n \in Nat, Spaced(n)
    PROVE  IInv /\ NInv /\ NInv' /\ OrderInv(p, n) /\ [Next]_vars /\ [MakePtsSet => credit <= n]_vars
             => OrderInv(p, n)'
  <1> SUFFICES ASSUME IInv, NInv, NInv', OrderInv(p, n), [Next]_vars,
                      [MakePtsSet => credit <= n]_vars
               PROVE  OrderInv(p, n)'
    OBVIOUS
  <1>1. ASSUME NEW c \in Caller,
               (\E o \in {"start", "stop"} : Call(c, o)) \/ CallerStep(c) \/ Wake(c)
        PROVE  OrderInv(p, n)'
    BY <1>1, CallerKeepsOrder
  <1>2. CASE TaskStep
    <2>1. MakePtsSet => looper' # looper
      BY DEF MakePtsSet, LooperGoto
    <2>2. MakePtsSet => credit <= n
      BY <2>1 DEF vars
    <2>3. QED BY <1>2, <2>2, TaskKeepsOrder
  <1>3. CASE DecodeOutput
    BY <1>3, DecodeKeepsOrder
  <1>4. ASSUME NEW q \in Pusher, TakePts(q) \/ PusherStep(q) PROVE OrderInv(p, n)'
    <2>1. q = p
      OBVIOUS
    <2>2. QED BY <1>4, <2>1, PusherKeepsOrder
  <1>5. CASE UNCHANGED vars
    BY <1>5 DEF vars, codecVars, ptsVars, syncVars, pushVars, OrderInv, Split, Made, Added, Load
  <1>6. QED BY <1>1, <1>2, <1>3, <1>4, <1>5 DEF Next

(***************************************************************************)
(* The timestamps the muxer gets increase (AudioMediaCodecEncoder.java:290 *)
(* and 291), however the encoder thread and the one record thread          *)
(* interleave and however often the encoder is stopped and started: when   *)
(* at most n frames are in the codec as the new set is made (line 95), it  *)
(* is enough that frames come further apart than n + 1 + Extra steps of    *)
(* 100 microseconds.                                                       *)
(***************************************************************************)
THEOREM TimestampsIncrease ==
    ASSUME NEW p, Pusher = {p}, NEW n \in Nat, Spaced(n)
    PROVE  Spec /\ TimelySet(n) => PtsIncreases
  <1> DEFINE T == MakePtsSet => credit <= n
             A == credit' < credit /\ codec' = codec /\ lastPts # NoPts => lastPts' > lastPts
  <1>1. Init => OrderInv(p, n)
    BY DEF Init, OrderInv, Made
  <1>2. IInv /\ NInv /\ NInv' /\ OrderInv(p, n) /\ [Next]_vars /\ [T]_vars => OrderInv(p, n)'
    BY NextOrder
  <1>3. IInv /\ NInv /\ OrderInv(p, n) /\ [Next]_vars => [A]_vars
    <2> SUFFICES ASSUME IInv, NInv, OrderInv(p, n), Next PROVE A
      OBVIOUS
    <2>1. CASE DecodeOutput
      BY <2>1, DecodeKeepsOrder
    <2>2. CASE RunStart
      <3>1. codec' = codec => credit' = credit
        BY <2>2 DEF RunStart, codecVars, NInv, CodecInv
      <3>2. QED BY <3>1 DEF NInv, FrameInv
    <2>3. CASE ~DecodeOutput /\ ~RunStart
      <3>1. credit' = credit \/ credit' = credit + 1
        BY <2>3
        DEF Next, CallerStep, TaskStep, PusherStep, Call, Enter, Post, TestFlag, Reacquire,
            Wake, MakePtsSet, RunStop, ClearInit, SetFlag, NotifyAll, TakePts, AddPts,
            CheckInit, DequeueTimesOut, DequeueInput, QueueInput, PushThrows, codecVars
      <3>2. QED BY <3>1 DEF NInv, FrameInv
    <2>4. QED BY <2>1, <2>2, <2>3
  <1>4. QED
    BY <1>1, <1>2, <1>3, Invariance, NumberInvariance, PTL DEF Spec, TimelySet, PtsIncreases

(***************************************************************************)
(* With nothing known of when the set is made: it is enough that frames    *)
(* come further apart than MaxPush + 1 + Extra steps of 100 microseconds   *)
(* (AudioMediaCodecEncoder.java:291).  Frames of ten milliseconds do so up *)
(* to about a hundred frames.                                              *)
(***************************************************************************)
THEOREM TimestampsIncreaseAlways ==
    ASSUME NEW p, Pusher = {p}, Spaced(MaxPush)
    PROVE  Spec => PtsIncreases
  <1>1. NInv => credit <= MaxPush
    <2> SUFFICES ASSUME NInv PROVE credit <= MaxPush
      OBVIOUS
    <2>1. IsFiniteSet(InPush)
      BY FiniteAssumption, FS_Subset DEF InPush
    <2>2. Cardinality(InPush) \in Nat
      BY <2>1, FS_CardinalityType
    <2>3. QED BY <2>2, BoundAssumption DEF NInv, FrameInv
  <1>2. NInv => [MakePtsSet => credit <= MaxPush]_vars
    BY <1>1
  <1>3. Spec => TimelySet(MaxPush)
    BY <1>2, NumberInvariance, PTL DEF TimelySet
  <1>4. Spec /\ TimelySet(MaxPush) => PtsIncreases
    BY TimestampsIncrease, BoundAssumption
  <1>5. QED BY <1>3, <1>4, PTL

(***************************************************************************)
(* The timestamps getPTSUs computes (MainActivity.java:297) are those of   *)
(* the first five frames, so as long as no more are pushed they increase.  *)
(* The sixth is the one the violating run finds.                           *)
(***************************************************************************)
THEOREM FirstTimestampsIncrease ==
    ASSUME NEW p, Pusher = {p}, MaxPush <= 5, Extra <= 90,
           \A k \in 0 .. MaxPush - 1 : PtsOf(k) = GetPTSUs(k)
    PROVE  Spec => PtsIncreases
  <1>1. \A k \in 0 .. 4 : GetPTSUs(k) = 10000 * k
    <2> SUFFICES ASSUME NEW k \in 0 .. 4 PROVE GetPTSUs(k) = 10000 * k
      OBVIOUS
    <2>1. (k * 234375) % Modulus = k * 234375 /\ Modulus \div 2 = 1048576
      BY DEF Modulus
    <2>2. Signed((k * 234375) % Modulus) = k * 234375
      BY <2>1 DEF Signed
    <2>3. ((k * 234375) * 16) \div 375 = 10000 * k
      OBVIOUS
    <2>4. QED BY <2>2, <2>3 DEF GetPTSUs
  <1>2. \A k \in 0 .. MaxPush - 1 : PtsOf(k) = 10000 * k /\ k \in 0 .. 4
    BY <1>1, BoundAssumption
  <1>3. Spaced(MaxPush)
    <2>1. Step * Gap(MaxPush) \in Int /\ Step * Gap(MaxPush) < 10000
      BY BoundAssumption DEF Step, Gap
    <2>2. QED BY <1>2, <2>1, BoundAssumption DEF Spaced
  <1>4. QED BY <1>3, TimestampsIncreaseAlways
-----------------------------------------------------------------------------
\* A caller that waits with its flag set is about to be woken.
WakeInv == \A c \in Caller : pc[c] = "waiting" /\ runFlag[c] => looper = "notify" /\ current = c

\* Whoever waits has a task that is to be run, or run and not yet notified.
WaiterIsServed == \A c \in Caller : pc[c] = "waiting" =>
                     task = c \/ (looper # "idle" /\ current = c)

(***************************************************************************)
(* No notification is lost (TXCThread.java:48-67), for any callers: the    *)
(* encoder thread still has to notify every thread that waits in runSync.  *)
(* With the fairness of the threads this is why CallsReturn holds.         *)
(***************************************************************************)
THEOREM NoLostWakeup == Spec => []WaiterIsServed
  <1>1. Init => WakeInv
    BY DEF Init, WakeInv
  <1>2. IInv /\ WakeInv /\ [Next]_vars => WakeInv'
    <2> SUFFICES ASSUME IInv, WakeInv, [Next]_vars PROVE WakeInv'
      OBVIOUS
    <2> USE ThreadAssumption DEF WakeInv, IInv, TypeInv
    <2>1. ASSUME NEW c \in Caller,
                 (\E o \in {"start", "stop"} : Call(c, o)) \/ CallerStep(c) \/ Wake(c)
          PROVE  WakeInv'
      BY <2>1 DEF CallerStep, Call, Enter, Post, TestFlag, Reacquire, Wake, Goto, syncVars
    <2>2. CASE SetFlag
      BY <2>2 DEF SetFlag, LooperGoto
    <2>3. CASE NotifyAll
      BY <2>3 DEF NotifyAll, LooperGoto, Woken
    <2>4. CASE RunStart \/ MakePtsSet \/ RunStop \/ ClearInit
      BY <2>4 DEF RunStart, MakePtsSet, RunStop, ClearInit, TakeTask, LooperGoto, syncVars
    <2>5. CASE DecodeOutput
      BY <2>5 DEF DecodeOutput, syncVars
    <2>6. ASSUME NEW p \in Pusher, TakePts(p) \/ PusherStep(p) PROVE WakeInv'
      <3>1. UNCHANGED <<looper, syncVars>> /\ \A c \in Caller : pc'[c] = pc[c]
        BY <2>6
        DEF TakePts, PusherStep, AddPts, CheckInit, DequeueTimesOut, DequeueInput,
            QueueInput, PushThrows, Goto, syncVars
      <3>2. QED BY <3>1 DEF syncVars
    <2>7. CASE UNCHANGED vars
      BY <2>7 DEF vars, syncVars
    <2>8. QED BY <2>1, <2>2, <2>3, <2>4, <2>5, <2>6, <2>7 DEF Next, TaskStep
  <1>3. IInv /\ WakeInv => WaiterIsServed
    BY DEF IInv, SyncInv, Handing, Busy, WakeInv, WaiterIsServed
  <1>4. QED BY <1>1, <1>2, <1>3, Invariance, PTL DEF Spec
=============================================================================
