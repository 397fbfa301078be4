---------------------------- MODULE AecmProofs ----------------------------
(***************************************************************************)
(* What the far-end buffer of AECM and its conversion between frames and   *)
(* blocks keep for every frame, block and buffer length and every delay.   *)
(***************************************************************************)
EXTENDS AecmFarEnd, TLAPS

\* What is left of n samples after whole blocks of size p is less than a block.
LEMMA WholeBlocks ==
    ASSUME NEW n \in Nat, NEW p \in Nat \ {0}
    PROVE  /\ (n \div p) * p \in Nat
           /\ (n \div p) * p <= n
           /\ n < (n \div p) * p + p
  <1>1. /\ n \div p \in Nat
        /\ (n \div p) * p <= n
        /\ n < (n \div p) * p + p
    OBVIOUS
  <1>2. \A q \in Nat : q * p \in Nat
    OBVIOUS
  <1>3. QED BY <1>1, <1>2

FramesInv == FramesTypeOK /\ FetchesBufferedFrame /\ LatencyBound /\ NearInStep

\* The part of FramesInv that the loop of ProcessFrame rests on.
LEMMA BlocksOfFrame ==
    ASSUME FramesInv
    PROVE  /\ Written(farFrameBuf, FRAME_LEN) = farFrameBuf + FRAME_LEN
           /\ InBlocks \in Nat
           /\ InBlocks <= farFrameBuf + FRAME_LEN
           /\ farFrameBuf + FRAME_LEN < InBlocks + PART_LEN
  <1>1. farFrameBuf \in Nat /\ Written(farFrameBuf, FRAME_LEN) = farFrameBuf + FRAME_LEN
    BY FramesAssumption DEF FramesInv, FramesTypeOK, LatencyBound, Written, AtMost, Capacity
  <1>2. farFrameBuf + FRAME_LEN \in Nat
    BY <1>1, FramesAssumption
  <1>3. QED
    BY <1>1, <1>2, WholeBlocks, FramesAssumption DEF InBlocks

\* How much room there is follows from the rest.
LEMMA RoomForBlocks ==
    ASSUME NEW far \in Nat, NEW out \in Nat, far + out < PART_LEN
    PROVE  /\ far + FRAME_LEN <= Capacity
           /\ out + (Written(far, FRAME_LEN) \div PART_LEN) * PART_LEN <= Capacity
  <1> DEFINE b == ((far + FRAME_LEN) \div PART_LEN) * PART_LEN
  <1>1. Written(far, FRAME_LEN) = far + FRAME_LEN
    BY FramesAssumption DEF Written, AtMost, Capacity
  <1>2. far + FRAME_LEN \in Nat /\ PART_LEN \in Nat \ {0}
    BY FramesAssumption
  <1>3. b \in Nat /\ b <= far + FRAME_LEN
    BY <1>2, WholeBlocks
  <1> HIDE DEF b
  <1>4. far + FRAME_LEN <= Capacity /\ out + b <= Capacity
    BY <1>3, FramesAssumption DEF Capacity
  <1>5. QED BY <1>1, <1>4 DEF b

LEMMA InitCoreKeepsFramesInv == ASSUME ns \in BOOLEAN, InitCore PROVE FramesInv'
  <1>1. FramesTypeOK'
    BY FramesAssumption DEF InitCore, FramesTypeOK, Capacity
  <1>2. FetchesBufferedFrame' /\ NearInStep'
    BY FramesAssumption DEF InitCore, FetchesBufferedFrame, NearInStep
  <1>3. LatencyBound'
    <2>1. farFrameBuf' = 0 /\ outFrameBuf' = 0 /\ stuffed' = 0
      BY DEF InitCore
    <2>2. 0 \in Nat /\ 0 + 0 < PART_LEN
      BY FramesAssumption
    <2>3. /\ 0 + FRAME_LEN <= Capacity
          /\ 0 + (Written(0, FRAME_LEN) \div PART_LEN) * PART_LEN <= Capacity
      BY <2>2, RoomForBlocks
    <2>4. QED BY <2>1, <2>2, <2>3 DEF LatencyBound, InBlocks, Capacity
  <1>4. QED BY <1>1, <1>2, <1>3 DEF FramesInv

\* Both positions move by a frame, with the wrap of one a frame later.
LEMMA ProcessFrameKeepsFetch ==
    ASSUME FramesInv, ProcessFrame
    PROVE  /\ farBufWritePos' \in 0 .. FAR_BUF_LEN /\ farBufReadPos' \in 0 .. FAR_BUF_LEN
           /\ FetchesBufferedFrame'
  BY FramesAssumption
  DEF FramesInv, FramesTypeOK, FetchesBufferedFrame, ProcessFrame, BufferFarFrame,
      FetchFarFrame, FetchFrom

\* With b samples in whole blocks, and no buffer at its limit.
LEMMA ProcessFrameMoves ==
    ASSUME FramesInv, ProcessFrame
    PROVE  /\ farFrameBuf' = farFrameBuf + FRAME_LEN - InBlocks
           /\ nearNoisyFrameBuf' = farFrameBuf'
           /\ ns => nearCleanFrameBuf' = farFrameBuf'
           /\ ~ns => nearCleanFrameBuf' = nearCleanFrameBuf
           /\ \/ /\ outFrameBuf + InBlocks < FRAME_LEN
                 /\ outFrameBuf' = 0
                 /\ stuffed' = stuffed + FRAME_LEN - (outFrameBuf + InBlocks)
              \/ /\ outFrameBuf + InBlocks >= FRAME_LEN
                 /\ outFrameBuf' = outFrameBuf + InBlocks - FRAME_LEN
                 /\ stuffed' = stuffed
  <1> DEFINE b == InBlocks
  <1>1. /\ Written(farFrameBuf, FRAME_LEN) = farFrameBuf + FRAME_LEN
        /\ b \in Nat /\ b <= farFrameBuf + FRAME_LEN
    BY BlocksOfFrame
  <1>2. /\ farFrameBuf \in Nat /\ outFrameBuf \in Nat /\ stuffed \in Nat
        /\ outFrameBuf + b <= Capacity
        /\ nearNoisyFrameBuf = farFrameBuf
        /\ ns => nearCleanFrameBuf = farFrameBuf
    BY FramesAssumption DEF FramesInv, FramesTypeOK, LatencyBound, NearInStep, Capacity
  <1>3. /\ farFrameBuf' = Written(farFrameBuf, FRAME_LEN) - b
        /\ nearNoisyFrameBuf' = Taken(Written(nearNoisyFrameBuf, FRAME_LEN), b)
        /\ nearCleanFrameBuf' = IF ns THEN Taken(Written(nearCleanFrameBuf, FRAME_LEN), b)
                                ELSE nearCleanFrameBuf
        /\ outFrameBuf' = Taken(AtMost(outFrameBuf + b, Capacity)
                                  + Stuffing(AtMost(outFrameBuf + b, Capacity)), FRAME_LEN)
        /\ stuffed' = stuffed + Stuffing(AtMost(outFrameBuf + b, Capacity))
    BY DEF ProcessFrame, CleanAfter
  <1> HIDE DEF b
  <1>4. Taken(farFrameBuf + FRAME_LEN, b) = farFrameBuf + FRAME_LEN - b
    BY <1>1, <1>2, FramesAssumption DEF Taken, AtLeast
  <1>5. /\ farFrameBuf' = farFrameBuf + FRAME_LEN - b
        /\ nearNoisyFrameBuf' = farFrameBuf + FRAME_LEN - b
        /\ nearCleanFrameBuf' = IF ns THEN farFrameBuf + FRAME_LEN - b ELSE nearCleanFrameBuf
    <2>1. farFrameBuf' = farFrameBuf + FRAME_LEN - b
      BY <1>1, <1>2, <1>3, FramesAssumption
    <2>2. nearNoisyFrameBuf' = farFrameBuf + FRAME_LEN - b
      BY <1>1, <1>2, <1>3, <1>4
    <2>3. CASE ns
      BY <1>1, <1>2, <1>3, <1>4, <2>1, <2>2, <2>3
    <2>4. CASE ~ns
      BY <1>3, <2>1, <2>2, <2>4
    <2>5. QED BY <2>3, <2>4
  <1>6. AtMost(outFrameBuf + b, Capacity) = outFrameBuf + b
    BY <1>1, <1>2, FramesAssumption DEF AtMost, Capacity
  <1>7. CASE outFrameBuf + b < FRAME_LEN
    <2>1. Stuffing(outFrameBuf + b) = FRAME_LEN - (outFrameBuf + b)
      BY <1>1, <1>2, <1>7, FramesAssumption DEF Stuffing, AtMost, Capacity
    <2>2. outFrameBuf' = 0 /\ stuffed' = stuffed + FRAME_LEN - (outFrameBuf + b)
      BY <1>1, <1>2, <1>3, <1>6, <2>1, FramesAssumption DEF Taken, AtLeast
    <2>3. QED BY <1>5, <1>7, <2>2 DEF b
  <1>8. CASE outFrameBuf + b >= FRAME_LEN
    <2>1. Stuffing(outFrameBuf + b) = 0
      BY <1>1, <1>2, <1>8, FramesAssumption DEF Stuffing
    <2>2. outFrameBuf' = outFrameBuf + b - FRAME_LEN /\ stuffed' = stuffed
      BY <1>1, <1>2, <1>3, <1>6, <1>8, <2>1, FramesAssumption DEF Taken, AtLeast
    <2>3. QED BY <1>5, <1>8, <2>2 DEF b
  <1>9. QED BY <1>1, <1>2, <1>7, <1>8, FramesAssumption

LEMMA ProcessFrameKeepsFramesInv == ASSUME FramesInv, ProcessFrame PROVE FramesInv'
  <1>1. /\ farFrameBuf' \in Nat /\ outFrameBuf' \in Nat /\ stuffed' \in Nat
        /\ farFrameBuf' + outFrameBuf' = stuffed'
        /\ stuffed' < PART_LEN
    <2>1. /\ InBlocks \in Nat /\ InBlocks <= farFrameBuf + FRAME_LEN
          /\ farFrameBuf + FRAME_LEN < InBlocks + PART_LEN
      BY BlocksOfFrame
    <2>2. /\ farFrameBuf \in Nat /\ outFrameBuf \in Nat /\ stuffed \in Nat
          /\ farFrameBuf + outFrameBuf = stuffed /\ stuffed < PART_LEN
      BY FramesAssumption DEF FramesInv, FramesTypeOK, LatencyBound, Capacity
    <2> HIDE DEF InBlocks
    <2>3. QED BY <2>1, <2>2, ProcessFrameMoves, FramesAssumption
  <1>2. LatencyBound'
    BY <1>1, RoomForBlocks DEF LatencyBound, InBlocks, Capacity
  <1>3. NearInStep'
    BY ProcessFrameMoves DEF ProcessFrame, NearInStep
  <1>4. FramesTypeOK'
    BY <1>1, ProcessFrameMoves, ProcessFrameKeepsFetch, FramesAssumption
    DEF FramesInv, FramesTypeOK, ProcessFrame, Capacity
  <1>5. QED BY <1>2, <1>3, <1>4, ProcessFrameKeepsFetch DEF FramesInv
-----------------------------------------------------------------------------
(* The far-end buffer                                                      *)

FarInv == /\ farendBuf \in 0 .. kBufSizeSamp
          /\ mult \in {1, 2}
          /\ bufSizeStart \in 0 .. BUF_SIZE_FRAMES
          /\ checkBufSizeCtr \in 0 .. MaxCheck + 1 /\ counter \in 0 .. 5
          /\ sum \in Nat
          /\ msInSndCardBuf \in {0} \cup 10 .. MaxDelay + 10

IInv == FramesInv /\ FarInv

LEMMA BufferSize == kBufSizeSamp \in Nat
  BY FramesAssumption, FarEndAssumption DEF kBufSizeSamp

\* A move of the read position stays within the buffer.
LEMMA MovedInBuffer == ASSUME NEW n \in Int, NEW m \in Int PROVE Moved(n, m) \in 0 .. kBufSizeSamp
  BY BufferSize DEF Moved, AtMost, AtLeast

LEMMA DelayCompInBuffer == ASSUME FarInv PROVE DelayComp(farendBuf) \in 0 .. kBufSizeSamp
  <1>1. farendBuf \in Int /\ nSampSndCard \in Int
    BY BufferSize, FarEndAssumption DEF FarInv, nSampSndCard
  <1>2. nSampSndCard \div 2 \in Int /\ FRAME_LEN \in Int
    BY <1>1, FramesAssumption
  <1> DEFINE h == nSampSndCard \div 2
             m == -AtMost(AtLeast(h - farendBuf, FRAME_LEN), 10 * FRAME_LEN)
  <1> HIDE DEF h
  <1>3. m \in Int
    BY <1>1, <1>2 DEF AtMost, AtLeast, h
  <1> HIDE DEF m
  <1>4. Moved(farendBuf, m) \in 0 .. kBufSizeSamp
    BY <1>1, <1>3, MovedInBuffer
  <1>5. QED BY <1>4 DEF DelayComp, m, h

\* WebRtcAecm_Process never waits for more than the buffer holds.
LEMMA StartSizeInBuffer ==
    ASSUME NEW total \in Nat, NEW n \in Nat \ {0}, mult \in {1, 2}
    PROVE  StartSize(total, n) \in 0 .. BUF_SIZE_FRAMES
  <1>1. 3 * total * mult \in Nat /\ n * 40 \in Nat \ {0}
    OBVIOUS
  <1>2. \A a \in Nat, b \in Nat \ {0} : a \div b \in Nat
    OBVIOUS
  <1>3. (3 * total * mult) \div (n * 40) \in Nat
    BY <1>1, <1>2
  <1>4. QED BY <1>3, FarEndAssumption DEF StartSize, AtMost

LEMMA SoundCardBufBounds ==
    ASSUME NEW delay \in Delay PROVE SoundCardBuf(delay) \in 10 .. MaxDelay + 10
  BY FarEndAssumption DEF SoundCardBuf, AtMost, AtLeast

LEMMA CheckBuffSizeBounds ==
    ASSUME FarInv, NEW ms \in Nat, CheckBuffSize(ms)
    PROVE  /\ bufSizeStart' \in 0 .. BUF_SIZE_FRAMES
           /\ checkBufSizeCtr' \in 0 .. MaxCheck + 1 /\ counter' \in 0 .. 5
           /\ sum' \in Nat
  <1> DEFINE first == IF counter = 0 THEN ms ELSE firstVal
             same  == Stable(first, ms)
             n     == IF same THEN counter + 1 ELSE 0
             total == (IF counter = 0 THEN 0 ELSE sum) + IF same THEN ms ELSE 0
             ctr   == checkBufSizeCtr + 1
             done  == n >= 6 \/ TimeIsUp(ctr)
  <1>1. /\ IF done THEN firstVal' = 0 /\ counter' = 0 /\ sum' = 0 /\ checkBufSizeCtr' = 0
           ELSE firstVal' = first /\ counter' = n /\ sum' = total /\ checkBufSizeCtr' = ctr
        /\ bufSizeStart' = IF TimeIsUp(ctr) THEN StartSize(ms, 1)
                           ELSE IF n >= 6 THEN StartSize(total, n) ELSE bufSizeStart
    BY DEF CheckBuffSize
  <1> HIDE DEF same
  <1>2. n \in 0 .. 6 /\ total \in Nat /\ ctr \in 1 .. MaxCheck + 2
    BY FarEndAssumption DEF FarInv
  <1>3. TimeIsUp(ctr) <=> ctr > MaxCheck
    BY DEF TimeIsUp
  <1> HIDE DEF first, n, total, ctr
  <1>4. StartSize(ms, 1) \in 0 .. BUF_SIZE_FRAMES
    BY StartSizeInBuffer DEF FarInv
  <1>5. n >= 6 => StartSize(total, n) \in 0 .. BUF_SIZE_FRAMES
    BY <1>2, StartSizeInBuffer DEF FarInv
  <1>6. bufSizeStart' \in 0 .. BUF_SIZE_FRAMES
    BY <1>1, <1>4, <1>5 DEF FarInv
  <1>7. CASE done
    BY <1>1, <1>6, <1>7, FarEndAssumption
  <1>8. CASE ~done
    BY <1>1, <1>2, <1>3, <1>6, <1>8, FarEndAssumption
  <1>9. QED BY <1>7, <1>8
-----------------------------------------------------------------------------
LEMMA FramesUnchanged == ASSUME FramesInv, UNCHANGED framesVars PROVE FramesInv'
  BY DEF FramesInv, FramesTypeOK, FetchesBufferedFrame, LatencyBound, NearInStep, InBlocks,
         framesVars, farArray, frameBufs

LEMMA InitAecmKeepsIInv == ASSUME IInv, InitAecm PROVE IInv'
  <1>1. FramesInv'
    BY InitCoreKeepsFramesInv DEF IInv, FramesInv, FramesTypeOK, InitAecm
  <1>2. FarInv'
    BY BufferSize, FarEndAssumption DEF IInv, FarInv, InitAecm, kBufSizeSamp
  <1>3. QED BY <1>1, <1>2 DEF IInv

LEMMA BufferFarendKeepsIInv == ASSUME IInv, BufferFarend PROVE IInv'
  <1> DEFINE n == IF ~ECstartup /\ MustStuff THEN DelayComp(farendBuf) ELSE farendBuf
  <1>1. n \in 0 .. kBufSizeSamp
    BY DelayCompInBuffer DEF IInv, FarInv
  <1>2. farendBuf' = AtMost(n + mult * FRAME_LEN, kBufSizeSamp)
    BY DEF BufferFarend
  <1> HIDE DEF n
  <1>3. mult * FRAME_LEN \in Nat
    BY FramesAssumption DEF IInv, FarInv
  <1>4. farendBuf' \in 0 .. kBufSizeSamp
    BY <1>1, <1>2, <1>3, BufferSize DEF AtMost
  <1>5. FarInv'
    BY <1>4 DEF BufferFarend, IInv, FarInv, startup, kBufSizeSamp
  <1>6. QED BY <1>5, FramesUnchanged DEF IInv, BufferFarend

LEMMA ProcessStartupKeepsIInv ==
    ASSUME IInv, NEW delay \in Delay, ProcessStartup(delay) PROVE IInv'
  <1>1. /\ msInSndCardBuf' = SoundCardBuf(delay)
        /\ SoundCardBuf(delay) \in 10 .. MaxDelay + 10
        /\ SoundCardBuf(delay) \in Nat
    BY SoundCardBufBounds, FarEndAssumption DEF ProcessStartup
  <1>2. /\ bufSizeStart' \in 0 .. BUF_SIZE_FRAMES
        /\ checkBufSizeCtr' \in 0 .. MaxCheck + 1 /\ counter' \in 0 .. 5
        /\ sum' \in Nat
    <2>1. CASE checkBuffSize
      BY <1>1, <2>1, CheckBuffSizeBounds DEF ProcessStartup, IInv
    <2>2. CASE ~checkBuffSize
      BY <2>2 DEF ProcessStartup, IInv, FarInv, startup
    <2>3. QED BY <2>1, <2>2
  <1>3. farendBuf' \in 0 .. kBufSizeSamp
    <2>1. bufSizeStart' * FRAME_LEN \in 0 .. kBufSizeSamp
      <3>1. \A a, b, c \in Nat : a <= b => a * c \in Nat /\ a * c <= b * c
        OBVIOUS
      <3>2. /\ bufSizeStart' \in Nat /\ BUF_SIZE_FRAMES \in Nat /\ FRAME_LEN \in Nat
            /\ bufSizeStart' <= BUF_SIZE_FRAMES
        BY <1>2, FramesAssumption, FarEndAssumption
      <3>3. bufSizeStart' * FRAME_LEN \in Nat /\ bufSizeStart' * FRAME_LEN <= kBufSizeSamp
        BY <3>1, <3>2 DEF kBufSizeSamp
      <3>4. QED BY <3>3, BufferSize
    <2>2. farendBuf' = bufSizeStart' * FRAME_LEN \/ farendBuf' = farendBuf
      BY DEF ProcessStartup
    <2>3. QED BY <2>1, <2>2 DEF IInv, FarInv
  <1>4. FarInv'
    BY <1>1, <1>2, <1>3 DEF ProcessStartup, IInv, FarInv, kBufSizeSamp
  <1>5. QED BY <1>4, FramesUnchanged DEF IInv, ProcessStartup

LEMMA ProcessKeepsIInv == ASSUME IInv, NEW delay \in Delay, Process(delay) PROVE IInv'
  <1>1. FarInv'
    BY SoundCardBufBounds DEF Process, IInv, FarInv, startup, kBufSizeSamp
  <1>2. QED BY <1>1, FramesUnchanged DEF IInv, Process

LEMMA NextFrameKeepsIInv == ASSUME IInv, NextFrame PROVE IInv'
  <1>1. FramesInv'
    BY ProcessFrameKeepsFramesInv DEF IInv, NextFrame
  <1> DEFINE left == IF farendBuf >= FRAME_LEN THEN farendBuf - FRAME_LEN ELSE farendBuf
  <1>2. left \in 0 .. kBufSizeSamp /\ FRAME_LEN \in Int
    BY BufferSize, FramesAssumption DEF IInv, FarInv
  <1>3. farendBuf' = Moved(left, FRAME_LEN) \/ farendBuf' = left
    BY DEF NextFrame
  <1> HIDE DEF left
  <1>4. farendBuf' \in 0 .. kBufSizeSamp
    <2>1. left \in Int
      BY <1>2, BufferSize
    <2>2. Moved(left, FRAME_LEN) \in 0 .. kBufSizeSamp
      BY <1>2, <2>1, MovedInBuffer
    <2>3. QED BY <1>2, <1>3, <2>2
  <1>5. FarInv'
    BY <1>4 DEF NextFrame, IInv, FarInv, startup, kBufSizeSamp
  <1>6. QED BY <1>1, <1>5 DEF IInv

LEMMA NextIInv == IInv /\ [Next]_vars => IInv'
  <1> SUFFICES ASSUME IInv, [Next]_vars PROVE IInv'
    OBVIOUS
  <1>1. CASE InitAecm
    BY <1>1, InitAecmKeepsIInv
  <1>2. CASE BufferFarend
    BY <1>2, BufferFarendKeepsIInv
  <1>3. CASE NextFrame
    BY <1>3, NextFrameKeepsIInv
  <1>4. ASSUME NEW delay \in Delay, ProcessStartup(delay) \/ Process(delay) PROVE IInv'
    BY <1>4, ProcessStartupKeepsIInv, ProcessKeepsIInv
  <1>5. CASE Settle
    BY <1>5, FramesUnchanged DEF Settle, IInv, FarInv, startup, kBufSizeSamp
  <1>6. CASE UNCHANGED vars
    BY <1>6, FramesUnchanged DEF vars, farVars, IInv, FarInv, startup, kBufSizeSamp
  <1>7. QED BY <1>1, <1>2, <1>3, <1>4, <1>5, <1>6 DEF Next, ProcessStep

LEMMA InitIInv == Init => IInv
  <1> SUFFICES ASSUME Init PROVE IInv
    OBVIOUS
  <1>1. FramesTypeOK /\ FetchesBufferedFrame /\ NearInStep
    BY FramesAssumption
    DEF Init, FramesInit, FramesTypeOK, FetchesBufferedFrame, NearInStep, Capacity
  <1>2. LatencyBound
    <2>1. 0 \in Nat /\ 0 + 0 < PART_LEN
      BY FramesAssumption
    <2>2. /\ 0 + FRAME_LEN <= Capacity
          /\ 0 + (Written(0, FRAME_LEN) \div PART_LEN) * PART_LEN <= Capacity
      BY <2>1, RoomForBlocks
    <2>3. QED BY <2>1, <2>2 DEF Init, FramesInit, LatencyBound, InBlocks, Capacity
  <1>3. FarInv
    BY BufferSize, FarEndAssumption DEF Init, FarInit, FarInv
  <1>4. QED BY <1>1, <1>2, <1>3 DEF IInv, FramesInv

LEMMA Invariance == Spec => []IInv
  BY InitIInv, NextIInv, PTL DEF Spec
-----------------------------------------------------------------------------
(***************************************************************************)
(* The buffers of AECM are never read or written beyond their ends and the *)
(* far end waited for fits in its buffer (echo_control_mobile.c:341-361).  *)
(***************************************************************************)
THEOREM BuffersBounded == Spec => []TypeOK
  <1>1. IInv => TypeOK
    BY DEF IInv, FramesInv, FarInv, TypeOK
  <1>2. QED BY <1>1, Invariance, PTL

(***************************************************************************)
(* ProcessFrame fetches the far frame it has just buffered                 *)
(* (aecm_core.c:567), whatever the length of the array.                    *)
(***************************************************************************)
THEOREM FetchIsCurrent == Spec => []FetchesBufferedFrame
  <1>1. IInv => FetchesBufferedFrame
    BY DEF IInv, FramesInv
  <1>2. QED BY <1>1, Invariance, PTL

(***************************************************************************)
(* For every frame and block length the conversion of ProcessFrame drops   *)
(* nothing and holds back less than a block (aecm_core.c:572-641).         *)
(***************************************************************************)
THEOREM LatencyBelowBlock == Spec => []LatencyBound
  <1>1. IInv => LatencyBound
    BY DEF IInv, FramesInv
  <1>2. QED BY <1>1, Invariance, PTL

(***************************************************************************)
(* Far end, noisy and clean near end stay in step (aecm_core.c:570).       *)
(***************************************************************************)
THEOREM BlocksInStep == Spec => []NearInStep
  <1>1. IInv => NearInStep
    BY DEF IInv, FramesInv
  <1>2. QED BY <1>1, Invariance, PTL
-----------------------------------------------------------------------------
(* Progress of the start-up.                                               *)

StartInv == /\ checkBuffSize \in BOOLEAN /\ ECstartup \in BOOLEAN
            /\ checkBufSizeCtr <= MaxCheck
            /\ ECstartup => frame = 0

\* The near-end calls for which the delay may still be checked.
CallsLeft == IF checkBuffSize THEN MaxCheck + 1 - checkBufSizeCtr ELSE 0

\* The far-end frames that are still waited for.
FramesMissing == AtLeast(bufSizeStart - (farendBuf \div FRAME_LEN), 0)

\* A step of the start-up.  Each near-end call uses up one of CallsLeft; when
\* none is left the amount of far end to wait for is fixed, each far-end call
\* brings it nearer and nothing takes it away.
StartupAdvances ==
    ECstartup /\ ECstartup' /\ ~InitAecm =>
        /\ CallsLeft \in Nat /\ FramesMissing \in Nat
        /\ CallsLeft' <= CallsLeft
        /\ (\E delay \in Delay : ProcessStartup(delay)) =>
              CallsLeft' < CallsLeft \/ (CallsLeft = 0 /\ FramesMissing > 0)
        /\ CallsLeft = 0 => FramesMissing' <= FramesMissing
        /\ BufferFarend => FramesMissing' < FramesMissing \/ FramesMissing = 0

LEMMA CheckBuffSizeSteps ==
    ASSUME FarInv, StartInv, checkBuffSize, NEW ms \in Nat, CheckBuffSize(ms)
    PROVE  /\ checkBuffSize' \in BOOLEAN
           /\ checkBufSizeCtr' <= MaxCheck
           /\ checkBuffSize' => checkBufSizeCtr' = checkBufSizeCtr + 1
  <1> DEFINE first == IF counter = 0 THEN ms ELSE firstVal
             n     == IF Stable(first, ms) THEN counter + 1 ELSE 0
             ctr   == checkBufSizeCtr + 1
             done  == n >= 6 \/ TimeIsUp(ctr)
  <1>1. /\ checkBuffSize' = ~done
        /\ done => checkBufSizeCtr' = 0
        /\ ~done => checkBufSizeCtr' = ctr
    BY DEF CheckBuffSize
  <1>2. ~done => ctr <= MaxCheck
    BY FarEndAssumption DEF TimeIsUp, FarInv
  <1> HIDE DEF done
  <1>3. CASE done
    <2>1. checkBuffSize' = FALSE /\ checkBufSizeCtr' = 0
      BY <1>1, <1>3
    <2>2. 0 <= MaxCheck
      BY FarEndAssumption
    <2>3. QED BY <2>1, <2>2
  <1>4. CASE ~done
    <2>1. checkBuffSize' = TRUE /\ checkBufSizeCtr' = ctr /\ ctr <= MaxCheck
      BY <1>1, <1>2, <1>4
    <2>2. QED BY <2>1
  <1>5. QED BY <1>3, <1>4

LEMMA NextStartInv == IInv /\ StartInv /\ [Next]_vars => StartInv'
  <1> SUFFICES ASSUME IInv, StartInv, [Next]_vars PROVE StartInv'
    OBVIOUS
  <1>1. CASE InitAecm
    BY <1>1, FarEndAssumption DEF InitAecm, StartInv
  <1>2. CASE BufferFarend
    BY <1>2 DEF BufferFarend, StartInv, startup
  <1>3. CASE NextFrame
    BY <1>3 DEF NextFrame, StartInv, startup
  <1>4. ASSUME NEW delay \in Delay, ProcessStartup(delay) PROVE StartInv'
    <2>1. SoundCardBuf(delay) \in Nat
      BY SoundCardBufBounds, FarEndAssumption
    <2>2. frame' = frame /\ frame = 0 /\ ECstartup' = (checkBuffSize' \/ ~Enough(bufSizeStart'))
      BY <1>4 DEF ProcessStartup
    <2>3. CASE checkBuffSize
      <3>1. CheckBuffSize(SoundCardBuf(delay))
        BY <1>4, <2>3 DEF ProcessStartup
      <3>2. checkBuffSize' \in BOOLEAN /\ checkBufSizeCtr' <= MaxCheck
        BY <2>1, <2>3, <3>1, CheckBuffSizeSteps DEF IInv
      <3>3. QED BY <2>2, <3>2 DEF StartInv
    <2>4. CASE ~checkBuffSize
      BY <1>4, <2>2, <2>4 DEF ProcessStartup, StartInv, startup
    <2>5. QED BY <2>3, <2>4
  <1>5. ASSUME NEW delay \in Delay, Process(delay) PROVE StartInv'
    BY <1>5 DEF Process, StartInv, startup
  <1>6. CASE Settle
    BY <1>6 DEF Settle, StartInv, startup
  <1>7. CASE UNCHANGED vars
    BY <1>7 DEF vars, farVars, StartInv, startup
  <1>8. QED BY <1>1, <1>2, <1>3, <1>4, <1>5, <1>6, <1>7 DEF Next, ProcessStep

LEMMA QuotientAtLeast ==
    ASSUME NEW x \in Nat, NEW p \in Nat \ {0}, NEW q \in Nat, q * p <= x
    PROVE  q <= x \div p
  <1>1. x \div p \in Nat /\ x < (x \div p) * p + p
    BY WholeBlocks
  <1> DEFINE r == x \div p
  <1> HIDE DEF r
  <1>2. r \in Nat /\ x < r * p + p
    BY <1>1 DEF r
  <1>3. ASSUME r < q PROVE FALSE
    <2>1. PICK d \in Nat : q = r + 1 + d
      <3>1. q - (r + 1) \in Nat /\ q = r + 1 + (q - (r + 1))
        BY <1>2, <1>3
      <3>2. QED BY <3>1
    <2>2. q * p = r * p + p + d * p
      BY <1>2, <2>1
    <2>3. d * p \in Nat /\ r * p \in Nat
      BY <1>2, <2>1
    <2>4. QED BY <1>2, <2>2, <2>3
  <1>4. q <= r
    BY <1>2, <1>3
  <1>5. QED BY <1>4 DEF r

\* A far-end call brings at least one frame, if there is room for it.
LEMMA FarFrameCounts ==
    ASSUME IInv, NEW f, f = AtMost(farendBuf + mult * FRAME_LEN, kBufSizeSamp),
           farendBuf \div FRAME_LEN < BUF_SIZE_FRAMES
    PROVE  farendBuf \div FRAME_LEN + 1 <= f \div FRAME_LEN
  <1> DEFINE q == farendBuf \div FRAME_LEN
  <1>1. farendBuf \in Nat /\ mult \in {1, 2} /\ FRAME_LEN \in Nat \ {0} /\ BUF_SIZE_FRAMES \in Nat
    BY BufferSize, FramesAssumption, FarEndAssumption DEF IInv, FarInv
  <1>2. q \in Nat /\ q * FRAME_LEN <= farendBuf /\ q * FRAME_LEN \in Nat
    BY <1>1, WholeBlocks
  <1> HIDE DEF q
  <1>3. (q + 1) * FRAME_LEN = q * FRAME_LEN + FRAME_LEN
    BY <1>1, <1>2
  <1>4. (q + 1) * FRAME_LEN <= kBufSizeSamp
    <2>1. PICK d \in Nat : BUF_SIZE_FRAMES = q + 1 + d
      <3>1. BUF_SIZE_FRAMES - (q + 1) \in Nat
        BY <1>1, <1>2 DEF q
      <3>2. QED BY <1>1, <1>2, <3>1
    <2>2. BUF_SIZE_FRAMES * FRAME_LEN = (q + 1) * FRAME_LEN + d * FRAME_LEN
      BY <1>1, <1>2, <2>1
    <2>3. d * FRAME_LEN \in Nat /\ (q + 1) * FRAME_LEN \in Nat
      BY <1>1, <1>2, <2>1
    <2>4. QED BY <2>2, <2>3 DEF kBufSizeSamp
  <1>5. mult * FRAME_LEN \in Nat /\ mult * FRAME_LEN >= FRAME_LEN
    BY <1>1
  <1>6. f \in Nat /\ (q + 1) * FRAME_LEN <= f
    BY <1>1, <1>2, <1>3, <1>4, <1>5, BufferSize DEF AtMost
  <1>7. q + 1 \in Nat
    BY <1>2
  <1>8. QED BY <1>1, <1>6, <1>7, QuotientAtLeast DEF q

(***************************************************************************)
(* The start-up of echo control makes progress, for the delays and sizes   *)
(* of the code as for any others (echo_control_mobile.c:310-362): after at *)
(* most MaxCheck + 1 near-end calls the far end to wait for is fixed, it   *)
(* fits in the buffer, each far-end call brings it nearer and the next     *)
(* near-end call after that ends the start-up.  With both streams going on *)
(* this is why StartupEnds holds.                                          *)
(***************************************************************************)
THEOREM StartupMakesProgress == Spec => [][StartupAdvances]_vars
  <1>1. Init => StartInv
    BY FarEndAssumption DEF Init, FarInit, StartInv
  <1>2. IInv /\ IInv' /\ StartInv /\ StartInv' /\ [Next]_vars => [StartupAdvances]_vars
    <2> SUFFICES ASSUME IInv, IInv', StartInv, StartInv', Next,
                        ECstartup, ECstartup', ~InitAecm
                 PROVE  StartupAdvances
      BY DEF StartupAdvances
    <2>1. /\ farendBuf \in Nat /\ bufSizeStart \in 0 .. BUF_SIZE_FRAMES
          /\ checkBufSizeCtr \in Nat /\ FRAME_LEN \in Nat \ {0}
          /\ farendBuf' \in Nat /\ bufSizeStart' \in Nat
      BY BufferSize, FramesAssumption, FarEndAssumption DEF IInv, FarInv, kBufSizeSamp
    <2>2. farendBuf \div FRAME_LEN \in Nat /\ farendBuf' \div FRAME_LEN \in Nat
      <3>1. \A a \in Nat, b \in Nat \ {0} : a \div b \in Nat
        OBVIOUS
      <3>2. QED BY <2>1, <3>1
    <2> DEFINE q == farendBuf \div FRAME_LEN
               r == farendBuf' \div FRAME_LEN
    <2>3. /\ FramesMissing = AtLeast(bufSizeStart - q, 0) /\ q \in Nat
          /\ FramesMissing' = AtLeast(bufSizeStart' - r, 0) /\ r \in Nat
      BY <2>2 DEF FramesMissing
    <2> HIDE DEF q, r
    <2>4. FramesMissing \in Nat /\ CallsLeft \in Nat
      BY <2>1, <2>3, FarEndAssumption DEF AtLeast, CallsLeft, StartInv
    <2>5. frame = 0
      BY DEF StartInv
    <2>6. CASE BufferFarend
      <3>1. /\ farendBuf' = AtMost(farendBuf + mult * FRAME_LEN, kBufSizeSamp)
            /\ UNCHANGED startup /\ turn' = "near"
        BY <2>6 DEF BufferFarend
      <3>2. CallsLeft' = CallsLeft /\ bufSizeStart' = bufSizeStart
        BY <3>1 DEF startup, CallsLeft
      <3>3. q < BUF_SIZE_FRAMES => q + 1 <= r
        BY <3>1, FarFrameCounts DEF q, r
      <3>4. FramesMissing' < FramesMissing \/ FramesMissing = 0
        BY <2>1, <2>3, <3>2, <3>3, FarEndAssumption DEF AtLeast
      <3>5. FramesMissing' <= FramesMissing
        <4>1. CASE FramesMissing = 0
          <5>1. bufSizeStart <= q
            BY <2>1, <2>3, <4>1 DEF AtLeast
          <5>2. bufSizeStart <= r
            <6>1. CASE q < BUF_SIZE_FRAMES
              BY <2>1, <2>3, <3>3, <5>1, <6>1
            <6>2. CASE BUF_SIZE_FRAMES <= q
              <7>1. kBufSizeSamp <= farendBuf
                <8>1. BUF_SIZE_FRAMES * FRAME_LEN <= q * FRAME_LEN
                  BY <2>1, <2>3, <6>2, FarEndAssumption
                <8>2. q * FRAME_LEN <= farendBuf /\ q * FRAME_LEN \in Nat
                  BY <2>1, WholeBlocks DEF q
                <8>3. QED BY <2>1, <8>1, <8>2, BufferSize DEF kBufSizeSamp
              <7>2. farendBuf = kBufSizeSamp
                BY <2>1, <7>1, BufferSize DEF IInv, FarInv
              <7>3. farendBuf' = farendBuf
                <8>1. mult * FRAME_LEN \in Nat
                  BY <2>1 DEF IInv, FarInv
                <8>2. QED BY <2>1, <3>1, <7>2, <8>1, BufferSize DEF AtMost
              <7>4. r = q
                BY <7>3 DEF q, r
              <7>5. QED BY <5>1, <7>4
            <6>3. QED BY <2>1, <2>3, <6>1, <6>2, FarEndAssumption
          <5>3. QED BY <2>1, <2>3, <3>2, <4>1, <5>2 DEF AtLeast
        <4>2. CASE FramesMissing # 0
          BY <2>1, <2>3, <3>2, <3>4, <4>2 DEF AtLeast
        <4>3. QED BY <4>1, <4>2
      <3>6. ~\E delay \in Delay : ProcessStartup(delay)
        BY <3>1 DEF ProcessStartup
      <3>7. QED BY <2>4, <3>2, <3>4, <3>5, <3>6 DEF StartupAdvances
    <2>7. ASSUME NEW delay \in Delay, ProcessStartup(delay) PROVE StartupAdvances
      <3>1. /\ ECstartup' = (checkBuffSize' \/ ~Enough(bufSizeStart')) /\ turn' = "far"
            /\ farendBuf' = farendBuf
        BY <2>7 DEF ProcessStartup
      <3>2. ~BufferFarend
        BY <3>1 DEF BufferFarend
      <3>3. CASE checkBuffSize
        <4>1. CheckBuffSize(SoundCardBuf(delay)) /\ SoundCardBuf(delay) \in Nat
          BY <2>7, <3>3, SoundCardBufBounds, FarEndAssumption DEF ProcessStartup
        <4>2. checkBuffSize' => checkBufSizeCtr' = checkBufSizeCtr + 1
          BY <3>3, <4>1, CheckBuffSizeSteps DEF IInv
        <4>3. CallsLeft = MaxCheck + 1 - checkBufSizeCtr /\ CallsLeft > 0
          BY <2>1, <3>3, FarEndAssumption DEF CallsLeft, StartInv
        <4>4. CallsLeft' < CallsLeft
          <5>1. CASE checkBuffSize'
            BY <2>1, <4>2, <4>3, <5>1, FarEndAssumption DEF CallsLeft
          <5>2. CASE ~checkBuffSize'
            BY <4>3, <5>2 DEF CallsLeft
          <5>3. QED BY <5>1, <5>2
        <4>5. CallsLeft' \in Int
          BY <2>1, <4>2, FarEndAssumption DEF CallsLeft
        <4>6. QED BY <2>4, <3>2, <4>3, <4>4, <4>5 DEF StartupAdvances
      <3>4. CASE ~checkBuffSize
        <4>1. UNCHANGED startup
          BY <2>7, <3>4 DEF ProcessStartup
        <4>2. CallsLeft = 0 /\ CallsLeft' = 0 /\ bufSizeStart' = bufSizeStart
          BY <3>4, <4>1 DEF startup, CallsLeft
        <4>3. ~Enough(bufSizeStart)
          BY <3>1, <3>4, <4>1 DEF startup
        <4>4. FramesMissing > 0
          BY <2>1, <2>3, <4>3 DEF Enough, AtLeast, q
        <4>5. FramesMissing' = FramesMissing
          BY <3>1, <4>2 DEF FramesMissing
        <4>6. QED BY <2>4, <3>2, <4>2, <4>4, <4>5 DEF StartupAdvances
      <3>5. QED BY <3>3, <3>4
    <2>8. CASE Settle
      <3>1. UNCHANGED <<startup, farendBuf>> /\ steady' = TRUE /\ steady # TRUE
        BY <2>8 DEF Settle
      <3>2. CallsLeft' = CallsLeft /\ FramesMissing' = FramesMissing
        BY <3>1 DEF startup, CallsLeft, FramesMissing
      <3>3. ~BufferFarend /\ ~\E delay \in Delay : ProcessStartup(delay)
        BY <3>1 DEF BufferFarend, ProcessStartup
      <3>4. QED BY <2>4, <3>2, <3>3 DEF StartupAdvances
    <2>9. ~NextFrame /\ ~\E delay \in Delay : Process(delay)
      BY <2>5 DEF NextFrame, Process
    <2>10. QED BY <2>6, <2>7, <2>8, <2>9 DEF Next, ProcessStep
  <1>3. QED BY <1>1, <1>2, NextStartInv, Invariance, PTL DEF Spec
=============================================================================
