----------------------------- MODULE AecmFarEnd -----------------------------
(***************************************************************************)
(* aecm/echo_control_mobile.c: the far-end buffer of AECM.  It waits with  *)
(* echo control until the delay the caller reports is stable and enough    *)
(* far end is buffered; from then on it steers the amount of far end in    *)
(* the buffer by moving its read position: back when the buffer holds much *)
(* less than the sound card (DelayComp), forward when it holds more        *)
(* (EstBufDelay).  Both calls are made with crit_capture_ held; the frames *)
(* of one Process are separate steps with no other call between them.      *)
(*                                                                         *)
(* filtDelay, knownDelay and timeForDelayChange are left out: they only    *)
(* determine knownDelay, which is used by the AEC_DEBUG output alone.  A   *)
(* call has mult frames (80 samples at 8 kHz, 160 at 16 kHz), as the APM   *)
(* passes them, so that nBlocks10ms is 1.                                  *)
(***************************************************************************)
EXTENDS AecmFrames

CONSTANTS BUF_SIZE_FRAMES, \* 50
          MaxDelay,        \* the largest delay taken as it is: 500 ms
          MaxCheck,        \* the calls an unstable delay is waited for: 50
          Delay            \* the delays the caller reports, in ms

ASSUME FarEndAssumption == /\ BUF_SIZE_FRAMES \in Nat \ {0}
                           /\ MaxDelay \in Nat
                           /\ MaxCheck \in Nat
                           /\ Delay \subseteq Int

VARIABLES farendBuf,      \* readable samples of the far-end ring buffer
          mult,           \* the sampling rate in units of 8 kHz
          msInSndCardBuf, bufSizeStart,
          checkBuffSize, checkBufSizeCtr, counter, sum, firstVal,
          ECstartup,
          frame,          \* frames the running Process still has to process
          adjusted,       \* what the last step did to the read position
          steady,         \* from now on: one far frame per near one, same delay
          turn            \* whose frame comes next when steady

startup == <<bufSizeStart, checkBuffSize, checkBufSizeCtr, counter, sum, firstVal>>
farVars == <<farendBuf, mult, msInSndCardBuf, startup, ECstartup, frame, adjusted, steady, turn>>
vars == <<framesVars, farVars>>

kBufSizeSamp == BUF_SIZE_FRAMES * FRAME_LEN
nSampSndCard == msInSndCardBuf * 8 * mult

\* WebRtc_MoveReadPtr by m, seen by the number of readable samples.
Moved(n, m) == AtMost(AtLeast(n - m, 0), kBufSizeSamp)

FarInit == /\ farendBuf = 0 /\ mult \in {1, 2}
           /\ msInSndCardBuf = 0 /\ bufSizeStart = 0
           /\ checkBuffSize = TRUE /\ checkBufSizeCtr = 0
           /\ counter = 0 /\ sum = 0 /\ firstVal = 0
           /\ ECstartup = TRUE
           /\ frame = 0 /\ adjusted = "no" /\ steady = FALSE /\ turn = "far"

Init == FramesInit /\ FarInit

\* WebRtcAecm_Init with 8000 or 16000 Hz; msInSndCardBuf is not among what it sets.
InitAecm == /\ frame = 0 /\ ~steady
            /\ InitCore
            /\ farendBuf' = 0 /\ mult' \in {1, 2}
            /\ bufSizeStart' = 0
            /\ checkBuffSize' = TRUE /\ checkBufSizeCtr' = 0
            /\ counter' = 0 /\ sum' = 0 /\ firstVal' = 0
            /\ ECstartup' = TRUE
            /\ adjusted' = "no"
            /\ UNCHANGED <<msInSndCardBuf, frame, steady, turn>>

\* Faulty variant: the buffer is held to the sound card to within a frame.
MustStuff_Tight == nSampSndCard - farendBuf > FRAME_LEN

\* WebRtcAecm_DelayComp: the difference is above the largest known delay.
MustStuff == nSampSndCard - farendBuf > FAR_BUF_LEN - FRAME_LEN * mult

DelayComp(n) == Moved(n, -AtMost(AtLeast((nSampSndCard \div 2) - n, FRAME_LEN), 10 * FRAME_LEN))

BufferFarend ==
    LET stuff == ~ECstartup /\ MustStuff
        n == IF stuff THEN DelayComp(farendBuf) ELSE farendBuf
    IN  /\ frame = 0
        /\ steady => turn = "far"
        /\ farendBuf' = AtMost(n + mult * FRAME_LEN, kBufSizeSamp)
        /\ adjusted' = IF stuff THEN "back" ELSE "no"
        /\ turn' = "near"
        /\ UNCHANGED <<framesVars, mult, msInSndCardBuf, startup, ECstartup, frame, steady>>

\* |firstVal - ms| < max(0.2 ms, 8)
Stable(first, ms) == LET d == IF first > ms THEN first - ms ELSE ms - first
                     IN  5 * d < ms \/ d < 8

\* Faulty variant: the size is not bounded by what the buffer can hold.
StartSize_NoLimit(total, n) == (3 * total * mult) \div (n * 40)

\* Three quarters of the average delay, in frames.
StartSize(total, n) == AtMost((3 * total * mult) \div (n * 40), BUF_SIZE_FRAMES)

\* "don't disable echocanceller for more than 0.5 sec"
TimeIsUp(ctr) == ctr > MaxCheck

\* The check that the delay is stable for six calls.  When it is done its four
\* counters are not read again before InitAecm sets them, and are forgotten.
CheckBuffSize(ms) ==
    LET first == IF counter = 0 THEN ms ELSE firstVal
        same  == Stable(first, ms)
        n     == IF same THEN counter + 1 ELSE 0
        total == (IF counter = 0 THEN 0 ELSE sum) + IF same THEN ms ELSE 0
        ctr   == checkBufSizeCtr + 1
        done  == n >= 6 \/ TimeIsUp(ctr)
    IN  /\ checkBuffSize' = ~done
        /\ IF done THEN firstVal' = 0 /\ counter' = 0 /\ sum' = 0 /\ checkBufSizeCtr' = 0
           ELSE firstVal' = first /\ counter' = n /\ sum' = total /\ checkBufSizeCtr' = ctr
        /\ bufSizeStart' = IF TimeIsUp(ctr) THEN StartSize(ms, 1)
                           ELSE IF n >= 6 THEN StartSize(total, n) ELSE bufSizeStart

\* The delay, clamped, plus the 10 ms of this call.
SoundCardBuf(delay) == AtMost(AtLeast(delay, 0), MaxDelay) + 10

\* Faulty variant: one frame more than bufSizeStart is waited for.
Enough_OneMore(start) == farendBuf \div FRAME_LEN > start

\* The far end has filled the buffer up to bufSizeStart frames.
Enough(start) == farendBuf \div FRAME_LEN >= start

\* Process while echo control is off: the near end passes unchanged.
ProcessStartup(delay) ==
    /\ frame = 0 /\ ECstartup
    /\ steady => turn = "near" /\ SoundCardBuf(delay) = msInSndCardBuf
    /\ msInSndCardBuf' = SoundCardBuf(delay)
    /\ IF checkBuffSize THEN CheckBuffSize(SoundCardBuf(delay)) ELSE UNCHANGED startup
    /\ ECstartup' = (checkBuffSize' \/ ~Enough(bufSizeStart'))
    /\ farendBuf' = IF ~ECstartup' /\ farendBuf \div FRAME_LEN > bufSizeStart'
                    THEN bufSizeStart' * FRAME_LEN ELSE farendBuf
    /\ adjusted' = "no"
    /\ turn' = "far"
    /\ UNCHANGED <<framesVars, mult, frame, steady>>

\* Process once echo control is on; its frames follow.
Process(delay) == /\ frame = 0 /\ ~ECstartup
                  /\ steady => turn = "near" /\ SoundCardBuf(delay) = msInSndCardBuf
                  /\ msInSndCardBuf' = SoundCardBuf(delay)
                  /\ frame' = mult
                  /\ adjusted' = "no"
                  /\ UNCHANGED <<framesVars, farendBuf, mult, startup, ECstartup, steady, turn>>

\* One frame: the far end is read, or its last frame used again; after the last
\* one EstBufDelay moves the read position when the buffer is ahead.
NextFrame == LET left == IF farendBuf >= FRAME_LEN THEN farendBuf - FRAME_LEN ELSE farendBuf
                 skip == frame = 1 /\ nSampSndCard - left < FRAME_LEN
             IN  /\ frame > 0
                 /\ ProcessFrame
                 /\ frame' = frame - 1
                 /\ farendBuf' = IF skip THEN Moved(left, FRAME_LEN) ELSE left
                 /\ adjusted' = IF skip THEN "forward"
                                ELSE IF farendBuf < FRAME_LEN THEN "repeated" ELSE "no"
                 /\ turn' = "far"
                 /\ UNCHANGED <<mult, msInSndCardBuf, startup, ECstartup, steady>>

\* The caller settles down, as one that processes file after file or a device
\* with a constant delay does (MainActivity.java:344, EchoActivity.java:153).
Settle == /\ ~steady /\ frame = 0 /\ msInSndCardBuf > 0
          /\ steady' = TRUE
          /\ UNCHANGED <<framesVars, farendBuf, mult, msInSndCardBuf, startup, ECstartup,
                         frame, adjusted, turn>>

ProcessStep == NextFrame \/ \E delay \in Delay : ProcessStartup(delay) \/ Process(delay)

Next == InitAecm \/ BufferFarend \/ ProcessStep \/ Settle

\* Both streams go on.
Spec == Init /\ [][Next]_vars /\ WF_vars(BufferFarend) /\ WF_vars(ProcessStep)
-----------------------------------------------------------------------------
TypeOK == /\ FramesTypeOK
          /\ farendBuf \in 0 .. kBufSizeSamp
          /\ bufSizeStart \in 0 .. BUF_SIZE_FRAMES
          /\ checkBufSizeCtr \in 0 .. MaxCheck + 1 /\ counter \in 0 .. 5
          /\ msInSndCardBuf \in {0} \cup 10 .. MaxDelay + 10

\* AECM has been initialized and has not processed a near frame since.
Fresh == ECstartup /\ checkBuffSize /\ checkBufSizeCtr = 0

(***************************************************************************)
(* Echo control is not kept waiting: when both streams go on and AECM is   *)
(* not initialized again and again, it starts, however the delay varies    *)
(* ("for really bad sound cards", echo_control_mobile.c:347).  It waits    *)
(* for bufSizeStart frames of far end, which the buffer must be able to    *)
(* hold.                                                                   *)
(***************************************************************************)
StartupEnds == <>[]~Fresh => <>[]~ECstartup

(***************************************************************************)
(* At 8 kHz the two corrections come to rest: with one far frame for each  *)
(* near one and a constant delay a time comes after which no far end is    *)
(* repeated or skipped, whatever came before (DelayComp, line 625, and     *)
(* EstBufDelay, line 576, correct by the same frame in opposite            *)
(* directions).  At 16 kHz they never do when the delay keeps the buffer   *)
(* at the edge of stuffing: each undoes what the other has done.           *)
(***************************************************************************)
DelaySettles == <>[](steady /\ mult = 1) => <>[](adjusted = "no")
=============================================================================
