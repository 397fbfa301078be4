----------------------------- MODULE AecmFrames -----------------------------
(***************************************************************************)
(* aecm/aecm_core.c, WebRtcAecm_ProcessFrame: frames of FRAME_LEN samples  *)
(* come in, blocks of PART_LEN are processed, frames go out.  The far end, *)
(* the near end and the output each pass a ring buffer of FRAME_LEN +      *)
(* PART_LEN samples (RingBuffer; here the number of readable samples, the  *)
(* variable unread of DelayLine), and the far end an array of FAR_BUF_LEN  *)
(* samples before that.  What is computed in a block is left out; a block  *)
(* never fails, for the spectra have the size and the range the delay      *)
(* estimator asks for.                                                     *)
(***************************************************************************)
EXTENDS Integers

CONSTANTS FRAME_LEN, PART_LEN, FAR_BUF_LEN

ASSUME FramesAssumption == /\ FRAME_LEN \in Nat \ {0}
                           /\ PART_LEN \in Nat \ {0}
                           /\ FAR_BUF_LEN \in Nat
                           /\ FRAME_LEN <= FAR_BUF_LEN

VARIABLES farBufWritePos, farBufReadPos,
          farFrameBuf, nearNoisyFrameBuf, nearCleanFrameBuf, outFrameBuf,
          ns,         \* noise suppression is on: a clean near end is given
          stuffed     \* the samples of silence put before the output so far

farArray == <<farBufWritePos, farBufReadPos>>
frameBufs == <<farFrameBuf, nearNoisyFrameBuf, nearCleanFrameBuf, outFrameBuf>>
framesVars == <<farArray, frameBufs, ns, stuffed>>

Capacity == FRAME_LEN + PART_LEN

AtMost(n, bound) == IF n < bound THEN n ELSE bound
AtLeast(n, bound) == IF n > bound THEN n ELSE bound

\* WebRtc_WriteBuffer takes what fits, WebRtc_ReadBuffer what is there.
Written(n, k) == AtMost(n + k, Capacity)
Taken(n, k) == AtLeast(n - k, 0)

FramesInit == /\ farBufWritePos = 0 /\ farBufReadPos = 0
              /\ farFrameBuf = 0 /\ outFrameBuf = 0
              /\ nearNoisyFrameBuf = 0 /\ nearCleanFrameBuf = 0
              /\ ns \in BOOLEAN
              /\ stuffed = 0

\* WebRtcAecm_InitCore.
InitCore == /\ farBufWritePos' = 0 /\ farBufReadPos' = 0
            /\ farFrameBuf' = 0 /\ outFrameBuf' = 0
            /\ nearNoisyFrameBuf' = 0 /\ nearCleanFrameBuf' = 0
            /\ stuffed' = 0
            /\ UNCHANGED ns

\* WebRtcAecm_BufferFarFrame: the write position may stop at the end.
BufferFarFrame == farBufWritePos' = IF farBufWritePos + FRAME_LEN > FAR_BUF_LEN
                                    THEN farBufWritePos + FRAME_LEN - FAR_BUF_LEN
                                    ELSE farBufWritePos + FRAME_LEN

\* Where WebRtcAecm_FetchFarFrame begins to read.  The delay it is given is
\* aecmCore->knownDelay, which nothing sets but InitCore.
FetchFrom == IF farBufReadPos > FAR_BUF_LEN - 1 THEN farBufReadPos - FAR_BUF_LEN
             ELSE farBufReadPos

\* Faulty variant: after a wrap the whole frame is counted again.
FetchFarFrame_Whole == farBufReadPos' = IF FetchFrom + FRAME_LEN > FAR_BUF_LEN
                                        THEN FRAME_LEN ELSE FetchFrom + FRAME_LEN

FetchFarFrame == farBufReadPos' = IF FetchFrom + FRAME_LEN > FAR_BUF_LEN
                                  THEN FetchFrom + FRAME_LEN - FAR_BUF_LEN
                                  ELSE FetchFrom + FRAME_LEN

\* The samples in whole blocks that the loop of ProcessFrame passes on.
InBlocks == (Written(farFrameBuf, FRAME_LEN) \div PART_LEN) * PART_LEN

\* Faulty variant: the output is always filled up by a whole frame.
Stuffing_Frame(size) == IF size < FRAME_LEN THEN AtMost(FRAME_LEN, Capacity - size) ELSE 0

\* How far the read position of the output goes back into old samples.
Stuffing(size) == IF size < FRAME_LEN THEN AtMost(FRAME_LEN - size, Capacity - size) ELSE 0

\* Faulty variant: the clean near end is read only when the loop has ended.
CleanAfter_Late(n) == Taken(Written(n, FRAME_LEN), PART_LEN)

\* The clean near end, when there is one, after the loop.
CleanAfter(n) == Taken(Written(n, FRAME_LEN), InBlocks)

ProcessFrame ==
    LET size == AtMost(outFrameBuf + InBlocks, Capacity)
    IN  /\ BufferFarFrame
        /\ FetchFarFrame
        /\ farFrameBuf' = Written(farFrameBuf, FRAME_LEN) - InBlocks
        /\ nearNoisyFrameBuf' = Taken(Written(nearNoisyFrameBuf, FRAME_LEN), InBlocks)
        /\ nearCleanFrameBuf' = IF ns THEN CleanAfter(nearCleanFrameBuf) ELSE nearCleanFrameBuf
        /\ outFrameBuf' = Taken(size + Stuffing(size), FRAME_LEN)
        /\ stuffed' = stuffed + Stuffing(size)
        /\ UNCHANGED ns

FramesNext == ProcessFrame \/ InitCore

FramesSpec == FramesInit /\ [][FramesNext]_framesVars
-----------------------------------------------------------------------------
FramesTypeOK == /\ farBufWritePos \in 0 .. FAR_BUF_LEN
                /\ farBufReadPos \in 0 .. FAR_BUF_LEN
                /\ \A n \in {farFrameBuf, nearNoisyFrameBuf, nearCleanFrameBuf, outFrameBuf} :
                       n \in 0 .. Capacity
                /\ ns \in BOOLEAN
                /\ stuffed \in Nat

(***************************************************************************)
(* The frame just buffered is the one fetched (aecm_core.c:567), though    *)
(* the two positions wrap by different rules: they differ by nothing or by *)
(* the whole array.                                                        *)
(***************************************************************************)
FetchesBufferedFrame == farBufReadPos - farBufWritePos \in {-FAR_BUF_LEN, 0, FAR_BUF_LEN}

(***************************************************************************)
(* The conversion loses nothing and delays by less than a block: the next  *)
(* frame and the blocks it completes fit in the buffers (the counts the    *)
(* writes at aecm_core.c:572 and 622 return are not looked at), and what   *)
(* was stuffed before the output is exactly what waits in the buffers,     *)
(* less than PART_LEN samples however long the stream is.                  *)
(***************************************************************************)
LatencyBound == /\ farFrameBuf + FRAME_LEN <= Capacity
                /\ outFrameBuf + InBlocks <= Capacity
                /\ farFrameBuf + outFrameBuf = stuffed
                /\ stuffed < PART_LEN

(***************************************************************************)
(* Far end, noisy and clean near end are cut into blocks at the same       *)
(* samples ("synchronized far and near frames", aecm_core.c:570).          *)
(***************************************************************************)
NearInStep == /\ nearNoisyFrameBuf = farFrameBuf
              /\ ns => nearCleanFrameBuf = farFrameBuf
=============================================================================
