------------------------- MODULE FrameChunkerProofs -------------------------
(***************************************************************************)
(* Proofs about FrameChunker, for every frame length, buffer length and    *)
(* set of music chunk lengths.                                             *)
(***************************************************************************)
EXTENDS FrameChunker, SequenceTheorems, TLAPS

\* Both streams have been cut into the same number of whole frames.
SentFrames == /\ Len(sentFar) = Len(sent)
              /\ \E k \in Nat : Len(sent) = k * sampleRate_10ms

\* The loop never leaves the arrays, and the rests are null while it runs and
\* after it has failed.
LoopInv == /\ pc = "frame" => /\ i <= LoopCount(mergeShort)
                              /\ i * sampleRate_10ms <= Len(mergeBGMShort)
           /\ pc \in {"frame", "short", "failed"} => /\ mRightSrcData = <<>>
                                                     /\ mRightBGMData = <<>>

IInv == /\ TypeOK /\ SamplesInOrder /\ FailsWhenShort
        /\ SentFrames /\ LoopInv
        /\ pc = "idle" => Enough

-----------------------------------------------------------------------------
\* The number of whole frames in n samples.
LEMMA WholeFrames ==
    ASSUME NEW n \in Nat
    PROVE  /\ n \div sampleRate_10ms \in Nat
           /\ (n \div sampleRate_10ms) * sampleRate_10ms <= n
           /\ n < (n \div sampleRate_10ms) * sampleRate_10ms + sampleRate_10ms
  BY FrameAssumption

\* A quotient is known from the multiples that enclose the dividend.
LEMMA QuotientIs ==
    ASSUME NEW k \in Nat, NEW r \in Nat, r < sampleRate_10ms
    PROVE  (k * sampleRate_10ms + r) \div sampleRate_10ms = k
  BY FrameAssumption

\* Where the next frame starts and ends.
LEMMA NextFrame ==
    ASSUME NEW n \in Nat
    PROVE  /\ n * sampleRate_10ms \in Nat
           /\ (n + 1) * sampleRate_10ms = n * sampleRate_10ms + sampleRate_10ms
           /\ \A m \in Nat : n < m => (n + 1) * sampleRate_10ms <= m * sampleRate_10ms
           /\ \A m \in Nat : n <= m => n * sampleRate_10ms <= m * sampleRate_10ms
  BY FrameAssumption

LEMMA Associative ==
    ASSUME NEW s \in Seq(Nat), NEW t \in Seq(Nat), NEW u \in Seq(Nat)
    PROVE  (s \o t) \o u = s \o (t \o u)
  BY ConcatAssociative, SMTT(20)

\* A stretch of an array, and what follows it.
LEMMA Cut ==
    ASSUME NEW s \in Seq(Nat), NEW m \in Nat, NEW n \in Nat, m <= n, n <= Len(s)
    PROVE  /\ SubSeq(s, m + 1, n) \in Seq(Nat)
           /\ Len(SubSeq(s, m + 1, n)) = n - m
           /\ SubSeq(s, n + 1, Len(s)) \in Seq(Nat)
           /\ Len(SubSeq(s, n + 1, Len(s))) = Len(s) - n
           /\ SubSeq(s, m + 1, n) \o SubSeq(s, n + 1, Len(s)) = SubSeq(s, m + 1, Len(s))
  <1>1. Len(s) \in Nat /\ \A k \in 1 .. Len(s) : s[k] \in Nat
    OBVIOUS
  <1>2. /\ SubSeq(s, m + 1, n) \in Seq(Nat)
        /\ Len(SubSeq(s, m + 1, n)) = n - m
    <2>1. /\ SubSeq(s, m + 1, n) \in Seq(Nat)
          /\ Len(SubSeq(s, m + 1, n)) = IF m + 1 <= n THEN n - (m + 1) + 1 ELSE 0
      BY <1>1, SubSeqProperties
    <2>2. QED BY <2>1
  <1>3. /\ SubSeq(s, n + 1, Len(s)) \in Seq(Nat)
        /\ Len(SubSeq(s, n + 1, Len(s))) = Len(s) - n
    <2>1. /\ SubSeq(s, n + 1, Len(s)) \in Seq(Nat)
          /\ Len(SubSeq(s, n + 1, Len(s)))
               = IF n + 1 <= Len(s) THEN Len(s) - (n + 1) + 1 ELSE 0
      BY <1>1, SubSeqProperties
    <2>2. QED BY <1>1, <2>1
  <1>4. SubSeq(s, m + 1, n) \o SubSeq(s, n + 1, Len(s)) = SubSeq(s, m + 1, Len(s))
    <2>1. /\ m + 1 \in 1 .. Len(s) + 1
          /\ n \in (m + 1) - 1 .. Len(s)
          /\ Len(s) \in n .. Len(s)
      BY <1>1
    <2>2. QED BY <2>1, ConcatAdjacentSubSeq, Zenon
  <1>5. QED BY <1>2, <1>3, <1>4, Zenon

\* One more frame handed on keeps a stream together.
LEMMA FrameMoves ==
    ASSUME NEW s \in Seq(Nat), NEW out \in Seq(Nat), NEW n \in Nat,
           HasFrame(s, n)
    PROVE  /\ out \o Frame(s, n) \in Seq(Nat)
           /\ Len(out \o Frame(s, n)) = Len(out) + sampleRate_10ms
           /\ (out \o Frame(s, n)) \o GetSRCRight(s, n + 1) = out \o GetSRCRight(s, n)
  <1> DEFINE a == n * sampleRate_10ms
             b == (n + 1) * sampleRate_10ms
  <1>1. a \in Nat /\ b \in Nat /\ b = a + sampleRate_10ms /\ b <= Len(s)
    BY NextFrame, FrameAssumption DEF HasFrame
  <1>2. /\ Frame(s, n) \in Seq(Nat)
        /\ Len(Frame(s, n)) = sampleRate_10ms
        /\ GetSRCRight(s, n + 1) \in Seq(Nat)
        /\ Frame(s, n) \o GetSRCRight(s, n + 1) = GetSRCRight(s, n)
    <2> HIDE DEF a, b
    <2>1. /\ SubSeq(s, a + 1, b) \in Seq(Nat)
          /\ Len(SubSeq(s, a + 1, b)) = sampleRate_10ms
          /\ SubSeq(s, b + 1, Len(s)) \in Seq(Nat)
          /\ SubSeq(s, a + 1, b) \o SubSeq(s, b + 1, Len(s)) = SubSeq(s, a + 1, Len(s))
      <3>1. a <= b /\ b - a = sampleRate_10ms
        BY <1>1, FrameAssumption
      <3>2. QED BY <1>1, <3>1, Cut, Zenon
    <2>2. /\ Frame(s, n) = SubSeq(s, a + 1, b)
          /\ GetSRCRight(s, n) = SubSeq(s, a + 1, Len(s))
          /\ GetSRCRight(s, n + 1) = SubSeq(s, b + 1, Len(s))
      BY DEF Frame, GetSRCRight, a, b
    <2>3. QED BY <2>1, <2>2
  <1>3. out \o Frame(s, n) \in Seq(Nat) /\ Len(out \o Frame(s, n)) = Len(out) + sampleRate_10ms
    BY <1>2, ConcatProperties
  <1>4. (out \o Frame(s, n)) \o GetSRCRight(s, n + 1)
          = out \o (Frame(s, n) \o GetSRCRight(s, n + 1))
    BY <1>2, Associative
  <1>5. QED BY <1>2, <1>3, <1>4
\* New samples join a stream at its end.
LEMMA NewSamples ==
    ASSUME NEW out \in Seq(Nat), NEW right \in Seq(Nat), NEW more \in Seq(Nat)
    PROVE  out \o GetSRCRight(Merge(right, more), 0) = (out \o right) \o more
  <1>1. right \o more \in Seq(Nat)
    BY ConcatProperties
  <1>2. GetSRCRight(right \o more, 0) = right \o more
    <2>1. 0 * sampleRate_10ms + 1 = 1
      BY FrameAssumption
    <2>2. SubSeq(right \o more, 1, Len(right \o more)) = right \o more
      BY <1>1, SubSeqFull
    <2>3. QED BY <2>1, <2>2 DEF GetSRCRight
  <1>3. out \o (right \o more) = (out \o right) \o more
    BY Associative
  <1>4. QED BY <1>1, <1>2, <1>3 DEF Merge

\* What a buffer delivers.
LEMMA BufferType ==
    ASSUME TypeOK, NEW n \in Nat, n <= BufferLen
    PROVE  /\ Buffer \in Seq(Nat) /\ Len(Buffer) = BufferLen
           /\ SubSeq(Buffer, 1, n) \in Seq(Nat)
  <1>1. Buffer \in Seq(Nat) /\ Len(Buffer) = BufferLen
    BY LengthAssumption DEF Buffer, TypeOK
  <1>2. \A k \in 1 .. n : Buffer[k] \in Nat
    BY <1>1, LengthAssumption
  <1>3. SubSeq(Buffer, 1, n) \in Seq(Nat)
    BY <1>2, SubSeqProperties
  <1>4. QED BY <1>1, <1>3

\* The first LoopCount frames lie within the array.
LEMMA WithinLoop ==
    ASSUME NEW s \in Seq(Nat), NEW n \in Nat, n <= LoopCount(s)
    PROVE  n * sampleRate_10ms \in Nat /\ n * sampleRate_10ms <= Len(s)
  <1>1. /\ LoopCount(s) \in Nat
        /\ LoopCount(s) * sampleRate_10ms \in Nat
        /\ LoopCount(s) * sampleRate_10ms <= Len(s)
    BY WholeFrames, FrameAssumption DEF LoopCount
  <1>2. n * sampleRate_10ms \in Nat /\ n * sampleRate_10ms <= LoopCount(s) * sampleRate_10ms
    <2> DEFINE m == LoopCount(s)
    <2>1. m \in Nat /\ n <= m
      BY <1>1
    <2> HIDE DEF m
    <2>2. n * sampleRate_10ms \in Nat /\ n * sampleRate_10ms <= m * sampleRate_10ms
      BY <2>1, NextFrame
    <2>3. QED BY <2>2 DEF m
  <1>3. QED BY <1>1, <1>2

\* The rest of a stream, and what has been given of it.
LEMMA RestOfStream ==
    ASSUME NEW s \in Seq(Nat), NEW out \in Seq(Nat), NEW n \in Nat,
           n * sampleRate_10ms <= Len(s)
    PROVE  /\ GetSRCRight(s, n) \in Seq(Nat)
           /\ Len(GetSRCRight(s, n)) = Len(s) - n * sampleRate_10ms
           /\ Len(out \o GetSRCRight(s, n)) = Len(out) + Len(s) - n * sampleRate_10ms
  <1> DEFINE a == n * sampleRate_10ms
  <1>1. a \in Nat /\ a <= Len(s)
    BY NextFrame
  <1>2. GetSRCRight(s, n) = SubSeq(s, a + 1, Len(s))
    BY DEF GetSRCRight
  <1> HIDE DEF a
  <1>3. SubSeq(s, a + 1, Len(s)) \in Seq(Nat) /\ Len(SubSeq(s, a + 1, Len(s))) = Len(s) - a
    <2>1. a <= a BY <1>1
    <2>2. QED BY <1>1, <2>1, Cut, Zenon
  <1>4. Len(out \o GetSRCRight(s, n)) = Len(out) + Len(GetSRCRight(s, n))
    BY <1>2, <1>3, ConcatProperties
  <1>5. /\ GetSRCRight(s, n) \in Seq(Nat)
        /\ Len(GetSRCRight(s, n)) = Len(s) - a
        /\ Len(out \o GetSRCRight(s, n)) = Len(out) + Len(s) - a
    BY <1>1, <1>2, <1>3, <1>4
  <1>6. QED BY <1>5 DEF a

\* While the loop runs, the frames of both streams agree with what was given.
LEMMA InLoop ==
    ASSUME IInv, pc = "frame"
    PROVE  /\ sent \o GetSRCRight(mergeShort, i) = given
           /\ sentFar \o GetSRCRight(mergeBGMShort, i) = givenFar
           /\ i * sampleRate_10ms \in Nat
           /\ i * sampleRate_10ms <= Len(mergeShort)
           /\ Len(given) = Len(sent) + Len(mergeShort) - i * sampleRate_10ms
           /\ Len(givenFar) = Len(sentFar) + Len(mergeBGMShort) - i * sampleRate_10ms
  <1>1. /\ sent \o GetSRCRight(mergeShort, i) = given
        /\ sentFar \o GetSRCRight(mergeBGMShort, i) = givenFar
    BY DEF IInv, SamplesInOrder, Rest, GetSRCRight
  <1>2. /\ i \in Nat /\ mergeShort \in Seq(Nat) /\ mergeBGMShort \in Seq(Nat)
        /\ sent \in Seq(Nat) /\ sentFar \in Seq(Nat)
        /\ i <= LoopCount(mergeShort)
        /\ i * sampleRate_10ms <= Len(mergeBGMShort)
    BY DEF IInv, TypeOK, LoopInv
  <1>3. i * sampleRate_10ms \in Nat /\ i * sampleRate_10ms <= Len(mergeShort)
    BY <1>2, WithinLoop
  <1>4. Len(sent \o GetSRCRight(mergeShort, i))
          = Len(sent) + Len(mergeShort) - i * sampleRate_10ms
    BY <1>2, <1>3, RestOfStream, Zenon
  <1>5. Len(sentFar \o GetSRCRight(mergeBGMShort, i))
          = Len(sentFar) + Len(mergeBGMShort) - i * sampleRate_10ms
    BY <1>2, RestOfStream, Zenon
  <1>6. QED BY <1>1, <1>3, <1>4, <1>5, Zenon

-----------------------------------------------------------------------------
LEMMA NothingIsEnough ==
    ASSUME given = <<>>, givenFar = <<>>
    PROVE  Enough
  <1>1. Len(given) = 0 /\ Len(givenFar) = 0
    OBVIOUS
  <1>2. 0 \div sampleRate_10ms = 0
    BY FrameAssumption
  <1>3. QED BY <1>1, <1>2, FrameAssumption DEF Enough

LEMMA InitIInv == Init => IInv
  <1> SUFFICES ASSUME Init PROVE IInv
    OBVIOUS
  <1>1. TypeOK
    BY FrameAssumption DEF Init, TypeOK
  <1>2. SamplesInOrder
    <2>1. <<>> \o <<>> = <<>>
      OBVIOUS
    <2>2. QED BY <2>1 DEF Init, SamplesInOrder, Rest
  <1>3. Enough
    BY NothingIsEnough DEF Init
  <1>4. FailsWhenShort /\ LoopInv
    BY DEF Init, FailsWhenShort, LoopInv
  <1>5. SentFrames
    <2>1. Len(sent) = 0 * sampleRate_10ms /\ Len(sentFar) = Len(sent)
      BY FrameAssumption DEF Init
    <2>2. QED BY <2>1 DEF SentFrames
  <1>6. QED BY <1>1, <1>2, <1>3, <1>4, <1>5 DEF IInv

LEMMA BeginIInv == IInv /\ Begin => IInv'
  <1> SUFFICES ASSUME IInv, Begin PROVE IInv'
    OBVIOUS
  <1>1. TypeOK'
    <2>1. /\ pc' = "read"
          /\ UNCHANGED <<mRightSrcData, mRightBGMData, mergeShort, mergeBGMShort, i>>
      BY DEF Begin, rests, locals
    <2>2. \/ UNCHANGED <<given, givenFar, sent, sentFar>>
          \/ given' = <<>> /\ givenFar' = <<>> /\ sent' = <<>> /\ sentFar' = <<>>
      BY DEF Begin, history
    <2>3. /\ given' \in Seq(Nat) /\ givenFar' \in Seq(Nat)
          /\ sent' \in Seq(Nat) /\ sentFar' \in Seq(Nat)
      <3>1. <<>> \in Seq(Nat)
        OBVIOUS
      <3>2. CASE UNCHANGED <<given, givenFar, sent, sentFar>>
        BY <3>2 DEF IInv, TypeOK
      <3>3. CASE given' = <<>> /\ givenFar' = <<>> /\ sent' = <<>> /\ sentFar' = <<>>
        BY <3>1, <3>3
      <3>4. QED BY <2>2, <3>2, <3>3
    <2>4. QED BY <2>1, <2>3 DEF IInv, TypeOK
  <1>2. CASE pc = "idle"
    <2>1. SamplesInOrder'
      BY <1>2 DEF IInv, Begin, SamplesInOrder, Rest, rests, locals, history
    <2>2. Enough'
      BY <1>2 DEF IInv, Begin, Enough, history
    <2>3. FailsWhenShort' /\ LoopInv' /\ SentFrames'
      BY <1>2, <2>2 DEF IInv, Begin, FailsWhenShort, LoopInv, SentFrames,
         rests, locals, history
    <2>4. QED BY <1>1, <2>1, <2>2, <2>3 DEF IInv
  <1>3. CASE pc # "idle"
    <2>1. /\ given' = <<>> /\ givenFar' = <<>> /\ sent' = <<>> /\ sentFar' = <<>>
          /\ mRightSrcData' = <<>> /\ mRightBGMData' = <<>>
          /\ pc' = "read"
      BY <1>3 DEF IInv, Begin, LoopInv, rests
    <2>2. SamplesInOrder'
      <3>1. <<>> \o <<>> = <<>>
        OBVIOUS
      <3>2. QED BY <2>1, <3>1 DEF SamplesInOrder, Rest
    <2>3. Enough'
      <3>1. Len(given') = 0 /\ Len(givenFar') = 0
        BY <2>1
      <3>2. 0 \div sampleRate_10ms = 0
        BY FrameAssumption
      <3>3. QED BY <3>1, <3>2, FrameAssumption DEF Enough
    <2>4. FailsWhenShort' /\ LoopInv'
      BY <2>1, <2>3 DEF FailsWhenShort, LoopInv
    <2>5. SentFrames'
      <3>1. Len(sent') = 0 * sampleRate_10ms /\ Len(sentFar') = Len(sent')
        BY <2>1, FrameAssumption
      <3>2. QED BY <3>1 DEF SentFrames
    <2>6. QED BY <1>1, <2>1, <2>2, <2>3, <2>4, <2>5 DEF IInv
  <1>4. QED BY <1>2, <1>3

LEMMA CallIInv == ASSUME IInv, NEW n \in BgmLen, CallProcessStream(n) PROVE IInv'
  <1> DEFINE bgm == SubSeq(Buffer, 1, n)
  <1>1. /\ n \in Nat /\ pc = "read" /\ n <= BufferLen
        /\ mergeShort' = Merge(mRightSrcData, Buffer)
        /\ mergeBGMShort' = Merge(mRightBGMData, bgm)
        /\ given' = given \o Buffer /\ givenFar' = givenFar \o bgm
        /\ mRightSrcData' = <<>> /\ mRightBGMData' = <<>>
        /\ i' = 0 /\ pc' = "frame" /\ sent' = sent /\ sentFar' = sentFar
    BY LengthAssumption DEF CallProcessStream
  <1>2. Buffer \in Seq(Nat) /\ bgm \in Seq(Nat)
    BY <1>1, BufferType DEF IInv
  <1>3. /\ sent \in Seq(Nat) /\ sentFar \in Seq(Nat)
        /\ given \in Seq(Nat) /\ givenFar \in Seq(Nat)
        /\ mRightSrcData \in Seq(Nat) /\ mRightBGMData \in Seq(Nat)
    BY DEF IInv, TypeOK
  <1>a. sent \o mRightSrcData = given /\ sentFar \o mRightBGMData = givenFar
    BY <1>1 DEF IInv, SamplesInOrder, Rest
  <1> HIDE DEF bgm
  <1>4. /\ mergeShort' \in Seq(Nat) /\ given' \in Seq(Nat)
        /\ sent \o GetSRCRight(mergeShort', 0) = given'
    <2>1. /\ Merge(mRightSrcData, Buffer) \in Seq(Nat)
          /\ (sent \o mRightSrcData) \o Buffer \in Seq(Nat)
          /\ sent \o GetSRCRight(Merge(mRightSrcData, Buffer), 0) = (sent \o mRightSrcData) \o Buffer
      <3>1. sent \in Seq(Nat) /\ mRightSrcData \in Seq(Nat) /\ Buffer \in Seq(Nat)
        BY <1>2, <1>3
      <3>2. Merge(mRightSrcData, Buffer) \in Seq(Nat)
        BY <3>1, ConcatProperties DEF Merge
      <3>3. (sent \o mRightSrcData) \o Buffer \in Seq(Nat)
        BY <3>1, ConcatProperties
      <3>4. sent \o GetSRCRight(Merge(mRightSrcData, Buffer), 0) = (sent \o mRightSrcData) \o Buffer
        BY <3>1, NewSamples, Zenon
      <3>5. QED BY <3>2, <3>3, <3>4
    <2>2. QED BY <1>1, <1>a, <2>1, Zenon
  <1>5. /\ mergeBGMShort' \in Seq(Nat) /\ givenFar' \in Seq(Nat)
        /\ sentFar \o GetSRCRight(mergeBGMShort', 0) = givenFar'
    <2>1. /\ Merge(mRightBGMData, bgm) \in Seq(Nat)
          /\ (sentFar \o mRightBGMData) \o bgm \in Seq(Nat)
          /\ sentFar \o GetSRCRight(Merge(mRightBGMData, bgm), 0) = (sentFar \o mRightBGMData) \o bgm
      <3>1. sentFar \in Seq(Nat) /\ mRightBGMData \in Seq(Nat) /\ bgm \in Seq(Nat)
        BY <1>2, <1>3
      <3>2. Merge(mRightBGMData, bgm) \in Seq(Nat)
        BY <3>1, ConcatProperties DEF Merge
      <3>3. (sentFar \o mRightBGMData) \o bgm \in Seq(Nat)
        BY <3>1, ConcatProperties
      <3>4. sentFar \o GetSRCRight(Merge(mRightBGMData, bgm), 0) = (sentFar \o mRightBGMData) \o bgm
        BY <3>1, NewSamples, Zenon
      <3>5. QED BY <3>2, <3>3, <3>4
    <2>2. QED BY <1>1, <1>a, <2>1, Zenon
  <1>6. TypeOK'
    BY <1>1, <1>3, <1>4, <1>5, FrameAssumption DEF TypeOK
  <1>7. SamplesInOrder'
    BY <1>1, <1>4, <1>5 DEF SamplesInOrder, Rest, GetSRCRight
  <1>8. SentFrames'
    BY <1>1 DEF IInv, SentFrames
  <1>9. LoopInv'
    <2>1. LoopCount(mergeShort') \in Nat
      BY <1>4, WholeFrames DEF LoopCount
    <2>2. 0 * sampleRate_10ms = 0
      BY FrameAssumption
    <2>3. QED BY <1>1, <1>5, <2>1, <2>2 DEF LoopInv
  <1>10. FailsWhenShort'
    BY <1>1 DEF FailsWhenShort
  <1>11. QED BY <1>1, <1>6, <1>7, <1>8, <1>9, <1>10 DEF IInv

LEMMA ProcessFrameIInv == IInv /\ ProcessFrame => IInv'
  <1> SUFFICES ASSUME IInv, ProcessFrame PROVE IInv'
    OBVIOUS
  <1>1. /\ pc = "frame" /\ pc' = "frame" /\ i < LoopCount(mergeShort)
        /\ HasFrame(mergeBGMShort, i)
        /\ sent' = sent \o Frame(mergeShort, i)
        /\ sentFar' = sentFar \o Frame(mergeBGMShort, i)
        /\ i' = i + 1
        /\ UNCHANGED <<mRightSrcData, mRightBGMData, mergeShort, mergeBGMShort,
                       given, givenFar>>
    BY DEF ProcessFrame, rests
  <1>2. /\ i \in Nat /\ mergeShort \in Seq(Nat) /\ mergeBGMShort \in Seq(Nat)
        /\ sent \in Seq(Nat) /\ sentFar \in Seq(Nat)
    BY DEF IInv, TypeOK
  <1>a. i + 1 \in Nat /\ i + 1 <= LoopCount(mergeShort)
    <2>1. LoopCount(mergeShort) \in Nat
      BY <1>2, WholeFrames DEF LoopCount
    <2>2. QED BY <1>1, <1>2, <2>1
  <1>3. HasFrame(mergeShort, i)
    BY <1>2, <1>a, WithinLoop DEF HasFrame
  <1>4. /\ sent' \in Seq(Nat) /\ Len(sent') = Len(sent) + sampleRate_10ms
        /\ sent' \o GetSRCRight(mergeShort, i + 1) = sent \o GetSRCRight(mergeShort, i)
    BY <1>1, <1>2, <1>3, FrameMoves, Zenon
  <1>5. /\ sentFar' \in Seq(Nat) /\ Len(sentFar') = Len(sentFar) + sampleRate_10ms
        /\ sentFar' \o GetSRCRight(mergeBGMShort, i + 1)
             = sentFar \o GetSRCRight(mergeBGMShort, i)
    BY <1>1, <1>2, FrameMoves, Zenon
  <1>6. TypeOK'
    <2>1. i + 1 \in Nat
      BY <1>2
    <2>2. QED BY <1>1, <1>4, <1>5, <2>1 DEF IInv, TypeOK
  <1>7. SamplesInOrder'
    <2>1. /\ sent' \o GetSRCRight(mergeShort, i + 1) = given
          /\ sentFar' \o GetSRCRight(mergeBGMShort, i + 1) = givenFar
      BY <1>1, <1>4, <1>5, InLoop, Zenon
    <2>2. QED BY <1>1, <2>1 DEF SamplesInOrder, Rest, GetSRCRight
  <1>8. SentFrames'
    <2>1. PICK k \in Nat : Len(sent) = k * sampleRate_10ms
      BY DEF IInv, SentFrames
    <2>2. k + 1 \in Nat /\ Len(sent') = (k + 1) * sampleRate_10ms
      BY <1>4, <2>1, NextFrame
    <2>3. Len(sentFar') = Len(sent')
      BY <1>4, <1>5 DEF IInv, SentFrames
    <2>4. QED BY <2>2, <2>3 DEF SentFrames
  <1>9. LoopInv'
    <2>1. (i + 1) * sampleRate_10ms <= Len(mergeBGMShort)
      BY <1>1 DEF HasFrame
    <2>2. QED BY <1>1, <1>a, <2>1 DEF IInv, LoopInv
  <1>10. FailsWhenShort'
    BY <1>1 DEF FailsWhenShort
  <1>11. QED BY <1>1, <1>6, <1>7, <1>8, <1>9, <1>10 DEF IInv

LEMMA FarEndTooShortIInv == IInv /\ FarEndTooShort => IInv'
  <1> SUFFICES ASSUME IInv, FarEndTooShort PROVE IInv'
    OBVIOUS
  <1> DEFINE F == sampleRate_10ms
  <1>1. /\ pc = "frame" /\ pc' = "short" /\ i < LoopCount(mergeShort)
        /\ ~HasFrame(mergeBGMShort, i)
    BY DEF FarEndTooShort
  <1>2. UNCHANGED <<mRightSrcData, mRightBGMData, mergeShort, mergeBGMShort, i,
                    given, givenFar, sent, sentFar>>
    BY DEF FarEndTooShort, rests, locals, history
  <1>3. TypeOK' /\ SamplesInOrder' /\ SentFrames' /\ LoopInv'
    BY <1>1, <1>2 DEF IInv, TypeOK, SamplesInOrder, SentFrames, LoopInv
  <1>4. ~Enough
    <2>1. /\ i \in Nat /\ mergeShort \in Seq(Nat) /\ mergeBGMShort \in Seq(Nat)
          /\ sent \in Seq(Nat) /\ Len(sentFar) = Len(sent)
          /\ given \in Seq(Nat) /\ givenFar \in Seq(Nat)
      BY DEF IInv, TypeOK, SentFrames
    <2>2. PICK k \in Nat : Len(sent) = k * F
      BY DEF IInv, SentFrames
    <2> DEFINE done == i * F
               cut == k * F
               frames == Len(given) \div F
    <2>3. /\ done \in Nat /\ (i + 1) * F = done + F
          /\ cut \in Nat /\ (k + 1) * F = cut + F
      BY <2>1, NextFrame
    <2>4. done + F <= Len(mergeShort)
      <3>1. i + 1 \in Nat /\ i + 1 <= LoopCount(mergeShort)
        BY <1>1, <2>1, WholeFrames DEF LoopCount
      <3>2. (i + 1) * F <= Len(mergeShort)
        BY <2>1, <3>1, WithinLoop
      <3>3. QED BY <2>3, <3>2
    <2>5. Len(mergeBGMShort) < done + F
      <3>1. ~(done + F <= Len(mergeBGMShort))
        BY <1>1, <2>3 DEF HasFrame
      <3> HIDE DEF done
      <3>2. QED BY <2>1, <2>3, <3>1, FrameAssumption
    <2>6. /\ Len(given) = Len(sent) + Len(mergeShort) - done
          /\ Len(givenFar) = Len(sentFar) + Len(mergeBGMShort) - done
      BY <1>1, InLoop, Zenon
    <2>7. Len(given) >= cut + F /\ Len(givenFar) < cut + F
      <3>1. Len(sent) = cut
        BY <2>2
      <3> HIDE DEF done, cut
      <3>2. QED BY <2>1, <2>3, <2>4, <2>5, <2>6, <3>1, FrameAssumption
    <2>8. cut + F <= frames * F /\ frames \in Nat
      <3>1. frames \in Nat /\ Len(given) < frames * F + F
        BY <2>1, WholeFrames
      <3>2. frames * F \in Nat
        BY <3>1, NextFrame
      <3>3. frames <= k => frames * F <= cut
        BY <3>1, NextFrame
      <3>4. k < frames => (k + 1) * F <= frames * F
        BY <3>1, NextFrame
      <3> HIDE DEF frames, cut
      <3>5. ~(frames <= k)
        <4> DEFINE whole == frames * F
        <4> HIDE DEF whole
        <4>1. Len(given) < whole + F /\ whole \in Nat /\ (frames <= k => whole <= cut)
          BY <3>1, <3>2, <3>3 DEF whole
        <4>2. QED BY <2>1, <2>3, <2>7, <4>1, FrameAssumption
      <3>6. QED BY <2>3, <3>1, <3>4, <3>5
    <2>9. F * frames = frames * F
      BY <2>8, FrameAssumption
    <2>10. Len(givenFar) < F * frames
      <3> DEFINE whole == frames * F
      <3>1. cut + F <= whole /\ whole \in Nat
        BY <2>8, NextFrame
      <3>2. F * frames = whole
        BY <2>9
      <3> HIDE DEF frames, cut, whole
      <3>3. QED BY <2>1, <2>3, <2>7, <3>1, <3>2, FrameAssumption
    <2>11. QED
      <3> DEFINE whole == F * frames
      <3>1. Len(givenFar) < whole /\ whole \in Nat /\ (Enough <=> Len(givenFar) >= whole)
        BY <2>8, <2>9, <2>10, NextFrame DEF Enough
      <3> HIDE DEF whole
      <3>2. QED BY <2>1, <3>1
  <1>5. Enough' <=> Enough
    BY <1>2 DEF Enough
  <1>6. QED BY <1>1, <1>3, <1>4, <1>5 DEF IInv, FailsWhenShort

LEMMA KeepRestsIInv == IInv /\ KeepRests => IInv'
  <1> SUFFICES ASSUME IInv, KeepRests PROVE IInv'
    OBVIOUS
  <1> DEFINE F == sampleRate_10ms
             right == GetSRCRight(mergeShort, i)
             rightFar == GetSRCRight(mergeBGMShort, i)
  <1>1. /\ pc = "frame" /\ pc' = "read" /\ i = LoopCount(mergeShort)
        /\ mRightSrcData' = right /\ mRightBGMData' = rightFar
        /\ UNCHANGED <<mergeShort, mergeBGMShort, i, given, givenFar, sent, sentFar>>
    BY DEF KeepRests, locals, history
  <1>2. /\ i \in Nat /\ mergeShort \in Seq(Nat) /\ mergeBGMShort \in Seq(Nat)
        /\ sent \in Seq(Nat) /\ sentFar \in Seq(Nat)
        /\ given \in Seq(Nat) /\ givenFar \in Seq(Nat)
        /\ i * F <= Len(mergeBGMShort)
    BY <1>1 DEF IInv, TypeOK, LoopInv
  <1>3. /\ sent \o right = given /\ sentFar \o rightFar = givenFar
        /\ i * F \in Nat /\ i * F <= Len(mergeShort)
        /\ Len(given) = Len(sent) + Len(mergeShort) - i * F
        /\ Len(givenFar) = Len(sentFar) + Len(mergeBGMShort) - i * F
    BY <1>1, InLoop, Zenon
  <1>4. /\ right \in Seq(Nat) /\ rightFar \in Seq(Nat)
        /\ Len(right) = Len(mergeShort) - i * F
    BY <1>2, <1>3, RestOfStream, Zenon
  <1>5. Len(mergeShort) < i * F + F
    BY <1>1, <1>2, WholeFrames DEF LoopCount
  <1> HIDE DEF right, rightFar
  <1>6. TypeOK'
    <2>1. Len(right) < F
      BY <1>2, <1>3, <1>4, <1>5, FrameAssumption
    <2>2. QED BY <1>1, <1>2, <1>4, <2>1 DEF TypeOK
  <1>7. SamplesInOrder'
    BY <1>1, <1>3 DEF SamplesInOrder, Rest
  <1>8. SentFrames' /\ LoopInv'
    BY <1>1 DEF IInv, SentFrames, LoopInv
  <1>9. Enough'
    <2>1. PICK k \in Nat : Len(sent) = k * F
      BY DEF IInv, SentFrames
    <2>2. Len(given) \div F = k
      <3> DEFINE r == Len(mergeShort) - i * F
      <3>1. r \in Nat /\ r < F /\ Len(given) = k * F + r
        BY <1>2, <1>3, <1>5, <2>1, FrameAssumption
      <3> HIDE DEF r
      <3>2. QED BY <3>1, QuotientIs
    <2>3. Len(givenFar) >= k * F
      BY <1>2, <1>3, <2>1 DEF IInv, SentFrames
    <2>4. Len(givenFar) >= F * (Len(given) \div F)
      BY <2>2, <2>3, FrameAssumption
    <2>5. QED BY <1>1, <2>4 DEF Enough
  <1>10. QED BY <1>1, <1>6, <1>7, <1>8, <1>9 DEF IInv, FailsWhenShort

LEMMA Invariance == IInv /\ [Next]_vars => IInv'
  <1> SUFFICES ASSUME IInv, [Next]_vars PROVE IInv'
    OBVIOUS
  <1> USE DEF IInv, TypeOK, SamplesInOrder, Rest, FailsWhenShort, Enough,
              SentFrames, LoopInv, rests, locals, history
  <1>1. CASE Stop
    BY <1>1 DEF Stop
  <1>2. ASSUME NEW n \in BgmLen, BufferUnderflow(n) PROVE IInv'
    BY <1>2 DEF BufferUnderflow
  <1>3. CASE PushThrows
    BY <1>3 DEF PushThrows
  <1>4. CASE UNCHANGED vars
    BY <1>4 DEF vars
  <1>5. QED
    BY <1>1, <1>2, <1>3, <1>4, BeginIInv, CallIInv, ProcessFrameIInv,
       FarEndTooShortIInv, KeepRestsIInv DEF Next

\* The variables keep their types, and less than one frame of the near end
\* waits for the next call of processStream.
THEOREM RestsAreShort == Spec => []TypeOK
  BY InitIInv, Invariance, PTL DEF Spec, IInv

\* merge, the loop of processStream and getSRCRight lose, repeat or reorder no
\* sample of either stream, whatever the lengths of the chunks.
THEOREM NoSampleLost == Spec => []SamplesInOrder
  BY InitIInv, Invariance, PTL DEF Spec, IInv

\* The index exception of processStream comes exactly when the far end has
\* fallen behind by a frame over all the calls of the recording.
THEOREM ShortFarEndFails == Spec => []FailsWhenShort
  BY InitIInv, Invariance, PTL DEF Spec, IInv

=============================================================================
