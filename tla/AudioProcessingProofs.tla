----------------------- MODULE AudioProcessingProofs -----------------------
(***************************************************************************)
(* The safety invariants of AudioProcessing for any number of control      *)
(* threads, any set of frame rates and any capacity of the render queues.  *)
(***************************************************************************)
EXTENDS AudioProcessing, TLAPS

ForAgc(r) == r.op = "enable" /\ r.component = AGC

InRender == {"insert", "drain", "retry", "agc"}

\* Where a thread is tells which locks it holds.
HoldsRender(t) ==
    \/ t = Capture /\ pc[t] \in {"maybe_init", "init"}
    \/ t = Render /\ pc[t] \in {"maybe_init", "init"} \cup InRender
    \/ t \in Control /\ \/ pc[t] = "path_alloc"
                        \/ pc[t] \in {"want_capture", "locked"} /\ ~ForAgc(request[t])

HoldsCapture(t) == \/ t = Capture /\ pc[t] = "process"
                   \/ t \in Control /\ pc[t] = "locked"

LockInv == \A t \in Thread : /\ crit_render_ = t <=> HoldsRender(t)
                             /\ crit_capture_ = t <=> HoldsCapture(t)

\* Each thread runs the steps of its own calls.
PcInv == /\ pc[Capture] \in {"idle", "aecm_check", "copy_format", "want_render",
                             "maybe_init", "init", "want_capture", "process"}
         /\ pc[Render] \in {"idle", "maybe_init", "init", "relock"} \cup InRender
         /\ \A t \in Control : pc[t] \in {"idle", "want_render", "want_capture",
                  "locked", "path_enabled", "path_rate", "path_lock", "path_alloc"}
         /\ \A t \in Control : pc[t] = "want_render" => ~ForAgc(request[t])

\* What the locals hold while they are in scope.  The configuration of the
\* render thread stays current, for it holds the render lock.
LocalsInv == 
    /\ pc[Capture] # "idle" => frame[Capture] \in NativeRate
    /\ pc[Capture] \in {"want_render", "maybe_init", "init"} => config[Capture] \in Format
    /\ pc[Render] \in {"maybe_init", "init"} =>
          /\ frame[Render] \in NativeRate
          /\ config[Render] = [api_format EXCEPT !.rev = frame[Render]]
    /\ pc[Render] \in {"drain", "retry"} => enabled[stage]

IInv == /\ TypeOK /\ PcInv /\ LockInv /\ LocalsInv
        /\ EchoExclusive /\ AecmRate /\ QueueMatchesFormat
        /\ RetryHasRoom /\ ProcessedFormat
-----------------------------------------------------------------------------
\* The rate chosen for the capture side is native, and fit for AECM.
LEMMA FwdProcRateNative ==
    ASSUME TypeOK, NEW rate \in NativeRate
    PROVE  /\ FwdProcRate(rate) \in NativeRate
           /\ enabled[AECM] => FwdProcRate(rate) <= MaxAecmRate
  <1>1. CASE enabled[AECM] /\ rate > MaxAecmRate
    BY <1>1 DEF FwdProcRate, MaxAecmRate, NativeRate
  <1>2. CASE ~(enabled[AECM] /\ rate > MaxAecmRate)
    <2> DEFINE P(n) == n >= rate /\ \A m \in NativeRate : m >= rate => n <= m
    <2>1. \E n \in NativeRate : P(n)
      <3>1. P(rate)
        BY DEF NativeRate
      <3>2. QED BY <3>1
    <2>2. FwdProcRate(rate) = CHOOSE n \in NativeRate : P(n)
      BY <1>2 DEF FwdProcRate, NativeRate
    <2>3. FwdProcRate(rate) \in NativeRate /\ P(FwdProcRate(rate))
      <3> HIDE DEF P
      <3>1. QED BY <2>1, <2>2
    <2>4. FwdProcRate(rate) = rate
      BY <2>3 DEF NativeRate
    <2>5. QED
      BY <1>2, <2>4 DEF NativeRate, MaxAecmRate
  <1>3. QED BY <1>1, <1>2

\* What a call leaves behind is well typed.
LEMMA ReturnType ==
    ASSUME TypeOK, NEW t \in Thread, Return(t)
    PROVE  /\ pc' \in [Thread -> {"idle", "aecm_check", "copy_format", "want_render",
                          "maybe_init", "init", "want_capture", "process",
                          "insert", "drain", "retry", "agc", "relock", "locked",
                          "path_enabled", "path_rate", "path_lock", "path_alloc"}]
           /\ frame' \in [{Capture, Render} -> NativeRate \cup {NoRate}]
           /\ config' \in [{Capture, Render} -> Format \cup {NoFormat}]
           /\ request' \in [Control -> Request \cup {NoRequest}]
           /\ pc' = [pc EXCEPT ![t] = "idle"]
           /\ \A u \in {Capture, Render} :
                 u # t => frame'[u] = frame[u] /\ config'[u] = config[u]
           /\ \A u \in Control : u # t => request'[u] = request[u]
  BY DEF TypeOK, Return

\* A call that returns leaves the other threads where they are.
LEMMA ReturnPc ==
    ASSUME TypeOK, PcInv, NEW t \in Thread, Return(t)
    PROVE  PcInv'
  <1>1. \A u \in Thread : pc'[u] = IF u = t THEN "idle" ELSE pc[u]
    BY DEF Return, TypeOK
  <1>2. \A u \in Control : u # t => request'[u] = request[u]
    BY DEF Return
  <1>3. QED
    BY <1>1, <1>2 DEF PcInv, InRender, Thread

\* Neither does it touch their locals.
LEMMA ReturnLocals ==
    ASSUME TypeOK, LocalsInv, NEW t \in Thread, Return(t),
           UNCHANGED <<formats, enabled, stage>>
    PROVE  LocalsInv'
  <1>1. \A u \in Thread : pc'[u] = IF u = t THEN "idle" ELSE pc[u]
    BY DEF Return, TypeOK
  <1>2. \A u \in {Capture, Render} :
           u # t => frame'[u] = frame[u] /\ config'[u] = config[u]
    BY DEF Return
  <1>3. api_format' = api_format /\ enabled' = enabled /\ stage' = stage
    BY DEF formats
  <1>4. Capture \in Thread /\ Render \in Thread
    BY DEF Thread
  <1>5. QED
    BY <1>1, <1>2, <1>3, <1>4 DEF LocalsInv

\* Reinitialization with both locks held, whoever does it.
LEMMA InitializeLockedFacts ==
    ASSUME IInv, NEW f \in Format, InitializeLocked(f), enabled' = enabled
    PROVE  /\ api_format' = f
           /\ fwd_proc_rate' \in NativeRate
           /\ rev_proc_rate' \in NativeRate
           /\ queue' \in [Component -> Seq(NativeRate)]
           /\ \A c \in Component : Len(queue'[c]) <= Capacity
           /\ AecmRate'
           /\ QueueMatchesFormat'
           /\ ~AecmRejects(fwd_proc_rate')
  <1>1. TypeOK /\ f.in \in NativeRate /\ f.rev \in NativeRate
    BY DEF IInv, Format
  <1>2. /\ fwd_proc_rate' \in NativeRate
        /\ enabled[AECM] => fwd_proc_rate' <= MaxAecmRate
    BY <1>1, FwdProcRateNative DEF InitializeLocked
  <1>3. rev_proc_rate' \in NativeRate
    BY DEF InitializeLocked, RevProcRate, NativeRate
  <1>4. ~AecmRejects(fwd_proc_rate')
    BY <1>2 DEF AecmRejects, NativeRate, MaxAecmRate
  <1>5. \A c \in Component : queue'[c] = IF enabled[c] THEN <<>> ELSE queue[c]
    BY <1>4 DEF InitializeLocked, InitializeComponents
  <1>6. queue' \in [Component -> Seq(NativeRate)]
    BY <1>1, <1>4 DEF InitializeLocked, InitializeComponents, TypeOK
  <1>7. \A c \in Component : Len(queue'[c]) <= Capacity
    BY <1>1, <1>5, CapacityAssumption DEF TypeOK
  <1>8. QED
    BY <1>2, <1>3, <1>4, <1>5, <1>6, <1>7 DEF InitializeLocked, AecmRate, QueueMatchesFormat

LEMMA RequestType ==
    ASSUME TypeOK, RateAssumption, NEW t \in Control, request[t].op = "initialize_with"
    PROVE  request[t].format \in Format
  BY DEF TypeOK, Request, Format, NoRequest

\* A queue that gets one more frame.
LEMMA AppendFacts ==
    ASSUME NEW q \in Seq(NativeRate), NEW r \in NativeRate
    PROVE  /\ Append(q, r) \in Seq(NativeRate)
           /\ Len(Append(q, r)) = Len(q) + 1
           /\ \A i \in 1 .. Len(q) + 1 :
                 Append(q, r)[i] = IF i = Len(q) + 1 THEN r ELSE q[i]
  OBVIOUS

\* A step that changes no format, no enabled_ and no queue keeps these three.
LEMMA SettingsKept ==
    ASSUME EchoExclusive, AecmRate, QueueMatchesFormat,
           UNCHANGED <<api_format, fwd_proc_rate, rev_proc_rate, enabled, queue>>
    PROVE  EchoExclusive' /\ AecmRate' /\ QueueMatchesFormat'
  BY DEF EchoExclusive, AecmRate, QueueMatchesFormat

-----------------------------------------------------------------------------
LEMMA NextIInv == IInv /\ [Next]_vars => IInv'
  <1> SUFFICES ASSUME IInv, [Next]_vars PROVE IInv'
    OBVIOUS
  <1> USE ThreadAssumption, RateAssumption, CapacityAssumption
      DEF IInv, Thread, locks, formats, locals, Goto
  <1>1. ASSUME NEW r \in FrameRate, ProcessStream(r) PROVE IInv'
    <2>1. TypeOK'
      BY <1>1 DEF ProcessStream, TypeOK, Component, Format
    <2>2. PcInv'
      BY <1>1 DEF ProcessStream, TypeOK, PcInv, InRender, ForAgc
    <2>3. LockInv'
      BY <1>1 DEF ProcessStream, TypeOK, PcInv, LockInv, HoldsRender,
         HoldsCapture, InRender, ForAgc
    <2>4. LocalsInv'
      BY <1>1 DEF ProcessStream, TypeOK, PcInv, LockInv, LocalsInv,
         HoldsRender, HoldsCapture, InRender, ForAgc
    <2>5. EchoExclusive' /\ AecmRate'
      BY <1>1 DEF ProcessStream, TypeOK, EchoExclusive, AecmRate, Component
    <2>6. QueueMatchesFormat'
      BY <1>1 DEF ProcessStream, TypeOK, QueueMatchesFormat, AecmRate,
         Component
    <2>7. RetryHasRoom' /\ ProcessedFormat'
      <3>1. RetryHasRoom'
        <4>1. /\ stage \in Component
              /\ pc'[Render] = pc[Render] /\ stage' = stage /\ enabled' = enabled
          BY <1>1 DEF ProcessStream, TypeOK, Component
        <4>2. queue'[stage] = IF enabled[stage] THEN <<>> ELSE queue[stage]
          BY <1>1, <4>1 DEF ProcessStream
        <4>3. QED
          BY <4>1, <4>2 DEF RetryHasRoom
      <3>2. ProcessedFormat'
        BY <1>1 DEF ProcessStream, TypeOK, ProcessedFormat
      <3>3. QED BY <3>1, <3>2
    <2>8. QED BY <2>1, <2>2, <2>3, <2>4, <2>5, <2>6, <2>7
  <1>2. ASSUME NEW r \in FrameRate, ProcessStreamBadRate(r) PROVE IInv'
    <2>1. TypeOK'
      BY <1>2 DEF ProcessStreamBadRate, TypeOK, Component, Format
    <2>2. PcInv'
      BY <1>2 DEF ProcessStreamBadRate, TypeOK, PcInv, InRender, ForAgc
    <2>3. LockInv'
      BY <1>2 DEF ProcessStreamBadRate, TypeOK, PcInv, LockInv, HoldsRender,
         HoldsCapture, InRender, ForAgc
    <2>4. LocalsInv'
      BY <1>2 DEF ProcessStreamBadRate, TypeOK, PcInv, LockInv, LocalsInv,
         HoldsRender, HoldsCapture, InRender, ForAgc
    <2>5. EchoExclusive' /\ AecmRate'
      BY <1>2 DEF ProcessStreamBadRate, TypeOK, EchoExclusive, AecmRate,
         Component
    <2>6. QueueMatchesFormat'
      BY <1>2 DEF ProcessStreamBadRate, TypeOK, QueueMatchesFormat, AecmRate,
         Component
    <2>7. RetryHasRoom' /\ ProcessedFormat'
      <3>1. RetryHasRoom'
        <4>1. /\ stage \in Component
              /\ pc'[Render] = pc[Render] /\ stage' = stage /\ enabled' = enabled
          BY <1>2 DEF ProcessStreamBadRate, TypeOK, Component
        <4>2. queue'[stage] = IF enabled[stage] THEN <<>> ELSE queue[stage]
          BY <1>2, <4>1 DEF ProcessStreamBadRate
        <4>3. QED
          BY <4>1, <4>2 DEF RetryHasRoom
      <3>2. ProcessedFormat'
        BY <1>2 DEF ProcessStreamBadRate, TypeOK, ProcessedFormat
      <3>3. QED BY <3>1, <3>2
    <2>8. QED BY <2>1, <2>2, <2>3, <2>4, <2>5, <2>6, <2>7
  <1>3. ASSUME CheckAecmRate PROVE IInv'
    <2>1. TypeOK'
      BY <1>3 DEF CheckAecmRate, Return, TypeOK, Component, Format
    <2>2. PcInv'
      <3>1. CASE Return(Capture)
        BY <3>1, ReturnPc DEF Thread
      <3>2. CASE ~Return(Capture)
        <4>1. /\ pc' = [pc EXCEPT ![Capture] = "copy_format"]
              /\ UNCHANGED request
          BY <1>3, <3>2 DEF CheckAecmRate
        <4>2. QED BY <4>1, ThreadAssumption DEF TypeOK, PcInv, InRender, Thread
      <3>3. QED BY <3>1, <3>2
    <2>3. LockInv'
      BY <1>3 DEF CheckAecmRate, Return, TypeOK, PcInv, LockInv, HoldsRender,
         HoldsCapture, InRender, ForAgc
    <2>4. LocalsInv'
      <3>1. CASE Return(Capture)
        BY <1>3, <3>1, ReturnLocals DEF CheckAecmRate, Thread
      <3>2. CASE ~Return(Capture)
        <4>1. /\ pc' = [pc EXCEPT ![Capture] = "copy_format"]
              /\ UNCHANGED <<frame, config>>
          BY <1>3, <3>2 DEF CheckAecmRate
        <4>2. pc[Capture] = "aecm_check" /\ UNCHANGED <<formats, enabled, stage>>
          BY <1>3 DEF CheckAecmRate
        <4>3. QED
          BY <4>1, <4>2, ThreadAssumption
             DEF TypeOK, PcInv, LocalsInv, InRender, Thread, formats
      <3>3. QED BY <3>1, <3>2
    <2>5. EchoExclusive' /\ AecmRate' /\ QueueMatchesFormat'
      BY <1>3, SettingsKept DEF CheckAecmRate
    <2>6. RetryHasRoom' /\ ProcessedFormat'
      BY <1>3 DEF CheckAecmRate, Return, TypeOK, PcInv, LockInv, LocalsInv,
         HoldsRender, HoldsCapture, InRender, ForAgc, RetryHasRoom,
         ProcessedFormat
    <2>7. QED BY <2>1, <2>2, <2>3, <2>4, <2>5, <2>6
  <1>4. ASSUME CopyFormat PROVE IInv'
    <2>1. TypeOK'
      BY <1>4 DEF CopyFormat, TypeOK, LocalsInv, Format
    <2>2. PcInv'
      BY <1>4 DEF CopyFormat, TypeOK, PcInv, InRender, ForAgc
    <2>3. LockInv'
      BY <1>4 DEF CopyFormat, TypeOK, PcInv, LockInv, HoldsRender,
         HoldsCapture, InRender, ForAgc
    <2>4. LocalsInv'
      BY <1>4, <2>1 DEF CopyFormat, TypeOK, PcInv, LocalsInv, InRender, Format
    <2>5. EchoExclusive' /\ AecmRate' /\ QueueMatchesFormat'
      BY <1>4, SettingsKept DEF CopyFormat
    <2>6. RetryHasRoom' /\ ProcessedFormat'
      BY <1>4 DEF CopyFormat, TypeOK, PcInv, LockInv, LocalsInv, HoldsRender,
         HoldsCapture, InRender, ForAgc, RetryHasRoom, ProcessedFormat
    <2>7. QED BY <2>1, <2>2, <2>3, <2>4, <2>5, <2>6
  <1>5. ASSUME LockRenderForCapture PROVE IInv'
    <2>1. TypeOK'
      BY <1>5 DEF LockRenderForCapture, TypeOK, Component, Format
    <2>2. PcInv'
      BY <1>5 DEF LockRenderForCapture, TypeOK, PcInv, InRender, ForAgc
    <2>3. LockInv'
      BY <1>5 DEF LockRenderForCapture, TypeOK, PcInv, LockInv, HoldsRender,
         HoldsCapture, InRender, ForAgc
    <2>4. LocalsInv'
      BY <1>5 DEF LockRenderForCapture, TypeOK, PcInv, LockInv, LocalsInv,
         HoldsRender, HoldsCapture, InRender, ForAgc
    <2>5. EchoExclusive' /\ AecmRate' /\ QueueMatchesFormat'
      BY <1>5, SettingsKept DEF LockRenderForCapture
    <2>6. RetryHasRoom' /\ ProcessedFormat'
      BY <1>5 DEF LockRenderForCapture, TypeOK, PcInv, LockInv, LocalsInv,
         HoldsRender, HoldsCapture, InRender, ForAgc, RetryHasRoom,
         ProcessedFormat
    <2>7. QED BY <2>1, <2>2, <2>3, <2>4, <2>5, <2>6
  <1>6. ASSUME MaybeInitializeCapture PROVE IInv'
    <2>1. TypeOK'
      BY <1>6 DEF MaybeInitializeCapture, TypeOK, Component, Format
    <2>2. PcInv'
      BY <1>6 DEF MaybeInitializeCapture, TypeOK, PcInv, InRender, ForAgc
    <2>3. LockInv'
      BY <1>6 DEF MaybeInitializeCapture, TypeOK, PcInv, LockInv, HoldsRender,
         HoldsCapture, InRender, ForAgc
    <2>4. LocalsInv'
      BY <1>6 DEF MaybeInitializeCapture, TypeOK, PcInv, LockInv, LocalsInv,
         HoldsRender, HoldsCapture, InRender, ForAgc
    <2>5. EchoExclusive' /\ AecmRate' /\ QueueMatchesFormat'
      BY <1>6, SettingsKept DEF MaybeInitializeCapture
    <2>6. RetryHasRoom' /\ ProcessedFormat'
      BY <1>6 DEF MaybeInitializeCapture, TypeOK, PcInv, LockInv, LocalsInv,
         HoldsRender, HoldsCapture, InRender, ForAgc, RetryHasRoom,
         ProcessedFormat
    <2>7. QED BY <2>1, <2>2, <2>3, <2>4, <2>5, <2>6
  <1>7. ASSUME InitializeCapture PROVE IInv'
    <2>a. config[Capture] \in Format
      BY <1>7 DEF InitializeCapture, PcInv, LocalsInv
    <2>b. /\ api_format' = config[Capture]
          /\ fwd_proc_rate' \in NativeRate
          /\ rev_proc_rate' \in NativeRate
          /\ queue' \in [Component -> Seq(NativeRate)]
          /\ \A c \in Component : Len(queue'[c]) <= Capacity
          /\ AecmRate' /\ QueueMatchesFormat'
          /\ ~AecmRejects(fwd_proc_rate')
      BY <1>7, <2>a, InitializeLockedFacts DEF InitializeCapture
    <2>1. TypeOK'
      BY <1>7, <2>a, <2>b, ReturnType DEF InitializeCapture, TypeOK
    <2>2. PcInv'
      BY <1>7, <2>b DEF InitializeCapture, PcInv, InRender, ForAgc, TypeOK
    <2>3. LockInv'
      BY <1>7 DEF InitializeCapture, Return, InitializeLocked,
         InitializeComponents, AecmRejects, TypeOK, PcInv, LockInv, HoldsRender,
         HoldsCapture, InRender, ForAgc
    <2>4. LocalsInv'
      BY <1>7 DEF InitializeCapture, Return, InitializeLocked,
         InitializeComponents, AecmRejects, TypeOK, PcInv, LockInv, LocalsInv,
         HoldsRender, HoldsCapture, InRender, ForAgc
    <2>5. EchoExclusive' /\ AecmRate'
      BY <1>7, <2>b DEF InitializeCapture, EchoExclusive
    <2>6. QueueMatchesFormat'
      BY <2>b
    <2>7. RetryHasRoom' /\ ProcessedFormat'
      BY <1>7 DEF InitializeCapture, Return, InitializeLocked,
         InitializeComponents, AecmRejects, TypeOK, PcInv, LockInv, LocalsInv,
         HoldsRender, HoldsCapture, InRender, ForAgc, RetryHasRoom,
         ProcessedFormat
    <2>8. QED BY <2>1, <2>2, <2>3, <2>4, <2>5, <2>6, <2>7
  <1>8. ASSUME LockCapture PROVE IInv'
    <2>1. TypeOK'
      BY <1>8 DEF LockCapture, Return, TypeOK, Component, Format
    <2>2. PcInv'
      <3>1. CASE Return(Capture)
        BY <3>1, ReturnPc DEF Thread
      <3>2. CASE ~Return(Capture)
        <4>1. /\ pc' = [pc EXCEPT ![Capture] = "process"]
              /\ UNCHANGED request
          BY <1>8, <3>2 DEF LockCapture
        <4>2. QED BY <4>1, ThreadAssumption DEF TypeOK, PcInv, InRender, Thread
      <3>3. QED BY <3>1, <3>2
    <2>3. LockInv'
      BY <1>8 DEF LockCapture, Return, TypeOK, PcInv, LockInv, HoldsRender,
         HoldsCapture, InRender, ForAgc
    <2>4. LocalsInv'
      <3>1. CASE Return(Capture)
        BY <1>8, <3>1, ReturnLocals DEF LockCapture, Thread
      <3>2. CASE ~Return(Capture)
        <4>1. /\ pc' = [pc EXCEPT ![Capture] = "process"]
              /\ UNCHANGED <<frame, config>>
          BY <1>8, <3>2 DEF LockCapture
        <4>2. pc[Capture] = "want_capture" /\ UNCHANGED <<formats, enabled, stage>>
          BY <1>8 DEF LockCapture
        <4>3. QED
          BY <4>1, <4>2, ThreadAssumption
             DEF TypeOK, PcInv, LocalsInv, InRender, Thread, formats
      <3>3. QED BY <3>1, <3>2
    <2>5. EchoExclusive' /\ AecmRate' /\ QueueMatchesFormat'
      BY <1>8, SettingsKept DEF LockCapture
    <2>6. RetryHasRoom' /\ ProcessedFormat'
      BY <1>8 DEF LockCapture, Return, TypeOK, PcInv, LockInv, LocalsInv,
         HoldsRender, HoldsCapture, InRender, ForAgc, RetryHasRoom,
         ProcessedFormat
    <2>7. QED BY <2>1, <2>2, <2>3, <2>4, <2>5, <2>6
  <1>9. ASSUME ProcessStreamLocked PROVE IInv'
    <2>1. TypeOK'
      BY <1>9 DEF ProcessStreamLocked, Return, TypeOK, Component, Format
    <2>2. PcInv'
      BY <1>9 DEF ProcessStreamLocked, Return, TypeOK, PcInv, InRender, ForAgc
    <2>3. LockInv'
      BY <1>9 DEF ProcessStreamLocked, Return, TypeOK, PcInv, LockInv,
         HoldsRender, HoldsCapture, InRender, ForAgc
    <2>4. LocalsInv'
      BY <1>9 DEF ProcessStreamLocked, Return, TypeOK, PcInv, LockInv,
         LocalsInv, HoldsRender, HoldsCapture, InRender, ForAgc
    <2>5. EchoExclusive' /\ AecmRate' /\ QueueMatchesFormat'
      BY <1>9, SettingsKept DEF ProcessStreamLocked
    <2>6. RetryHasRoom' /\ ProcessedFormat'
      BY <1>9 DEF ProcessStreamLocked, Return, TypeOK, PcInv, LockInv,
         LocalsInv, HoldsRender, HoldsCapture, InRender, ForAgc, RetryHasRoom,
         ProcessedFormat
    <2>7. QED BY <2>1, <2>2, <2>3, <2>4, <2>5, <2>6
  <1>10. ASSUME NEW r \in FrameRate, AnalyzeReverseStream(r) PROVE IInv'
    <2>1. TypeOK'
      BY <1>10 DEF AnalyzeReverseStream, TypeOK, Component, Format
    <2>2. PcInv'
      BY <1>10 DEF AnalyzeReverseStream, TypeOK, PcInv, InRender, ForAgc
    <2>3. LockInv'
      BY <1>10 DEF AnalyzeReverseStream, TypeOK, PcInv, LockInv, HoldsRender,
         HoldsCapture, InRender, ForAgc
    <2>4. LocalsInv'
      BY <1>10 DEF AnalyzeReverseStream, TypeOK, PcInv, LockInv, LocalsInv,
         HoldsRender, HoldsCapture, InRender, ForAgc
    <2>5. EchoExclusive' /\ AecmRate' /\ QueueMatchesFormat'
      BY <1>10, SettingsKept DEF AnalyzeReverseStream
    <2>6. RetryHasRoom' /\ ProcessedFormat'
      BY <1>10 DEF AnalyzeReverseStream, TypeOK, PcInv, LockInv, LocalsInv,
         HoldsRender, HoldsCapture, InRender, ForAgc, RetryHasRoom,
         ProcessedFormat
    <2>7. QED BY <2>1, <2>2, <2>3, <2>4, <2>5, <2>6
  <1>11. ASSUME MaybeInitializeRender PROVE IInv'
    <2>1. TypeOK'
      BY <1>11 DEF MaybeInitializeRender, TypeOK, Component, Format
    <2>2. PcInv'
      BY <1>11 DEF MaybeInitializeRender, TypeOK, PcInv, InRender, ForAgc
    <2>3. LockInv'
      BY <1>11 DEF MaybeInitializeRender, TypeOK, PcInv, LockInv, HoldsRender,
         HoldsCapture, InRender, ForAgc
    <2>4. LocalsInv'
      BY <1>11 DEF MaybeInitializeRender, TypeOK, PcInv, LockInv, LocalsInv,
         HoldsRender, HoldsCapture, InRender, ForAgc
    <2>5. EchoExclusive' /\ AecmRate' /\ QueueMatchesFormat'
      BY <1>11, SettingsKept DEF MaybeInitializeRender
    <2>6. RetryHasRoom' /\ ProcessedFormat'
      <3>1. RetryHasRoom'
        BY <1>11 DEF MaybeInitializeRender, RetryHasRoom, TypeOK
      <3>2. ProcessedFormat'
        BY <1>11 DEF MaybeInitializeRender, ProcessedFormat, TypeOK, LocalsInv, InRender, Format
      <3>3. QED BY <3>1, <3>2
    <2>7. QED BY <2>1, <2>2, <2>3, <2>4, <2>5, <2>6
  <1>12. ASSUME InitializeRender PROVE IInv'
    <2>a. config[Render] \in Format
      BY <1>12 DEF InitializeRender, LocalsInv, TypeOK, Format
    <2>b. /\ api_format' = config[Render]
          /\ fwd_proc_rate' \in NativeRate
          /\ rev_proc_rate' \in NativeRate
          /\ queue' \in [Component -> Seq(NativeRate)]
          /\ \A c \in Component : Len(queue'[c]) <= Capacity
          /\ AecmRate' /\ QueueMatchesFormat'
          /\ ~AecmRejects(fwd_proc_rate')
      BY <1>12, <2>a, InitializeLockedFacts DEF InitializeRender
    <2>1. TypeOK'
      BY <1>12, <2>a, <2>b DEF InitializeRender, TypeOK
    <2>2. PcInv'
      BY <1>12 DEF InitializeRender, Return, InitializeLocked,
         InitializeComponents, AecmRejects, TypeOK, PcInv, InRender, ForAgc
    <2>3. LockInv'
      BY <1>12 DEF InitializeRender, Return, InitializeLocked,
         InitializeComponents, AecmRejects, TypeOK, PcInv, LockInv, HoldsRender,
         HoldsCapture, InRender, ForAgc
    <2>4. LocalsInv'
      BY <1>12 DEF InitializeRender, Return, InitializeLocked,
         InitializeComponents, AecmRejects, TypeOK, PcInv, LockInv, LocalsInv,
         HoldsRender, HoldsCapture, InRender, ForAgc
    <2>5. EchoExclusive' /\ AecmRate'
      BY <1>12, <2>b DEF InitializeRender, EchoExclusive
    <2>6. QueueMatchesFormat'
      BY <2>b
    <2>7. RetryHasRoom' /\ ProcessedFormat'
      BY <1>12, <2>a, <2>b DEF InitializeRender, RetryHasRoom, ProcessedFormat, TypeOK, LockInv, HoldsCapture, InRender, LocalsInv, Format
    <2>8. QED BY <2>1, <2>2, <2>3, <2>4, <2>5, <2>6, <2>7
  <1>13. ASSUME InsertRenderFrame PROVE IInv'
    <2>a. /\ queue[stage] \in Seq(NativeRate)
          /\ Len(queue[stage]) \in 0 .. Capacity
          /\ rev_proc_rate \in NativeRate
          /\ stage \in Component
      BY DEF TypeOK, Component
    <2>b. /\ queue' \in [Component -> Seq(NativeRate)]
          /\ \A c \in Component : Len(queue'[c]) <= Capacity
          /\ QueueMatchesFormat'
      <3>1. CASE queue' = queue
        BY <1>13, <3>1 DEF InsertRenderFrame, TypeOK, QueueMatchesFormat
      <3>2. CASE queue' # queue
        <4>1. /\ queue' = [queue EXCEPT ![stage] = Append(queue[stage], rev_proc_rate)]
              /\ Len(queue[stage]) # Capacity
          BY <1>13, <3>2 DEF InsertRenderFrame
        <4>2. queue' \in [Component -> Seq(NativeRate)]
          BY <2>a, <4>1, AppendFacts DEF TypeOK
        <4>3. \A c \in Component : Len(queue'[c]) <= Capacity
          BY <2>a, <4>1, AppendFacts DEF TypeOK
        <4>4. QueueMatchesFormat'
          BY <1>13, <2>a, <4>1, AppendFacts DEF InsertRenderFrame, TypeOK, QueueMatchesFormat
        <4>5. QED BY <4>2, <4>3, <4>4
      <3>3. QED BY <3>1, <3>2
    <2>1. TypeOK'
      BY <1>13, <2>b DEF InsertRenderFrame, NextStage, TypeOK
    <2>2. PcInv'
      BY <1>13 DEF InsertRenderFrame, NextStage, TypeOK, PcInv, InRender,
         ForAgc
    <2>3. LockInv'
      BY <1>13 DEF InsertRenderFrame, NextStage, TypeOK, PcInv, LockInv,
         HoldsRender, HoldsCapture, InRender, ForAgc
    <2>4. LocalsInv'
      BY <1>13 DEF InsertRenderFrame, NextStage, TypeOK, PcInv, LockInv,
         LocalsInv, HoldsRender, HoldsCapture, InRender, ForAgc
    <2>5. EchoExclusive' /\ AecmRate'
      BY <1>13 DEF InsertRenderFrame, NextStage, TypeOK, EchoExclusive,
         AecmRate, Component
    <2>6. QueueMatchesFormat'
      BY <2>b
    <2>7. RetryHasRoom' /\ ProcessedFormat'
      BY <1>13 DEF InsertRenderFrame, NextStage, TypeOK, PcInv, LockInv,
         LocalsInv, HoldsRender, HoldsCapture, InRender, ForAgc, RetryHasRoom,
         ProcessedFormat
    <2>8. QED BY <2>1, <2>2, <2>3, <2>4, <2>5, <2>6, <2>7
  <1>14. ASSUME DrainFullQueue PROVE IInv'
    <2>1. TypeOK'
      BY <1>14 DEF DrainFullQueue, TypeOK, Component, Format
    <2>2. PcInv'
      BY <1>14 DEF DrainFullQueue, TypeOK, PcInv, InRender, ForAgc
    <2>3. LockInv'
      BY <1>14 DEF DrainFullQueue, TypeOK, PcInv, LockInv, HoldsRender,
         HoldsCapture, InRender, ForAgc
    <2>4. LocalsInv'
      BY <1>14 DEF DrainFullQueue, TypeOK, PcInv, LockInv, LocalsInv,
         HoldsRender, HoldsCapture, InRender, ForAgc
    <2>5. EchoExclusive' /\ AecmRate'
      BY <1>14 DEF DrainFullQueue, TypeOK, EchoExclusive, AecmRate, Component
    <2>6. QueueMatchesFormat'
      BY <1>14 DEF DrainFullQueue, TypeOK, QueueMatchesFormat, AecmRate,
         Component
    <2>7. RetryHasRoom' /\ ProcessedFormat'
      <3>1. RetryHasRoom'
        BY <1>14 DEF DrainFullQueue, RetryHasRoom, TypeOK, LocalsInv, Component
      <3>2. ProcessedFormat'
        BY <1>14 DEF DrainFullQueue, ProcessedFormat, TypeOK
      <3>3. QED BY <3>1, <3>2
    <2>8. QED BY <2>1, <2>2, <2>3, <2>4, <2>5, <2>6, <2>7
  <1>15. ASSUME RetryInsert PROVE IInv'
    <2>1. TypeOK'
      BY <1>15 DEF RetryInsert, NextStage, TypeOK, Component, Format
    <2>2. PcInv'
      BY <1>15 DEF RetryInsert, NextStage, TypeOK, PcInv, InRender, ForAgc
    <2>3. LockInv'
      BY <1>15 DEF RetryInsert, NextStage, TypeOK, PcInv, LockInv,
         HoldsRender, HoldsCapture, InRender, ForAgc
    <2>4. LocalsInv'
      BY <1>15 DEF RetryInsert, NextStage, TypeOK, PcInv, LockInv, LocalsInv,
         HoldsRender, HoldsCapture, InRender, ForAgc
    <2>5. EchoExclusive' /\ AecmRate'
      BY <1>15 DEF RetryInsert, NextStage, TypeOK, EchoExclusive, AecmRate,
         Component
    <2>6. QueueMatchesFormat'
      BY <1>15 DEF RetryInsert, NextStage, TypeOK, QueueMatchesFormat,
         AecmRate, Component
    <2>7. RetryHasRoom' /\ ProcessedFormat'
      BY <1>15 DEF RetryInsert, NextStage, TypeOK, PcInv, LockInv, LocalsInv,
         HoldsRender, HoldsCapture, InRender, ForAgc, RetryHasRoom,
         ProcessedFormat
    <2>8. QED BY <2>1, <2>2, <2>3, <2>4, <2>5, <2>6, <2>7
  <1>16. ASSUME InsertAgcFrame PROVE IInv'
    <2>1. TypeOK'
      BY <1>16 DEF InsertAgcFrame, TypeOK, Component, Format
    <2>2. PcInv'
      BY <1>16 DEF InsertAgcFrame, TypeOK, PcInv, InRender, ForAgc
    <2>3. LockInv'
      BY <1>16 DEF InsertAgcFrame, TypeOK, PcInv, LockInv, HoldsRender,
         HoldsCapture, InRender, ForAgc
    <2>4. LocalsInv'
      BY <1>16 DEF InsertAgcFrame, TypeOK, PcInv, LockInv, LocalsInv,
         HoldsRender, HoldsCapture, InRender, ForAgc
    <2>5. EchoExclusive' /\ AecmRate'
      BY <1>16 DEF InsertAgcFrame, TypeOK, EchoExclusive, AecmRate, Component
    <2>6. QueueMatchesFormat'
      BY <1>16 DEF InsertAgcFrame, TypeOK, QueueMatchesFormat, AecmRate,
         Component
    <2>7. RetryHasRoom' /\ ProcessedFormat'
      BY <1>16 DEF InsertAgcFrame, TypeOK, PcInv, LockInv, LocalsInv,
         HoldsRender, HoldsCapture, InRender, ForAgc, RetryHasRoom,
         ProcessedFormat
    <2>8. QED BY <2>1, <2>2, <2>3, <2>4, <2>5, <2>6, <2>7
  <1>17. ASSUME FinishReverse PROVE IInv'
    <2>1. TypeOK'
      BY <1>17 DEF FinishReverse, Return, TypeOK, Component, Format
    <2>2. PcInv'
      BY <1>17 DEF FinishReverse, Return, TypeOK, PcInv, InRender, ForAgc
    <2>3. LockInv'
      BY <1>17 DEF FinishReverse, Return, TypeOK, PcInv, LockInv, HoldsRender,
         HoldsCapture, InRender, ForAgc
    <2>4. LocalsInv'
      BY <1>17 DEF FinishReverse, Return, TypeOK, PcInv, LockInv, LocalsInv,
         HoldsRender, HoldsCapture, InRender, ForAgc
    <2>5. EchoExclusive' /\ AecmRate' /\ QueueMatchesFormat'
      BY <1>17, SettingsKept DEF FinishReverse
    <2>6. RetryHasRoom' /\ ProcessedFormat'
      BY <1>17 DEF FinishReverse, Return, TypeOK, PcInv, LockInv, LocalsInv,
         HoldsRender, HoldsCapture, InRender, ForAgc, RetryHasRoom,
         ProcessedFormat
    <2>7. QED BY <2>1, <2>2, <2>3, <2>4, <2>5, <2>6
  <1>18. ASSUME NEW t \in Control, NEW r \in Request, Call(t, r) PROVE IInv'
    <2>1. TypeOK'
      BY <1>18 DEF Call, TypeOK, Component, Format
    <2>2. PcInv'
      BY <1>18 DEF Call, TypeOK, PcInv, InRender, ForAgc
    <2>3. LockInv'
      BY <1>18 DEF Call, TypeOK, PcInv, LockInv, HoldsRender, HoldsCapture,
         InRender, ForAgc
    <2>4. LocalsInv'
      BY <1>18 DEF Call, TypeOK, PcInv, LockInv, LocalsInv, HoldsRender,
         HoldsCapture, InRender, ForAgc
    <2>5. EchoExclusive' /\ AecmRate' /\ QueueMatchesFormat'
      BY <1>18, SettingsKept DEF Call
    <2>6. RetryHasRoom' /\ ProcessedFormat'
      BY <1>18 DEF Call, TypeOK, PcInv, LockInv, LocalsInv, HoldsRender,
         HoldsCapture, InRender, ForAgc, RetryHasRoom, ProcessedFormat
    <2>7. QED BY <2>1, <2>2, <2>3, <2>4, <2>5, <2>6
  <1>19. ASSUME NEW t \in Control, LockRenderForControl(t) PROVE IInv'
    <2>1. TypeOK'
      BY <1>19 DEF LockRenderForControl, TypeOK, Component, Format
    <2>2. PcInv'
      BY <1>19 DEF LockRenderForControl, TypeOK, PcInv, InRender, ForAgc
    <2>3. LockInv'
      BY <1>19 DEF LockRenderForControl, TypeOK, PcInv, LockInv, HoldsRender,
         HoldsCapture, InRender, ForAgc
    <2>4. LocalsInv'
      BY <1>19 DEF LockRenderForControl, TypeOK, PcInv, LockInv, LocalsInv,
         HoldsRender, HoldsCapture, InRender, ForAgc
    <2>5. EchoExclusive' /\ AecmRate' /\ QueueMatchesFormat'
      BY <1>19, SettingsKept DEF LockRenderForControl
    <2>6. RetryHasRoom' /\ ProcessedFormat'
      BY <1>19 DEF LockRenderForControl, TypeOK, PcInv, LockInv, LocalsInv,
         HoldsRender, HoldsCapture, InRender, ForAgc, RetryHasRoom,
         ProcessedFormat
    <2>7. QED BY <2>1, <2>2, <2>3, <2>4, <2>5, <2>6
  <1>20. ASSUME NEW t \in Control, LockCaptureForControl(t) PROVE IInv'
    <2>1. TypeOK'
      BY <1>20 DEF LockCaptureForControl, TypeOK, Component, Format
    <2>2. PcInv'
      BY <1>20 DEF LockCaptureForControl, TypeOK, PcInv, InRender, ForAgc
    <2>3. LockInv'
      BY <1>20 DEF LockCaptureForControl, TypeOK, PcInv, LockInv, HoldsRender,
         HoldsCapture, InRender, ForAgc
    <2>4. LocalsInv'
      BY <1>20 DEF LockCaptureForControl, TypeOK, PcInv, LockInv, LocalsInv,
         HoldsRender, HoldsCapture, InRender, ForAgc
    <2>5. EchoExclusive' /\ AecmRate' /\ QueueMatchesFormat'
      BY <1>20, SettingsKept DEF LockCaptureForControl
    <2>6. RetryHasRoom' /\ ProcessedFormat'
      BY <1>20 DEF LockCaptureForControl, TypeOK, PcInv, LockInv, LocalsInv,
         HoldsRender, HoldsCapture, InRender, ForAgc, RetryHasRoom,
         ProcessedFormat
    <2>7. QED BY <2>1, <2>2, <2>3, <2>4, <2>5, <2>6
  <1>21. ASSUME NEW t \in Control, NEW c \in Component, NEW on \in BOOLEAN,
                Enable(t, c, on)
         PROVE  IInv'
    <2>a. /\ pc[t] = "locked" /\ pc' = [pc EXCEPT ![t] = "idle"]
          /\ UNCHANGED <<formats, stage>>
          /\ frame' = frame /\ config' = config
      BY <1>21 DEF Enable, Return, TypeOK
    <2>b. c # AGC => crit_render_ = t
      BY <1>21 DEF Enable, LockInv, HoldsRender, ForAgc
    <2>c. pc[Render] \in {"drain", "retry"} =>
             enabled'[stage] = enabled[stage] /\ queue'[stage] = queue[stage]
      <3>1. pc[Render] \in {"drain", "retry"} => c = AGC
        BY <2>b DEF LockInv, HoldsRender, InRender
      <3>2. stage # AGC /\ stage \in Component
        BY DEF TypeOK, Component, AEC, AECM, AGC
      <3>3. QED
        BY <1>21, <3>1, <3>2 DEF Enable, TypeOK
    <2>1. TypeOK'
      <3>1. enabled' \in [Component -> BOOLEAN]
        BY <1>21 DEF Enable, TypeOK
      <3>2. /\ queue' \in [Component -> Seq(NativeRate)]
            /\ \A d \in Component : Len(queue'[d]) <= Capacity
        <4>1. \/ queue' = queue
              \/ queue' = [queue EXCEPT ![c] = <<>>]
          BY <1>21 DEF Enable
        <4>2. <<>> \in Seq(NativeRate) /\ Len(<<>>) = 0 /\ 0 <= Capacity
          OBVIOUS
        <4>3. CASE queue' = queue
          BY <4>3 DEF TypeOK
        <4>4. CASE queue' = [queue EXCEPT ![c] = <<>>]
          <5>1. queue' \in [Component -> Seq(NativeRate)]
            BY <4>2, <4>4 DEF TypeOK
          <5>2. \A d \in Component : queue'[d] = IF d = c THEN <<>> ELSE queue[d]
            BY <4>4 DEF TypeOK
          <5>3. QED
            BY <4>2, <5>1, <5>2 DEF TypeOK
        <4>5. QED BY <4>1, <4>3, <4>4
      <3>3. QED
        BY <1>21, <2>a, <3>1, <3>2, ReturnType DEF Enable, ReleaseLocks, TypeOK
    <2>2. PcInv'
      BY <1>21 DEF Enable, Return, ReleaseLocks, Excluded, TypeOK, PcInv,
         InRender, ForAgc
    <2>3. LockInv'
      BY <1>21 DEF Enable, Return, ReleaseLocks, Excluded, TypeOK, PcInv,
         LockInv, HoldsRender, HoldsCapture, InRender, ForAgc
    <2>4. LocalsInv'
      BY <2>a, <2>c DEF TypeOK, PcInv, LocalsInv
    <2>5. EchoExclusive' /\ AecmRate'
      <3>1. EchoExclusive'
        BY <1>21 DEF Enable, Excluded, EchoExclusive, TypeOK, Component, AEC, AECM
      <3>2. AecmRate'
        <4>1. fwd_proc_rate' = fwd_proc_rate /\ fwd_proc_rate \in NativeRate
          BY <2>a DEF TypeOK
        <4>2. enabled'[AECM] => enabled[AECM] \/ ~(fwd_proc_rate > MaxAecmRate)
          BY <1>21 DEF Enable, TypeOK, Component
        <4>3. QED
          BY <4>1, <4>2 DEF AecmRate, NativeRate, MaxAecmRate
      <3>3. QED BY <3>1, <3>2
    <2>6. QueueMatchesFormat'
      BY <1>21 DEF Enable, Return, ReleaseLocks, Excluded, TypeOK,
         QueueMatchesFormat, AecmRate, Component
    <2>7. RetryHasRoom' /\ ProcessedFormat'
      BY <2>a, <2>c DEF RetryHasRoom, ProcessedFormat, TypeOK, PcInv
    <2>8. QED BY <2>1, <2>2, <2>3, <2>4, <2>5, <2>6, <2>7
  <1>22. ASSUME NEW t \in Control, Initialize(t) PROVE IInv'
    <2>1. TypeOK'
      BY <1>22 DEF Initialize, Return, ReleaseLocks, InitializeLocked,
         InitializeComponents, AecmRejects, TypeOK, Component, Format
    <2>2. PcInv'
      BY <1>22 DEF Initialize, Return, ReleaseLocks, InitializeLocked,
         InitializeComponents, AecmRejects, TypeOK, PcInv, InRender, ForAgc
    <2>3. LockInv'
      BY <1>22 DEF Initialize, Return, ReleaseLocks, InitializeLocked,
         InitializeComponents, AecmRejects, TypeOK, PcInv, LockInv, HoldsRender,
         HoldsCapture, InRender, ForAgc
    <2>4. LocalsInv'
      BY <1>22 DEF Initialize, Return, ReleaseLocks, InitializeLocked,
         InitializeComponents, AecmRejects, TypeOK, PcInv, LockInv, LocalsInv,
         HoldsRender, HoldsCapture, InRender, ForAgc
    <2>5. EchoExclusive' /\ AecmRate'
      BY <1>22 DEF Initialize, Return, ReleaseLocks, InitializeLocked,
         InitializeComponents, AecmRejects, TypeOK, EchoExclusive, AecmRate,
         Component
    <2>6. QueueMatchesFormat'
      BY <1>22 DEF Initialize, Return, ReleaseLocks, InitializeLocked,
         InitializeComponents, AecmRejects, TypeOK, QueueMatchesFormat, AecmRate,
         Component
    <2>7. RetryHasRoom' /\ ProcessedFormat'
      BY <1>22 DEF Initialize, Return, ReleaseLocks, InitializeLocked,
         InitializeComponents, AecmRejects, TypeOK, PcInv, LockInv, LocalsInv,
         HoldsRender, HoldsCapture, InRender, ForAgc, RetryHasRoom,
         ProcessedFormat
    <2>8. QED BY <2>1, <2>2, <2>3, <2>4, <2>5, <2>6, <2>7
  <1>23. ASSUME NEW t \in Control, InitializeWith(t) PROVE IInv'
    <2>a. request[t].format \in Format
      BY <1>23, RequestType DEF InitializeWith
    <2>b. /\ api_format' = request[t].format
          /\ fwd_proc_rate' \in NativeRate
          /\ rev_proc_rate' \in NativeRate
          /\ queue' \in [Component -> Seq(NativeRate)]
          /\ \A c \in Component : Len(queue'[c]) <= Capacity
          /\ AecmRate' /\ QueueMatchesFormat'
          /\ ~AecmRejects(fwd_proc_rate')
      BY <1>23, <2>a, InitializeLockedFacts DEF InitializeWith
    <2>1. TypeOK'
      BY <1>23, <2>a, <2>b, ReturnType DEF InitializeWith, ReleaseLocks, TypeOK
    <2>2. PcInv'
      BY <1>23 DEF InitializeWith, Return, ReleaseLocks, InitializeLocked,
         InitializeComponents, AecmRejects, TypeOK, PcInv, InRender, ForAgc
    <2>3. LockInv'
      BY <1>23 DEF InitializeWith, Return, ReleaseLocks, InitializeLocked,
         InitializeComponents, AecmRejects, TypeOK, PcInv, LockInv, HoldsRender,
         HoldsCapture, InRender, ForAgc
    <2>4. LocalsInv'
      BY <1>23 DEF InitializeWith, Return, ReleaseLocks, InitializeLocked,
         InitializeComponents, AecmRejects, TypeOK, PcInv, LockInv, LocalsInv,
         HoldsRender, HoldsCapture, InRender, ForAgc
    <2>5. EchoExclusive' /\ AecmRate'
      BY <1>23, <2>b DEF InitializeWith, EchoExclusive
    <2>6. QueueMatchesFormat'
      BY <2>b
    <2>7. RetryHasRoom' /\ ProcessedFormat'
      BY <1>23 DEF InitializeWith, Return, ReleaseLocks, InitializeLocked,
         InitializeComponents, AecmRejects, TypeOK, PcInv, LockInv, LocalsInv,
         HoldsRender, HoldsCapture, InRender, ForAgc, RetryHasRoom,
         ProcessedFormat
    <2>8. QED BY <2>1, <2>2, <2>3, <2>4, <2>5, <2>6, <2>7
  <1>24. ASSUME NEW t \in Control, SetEchoPath(t) PROVE IInv'
    <2>1. TypeOK'
      BY <1>24 DEF SetEchoPath, ReleaseLocks, TypeOK, Component, Format
    <2>2. PcInv'
      BY <1>24 DEF SetEchoPath, ReleaseLocks, TypeOK, PcInv, InRender, ForAgc
    <2>3. LockInv'
      BY <1>24 DEF SetEchoPath, ReleaseLocks, TypeOK, PcInv, LockInv,
         HoldsRender, HoldsCapture, InRender, ForAgc
    <2>4. LocalsInv'
      BY <1>24 DEF SetEchoPath, ReleaseLocks, TypeOK, PcInv, LockInv,
         LocalsInv, HoldsRender, HoldsCapture, InRender, ForAgc
    <2>5. EchoExclusive' /\ AecmRate' /\ QueueMatchesFormat'
      BY <1>24, SettingsKept DEF SetEchoPath
    <2>6. RetryHasRoom' /\ ProcessedFormat'
      BY <1>24 DEF SetEchoPath, ReleaseLocks, TypeOK, PcInv, LockInv,
         LocalsInv, HoldsRender, HoldsCapture, InRender, ForAgc, RetryHasRoom,
         ProcessedFormat
    <2>7. QED BY <2>1, <2>2, <2>3, <2>4, <2>5, <2>6
  <1>25. ASSUME NEW t \in Control, EchoPathEnabled(t) PROVE IInv'
    <2>1. TypeOK'
      <3>1. CASE Return(t)
        BY <1>25, <3>1, ReturnType DEF EchoPathEnabled, TypeOK
      <3>2. CASE ~Return(t)
        BY <1>25, <3>2 DEF EchoPathEnabled, TypeOK
      <3>3. QED BY <3>1, <3>2
    <2>2. PcInv'
      <3>1. CASE Return(t)
        BY <3>1, ReturnPc DEF Thread
      <3>2. CASE ~Return(t)
        <4>1. /\ pc' = [pc EXCEPT ![t] = "path_rate"]
              /\ UNCHANGED request
          BY <1>25, <3>2 DEF EchoPathEnabled
        <4>2. QED BY <4>1, ThreadAssumption DEF TypeOK, PcInv, InRender, Thread
      <3>3. QED BY <3>1, <3>2
    <2>3. LockInv'
      BY <1>25 DEF EchoPathEnabled, Return, TypeOK, PcInv, LockInv,
         HoldsRender, HoldsCapture, InRender, ForAgc
    <2>4. LocalsInv'
      <3>1. CASE Return(t)
        BY <1>25, <3>1, ReturnLocals DEF EchoPathEnabled, Thread
      <3>2. CASE ~Return(t)
        BY <1>25, <3>2 DEF EchoPathEnabled, TypeOK, PcInv, LocalsInv, InRender
      <3>3. QED BY <3>1, <3>2
    <2>5. EchoExclusive' /\ AecmRate' /\ QueueMatchesFormat'
      BY <1>25, SettingsKept DEF EchoPathEnabled
    <2>6. RetryHasRoom' /\ ProcessedFormat'
      BY <1>25 DEF EchoPathEnabled, Return, TypeOK, PcInv, LockInv, LocalsInv,
         HoldsRender, HoldsCapture, InRender, ForAgc, RetryHasRoom,
         ProcessedFormat
    <2>7. QED BY <2>1, <2>2, <2>3, <2>4, <2>5, <2>6
  <1>26. ASSUME NEW t \in Control, EchoPathRate(t) PROVE IInv'
    <2>1. TypeOK'
      <3>1. CASE Return(t)
        BY <1>26, <3>1, ReturnType DEF EchoPathRate, TypeOK
      <3>2. CASE ~Return(t)
        BY <1>26, <3>2 DEF EchoPathRate, TypeOK
      <3>3. QED BY <3>1, <3>2
    <2>2. PcInv'
      <3>1. CASE Return(t)
        BY <3>1, ReturnPc DEF Thread
      <3>2. CASE ~Return(t)
        <4>1. /\ pc' = [pc EXCEPT ![t] = "path_lock"]
              /\ UNCHANGED request
          BY <1>26, <3>2 DEF EchoPathRate
        <4>2. QED BY <4>1, ThreadAssumption DEF TypeOK, PcInv, InRender, Thread
      <3>3. QED BY <3>1, <3>2
    <2>3. LockInv'
      BY <1>26 DEF EchoPathRate, Return, TypeOK, PcInv, LockInv, HoldsRender,
         HoldsCapture, InRender, ForAgc
    <2>4. LocalsInv'
      <3>1. CASE Return(t)
        BY <1>26, <3>1, ReturnLocals DEF EchoPathRate, Thread
      <3>2. CASE ~Return(t)
        BY <1>26, <3>2 DEF EchoPathRate, TypeOK, PcInv, LocalsInv, InRender
      <3>3. QED BY <3>1, <3>2
    <2>5. EchoExclusive' /\ AecmRate' /\ QueueMatchesFormat'
      BY <1>26, SettingsKept DEF EchoPathRate
    <2>6. RetryHasRoom' /\ ProcessedFormat'
      BY <1>26 DEF EchoPathRate, Return, TypeOK, PcInv, LockInv, LocalsInv,
         HoldsRender, HoldsCapture, InRender, ForAgc, RetryHasRoom,
         ProcessedFormat
    <2>7. QED BY <2>1, <2>2, <2>3, <2>4, <2>5, <2>6
  <1>27. ASSUME NEW t \in Control, EchoPathLockRender(t) PROVE IInv'
    <2>1. TypeOK'
      BY <1>27 DEF EchoPathLockRender, TypeOK, Component, Format
    <2>2. PcInv'
      BY <1>27 DEF EchoPathLockRender, TypeOK, PcInv, InRender, ForAgc
    <2>3. LockInv'
      BY <1>27 DEF EchoPathLockRender, TypeOK, PcInv, LockInv, HoldsRender,
         HoldsCapture, InRender, ForAgc
    <2>4. LocalsInv'
      BY <1>27 DEF EchoPathLockRender, TypeOK, PcInv, LockInv, LocalsInv,
         HoldsRender, HoldsCapture, InRender, ForAgc
    <2>5. EchoExclusive' /\ AecmRate' /\ QueueMatchesFormat'
      BY <1>27, SettingsKept DEF EchoPathLockRender
    <2>6. RetryHasRoom' /\ ProcessedFormat'
      BY <1>27 DEF EchoPathLockRender, TypeOK, PcInv, LockInv, LocalsInv,
         HoldsRender, HoldsCapture, InRender, ForAgc, RetryHasRoom,
         ProcessedFormat
    <2>7. QED BY <2>1, <2>2, <2>3, <2>4, <2>5, <2>6
  <1>28. ASSUME NEW t \in Control, EchoPathAllocate(t) PROVE IInv'
    <2>1. TypeOK'
      BY <1>28 DEF EchoPathAllocate, Return, TypeOK, Component, Format
    <2>2. PcInv'
      BY <1>28 DEF EchoPathAllocate, Return, TypeOK, PcInv, InRender, ForAgc
    <2>3. LockInv'
      BY <1>28 DEF EchoPathAllocate, Return, TypeOK, PcInv, LockInv,
         HoldsRender, HoldsCapture, InRender, ForAgc
    <2>4. LocalsInv'
      BY <1>28 DEF EchoPathAllocate, Return, TypeOK, PcInv, LockInv,
         LocalsInv, HoldsRender, HoldsCapture, InRender, ForAgc
    <2>5. EchoExclusive' /\ AecmRate'
      BY <1>28 DEF EchoPathAllocate, Return, TypeOK, EchoExclusive, AecmRate,
         Component
    <2>6. QueueMatchesFormat'
      BY <1>28 DEF EchoPathAllocate, Return, TypeOK, QueueMatchesFormat,
         AecmRate, Component
    <2>7. RetryHasRoom' /\ ProcessedFormat'
      BY <1>28 DEF EchoPathAllocate, Return, TypeOK, PcInv, LockInv,
         LocalsInv, HoldsRender, HoldsCapture, InRender, ForAgc, RetryHasRoom,
         ProcessedFormat
    <2>8. QED BY <2>1, <2>2, <2>3, <2>4, <2>5, <2>6, <2>7
  <1>29. CASE UNCHANGED vars
    BY <1>29 DEF vars, TypeOK, PcInv, LockInv, HoldsRender, HoldsCapture,
       LocalsInv, EchoExclusive, AecmRate, QueueMatchesFormat, RetryHasRoom,
       ProcessedFormat, ForAgc
  <1>30. QED
    BY <1>1, <1>2, <1>3, <1>4, <1>5, <1>6, <1>7, <1>8, <1>9, <1>10, <1>11,
       <1>12, <1>13, <1>14, <1>15, <1>16, <1>17, <1>18, <1>19, <1>20, <1>21,
       <1>22, <1>23, <1>24, <1>25, <1>26, <1>27, <1>28, <1>29 DEF Next, NewCall,
       CaptureStep, RenderStep, ControlStep

LEMMA InitIInv == Init => IInv
  <1> SUFFICES ASSUME Init PROVE IInv
    OBVIOUS
  <1> USE ThreadAssumption, RateAssumption, CapacityAssumption DEF Init, Thread
  <1>1. TypeOK
    BY DEF TypeOK, Component, Format, RevProcRate, NativeRate
  <1>2. PcInv /\ LockInv /\ LocalsInv
    BY DEF PcInv, LockInv, HoldsRender, HoldsCapture, LocalsInv, InRender, ForAgc
  <1>3. EchoExclusive /\ AecmRate /\ QueueMatchesFormat
    BY DEF EchoExclusive, AecmRate, QueueMatchesFormat, Component
  <1>4. RetryHasRoom /\ ProcessedFormat
    BY DEF RetryHasRoom, ProcessedFormat
  <1>5. QED
    BY <1>1, <1>2, <1>3, <1>4 DEF IInv

LEMMA Invariance == Spec => []IInv
  BY InitIInv, NextIInv, PTL DEF Spec

-----------------------------------------------------------------------------
(***************************************************************************)
(* Every variable keeps its type; no render queue outgrows its capacity.   *)
(***************************************************************************)
THEOREM TypeCorrectness == Spec => []TypeOK
  BY Invariance, PTL DEF IInv

(***************************************************************************)
(* The locks exclude, and are always taken render first: a thread that     *)
(* waits for crit_render_ holds neither (audio_processing_impl.cc:598).    *)
(***************************************************************************)
THEOREM LocksRenderFirst == Spec => []LockOrder
  <1>1. IInv => LockOrder
    BY ThreadAssumption DEF IInv, TypeOK, PcInv, LockInv, LockOrder, HoldsRender,
       HoldsCapture, InRender, Thread
  <1>2. QED
    BY <1>1, Invariance, PTL

(***************************************************************************)
(* AEC and AECM are never on together (echo_cancellation_impl.cc:223), and *)
(* AECM never runs above 16 kHz (echo_control_mobile_impl.cc:317).         *)
(***************************************************************************)
THEOREM EchoComponentsSafe == Spec => [](EchoExclusive /\ AecmRate)
  BY Invariance, PTL DEF IInv

(***************************************************************************)
(* An enabled component finds in its queue only frames of the current      *)
(* processing rate (echo_cancellation_impl.cc:147).                        *)
(***************************************************************************)
THEOREM QueuesCurrent == Spec => []QueueMatchesFormat
  BY Invariance, PTL DEF IInv

(***************************************************************************)
(* The second insert always finds room (echo_cancellation_impl.cc:129).    *)
(***************************************************************************)
THEOREM RetryAlwaysWorks == Spec => []RetryHasRoom
  BY Invariance, PTL DEF IInv

(***************************************************************************)
(* A frame is processed with buffers of its own format                     *)
(* (audio_processing_impl.cc:648 and 828).                                 *)
(***************************************************************************)
THEOREM FormatsHeld == Spec => []ProcessedFormat
  BY Invariance, PTL DEF IInv

\* In these two places only the render thread moves itself.
LEMMA RenderMoves ==
    ASSUME IInv, Next, pc[Render] \in {"insert", "retry"},
           pc'[Render] # pc[Render] \/ stage' # stage
    PROVE  InsertRenderFrame \/ RetryInsert
  <1> USE ThreadAssumption DEF Thread, Goto, locals
  <1>1. TypeOK
    BY DEF IInv
  <1>2. ASSUME NEW r \in FrameRate,
               ProcessStream(r) \/ ProcessStreamBadRate(r) \/ AnalyzeReverseStream(r)
        PROVE  FALSE
    BY <1>1, <1>2 DEF TypeOK, ProcessStream, ProcessStreamBadRate, AnalyzeReverseStream
  <1>3. CASE CaptureStep
    BY <1>1, <1>3 DEF TypeOK, CaptureStep, CheckAecmRate, CopyFormat,
       LockRenderForCapture, MaybeInitializeCapture, InitializeCapture,
       LockCapture, ProcessStreamLocked, Return
  <1>4. CASE RenderStep
    BY <1>4 DEF RenderStep, MaybeInitializeRender, InitializeRender,
       DrainFullQueue, InsertAgcFrame, FinishReverse
  <1>5. ASSUME NEW t \in Control,
               ControlStep(t) \/ \E r \in Request : Call(t, r)
        PROVE  FALSE
    BY <1>1, <1>5 DEF TypeOK, Call, ControlStep, LockRenderForControl,
       LockCaptureForControl, Enable, Initialize, InitializeWith, SetEchoPath,
       EchoPathEnabled, EchoPathRate, EchoPathLockRender, EchoPathAllocate, Return
  <1>6. QED
    BY <1>2, <1>3, <1>4, <1>5 DEF Next, NewCall

(***************************************************************************)
(* No far-end frame is lost between the render thread and an enabled echo  *)
(* component (echo_cancellation_impl.cc:124).                              *)
(***************************************************************************)
THEOREM NoFrameLost == Spec => EveryFrameQueued
  <1> DEFINE A == \A c \in {AEC, AECM} : PassesComponent(c) /\ enabled[c]
                    => queue'[c] = Append(queue[c], rev_proc_rate)
  <1>1. IInv /\ [Next]_vars => [A]_vars
    <2> SUFFICES ASSUME IInv, Next, NEW c \in {AEC, AECM},
                        PassesComponent(c), enabled[c]
                 PROVE  queue'[c] = Append(queue[c], rev_proc_rate)
      OBVIOUS
    <2>1. TypeOK /\ c \in Component /\ stage = c
      BY DEF IInv, Component, PassesComponent
    <2>2. InsertRenderFrame \/ RetryInsert
      BY RenderMoves, <2>1 DEF PassesComponent
    <2>3. CASE InsertRenderFrame
      BY <2>1, <2>3, ThreadAssumption
      DEF InsertRenderFrame, PassesComponent, TypeOK, Thread
    <2>4. CASE RetryInsert
      BY <2>1, <2>4 DEF RetryInsert, TypeOK
    <2>5. QED BY <2>2, <2>3, <2>4
  <1>2. QED
    BY <1>1, Invariance, PTL DEF Spec, EveryFrameQueued
-----------------------------------------------------------------------------
\* The places where a thread waits for a lock to be free.
NeedsRender(t) == pc[t] \in {"want_render", "path_lock", "relock"}
NeedsCapture(t) == pc[t] \in {"aecm_check", "copy_format", "init", "want_capture", "drain",
                              "agc", "path_enabled", "path_alloc"}

Blocked(t) == \/ NeedsRender(t) /\ crit_render_ # NoOne
              \/ NeedsCapture(t) /\ crit_capture_ # NoOne

\* Of the calls that are in progress one can go on.
SomeCallMoves == (\E t \in Thread : pc[t] # "idle")
                    => \E t \in Thread : pc[t] # "idle" /\ ~Blocked(t)

(***************************************************************************)
(* Not every thread waits for another, for any number of control threads:  *)
(* who holds crit_capture_ waits for nobody, and who holds crit_render_    *)
(* waits for crit_capture_ at most (audio_processing_impl.cc:598).         *)
(***************************************************************************)
THEOREM NoDeadlock == Spec => []SomeCallMoves
  <1>1. IInv => SomeCallMoves
    <2> SUFFICES ASSUME IInv, NEW t \in Thread, pc[t] # "idle"
                 PROVE  \E u \in Thread : pc[u] # "idle" /\ ~Blocked(u)
      BY DEF SomeCallMoves
    <2>1. /\ crit_render_ \in Thread \cup {NoOne} /\ crit_capture_ \in Thread \cup {NoOne}
          /\ Capture \in Thread /\ Render \in Thread /\ Control \in SUBSET Thread
      BY DEF IInv, TypeOK, Thread
    <2>2. ASSUME crit_capture_ # NoOne
          PROVE  \E u \in Thread : pc[u] # "idle" /\ ~Blocked(u)
      <3>1. crit_capture_ \in Thread /\ pc[crit_capture_] \in {"process", "locked"}
        BY <2>1, <2>2 DEF IInv, LockInv, HoldsCapture
      <3>2. QED BY <3>1 DEF Blocked, NeedsRender, NeedsCapture
    <2>3. ASSUME crit_render_ # NoOne, crit_capture_ = NoOne
          PROVE  \E u \in Thread : pc[u] # "idle" /\ ~Blocked(u)
      <3>1. /\ crit_render_ \in Thread
            /\ pc[crit_render_] \in {"maybe_init", "init", "path_alloc", "want_capture",
                                     "locked"} \cup InRender
        BY <2>1, <2>3 DEF IInv, LockInv, HoldsRender
      <3>2. QED BY <2>3, <3>1 DEF Blocked, NeedsRender, InRender
    <2>4. CASE crit_render_ = NoOne /\ crit_capture_ = NoOne
      BY <2>4 DEF Blocked
    <2>5. QED BY <2>2, <2>3, <2>4
  <1>2. QED BY <1>1, Invariance, PTL
-----------------------------------------------------------------------------
\* The capture side is initialized at more than 16 kHz only while AECM is off.
AecmOffAbove ==
    [][InitializeCapture \/ (\E t \in Control : InitializeWith(t))
          => ~enabled[AECM] \/ api_format'.in <= MaxAecmRate]_vars

\* Then no frame is brought to another rate.
SameRate == fwd_proc_rate = api_format.in

\* A rate that AECM need not change is kept.
LEMMA NativeRateKept ==
    ASSUME NEW rate \in NativeRate, ~(enabled[AECM] /\ rate > MaxAecmRate)
    PROVE  FwdProcRate(rate) = rate
  <1> DEFINE P(n) == n >= rate /\ \A m \in NativeRate : m >= rate => n <= m
  <1>1. P(rate)
    BY DEF NativeRate
  <1>2. \A n \in NativeRate : P(n) => n = rate
    BY DEF NativeRate
  <1>3. FwdProcRate(rate) = CHOOSE n \in NativeRate : P(n)
    BY DEF FwdProcRate, NativeRate
  <1> HIDE DEF P
  <1>4. QED BY <1>1, <1>2, <1>3

LEMMA NextSameRate ==
    ASSUME IInv, SameRate, [Next]_vars,
           [InitializeCapture \/ (\E t \in Control : InitializeWith(t))
               => ~enabled[AECM] \/ api_format'.in <= MaxAecmRate]_vars
    PROVE  SameRate'
  <1> USE ThreadAssumption DEF Thread
  <1>1. ASSUME NEW f \in Format, InitializeLocked(f),
               ~enabled[AECM] \/ f.in <= MaxAecmRate
        PROVE  SameRate'
    <2>1. f.in \in NativeRate
      BY DEF Format
    <2>2. ~(enabled[AECM] /\ f.in > MaxAecmRate)
      BY <1>1, <2>1 DEF NativeRate, MaxAecmRate
    <2>3. QED BY <1>1, <2>1, <2>2, NativeRateKept DEF InitializeLocked, SameRate
  <1>2. CASE InitializeCapture
    <2>1. config[Capture] \in Format /\ InitializeLocked(config[Capture])
      BY <1>2 DEF InitializeCapture, IInv, LocalsInv
    <2>2. pc'[Capture] # pc[Capture]
      BY <1>2 DEF InitializeCapture, Return, IInv, TypeOK
    <2>3. ~enabled[AECM] \/ api_format'.in <= MaxAecmRate
      BY <1>2, <2>2 DEF vars
    <2>4. QED BY <1>1, <2>1, <2>3 DEF InitializeLocked
  <1>3. ASSUME NEW t \in Control, InitializeWith(t) PROVE SameRate'
    <2>1. request[t].format \in Format /\ InitializeLocked(request[t].format)
      BY <1>3, RequestType, RateAssumption DEF InitializeWith, IInv
    <2>2. pc'[t] # pc[t]
      BY <1>3 DEF InitializeWith, Return, IInv, TypeOK
    <2>3. ~enabled[AECM] \/ api_format'.in <= MaxAecmRate
      BY <1>3, <2>2 DEF vars
    <2>4. QED BY <1>1, <2>1, <2>3 DEF InitializeLocked
  <1>4. CASE InitializeRender
    <2>1. InitializeLocked(config[Render])
      BY <1>4 DEF InitializeRender
    <2>2. config[Render] = [api_format EXCEPT !.rev = frame[Render]] /\ frame[Render] \in NativeRate
      BY <1>4 DEF InitializeRender, IInv, LocalsInv
    <2>3. config[Render] \in Format /\ config[Render].in = api_format.in
      BY <2>2 DEF Format, IInv, TypeOK
    <2>4. enabled[AECM] => api_format.in <= MaxAecmRate
      BY DEF SameRate, IInv, AecmRate
    <2>5. QED BY <1>1, <2>1, <2>3, <2>4 DEF IInv, TypeOK, Component
  <1>5. CASE UNCHANGED formats
    BY <1>5 DEF formats, SameRate
  <1>6. QED
    BY <1>2, <1>3, <1>4, <1>5
    DEF Next, NewCall, CaptureStep, RenderStep, ControlStep, ProcessStream,
        ProcessStreamBadRate, AnalyzeReverseStream, Call, CheckAecmRate, CopyFormat,
        LockRenderForCapture, MaybeInitializeCapture, LockCapture, ProcessStreamLocked,
        MaybeInitializeRender, InsertRenderFrame, DrainFullQueue, RetryInsert,
        InsertAgcFrame, FinishReverse, LockRenderForControl, LockCaptureForControl, Enable,
        Initialize, SetEchoPath, EchoPathEnabled, EchoPathRate, EchoPathLockRender,
        EchoPathAllocate, vars

(***************************************************************************)
(* A capture frame is resampled, which audio_buffer.cc:369 rules out, only *)
(* after the instance was initialized for another rate above 16 kHz with   *)
(* AECM on: by Initialize with new formats, or by a ProcessStream that had *)
(* checked the rate before AECM was enabled (audio_processing_impl.cc:621  *)
(* and 645).  Enable, the reverse stream and Initialize with the formats   *)
(* kept never bring it about.                                              *)
(***************************************************************************)
THEOREM OnlyAecmResamples == Spec /\ AecmOffAbove => []CaptureNotResampled
  <1> DEFINE T == InitializeCapture \/ (\E t \in Control : InitializeWith(t))
                     => ~enabled[AECM] \/ api_format'.in <= MaxAecmRate
  <1>1. Init => SameRate
    BY DEF Init, SameRate
  <1>2. IInv /\ SameRate /\ [Next]_vars /\ [T]_vars => SameRate'
    BY NextSameRate
  <1>3. SameRate => CaptureNotResampled
    BY DEF SameRate, CaptureNotResampled
  <1>4. QED BY <1>1, <1>2, <1>3, Invariance, PTL DEF Spec, AecmOffAbove
=============================================================================
