----------------------------- MODULE RingBuffer -----------------------------
(***************************************************************************)
(* common_audio/ring_buffer.c: the circular buffer under every far-end     *)
(* buffer and every frame-to-block conversion of AEC and AECM.  Both       *)
(* positions run from 0 to element_count, the end included: a position     *)
(* wraps only when it would go beyond it.  Equal positions mean an empty   *)
(* or a full buffer; rw_wrap tells which.  Each call is made by one thread *)
(* (its callers hold crit_capture_) and is one action.                     *)
(***************************************************************************)
EXTENDS Integers

CONSTANTS element_count, Item, Zero,
          MaxBlock    \* bound: the longest block of one call

ASSUME RingAssumption == /\ element_count \in Nat \ {0}
                         /\ Zero \in Item
                         /\ MaxBlock \in Nat

VARIABLES read_pos, write_pos,
          rw_wrap,    \* "SAME_WRAP" or "DIFF_WRAP"
          data,       \* the cells
          got, ret    \* what the last read copied out; the last count returned

vars == <<read_pos, write_pos, rw_wrap, data, got, ret>>

Cell == 0 .. element_count - 1

AtMost(n, bound) == IF n < bound THEN n ELSE bound

\* Faulty variant: the wrap indicator is not looked at.
available_read_NoWrap == IF write_pos >= read_pos THEN write_pos - read_pos
                         ELSE element_count - read_pos + write_pos

available_read == IF rw_wrap = "SAME_WRAP" THEN write_pos - read_pos
                  ELSE element_count - read_pos + write_pos

available_write == element_count - available_read

\* WebRtc_CreateBuffer and WebRtc_InitBuffer.
Init == /\ read_pos = 0 /\ write_pos = 0
        /\ rw_wrap = "SAME_WRAP"
        /\ data = [c \in Cell |-> Zero]
        /\ got = <<>> /\ ret = 0

InitBuffer == /\ read_pos' = 0 /\ write_pos' = 0
              /\ rw_wrap' = "SAME_WRAP"
              /\ data' = [c \in Cell |-> Zero]
              /\ ret' = 0
              /\ UNCHANGED got

\* What fits is copied: up to the end of the cells, the rest to their front.
WriteBuffer(k, xs) ==
    LET n == AtMost(k, available_write)
        margin == element_count - write_pos
    IN  /\ data' = [c \in Cell |->
                      IF c >= write_pos /\ c - write_pos < n THEN xs[c - write_pos + 1]
                      ELSE IF c + margin < n THEN xs[c + margin + 1] ELSE data[c]]
        /\ write_pos' = IF n > margin THEN n - margin ELSE write_pos + n
        /\ rw_wrap' = IF n > margin THEN "DIFF_WRAP" ELSE rw_wrap
        /\ ret' = n
        /\ UNCHANGED <<read_pos, got>>

\* By how much the read position moves when m elements are asked for.
Clamped(m) == IF m > available_read THEN available_read
              ELSE IF m < -available_write THEN -available_write ELSE m

\* Faulty variant: going back across the front leaves the wrap indicator.
MoveBy_KeepsWrap(m) ==
    LET pos == read_pos + m
    IN  /\ read_pos' = IF pos > element_count THEN pos - element_count
                       ELSE IF pos < 0 THEN pos + element_count ELSE pos
        /\ rw_wrap' = IF pos > element_count THEN "SAME_WRAP" ELSE rw_wrap
        /\ ret' = m

MoveBy(m) ==
    LET pos == read_pos + m
    IN  /\ read_pos' = IF pos > element_count THEN pos - element_count
                       ELSE IF pos < 0 THEN pos + element_count ELSE pos
        /\ rw_wrap' = IF pos > element_count THEN "SAME_WRAP"
                      ELSE IF pos < 0 THEN "DIFF_WRAP" ELSE rw_wrap
        /\ ret' = m

MoveReadPtr(m) == /\ MoveBy(Clamped(m))
                  /\ UNCHANGED <<write_pos, data, got>>

\* GetBufferReadRegions: the second region begins where the cells do.
ReadRegions(n) == LET margin == element_count - read_pos
                  IN  [i \in 1 .. n |-> IF i <= margin THEN data[read_pos + i - 1]
                                                       ELSE data[i - margin - 1]]

ReadBuffer(k) == LET n == AtMost(k, available_read)
                 IN  /\ got' = ReadRegions(n)
                     /\ MoveBy(Clamped(n))
                     /\ UNCHANGED <<write_pos, data>>

Next == \/ \E k \in 0 .. MaxBlock : \E xs \in [1 .. k -> Item] : WriteBuffer(k, xs)
        \/ \E k \in 0 .. MaxBlock : ReadBuffer(k)
        \/ \E m \in -MaxBlock .. MaxBlock : MoveReadPtr(m)
        \/ InitBuffer

Spec == Init /\ [][Next]_vars
-----------------------------------------------------------------------------
TypeOK == /\ read_pos \in 0 .. element_count
          /\ write_pos \in 0 .. element_count
          /\ rw_wrap \in {"SAME_WRAP", "DIFF_WRAP"}
          /\ data \in [Cell -> Item]
          /\ ret \in Int

(***************************************************************************)
(* rw_wrap and the two positions agree after any series of writes, reads   *)
(* and moves in both directions: the writer is ahead within one round or   *)
(* behind across the end, so that available_read (line 228), a difference  *)
(* of size_t, never runs below zero nor above element_count.               *)
(***************************************************************************)
WrapConsistent == \/ rw_wrap = "SAME_WRAP" /\ read_pos <= write_pos
                  \/ rw_wrap = "DIFF_WRAP" /\ write_pos <= read_pos

\* The i-th oldest cell, i from 0.
CellAt(i) == IF write_pos + i < element_count THEN write_pos + i
             ELSE write_pos + i - element_count

Line == [i \in Cell |-> data[CellAt(i)]]

Stream == INSTANCE DelayLine WITH Length <- element_count, line <- Line,
                                  unread <- available_read

(***************************************************************************)
(* Reads, writes and moves (ring_buffer.h) act on one stream: no element   *)
(* is lost, repeated or taken from the wrong round, and moving back gives  *)
(* again what was read before, wherever the two positions are.             *)
(***************************************************************************)
IsDelayLine == Stream!Spec
=============================================================================
