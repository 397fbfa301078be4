-------------------------- MODULE RingBufferProofs --------------------------
(***************************************************************************)
(* Proofs about RingBuffer, for every size and every kind of element: the  *)
(* wrap indicator agrees with the positions, and the buffer implements     *)
(* DelayLine.                                                              *)
(***************************************************************************)
EXTENDS RingBuffer, TLAPS

IInv == TypeOK /\ WrapConsistent

(* What is readable and what is free share the cells.                      *)
LEMMA Available == 
    ASSUME IInv
    PROVE  /\ available_read \in 0 .. element_count
           /\ available_write \in 0 .. element_count
  BY RingAssumption DEF IInv, TypeOK, WrapConsistent, available_read, available_write

(* MoveReadPtr (ring_buffer.c:192) moves within what was asked for, and    *)
(* what is readable changes by exactly that much.                          *)
LEMMA MoveChangesAvailable == 
    ASSUME IInv, NEW m \in -available_write .. available_read, MoveBy(m),
           write_pos' = write_pos
    PROVE  /\ read_pos' \in 0 .. element_count
           /\ rw_wrap' \in {"SAME_WRAP", "DIFF_WRAP"}
           /\ WrapConsistent'
           /\ available_read' = available_read - m
           /\ ret' = m
  <1>1. m \in Int
    BY Available, RingAssumption
  <1>2. CASE rw_wrap = "SAME_WRAP"
    BY <1>1, <1>2, RingAssumption
       DEF IInv, TypeOK, WrapConsistent, MoveBy, available_read, available_write
  <1>3. CASE rw_wrap = "DIFF_WRAP"
    BY <1>1, <1>3, RingAssumption
       DEF IInv, TypeOK, WrapConsistent, MoveBy, available_read, available_write
  <1> QED BY <1>2, <1>3 DEF IInv, TypeOK

(* The clamped count is within the buffer, and is the count itself when    *)
(* that much can be read.                                                  *)
LEMMA ClampedInRange == 
    ASSUME IInv, NEW m \in Int
    PROVE  /\ Clamped(m) \in -available_write .. available_read
           /\ m \in 0 .. available_read => Clamped(m) = m
  BY Available, RingAssumption DEF Clamped

(* WebRtc_WriteBuffer (ring_buffer.c:158): the write position follows the  *)
(* elements that fitted.                                                   *)
LEMMA WriteChangesAvailable == 
    ASSUME IInv, NEW k \in Nat, NEW xs \in [1 .. k -> Item], WriteBuffer(k, xs)
    PROVE  /\ IInv'
           /\ available_read' = available_read + AtMost(k, available_write)
           /\ ret' = AtMost(k, available_write)
  <1> DEFINE n == AtMost(k, available_write)
  <1>1. n \in 0 .. available_write /\ n <= k
    BY Available, RingAssumption DEF AtMost
  <1>2. /\ write_pos' = IF n > element_count - write_pos
                        THEN n - (element_count - write_pos) ELSE write_pos + n
        /\ rw_wrap' = IF n > element_count - write_pos THEN "DIFF_WRAP" ELSE rw_wrap
        /\ ret' = n
        /\ read_pos' = read_pos
    BY DEF WriteBuffer
  <1>3. data' \in [Cell -> Item]
    <2>1. ASSUME NEW c \in Cell, c >= write_pos, c - write_pos < n
          PROVE  xs[c - write_pos + 1] \in Item
      BY <2>1, <1>1, Available, RingAssumption DEF IInv, TypeOK, Cell
    <2>2. ASSUME NEW c \in Cell, c + (element_count - write_pos) < n
          PROVE  xs[c + (element_count - write_pos) + 1] \in Item
      BY <2>2, <1>1, Available, RingAssumption DEF IInv, TypeOK, Cell
    <2>3. data \in [Cell -> Item]
      BY DEF IInv, TypeOK
    <2> HIDE DEF n
    <2>4. data' = [c \in Cell |->
                     IF c >= write_pos /\ c - write_pos < n THEN xs[c - write_pos + 1]
                     ELSE IF c + (element_count - write_pos) < n
                          THEN xs[c + (element_count - write_pos) + 1] ELSE data[c]]
      BY DEF WriteBuffer, n
    <2> QED BY <2>1, <2>2, <2>3, <2>4
  <1> HIDE DEF n
  <1>4. CASE rw_wrap = "SAME_WRAP"
    BY <1>1, <1>2, <1>3, <1>4, RingAssumption
       DEF IInv, TypeOK, WrapConsistent, available_read, available_write, n
  <1>5. CASE rw_wrap = "DIFF_WRAP"
    BY <1>1, <1>2, <1>3, <1>5, RingAssumption
       DEF IInv, TypeOK, WrapConsistent, available_read, available_write, n
  <1> QED BY <1>4, <1>5 DEF IInv, TypeOK

(* One call keeps the invariant.                                           *)
LEMMA NextKeepsInvariant == ASSUME IInv, [Next]_vars PROVE IInv'
  <1>1. CASE \E k \in 0 .. MaxBlock : \E xs \in [1 .. k -> Item] : WriteBuffer(k, xs)
    BY <1>1, WriteChangesAvailable, RingAssumption
  <1>2. ASSUME NEW k \in 0 .. MaxBlock, ReadBuffer(k)
        PROVE  IInv'
    <2> DEFINE n == AtMost(k, available_read)
    <2>1. n \in 0 .. available_read /\ n \in Int
      BY Available, RingAssumption DEF AtMost
    <2>2. MoveBy(n)
      BY <1>2, <2>1, ClampedInRange DEF ReadBuffer
    <2>3. n \in -available_write .. available_read
      BY <2>1, Available, RingAssumption
    <2> HIDE DEF n
    <2> QED BY <1>2, <2>1, <2>2, <2>3, MoveChangesAvailable
            DEF ReadBuffer, IInv, TypeOK
  <1>3. ASSUME NEW m \in -MaxBlock .. MaxBlock, MoveReadPtr(m)
        PROVE  IInv'
    <2>1. m \in Int
      BY RingAssumption
    <2>2. Clamped(m) \in -available_write .. available_read /\ Clamped(m) \in Int
      BY <2>1, ClampedInRange, Available, RingAssumption
    <2> QED BY <1>3, <2>2, MoveChangesAvailable DEF MoveReadPtr, IInv, TypeOK
  <1>4. CASE InitBuffer
    BY <1>4, RingAssumption DEF InitBuffer, IInv, TypeOK, WrapConsistent, Cell
  <1>5. CASE UNCHANGED vars
    BY <1>5 DEF vars, IInv, TypeOK, WrapConsistent, Cell
  <1> QED BY <1>1, <1>2, <1>3, <1>4, <1>5 DEF Next

(* After any series of calls the wrap indicator of ring_buffer.c agrees    *)
(* with its two positions, so that available_read never leaves             *)
(* 0 .. element_count.                                                     *)
THEOREM RingInvariant == Spec => [](TypeOK /\ WrapConsistent)
  <1>1. Init => IInv
    BY RingAssumption DEF Init, IInv, TypeOK, WrapConsistent, Cell
  <1>2. IInv /\ [Next]_vars => IInv'
    BY NextKeepsInvariant
  <1> QED BY <1>1, <1>2, PTL DEF Spec, IInv
-----------------------------------------------------------------------------
(* The refinement.  CellAt is a rotation of the cells.                     *)
LEMMA CellAtIsCell == ASSUME IInv, NEW i \in Cell PROVE CellAt(i) \in Cell
  BY RingAssumption DEF IInv, TypeOK, CellAt, Cell

(* A write appends to the line.                                            *)
LEMMA WriteAppends == 
    ASSUME IInv, NEW k \in Nat, NEW xs \in [1 .. k -> Item], WriteBuffer(k, xs)
    PROVE  Stream!Write(k, xs)
  <1> DEFINE n == AtMost(k, available_write)
             new == [i \in 0 .. element_count - 1 |->
                       IF i + n < element_count THEN Line[i + n]
                                                ELSE xs[i + n - element_count + 1]]
  <1>1. n \in 0 .. available_write /\ n <= k /\ n <= element_count /\ n \in Nat
    BY Available, RingAssumption DEF AtMost
  <1>2. write_pos' = IF n > element_count - write_pos
                     THEN n - (element_count - write_pos) ELSE write_pos + n
    BY DEF WriteBuffer
  <1>3. data' = [c \in Cell |->
                   IF c >= write_pos /\ c - write_pos < n THEN xs[c - write_pos + 1]
                   ELSE IF c + (element_count - write_pos) < n
                        THEN xs[c + (element_count - write_pos) + 1] ELSE data[c]]
    BY DEF WriteBuffer
  <1>4. write_pos \in 0 .. element_count /\ element_count \in Nat \ {0}
    BY RingAssumption DEF IInv, TypeOK
  <1> HIDE DEF n
  <1>5. ASSUME NEW i \in Cell
        PROVE  Line'[i] = IF i + n < element_count THEN Line[i + n]
                          ELSE xs[i + n - element_count + 1]
    <2>1. Line'[i] = data'[CellAt(i)']
      BY DEF Line
    <2>2. CellAt(i)' = IF write_pos' + i < element_count THEN write_pos' + i
                       ELSE write_pos' + i - element_count
      BY DEF CellAt
    <2>3. CellAt(i)' \in Cell
      BY <1>1, <1>2, <1>4, <2>2 DEF Cell
    <2>4. CASE i + n < element_count
      <3>1. Line[i + n] = data[CellAt(i + n)]
        <4>1. i + n \in Cell
          BY <1>1, <1>4, <2>4 DEF Cell
        <4> QED BY <4>1 DEF Line
      <3>2. CellAt(i)' = CellAt(i + n)
        BY <1>1, <1>2, <1>4, <2>2, <2>4 DEF CellAt, Cell
      <3>3. /\ ~(CellAt(i)' >= write_pos /\ CellAt(i)' - write_pos < n)
            /\ ~(CellAt(i)' + (element_count - write_pos) < n)
        BY <1>1, <1>2, <1>4, <2>2, <2>4 DEF Cell
      <3>4. data'[CellAt(i)'] = data[CellAt(i)']
        BY <1>3, <2>3, <3>3
      <3> QED BY <2>1, <2>4, <3>1, <3>2, <3>4
    <2>5. CASE i + n >= element_count
      <3> DEFINE j == i + n - element_count + 1
      <3>1. CASE CellAt(i)' >= write_pos /\ CellAt(i)' - write_pos < n
        <4>1. CellAt(i)' - write_pos + 1 = j
          BY <1>1, <1>2, <1>4, <2>2, <2>5, <3>1 DEF Cell
        <4>2. data'[CellAt(i)'] = xs[CellAt(i)' - write_pos + 1]
          BY <1>3, <2>3, <3>1
        <4> QED BY <1>1, <1>4, <2>1, <2>5, <4>1, <4>2 DEF Cell
      <3>2. CASE ~(CellAt(i)' >= write_pos /\ CellAt(i)' - write_pos < n)
        <4>1. /\ CellAt(i)' + (element_count - write_pos) < n
              /\ CellAt(i)' + (element_count - write_pos) + 1 = j
          BY <1>1, <1>2, <1>4, <2>2, <2>5, <3>2 DEF Cell
        <4>2. data'[CellAt(i)'] = xs[CellAt(i)' + (element_count - write_pos) + 1]
          BY <1>3, <2>3, <3>2, <4>1
        <4> QED BY <1>1, <1>4, <2>1, <2>5, <4>1, <4>2 DEF Cell
      <3> QED BY <3>1, <3>2
    <2> QED BY <1>1, <1>4, <2>4, <2>5 DEF Cell
  <1>6. Line' = new
    BY <1>5 DEF Line, Cell
  <1>7. available_read' = available_read + n /\ ret' = n
    BY WriteChangesAvailable DEF n
  <1>8. got' = got
    BY DEF WriteBuffer
  <1>9. Stream!AtMost(k, element_count - available_read) = n
    BY DEF n, AtMost, Stream!AtMost, available_write
  <1> QED BY <1>6, <1>7, <1>8, <1>9 DEF Stream!Write

(* The unread cells begin at the read position.                            *)
LEMMA RegionsAreTheLine == 
    ASSUME IInv, NEW n \in 0 .. available_read
    PROVE  ReadRegions(n) = [i \in 1 .. n |-> Line[element_count - available_read + i - 1]]
  <1>1. /\ read_pos \in 0 .. element_count /\ write_pos \in 0 .. element_count
        /\ element_count \in Nat \ {0}
    BY RingAssumption DEF IInv, TypeOK
  <1>2. ASSUME NEW i \in 1 .. n
        PROVE  Line[element_count - available_read + i - 1]
                 = IF i <= element_count - read_pos THEN data[read_pos + i - 1]
                   ELSE data[i - (element_count - read_pos) - 1]
    <2> DEFINE j == element_count - available_read + i - 1
    <2>1. j \in Cell
      BY <1>1, Available DEF Cell
    <2>2. Line[j] = data[CellAt(j)]
      BY <2>1 DEF Line
    <2>3. CellAt(j) = IF i <= element_count - read_pos THEN read_pos + i - 1
                      ELSE i - (element_count - read_pos) - 1
      <3>1. CASE rw_wrap = "SAME_WRAP"
        BY <1>1, <3>1, Available DEF CellAt, available_read, IInv, WrapConsistent
      <3>2. CASE rw_wrap = "DIFF_WRAP"
        BY <1>1, <3>2, Available DEF CellAt, available_read, IInv, WrapConsistent
      <3> QED BY <3>1, <3>2 DEF IInv, TypeOK
    <2> QED BY <2>2, <2>3
  <1> QED BY <1>2 DEF ReadRegions

(* One call is one step of the stream.                                     *)
LEMMA NextRefines == ASSUME IInv, [Next]_vars PROVE [Stream!Next]_(Stream!vars)
  <1>1. CASE \E k \in 0 .. MaxBlock : \E xs \in [1 .. k -> Item] : WriteBuffer(k, xs)
    <2>1. PICK k \in 0 .. MaxBlock : \E xs \in [1 .. k -> Item] : WriteBuffer(k, xs)
      BY <1>1
    <2>2. PICK xs \in [1 .. k -> Item] : WriteBuffer(k, xs)
      BY <2>1
    <2>3. Stream!Write(k, xs)
      BY <2>2, WriteAppends, RingAssumption
    <2> QED BY <2>3 DEF Stream!Next
  <1>2. ASSUME NEW k \in 0 .. MaxBlock, ReadBuffer(k)
        PROVE  Stream!Next
    <2> DEFINE n == AtMost(k, available_read)
    <2>1. n \in 0 .. available_read /\ n \in Int
      BY Available, RingAssumption DEF AtMost
    <2>2. MoveBy(n) /\ got' = ReadRegions(n)
      BY <1>2, <2>1, ClampedInRange DEF ReadBuffer
    <2>3. n \in -available_write .. available_read
      BY <2>1, Available, RingAssumption
    <2>4. Stream!AtMost(k, available_read) = n
      BY DEF AtMost, Stream!AtMost
    <2> HIDE DEF n
    <2>5. write_pos' = write_pos /\ data' = data
      BY <1>2 DEF ReadBuffer
    <2>6. available_read' = available_read - n /\ ret' = n
      BY <2>2, <2>3, <2>5, MoveChangesAvailable
    <2>7. Line' = Line
      BY <2>5 DEF Line, CellAt
    <2>8. got' = [i \in 1 .. n |-> Line[element_count - available_read + i - 1]]
      BY <2>1, <2>2, RegionsAreTheLine
    <2>9. Stream!Read(k)
      BY <2>4, <2>6, <2>7, <2>8 DEF Stream!Read
    <2> QED BY <2>9 DEF Stream!Next
  <1>3. ASSUME NEW m \in -MaxBlock .. MaxBlock, MoveReadPtr(m)
        PROVE  Stream!Next
    <2>1. m \in Int
      BY RingAssumption
    <2> DEFINE c == Clamped(m)
    <2>2. c \in -available_write .. available_read /\ c \in Int
      BY <2>1, ClampedInRange, Available, RingAssumption
    <2>3. /\ c = IF m > available_read THEN available_read
                 ELSE IF m < available_read - element_count
                      THEN available_read - element_count ELSE m
          /\ c \in available_read - element_count .. available_read
      BY <2>1, <2>2, Available, RingAssumption DEF Clamped, available_write
    <2>4. MoveBy(c) /\ write_pos' = write_pos /\ data' = data /\ got' = got
      BY <1>3 DEF MoveReadPtr
    <2> HIDE DEF c
    <2>5. available_read' = available_read - c /\ ret' = c
      BY <2>2, <2>4, MoveChangesAvailable
    <2>6. Line' = Line
      BY <2>4 DEF Line, CellAt
    <2>7. Stream!Move(m)
      BY <2>3, <2>4, <2>5, <2>6 DEF Stream!Move
    <2> QED BY <2>7 DEF Stream!Next
  <1>4. CASE InitBuffer
    <2>1. Line' = [i \in 0 .. element_count - 1 |-> Zero]
      BY <1>4, RingAssumption DEF InitBuffer, Line, CellAt, Cell
    <2>2. available_read' = 0
      BY <1>4 DEF InitBuffer, available_read
    <2> QED BY <1>4, <2>1, <2>2 DEF InitBuffer, Stream!Clear, Stream!Next
  <1>5. CASE UNCHANGED vars
    BY <1>5 DEF vars, Stream!vars, Line, CellAt, available_read
  <1> QED BY <1>1, <1>2, <1>3, <1>4, <1>5 DEF Next

(* For every size and every kind of element ring_buffer.c is a delay line: *)
(* each call is a call of DelayLine that returns the same.                 *)
THEOREM RingIsDelayLine == Spec => IsDelayLine
  <1>1. Init => Stream!Init
    BY RingAssumption DEF Init, Stream!Init, Line, CellAt, Cell, available_read
  <1>2. IInv /\ [Next]_vars => [Stream!Next]_(Stream!vars)
    BY NextRefines
  <1>3. Spec => []IInv
    BY RingInvariant, PTL DEF IInv
  <1> QED BY <1>1, <1>2, <1>3, PTL DEF Spec, IsDelayLine, Stream!Spec
=============================================================================
