-------------------------- MODULE SwapQueueProofs --------------------------
(***************************************************************************)
(* For every size of the queue and every set of items: the invariants of   *)
(* SwapQueue, and that it implements BoundedFifo.                          *)
(***************************************************************************)
EXTENDS SwapQueue, SequenceTheorems, TLAPS

\* The inductive invariant: each part needs the other two.
IInv == TypeOK /\ IndexRelation /\ NoSharedBuffer

-----------------------------------------------------------------------------
LEMMA InitIInv == Init => IInv
  BY SizeAssumption, SMT DEF Init, IInv, TypeOK, IndexRelation, NoSharedBuffer,
                             Slot, Buffer

LEMMA AdvanceSlot == ASSUME NEW s \in Slot PROVE Advance(s) \in Slot
  BY SizeAssumption DEF Slot, Advance

LEMMA NextIInv == IInv /\ [Next]_vars => IInv'
  <1> SUFFICES ASSUME IInv, [Next]_vars PROVE IInv'
    OBVIOUS
  <1> USE SizeAssumption DEF IInv, TypeOK
  <1>1. ASSUME NEW v \in Item, Fill(v) PROVE IInv'
    BY <1>1 DEF Fill, indices, IndexRelation, NoSharedBuffer
  <1>2. CASE Insert
    <2>1. TypeOK'
      BY <1>2, AdvanceSlot DEF Insert
    <2>2. IndexRelation'
      BY <1>2 DEF Insert, Advance, IndexRelation, Slot
    <2>3. NoSharedBuffer'
      BY <1>2 DEF Insert, NoSharedBuffer
    <2>4. QED BY <2>1, <2>2, <2>3
  <1>3. CASE InsertFull
    BY <1>3 DEF InsertFull, indices, IndexRelation, NoSharedBuffer
  <1>4. CASE Remove
    <2>1. TypeOK'
      BY <1>4, AdvanceSlot DEF Remove
    <2>2. IndexRelation'
      BY <1>4 DEF Remove, Advance, IndexRelation, Slot
    <2>3. NoSharedBuffer'
      BY <1>4 DEF Remove, NoSharedBuffer
    <2>4. QED BY <2>1, <2>2, <2>3
  <1>5. CASE RemoveEmpty
    BY <1>5 DEF RemoveEmpty, indices, IndexRelation, NoSharedBuffer
  <1>6. CASE Clear
    BY <1>6 DEF Clear, IndexRelation, NoSharedBuffer, Slot
  <1>7. CASE UNCHANGED vars
    BY <1>7 DEF vars, indices, IndexRelation, NoSharedBuffer
  <1>8. QED
    BY <1>1, <1>2, <1>3, <1>4, <1>5, <1>6, <1>7 DEF Next

(***************************************************************************)
(* The three indices agree (swap_queue.h:196), no buffer is ever in two    *)
(* places, and every variable keeps its type, whatever the size.           *)
(***************************************************************************)
THEOREM SwapQueueInvariant == Spec => [](TypeOK /\ IndexRelation /\ NoSharedBuffer)
  <1>1. Init => IInv
    BY InitIInv
  <1>2. IInv /\ [Next]_vars => IInv'
    BY NextIInv
  <1>3. QED
    BY <1>1, <1>2, PTL DEF Spec, IInv

-----------------------------------------------------------------------------
\* The element that is k-th in the queue lies in a slot, and no two share one.
LEMMA SlotOfInjective ==
    ASSUME TypeOK, NEW k \in 1 .. Size
    PROVE  /\ SlotOf(k) \in Slot
           /\ \A j \in 1 .. Size : SlotOf(j) = SlotOf(k) => j = k
  BY SizeAssumption DEF TypeOK, SlotOf, Slot

\* The write index is the slot after the youngest element.
LEMMA WriteSlot ==
    ASSUME IInv, num_elements_ # Size
    PROVE  next_write_index_ = SlotOf(num_elements_ + 1)
  BY SizeAssumption DEF IInv, TypeOK, IndexRelation, SlotOf, Slot

LEMMA QueuedType ==
    ASSUME TypeOK
    PROVE  Queued \in Seq(Item) /\ Len(Queued) = num_elements_
  <1>1. \A k \in 1 .. num_elements_ : content[queue_[SlotOf(k)]] \in Item
    <2> TAKE k \in 1 .. num_elements_
    <2>1. k \in 1 .. Size
      BY SizeAssumption DEF TypeOK
    <2>2. SlotOf(k) \in Slot
      BY <2>1, SlotOfInjective
    <2>3. QED
      BY <2>2 DEF TypeOK
  <1>2. QED
    BY <1>1 DEF TypeOK, Queued

LEMMA QueuedUnchanged ==
    ASSUME UNCHANGED <<queue_, next_read_index_, num_elements_, content>>
    PROVE  Queued' = Queued
  BY DEF Queued, SlotOf

\* Filling the producer's buffer changes no queued element.
LEMMA FillQueued ==
    ASSUME IInv, NEW v \in Item, Fill(v)
    PROVE  Queued' = Queued
  <1>1. \A k \in 1 .. num_elements_ :
            content'[queue_[SlotOf(k)]] = content[queue_[SlotOf(k)]]
    <2> TAKE k \in 1 .. num_elements_
    <2>1. k \in 1 .. Size
      BY SizeAssumption DEF IInv, TypeOK
    <2>2. SlotOf(k) \in Slot
      BY <2>1, SlotOfInjective DEF IInv
    <2>3. QED
      BY <2>2 DEF IInv, TypeOK, NoSharedBuffer, Fill
  <1>2. QED
    BY <1>1 DEF Fill, indices, Queued, SlotOf

LEMMA InsertQueued ==
    ASSUME IInv, Insert
    PROVE  Queued' = Append(Queued, content[input])
  <1> USE SizeAssumption DEF IInv
  <1>1. TypeOK /\ TypeOK'
    BY NextIInv DEF Next
  <1>2. \A k \in 1 .. Size : SlotOf(k)' = SlotOf(k)
    BY DEF Insert, SlotOf
  <1>3. \A k \in 1 .. num_elements_ : queue_'[SlotOf(k)] = queue_[SlotOf(k)]
    BY <1>1, SlotOfInjective, WriteSlot DEF Insert, TypeOK
  <1>4. queue_'[SlotOf(num_elements_ + 1)] = input
    BY <1>1, SlotOfInjective, WriteSlot DEF Insert, TypeOK
  <1>5. Queued' = [k \in 1 .. num_elements_ + 1 |->
                     IF k = num_elements_ + 1 THEN content[input] ELSE Queued[k]]
    BY <1>1, <1>2, <1>3, <1>4 DEF Queued, Insert, TypeOK
  <1>6. QED
    BY <1>1, <1>5, QueuedType

LEMMA RemoveQueued ==
    ASSUME IInv, Remove
    PROVE  /\ Queued # <<>>
           /\ Queued' = Tail(Queued)
           /\ content[output'] = Head(Queued)
  <1> USE SizeAssumption DEF IInv
  <1>1. TypeOK /\ TypeOK'
    BY NextIInv DEF Next
  <1>2. SlotOf(1) = next_read_index_
    BY <1>1 DEF SlotOf, TypeOK, Slot
  <1>3. \A k \in 1 .. num_elements_ - 1 : SlotOf(k)' = SlotOf(k + 1)
    BY <1>1 DEF Remove, SlotOf, Advance, TypeOK, Slot
  <1>4. \A k \in 1 .. num_elements_ - 1 :
            queue_'[SlotOf(k + 1)] = queue_[SlotOf(k + 1)]
    <2> TAKE k \in 1 .. num_elements_ - 1
    <2>1. k + 1 \in 1 .. Size /\ 1 \in 1 .. Size /\ k + 1 # 1
      BY <1>1 DEF TypeOK
    <2>2. SlotOf(k + 1) \in Slot /\ SlotOf(k + 1) # next_read_index_
      BY <1>1, <1>2, <2>1, SlotOfInjective
    <2>3. QED
      BY <1>1, <2>2 DEF Remove, TypeOK
  <1>5. /\ num_elements_ \in 1 .. Size
        /\ num_elements_' = num_elements_ - 1
        /\ content' = content
    BY <1>1 DEF Remove, TypeOK
  <1>6. Queued' = [k \in 1 .. num_elements_ - 1 |-> Queued[k + 1]]
    BY <1>3, <1>4, <1>5 DEF Queued
  <1>7. content[output'] = Queued[1]
    BY <1>2, <1>5 DEF Remove, Queued
  <1>8. Queued \in Seq(Item) /\ Len(Queued) = num_elements_
    BY <1>1, QueuedType
  <1>9. Queued # <<>>
    BY <1>5, <1>8
  <1>10. Tail(Queued) = [k \in 1 .. num_elements_ - 1 |-> Queued[k + 1]]
    <2>1. /\ Tail(Queued) \in Seq(Item)
          /\ Len(Tail(Queued)) = num_elements_ - 1
          /\ \A k \in 1 .. num_elements_ - 1 : Tail(Queued)[k] = Queued[k + 1]
      BY <1>5, <1>8, <1>9, HeadTailProperties
    <2>2. Tail(Queued) \in [1 .. num_elements_ - 1 -> Item]
      BY <2>1, LenProperties
    <2>3. QED
      BY <2>1, <2>2
  <1>11. Head(Queued) = Queued[1]
    BY <1>8, <1>9
  <1>12. QED
    BY <1>6, <1>7, <1>9, <1>10, <1>11

-----------------------------------------------------------------------------
LEMMA InitFifo == Init => Fifo!Init
  <1> SUFFICES ASSUME Init PROVE Fifo!Init
    OBVIOUS
  <1>1. TypeOK /\ num_elements_ = 0
    BY InitIInv DEF Init, IInv
  <1>2. Queued = <<>>
    BY <1>1, QueuedType
  <1>3. content[input] \in Item /\ content[output] \in Item /\ ret = TRUE
    BY <1>1 DEF TypeOK, Init
  <1>4. QED
    BY <1>2, <1>3 DEF Fifo!Init

\* Every call is the call of the FIFO with the same outcome.
LEMMA NextFifo == IInv /\ [Next]_vars => [Fifo!Next]_Fifo!vars
  <1> SUFFICES ASSUME IInv, [Next]_vars PROVE [Fifo!Next]_Fifo!vars
    OBVIOUS
  <1> USE DEF IInv
  <1>1. /\ Queued \in Seq(Item) /\ Len(Queued) = num_elements_
        /\ num_elements_ \in 0 .. Size
        /\ TypeOK'
        /\ content'[input'] \in Item
        /\ content'[output'] \in Item
    BY QueuedType, NextIInv DEF TypeOK
  <1>2. ASSUME NEW v \in Item, Fill(v) PROVE Fifo!Offer
    <2>1. content'[output'] = content[output]
      BY <1>2 DEF Fill, TypeOK, NoSharedBuffer
    <2>2. QED
      BY <1>1, <1>2, <2>1, FillQueued DEF Fifo!Offer, Fill
  <1>3. ASSUME Insert PROVE Fifo!Put
    BY <1>1, <1>3, InsertQueued, SizeAssumption DEF Fifo!Put, Insert
  <1>4. ASSUME InsertFull PROVE Fifo!PutFull
    BY <1>1, <1>4, QueuedUnchanged DEF Fifo!PutFull, InsertFull, indices
  <1>5. ASSUME Remove PROVE Fifo!Get
    BY <1>5, RemoveQueued DEF Fifo!Get, Remove
  <1>6. ASSUME RemoveEmpty PROVE Fifo!GetEmpty
    <2>1. Queued = <<>>
      BY <1>1, <1>6 DEF RemoveEmpty
    <2>2. QED
      BY <1>6, <2>1, QueuedUnchanged DEF Fifo!GetEmpty, RemoveEmpty, indices
  <1>7. ASSUME Clear PROVE Fifo!Reset
    <2>1. Queued' = <<>>
      <3>1. num_elements_' = 0
        BY <1>7 DEF Clear
      <3>2. Queued' = [k \in 1 .. 0 |-> content'[queue_'[SlotOf(k)']]]
        BY <3>1 DEF Queued
      <3>3. QED
        BY <3>2
    <2>2. QED
      BY <1>7, <2>1 DEF Fifo!Reset, Clear
  <1>8. CASE UNCHANGED vars
    BY <1>8, QueuedUnchanged DEF vars, indices, Fifo!vars
  <1>9. QED
    BY <1>2, <1>3, <1>4, <1>5, <1>6, <1>7, <1>8 DEF Next, Fifo!Next

(***************************************************************************)
(* SwapQueue implements the bounded FIFO its class comment describes       *)
(* (swap_queue.h:42), for every size and every set of items.               *)
(***************************************************************************)
THEOREM SwapQueueIsFifo == Spec => IsFifo
  <1>1. Init => IInv /\ Fifo!Init
    BY InitIInv, InitFifo
  <1>2. IInv /\ [Next]_vars => IInv'
    BY NextIInv
  <1>3. IInv /\ [Next]_vars => [Fifo!Next]_Fifo!vars
    BY NextFifo
  <1>4. QED
    BY <1>1, <1>2, <1>3, PTL DEF Spec, IsFifo, Fifo!Spec
=============================================================================
