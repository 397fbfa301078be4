----------------------------- MODULE SwapQueue -----------------------------
(***************************************************************************)
(* common_audio/swap_queue.h: the queue between the render side and the    *)
(* capture side of every APM component.  The slots of queue_ hold buffers, *)
(* and so do the producer (input) and the consumer (output); a call        *)
(* swaps a full buffer for an empty one, so that no sample is copied and   *)
(* nothing is allocated.  Each method runs under crit_queue_ from its      *)
(* first line to its last, hence one action per outcome of a method.       *)
(***************************************************************************)
EXTENDS Naturals, Sequences

CONSTANTS Size,       \* queue_.size()
          Item        \* what a buffer can contain

ASSUME SizeAssumption == Size \in Nat \ {0}

\* Size slots, plus the producer's buffer and the consumer's.
Buffer == 0 .. Size + 1
Slot   == 0 .. Size - 1

VARIABLES queue_,             \* the buffer each slot holds
          next_write_index_,
          next_read_index_,
          num_elements_,
          input,              \* the producer's buffer (render_queue_buffer_)
          output,             \* the consumer's buffer (capture_queue_buffer_)
          content,            \* what each buffer contains
          ret                 \* what the last call returned

indices == <<next_write_index_, next_read_index_, num_elements_>>
vars == <<queue_, indices, input, output, content, ret>>

Init == /\ queue_ = [s \in Slot |-> s]
        /\ next_write_index_ = 0
        /\ next_read_index_ = 0
        /\ num_elements_ = 0
        /\ input = Size
        /\ output = Size + 1
        /\ content \in [Buffer -> Item]
        /\ ret = TRUE

\* ++index; if (index == queue_.size()) index = 0;
Advance(index) == IF index + 1 = Size THEN 0 ELSE index + 1

\* The producer writes the next item into the buffer it holds.
Fill(v) == /\ content' = [content EXCEPT ![input] = v]
           /\ ret' = TRUE
           /\ UNCHANGED <<queue_, indices, input, output>>

\* Faulty variant: the slot shares the producer's buffer instead of swapping it.
Insert_NoSwap == /\ num_elements_ # Size
                 /\ queue_' = [queue_ EXCEPT ![next_write_index_] = input]
                 /\ next_write_index_' = Advance(next_write_index_)
                 /\ num_elements_' = num_elements_ + 1
                 /\ ret' = TRUE
                 /\ UNCHANGED <<next_read_index_, input, output, content>>

Insert == /\ num_elements_ # Size
          /\ input' = queue_[next_write_index_]
          /\ queue_' = [queue_ EXCEPT ![next_write_index_] = input]
          /\ next_write_index_' = Advance(next_write_index_)
          /\ num_elements_' = num_elements_ + 1
          /\ ret' = TRUE
          /\ UNCHANGED <<next_read_index_, output, content>>

InsertFull == /\ num_elements_ = Size
              /\ ret' = FALSE
              /\ UNCHANGED <<queue_, indices, input, output, content>>

\* Faulty variant: the write index is where the next element is looked for.
Remove_AtWriteIndex == 
    /\ num_elements_ # 0
    /\ output' = queue_[next_write_index_]
    /\ queue_' = [queue_ EXCEPT ![next_write_index_] = output]
    /\ next_read_index_' = Advance(next_read_index_)
    /\ num_elements_' = num_elements_ - 1
    /\ ret' = TRUE
    /\ UNCHANGED <<next_write_index_, input, content>>

Remove == /\ num_elements_ # 0
          /\ output' = queue_[next_read_index_]
          /\ queue_' = [queue_ EXCEPT ![next_read_index_] = output]
          /\ next_read_index_' = Advance(next_read_index_)
          /\ num_elements_' = num_elements_ - 1
          /\ ret' = TRUE
          /\ UNCHANGED <<next_write_index_, input, content>>

RemoveEmpty == /\ num_elements_ = 0
               /\ ret' = FALSE
               /\ UNCHANGED <<queue_, indices, input, output, content>>

\* Faulty variant: the read index survives.
Clear_KeepsReadIndex == /\ next_write_index_' = 0
                        /\ num_elements_' = 0
                        /\ ret' = TRUE
                        /\ UNCHANGED <<queue_, next_read_index_, input, output, content>>

Clear == /\ next_write_index_' = 0
         /\ next_read_index_' = 0
         /\ num_elements_' = 0
         /\ ret' = TRUE
         /\ UNCHANGED <<queue_, input, output, content>>

Next == \/ \E v \in Item : Fill(v)
        \/ Insert \/ InsertFull
        \/ Remove \/ RemoveEmpty
        \/ Clear

Spec == Init /\ [][Next]_vars
-----------------------------------------------------------------------------
\* The k-th oldest element is in this slot.
SlotOf(k) == LET s == next_read_index_ + k - 1
             IN  IF s < Size THEN s ELSE s - Size

\* The queue, oldest first, as its users see it.
Queued == [k \in 1 .. num_elements_ |-> content[queue_[SlotOf(k)]]]

TypeOK == /\ queue_ \in [Slot -> Buffer]
          /\ next_write_index_ \in Slot
          /\ next_read_index_ \in Slot
          /\ num_elements_ \in 0 .. Size
          /\ input \in Buffer
          /\ output \in Buffer
          /\ content \in [Buffer -> Item]
          /\ ret \in BOOLEAN

(***************************************************************************)
(* The comment at swap_queue.h:196 that the three indices never disagree,  *)
(* which nothing in the class checks:                                      *)
(* (next_read_index_ + num_elements_) % queue_.size() = next_write_index_. *)
(* A wrap forgotten in one of the two methods, or a Clear that resets only *)
(* some of the indices, breaks it several calls later.                     *)
(***************************************************************************)
IndexRelation == 
    next_write_index_ = IF next_read_index_ + num_elements_ < Size
                        THEN next_read_index_ + num_elements_
                        ELSE next_read_index_ + num_elements_ - Size

(***************************************************************************)
(* swap() moves buffers and never duplicates one: whatever the history of  *)
(* calls, the slots, the producer and the consumer hold different buffers. *)
(* If two of them shared one, the render thread would overwrite samples    *)
(* the capture thread has yet to read.                                     *)
(***************************************************************************)
NoSharedBuffer == 
    /\ \A s, t \in Slot : queue_[s] = queue_[t] => s = t
    /\ \A s \in Slot : queue_[s] \notin {input, output}
    /\ input # output

Fifo == INSTANCE BoundedFifo WITH Capacity <- Size,
                                  items    <- Queued,
                                  offered  <- content[input],
                                  received <- content[output]

(***************************************************************************)
(* The class comment (swap_queue.h:42): Insert puts at the back, Remove    *)
(* takes from the front.  Seen through Queued, every call is the call of a *)
(* bounded FIFO with the same result.                                      *)
(***************************************************************************)
IsFifo == Fifo!Spec
=============================================================================
