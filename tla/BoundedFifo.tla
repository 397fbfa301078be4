---------------------------- MODULE BoundedFifo ----------------------------
(***************************************************************************)
(* What common_audio/swap_queue.h promises: a FIFO of at most Capacity     *)
(* items between a producer, which offers the item in its hands, and a     *)
(* consumer, which receives the oldest item.  Nothing is said of how the   *)
(* items are stored, nor of what an unsuccessful or a successful call      *)
(* leaves in the hands of the producer.                                    *)
(***************************************************************************)
EXTENDS Naturals, Sequences

CONSTANTS Capacity,   \* the most items the queue holds
          Item        \* what is queued

VARIABLES items,      \* the queued items, oldest first
          offered,    \* the item in the producer's hands
          received,   \* the item in the consumer's hands
          ret         \* what the last call returned (TRUE for the others)

vars == <<items, offered, received, ret>>

Init == /\ items = <<>>
        /\ offered \in Item
        /\ received \in Item
        /\ ret = TRUE

\* The producer prepares the item it will insert.
Offer == /\ offered' \in Item
         /\ ret' = TRUE
         /\ UNCHANGED <<items, received>>

Put == /\ Len(items) < Capacity
       /\ items' = Append(items, offered)
       /\ offered' \in Item
       /\ ret' = TRUE
       /\ UNCHANGED received

PutFull == /\ Len(items) = Capacity
           /\ ret' = FALSE
           /\ UNCHANGED <<items, offered, received>>

Get == /\ items # <<>>
       /\ received' = Head(items)
       /\ items' = Tail(items)
       /\ ret' = TRUE
       /\ UNCHANGED offered

GetEmpty == /\ items = <<>>
            /\ ret' = FALSE
            /\ UNCHANGED <<items, offered, received>>

Reset == /\ items' = <<>>
         /\ ret' = TRUE
         /\ UNCHANGED <<offered, received>>

Next == Offer \/ Put \/ PutFull \/ Get \/ GetEmpty \/ Reset

Spec == Init /\ [][Next]_vars
=============================================================================
