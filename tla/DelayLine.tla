----------------------------- MODULE DelayLine -----------------------------
(***************************************************************************)
(* What common_audio/ring_buffer.h promises: the last Length elements of   *)
(* an endless stream that began with zeros, and a reader somewhere in it.  *)
(* A write adds at the end as much as the reader leaves room for; a read   *)
(* takes the oldest unread elements; the reader may skip forward over      *)
(* unread elements or go back to elements it has read before.              *)
(***************************************************************************)
EXTENDS Integers

CONSTANTS Length,     \* how many elements the line remembers
          Item,       \* the elements
          Zero,       \* the element the stream begins with
          MaxBlock    \* bound: the longest block of one call

VARIABLES line,       \* the last Length elements, oldest first
          unread,     \* how many of them, the newest, are unread
          got,        \* what the last read returned
          ret         \* the count the last call returned

vars == <<line, unread, got, ret>>

AtMost(n, bound) == IF n < bound THEN n ELSE bound

Init == /\ line = [i \in 0 .. Length - 1 |-> Zero]
        /\ unread = 0
        /\ got = <<>>
        /\ ret = 0

Write(k, xs) == LET n == AtMost(k, Length - unread)
                IN  /\ line' = [i \in 0 .. Length - 1 |->
                                  IF i + n < Length THEN line[i + n]
                                                    ELSE xs[i + n - Length + 1]]
                    /\ unread' = unread + n
                    /\ ret' = n
                    /\ UNCHANGED got

Read(k) == LET n == AtMost(k, unread)
           IN  /\ got' = [i \in 1 .. n |-> line[Length - unread + i - 1]]
               /\ unread' = unread - n
               /\ ret' = n
               /\ UNCHANGED line

Move(d) == \E m \in unread - Length .. unread :
               /\ m = IF d > unread THEN unread
                      ELSE IF d < unread - Length THEN unread - Length ELSE d
               /\ unread' = unread - m
               /\ ret' = m
               /\ UNCHANGED <<line, got>>

Clear == /\ line' = [i \in 0 .. Length - 1 |-> Zero]
         /\ unread' = 0
         /\ ret' = 0
         /\ UNCHANGED got

Next == \/ \E k \in 0 .. MaxBlock : \E xs \in [1 .. k -> Item] : Write(k, xs)
        \/ \E k \in 0 .. MaxBlock : Read(k)
        \/ \E d \in -MaxBlock .. MaxBlock : Move(d)
        \/ Clear

Spec == Init /\ [][Next]_vars
=============================================================================
