---------------------------- MODULE MCRingBuffer ----------------------------
(* RingBuffer with three cells and blocks of up to four elements, so that  *)
(* a call may find the buffer too full or too empty and both positions     *)
(* stop at the end, at the front and between.                              *)
EXTENDS RingBuffer
=============================================================================
