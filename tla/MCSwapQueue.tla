---------------------------- MODULE MCSwapQueue ----------------------------
(* SwapQueue with three slots, enough for both indices to wrap at          *)
(* different times, and two items.                                         *)
EXTENDS SwapQueue
=============================================================================
