------------------------------- MODULE MCAecm -------------------------------
(* AecmFarEnd with the frame and block lengths of the code and a far-end   *)
(* buffer, a largest delay and a waiting time of about a fifth.  A delay   *)
(* of 17 ms, with the 10 ms added, is no multiple of a frame; 150 ms is    *)
(* above the limit.  To change between the two is as unstable as a sound   *)
(* card can be.                                                            *)
EXTENDS AecmFarEnd
=============================================================================
