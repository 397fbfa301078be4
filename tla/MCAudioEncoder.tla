--------------------------- MODULE MCAudioEncoder ---------------------------
(* AudioEncoder fed as MainActivity means to feed it: one frame every ten  *)
(* milliseconds.                                                           *)
EXTENDS AudioEncoder

IntendedPts(k) == k * 10000
=============================================================================
