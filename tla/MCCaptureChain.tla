--------------------------- MODULE MCCaptureChain ---------------------------
(* CaptureChain is finite as it stands: every component switched at will,   *)
(* ages of at most two calls.                                               *)
EXTENDS CaptureChain
=============================================================================
