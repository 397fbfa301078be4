--------------------------- MODULE MCFrameChunker ---------------------------
(* FrameChunker with a buffer of two frames and a bit, as 1024 is to 480.  *)
EXTENDS FrameChunker
=============================================================================
