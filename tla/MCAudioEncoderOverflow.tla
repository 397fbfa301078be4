----------------------- MODULE MCAudioEncoderOverflow -----------------------
(* AudioEncoder fed with the timestamps MainActivity computes.             *)
EXTENDS AudioEncoder, PresentationTime
=============================================================================
