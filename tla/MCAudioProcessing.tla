------------------------- MODULE MCAudioProcessing -------------------------
(* AudioProcessing with one control thread and queues of one frame.        *)
(* 8 and 48 kHz make every rate rule matter: 8 kHz changes the processing  *)
(* rate of the reverse stream, 48 kHz is above what AECM takes and 44 kHz  *)
(* is not a native rate.                                                   *)
EXTENDS AudioProcessing
=============================================================================
