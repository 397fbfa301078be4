-------------------------- MODULE MCRecordSession --------------------------
(* RecordSession with as many record threads as the configurations name.   *)
EXTENDS RecordSession
=============================================================================
