--------------------------- MODULE MCRecordMusic ---------------------------
(* RecordMusic with at most MaxStarts start clicks.                        *)
EXTENDS RecordMusic

CONSTANT MaxStarts   \* bound: the start clicks

VARIABLE starts      \* the start clicks so far

mcVars == <<allVars, starts>>

Started == ui = "idle" /\ ui' = "start_encoder"

MCInit == MusicInit /\ starts = 0

MCNext == /\ MusicNext
          /\ Started => starts < MaxStarts
          /\ starts' = IF Started THEN starts + 1 ELSE starts

MCSpec == /\ MCInit /\ [][MCNext]_mcVars
          /\ \A r \in Recorder : WF_mcVars(~crashed /\ RecorderStep(r) /\ UNCHANGED starts)
          /\ \A d \in Decoder : WF_mcVars(~crashed /\ DecoderStep(d) /\ UNCHANGED starts)
=============================================================================
