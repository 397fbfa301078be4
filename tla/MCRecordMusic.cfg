CONSTANTS
    Recorder = {r1, r2}
    Decoder = {d1, d2}
    Null = null
    MaxStarts = 2
SPECIFICATION MCSpec
INVARIANTS MicHasOwner  CrashNeedsOverlap DecodersReleased
PROPERTIES StopEndsMusic RecordersEnd
\* The system stops when the process has ended, or the activity and all threads.
CHECK_DEADLOCK FALSE
