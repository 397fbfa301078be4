CONSTANT Recorder = {r1}
SPECIFICATION Spec
PROPERTY StopIsNotUndone
\* The system stops when the activity is destroyed and no thread is left.
CHECK_DEADLOCK FALSE
