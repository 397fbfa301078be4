CONSTANTS
    Capture = capture
    Render = render
    Control = {c1, c2}
    NoOne = noone
    FrameRate = {8}
    InitRate = 48
    Capacity = 1
    MaxCalls = 2
    ControlCalls = 1
SPECIFICATION LiveSpec
INVARIANTS EchoExclusive LockOrder
PROPERTY CallsReturn
\* The system stops when every thread has made its calls.
CHECK_DEADLOCK FALSE
