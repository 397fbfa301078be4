CONSTANTS
    Capture = capture
    Render = render
    Control = {control}
    NoOne = noone
    FrameRate = {8, 44, 48}
    InitRate = 48
    Capacity = 1
SPECIFICATION Spec
INVARIANTS TypeOK AecmRate QueueMatchesFormat
    RetryHasRoom ProcessedFormat
PROPERTY EveryFrameQueued
