SPECIFICATION Spec
CONSTANTS
    sampleRate_10ms = 3
    BufferLen = 7
    BgmLen = {0, 5, 6, 7, 8}
    MaxSamples = 63
INVARIANTS
    TypeOK
    SamplesInOrder
    FailsWhenShort
