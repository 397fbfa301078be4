CONSTANTS
    FRAME_LEN = 80
    PART_LEN = 64
    FAR_BUF_LEN = 256
    BUF_SIZE_FRAMES = 12
    MaxDelay = 100
    MaxCheck = 8
    Delay = {17, 150}
SPECIFICATION Spec
INVARIANTS TypeOK FetchesBufferedFrame LatencyBound NearInStep
PROPERTIES StartupEnds DelaySettles
