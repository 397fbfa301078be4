CONSTANTS
    Caller = {gl, ui}
    Pusher = {record}
    None = none
    PtsOf <- IntendedPts
    Extra = 1
    MaxPush = 3
    MaxStart = 2
SPECIFICATION FairSpec
INVARIANTS TypeOK OneChain OutputOnLiveCodec
PROPERTIES  PtsIncreases CallsReturn
