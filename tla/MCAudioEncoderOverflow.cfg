CONSTANTS
    Caller = {ui}
    Pusher = {record}
    None = none
    PtsOf <- GetPTSUs
    Extra = 0
    MaxPush = 6
    MaxStart = 1
SPECIFICATION Spec
PROPERTY PtsIncreases
