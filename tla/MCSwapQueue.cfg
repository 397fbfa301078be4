CONSTANTS
    Size = 3
    Item = {full, empty}
SPECIFICATION Spec
INVARIANTS IndexRelation NoSharedBuffer
PROPERTY IsFifo
