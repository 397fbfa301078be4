CONSTANTS
    element_count = 3
    Item = {0, 1}
    Zero = 0
    MaxBlock = 4
SPECIFICATION Spec
INVARIANT WrapConsistent
PROPERTY IsDelayLine
