CONSTANTS
    Value = {z, a, b}
    Zero = z
    Capacity = 4
    CounterRange = 3
SPECIFICATION RingSpec
INVARIANT RingTypeOK
PROPERTY ImplementsQueue
