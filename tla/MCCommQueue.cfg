SPECIFICATION Spec
CONSTANTS
    MaxQueueLength = 9
    UintRange = 16
    Blank = Blank
    Item = {a, b}
    Lengths <- MCLengths
    Sizes <- MCSizes
INVARIANTS TypeOK RingInv
PROPERTY ImplementsFifo
