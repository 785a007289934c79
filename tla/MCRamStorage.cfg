SPECIFICATION Spec
CONSTANTS
    MaxElements = 6
    Capacities <- MCCapacities
    Time <- MCTime
    Data = {a}
    NoData = NoData
    Buffers <- MCBuffers
INVARIANTS TypeOK StoredInOrder ReadsWholePeriodWhenStraight
PROPERTIES ImplementsStore DeletesWholePeriodWhenStraight
