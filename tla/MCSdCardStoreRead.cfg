SPECIFICATION Spec
CONSTANTS
    MaxTm = 3
    Time <- MCTime
    Sizes <- MCSizes
    MaxFaults = 2
INVARIANT ReadsUpToTheLast
