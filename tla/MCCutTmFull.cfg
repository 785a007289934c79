SPECIFICATION Spec
CONSTANTS
    HeaderSize = 1
    PartSize = 3
    MaxParts = 2
    Telemetries = {t1, t2}
    FileSizes <- MCSizes
    MaxCuts = 2
    MaxFaults = 2
INVARIANT FirstCutRebuildsAll
