SPECIFICATION Spec
CONSTANTS
    MaxQueueLength = 100
    UintRange = 65536
    Blank <- MCBlank
    Byte <- MCBytes
    Messages <- MCMessages
    MaxCommands = 2
    QueueLength = 2
    ItemSize = 3
    MaxMissionCounter = 2
    ByteRange = 256
INVARIANT CountIsContents
