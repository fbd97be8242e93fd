SPECIFICATION FairSpec
CONSTANTS
    Chunks = 1
    MaxStreams = 1
    WriteCap = 1
    ShutCalls = 0
    ShutStreams = 1
    Events = {"reply", "eof"}
PROPERTY ReadEnds
CHECK_DEADLOCK FALSE
