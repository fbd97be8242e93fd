SPECIFICATION Spec
CONSTANTS
    Chunks = 1
    MaxStreams = 1
    WriteCap = 1
    ShutCalls = 0
    ShutStreams = 0
    Events = {"eof"}
INVARIANT NoDoubleClose
CHECK_DEADLOCK FALSE
