SPECIFICATION FairSpec
CONSTANTS
    Chunks = 3
    WriteCap = 1
    Events = {"upload", "eof", "write", "slow", "lingers", "repeat", "shutdown"}
INVARIANTS TypeOK WithoutGap AllWritten TellsServer
PROPERTY Reaped
CHECK_DEADLOCK FALSE
