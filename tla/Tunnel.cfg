SPECIFICATION FairSpec
CONSTANTS
    MaxSackBlocks = 2
    Clients = {"c1", "c2"}
    Server = "server"
    Key = 7
    Packets <- OneEach
    Noise <- StrayTraffic
    MaxNet = 3
    Stops = {"c1", "server"}
INVARIANTS TypeOK Genuine
PROPERTIES Faithful CloseReturns
CHECK_DEADLOCK FALSE
