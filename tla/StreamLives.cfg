SPECIFICATION Spec
CONSTANTS
    Writes <- OneUpTwoDown
    MaxObjects = 3
    MaxFaults = 1
    Removers = {"client", "server"}
    Stops = {"server"}
INVARIANTS TypeOK NoOrphan MapHoldsOpen HandedOnce
CHECK_DEADLOCK FALSE
