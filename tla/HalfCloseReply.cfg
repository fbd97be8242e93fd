SPECIFICATION Spec
CONSTANTS
    Writes <- OneUpTwoDown
    MaxObjects = 2
    MaxFaults = 0
    Removers = {}
    Stops = {}
INVARIANT ResponseArrives
CHECK_DEADLOCK FALSE
