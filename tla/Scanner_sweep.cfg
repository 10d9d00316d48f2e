SPECIFICATION Spec
CONSTANTS
    NumAddrs = 2
    Workers = 2
    ProbePorts <- MCProbe
    DeepPorts <- MCDeepNew
    UDPPorts <- MCUDP
    DeviceTypes <- MCTypes
    Classify <- MCClassify
    DBFails = TRUE
CHECK_DEADLOCK FALSE
INVARIANTS SlotsAccounted ReturnsQuiescent RecordMatchesRows TypeFromAllPorts
PROPERTIES ImplementsContract
