SPECIFICATION FairSpec
CONSTANTS
    NumAddrs = 2
    Workers = 2
    ProbePorts <- MCProbe
    DeepPorts <- MCDeep
    UDPPorts <- MCNone
    DeviceTypes <- MCTypes
    Classify <- MCClassify
    DBFails = FALSE
CHECK_DEADLOCK FALSE
PROPERTY Terminates
