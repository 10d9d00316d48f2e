SPECIFICATION FairSpec
CONSTANTS
    NumAddrs = 2
    Workers = 2
    ProbePorts <- MCProbe
    DeepPorts <- MCDeep
    UDPPorts <- MCNone
    DeviceTypes <- MCTypes
    Classify <- MCClassify
    DBFails = TRUE
CHECK_DEADLOCK FALSE
PROPERTIES EndsOrGridlocks CancelReturns
