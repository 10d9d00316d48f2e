SPECIFICATION FairSpec
CONSTANTS
    lan = lan
    guest = guest
    h1 = h1
    h2 = h2
    Subnets <- MCBoth
    Answers <- MCNoHosts
    Interval <- MCClose
    HostTTL = 0
    ScanTTL = 1
    MaxCycle = 2
    Jitter = 1
    OnDemand = TRUE
    Failures = {"scan", "list", "prune", "count"}
CHECK_DEADLOCK FALSE
INVARIANTS CadenceBound FreshBound
PROPERTIES TriggerServed
