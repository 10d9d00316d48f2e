SPECIFICATION Spec
CONSTANTS
    lan = lan
    guest = guest
    h1 = h1
    h2 = h2
    Subnets <- MCBoth
    Answers <- MCHosts
    Interval <- MCShort
    HostTTL = 1
    ScanTTL = 0
    MaxCycle = 1
    Jitter = 0
    OnDemand = FALSE
    Failures = {"scan"}
CHECK_DEADLOCK FALSE
INVARIANT EventsTrackInventory
