SPECIFICATION Spec
CONSTANTS
    lan = lan
    guest = guest
    h1 = h1
    h2 = h2
    Subnets <- MCBoth
    Answers <- MCHosts
    Interval <- MCUneven
    HostTTL = 2
    ScanTTL = 0
    MaxCycle = 1
    Jitter = 0
    OnDemand = TRUE
    Failures = {"prune", "count"}
CHECK_DEADLOCK FALSE
INVARIANTS VanishedOnlyPruned EventsTrackInventory PrunedWasMissed
