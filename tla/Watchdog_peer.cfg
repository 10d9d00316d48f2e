SPECIFICATION Spec
CONSTANTS
    ScanInterval = 2
    ScanGap = 3
    HostCounts <- MCCounts
    CycleCounts <- MCCycleCounts
    Faults <- MCFaults
    Interval = 2
    Timeout = 1
    MaxFailures = 2
INVARIANTS CrashNoticed WedgeNoticed DriftOfReports AccusedOnlyIfTroubled OnePagePerOutage
