SPECIFICATION Spec
CONSTANTS
    IPs <- MCTwo
    Probes <- MCProbes
    MaxChanges = 4
    Limits = {1, 2}
    Offsets = {0, 2}
    MaxInt = 3
    Failures = TRUE
INVARIANTS OwnPorts PortsOnTheirHost
PROPERTIES WalkSeesAll FilterIsExact
