SPECIFICATION FairSpec
CONSTANTS
    IPs = {1, 2}
    Probes <- MCProbes
    MaxChanges = 2
    Commands = {c1, c2}
    None = None
CHECK_DEADLOCK FALSE
INVARIANTS CursorOnARow
PROPERTIES AnswerIsCurrent LoadingEnds
