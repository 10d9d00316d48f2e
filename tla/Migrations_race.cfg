SPECIFICATION FairSpec
CONSTANTS
    None = None
    wintermute = wintermute
    neuromancer = neuromancer
    console = console
    Agents <- MCThree
    Versions = 3
    Embedded <- MCEmbedded
    MaxCrashes = 2
CHECK_DEADLOCK FALSE
INVARIANTS RanOnce ReadyIsMigrated
PROPERTY Boots
