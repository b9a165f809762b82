SPECIFICATION FairSpec
CONSTANTS
    Core = Core
    Others = {p1}
    None = None
    Workers = {w1}
    MaxEdits = 2
    MaxFaults = 1
PROPERTIES
    WaitersWoken
    SecretApplied
CHECK_DEADLOCK FALSE
