SPECIFICATION FairSpec
CONSTANTS
    MaxWrites = 5
    MaxFaults = 2
INVARIANT NeverLost
PROPERTY MoveCompletes
PROPERTY UninstallCleans
CHECK_DEADLOCK FALSE
