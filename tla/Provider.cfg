SPECIFICATION FairSpec
CONSTANTS
    Core = Core
    Others = {p1}
    None = None
    Workers = {w1}
    MaxEdits = 2
    MaxFaults = 1
INVARIANTS
    TypeOK
    NothingOrphaned
    NobodyForgotten
PROPERTIES
    KeepsProviderContract
    DeletionCompletes
CHECK_DEADLOCK FALSE
