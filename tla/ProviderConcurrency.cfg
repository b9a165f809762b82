SPECIFICATION Spec
CONSTANTS
    Core = Core
    Others = {p1}
    None = None
    Workers = {w1, w2}
    MaxEdits = 1
    MaxFaults = 0
PROPERTIES
    DeletedWhenAsked
CHECK_DEADLOCK FALSE
