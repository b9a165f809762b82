SPECIFICATION Spec
CONSTANTS
    CapiClusters = {c1}
    Rids = {r1}
    None = None
    Workers = 1
    UseCAAPF = FALSE
    Labels = {"none", "true"}
    NsLabels = {FALSE}
    MaxOwned = 1
    MaxEdits = 3
    MaxFaults = 1
    MaxRestarts = 1
INVARIANTS
    TypeOK
    CopiesCoherent
PROPERTIES
    NoLostUpdate
    ReleaseJustified
    NoCreateOverAnnotation
    KeepsContract
CHECK_DEADLOCK FALSE

