SPECIFICATION Spec
CONSTANTS
    CapiClusters = {c1}
    Rids = {r1, r2}
    None = None
    Workers = 1
    UseCAAPF = FALSE
    Labels = {"true"}
    NsLabels = {FALSE}
    MaxOwned = 2
    MaxEdits = 1
    MaxFaults = 0
    MaxRestarts = 0
PROPERTY
    NoReimport
CHECK_DEADLOCK FALSE
