SPECIFICATION FairSpec
CONSTANTS
    CapiClusters = {c1}
    Rids = {r1}
    None = None
    Workers = 1
    UseCAAPF = FALSE
    Labels = {"none", "true"}
    NsLabels = {TRUE, FALSE}
    MaxOwned = 1
    MaxEdits = 2
    MaxFaults = 1
    MaxRestarts = 0
INVARIANT AskedIsDone
PROPERTIES
    ImportHappens
    CapiReleased
    RancherReleased
CHECK_DEADLOCK FALSE
