SPECIFICATION FairSpec
CONSTANTS
    r1 = r1
    r2 = r2
    own = own
    other = other
    MaxVersion = 2
    Latest = Latest
    Invalid = Invalid
    Unknown = Unknown
    None = None
    Registries = {r1, r2}
    Requests = {own, other}
    Own = own
    MaxEdits = 1
    MaxFaults = 1
INVARIANT TypeOK
INVARIANT QuietIsSynced
PROPERTY OffMeansOff
PROPERTY FileConverges
PROPERTY VersionConverges
