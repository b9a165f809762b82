SPECIFICATION FairSpec
CONSTANTS
    v1 = v1
    c1 = c1
    c2 = c2
    u1 = u1
    s1 = s1
    s2 = s2
    VarKeys = {v1}
    CredKeys = {c1, c2}
    UserKeys = {u1}
    SrcKeys = {s1, s2}
    Needs <- MCNeeds
    a = a
    b = b
    Values = {a, b}
    Absent = Absent
    Blank = Blank
    MaxEdits = 1
    MaxFaults = 1
INVARIANT TypeOK
PROPERTY ReadCopiesKeep
PROPERTY VariablesArrive
PROPERTY CredentialsArrive
PROPERTY ConditionRight
