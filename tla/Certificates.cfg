SPECIFICATION FairSpec
CONSTANTS
    None = None
    c1 = c1
    c2 = c2
    issuer = issuer
    h1 = h1
    h2 = h2
    v1 = v1
    v2 = v2
    s1 = s1
    s2 = s2
    Certificates = {c1, c2}
    Issuers = {issuer}
    Resources = {h1, h2}
    Services = {v1, v2}
    Secrets = {s1, s2}
    Manifests <- MCManifests
    MaxToggles = 2
    MaxFaults = 3
INVARIANT TypeOK
PROPERTY ConditionIsEarned
PROPERTY WebhooksServed
PROPERTY ConversionCompletes
PROPERTY ReversionCompletes
