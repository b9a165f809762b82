SPECIFICATION FairSpec
CONSTANTS
    Objects = 3
    MaxEdits = 3
    MaxFaults = 2
INVARIANT TypeOK
INVARIANT CleanupRespected
PROPERTY MigratedIsTrue
PROPERTY AgentDeployed
PROPERTY MigrationCompletes
