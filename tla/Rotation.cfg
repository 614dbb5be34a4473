SPECIFICATION Spec
CONSTANTS
    None = None
    Releases <- Three
    Version <- Numbered
    SchemaFrom <- UpSchemaFrom
    SchemaTo <- UpSchemaTo
    RollbackTo <- NoRollback
    Guarded = {}
    Unsupported = {}
    NonAdditive = {}
    Settings <- TwoSettings
    Starts <- AtOne
    Catalogs <- RotCatalogs
    FirstCatalog <- UpFirstCatalog
    Specs <- RotSpecs
    FirstSpec <- Stable
    MaxEdits = 2
    MaxRevision = 1
    MaxFaults = 1
    MaxEvents = 3
    MaxAttempt = 0
INVARIANTS FreshChecks ReadyHonest
PROPERTY PauseHolds
