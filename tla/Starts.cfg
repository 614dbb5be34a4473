SPECIFICATION FairSpec
CONSTANTS
    None = None
    Releases <- Three
    Version <- Numbered
    SchemaFrom <- FreshSchemaFrom
    SchemaTo <- UpSchemaTo
    RollbackTo <- NoRollback
    Guarded = {2}
    Unsupported = {}
    NonAdditive = {}
    Settings <- OneSetting
    Starts <- AllStarts
    Catalogs <- UpCatalogs
    FirstCatalog <- UpFirstCatalog
    Specs <- PausableSpecs
    FirstSpec <- Stable
    MaxEdits = 2
    MaxRevision = 0
    MaxFaults = 2
    MaxEvents = 3
    MaxAttempt = 2
INVARIANTS SchemaServed ConfirmedMigration
PROPERTIES Converges PauseRestores
