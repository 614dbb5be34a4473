SPECIFICATION Spec
CONSTANTS
    None = None
    Releases <- Four
    Version <- RepubVersion
    SchemaFrom <- RepubSchemaFrom
    SchemaTo <- RepubSchemaTo
    RollbackTo <- RepubRollback
    Guarded = {3}
    Unsupported = {}
    NonAdditive = {4}
    Settings <- OneSetting
    Starts <- UpStarts
    Catalogs <- RepubCatalogs
    FirstCatalog <- UpFirstCatalog
    Specs <- UpSpecs
    FirstSpec <- Stable
    MaxEdits = 1
    MaxRevision = 1
    MaxFaults = 2
    MaxEvents = 3
    MaxAttempt = 2
INVARIANTS TypeOK MigrationExclusive MigrationRecorded
PROPERTY ImplementsTransition
