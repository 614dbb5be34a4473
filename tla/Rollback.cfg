SPECIFICATION Spec
CONSTANTS
    None = None
    Releases <- Three
    Version <- Numbered
    SchemaFrom <- SameSchemaFrom
    SchemaTo <- SameSchemaTo
    RollbackTo <- DeclaredRollback
    Guarded = {}
    Unsupported = {}
    NonAdditive = {}
    Settings <- OneSetting
    Starts <- BackStarts
    Catalogs <- AllCatalogs
    FirstCatalog <- Three
    Specs <- PinSpecs
    FirstSpec <- PinTwo
    MaxEdits = 2
    MaxRevision = 0
    MaxFaults = 1
    MaxEvents = 3
    MaxAttempt = 0
PROPERTIES InstalledRollback TargetRollback
