SPECIFICATION FairSpec
CONSTANTS
    None = None
    Releases <- Three
    Version <- Numbered
    SchemaFrom <- SameSchemaFrom
    SchemaTo <- SameSchemaTo
    RollbackTo <- DeclaredRollback
    Guarded = {}
    Unsupported = {}
    NonAdditive = {}
    Settings <- OneSetting
    Starts <- AtOne
    Catalogs <- AllCatalogs
    FirstCatalog <- Three
    Specs <- BackSpecs
    FirstSpec <- PinTwo
    MaxEdits = 1
    MaxRevision = 1
    MaxFaults = 0
    MaxEvents = 1
    MaxAttempt = 0
PROPERTY RollbackAvailable
