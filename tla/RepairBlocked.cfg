SPECIFICATION Spec
CONSTANTS
    None = None
    Releases <- Three
    Version <- Numbered
    SchemaFrom <- SameSchemaFrom
    SchemaTo <- SameSchemaTo
    RollbackTo <- NoRollback
    Guarded = {}
    Unsupported = {3}
    NonAdditive = {}
    Settings <- OneSetting
    Starts <- AtOne
    Catalogs <- AllCatalogs
    FirstCatalog <- Three
    Specs <- PinSpecs
    FirstSpec <- PinTwo
    MaxEdits = 2
    MaxRevision = 0
    MaxFaults = 0
    MaxEvents = 2
    MaxAttempt = 0
INVARIANT RollbackControlled
