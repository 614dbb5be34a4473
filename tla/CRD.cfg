SPECIFICATION FairSpec
CONSTANTS
    Namespaces <- TwoNamespaces
    Releases <- ThreeReleases
    Paths <- SomePaths
    Attrs = {"x", "y"}
    MaxVersions = 2
    FirstCRD <- Bootstrap
    FirstRelease = 1
    Publications <- AllPublications
    Bootstraps <- ByHand
    MaxEdits = 3
    MaxFaults = 1
INVARIANTS TypeOK ImagesFit BlockedRightly TreesAgree
PROPERTIES NothingRemoved CompatibleUpdates
CHECK_DEADLOCK FALSE
