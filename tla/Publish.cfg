SPECIFICATION Spec
CONSTANTS
    None = None
    Versions = {1}
    Builds = {"A", "B", "C"}
    Runs = {r1, r2}
    Charts <- MCCharts
    Source <- MCSource
    Bytes <- MCBytes
    Accepted <- OnlyA
    MaxEdits = 2
    MaxFaults = 1
    MaxByHand = 1
    MaxEvents = 2
SYMMETRY Symmetry
INVARIANTS TypeOK CatalogSound
PROPERTIES PublishedStays BranchKept
