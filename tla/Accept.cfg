SPECIFICATION FairSpec
CONSTANTS
    None = None
    Releases = {"r1", "r2"}
    Settings = {"s"}
    First <- FirstSpec
    MaxEdits = 2
    MaxFaults = 1
    MaxAttempt = 2
INVARIANTS TypeOK AcceptanceHonest
PROPERTIES RecordRemains EventuallyAccepted
