SPECIFICATION FairSpec
CONSTANTS
    None = None
    Versions = {1, 2}
    Builds = {"A", "D"}
    Runs = {r1}
    Charts <- MCCharts
    Source <- MCSource
    Bytes <- MCBytes
    Accepted <- AThenD
    MaxEdits = 0
    MaxFaults = 1
    MaxByHand = 1
    MaxEvents = 1
PROPERTY Promoted
