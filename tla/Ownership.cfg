SPECIFICATION FairSpec
CONSTANTS
    None = None
    Other = Other
    Helm = Helm
    OtherHelm = OtherHelm
    Keys = {"k"}
    MaxUID = 2
    MaxEdits = 4
    MaxFaults = 1
INVARIANTS TypeOK StatusOwn
PROPERTIES NotTaken HandoffLosesNothing Reinstalled
CHECK_DEADLOCK FALSE
