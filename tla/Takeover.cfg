SPECIFICATION GuardedSpec
CONSTANTS
    None = None
    Pods = {p, q}
    LeaseDuration = 2
    WriteWindow = 1
    Timeout = 1
    RenewDeadline = 1
    MaxTime = 4
    MaxVersion = 3
    MaxPatches = 2
SYMMETRY PodSymmetry
INVARIANTS GuardedTypeOK OneGate WritesEndFirst WritesAreCurrent
PROPERTIES TakeoverWaits LostForGood ImplementsAuthority
CHECK_DEADLOCK FALSE
