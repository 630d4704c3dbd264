\* enter and exit overlap.
CONSTANTS
    N = 2
    Keep = 1
    Worker = {2}
    Attempts = 1
    MaxGen = 1
    MaxAnnounce = 2
    MaxRebind = 0
    MayPause = FALSE
SPECIFICATION Spec
INVARIANT ActiveTrafficUnparks
CHECK_DEADLOCK FALSE
