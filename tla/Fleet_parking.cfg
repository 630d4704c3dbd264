\* The parkable worker under idle mode, pause, lost paths and a change of network.
CONSTANTS
    N = 2
    Keep = 1
    Worker = {2}
    Attempts = 2
    MaxGen = 2
    MaxAnnounce = 3
    MaxRebind = 1
    MayPause = TRUE
SPECIFICATION FairSpec
PROPERTY GateFollowsLimit
CHECK_DEADLOCK FALSE
