\* The network changes between ChannelBind and the select loop.
CONSTANTS
    N = 2
    Keep = 1
    Worker = {1}
    Attempts = 1
    MaxGen = 0
    MaxAnnounce = 0
    MaxRebind = 1
    MayPause = FALSE
SPECIFICATION Spec
INVARIANT SocketsFollowRebind
CHECK_DEADLOCK FALSE
