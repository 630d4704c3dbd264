\* Two workers, idle mode entered and left, lost paths and a change of network.
CONSTANTS
    N = 2
    Keep = 1
    Worker = {1, 2}
    Attempts = 1
    MaxGen = 2
    MaxAnnounce = 2
    MaxRebind = 1
    MayPause = FALSE
    StallPolls = 2
    StallMinUplink = 2
    ProbeMinGap = 3
    ExitSyns = 2
    ExitSynsWindow = 3
    ExitPackets = 3
    ExitPacketsWindow = 1
    QuietPolls = 3
    PollRuns <- MCPollRuns
    PacketRuns <- MCPacketRuns
    QuietRuns <- MCQuietRuns
    MaxSequence = 3
    MaxHistory = 5
SPECIFICATION Spec
INVARIANT RegistrationsCurrent NobodySleepsThroughNews
INVARIANT StallIsProbed IdleTracksTraffic RepairsCounted
VIEW LiveState
CHECK_DEADLOCK FALSE
