\* An uplink queue filled by the dispatcher task and by a redispatch, both
\* through try_send.
CONSTANTS
    TrySender = {d1, d2}
    ForceSender = {}
    Capacity = 2
    StartActive = {TRUE}
    Twice = none
    MaxSends <- MCMaxSends
    MaxEpoch = 0
SPECIFICATION FairSpec
PROPERTY WakesUp
CHECK_DEADLOCK FALSE
