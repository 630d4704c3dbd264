\* The dispatcher task and a redispatching session on one uplink queue: each
\* may use try_send and force_send.  The queue starts running or paused and is
\* resumed while they send.
CONSTANTS
    TrySender = {d1, d2}
    ForceSender = {}
    Twice = d1
    MaxSends <- MCMaxSends
    Capacity = 2
    StartActive = {TRUE, FALSE}
    MaxEpoch = 1
SPECIFICATION FairSpec
INVARIANT NoLostWakeup NoReplay SenderOrder
PROPERTY ReceiverServed
CHECK_DEADLOCK FALSE
