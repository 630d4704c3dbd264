\* What must eventually happen: the host reader and a goroutine.
CONSTANTS
    Host = host
    Netwatch = netwatch
    Waker = waker
    Thread = {host}
    Pool = {g1}
    FailThreshold = 1
    MaxRecycles = 1
    CanRebind = TRUE
SPECIFICATION FairSpec
PROPERTY HandoverPerformed RecoveryEnds
CHECK_DEADLOCK FALSE
