\* A dead data path under steady traffic.
CONSTANTS
    Host = host
    Netwatch = netwatch
    Waker = waker
    Thread = {host}
    Pool = {g1, g2}
    FailThreshold = 1
    MaxRecycles = 1
    CanRebind = TRUE
SPECIFICATION BusySpec
PROPERTY DeadPathEscalates
CHECK_DEADLOCK FALSE
