\* The host reader and two goroutines, one restart of the engine; the wake
\* monitor beside one of them.
CONSTANTS
    Host = host
    Netwatch = netwatch
    Waker = waker
    Thread = {host, waker}
    Pool = {g1, g2}
    FailThreshold = 1
    MaxRecycles = 1
    CanRebind = TRUE
SPECIFICATION Spec
INVARIANT OneRecycle InFlightHasOwner PauseHasProbe
PROPERTY NeverFatalOffline
CONSTRAINT WakerWithOne
SYMMETRY PoolSymmetry
CHECK_DEADLOCK FALSE
