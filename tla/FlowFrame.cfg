\* Three flows and two sender ids compete for a two-entry table, the per-flow
\* and the shared limit; the clock reaches the gap timeout.
CONSTANTS
    Flow = {f1, f2, f3}
    SeqMod = 8
    MaxTrackedFlows = 2
    MaxPendingPerFlow = 2
    MaxPendingTotal = 3
    GapReleaseAfter = 1
    MaxSent = 4
    MaxSender = 2
    MaxTime = 1
    ReplaySize = 4
    RtpModulus = 16
    MaxCounter = 40
SYMMETRY FlowSymmetry
SPECIFICATION Spec
INVARIANT Consistent OrderedDelivery PendingTotalBounded ReplayWindowExact
CHECK_DEADLOCK FALSE
