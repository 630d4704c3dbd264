\* Two workers, three sessions; one kind of packet that gets a spare (medium)
\* and one that does not (bulk).
CONSTANTS
    Id = {1, 2}
    PathOf <- MCPathOf
    Kind = {"quic1", "tcp"}
    Chunk <- MCChunk
    Cap <- MCCap
    Batch <- MCBatch
    LatencyCap = 1
    UplinkCap = 1
    QuicPerFlow = 1
    QuicFlowCap = 1
    PoolLimit = 4
    MaxInc = 3
    MaxPackets = 2
SPECIFICATION Spec
INVARIANT ScheduleConsistent NoDuplicates StrandedBounded
CHECK_DEADLOCK FALSE
