\* One allocation over a lossy or a stream transport.
CONSTANTS
    MaxTransmissions = 2
    MaxNonceRetries = 1
    MaxChannelFailures = 2
    ControlCapacity = 4
    EventCapacity = 8
    Streams = {TRUE, FALSE}
    MaxFaults = 1
    StreamFrames <- MCFrames
    MaxControlFrame = 24
    MaxDataFrame = 12
    ReadBuffer = 24
    MaxFrames = 3
    MaxPool = 2
SPECIFICATION Spec
INVARIANT OwnerIsInformed ReadyIsMaintained ReleasedAtEnd FramesIntact
PROPERTY NeverReopens
CHECK_DEADLOCK FALSE
