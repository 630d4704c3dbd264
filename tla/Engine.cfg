\* Two engines of two workers, one stop event.
CONSTANTS
    MaxStart = 2
    Stream = {s1, s2}
    MaxUps = 2
    MaxSignals = 1
SPECIFICATION FairSpec
INVARIANT StaticsOwned PathsExact
PROPERTY CancelledEnds GoodbyeSaid
CHECK_DEADLOCK FALSE
