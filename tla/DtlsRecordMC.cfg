SPECIFICATION Spec
CONSTANTS
    Window = 2
    MaxEpoch = 2
    MaxSeq = 9
    MaxData = 2
    MaxResends = 1
    QueueMax = 2
    Writers = {"client", "server"}
    ClientVerifies = TRUE
INVARIANTS TypeOK AcceptedOnce NumbersAreUnique DataFollowsFinished
PROPERTY DataIsKept
CHECK_DEADLOCK FALSE
