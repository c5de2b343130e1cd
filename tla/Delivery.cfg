SPECIFICATION MCSpec
CONSTANTS
    Queue <- TwoChars
    Tasks = {"a", "b"}
    MaxAttempts = 2
    Renewals = 1
    Messages = {1, 2, 3, 4, 5}
    Capacity = 2
    Keep = 2
    MaxSegments = 5
INVARIANTS
    ReportsAreTrue
    OutboxIsServed
    RecorderIsSound
PROPERTIES
    ImplementsOutbox
    StopReturns
    DuelEnds
\* The reports end with their pipeline, the recorder with its last segment.
CHECK_DEADLOCK FALSE
