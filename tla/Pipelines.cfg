SPECIFICATION MCSpec
CONSTANTS
    Queue <- Two
    Order <- A
    Once <- None
    Debug <- None
    Explicit <- Lists
    MaxAttempts = 2
    MaxErrors = 3
INVARIANT QueuesAreSound
PROPERTIES OneBadTaskIsNotAnOutage PipelineEnds AloneDueIsAttempted
