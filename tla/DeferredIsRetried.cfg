SPECIFICATION MCSpec
CONSTANTS
    Queue <- One
    Order <- AB
    Once <- None
    Debug <- None
    Explicit <- None
    MaxAttempts = 2
    MaxErrors = 3
PROPERTIES DeferredIsRetried
