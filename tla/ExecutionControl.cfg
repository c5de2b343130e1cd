CONSTANTS
    MaxErrors = 3
    DirectLimit = 2
SPECIFICATION MCSpec
INVARIANTS
    
    GateIsSound
    
PROPERTIES
    ScheduledStopHonoured
    ImplementsLease
    
    
