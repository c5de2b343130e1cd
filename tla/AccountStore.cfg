SPECIFICATION MCSpec
CONSTANTS
    Home <- MCHome
    First = "A"
    MaxEdits = 2
    Overlap = FALSE
    MaxAttempts = 3
    Tasks = {1, 2}
    Dirs = {1, 2, 3}
    Custom = {3}
    SourceFiles <- OneOfEach
    Changes = 2
    Writes = 2
    Tools = {"s", "t"}
    Pids = {1, 2}
    HttpPorts = {1}
    WebPorts = {3}
    MaxScripts = 2
    MaxStrangers = 1
    MaxFaults = 1
    Hands = {"g", "h"}
    Addresses = {"x", "y"}
INVARIANTS
    StoreIsSound
    SavedIsKept
    
PROPERTY AttemptIsRight
