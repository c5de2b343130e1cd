\* The steps of a pipeline overlap with the loop's synchronisation, which takes no lock.
CONSTANTS
    Home <- MCHome
    First = "A"
    MaxEdits = 2
    Overlap = TRUE
    MaxAttempts = 3
    Tasks = {1, 2}
    Dirs = {1, 2, 3}
    Custom = {3}
    SourceFiles <- OneOfEach
    Changes = 2
    Writes = 2
    Tools = {"s", "t"}
    Pids = {1, 2}
    HttpPorts = {1}
    WebPorts = {3}
    MaxScripts = 2
    MaxStrangers = 1
    MaxFaults = 1
    Hands = {"g", "h"}
    Addresses = {"x", "y"}
SPECIFICATION MCSpec
INVARIANT SavedIsKept
