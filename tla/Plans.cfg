SPECIFICATION MCSpec
CONSTANTS
    RuleSet <- Some
    Start <- Tuesday
    Horizon <- End
    Step = 330
    MaxSaves = 1
    Threads = {"task", "monitor"}
    Http = "http"
    Frames <- TwoFrames
    Labels = {"b"}
    Ttl = 1
    CacheMax = 2
    TextHorizon = 1
    EnvList <- FourEnvs
    LocList <- EightLocs
    EnvsOf <- FourMaps
    Paths <- Ways
    Keeps <- ToWorld
    Goals <- SixGoals
    MaxLooks = 2
    MaxFaults = 2
    Clients = {"H4399", "HZ4399", "UC"}
    LoginSteps = 5
    MaxDialogs = 2
    Scripts <- TwoScripts
    Contents <- FourContents
    BaseFlows <- OneFlow
    Configured = {"liuli"}
    Requested = {"no flow", "own", "theirs"}
    Asked = {"fight"}
    Default = "fight"
    MaxBattle = 3
    Grace = 1
    Level = 6
    Zone = {2, 3}
    Starts = {1, 4, 6}
    Strides = {1, 2}
    StepsLeft = 3
    MaxEdits = 1
INVARIANTS ClockIsSound RunsWithinFortnight 
PROPERTIES  ShownIsDue SamePlanSkipped
