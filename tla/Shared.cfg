SPECIFICATION MCSpec
CONSTANTS
    Names <- Round
    Precedence <- RoundOrder
    Once <- EndOnly
    Concurrent <- BurstOnly
    Bodies <- RoundBodies
    Checkers = {c1, c2}
    Gens <- RoundGens
    Script <- RoundScript
    Builtins <- OfBattle
    Signs <- EndOnly
    ChannelUsers = {task, monitor}
    Typists = {task}
    Attempts = 2
    MaxFaults = 2
    Testers = {t1, t2}
    Tests = 2
    MaxControls = 2
    MaxConnections = 2
    Sessions = 3
    Pushes = 2
    Timers = 2
    Repeats = 2
    Chains = 3
    Targets = {"text", "image"}
    Spots = {1, 2}
    Images = {"image"}
    Wishes <- Looked
    Frames <- Shots
    Timeouts = {0, 1, 2}
    Default = 2
    Short = 1
    Grace = 1
    Retries = 2
    Fingers = {1, 2, 3}
    Recordings <- Gestures
    Holdings <- Holds
    Lag = 1
    Slow = 2
    Faults = 2
    Horizon = 5
INVARIANTS
    
    ChannelIsSound
    
    EditorIsSound
    UpdateIsSound
    ShellIsSound
    TouchIsSound
PROPERTIES
    OnceIsHonoured
\* The session ends when its controls are used up, the update with its supervisor, the
\* shell with its window.
CHECK_DEADLOCK FALSE
