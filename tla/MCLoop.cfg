SPECIFICATION MCSpec
CONSTANTS
    MaxErrors = 2
    Clients = {1, 2}
    PoolSize = 1
    MaxJobs = 3
   
PROPERTIES DueRuns CallsReturn
CHECK_DEADLOCK FALSE
