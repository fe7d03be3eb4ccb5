\* every CDM mode, lost replies and restarts, under fairness
SPECIFICATION FairSpec
CONSTANTS
    Task = {t1}
    Operator = {}
    MaxJobs = 1
    MaxCreated = 1
    MaxRetries = 0
    Limit = 1
    MaxFaults = 1
    UpdateReports = {1}
    Outcomes = {"completed", "restarting"}
    Modes = {"off", "hold", "session"}
INVARIANTS TypeOK Reapable CompletedHasResult
PROPERTY SessionDrains
