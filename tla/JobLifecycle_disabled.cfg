\* do held jobs run again once CDM is disabled?
SPECIFICATION FairSpec
CONSTANTS
    Task = {t1}
    Operator = {}
    MaxJobs = 1
    MaxCreated = 1
    MaxRetries = 0
    Limit = 1
    MaxFaults = 0
    UpdateReports = {}
    Outcomes = {"completed"}
    Modes = {"off", "hold", "session"}
PROPERTY DisabledDrains
