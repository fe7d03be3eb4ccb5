\* two goroutines may hold the same job: redispatch races
SPECIFICATION Spec
CONSTANTS
    Task = {t1, t2}
    Operator = {}
    MaxJobs = 3
    MaxCreated = 1
    MaxRetries = 1
    Limit = 1
    MaxFaults = 0
    UpdateReports = {}
    Outcomes = {"failed"}
    Modes = {"off"}
SYMMETRY Symmetry
INVARIANTS AtMostOnceUnlessOverwritten OneAutoRetryUnlessOverwritten
