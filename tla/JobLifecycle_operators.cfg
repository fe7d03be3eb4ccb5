\* operator requests and revocation around one goroutine
SPECIFICATION Spec
CONSTANTS
    Task = {t1}
    Operator = {o1}
    MaxJobs = 2
    MaxCreated = 1
    MaxRetries = 1
    Limit = 1
    MaxFaults = 0
    UpdateReports = {}
    Outcomes = {"completed", "failed"}
    Modes = {"off"}
INVARIANTS RunsAreAcknowledged RetryWithinBudget
PROPERTY FollowsStateMachine
