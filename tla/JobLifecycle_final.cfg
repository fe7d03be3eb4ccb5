\* are terminal states final?
SPECIFICATION Spec
CONSTANTS
    Task = {t1}
    Operator = {o1}
    MaxJobs = 1
    MaxCreated = 1
    MaxRetries = 0
    Limit = 1
    MaxFaults = 0
    UpdateReports = {}
    Outcomes = {"completed"}
    Modes = {"off"}
PROPERTY TerminalStatesAreFinal
