\* does a timed-out job get its retry?
SPECIFICATION FairSpec
CONSTANTS
    Task = {t1}
    Operator = {}
    MaxJobs = 2
    MaxCreated = 1
    MaxRetries = 1
    Limit = 1
    MaxFaults = 0
    UpdateReports = {}
    Outcomes = {"completed"}
    Modes = {"off"}
PROPERTY TimedOutIsRetried
