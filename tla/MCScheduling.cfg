SPECIFICATION MCSpec
CONSTANTS
    Parts = {"scheduler", "alerts", "logs", "pages"}
    Proc = {s1, s2}
    None = None
    Device = {d1}
    Periods = {1, 2}
    MaxTime = 2
    MaxFaults = 2
    AlertDevice = {d1, d2}
    Subject = d1
    Webhooks = {hook}
    Emails = {mail}
    HasSMTP = TRUE
    MaxNamed = 1
    threshold = 0
    AlertMaxTime = 1
    AlertMaxFaults = 1
    MaxEntries = 3
    MaxBuffer = 2
    MaxBatch = 2
    MaxIngest = 4
    LogMaxFaults = 2
    MaxRows = 3
    Ids = {1, 2, 3, 4}
    Requested = {0, 1, 2, 9}
    defaultLimit = 2
    maxLimit = 3
INVARIANTS Types ShippedInOrder ExactUpToInversions
PROPERTIES SchedulerSafe DueIsTakenUp OfflineIsReported LogsAndWalksEnd
