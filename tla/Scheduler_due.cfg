SPECIFICATION Spec
CONSTANTS
    Proc = {s1, s2}
    None = None
    Device = {d1}
    Periods = {1}
    MaxTime = 2
    MaxFaults = 1
PROPERTY DueRuns
