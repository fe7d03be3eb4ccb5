SPECIFICATION MCSpec
CONSTANTS
    Parts = {"bootstrap", "accounts", "memberships", "creation", "limiter"}
    Migrators = {a, b}
    Admins = {a, b}
    Latest = 2
    MaxRuns = 1
    Custom = {"c1"}
    System = {"s1"}
    Names = {"n1", "n2"}
    Permissions = {"p1"}
    Users = {a, b}
    Subjects = {"x"}
    Keys = {d, e}
    MaxAPIKeys = 1
    Requests = {a, b}
    Containers = {g, h}
    Devices = {d, e}
    Unknown = {u}
    MemRequests = {a, b}
    JcDevices = {d, e}
    Groups = {g}
    JcRequests = {r}
    JcUnknown = u
    MaxQueuedJobs = 2
    Overrides = {0}
    MaxMoves = 2
    MaxOthers = 2
    Tiers = 2
    RlKeys <- MCKeys
    Burst <- MCBurst
    Token = 2
    TTL <- MCTTL
    Every = 2
    RlRequests = {a, b}
    MaxLag = 1
    MaxTime = 6
    MaxCalls = 4
SYMMETRY Symmetry
INVARIANTS Types BootstrapSafe MembershipsSafe
PROPERTIES AccountsSound CreationSound LimiterSound
