SPECIFICATION MCSpec
CONSTANTS
    Parts = {"enrollment", "upload", "transfer", "releases", "policies", "installers", "installation"}
    Hosts = {a, b}
    Tokens = {x, y}
    Groups = {g}
    MaxDevices = 1
    Expiry = 1
    MaxTime = 2
    MaxFaults = 1
    totalChunks = 2
    Req = {a, b}
    UploadMaxFaults = 1
    Jobs = {a, b}
    TransferFiles = {f1}
    Signed = {}
    MaxStops = 1
    Versions = {"v1", "v2"}
    Binaries = {b1, b2}
    Requests = {a, b}
    PolicyGroups = {g1, g2}
    Null = null
    Values = {on, off}
    Ids = {1, 2, 3}
    InsFiles = {x, y}
    Keys = {k1}
    Verdicts = {TRUE}
    InsVersions = {x, y}
    InsRequests = {r}
    Machines = {m1}
    Releases = {"v1", "v2"}
    MaxRuns = 5
SYMMETRY Symmetry
INVARIANTS Types UploadsSafe TransfersSafe
PROPERTIES EnrollmentSound ReleasesSound PoliciesSound InstallersSound InstallationSound
