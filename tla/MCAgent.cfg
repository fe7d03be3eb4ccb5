SPECIFICATION MCSpec
CONSTANTS
    Parts = {"certificates", "cdm", "sessions", "webcert", "update", "ipc", "inventory"}
    Validity = 2
    Threshold = 1
    Slots = {s1, s2}
    MaxCerts = 4
    MaxTime = 4
    MaxFaults = 1
    CdmMaxTime = 4
    Durations = {1, 2}
    CdmMaxFaults = 2
    Token = {t1}
    Client = {c1, c2}
    Op = {"grant", "enable", "logout"}
    NoToken = NoToken
    cliIdleTimeout = 1
    webIdleTimeout = 2
    webMaxLifetime = 3
    LocalMaxTime = 4
    certValidity = 3
    renewBefore = 1
    WebMaxTime = 6
    WebMaxFaults = 2
    Jobs = {j1, j2}
    Installed = 100
    Targets = {10}
    Grace = 0
    UpdMaxTime = 1
    MaxStops = 2
    Clients = {c1}
    Threads = {t1, t2}
    MaxCalls = 2
    Packages = {p, q}
    Versions = {1, 2}
    Fulls = {f1, f2}
    MaxChanges = 1
    InvMaxFaults = 1
INVARIANTS Types CertificatesSafe SocketSafe SyncedUnlessDrift
PROPERTIES KeepsTheWord ImplementsCdmMode SessionsSound ServesItsCertificate UpdatesSound
    AgentProgress
