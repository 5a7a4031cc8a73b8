SPECIFICATION FairSpec

CONSTANTS
    rogue = rogue
    host = host
    canary = canary
    lease = lease
    Finding = {rogue, canary}
    Rating <- MCRating
    Mitigable <- MCMitigable
    HostRoute <- MCHostRoute
    Ambient <- MCAmbient
    NotifyMin = 50
    AutoAction = "disconnect"
    AutoDelay = 1
    RemindAfter = 1
    Grace = 0
    PollInterval = 1
    HistoryMax = 1
    AlertId = {a1, a2}
    NoId = NoId
    UserActions = {"mitigate", "continue"}
    Admin = TRUE
    Faults = {}

PROPERTIES
    EnforcementOnlyStopsWithVpn
    AutoActed
    Enforced
    Reminded
