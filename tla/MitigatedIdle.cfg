SPECIFICATION FairSpec

CONSTANTS
    rogue = rogue
    host = host
    canary = canary
    lease = lease
    Finding = {rogue}
    Rating <- MCRating
    Mitigable <- MCMitigable
    HostRoute <- MCHostRoute
    Ambient <- MCAmbient
    NotifyMin = 40
    AutoAction = "none"
    AutoDelay = 0
    RemindAfter = 0
    Grace = 0
    PollInterval = 0
    HistoryMax = 1
    AlertId = {a1, a2}
    NoId = NoId
    UserActions = {"mitigate"}
    Admin = TRUE
    Faults = {}

PROPERTIES
    MitigationLasts
