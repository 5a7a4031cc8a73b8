SPECIFICATION Spec

CONSTANTS
    rogue = rogue
    host = host
    canary = canary
    lease = lease
    Finding = {rogue, host}
    Rating <- MCRating
    Mitigable <- MCMitigable
    HostRoute <- MCHostRoute
    Ambient <- MCAmbient
    NotifyMin = 40
    AutoAction = "mitigate"
    AutoDelay = 1
    RemindAfter = 1
    Grace = 1
    PollInterval = 1
    HistoryMax = 1
    AlertId = {a1, a2}
    NoId = NoId
    UserActions = {"mitigate", "disconnect", "continue"}
    Admin = TRUE
    Faults = {"collect", "lookup", "emit", "command", "restart"}

SYMMETRY Symmetry

INVARIANTS
    EnforceOnlyWithVpn
    AnswerIsRechecked
    LearnedForSession
PROPERTIES
    NoSilentThreat
    SilencedWasListed
    SuspectStaysSuspect
    ContinueSticks
    ImplementsBoard
