SPECIFICATION FairBehaviour

CONSTANTS
    Finding = {rogue}
    AlertId = {i1, i2}
    NoId = NoId
    HistoryMax = 1
    Agent = {alice}
    Cli = {root}
    Choices = {"continue"}
    Modes <- AllModes
    Incidents = {"slow", "restart", "session", "race", "shell", "wall"}
    MaxIncidents = 1

INVARIANTS
    AnswerMeant
    ToldTruth

PROPERTIES
    Shown
    Heard
    ConsoleAsked
