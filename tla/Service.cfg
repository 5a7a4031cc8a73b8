SPECIFICATION FairSpec

CONSTANTS
    Token <- Tokens
    NoToken = 0

INVARIANTS
    ClientsServed
    UninstallSticks
PROPERTIES
    ComesBack
    LetInAgain
