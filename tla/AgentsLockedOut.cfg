SPECIFICATION FairSpec

CONSTANTS
    Token <- Tokens
    NoToken = 0

INVARIANTS
    AgentsReach
