SPECIFICATION FairSpec

CHECK_DEADLOCK FALSE

INVARIANTS
    ChoiceMeant
    AskedIfPossible
PROPERTIES
    PromptEnds
