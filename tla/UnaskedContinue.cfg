SPECIFICATION PromptSpec

CHECK_DEADLOCK FALSE

INVARIANTS
    NoAnswerNoAction
