SPECIFICATION FairSpec
CONSTANTS
    Limits = {0, 1, 2, 3}
    Answers = {"value", "retryable", "fatal"}
INVARIANTS
    RetryJustified
    AnswerExplained
PROPERTIES
    TimeoutBounds
    NoStuckSender
