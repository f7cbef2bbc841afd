SPECIFICATION Spec
CONSTANTS
    Loads = {l1, l2}
    MaxNumber = 2
    MaxChanges = 2
    None = None
CONSTRAINT TwoAnswers
INVARIANTS
    StaleHasCause
    KnownIsLive
PROPERTIES
    LostMessagesOnlyDelay
CHECK_DEADLOCK FALSE
