SPECIFICATION SpecBeats
CONSTANTS
    RetryCount = 3
    QueueCap = 2
    MaxBeats = 3
    MaxOther = 2
CHECK_DEADLOCK FALSE
INVARIANTS
    OneOutstanding
PROPERTIES
    AnswerHonoured
    SilenceDetected
