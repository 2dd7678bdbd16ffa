SPECIFICATION Spec
CONSTANTS
    Nobody = Nobody
    Callers = {"ipc", "main", "other"}
    QueueLimit = 2
    BatchLimit = 2
INVARIANTS
    TypeOK
    AnswerTellsWhatHappened
    StopReleasesDevice
PROPERTIES
    SentCallsReturn
    HealthChecksGoOn
    EventsAreAwaited
CHECK_DEADLOCK FALSE
