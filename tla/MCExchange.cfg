CONSTANTS
    MaxRetries <- MCMaxRetries
    Explored <- MCExplored
    TransportErrors <- MCTransportErrors
SPECIFICATION ExSpec
INVARIANTS
    ExTypeOK
    OwnAlarms
    NoConnectionLeak
    FailedContextsEnd
    WatchdogsStopped
    AbortsAreNamed
    ClosedMeansClosed
PROPERTIES
    ImplementsRetry
    ImplementsWatchdogs
    StallsEnd
    CancelReturns
