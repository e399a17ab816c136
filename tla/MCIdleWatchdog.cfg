CONSTANTS
    Timeout <- MCTimeout
    Stoppers = {s1, s2}
    MaxLatency <- MCMaxLatency
    QuietFrom <- MCQuietFrom
    MaxNow <- MCMaxNow
    Skews <- MCSkews
SPECIFICATION Spec
INVARIANTS
    TypeOK
    DetectionBound
PROPERTIES
    NoFalseAlarm
    StallIsCancelled
    ImplementsWatchdog
