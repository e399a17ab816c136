CONSTANTS
    Limit <- MCLimit
    Second <- MCSecond
    MaxShift <- MCMaxShift
    Pow <- MCPow
    Threshold <- MCThreshold
    Now <- MCNow
    RawOptions <- MCRawOptions
    Defaults <- MCDefaults
    Responses <- MCResponses
    MaxWaits <- MCMaxWaits

SPECIFICATION Spec

INVARIANTS
    BackoffInBounds
    HintsAreHonoured
