CONSTANTS
    MaxRetries <- MCMaxRetries
SPECIFICATION Spec
INVARIANTS
    TypeOK
    NoResponseLeak
    UsableResponse
    WholeBody
    AtMostOneLateSend
