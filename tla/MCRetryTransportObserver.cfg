CONSTANTS
    MaxRetries <- MCMaxRetries
SPECIFICATION Spec
INVARIANTS
    ObservedRetriesFollow
