CONSTANTS
    MaxRetries <- MCMaxRetries
SPECIFICATION Spec
PROPERTIES
    TimeoutsRetried
