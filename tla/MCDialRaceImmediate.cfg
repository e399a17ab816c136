CONSTANTS
    N <- MCN
    Delay <- MCDelay
SPECIFICATION Safety
PROPERTIES
    ImmediateFailureStartsNext
