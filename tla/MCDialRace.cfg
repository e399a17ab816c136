CONSTANTS
    N <- MCN
    Delay <- MCDelay
SPECIFICATION Spec
INVARIANTS
    TypeOK
    DrainAccounting
    ErrorsAreEarned
PROPERTIES
    HeadStart
    HungDialBlocksNobody
    GoroutinesEnd
    ImplementsOwnership
