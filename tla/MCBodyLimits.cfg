CONSTANTS
    Configs <- MCConfigs
    Second <- MCSecond
    BombMin <- MCBombMin
    Chunk <- MCChunk
    MaxTotal <- MCMaxTotal
    MaxNow <- MCMaxNow

SPECIFICATION Spec

INVARIANTS
    TypeOK
    SteadyIsNeverTooSlow
    CleanReadsWithinLimits

PROPERTIES
    RateVerdictIsTrue
