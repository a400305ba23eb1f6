CONSTANTS
    Years <- MCYears
    Moments <- MCMoments
    MaxDays = 24000
    Hour = 2
    Files <- MCFiles
    East <- MCEast
    Times <- MCTimes
    kSmallBuffer = 96
    kMaxNumericSize = 32
    TextLengths = {1, 6, 30}
    Integers32 <- MCIntegers
    DoubleLengths = {1, 19}
    MaxPieces = 4
    char1 = char1
    char2 = char2
    zero = zero
    kCheapPrepend = 2
    kInitialSize = 2
    Byte <- MCByte
    Zero = zero
    Chunks <- MCChunks
    MaxSize = 7
\* a year, a zone and a statement end
CHECK_DEADLOCK FALSE
SPECIFICATION Spec
INVARIANTS
    DatesAreGregorian
    LocalTimeReturns
    StatementsFit
    MakeSpaceAsserts
    ContentsKept
PROPERTY ImplementsByteQueue
