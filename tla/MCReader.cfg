SPECIFICATION ReaderSpec
CONSTANTS
    Tokens <- FewTokens
    MaxTokens = 4
    SplitAbove = 14
    ChunkLen = 10
    NormalizeMin = 4
    DetectWindow = 3
    LongSentence = 2
    Significand = 1024
    Exponents = 6
    PageSizes <- Pages
    Starts <- Edges
    Span = 2
    DailyGoal = 2
    MaxRead = 2
    Reads <- Counts
    MaxWords = 2
    MaxSkew = 1
    FirstYear = 2000
    Minute = 4
    MaxTime = 6
    MaxWpm = 3
    Bodies <- Summaries
    Begun <- Moments
    MaxSessions = 1
INVARIANTS SplitsWell ViewsAlign HonestPace StreaksAreRuns YearsAddUp PaceIsCapped
PROPERTIES MidnightIsFair
CHECK_DEADLOCK FALSE
