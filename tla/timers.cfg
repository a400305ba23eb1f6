CONSTANTS
    Timers = {t1, t2}
    Second = 2
    Delays = {0, 3, 4}
    Whens <- MCWhens
    IntRange = 4
    MaxLag = 4
    ClockSteps <- MCClockSteps
    MaxJumps = 2
SPECIFICATION FairSpec
INVARIANTS
    NeverUnarmed
    ArmedForEarliest
    OnePlaceEach
PROPERTIES
    ImplementsLoop
    NotTooSoon
    EveryTimerRuns
