CONSTANTS
    Conns = {c}
    Programs <- MCPrograms
    CallbackCloses = {TRUE}
\* a client that has sent everything is silent, and the process may have ended
CHECK_DEADLOCK FALSE
SPECIFICATION FairSpec
INVARIANTS
    RequestsIntact
    EndsOnlyOnBadRequest
PROPERTIES
    EveryRequestAnswered
