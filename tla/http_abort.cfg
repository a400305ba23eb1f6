CONSTANTS
    Conns = {c}
    Programs <- MCPrograms
    CallbackCloses = {TRUE}
CHECK_DEADLOCK FALSE
SPECIFICATION Spec
INVARIANT
    MethodSetOnce
