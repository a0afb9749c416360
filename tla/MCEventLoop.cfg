SPECIFICATION Spec
CONSTANTS
    Watchers = {w1, w2, w3}
    NoWatcher = NoWatcher
    Serial = TRUE
INVARIANTS
    TypeOK
    Served
    FailsForCause
    Restartable
PROPERTIES
    CallsReturn
