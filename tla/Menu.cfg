CONSTANTS
    Pids = {p1, p2}
    Nobody = Nobody
    MaxLaunches = 3
    MaxSignals = 1
    MaxFaults = 1
    MaxLockFaults = 1
    Runs = {a1, a2, a3}
    Bare = {a3}
    None = None
SPECIFICATION Spec
INVARIANTS TypeOK NothingIsLost
PROPERTIES ImplementsResidency ShowIsAnswered
CHECK_DEADLOCK FALSE
