CONSTANTS
    Profiles = {"p", "q"}
    Order <- MCOrder
    Callers = {"w"}
    Window = "w"
    Outcomes = {"success"}
    MaxJobs = 2
    MaxEvents = 2
    MaxQueue = 1
    MaxClicks = 3
    MaxBusFaults = 2
SPECIFICATION Spec
INVARIANTS TypeOK SyncIsKnown
PROPERTIES CancelStops IdentifyFollows
CHECK_DEADLOCK FALSE
