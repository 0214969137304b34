\* A pointer action after another one: it does not arrive.
CONSTANTS
    MaxVersion = 2
    MaxChildren = 2
    Apps = {"a", "b"}
    AppImages = {}
    Searches <- MCSearches
    Filters <- MCFilters
    MaxRuns = 2
    MaxQueries = 2
    MaxUpdates = 2
    MaxFiles = 2
    MaxSwitches = 3
    MaxOutside = 0
    MaxToolFaults = 1
    Settings = {"lock", "dpms", "profile"}
    Values = {"v1", "v2"}
    MaxPrefEvents = 3
    MonthLengths <- MCLengths
    DaySlots = 3
    Gaps = {13}
    Drafts <- MCDrafts
    Margin = 1
    MaxSaves = 1
    Events = {1}
    Schedules <- MCSchedules
    Titles = {"a", "b"}
    Lateness = 2
    MaxTime = 5
    MaxEdits = 1
    MaxAlertFaults = 2
    Alphabet <- MCAlphabet
    Screens <- MCScreens
    Width = 3
    MaxCommands = 2
    MaxKeys = 4
    MaxUiFaults = 1
    Daemons = {"d1", "d2", "d3"}
    Shells = {"s"}
    MaxCalls = 3
    MaxStartFaults = 1
SPECIFICATION Spec
INVARIANT AskedIsDone
CHECK_DEADLOCK FALSE
