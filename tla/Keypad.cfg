CONSTANTS
    Modes = {"raw", "evdev"}
    Keymap = "evdev"
    MaxActs = 2
    MaxOpens = 1
    Drafts = {d1, d2, d3}
    MaxDrafts = 3
    Contexts = {"timeline"}
    MaxLayerEdits = 1
    Controls = {"c1"}
    Actions = {"act"}
    Covers <- MCCovers
    PatternOf <- MCPatternOf
    NameOf <- MCNameOf
    Devices = {"a", "b"}
    Shown = "a"
    Classes = {"app1", "app2"}
    Names = {"x"}
    Titles = {"t"}
    Files <- MCFiles
    MaxEdits = 2
    Slugs = {"s1", "s2"}
    Begins <- MCBegins
    Flags = {"f1", "f2"}
    Commands = {"cmd"}
    NewCommand = "new"
    Combos = {"c1", "c2"}
    Confs <- MCConfs
    MaxKeyActs = 3
SPECIFICATION Spec
INVARIANTS TypeOK PagesTellTheTruth
PROPERTIES WritesAreSafe
CHECK_DEADLOCK FALSE
