CONSTANTS
    Layouts = {1, 2}
    Displays = {da, db}
    MaxOutside = 1
    MaxIoFaults = 1
    BackupsKept = 1
    Clock = {1, 2}
    LiveLayouts <- MCLiveLayouts
    Sizes <- MCSizes
    DropAt <- MCDropAt
    Threshold = 1
    MaxEdits = 2
    Modes <- MCModes
    Asked = {55, 60, 90, 100, 110, 120, 130, 150, 160, 170, 175, 180, 200, 240, 270, 290, 300, 333, 360, 400}
    Connectors = {"A", "B"}
    Descriptions = {"descA", "descAB"}
    Describes <- MCDescribes
    Gone = {"gone"}
    Values = {1, 2}
    MaxLines = 3
    Comment <- MCComment
    Texts <- MCTexts
    Edits <- MCEdits
    MaxChanges = 2
SPECIFICATION Spec
INVARIANTS TypeOK ShownAsWritten
PROPERTIES EditsAreSafe SavesAreSound ChangesEnd
CHECK_DEADLOCK FALSE
