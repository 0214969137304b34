\* Airplane mode comes back with a radio stuck off.
SPECIFICATION ConnSpec
CONSTANTS
    MaxSwitches = 4
    MaxOutside = 0
    MaxToolFaults = 0
INVARIANT NoRadioStuck
CHECK_DEADLOCK FALSE
