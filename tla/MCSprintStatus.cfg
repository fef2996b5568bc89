SPECIFICATION Spec
CONSTANTS
    Procs = {p1, p2}
    Epics = {1}
    Names = {"a"}
    Texts = {"t", "u"}
    LegacyTexts = {"u"}
    HandStatuses = {"odd", "contexted"}
    Inputs <- MCInputs
    MaxCommands = 3
    MaxEdits = 1
    MaxFaults = 1
    NoName = NoName
    NoId = NoId
    NoFile = NoFile
    Malformed = Malformed
    NoCmd = NoCmd
SYMMETRY Symmetry
INVARIANTS
    AckedKept
    
    
    
PROPERTIES
    FailureLeavesFile
    NeverDowngraded
CHECK_DEADLOCK FALSE
