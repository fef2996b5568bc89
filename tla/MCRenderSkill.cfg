SPECIFICATION Spec
CONSTANTS
    Procs = {p1, p2}
    NSources = 2
    Paths = {core, module}
    Versions = {1, 2}
    Values = {"x", "y"}
    BadValue = BadValue
    NLayers = 3
    Tables <- MCTables
    Ids = {"a", "b"}
    Absent = Absent
    MaxRuns = 2
    MaxEdits = 2
    MaxFaults = 2
SYMMETRY Symmetry
INVARIANTS
    HaltMeansDamage
    LastLayerWins
PROPERTIES
    EntryIsWhole
    PublishedStays
CHECK_DEADLOCK FALSE
