SPECIFICATION Spec
CONSTANTS
    Procs = {p1, p2}
    Inodes = {i1, i2, i3, i4}
    Refs = {1}
    Statuses = {"open", "verified"}
    NoRef = NoRef
    NoInode = NoInode
    MaxCommands = 4
    MaxFaults = 2
SYMMETRY Symmetry
INVARIANTS
    NeverHalfWritten
PROPERTIES
    AppendOnly
    TallyIsNewest
CHECK_DEADLOCK FALSE
