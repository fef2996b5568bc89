SPECIFICATION KnowledgeSpec
CONSTANTS
    a = a
    b = b
    x = x
    y = y
    Topics = {a, b}
    Root = Root
    Names = {x, y}
    RepoFiles = {y}
    Docs <- MCDocs
    None = None
    MaxEdits = 3

    
PROPERTIES
    FixKeepsTargets
CHECK_DEADLOCK FALSE
