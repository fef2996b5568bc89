SPECIFICATION RosterSpec
CONSTANTS
    None = None
    Tokens <- MCTokens
    Lower <- MCLower
    Alias <- MCAlias
    Titles = {"t", "u", "v"}
    GroupIds = {"g", "h"}
    Setups <- MCSetups
INVARIANTS
    NoHijack
    
CHECK_DEADLOCK FALSE
