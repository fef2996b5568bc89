SPECIFICATION FairSpec
CONSTANTS
    factory = factory
    same = same
    next = next
    none = none
    p1 = p1
    Releases = {same, next}
    Factory = factory
    Version <- MCVersion
    HasSha = {next}
    NoRelease = none
    Pollers = {p1}
    Regimes <- MCRegimes
INVARIANTS
    RollbackPossible
    FlipsToChecked
    
PROPERTIES
    DownloadEnds
