SPECIFICATION FairSpec
CONSTANTS
    ch = ch
    other = other
    zero = zero
    warm = warm
    none = none
    w0 = w0
    w1 = w1
    WriteIds = {ch, other}
    ChId = ch
    Setpoints = {zero, warm}
    Zero = zero
    NoSetpoint = none
    Raws = {w0, w1}
    Encode <- MCEncode
    Below <- MCBelow
    Above <- MCAbove
    Within <- MCWithin
    QueueLen = 2
INVARIANTS
    
    PendingIsNewest
    MasterFollowsAccepted
PROPERTIES
    LastChInTurn
    
    HoldPrevails
