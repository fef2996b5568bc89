SPECIFICATION FairSpec
CONSTANTS
    plain = plain
    secure = secure
    bare = bare
    crossed = crossed
    warm = warm
    hot = hot
    blank = blank
    p1 = p1
    Forms = {plain, secure, bare, crossed}
    Tls = {secure, bare}
    WithCa = {secure, crossed}
    Lo <- MCLo
    Hi <- MCHi
    Temps = {warm, hot}
    Psks = {p1}
    Blank = blank
    MaxFaults = 2
INVARIANTS
    SavedOrCleared
    BoundsKept
    LastKept
PROPERTIES
    MqttOffOnlyAfterTear
    PressBringsSoftAp
