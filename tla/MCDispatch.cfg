SPECIFICATION Spec
CONSTANTS
    i1 = i1
    i2 = i2
    k = k
    home = home
    w2 = w2
    Windows = {w1, w2}
    Applications = {a1, a2}
    KeyCodes = {k, home, tab}
    HomeKeys = {home}
    Replaced = tab
    Replacement = back
    Injectors = {i1, i2}
    Trusted = {i1}
    SameUid <- MCSameUid
    NONE = NONE
    Configurations <- MCConfigurations
INVARIANTS
    NoStuckKey
    NoMissedWake
    InjectionAccounted
CHECK_DEADLOCK FALSE
