SPECIFICATION LiveSpec
CONSTANTS
    c1 = c1
    c2 = c2
    Connections = {c1, c2}
    NoConnection = NoConnection
    MAX_SOCKET_BUFFER = 2
    Configurations <- MCConfigurations
INVARIANTS
    WakeLockCovers
    AcksExact
    FlushAnswered
    HardwareFollowsClients
PROPERTIES
    WakeLockReleased
CHECK_DEADLOCK FALSE
