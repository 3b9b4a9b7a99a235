SPECIFICATION FairSpec
CONSTANTS
    app = app
    monitor = monitor
    pad = pad
    stick = stick
    Apps = {app}
    Monitors = {monitor}
    KeyCodes = {1, 2}
    Pointers = {pad}
    Joysticks = {stick}
    PIPE = 1
    NONE = NONE
    UNKNOWN = UNKNOWN
    Configurations <- MCConfigurations
INVARIANTS
    ForegroundCountExact
    AnswerOwed
    EntryOutlivesPolicyCall
    TouchStreamConsistent
    MementosMatchStream
PROPERTIES
    QueuesDrain
CHECK_DEADLOCK FALSE
