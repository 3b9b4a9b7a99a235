SPECIFICATION LiveSpec
CONSTANTS
    d1 = d1
    d2 = d2
    Devices = {d1, d2}
    PointerDevices = {d1, d2}
    PointerIds = {1, 2}
    StylusIds = {2}
    CAPACITY = 1
    RESAMPLE_LATENCY = 1
    RESAMPLE_MIN_DELTA = 2
    RESAMPLE_MAX_PREDICTION = 2
    Configurations <- MCConfigurations
INVARIANTS
    EachMessageOnce
    DeviceOrderKept
    NoJumpBehindPrediction
PROPERTIES
    AllFinished
CHECK_DEADLOCK FALSE
