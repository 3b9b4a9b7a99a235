SPECIFICATION Spec
CONSTANTS
    ZOrder <- MCZOrder
    At <- MCAt
    Devices = {"d1", "d2"}
    AllPlaces = {"left", "middle", "bar", "edge"}
    SplitTouch = {"left", "middle"}
    WatchOutside = {"left"}
    HasWallpaper = {"middle"}
    NONE = NONE
    Configurations <- MCConfigurations
INVARIANTS
    NoStuckTouch
    HoverRemembered
    PointerInOneWindow
    StreamMakesSense
CHECK_DEADLOCK FALSE
