SPECIFICATION ConsumersSpec
CONSTANTS
    NUM_BUFFER_SLOTS = 3
    Buffers = {b1, b2, b3, b4}
    NULL = NULL
    NO_SLOT = NO_SLOT
    Sizes = {1}
    Formats = {1}
    UsageBits = {}
    AttributesOf <- MCAttributesOf
    Requests <- DefaultRequest
    Threads = {t1, t2}
    Apis = {"EGL"}
    NO_CONNECTED_API = "none"
    UINT32_MAX = 100
    MaxFrames = 4
    MAX_REASONABLE = 1
    Stamps <- AutoStamp
    PresentTimes = {0}
    AsyncModes = {FALSE}
    AppControlled = {FALSE}
    BufferCounts = {}
    Configurations <- MCConfigurations
    Calls = {"dequeueBuffer", "requestBuffer", "queueBuffer",
             "producerConnect", "consumerConnect", "acquireBuffer",
             "releaseBuffer", "disconnect", "consumerDisconnect",
             "setMaxAcquiredBufferCount", "setVRMode"}
INVARIANTS
    CopyIsTheBuffer
    ReadingUndisturbed
    AcquiredWillBeReleased
SYMMETRY Symmetry
CHECK_DEADLOCK FALSE
