SPECIFICATION Spec
CONSTANTS
    NUM_BUFFER_SLOTS = 3
    Buffers = {b1, b2}
    NULL = NULL
    Sizes = {1}
    Formats = {1, 2}
    UsageBits = {}
    AttributesOf <- MCAttributesOf
    Requests <- DefaultRequest
    Threads = {t1}
    Apis = {"EGL"}
    NO_CONNECTED_API = "none"
    UINT32_MAX = 100
    MaxFrames = 1
    MAX_REASONABLE = 1
    Stamps <- AutoStamp
    PresentTimes = {0}
    AsyncModes = {FALSE}
    AppControlled = {FALSE}
    BufferCounts = {3}
    SecondFormat = {b2}
    Calls = {"dequeueBuffer", "requestBuffer", "queueBuffer",
             "consumerConnect", "acquireBuffer", "releaseBuffer",
             "producerConnect", "setDefaults", "allocationFailure",
             "disableAsyncBuffer", "setDefaultMaxBufferCount",
             "setMaxAcquiredBufferCount", "setSidebandStream", "setVRMode",
             "consumerDisconnect"}
INVARIANTS
    TypeOK
    AbandonedForGood
SYMMETRY Symmetry
