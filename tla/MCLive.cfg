SPECIFICATION LiveSpec
CONSTANTS
    NUM_BUFFER_SLOTS = 3
    Buffers = {b1, b2, b3}
    NULL = NULL
    Sizes = {1}
    Formats = {1}
    UsageBits = {}
    AttributesOf <- MCAttributesOf
    Requests <- DefaultRequest
    Threads = {t1, t2}
    Apis = {"EGL"}
    NO_CONNECTED_API = "none"
    UINT32_MAX = 100
    MaxFrames = 2
    MAX_REASONABLE = 3
    Stamps <- FarStamps
    PresentTimes = {2}
    AsyncModes = {FALSE}
    AppControlled = {FALSE}
    BufferCounts = {3}
    SecondFormat = {}
    Calls = {"dequeueBuffer", "requestBuffer", "queueBuffer",
             "consumerConnect", "acquireBuffer", "releaseBuffer",
             "allocateBuffers"}
PROPERTIES
    CallsReturn
    FramesLeave
