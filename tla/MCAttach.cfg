SPECIFICATION Spec
CONSTANTS
    NUM_BUFFER_SLOTS = 3
    Buffers = {b1, b2, b3}
    NULL = NULL
    Sizes = {1}
    Formats = {1}
    UsageBits = {}
    AttributesOf <- MCAttributesOf
    Requests <- DefaultRequest
    Threads = {t1}
    Apis = {"EGL"}
    NO_CONNECTED_API = "none"
    UINT32_MAX = 100
    MaxFrames = 1
    MAX_REASONABLE = 1
    Stamps <- AutoStamp
    PresentTimes = {0}
    AsyncModes = {FALSE}
    AppControlled = {FALSE}
    BufferCounts = {3}
    SecondFormat = {}
    Calls = {"dequeueBuffer", "requestBuffer", "queueBuffer",
             "consumerConnect", "acquireBuffer", "releaseBuffer",
             "attachBuffer", "producerDetachBuffer", "detachNextBuffer",
             "consumerDetachBuffer", "consumerAttachBuffer"}
INVARIANTS
    DetachedStaysOut
SYMMETRY Symmetry
