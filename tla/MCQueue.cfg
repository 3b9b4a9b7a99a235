SPECIFICATION Spec
CONSTANTS
    NUM_BUFFER_SLOTS = 3
    Buffers = {b1, b2, b3, b4}
    NULL = NULL
    Sizes = {1}
    Formats = {1}
    UsageBits = {}
    AttributesOf <- MCAttributesOf
    Requests <- DefaultRequest
    Threads = {t1}
    Apis = {"EGL"}
    NO_CONNECTED_API = "none"
    UINT32_MAX = 100
    MaxFrames = 3
    MAX_REASONABLE = 1
    Stamps <- AutoStamp
    PresentTimes = {0}
    AsyncModes = {TRUE, FALSE}
    AppControlled = {TRUE, FALSE}
    BufferCounts = {3}
    SecondFormat = {}
    Calls = {"dequeueBuffer", "requestBuffer", "queueBuffer",
             "consumerConnect", "acquireBuffer", "releaseBuffer",
             "producerConnect", "cancelBuffer", "disconnect", "binderDied"}
INVARIANTS
    QueuedSlotsTracked
    NoSharedAccess
    FenceHandedOver
    QueueTailOrdered
SYMMETRY Symmetry
