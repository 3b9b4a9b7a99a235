---------------------------- MODULE BufferQueue ----------------------------
(***************************************************************************)
(* The BufferQueue of libgui: BufferQueueCore, the state that producer and *)
(* consumer share under mCore->mMutex, with every operation of             *)
(* BufferQueueProducer and BufferQueueConsumer that changes it.            *)
(*                                                                         *)
(* One action is one critical section of mMutex.  A producer call that     *)
(* lets go of the lock half-way (to sleep on a condition variable, to      *)
(* allocate a buffer, to call the consumer back) is a record in call[t]    *)
(* saying where thread t is and which locals it still needs, and takes     *)
(* several actions.  A call that the code refuses changes nothing and is   *)
(* not a step; a refused dequeueBuffer, attachBuffer or setBufferCount may *)
(* have slept or freed slots before it gives up, and is one.               *)
(***************************************************************************)
EXTENDS Integers, Sequences, FiniteSets

CONSTANTS
    NUM_BUFFER_SLOTS,  \* size of the slot array (64 in BufferQueueDefs)
    Buffers,           \* graphic buffers, each named by its handle
    NULL,              \* the null sp<GraphicBuffer>, not in Buffers
    Sizes,             \* width and height of a buffer, as one value
    Formats,           \* pixel formats
    UsageBits,         \* gralloc usage bits
    AttributesOf,      \* size, format and usage of every buffer
    Requests,          \* size, format and usage the producer asks for
    Threads,           \* binder threads executing IGraphicBufferProducer calls
    Apis,              \* the four NATIVE_WINDOW_API_* values
    NO_CONNECTED_API,
    UINT32_MAX,        \* frame number of a slot with a newly allocated buffer
    MaxFrames,         \* bound: frames queued in a behaviour
    MAX_REASONABLE,    \* MAX_REASONABLE_NSEC of acquireBuffer
    Stamps,            \* time stamps of frames: [time, isAuto]
    PresentTimes,      \* the expectedPresent arguments (0: none given)
    AsyncModes,        \* the async arguments the producer uses
    AppControlled,     \* the controlledByApp arguments of both connects
    BufferCounts,      \* the counts the producer sets
    Calls              \* the operations and events the environment performs

MAX_MAX_ACQUIRED_BUFFERS == NUM_BUFFER_SLOTS - 2
Slots == 0..(NUM_BUFFER_SLOTS - 1)
Attributes == [size: Sizes, format: Formats, usage: SUBSET UsageBits]

\* In a request, 0 stands for the default size or format of the queue.
RequestType ==
    [size: Sizes \cup {0}, format: Formats \cup {0}, usage: SUBSET UsageBits]

\* A request once the default format and usage are filled in.
SizedLater ==
    [size: Sizes \cup {0}, format: Formats, usage: SUBSET UsageBits]

ASSUME SlotsAssumption == NUM_BUFFER_SLOTS \in Nat /\ NUM_BUFFER_SLOTS >= 3
ASSUME BuffersAssumption ==
    NULL \notin Buffers /\ AttributesOf \in [Buffers -> Attributes]
ASSUME RequestsAssumption ==
    /\ Requests \subseteq RequestType
    /\ 1 \in Sizes /\ 1 \in Formats   \* the queue's initial defaults
    /\ 0 \notin Sizes                 \* setDefaultBufferSize: BAD_VALUE
ASSUME FramesAssumption ==
    MaxFrames \in Nat /\ UINT32_MAX \in Nat /\ UINT32_MAX > MaxFrames
ASSUME TimesAssumption ==
    /\ Stamps \subseteq [time: Int, isAuto: BOOLEAN]
    /\ PresentTimes \subseteq Int
    /\ MAX_REASONABLE \in Nat
ASSUME ApisAssumption == NO_CONNECTED_API \notin Apis
ASSUME ModesAssumption ==
    AsyncModes \subseteq BOOLEAN /\ AppControlled \subseteq BOOLEAN
ASSUME CountsAssumption == BufferCounts \subseteq 0..NUM_BUFFER_SLOTS
-----------------------------------------------------------------------------
VARIABLES
    mSlots,          \* the BufferSlot array
    mQueue,          \* the FIFO of BufferItems
    mCore,           \* the other fields of BufferQueueCore
    vrMode,          \* the property sf.vrmode that isInVRMode reads
    call,            \* where producer thread t is, with its locals
    sleeping,        \* "awake", or the condition variable t sleeps on
    callbacks,       \* the callback tickets, and the newest frame announced
    producerSlots,   \* slots the producer was given and has not returned
    consumerItems,   \* items the consumer acquired or attached and still holds
    lastAcquired,    \* the frame the consumer acquired last
    owedFence,       \* per slot, the fence its last owner handed in
    clientBuffers    \* buffers the clients detached and own themselves

threads == <<call, sleeping>>
consumer == <<consumerItems, lastAcquired>>
clients == <<producerSlots, consumer, owedFence, clientBuffers>>
vars == <<mSlots, mQueue, mCore, vrMode, threads, callbacks, clients>>
-----------------------------------------------------------------------------
(* Types *)

\* Which client handed the fence in; the fence object itself is opaque.
Fences == {"NO_FENCE", "producer", "consumer"}
FrameNumbers == 0..MaxFrames \cup {UINT32_MAX}

BufferSlot ==
    [mBufferState: {"FREE", "DEQUEUED", "QUEUED", "ACQUIRED"},
     mGraphicBuffer: Buffers \cup {NULL},
     mFrameNumber: FrameNumbers,
     mRequestBufferCalled: BOOLEAN,
     mAcquireCalled: BOOLEAN,
     mNeedsCleanupOnRelease: BOOLEAN,
     mAttachedByConsumer: BOOLEAN,
     mFence: Fences]

BufferItem ==
    [mSlot: Slots, mGraphicBuffer: Buffers, mFrameNumber: 1..MaxFrames,
     mAcquireCalled: BOOLEAN, mIsDroppable: BOOLEAN, mTimestamp: Int,
     mIsAutoTimestamp: BOOLEAN, mFence: Fences]

Flags == SUBSET {"BUFFER_NEEDS_REALLOCATION", "RELEASE_ALL_BUFFERS"}

Idle == [op |-> "idle"]

Call ==
    {Idle}
    \cup [op: {"dequeueBuffer"}, async: BOOLEAN, req: RequestType,
          flags: Flags]
    \cup [op: {"dequeueRetry"}, async: BOOLEAN, req: SizedLater,
          flags: Flags]
    \cup [op: {"createGraphicBuffer"}, slot: Slots, attr: Attributes,
          flags: Flags]
    \cup [op: {"dequeueReturn"}, slot: Slots, flags: Flags]
    \cup [op: {"attachBuffer", "attachRetry"}, buffer: Buffers]
    \cup [op: {"onFrame"}, ticket: 0..MaxFrames, frame: 1..MaxFrames,
          listener: BOOLEAN, replaced: BOOLEAN]
    \cup [op: {"setBufferCount"}, count: 0..NUM_BUFFER_SLOTS]
    \cup [op: {"detachNextBuffer"}]
    \cup [op: {"disconnect"}, api: Apis \cup {NO_CONNECTED_API}]
    \cup [op: {"onBuffersReleased"}]
    \cup [op: {"allocateBuffers"}, async: BOOLEAN, req: RequestType]
    \cup [op: {"allocating"}, async: BOOLEAN, req: RequestType,
          slots: SUBSET Slots, attr: Attributes]

ConsumerItem == [slot: Slots, frame: 0..MaxFrames, buffer: Buffers]

BufferQueueCore ==
    [mIsAbandoned: BOOLEAN,
     mBufferHasBeenQueued: BOOLEAN,
     mFrameCounter: 0..MaxFrames,
     mOverrideMaxBufferCount: 0..NUM_BUFFER_SLOTS,
     mIsAllocating: BOOLEAN,
     mConsumerListener: BOOLEAN,        \* is a listener connected?
     mConsumerControlledByApp: BOOLEAN,
     mDefaultMaxBufferCount: 1..NUM_BUFFER_SLOTS,
     mMaxAcquiredBufferCount: 1..MAX_MAX_ACQUIRED_BUFFERS,
     mUseAsyncBuffer: BOOLEAN,
     mDefaultSize: Sizes,               \* mDefaultWidth and mDefaultHeight
     mDefaultBufferFormat: Formats,
     mConsumerUsageBits: SUBSET UsageBits,
     mConnectedApi: Apis \cup {NO_CONNECTED_API},
     mDequeueBufferCannotBlock: BOOLEAN,
     mSidebandStream: BOOLEAN]          \* is a stream set?

SleepState == {"awake", "mDequeueCondition", "mIsAllocatingCondition"}

CallbackState ==
    [mNextCallbackTicket: 0..MaxFrames, mCurrentCallbackTicket: 0..MaxFrames,
     announced: 0..MaxFrames]

TypeOK ==
    /\ mSlots \in [Slots -> BufferSlot]
    /\ mQueue \in Seq(BufferItem)
    /\ mCore \in BufferQueueCore
    /\ vrMode \in BOOLEAN
    /\ call \in [Threads -> Call]
    /\ sleeping \in [Threads -> SleepState]
    /\ callbacks \in CallbackState
    /\ producerSlots \in SUBSET Slots
    /\ consumerItems \in SUBSET ConsumerItem
    /\ lastAcquired \in 0..MaxFrames
    /\ owedFence \in [Slots -> Fences]
    /\ clientBuffers \in SUBSET Buffers
-----------------------------------------------------------------------------
(* BufferQueueCore *)

EmptySlot ==
    [mBufferState |-> "FREE", mGraphicBuffer |-> NULL, mFrameNumber |-> 0,
     mRequestBufferCalled |-> FALSE, mAcquireCalled |-> FALSE,
     mNeedsCleanupOnRelease |-> FALSE, mAttachedByConsumer |-> FALSE,
     mFence |-> "NO_FENCE"]

Init ==
    /\ mSlots = [s \in Slots |-> EmptySlot]
    /\ mQueue = <<>>
    /\ mCore = [mIsAbandoned |-> FALSE,
                mBufferHasBeenQueued |-> FALSE,
                mFrameCounter |-> 0,
                mOverrideMaxBufferCount |-> 0,
                mIsAllocating |-> FALSE,
                mConsumerListener |-> FALSE,
                mConsumerControlledByApp |-> FALSE,
                mDefaultMaxBufferCount |-> 2,
                mMaxAcquiredBufferCount |-> 1,
                mUseAsyncBuffer |-> TRUE,
                mDefaultSize |-> 1,
                mDefaultBufferFormat |-> 1,
                mConsumerUsageBits |-> {},
                mConnectedApi |-> NO_CONNECTED_API,
                mDequeueBufferCannotBlock |-> FALSE,
                mSidebandStream |-> FALSE]
    /\ vrMode = FALSE
    /\ call = [t \in Threads |-> Idle]
    /\ sleeping = [t \in Threads |-> "awake"]
    /\ callbacks = [mNextCallbackTicket |-> 0, mCurrentCallbackTicket |-> 0,
                    announced |-> 0]
    /\ producerSlots = {}
    /\ consumerItems = {}
    /\ lastAcquired = 0
    /\ owedFence = [s \in Slots |-> "NO_FENCE"]
    /\ clientBuffers = {}

InState(st) == {s \in Slots : mSlots[s].mBufferState = st}

MinUndequeuedBufferCount(async) ==
    IF mCore.mUseAsyncBuffer /\ (mCore.mDequeueBufferCannotBlock \/ async)
    THEN mCore.mMaxAcquiredBufferCount + 1
    ELSE mCore.mMaxAcquiredBufferCount

MinMaxBufferCount(async) == MinUndequeuedBufferCount(async) + 1

\* getMaxBufferCountLocked: a slot beyond the configured maximum keeps the
\* maximum up for as long as it is DEQUEUED or QUEUED.
MaxBufferCount(async) ==
    LET min  == MinMaxBufferCount(async)
        base == IF mCore.mOverrideMaxBufferCount # 0
                THEN mCore.mOverrideMaxBufferCount
                ELSE IF mCore.mDefaultMaxBufferCount > min
                THEN mCore.mDefaultMaxBufferCount ELSE min
        kept == {s \in InState("QUEUED") \cup InState("DEQUEUED") : s >= base}
    IN  IF kept = {} THEN base
        ELSE 1 + (CHOOSE s \in kept : \A r \in kept : r <= s)

\* Mutant: freeBufferLocked leaves mFence null instead of NO_FENCE.
FreedClearingFence(slot) ==
    [slot EXCEPT
        !.mGraphicBuffer = NULL,
        !.mNeedsCleanupOnRelease =
            IF slot.mBufferState = "ACQUIRED" THEN TRUE ELSE @,
        !.mBufferState = "FREE",
        !.mFrameNumber = 0,
        !.mAcquireCalled = FALSE,
        !.mFence = NULL]

\* Mutant: freeBufferLocked keeps the buffer.
FreedKeepingBuffer(slot) ==
    [slot EXCEPT
        !.mNeedsCleanupOnRelease =
            IF slot.mBufferState = "ACQUIRED" THEN TRUE ELSE @,
        !.mBufferState = "FREE",
        !.mFrameNumber = 0,
        !.mAcquireCalled = FALSE,
        !.mFence = "NO_FENCE"]

\* freeBufferLocked, on the slot's record
Freed(slot) ==
    [slot EXCEPT
        !.mGraphicBuffer = NULL,
        !.mNeedsCleanupOnRelease =
            IF slot.mBufferState = "ACQUIRED" THEN TRUE ELSE @,
        !.mBufferState = "FREE",
        !.mFrameNumber = 0,
        !.mAcquireCalled = FALSE,
        !.mFence = "NO_FENCE"]

FreedAt(S) ==
    [s \in Slots |-> IF s \in S THEN Freed(mSlots[s]) ELSE mSlots[s]]

NoFenceOwedAt(S) ==
    owedFence' = [s \in Slots |-> IF s \in S THEN "NO_FENCE" ELSE owedFence[s]]

\* freeAllBuffersLocked but for mBufferHasBeenQueued, which its callers reset
FreeAllBuffers == mSlots' = FreedAt(Slots) /\ NoFenceOwedAt(Slots)

\* Does the item's slot still hold the buffer that was queued?
StillTracking(item) ==
    item.mGraphicBuffer = mSlots[item.mSlot].mGraphicBuffer

Broadcast(condition) ==
    sleeping' = [t \in Threads |->
                    IF sleeping[t] = condition THEN "awake" ELSE sleeping[t]]

\* Buffers a producer thread is attaching
BeingAttached ==
    {call[t].buffer :
       t \in {u \in Threads : call[u].op \in {"attachBuffer", "attachRetry"}}}

\* Buffers nothing refers to: the allocator may create one of them.
Unreferenced ==
    Buffers \ ( {mSlots[s].mGraphicBuffer : s \in Slots}
          \cup  {mQueue[i].mGraphicBuffer : i \in 1..Len(mQueue)}
          \cup  {item.buffer : item \in consumerItems}
          \cup  clientBuffers
          \cup  BeingAttached )

\* Buffers a client may attach: its own, or one it got elsewhere.
Attachable == (Unreferenced \cup clientBuffers) \ BeingAttached
-----------------------------------------------------------------------------
(* BufferQueueProducer *)

IsIdle(t) == call[t] = Idle
Returns(t) == call' = [call EXCEPT ![t] = Idle]

\* Thread t enters a call that starts with waitWhileAllocatingLocked.
Enter(t, c) ==
    /\ IsIdle(t)
    /\ c.op \in Calls
    /\ call' = [call EXCEPT ![t] = c]
    /\ UNCHANGED <<mSlots, mQueue, mCore, vrMode, sleeping, callbacks,
                   clients>>

\* waitWhileAllocatingLocked finds mIsAllocating set.
WaitWhileAllocating(t) ==
    /\ call[t].op \in {"dequeueBuffer", "attachBuffer", "setBufferCount",
                       "detachNextBuffer", "disconnect", "allocateBuffers"}
    /\ sleeping[t] = "awake"
    /\ mCore.mIsAllocating
    /\ sleeping' = [sleeping EXCEPT ![t] = "mIsAllocatingCondition"]
    /\ UNCHANGED <<mSlots, mQueue, mCore, vrMode, call, callbacks, clients>>

\* Mutant: the operation does not wait for an allocation under way.
RunsAnyway(t, op) == call[t].op = op /\ sleeping[t] = "awake"

\* Thread t is past waitWhileAllocatingLocked in operation op.
Runs(t, op) ==
    call[t].op = op /\ sleeping[t] = "awake" /\ ~mCore.mIsAllocating

RequestBuffer(t, s) ==
    /\ "requestBuffer" \in Calls
    /\ IsIdle(t)
    /\ ~mCore.mIsAbandoned
    /\ s \in producerSlots
    /\ mSlots[s].mBufferState = "DEQUEUED"
    /\ mSlots' = [mSlots EXCEPT ![s].mRequestBufferCalled = TRUE]
    /\ UNCHANGED <<mQueue, mCore, vrMode, threads, callbacks, clients>>

\* setBufferCount returns NO_INIT or BAD_VALUE.
SetBufferCountRefused(count) ==
    \/ mCore.mIsAbandoned
    \/ InState("DEQUEUED") # {}
    \/ count # 0 /\ count < MinMaxBufferCount(FALSE)

SetBufferCount(t) ==
    /\ Runs(t, "setBufferCount")
    /\ LET count == call[t].count IN
       \/ /\ SetBufferCountRefused(count)
          /\ Returns(t)
          /\ UNCHANGED <<mSlots, mCore, sleeping, owedFence>>
       \/ /\ ~SetBufferCountRefused(count)
          /\ count = 0
          /\ mCore' = [mCore EXCEPT !.mOverrideMaxBufferCount = 0]
          /\ Broadcast("mDequeueCondition")
          /\ Returns(t)
          /\ UNCHANGED <<mSlots, owedFence>>
       \/ /\ ~SetBufferCountRefused(count)
          /\ count # 0
          /\ FreeAllBuffers
          /\ mCore' = [mCore EXCEPT !.mBufferHasBeenQueued = FALSE,
                                    !.mOverrideMaxBufferCount = count]
          /\ Broadcast("mDequeueCondition")
          /\ call' = [call EXCEPT ![t] =
                        IF mCore.mConsumerListener
                        THEN [op |-> "onBuffersReleased"] ELSE Idle]
    /\ UNCHANGED <<mQueue, vrMode, callbacks, producerSlots, consumer,
                   clientBuffers>>

(***************************************************************************)
(* waitForFreeSlotThenRelock.  FreeSlotStatus is what one turn of its loop *)
(* comes to: an error it returns, "WAIT" for a sleep on mDequeueCondition, *)
(* or NO_ERROR.  Before it counts slots the turn frees the buffers beyond  *)
(* the maximum; FreeSlots and the counts only look below it.               *)
(***************************************************************************)
\* Mutant: any slot without a buffer counts as free.
EmptySlots(async) ==
    {s \in Slots : /\ s < MaxBufferCount(async)
                   /\ \/ mSlots[s].mBufferState = "FREE"
                      \/ mSlots[s].mGraphicBuffer = NULL}

FreeSlots(async) ==
    {s \in InState("FREE") : s < MaxBufferCount(async)}

Beyond(async) ==
    {s \in Slots : s >= MaxBufferCount(async)
                   /\ mSlots[s].mGraphicBuffer # NULL}

AsyncOverrideInvalid(async) ==
    /\ async
    /\ mCore.mOverrideMaxBufferCount # 0
    /\ mCore.mOverrideMaxBufferCount < MaxBufferCount(async)

DequeuedCount(async) ==
    Cardinality({s \in InState("DEQUEUED") : s < MaxBufferCount(async)})

AcquiredCount(async) ==
    Cardinality({s \in InState("ACQUIRED") : s < MaxBufferCount(async)})

\* Mutant: the check against the minimum of undequeued buffers is lost.
SecondDequeued(async) ==
    mCore.mOverrideMaxBufferCount = 0 /\ DequeuedCount(async) > 0

TooManyDequeued(async) ==
    \/ mCore.mOverrideMaxBufferCount = 0 /\ DequeuedCount(async) > 0
    \/ /\ mCore.mBufferHasBeenQueued
       /\ MaxBufferCount(async) - (DequeuedCount(async) + 1)
            < MinUndequeuedBufferCount(async)

MustWait(async) ==
    FreeSlots(async) = {} \/ Len(mQueue) > MaxBufferCount(async)

\* Mutant: the loop does not look at mIsAbandoned.
IgnoresAbandoned(async) ==
    IF AsyncOverrideInvalid(async) THEN "BAD_VALUE"
    ELSE IF TooManyDequeued(async) THEN "INVALID_OPERATION"
    ELSE IF ~MustWait(async) THEN "NO_ERROR"
    ELSE IF /\ mCore.mDequeueBufferCannotBlock
            /\ AcquiredCount(async) <= mCore.mMaxAcquiredBufferCount
    THEN "WOULD_BLOCK"
    ELSE "WAIT"

FreeSlotStatus(async) ==
    IF mCore.mIsAbandoned THEN "NO_INIT"
    ELSE IF AsyncOverrideInvalid(async) THEN "BAD_VALUE"
    ELSE IF TooManyDequeued(async) THEN "INVALID_OPERATION"
    ELSE IF ~MustWait(async) THEN "NO_ERROR"
    ELSE IF /\ mCore.mDequeueBufferCannotBlock
            /\ AcquiredCount(async) <= mCore.mMaxAcquiredBufferCount
    THEN "WOULD_BLOCK"
    ELSE "WAIT"

\* The slots a turn frees: none when it fails before the freeing loop.
SlotsToFree(async) ==
    IF FreeSlotStatus(async) \in {"NO_INIT", "BAD_VALUE"} THEN {}
    ELSE Beyond(async)

\* s is the first of the slots in S with the smallest frame number.
IsOldest(s, S) ==
    /\ s \in S
    /\ \A r \in S :
         \/ mSlots[s].mFrameNumber < mSlots[r].mFrameNumber
         \/ mSlots[s].mFrameNumber = mSlots[r].mFrameNumber /\ s <= r

ReleaseAllFlag(async) ==
    IF SlotsToFree(async) = {} THEN {} ELSE {"RELEASE_ALL_BUFFERS"}

\* A turn of the loop that ends the call with an error.
FreeSlotError(t, async) ==
    /\ FreeSlotStatus(async) \notin {"WAIT", "NO_ERROR"}
    /\ mSlots' = FreedAt(SlotsToFree(async))
    /\ NoFenceOwedAt(SlotsToFree(async))
    /\ Returns(t)
    /\ UNCHANGED sleeping

\* A turn of the loop that puts thread t to sleep, to go on with call c.
FreeSlotWait(t, async, c) ==
    /\ FreeSlotStatus(async) = "WAIT"
    /\ mSlots' = FreedAt(SlotsToFree(async))
    /\ NoFenceOwedAt(SlotsToFree(async))
    /\ sleeping' = [sleeping EXCEPT ![t] = "mDequeueCondition"]
    /\ call' = [call EXCEPT ![t] = c]

\* Does a buffer with attributes have serve a request for want?
Serves(have, want) ==
    /\ have.size = want.size
    /\ have.format = want.format
    /\ want.usage \subseteq have.usage

\* The rest of dequeueBuffer's critical section once slot s is found.  The
\* default size is read here, the default format and usage before the wait.
TakeSlot(t, s, async, req, flags) ==
    LET attr == [req EXCEPT !.size = IF @ = 0 THEN mCore.mDefaultSize ELSE @]
        slot == mSlots[s]
        usable == /\ slot.mGraphicBuffer # NULL
                  /\ Serves(AttributesOf[slot.mGraphicBuffer], attr)
        needsRealloc == IF usable /\ ~slot.mAttachedByConsumer THEN {}
                        ELSE {"BUFFER_NEEDS_REALLOCATION"}
    IN  /\ mSlots' =
             [FreedAt(SlotsToFree(async)) EXCEPT ![s] =
                IF usable
                THEN [slot EXCEPT !.mBufferState = "DEQUEUED",
                                  !.mFence = "NO_FENCE"]
                ELSE [slot EXCEPT !.mBufferState = "DEQUEUED",
                                  !.mGraphicBuffer = NULL,
                                  !.mAcquireCalled = FALSE,
                                  !.mRequestBufferCalled = FALSE,
                                  !.mFence = "NO_FENCE"]]
        /\ NoFenceOwedAt(SlotsToFree(async) \cup {s})
        /\ call' = [call EXCEPT ![t] =
             IF usable
             THEN [op |-> "dequeueReturn", slot |-> s,
                   flags |-> flags \cup needsRealloc]
             ELSE [op |-> "createGraphicBuffer", slot |-> s, attr |-> attr,
                   flags |-> flags \cup needsRealloc]]
        /\ UNCHANGED sleeping

\* One turn of the wait loop of dequeueBuffer, its errors and its success.
DequeueTurn(t, async, req, flags) ==
    LET seen == flags \cup ReleaseAllFlag(async) IN
    /\ \/ FreeSlotError(t, async)
       \/ FreeSlotWait(t, async, [op |-> "dequeueRetry", async |-> async,
                                  req |-> req, flags |-> seen])
       \/ /\ FreeSlotStatus(async) = "NO_ERROR"
          /\ \E s \in Slots : /\ IsOldest(s, FreeSlots(async))
                              /\ TakeSlot(t, s, async, req, seen)
    /\ UNCHANGED <<mQueue, mCore, vrMode, callbacks, producerSlots, consumer,
                   clientBuffers>>

\* dequeueBuffer up to its first sleep or the end of its critical section
DequeueBuffer(t) ==
    /\ Runs(t, "dequeueBuffer")
    /\ LET req == call[t].req IN
       DequeueTurn(t, call[t].async,
           [req EXCEPT
              !.format = IF @ = 0 THEN mCore.mDefaultBufferFormat ELSE @,
              !.usage = @ \cup mCore.mConsumerUsageBits], {})

\* dequeueBuffer, woken from mDequeueCondition: mIsAllocating is not looked
\* at again.
DequeueRetry(t) ==
    /\ call[t].op = "dequeueRetry"
    /\ sleeping[t] = "awake"
    /\ DequeueTurn(t, call[t].async, call[t].req, call[t].flags)

\* createGraphicBuffer, without the lock, and the critical section that puts
\* the new buffer into the slot.
DequeueAllocate(t) ==
    /\ call[t].op = "createGraphicBuffer"
    /\ LET c == call[t] IN
       \/ /\ mCore.mIsAbandoned \/ "allocationFailure" \in Calls
          /\ Returns(t)
          /\ UNCHANGED mSlots
       \/ /\ ~mCore.mIsAbandoned
          /\ \E b \in Unreferenced :
                /\ AttributesOf[b] = c.attr
                /\ mSlots' = [mSlots EXCEPT ![c.slot] =
                                [@ EXCEPT !.mFrameNumber = UINT32_MAX,
                                          !.mGraphicBuffer = b]]
          /\ call' = [call EXCEPT ![t] = [op |-> "dequeueReturn",
                                          slot |-> c.slot, flags |-> c.flags]]
    /\ UNCHANGED <<mQueue, mCore, vrMode, sleeping, callbacks, clients>>

\* The end of dequeueBuffer, without the lock: the client has the slot.
DequeueReturn(t) ==
    /\ call[t].op = "dequeueReturn"
    /\ producerSlots' = producerSlots \cup {call[t].slot}
    /\ Returns(t)
    /\ UNCHANGED <<mSlots, mQueue, mCore, vrMode, sleeping, callbacks,
                   consumer, owedFence, clientBuffers>>

\* detachBuffer(P): the client keeps the buffer and gives the slot back.
ProducerDetachBuffer(t, s) ==
    /\ "producerDetachBuffer" \in Calls
    /\ IsIdle(t)
    /\ ~mCore.mIsAbandoned
    /\ s \in producerSlots
    /\ mSlots[s].mBufferState = "DEQUEUED"
    /\ mSlots[s].mRequestBufferCalled
    /\ mSlots' = FreedAt({s})
    /\ NoFenceOwedAt({s})
    /\ Broadcast("mDequeueCondition")
    /\ producerSlots' = producerSlots \ {s}
    /\ clientBuffers' = clientBuffers \cup
                          ({mSlots[s].mGraphicBuffer} \ {NULL})
    /\ UNCHANGED <<mQueue, mCore, vrMode, call, callbacks, consumer>>

\* The oldest free buffer leaves the queue, or the call fails.
DetachNextBuffer(t) ==
    LET S == {s \in InState("FREE") : mSlots[s].mGraphicBuffer # NULL} IN
    /\ Runs(t, "detachNextBuffer")
    /\ \/ /\ mCore.mIsAbandoned \/ S = {}
          /\ UNCHANGED <<mSlots, owedFence, clientBuffers>>
       \/ /\ ~mCore.mIsAbandoned
          /\ \E s \in Slots :
                /\ IsOldest(s, S)
                /\ mSlots' = FreedAt({s})
                /\ NoFenceOwedAt({s})
                /\ clientBuffers' = clientBuffers \cup
                                      {mSlots[s].mGraphicBuffer}
    /\ Returns(t)
    /\ UNCHANGED <<mQueue, mCore, vrMode, sleeping, callbacks, producerSlots,
                   consumer>>

\* Mutant: attachBuffer leaves the slot FREE.
AttachedStillFree(slot, b) ==
    [slot EXCEPT !.mGraphicBuffer = b, !.mFence = "NO_FENCE",
                 !.mRequestBufferCalled = TRUE]

Attached(slot, b) ==
    [slot EXCEPT !.mGraphicBuffer = b, !.mBufferState = "DEQUEUED",
                 !.mFence = "NO_FENCE", !.mRequestBufferCalled = TRUE]

\* One turn of the wait loop of attachBuffer(P), its errors and its success.
AttachTurn(t) ==
    LET b == call[t].buffer IN
    /\ \/ /\ FreeSlotError(t, FALSE)
          /\ UNCHANGED <<producerSlots, clientBuffers>>
       \/ /\ FreeSlotWait(t, FALSE, [op |-> "attachRetry", buffer |-> b])
          /\ UNCHANGED <<producerSlots, clientBuffers>>
       \/ /\ FreeSlotStatus(FALSE) = "NO_ERROR"
          /\ \E s \in Slots :
                /\ IsOldest(s, FreeSlots(FALSE))
                /\ mSlots' =
                     [FreedAt(SlotsToFree(FALSE)) EXCEPT ![s] = Attached(@, b)]
                /\ NoFenceOwedAt(SlotsToFree(FALSE) \cup {s})
                /\ producerSlots' = producerSlots \cup {s}
          /\ Returns(t)
          /\ clientBuffers' = clientBuffers \ {b}
          /\ UNCHANGED sleeping
    /\ UNCHANGED <<mQueue, mCore, vrMode, callbacks, consumer>>

ProducerAttachBuffer(t) == Runs(t, "attachBuffer") /\ AttachTurn(t)

AttachRetry(t) ==
    call[t].op = "attachRetry" /\ sleeping[t] = "awake" /\ AttachTurn(t)

\* queueBuffer's checks of its arguments under the lock
MayQueue(s, async) ==
    /\ ~mCore.mIsAbandoned
    /\ ~AsyncOverrideInvalid(async)
    /\ s \in producerSlots
    /\ s < MaxBufferCount(async)
    /\ mSlots[s].mBufferState = "DEQUEUED"
    /\ mSlots[s].mRequestBufferCalled
    /\ mSlots[s].mGraphicBuffer # NULL

\* queueBuffer in VR mode: the frame is discarded and its slot freed.
QueueBufferInVRMode(t, s, async) ==
    /\ "queueBuffer" \in Calls
    /\ IsIdle(t)
    /\ MayQueue(s, async)
    /\ vrMode
    /\ mSlots' = [mSlots EXCEPT ![s] =
                    [@ EXCEPT !.mFence = "NO_FENCE", !.mBufferState = "FREE"]]
    /\ owedFence' = [owedFence EXCEPT ![s] = "producer"]
    /\ producerSlots' = producerSlots \ {s}
    /\ UNCHANGED <<mQueue, mCore, vrMode, threads, callbacks, consumer,
                   clientBuffers>>

\* The front of the FIFO gives way to the next item.
Replaces == mQueue # <<>> /\ mQueue[1].mIsDroppable

\* Mutant: the new item goes to the front of the FIFO.
EnqueueAtFront(item) ==
    IF Replaces THEN [mQueue EXCEPT ![1] = item] ELSE <<item>> \o mQueue

\* The FIFO with a new item: at the end, or instead of a droppable front.
Enqueue(item) ==
    IF Replaces THEN [mQueue EXCEPT ![1] = item] ELSE Append(mQueue, item)

Queued(slot, frame) ==
    [slot EXCEPT !.mFence = "producer", !.mBufferState = "QUEUED",
                 !.mFrameNumber = frame]

QueueBuffer(t, s, async, stamp) ==
    LET frame == mCore.mFrameCounter + 1
        item == [mSlot |-> s, mGraphicBuffer |-> mSlots[s].mGraphicBuffer,
                 mFrameNumber |-> frame,
                 mAcquireCalled |-> mSlots[s].mAcquireCalled,
                 mIsDroppable |-> mCore.mDequeueBufferCannotBlock \/ async,
                 mTimestamp |-> stamp.time, mIsAutoTimestamp |-> stamp.isAuto,
                 mFence |-> "producer"]
        queued == [mSlots EXCEPT ![s] = Queued(@, frame)]
    IN
    /\ "queueBuffer" \in Calls
    /\ IsIdle(t)
    /\ mCore.mFrameCounter < MaxFrames
    /\ MayQueue(s, async)
    /\ ~vrMode
    /\ mCore' = [mCore EXCEPT !.mFrameCounter = frame,
                              !.mBufferHasBeenQueued = TRUE]
    /\ mQueue' = Enqueue(item)
    /\ mSlots' = IF Replaces /\ StillTracking(mQueue[1])
                 THEN [queued EXCEPT ![mQueue[1].mSlot] =
                         [@ EXCEPT !.mBufferState = "FREE",
                                   !.mFrameNumber = 0]]
                 ELSE queued
    /\ owedFence' = [owedFence EXCEPT ![s] = "producer"]
    /\ Broadcast("mDequeueCondition")
    /\ callbacks' = [callbacks EXCEPT !.mNextCallbackTicket = @ + 1]
    /\ call' = [call EXCEPT ![t] =
                  [op |-> "onFrame", ticket |-> callbacks.mNextCallbackTicket,
                   frame |-> frame, listener |-> mCore.mConsumerListener,
                   replaced |-> Replaces]]
    /\ producerSlots' = producerSlots \ {s}
    /\ UNCHANGED <<vrMode, consumer, clientBuffers>>

\* Mutant: no thread waits for its ticket.
AlwaysServed(ticket) == TRUE

\* A thread with this callback ticket may call the consumer.
IsServed(ticket) == ticket = callbacks.mCurrentCallbackTicket

\* The end of queueBuffer, under mCallbackMutex only: wait for the ticket,
\* call onFrameAvailable or onFrameReplaced, let the next ticket go.
CallBack(t) ==
    /\ call[t].op = "onFrame"
    /\ IsServed(call[t].ticket)
    /\ callbacks' = [callbacks EXCEPT
          !.mCurrentCallbackTicket = @ + 1,
          !.announced = IF call[t].listener THEN call[t].frame ELSE @]
    /\ Returns(t)
    /\ UNCHANGED <<mSlots, mQueue, mCore, vrMode, sleeping, clients>>

\* The end of setBufferCount and disconnect: onBuffersReleased, no lock held.
CallBackReleased(t) ==
    /\ call[t].op = "onBuffersReleased"
    /\ Returns(t)
    /\ UNCHANGED <<mSlots, mQueue, mCore, vrMode, sleeping, callbacks,
                   clients>>

\* Mutant: cancelBuffer drops the fence it was given.
CancelledWithoutFence(slot) ==
    [slot EXCEPT !.mBufferState = "FREE", !.mFrameNumber = 0]

Cancelled(slot) ==
    [slot EXCEPT !.mBufferState = "FREE", !.mFrameNumber = 0,
                 !.mFence = "producer"]

CancelBuffer(t, s) ==
    /\ "cancelBuffer" \in Calls
    /\ IsIdle(t)
    /\ ~mCore.mIsAbandoned
    /\ s \in producerSlots
    /\ mSlots[s].mBufferState = "DEQUEUED"
    /\ mSlots' = [mSlots EXCEPT ![s] = Cancelled(@)]
    /\ owedFence' = [owedFence EXCEPT ![s] = "producer"]
    /\ Broadcast("mDequeueCondition")
    /\ producerSlots' = producerSlots \ {s}
    /\ UNCHANGED <<mQueue, mCore, vrMode, call, callbacks, consumer,
                   clientBuffers>>

\* connect(P).  Any api but the known four (0 here) leaves mConnectedApi alone,
\* yet the two fields after the switch are set all the same.
ProducerConnect(t, api, byApp) ==
    /\ "producerConnect" \in Calls
    /\ IsIdle(t)
    /\ ~mCore.mIsAbandoned
    /\ mCore.mConsumerListener
    /\ mCore.mConnectedApi = NO_CONNECTED_API
    /\ mCore' = [mCore EXCEPT
          !.mConnectedApi = IF api \in Apis THEN api ELSE @,
          !.mBufferHasBeenQueued = FALSE,
          !.mDequeueBufferCannotBlock =
              mCore.mConsumerControlledByApp /\ byApp]
    /\ UNCHANGED <<mSlots, mQueue, vrMode, threads, callbacks, clients>>

\* disconnect: the FIFO stays, so that queued frames still get displayed.
ProducerDisconnect(t) ==
    /\ Runs(t, "disconnect")
    /\ LET api == call[t].api
           refused == \/ mCore.mIsAbandoned
                      \/ api \notin Apis
                      \/ mCore.mConnectedApi # api
       IN
       \/ /\ refused
          /\ Returns(t)
          /\ UNCHANGED <<mSlots, mCore, sleeping, producerSlots, owedFence>>
       \/ /\ ~refused
          /\ FreeAllBuffers
          /\ mCore' = [mCore EXCEPT !.mBufferHasBeenQueued = FALSE,
                                    !.mConnectedApi = NO_CONNECTED_API,
                                    !.mSidebandStream = FALSE]
          /\ Broadcast("mDequeueCondition")
          /\ call' = [call EXCEPT ![t] =
                        IF mCore.mConsumerListener
                        THEN [op |-> "onBuffersReleased"] ELSE Idle]
          /\ producerSlots' = {}
    /\ UNCHANGED <<mQueue, vrMode, callbacks, consumer, clientBuffers>>

\* The connected producer's process dies: binderDied reads mCore.mConnectedApi
\* without the lock and goes on as disconnect.
BinderDied(t) ==
    /\ "binderDied" \in Calls
    /\ IsIdle(t)
    /\ mCore.mConnectedApi # NO_CONNECTED_API
    /\ call' = [call EXCEPT ![t] = [op |-> "disconnect",
                                    api |-> mCore.mConnectedApi]]
    /\ UNCHANGED <<mSlots, mQueue, mCore, vrMode, sleeping, callbacks,
                   clients>>

SetSidebandStream(t, stream) ==
    /\ "setSidebandStream" \in Calls
    /\ IsIdle(t)
    /\ mCore' = [mCore EXCEPT !.mSidebandStream = stream]
    /\ UNCHANGED <<mSlots, mQueue, vrMode, threads, callbacks, clients>>

(***************************************************************************)
(* allocateBuffers: under the lock choose slots and set mIsAllocating;     *)
(* allocate without it; under the lock again put the buffers in and start  *)
(* over, until there is nothing left to allocate.                          *)
(***************************************************************************)
AllocationAttributes(req) ==
    [size |-> IF req.size = 0 THEN mCore.mDefaultSize ELSE req.size,
     format |-> IF req.format = 0 THEN mCore.mDefaultBufferFormat
                ELSE req.format,
     usage |-> req.usage \cup mCore.mConsumerUsageBits]

AllocateBuffers(t) ==
    LET c == call[t]
        empty == {s \in Slots : mSlots[s].mGraphicBuffer = NULL}
        free == empty \cap InState("FREE")
        new == MaxBufferCount(c.async) - Cardinality(Slots \ empty)
    IN
    /\ Runs(t, "allocateBuffers")
    /\ \/ /\ new <= 0 \/ Cardinality(free) < new
          /\ Returns(t)
          /\ UNCHANGED mCore
       \/ /\ new > 0 /\ Cardinality(free) >= new
          /\ mCore' = [mCore EXCEPT !.mIsAllocating = TRUE]
          /\ call' = [call EXCEPT ![t] =
                [op |-> "allocating", async |-> c.async, req |-> c.req,
                 slots |->
                   {s \in free : Cardinality({r \in free : r < s}) < new},
                 attr |-> AllocationAttributes(c.req)]]
    /\ UNCHANGED <<mSlots, mQueue, vrMode, sleeping, callbacks, clients>>

\* The second critical section: fill the slots that are still FREE, or start
\* over when the defaults changed meanwhile; or allocation failed.
AllocateBuffersCommit(t) ==
    LET c == call[t] IN
    /\ c.op = "allocating"
    /\ \/ /\ "preallocationFailure" \in Calls
          /\ Returns(t)
          /\ UNCHANGED <<mSlots, owedFence>>
       \/ /\ c.attr # AllocationAttributes(c.req)
          /\ call' = [call EXCEPT ![t] = [op |-> "allocateBuffers",
                                         async |-> c.async, req |-> c.req]]
          /\ UNCHANGED <<mSlots, owedFence>>
       \/ /\ c.attr = AllocationAttributes(c.req)
          /\ LET filled == c.slots \cap InState("FREE")
                 usable == {b \in Unreferenced : AttributesOf[b] = c.attr}
             IN /\ \E f \in [filled -> usable] :
                      /\ \A r, s \in filled : r # s => f[r] # f[s]
                      /\ mSlots' = [s \in Slots |->
                            IF s \in filled
                            THEN [Freed(mSlots[s]) EXCEPT
                                    !.mGraphicBuffer = f[s]]
                            ELSE mSlots[s]]
                /\ NoFenceOwedAt(filled)
          /\ call' = [call EXCEPT ![t] = [op |-> "allocateBuffers",
                                         async |-> c.async, req |-> c.req]]
    /\ mCore' = [mCore EXCEPT !.mIsAllocating = FALSE]
    /\ Broadcast("mIsAllocatingCondition")
    /\ UNCHANGED <<mQueue, vrMode, callbacks, producerSlots, consumer,
                   clientBuffers>>
-----------------------------------------------------------------------------
(* BufferQueueConsumer *)

\* acquireBuffer drops item i (and everything before it) because item i + 1
\* is due as well.
CanDrop(i, expectedPresent) ==
    /\ expectedPresent # 0
    /\ i < Len(mQueue)
    /\ ~mQueue[i].mIsAutoTimestamp
    /\ mQueue[i + 1].mTimestamp >= expectedPresent - MAX_REASONABLE
    /\ mQueue[i + 1].mTimestamp <= expectedPresent

\* The item that is at the front once the dropping stops.
IsFront(n, expectedPresent) ==
    /\ n \in 1..Len(mQueue)
    /\ \A i \in 1..(n - 1) : CanDrop(i, expectedPresent)
    /\ ~CanDrop(n, expectedPresent)

\* Mutant: a time stamp in the far future is believed.
PresentMuchLater(item, expectedPresent) ==
    expectedPresent # 0 /\ item.mTimestamp > expectedPresent

\* acquireBuffer answers PRESENT_LATER.  It never does after dropping an item:
\* what is dropped makes way for an item that is due.
PresentLater(item, expectedPresent) ==
    /\ expectedPresent # 0
    /\ item.mTimestamp > expectedPresent
    /\ item.mTimestamp < expectedPresent + MAX_REASONABLE

Acquired(slot) ==
    [slot EXCEPT !.mAcquireCalled = TRUE,
                 !.mNeedsCleanupOnRelease = FALSE,
                 !.mBufferState = "ACQUIRED",
                 !.mFence = "NO_FENCE"]

AcquireBuffer(expectedPresent) ==
    /\ "acquireBuffer" \in Calls
    /\ Cardinality(InState("ACQUIRED")) <= mCore.mMaxAcquiredBufferCount
    /\ \E n \in 1..Len(mQueue) :
          LET item == mQueue[n]
              dropped == {i \in 1..(n - 1) : StillTracking(mQueue[i])}
              dropSlots == {mQueue[i].mSlot : i \in dropped}
              afterDrop == [s \in Slots |->
                              IF s \in dropSlots
                              THEN [mSlots[s] EXCEPT !.mBufferState = "FREE"]
                              ELSE mSlots[s]]
          IN
          /\ IsFront(n, expectedPresent)
          /\ ~PresentLater(item, expectedPresent)
          /\ mSlots' = IF StillTracking(item)
                       THEN [afterDrop EXCEPT ![item.mSlot] = Acquired(@)]
                       ELSE afterDrop
          /\ owedFence' = IF StillTracking(item)
                          THEN [owedFence EXCEPT ![item.mSlot] = "NO_FENCE"]
                          ELSE owedFence
          /\ mQueue' = SubSeq(mQueue, n + 1, Len(mQueue))
          /\ consumerItems' = consumerItems \cup
                {[slot |-> item.mSlot, frame |-> item.mFrameNumber,
                  buffer |-> item.mGraphicBuffer]}
          /\ lastAcquired' = item.mFrameNumber
    /\ Broadcast("mDequeueCondition")
    /\ UNCHANGED <<mCore, vrMode, call, callbacks, producerSlots,
                   clientBuffers>>

\* detachBuffer(C): the consumer keeps the buffer of its item.  (The code looks
\* at the slot's state only; a consumer detaches the buffer it holds.)
ConsumerDetachBuffer(item) ==
    /\ "consumerDetachBuffer" \in Calls
    /\ ~mCore.mIsAbandoned
    /\ mSlots[item.slot].mBufferState = "ACQUIRED"
    /\ mSlots[item.slot].mGraphicBuffer = item.buffer
    /\ mSlots' = FreedAt({item.slot})
    /\ NoFenceOwedAt({item.slot})
    /\ Broadcast("mDequeueCondition")
    /\ consumerItems' = consumerItems \ {item}
    /\ clientBuffers' = clientBuffers \cup {item.buffer}
    /\ UNCHANGED <<mQueue, mCore, vrMode, call, callbacks, producerSlots,
                   lastAcquired>>

AttachedAcquired(slot, b) ==
    [slot EXCEPT !.mGraphicBuffer = b, !.mBufferState = "ACQUIRED",
                 !.mAttachedByConsumer = TRUE,
                 !.mNeedsCleanupOnRelease = FALSE,
                 !.mFence = "NO_FENCE", !.mFrameNumber = 0,
                 !.mAcquireCalled = FALSE]

\* attachBuffer(C) puts buffer b into the oldest free slot, as acquired.
ConsumerAttachBuffer(b) ==
    /\ "consumerAttachBuffer" \in Calls
    /\ Cardinality(InState("ACQUIRED")) <= mCore.mMaxAcquiredBufferCount
    /\ \E s \in Slots :
          /\ IsOldest(s, InState("FREE"))
          /\ mSlots' = [mSlots EXCEPT ![s] = AttachedAcquired(@, b)]
          /\ NoFenceOwedAt({s})
          /\ consumerItems' = consumerItems \cup
                {[slot |-> s, frame |-> 0, buffer |-> b]}
    /\ clientBuffers' = clientBuffers \ {b}
    /\ UNCHANGED <<mQueue, mCore, vrMode, threads, callbacks, producerSlots,
                   lastAcquired>>

\* releaseBuffer finds an item with the slot's number still in the FIFO.
PendingInQueue(s) == \E i \in 1..Len(mQueue) : mQueue[i].mSlot = s

\* Mutant: releaseBuffer does not compare frame numbers.
NeverStale(item) == FALSE

\* The slot has a newer buffer than the item the consumer releases.
IsStale(item) == mSlots[item.slot].mFrameNumber # item.frame

Released(slot) == [slot EXCEPT !.mFence = "consumer", !.mBufferState = "FREE"]

\* Mutant: releaseBuffer signals, and one sleeper of several wakes.
WakeOneDequeuer ==
    \/ /\ \A t \in Threads : sleeping[t] # "mDequeueCondition"
       /\ UNCHANGED sleeping
    \/ \E t \in Threads : /\ sleeping[t] = "mDequeueCondition"
                          /\ sleeping' = [sleeping EXCEPT ![t] = "awake"]

\* Mutant: releaseBuffer wakes nobody.
WakeNobody == UNCHANGED sleeping

\* releaseBuffer wakes those who wait for a free slot.
WakeDequeuers == Broadcast("mDequeueCondition")

ReleaseBuffer(item) ==
    /\ "releaseBuffer" \in Calls
    /\ ~IsStale(item)
    /\ ~PendingInQueue(item.slot)
    /\ mSlots[item.slot].mBufferState = "ACQUIRED"
    /\ mSlots' = [mSlots EXCEPT ![item.slot] = Released(@)]
    /\ owedFence' = [owedFence EXCEPT ![item.slot] = "consumer"]
    /\ WakeDequeuers
    /\ consumerItems' = consumerItems \ {item}
    /\ UNCHANGED <<mQueue, mCore, vrMode, call, callbacks, producerSlots,
                   lastAcquired, clientBuffers>>

\* releaseBuffer answers STALE_BUFFER_SLOT: the consumer drops its item.
ReleaseStaleBuffer(item) ==
    LET slot == mSlots[item.slot] IN
    /\ "releaseBuffer" \in Calls
    /\ \/ /\ IsStale(item)
          /\ UNCHANGED mSlots
       \/ /\ ~IsStale(item)
          /\ ~PendingInQueue(item.slot)
          /\ slot.mBufferState # "ACQUIRED"
          /\ slot.mNeedsCleanupOnRelease
          /\ mSlots' = [mSlots EXCEPT
                          ![item.slot].mNeedsCleanupOnRelease = FALSE]
    /\ consumerItems' = consumerItems \ {item}
    /\ UNCHANGED <<mQueue, mCore, vrMode, threads, callbacks, producerSlots,
                   lastAcquired, owedFence, clientBuffers>>

ConsumerConnect(byApp) ==
    /\ "consumerConnect" \in Calls
    /\ ~mCore.mIsAbandoned
    /\ mCore' = [mCore EXCEPT !.mConsumerListener = TRUE,
                              !.mConsumerControlledByApp = byApp]
    /\ UNCHANGED <<mSlots, mQueue, vrMode, threads, callbacks, clients>>

\* disconnect(C) abandons the queue for good.
ConsumerDisconnect ==
    /\ "consumerDisconnect" \in Calls
    /\ mCore.mConsumerListener
    /\ mCore' = [mCore EXCEPT !.mIsAbandoned = TRUE,
                              !.mConsumerListener = FALSE,
                              !.mBufferHasBeenQueued = FALSE]
    /\ mQueue' = <<>>
    /\ FreeAllBuffers
    /\ Broadcast("mDequeueCondition")
    /\ UNCHANGED <<vrMode, call, callbacks, producerSlots, consumer,
                   clientBuffers>>

SetDefaultBufferSize(size) ==
    /\ "setDefaults" \in Calls
    /\ mCore' = [mCore EXCEPT !.mDefaultSize = size]
    /\ UNCHANGED <<mSlots, mQueue, vrMode, threads, callbacks, clients>>

SetDefaultBufferFormat(format) ==
    /\ "setDefaults" \in Calls
    /\ mCore' = [mCore EXCEPT !.mDefaultBufferFormat = format]
    /\ UNCHANGED <<mSlots, mQueue, vrMode, threads, callbacks, clients>>

SetConsumerUsageBits(usage) ==
    /\ "setDefaults" \in Calls
    /\ mCore' = [mCore EXCEPT !.mConsumerUsageBits = usage]
    /\ UNCHANGED <<mSlots, mQueue, vrMode, threads, callbacks, clients>>

SetDefaultMaxBufferCount(count) ==
    /\ "setDefaultMaxBufferCount" \in Calls
    /\ count >= IF mCore.mUseAsyncBuffer THEN 2 ELSE 1
    /\ mCore' = [mCore EXCEPT !.mDefaultMaxBufferCount = count]
    /\ Broadcast("mDequeueCondition")
    /\ UNCHANGED <<mSlots, mQueue, vrMode, call, callbacks, clients>>

DisableAsyncBuffer ==
    /\ "disableAsyncBuffer" \in Calls
    /\ ~mCore.mConsumerListener
    /\ mCore' = [mCore EXCEPT !.mUseAsyncBuffer = FALSE]
    /\ UNCHANGED <<mSlots, mQueue, vrMode, threads, callbacks, clients>>

SetMaxAcquiredBufferCount(count) ==
    /\ "setMaxAcquiredBufferCount" \in Calls
    /\ mCore.mConnectedApi = NO_CONNECTED_API
    /\ mCore' = [mCore EXCEPT !.mMaxAcquiredBufferCount = count]
    /\ UNCHANGED <<mSlots, mQueue, vrMode, threads, callbacks, clients>>

\* A client lets go of a buffer it detached.
DropClientBuffer(b) ==
    /\ b \notin BeingAttached
    /\ clientBuffers' = clientBuffers \ {b}
    /\ UNCHANGED <<mSlots, mQueue, mCore, vrMode, threads, callbacks,
                   producerSlots, consumer, owedFence>>

\* Somebody sets the property sf.vrmode.
SetVRMode(on) ==
    /\ "setVRMode" \in Calls
    /\ vrMode' = on
    /\ UNCHANGED <<mSlots, mQueue, mCore, threads, callbacks, clients>>
-----------------------------------------------------------------------------
ProducerCall(t) ==
    \/ \E async \in AsyncModes, req \in Requests :
          \/ Enter(t, [op |-> "dequeueBuffer", async |-> async, req |-> req,
                       flags |-> {}])
          \/ Enter(t, [op |-> "allocateBuffers", async |-> async, req |-> req])
    \/ \E b \in Attachable : Enter(t, [op |-> "attachBuffer", buffer |-> b])
    \/ \E n \in BufferCounts : Enter(t, [op |-> "setBufferCount", count |-> n])
    \/ Enter(t, [op |-> "detachNextBuffer"])
    \/ \E api \in Apis : Enter(t, [op |-> "disconnect", api |-> api])
    \/ \E s \in Slots :
          \/ RequestBuffer(t, s)
          \/ ProducerDetachBuffer(t, s)
          \/ CancelBuffer(t, s)
    \/ \E s \in Slots, async \in AsyncModes : QueueBufferInVRMode(t, s, async)
    \/ \E s \in Slots, async \in AsyncModes, stamp \in Stamps :
          QueueBuffer(t, s, async, stamp)
    \/ \E api \in Apis \cup {NO_CONNECTED_API}, byApp \in AppControlled :
          ProducerConnect(t, api, byApp)
    \/ \E stream \in BOOLEAN : SetSidebandStream(t, stream)

\* The next step of a call that is under way.
ProducerStep(t) ==
    \/ WaitWhileAllocating(t)
    \/ SetBufferCount(t)
    \/ DequeueBuffer(t)
    \/ DequeueRetry(t)
    \/ DequeueAllocate(t)
    \/ DequeueReturn(t)
    \/ DetachNextBuffer(t)
    \/ ProducerAttachBuffer(t)
    \/ AttachRetry(t)
    \/ CallBack(t)
    \/ CallBackReleased(t)
    \/ ProducerDisconnect(t)
    \/ AllocateBuffers(t)
    \/ AllocateBuffersCommit(t)

ConsumerCall ==
    \/ \E expectedPresent \in PresentTimes : AcquireBuffer(expectedPresent)
    \/ \E item \in consumerItems :
          \/ ConsumerDetachBuffer(item)
          \/ ReleaseBuffer(item)
          \/ ReleaseStaleBuffer(item)
    \/ \E b \in Attachable : ConsumerAttachBuffer(b)
    \/ \E byApp \in AppControlled : ConsumerConnect(byApp)
    \/ ConsumerDisconnect
    \/ \E size \in Sizes : SetDefaultBufferSize(size)
    \/ \E format \in Formats : SetDefaultBufferFormat(format)
    \/ \E usage \in SUBSET UsageBits : SetConsumerUsageBits(usage)
    \/ \E n \in 1..NUM_BUFFER_SLOTS : SetDefaultMaxBufferCount(n)
    \/ DisableAsyncBuffer
    \/ \E n \in 1..MAX_MAX_ACQUIRED_BUFFERS : SetMaxAcquiredBufferCount(n)

Next ==
    \/ \E t \in Threads : ProducerCall(t) \/ ProducerStep(t) \/ BinderDied(t)
    \/ ConsumerCall
    \/ \E b \in clientBuffers : DropClientBuffer(b)
    \/ \E on \in BOOLEAN : SetVRMode(on)

Spec == Init /\ [][Next]_vars
-----------------------------------------------------------------------------
(* Properties *)

Frame(i) == mQueue[i].mFrameNumber

(***************************************************************************)
(* queueBuffer numbers frames and acquireBuffer takes the front: whatever  *)
(* the clients do, no frame is in the FIFO twice and behind the front the  *)
(* frames are in the order they were queued.  (The front itself may be a   *)
(* newer frame that replaced a droppable one.)                             *)
(***************************************************************************)
QueueTailOrdered ==
    /\ \A i \in 1..Len(mQueue) : Frame(i) <= mCore.mFrameCounter
    /\ \A i, j \in 1..Len(mQueue) :
         i < j => Frame(i) # Frame(j) /\ (i > 1 => Frame(i) < Frame(j))

(***************************************************************************)
(* A slot is QUEUED exactly while one FIFO item refers to its buffer, and  *)
(* then under the same frame number: acquireBuffer or a drop always finds  *)
(* the slot again, so no slot stays QUEUED for ever, and stillTracking     *)
(* never takes a recycled slot for the one that was queued.                *)
(***************************************************************************)
QueuedSlotsTracked ==
    /\ \A s \in InState("QUEUED") :
         \E i \in 1..Len(mQueue) :
            mQueue[i].mSlot = s /\ StillTracking(mQueue[i])
    /\ \A i \in 1..Len(mQueue) :
         StillTracking(mQueue[i]) =>
            /\ mSlots[mQueue[i].mSlot].mBufferState = "QUEUED"
            /\ mSlots[mQueue[i].mSlot].mFrameNumber = Frame(i)

(***************************************************************************)
(* No buffer the consumer still reads is in a slot the producer can be     *)
(* given: dequeueBuffer "transfers ownership" although the consumer may    *)
(* hold items of slots that were freed behind its back.                    *)
(***************************************************************************)
NoSharedAccess ==
    \A item \in consumerItems, s \in Slots :
        mSlots[s].mGraphicBuffer = item.buffer =>
            mSlots[s].mBufferState = "ACQUIRED"

(***************************************************************************)
(* A thread asleep on mDequeueCondition has reason to: whoever frees a     *)
(* slot or shortens the FIFO broadcasts.                                   *)
(***************************************************************************)
NoLostWakeup ==
    \A t \in Threads :
        sleeping[t] = "mDequeueCondition" =>
            FreeSlotStatus(call[t].op = "dequeueRetry" /\ call[t].async)
                = "WAIT"

(***************************************************************************)
(* Once a buffer has been queued, a sleeping dequeuer waits for the        *)
(* consumer and not for its own process: a frame is in the FIFO or a       *)
(* buffer is acquired.                                                     *)
(***************************************************************************)
ConsumerCanHelp ==
    \A t \in Threads :
        sleeping[t] = "mDequeueCondition" /\ mCore.mBufferHasBeenQueued =>
            mQueue # <<>> \/ InState("ACQUIRED") # {}

(***************************************************************************)
(* A buffer passes from owner to owner with the fence its last owner       *)
(* handed in (BufferSlot::mFence): the next owner waits for the right      *)
(* work to finish, through drops, cancels and replacements.                *)
(***************************************************************************)
FenceHandedOver ==
    \A s \in Slots :
        /\ mSlots[s].mBufferState \in {"FREE", "QUEUED"}
        /\ mSlots[s].mGraphicBuffer # NULL
        => mSlots[s].mFence = owedFence[s]

(***************************************************************************)
(* "Ownership of the slot is transfered to the client" (dequeueBuffer,     *)
(* IGraphicBufferProducer.h): while the queue is not abandoned a DEQUEUED  *)
(* slot has exactly one owner, the client or one call that is about to     *)
(* return the slot, and no other slot has one.  So no slot is handed out   *)
(* twice, and none is lost to both sides.                                  *)
(***************************************************************************)
InFlight(t, s) ==
    call[t].op \in {"createGraphicBuffer", "dequeueReturn"} /\ call[t].slot = s

SlotOwnedOnce ==
    ~mCore.mIsAbandoned =>
      \A s \in Slots :
        /\ \A t \in Threads : InFlight(t, s) => s \notin producerSlots
        /\ \A t, u \in Threads : InFlight(t, s) /\ InFlight(u, s) => t = u
        /\ mSlots[s].mBufferState = "DEQUEUED" <=>
               s \in producerSlots \/ \E t \in Threads : InFlight(t, s)

(***************************************************************************)
(* "Ownership of the slot is transfered to the client, meaning that the    *)
(* server will not use the contents of the buffer associated with that     *)
(* slot" (dequeueBuffer, IGraphicBufferProducer.h): when a call gives the  *)
(* client a slot with a buffer in it, the slot is DEQUEUED, so that the    *)
(* queue gives neither to anybody else.  A slot that disconnect freed just *)
(* before the call returns has no buffer.                                  *)
(***************************************************************************)
GivenSlotIsDequeued ==
    [][\A s \in producerSlots' \ producerSlots :
          (~mCore.mIsAbandoned /\ mSlots'[s].mGraphicBuffer # NULL) =>
              mSlots'[s].mBufferState = "DEQUEUED"]_vars

(***************************************************************************)
(* detachBuffer is "to remove all ownership of the buffer in the given     *)
(* slot from the buffer queue" (IGraphicBufferProducer.h): a buffer that a *)
(* client detached is in no slot and no frame until it is attached again.  *)
(***************************************************************************)
DetachedStaysOut ==
    \A b \in clientBuffers :
        /\ \A s \in Slots : mSlots[s].mGraphicBuffer # b
        /\ \A i \in 1..Len(mQueue) : mQueue[i].mGraphicBuffer # b

(***************************************************************************)
(* allocateBuffers works without mMutex while mIsAllocating is set: the    *)
(* flag is set exactly while one thread does, so that two threads never    *)
(* fill the same slots and no waiter sleeps on a flag nobody clears.       *)
(***************************************************************************)
OneAllocator ==
    /\ mCore.mIsAllocating <=> \E t \in Threads : call[t].op = "allocating"
    /\ \A t, u \in Threads :
         call[t].op = "allocating" /\ call[u].op = "allocating" => t = u
    /\ \A t \in Threads :
         sleeping[t] = "mIsAllocatingCondition" => mCore.mIsAllocating

(***************************************************************************)
(* disconnect(C) abandons the queue for good, also under the calls that    *)
(* sleep or allocate meanwhile: no listener comes back, no frame waits,    *)
(* and no slot is handed to a producer any more.                           *)
(***************************************************************************)
AbandonedForGood ==
    mCore.mIsAbandoned =>
        /\ ~mCore.mConsumerListener
        /\ mQueue = <<>>
        /\ InState("DEQUEUED") \cup InState("QUEUED") = {}

(***************************************************************************)
(* The consumer acquires frames in the order they were queued, though some *)
(* are replaced or dropped: acquireBuffer never goes back to an older      *)
(* frame than the last one.                                                *)
(***************************************************************************)
DeliveredInOrder == [][lastAcquired' >= lastAcquired]_vars

\* Callbacks announce frames in the order they were queued, although they run
\* without mMutex: that is what the tickets are for.
AnnouncedInOrder ==
    [][callbacks'.announced >= callbacks.announced]_callbacks

(***************************************************************************)
(* The queue as a stream of frames.  With one mode only (every call        *)
(* asynchronous, or none and no WOULD_BLOCK mode) it implements it.        *)
(***************************************************************************)
Stream == INSTANCE FrameStream WITH
    pending <- [i \in 1..Len(mQueue) |-> mQueue[i].mFrameNumber],
    produced <- mCore.mFrameCounter,
    delivered <- lastAcquired

\* Frames move through the FIFO as the stream says: queueBuffer produces or
\* replaces one, acquireBuffer delivers one, disconnect discards them all.
FramesFlowInOrder == Stream!Spec
-----------------------------------------------------------------------------
(***************************************************************************)
(* Fairness.  A thread that is inside a call and not asleep goes on (the   *)
(* scheduler runs it, the allocator and the consumer's callbacks return),  *)
(* and the consumer keeps acquiring what is announced and releasing what   *)
(* it acquired.  The producer may stop making calls.                       *)
(***************************************************************************)
ReleaseSome ==
    \E item \in consumerItems : ReleaseBuffer(item) \/ ReleaseStaleBuffer(item)

Fairness ==
    /\ \A t \in Threads : WF_vars(ProducerStep(t))
    /\ WF_vars(\E expectedPresent \in PresentTimes :
                  AcquireBuffer(expectedPresent))
    /\ WF_vars(ReleaseSome)

LiveSpec == Spec /\ Fairness

(***************************************************************************)
(* Every producer call returns: dequeueBuffer and attachBuffer get a slot  *)
(* or an error however long they sleep, allocateBuffers stops starting     *)
(* over, queueBuffer gets its turn to call the consumer back.              *)
(***************************************************************************)
CallsReturn == \A t \in Threads : ~IsIdle(t) ~> IsIdle(t)

\* A frame in the FIFO does not stay there: not when its slot was freed by a
\* disconnect, nor when acquireBuffer finds a time stamp far in the future.
FramesLeave ==
    \A f \in 1..MaxFrames :
        (\E i \in 1..Len(mQueue) : Frame(i) = f) ~>
            ~\E i \in 1..Len(mQueue) : Frame(i) = f
=============================================================================
