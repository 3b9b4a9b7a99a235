------------------------- MODULE BufferQueueProofs -------------------------
(***************************************************************************)
(* The safety theorems of the BufferQueue, each for every value of the     *)
(* constants: types, the order of the frame callbacks, one allocator at a  *)
(* time, the order of the FIFO, abandonment, frames dropped only in favour *)
(* of one that is acquired, and the stream of frames that a BufferQueue    *)
(* implements.                                                             *)
(*                                                                         *)
(* TypeOK is not inductive on its own.  A thread that queued a frame       *)
(* carries its frame number and its callback ticket until it is called     *)
(* back, and CallBack copies that frame number into the state; that the    *)
(* tickets count the frames is the invariant Tickets, carried along.       *)
(***************************************************************************)
EXTENDS BufferQueue, SequenceTheorems, TLAPS

-----------------------------------------------------------------------------
(* Types *)

\* freeBufferLocked turns a slot into a slot.
LEMMA FreedType ==
    ASSUME NEW slot \in BufferSlot
    PROVE  Freed(slot) \in BufferSlot
<1>1. 0 \in FrameNumbers
  BY FramesAssumption DEF FrameNumbers
<1>2. CASE slot.mBufferState = "ACQUIRED"
  BY <1>1, <1>2 DEF Freed, BufferSlot, Fences
<1>3. CASE slot.mBufferState # "ACQUIRED"
  BY <1>1, <1>3 DEF Freed, BufferSlot, Fences
<1> QED
  BY <1>2, <1>3

\* Whatever attachBuffer (of either side), queueBuffer, cancelBuffer,
\* acquireBuffer and releaseBuffer make of a slot, and the FREE of a dropped
\* frame, is a slot again.
LEMMA SlotRecordTypes ==
    ASSUME NEW slot \in BufferSlot
    PROVE  /\ \A b \in Buffers : /\ Attached(slot, b) \in BufferSlot
                                  /\ AttachedAcquired(slot, b) \in BufferSlot
           /\ \A frame \in FrameNumbers : Queued(slot, frame) \in BufferSlot
           /\ Cancelled(slot) \in BufferSlot
           /\ Acquired(slot) \in BufferSlot
           /\ Released(slot) \in BufferSlot
           /\ [slot EXCEPT !.mBufferState = "FREE"] \in BufferSlot
<1>1. 0 \in FrameNumbers
  BY FramesAssumption DEF FrameNumbers
<1>2. ASSUME NEW b \in Buffers PROVE Attached(slot, b) \in BufferSlot
  BY DEF Attached, BufferSlot, Fences
<1>3. ASSUME NEW b \in Buffers PROVE AttachedAcquired(slot, b) \in BufferSlot
  BY <1>1 DEF AttachedAcquired, BufferSlot, Fences
<1>8. ASSUME NEW frame \in FrameNumbers
      PROVE Queued(slot, frame) \in BufferSlot
  BY DEF Queued, BufferSlot, Fences
<1>4. Cancelled(slot) \in BufferSlot
  BY <1>1 DEF Cancelled, BufferSlot, Fences
<1>5. Acquired(slot) \in BufferSlot
  BY DEF Acquired, BufferSlot, Fences
<1>6. Released(slot) \in BufferSlot
  BY DEF Released, BufferSlot, Fences
<1>7. [slot EXCEPT !.mBufferState = "FREE"] \in BufferSlot
  BY DEF BufferSlot
<1> QED
  BY <1>2, <1>3, <1>4, <1>5, <1>6, <1>7, <1>8

\* freeBufferLocked on any set of slots, as freeAllBuffersLocked and the
\* trimming loop of waitForFreeSlotThenRelock apply it, leaves an array of
\* slots.
LEMMA FreedAtType ==
    ASSUME TypeOK, NEW S
    PROVE  FreedAt(S) \in [Slots -> BufferSlot]
BY FreedType DEF FreedAt, TypeOK

\* A new BufferQueueCore is well typed.
LEMMA InitTypeOK == Init => TypeOK
<1> SUFFICES ASSUME Init PROVE TypeOK
  OBVIOUS
<1>1. mSlots \in [Slots -> BufferSlot]
  BY FramesAssumption DEF Init, EmptySlot, BufferSlot, FrameNumbers, Fences
<1>2. mQueue \in Seq(BufferItem)
  BY DEF Init
<1>3. mCore \in BufferQueueCore
  BY SlotsAssumption, RequestsAssumption, FramesAssumption
  DEF Init, BufferQueueCore, MAX_MAX_ACQUIRED_BUFFERS
<1>4. call \in [Threads -> Call]
  BY DEF Init, Call
<1>5. callbacks \in CallbackState
  BY FramesAssumption DEF Init, CallbackState
<1>6. /\ sleeping \in [Threads -> SleepState]
      /\ owedFence \in [Slots -> Fences]
  BY DEF Init, SleepState, Fences
<1>7. lastAcquired \in 0..MaxFrames
  BY FramesAssumption DEF Init
<1> QED
  BY <1>1, <1>2, <1>3, <1>4, <1>5, <1>6, <1>7 DEF Init, TypeOK

\* The locals of a producer call that is suspended without the lock (asleep,
\* allocating, or waiting for its callback ticket), by the place where it is
\* suspended.
LEMMA CallType ==
    ASSUME TypeOK, NEW t \in Threads
    PROVE  /\ call[t].op = "dequeueBuffer" =>
                 call[t].async \in BOOLEAN /\ call[t].req \in RequestType
           /\ call[t].op = "dequeueRetry" =>
                 call[t].async \in BOOLEAN /\ call[t].req \in SizedLater
                 /\ call[t].flags \in Flags
           /\ call[t].op = "createGraphicBuffer" =>
                 call[t].slot \in Slots /\ call[t].attr \in Attributes
                 /\ call[t].flags \in Flags
           /\ call[t].op = "dequeueReturn" =>
                 call[t].slot \in Slots /\ call[t].flags \in Flags
           /\ call[t].op \in {"attachBuffer", "attachRetry"} =>
                 call[t].buffer \in Buffers
           /\ call[t].op = "onFrame" =>
                 call[t].ticket \in 0..MaxFrames
                 /\ call[t].frame \in 1..MaxFrames
                 /\ call[t].listener \in BOOLEAN
           /\ call[t].op = "setBufferCount" =>
                 call[t].count \in 0..NUM_BUFFER_SLOTS
           /\ call[t].op = "allocateBuffers" =>
                 call[t].async \in BOOLEAN /\ call[t].req \in RequestType
           /\ call[t].op = "allocating" =>
                 call[t].async \in BOOLEAN /\ call[t].req \in RequestType
                 /\ call[t].slots \in SUBSET Slots
                 /\ call[t].attr \in Attributes
BY DEF TypeOK, Call, Idle

\* The callback tickets of queueBuffer count its frames: outside the callbacks
\* the next ticket is the frame counter, a thread that waits for its callback
\* has a ticket between the served one and the next one, its frame is the one
\* after its ticket, no two threads wait with one ticket, and no frame is
\* announced whose ticket was not served.
Tickets ==
    /\ callbacks.mNextCallbackTicket = mCore.mFrameCounter
    /\ callbacks.mCurrentCallbackTicket <= callbacks.mNextCallbackTicket
    /\ callbacks.announced <= callbacks.mCurrentCallbackTicket
    /\ \A t \in Threads :
         call[t].op = "onFrame" =>
            /\ callbacks.mCurrentCallbackTicket <= call[t].ticket
            /\ call[t].ticket < callbacks.mNextCallbackTicket
            /\ call[t].frame = call[t].ticket + 1
    /\ \A t, u \in Threads :
         /\ call[t].op = "onFrame" /\ call[u].op = "onFrame"
         /\ call[t].ticket = call[u].ticket
         => t = u

\* A broadcast leaves every thread awake or asleep on a condition.
LEMMA BroadcastType ==
    ASSUME TypeOK, NEW condition, Broadcast(condition)
    PROVE  sleeping' \in [Threads -> SleepState]
BY DEF TypeOK, Broadcast, SleepState

\* Forgetting the fences owed for some slots keeps the ghost typed.
LEMMA NoFenceOwedType ==
    ASSUME TypeOK, NEW S, NoFenceOwedAt(S)
    PROVE  owedFence' \in [Slots -> Fences]
BY DEF TypeOK, NoFenceOwedAt, Fences

\* A producer thread that returns from its call is idle.
LEMMA ReturnsType ==
    ASSUME TypeOK, NEW t \in Threads, Returns(t)
    PROVE  call' \in [Threads -> Call]
BY DEF TypeOK, Returns, Call

\* Every call of BufferQueueConsumer keeps the types.
LEMMA ConsumerTypeOK ==
    ASSUME TypeOK, ConsumerCall
    PROVE  TypeOK'
<1> USE DEF threads, consumer, clients
<1>1. ASSUME NEW expectedPresent \in PresentTimes,
             AcquireBuffer(expectedPresent)
      PROVE  TypeOK'
  <2> DEFINE dropSlots(n) ==
        {mQueue[i].mSlot : i \in {j \in 1..(n - 1) : StillTracking(mQueue[j])}}
  <2> DEFINE afterDrop(n) ==
        [s \in Slots |->
           IF s \in dropSlots(n)
           THEN [mSlots[s] EXCEPT !.mBufferState = "FREE"]
           ELSE mSlots[s]]
  <2>1. PICK n \in 1..Len(mQueue) :
          /\ mSlots' = IF StillTracking(mQueue[n])
                       THEN [afterDrop(n) EXCEPT
                               ![mQueue[n].mSlot] = Acquired(@)]
                       ELSE afterDrop(n)
          /\ owedFence' = IF StillTracking(mQueue[n])
                          THEN [owedFence EXCEPT
                                  ![mQueue[n].mSlot] = "NO_FENCE"]
                          ELSE owedFence
          /\ mQueue' = SubSeq(mQueue, n + 1, Len(mQueue))
          /\ consumerItems' = consumerItems \cup
                {[slot |-> mQueue[n].mSlot, frame |-> mQueue[n].mFrameNumber,
                  buffer |-> mQueue[n].mGraphicBuffer]}
          /\ lastAcquired' = mQueue[n].mFrameNumber
    BY <1>1 DEF AcquireBuffer
  <2>2. mQueue[n] \in BufferItem
    BY DEF TypeOK
  <2>3. mSlots' \in [Slots -> BufferSlot]
    <3> HIDE DEF dropSlots
    <3>1. afterDrop(n) \in [Slots -> BufferSlot]
      BY SlotRecordTypes DEF TypeOK
    <3> HIDE DEF afterDrop
    <3> QED
      BY <2>1, <3>1, SlotRecordTypes
  <2>4. owedFence' \in [Slots -> Fences]
    BY <2>1 DEF TypeOK, Fences
  <2>5. mQueue' \in Seq(BufferItem)
    BY <2>1 DEF TypeOK
  <2>6. /\ consumerItems' \in SUBSET ConsumerItem
        /\ lastAcquired' \in 0..MaxFrames
    <3>1. /\ mQueue[n].mSlot \in Slots
          /\ mQueue[n].mFrameNumber \in 0..MaxFrames
          /\ mQueue[n].mGraphicBuffer \in Buffers
      BY <2>2, FramesAssumption DEF BufferItem
    <3>2. [slot |-> mQueue[n].mSlot, frame |-> mQueue[n].mFrameNumber,
           buffer |-> mQueue[n].mGraphicBuffer] \in ConsumerItem
      BY <3>1 DEF ConsumerItem
    <3> QED
      BY <2>1, <3>1, <3>2 DEF TypeOK
  <2>7. sleeping' \in [Threads -> SleepState]
    BY <1>1, BroadcastType DEF AcquireBuffer
  <2> QED
    BY <1>1, <2>3, <2>4, <2>5, <2>6, <2>7 DEF AcquireBuffer, TypeOK
<1>2. ASSUME NEW item \in consumerItems, ConsumerDetachBuffer(item)
      PROVE  TypeOK'
  <2>1. item.slot \in Slots /\ item.buffer \in Buffers
    BY DEF TypeOK, ConsumerItem
  <2>2. mSlots' \in [Slots -> BufferSlot]
    BY <1>2, FreedAtType DEF ConsumerDetachBuffer
  <2>3. owedFence' \in [Slots -> Fences]
    BY <1>2, NoFenceOwedType DEF ConsumerDetachBuffer
  <2>4. sleeping' \in [Threads -> SleepState]
    BY <1>2, BroadcastType DEF ConsumerDetachBuffer
  <2> QED
    BY <1>2, <2>1, <2>2, <2>3, <2>4 DEF ConsumerDetachBuffer, TypeOK
<1>3. ASSUME NEW item \in consumerItems, ReleaseBuffer(item)
      PROVE  TypeOK'
  <2>1. item.slot \in Slots
    BY DEF TypeOK, ConsumerItem
  <2>2. mSlots' \in [Slots -> BufferSlot]
    BY <1>3, <2>1, SlotRecordTypes DEF ReleaseBuffer, TypeOK
  <2>3. owedFence' \in [Slots -> Fences]
    BY <1>3, <2>1 DEF ReleaseBuffer, TypeOK, Fences
  <2>4. sleeping' \in [Threads -> SleepState]
    BY <1>3, BroadcastType DEF ReleaseBuffer, WakeDequeuers
  <2> QED
    BY <1>3, <2>2, <2>3, <2>4 DEF ReleaseBuffer, TypeOK
<1>4. ASSUME NEW item \in consumerItems, ReleaseStaleBuffer(item)
      PROVE  TypeOK'
  <2>1. item.slot \in Slots
    BY DEF TypeOK, ConsumerItem
  <2>2. mSlots' \in [Slots -> BufferSlot]
    <3>1. mSlots[item.slot] \in BufferSlot
      BY <2>1 DEF TypeOK
    <3>2. [mSlots[item.slot] EXCEPT !.mNeedsCleanupOnRelease = FALSE]
            \in BufferSlot
      BY <3>1 DEF BufferSlot
    <3> QED
      BY <1>4, <3>2 DEF ReleaseStaleBuffer, TypeOK
  <2> QED
    BY <1>4, <2>2 DEF ReleaseStaleBuffer, TypeOK
<1>5. ASSUME NEW b \in Attachable, ConsumerAttachBuffer(b)
      PROVE  TypeOK'
  <2>1. b \in Buffers
    BY DEF Attachable, Unreferenced, TypeOK
  <2>2. PICK s \in Slots :
          /\ mSlots' = [mSlots EXCEPT ![s] = AttachedAcquired(@, b)]
          /\ NoFenceOwedAt({s})
          /\ consumerItems' = consumerItems \cup
                {[slot |-> s, frame |-> 0, buffer |-> b]}
    BY <1>5 DEF ConsumerAttachBuffer
  <2>3. mSlots' \in [Slots -> BufferSlot]
    BY <2>1, <2>2, SlotRecordTypes DEF TypeOK
  <2>4. owedFence' \in [Slots -> Fences]
    BY <2>2, NoFenceOwedType
  <2>5. consumerItems' \in SUBSET ConsumerItem
    BY <2>1, <2>2, FramesAssumption DEF TypeOK, ConsumerItem
  <2> QED
    BY <1>5, <2>3, <2>4, <2>5 DEF ConsumerAttachBuffer, TypeOK
<1>6. ASSUME NEW byApp \in AppControlled, ConsumerConnect(byApp)
      PROVE  TypeOK'
  <2>1. mCore' \in BufferQueueCore
    BY <1>6, ModesAssumption DEF ConsumerConnect, TypeOK, BufferQueueCore
  <2> QED
    BY <1>6, <2>1 DEF ConsumerConnect, TypeOK
<1>7. CASE ConsumerDisconnect
  <2>1. mCore' \in BufferQueueCore
    BY <1>7 DEF ConsumerDisconnect, TypeOK, BufferQueueCore
  <2>2. mSlots' \in [Slots -> BufferSlot] /\ owedFence' \in [Slots -> Fences]
    BY <1>7, FreedAtType, NoFenceOwedType
    DEF ConsumerDisconnect, FreeAllBuffers
  <2>3. sleeping' \in [Threads -> SleepState]
    BY <1>7, BroadcastType DEF ConsumerDisconnect
  <2> QED
    BY <1>7, <2>1, <2>2, <2>3 DEF ConsumerDisconnect, TypeOK
<1>8. ASSUME NEW size \in Sizes, SetDefaultBufferSize(size)
      PROVE  TypeOK'
  <2>1. mCore' \in BufferQueueCore
    BY <1>8 DEF SetDefaultBufferSize, TypeOK, BufferQueueCore
  <2> QED
    BY <1>8, <2>1 DEF SetDefaultBufferSize, TypeOK
<1>9. ASSUME NEW format \in Formats, SetDefaultBufferFormat(format)
      PROVE  TypeOK'
  <2>1. mCore' \in BufferQueueCore
    BY <1>9 DEF SetDefaultBufferFormat, TypeOK, BufferQueueCore
  <2> QED
    BY <1>9, <2>1 DEF SetDefaultBufferFormat, TypeOK
<1>10. ASSUME NEW usage \in SUBSET UsageBits, SetConsumerUsageBits(usage)
       PROVE  TypeOK'
  <2>1. mCore' \in BufferQueueCore
    BY <1>10 DEF SetConsumerUsageBits, TypeOK, BufferQueueCore
  <2> QED
    BY <1>10, <2>1 DEF SetConsumerUsageBits, TypeOK
<1>11. ASSUME NEW n \in 1..NUM_BUFFER_SLOTS, SetDefaultMaxBufferCount(n)
       PROVE  TypeOK'
  <2>1. mCore' \in BufferQueueCore
    BY <1>11 DEF SetDefaultMaxBufferCount, TypeOK, BufferQueueCore
  <2>2. sleeping' \in [Threads -> SleepState]
    BY <1>11, BroadcastType DEF SetDefaultMaxBufferCount
  <2> QED
    BY <1>11, <2>1, <2>2 DEF SetDefaultMaxBufferCount, TypeOK
<1>12. CASE DisableAsyncBuffer
  <2>1. mCore' \in BufferQueueCore
    BY <1>12 DEF DisableAsyncBuffer, TypeOK, BufferQueueCore
  <2> QED
    BY <1>12, <2>1 DEF DisableAsyncBuffer, TypeOK
<1>13. ASSUME NEW n \in 1..MAX_MAX_ACQUIRED_BUFFERS,
              SetMaxAcquiredBufferCount(n)
       PROVE  TypeOK'
  <2>1. mCore' \in BufferQueueCore
    BY <1>13 DEF SetMaxAcquiredBufferCount, TypeOK, BufferQueueCore
  <2> QED
    BY <1>13, <2>1 DEF SetMaxAcquiredBufferCount, TypeOK
<1> QED
  BY <1>1, <1>2, <1>3, <1>4, <1>5, <1>6, <1>7, <1>8, <1>9, <1>10, <1>11,
     <1>12, <1>13 DEF ConsumerCall

\* Entering a producer call that has to wait for the lock or for an allocation
\* keeps the types.
LEMMA EnterType ==
    ASSUME TypeOK, NEW t \in Threads, NEW c \in Call, Enter(t, c)
    PROVE  TypeOK'
BY DEF Enter, TypeOK, threads, consumer, clients

\* Every producer call, up to the point where it first lets go of the lock,
\* keeps the types.
LEMMA ProducerCallTypeOK ==
    ASSUME TypeOK, Tickets, NEW t \in Threads, ProducerCall(t)
    PROVE  TypeOK'
<1> USE DEF threads, consumer, clients
<1>1. ASSUME NEW async \in AsyncModes, NEW req \in Requests,
             \/ Enter(t, [op |-> "dequeueBuffer", async |-> async,
                          req |-> req, flags |-> {}])
             \/ Enter(t, [op |-> "allocateBuffers", async |-> async,
                          req |-> req])
      PROVE  TypeOK'
  <2>1. async \in BOOLEAN /\ req \in RequestType
    BY ModesAssumption, RequestsAssumption
  <2>2. /\ [op |-> "dequeueBuffer", async |-> async, req |-> req,
            flags |-> {}] \in Call
        /\ [op |-> "allocateBuffers", async |-> async, req |-> req] \in Call
    BY <2>1 DEF Call, Flags
  <2> QED
    BY <1>1, <2>2, EnterType
<1>2. ASSUME NEW b \in Attachable,
             Enter(t, [op |-> "attachBuffer", buffer |-> b])
      PROVE  TypeOK'
  <2>1. b \in Buffers
    BY DEF Attachable, Unreferenced, TypeOK
  <2>2. [op |-> "attachBuffer", buffer |-> b] \in Call
    BY <2>1 DEF Call
  <2> QED
    BY <1>2, <2>2, EnterType
<1>3. ASSUME NEW n \in BufferCounts,
             Enter(t, [op |-> "setBufferCount", count |-> n])
      PROVE  TypeOK'
  <2>1. [op |-> "setBufferCount", count |-> n] \in Call
    BY CountsAssumption DEF Call
  <2> QED
    BY <1>3, <2>1, EnterType
<1>4. ASSUME Enter(t, [op |-> "detachNextBuffer"])
      PROVE  TypeOK'
  <2>1. [op |-> "detachNextBuffer"] \in Call
    BY DEF Call
  <2> QED
    BY <1>4, <2>1, EnterType
<1>5. ASSUME NEW api \in Apis, Enter(t, [op |-> "disconnect", api |-> api])
      PROVE  TypeOK'
  <2>1. [op |-> "disconnect", api |-> api] \in Call
    BY DEF Call
  <2> QED
    BY <1>5, <2>1, EnterType
<1>6. ASSUME NEW s \in Slots, RequestBuffer(t, s)
      PROVE  TypeOK'
  <2>1. [mSlots[s] EXCEPT !.mRequestBufferCalled = TRUE] \in BufferSlot
    <3>1. mSlots[s] \in BufferSlot
      BY DEF TypeOK
    <3> QED
      BY <3>1 DEF BufferSlot
  <2>2. mSlots' \in [Slots -> BufferSlot]
    BY <1>6, <2>1 DEF RequestBuffer, TypeOK
  <2> QED
    BY <1>6, <2>2 DEF RequestBuffer, TypeOK
<1>7. ASSUME NEW s \in Slots, ProducerDetachBuffer(t, s)
      PROVE  TypeOK'
  <2>1. mSlots' \in [Slots -> BufferSlot] /\ owedFence' \in [Slots -> Fences]
    BY <1>7, FreedAtType, NoFenceOwedType DEF ProducerDetachBuffer
  <2>2. sleeping' \in [Threads -> SleepState]
    BY <1>7, BroadcastType DEF ProducerDetachBuffer
  <2>3. mSlots[s].mGraphicBuffer \in Buffers \cup {NULL}
    BY DEF TypeOK, BufferSlot
  <2> QED
    BY <1>7, <2>1, <2>2, <2>3 DEF ProducerDetachBuffer, TypeOK
<1>8. ASSUME NEW s \in Slots, CancelBuffer(t, s)
      PROVE  TypeOK'
  <2>1. mSlots' \in [Slots -> BufferSlot]
    BY <1>8, SlotRecordTypes DEF CancelBuffer, TypeOK
  <2>2. sleeping' \in [Threads -> SleepState]
    BY <1>8, BroadcastType DEF CancelBuffer
  <2> QED
    BY <1>8, <2>1, <2>2 DEF CancelBuffer, TypeOK, Fences
<1>9. ASSUME NEW s \in Slots, NEW async \in AsyncModes,
             QueueBufferInVRMode(t, s, async)
      PROVE  TypeOK'
  <2>1. [mSlots[s] EXCEPT !.mFence = "NO_FENCE", !.mBufferState = "FREE"]
          \in BufferSlot
    <3>1. mSlots[s] \in BufferSlot
      BY DEF TypeOK
    <3> QED
      BY <3>1 DEF BufferSlot, Fences
  <2>2. mSlots' \in [Slots -> BufferSlot]
    BY <1>9, <2>1 DEF QueueBufferInVRMode, TypeOK
  <2> QED
    BY <1>9, <2>2 DEF QueueBufferInVRMode, TypeOK, Fences
<1>10. ASSUME NEW s \in Slots, NEW async \in AsyncModes, NEW stamp \in Stamps,
              QueueBuffer(t, s, async, stamp)
       PROVE  TypeOK'
  <2> DEFINE frame == mCore.mFrameCounter + 1
             item == [mSlot |-> s,
                      mGraphicBuffer |-> mSlots[s].mGraphicBuffer,
                      mFrameNumber |-> frame,
                      mAcquireCalled |-> mSlots[s].mAcquireCalled,
                      mIsDroppable |->
                          mCore.mDequeueBufferCannotBlock \/ async,
                      mTimestamp |-> stamp.time,
                      mIsAutoTimestamp |-> stamp.isAuto,
                      mFence |-> "producer"]
             queued == [mSlots EXCEPT ![s] = Queued(@, frame)]
  <2>1. frame \in 1..MaxFrames
    BY <1>10, FramesAssumption DEF QueueBuffer, TypeOK, BufferQueueCore
  <2>2. item \in BufferItem
    <3>1. (mCore.mDequeueBufferCannotBlock \/ async) \in BOOLEAN
      OBVIOUS
    <3>2. mSlots[s].mGraphicBuffer \in Buffers
      BY <1>10 DEF QueueBuffer, MayQueue, TypeOK, BufferSlot
    <3>3. mSlots[s].mAcquireCalled \in BOOLEAN
      BY DEF TypeOK, BufferSlot
    <3>4. stamp.time \in Int /\ stamp.isAuto \in BOOLEAN
      BY TimesAssumption
    <3> HIDE DEF frame
    <3> QED
      BY <2>1, <3>1, <3>2, <3>3, <3>4 DEF BufferItem, Fences
  <2>3. mQueue' \in Seq(BufferItem)
    <3> HIDE DEF item
    <3>1. mQueue' = Enqueue(item)
      BY <1>10 DEF QueueBuffer, item
    <3> QED
      BY <2>2, <3>1 DEF Enqueue, Replaces, TypeOK
  <2>4. mSlots' \in [Slots -> BufferSlot]
    <3>1. frame \in FrameNumbers /\ 0 \in FrameNumbers
      BY <2>1, FramesAssumption DEF FrameNumbers
    <3>2. queued \in [Slots -> BufferSlot]
      BY <3>1, SlotRecordTypes DEF TypeOK
    <3>3. ASSUME NEW slot \in BufferSlot
          PROVE  [slot EXCEPT !.mBufferState = "FREE", !.mFrameNumber = 0]
                    \in BufferSlot
      BY <3>1 DEF BufferSlot
    <3>4. \/ mSlots' = queued
          \/ mSlots' = [queued EXCEPT ![mQueue[1].mSlot] =
                         [@ EXCEPT !.mBufferState = "FREE",
                                   !.mFrameNumber = 0]]
      BY <1>10 DEF QueueBuffer
    <3>5. CASE mQueue[1].mSlot \in Slots
      <4> HIDE DEF queued
      <4>1. queued[mQueue[1].mSlot] \in BufferSlot
        BY <3>2, <3>5
      <4> QED
        BY <3>2, <3>3, <3>4, <4>1
    <3>6. CASE mQueue[1].mSlot \notin Slots
      <4> HIDE DEF queued
      <4> QED
        BY <3>2, <3>4, <3>6
    <3> QED
      BY <3>5, <3>6
  <2>5. mCore' \in BufferQueueCore
    <3>1. mCore' = [mCore EXCEPT !.mFrameCounter = frame,
                                 !.mBufferHasBeenQueued = TRUE]
      BY <1>10 DEF QueueBuffer
    <3>2. frame \in 0..MaxFrames
      BY <2>1, FramesAssumption
    <3> HIDE DEF frame
    <3> QED
      BY <3>1, <3>2 DEF TypeOK, BufferQueueCore
  <2>6. callbacks' \in CallbackState
    <3>1. callbacks' = [callbacks EXCEPT !.mNextCallbackTicket = @ + 1]
      BY <1>10 DEF QueueBuffer
    <3>2. callbacks.mNextCallbackTicket + 1 \in 0..MaxFrames
      BY <2>1, FramesAssumption DEF Tickets
    <3> QED
      BY <3>1, <3>2 DEF TypeOK, CallbackState
  <2>7. call' \in [Threads -> Call]
    <3> DEFINE c == [op |-> "onFrame",
                     ticket |-> callbacks.mNextCallbackTicket,
                     frame |-> frame, listener |-> mCore.mConsumerListener,
                     replaced |-> Replaces]
    <3>1. c \in Call
      <4>1. mCore.mConsumerListener \in BOOLEAN
        BY DEF TypeOK, BufferQueueCore
      <4>2. Replaces \in BOOLEAN
        BY DEF Replaces
      <4>3. callbacks.mNextCallbackTicket \in 0..MaxFrames
        BY DEF TypeOK, CallbackState
      <4> HIDE DEF frame
      <4> QED
        BY <2>1, <4>1, <4>2, <4>3 DEF Call
    <3>2. call' = [call EXCEPT ![t] = c]
      BY <1>10 DEF QueueBuffer
    <3> HIDE DEF c
    <3> QED
      BY <3>1, <3>2 DEF TypeOK
  <2>8. sleeping' \in [Threads -> SleepState]
    BY <1>10, BroadcastType DEF QueueBuffer
  <2>9. owedFence' \in [Slots -> Fences] /\ producerSlots' \in SUBSET Slots
    BY <1>10 DEF QueueBuffer, TypeOK, Fences
  <2>10. UNCHANGED <<vrMode, consumerItems, lastAcquired, clientBuffers>>
    BY <1>10 DEF QueueBuffer
  <2> QED
    BY <2>3, <2>4, <2>5, <2>6, <2>7, <2>8, <2>9, <2>10 DEF TypeOK
<1>11. ASSUME NEW api \in Apis \cup {NO_CONNECTED_API},
              NEW byApp \in AppControlled, ProducerConnect(t, api, byApp)
       PROVE  TypeOK'
  <2>1. (mCore.mConsumerControlledByApp /\ byApp) \in BOOLEAN
    OBVIOUS
  <2>2. mCore' \in BufferQueueCore
    <3>1. mCore' = [mCore EXCEPT
            !.mConnectedApi = IF api \in Apis THEN api ELSE @,
            !.mBufferHasBeenQueued = FALSE,
            !.mDequeueBufferCannotBlock =
                mCore.mConsumerControlledByApp /\ byApp]
      BY <1>11 DEF ProducerConnect
    <3> QED
      BY <2>1, <3>1, ZenonT(60) DEF TypeOK, BufferQueueCore
  <2> QED
    BY <1>11, <2>2 DEF ProducerConnect, TypeOK
<1>12. ASSUME NEW stream \in BOOLEAN, SetSidebandStream(t, stream)
       PROVE  TypeOK'
  <2>1. mCore' \in BufferQueueCore
    BY <1>12 DEF SetSidebandStream, TypeOK, BufferQueueCore
  <2> QED
    BY <1>12, <2>1 DEF SetSidebandStream, TypeOK
<1> QED
  BY <1>1, <1>2, <1>3, <1>4, <1>5, <1>6, <1>7, <1>8, <1>9, <1>10, <1>11,
     <1>12 DEF ProducerCall

\* The error returns of waitForFreeSlotThenRelock keep the types.
LEMMA FreeSlotErrorType ==
    ASSUME TypeOK, NEW t \in Threads, NEW async, FreeSlotError(t, async)
    PROVE  /\ mSlots' \in [Slots -> BufferSlot]
           /\ owedFence' \in [Slots -> Fences]
           /\ call' \in [Threads -> Call]
           /\ sleeping' \in [Threads -> SleepState]
BY FreedAtType, NoFenceOwedType, ReturnsType DEF FreeSlotError, TypeOK

\* Falling asleep in waitForFreeSlotThenRelock keeps the types.
LEMMA FreeSlotWaitType ==
    ASSUME TypeOK, NEW t \in Threads, NEW async, NEW c \in Call,
           FreeSlotWait(t, async, c)
    PROVE  /\ mSlots' \in [Slots -> BufferSlot]
           /\ owedFence' \in [Slots -> Fences]
           /\ call' \in [Threads -> Call]
           /\ sleeping' \in [Threads -> SleepState]
BY FreedAtType, NoFenceOwedType DEF FreeSlotWait, TypeOK, SleepState

\* dequeueBuffer's use of the slot that waitForFreeSlotThenRelock found keeps
\* the types, with and without a new allocation.
LEMMA TakeSlotType ==
    ASSUME TypeOK, NEW t \in Threads, NEW s \in Slots, NEW async,
           NEW req \in SizedLater, NEW flags \in Flags,
           TakeSlot(t, s, async, req, flags)
    PROVE  /\ mSlots' \in [Slots -> BufferSlot]
           /\ owedFence' \in [Slots -> Fences]
           /\ call' \in [Threads -> Call]
           /\ sleeping' \in [Threads -> SleepState]
<1> DEFINE
      attr == [req EXCEPT !.size = IF @ = 0 THEN mCore.mDefaultSize ELSE @]
      slot == mSlots[s]
      usable == /\ slot.mGraphicBuffer # NULL
                /\ Serves(AttributesOf[slot.mGraphicBuffer], attr)
      needsRealloc == IF usable /\ ~slot.mAttachedByConsumer THEN {}
                      ELSE {"BUFFER_NEEDS_REALLOCATION"}
      taken == IF usable
               THEN [slot EXCEPT !.mBufferState = "DEQUEUED",
                                 !.mFence = "NO_FENCE"]
               ELSE [slot EXCEPT !.mBufferState = "DEQUEUED",
                                 !.mGraphicBuffer = NULL,
                                 !.mAcquireCalled = FALSE,
                                 !.mRequestBufferCalled = FALSE,
                                 !.mFence = "NO_FENCE"]
      c == IF usable
           THEN [op |-> "dequeueReturn", slot |-> s,
                 flags |-> flags \cup needsRealloc]
           ELSE [op |-> "createGraphicBuffer", slot |-> s, attr |-> attr,
                 flags |-> flags \cup needsRealloc]
<1>1. /\ mSlots' = [FreedAt(SlotsToFree(async)) EXCEPT ![s] = taken]
      /\ NoFenceOwedAt(SlotsToFree(async) \cup {s})
      /\ call' = [call EXCEPT ![t] = c]
      /\ UNCHANGED sleeping
  BY DEF TakeSlot
<1>2. taken \in BufferSlot
  <2>1. slot \in BufferSlot
    BY DEF TypeOK
  <2> HIDE DEF slot, usable
  <2> QED
    BY <2>1 DEF BufferSlot, Fences
<1>3. c \in Call
  <2>1. attr \in Attributes
    <3>1. mCore.mDefaultSize \in Sizes
      BY DEF TypeOK, BufferQueueCore
    <3> QED
      BY <3>1 DEF SizedLater, Attributes
  <2>2. flags \cup needsRealloc \in Flags
    <3> HIDE DEF usable
    <3> QED
      BY DEF Flags
  <2> HIDE DEF attr, needsRealloc, usable
  <2> QED
    BY <2>1, <2>2 DEF Call
<1> HIDE DEF taken, c
<1> QED
  BY <1>1, <1>2, <1>3, FreedAtType, NoFenceOwedType DEF TypeOK

\* allocateBuffers replaces the requested size, format and usage by allocation
\* attributes.
LEMMA AllocationAttributesType ==
    ASSUME TypeOK, NEW req \in RequestType
    PROVE  AllocationAttributes(req) \in Attributes
<1>1. /\ mCore.mDefaultSize \in Sizes
      /\ mCore.mDefaultBufferFormat \in Formats
      /\ mCore.mConsumerUsageBits \in SUBSET UsageBits
  BY DEF TypeOK, BufferQueueCore
<1> QED
  BY <1>1 DEF AllocationAttributes, RequestType, Attributes

\* One round of dequeueBuffer's search for a slot keeps the types.
LEMMA DequeueTurnType ==
    ASSUME TypeOK, NEW t \in Threads, NEW async \in BOOLEAN,
           NEW req \in SizedLater, NEW flags \in Flags,
           DequeueTurn(t, async, req, flags)
    PROVE  TypeOK'
<1> DEFINE seen == flags \cup ReleaseAllFlag(async)
           retry == [op |-> "dequeueRetry", async |-> async, req |-> req,
                     flags |-> seen]
<1>1. seen \in Flags
  BY DEF ReleaseAllFlag, Flags
<1>2. retry \in Call
  <2> HIDE DEF seen
  <2> QED
    BY <1>1 DEF Call
<1>3. \/ FreeSlotError(t, async)
      \/ FreeSlotWait(t, async, retry)
      \/ \E s \in Slots : TakeSlot(t, s, async, req, seen)
  BY DEF DequeueTurn
<1> HIDE DEF seen, retry
<1>4. /\ mSlots' \in [Slots -> BufferSlot]
      /\ owedFence' \in [Slots -> Fences]
      /\ call' \in [Threads -> Call]
      /\ sleeping' \in [Threads -> SleepState]
  BY <1>1, <1>2, <1>3, FreeSlotErrorType, FreeSlotWaitType, TakeSlotType
<1> QED
  BY <1>4 DEF DequeueTurn, TypeOK, consumer

\* One round of the producer's attachBuffer keeps the types.
LEMMA AttachTurnType ==
    ASSUME TypeOK, NEW t \in Threads, AttachTurn(t),
           call[t].op \in {"attachBuffer", "attachRetry"}
    PROVE  TypeOK'
<1> DEFINE b == call[t].buffer
           retry == [op |-> "attachRetry", buffer |-> b]
<1>1. b \in Buffers
  BY CallType
<1>2. retry \in Call
  <2> HIDE DEF b
  <2> QED
    BY <1>1 DEF Call
<1>3. CASE /\ FreeSlotError(t, FALSE)
           /\ UNCHANGED <<producerSlots, clientBuffers>>
  BY <1>3, FreeSlotErrorType DEF AttachTurn, TypeOK, consumer
<1>4. CASE /\ FreeSlotWait(t, FALSE, retry)
           /\ UNCHANGED <<producerSlots, clientBuffers>>
  <2>1. /\ mSlots' \in [Slots -> BufferSlot]
        /\ owedFence' \in [Slots -> Fences]
        /\ call' \in [Threads -> Call]
        /\ sleeping' \in [Threads -> SleepState]
    <3> HIDE DEF retry
    <3> QED
      BY <1>2, <1>4, FreeSlotWaitType
  <2> QED
    BY <1>4, <2>1 DEF AttachTurn, TypeOK, consumer
<1>5. ASSUME NEW s \in Slots,
             mSlots' = [FreedAt(SlotsToFree(FALSE)) EXCEPT
                          ![s] = Attached(@, b)],
             NoFenceOwedAt(SlotsToFree(FALSE) \cup {s}),
             producerSlots' = producerSlots \cup {s},
             Returns(t),
             clientBuffers' = clientBuffers \ {b},
             UNCHANGED sleeping
      PROVE  TypeOK'
  <2>1. mSlots' \in [Slots -> BufferSlot]
    <3> HIDE DEF b
    <3>1. FreedAt(SlotsToFree(FALSE)) \in [Slots -> BufferSlot]
      BY FreedAtType
    <3> QED
      BY <1>1, <1>5, <3>1, SlotRecordTypes
  <2>2. owedFence' \in [Slots -> Fences] /\ call' \in [Threads -> Call]
    BY <1>5, NoFenceOwedType, ReturnsType
  <2> QED
    BY <1>5, <2>1, <2>2 DEF AttachTurn, TypeOK, consumer
<1> QED
  BY <1>3, <1>4, <1>5 DEF AttachTurn

\* A producer call that goes on after a sleep, an allocation or a callback
\* keeps the types.
LEMMA ProducerStepTypeOK ==
    ASSUME TypeOK, Tickets, NEW t \in Threads, ProducerStep(t)
    PROVE  TypeOK'
<1> USE DEF threads, consumer, clients
<1>1. CASE WaitWhileAllocating(t)
  BY <1>1 DEF WaitWhileAllocating, TypeOK, SleepState
<1>2. CASE SetBufferCount(t)
  <2> DEFINE count == call[t].count
  <2>1. count \in 0..NUM_BUFFER_SLOTS
    BY <1>2, CallType DEF SetBufferCount, Runs
  <2>2. [op |-> "onBuffersReleased"] \in Call /\ Idle \in Call
    BY DEF Call
  <2>3. call' \in [Threads -> Call]
    BY <1>2, <2>2, ReturnsType DEF SetBufferCount, TypeOK
  <2>4. mCore' \in BufferQueueCore
    <3>1. \/ mCore' = mCore
          \/ mCore' = [mCore EXCEPT !.mOverrideMaxBufferCount = 0]
          \/ mCore' = [mCore EXCEPT !.mBufferHasBeenQueued = FALSE,
                                    !.mOverrideMaxBufferCount = count]
      BY <1>2 DEF SetBufferCount
    <3>2. mCore \in BufferQueueCore /\ 0 \in 0..NUM_BUFFER_SLOTS
      BY SlotsAssumption DEF TypeOK
    <3>3. [mCore EXCEPT !.mOverrideMaxBufferCount = 0] \in BufferQueueCore
      BY <3>2 DEF BufferQueueCore
    <3> HIDE DEF count
    <3>4. [mCore EXCEPT !.mBufferHasBeenQueued = FALSE,
                        !.mOverrideMaxBufferCount = count] \in BufferQueueCore
      BY <2>1, <3>2 DEF BufferQueueCore
    <3> QED
      BY <3>1, <3>2, <3>3, <3>4
  <2>5. /\ mSlots' \in [Slots -> BufferSlot]
        /\ owedFence' \in [Slots -> Fences]
    BY <1>2, FreedAtType, NoFenceOwedType
    DEF SetBufferCount, FreeAllBuffers, TypeOK
  <2>6. sleeping' \in [Threads -> SleepState]
    BY <1>2, BroadcastType DEF SetBufferCount, TypeOK
  <2> QED
    BY <1>2, <2>3, <2>4, <2>5, <2>6 DEF SetBufferCount, TypeOK
<1>3. CASE DequeueBuffer(t)
  <2> DEFINE req == [call[t].req EXCEPT
                !.format = IF @ = 0 THEN mCore.mDefaultBufferFormat ELSE @,
                !.usage = @ \cup mCore.mConsumerUsageBits]
  <2>1. call[t].async \in BOOLEAN /\ call[t].req \in RequestType
    BY <1>3, CallType DEF DequeueBuffer, Runs
  <2>2. req \in SizedLater
    <3>1. /\ mCore.mDefaultBufferFormat \in Formats
          /\ mCore.mConsumerUsageBits \in SUBSET UsageBits
      BY DEF TypeOK, BufferQueueCore
    <3> QED
      BY <2>1, <3>1 DEF RequestType, SizedLater
  <2>3. DequeueTurn(t, call[t].async, req, {})
    BY <1>3 DEF DequeueBuffer
  <2>4. {} \in Flags
    BY DEF Flags
  <2> HIDE DEF req
  <2> QED
    BY <2>1, <2>2, <2>3, <2>4, DequeueTurnType
<1>4. CASE DequeueRetry(t)
  BY <1>4, CallType, DequeueTurnType DEF DequeueRetry
<1>5. CASE DequeueAllocate(t)
  <2> DEFINE c == call[t]
             back == [op |-> "dequeueReturn", slot |-> c.slot,
                      flags |-> c.flags]
  <2>1. /\ c.slot \in Slots
        /\ back \in Call
    <3>1. c.slot \in Slots /\ c.flags \in Flags
      BY <1>5, CallType DEF DequeueAllocate
    <3> HIDE DEF c
    <3> QED
      BY <3>1 DEF Call
  <2>2. call' \in [Threads -> Call]
    <3>1. Returns(t) \/ call' = [call EXCEPT ![t] = back]
      BY <1>5 DEF DequeueAllocate
    <3> HIDE DEF back
    <3> QED
      BY <2>1, <3>1, ReturnsType DEF TypeOK
  <2>3. mSlots' \in [Slots -> BufferSlot]
    <3>1. \/ mSlots' = mSlots
          \/ \E b \in Buffers :
               mSlots' = [mSlots EXCEPT ![c.slot] =
                            [@ EXCEPT !.mFrameNumber = UINT32_MAX,
                                      !.mGraphicBuffer = b]]
      BY <1>5 DEF DequeueAllocate, Unreferenced
    <3>2. ASSUME NEW b \in Buffers
          PROVE  [mSlots[c.slot] EXCEPT !.mFrameNumber = UINT32_MAX,
                                        !.mGraphicBuffer = b] \in BufferSlot
      <4>1. mSlots[c.slot] \in BufferSlot
        BY <2>1 DEF TypeOK
      <4> QED
        BY <4>1 DEF BufferSlot, FrameNumbers
    <3> HIDE DEF c
    <3> QED
      BY <3>1, <3>2 DEF TypeOK
  <2> QED
    BY <1>5, <2>2, <2>3 DEF DequeueAllocate, TypeOK
<1>6. CASE DequeueReturn(t)
  <2>1. call[t].slot \in Slots
    BY <1>6, CallType DEF DequeueReturn
  <2>2. call' \in [Threads -> Call]
    BY <1>6, ReturnsType DEF DequeueReturn
  <2> QED
    BY <1>6, <2>1, <2>2 DEF DequeueReturn, TypeOK
<1>7. CASE DetachNextBuffer(t)
  <2>1. call' \in [Threads -> Call]
    BY <1>7, ReturnsType DEF DetachNextBuffer
  <2>2. /\ mSlots' \in [Slots -> BufferSlot]
        /\ owedFence' \in [Slots -> Fences]
    BY <1>7, FreedAtType, NoFenceOwedType DEF DetachNextBuffer, TypeOK
  <2>3. clientBuffers' \in SUBSET Buffers
    <3>1. \A s \in Slots : mSlots[s].mGraphicBuffer \in Buffers \cup {NULL}
      BY DEF TypeOK, BufferSlot
    <3> QED
      BY <1>7, <3>1 DEF DetachNextBuffer, IsOldest, TypeOK
  <2> QED
    BY <1>7, <2>1, <2>2, <2>3 DEF DetachNextBuffer, TypeOK
<1>8. CASE ProducerAttachBuffer(t)
  BY <1>8, AttachTurnType DEF ProducerAttachBuffer, Runs
<1>9. CASE AttachRetry(t)
  BY <1>9, AttachTurnType DEF AttachRetry
<1>10. CASE CallBack(t)
  <2>1. call' \in [Threads -> Call]
    BY <1>10, ReturnsType DEF CallBack
  <2>2. callbacks' \in CallbackState
    <3>1. /\ callbacks.mCurrentCallbackTicket + 1 \in 0..MaxFrames
          /\ call[t].frame \in 0..MaxFrames
      BY <1>10, CallType DEF CallBack, IsServed, Tickets, TypeOK, CallbackState
    <3>2. /\ callbacks.announced \in 0..MaxFrames
          /\ callbacks \in CallbackState
      BY DEF TypeOK, CallbackState
    <3> QED
      BY <1>10, <3>1, <3>2 DEF CallBack, CallbackState
  <2> QED
    BY <1>10, <2>1, <2>2 DEF CallBack, TypeOK
<1>11. CASE CallBackReleased(t)
  <2>1. call' \in [Threads -> Call]
    BY <1>11, ReturnsType DEF CallBackReleased
  <2> QED
    BY <1>11, <2>1 DEF CallBackReleased, TypeOK
<1>12. CASE ProducerDisconnect(t)
  <2>1. [op |-> "onBuffersReleased"] \in Call /\ Idle \in Call
    BY DEF Call
  <2>2. call' \in [Threads -> Call]
    BY <1>12, <2>1, ReturnsType DEF ProducerDisconnect, TypeOK
  <2>3. mCore' \in BufferQueueCore
    <3>1. \/ mCore' = mCore
          \/ mCore' = [mCore EXCEPT !.mBufferHasBeenQueued = FALSE,
                                    !.mConnectedApi = NO_CONNECTED_API,
                                    !.mSidebandStream = FALSE]
      BY <1>12 DEF ProducerDisconnect
    <3>2. mCore \in BufferQueueCore
      BY DEF TypeOK
    <3>3. [mCore EXCEPT !.mBufferHasBeenQueued = FALSE,
                        !.mConnectedApi = NO_CONNECTED_API,
                        !.mSidebandStream = FALSE] \in BufferQueueCore
      BY <3>2 DEF BufferQueueCore
    <3> QED
      BY <3>1, <3>2, <3>3
  <2>4. /\ mSlots' \in [Slots -> BufferSlot]
        /\ owedFence' \in [Slots -> Fences]
    BY <1>12, FreedAtType, NoFenceOwedType
    DEF ProducerDisconnect, FreeAllBuffers, TypeOK
  <2>5. sleeping' \in [Threads -> SleepState]
    BY <1>12, BroadcastType DEF ProducerDisconnect, TypeOK
  <2>6. producerSlots' \in SUBSET Slots
    BY <1>12 DEF ProducerDisconnect, TypeOK
  <2> QED
    BY <1>12, <2>2, <2>3, <2>4, <2>5, <2>6 DEF ProducerDisconnect, TypeOK
<1>13. CASE AllocateBuffers(t)
  <2> DEFINE c == call[t]
             empty == {s \in Slots : mSlots[s].mGraphicBuffer = NULL}
             free == empty \cap InState("FREE")
             new == MaxBufferCount(c.async) - Cardinality(Slots \ empty)
             chosen == {s \in free : Cardinality({r \in free : r < s}) < new}
             next == [op |-> "allocating", async |-> c.async, req |-> c.req,
                      slots |-> chosen, attr |-> AllocationAttributes(c.req)]
  <2>1. \/ Returns(t) /\ UNCHANGED mCore
        \/ /\ call' = [call EXCEPT ![t] = next]
           /\ mCore' = [mCore EXCEPT !.mIsAllocating = TRUE]
    BY <1>13 DEF AllocateBuffers
  <2>2. c.async \in BOOLEAN /\ c.req \in RequestType
    BY <1>13, CallType DEF AllocateBuffers, Runs
  <2>3. AllocationAttributes(c.req) \in Attributes
    BY <2>2, AllocationAttributesType
  <2>4. chosen \in SUBSET Slots
    OBVIOUS
  <2>5. next \in Call
    <3> HIDE DEF c, chosen
    <3> QED
      BY <2>2, <2>3, <2>4 DEF Call
  <2>6. mCore' \in BufferQueueCore
    <3> HIDE DEF next
    <3>1. \/ mCore' = mCore
          \/ mCore' = [mCore EXCEPT !.mIsAllocating = TRUE]
      BY <2>1
    <3> QED
      BY <3>1, ZenonT(60) DEF TypeOK, BufferQueueCore
  <2>7. call' \in [Threads -> Call]
    <3> HIDE DEF next
    <3> QED
      BY <2>1, <2>5, ReturnsType DEF TypeOK
  <2>8. UNCHANGED <<mSlots, mQueue, vrMode, sleeping, callbacks, clients>>
    BY <1>13 DEF AllocateBuffers
  <2> QED
    BY <2>6, <2>7, <2>8 DEF TypeOK
<1>14. CASE AllocateBuffersCommit(t)
  <2> DEFINE c == call[t]
             again == [op |-> "allocateBuffers", async |-> c.async,
                       req |-> c.req]
             filled == c.slots \cap InState("FREE")
             usable == {b \in Unreferenced : AttributesOf[b] = c.attr}
  <2>1. c.async \in BOOLEAN /\ c.req \in RequestType
    BY <1>14, CallType DEF AllocateBuffersCommit
  <2>2. again \in Call
    <3> HIDE DEF c
    <3> QED
      BY <2>1 DEF Call
  <2>3. call' \in [Threads -> Call]
    <3>1. Returns(t) \/ call' = [call EXCEPT ![t] = again]
      BY <1>14 DEF AllocateBuffersCommit
    <3> HIDE DEF again
    <3> QED
      BY <2>2, <3>1, ReturnsType DEF TypeOK
  <2>4. mSlots' \in [Slots -> BufferSlot]
    <3>1. \/ mSlots' = mSlots
          \/ \E f \in [filled -> usable] :
               mSlots' = [s \in Slots |->
                            IF s \in filled
                            THEN [Freed(mSlots[s]) EXCEPT
                                    !.mGraphicBuffer = f[s]]
                            ELSE mSlots[s]]
      BY <1>14 DEF AllocateBuffersCommit
    <3>2. ASSUME NEW s \in Slots, NEW b \in Buffers
          PROVE  [Freed(mSlots[s]) EXCEPT !.mGraphicBuffer = b] \in BufferSlot
      <4>1. Freed(mSlots[s]) \in BufferSlot
        BY FreedType DEF TypeOK
      <4> QED
        BY <4>1 DEF BufferSlot
    <3>5. usable \subseteq Buffers
      BY DEF Unreferenced
    <3> HIDE DEF filled, usable
    <3>3. CASE mSlots' = mSlots
      BY <3>3 DEF TypeOK
    <3>4. ASSUME NEW f \in [filled -> usable],
                 mSlots' = [s \in Slots |->
                              IF s \in filled
                              THEN [Freed(mSlots[s]) EXCEPT
                                      !.mGraphicBuffer = f[s]]
                              ELSE mSlots[s]]
          PROVE  mSlots' \in [Slots -> BufferSlot]
      <4>1. ASSUME NEW s \in Slots
            PROVE  mSlots'[s] \in BufferSlot
        <5>1. CASE s \in filled
          BY <3>2, <3>4, <3>5, <5>1
        <5>2. CASE s \notin filled
          BY <3>4, <5>2 DEF TypeOK
        <5> QED
          BY <5>1, <5>2
      <4> QED
        BY <3>4, <4>1
    <3> QED
      BY <3>1, <3>3, <3>4
  <2>5. owedFence' \in [Slots -> Fences]
    BY <1>14, NoFenceOwedType DEF AllocateBuffersCommit, TypeOK
  <2>6. mCore' \in BufferQueueCore
    BY <1>14 DEF AllocateBuffersCommit, TypeOK, BufferQueueCore
  <2>7. sleeping' \in [Threads -> SleepState]
    BY <1>14, BroadcastType DEF AllocateBuffersCommit
  <2>8. UNCHANGED <<mQueue, vrMode, callbacks, producerSlots, consumer,
                    clientBuffers>>
    BY <1>14 DEF AllocateBuffersCommit
  <2> QED
    BY <2>3, <2>4, <2>5, <2>6, <2>7, <2>8 DEF TypeOK
<1> QED
  BY <1>1, <1>2, <1>3, <1>4, <1>5, <1>6, <1>7, <1>8, <1>9, <1>10, <1>11,
     <1>12, <1>13, <1>14 DEF ProducerStep

\* Every step keeps the types, given that the tickets count the frames.
LEMMA TypeOKStep ==
    ASSUME TypeOK, Tickets, [Next]_vars
    PROVE  TypeOK'
<1> USE DEF threads, consumer, clients
<1>1. ASSUME NEW t \in Threads, BinderDied(t)
      PROVE  TypeOK'
  <2>1. [op |-> "disconnect", api |-> mCore.mConnectedApi] \in Call
    <3>1. mCore.mConnectedApi \in Apis \cup {NO_CONNECTED_API}
      BY DEF TypeOK, BufferQueueCore
    <3> QED
      BY <3>1 DEF Call
  <2> QED
    BY <1>1, <2>1 DEF BinderDied, TypeOK
<1>2. ASSUME NEW b \in clientBuffers, DropClientBuffer(b)
      PROVE  TypeOK'
  BY <1>2 DEF DropClientBuffer, TypeOK
<1>3. ASSUME NEW on \in BOOLEAN, SetVRMode(on)
      PROVE  TypeOK'
  BY <1>3 DEF SetVRMode, TypeOK
<1>4. CASE UNCHANGED vars
  BY <1>4 DEF vars, TypeOK
<1> QED
  BY <1>1, <1>2, <1>3, <1>4, ProducerCallTypeOK, ProducerStepTypeOK,
     ConsumerTypeOK DEF Next

-----------------------------------------------------------------------------
(***************************************************************************)
(* A frame condition for the proofs about single invariants.  Most         *)
(* operations of BufferQueueProducer and BufferQueueConsumer neither touch *)
(* the FIFO or the callback tickets nor start or end an allocation.  Their *)
(* steps are quiet: they keep everything in the definition Quiet.  The few *)
(* operations that are not quiet are the disjuncts of LoudStep.  Lemma     *)
(* QuietStep says that there is no third kind of step, so that a proof     *)
(* about one invariant goes through Quiet and the seven loud actions       *)
(* instead of all actions of Next.                                         *)
(***************************************************************************)

\* The core keeps its frame counter, its allocation and abandonment flags,
\* gets no new listener once abandoned, and becomes asynchronous only where
\* the application controls both ends.
QuietCore ==
    /\ mCore'.mFrameCounter = mCore.mFrameCounter
    /\ mCore'.mIsAllocating = mCore.mIsAllocating
    /\ mCore'.mIsAbandoned = mCore.mIsAbandoned
    /\ mCore.mIsAbandoned =>
         mCore'.mConsumerListener = mCore.mConsumerListener
    /\ mCore'.mDequeueBufferCannotBlock =>
         mCore.mDequeueBufferCannotBlock \/ mCore.mConsumerControlledByApp
    /\ mCore'.mConsumerControlledByApp =>
         mCore.mConsumerControlledByApp \/ TRUE \in AppControlled

\* No thread begins or ends an allocation of allocateBuffers or begins to wait
\* for a callback.
QuietCalls ==
    \A t \in Threads :
        \/ call'[t] = call[t]
        \/ /\ call[t].op # "allocating"
           /\ call'[t].op \notin {"onFrame", "allocating"}

\* No thread falls asleep in waitWhileAllocatingLocked.
QuietSleep ==
    \A t \in Threads :
        sleeping'[t] = "mIsAllocatingCondition" => sleeping'[t] = sleeping[t]

\* The slot is DEQUEUED or QUEUED.
HeldByProducer(slot) == slot.mBufferState \in {"DEQUEUED", "QUEUED"}

\* In an abandoned queue no slot becomes DEQUEUED or QUEUED.
QuietSlots ==
    mCore.mIsAbandoned =>
        \A s \in Slots : HeldByProducer(mSlots'[s])
            => HeldByProducer(mSlots[s])

\* A step that concerns none of the invariants below.
Quiet ==
    /\ UNCHANGED <<mQueue, callbacks, lastAcquired>>
    /\ QuietCore
    /\ QuietCalls
    /\ QuietSleep
    /\ QuietSlots

\* A step that leaves the core alone is quiet about it.
LEMMA SameCore == ASSUME TypeOK, UNCHANGED mCore PROVE QuietCore
BY DEF QuietCore

\* A step in which no thread moves is quiet about the calls.
LEMMA SameCalls == ASSUME UNCHANGED call PROVE QuietCalls
BY DEF QuietCalls

\* A thread that goes on to a place other than the callback or the allocation
\* of allocateBuffers, and that was not allocating, is quiet.
LEMMA NewCall ==
    ASSUME TypeOK, NEW t \in Threads, NEW c,
           call' = [call EXCEPT ![t] = c],
           call[t].op # "allocating",
           c.op \notin {"onFrame", "allocating"}
    PROVE  QuietCalls
BY DEF QuietCalls, TypeOK

\* A call that returns, other than allocateBuffers from its allocation, is
\* quiet.
LEMMA ReturnsQuiet ==
    ASSUME TypeOK, NEW t \in Threads, Returns(t), call[t].op # "allocating"
    PROVE  QuietCalls
BY DEF QuietCalls, Returns, Idle, TypeOK

\* A step in which nobody falls asleep or wakes up is quiet about sleep.
LEMMA SameSleep == ASSUME UNCHANGED sleeping PROVE QuietSleep
BY DEF QuietSleep

\* A broadcast puts nobody to sleep.
LEMMA BroadcastQuiet ==
    ASSUME TypeOK, NEW condition, Broadcast(condition)
    PROVE  QuietSleep
BY DEF Broadcast, QuietSleep, TypeOK, SleepState

\* A step that leaves the slots alone is quiet about them.
LEMMA SameSlots == ASSUME UNCHANGED mSlots PROVE QuietSlots
BY DEF QuietSlots

\* freeBufferLocked takes a slot from the producer.
LEMMA FreedNotHeld ==
    ASSUME NEW slot \in BufferSlot
    PROVE  ~HeldByProducer(Freed(slot))
BY DEF Freed, HeldByProducer, BufferSlot

\* freeBufferLocked on any set of slots is quiet.
LEMMA FreedQuiet ==
    ASSUME TypeOK, NEW S, mSlots' = FreedAt(S)
    PROVE  QuietSlots
BY FreedNotHeld DEF FreedAt, QuietSlots, TypeOK

\* The error returns of waitForFreeSlotThenRelock are quiet.
LEMMA FreeSlotErrorQuiet ==
    ASSUME TypeOK, NEW t \in Threads, NEW async, FreeSlotError(t, async),
           call[t].op # "allocating"
    PROVE  QuietCalls /\ QuietSleep /\ QuietSlots
BY ReturnsQuiet, SameSleep, FreedQuiet DEF FreeSlotError

\* Falling asleep in waitForFreeSlotThenRelock is quiet: it sleeps on
\* mDequeueCondition.
LEMMA FreeSlotWaitQuiet ==
    ASSUME TypeOK, NEW t \in Threads, NEW async, NEW c,
           FreeSlotWait(t, async, c), call[t].op # "allocating",
           c.op \notin {"onFrame", "allocating"}
    PROVE  QuietCalls /\ QuietSleep /\ QuietSlots
<1>1. QuietCalls
  BY NewCall DEF FreeSlotWait
<1>2. QuietSleep
  BY DEF FreeSlotWait, QuietSleep, TypeOK, SleepState
<1>3. QuietSlots
  BY FreedQuiet DEF FreeSlotWait
<1> QED
  BY <1>1, <1>2, <1>3

\* waitForFreeSlotThenRelock finds no slot in an abandoned queue.
LEMMA NoErrorWhileOpen ==
    ASSUME NEW async, FreeSlotStatus(async) = "NO_ERROR"
    PROVE  ~mCore.mIsAbandoned
BY DEF FreeSlotStatus

\* Each round of dequeueBuffer's search for a slot is quiet.
LEMMA DequeueTurnQuiet ==
    ASSUME TypeOK, NEW t \in Threads, NEW async, NEW req, NEW flags,
           DequeueTurn(t, async, req, flags), call[t].op # "allocating"
    PROVE  Quiet
<1> DEFINE seen == flags \cup ReleaseAllFlag(async)
           retry == [op |-> "dequeueRetry", async |-> async, req |-> req,
                     flags |-> seen]
<1>1. CASE FreeSlotError(t, async)
  BY <1>1, FreeSlotErrorQuiet, SameCore DEF DequeueTurn, Quiet, consumer
<1>2. CASE FreeSlotWait(t, async, retry)
  <2>1. retry.op \notin {"onFrame", "allocating"}
    OBVIOUS
  <2>2. QuietCalls /\ QuietSleep /\ QuietSlots
    <3> HIDE DEF retry
    <3> QED
      BY <1>2, <2>1, FreeSlotWaitQuiet
  <2> QED
    BY <2>2, SameCore DEF DequeueTurn, Quiet, consumer
<1>3. ASSUME FreeSlotStatus(async) = "NO_ERROR",
             NEW s \in Slots, TakeSlot(t, s, async, req, seen)
      PROVE  Quiet
  <2>1. QuietSlots
    BY <1>3, NoErrorWhileOpen DEF QuietSlots
  <2>2. QuietSleep
    BY <1>3, SameSleep DEF TakeSlot
  <2>3. QuietCalls
    <3>1. \E attr, f : \E b \in BOOLEAN :
            call' = [call EXCEPT ![t] =
                       IF b
                       THEN [op |-> "dequeueReturn", slot |-> s, flags |-> f]
                       ELSE [op |-> "createGraphicBuffer", slot |-> s,
                             attr |-> attr, flags |-> f]]
      BY <1>3 DEF TakeSlot
    <3> QED
      BY <3>1 DEF QuietCalls, TypeOK
  <2> QED
    BY <2>1, <2>2, <2>3, SameCore DEF DequeueTurn, Quiet, consumer
<1> QED
  BY <1>1, <1>2, <1>3 DEF DequeueTurn

\* Each round of the producer's attachBuffer is quiet.
LEMMA AttachTurnQuiet ==
    ASSUME TypeOK, NEW t \in Threads, AttachTurn(t),
           call[t].op # "allocating"
    PROVE  Quiet
<1> DEFINE retry == [op |-> "attachRetry", buffer |-> call[t].buffer]
<1>1. CASE FreeSlotError(t, FALSE)
  BY <1>1, FreeSlotErrorQuiet, SameCore DEF AttachTurn, Quiet, consumer
<1>2. CASE FreeSlotWait(t, FALSE, retry)
  <2>1. retry.op \notin {"onFrame", "allocating"}
    OBVIOUS
  <2>2. QuietCalls /\ QuietSleep /\ QuietSlots
    <3> HIDE DEF retry
    <3> QED
      BY <1>2, <2>1, FreeSlotWaitQuiet
  <2> QED
    BY <2>2, SameCore DEF AttachTurn, Quiet, consumer
<1>3. CASE FreeSlotStatus(FALSE) = "NO_ERROR" /\ Returns(t)
      /\ UNCHANGED sleeping
  <2>1. QuietSlots
    BY <1>3, NoErrorWhileOpen DEF QuietSlots
  <2> QED
    BY <1>3, <2>1, ReturnsQuiet, SameSleep, SameCore
    DEF AttachTurn, Quiet, consumer
<1> QED
  BY <1>1, <1>2, <1>3 DEF AttachTurn

\* Entering a producer call is quiet.
LEMMA EnterQuiet ==
    ASSUME TypeOK, NEW t \in Threads, NEW c, Enter(t, c),
           c.op \notin {"onFrame", "allocating"}
    PROVE  Quiet
<1>1. call[t].op # "allocating"
  BY DEF Enter, IsIdle, Idle
<1>2. QuietCalls
  BY <1>1, NewCall DEF Enter
<1> QED
  BY <1>2, SameCore, SameSleep, SameSlots
  DEF Enter, Quiet, clients, consumer

\* A change of one slot that does not give it to the producer is quiet.
LEMMA OneSlotQuiet ==
    ASSUME TypeOK, NEW s \in Slots, NEW slot,
           mSlots' = [mSlots EXCEPT ![s] = slot],
           HeldByProducer(slot) => HeldByProducer(mSlots[s])
    PROVE  QuietSlots
BY DEF QuietSlots, TypeOK

\* While the queue is not abandoned every change of slots is quiet.
LEMMA OpenSlotsQuiet == ASSUME ~mCore.mIsAbandoned PROVE QuietSlots
BY DEF QuietSlots

\* Producer calls other than queueBuffer are quiet up to the point where they
\* first let go of the lock.
LEMMA ProducerCallQuiet ==
    ASSUME TypeOK, NEW t \in Threads, ProducerCall(t),
           ~\E s \in Slots, async \in AsyncModes, stamp \in Stamps :
               QueueBuffer(t, s, async, stamp)
    PROVE  Quiet
<1> USE DEF threads, consumer, clients
<1>1. ASSUME NEW async \in AsyncModes, NEW req \in Requests,
             \/ Enter(t, [op |-> "dequeueBuffer", async |-> async,
                          req |-> req, flags |-> {}])
             \/ Enter(t, [op |-> "allocateBuffers", async |-> async,
                          req |-> req])
      PROVE  Quiet
  BY <1>1, EnterQuiet
<1>2. ASSUME NEW b \in Attachable,
             Enter(t, [op |-> "attachBuffer", buffer |-> b])
      PROVE  Quiet
  BY <1>2, EnterQuiet
<1>3. ASSUME NEW n \in BufferCounts,
             Enter(t, [op |-> "setBufferCount", count |-> n])
      PROVE  Quiet
  BY <1>3, EnterQuiet
<1>4. ASSUME Enter(t, [op |-> "detachNextBuffer"])
      PROVE  Quiet
  BY <1>4, EnterQuiet
<1>5. ASSUME NEW api \in Apis, Enter(t, [op |-> "disconnect", api |-> api])
      PROVE  Quiet
  BY <1>5, EnterQuiet
<1>6. ASSUME NEW s \in Slots, RequestBuffer(t, s)
      PROVE  Quiet
  BY <1>6, SameCore, SameCalls, SameSleep, OpenSlotsQuiet
  DEF RequestBuffer, Quiet
<1>7. ASSUME NEW s \in Slots, ProducerDetachBuffer(t, s)
      PROVE  Quiet
  BY <1>7, SameCore, SameCalls, BroadcastQuiet, OpenSlotsQuiet
  DEF ProducerDetachBuffer, Quiet
<1>8. ASSUME NEW s \in Slots, CancelBuffer(t, s)
      PROVE  Quiet
  BY <1>8, SameCore, SameCalls, BroadcastQuiet, OpenSlotsQuiet
  DEF CancelBuffer, Quiet
<1>9. ASSUME NEW s \in Slots, NEW async \in AsyncModes,
             QueueBufferInVRMode(t, s, async)
      PROVE  Quiet
  BY <1>9, SameCore, SameCalls, SameSleep, OpenSlotsQuiet
  DEF QueueBufferInVRMode, MayQueue, Quiet
<1>10. ASSUME NEW api \in Apis \cup {NO_CONNECTED_API},
              NEW byApp \in AppControlled, ProducerConnect(t, api, byApp)
       PROVE  Quiet
  <2>1. QuietCore
    BY <1>10 DEF ProducerConnect, QuietCore, TypeOK, BufferQueueCore
  <2> QED
    BY <1>10, <2>1, SameCalls, SameSleep, SameSlots DEF ProducerConnect, Quiet
<1>11. ASSUME NEW stream \in BOOLEAN, SetSidebandStream(t, stream)
       PROVE  Quiet
  <2>1. QuietCore
    BY <1>11 DEF SetSidebandStream, QuietCore, TypeOK, BufferQueueCore
  <2> QED
    BY <1>11, <2>1, SameCalls, SameSleep, SameSlots
    DEF SetSidebandStream, Quiet
<1> QED
  BY <1>1, <1>2, <1>3, <1>4, <1>5, <1>6, <1>7, <1>8, <1>9, <1>10, <1>11
  DEF ProducerCall

\* The later steps of producer calls are quiet, except the callback of
\* queueBuffer, the sleep in waitWhileAllocatingLocked and the two halves of
\* allocateBuffers.
LEMMA ProducerStepQuiet ==
    ASSUME TypeOK, NEW t \in Threads, ProducerStep(t),
           ~WaitWhileAllocating(t), ~CallBack(t), ~AllocateBuffers(t),
           ~AllocateBuffersCommit(t)
    PROVE  Quiet
<1> USE DEF threads, consumer, clients
<1>1. CASE SetBufferCount(t)
  <2>1. call[t].op # "allocating"
    BY <1>1 DEF SetBufferCount, Runs
  <2>2. QuietCore
    BY <1>1 DEF SetBufferCount, QuietCore, TypeOK, BufferQueueCore
  <2>3. QuietCalls
    <3>1. CASE Returns(t)
      BY <2>1, <3>1, ReturnsQuiet
    <3>2. CASE call' = [call EXCEPT ![t] =
                          IF mCore.mConsumerListener
                          THEN [op |-> "onBuffersReleased"] ELSE Idle]
      BY <2>1, <3>2 DEF QuietCalls, TypeOK, Idle
    <3> QED
      BY <1>1, <3>1, <3>2 DEF SetBufferCount
  <2>4. QuietSleep
    BY <1>1, BroadcastQuiet, SameSleep DEF SetBufferCount
  <2>5. QuietSlots
    BY <1>1, FreedQuiet, SameSlots DEF SetBufferCount, FreeAllBuffers
  <2> QED
    BY <1>1, <2>2, <2>3, <2>4, <2>5 DEF SetBufferCount, Quiet
<1>2. CASE DequeueBuffer(t)
  BY <1>2, DequeueTurnQuiet DEF DequeueBuffer, Runs
<1>3. CASE DequeueRetry(t)
  BY <1>3, DequeueTurnQuiet DEF DequeueRetry
<1>4. CASE DequeueAllocate(t)
  <2>1. call[t].op # "allocating"
    BY <1>4 DEF DequeueAllocate
  <2>2. QuietCalls
    <3>1. CASE Returns(t)
      BY <2>1, <3>1, ReturnsQuiet
    <3>2. CASE call' = [call EXCEPT ![t] =
                          [op |-> "dequeueReturn", slot |-> call[t].slot,
                           flags |-> call[t].flags]]
      BY <2>1, <3>2, NewCall
    <3> QED
      BY <1>4, <3>1, <3>2 DEF DequeueAllocate
  <2>3. QuietSlots
    BY <1>4, SameSlots, OpenSlotsQuiet DEF DequeueAllocate
  <2> QED
    BY <1>4, <2>2, <2>3, SameCore, SameSleep DEF DequeueAllocate, Quiet
<1>5. CASE DequeueReturn(t)
  BY <1>5, ReturnsQuiet, SameCore, SameSleep, SameSlots
  DEF DequeueReturn, Quiet
<1>6. CASE DetachNextBuffer(t)
  <2>1. QuietSlots
    BY <1>6, SameSlots, OpenSlotsQuiet DEF DetachNextBuffer
  <2>2. QuietCalls
    BY <1>6, ReturnsQuiet DEF DetachNextBuffer, Runs
  <2> QED
    BY <1>6, <2>1, <2>2, SameCore, SameSleep DEF DetachNextBuffer, Quiet
<1>7. CASE ProducerAttachBuffer(t)
  BY <1>7, AttachTurnQuiet DEF ProducerAttachBuffer, Runs
<1>8. CASE AttachRetry(t)
  BY <1>8, AttachTurnQuiet DEF AttachRetry
<1>9. CASE CallBackReleased(t)
  BY <1>9, ReturnsQuiet, SameCore, SameSleep, SameSlots
  DEF CallBackReleased, Quiet
<1>10. CASE ProducerDisconnect(t)
  <2>1. call[t].op # "allocating"
    BY <1>10 DEF ProducerDisconnect, Runs
  <2>2. QuietCore
    BY <1>10 DEF ProducerDisconnect, QuietCore, TypeOK, BufferQueueCore
  <2>3. QuietCalls
    <3>1. CASE Returns(t)
      BY <2>1, <3>1, ReturnsQuiet
    <3>2. CASE call' = [call EXCEPT ![t] =
                          IF mCore.mConsumerListener
                          THEN [op |-> "onBuffersReleased"] ELSE Idle]
      BY <2>1, <3>2 DEF QuietCalls, TypeOK, Idle
    <3> QED
      BY <1>10, <3>1, <3>2 DEF ProducerDisconnect
  <2>4. QuietSleep
    BY <1>10, BroadcastQuiet, SameSleep DEF ProducerDisconnect
  <2>5. QuietSlots
    BY <1>10, FreedQuiet, SameSlots DEF ProducerDisconnect, FreeAllBuffers
  <2> QED
    BY <1>10, <2>2, <2>3, <2>4, <2>5 DEF ProducerDisconnect, Quiet
<1> QED
  BY <1>1, <1>2, <1>3, <1>4, <1>5, <1>6, <1>7, <1>8, <1>9, <1>10
  DEF ProducerStep

\* Consumer calls other than acquireBuffer and disconnect are quiet.
LEMMA ConsumerCallQuiet ==
    ASSUME TypeOK, ConsumerCall, ~ConsumerDisconnect,
           ~\E expectedPresent \in PresentTimes :
               AcquireBuffer(expectedPresent)
    PROVE  Quiet
<1> USE DEF threads, consumer, clients
<1>1. ASSUME NEW item \in consumerItems, ConsumerDetachBuffer(item)
      PROVE  Quiet
  BY <1>1, SameCore, SameCalls, BroadcastQuiet, OpenSlotsQuiet
  DEF ConsumerDetachBuffer, Quiet
<1>2. ASSUME NEW item \in consumerItems, ReleaseBuffer(item)
      PROVE  Quiet
  <2>1. item.slot \in Slots
    BY DEF TypeOK, ConsumerItem
  <2>2. ~HeldByProducer(Released(mSlots[item.slot]))
    <3>1. mSlots[item.slot] \in BufferSlot
      BY <2>1 DEF TypeOK
    <3> QED
      BY <3>1 DEF HeldByProducer, Released, BufferSlot
  <2>3. QuietSlots
    BY <1>2, <2>1, <2>2, OneSlotQuiet DEF ReleaseBuffer
  <2> QED
    BY <1>2, <2>3, SameCore, SameCalls, BroadcastQuiet
    DEF ReleaseBuffer, WakeDequeuers, Quiet
<1>3. ASSUME NEW item \in consumerItems, ReleaseStaleBuffer(item)
      PROVE  Quiet
  <2> DEFINE slot == [mSlots[item.slot]
                EXCEPT !.mNeedsCleanupOnRelease = FALSE]
  <2>1. item.slot \in Slots
    BY DEF TypeOK, ConsumerItem
  <2>2. HeldByProducer(slot) => HeldByProducer(mSlots[item.slot])
    <3>1. mSlots[item.slot] \in BufferSlot
      BY <2>1 DEF TypeOK
    <3> QED
      BY <3>1 DEF HeldByProducer, BufferSlot
  <2>3. QuietSlots
    <3>1. mSlots' = mSlots \/ mSlots' = [mSlots EXCEPT ![item.slot] = slot]
      BY <1>3 DEF ReleaseStaleBuffer
    <3> HIDE DEF slot
    <3> QED
      BY <2>1, <2>2, <3>1, OneSlotQuiet, SameSlots
  <2> QED
    BY <1>3, <2>3, SameCore, SameCalls, SameSleep
    DEF ReleaseStaleBuffer, Quiet
<1>4. ASSUME NEW b \in Attachable, ConsumerAttachBuffer(b)
      PROVE  Quiet
  <2>1. b \in Buffers
    BY DEF Attachable, Unreferenced, TypeOK
  <2>2. PICK s \in Slots :
          mSlots' = [mSlots EXCEPT ![s] = AttachedAcquired(@, b)]
    BY <1>4 DEF ConsumerAttachBuffer
  <2>3. ~HeldByProducer(AttachedAcquired(mSlots[s], b))
    <3>1. mSlots[s] \in BufferSlot
      BY DEF TypeOK
    <3> QED
      BY <2>1, <3>1 DEF HeldByProducer, AttachedAcquired, BufferSlot
  <2>4. QuietSlots
    BY <2>2, <2>3, OneSlotQuiet
  <2> QED
    BY <1>4, <2>4, SameCore, SameCalls, SameSleep
    DEF ConsumerAttachBuffer, Quiet
<1>5. ASSUME NEW byApp \in AppControlled, ConsumerConnect(byApp)
      PROVE  Quiet
  <2>1. QuietCore
    BY <1>5 DEF ConsumerConnect, QuietCore, TypeOK, BufferQueueCore
  <2> QED
    BY <1>5, <2>1, SameCalls, SameSleep, SameSlots DEF ConsumerConnect, Quiet
<1>6. ASSUME NEW size \in Sizes, SetDefaultBufferSize(size)
      PROVE  Quiet
  <2>1. QuietCore
    BY <1>6 DEF SetDefaultBufferSize, QuietCore, TypeOK, BufferQueueCore
  <2> QED
    BY <1>6, <2>1, SameCalls, SameSleep, SameSlots
    DEF SetDefaultBufferSize, Quiet
<1>7. ASSUME NEW format \in Formats, SetDefaultBufferFormat(format)
      PROVE  Quiet
  <2>1. QuietCore
    BY <1>7 DEF SetDefaultBufferFormat, QuietCore, TypeOK, BufferQueueCore
  <2> QED
    BY <1>7, <2>1, SameCalls, SameSleep, SameSlots
    DEF SetDefaultBufferFormat, Quiet
<1>8. ASSUME NEW usage \in SUBSET UsageBits, SetConsumerUsageBits(usage)
      PROVE  Quiet
  <2>1. QuietCore
    BY <1>8 DEF SetConsumerUsageBits, QuietCore, TypeOK, BufferQueueCore
  <2> QED
    BY <1>8, <2>1, SameCalls, SameSleep, SameSlots
    DEF SetConsumerUsageBits, Quiet
<1>9. ASSUME NEW n \in 1..NUM_BUFFER_SLOTS, SetDefaultMaxBufferCount(n)
      PROVE  Quiet
  <2>1. QuietCore
    BY <1>9 DEF SetDefaultMaxBufferCount, QuietCore, TypeOK, BufferQueueCore
  <2> QED
    BY <1>9, <2>1, SameCalls, BroadcastQuiet, SameSlots
    DEF SetDefaultMaxBufferCount, Quiet
<1>10. CASE DisableAsyncBuffer
  <2>1. QuietCore
    BY <1>10 DEF DisableAsyncBuffer, QuietCore, TypeOK, BufferQueueCore
  <2> QED
    BY <1>10, <2>1, SameCalls, SameSleep, SameSlots
    DEF DisableAsyncBuffer, Quiet
<1>11. ASSUME NEW n \in 1..MAX_MAX_ACQUIRED_BUFFERS,
              SetMaxAcquiredBufferCount(n)
       PROVE  Quiet
  <2>1. QuietCore
    BY <1>11 DEF SetMaxAcquiredBufferCount, QuietCore, TypeOK, BufferQueueCore
  <2> QED
    BY <1>11, <2>1, SameCalls, SameSleep, SameSlots
    DEF SetMaxAcquiredBufferCount, Quiet
<1> QED
  BY <1>1, <1>2, <1>3, <1>4, <1>5, <1>6, <1>7, <1>8, <1>9, <1>10, <1>11
  DEF ConsumerCall

\* The steps that queue, announce or deliver frames, begin or end an
\* allocation of allocateBuffers, wait for one, or abandon the queue.
LoudStep ==
    \/ \E t \in Threads :
          \/ \E s \in Slots, async \in AsyncModes, stamp \in Stamps :
                QueueBuffer(t, s, async, stamp)
          \/ CallBack(t)
          \/ WaitWhileAllocating(t)
          \/ AllocateBuffers(t)
          \/ AllocateBuffersCommit(t)
    \/ \E expectedPresent \in PresentTimes : AcquireBuffer(expectedPresent)
    \/ ConsumerDisconnect

\* Every step of a BufferQueue is loud or quiet.
LEMMA QuietStep ==
    ASSUME TypeOK, [Next]_vars
    PROVE  LoudStep \/ Quiet
<1> USE DEF threads, consumer, clients
<1>1. ASSUME NEW t \in Threads, ProducerCall(t) \/ ProducerStep(t)
      PROVE  LoudStep \/ Quiet
  BY <1>1, ProducerCallQuiet, ProducerStepQuiet DEF LoudStep
<1>2. ASSUME NEW t \in Threads, BinderDied(t)
      PROVE  Quiet
  <2>1. call[t].op # "allocating"
    BY <1>2 DEF BinderDied, IsIdle, Idle
  <2>2. QuietCalls
    BY <1>2, <2>1, NewCall DEF BinderDied
  <2> QED
    BY <1>2, <2>2, SameCore, SameSleep, SameSlots DEF BinderDied, Quiet
<1>3. CASE ConsumerCall
  BY <1>3, ConsumerCallQuiet DEF LoudStep
<1>4. ASSUME NEW b \in clientBuffers, DropClientBuffer(b)
      PROVE  Quiet
  BY <1>4, SameCore, SameCalls, SameSleep, SameSlots
  DEF DropClientBuffer, Quiet
<1>5. ASSUME NEW on \in BOOLEAN, SetVRMode(on)
      PROVE  Quiet
  BY <1>5, SameCore, SameCalls, SameSleep, SameSlots DEF SetVRMode, Quiet
<1>6. CASE UNCHANGED vars
  BY <1>6, SameCore, SameCalls, SameSleep, SameSlots DEF vars, Quiet
<1> QED
  BY <1>1, <1>2, <1>3, <1>4, <1>5, <1>6 DEF Next

-----------------------------------------------------------------------------
(* The invariants *)

\* A step that neither queues a frame nor serves a ticket keeps Tickets.
LEMMA TicketsKept ==
    ASSUME TypeOK, Tickets, UNCHANGED callbacks,
           mCore'.mFrameCounter = mCore.mFrameCounter,
           \A t \in Threads : call'[t] = call[t] \/ call'[t].op # "onFrame"
    PROVE  Tickets'
BY DEF Tickets

\* The two locked halves of allocateBuffers leave alone the FIFO, the
\* callbacks, the modes of the core and all other threads, and do not end in a
\* callback.
LEMMA AllocateFrame ==
    ASSUME TypeOK, NEW t \in Threads,
           AllocateBuffers(t) \/ AllocateBuffersCommit(t)
    PROVE  /\ mCore'.mFrameCounter = mCore.mFrameCounter
           /\ mCore'.mIsAbandoned = mCore.mIsAbandoned
           /\ mCore'.mConsumerListener = mCore.mConsumerListener
           /\ mCore'.mDequeueBufferCannotBlock =
                 mCore.mDequeueBufferCannotBlock
           /\ mCore'.mConsumerControlledByApp = mCore.mConsumerControlledByApp
           /\ \A u \in Threads \ {t} : call'[u] = call[u]
           /\ call'[t].op # "onFrame"
           /\ UNCHANGED <<mQueue, callbacks, lastAcquired>>
<1>1. CASE AllocateBuffers(t)
  <2>1. \/ UNCHANGED mCore
        \/ mCore' = [mCore EXCEPT !.mIsAllocating = TRUE]
    BY <1>1 DEF AllocateBuffers
  <2>2. \/ Returns(t)
        \/ \E slots, attr :
             call' = [call EXCEPT ![t] =
               [op |-> "allocating", async |-> call[t].async,
                req |-> call[t].req, slots |-> slots, attr |-> attr]]
    BY <1>1 DEF AllocateBuffers
  <2>3. /\ \A u \in Threads \ {t} : call'[u] = call[u]
        /\ call'[t].op # "onFrame"
    BY <2>2 DEF Returns, Idle, TypeOK
  <2> QED
    BY <1>1, <2>1, <2>3 DEF AllocateBuffers, TypeOK, BufferQueueCore,
       clients, consumer
<1>2. CASE AllocateBuffersCommit(t)
  <2>1. mCore' = [mCore EXCEPT !.mIsAllocating = FALSE]
    BY <1>2 DEF AllocateBuffersCommit
  <2>2. \/ Returns(t)
        \/ call' = [call EXCEPT ![t] =
              [op |-> "allocateBuffers", async |-> call[t].async,
               req |-> call[t].req]]
    BY <1>2 DEF AllocateBuffersCommit
  <2>3. /\ \A u \in Threads \ {t} : call'[u] = call[u]
        /\ call'[t].op # "onFrame"
    BY <2>2 DEF Returns, Idle, TypeOK
  <2> QED
    BY <1>2, <2>1, <2>3 DEF AllocateBuffersCommit, TypeOK, BufferQueueCore,
       consumer
<1> QED
  BY <1>1, <1>2

\* Every step keeps the count of tickets: queueBuffer draws a ticket for each
\* frame it numbers under the same lock, and serves them one by one.
LEMMA TicketsStep ==
    ASSUME TypeOK, Tickets, [Next]_vars
    PROVE  Tickets'
<1>1. CASE Quiet
  BY <1>1, TicketsKept DEF Quiet, QuietCore, QuietCalls
<1>2. ASSUME NEW t \in Threads, NEW s \in Slots, NEW async \in AsyncModes,
             NEW stamp \in Stamps, QueueBuffer(t, s, async, stamp)
      PROVE  Tickets'
  <2> DEFINE n == callbacks.mNextCallbackTicket
  <2>1. /\ mCore'.mFrameCounter = mCore.mFrameCounter + 1
        /\ callbacks' = [callbacks EXCEPT !.mNextCallbackTicket = n + 1]
    BY <1>2 DEF QueueBuffer, TypeOK, BufferQueueCore
  <2>2. /\ \A u \in Threads \ {t} : call'[u] = call[u]
        /\ call'[t].ticket = n
        /\ call'[t].frame = n + 1
    BY <1>2 DEF QueueBuffer, TypeOK, Tickets
  <2>3. callbacks \in CallbackState
    BY DEF TypeOK
  <2>4. /\ callbacks'.mNextCallbackTicket = n + 1
        /\ callbacks'.mCurrentCallbackTicket =
              callbacks.mCurrentCallbackTicket
        /\ callbacks'.announced = callbacks.announced
    BY <2>1, <2>3 DEF CallbackState
  <2>5. \A u \in Threads : call[u].op = "onFrame" => call[u].ticket \in Nat
    BY CallType
  <2>6. n \in Nat /\ callbacks.mCurrentCallbackTicket \in Nat
    BY <2>3 DEF CallbackState
  <2> HIDE DEF n
  <2> QED
    BY <2>1, <2>2, <2>4, <2>5, <2>6 DEF Tickets, n
<1>3. ASSUME NEW t \in Threads, CallBack(t)
      PROVE  Tickets'
  <2> DEFINE m == callbacks.mCurrentCallbackTicket
  <2>1. call[t].op = "onFrame" /\ call[t].ticket = m
    BY <1>3 DEF CallBack, IsServed
  <2>2. /\ \A u \in Threads \ {t} : call'[u] = call[u]
        /\ call'[t].op = "idle"
    BY <1>3 DEF CallBack, Returns, Idle, TypeOK
  <2>3. callbacks \in CallbackState /\ mCore' = mCore
    BY <1>3 DEF TypeOK, CallBack
  <2>4. /\ callbacks'.mNextCallbackTicket = callbacks.mNextCallbackTicket
        /\ callbacks'.mCurrentCallbackTicket = m + 1
        /\ \/ callbacks'.announced = callbacks.announced
           \/ callbacks'.announced = call[t].frame
    BY <1>3, <2>3 DEF CallBack, CallbackState
  <2>5. \A u \in Threads : call[u].op = "onFrame" => call[u].ticket \in Nat
    BY CallType
  <2>6. /\ m \in Nat
        /\ callbacks.announced \in Nat
        /\ callbacks.mNextCallbackTicket \in Nat
    BY <2>3 DEF CallbackState
  <2> QED
    BY <2>1, <2>2, <2>3, <2>4, <2>5, <2>6 DEF Tickets
<1>4. ASSUME NEW t \in Threads, WaitWhileAllocating(t)
      PROVE  Tickets'
  BY <1>4, TicketsKept DEF WaitWhileAllocating
<1>5. ASSUME NEW t \in Threads, AllocateBuffers(t) \/ AllocateBuffersCommit(t)
      PROVE  Tickets'
  BY <1>5, AllocateFrame, TicketsKept
<1>6. ASSUME NEW expectedPresent \in PresentTimes,
             AcquireBuffer(expectedPresent)
      PROVE  Tickets'
  BY <1>6, TicketsKept DEF AcquireBuffer
<1>7. CASE ConsumerDisconnect
  <2>1. mCore'.mFrameCounter = mCore.mFrameCounter
    BY <1>7 DEF ConsumerDisconnect, TypeOK, BufferQueueCore
  <2> QED
    BY <1>7, <2>1, TicketsKept DEF ConsumerDisconnect
<1> QED
  BY <1>1, <1>2, <1>3, <1>4, <1>5, <1>6, <1>7, QuietStep DEF LoudStep

\* The inductive invariant of the specification: the types together with the
\* count of tickets.
LEMMA TicketsInductive == Spec => [](TypeOK /\ Tickets)
<1>1. Init => TypeOK /\ Tickets
  <2>1. Init => Tickets
    BY DEF Init, Tickets, Idle
  <2> QED
    BY <2>1, InitTypeOK
<1>2. TypeOK /\ Tickets /\ [Next]_vars => (TypeOK /\ Tickets)'
  BY TypeOKStep, TicketsStep
<1> QED
  BY <1>1, <1>2, PTL DEF Spec

\* In every reachable state of a BufferQueue the slots, the FIFO, the core,
\* and the locals of every suspended producer call have their types; in
\* particular frame numbers and buffer counts stay within the limits the code
\* sets for them.
THEOREM TypeCorrect == Spec => []TypeOK
BY TicketsInductive, PTL

\* The step form of CallbacksInOrder: only the thread whose ticket is served
\* calls the consumer back, and its frame is newer than those announced
\* before.
LEMMA AnnouncedStep ==
    ASSUME TypeOK, Tickets, [Next]_vars
    PROVE  callbacks'.announced >= callbacks.announced
<1>0. callbacks \in CallbackState
  BY DEF TypeOK
<1>1. CASE UNCHANGED callbacks
  BY <1>0, <1>1 DEF CallbackState
<1>2. ASSUME NEW t \in Threads, NEW s \in Slots, NEW async \in AsyncModes,
             NEW stamp \in Stamps, QueueBuffer(t, s, async, stamp)
      PROVE  callbacks'.announced >= callbacks.announced
  BY <1>0, <1>2 DEF QueueBuffer, CallbackState
<1>3. ASSUME NEW t \in Threads, CallBack(t)
      PROVE  callbacks'.announced >= callbacks.announced
  <2>1. \/ callbacks'.announced = callbacks.announced
        \/ callbacks'.announced = call[t].frame
    BY <1>0, <1>3 DEF CallBack, CallbackState
  <2>2. call[t].frame = callbacks.mCurrentCallbackTicket + 1
    BY <1>3 DEF CallBack, IsServed, Tickets
  <2> QED
    BY <1>0, <2>1, <2>2 DEF Tickets, CallbackState
<1>4. LoudStep => \/ UNCHANGED callbacks
                  \/ \E t \in Threads :
                       \/ \E s \in Slots, async \in AsyncModes,
                             stamp \in Stamps :
                             QueueBuffer(t, s, async, stamp)
                       \/ CallBack(t)
  BY DEF LoudStep, WaitWhileAllocating, AllocateBuffers,
     AllocateBuffersCommit, AcquireBuffer, ConsumerDisconnect
<1> QED
  BY <1>1, <1>2, <1>3, <1>4, QuietStep DEF Quiet

\* The consumer's listener hears of frames in the order they were queued,
\* although queueBuffer calls it back without mMutex: the tickets order the
\* callbacks of any number of threads.
THEOREM CallbacksInOrder == Spec => AnnouncedInOrder
<1>1. TypeOK /\ Tickets /\ [Next]_vars
        => [callbacks'.announced >= callbacks.announced]_callbacks
  BY AnnouncedStep
<1> QED
  BY <1>1, TicketsInductive, PTL DEF Spec, AnnouncedInOrder

\* Every step keeps OneAllocator.
LEMMA OneAllocatorStep ==
    ASSUME TypeOK, OneAllocator, [Next]_vars
    PROVE  OneAllocator'
<1>1. CASE Quiet
  BY <1>1 DEF Quiet, QuietCore, QuietCalls, QuietSleep, OneAllocator
<1>2. ASSUME NEW t \in Threads, NEW s \in Slots, NEW async \in AsyncModes,
             NEW stamp \in Stamps, QueueBuffer(t, s, async, stamp)
      PROVE  OneAllocator'
  <2>1. mCore'.mIsAllocating = mCore.mIsAllocating
    BY <1>2 DEF QueueBuffer, TypeOK, BufferQueueCore
  <2>2. /\ \A u \in Threads \ {t} : call'[u] = call[u]
        /\ call'[t].op = "onFrame" /\ call[t].op = "idle"
    BY <1>2 DEF QueueBuffer, IsIdle, Idle, TypeOK
  <2>3. QuietSleep
    BY <1>2, BroadcastQuiet DEF QueueBuffer
  <2> QED
    BY <2>1, <2>2, <2>3 DEF OneAllocator, QuietSleep
<1>3. ASSUME NEW t \in Threads, CallBack(t)
      PROVE  OneAllocator'
  <2>1. /\ \A u \in Threads \ {t} : call'[u] = call[u]
        /\ call'[t].op = "idle" /\ call[t].op = "onFrame"
        /\ UNCHANGED <<mCore, sleeping>>
    BY <1>3 DEF CallBack, Returns, Idle, TypeOK
  <2> QED
    BY <2>1 DEF OneAllocator
<1>4. ASSUME NEW t \in Threads, WaitWhileAllocating(t)
      PROVE  OneAllocator'
  BY <1>4 DEF WaitWhileAllocating, OneAllocator, TypeOK
<1>5. ASSUME NEW t \in Threads, AllocateBuffers(t)
      PROVE  OneAllocator'
  <2>1. ~mCore.mIsAllocating /\ call[t].op = "allocateBuffers"
    BY <1>5 DEF AllocateBuffers, Runs
  <2>2. \A u \in Threads \ {t} : call'[u] = call[u]
    BY <1>5, AllocateFrame
  <2>3. \/ UNCHANGED mCore /\ call'[t].op = "idle"
        \/ mCore'.mIsAllocating /\ call'[t].op = "allocating"
    <3>1. \/ UNCHANGED mCore /\ Returns(t)
          \/ /\ mCore' = [mCore EXCEPT !.mIsAllocating = TRUE]
             /\ \E slots, attr :
                  call' = [call EXCEPT ![t] =
                    [op |-> "allocating", async |-> call[t].async,
                     req |-> call[t].req, slots |-> slots, attr |-> attr]]
      BY <1>5 DEF AllocateBuffers
    <3> QED
      BY <3>1 DEF Returns, Idle, TypeOK, BufferQueueCore
  <2>4. UNCHANGED sleeping
    BY <1>5 DEF AllocateBuffers
  <2> QED
    BY <2>1, <2>2, <2>3, <2>4 DEF OneAllocator
<1>6. ASSUME NEW t \in Threads, AllocateBuffersCommit(t)
      PROVE  OneAllocator'
  <2>1. call[t].op = "allocating"
    BY <1>6 DEF AllocateBuffersCommit
  <2>2. \A u \in Threads \ {t} : call'[u] = call[u]
    BY <1>6, AllocateFrame
  <2>3. ~mCore'.mIsAllocating
    BY <1>6 DEF AllocateBuffersCommit, TypeOK, BufferQueueCore
  <2>4. call'[t].op \in {"idle", "allocateBuffers"}
    <3>1. \/ Returns(t)
          \/ call' = [call EXCEPT ![t] =
                [op |-> "allocateBuffers", async |-> call[t].async,
                 req |-> call[t].req]]
      BY <1>6 DEF AllocateBuffersCommit
    <3> QED
      BY <3>1 DEF Returns, Idle, TypeOK
  <2>5. \A u \in Threads : sleeping'[u] # "mIsAllocatingCondition"
    BY <1>6 DEF AllocateBuffersCommit, Broadcast, TypeOK
  <2> QED
    BY <2>1, <2>2, <2>3, <2>4, <2>5 DEF OneAllocator
<1>7. ASSUME NEW expectedPresent \in PresentTimes,
             AcquireBuffer(expectedPresent)
      PROVE  OneAllocator'
  BY <1>7, BroadcastQuiet DEF AcquireBuffer, OneAllocator, QuietSleep
<1>8. CASE ConsumerDisconnect
  <2>1. mCore'.mIsAllocating = mCore.mIsAllocating
    BY <1>8 DEF ConsumerDisconnect, TypeOK, BufferQueueCore
  <2> QED
    BY <1>8, <2>1, BroadcastQuiet
    DEF ConsumerDisconnect, OneAllocator, QuietSleep
<1> QED
  BY <1>1, <1>2, <1>3, <1>4, <1>5, <1>6, <1>7, <1>8, QuietStep DEF LoudStep

\* mIsAllocating is set exactly while one thread allocates in allocateBuffers,
\* no two threads do at once, and nobody sleeps on mIsAllocatingCondition
\* while no allocation is going on.
THEOREM AllocationExclusive == Spec => []OneAllocator
<1>1. Init => OneAllocator
  BY DEF Init, OneAllocator, Idle
<1>2. TypeOK /\ OneAllocator /\ [Next]_vars => OneAllocator'
  BY OneAllocatorStep
<1> QED
  BY <1>1, <1>2, TypeCorrect, PTL DEF Spec

\* Only queueBuffer, acquireBuffer and the consumer's disconnect change the
\* FIFO, the frame counter or the frame acquired last.
LEMMA QuietQueueStep ==
    ASSUME TypeOK, [Next]_vars
    PROVE  \/ /\ UNCHANGED <<mQueue, lastAcquired>>
              /\ mCore'.mFrameCounter = mCore.mFrameCounter
           \/ \E t \in Threads, s \in Slots, async \in AsyncModes,
                 stamp \in Stamps : QueueBuffer(t, s, async, stamp)
           \/ \E expectedPresent \in PresentTimes :
                 AcquireBuffer(expectedPresent)
           \/ ConsumerDisconnect
<1>1. ASSUME NEW t \in Threads, CallBack(t) \/ WaitWhileAllocating(t)
      PROVE  UNCHANGED <<mQueue, lastAcquired, mCore>>
  BY <1>1 DEF CallBack, WaitWhileAllocating, clients, consumer
<1> QED
  BY <1>1, AllocateFrame, QuietStep DEF LoudStep, Quiet, QuietCore

\* Every step keeps QueueTailOrdered: queueBuffer appends the newest frame or
\* replaces the front, acquireBuffer removes a prefix.
LEMMA QueueTailOrderedStep ==
    ASSUME TypeOK, QueueTailOrdered, [Next]_vars
    PROVE  QueueTailOrdered'
<1>0. /\ \A i \in 1..Len(mQueue) : Frame(i) \in Int
      /\ mCore.mFrameCounter \in Int
      /\ Len(mQueue) \in Nat
  <2>1. \A i \in 1..Len(mQueue) : mQueue[i] \in BufferItem
    BY DEF TypeOK
  <2>2. \A i \in 1..Len(mQueue) : Frame(i) \in Int
    BY <2>1 DEF Frame, BufferItem
  <2>3. mCore.mFrameCounter \in Int
    BY DEF TypeOK, BufferQueueCore
  <2> QED
    BY <2>2, <2>3 DEF TypeOK
<1>1. CASE UNCHANGED mQueue /\ mCore'.mFrameCounter = mCore.mFrameCounter
  BY <1>1 DEF QueueTailOrdered, Frame
<1>2. ASSUME NEW t \in Threads, NEW s \in Slots, NEW async \in AsyncModes,
             NEW stamp \in Stamps, QueueBuffer(t, s, async, stamp)
      PROVE  QueueTailOrdered'
  <2>1. PICK item : /\ mQueue' = Enqueue(item)
                    /\ item.mFrameNumber = mCore.mFrameCounter + 1
    BY <1>2 DEF QueueBuffer
  <2>2. mCore'.mFrameCounter = mCore.mFrameCounter + 1
    BY <1>2 DEF QueueBuffer, TypeOK, BufferQueueCore
  <2>3. CASE Replaces
    <3>1. /\ Len(mQueue') = Len(mQueue)
          /\ \A i \in 1..Len(mQueue) :
               mQueue'[i] = IF i = 1 THEN item ELSE mQueue[i]
      BY <2>1, <2>3 DEF Enqueue, TypeOK
    <3>2. \A i \in 1..Len(mQueue) :
            Frame(i)' = IF i = 1 THEN mCore.mFrameCounter + 1 ELSE Frame(i)
      BY <2>1, <3>1 DEF Frame
    <3> HIDE DEF Frame
    <3>3. \A i \in 1..Len(mQueue') : Frame(i)' <= mCore'.mFrameCounter
      BY <1>0, <2>2, <3>1, <3>2 DEF QueueTailOrdered
    <3>4. \A i, j \in 1..Len(mQueue') :
            i < j => Frame(i)' # Frame(j)' /\ (i > 1 => Frame(i)' < Frame(j)')
      BY <1>0, <3>1, <3>2, SMTT(60) DEF QueueTailOrdered
    <3> QED
      BY <3>3, <3>4 DEF QueueTailOrdered
  <2>4. CASE ~Replaces
    <3>1. /\ Len(mQueue') = Len(mQueue) + 1
          /\ \A i \in 1..Len(mQueue) : mQueue'[i] = mQueue[i]
          /\ mQueue'[Len(mQueue) + 1] = item
      BY <2>1, <2>4 DEF Enqueue, TypeOK
    <3>2. \A i \in 1..Len(mQueue') :
            Frame(i)' = IF i = Len(mQueue) + 1
                        THEN mCore.mFrameCounter + 1 ELSE Frame(i)
      <4>1. \A i \in 1..Len(mQueue') :
              i \in 1..Len(mQueue) \/ i = Len(mQueue) + 1
        BY <1>0, <3>1
      <4>2. \A i \in 1..Len(mQueue) : i # Len(mQueue) + 1
        BY <1>0
      <4> QED
        BY <2>1, <3>1, <4>1, <4>2 DEF Frame
    <3> HIDE DEF Frame
    <3>3. \A i \in 1..Len(mQueue') : Frame(i)' <= mCore'.mFrameCounter
      BY <1>0, <2>2, <3>1, <3>2 DEF QueueTailOrdered
    <3>4. \A i, j \in 1..Len(mQueue') :
            i < j => Frame(i)' # Frame(j)' /\ (i > 1 => Frame(i)' < Frame(j)')
      BY <1>0, <3>1, <3>2, SMTT(60) DEF QueueTailOrdered
    <3> QED
      BY <3>3, <3>4 DEF QueueTailOrdered
  <2> QED
    BY <2>3, <2>4
<1>3. ASSUME NEW expectedPresent \in PresentTimes,
             AcquireBuffer(expectedPresent)
      PROVE  QueueTailOrdered'
  <2>1. PICK n \in 1..Len(mQueue) :
          mQueue' = SubSeq(mQueue, n + 1, Len(mQueue))
    BY <1>3 DEF AcquireBuffer
  <2>2. mCore' = mCore
    BY <1>3 DEF AcquireBuffer
  <2>3. /\ Len(mQueue') = Len(mQueue) - n
        /\ \A i \in 1..(Len(mQueue) - n) : mQueue'[i] = mQueue[n + i]
    BY <1>0, <2>1 DEF TypeOK
  <2>4. \A i \in 1..Len(mQueue') :
          n + i \in 1..Len(mQueue) /\ n + i > 1 /\ Frame(i)' = Frame(n + i)
    BY <1>0, <2>3 DEF Frame
  <2>5. \A i, j \in 1..Len(mQueue') :
          i < j => Frame(i)' < Frame(j)'
    BY <1>0, <2>3, <2>4 DEF QueueTailOrdered
  <2>6. \A i \in 1..Len(mQueue') :
          Frame(i)' \in Int /\ Frame(i)' <= mCore'.mFrameCounter
    BY <1>0, <2>2, <2>4 DEF QueueTailOrdered
  <2> QED
    BY <2>5, <2>6 DEF QueueTailOrdered
<1>4. CASE ConsumerDisconnect
  <2>1. mQueue' = <<>>
    BY <1>4 DEF ConsumerDisconnect
  <2> QED
    BY <2>1 DEF QueueTailOrdered, Frame
<1> QED
  BY <1>1, <1>2, <1>3, <1>4, QuietQueueStep

\* Behind the front, the frames in the FIFO of a BufferQueue are in the order
\* they were queued, whatever mix of synchronous and asynchronous calls put
\* them there; only the front may be newer than frames behind it, because
\* queueBuffer replaces it in place.
THEOREM FifoOrdered == Spec => []QueueTailOrdered
<1>1. Init => QueueTailOrdered
  BY DEF Init, QueueTailOrdered, Frame
<1>2. TypeOK /\ QueueTailOrdered /\ [Next]_vars => QueueTailOrdered'
  BY QueueTailOrderedStep
<1> QED
  BY <1>1, <1>2, TypeCorrect, PTL DEF Spec

\* Every step keeps AbandonedForGood.
LEMMA AbandonedStep ==
    ASSUME TypeOK, AbandonedForGood, [Next]_vars
    PROVE  AbandonedForGood'
<1> DEFINE open == ~mCore.mIsAbandoned
<1>0. AbandonedForGood <=>
        (mCore.mIsAbandoned =>
           /\ ~mCore.mConsumerListener
           /\ mQueue = <<>>
           /\ \A s \in Slots : ~HeldByProducer(mSlots[s]))
  BY DEF AbandonedForGood, InState, HeldByProducer
<1>1. CASE Quiet
  BY <1>0, <1>1
  DEF Quiet, QuietCore, QuietSlots, AbandonedForGood, InState, HeldByProducer
<1>2. ASSUME NEW t \in Threads, NEW s \in Slots, NEW async \in AsyncModes,
             NEW stamp \in Stamps, QueueBuffer(t, s, async, stamp)
      PROVE  AbandonedForGood'
  BY <1>2
  DEF QueueBuffer, MayQueue, AbandonedForGood, TypeOK, BufferQueueCore
<1>3. ASSUME NEW t \in Threads, CallBack(t) \/ WaitWhileAllocating(t)
      PROVE  AbandonedForGood'
  BY <1>3 DEF CallBack, WaitWhileAllocating, AbandonedForGood, InState
<1>4. ASSUME NEW t \in Threads, AllocateBuffers(t)
      PROVE  AbandonedForGood'
  <2>1. UNCHANGED mSlots
    BY <1>4 DEF AllocateBuffers
  <2> QED
    BY <1>4, <2>1, AllocateFrame DEF AbandonedForGood, InState
<1>5. ASSUME NEW t \in Threads, AllocateBuffersCommit(t)
      PROVE  AbandonedForGood'
  <2>1. ASSUME NEW s \in Slots, HeldByProducer(mSlots'[s])
        PROVE  HeldByProducer(mSlots[s])
    <3> DEFINE filled == call[t].slots \cap InState("FREE")
    <3>1. \/ UNCHANGED mSlots
          \/ \E f : mSlots' = [r \in Slots |->
                                 IF r \in filled
                                 THEN [Freed(mSlots[r]) EXCEPT
                                         !.mGraphicBuffer = f[r]]
                                 ELSE mSlots[r]]
      BY <1>5 DEF AllocateBuffersCommit
    <3>2. Freed(mSlots[s]) \in BufferSlot /\ ~HeldByProducer(Freed(mSlots[s]))
      BY FreedType, FreedNotHeld DEF TypeOK
    <3>3. ASSUME NEW b
          PROVE  ~HeldByProducer([Freed(mSlots[s]) EXCEPT
                                    !.mGraphicBuffer = b])
      BY <3>2 DEF HeldByProducer, BufferSlot
    <3> HIDE DEF filled
    <3> QED
      BY <2>1, <3>1, <3>3
  <2> QED
    BY <1>0, <1>5, <2>1, AllocateFrame
    DEF AbandonedForGood, InState, HeldByProducer
<1>6. ASSUME NEW expectedPresent \in PresentTimes,
             AcquireBuffer(expectedPresent)
      PROVE  AbandonedForGood'
  <2>1. mQueue # <<>> /\ UNCHANGED mCore
    BY <1>6 DEF AcquireBuffer
  <2> QED
    BY <2>1 DEF AbandonedForGood
<1>7. CASE ConsumerDisconnect
  <2>1. /\ ~mCore'.mConsumerListener
        /\ mQueue' = <<>>
    BY <1>7 DEF ConsumerDisconnect, TypeOK, BufferQueueCore
  <2>2. \A s \in Slots : ~HeldByProducer(mSlots'[s])
    BY <1>7, FreedNotHeld DEF ConsumerDisconnect, FreeAllBuffers, FreedAt,
       TypeOK
  <2> QED
    BY <2>1, <2>2 DEF AbandonedForGood, InState, HeldByProducer
<1> QED
  BY <1>1, <1>2, <1>3, <1>4, <1>5, <1>6, <1>7, QuietStep DEF LoudStep

\* Once the consumer has disconnected, the BufferQueue has no listener, an
\* empty FIFO and no slot in the producer's hands for good, also when producer
\* calls were asleep, allocating or waiting for a ticket at that moment.
THEOREM AbandonmentFinal == Spec => []AbandonedForGood
<1>1. Init => AbandonedForGood
  BY DEF Init, AbandonedForGood
<1>2. TypeOK /\ AbandonedForGood /\ [Next]_vars => AbandonedForGood'
  BY AbandonedStep
<1> QED
  BY <1>1, <1>2, TypeCorrect, PTL DEF Spec

-----------------------------------------------------------------------------
(* The stream of frames. A BufferQueue whose producer keeps to one mode      *)
(* implements FrameStream. With all calls asynchronous the FIFO never holds  *)
(* more than one frame, and with none of them asynchronous no frame is ever  *)
(* replaced; UniformQueue says so and is the inductive invariant of the      *)
(* proof. The assumption is needed: with the modes mixed an older frame can  *)
(* follow a newer one.                                                       *)

\* Every queueBuffer call is asynchronous.
AlwaysAsync == AsyncModes = {TRUE}

\* No queueBuffer call is asynchronous, and the consumer's end is not
\* controlled by the application, so that connect leaves the queue blocking.
NeverAsync == AsyncModes = {FALSE} /\ AppControlled = {FALSE}

\* All frames in the FIFO were queued in the same mode: in asynchronous mode
\* there is at most one and it may be replaced; in synchronous mode none may.
UniformQueue ==
    /\ AlwaysAsync =>
         /\ Len(mQueue) <= 1
         /\ \A i \in 1..Len(mQueue) : mQueue[i].mIsDroppable
    /\ NeverAsync =>
         /\ ~mCore.mDequeueBufferCannotBlock
         /\ ~mCore.mConsumerControlledByApp
         /\ \A i \in 1..Len(mQueue) : ~mQueue[i].mIsDroppable

\* The queue becomes non-blocking only where connect finds both ends
\* controlled by the application.
LEMMA QuietModeStep ==
    ASSUME TypeOK, [Next]_vars
    PROVE  /\ mCore'.mDequeueBufferCannotBlock =>
                \/ mCore.mDequeueBufferCannotBlock
                \/ mCore.mConsumerControlledByApp
           /\ mCore'.mConsumerControlledByApp =>
                mCore.mConsumerControlledByApp \/ TRUE \in AppControlled
<1>1. ASSUME NEW t \in Threads, NEW s \in Slots, NEW async \in AsyncModes,
             NEW stamp \in Stamps, QueueBuffer(t, s, async, stamp)
      PROVE  /\ mCore'.mDequeueBufferCannotBlock =
                   mCore.mDequeueBufferCannotBlock
             /\ mCore'.mConsumerControlledByApp =
                   mCore.mConsumerControlledByApp
  BY <1>1 DEF QueueBuffer, TypeOK, BufferQueueCore
<1>2. CASE ConsumerDisconnect
  BY <1>2 DEF ConsumerDisconnect, TypeOK, BufferQueueCore
<1>3. ASSUME NEW t \in Threads, CallBack(t) \/ WaitWhileAllocating(t)
      PROVE  UNCHANGED mCore
  BY <1>3 DEF CallBack, WaitWhileAllocating
<1>4. ASSUME NEW expectedPresent \in PresentTimes,
             AcquireBuffer(expectedPresent)
      PROVE  UNCHANGED mCore
  BY <1>4 DEF AcquireBuffer
<1> QED
  BY <1>1, <1>2, <1>3, <1>4, AllocateFrame, QuietStep
  DEF LoudStep, Quiet, QuietCore

\* Every step keeps UniformQueue: queueBuffer appends to an empty FIFO or
\* replaces its only frame in asynchronous mode, and only appends in
\* synchronous mode.
LEMMA UniformQueueStep ==
    ASSUME TypeOK, UniformQueue, [Next]_vars
    PROVE  UniformQueue'
<1>0. ASSUME NeverAsync
      PROVE  /\ ~mCore'.mDequeueBufferCannotBlock
             /\ ~mCore'.mConsumerControlledByApp
  BY <1>0, QuietModeStep DEF UniformQueue, NeverAsync
<1> DEFINE Items ==
      /\ AlwaysAsync =>
           /\ Len(mQueue) <= 1
           /\ \A i \in 1..Len(mQueue) : mQueue[i].mIsDroppable
      /\ NeverAsync => \A i \in 1..Len(mQueue) : ~mQueue[i].mIsDroppable
<1>1. Items
  BY DEF UniformQueue
<1>2. CASE UNCHANGED mQueue
  BY <1>0, <1>2 DEF UniformQueue
<1>3. ASSUME NEW t \in Threads, NEW s \in Slots, NEW async \in AsyncModes,
             NEW stamp \in Stamps, QueueBuffer(t, s, async, stamp)
      PROVE  Items'
  <2> DEFINE droppable == mCore.mDequeueBufferCannotBlock \/ async
             item == [mSlot |-> s,
                      mGraphicBuffer |-> mSlots[s].mGraphicBuffer,
                      mFrameNumber |-> mCore.mFrameCounter + 1,
                      mAcquireCalled |-> mSlots[s].mAcquireCalled,
                      mIsDroppable |-> droppable,
                      mTimestamp |-> stamp.time,
                      mIsAutoTimestamp |-> stamp.isAuto,
                      mFence |-> "producer"]
  <2>0. /\ AlwaysAsync => droppable
        /\ NeverAsync => ~droppable
    <3>1. (AlwaysAsync => async = TRUE) /\ (NeverAsync => async = FALSE)
      BY DEF AlwaysAsync, NeverAsync
    <3>2. NeverAsync => ~mCore.mDequeueBufferCannotBlock
      BY DEF UniformQueue
    <3> QED
      BY <3>1, <3>2, Zenon
  <2>1. mQueue' = Enqueue(item)
    BY <1>3 DEF QueueBuffer
  <2>2. /\ AlwaysAsync => item.mIsDroppable
        /\ NeverAsync => ~item.mIsDroppable
    <3> HIDE DEF droppable
    <3>1. item.mIsDroppable = droppable
      OBVIOUS
    <3> HIDE DEF item
    <3> QED
      BY <2>0, <3>1
  <2> HIDE DEF item
  <2>3. CASE Replaces
    <3>1. /\ Len(mQueue') = Len(mQueue)
          /\ \A i \in 1..Len(mQueue) :
               mQueue'[i] = IF i = 1 THEN item ELSE mQueue[i]
      BY <2>1, <2>3 DEF Enqueue, TypeOK
    <3> QED
      BY <1>1, <2>2, <3>1
  <2>4. CASE ~Replaces
    <3>1. /\ Len(mQueue') = Len(mQueue) + 1
          /\ \A i \in 1..Len(mQueue) : mQueue'[i] = mQueue[i]
          /\ mQueue'[Len(mQueue) + 1] = item
      BY <2>1, <2>4 DEF Enqueue, TypeOK
    <3>2. AlwaysAsync => Len(mQueue) = 0
      BY <1>1, <2>4 DEF Replaces, TypeOK
    <3>3. Len(mQueue) \in Nat
      BY DEF TypeOK
    <3> QED
      BY <1>1, <2>2, <3>1, <3>2, <3>3
  <2> QED
    BY <2>3, <2>4
<1>4. ASSUME NEW expectedPresent \in PresentTimes,
             AcquireBuffer(expectedPresent)
      PROVE  Items'
  <2>1. PICK n \in 1..Len(mQueue) :
          mQueue' = SubSeq(mQueue, n + 1, Len(mQueue))
    BY <1>4 DEF AcquireBuffer
  <2>2. /\ Len(mQueue') = Len(mQueue) - n
        /\ \A i \in 1..(Len(mQueue) - n) : mQueue'[i] = mQueue[n + i]
    BY <2>1, SMTT(60) DEF TypeOK
  <2>3. \A i \in 1..Len(mQueue') :
          n + i \in 1..Len(mQueue) /\ mQueue'[i] = mQueue[n + i]
    <3>1. Len(mQueue) \in Nat
      BY DEF TypeOK
    <3> QED
      BY <2>2, <3>1, SMTT(60)
  <2>4. Len(mQueue') <= Len(mQueue)
    <3>1. Len(mQueue) \in Nat
      BY DEF TypeOK
    <3> QED
      BY <2>2, <3>1
  <2> QED
    <3> DEFINE before == Len(mQueue)
               after == Len(mQueue')
    <3>1. before \in Nat /\ after \in Nat
      BY <2>2 DEF TypeOK
    <3>2. before <= 1 => after <= 1
      <4> HIDE DEF before, after
      <4>1. after <= before
        BY <2>4 DEF before, after
      <4> QED
        BY <3>1, <4>1
    <3> QED
      BY <1>1, <2>3, <3>2
<1>5. CASE ConsumerDisconnect
  <2>1. mQueue' = <<>>
    BY <1>5 DEF ConsumerDisconnect
  <2> QED
    BY <1>0, <2>1 DEF UniformQueue
<1> QED
  BY <1>0, <1>2, <1>3, <1>4, <1>5, QuietQueueStep DEF UniformQueue

\* The frame numbers in a FIFO.
FramesOf(q) == [i \in 1..Len(q) |-> q[i].mFrameNumber]

\* The frame numbers of a FIFO are a sequence of frame numbers.
LEMMA FramesOfSeq ==
    ASSUME NEW q \in Seq(BufferItem)
    PROVE  /\ FramesOf(q) \in Seq(Int)
           /\ Len(FramesOf(q)) = Len(q)
           /\ \A i \in 1..Len(q) : FramesOf(q)[i] = q[i].mFrameNumber
<1>1. \A i \in 1..Len(q) : q[i].mFrameNumber \in Int
  <2>1. \A i \in 1..Len(q) : q[i] \in BufferItem
    OBVIOUS
  <2> QED
    BY <2>1 DEF BufferItem
<1> QED
  BY <1>1 DEF FramesOf

\* Every step of the BufferQueue is a step of FrameStream or leaves the frames
\* alone: queueBuffer is Produce or Replace, acquireBuffer is Deliver, the
\* consumer's disconnect is Discard.
LEMMA StreamStep ==
    ASSUME AlwaysAsync \/ NeverAsync, TypeOK, TypeOK', UniformQueue,
           [Next]_vars
    PROVE  [Stream!Next]_(Stream!svars)
<1>0. /\ mQueue \in Seq(BufferItem) /\ mQueue' \in Seq(BufferItem)
      /\ Len(mQueue) \in Nat
  BY DEF TypeOK
<1>1. CASE /\ UNCHANGED <<mQueue, lastAcquired>>
           /\ mCore'.mFrameCounter = mCore.mFrameCounter
  BY <1>1 DEF Stream!svars
<1>2. ASSUME NEW t \in Threads, NEW s \in Slots, NEW async \in AsyncModes,
             NEW stamp \in Stamps, QueueBuffer(t, s, async, stamp)
      PROVE  Stream!Produce \/ Stream!Replace
  <2>1. PICK item : /\ mQueue' = Enqueue(item)
                    /\ item.mFrameNumber = mCore.mFrameCounter + 1
    BY <1>2 DEF QueueBuffer
  <2>2. /\ mCore'.mFrameCounter = mCore.mFrameCounter + 1
        /\ lastAcquired' = lastAcquired
    BY <1>2 DEF QueueBuffer, TypeOK, BufferQueueCore, consumer
  <2>3. CASE Replaces
    <3>1. Len(mQueue) = 1
      <4>1. Len(mQueue) >= 1 /\ mQueue[1].mIsDroppable
        BY <1>0, <2>3 DEF Replaces
      <4>2. ~NeverAsync
        BY <1>0, <4>1 DEF UniformQueue
      <4>3. Len(mQueue) <= 1
        BY <4>2 DEF UniformQueue
      <4> DEFINE len == Len(mQueue)
      <4>4. len \in Nat /\ len >= 1 /\ len <= 1
        BY <1>0, <4>1, <4>3
      <4> HIDE DEF len
      <4>5. len = 1
        BY <4>4
      <4> QED
        BY <4>5 DEF len
    <3>2. Len(mQueue') = 1 /\ mQueue'[1] = item
      BY <1>0, <2>1, <2>3, <3>1 DEF Enqueue
    <3>3. FramesOf(mQueue') = <<mCore.mFrameCounter + 1>>
      <4> DEFINE r == FramesOf(mQueue')
                 f == mCore.mFrameCounter + 1
      <4>1. /\ r \in Seq(Int) /\ Len(r) = 1
            /\ r[1] = f
        BY <1>0, <2>1, <3>2, FramesOfSeq
      <4>2. f \in Int
        BY DEF TypeOK, BufferQueueCore
      <4> HIDE DEF r, f
      <4>3. <<f>> \in Seq(Int) /\ Len(<<f>>) = 1 /\ <<f>>[1] = f
        BY <4>2
      <4> QED
        BY <4>1, <4>3, SeqEqual DEF r, f
    <3>4. Len(FramesOf(mQueue)) = 1
      BY <1>0, <3>1, FramesOfSeq
    <3> QED
      BY <2>2, <3>3, <3>4 DEF Stream!Replace, FramesOf
  <2>4. CASE ~Replaces
    <3>1. /\ Len(mQueue') = Len(mQueue) + 1
          /\ \A i \in 1..Len(mQueue) : mQueue'[i] = mQueue[i]
          /\ mQueue'[Len(mQueue) + 1] = item
      BY <1>0, <2>1, <2>4 DEF Enqueue
    <3>2. FramesOf(mQueue') = Append(FramesOf(mQueue), mCore.mFrameCounter + 1)
      <4> DEFINE q == FramesOf(mQueue)
                 r == FramesOf(mQueue')
                 f == mCore.mFrameCounter + 1
      <4>1. f \in Int
        BY DEF TypeOK, BufferQueueCore
      <4>2. /\ q \in Seq(Int) /\ Len(q) = Len(mQueue)
            /\ r \in Seq(Int) /\ Len(r) = Len(mQueue) + 1
            /\ \A i \in 1..Len(r) : r[i] = mQueue'[i].mFrameNumber
            /\ \A i \in 1..Len(q) : q[i] = mQueue[i].mFrameNumber
        BY <1>0, <3>1, FramesOfSeq
      <4> HIDE DEF q, r
      <4>4. /\ \A i \in 1..Len(q) : r[i] = q[i]
            /\ r[Len(q) + 1] = f
        <5>1. 1..Len(q) \subseteq 1..Len(r) /\ Len(q) + 1 \in 1..Len(r)
          BY <1>0, <4>2
        <5>2. ASSUME NEW i \in 1..Len(q) PROVE r[i] = q[i]
          BY <3>1, <4>2, <5>1
        <5> QED
          BY <2>1, <3>1, <4>2, <5>1, <5>2
      <4> HIDE DEF f
      <4>3. /\ Append(q, f) \in Seq(Int)
            /\ Len(Append(q, f)) = Len(r)
            /\ \A i \in 1..Len(r) : r[i] = Append(q, f)[i]
        BY <1>0, <4>1, <4>2, <4>4
      <4> QED
        BY <4>2, <4>3, SeqEqual DEF q, r, f
    <3> QED
      BY <2>2, <3>2 DEF Stream!Produce, FramesOf
  <2> QED
    BY <2>3, <2>4
<1>3. ASSUME NEW expectedPresent \in PresentTimes,
             AcquireBuffer(expectedPresent)
      PROVE  \E n \in 1..Len(FramesOf(mQueue)) : Stream!Deliver(n)
  <2>1. PICK n \in 1..Len(mQueue) :
          /\ mQueue' = SubSeq(mQueue, n + 1, Len(mQueue))
          /\ lastAcquired' = mQueue[n].mFrameNumber
    BY <1>3 DEF AcquireBuffer
  <2>2. mCore' = mCore
    BY <1>3 DEF AcquireBuffer
  <2>3. /\ Len(mQueue') = Len(mQueue) - n
        /\ \A i \in 1..(Len(mQueue) - n) : mQueue'[i] = mQueue[n + i]
    BY <1>0, <2>1, SMTT(60)
  <2>4. /\ FramesOf(mQueue') =
             SubSeq(FramesOf(mQueue), n + 1, Len(FramesOf(mQueue)))
        /\ lastAcquired' = FramesOf(mQueue)[n]
        /\ n \in 1..Len(FramesOf(mQueue))
    <3> DEFINE q == FramesOf(mQueue)
               r == FramesOf(mQueue')
    <3>1. /\ q \in Seq(Int) /\ Len(q) = Len(mQueue)
          /\ r \in Seq(Int) /\ Len(r) = Len(mQueue) - n
          /\ \A i \in 1..Len(r) : r[i] = mQueue'[i].mFrameNumber
          /\ \A i \in 1..Len(q) : q[i] = mQueue[i].mFrameNumber
      BY <1>0, <2>3, FramesOfSeq
    <3> HIDE DEF q, r
    <3>2. ASSUME NEW i \in 1..Len(r)
          PROVE  r[i] = q[n + i]
      <4>1. n + i \in 1..Len(q) /\ i \in 1..(Len(mQueue) - n)
        BY <1>0, <3>1
      <4> QED
        BY <2>3, <3>1, <4>1
    <3>3. /\ SubSeq(q, n + 1, Len(q)) \in Seq(Int)
          /\ Len(SubSeq(q, n + 1, Len(q))) = Len(r)
          /\ \A i \in 1..Len(r) : SubSeq(q, n + 1, Len(q))[i] = q[n + i]
      <4> DEFINE len == Len(q)
                 rest == SubSeq(q, n + 1, len)
      <4>1. len \in Nat /\ n \in 1..len /\ Len(r) = len - n
        BY <1>0, <3>1
      <4>2. \A i \in (n + 1)..len : q[i] \in Int
        BY <3>1, <4>1
      <4> HIDE DEF len
      <4>3. n + 1 \in Int /\ len \in Int
        BY <4>1
      <4>4. /\ rest \in Seq(Int)
            /\ Len(rest) = IF n + 1 <= len THEN len - (n + 1) + 1 ELSE 0
            /\ \A i \in 1..(len - (n + 1) + 1) : rest[i] = q[(n + 1) + i - 1]
        BY <4>2, <4>3, SubSeqProperties
      <4> HIDE DEF rest
      <4>5. /\ Len(rest) = Len(r)
            /\ \A i \in 1..Len(r) : rest[i] = q[n + i]
        BY <4>1, <4>4
      <4> QED
        BY <4>4, <4>5 DEF rest, len
    <3>4. r = SubSeq(q, n + 1, Len(q))
      BY <3>1, <3>2, <3>3, SeqEqual
    <3> QED
      BY <2>1, <3>1, <3>4 DEF q, r
  <2>5. Stream!Deliver(n)
    BY <2>2, <2>4 DEF Stream!Deliver, FramesOf
  <2> QED
    BY <2>4, <2>5
<1>4. ASSUME ConsumerDisconnect
      PROVE  Stream!Discard
  <2>1. /\ mCore'.mFrameCounter = mCore.mFrameCounter
        /\ lastAcquired' = lastAcquired
        /\ mQueue' = <<>>
    BY <1>4 DEF ConsumerDisconnect, TypeOK, BufferQueueCore, consumer
  <2> QED
    BY <2>1 DEF Stream!Discard
<1> QED
  BY <1>1, <1>2, <1>3, <1>4, QuietQueueStep DEF Stream!Next, FramesOf

\* A BufferQueue used in one mode implements FrameStream, for every number of
\* slots, threads and frames and with every other operation interleaved:
\* queueBuffer, acquireBuffer and disconnect move frames through the FIFO in
\* order.
THEOREM StreamImplemented ==
    ASSUME AlwaysAsync \/ NeverAsync
    PROVE  Spec => FramesFlowInOrder
<1>1. Init => UniformQueue
  BY DEF Init, UniformQueue
<1>2. TypeOK /\ UniformQueue /\ [Next]_vars => UniformQueue'
  BY UniformQueueStep
<1>3. Init => Stream!Init
  BY DEF Init, Stream!Init
<1>4. TypeOK /\ TypeOK' /\ UniformQueue /\ [Next]_vars
        => [Stream!Next]_(Stream!svars)
  BY StreamStep
<1> QED
  BY <1>1, <1>2, <1>3, <1>4, TypeCorrect, PTL
  DEF Spec, FramesFlowInOrder, Stream!Spec

\* A step that is in order for the stream is in order for the queue.
LEMMA NewerStep ==
    ASSUME TypeOK, TypeOK',
           [lastAcquired' # lastAcquired
              => lastAcquired' > lastAcquired]_(Stream!svars)
    PROVE  lastAcquired' >= lastAcquired
<1>1. lastAcquired \in Int /\ lastAcquired' \in Int
  BY FramesAssumption DEF TypeOK
<1>2. CASE lastAcquired' # lastAcquired => lastAcquired' > lastAcquired
  BY <1>1, <1>2
<1>3. CASE UNCHANGED (Stream!svars)
  <2>1. lastAcquired' = lastAcquired
    BY <1>3 DEF Stream!svars
  <2> QED
    BY <1>1, <2>1
<1> QED
  BY <1>2, <1>3

\* A BufferQueue used in one mode never gives its consumer an older frame after
\* a newer one: acquireBuffer's frames only get newer.
THEOREM DeliveryInOrder ==
    ASSUME AlwaysAsync \/ NeverAsync
    PROVE  Spec => DeliveredInOrder
<1>1. Spec => Stream!Spec
  BY StreamImplemented DEF FramesFlowInOrder
<1>2. Stream!Spec => Stream!OnlyNewer
  BY Stream!StreamInOrder
<1>3. TypeOK /\ TypeOK'
        /\ [lastAcquired' # lastAcquired
              => lastAcquired' > lastAcquired]_(Stream!svars)
        => [lastAcquired' >= lastAcquired]_vars
  BY NewerStep
<1> QED
  BY <1>1, <1>2, <1>3, TypeCorrect, PTL DEF DeliveredInOrder, Stream!OnlyNewer
=============================================================================
