----------------------- MODULE BufferQueueOwnership -----------------------
(***************************************************************************)
(* Who owns a buffer, and, in the second half, who owns a slot and who     *)
(* sleeps for one.  Slots, the FIFO, the consumer's items, the clients     *)
(* that detached a buffer and the threads that attach one all refer to     *)
(* buffers; the theorems of this module say that no two of them take the   *)
(* same buffer for theirs, and that a buffer changes hands with the fence  *)
(* of its last owner.                                                      *)
(*                                                                         *)
(* Most steps are calm: they bring no buffer into the queue, and change a  *)
(* slot at most by emptying it or by moving it between FREE and DEQUEUED.  *)
(* Lemma CalmStep reduces every proof to those steps and the bold ones.    *)
(***************************************************************************)
EXTENDS BufferQueueProofs, WellFoundedInduction, FiniteSetTheorems

BufferIn(s) == mSlots[s].mGraphicBuffer
StateOf(s) == mSlots[s].mBufferState
FrameIn(s) == mSlots[s].mFrameNumber
Attaching(t) == call[t].op \in {"attachBuffer", "attachRetry"}

\* What becomes of a slot in a calm step: it is emptied, or keeps its buffer
\* and at most moves between FREE and DEQUEUED.
SlotKept(old, new) ==
    \/ /\ new.mGraphicBuffer = NULL
       /\ new.mBufferState \in {"FREE", "DEQUEUED"}
    \/ /\ new.mGraphicBuffer = old.mGraphicBuffer
       /\ \/ /\ new.mBufferState = old.mBufferState
             /\ new.mFrameNumber = old.mFrameNumber
          \/ /\ old.mBufferState \in {"FREE", "DEQUEUED"}
             /\ new.mBufferState \in {"FREE", "DEQUEUED"}

\* Outside VR mode a step that changes the fence of a slot stores the fence
\* that the last owner handed in.
FenceKept ==
    \A s \in Slots :
        \/ vrMode
        \/ mSlots'[s].mFence = owedFence'[s]
        \/ /\ mSlots'[s].mFence = mSlots[s].mFence
           /\ owedFence'[s] = owedFence[s]

CalmSlots == \A s \in Slots : SlotKept(mSlots[s], mSlots'[s])

\* The FIFO stays, or is discarded together with all buffers.
CalmQueue ==
    \/ UNCHANGED mQueue
    \/ /\ mQueue' = <<>>
       /\ \A s \in Slots : mSlots'[s].mBufferState = "FREE"

\* No thread begins to attach a buffer.
CalmCalls ==
    \A t \in Threads :
        call'[t].op \in {"attachBuffer", "attachRetry"} =>
            Attaching(t) /\ call'[t].buffer = call[t].buffer

\* A step that brings no buffer into the queue and takes none out.
Calm ==
    /\ CalmSlots
    /\ FenceKept
    /\ CalmQueue
    /\ CalmCalls
    /\ mCore'.mFrameCounter = mCore.mFrameCounter
    /\ consumerItems' \subseteq consumerItems
    /\ clientBuffers' \subseteq clientBuffers

\* The fields of a slot after freeBufferLocked and after the operations that
\* change one slot.
LEMMA SlotFields ==
    ASSUME NEW slot \in BufferSlot
    PROVE  /\ /\ Freed(slot).mBufferState = "FREE"
              /\ Freed(slot).mGraphicBuffer = NULL
              /\ Freed(slot).mFrameNumber = 0
              /\ Freed(slot).mFence = "NO_FENCE"
           /\ \A b : /\ Attached(slot, b).mBufferState = "DEQUEUED"
                     /\ Attached(slot, b).mGraphicBuffer = b
                     /\ Attached(slot, b).mFence = "NO_FENCE"
           /\ \A b : /\ AttachedAcquired(slot, b).mBufferState = "ACQUIRED"
                     /\ AttachedAcquired(slot, b).mGraphicBuffer = b
                     /\ AttachedAcquired(slot, b).mFrameNumber = 0
                     /\ AttachedAcquired(slot, b).mFence = "NO_FENCE"
           /\ \A f : /\ Queued(slot, f).mBufferState = "QUEUED"
                     /\ Queued(slot, f).mGraphicBuffer = slot.mGraphicBuffer
                     /\ Queued(slot, f).mFrameNumber = f
                     /\ Queued(slot, f).mFence = "producer"
           /\ /\ Cancelled(slot).mBufferState = "FREE"
              /\ Cancelled(slot).mGraphicBuffer = slot.mGraphicBuffer
              /\ Cancelled(slot).mFence = "producer"
           /\ /\ Acquired(slot).mBufferState = "ACQUIRED"
              /\ Acquired(slot).mGraphicBuffer = slot.mGraphicBuffer
              /\ Acquired(slot).mFrameNumber = slot.mFrameNumber
              /\ Acquired(slot).mFence = "NO_FENCE"
           /\ /\ Released(slot).mBufferState = "FREE"
              /\ Released(slot).mGraphicBuffer = slot.mGraphicBuffer
              /\ Released(slot).mFence = "consumer"
BY DEF Freed, Attached, AttachedAcquired, Queued, Cancelled, Acquired,
   Released, BufferSlot

\* Every slot of the array is a slot record.
LEMMA SlotIsRecord ==
    ASSUME TypeOK, NEW s \in Slots
    PROVE  mSlots[s] \in BufferSlot
BY DEF TypeOK

\* A slot that freeBufferLocked emptied.
LEMMA FreedFields ==
    ASSUME TypeOK
    PROVE  \A s \in Slots : /\ Freed(mSlots[s]).mBufferState = "FREE"
                            /\ Freed(mSlots[s]).mGraphicBuffer = NULL
                            /\ Freed(mSlots[s]).mFence = "NO_FENCE"
BY SlotFields, SlotIsRecord

\* freeBufferLocked on a set of slots is calm, and owes no fence for them.
LEMMA FreedCalm ==
    ASSUME TypeOK, NEW S, mSlots' = FreedAt(S), NoFenceOwedAt(S)
    PROVE  CalmSlots /\ FenceKept
<1> SUFFICES ASSUME NEW s \in Slots
             PROVE  /\ SlotKept(mSlots[s], mSlots'[s])
                    /\ \/ mSlots'[s].mFence = owedFence'[s]
                       \/ /\ mSlots'[s].mFence = mSlots[s].mFence
                          /\ owedFence'[s] = owedFence[s]
  BY DEF CalmSlots, FenceKept
<1>1. mSlots'[s] = IF s \in S THEN Freed(mSlots[s]) ELSE mSlots[s]
  BY DEF FreedAt
<1>2. owedFence'[s] = IF s \in S THEN "NO_FENCE" ELSE owedFence[s]
  BY DEF NoFenceOwedAt
<1> QED
  BY <1>1, <1>2, SlotIsRecord, SlotFields DEF SlotKept

\* Leaving the slots and the fences alone is calm.
LEMMA SameSlotsCalm ==
    ASSUME UNCHANGED <<mSlots, owedFence>>
    PROVE  CalmSlots /\ FenceKept
BY DEF CalmSlots, FenceKept, SlotKept

\* A thread that goes on to something other than attachBuffer is calm.
LEMMA NewCallCalm ==
    ASSUME TypeOK, NEW t \in Threads, NEW c, call' = [call EXCEPT ![t] = c],
           c.op \notin {"attachBuffer", "attachRetry"}
    PROVE  CalmCalls
BY DEF CalmCalls, Attaching, TypeOK

\* A call that returns attaches nothing.
LEMMA ReturnsCalm ==
    ASSUME TypeOK, NEW t \in Threads, Returns(t)
    PROVE  CalmCalls
BY DEF CalmCalls, Attaching, Returns, Idle, TypeOK

\* No call changes, so none attaches anything.
LEMMA SameCallsCalm == ASSUME UNCHANGED call PROVE CalmCalls
BY DEF CalmCalls, Attaching

\* The error returns and the sleep of waitForFreeSlotThenRelock free buffers
\* beyond the maximum, which is calm.
LEMMA FreeSlotErrorCalm ==
    ASSUME TypeOK, NEW t \in Threads, NEW async, FreeSlotError(t, async)
    PROVE  CalmSlots /\ FenceKept /\ CalmCalls
BY FreedCalm, ReturnsCalm DEF FreeSlotError

\* So does the sleep itself.
LEMMA FreeSlotWaitCalm ==
    ASSUME TypeOK, NEW t \in Threads, NEW async, NEW c,
           FreeSlotWait(t, async, c)
    PROVE  CalmSlots /\ FenceKept
BY FreedCalm DEF FreeSlotWait

\* What dequeueBuffer does to the slots once it has found a free one.
LEMMA TakeSlotEffect ==
    ASSUME TypeOK, NEW t \in Threads, NEW s \in Slots, NEW async, NEW req,
           NEW flags, TakeSlot(t, s, async, req, flags)
    PROVE  /\ \A r \in Slots \ {s} :
                \/ mSlots'[r] = mSlots[r] /\ owedFence'[r] = owedFence[r]
                \/ /\ r \in SlotsToFree(async)
                   /\ mSlots'[r] = Freed(mSlots[r])
                   /\ owedFence'[r] = "NO_FENCE"
           /\ mSlots'[s].mBufferState = "DEQUEUED"
           /\ mSlots'[s].mGraphicBuffer \in {mSlots[s].mGraphicBuffer, NULL}
           /\ mSlots'[s].mFence = "NO_FENCE"
           /\ owedFence'[s] = "NO_FENCE"
<1> DEFINE F == FreedAt(SlotsToFree(async))
<1>0. F \in [Slots -> BufferSlot] /\ mSlots[s] \in BufferSlot
  BY FreedAtType, SlotIsRecord
<1>1. \E b \in BOOLEAN :
        mSlots' = [F EXCEPT ![s] =
                IF b
                THEN [mSlots[s] EXCEPT !.mBufferState = "DEQUEUED",
                                       !.mFence = "NO_FENCE"]
                ELSE [mSlots[s] EXCEPT !.mBufferState = "DEQUEUED",
                                       !.mGraphicBuffer = NULL,
                                       !.mAcquireCalled = FALSE,
                                       !.mRequestBufferCalled = FALSE,
                                       !.mFence = "NO_FENCE"]]
  BY DEF TakeSlot
<1>2. owedFence' = [r \in Slots |->
          IF r \in SlotsToFree(async) \cup {s} THEN "NO_FENCE"
          ELSE owedFence[r]]
  BY DEF TakeSlot, NoFenceOwedAt
<1>3. \A r \in Slots : F[r] = IF r \in SlotsToFree(async)
                              THEN Freed(mSlots[r]) ELSE mSlots[r]
  BY DEF FreedAt
<1> HIDE DEF F
<1>4. \A r \in Slots \ {s} : mSlots'[r] = F[r]
  BY <1>0, <1>1
<1>5. /\ mSlots'[s].mBufferState = "DEQUEUED"
      /\ mSlots'[s].mGraphicBuffer \in {mSlots[s].mGraphicBuffer, NULL}
      /\ mSlots'[s].mFence = "NO_FENCE"
  BY <1>0, <1>1 DEF BufferSlot
<1> QED
  BY <1>2, <1>3, <1>4, <1>5

\* Each round of dequeueBuffer's search for a slot is calm.
LEMMA DequeueTurnCalm ==
    ASSUME TypeOK, NEW t \in Threads, NEW async, NEW req, NEW flags,
           DequeueTurn(t, async, req, flags)
    PROVE  Calm
<1> DEFINE seen == flags \cup ReleaseAllFlag(async)
           retry == [op |-> "dequeueRetry", async |-> async, req |-> req,
                     flags |-> seen]
<1>0. UNCHANGED <<mQueue, mCore, consumerItems, clientBuffers>>
  BY DEF DequeueTurn, consumer
<1>1. CASE FreeSlotError(t, async)
  BY <1>0, <1>1, FreeSlotErrorCalm DEF Calm, CalmQueue
<1>2. CASE FreeSlotWait(t, async, retry)
  <2>1. retry.op \notin {"attachBuffer", "attachRetry"}
    OBVIOUS
  <2>2. call' = [call EXCEPT ![t] = retry]
    BY <1>2 DEF FreeSlotWait
  <2> HIDE DEF retry
  <2>3. CalmCalls
    BY <2>1, <2>2, NewCallCalm
  <2> QED
    BY <1>0, <1>2, <2>3, FreeSlotWaitCalm DEF Calm, CalmQueue
<1>3. ASSUME NEW s \in Slots, IsOldest(s, FreeSlots(async)),
             TakeSlot(t, s, async, req, seen)
      PROVE  Calm
  <2> HIDE DEF seen
  <2>1. mSlots[s].mBufferState = "FREE"
    BY <1>3 DEF IsOldest, FreeSlots, InState
  <2>2. CalmSlots /\ FenceKept
    BY <1>3, <2>1, TakeSlotEffect, SlotFields, SlotIsRecord
    DEF CalmSlots, FenceKept, SlotKept
  <2>3. CalmCalls
    <3>1. \E attr, f : \E b \in BOOLEAN :
            call' = [call EXCEPT ![t] =
                       IF b
                       THEN [op |-> "dequeueReturn", slot |-> s, flags |-> f]
                       ELSE [op |-> "createGraphicBuffer", slot |-> s,
                             attr |-> attr, flags |-> f]]
      BY <1>3 DEF TakeSlot
    <3> QED
      BY <3>1 DEF CalmCalls, Attaching, TypeOK
  <2> QED
    BY <1>0, <2>2, <2>3 DEF Calm, CalmQueue
<1> QED
  BY <1>1, <1>2, <1>3 DEF DequeueTurn

\* A step that leaves the slots, the FIFO and the clients' buffers alone is
\* calm if no thread begins to attach.
LEMMA NothingMovesCalm ==
    ASSUME UNCHANGED <<mSlots, mQueue, consumerItems, owedFence,
                       clientBuffers>>,
           mCore'.mFrameCounter = mCore.mFrameCounter, CalmCalls
    PROVE  Calm
BY SameSlotsCalm DEF Calm, CalmQueue

\* A change of one slot is calm if the slot is emptied or keeps its buffer, and
\* its fence is the one owed.
LEMMA OneSlotCalm ==
    ASSUME TypeOK, NEW s \in Slots, NEW slot, NEW fence,
           mSlots' = [mSlots EXCEPT ![s] = slot],
           owedFence' = [owedFence EXCEPT ![s] = fence],
           SlotKept(mSlots[s], slot),
           vrMode \/ slot.mFence = fence
    PROVE  CalmSlots /\ FenceKept
BY DEF TypeOK, CalmSlots, FenceKept, SlotKept

\* Producer calls that neither attach, detach nor queue a buffer are calm up to
\* the point where they first let go of the lock.
LEMMA ProducerCallCalm ==
    ASSUME TypeOK, NEW t \in Threads, ProducerCall(t),
           ~\E b \in Attachable :
               Enter(t, [op |-> "attachBuffer", buffer |-> b]),
           ~\E s \in Slots : ProducerDetachBuffer(t, s),
           ~\E s \in Slots, async \in AsyncModes, stamp \in Stamps :
               QueueBuffer(t, s, async, stamp)
    PROVE  Calm
<1> USE DEF threads, consumer, clients
<1>1. ASSUME NEW c, Enter(t, c), c.op \notin {"attachBuffer", "attachRetry"}
      PROVE  Calm
  BY <1>1, NewCallCalm, NothingMovesCalm DEF Enter
<1>2. ASSUME NEW async \in AsyncModes, NEW req \in Requests,
             \/ Enter(t, [op |-> "dequeueBuffer", async |-> async,
                          req |-> req, flags |-> {}])
             \/ Enter(t, [op |-> "allocateBuffers", async |-> async,
                          req |-> req])
      PROVE  Calm
  BY <1>1, <1>2
<1>3. ASSUME NEW n \in BufferCounts,
             Enter(t, [op |-> "setBufferCount", count |-> n])
      PROVE  Calm
  BY <1>1, <1>3
<1>4. ASSUME Enter(t, [op |-> "detachNextBuffer"])
      PROVE  Calm
  BY <1>1, <1>4
<1>5. ASSUME NEW api \in Apis, Enter(t, [op |-> "disconnect", api |-> api])
      PROVE  Calm
  BY <1>1, <1>5
<1>6. ASSUME NEW s \in Slots, RequestBuffer(t, s)
      PROVE  Calm
  <2>1. \A r \in Slots : /\ mSlots'[r].mBufferState = mSlots[r].mBufferState
                         /\ mSlots'[r].mGraphicBuffer =
                               mSlots[r].mGraphicBuffer
                         /\ mSlots'[r].mFrameNumber = mSlots[r].mFrameNumber
                         /\ mSlots'[r].mFence = mSlots[r].mFence
    BY <1>6 DEF RequestBuffer, TypeOK, BufferSlot
  <2>2. CalmSlots /\ FenceKept
    BY <1>6, <2>1 DEF RequestBuffer, CalmSlots, FenceKept, SlotKept
  <2> QED
    BY <1>6, <2>2, SameCallsCalm DEF RequestBuffer, Calm, CalmQueue
<1>7. ASSUME NEW s \in Slots, CancelBuffer(t, s)
      PROVE  Calm
  <2>1. SlotKept(mSlots[s], Cancelled(mSlots[s]))
    BY <1>7, SlotIsRecord, SlotFields DEF CancelBuffer, SlotKept
  <2>2. CalmSlots /\ FenceKept
    BY <1>7, <2>1, OneSlotCalm, SlotIsRecord, SlotFields DEF CancelBuffer
  <2> QED
    BY <1>7, <2>2, SameCallsCalm DEF CancelBuffer, Calm, CalmQueue
<1>8. ASSUME NEW s \in Slots, NEW async \in AsyncModes,
             QueueBufferInVRMode(t, s, async)
      PROVE  Calm
  <2> DEFINE slot == [mSlots[s] EXCEPT !.mFence = "NO_FENCE",
                                       !.mBufferState = "FREE"]
  <2>1. mSlots[s].mBufferState = "DEQUEUED"
    BY <1>8 DEF QueueBufferInVRMode, MayQueue
  <2>2. SlotKept(mSlots[s], slot)
    BY <2>1, SlotIsRecord DEF SlotKept, BufferSlot
  <2>3. mSlots' = [mSlots EXCEPT ![s] = slot]
    BY <1>8 DEF QueueBufferInVRMode
  <2> HIDE DEF slot
  <2>4. CalmSlots /\ FenceKept
    BY <1>8, <2>2, <2>3, OneSlotCalm DEF QueueBufferInVRMode
  <2> QED
    BY <1>8, <2>4, SameCallsCalm DEF QueueBufferInVRMode, Calm, CalmQueue
<1>9. ASSUME NEW api \in Apis \cup {NO_CONNECTED_API},
             NEW byApp \in AppControlled, ProducerConnect(t, api, byApp)
      PROVE  Calm
  BY <1>9, SameCallsCalm, NothingMovesCalm
  DEF ProducerConnect, TypeOK, BufferQueueCore
<1>10. ASSUME NEW stream \in BOOLEAN, SetSidebandStream(t, stream)
       PROVE  Calm
  BY <1>10, SameCallsCalm, NothingMovesCalm
  DEF SetSidebandStream, TypeOK, BufferQueueCore
<1> QED
  BY <1>2, <1>3, <1>4, <1>5, <1>6, <1>7, <1>8, <1>9, <1>10
  DEF ProducerCall

\* freeAllBuffersLocked is calm.
LEMMA FreeAllCalm ==
    ASSUME TypeOK, FreeAllBuffers
    PROVE  CalmSlots /\ FenceKept
BY FreedCalm DEF FreeAllBuffers

\* The end of setBufferCount and disconnect, with or without a callback.
LEMMA ReleasedCallbackCalm ==
    ASSUME TypeOK, NEW t \in Threads,
           call' = [call EXCEPT ![t] = IF mCore.mConsumerListener
                                       THEN [op |-> "onBuffersReleased"]
                                       ELSE Idle]
    PROVE  CalmCalls
BY DEF CalmCalls, Attaching, Idle, TypeOK

\* The later steps of producer calls are calm, except those that put a buffer
\* into a slot or take one out for the client.
LEMMA ProducerStepCalm ==
    ASSUME TypeOK, NEW t \in Threads, ProducerStep(t),
           ~DequeueAllocate(t), ~ProducerAttachBuffer(t), ~AttachRetry(t),
           ~DetachNextBuffer(t), ~AllocateBuffersCommit(t)
    PROVE  Calm
<1> USE DEF threads, consumer, clients
<1>1. CASE WaitWhileAllocating(t)
  BY <1>1, SameCallsCalm, NothingMovesCalm DEF WaitWhileAllocating
<1>2. CASE SetBufferCount(t)
  <2>1. CalmCalls
    BY <1>2, ReturnsCalm, ReleasedCallbackCalm DEF SetBufferCount
  <2>2. CalmSlots /\ FenceKept
    BY <1>2, FreeAllCalm, SameSlotsCalm DEF SetBufferCount
  <2>3. mCore'.mFrameCounter = mCore.mFrameCounter
    BY <1>2 DEF SetBufferCount, TypeOK, BufferQueueCore
  <2> QED
    BY <1>2, <2>1, <2>2, <2>3 DEF SetBufferCount, Calm, CalmQueue
<1>3. CASE DequeueBuffer(t)
  BY <1>3, DequeueTurnCalm DEF DequeueBuffer
<1>4. CASE DequeueRetry(t)
  BY <1>4, DequeueTurnCalm DEF DequeueRetry
<1>5. CASE DequeueReturn(t)
  BY <1>5, ReturnsCalm, NothingMovesCalm DEF DequeueReturn
<1>6. CASE CallBack(t)
  BY <1>6, ReturnsCalm, NothingMovesCalm DEF CallBack
<1>7. CASE CallBackReleased(t)
  BY <1>7, ReturnsCalm, NothingMovesCalm DEF CallBackReleased
<1>8. CASE ProducerDisconnect(t)
  <2>1. CalmCalls
    BY <1>8, ReturnsCalm, ReleasedCallbackCalm DEF ProducerDisconnect
  <2>2. CalmSlots /\ FenceKept
    BY <1>8, FreeAllCalm, SameSlotsCalm DEF ProducerDisconnect
  <2>3. mCore'.mFrameCounter = mCore.mFrameCounter
    BY <1>8 DEF ProducerDisconnect, TypeOK, BufferQueueCore
  <2> QED
    BY <1>8, <2>1, <2>2, <2>3 DEF ProducerDisconnect, Calm, CalmQueue
<1>9. CASE AllocateBuffers(t)
  <2>1. \/ Returns(t)
        \/ \E slots, attr :
             call' = [call EXCEPT ![t] =
               [op |-> "allocating", async |-> call[t].async,
                req |-> call[t].req, slots |-> slots, attr |-> attr]]
    BY <1>9 DEF AllocateBuffers
  <2>2. CalmCalls
    BY <2>1, ReturnsCalm DEF CalmCalls, Attaching, TypeOK
  <2>3. mCore'.mFrameCounter = mCore.mFrameCounter
    BY <1>9, AllocateFrame
  <2>4. UNCHANGED <<mSlots, mQueue, consumerItems, owedFence, clientBuffers>>
    BY <1>9 DEF AllocateBuffers
  <2> QED
    BY <2>2, <2>3, <2>4, NothingMovesCalm
<1> QED
  BY <1>1, <1>2, <1>3, <1>4, <1>5, <1>6, <1>7, <1>8, <1>9 DEF ProducerStep

\* Consumer calls that neither acquire, attach, detach nor release a buffer are
\* calm; a stale release only forgets the item.
LEMMA ConsumerCallCalm ==
    ASSUME TypeOK, ConsumerCall,
           ~\E expectedPresent \in PresentTimes :
               AcquireBuffer(expectedPresent),
           ~\E item \in consumerItems :
               ConsumerDetachBuffer(item) \/ ReleaseBuffer(item),
           ~\E b \in Attachable : ConsumerAttachBuffer(b)
    PROVE  Calm
<1> USE DEF threads, consumer, clients
<1>1. ASSUME NEW item \in consumerItems, ReleaseStaleBuffer(item)
      PROVE  Calm
  <2>1. item.slot \in Slots
    BY DEF TypeOK, ConsumerItem
  <2>2. \A r \in Slots : /\ mSlots'[r].mBufferState = mSlots[r].mBufferState
                         /\ mSlots'[r].mGraphicBuffer =
                               mSlots[r].mGraphicBuffer
                         /\ mSlots'[r].mFrameNumber = mSlots[r].mFrameNumber
                         /\ mSlots'[r].mFence = mSlots[r].mFence
    BY <1>1, <2>1 DEF ReleaseStaleBuffer, TypeOK, BufferSlot
  <2>3. CalmSlots /\ FenceKept
    BY <1>1, <2>2 DEF ReleaseStaleBuffer, CalmSlots, FenceKept, SlotKept
  <2> QED
    BY <1>1, <2>3, SameCallsCalm DEF ReleaseStaleBuffer, Calm, CalmQueue
<1>2. CASE ConsumerDisconnect
  <2>1. \A s \in Slots : mSlots'[s].mBufferState = "FREE"
    BY <1>2, SlotFields, SlotIsRecord
    DEF ConsumerDisconnect, FreeAllBuffers, FreedAt
  <2>2. mCore'.mFrameCounter = mCore.mFrameCounter
    BY <1>2 DEF ConsumerDisconnect, TypeOK, BufferQueueCore
  <2> QED
    BY <1>2, <2>1, <2>2, FreeAllCalm, SameCallsCalm
    DEF ConsumerDisconnect, Calm, CalmQueue
<1>3. ASSUME UNCHANGED <<mSlots, mQueue, call, clients>>,
             mCore'.mFrameCounter = mCore.mFrameCounter
      PROVE  Calm
  BY <1>3, SameCallsCalm, NothingMovesCalm
<1>4. ASSUME NEW byApp \in AppControlled, ConsumerConnect(byApp)
      PROVE  Calm
  BY <1>3, <1>4 DEF ConsumerConnect, TypeOK, BufferQueueCore
<1>5. ASSUME NEW size \in Sizes, SetDefaultBufferSize(size)
      PROVE  Calm
  BY <1>3, <1>5 DEF SetDefaultBufferSize, TypeOK, BufferQueueCore
<1>6. ASSUME NEW format \in Formats, SetDefaultBufferFormat(format)
      PROVE  Calm
  BY <1>3, <1>6 DEF SetDefaultBufferFormat, TypeOK, BufferQueueCore
<1>7. ASSUME NEW usage \in SUBSET UsageBits, SetConsumerUsageBits(usage)
      PROVE  Calm
  BY <1>3, <1>7 DEF SetConsumerUsageBits, TypeOK, BufferQueueCore
<1>8. ASSUME NEW n \in 1..NUM_BUFFER_SLOTS, SetDefaultMaxBufferCount(n)
      PROVE  Calm
  BY <1>3, <1>8 DEF SetDefaultMaxBufferCount, TypeOK, BufferQueueCore
<1>9. CASE DisableAsyncBuffer
  BY <1>3, <1>9 DEF DisableAsyncBuffer, TypeOK, BufferQueueCore
<1>10. ASSUME NEW n \in 1..MAX_MAX_ACQUIRED_BUFFERS,
              SetMaxAcquiredBufferCount(n)
       PROVE  Calm
  BY <1>3, <1>10 DEF SetMaxAcquiredBufferCount, TypeOK, BufferQueueCore
<1> QED
  BY <1>1, <1>2, <1>4, <1>5, <1>6, <1>7, <1>8, <1>9, <1>10
  DEF ConsumerCall

\* The steps that put a buffer into a slot, the FIFO or the hands of a client,
\* or begin to attach one.
BoldStep ==
    \/ \E t \in Threads :
          \/ \E b \in Attachable :
                Enter(t, [op |-> "attachBuffer", buffer |-> b])
          \/ DequeueAllocate(t)
          \/ ProducerAttachBuffer(t) \/ AttachRetry(t)
          \/ \E s \in Slots : ProducerDetachBuffer(t, s)
          \/ DetachNextBuffer(t)
          \/ \E s \in Slots, async \in AsyncModes, stamp \in Stamps :
                QueueBuffer(t, s, async, stamp)
          \/ AllocateBuffersCommit(t)
    \/ \E expectedPresent \in PresentTimes : AcquireBuffer(expectedPresent)
    \/ \E item \in consumerItems :
          ConsumerDetachBuffer(item) \/ ReleaseBuffer(item)
    \/ \E b \in Attachable : ConsumerAttachBuffer(b)

\* Every step of a BufferQueue is bold or calm.
LEMMA CalmStep ==
    ASSUME TypeOK, [Next]_vars
    PROVE  BoldStep \/ Calm
<1> USE DEF threads, consumer, clients
<1>1. ASSUME NEW t \in Threads, ProducerCall(t)
      PROVE  BoldStep \/ Calm
  BY <1>1, ProducerCallCalm DEF BoldStep
<1>2. ASSUME NEW t \in Threads, ProducerStep(t)
      PROVE  BoldStep \/ Calm
  BY <1>2, ProducerStepCalm DEF BoldStep
<1>3. ASSUME NEW t \in Threads, BinderDied(t)
      PROVE  Calm
  BY <1>3, NewCallCalm, NothingMovesCalm DEF BinderDied
<1>4. CASE ConsumerCall
  BY <1>4, ConsumerCallCalm DEF BoldStep
<1>5. ASSUME NEW b \in clientBuffers, DropClientBuffer(b)
      PROVE  Calm
  BY <1>5, SameCallsCalm, SameSlotsCalm DEF DropClientBuffer, Calm, CalmQueue
<1>6. ASSUME NEW on \in BOOLEAN, SetVRMode(on)
      PROVE  Calm
  BY <1>6, SameCallsCalm, NothingMovesCalm DEF SetVRMode
<1>7. CASE UNCHANGED vars
  BY <1>7, SameCallsCalm, NothingMovesCalm DEF vars
<1> QED
  BY <1>1, <1>2, <1>3, <1>4, <1>5, <1>6, <1>7 DEF Next

-----------------------------------------------------------------------------
(* What the bold steps do. *)

\* Items of the FIFO and of the consumer have their types.
LEMMA ItemTypes ==
    ASSUME TypeOK
    PROVE  /\ \A i \in 1..Len(mQueue) :
                /\ mQueue[i] \in BufferItem
                /\ mQueue[i].mSlot \in Slots
                /\ mQueue[i].mGraphicBuffer \in Buffers
                /\ mQueue[i].mGraphicBuffer # NULL
                /\ mQueue[i].mFrameNumber \in 1..MaxFrames
           /\ \A x \in consumerItems : /\ x.slot \in Slots
                                       /\ x.frame \in 0..MaxFrames
                                       /\ x.buffer \in Buffers
                                       /\ x.buffer # NULL
<1>1. \A i \in 1..Len(mQueue) : mQueue[i] \in BufferItem
  BY DEF TypeOK
<1>2. \A x \in consumerItems : x \in ConsumerItem
  BY DEF TypeOK
<1> QED
  BY <1>1, <1>2, BuffersAssumption DEF BufferItem, ConsumerItem

\* The buffers attachBuffer may be given, and those the allocator creates, are
\* in no slot and no frame.
LEMMA AttachableType ==
    ASSUME TypeOK
    PROVE  /\ Unreferenced \subseteq Buffers
           /\ Attachable \subseteq Buffers
           /\ NULL \notin Attachable /\ NULL \notin Unreferenced
BY BuffersAssumption DEF Attachable, Unreferenced, TypeOK

\* dequeueBuffer's allocation fills its slot, or returns with an error.
LEMMA DequeueAllocateEffect ==
    ASSUME TypeOK, NEW t \in Threads, DequeueAllocate(t)
    PROVE  /\ call[t].slot \in Slots
           /\ UNCHANGED <<mQueue, mCore, producerSlots, consumerItems,
                          owedFence, clientBuffers, vrMode>>
           /\ \A u \in Threads \ {t} : call'[u] = call[u]
           /\ \/ /\ mCore.mIsAbandoned \/ "allocationFailure" \in Calls
                 /\ UNCHANGED mSlots
                 /\ call'[t] = Idle
              \/ \E b \in Unreferenced :
                    /\ ~mCore.mIsAbandoned
                    /\ \A r \in Slots \ {call[t].slot} : mSlots'[r] = mSlots[r]
                    /\ LET old == mSlots[call[t].slot]
                           new == mSlots'[call[t].slot]
                       IN /\ new.mGraphicBuffer = b
                          /\ new.mBufferState = old.mBufferState
                          /\ new.mFrameNumber = UINT32_MAX
                          /\ new.mFence = old.mFence
                    /\ call'[t].op = "dequeueReturn"
                    /\ call'[t].slot = call[t].slot
<1>1. call[t].slot \in Slots
  BY CallType DEF DequeueAllocate
<1>2. UNCHANGED <<mQueue, mCore, producerSlots, consumerItems, owedFence,
                  clientBuffers, vrMode>>
  BY DEF DequeueAllocate, clients, consumer
<1>3. CASE /\ mCore.mIsAbandoned \/ "allocationFailure" \in Calls
           /\ Returns(t)
           /\ UNCHANGED mSlots
  BY <1>1, <1>2, <1>3 DEF Returns, TypeOK
<1>4. ASSUME ~mCore.mIsAbandoned,
             NEW b \in Unreferenced,
             mSlots' = [mSlots EXCEPT ![call[t].slot] =
                          [@ EXCEPT !.mFrameNumber = UINT32_MAX,
                                    !.mGraphicBuffer = b]],
             call' = [call EXCEPT ![t] = [op |-> "dequeueReturn",
                         slot |-> call[t].slot, flags |-> call[t].flags]]
      PROVE  \E bb \in Unreferenced :
                    /\ ~mCore.mIsAbandoned
                    /\ \A r \in Slots \ {call[t].slot} : mSlots'[r] = mSlots[r]
                    /\ LET old == mSlots[call[t].slot]
                           new == mSlots'[call[t].slot]
                       IN /\ new.mGraphicBuffer = bb
                          /\ new.mBufferState = old.mBufferState
                          /\ new.mFrameNumber = UINT32_MAX
                          /\ new.mFence = old.mFence
                    /\ call'[t].op = "dequeueReturn"
                    /\ call'[t].slot = call[t].slot
                    /\ \A u \in Threads \ {t} : call'[u] = call[u]
  <2>1. mSlots[call[t].slot] \in BufferSlot
    BY <1>1, SlotIsRecord
  <2> QED
    BY <1>1, <1>4, <2>1 DEF TypeOK, BufferSlot
<1> QED
  BY <1>1, <1>2, <1>3, <1>4 DEF DequeueAllocate

\* attachBuffer fails, sleeps, or puts its buffer into the oldest free slot.
LEMMA AttachTurnEffect ==
    ASSUME TypeOK, NEW t \in Threads, AttachTurn(t), Attaching(t)
    PROVE  \/ /\ Calm
              /\ UNCHANGED <<mCore, producerSlots>>
              /\ \A u \in Threads \ {t} : call'[u] = call[u]
              /\ call'[t].op \in {"idle", "attachRetry"}
              /\ \A s \in Slots :
                    \/ mSlots'[s] = mSlots[s]
                    \/ s \in SlotsToFree(FALSE)
                       /\ mSlots'[s] = Freed(mSlots[s])
           \/ /\ UNCHANGED <<mQueue, mCore, consumerItems, vrMode>>
              /\ Returns(t)
              /\ clientBuffers' = clientBuffers \ {call[t].buffer}
              /\ FreeSlotStatus(FALSE) = "NO_ERROR"
              /\ \E s \in Slots :
                    /\ mSlots[s].mBufferState = "FREE"
                    /\ producerSlots' = producerSlots \cup {s}
                    /\ mSlots'[s].mBufferState = "DEQUEUED"
                    /\ mSlots'[s].mGraphicBuffer = call[t].buffer
                    /\ mSlots'[s].mFence = owedFence'[s]
                    /\ \A r \in Slots \ {s} :
                         \/ /\ mSlots'[r] = mSlots[r]
                            /\ owedFence'[r] = owedFence[r]
                         \/ /\ r \in SlotsToFree(FALSE)
                            /\ mSlots'[r] = Freed(mSlots[r])
                            /\ owedFence'[r] = "NO_FENCE"
<1> DEFINE b == call[t].buffer
           F == FreedAt(SlotsToFree(FALSE))
           retry == [op |-> "attachRetry", buffer |-> b]
<1>0. /\ UNCHANGED <<mQueue, mCore, consumerItems, vrMode>>
      /\ F \in [Slots -> BufferSlot]
      /\ \A r \in Slots : F[r] = IF r \in SlotsToFree(FALSE)
                                 THEN Freed(mSlots[r]) ELSE mSlots[r]
  BY FreedAtType DEF AttachTurn, consumer, FreedAt
<1>1. CASE FreeSlotError(t, FALSE) /\ UNCHANGED <<producerSlots, clientBuffers>>
  <2>1. Calm
    BY <1>0, <1>1, FreeSlotErrorCalm DEF Calm, CalmQueue
  <2>2. /\ \A u \in Threads \ {t} : call'[u] = call[u]
        /\ call'[t].op = "idle"
    BY <1>1 DEF FreeSlotError, Returns, Idle, TypeOK
  <2> QED
    BY <1>0, <1>1, <2>1, <2>2 DEF FreeSlotError
<1>2. CASE /\ FreeSlotWait(t, FALSE, retry)
           /\ UNCHANGED <<producerSlots, clientBuffers>>
  <2>1. /\ \A u \in Threads \ {t} : call'[u] = call[u]
        /\ call'[t].op = "attachRetry"
        /\ call'[t].buffer = b
    BY <1>2 DEF FreeSlotWait, TypeOK
  <2>2. CalmCalls
    BY <2>1 DEF CalmCalls, Attaching
  <2> HIDE DEF retry
  <2>3. Calm
    BY <1>0, <1>2, <2>2, FreeSlotWaitCalm DEF Calm, CalmQueue
  <2> QED
    BY <1>0, <1>2, <2>1, <2>3 DEF FreeSlotWait
<1>3. ASSUME FreeSlotStatus(FALSE) = "NO_ERROR",
             NEW s \in Slots,
             IsOldest(s, FreeSlots(FALSE)),
             mSlots' = [F EXCEPT ![s] = Attached(@, b)],
             NoFenceOwedAt(SlotsToFree(FALSE) \cup {s}),
             producerSlots' = producerSlots \cup {s},
             Returns(t),
             clientBuffers' = clientBuffers \ {b}
      PROVE  \E r \in Slots :
                    /\ mSlots[r].mBufferState = "FREE"
                    /\ producerSlots' = producerSlots \cup {r}
                    /\ mSlots'[r].mBufferState = "DEQUEUED"
                    /\ mSlots'[r].mGraphicBuffer = b
                    /\ mSlots'[r].mFence = owedFence'[r]
                    /\ \A q \in Slots \ {r} :
                         \/ /\ mSlots'[q] = mSlots[q]
                            /\ owedFence'[q] = owedFence[q]
                         \/ /\ q \in SlotsToFree(FALSE)
                            /\ mSlots'[q] = Freed(mSlots[q])
                            /\ owedFence'[q] = "NO_FENCE"
  <2>1. mSlots[s].mBufferState = "FREE"
    BY <1>3 DEF IsOldest, FreeSlots, InState
  <2> HIDE DEF F, b
  <2>2. /\ mSlots'[s] = Attached(F[s], b)
        /\ \A q \in Slots \ {s} : mSlots'[q] = F[q]
    BY <1>0, <1>3
  <2>3. /\ owedFence'[s] = "NO_FENCE"
        /\ \A q \in Slots \ {s} :
              owedFence'[q] = IF q \in SlotsToFree(FALSE) THEN "NO_FENCE"
                              ELSE owedFence[q]
    BY <1>3 DEF NoFenceOwedAt
  <2>4. F[s] \in BufferSlot
    BY <1>0
  <2>5. /\ mSlots'[s].mBufferState = "DEQUEUED"
        /\ mSlots'[s].mGraphicBuffer = b
        /\ mSlots'[s].mFence = owedFence'[s]
    BY <2>2, <2>3, <2>4, SlotFields
  <2>6. \A q \in Slots \ {s} :
           \/ /\ mSlots'[q] = mSlots[q]
              /\ owedFence'[q] = owedFence[q]
           \/ /\ q \in SlotsToFree(FALSE)
              /\ mSlots'[q] = Freed(mSlots[q])
              /\ owedFence'[q] = "NO_FENCE"
    BY <1>0, <2>2, <2>3
  <2> QED
    BY <1>3, <2>1, <2>5, <2>6
<1> QED
  BY <1>0, <1>1, <1>2, <1>3 DEF AttachTurn

\* The slot of a droppable front frame that queueBuffer gives up.
GivenUp(r) == Replaces /\ StillTracking(mQueue[1]) /\ r = mQueue[1].mSlot

\* queueBuffer moves its slot to the FIFO and may free that of the front.
LEMMA QueueBufferEffect ==
    ASSUME TypeOK, NEW t \in Threads, NEW s \in Slots,
           NEW async \in AsyncModes, NEW stamp \in Stamps,
           QueueBuffer(t, s, async, stamp)
    PROVE  /\ mSlots[s].mBufferState = "DEQUEUED"
           /\ mSlots[s].mGraphicBuffer # NULL
           /\ s \in producerSlots /\ producerSlots' = producerSlots \ {s}
           /\ ~mCore.mIsAbandoned
           /\ mCore'.mIsAbandoned = mCore.mIsAbandoned
           /\ mCore'.mFrameCounter = mCore.mFrameCounter + 1
           /\ mCore'.mFrameCounter \in 1..MaxFrames
           /\ call[t].op = "idle" /\ call'[t].op = "onFrame"
           /\ \A u \in Threads \ {t} : call'[u] = call[u]
           /\ UNCHANGED <<consumerItems, clientBuffers, vrMode>>
           /\ \A r \in Slots :
                /\ r # s /\ ~GivenUp(r) => /\ mSlots'[r] = mSlots[r]
                                           /\ owedFence'[r] = owedFence[r]
                /\ r # s /\ GivenUp(r) =>
                      /\ mSlots'[r].mBufferState = "FREE"
                      /\ mSlots'[r].mGraphicBuffer = mSlots[r].mGraphicBuffer
                      /\ mSlots'[r].mFence = mSlots[r].mFence
                      /\ owedFence'[r] = owedFence[r]
           /\ ~GivenUp(s) =>
                /\ mSlots'[s].mBufferState = "QUEUED"
                /\ mSlots'[s].mGraphicBuffer = mSlots[s].mGraphicBuffer
                /\ mSlots'[s].mFrameNumber = mCore.mFrameCounter + 1
           /\ mSlots'[s].mFence = owedFence'[s]
<1> DEFINE f == mCore.mFrameCounter + 1
           queued == [mSlots EXCEPT ![s] = Queued(@, f)]
           freed(slot) == [slot EXCEPT !.mBufferState = "FREE",
                                       !.mFrameNumber = 0]
           front == mQueue[1].mSlot
<1>1. /\ mSlots[s].mBufferState = "DEQUEUED"
      /\ mSlots[s].mGraphicBuffer # NULL
      /\ s \in producerSlots /\ producerSlots' = producerSlots \ {s}
      /\ ~mCore.mIsAbandoned
      /\ UNCHANGED <<consumerItems, clientBuffers, vrMode>>
  BY DEF QueueBuffer, MayQueue, consumer
<1>2. /\ mCore'.mIsAbandoned = mCore.mIsAbandoned
      /\ mCore'.mFrameCounter = f
      /\ f \in 1..MaxFrames
  BY FramesAssumption DEF QueueBuffer, TypeOK, BufferQueueCore
<1>3. /\ call[t].op = "idle" /\ call'[t].op = "onFrame"
      /\ \A u \in Threads \ {t} : call'[u] = call[u]
  BY DEF QueueBuffer, IsIdle, Idle, TypeOK
<1>4. owedFence' = [owedFence EXCEPT ![s] = "producer"]
  BY DEF QueueBuffer
<1>5. /\ owedFence'[s] = "producer"
      /\ \A r \in Slots \ {s} : owedFence'[r] = owedFence[r]
  BY <1>4 DEF TypeOK
<1>6. mSlots' = IF Replaces /\ StillTracking(mQueue[1])
                THEN [queued EXCEPT ![front] = freed(@)]
                ELSE queued
  BY DEF QueueBuffer
<1>7. /\ queued \in [Slots -> BufferSlot]
      /\ queued[s].mBufferState = "QUEUED"
      /\ queued[s].mGraphicBuffer = mSlots[s].mGraphicBuffer
      /\ queued[s].mFrameNumber = f
      /\ queued[s].mFence = "producer"
      /\ \A r \in Slots \ {s} : queued[r] = mSlots[r]
  <2>1. f \in FrameNumbers
    BY <1>2 DEF FrameNumbers
  <2>2. mSlots[s] \in BufferSlot
    BY SlotIsRecord
  <2>3. Queued(mSlots[s], f) \in BufferSlot
    BY <2>1, <2>2, SlotRecordTypes
  <2>4. queued[s] = Queued(mSlots[s], f)
    BY DEF TypeOK
  <2>5. queued \in [Slots -> BufferSlot]
    BY <2>3 DEF TypeOK
  <2>6. \A r \in Slots \ {s} : queued[r] = mSlots[r]
    BY DEF TypeOK
  <2> HIDE DEF queued, f
  <2> QED
    BY <2>2, <2>4, <2>5, <2>6, SlotFields
<1>8. ASSUME NEW slot \in BufferSlot
      PROVE  /\ freed(slot).mBufferState = "FREE"
             /\ freed(slot).mGraphicBuffer = slot.mGraphicBuffer
             /\ freed(slot).mFence = slot.mFence
  BY DEF BufferSlot
<1> HIDE DEF queued, freed, f, front
<1>9. ASSUME NEW r \in Slots
      PROVE  mSlots'[r] = IF GivenUp(r) THEN freed(queued[r]) ELSE queued[r]
  BY <1>6, <1>7 DEF GivenUp, front
<1>10. ASSUME NEW r \in Slots, GivenUp(r)
       PROVE  /\ mSlots'[r].mBufferState = "FREE"
              /\ mSlots'[r].mGraphicBuffer = queued[r].mGraphicBuffer
              /\ mSlots'[r].mFence = queued[r].mFence
  BY <1>7, <1>8, <1>9, <1>10
<1>11. ASSUME NEW r \in Slots, r # s
       PROVE  /\ ~GivenUp(r) => /\ mSlots'[r] = mSlots[r]
                                /\ owedFence'[r] = owedFence[r]
              /\ GivenUp(r) =>
                      /\ mSlots'[r].mBufferState = "FREE"
                      /\ mSlots'[r].mGraphicBuffer = mSlots[r].mGraphicBuffer
                      /\ mSlots'[r].mFence = mSlots[r].mFence
                      /\ owedFence'[r] = owedFence[r]
  BY <1>5, <1>7, <1>9, <1>10, <1>11
<1>12. /\ ~GivenUp(s) =>
            /\ mSlots'[s].mBufferState = "QUEUED"
            /\ mSlots'[s].mGraphicBuffer = mSlots[s].mGraphicBuffer
            /\ mSlots'[s].mFrameNumber = f
       /\ mSlots'[s].mFence = owedFence'[s]
  BY <1>5, <1>7, <1>9, <1>10
<1> QED
  BY <1>1, <1>2, <1>3, <1>11, <1>12 DEF f

\* The FIFO after queueBuffer: one new item, at the front or at the end.
LEMMA QueueBufferQueue ==
    ASSUME TypeOK, NEW t \in Threads, NEW s \in Slots,
           NEW async \in AsyncModes, NEW stamp \in Stamps,
           QueueBuffer(t, s, async, stamp)
    PROVE  \E n \in 1..(Len(mQueue) + 1) :
             /\ n = IF Replaces THEN 1 ELSE Len(mQueue) + 1
             /\ Len(mQueue') = IF Replaces THEN Len(mQueue)
                               ELSE Len(mQueue) + 1
             /\ Replaces => Len(mQueue) > 0
             /\ mQueue'[n].mSlot = s
             /\ mQueue'[n].mGraphicBuffer = mSlots[s].mGraphicBuffer
             /\ mQueue'[n].mFrameNumber = mCore.mFrameCounter + 1
             /\ \A i \in 1..Len(mQueue') :
                  i # n => i \in 1..Len(mQueue) /\ mQueue'[i] = mQueue[i]
<1> DEFINE item == [mSlot |-> s, mGraphicBuffer |-> mSlots[s].mGraphicBuffer,
                    mFrameNumber |-> mCore.mFrameCounter + 1,
                    mAcquireCalled |-> mSlots[s].mAcquireCalled,
                    mIsDroppable |-> mCore.mDequeueBufferCannotBlock \/ async,
                    mTimestamp |-> stamp.time,
                    mIsAutoTimestamp |-> stamp.isAuto,
                    mFence |-> "producer"]
<1>1. mQueue' = Enqueue(item)
  BY DEF QueueBuffer
<1>2. /\ item.mSlot = s
      /\ item.mGraphicBuffer = mSlots[s].mGraphicBuffer
      /\ item.mFrameNumber = mCore.mFrameCounter + 1
  OBVIOUS
<1> HIDE DEF item
<1>3. mQueue \in Seq(BufferItem) /\ Len(mQueue) \in Nat
  BY DEF TypeOK
<1>4. CASE Replaces
  <2>1. mQueue' = [mQueue EXCEPT ![1] = item]
    BY <1>1, <1>4 DEF Enqueue
  <2>2. Len(mQueue) > 0
    BY <1>3, <1>4 DEF Replaces
  <2>3. /\ Len(mQueue') = Len(mQueue)
        /\ mQueue'[1] = item
        /\ \A i \in 1..Len(mQueue) : i # 1 => mQueue'[i] = mQueue[i]
    BY <1>3, <2>1, <2>2
  <2> QED
    BY <1>2, <1>3, <1>4, <2>2, <2>3
<1>5. CASE ~Replaces
  <2>1. mQueue' = Append(mQueue, item)
    BY <1>1, <1>5 DEF Enqueue
  <2>2. /\ Len(mQueue') = Len(mQueue) + 1
        /\ mQueue'[Len(mQueue) + 1] = item
        /\ \A i \in 1..Len(mQueue) : mQueue'[i] = mQueue[i]
    BY <1>3, <2>1
  <2> QED
    BY <1>2, <1>3, <1>5, <2>2
<1> QED
  BY <1>4, <1>5

\* The second half of allocateBuffers fills free slots with new buffers.
LEMMA AllocateCommitEffect ==
    ASSUME TypeOK, NEW t \in Threads, AllocateBuffersCommit(t)
    PROVE  /\ UNCHANGED <<mQueue, producerSlots, consumerItems, clientBuffers,
                          vrMode>>
           /\ \A u \in Threads \ {t} : call'[u] = call[u]
           /\ call'[t].op \in {"idle", "allocateBuffers"}
           /\ \A s \in Slots :
                \/ mSlots'[s] = mSlots[s] /\ owedFence'[s] = owedFence[s]
                \/ /\ mSlots[s].mBufferState = "FREE"
                   /\ mSlots'[s].mBufferState = "FREE"
                   /\ mSlots'[s].mGraphicBuffer \in Unreferenced
                   /\ \A r \in Slots \ {s} :
                        mSlots'[s].mGraphicBuffer # mSlots'[r].mGraphicBuffer
                   /\ mSlots'[s].mFence = owedFence'[s]
<1>1. /\ UNCHANGED <<mQueue, producerSlots, consumerItems, clientBuffers,
                     vrMode>>
      /\ \A u \in Threads \ {t} : call'[u] = call[u]
  BY AllocateFrame DEF AllocateBuffersCommit, consumer
<1>2. call'[t].op \in {"idle", "allocateBuffers"}
  <2>1. \/ Returns(t)
        \/ call' = [call EXCEPT ![t] =
              [op |-> "allocateBuffers", async |-> call[t].async,
               req |-> call[t].req]]
    BY DEF AllocateBuffersCommit
  <2> QED
    BY <2>1 DEF Returns, Idle, TypeOK
<1>3. CASE UNCHANGED <<mSlots, owedFence>>
  BY <1>1, <1>2, <1>3
<1>4. CASE ~UNCHANGED <<mSlots, owedFence>>
  <2> DEFINE filled == call[t].slots \cap InState("FREE")
             usable == {b \in Unreferenced : AttributesOf[b] = call[t].attr}
  <2>1. PICK f \in [filled -> usable] :
           /\ \A r, s \in filled : r # s => f[r] # f[s]
           /\ mSlots' = [s \in Slots |->
                 IF s \in filled
                 THEN [Freed(mSlots[s]) EXCEPT !.mGraphicBuffer = f[s]]
                 ELSE mSlots[s]]
    BY <1>4 DEF AllocateBuffersCommit
  <2>2. NoFenceOwedAt(filled)
    BY <1>4 DEF AllocateBuffersCommit
  <2>3. ASSUME NEW s \in Slots, s \in filled
        PROVE  /\ mSlots[s].mBufferState = "FREE"
               /\ mSlots'[s].mBufferState = "FREE"
               /\ mSlots'[s].mGraphicBuffer = f[s]
               /\ f[s] \in Unreferenced
               /\ mSlots'[s].mFence = owedFence'[s]
    <3>1. mSlots'[s] = [Freed(mSlots[s]) EXCEPT !.mGraphicBuffer = f[s]]
      BY <2>1, <2>3
    <3>2. Freed(mSlots[s]) \in BufferSlot
      BY FreedType, SlotIsRecord
    <3>3. /\ mSlots'[s].mBufferState = "FREE"
          /\ mSlots'[s].mGraphicBuffer = f[s]
          /\ mSlots'[s].mFence = "NO_FENCE"
      BY <3>1, <3>2, SlotFields, SlotIsRecord DEF BufferSlot
    <3>4. owedFence'[s] = "NO_FENCE"
      BY <2>2, <2>3 DEF NoFenceOwedAt
    <3> QED
      BY <2>1, <2>3, <3>3, <3>4 DEF InState
  <2>4. ASSUME NEW s \in Slots, s \notin filled
        PROVE  mSlots'[s] = mSlots[s] /\ owedFence'[s] = owedFence[s]
    BY <2>1, <2>2, <2>4 DEF NoFenceOwedAt
  <2> HIDE DEF filled, usable
  <2>5. ASSUME NEW s \in Slots, s \in filled, NEW r \in Slots \ {s}
        PROVE  mSlots'[s].mGraphicBuffer # mSlots'[r].mGraphicBuffer
    <3>1. CASE r \in filled
      BY <2>1, <2>3, <2>5, <3>1
    <3>2. CASE r \notin filled
      BY <2>3, <2>4, <2>5, <3>2 DEF Unreferenced
    <3> QED
      BY <3>1, <3>2
  <2> QED
    BY <1>1, <1>2, <2>3, <2>4, <2>5
<1> QED
  BY <1>3, <1>4

\* acquireBuffer, taking the n-th item of the FIFO: the slots of the items
\* before it that are still tracked are freed, its own is acquired.
DroppedBefore(n, r) ==
    \E i \in 1..(n - 1) : StillTracking(mQueue[i]) /\ mQueue[i].mSlot = r
TakenAt(n, r) == StillTracking(mQueue[n]) /\ mQueue[n].mSlot = r

AcquireEffect(n) ==
    /\ Len(mQueue') = Len(mQueue) - n
    /\ \A i \in 1..Len(mQueue') :
          i + n \in 1..Len(mQueue) /\ mQueue'[i] = mQueue[i + n]
    /\ \A r \in Slots :
         /\ ~TakenAt(n, r) =>
              /\ owedFence'[r] = owedFence[r]
              /\ ~DroppedBefore(n, r) => mSlots'[r] = mSlots[r]
              /\ DroppedBefore(n, r) =>
                   /\ mSlots'[r].mBufferState = "FREE"
                   /\ mSlots'[r].mGraphicBuffer = mSlots[r].mGraphicBuffer
                   /\ mSlots'[r].mFence = mSlots[r].mFence
         /\ TakenAt(n, r) =>
              /\ mSlots'[r].mBufferState = "ACQUIRED"
              /\ mSlots'[r].mGraphicBuffer = mSlots[r].mGraphicBuffer
              /\ mSlots'[r].mFrameNumber = mSlots[r].mFrameNumber
              /\ mSlots'[r].mFence = owedFence'[r]
    /\ consumerItems' = consumerItems \cup
          {[slot |-> mQueue[n].mSlot, frame |-> mQueue[n].mFrameNumber,
            buffer |-> mQueue[n].mGraphicBuffer]}

\* acquireBuffer hands out one frame, which AcquireEffect describes, and leaves
\* the core and the calls alone.
LEMMA AcquireBufferEffect ==
    ASSUME TypeOK, NEW expectedPresent \in PresentTimes,
           AcquireBuffer(expectedPresent)
    PROVE  /\ UNCHANGED <<mCore, vrMode, call, producerSlots, clientBuffers>>
           /\ \E n \in 1..Len(mQueue) : AcquireEffect(n)
<1>0. UNCHANGED <<mCore, vrMode, call, producerSlots, clientBuffers>>
  BY DEF AcquireBuffer
<1> DEFINE dropSlots(n) == {mQueue[i].mSlot :
                   i \in {j \in 1..(n - 1) : StillTracking(mQueue[j])}}
           afterDrop(n) == [s \in Slots |->
                              IF s \in dropSlots(n)
                              THEN [mSlots[s] EXCEPT !.mBufferState = "FREE"]
                              ELSE mSlots[s]]
<1>1. PICK n \in 1..Len(mQueue) :
          /\ mSlots' = IF StillTracking(mQueue[n])
                       THEN [afterDrop(n) EXCEPT
                               ![mQueue[n].mSlot] = Acquired(@)]
                       ELSE afterDrop(n)
          /\ owedFence' = IF StillTracking(mQueue[n])
                          THEN [owedFence EXCEPT
                                  ![mQueue[n].mSlot] = "NO_FENCE"]
                          ELSE owedFence
          /\ mQueue' = SubSeq(mQueue, n + 1, Len(mQueue))
          /\ consumerItems' = consumerItems \cup
                {[slot |-> mQueue[n].mSlot, frame |-> mQueue[n].mFrameNumber,
                  buffer |-> mQueue[n].mGraphicBuffer]}
  BY DEF AcquireBuffer
<1>2. mQueue \in Seq(BufferItem) /\ Len(mQueue) \in Nat
  BY DEF TypeOK
<1>3. /\ Len(mQueue') = Len(mQueue) - n
      /\ \A i \in 1..Len(mQueue') :
            i + n \in 1..Len(mQueue) /\ mQueue'[i] = mQueue[i + n]
  BY <1>1, <1>2
<1> DEFINE D == afterDrop(n)
<1>4. ASSUME NEW r \in Slots
      PROVE  /\ D[r] \in BufferSlot
             /\ ~DroppedBefore(n, r) => D[r] = mSlots[r]
             /\ DroppedBefore(n, r) => D[r].mBufferState = "FREE"
             /\ D[r].mGraphicBuffer = mSlots[r].mGraphicBuffer
             /\ D[r].mFrameNumber = mSlots[r].mFrameNumber
             /\ D[r].mFence = mSlots[r].mFence
  <2>1. r \in dropSlots(n) <=> DroppedBefore(n, r)
    BY DEF DroppedBefore
  <2>2. mSlots[r] \in BufferSlot
    BY SlotIsRecord
  <2>3. D[r] = IF DroppedBefore(n, r)
               THEN [mSlots[r] EXCEPT !.mBufferState = "FREE"] ELSE mSlots[r]
    BY <2>1
  <2> QED
    BY <2>2, <2>3 DEF BufferSlot
<1>5. D = [r \in Slots |-> D[r]]
  OBVIOUS
<1>6. /\ mSlots' = IF StillTracking(mQueue[n])
                   THEN [D EXCEPT ![mQueue[n].mSlot] = Acquired(@)] ELSE D
      /\ mQueue[n].mSlot \in Slots
      /\ owedFence' = IF StillTracking(mQueue[n])
                      THEN [owedFence EXCEPT ![mQueue[n].mSlot] = "NO_FENCE"]
                      ELSE owedFence
  BY <1>1, ItemTypes
<1> HIDE DEF D, afterDrop, dropSlots
<1>7. ASSUME NEW r \in Slots
      PROVE  /\ TakenAt(n, r) => /\ mSlots'[r] = Acquired(D[r])
                                 /\ owedFence'[r] = "NO_FENCE"
             /\ ~TakenAt(n, r) => /\ mSlots'[r] = D[r]
                                  /\ owedFence'[r] = owedFence[r]
  <2>1. owedFence = [q \in Slots |-> owedFence[q]]
    BY DEF TypeOK
  <2> QED
    BY <1>5, <1>6, <2>1 DEF TakenAt
<1>8. ASSUME NEW r \in Slots
      PROVE  /\ TakenAt(n, r) =>
                  /\ mSlots'[r].mBufferState = "ACQUIRED"
                  /\ mSlots'[r].mGraphicBuffer = mSlots[r].mGraphicBuffer
                  /\ mSlots'[r].mFrameNumber = mSlots[r].mFrameNumber
                  /\ mSlots'[r].mFence = owedFence'[r]
             /\ ~TakenAt(n, r) =>
                  /\ owedFence'[r] = owedFence[r]
                  /\ ~DroppedBefore(n, r) => mSlots'[r] = mSlots[r]
                  /\ DroppedBefore(n, r) =>
                       /\ mSlots'[r].mBufferState = "FREE"
                       /\ mSlots'[r].mGraphicBuffer = mSlots[r].mGraphicBuffer
                       /\ mSlots'[r].mFence = mSlots[r].mFence
  <2>1. /\ Acquired(D[r]).mBufferState = "ACQUIRED"
        /\ Acquired(D[r]).mGraphicBuffer = D[r].mGraphicBuffer
        /\ Acquired(D[r]).mFrameNumber = D[r].mFrameNumber
        /\ Acquired(D[r]).mFence = "NO_FENCE"
    BY <1>4, SlotFields
  <2> QED
    BY <1>4, <1>7, <2>1
<1> QED
  BY <1>0, <1>1, <1>3, <1>8 DEF AcquireEffect

\* releaseBuffer frees the slot of the item, with the consumer's fence.
LEMMA ReleaseBufferEffect ==
    ASSUME TypeOK, NEW item \in consumerItems, ReleaseBuffer(item)
    PROVE  /\ UNCHANGED <<mQueue, mCore, vrMode, call, producerSlots,
                          clientBuffers>>
           /\ consumerItems' = consumerItems \ {item}
           /\ mSlots[item.slot].mBufferState = "ACQUIRED"
           /\ mSlots[item.slot].mFrameNumber = item.frame
           /\ mSlots'[item.slot].mBufferState = "FREE"
           /\ mSlots'[item.slot].mGraphicBuffer =
                 mSlots[item.slot].mGraphicBuffer
           /\ mSlots'[item.slot].mFence = owedFence'[item.slot]
           /\ \A r \in Slots \ {item.slot} : /\ mSlots'[r] = mSlots[r]
                                             /\ owedFence'[r] = owedFence[r]
<1>1. item.slot \in Slots
  BY ItemTypes
<1>2. /\ UNCHANGED <<mQueue, mCore, vrMode, call, producerSlots,
                     clientBuffers>>
      /\ consumerItems' = consumerItems \ {item}
      /\ mSlots[item.slot].mBufferState = "ACQUIRED"
      /\ mSlots[item.slot].mFrameNumber = item.frame
  BY DEF ReleaseBuffer, IsStale
<1>3. /\ mSlots'[item.slot] = Released(mSlots[item.slot])
      /\ owedFence'[item.slot] = "consumer"
      /\ \A r \in Slots \ {item.slot} : /\ mSlots'[r] = mSlots[r]
                                        /\ owedFence'[r] = owedFence[r]
  BY <1>1 DEF ReleaseBuffer, TypeOK
<1> QED
  BY <1>1, <1>2, <1>3, SlotFields, SlotIsRecord

\* The consumer's attachBuffer puts a buffer into a free slot, as acquired.
LEMMA ConsumerAttachEffect ==
    ASSUME TypeOK, NEW b \in Attachable, ConsumerAttachBuffer(b)
    PROVE  /\ UNCHANGED <<mQueue, mCore, vrMode, call, producerSlots>>
           /\ clientBuffers' = clientBuffers \ {b}
           /\ "consumerAttachBuffer" \in Calls
           /\ \E s \in Slots :
                /\ mSlots[s].mBufferState = "FREE"
                /\ mSlots'[s].mBufferState = "ACQUIRED"
                /\ mSlots'[s].mGraphicBuffer = b
                /\ mSlots'[s].mFence = owedFence'[s]
                /\ \A r \in Slots \ {s} : /\ mSlots'[r] = mSlots[r]
                                          /\ owedFence'[r] = owedFence[r]
<1>1. /\ UNCHANGED <<mQueue, mCore, vrMode, call, producerSlots>>
      /\ clientBuffers' = clientBuffers \ {b}
      /\ "consumerAttachBuffer" \in Calls
  BY DEF ConsumerAttachBuffer, threads
<1>2. PICK s \in Slots :
         /\ IsOldest(s, InState("FREE"))
         /\ mSlots' = [mSlots EXCEPT ![s] = AttachedAcquired(@, b)]
         /\ NoFenceOwedAt({s})
  BY DEF ConsumerAttachBuffer
<1>3. /\ mSlots[s].mBufferState = "FREE"
      /\ mSlots'[s] = AttachedAcquired(mSlots[s], b)
      /\ owedFence'[s] = "NO_FENCE"
      /\ \A r \in Slots \ {s} : /\ mSlots'[r] = mSlots[r]
                                /\ owedFence'[r] = owedFence[r]
  BY <1>2 DEF IsOldest, InState, NoFenceOwedAt, TypeOK
<1>4. /\ mSlots'[s].mBufferState = "ACQUIRED"
      /\ mSlots'[s].mGraphicBuffer = b
      /\ mSlots'[s].mFence = owedFence'[s]
  BY <1>3, SlotFields, SlotIsRecord
<1> QED
  BY <1>1, <1>3, <1>4

\* A detach empties one slot whose buffer goes to a client: the producer's from
\* a DEQUEUED slot, detachNextBuffer from a FREE one, the consumer's from an
\* ACQUIRED one.
DetachEffect(s) ==
    /\ UNCHANGED <<mQueue, mCore, vrMode>>
    /\ CalmSlots /\ FenceKept
    /\ mSlots[s].mBufferState \in {"FREE", "DEQUEUED", "ACQUIRED"}
    /\ mSlots'[s] = Freed(mSlots[s])
    /\ \A r \in Slots \ {s} : mSlots'[r] = mSlots[r]
    /\ clientBuffers' = clientBuffers \cup ({mSlots[s].mGraphicBuffer} \ {NULL})

\* The three ways of detaching a buffer empty its slot and give it to a client.
LEMMA DetachEffects ==
    ASSUME TypeOK
    PROVE  /\ \A t \in Threads, s \in Slots :
                ProducerDetachBuffer(t, s) =>
                  /\ DetachEffect(s)
                  /\ mSlots[s].mBufferState = "DEQUEUED"
                  /\ s \in producerSlots /\ producerSlots' = producerSlots \ {s}
                  /\ UNCHANGED <<call, consumerItems>>
           /\ \A t \in Threads :
                DetachNextBuffer(t) =>
                  /\ UNCHANGED <<mQueue, mCore, vrMode, producerSlots,
                                 consumerItems>>
                  /\ Returns(t)
                  /\ \/ UNCHANGED <<mSlots, owedFence, clientBuffers>>
                     \/ \E s \in Slots : /\ DetachEffect(s)
                                         /\ mSlots[s].mBufferState = "FREE"
           /\ \A item \in consumerItems :
                ConsumerDetachBuffer(item) =>
                  /\ DetachEffect(item.slot)
                  /\ mSlots[item.slot].mBufferState = "ACQUIRED"
                  /\ mSlots[item.slot].mGraphicBuffer = item.buffer
                  /\ consumerItems' = consumerItems \ {item}
                  /\ UNCHANGED <<call, producerSlots>>
<1> USE DEF consumer
<1>0. ASSUME NEW s \in Slots, mSlots' = FreedAt({s}), NoFenceOwedAt({s})
      PROVE  /\ CalmSlots /\ FenceKept
             /\ mSlots'[s] = Freed(mSlots[s])
             /\ \A r \in Slots \ {s} : mSlots'[r] = mSlots[r]
  BY <1>0, FreedCalm DEF FreedAt
<1>1. ASSUME NEW t \in Threads, NEW s \in Slots, ProducerDetachBuffer(t, s)
      PROVE  /\ DetachEffect(s)
             /\ mSlots[s].mBufferState = "DEQUEUED"
             /\ s \in producerSlots /\ producerSlots' = producerSlots \ {s}
             /\ UNCHANGED <<call, consumerItems>>
  BY <1>0, <1>1 DEF ProducerDetachBuffer, DetachEffect
<1>2. ASSUME NEW t \in Threads, DetachNextBuffer(t)
      PROVE  /\ UNCHANGED <<mQueue, mCore, vrMode, producerSlots,
                            consumerItems>>
             /\ Returns(t)
             /\ \/ UNCHANGED <<mSlots, owedFence, clientBuffers>>
                \/ \E s \in Slots : /\ DetachEffect(s)
                                    /\ mSlots[s].mBufferState = "FREE"
  <2>1. /\ UNCHANGED <<mQueue, mCore, vrMode, producerSlots, consumerItems>>
        /\ Returns(t)
    BY <1>2 DEF DetachNextBuffer
  <2>2. ASSUME NEW s \in Slots,
               IsOldest(s, {r \in InState("FREE") :
                              mSlots[r].mGraphicBuffer # NULL}),
               mSlots' = FreedAt({s}), NoFenceOwedAt({s}),
               clientBuffers' = clientBuffers \cup {mSlots[s].mGraphicBuffer}
        PROVE  DetachEffect(s) /\ mSlots[s].mBufferState = "FREE"
    <3>1. mSlots[s].mBufferState = "FREE" /\ mSlots[s].mGraphicBuffer # NULL
      BY <2>2 DEF IsOldest, InState
    <3> QED
      BY <1>0, <2>1, <2>2, <3>1 DEF DetachEffect
  <2> QED
    BY <1>2, <2>1, <2>2 DEF DetachNextBuffer
<1>3. ASSUME NEW item \in consumerItems, ConsumerDetachBuffer(item)
      PROVE  /\ DetachEffect(item.slot)
             /\ mSlots[item.slot].mBufferState = "ACQUIRED"
             /\ mSlots[item.slot].mGraphicBuffer = item.buffer
             /\ consumerItems' = consumerItems \ {item}
             /\ UNCHANGED <<call, producerSlots>>
  BY <1>0, <1>3, ItemTypes DEF ConsumerDetachBuffer, DetachEffect
<1> QED
  BY <1>1, <1>2, <1>3

-----------------------------------------------------------------------------
(* Fences *)

\* Outside VR mode every step stores in a slot the fence its last owner handed
\* in.
LEMMA FenceStep ==
    ASSUME TypeOK, [Next]_vars
    PROVE  FenceKept
<1>1. CASE Calm
  BY <1>1 DEF Calm
<1>2. ASSUME NEW t \in Threads, NEW b \in Attachable,
             Enter(t, [op |-> "attachBuffer", buffer |-> b])
      PROVE  FenceKept
  BY <1>2, SameSlotsCalm DEF Enter, clients
<1>3. ASSUME NEW t \in Threads, DequeueAllocate(t)
      PROVE  FenceKept
  BY <1>3, DequeueAllocateEffect DEF FenceKept
<1>4. ASSUME NEW t \in Threads, ProducerAttachBuffer(t) \/ AttachRetry(t)
      PROVE  FenceKept
  <2>1. AttachTurn(t) /\ Attaching(t)
    BY <1>4 DEF ProducerAttachBuffer, AttachRetry, Runs, Attaching
  <2>2. CASE Calm
    BY <2>2 DEF Calm
  <2>3. CASE ~Calm
    BY <2>1, <2>3, AttachTurnEffect, FreedFields DEF FenceKept
  <2> QED
    BY <2>2, <2>3
<1>5. ASSUME NEW t \in Threads, NEW s \in Slots, ProducerDetachBuffer(t, s)
      PROVE  FenceKept
  BY <1>5, DetachEffects DEF DetachEffect
<1>6. ASSUME NEW t \in Threads, DetachNextBuffer(t)
      PROVE  FenceKept
  BY <1>6, DetachEffects, SameSlotsCalm DEF DetachEffect
<1>7. ASSUME NEW t \in Threads, NEW s \in Slots, NEW async \in AsyncModes,
             NEW stamp \in Stamps, QueueBuffer(t, s, async, stamp)
      PROVE  FenceKept
  BY <1>7, QueueBufferEffect DEF FenceKept
<1>8. ASSUME NEW t \in Threads, AllocateBuffersCommit(t)
      PROVE  FenceKept
  BY <1>8, AllocateCommitEffect DEF FenceKept
<1>9. ASSUME NEW expectedPresent \in PresentTimes,
             AcquireBuffer(expectedPresent)
      PROVE  FenceKept
  BY <1>9, AcquireBufferEffect DEF FenceKept, AcquireEffect
<1>10. ASSUME NEW item \in consumerItems, ConsumerDetachBuffer(item)
       PROVE  FenceKept
  BY <1>10, DetachEffects DEF DetachEffect
<1>11. ASSUME NEW item \in consumerItems, ReleaseBuffer(item)
       PROVE  FenceKept
  BY <1>11, ReleaseBufferEffect DEF FenceKept
<1>12. ASSUME NEW b \in Attachable, ConsumerAttachBuffer(b)
       PROVE  FenceKept
  BY <1>12, ConsumerAttachEffect DEF FenceKept
<1> QED
  BY <1>1, <1>2, <1>3, <1>4, <1>5, <1>6, <1>7, <1>8, <1>9, <1>10, <1>11,
     <1>12, CalmStep DEF BoldStep

\* FenceHandedOver speaks of the buffers that wait for their next owner; what
\* every step keeps is that all slots have the fence owed, while nobody turns
\* VR mode on.
FencesExact ==
    /\ vrMode = FALSE
    /\ \A s \in Slots : mSlots[s].mFence = owedFence[s]

\* VR mode is only turned on by its property.
LEMMA NoVRMode ==
    ASSUME TypeOK, "setVRMode" \notin Calls, [Next]_vars
    PROVE  UNCHANGED vrMode
<1> USE DEF threads, consumer, clients
<1>1. ASSUME NEW t \in Threads, ProducerCall(t)
      PROVE  UNCHANGED vrMode
  BY <1>1 DEF ProducerCall, Enter, RequestBuffer, ProducerDetachBuffer,
     CancelBuffer, QueueBufferInVRMode, QueueBuffer, ProducerConnect,
     SetSidebandStream
<1>2. ASSUME NEW t \in Threads, ProducerStep(t)
      PROVE  UNCHANGED vrMode
  BY <1>2 DEF ProducerStep, WaitWhileAllocating, SetBufferCount,
     DequeueBuffer, DequeueRetry, DequeueTurn, DequeueAllocate,
     DequeueReturn, DetachNextBuffer, ProducerAttachBuffer, AttachRetry,
     AttachTurn, CallBack, CallBackReleased, ProducerDisconnect,
     AllocateBuffers, AllocateBuffersCommit
<1>3. CASE ConsumerCall
  BY <1>3 DEF ConsumerCall, AcquireBuffer, ConsumerDetachBuffer,
     ReleaseBuffer, ReleaseStaleBuffer, ConsumerAttachBuffer,
     ConsumerConnect, ConsumerDisconnect, SetDefaultBufferSize,
     SetDefaultBufferFormat, SetConsumerUsageBits, SetDefaultMaxBufferCount,
     DisableAsyncBuffer, SetMaxAcquiredBufferCount
<1>4. CASE UNCHANGED vars
  BY <1>4 DEF vars
<1> QED
  BY <1>1, <1>2, <1>3, <1>4 DEF Next, BinderDied, DropClientBuffer, SetVRMode

\* Without VR mode a buffer always passes to its next owner with the fence its
\* last owner handed to queueBuffer, cancelBuffer or releaseBuffer, through
\* drops, replacements, detaches and disconnects of any number of threads.
THEOREM FencesHandedOver ==
    ASSUME "setVRMode" \notin Calls
    PROVE  Spec => []FenceHandedOver
<1>1. Init => FencesExact
  BY DEF Init, FencesExact, EmptySlot
<1>2. TypeOK /\ FencesExact /\ [Next]_vars => FencesExact'
  <2> SUFFICES ASSUME TypeOK, FencesExact, [Next]_vars
               PROVE  FencesExact'
    OBVIOUS
  <2>1. FenceKept /\ UNCHANGED vrMode
    BY FenceStep, NoVRMode
  <2> QED
    BY <2>1 DEF FencesExact, FenceKept
<1>3. FencesExact => FenceHandedOver
  BY DEF FencesExact, FenceHandedOver
<1> QED
  BY <1>1, <1>2, <1>3, TypeCorrect, PTL DEF Spec

-----------------------------------------------------------------------------
(* Where a buffer is *)

\* No buffer is in two slots.
BufferInOneSlot ==
    \A r, s \in Slots : BufferIn(r) = BufferIn(s) /\ BufferIn(s) # NULL => r = s

\* The buffer of a frame in the FIFO is in no slot, or in that frame's slot,
\* which is QUEUED under the frame's number.
FramesAtHome ==
    \A i \in 1..Len(mQueue), s \in Slots :
        BufferIn(s) = mQueue[i].mGraphicBuffer =>
            /\ mQueue[i].mSlot = s
            /\ StateOf(s) = "QUEUED"
            /\ FrameIn(s) = Frame(i)

\* No buffer is in two frames of the FIFO.
BufferInOneFrame ==
    \A i, j \in 1..Len(mQueue) :
        mQueue[i].mGraphicBuffer = mQueue[j].mGraphicBuffer => i = j

\* Buffer b is in no slot and no frame.
Outside(b) ==
    /\ \A s \in Slots : BufferIn(s) # b
    /\ \A i \in 1..Len(mQueue) : mQueue[i].mGraphicBuffer # b

\* The buffers attachBuffer was given are outside until it puts them into a
\* slot, and no two threads attach the same one.
AttachedOutside ==
    /\ \A t \in Threads : Attaching(t) => Outside(call[t].buffer)
    /\ \A t, u \in Threads :
         /\ Attaching(t) /\ Attaching(u)
         /\ call[t].buffer = call[u].buffer
         => t = u

\* The strengthening that makes DetachedStaysOut inductive.
Homes ==
    /\ BufferInOneSlot
    /\ FramesAtHome
    /\ BufferInOneFrame
    /\ AttachedOutside
    /\ DetachedStaysOut

\* What a client may attach, and what the allocator may create, is outside.
LEMMA AttachableOutside ==
    ASSUME TypeOK, Homes
    PROVE  /\ \A b \in Unreferenced : /\ Outside(b)
                                      /\ b \notin clientBuffers
                                      /\ \A x \in consumerItems : x.buffer # b
           /\ \A b \in Attachable : Outside(b)
           /\ \A b \in Unreferenced \cup Attachable, t \in Threads :
                 Attaching(t) => call[t].buffer # b
<1>1. \A b \in Unreferenced : /\ Outside(b)
                              /\ b \notin clientBuffers
                              /\ \A x \in consumerItems : x.buffer # b
  BY DEF Unreferenced, Outside, BufferIn
<1>2. \A b \in Attachable : Outside(b)
  BY <1>1 DEF Attachable, Homes, DetachedStaysOut, Outside, BufferIn
<1>3. \A b \in Unreferenced \cup Attachable, t \in Threads :
         Attaching(t) => call[t].buffer # b
  BY DEF Attachable, Unreferenced, BeingAttached, Attaching
<1> QED
  BY <1>1, <1>2, <1>3

\* Calm steps keep every buffer where it is or take it out of the queue.
LEMMA CalmHomes == ASSUME TypeOK, Homes, Calm PROVE Homes'
<1>1. \A s \in Slots : \/ BufferIn(s)' = NULL
                       \/ /\ BufferIn(s)' = BufferIn(s)
                          /\ \/ /\ StateOf(s)' = StateOf(s)
                                /\ FrameIn(s)' = FrameIn(s)
                             \/ StateOf(s) # "QUEUED"
  BY DEF Calm, CalmSlots, SlotKept, BufferIn, StateOf, FrameIn
<1>2. /\ Len(mQueue') \in Nat
      /\ \A i \in 1..Len(mQueue') : /\ i \in 1..Len(mQueue)
                                    /\ mQueue'[i] = mQueue[i]
                                    /\ Frame(i)' = Frame(i)
  BY DEF Calm, CalmQueue, TypeOK, Frame
<1>3. \A t \in Threads : Attaching(t)' => /\ Attaching(t)
                                          /\ call'[t].buffer = call[t].buffer
                                          /\ call[t].buffer # NULL
  BY CallType, BuffersAssumption DEF Calm, CalmCalls, Attaching
<1>4. clientBuffers' \subseteq clientBuffers /\ NULL \notin clientBuffers
  BY BuffersAssumption DEF Calm, TypeOK
<1>5. BufferInOneSlot'
  BY <1>1 DEF Homes, BufferInOneSlot
<1>6. FramesAtHome'
  BY <1>1, <1>2, ItemTypes DEF Homes, FramesAtHome
<1>7. BufferInOneFrame'
  BY <1>2 DEF Homes, BufferInOneFrame
<1>8. \A b : b # NULL /\ Outside(b) => Outside(b)'
  BY <1>1, <1>2 DEF Outside
<1>9. AttachedOutside'
  BY <1>3, <1>8 DEF Homes, AttachedOutside
<1>10. DetachedStaysOut'
  BY <1>4, <1>8 DEF Homes, DetachedStaysOut, Outside, BufferIn
<1> QED
  BY <1>5, <1>6, <1>7, <1>9, <1>10 DEF Homes

\* A buffer from outside comes into slot s, and nobody else has it any more.
Filled(s) ==
    /\ Outside(mSlots'[s].mGraphicBuffer)
    /\ \A r \in Slots \ {s} :
          mSlots'[r].mGraphicBuffer # mSlots'[s].mGraphicBuffer
    /\ mSlots'[s].mGraphicBuffer \notin clientBuffers'
    /\ \A t \in Threads :
          call'[t].op \in {"attachBuffer", "attachRetry"} =>
             call'[t].buffer # mSlots'[s].mGraphicBuffer

\* Filling slots with buffers from outside keeps every buffer in one place.
LEMMA FilledHomes ==
    ASSUME TypeOK, Homes, UNCHANGED mQueue, CalmCalls,
           clientBuffers' \subseteq clientBuffers,
           \A s \in Slots : SlotKept(mSlots[s], mSlots'[s]) \/ Filled(s)
    PROVE  Homes'
<1>1. \A s \in Slots : \/ BufferIn(s)' = NULL
                       \/ /\ BufferIn(s)' = BufferIn(s)
                          /\ \/ /\ StateOf(s)' = StateOf(s)
                                /\ FrameIn(s)' = FrameIn(s)
                             \/ StateOf(s) # "QUEUED"
                       \/ Filled(s)
  BY DEF SlotKept, BufferIn, StateOf, FrameIn
<1>2. /\ \A i : Frame(i)' = Frame(i)
      /\ \A i \in 1..Len(mQueue) : mQueue[i].mGraphicBuffer # NULL
  BY ItemTypes DEF Frame
<1>3. \A t \in Threads : Attaching(t)' => /\ Attaching(t)
                                          /\ call'[t].buffer = call[t].buffer
                                          /\ call[t].buffer # NULL
  BY CallType, BuffersAssumption DEF CalmCalls, Attaching
<1>4. NULL \notin clientBuffers
  BY BuffersAssumption DEF TypeOK
<1>5. \A s \in Slots : Filled(s) =>
         /\ \A i \in 1..Len(mQueue) :
               mQueue[i].mGraphicBuffer # BufferIn(s)'
         /\ \A r \in Slots \ {s} : BufferIn(r)' # BufferIn(s)'
  BY DEF Filled, Outside, BufferIn
<1>6. BufferInOneSlot'
  BY <1>1, <1>5 DEF Homes, BufferInOneSlot
<1>7. FramesAtHome'
  BY <1>1, <1>2, <1>5 DEF Homes, FramesAtHome
<1>8. BufferInOneFrame'
  BY DEF Homes, BufferInOneFrame
<1>9. \A b : /\ b # NULL /\ Outside(b)
             /\ \A s \in Slots : Filled(s) => BufferIn(s)' # b
             => Outside(b)'
  BY <1>1 DEF Outside
<1>10. AttachedOutside'
  <2>1. ASSUME NEW t \in Threads, Attaching(t)'
        PROVE  Outside(call[t].buffer)' /\ call'[t].buffer = call[t].buffer
    <3>1. \A s \in Slots : Filled(s) => BufferIn(s)' # call[t].buffer
      BY <1>3, <2>1 DEF Filled, Attaching, BufferIn
    <3>2. Outside(call[t].buffer)
      BY <1>3, <2>1 DEF Homes, AttachedOutside
    <3>3. \A b : b = call[t].buffer => Outside(b)'
      BY <1>3, <1>9, <2>1, <3>1, <3>2
    <3> QED
      BY <1>3, <2>1, <3>3 DEF Outside
  <2> QED
    BY <1>3, <2>1 DEF Homes, AttachedOutside, Outside
<1>11. DetachedStaysOut'
  <2>1. ASSUME NEW b \in clientBuffers'
        PROVE  Outside(b)'
    BY <1>4, <1>9, <2>1
    DEF Homes, DetachedStaysOut, Outside, Filled, BufferIn
  <2> QED
    BY <2>1 DEF DetachedStaysOut, Outside, BufferIn
<1> QED
  BY <1>6, <1>7, <1>8, <1>10, <1>11 DEF Homes

\* A detach moves a buffer from its slot to a client.
LEMMA DetachHomes ==
    ASSUME TypeOK, Homes, CalmCalls, NEW s \in Slots, DetachEffect(s)
    PROVE  Homes'
<1>1. \A r \in Slots : BufferIn(r)' = IF r = s THEN NULL ELSE BufferIn(r)
  BY FreedFields DEF DetachEffect, BufferIn
<1>2. \A r \in Slots : r # s => /\ StateOf(r)' = StateOf(r)
                                /\ FrameIn(r)' = FrameIn(r)
  BY DEF DetachEffect, StateOf, FrameIn
<1>3. UNCHANGED mQueue /\ \A i : Frame(i)' = Frame(i)
  BY DEF DetachEffect, Frame
<1>4. \A i \in 1..Len(mQueue) : mQueue[i].mGraphicBuffer # NULL
  BY ItemTypes
<1>5. \A t \in Threads : Attaching(t)' => /\ Attaching(t)
                                          /\ call'[t].buffer = call[t].buffer
                                          /\ call[t].buffer # NULL
  BY CallType, BuffersAssumption DEF CalmCalls, Attaching
<1>6. BufferInOneSlot'
  BY <1>1 DEF Homes, BufferInOneSlot
<1>7. FramesAtHome'
  BY <1>1, <1>2, <1>3, <1>4 DEF Homes, FramesAtHome
<1>8. BufferInOneFrame'
  BY <1>3 DEF Homes, BufferInOneFrame
<1>9. \A b : b # NULL /\ Outside(b) => Outside(b)'
  BY <1>1, <1>3 DEF Outside
<1>10. AttachedOutside'
  BY <1>5, <1>9 DEF Homes, AttachedOutside
<1>11. DetachedStaysOut'
  <2>1. \A b \in clientBuffers' : Outside(b)'
    <3>1. \A b : b = BufferIn(s) /\ b # NULL => Outside(b)'
      BY <1>1, <1>3
      DEF Homes, BufferInOneSlot, FramesAtHome, Outside, DetachEffect, StateOf
    <3>2. \A b \in clientBuffers' :
             b \in clientBuffers \/ (b = BufferIn(s) /\ b # NULL)
      BY DEF DetachEffect, BufferIn
    <3>3. \A b \in clientBuffers : b # NULL /\ Outside(b)
      BY BuffersAssumption
      DEF Homes, DetachedStaysOut, Outside, BufferIn, TypeOK
    <3> QED
      BY <1>9, <3>1, <3>2, <3>3
  <2> QED
    BY <2>1 DEF DetachedStaysOut, Outside, BufferIn
<1> QED
  BY <1>6, <1>7, <1>8, <1>10, <1>11 DEF Homes

\* A slot that queueBuffer gives up is not the one it queues.
LEMMA GivenUpElsewhere ==
    ASSUME TypeOK, Homes, NEW s \in Slots, mSlots[s].mBufferState # "QUEUED"
    PROVE  ~GivenUp(s)
<1> SUFFICES ASSUME GivenUp(s) PROVE FALSE
  OBVIOUS
<1>1. 1 \in 1..Len(mQueue) /\ BufferIn(s) = mQueue[1].mGraphicBuffer
  BY DEF GivenUp, Replaces, StillTracking, BufferIn, TypeOK
<1> QED
  BY <1>1 DEF Homes, FramesAtHome, StateOf

\* queueBuffer moves the buffer of its slot into one frame, and a frame it
\* replaces leaves its slot to the queue.
LEMMA QueueHomes ==
    ASSUME TypeOK, Homes, NEW t \in Threads, NEW s \in Slots,
           NEW async \in AsyncModes, NEW stamp \in Stamps,
           QueueBuffer(t, s, async, stamp)
    PROVE  Homes'
<1>1. PICK n \in 1..(Len(mQueue) + 1) :
             /\ n = IF Replaces THEN 1 ELSE Len(mQueue) + 1
             /\ Len(mQueue') = IF Replaces THEN Len(mQueue)
                               ELSE Len(mQueue) + 1
             /\ Replaces => Len(mQueue) > 0
             /\ mQueue'[n].mSlot = s
             /\ mQueue'[n].mGraphicBuffer = mSlots[s].mGraphicBuffer
             /\ mQueue'[n].mFrameNumber = mCore.mFrameCounter + 1
             /\ \A i \in 1..Len(mQueue') :
                  i # n => i \in 1..Len(mQueue) /\ mQueue'[i] = mQueue[i]
  BY QueueBufferQueue
<1>2. /\ mSlots[s].mBufferState = "DEQUEUED"
      /\ mSlots[s].mGraphicBuffer # NULL
      /\ call'[t].op = "onFrame"
      /\ \A u \in Threads \ {t} : call'[u] = call[u]
      /\ UNCHANGED <<clientBuffers>>
  BY QueueBufferEffect
<1>3. ~GivenUp(s)
  BY <1>2, GivenUpElsewhere
<1>4. /\ \A r \in Slots : BufferIn(r)' = BufferIn(r)
      /\ \A r \in Slots : r # s /\ ~GivenUp(r) => /\ StateOf(r)' = StateOf(r)
                                                  /\ FrameIn(r)' = FrameIn(r)
      /\ StateOf(s)' = "QUEUED"
      /\ FrameIn(s)' = mCore.mFrameCounter + 1
  BY <1>3, QueueBufferEffect DEF BufferIn, StateOf, FrameIn
<1>5. StateOf(s) # "QUEUED" /\ BufferIn(s) # NULL
  BY <1>2 DEF StateOf, BufferIn
<1>6. /\ Frame(n)' = mCore.mFrameCounter + 1
      /\ \A i \in 1..Len(mQueue') : i # n => Frame(i)' = Frame(i)
  BY <1>1 DEF Frame
<1>7. \A i \in 1..Len(mQueue) : mQueue[i].mGraphicBuffer # BufferIn(s)
  BY <1>5 DEF Homes, FramesAtHome
<1>8. /\ mQueue'[n].mGraphicBuffer = BufferIn(s)
      /\ mQueue'[n].mSlot = s
      /\ \A i \in 1..Len(mQueue') :
           i # n => i \in 1..Len(mQueue) /\ mQueue'[i] = mQueue[i]
  BY <1>1 DEF BufferIn
<1>9. BufferInOneSlot'
  BY <1>4 DEF Homes, BufferInOneSlot
<1>10. FramesAtHome'
  <2> SUFFICES ASSUME NEW i \in 1..Len(mQueue'), NEW r \in Slots,
                      BufferIn(r)' = mQueue'[i].mGraphicBuffer
               PROVE  /\ mQueue'[i].mSlot = r
                      /\ StateOf(r)' = "QUEUED"
                      /\ FrameIn(r)' = Frame(i)'
    BY DEF FramesAtHome
  <2>1. CASE i = n
    <3>1. r = s
      BY <1>4, <1>5, <1>8, <2>1 DEF Homes, BufferInOneSlot
    <3> QED
      BY <1>4, <1>6, <1>8, <2>1, <3>1
  <2>2. CASE i # n
    <3>1. /\ i \in 1..Len(mQueue) /\ mQueue'[i] = mQueue[i]
          /\ BufferIn(r) = mQueue[i].mGraphicBuffer
      BY <1>4, <1>8, <2>2
    <3>2. /\ mQueue[i].mSlot = r
          /\ StateOf(r) = "QUEUED"
          /\ FrameIn(r) = Frame(i)
      BY <3>1 DEF Homes, FramesAtHome
    <3>3. ~GivenUp(r)
      <4>1. SUFFICES ASSUME GivenUp(r) PROVE FALSE
        OBVIOUS
      <4>2. /\ 1 \in 1..Len(mQueue)
            /\ n = 1
            /\ mQueue[1].mGraphicBuffer = BufferIn(r)
        BY <1>1, <4>1 DEF GivenUp, StillTracking, BufferIn
      <4> QED
        BY <2>2, <3>1, <4>2 DEF Homes, BufferInOneFrame
    <3> QED
      BY <1>4, <1>5, <1>6, <2>2, <3>1, <3>2, <3>3
  <2> QED
    BY <2>1, <2>2
<1>11. BufferInOneFrame'
  BY <1>7, <1>8 DEF Homes, BufferInOneFrame
<1>12. \A b : Outside(b) => Outside(b)'
  BY <1>4, <1>8 DEF Outside
<1>13. AttachedOutside'
  <2>1. \A u \in Threads : Attaching(u)' => /\ Attaching(u)
                                            /\ call'[u] = call[u]
    BY <1>2 DEF Attaching
  <2> QED
    BY <1>12, <2>1 DEF Homes, AttachedOutside
<1>14. DetachedStaysOut'
  BY <1>2, <1>12 DEF Homes, DetachedStaysOut, Outside, BufferIn
<1> QED
  BY <1>9, <1>10, <1>11, <1>13, <1>14 DEF Homes

\* acquireBuffer takes the frames it drops and the one it delivers out of the
\* FIFO; the slots of the frames behind them stay QUEUED.
LEMMA AcquireHomes ==
    ASSUME TypeOK, Homes, NEW n \in 1..Len(mQueue), AcquireEffect(n),
           UNCHANGED <<call, clientBuffers>>
    PROVE  Homes'
<1>1. \A r \in Slots : BufferIn(r)' = BufferIn(r)
  BY DEF AcquireEffect, BufferIn
<1>2. /\ Len(mQueue') = Len(mQueue) - n
      /\ \A i \in 1..Len(mQueue') :
            /\ i + n \in 1..Len(mQueue) /\ mQueue'[i] = mQueue[i + n]
            /\ Frame(i)' = Frame(i + n)
  BY DEF AcquireEffect, Frame
<1>3. BufferInOneSlot'
  BY <1>1 DEF Homes, BufferInOneSlot
<1>4. FramesAtHome'
  <2> SUFFICES ASSUME NEW i \in 1..Len(mQueue'), NEW r \in Slots,
                      BufferIn(r)' = mQueue'[i].mGraphicBuffer
               PROVE  /\ mQueue'[i].mSlot = r
                      /\ StateOf(r)' = "QUEUED"
                      /\ FrameIn(r)' = Frame(i)'
    BY DEF FramesAtHome
  <2> DEFINE k == i + n
  <2>1. /\ k \in 1..Len(mQueue)
        /\ mQueue'[i] = mQueue[k]
        /\ BufferIn(r) = mQueue[k].mGraphicBuffer
        /\ Frame(i)' = Frame(k)
    BY <1>1, <1>2
  <2>2. k # n /\ \A j \in 1..(n - 1) : j # k /\ j \in 1..Len(mQueue)
    BY DEF TypeOK
  <2> HIDE DEF k
  <2>3. /\ mQueue[k].mSlot = r
        /\ StateOf(r) = "QUEUED"
        /\ FrameIn(r) = Frame(k)
    BY <2>1 DEF Homes, FramesAtHome
  <2>4. ~TakenAt(n, r) /\ ~DroppedBefore(n, r)
    BY <2>1, <2>2
    DEF Homes, BufferInOneFrame, TakenAt, DroppedBefore, StillTracking,
        BufferIn
  <2>5. mSlots'[r] = mSlots[r]
    BY <2>4 DEF AcquireEffect
  <2> QED
    BY <2>1, <2>3, <2>5 DEF StateOf, FrameIn
<1>5. BufferInOneFrame'
  <2> SUFFICES ASSUME NEW i \in 1..Len(mQueue'), NEW j \in 1..Len(mQueue'),
                      mQueue'[i].mGraphicBuffer = mQueue'[j].mGraphicBuffer
               PROVE  i = j
    BY DEF BufferInOneFrame
  <2>1. i + n = j + n
    BY <1>2 DEF Homes, BufferInOneFrame
  <2> QED
    BY <2>1
<1>6. \A b : Outside(b) => Outside(b)'
  BY <1>1, <1>2 DEF Outside
<1>7. AttachedOutside'
  BY <1>6 DEF Homes, AttachedOutside, Attaching
<1>8. DetachedStaysOut'
  BY <1>6 DEF Homes, DetachedStaysOut, Outside, BufferIn
<1> QED
  BY <1>3, <1>4, <1>5, <1>7, <1>8 DEF Homes

\* Every step keeps every buffer in one place.
LEMMA HomesStep ==
    ASSUME TypeOK, Homes, [Next]_vars
    PROVE  Homes'
<1>1. CASE Calm
  BY <1>1, CalmHomes
<1>2. ASSUME NEW t \in Threads, NEW b \in Attachable,
             Enter(t, [op |-> "attachBuffer", buffer |-> b])
      PROVE  Homes'
  <2>1. UNCHANGED <<mSlots, mQueue, clientBuffers>>
    BY <1>2 DEF Enter, clients
  <2>2. /\ call'[t].buffer = b
        /\ \A u \in Threads \ {t} : call'[u] = call[u]
    BY <1>2 DEF Enter, TypeOK
  <2>3. Outside(b) /\ \A u \in Threads : Attaching(u) => call[u].buffer # b
    BY AttachableOutside
  <2>4. AttachedOutside'
    BY <2>1, <2>2, <2>3 DEF Homes, AttachedOutside, Attaching, Outside, BufferIn
  <2> QED
    BY <2>1, <2>4
    DEF Homes, BufferInOneSlot, FramesAtHome, BufferInOneFrame,
        DetachedStaysOut, BufferIn, StateOf, FrameIn, Frame
<1>3. ASSUME NEW t \in Threads, DequeueAllocate(t)
      PROVE  Homes'
  <2>1. CalmCalls
    BY <1>3, DequeueAllocateEffect DEF CalmCalls, Attaching, Idle
  <2>2. \A r \in Slots : mSlots'[r] = mSlots[r]
                           => SlotKept(mSlots[r], mSlots'[r])
    BY DEF SlotKept
  <2>3. UNCHANGED <<mQueue, clientBuffers>>
    BY <1>3, DequeueAllocateEffect
  <2>4. CASE UNCHANGED mSlots
    BY <2>1, <2>2, <2>3, <2>4, FilledHomes
  <2>5. CASE ~UNCHANGED mSlots
    <3> DEFINE s == call[t].slot
    <3>1. PICK b \in Unreferenced :
             /\ \A r \in Slots \ {s} : mSlots'[r] = mSlots[r]
             /\ mSlots'[s].mGraphicBuffer = b
      BY <1>3, <2>5, DequeueAllocateEffect
    <3>2. s \in Slots
      BY <1>3, DequeueAllocateEffect
    <3>3. /\ Outside(b) /\ b \notin clientBuffers
          /\ \A u \in Threads : Attaching(u) => call[u].buffer # b
      BY AttachableOutside
    <3> HIDE DEF s
    <3>4. Filled(s)
      BY <2>1, <2>3, <3>1, <3>2, <3>3
      DEF Filled, Outside, BufferIn, CalmCalls
    <3> QED
      BY <2>1, <2>2, <2>3, <3>1, <3>4, FilledHomes
  <2> QED
    BY <2>4, <2>5
<1>4. ASSUME NEW t \in Threads, ProducerAttachBuffer(t) \/ AttachRetry(t)
      PROVE  Homes'
  <2>1. AttachTurn(t) /\ Attaching(t)
    BY <1>4 DEF ProducerAttachBuffer, AttachRetry, Runs, Attaching
  <2>2. CASE ~Calm
    <3> DEFINE b == call[t].buffer
    <3>1. PICK s \in Slots :
             /\ mSlots'[s].mGraphicBuffer = b
             /\ \A r \in Slots \ {s} : \/ mSlots'[r] = mSlots[r]
                                       \/ mSlots'[r] = Freed(mSlots[r])
      BY <2>1, <2>2, AttachTurnEffect
    <3>2. /\ UNCHANGED mQueue
          /\ Returns(t)
          /\ clientBuffers' = clientBuffers \ {b}
      BY <2>1, <2>2, AttachTurnEffect
    <3>3. CalmCalls
      BY <3>2, ReturnsCalm
    <3>4. \A r \in Slots \ {s} : SlotKept(mSlots[r], mSlots'[r])
      BY <3>1, FreedFields DEF SlotKept
    <3>5. b # NULL /\ Outside(b)
      BY <2>1, CallType, BuffersAssumption
      DEF Homes, AttachedOutside, Attaching
    <3>6. \A u \in Threads :
             call'[u].op \in {"attachBuffer", "attachRetry"} =>
                call'[u].buffer # b
      BY <2>1, <3>2
      DEF Homes, AttachedOutside, Attaching, Returns, Idle, TypeOK
    <3>7. \A r \in Slots \ {s} : mSlots'[r].mGraphicBuffer # b
      BY <3>1, <3>5, FreedFields DEF Outside, BufferIn
    <3> HIDE DEF b
    <3>8. Filled(s)
      BY <3>1, <3>2, <3>5, <3>6, <3>7 DEF Filled
    <3> QED
      BY <3>2, <3>3, <3>4, <3>8, FilledHomes
  <2> QED
    BY <2>2, CalmHomes
<1>5. ASSUME NEW t \in Threads, NEW s \in Slots, ProducerDetachBuffer(t, s)
      PROVE  Homes'
  BY <1>5, DetachEffects, DetachHomes, SameCallsCalm
<1>6. ASSUME NEW t \in Threads, DetachNextBuffer(t)
      PROVE  Homes'
  <2>1. CalmCalls
    BY <1>6, DetachEffects, ReturnsCalm
  <2>2. CASE UNCHANGED <<mSlots, owedFence, clientBuffers>>
    BY <1>6, <2>1, <2>2, DetachEffects, NothingMovesCalm, CalmHomes
  <2> QED
    BY <1>6, <2>1, <2>2, DetachEffects, DetachHomes
<1>7. ASSUME NEW t \in Threads, NEW s \in Slots, NEW async \in AsyncModes,
             NEW stamp \in Stamps, QueueBuffer(t, s, async, stamp)
      PROVE  Homes'
  BY <1>7, QueueHomes
<1>8. ASSUME NEW t \in Threads, AllocateBuffersCommit(t)
      PROVE  Homes'
  <2>1. CalmCalls
    BY <1>8, AllocateCommitEffect DEF CalmCalls, Attaching
  <2>2. UNCHANGED <<mQueue, clientBuffers>>
    BY <1>8, AllocateCommitEffect
  <2>3. ASSUME NEW s \in Slots
        PROVE  SlotKept(mSlots[s], mSlots'[s]) \/ Filled(s)
    <3>1. CASE mSlots'[s] = mSlots[s]
      BY <3>1 DEF SlotKept
    <3>2. CASE mSlots'[s] # mSlots[s]
      <4> DEFINE b == mSlots'[s].mGraphicBuffer
      <4>1. /\ b \in Unreferenced
            /\ \A r \in Slots \ {s} : b # mSlots'[r].mGraphicBuffer
        BY <1>8, <3>2, AllocateCommitEffect
      <4>2. /\ Outside(b) /\ b \notin clientBuffers
            /\ \A u \in Threads : Attaching(u) => call[u].buffer # b
        BY <4>1, AttachableOutside
      <4> QED
        BY <2>1, <2>2, <4>1, <4>2 DEF Filled, CalmCalls
    <3> QED
      BY <3>1, <3>2
  <2> QED
    BY <2>1, <2>2, <2>3, FilledHomes
<1>9. ASSUME NEW expectedPresent \in PresentTimes,
             AcquireBuffer(expectedPresent)
      PROVE  Homes'
  BY <1>9, AcquireBufferEffect, AcquireHomes
<1>10. ASSUME NEW item \in consumerItems, ConsumerDetachBuffer(item)
       PROVE  Homes'
  BY <1>10, DetachEffects, DetachHomes, SameCallsCalm, ItemTypes
<1>11. ASSUME NEW item \in consumerItems, ReleaseBuffer(item)
       PROVE  Homes'
  <2> DEFINE s == item.slot
  <2>1. /\ UNCHANGED <<mQueue, call, clientBuffers>>
        /\ \A r \in Slots : BufferIn(r)' = BufferIn(r)
        /\ \A r \in Slots \ {s} : /\ StateOf(r)' = StateOf(r)
                                  /\ FrameIn(r)' = FrameIn(r)
        /\ StateOf(s) = "ACQUIRED"
    BY <1>11, ReleaseBufferEffect DEF BufferIn, StateOf, FrameIn
  <2> HIDE DEF s
  <2>2. FramesAtHome'
    BY <2>1 DEF Homes, FramesAtHome, Frame
  <2> QED
    BY <2>1, <2>2
    DEF Homes, BufferInOneSlot, BufferInOneFrame, AttachedOutside, Outside,
        DetachedStaysOut, Attaching, BufferIn
<1>12. ASSUME NEW b \in Attachable, ConsumerAttachBuffer(b)
       PROVE  Homes'
  <2>1. PICK s \in Slots :
           /\ mSlots'[s].mGraphicBuffer = b
           /\ \A r \in Slots \ {s} : mSlots'[r] = mSlots[r]
    BY <1>12, ConsumerAttachEffect
  <2>2. UNCHANGED <<mQueue, call>> /\ clientBuffers' = clientBuffers \ {b}
    BY <1>12, ConsumerAttachEffect
  <2>3. /\ Outside(b)
        /\ \A u \in Threads : Attaching(u) => call[u].buffer # b
    BY AttachableOutside
  <2>4. Filled(s)
    BY <2>1, <2>2, <2>3 DEF Filled, Outside, BufferIn, Attaching
  <2>5. \A r \in Slots \ {s} : SlotKept(mSlots[r], mSlots'[r])
    BY <2>1 DEF SlotKept
  <2> QED
    BY <2>2, <2>4, <2>5, SameCallsCalm, FilledHomes
<1> QED
  BY <1>1, <1>2, <1>3, <1>4, <1>5, <1>6, <1>7, <1>8, <1>9, <1>10, <1>11,
     <1>12, CalmStep DEF BoldStep

\* Every buffer has one home in every state of a BufferQueue.
LEMMA HomesInductive == Spec => []Homes
<1>1. Init => Homes
  BY BuffersAssumption
  DEF Init, Homes, BufferInOneSlot, FramesAtHome, BufferInOneFrame,
      AttachedOutside, Attaching, DetachedStaysOut, BufferIn, EmptySlot, Idle
<1>2. TypeOK /\ Homes /\ [Next]_vars => Homes'
  BY HomesStep
<1> QED
  BY <1>1, <1>2, TypeCorrect, PTL DEF Spec

\* A buffer that a client detached is in no slot and no frame until it is
\* attached again, whatever producer threads and the consumer do meanwhile.
THEOREM DetachedBuffersStayOut == Spec => []DetachedStaysOut
<1>1. Homes => DetachedStaysOut
  BY DEF Homes
<1> QED
  BY <1>1, HomesInductive, PTL

-----------------------------------------------------------------------------
(* What the consumer reads *)

\* The consumer holds a frame once, never one that is still in the FIFO, and
\* nobody else has its buffer.
ItemsApart ==
    /\ \A x \in consumerItems : x.frame \in 1..mCore.mFrameCounter
    /\ \A x, y \in consumerItems :
         x.frame = y.frame \/ x.buffer = y.buffer => x = y
    /\ \A x \in consumerItems, i \in 1..Len(mQueue) :
         x.frame # Frame(i) /\ x.buffer # mQueue[i].mGraphicBuffer
    /\ \A x \in consumerItems :
         /\ x.buffer \notin clientBuffers
         /\ \A t \in Threads : Attaching(t) => call[t].buffer # x.buffer

\* The frame number of an ACQUIRED slot tells which item it belongs to.
AcquiredFrames ==
    \A s \in Slots :
        StateOf(s) = "ACQUIRED" =>
            /\ FrameIn(s) <= mCore.mFrameCounter \/ FrameIn(s) > MaxFrames
            /\ \A i \in 1..Len(mQueue) : FrameIn(s) # Frame(i)
            /\ \A x \in consumerItems :
                 x.slot = s /\ x.frame = FrameIn(s) => x.buffer = BufferIn(s)

\* The strengthening that makes NoSharedAccess inductive.
Reads == ItemsApart /\ AcquiredFrames /\ NoSharedAccess

\* Frame numbers are numbers.
LEMMA FrameTypes ==
    ASSUME TypeOK
    PROVE  /\ \A s \in Slots : FrameIn(s) \in Nat
           /\ \A i \in 1..Len(mQueue) : Frame(i) \in 1..MaxFrames
           /\ \A x \in consumerItems : x.frame \in Nat
           /\ mCore.mFrameCounter \in 0..MaxFrames
           /\ MaxFrames \in Nat /\ UINT32_MAX \in Nat
           /\ UINT32_MAX > MaxFrames
<1>1. \A s \in Slots : FrameIn(s) \in Nat
  BY SlotIsRecord, FramesAssumption DEF FrameIn, BufferSlot, FrameNumbers
<1> QED
  BY <1>1, ItemTypes, FramesAssumption DEF TypeOK, BufferQueueCore, Frame

\* Calm steps, and steps that fill slots with buffers from outside, give the
\* consumer nothing new and take nothing it still reads.
LEMMA FilledReads ==
    ASSUME TypeOK, Reads, CalmQueue, CalmCalls,
           mCore'.mFrameCounter = mCore.mFrameCounter,
           consumerItems' \subseteq consumerItems,
           clientBuffers' \subseteq clientBuffers,
           \A s \in Slots :
             \/ SlotKept(mSlots[s], mSlots'[s])
             \/ /\ \A x \in consumerItems :
                     x.buffer # mSlots'[s].mGraphicBuffer
                /\ \/ mSlots'[s].mBufferState # "ACQUIRED"
                   \/ mSlots'[s].mFrameNumber = UINT32_MAX
    PROVE  Reads'
<1>1. /\ Len(mQueue') \in Nat
      /\ \A i \in 1..Len(mQueue') : /\ i \in 1..Len(mQueue)
                                    /\ mQueue'[i] = mQueue[i]
                                    /\ Frame(i)' = Frame(i)
  BY DEF CalmQueue, TypeOK, Frame
<1>2. \A t \in Threads : Attaching(t)' => /\ Attaching(t)
                                          /\ call'[t].buffer = call[t].buffer
  BY DEF CalmCalls, Attaching
<1>3. \A s \in Slots :
         \/ BufferIn(s)' = NULL /\ StateOf(s)' # "ACQUIRED"
         \/ /\ BufferIn(s)' = BufferIn(s)
            /\ StateOf(s)' = StateOf(s)
            /\ FrameIn(s)' = FrameIn(s)
         \/ /\ BufferIn(s)' = BufferIn(s)
            /\ StateOf(s) # "ACQUIRED" /\ StateOf(s)' # "ACQUIRED"
         \/ /\ \A x \in consumerItems : x.buffer # BufferIn(s)'
            /\ StateOf(s)' # "ACQUIRED" \/ FrameIn(s)' = UINT32_MAX
  BY DEF SlotKept, BufferIn, StateOf, FrameIn
<1>4. ItemsApart'
  BY <1>1, <1>2 DEF Reads, ItemsApart
<1>5. AcquiredFrames'
  <2> SUFFICES ASSUME NEW s \in Slots, StateOf(s)' = "ACQUIRED"
               PROVE  /\ \/ FrameIn(s)' <= mCore.mFrameCounter
                         \/ FrameIn(s)' > MaxFrames
                      /\ \A i \in 1..Len(mQueue') : FrameIn(s)' # Frame(i)
                      /\ \A x \in consumerItems :
                           x.slot = s /\ x.frame = FrameIn(s)' =>
                              x.buffer = BufferIn(s)'
    BY <1>1 DEF AcquiredFrames
  <2>1. CASE /\ BufferIn(s)' = BufferIn(s)
             /\ StateOf(s)' = StateOf(s)
             /\ FrameIn(s)' = FrameIn(s)
    BY <1>1, <2>1 DEF Reads, AcquiredFrames
  <2>2. CASE FrameIn(s)' = UINT32_MAX
    <3>1. \A i \in 1..Len(mQueue') : Frame(i) \in 1..MaxFrames
      BY <1>1, FrameTypes
    <3>2. \A x \in consumerItems : x.frame \in 0..MaxFrames
      BY ItemTypes
    <3>3. /\ UINT32_MAX > MaxFrames
          /\ \A k \in 0..MaxFrames : k # UINT32_MAX
      BY FramesAssumption
    <3> QED
      BY <2>2, <3>1, <3>2, <3>3
  <2> QED
    BY <1>3, <2>1, <2>2
<1>6. NoSharedAccess'
  <2> SUFFICES ASSUME NEW x \in consumerItems, NEW s \in Slots,
                      BufferIn(s)' = x.buffer
               PROVE  StateOf(s)' = "ACQUIRED"
    BY DEF NoSharedAccess, BufferIn, StateOf
  <2>1. x.buffer # NULL
    BY ItemTypes
  <2>2. BufferIn(s) = x.buffer => StateOf(s) = "ACQUIRED"
    BY DEF Reads, NoSharedAccess, BufferIn, StateOf
  <2> QED
    BY <1>3, <2>1, <2>2
<1> QED
  BY <1>4, <1>5, <1>6 DEF Reads

\* A detach hands a client a buffer that no item of the consumer has any more.
LEMMA DetachReads ==
    ASSUME TypeOK, Reads, CalmCalls, NEW s \in Slots, DetachEffect(s),
           consumerItems' \subseteq consumerItems,
           \A x \in consumerItems' : x.buffer # mSlots[s].mGraphicBuffer
    PROVE  Reads'
<1>1. /\ UNCHANGED <<mQueue, mCore>>
      /\ \A i : Frame(i)' = Frame(i)
      /\ \A r \in Slots : \/ BufferIn(r)' = NULL /\ StateOf(r)' = "FREE"
                          \/ /\ BufferIn(r)' = BufferIn(r)
                             /\ StateOf(r)' = StateOf(r)
                             /\ FrameIn(r)' = FrameIn(r)
      /\ \A b \in clientBuffers' : b \in clientBuffers \/ b = BufferIn(s)
      /\ \A x \in consumerItems' : x.buffer # BufferIn(s)
  BY FreedFields DEF DetachEffect, BufferIn, StateOf, FrameIn, Frame
<1>2. \A t \in Threads : Attaching(t)' => /\ Attaching(t)
                                          /\ call'[t].buffer = call[t].buffer
  BY DEF CalmCalls, Attaching
<1>3. ItemsApart'
  BY <1>1, <1>2 DEF Reads, ItemsApart
<1>4. AcquiredFrames'
  BY <1>1 DEF Reads, AcquiredFrames
<1>5. NoSharedAccess'
  BY <1>1, ItemTypes DEF Reads, NoSharedAccess, BufferIn, StateOf
<1> QED
  BY <1>3, <1>4, <1>5 DEF Reads

\* queueBuffer puts a frame into the FIFO that no item of the consumer has.
LEMMA QueueReads ==
    ASSUME TypeOK, Homes, Reads, NEW t \in Threads, NEW s \in Slots,
           NEW async \in AsyncModes, NEW stamp \in Stamps,
           QueueBuffer(t, s, async, stamp)
    PROVE  Reads'
<1> DEFINE f == mCore.mFrameCounter + 1
<1>1. PICK n \in 1..(Len(mQueue) + 1) :
             /\ mQueue'[n].mGraphicBuffer = mSlots[s].mGraphicBuffer
             /\ mQueue'[n].mFrameNumber = f
             /\ \A i \in 1..Len(mQueue') :
                  i # n => i \in 1..Len(mQueue) /\ mQueue'[i] = mQueue[i]
  BY QueueBufferQueue
<1>2. /\ StateOf(s) = "DEQUEUED"
      /\ mCore'.mFrameCounter = f /\ f <= MaxFrames
      /\ \A u \in Threads : Attaching(u)' => Attaching(u) /\ call'[u] = call[u]
      /\ UNCHANGED <<consumerItems, clientBuffers>>
  BY QueueBufferEffect DEF StateOf, Attaching
<1>3. ~GivenUp(s)
  BY <1>2, GivenUpElsewhere DEF StateOf
<1>4. \A r \in Slots : \/ BufferIn(r)' = BufferIn(r) /\ StateOf(r)' = StateOf(r)
                          /\ FrameIn(r)' = FrameIn(r)
                       \/ /\ BufferIn(r)' = BufferIn(r)
                          /\ StateOf(r)' # "ACQUIRED"
                          /\ r = s \/ GivenUp(r)
  BY <1>3, QueueBufferEffect DEF BufferIn, StateOf, FrameIn
<1>5. \A x \in consumerItems : x.buffer # BufferIn(s)
  BY <1>2 DEF Reads, NoSharedAccess, BufferIn, StateOf
<1>6. \A i \in 1..Len(mQueue') :
         \/ Frame(i)' = f /\ mQueue'[i].mGraphicBuffer = BufferIn(s)
         \/ /\ i \in 1..Len(mQueue) /\ Frame(i)' = Frame(i)
            /\ mQueue'[i].mGraphicBuffer = mQueue[i].mGraphicBuffer
  BY <1>1 DEF Frame, BufferIn
<1>7. mCore.mFrameCounter \in Nat /\ MaxFrames \in Nat
  BY FrameTypes
<1>8. ItemsApart'
  <2>1. \A x \in consumerItems : x.frame \in 1..f /\ x.frame # f
    BY <1>7 DEF Reads, ItemsApart
  <2>2. \A x \in consumerItems, i \in 1..Len(mQueue') :
          x.frame # Frame(i)' /\ x.buffer # mQueue'[i].mGraphicBuffer
    BY <1>5, <1>6, <2>1 DEF Reads, ItemsApart
  <2>3. \A x \in consumerItems, u \in Threads :
          Attaching(u)' => call'[u].buffer # x.buffer
    BY <1>2 DEF Reads, ItemsApart
  <2> QED
    BY <1>2, <2>1, <2>2, <2>3 DEF Reads, ItemsApart
<1>9. AcquiredFrames'
  <2> SUFFICES ASSUME NEW r \in Slots, StateOf(r)' = "ACQUIRED"
               PROVE  /\ FrameIn(r)' <= f \/ FrameIn(r)' > MaxFrames
                      /\ \A i \in 1..Len(mQueue') : FrameIn(r)' # Frame(i)'
                      /\ \A x \in consumerItems :
                           x.slot = r /\ x.frame = FrameIn(r)' =>
                              x.buffer = BufferIn(r)'
    BY <1>2 DEF AcquiredFrames
  <2>1. /\ BufferIn(r)' = BufferIn(r) /\ StateOf(r) = "ACQUIRED"
        /\ FrameIn(r)' = FrameIn(r)
    BY <1>4
  <2>2. /\ FrameIn(r) \in Nat /\ FrameIn(r) # f
        /\ FrameIn(r) <= f \/ FrameIn(r) > MaxFrames
    <3>1. FrameIn(r) \in Nat
      BY FrameTypes
    <3>2. FrameIn(r) <= mCore.mFrameCounter \/ FrameIn(r) > MaxFrames
      BY <2>1 DEF Reads, AcquiredFrames
    <3> QED
      BY <1>2, <1>7, <3>1, <3>2
  <2> QED
    BY <1>6, <2>1, <2>2 DEF Reads, AcquiredFrames
<1>10. NoSharedAccess'
  <2>1. \A r \in Slots : r = s \/ GivenUp(r) =>
           \A x \in consumerItems : x.buffer # BufferIn(r)
    <3>1. \A r \in Slots : GivenUp(r) =>
             /\ 1 \in 1..Len(mQueue)
             /\ mQueue[1].mGraphicBuffer = BufferIn(r)
      BY DEF GivenUp, Replaces, StillTracking, BufferIn, TypeOK
    <3> QED
      BY <1>5, <3>1 DEF Reads, ItemsApart
  <2>2. \A x \in consumerItems, r \in Slots :
           BufferIn(r) = x.buffer => StateOf(r) = "ACQUIRED"
    BY DEF Reads, NoSharedAccess, BufferIn, StateOf
  <2>3. \A x \in consumerItems, r \in Slots :
           BufferIn(r)' = x.buffer => StateOf(r)' = "ACQUIRED"
    BY <1>4, <2>1, <2>2
  <2> QED
    BY <1>2, <2>3 DEF NoSharedAccess, BufferIn, StateOf
<1> QED
  BY <1>8, <1>9, <1>10 DEF Reads

\* acquireBuffer gives the consumer a frame it never had, and acquires the slot
\* that has the frame's buffer, if there still is one.
LEMMA AcquireReads ==
    ASSUME TypeOK, Homes, Reads, QueueTailOrdered, NEW n \in 1..Len(mQueue),
           AcquireEffect(n), UNCHANGED <<mCore, call, clientBuffers>>
    PROVE  Reads'
<1> DEFINE y == [slot |-> mQueue[n].mSlot, frame |-> mQueue[n].mFrameNumber,
                 buffer |-> mQueue[n].mGraphicBuffer]
<1>1. /\ y.slot = mQueue[n].mSlot /\ y.frame = Frame(n)
      /\ y.buffer = mQueue[n].mGraphicBuffer
      /\ consumerItems' = consumerItems \cup {y}
  BY DEF AcquireEffect, Frame
<1> HIDE DEF y
<1>2. \A i \in 1..Len(mQueue') :
         \E k \in 1..Len(mQueue) :
            /\ k > n /\ k # n
            /\ mQueue'[i].mGraphicBuffer = mQueue[k].mGraphicBuffer
            /\ Frame(i)' = Frame(k)
  <2>1. ASSUME NEW i \in 1..Len(mQueue')
        PROVE  /\ i + n \in 1..Len(mQueue) /\ mQueue'[i] = mQueue[i + n]
               /\ i + n > n
    BY DEF AcquireEffect
  <2> QED
    BY <2>1 DEF Frame
<1>3. \A k \in 1..Len(mQueue) : k > n =>
         /\ Frame(k) # Frame(n)
         /\ mQueue[k].mGraphicBuffer # mQueue[n].mGraphicBuffer
  BY DEF QueueTailOrdered, Homes, BufferInOneFrame
<1>4. Frame(n) \in 1..mCore.mFrameCounter
  BY FrameTypes DEF QueueTailOrdered
<1>5. \A r \in Slots : /\ BufferIn(r)' = BufferIn(r)
                       /\ TakenAt(n, r) => /\ StateOf(r)' = "ACQUIRED"
                                           /\ FrameIn(r)' = FrameIn(r)
                       /\ \/ TakenAt(n, r)
                          \/ StateOf(r)' = "FREE" /\ DroppedBefore(n, r)
                          \/ /\ StateOf(r)' = StateOf(r)
                             /\ FrameIn(r)' = FrameIn(r)
  BY DEF AcquireEffect, BufferIn, StateOf, FrameIn
<1>6. \A r \in Slots :
         /\ TakenAt(n, r) => /\ FrameIn(r) = Frame(n)
                             /\ BufferIn(r) = mQueue[n].mGraphicBuffer
         /\ DroppedBefore(n, r) => StateOf(r) = "QUEUED"
         /\ BufferIn(r) = mQueue[n].mGraphicBuffer => TakenAt(n, r)
  BY DEF TakenAt, DroppedBefore, StillTracking, BufferIn, Homes, FramesAtHome,
         TypeOK
<1>7. ItemsApart'
  <2>1. \A x \in consumerItems \cup {y} : x.frame \in 1..mCore.mFrameCounter
    BY <1>1, <1>4 DEF Reads, ItemsApart
  <2>2. \A x, z \in consumerItems \cup {y} :
           x.frame = z.frame \/ x.buffer = z.buffer => x = z
    BY <1>1 DEF Reads, ItemsApart
  <2>3. \A x \in consumerItems \cup {y}, k \in 1..Len(mQueue) :
           k > n => /\ x.frame # Frame(k)
                    /\ x.buffer # mQueue[k].mGraphicBuffer
    BY <1>1, <1>3 DEF Reads, ItemsApart
  <2>4. \A x \in consumerItems \cup {y} :
         /\ x.buffer \notin clientBuffers
         /\ \A t \in Threads : Attaching(t) => call[t].buffer # x.buffer
    BY <1>1 DEF Reads, ItemsApart, Homes, DetachedStaysOut, AttachedOutside,
                Outside
  <2> QED
    BY <1>1, <1>2, <2>1, <2>2, <2>3, <2>4 DEF ItemsApart, Attaching
<1>8. AcquiredFrames'
  <2> SUFFICES ASSUME NEW r \in Slots, StateOf(r)' = "ACQUIRED"
               PROVE  /\ \/ FrameIn(r)' <= mCore.mFrameCounter
                         \/ FrameIn(r)' > MaxFrames
                      /\ \A i \in 1..Len(mQueue') : FrameIn(r)' # Frame(i)'
                      /\ \A x \in consumerItems \cup {y} :
                           x.slot = r /\ x.frame = FrameIn(r)' =>
                              x.buffer = BufferIn(r)'
    BY <1>1 DEF AcquiredFrames
  <2>1. CASE TakenAt(n, r)
    <3>1. FrameIn(r)' = Frame(n) /\ Frame(n) <= mCore.mFrameCounter
      BY <1>4, <1>5, <1>6, <2>1
    <3>2. \A x \in consumerItems : x.frame # Frame(n)
      BY DEF Reads, ItemsApart
    <3> QED
      BY <1>1, <1>2, <1>3, <1>5, <1>6, <2>1, <3>1, <3>2
  <2>2. CASE ~TakenAt(n, r)
    <3>1. /\ StateOf(r) = "ACQUIRED" /\ FrameIn(r)' = FrameIn(r)
          /\ BufferIn(r)' = BufferIn(r)
      BY <1>5, <2>2
    <3>2. \A k \in 1..Len(mQueue) : FrameIn(r) # Frame(k)
      BY <3>1 DEF Reads, AcquiredFrames
    <3> QED
      BY <1>1, <1>2, <3>1, <3>2 DEF Reads, AcquiredFrames
  <2> QED
    BY <2>1, <2>2
<1>9. NoSharedAccess'
  <2>1. \A x \in consumerItems, r \in Slots :
           BufferIn(r) = x.buffer => StateOf(r) = "ACQUIRED"
    BY DEF Reads, NoSharedAccess, BufferIn, StateOf
  <2>2. \A x \in consumerItems \cup {y}, r \in Slots :
           BufferIn(r)' = x.buffer => StateOf(r)' = "ACQUIRED"
    BY <1>1, <1>5, <1>6, <2>1
  <2> QED
    BY <1>1, <2>2 DEF NoSharedAccess, BufferIn, StateOf
<1> QED
  BY <1>7, <1>8, <1>9 DEF Reads

\* releaseBuffer takes back the buffer of the very item that is released.
LEMMA ReleaseReads ==
    ASSUME TypeOK, Reads, NEW item \in consumerItems, ReleaseBuffer(item)
    PROVE  Reads'
<1> DEFINE s == item.slot
<1>1. /\ UNCHANGED <<mQueue, mCore, call, clientBuffers>>
      /\ consumerItems' = consumerItems \ {item}
      /\ StateOf(s) = "ACQUIRED" /\ FrameIn(s) = item.frame
      /\ StateOf(s)' = "FREE"
      /\ \A r \in Slots : BufferIn(r)' = BufferIn(r)
      /\ \A r \in Slots \ {s} : StateOf(r)' = StateOf(r)
                                /\ FrameIn(r)' = FrameIn(r)
  BY ReleaseBufferEffect DEF BufferIn, StateOf, FrameIn
<1>2. s \in Slots
  BY ItemTypes
<1>3. BufferIn(s) = item.buffer
  BY <1>1, <1>2 DEF Reads, AcquiredFrames
<1>4. \A x \in consumerItems' : x \in consumerItems /\ x.buffer # BufferIn(s)
  BY <1>1, <1>3 DEF Reads, ItemsApart
<1>5. ItemsApart'
  BY <1>1 DEF Reads, ItemsApart, Frame, Attaching
<1> HIDE DEF s
<1>6. AcquiredFrames'
  BY <1>1, <1>4 DEF Reads, AcquiredFrames, Frame
<1>7. NoSharedAccess'
  <2>1. \A x \in consumerItems, r \in Slots :
           BufferIn(r) = x.buffer => StateOf(r) = "ACQUIRED"
    BY DEF Reads, NoSharedAccess, BufferIn, StateOf
  <2>2. \A x \in consumerItems', r \in Slots :
           BufferIn(r)' = x.buffer => StateOf(r)' = "ACQUIRED"
    BY <1>1, <1>4, <2>1
  <2> QED
    BY <2>2 DEF NoSharedAccess, BufferIn, StateOf
<1> QED
  BY <1>5, <1>6, <1>7 DEF Reads

\* Every step keeps the consumer's buffers to itself, as long as the consumer
\* attaches none: the frame number 0 of an attached buffer does not tell two
\* items of one slot apart.
LEMMA ReadsStep ==
    ASSUME "consumerAttachBuffer" \notin Calls, TypeOK, Homes,
           QueueTailOrdered, Reads, [Next]_vars
    PROVE  Reads'
<1>0. /\ \A b \in Unreferenced, x \in consumerItems : x.buffer # b
      /\ \A b \in Attachable, x \in consumerItems : x.buffer # b
  BY DEF Attachable, Unreferenced, Reads, ItemsApart
<1>1. CASE Calm
  BY <1>1, FilledReads DEF Calm, CalmSlots
<1>2. ASSUME NEW t \in Threads, NEW b \in Attachable,
             Enter(t, [op |-> "attachBuffer", buffer |-> b])
      PROVE  Reads'
  <2>1. UNCHANGED <<mSlots, mQueue, mCore, clientBuffers, consumerItems>>
    BY <1>2 DEF Enter, clients, consumer
  <2>2. /\ call'[t].buffer = b
        /\ \A u \in Threads \ {t} : call'[u] = call[u]
    BY <1>2 DEF Enter, TypeOK
  <2>3. ItemsApart'
    BY <1>0, <2>1, <2>2 DEF Reads, ItemsApart, Attaching, Frame
  <2> QED
    BY <2>1, <2>3
    DEF Reads, AcquiredFrames, NoSharedAccess, BufferIn, StateOf, FrameIn, Frame
<1>3. ASSUME NEW t \in Threads, DequeueAllocate(t)
      PROVE  Reads'
  <2>1. CalmCalls
    BY <1>3, DequeueAllocateEffect DEF CalmCalls, Attaching, Idle
  <2>2. UNCHANGED <<mQueue, mCore, consumerItems, clientBuffers>>
    BY <1>3, DequeueAllocateEffect
  <2>3. \A s \in Slots :
           \/ mSlots'[s] = mSlots[s]
           \/ /\ mSlots'[s].mGraphicBuffer \in Unreferenced
              /\ mSlots'[s].mFrameNumber = UINT32_MAX
    BY <1>3, DequeueAllocateEffect
  <2>4. \A s \in Slots :
           \/ SlotKept(mSlots[s], mSlots'[s])
           \/ /\ \A x \in consumerItems :
                   x.buffer # mSlots'[s].mGraphicBuffer
              /\ mSlots'[s].mFrameNumber = UINT32_MAX
    BY <1>0, <2>3 DEF SlotKept
  <2> QED
    BY <2>1, <2>2, <2>4, FilledReads DEF CalmQueue
<1>4. ASSUME NEW t \in Threads, ProducerAttachBuffer(t) \/ AttachRetry(t)
      PROVE  Reads'
  <2>1. AttachTurn(t) /\ Attaching(t)
    BY <1>4 DEF ProducerAttachBuffer, AttachRetry, Runs, Attaching
  <2>2. CASE ~Calm
    <3> DEFINE b == call[t].buffer
    <3>1. PICK s \in Slots :
             /\ mSlots'[s].mGraphicBuffer = b
             /\ mSlots'[s].mBufferState = "DEQUEUED"
             /\ \A r \in Slots \ {s} : \/ mSlots'[r] = mSlots[r]
                                       \/ mSlots'[r] = Freed(mSlots[r])
      BY <2>1, <2>2, AttachTurnEffect
    <3>2. /\ UNCHANGED <<mQueue, mCore, consumerItems>>
          /\ Returns(t)
          /\ clientBuffers' = clientBuffers \ {b}
      BY <2>1, <2>2, AttachTurnEffect
    <3>3. CalmCalls
      BY <3>2, ReturnsCalm
    <3>4. \A x \in consumerItems : x.buffer # b
      BY <2>1 DEF Reads, ItemsApart
    <3>5. \A r \in Slots \ {s} : SlotKept(mSlots[r], mSlots'[r])
      BY <3>1, FreedFields DEF SlotKept
    <3> HIDE DEF b
    <3> QED
      BY <3>1, <3>2, <3>3, <3>4, <3>5, FilledReads DEF CalmQueue
  <2> QED
    BY <1>1, <2>2
<1>5. ASSUME NEW s \in Slots, StateOf(s) # "ACQUIRED"
      PROVE  \A x \in consumerItems : x.buffer # mSlots[s].mGraphicBuffer
  BY <1>5 DEF Reads, NoSharedAccess, StateOf
<1>6. ASSUME NEW t \in Threads, NEW s \in Slots, ProducerDetachBuffer(t, s)
      PROVE  Reads'
  BY <1>5, <1>6, DetachEffects, DetachReads, SameCallsCalm DEF StateOf
<1>7. ASSUME NEW t \in Threads, DetachNextBuffer(t)
      PROVE  Reads'
  <2>1. CalmCalls
    BY <1>7, DetachEffects, ReturnsCalm
  <2>2. CASE UNCHANGED <<mSlots, owedFence, clientBuffers>>
    BY <1>1, <1>7, <2>1, <2>2, DetachEffects, NothingMovesCalm
  <2> QED
    BY <1>5, <1>7, <2>1, <2>2, DetachEffects, DetachReads DEF StateOf
<1>8. ASSUME NEW t \in Threads, NEW s \in Slots, NEW async \in AsyncModes,
             NEW stamp \in Stamps, QueueBuffer(t, s, async, stamp)
      PROVE  Reads'
  BY <1>8, QueueReads
<1>9. ASSUME NEW t \in Threads, AllocateBuffersCommit(t)
      PROVE  Reads'
  <2>1. CalmCalls
    BY <1>9, AllocateCommitEffect DEF CalmCalls, Attaching
  <2>2. /\ UNCHANGED <<mQueue, clientBuffers, consumerItems>>
        /\ mCore'.mFrameCounter = mCore.mFrameCounter
    BY <1>9, AllocateCommitEffect, AllocateFrame
  <2>3. \A s \in Slots :
           \/ mSlots'[s] = mSlots[s]
           \/ /\ mSlots'[s].mGraphicBuffer \in Unreferenced
              /\ mSlots'[s].mBufferState = "FREE"
    BY <1>9, AllocateCommitEffect
  <2>4. \A s \in Slots :
           \/ SlotKept(mSlots[s], mSlots'[s])
           \/ /\ \A x \in consumerItems :
                   x.buffer # mSlots'[s].mGraphicBuffer
              /\ mSlots'[s].mBufferState # "ACQUIRED"
    BY <1>0, <2>3 DEF SlotKept
  <2> QED
    BY <2>1, <2>2, <2>4, FilledReads DEF CalmQueue
<1>10. ASSUME NEW expectedPresent \in PresentTimes,
              AcquireBuffer(expectedPresent)
       PROVE  Reads'
  BY <1>10, AcquireBufferEffect, AcquireReads
<1>11. ASSUME NEW item \in consumerItems, ConsumerDetachBuffer(item)
       PROVE  Reads'
  <2>1. /\ item.slot \in Slots /\ DetachEffect(item.slot)
        /\ mSlots[item.slot].mGraphicBuffer = item.buffer
        /\ consumerItems' = consumerItems \ {item}
        /\ CalmCalls
    BY <1>11, DetachEffects, ItemTypes, SameCallsCalm
  <2>2. \A x \in consumerItems' : x.buffer # item.buffer
    BY <2>1 DEF Reads, ItemsApart
  <2> QED
    BY <2>1, <2>2, DetachReads
<1>12. ASSUME NEW item \in consumerItems, ReleaseBuffer(item)
       PROVE  Reads'
  BY <1>12, ReleaseReads
<1>13. ASSUME NEW b \in Attachable, ConsumerAttachBuffer(b)
       PROVE  Reads'
  BY <1>13, ConsumerAttachEffect
<1> QED
  BY <1>1, <1>2, <1>3, <1>4, <1>6, <1>7, <1>8, <1>9, <1>10, <1>11, <1>12,
     <1>13, CalmStep DEF BoldStep

\* No buffer the consumer still reads is in a slot that a producer can be
\* given, though disconnect, setBufferCount and the wait loop free slots behind
\* the consumer's back and stale releases come late.
THEOREM ConsumerReadsAlone ==
    ASSUME "consumerAttachBuffer" \notin Calls
    PROVE  Spec => []NoSharedAccess
<1>1. Init => Reads
  BY DEF Init, Reads, ItemsApart, AcquiredFrames, NoSharedAccess, StateOf,
         EmptySlot
<1>2. TypeOK /\ Homes /\ QueueTailOrdered /\ Reads /\ [Next]_vars => Reads'
  BY ReadsStep
<1>3. Reads => NoSharedAccess
  BY DEF Reads
<1> QED
  BY <1>1, <1>2, <1>3, TypeCorrect, HomesInductive, FifoOrdered, PTL DEF Spec

-----------------------------------------------------------------------------
(* Who owns a slot, and who sleeps for one.  dequeueBuffer hands slots out, *)
(* lets go of the lock to allocate or to sleep, and other threads and the   *)
(* consumer change the slots meanwhile.  A slot is handed out once, a       *)
(* QUEUED slot has its frame in the FIFO, and a dequeuer sleeps only while  *)
(* it has to.                                                               *)

-----------------------------------------------------------------------------
(* The maximum of buffers *)

\* A set of slots that is not empty has a last slot.
LEMMA LastSlot ==
    ASSUME NEW K, K \subseteq Slots, K # {}
    PROVE  \E m \in K : \A r \in K : r <= m
<1> DEFINE T == {NUM_BUFFER_SLOTS - 1 - s : s \in K}
<1>1. T \subseteq Nat /\ T # {}
  <2>1. \A s \in K : NUM_BUFFER_SLOTS - 1 - s \in Nat
    BY SlotsAssumption DEF Slots
  <2>2. PICK s \in K : TRUE
    OBVIOUS
  <2>3. NUM_BUFFER_SLOTS - 1 - s \in T
    OBVIOUS
  <2> QED
    BY <2>1, <2>3
<1>2. \E x \in T : \A y \in T : ~(<<y, x>> \in OpToRel(<, Nat))
  <2> HIDE DEF T
  <2> QED
    BY <1>1, NatLessThanWellFounded, WFMin
<1>3. PICK x \in T : \A y \in T : ~(y < x)
  BY <1>1, <1>2 DEF OpToRel
<1>4. PICK m \in K : x = NUM_BUFFER_SLOTS - 1 - m
  BY <1>3
<1>5. ASSUME NEW r \in K PROVE r <= m
  <2>1. ~(NUM_BUFFER_SLOTS - 1 - r < x)
    BY <1>3
  <2> QED
    BY <1>4, <2>1, SlotsAssumption DEF Slots
<1> QED
  BY <1>5

\* Every slot at or beyond the maximum is FREE or ACQUIRED: a DEQUEUED or QUEUED
\* one keeps the maximum up.
LEMMA BeyondMaximum ==
    ASSUME TypeOK, NEW async \in BOOLEAN
    PROVE  /\ MaxBufferCount(async) \in Nat
           /\ MinUndequeuedBufferCount(async) \in Nat
           /\ \A s \in Slots : s >= MaxBufferCount(async) =>
                 StateOf(s) \notin {"QUEUED", "DEQUEUED"}
<1> DEFINE min  == MinMaxBufferCount(async)
           base == IF mCore.mOverrideMaxBufferCount # 0
                   THEN mCore.mOverrideMaxBufferCount
                   ELSE IF mCore.mDefaultMaxBufferCount > min
                   THEN mCore.mDefaultMaxBufferCount ELSE min
           kept == {s \in InState("QUEUED") \cup InState("DEQUEUED") : s >= base}
           last == CHOOSE s \in kept : \A r \in kept : r <= s
<1>1. MaxBufferCount(async) = IF kept = {} THEN base ELSE 1 + last
  BY DEF MaxBufferCount
<1>2. MinUndequeuedBufferCount(async) \in Nat
  BY SlotsAssumption
  DEF MinUndequeuedBufferCount, TypeOK, BufferQueueCore,
      MAX_MAX_ACQUIRED_BUFFERS
<1>3. base \in Nat
  BY <1>2, SlotsAssumption
  DEF MinMaxBufferCount, TypeOK, BufferQueueCore
<1>4. kept \subseteq Slots /\ Slots \subseteq Nat
  BY SlotsAssumption DEF InState, Slots
<1>5. \A s \in Slots : StateOf(s) \in {"QUEUED", "DEQUEUED"} /\ s >= base
                         => s \in kept
  BY DEF InState, StateOf
<1> HIDE DEF base, kept
<1>6. CASE kept = {}
  BY <1>1, <1>2, <1>3, <1>5, <1>6
<1>7. CASE kept # {}
  <2>1. \E m \in kept : \A r \in kept : r <= m
    BY <1>4, <1>7, LastSlot
  <2>2. last \in kept /\ \A r \in kept : r <= last
    BY <2>1
  <2> HIDE DEF last
  <2>3. last \in Nat /\ MaxBufferCount(async) = 1 + last
    BY <1>1, <1>4, <1>7, <2>2
  <2>4. last >= base
    BY <2>2 DEF kept
  <2> QED
    BY <1>2, <1>3, <1>4, <1>5, <2>2, <2>3, <2>4
<1> QED
  BY <1>6, <1>7

-----------------------------------------------------------------------------
(* How slots change hands *)

FlightOps == {"createGraphicBuffer", "dequeueReturn"}

\* The same slots are DEQUEUED as before.
SameDequeued ==
    \A s \in Slots : StateOf(s)' = "DEQUEUED" <=> StateOf(s) = "DEQUEUED"

\* The same calls of dequeueBuffer are about to return the same slots.
SameFlights ==
    \A t \in Threads, s \in Slots : InFlight(t, s)' <=> InFlight(t, s)

\* A step that hands no slot out and gives none back.
OwnersKept == UNCHANGED producerSlots /\ SameFlights /\ SameDequeued

\* Slot s becomes DEQUEUED, for the client or for a call of dequeueBuffer.
HandedOut(s) ==
    /\ StateOf(s) # "DEQUEUED" /\ StateOf(s)' = "DEQUEUED"
    /\ \A r \in Slots \ {s} :
          StateOf(r)' = "DEQUEUED" <=> StateOf(r) = "DEQUEUED"
    /\ \/ producerSlots' = producerSlots \cup {s} /\ SameFlights
       \/ /\ UNCHANGED producerSlots
          /\ \E t \in Threads :
                /\ \A r \in Slots : ~InFlight(t, r) /\ (InFlight(t, r)' <=> r = s)
                /\ \A u \in Threads \ {t}, r \in Slots :
                      InFlight(u, r)' <=> InFlight(u, r)

\* The client gives slot s back by queueBuffer, cancelBuffer or detachBuffer.
GivenBack(s) ==
    /\ s \in producerSlots /\ producerSlots' = producerSlots \ {s}
    /\ SameFlights
    /\ StateOf(s) = "DEQUEUED" /\ StateOf(s)' # "DEQUEUED"
    /\ \A r \in Slots \ {s} :
          StateOf(r)' = "DEQUEUED" <=> StateOf(r) = "DEQUEUED"

\* The dequeueBuffer of thread t returns slot s to the client.
Landed(t, s) ==
    /\ InFlight(t, s) /\ producerSlots' = producerSlots \cup {s}
    /\ \A r \in Slots : ~InFlight(t, r)'
    /\ \A u \in Threads \ {t}, r \in Slots :
          InFlight(u, r)' <=> InFlight(u, r)
    /\ SameDequeued

\* The dequeueBuffer of thread t fails to allocate and forgets its slot.
Lost(t) ==
    /\ mCore.mIsAbandoned \/ "allocationFailure" \in Calls
    /\ UNCHANGED producerSlots
    /\ \A r \in Slots : ~InFlight(t, r)'
    /\ \A u \in Threads \ {t}, r \in Slots :
          InFlight(u, r)' <=> InFlight(u, r)
    /\ SameDequeued

\* disconnect takes every slot back while no dequeueBuffer is under way.
TakenBack ==
    /\ producerSlots' = {}
    /\ \A s \in Slots : StateOf(s)' # "DEQUEUED"
    /\ \A t \in Threads, s \in Slots : ~InFlight(t, s)'

\* A thread disconnects the producer only while no other thread is in a call.
DisconnectsAlone ==
    \A t \in Threads : call[t].op = "disconnect" => \A u \in Threads : u = t

\* A thread that moves on without a slot.
LEMMA OtherCall ==
    ASSUME TypeOK, NEW t \in Threads, NEW c, call' = [call EXCEPT ![t] = c],
           call[t].op \notin FlightOps, c.op \notin FlightOps
    PROVE  SameFlights
BY DEF TypeOK, SameFlights, InFlight, FlightOps

\* A call that returns and had no slot.
LEMMA OtherReturn ==
    ASSUME TypeOK, NEW t \in Threads, Returns(t), call[t].op \notin FlightOps
    PROVE  SameFlights
BY DEF Returns, Idle, TypeOK, SameFlights, InFlight, FlightOps

\* Freeing slots of which none is DEQUEUED.
LEMMA FreedOthers ==
    ASSUME TypeOK, NEW S, mSlots' = FreedAt(S),
           \A s \in S \cap Slots : StateOf(s) # "DEQUEUED"
    PROVE  SameDequeued
BY FreedFields DEF FreedAt, SameDequeued, StateOf

\* waitForFreeSlotThenRelock frees no DEQUEUED slot.
LEMMA TrimmedNotDequeued ==
    ASSUME TypeOK, NEW async \in BOOLEAN
    PROVE  /\ SlotsToFree(async) \subseteq Slots
           /\ \A s \in SlotsToFree(async) :
                 StateOf(s) \notin {"QUEUED", "DEQUEUED"}
BY BeyondMaximum DEF SlotsToFree, Beyond

\* One turn of dequeueBuffer hands a slot out, or none.
LEMMA DequeueTurnOwners ==
    ASSUME TypeOK, NEW t \in Threads, NEW async \in BOOLEAN, NEW req, NEW flags,
           call[t].op \notin FlightOps, DequeueTurn(t, async, req, flags)
    PROVE  OwnersKept \/ \E s \in Slots : HandedOut(s)
<1> DEFINE seen == flags \cup ReleaseAllFlag(async)
           retry == [op |-> "dequeueRetry", async |-> async, req |-> req,
                     flags |-> seen]
<1>0. UNCHANGED producerSlots
  BY DEF DequeueTurn
<1>1. CASE FreeSlotError(t, async)
  BY <1>0, <1>1, OtherReturn, FreedOthers, TrimmedNotDequeued
  DEF FreeSlotError, OwnersKept
<1>2. CASE FreeSlotWait(t, async, retry)
  <2>1. retry.op \notin FlightOps
    BY DEF FlightOps
  <2>2. call' = [call EXCEPT ![t] = retry]
    BY <1>2 DEF FreeSlotWait
  <2> HIDE DEF retry
  <2> QED
    BY <1>0, <1>2, <2>1, <2>2, OtherCall, FreedOthers, TrimmedNotDequeued
    DEF FreeSlotWait, OwnersKept
<1>3. ASSUME NEW s \in Slots, IsOldest(s, FreeSlots(async)),
             TakeSlot(t, s, async, req, seen)
      PROVE  HandedOut(s)
  <2> HIDE DEF seen
  <2>1. StateOf(s) = "FREE" /\ StateOf(s)' = "DEQUEUED"
    BY <1>3, TakeSlotEffect DEF IsOldest, FreeSlots, InState, StateOf
  <2>2. \A r \in Slots \ {s} : \/ mSlots'[r] = mSlots[r]
                               \/ /\ r \in SlotsToFree(async)
                                  /\ mSlots'[r] = Freed(mSlots[r])
    BY <1>3, TakeSlotEffect
  <2>3. \A r \in Slots \ {s} :
           StateOf(r)' = "DEQUEUED" <=> StateOf(r) = "DEQUEUED"
    BY <2>2, FreedFields, TrimmedNotDequeued DEF StateOf
  <2>4. \E attr, f : \E b \in BOOLEAN :
            call' = [call EXCEPT ![t] =
                       IF b
                       THEN [op |-> "dequeueReturn", slot |-> s, flags |-> f]
                       ELSE [op |-> "createGraphicBuffer", slot |-> s,
                             attr |-> attr, flags |-> f]]
    BY <1>3 DEF TakeSlot
  <2>5. /\ call'[t].op \in FlightOps /\ call'[t].slot = s
        /\ \A u \in Threads \ {t} : call'[u] = call[u]
    BY <2>4 DEF TypeOK, FlightOps
  <2>6. /\ \A r \in Slots : ~InFlight(t, r) /\ (InFlight(t, r)' <=> r = s)
        /\ \A u \in Threads \ {t}, r \in Slots :
              InFlight(u, r)' <=> InFlight(u, r)
    BY <2>5 DEF InFlight, FlightOps
  <2> QED
    BY <1>0, <2>1, <2>3, <2>6 DEF HandedOut
<1> QED
  BY <1>1, <1>2, <1>3 DEF DequeueTurn

\* One turn of attachBuffer(P) hands a slot out, or none.
LEMMA AttachTurnOwners ==
    ASSUME TypeOK, NEW t \in Threads, AttachTurn(t), Attaching(t)
    PROVE  OwnersKept \/ \E s \in Slots : HandedOut(s)
<1>0. call[t].op \notin FlightOps
  BY DEF Attaching, FlightOps
<1>1. \A r \in Slots : \/ mSlots'[r] = mSlots[r]
                       \/ /\ r \in SlotsToFree(FALSE)
                          /\ mSlots'[r] = Freed(mSlots[r])
      => (StateOf(r)' = "DEQUEUED" <=> StateOf(r) = "DEQUEUED")
  BY FreedFields, TrimmedNotDequeued DEF StateOf
<1>2. CASE /\ UNCHANGED producerSlots
           /\ \A u \in Threads \ {t} : call'[u] = call[u]
           /\ call'[t].op \in {"idle", "attachRetry"}
           /\ \A s \in Slots : \/ mSlots'[s] = mSlots[s]
                               \/ s \in SlotsToFree(FALSE)
                                  /\ mSlots'[s] = Freed(mSlots[s])
  <2>1. SameFlights
    BY <1>0, <1>2 DEF SameFlights, InFlight, FlightOps
  <2>2. SameDequeued
    BY <1>1, <1>2 DEF SameDequeued
  <2> QED
    BY <1>2, <2>1, <2>2 DEF OwnersKept
<1>3. CASE ~<1>2!1
  <2>1. PICK s \in Slots :
                    /\ mSlots[s].mBufferState = "FREE"
                    /\ producerSlots' = producerSlots \cup {s}
                    /\ mSlots'[s].mBufferState = "DEQUEUED"
                    /\ \A r \in Slots \ {s} :
                         \/ mSlots'[r] = mSlots[r]
                         \/ /\ r \in SlotsToFree(FALSE)
                            /\ mSlots'[r] = Freed(mSlots[r])
    BY <1>3, AttachTurnEffect
  <2>2. Returns(t)
    BY <1>3, AttachTurnEffect
  <2>3. SameFlights
    BY <1>0, <2>2, OtherReturn
  <2>4. HandedOut(s)
    BY <1>1, <2>1, <2>3 DEF HandedOut, StateOf
  <2> QED
    BY <2>4
<1> QED
  BY <1>2, <1>3

\* One of the things that can happen to the owners of slots.
OwnerMove ==
    \/ OwnersKept
    \/ \E s \in Slots : HandedOut(s) \/ GivenBack(s)
    \/ \E t \in Threads : Lost(t) \/ \E s \in Slots : Landed(t, s)
    \/ TakenBack

\* A step that leaves slots, calls and the client's slots alone.
LEMMA NobodyMoves ==
    ASSUME UNCHANGED <<mSlots, call, producerSlots>>
    PROVE  OwnersKept
BY DEF OwnersKept, SameFlights, SameDequeued, InFlight, StateOf

\* The producer's calls up to the point where they first let go of the lock.
LEMMA ProducerCallOwners ==
    ASSUME TypeOK, Homes, NEW t \in Threads, ProducerCall(t)
    PROVE  OwnerMove
<1> USE DEF threads, clients
<1>1. ASSUME NEW c, Enter(t, c), c.op \notin FlightOps
      PROVE  OwnersKept
  <2>1. call[t].op \notin FlightOps
    BY <1>1 DEF Enter, IsIdle, Idle, FlightOps
  <2> QED
    BY <1>1, <2>1, OtherCall
    DEF Enter, OwnersKept, SameDequeued, StateOf
<1>2. ASSUME NEW async \in AsyncModes, NEW req \in Requests,
             \/ Enter(t, [op |-> "dequeueBuffer", async |-> async,
                          req |-> req, flags |-> {}])
             \/ Enter(t, [op |-> "allocateBuffers", async |-> async,
                          req |-> req])
      PROVE  OwnersKept
  BY <1>1, <1>2 DEF FlightOps
<1>3. ASSUME NEW b \in Attachable,
             Enter(t, [op |-> "attachBuffer", buffer |-> b])
      PROVE  OwnersKept
  BY <1>1, <1>3 DEF FlightOps
<1>4. ASSUME NEW n \in BufferCounts,
             Enter(t, [op |-> "setBufferCount", count |-> n])
      PROVE  OwnersKept
  BY <1>1, <1>4 DEF FlightOps
<1>5. ASSUME Enter(t, [op |-> "detachNextBuffer"])
      PROVE  OwnersKept
  BY <1>1, <1>5 DEF FlightOps
<1>6. ASSUME NEW api \in Apis, Enter(t, [op |-> "disconnect", api |-> api])
      PROVE  OwnersKept
  BY <1>1, <1>6 DEF FlightOps
<1>7. UNCHANGED call => SameFlights
  BY DEF SameFlights, InFlight
<1>8. ASSUME NEW s \in Slots, RequestBuffer(t, s)
      PROVE  OwnersKept
  <2>1. \A r \in Slots : mSlots'[r].mBufferState = mSlots[r].mBufferState
    BY <1>8 DEF RequestBuffer, TypeOK, BufferSlot
  <2> QED
    BY <1>7, <1>8, <2>1 DEF RequestBuffer, OwnersKept, SameDequeued, StateOf
<1>9. ASSUME NEW s \in Slots, ProducerDetachBuffer(t, s)
      PROVE  GivenBack(s)
  BY <1>7, <1>9, DetachEffects, FreedFields
  DEF DetachEffect, GivenBack, StateOf
<1>10. ASSUME NEW s \in Slots, CancelBuffer(t, s)
       PROVE  GivenBack(s)
  <2>1. /\ mSlots'[s] = Cancelled(mSlots[s])
        /\ \A r \in Slots \ {s} : mSlots'[r] = mSlots[r]
    BY <1>10 DEF CancelBuffer, TypeOK
  <2> QED
    BY <1>7, <1>10, <2>1, SlotIsRecord, SlotFields
    DEF CancelBuffer, GivenBack, StateOf
<1>11. ASSUME NEW s \in Slots, NEW async \in AsyncModes,
              QueueBufferInVRMode(t, s, async)
       PROVE  GivenBack(s)
  <2>1. /\ mSlots[s].mBufferState = "DEQUEUED"
        /\ mSlots'[s].mBufferState = "FREE"
        /\ \A r \in Slots \ {s} : mSlots'[r] = mSlots[r]
    BY <1>11 DEF QueueBufferInVRMode, MayQueue, TypeOK, BufferSlot
  <2> QED
    BY <1>7, <1>11, <2>1
    DEF QueueBufferInVRMode, MayQueue, GivenBack, StateOf
<1>12. ASSUME NEW s \in Slots, NEW async \in AsyncModes, NEW stamp \in Stamps,
              QueueBuffer(t, s, async, stamp)
       PROVE  GivenBack(s)
  <2>1. ~GivenUp(s)
    BY <1>12, QueueBufferEffect, GivenUpElsewhere
  <2>2. /\ StateOf(s) = "DEQUEUED" /\ StateOf(s)' = "QUEUED"
        /\ s \in producerSlots /\ producerSlots' = producerSlots \ {s}
    BY <1>12, <2>1, QueueBufferEffect DEF StateOf
  <2>3. \A r \in Slots : GivenUp(r) => StateOf(r) = "QUEUED"
    BY GivenUpElsewhere DEF StateOf
  <2>4. \A r \in Slots \ {s} : \/ mSlots'[r] = mSlots[r]
                               \/ GivenUp(r) /\ StateOf(r)' = "FREE"
    BY <1>12, QueueBufferEffect DEF StateOf
  <2>5. \A r \in Slots \ {s} :
           StateOf(r)' = "DEQUEUED" <=> StateOf(r) = "DEQUEUED"
    BY <2>3, <2>4 DEF StateOf
  <2>6. SameFlights
    BY <1>12, QueueBufferEffect DEF SameFlights, InFlight
  <2> QED
    BY <2>2, <2>5, <2>6 DEF GivenBack
<1>13. ASSUME NEW api \in Apis \cup {NO_CONNECTED_API},
              NEW byApp \in AppControlled, ProducerConnect(t, api, byApp)
       PROVE  OwnersKept
  BY <1>13, NobodyMoves DEF ProducerConnect
<1>14. ASSUME NEW stream \in BOOLEAN, SetSidebandStream(t, stream)
       PROVE  OwnersKept
  BY <1>14, NobodyMoves DEF SetSidebandStream
<1> QED
  BY <1>2, <1>3, <1>4, <1>5, <1>6, <1>8, <1>9, <1>10, <1>11, <1>12, <1>13,
     <1>14 DEF ProducerCall, OwnerMove

\* The later steps of the producer's calls.
LEMMA ProducerStepOwners ==
    ASSUME TypeOK, Homes, DisconnectsAlone, NEW t \in Threads, ProducerStep(t)
    PROVE  OwnerMove
<1> USE DEF threads, clients
<1>0. ASSUME UNCHANGED mSlots PROVE SameDequeued
  BY <1>0 DEF SameDequeued, StateOf
<1>1. CASE WaitWhileAllocating(t)
  BY <1>1, NobodyMoves DEF WaitWhileAllocating, OwnerMove
<1>2. CASE SetBufferCount(t)
  <2>1. call[t].op \notin FlightOps
    BY <1>2 DEF SetBufferCount, Runs, FlightOps
  <2>2. SameFlights
    <3>1. CASE Returns(t)
      BY <2>1, <3>1, OtherReturn
    <3>2. CASE call' = [call EXCEPT ![t] =
                          IF mCore.mConsumerListener
                          THEN [op |-> "onBuffersReleased"] ELSE Idle]
      BY <2>1, <3>2 DEF TypeOK, Idle, SameFlights, InFlight, FlightOps
    <3> QED
      BY <1>2, <3>1, <3>2 DEF SetBufferCount
  <2>3. SameDequeued
    <3>1. CASE FreeAllBuffers /\ ~SetBufferCountRefused(call[t].count)
      <4>1. \A s \in Slots : StateOf(s) # "DEQUEUED"
        BY <3>1 DEF SetBufferCountRefused, InState, StateOf
      <4> QED
        BY <3>1, <4>1, FreedOthers DEF FreeAllBuffers
    <3> QED
      BY <1>0, <1>2, <3>1 DEF SetBufferCount
  <2> QED
    BY <1>2, <2>2, <2>3 DEF SetBufferCount, OwnersKept, OwnerMove
<1>3. CASE DequeueBuffer(t)
  <2>1. call[t].op \notin FlightOps /\ call[t].async \in BOOLEAN
    BY <1>3, CallType DEF DequeueBuffer, Runs, FlightOps
  <2> QED
    BY <1>3, <2>1, DequeueTurnOwners DEF DequeueBuffer, OwnerMove
<1>4. CASE DequeueRetry(t)
  <2>1. call[t].op \notin FlightOps /\ call[t].async \in BOOLEAN
    BY <1>4, CallType DEF DequeueRetry, FlightOps
  <2> QED
    BY <1>4, <2>1, DequeueTurnOwners DEF DequeueRetry, OwnerMove
<1>5. CASE DequeueAllocate(t)
  <2>1. call[t].op = "createGraphicBuffer" /\ UNCHANGED producerSlots
    BY <1>5 DEF DequeueAllocate
  <2>2. CASE /\ mCore.mIsAbandoned \/ "allocationFailure" \in Calls
             /\ UNCHANGED mSlots /\ call'[t] = Idle
             /\ \A u \in Threads \ {t} : call'[u] = call[u]
    <3>1. Lost(t)
      BY <1>0, <2>1, <2>2 DEF Lost, InFlight, Idle
    <3> QED
      BY <3>1 DEF OwnerMove
  <2>3. CASE /\ \A r \in Slots \ {call[t].slot} : mSlots'[r] = mSlots[r]
             /\ mSlots'[call[t].slot].mBufferState =
                   mSlots[call[t].slot].mBufferState
             /\ call'[t].op = "dequeueReturn" /\ call'[t].slot = call[t].slot
             /\ \A u \in Threads \ {t} : call'[u] = call[u]
    BY <2>1, <2>3
    DEF OwnerMove, OwnersKept, SameFlights, SameDequeued, InFlight, StateOf
  <2> QED
    BY <1>5, <2>2, <2>3, DequeueAllocateEffect
<1>6. CASE DequeueReturn(t)
  <2>1. call[t].slot \in Slots
    BY <1>6, CallType DEF DequeueReturn
  <2>2. Landed(t, call[t].slot)
    BY <1>0, <1>6, <2>1
    DEF DequeueReturn, Landed, InFlight, Returns, Idle, TypeOK
  <2> QED
    BY <2>1, <2>2 DEF OwnerMove
<1>7. CASE DetachNextBuffer(t)
  <2>1. SameFlights
    BY <1>7, OtherReturn DEF DetachNextBuffer, Runs, FlightOps
  <2>2. SameDequeued
    BY <1>0, <1>7, DetachEffects, FreedFields
    DEF DetachEffect, SameDequeued, StateOf
  <2> QED
    BY <1>7, <2>1, <2>2 DEF DetachNextBuffer, OwnersKept, OwnerMove
<1>8. CASE ProducerAttachBuffer(t) \/ AttachRetry(t)
  <2>1. AttachTurn(t) /\ Attaching(t)
    BY <1>8 DEF ProducerAttachBuffer, AttachRetry, Runs, Attaching
  <2> QED
    BY <2>1, AttachTurnOwners DEF OwnerMove
<1>9. CASE CallBack(t)
  BY <1>0, <1>9, OtherReturn DEF CallBack, OwnerMove, OwnersKept, FlightOps
<1>10. CASE CallBackReleased(t)
  BY <1>0, <1>10, OtherReturn
  DEF CallBackReleased, OwnerMove, OwnersKept, FlightOps
<1>11. CASE ProducerDisconnect(t)
  <2>1. call[t].op \notin FlightOps /\ \A u \in Threads : u = t
    BY <1>11
    DEF ProducerDisconnect, Runs, FlightOps, DisconnectsAlone
  <2>2. CASE Returns(t) /\ UNCHANGED <<mSlots, producerSlots>>
    BY <1>0, <2>1, <2>2, OtherReturn DEF OwnerMove, OwnersKept
  <2>3. CASE /\ FreeAllBuffers
             /\ call' = [call EXCEPT ![t] =
                           IF mCore.mConsumerListener
                           THEN [op |-> "onBuffersReleased"] ELSE Idle]
             /\ producerSlots' = {}
    <3>1. call'[t].op \notin FlightOps
      BY <2>3 DEF TypeOK, Idle, FlightOps
    <3>2. \A s \in Slots : StateOf(s)' = "FREE"
      BY <2>3, FreedFields DEF FreeAllBuffers, FreedAt, StateOf
    <3> QED
      BY <2>1, <2>3, <3>1, <3>2 DEF OwnerMove, TakenBack, InFlight, FlightOps
  <2> QED
    BY <1>11, <2>2, <2>3 DEF ProducerDisconnect
<1>12. CASE AllocateBuffers(t)
  <2>1. call[t].op \notin FlightOps /\ call'[t].op \notin FlightOps
    <3>1. \/ Returns(t)
          \/ \E slots, attr :
               call' = [call EXCEPT ![t] =
                 [op |-> "allocating", async |-> call[t].async,
                  req |-> call[t].req, slots |-> slots, attr |-> attr]]
      BY <1>12 DEF AllocateBuffers
    <3> QED
      BY <1>12, <3>1 DEF AllocateBuffers, Runs, Returns, Idle, TypeOK, FlightOps
  <2>2. SameFlights
    BY <1>12, <2>1, AllocateFrame DEF SameFlights, InFlight, FlightOps
  <2> QED
    BY <1>0, <1>12, <2>2 DEF AllocateBuffers, OwnersKept, OwnerMove
<1>13. CASE AllocateBuffersCommit(t)
  <2>1. call[t].op = "allocating"
    BY <1>13 DEF AllocateBuffersCommit
  <2>2. SameFlights
    BY <1>13, <2>1, AllocateCommitEffect DEF SameFlights, InFlight
  <2>3. SameDequeued
    BY <1>13, AllocateCommitEffect DEF SameDequeued, StateOf
  <2> QED
    BY <1>13, <2>2, <2>3, AllocateCommitEffect DEF OwnersKept, OwnerMove
<1> QED
  BY <1>1, <1>2, <1>3, <1>4, <1>5, <1>6, <1>7, <1>8, <1>9, <1>10, <1>11,
     <1>12, <1>13 DEF ProducerStep

\* The consumer hands no slot out and takes none from the producer, unless it
\* abandons the queue.
LEMMA ConsumerCallOwners ==
    ASSUME TypeOK, Homes, ConsumerCall, ~ConsumerDisconnect
    PROVE  OwnersKept
<1> USE DEF threads, consumer, clients
<1>0. ASSUME UNCHANGED <<call, producerSlots>>, SameDequeued
      PROVE  OwnersKept
  BY <1>0 DEF OwnersKept, SameFlights, InFlight
<1>1. ASSUME NEW expectedPresent \in PresentTimes,
             AcquireBuffer(expectedPresent)
      PROVE  OwnersKept
  <2>1. PICK n \in 1..Len(mQueue) : AcquireEffect(n)
    BY <1>1, AcquireBufferEffect
  <2>2. \A r \in Slots : DroppedBefore(n, r) \/ TakenAt(n, r) =>
           StateOf(r) = "QUEUED"
    BY DEF TakenAt, DroppedBefore, StillTracking, BufferIn, Homes,
           FramesAtHome, TypeOK
  <2>3. \A r \in Slots : \/ mSlots'[r] = mSlots[r]
                         \/ /\ DroppedBefore(n, r) \/ TakenAt(n, r)
                            /\ StateOf(r)' \in {"FREE", "ACQUIRED"}
    BY <2>1 DEF AcquireEffect, StateOf
  <2>4. SameDequeued
    BY <2>2, <2>3 DEF SameDequeued, StateOf
  <2> QED
    BY <1>0, <1>1, <2>4, AcquireBufferEffect
<1>2. ASSUME NEW item \in consumerItems, ConsumerDetachBuffer(item)
      PROVE  OwnersKept
  <2>1. SameDequeued
    BY <1>2, DetachEffects, FreedFields
    DEF DetachEffect, SameDequeued, StateOf
  <2> QED
    BY <1>0, <1>2, <2>1, DetachEffects
<1>3. ASSUME NEW item \in consumerItems, ReleaseBuffer(item)
      PROVE  OwnersKept
  <2>1. SameDequeued
    BY <1>3, ReleaseBufferEffect DEF SameDequeued, StateOf
  <2> QED
    BY <1>0, <1>3, <2>1, ReleaseBufferEffect
<1>4. ASSUME NEW item \in consumerItems, ReleaseStaleBuffer(item)
      PROVE  OwnersKept
  <2>1. item.slot \in Slots
    BY ItemTypes
  <2>2. \A r \in Slots : mSlots'[r].mBufferState = mSlots[r].mBufferState
    BY <1>4, <2>1 DEF ReleaseStaleBuffer, TypeOK, BufferSlot
  <2> QED
    BY <1>0, <1>4, <2>2 DEF ReleaseStaleBuffer, SameDequeued, StateOf
<1>5. ASSUME NEW b \in Attachable, ConsumerAttachBuffer(b)
      PROVE  OwnersKept
  <2>1. SameDequeued
    BY <1>5, ConsumerAttachEffect DEF SameDequeued, StateOf
  <2> QED
    BY <1>0, <1>5, <2>1, ConsumerAttachEffect
<1>6. ASSUME NEW byApp \in AppControlled, ConsumerConnect(byApp)
      PROVE  OwnersKept
  BY <1>6, NobodyMoves DEF ConsumerConnect
<1>7. ASSUME \/ \E size \in Sizes : SetDefaultBufferSize(size)
             \/ \E format \in Formats : SetDefaultBufferFormat(format)
             \/ \E usage \in SUBSET UsageBits : SetConsumerUsageBits(usage)
             \/ \E n \in 1..NUM_BUFFER_SLOTS : SetDefaultMaxBufferCount(n)
             \/ DisableAsyncBuffer
             \/ \E n \in 1..MAX_MAX_ACQUIRED_BUFFERS :
                   SetMaxAcquiredBufferCount(n)
      PROVE  OwnersKept
  BY <1>7, NobodyMoves
  DEF SetDefaultBufferSize, SetDefaultBufferFormat, SetConsumerUsageBits,
      SetDefaultMaxBufferCount, DisableAsyncBuffer, SetMaxAcquiredBufferCount
<1> QED
  BY <1>1, <1>2, <1>3, <1>4, <1>5, <1>6, <1>7 DEF ConsumerCall

\* What a step may do to the owners of slots.
LEMMA OwnerStep ==
    ASSUME TypeOK, Homes, DisconnectsAlone, [Next]_vars
    PROVE  OwnerMove \/ mCore'.mIsAbandoned
<1> USE DEF threads, clients
<1>1. ASSUME NEW t \in Threads, BinderDied(t)
      PROVE  OwnersKept
  <2>1. call[t].op \notin FlightOps
    BY <1>1 DEF BinderDied, IsIdle, Idle, FlightOps
  <2>2. SameFlights
    BY <1>1, <2>1, OtherCall DEF BinderDied, FlightOps
  <2> QED
    BY <1>1, <2>2 DEF BinderDied, OwnersKept, SameDequeued, StateOf
<1>2. CASE ConsumerDisconnect
  BY <1>2 DEF ConsumerDisconnect, TypeOK, BufferQueueCore
<1>3. CASE ConsumerCall /\ ~ConsumerDisconnect
  BY <1>3, ConsumerCallOwners DEF OwnerMove
<1>4. ASSUME NEW b \in clientBuffers, DropClientBuffer(b)
      PROVE  OwnersKept
  BY <1>4, NobodyMoves DEF DropClientBuffer
<1>5. ASSUME NEW on \in BOOLEAN, SetVRMode(on)
      PROVE  OwnersKept
  BY <1>5, NobodyMoves DEF SetVRMode
<1>6. CASE UNCHANGED vars
  BY <1>6, NobodyMoves DEF vars, OwnerMove
<1> QED
  BY <1>1, <1>2, <1>3, <1>4, <1>5, <1>6, ProducerCallOwners,
     ProducerStepOwners DEF Next, OwnerMove

\* An abandoned queue stays abandoned.
LEMMA StaysAbandoned ==
    ASSUME TypeOK, [Next]_vars, mCore.mIsAbandoned
    PROVE  mCore'.mIsAbandoned
<1>1. CASE Quiet
  BY <1>1 DEF Quiet, QuietCore
<1>2. ASSUME NEW t \in Threads, NEW s \in Slots, NEW async \in AsyncModes,
             NEW stamp \in Stamps, QueueBuffer(t, s, async, stamp)
      PROVE  mCore'.mIsAbandoned
  BY <1>2, QueueBufferEffect
<1>3. CASE ConsumerDisconnect
  BY <1>3 DEF ConsumerDisconnect, TypeOK, BufferQueueCore
<1> QED
  BY <1>1, <1>2, <1>3, QuietStep, AllocateFrame
  DEF LoudStep, CallBack, WaitWhileAllocating, AcquireBuffer

\* The producer disconnects while none of its threads is in another call: it
\* has one thread, or it never disconnects and never dies.
NoRacingDisconnect ==
    \/ \A t, u \in Threads : t = u
    \/ "disconnect" \notin Calls /\ "binderDied" \notin Calls

\* Threads come to disconnect only by disconnect and binderDied.
LEMMA NewDisconnect ==
    ASSUME TypeOK, [Next]_vars, NEW t \in Threads,
           call'[t].op = "disconnect", call[t].op # "disconnect"
    PROVE  "disconnect" \in Calls \/ "binderDied" \in Calls
<1> SUFFICES ASSUME "disconnect" \notin Calls, "binderDied" \notin Calls
             PROVE  FALSE
  OBVIOUS
<1> USE DEF threads
<1>0. ~UNCHANGED call
  OBVIOUS
<1>1. ASSUME NEW u \in Threads, NEW c, call' = [call EXCEPT ![u] = c],
             c.op # "disconnect"
      PROVE  FALSE
  BY <1>1 DEF TypeOK
<1>2. ASSUME NEW u \in Threads, Returns(u) PROVE FALSE
  BY <1>2 DEF TypeOK, Returns, Idle
<1>3. ASSUME NEW u \in Threads, ProducerCall(u) PROVE FALSE
  <2>1. ASSUME NEW c, Enter(u, c) PROVE c.op = "disconnect" /\ c.op \in Calls
    BY <1>1, <2>1 DEF Enter
  <2>2. ASSUME NEW async \in AsyncModes, NEW req \in Requests,
               \/ Enter(u, [op |-> "dequeueBuffer", async |-> async,
                            req |-> req, flags |-> {}])
               \/ Enter(u, [op |-> "allocateBuffers", async |-> async,
                            req |-> req])
        PROVE  FALSE
    BY <2>1, <2>2
  <2>3. ASSUME NEW b \in Attachable,
               Enter(u, [op |-> "attachBuffer", buffer |-> b])
        PROVE  FALSE
    BY <2>1, <2>3
  <2>4. ASSUME NEW n \in BufferCounts,
               Enter(u, [op |-> "setBufferCount", count |-> n])
        PROVE  FALSE
    BY <2>1, <2>4
  <2>5. ASSUME Enter(u, [op |-> "detachNextBuffer"])
        PROVE  FALSE
    BY <2>1, <2>5
  <2>6. ASSUME NEW api \in Apis, Enter(u, [op |-> "disconnect", api |-> api])
        PROVE  FALSE
    BY <2>1, <2>6
  <2>7. ASSUME NEW s \in Slots, NEW async \in AsyncModes, NEW stamp \in Stamps,
               QueueBuffer(u, s, async, stamp)
        PROVE  FALSE
    BY <2>7, QueueBufferEffect
  <2> QED
    BY <1>0, <1>3, <2>2, <2>3, <2>4, <2>5, <2>6, <2>7
    DEF ProducerCall, RequestBuffer, ProducerDetachBuffer, CancelBuffer,
        QueueBufferInVRMode, ProducerConnect, SetSidebandStream
<1>4. ASSUME NEW u \in Threads, ProducerStep(u) PROVE FALSE
  <2>1. CASE DequeueBuffer(u) \/ DequeueRetry(u)
    <3>1. PICK async, req, flags : DequeueTurn(u, async, req, flags)
      BY <2>1 DEF DequeueBuffer, DequeueRetry
    <3>2. \E c : call' = [call EXCEPT ![u] = c] /\ c.op # "disconnect"
      <4>1. CASE FreeSlotError(u, async)
        BY <4>1 DEF FreeSlotError, Returns, Idle
      <4>2. CASE FreeSlotWait(u, async, [op |-> "dequeueRetry",
                        async |-> async, req |-> req,
                        flags |-> flags \cup ReleaseAllFlag(async)])
        BY <4>2 DEF FreeSlotWait
      <4>3. ASSUME NEW s \in Slots,
                   TakeSlot(u, s, async, req,
                            flags \cup ReleaseAllFlag(async))
            PROVE  \E c : call' = [call EXCEPT ![u] = c]
                          /\ c.op # "disconnect"
        BY <4>3 DEF TakeSlot
      <4> QED
        BY <3>1, <4>1, <4>2, <4>3 DEF DequeueTurn
    <3> QED
      BY <1>1, <3>2
  <2>2. CASE ProducerAttachBuffer(u) \/ AttachRetry(u)
    <3>1. AttachTurn(u) /\ Attaching(u)
      BY <2>2 DEF ProducerAttachBuffer, AttachRetry, Runs, Attaching
    <3>2. CASE Returns(u)
      BY <1>2, <3>2
    <3> QED
      BY <3>1, <3>2, AttachTurnEffect
  <2>3. CASE DequeueAllocate(u)
    BY <2>3, DequeueAllocateEffect DEF Idle
  <2>4. CASE SetBufferCount(u) \/ ProducerDisconnect(u)
    <3>1. Returns(u) \/ call' = [call EXCEPT ![u] =
                          IF mCore.mConsumerListener
                          THEN [op |-> "onBuffersReleased"] ELSE Idle]
      BY <2>4 DEF SetBufferCount, ProducerDisconnect
    <3> QED
      BY <1>2, <3>1 DEF TypeOK, Idle
  <2>5. CASE AllocateBuffers(u)
    <3>1. \/ Returns(u)
          \/ \E slots, attr :
               call' = [call EXCEPT ![u] =
                 [op |-> "allocating", async |-> call[u].async,
                  req |-> call[u].req, slots |-> slots, attr |-> attr]]
      BY <2>5 DEF AllocateBuffers
    <3> QED
      BY <1>2, <3>1 DEF TypeOK
  <2>6. CASE AllocateBuffersCommit(u)
    BY <2>6, AllocateCommitEffect
  <2> QED
    BY <1>0, <1>2, <1>4, <2>1, <2>2, <2>3, <2>4, <2>5, <2>6
    DEF ProducerStep, WaitWhileAllocating, DequeueReturn, DetachNextBuffer,
        CallBack, CallBackReleased
<1>5. CASE ConsumerCall
  BY <1>0, <1>5
  DEF ConsumerCall, AcquireBuffer, ConsumerDetachBuffer,
     ReleaseBuffer, ReleaseStaleBuffer, ConsumerAttachBuffer,
     ConsumerConnect, ConsumerDisconnect, SetDefaultBufferSize,
     SetDefaultBufferFormat, SetConsumerUsageBits, SetDefaultMaxBufferCount,
     DisableAsyncBuffer, SetMaxAcquiredBufferCount
<1> QED
  BY <1>0, <1>3, <1>4, <1>5
  DEF Next, vars, BinderDied, DropClientBuffer, SetVRMode

-----------------------------------------------------------------------------
(* Every slot has one owner *)

\* No slot has two owners, and only DEQUEUED slots have one.  A failed
\* allocation does not break it, so it carries less than SlotOwnedOnce.
Owners ==
    ~mCore.mIsAbandoned =>
      \A s \in Slots :
        /\ \A t \in Threads : InFlight(t, s) => s \notin producerSlots
        /\ \A t, u \in Threads : InFlight(t, s) /\ InFlight(u, s) => t = u
        /\ s \in producerSlots \/ (\E t \in Threads : InFlight(t, s)) =>
              StateOf(s) = "DEQUEUED"

\* Every DEQUEUED slot has an owner.
Claimed ==
    ~mCore.mIsAbandoned =>
      \A s \in Slots : StateOf(s) = "DEQUEUED" =>
         s \in producerSlots \/ \E t \in Threads : InFlight(t, s)

\* Each kind of move keeps slots with one owner.
LEMMA OwnersStep ==
    ASSUME TypeOK, Homes, DisconnectsAlone, Owners, [Next]_vars
    PROVE  Owners'
<1> SUFFICES ASSUME ~mCore'.mIsAbandoned PROVE Owners'
  BY DEF Owners
<1>0. ~mCore.mIsAbandoned
  BY StaysAbandoned
<1>1. CASE OwnersKept
  BY <1>0, <1>1 DEF OwnersKept, SameFlights, SameDequeued, Owners
<1>2. ASSUME NEW s \in Slots, HandedOut(s) PROVE Owners'
  <2>1. s \notin producerSlots /\ \A t \in Threads : ~InFlight(t, s)
    BY <1>0, <1>2 DEF HandedOut, Owners
  <2>2. CASE producerSlots' = producerSlots \cup {s} /\ SameFlights
    BY <1>0, <1>2, <2>1, <2>2 DEF HandedOut, SameFlights, Owners
  <2>3. CASE ~<2>2!1
    <3>1. PICK t \in Threads :
                /\ \A r \in Slots : InFlight(t, r)' <=> r = s
                /\ \A u \in Threads \ {t}, r \in Slots :
                      InFlight(u, r)' <=> InFlight(u, r)
      BY <1>2, <2>3 DEF HandedOut
    <3>2. UNCHANGED producerSlots
      BY <1>2, <2>3 DEF HandedOut
    <3>3. \A r \in Slots, u, v \in Threads :
            InFlight(u, r)' /\ InFlight(v, r)' => u = v
      <4>1. \A u \in Threads : InFlight(u, s)' => u = t
        BY <2>1, <3>1
      <4>2. \A r \in Slots \ {s}, u \in Threads :
              InFlight(u, r)' => InFlight(u, r)
        BY <3>1
      <4> QED
        BY <1>0, <4>1, <4>2 DEF Owners
    <3>4. \A r \in Slots, u \in Threads :
            InFlight(u, r)' => r = s \/ InFlight(u, r)
      BY <3>1
    <3> QED
      BY <1>0, <1>2, <2>1, <3>2, <3>3, <3>4 DEF HandedOut, Owners
  <2> QED
    BY <2>2, <2>3
<1>3. ASSUME NEW s \in Slots, GivenBack(s) PROVE Owners'
  BY <1>0, <1>3 DEF GivenBack, SameFlights, Owners
<1>4. ASSUME NEW t \in Threads, NEW s \in Slots, Landed(t, s) PROVE Owners'
  <2>1. \A r \in Slots, u \in Threads :
           InFlight(u, r)' => InFlight(u, r) /\ u # t
    BY <1>4 DEF Landed
  <2> QED
    BY <1>0, <1>4, <2>1 DEF Landed, SameDequeued, Owners
<1>5. ASSUME NEW t \in Threads, Lost(t) PROVE Owners'
  <2>1. \A r \in Slots, u \in Threads : InFlight(u, r)' => InFlight(u, r)
    BY <1>5 DEF Lost
  <2> QED
    BY <1>0, <1>5, <2>1 DEF Lost, SameDequeued, Owners
<1>6. CASE TakenBack
  BY <1>6 DEF TakenBack, Owners
<1> QED
  BY <1>1, <1>2, <1>3, <1>4, <1>5, <1>6, OwnerStep DEF OwnerMove

\* No DEQUEUED slot loses its owner, unless an allocation fails.
LEMMA ClaimedStep ==
    ASSUME "allocationFailure" \notin Calls, TypeOK, Homes, DisconnectsAlone,
           Claimed, [Next]_vars
    PROVE  Claimed'
<1> SUFFICES ASSUME ~mCore'.mIsAbandoned PROVE Claimed'
  BY DEF Claimed
<1>0. ~mCore.mIsAbandoned
  BY StaysAbandoned
<1>1. CASE OwnersKept
  BY <1>0, <1>1 DEF OwnersKept, SameFlights, SameDequeued, Claimed
<1>2. ASSUME NEW s \in Slots, HandedOut(s) PROVE Claimed'
  <2>1. CASE producerSlots' = producerSlots \cup {s} /\ SameFlights
    BY <1>0, <1>2, <2>1 DEF HandedOut, SameFlights, Claimed
  <2>2. CASE ~<2>1!1
    <3>1. PICK t \in Threads :
                /\ \A r \in Slots : /\ ~InFlight(t, r)
                                    /\ InFlight(t, r)' <=> r = s
                /\ \A u \in Threads \ {t}, r \in Slots :
                      InFlight(u, r)' <=> InFlight(u, r)
      BY <1>2, <2>2 DEF HandedOut
    <3>2. UNCHANGED producerSlots
      BY <1>2, <2>2 DEF HandedOut
    <3>3. \A r \in Slots, u \in Threads : InFlight(u, r) => InFlight(u, r)'
      BY <3>1
    <3> QED
      BY <1>0, <1>2, <3>1, <3>2, <3>3 DEF HandedOut, Claimed
  <2> QED
    BY <2>1, <2>2
<1>3. ASSUME NEW s \in Slots, GivenBack(s) PROVE Claimed'
  BY <1>0, <1>3 DEF GivenBack, SameFlights, Claimed
<1>4. ASSUME NEW t \in Threads, NEW s \in Slots, Landed(t, s) PROVE Claimed'
  <2>1. \A r \in Slots, u \in Threads :
           InFlight(u, r) => InFlight(u, r)' \/ r = s
    BY <1>4 DEF Landed, InFlight
  <2> QED
    BY <1>0, <1>4, <2>1 DEF Landed, SameDequeued, Claimed
<1>5. ASSUME NEW t \in Threads, Lost(t) PROVE Claimed'
  BY <1>0, <1>5 DEF Lost
<1>6. CASE TakenBack
  BY <1>6 DEF TakenBack, Claimed
<1> QED
  BY <1>1, <1>2, <1>3, <1>4, <1>5, <1>6, OwnerStep DEF OwnerMove

\* Under the assumption NoRacingDisconnect no slot ever has two owners.
LEMMA OwnersInductive ==
    ASSUME NoRacingDisconnect
    PROVE  Spec => [](DisconnectsAlone /\ Owners)
<1>1. Init => DisconnectsAlone /\ Owners
  BY DEF Init, DisconnectsAlone, Owners, InFlight, Idle
<1>2. TypeOK /\ Homes /\ DisconnectsAlone /\ Owners /\ [Next]_vars
        => DisconnectsAlone' /\ Owners'
  <2> SUFFICES ASSUME TypeOK, Homes, DisconnectsAlone, Owners, [Next]_vars
               PROVE  DisconnectsAlone' /\ Owners'
    OBVIOUS
  <2>1. DisconnectsAlone'
    BY NewDisconnect DEF DisconnectsAlone, NoRacingDisconnect
  <2> QED
    BY <2>1, OwnersStep
<1> QED
  BY <1>1, <1>2, TypeCorrect, HomesInductive, PTL DEF Spec

\* Ownership of a slot passes from hand to hand: while the queue is not
\* abandoned a DEQUEUED slot belongs to the client or to exactly one call that
\* is about to return it, however many threads dequeue, attach, cancel, queue
\* and allocate at once.  A failed allocation would lose its slot, and a
\* disconnect under a dequeueBuffer of another thread would free the slot it
\* is about to return (the run disconnect_race shows it).
THEOREM SlotsOwnedOnce ==
    ASSUME NoRacingDisconnect, "allocationFailure" \notin Calls
    PROVE  Spec => []SlotOwnedOnce
<1>1. Init => Claimed
  BY DEF Init, Claimed, StateOf, EmptySlot
<1>2. TypeOK /\ Homes /\ DisconnectsAlone /\ Claimed /\ [Next]_vars => Claimed'
  BY ClaimedStep
<1>3. Owners /\ Claimed => SlotOwnedOnce
  BY DEF Owners, Claimed, SlotOwnedOnce, StateOf
<1> QED
  BY <1>1, <1>2, <1>3, TypeCorrect, HomesInductive, OwnersInductive, PTL
  DEF Spec

-----------------------------------------------------------------------------
(* Every QUEUED slot has its frame *)

\* A frame of the FIFO is about the buffer in slot s.
HasFrame(s) ==
    \E i \in 1..Len(mQueue) :
        mQueue[i].mSlot = s /\ mQueue[i].mGraphicBuffer = BufferIn(s)

Tracked == \A s \in Slots : StateOf(s) = "QUEUED" => HasFrame(s)

\* A step that queues no slot and keeps the FIFO.
LEMMA TrackedKept ==
    ASSUME Tracked, UNCHANGED mQueue,
           \A s \in Slots : StateOf(s)' = "QUEUED" =>
              StateOf(s) = "QUEUED" /\ BufferIn(s)' = BufferIn(s)
    PROVE  Tracked'
BY DEF Tracked, HasFrame

\* queueBuffer puts the frame of its slot into the FIFO, and takes out only a
\* frame whose slot it frees.
LEMMA QueueTracked ==
    ASSUME TypeOK, Homes, Tracked, NEW t \in Threads, NEW s \in Slots,
           NEW async \in AsyncModes, NEW stamp \in Stamps,
           QueueBuffer(t, s, async, stamp)
    PROVE  Tracked'
<1>1. PICK n \in 1..(Len(mQueue) + 1) :
             /\ n = IF Replaces THEN 1 ELSE Len(mQueue) + 1
             /\ Len(mQueue') = IF Replaces THEN Len(mQueue)
                               ELSE Len(mQueue) + 1
             /\ Replaces => Len(mQueue) > 0
             /\ mQueue'[n].mSlot = s
             /\ mQueue'[n].mGraphicBuffer = mSlots[s].mGraphicBuffer
             /\ \A i \in 1..Len(mQueue') :
                  i # n => i \in 1..Len(mQueue) /\ mQueue'[i] = mQueue[i]
  BY QueueBufferQueue
<1>2. Len(mQueue) \in Nat
  BY DEF TypeOK
<1>3. \A i \in 1..Len(mQueue) : /\ i \in 1..Len(mQueue')
                                /\ i # n => mQueue'[i] = mQueue[i]
                                /\ i = n => i = 1 /\ Replaces
  BY <1>1, <1>2
<1>4. n \in 1..Len(mQueue')
  BY <1>1, <1>2
<1>5. ~GivenUp(s)
  BY QueueBufferEffect, GivenUpElsewhere
<1>6. /\ BufferIn(s)' = BufferIn(s)
      /\ \A r \in Slots \ {s} : \/ mSlots'[r] = mSlots[r] /\ ~GivenUp(r)
                                \/ StateOf(r)' = "FREE"
  BY <1>5, QueueBufferEffect DEF BufferIn, StateOf
<1>7. HasFrame(s)'
  BY <1>1, <1>4, <1>6 DEF HasFrame, BufferIn
<1>8. ASSUME NEW r \in Slots \ {s}, StateOf(r)' = "QUEUED"
      PROVE  HasFrame(r)'
  <2>1. mSlots'[r] = mSlots[r] /\ ~GivenUp(r)
    BY <1>6, <1>8
  <2>2. PICK i \in 1..Len(mQueue) :
           mQueue[i].mSlot = r /\ mQueue[i].mGraphicBuffer = BufferIn(r)
    BY <1>8, <2>1 DEF Tracked, HasFrame, StateOf
  <2>3. i # n
    BY <1>3, <2>1, <2>2 DEF GivenUp, StillTracking, BufferIn
  <2> QED
    BY <1>3, <2>1, <2>2, <2>3 DEF HasFrame, BufferIn
<1> QED
  BY <1>7, <1>8 DEF Tracked

\* acquireBuffer frees or acquires the slots of all frames it takes out.
LEMMA AcquireTracked ==
    ASSUME TypeOK, Tracked, NEW n \in 1..Len(mQueue), AcquireEffect(n)
    PROVE  Tracked'
<1> SUFFICES ASSUME NEW r \in Slots, StateOf(r)' = "QUEUED"
             PROVE  HasFrame(r)'
  BY DEF Tracked
<1>1. /\ ~TakenAt(n, r) /\ ~DroppedBefore(n, r)
      /\ mSlots'[r] = mSlots[r]
  BY DEF AcquireEffect, StateOf
<1>2. PICK i \in 1..Len(mQueue) :
         mQueue[i].mSlot = r /\ mQueue[i].mGraphicBuffer = BufferIn(r)
  BY <1>1 DEF Tracked, HasFrame, StateOf
<1>3. StillTracking(mQueue[i])
  BY <1>2 DEF StillTracking, BufferIn
<1>4. i # n /\ i \notin 1..(n - 1)
  BY <1>1, <1>2, <1>3 DEF TakenAt, DroppedBefore
<1>5. Len(mQueue) \in Nat
  BY DEF TypeOK
<1> DEFINE k == i - n
<1>6. k \in 1..Len(mQueue') /\ k + n = i
  BY <1>4, <1>5 DEF AcquireEffect
<1>7. mQueue'[k] = mQueue[i]
  BY <1>6 DEF AcquireEffect
<1> HIDE DEF k
<1> QED
  BY <1>1, <1>2, <1>6, <1>7 DEF HasFrame, BufferIn

\* No step leaves a slot QUEUED without a frame: what dequeueBuffer allocates
\* goes into a slot that is still its own.
LEMMA TrackedStep ==
    ASSUME TypeOK, Homes, Owners, Tracked, [Next]_vars
    PROVE  Tracked'
<1>1. CASE Calm
  <2>1. CASE mQueue' = <<>> /\ \A s \in Slots : StateOf(s)' = "FREE"
    BY <2>1 DEF Tracked
  <2>2. CASE UNCHANGED mQueue
    <3>1. \A s \in Slots : StateOf(s)' = "QUEUED" =>
              StateOf(s) = "QUEUED" /\ BufferIn(s)' = BufferIn(s)
      BY <1>1 DEF Calm, CalmSlots, SlotKept, StateOf, BufferIn
    <3> QED
      BY <2>2, <3>1, TrackedKept
  <2> QED
    BY <1>1, <2>1, <2>2 DEF Calm, CalmQueue, StateOf
<1>2. ASSUME NEW t \in Threads, NEW b \in Attachable,
             Enter(t, [op |-> "attachBuffer", buffer |-> b])
      PROVE  Tracked'
  BY <1>2 DEF Enter, Tracked, HasFrame, StateOf, BufferIn
<1>3. ASSUME NEW t \in Threads, DequeueAllocate(t)
      PROVE  Tracked'
  <2> DEFINE s == call[t].slot
  <2>1. s \in Slots /\ InFlight(t, s)
    BY <1>3, DequeueAllocateEffect DEF DequeueAllocate, InFlight
  <2>2. CASE UNCHANGED mSlots
    BY <1>3, <2>2, DequeueAllocateEffect, TrackedKept DEF StateOf, BufferIn
  <2>3. CASE ~UNCHANGED mSlots
    <3>1. ~mCore.mIsAbandoned
      BY <1>3, <2>3, DequeueAllocateEffect
    <3>2. StateOf(s) = "DEQUEUED"
      BY <2>1, <3>1 DEF Owners
    <3>3. /\ \A r \in Slots \ {s} : mSlots'[r] = mSlots[r]
          /\ StateOf(s)' = StateOf(s)
      BY <1>3, <2>3, DequeueAllocateEffect DEF StateOf
    <3> QED
      BY <1>3, <3>2, <3>3, DequeueAllocateEffect, TrackedKept
      DEF StateOf, BufferIn
  <2> QED
    BY <2>2, <2>3
<1>4. ASSUME NEW t \in Threads, ProducerAttachBuffer(t) \/ AttachRetry(t)
      PROVE  Tracked'
  <2>1. AttachTurn(t) /\ Attaching(t)
    BY <1>4 DEF ProducerAttachBuffer, AttachRetry, Runs, Attaching
  <2>2. CASE ~Calm
    <3>1. /\ UNCHANGED mQueue
          /\ \A s \in Slots : \/ mSlots'[s].mBufferState = "DEQUEUED"
                              \/ mSlots'[s] = mSlots[s]
                              \/ mSlots'[s] = Freed(mSlots[s])
      BY <2>1, <2>2, AttachTurnEffect
    <3> QED
      BY <3>1, FreedFields, TrackedKept DEF StateOf, BufferIn
  <2> QED
    BY <1>1, <2>2
<1>5. ASSUME NEW s \in Slots, DetachEffect(s) PROVE Tracked'
  BY <1>5, FreedFields, TrackedKept DEF DetachEffect, StateOf, BufferIn
<1>6. ASSUME NEW t \in Threads, NEW s \in Slots, ProducerDetachBuffer(t, s)
      PROVE  Tracked'
  BY <1>5, <1>6, DetachEffects
<1>7. ASSUME NEW t \in Threads, DetachNextBuffer(t)
      PROVE  Tracked'
  <2>1. CASE UNCHANGED mSlots
    BY <1>7, <2>1, DetachEffects, TrackedKept DEF StateOf, BufferIn
  <2> QED
    BY <1>5, <1>7, <2>1, DetachEffects
<1>8. ASSUME NEW t \in Threads, NEW s \in Slots, NEW async \in AsyncModes,
             NEW stamp \in Stamps, QueueBuffer(t, s, async, stamp)
      PROVE  Tracked'
  BY <1>8, QueueTracked
<1>9. ASSUME NEW t \in Threads, AllocateBuffersCommit(t)
      PROVE  Tracked'
  BY <1>9, AllocateCommitEffect, TrackedKept DEF StateOf, BufferIn
<1>10. ASSUME NEW expectedPresent \in PresentTimes,
              AcquireBuffer(expectedPresent)
       PROVE  Tracked'
  BY <1>10, AcquireBufferEffect, AcquireTracked
<1>11. ASSUME NEW item \in consumerItems, ConsumerDetachBuffer(item)
       PROVE  Tracked'
  BY <1>5, <1>11, DetachEffects, ItemTypes
<1>12. ASSUME NEW item \in consumerItems, ReleaseBuffer(item)
       PROVE  Tracked'
  BY <1>12, ReleaseBufferEffect, TrackedKept DEF StateOf, BufferIn
<1>13. ASSUME NEW b \in Attachable, ConsumerAttachBuffer(b)
       PROVE  Tracked'
  BY <1>13, ConsumerAttachEffect, TrackedKept DEF StateOf, BufferIn
<1> QED
  BY <1>1, <1>2, <1>3, <1>4, <1>6, <1>7, <1>8, <1>9, <1>10, <1>11, <1>12,
     <1>13, CalmStep DEF BoldStep

\* Tracked is an invariant.
LEMMA TrackedInductive ==
    ASSUME NoRacingDisconnect
    PROVE  Spec => []Tracked
<1>1. Init => Tracked
  BY DEF Init, Tracked, StateOf, EmptySlot
<1>2. TypeOK /\ Homes /\ Owners /\ Tracked /\ [Next]_vars => Tracked'
  BY TrackedStep
<1> QED
  BY <1>1, <1>2, TypeCorrect, HomesInductive, OwnersInductive, PTL DEF Spec

\* A slot is QUEUED exactly while a frame of the FIFO refers to its buffer, and
\* under that frame's number, so that acquireBuffer or a drop always finds it
\* again.
THEOREM QueuedSlotsHaveFrames ==
    ASSUME NoRacingDisconnect
    PROVE  Spec => []QueuedSlotsTracked
<1>1. TypeOK /\ Homes /\ Tracked => QueuedSlotsTracked
  <2> SUFFICES ASSUME TypeOK, Homes, Tracked PROVE QueuedSlotsTracked
    OBVIOUS
  <2>1. ASSUME NEW s \in InState("QUEUED")
        PROVE  \E i \in 1..Len(mQueue) :
                  mQueue[i].mSlot = s /\ StillTracking(mQueue[i])
    BY DEF Tracked, HasFrame, InState, StateOf, StillTracking, BufferIn
  <2>2. ASSUME NEW i \in 1..Len(mQueue), StillTracking(mQueue[i])
        PROVE  /\ mSlots[mQueue[i].mSlot].mBufferState = "QUEUED"
               /\ mSlots[mQueue[i].mSlot].mFrameNumber = Frame(i)
    BY <2>2, ItemTypes
    DEF Homes, FramesAtHome, StillTracking, BufferIn, StateOf, FrameIn
  <2> QED
    BY <2>1, <2>2 DEF QueuedSlotsTracked
<1> QED
  BY <1>1, TypeCorrect, HomesInductive, TrackedInductive, PTL

-----------------------------------------------------------------------------
(* Who sleeps for a slot *)

LastOf(K) == CHOOSE s \in K : \A r \in K : r <= s

\* Nobody may dequeue without blocking: neither side's connect was controlled
\* by an application.
Blocking ==
    ~mCore.mDequeueBufferCannotBlock /\ ~mCore.mConsumerControlledByApp

\* Every dequeueBuffer under way was called with async FALSE.
Synchronous ==
    \A t \in Threads :
        call[t].op \in {"dequeueBuffer", "dequeueRetry"} => ~call[t].async

\* A step that gives a sleeper no reason to wake: no slot below the maximum
\* becomes FREE, and what limits the dequeued slots stays as it was.
Undisturbed ==
    /\ \A s \in Slots :
          /\ StateOf(s)' = "QUEUED" <=> StateOf(s) = "QUEUED"
          /\ StateOf(s)' = "DEQUEUED" <=> StateOf(s) = "DEQUEUED"
          /\ StateOf(s)' = "FREE" =>
                StateOf(s) = "FREE" \/ s >= MaxBufferCount(FALSE)
    /\ UNCHANGED mQueue
    /\ mCore'.mIsAbandoned = mCore.mIsAbandoned
    /\ mCore'.mOverrideMaxBufferCount = mCore.mOverrideMaxBufferCount
    /\ mCore'.mDefaultMaxBufferCount = mCore.mDefaultMaxBufferCount
    /\ mCore'.mMaxAcquiredBufferCount = mCore.mMaxAcquiredBufferCount
    /\ mCore'.mBufferHasBeenQueued => mCore.mBufferHasBeenQueued

\* An undisturbed queue keeps its maximum and its minimum of undequeued
\* buffers.
LEMMA SameMaximum ==
    ASSUME TypeOK, Blocking, Blocking', Undisturbed
    PROVE  /\ MaxBufferCount(FALSE)' = MaxBufferCount(FALSE)
           /\ MinUndequeuedBufferCount(FALSE)' = MinUndequeuedBufferCount(FALSE)
<1> DEFINE min  == MinMaxBufferCount(FALSE)
           base == IF mCore.mOverrideMaxBufferCount # 0
                   THEN mCore.mOverrideMaxBufferCount
                   ELSE IF mCore.mDefaultMaxBufferCount > min
                   THEN mCore.mDefaultMaxBufferCount ELSE min
           kept == {s \in InState("QUEUED") \cup InState("DEQUEUED") : s >= base}
<1>1. MaxBufferCount(FALSE) = IF kept = {} THEN base ELSE 1 + LastOf(kept)
  BY DEF MaxBufferCount, LastOf
<1>2. MaxBufferCount(FALSE)' = IF kept' = {} THEN base' ELSE 1 + LastOf(kept')
  BY DEF MaxBufferCount, LastOf
<1>3. MinUndequeuedBufferCount(FALSE)' = MinUndequeuedBufferCount(FALSE)
  BY DEF Undisturbed, Blocking, MinUndequeuedBufferCount
<1>4. base' = base
  BY <1>3 DEF Undisturbed, MinMaxBufferCount
<1>5. /\ InState("QUEUED")' = InState("QUEUED")
      /\ InState("DEQUEUED")' = InState("DEQUEUED")
  BY DEF Undisturbed, InState, StateOf
<1>6. kept' = kept
  BY <1>4, <1>5
<1> HIDE DEF base, kept
<1> QED
  BY <1>1, <1>2, <1>3, <1>4, <1>6

\* Who had to wait has to wait after an undisturbed step.
LEMMA StillWaits ==
    ASSUME TypeOK, Blocking, Blocking', Undisturbed,
           FreeSlotStatus(FALSE) = "WAIT"
    PROVE  FreeSlotStatus(FALSE)' = "WAIT"
<1>1. /\ MaxBufferCount(FALSE)' = MaxBufferCount(FALSE)
      /\ MinUndequeuedBufferCount(FALSE)' = MinUndequeuedBufferCount(FALSE)
  BY SameMaximum
<1>2. ~mCore.mIsAbandoned /\ ~TooManyDequeued(FALSE) /\ MustWait(FALSE)
  BY DEF FreeSlotStatus
<1>3. ~mCore'.mIsAbandoned /\ ~AsyncOverrideInvalid(FALSE)'
  BY <1>2 DEF Undisturbed, AsyncOverrideInvalid
<1>4. DequeuedCount(FALSE)' = DequeuedCount(FALSE)
  <2>1. {s \in InState("DEQUEUED")' : s < MaxBufferCount(FALSE)'}
          = {s \in InState("DEQUEUED") : s < MaxBufferCount(FALSE)}
    BY <1>1 DEF Undisturbed, InState, StateOf
  <2> QED
    BY <2>1 DEF DequeuedCount
<1>5. ~TooManyDequeued(FALSE)'
  BY <1>1, <1>2, <1>4 DEF TooManyDequeued, Undisturbed
<1>6. MustWait(FALSE)'
  <2> DEFINE max == MaxBufferCount(FALSE)
  <2>1. FALSE \in BOOLEAN
    OBVIOUS
  <2>2. max \in Nat /\ Slots \subseteq Nat
    <3>1. max \in Nat
      BY <2>1, BeyondMaximum, Zenon
    <3>2. Slots \subseteq Nat
      BY SlotsAssumption DEF Slots
    <3> QED
      BY <3>1, <3>2, Zenon
  <2>3. FreeSlots(FALSE)' = {s \in Slots : StateOf(s)' = "FREE" /\ s < max'}
    BY DEF FreeSlots, InState, StateOf
  <2>4. FreeSlots(FALSE) = {s \in Slots : StateOf(s) = "FREE" /\ s < max}
    BY DEF FreeSlots, InState, StateOf
  <2>5. max' = max
    BY <1>1
  <2> HIDE DEF max
  <2>6. \A s \in Slots : StateOf(s)' = "FREE" /\ s < max => StateOf(s) = "FREE"
    <3>1. \A s \in Slots :
             StateOf(s)' = "FREE" => StateOf(s) = "FREE" \/ s >= max
      BY DEF Undisturbed, max
    <3> QED
      BY <2>2, <3>1
  <2>7. FreeSlots(FALSE)' \subseteq FreeSlots(FALSE)
    BY <2>3, <2>4, <2>5, <2>6
  <2> QED
    BY <1>1, <1>2, <2>7 DEF MustWait, Undisturbed
<1> QED
  BY <1>3, <1>5, <1>6 DEF FreeSlotStatus, Blocking

\* No connect under the control of an application, no mode that cannot block.
LEMMA BlockingStep ==
    ASSUME TRUE \notin AppControlled, TypeOK, Blocking, [Next]_vars
    PROVE  Blocking'
<1> USE DEF threads, consumer, clients, Blocking
<1>0. \A byApp \in AppControlled : byApp = FALSE
  BY ModesAssumption
<1>1. ASSUME NEW t \in Threads, ProducerCall(t)
      PROVE  Blocking'
  <2>1. ASSUME NEW s \in Slots, NEW async \in AsyncModes, NEW stamp \in Stamps,
               QueueBuffer(t, s, async, stamp)
        PROVE  Blocking'
    BY <2>1 DEF QueueBuffer, TypeOK, BufferQueueCore
  <2>2. ASSUME NEW api \in Apis \cup {NO_CONNECTED_API},
               NEW byApp \in AppControlled, ProducerConnect(t, api, byApp)
        PROVE  Blocking'
    BY <2>2 DEF ProducerConnect, TypeOK, BufferQueueCore
  <2>3. ASSUME NEW stream \in BOOLEAN, SetSidebandStream(t, stream)
        PROVE  Blocking'
    BY <2>3 DEF SetSidebandStream, TypeOK, BufferQueueCore
  <2> QED
    BY <1>1, <2>1, <2>2, <2>3
    DEF ProducerCall, Enter, RequestBuffer, ProducerDetachBuffer,
        CancelBuffer, QueueBufferInVRMode
<1>2. ASSUME NEW t \in Threads, ProducerStep(t)
      PROVE  Blocking'
  <2>1. CASE SetBufferCount(t)
    BY <2>1 DEF SetBufferCount, TypeOK, BufferQueueCore
  <2>2. CASE ProducerDisconnect(t)
    BY <2>2 DEF ProducerDisconnect, TypeOK, BufferQueueCore
  <2>3. CASE AllocateBuffers(t)
    BY <2>3 DEF AllocateBuffers, TypeOK, BufferQueueCore
  <2>4. CASE AllocateBuffersCommit(t)
    BY <2>4 DEF AllocateBuffersCommit, TypeOK, BufferQueueCore
  <2> QED
    BY <1>2, <2>1, <2>2, <2>3, <2>4
    DEF ProducerStep, WaitWhileAllocating, DequeueBuffer, DequeueRetry,
        DequeueTurn, DequeueAllocate, DequeueReturn, DetachNextBuffer,
        ProducerAttachBuffer, AttachRetry, AttachTurn, CallBack,
        CallBackReleased
<1>3. CASE ConsumerCall
  <2>1. ASSUME NEW byApp \in AppControlled, ConsumerConnect(byApp)
        PROVE  Blocking'
    BY <1>0, <2>1 DEF ConsumerConnect, TypeOK, BufferQueueCore
  <2>2. CASE \/ ConsumerDisconnect
             \/ \E size \in Sizes : SetDefaultBufferSize(size)
             \/ \E format \in Formats : SetDefaultBufferFormat(format)
             \/ \E usage \in SUBSET UsageBits : SetConsumerUsageBits(usage)
             \/ \E n \in 1..NUM_BUFFER_SLOTS : SetDefaultMaxBufferCount(n)
             \/ DisableAsyncBuffer
             \/ \E n \in 1..MAX_MAX_ACQUIRED_BUFFERS :
                   SetMaxAcquiredBufferCount(n)
    BY <2>2
    DEF ConsumerDisconnect, SetDefaultBufferSize, SetDefaultBufferFormat,
        SetConsumerUsageBits, SetDefaultMaxBufferCount, DisableAsyncBuffer,
        SetMaxAcquiredBufferCount, TypeOK, BufferQueueCore
  <2> QED
    BY <1>3, <2>1, <2>2
    DEF ConsumerCall, AcquireBuffer, ConsumerDetachBuffer, ReleaseBuffer,
        ReleaseStaleBuffer, ConsumerAttachBuffer
<1> QED
  BY <1>1, <1>2, <1>3
  DEF Next, vars, BinderDied, DropClientBuffer, SetVRMode

\* No dequeueBuffer is called with async TRUE when the producer has no such
\* argument.
LEMMA SynchronousStep ==
    ASSUME TRUE \notin AsyncModes, TypeOK, Synchronous, [Next]_vars
    PROVE  Synchronous'
<1> USE DEF threads
<1> DEFINE Dequeues(c) == c.op \in {"dequeueBuffer", "dequeueRetry"}
<1>0. UNCHANGED call => Synchronous'
  BY DEF Synchronous
<1>1. ASSUME NEW u \in Threads, \A t \in Threads \ {u} : call'[t] = call[t],
             Dequeues(call'[u]) => ~call'[u].async
      PROVE  Synchronous'
  BY <1>1 DEF Synchronous
<1>2. ASSUME NEW u \in Threads, NEW c, call' = [call EXCEPT ![u] = c],
             Dequeues(c) => ~c.async
      PROVE  Synchronous'
  BY <1>2 DEF Synchronous, TypeOK
<1>3. ASSUME NEW u \in Threads, Returns(u) PROVE Synchronous'
  BY <1>2, <1>3 DEF Returns, Idle
<1>4. ASSUME NEW u \in Threads, ProducerCall(u) PROVE Synchronous'
  <2>1. ASSUME NEW c, Enter(u, c), Dequeues(c) => ~c.async PROVE Synchronous'
    BY <1>2, <2>1 DEF Enter
  <2>2. ASSUME NEW async \in AsyncModes, NEW req \in Requests,
               \/ Enter(u, [op |-> "dequeueBuffer", async |-> async,
                            req |-> req, flags |-> {}])
               \/ Enter(u, [op |-> "allocateBuffers", async |-> async,
                            req |-> req])
        PROVE  Synchronous'
    <3>1. async = FALSE
      BY ModesAssumption
    <3> QED
      BY <2>1, <2>2, <3>1
  <2>3. ASSUME NEW b \in Attachable,
               Enter(u, [op |-> "attachBuffer", buffer |-> b])
        PROVE  Synchronous'
    BY <2>1, <2>3
  <2>4. ASSUME NEW n \in BufferCounts,
               Enter(u, [op |-> "setBufferCount", count |-> n])
        PROVE  Synchronous'
    BY <2>1, <2>4
  <2>5. ASSUME Enter(u, [op |-> "detachNextBuffer"])
        PROVE  Synchronous'
    BY <2>1, <2>5
  <2>6. ASSUME NEW api \in Apis, Enter(u, [op |-> "disconnect", api |-> api])
        PROVE  Synchronous'
    BY <2>1, <2>6
  <2>7. ASSUME NEW s \in Slots, NEW async \in AsyncModes, NEW stamp \in Stamps,
               QueueBuffer(u, s, async, stamp)
        PROVE  Synchronous'
    BY <1>1, <2>7, QueueBufferEffect
  <2> QED
    BY <1>0, <1>4, <2>2, <2>3, <2>4, <2>5, <2>6, <2>7
    DEF ProducerCall, RequestBuffer, ProducerDetachBuffer, CancelBuffer,
        QueueBufferInVRMode, ProducerConnect, SetSidebandStream
<1>5. ASSUME NEW u \in Threads, ProducerStep(u) PROVE Synchronous'
  <2>1. CASE DequeueBuffer(u) \/ DequeueRetry(u)
    <3>1. PICK async, req, flags :
             DequeueTurn(u, async, req, flags) /\ ~async
      BY <2>1 DEF DequeueBuffer, DequeueRetry, Synchronous, Runs
    <3>2. CASE FreeSlotError(u, async)
      BY <1>3, <3>2 DEF FreeSlotError
    <3> DEFINE retry == [op |-> "dequeueRetry", async |-> async, req |-> req,
                         flags |-> flags \cup ReleaseAllFlag(async)]
    <3>3. CASE FreeSlotWait(u, async, retry)
      <4>1. call' = [call EXCEPT ![u] = retry] /\ ~retry.async
        BY <3>1, <3>3 DEF FreeSlotWait
      <4> HIDE DEF retry
      <4> QED
        BY <1>2, <4>1
    <3>4. ASSUME NEW s \in Slots,
                 TakeSlot(u, s, async, req, flags \cup ReleaseAllFlag(async))
          PROVE  Synchronous'
      <4>1. \E attr, f : \E b \in BOOLEAN :
              call' = [call EXCEPT ![u] =
                         IF b
                         THEN [op |-> "dequeueReturn", slot |-> s, flags |-> f]
                         ELSE [op |-> "createGraphicBuffer", slot |-> s,
                               attr |-> attr, flags |-> f]]
        BY <3>4 DEF TakeSlot
      <4> QED
        BY <1>2, <4>1
    <3> QED
      BY <3>1, <3>2, <3>3, <3>4 DEF DequeueTurn
  <2>2. CASE ProducerAttachBuffer(u) \/ AttachRetry(u)
    <3>1. AttachTurn(u) /\ Attaching(u)
      BY <2>2 DEF ProducerAttachBuffer, AttachRetry, Runs, Attaching
    <3>2. CASE Returns(u)
      BY <1>3, <3>2
    <3> QED
      BY <1>1, <3>1, <3>2, AttachTurnEffect
  <2>3. CASE DequeueAllocate(u)
    BY <1>1, <2>3, DequeueAllocateEffect DEF Idle
  <2>4. CASE SetBufferCount(u) \/ ProducerDisconnect(u)
    <3>1. Returns(u) \/ call' = [call EXCEPT ![u] =
                          IF mCore.mConsumerListener
                          THEN [op |-> "onBuffersReleased"] ELSE Idle]
      BY <2>4 DEF SetBufferCount, ProducerDisconnect
    <3> QED
      BY <1>2, <1>3, <3>1 DEF Idle
  <2>5. CASE AllocateBuffers(u)
    <3>1. \/ Returns(u)
          \/ \E slots, attr :
               call' = [call EXCEPT ![u] =
                 [op |-> "allocating", async |-> call[u].async,
                  req |-> call[u].req, slots |-> slots, attr |-> attr]]
      BY <2>5 DEF AllocateBuffers
    <3> QED
      BY <1>2, <1>3, <3>1
  <2>6. CASE AllocateBuffersCommit(u)
    BY <1>1, <2>6, AllocateCommitEffect
  <2> QED
    BY <1>0, <1>3, <1>5, <2>1, <2>2, <2>3, <2>4, <2>5, <2>6
    DEF ProducerStep, WaitWhileAllocating, DequeueReturn, DetachNextBuffer,
        CallBack, CallBackReleased
<1>6. CASE ConsumerCall
  BY <1>0, <1>6
  DEF ConsumerCall, AcquireBuffer, ConsumerDetachBuffer,
     ReleaseBuffer, ReleaseStaleBuffer, ConsumerAttachBuffer,
     ConsumerConnect, ConsumerDisconnect, SetDefaultBufferSize,
     SetDefaultBufferFormat, SetConsumerUsageBits, SetDefaultMaxBufferCount,
     DisableAsyncBuffer, SetMaxAcquiredBufferCount
<1>7. ASSUME NEW u \in Threads, BinderDied(u) PROVE Synchronous'
  BY <1>2, <1>7 DEF BinderDied
<1> QED
  BY <1>0, <1>4, <1>5, <1>6, <1>7
  DEF Next, vars, DropClientBuffer, SetVRMode

\* Who sleeps on mDequeueCondition has to wait.
Waiting ==
    (\E t \in Threads : sleeping[t] = "mDequeueCondition") =>
        FreeSlotStatus(FALSE) = "WAIT"

\* A step after which nobody sleeps on mDequeueCondition.
Woken == \A t \in Threads : sleeping'[t] # "mDequeueCondition"

\* An undisturbed step: who sleeps after it slept before it, or goes to sleep
\* because it has to wait.
Rested ==
    /\ Undisturbed
    /\ \A t \in Threads : sleeping'[t] = "mDequeueCondition" =>
          sleeping[t] = "mDequeueCondition" \/ FreeSlotStatus(FALSE) = "WAIT"

\* A broadcast leaves nobody asleep.
LEMMA BroadcastWakes ==
    ASSUME Broadcast("mDequeueCondition")
    PROVE  Woken
BY DEF Broadcast, Woken

\* The sleepers stay as they are and no slot changes state.
LEMMA NothingToWakeFor ==
    ASSUME UNCHANGED <<sleeping, mQueue, mCore>>,
           \A s \in Slots : StateOf(s)' = StateOf(s)
    PROVE  Rested
BY DEF Rested, Undisturbed

\* The part of BufferQueueCore that Undisturbed is about.
LEMMA CoreUndisturbed ==
    ASSUME UNCHANGED <<sleeping, mQueue, mSlots>>,
           mCore'.mIsAbandoned = mCore.mIsAbandoned,
           mCore'.mOverrideMaxBufferCount = mCore.mOverrideMaxBufferCount,
           mCore'.mDefaultMaxBufferCount = mCore.mDefaultMaxBufferCount,
           mCore'.mMaxAcquiredBufferCount = mCore.mMaxAcquiredBufferCount,
           mCore'.mBufferHasBeenQueued => mCore.mBufferHasBeenQueued
    PROVE  Rested
BY DEF Rested, Undisturbed, StateOf

\* A turn of waitForFreeSlotThenRelock that does not sleep finds nobody
\* asleep; one that sleeps frees only slots beyond the maximum.
LEMMA TurnRests ==
    ASSUME TypeOK, Waiting, NEW t \in Threads,
           \/ /\ FreeSlotStatus(FALSE) # "WAIT"
              /\ UNCHANGED sleeping
           \/ /\ \E c : FreeSlotWait(t, FALSE, c)
              /\ UNCHANGED <<mQueue, mCore>>
    PROVE  Rested \/ Woken
<1>1. CASE FreeSlotStatus(FALSE) # "WAIT" /\ UNCHANGED sleeping
  BY <1>1 DEF Waiting, Woken
<1>2. CASE (\E c : FreeSlotWait(t, FALSE, c)) /\ UNCHANGED <<mQueue, mCore>>
  <2>1. /\ FreeSlotStatus(FALSE) = "WAIT"
        /\ mSlots' = FreedAt(SlotsToFree(FALSE))
    BY <1>2 DEF FreeSlotWait
  <2>2. FALSE \in BOOLEAN
    OBVIOUS
  <2>3. \A s \in SlotsToFree(FALSE) :
           StateOf(s) \notin {"QUEUED", "DEQUEUED"}
    BY <2>2, TrimmedNotDequeued, Zenon
  <2>4. \A s \in SlotsToFree(FALSE) : s >= MaxBufferCount(FALSE)
    BY DEF SlotsToFree, Beyond
  <2>5. \A s \in Slots : IF s \in SlotsToFree(FALSE)
                         THEN StateOf(s)' = "FREE"
                         ELSE StateOf(s)' = StateOf(s)
    BY <2>1, FreedFields DEF FreedAt, StateOf
  <2>6. Undisturbed
    BY <1>2, <2>3, <2>4, <2>5 DEF Undisturbed
  <2> QED
    BY <2>1, <2>6 DEF Rested
<1> QED
  BY <1>1, <1>2

\* A turn of dequeueBuffer.
LEMMA DequeueTurnRests ==
    ASSUME TypeOK, Waiting, NEW t \in Threads, NEW req, NEW flags,
           DequeueTurn(t, FALSE, req, flags)
    PROVE  Rested \/ Woken
<1>1. UNCHANGED <<mQueue, mCore>>
  BY DEF DequeueTurn
<1>2. CASE FreeSlotError(t, FALSE)
  BY <1>2, TurnRests DEF FreeSlotError
<1>3. CASE FreeSlotWait(t, FALSE, [op |-> "dequeueRetry", async |-> FALSE,
                  req |-> req, flags |-> flags \cup ReleaseAllFlag(FALSE)])
  BY <1>1, <1>3, TurnRests
<1>4. ASSUME FreeSlotStatus(FALSE) = "NO_ERROR", NEW s \in Slots,
             TakeSlot(t, s, FALSE, req, flags \cup ReleaseAllFlag(FALSE))
      PROVE  Rested \/ Woken
  BY <1>4, TurnRests DEF TakeSlot
<1> QED
  BY <1>2, <1>3, <1>4 DEF DequeueTurn

\* A turn of attachBuffer(P).
LEMMA AttachTurnRests ==
    ASSUME TypeOK, Waiting, NEW t \in Threads, AttachTurn(t)
    PROVE  Rested \/ Woken
<1>1. UNCHANGED <<mQueue, mCore>>
  BY DEF AttachTurn
<1>2. CASE FreeSlotError(t, FALSE)
  BY <1>2, TurnRests DEF FreeSlotError
<1>3. CASE FreeSlotWait(t, FALSE, [op |-> "attachRetry",
                                   buffer |-> call[t].buffer])
  BY <1>1, <1>3, TurnRests
<1>4. CASE FreeSlotStatus(FALSE) = "NO_ERROR" /\ UNCHANGED sleeping
  BY <1>4, TurnRests
<1> QED
  BY <1>2, <1>3, <1>4 DEF AttachTurn

\* Outside VR mode a producer call that gives a slot back broadcasts.
LEMMA ProducerCallRests ==
    ASSUME TypeOK, ~vrMode, NEW t \in Threads, ProducerCall(t)
    PROVE  Rested \/ Woken
<1> USE DEF threads, clients
<1>1. ASSUME NEW c, Enter(t, c) PROVE Rested
  BY <1>1, NothingToWakeFor DEF Enter, StateOf
<1>2. ASSUME NEW s \in Slots, RequestBuffer(t, s) PROVE Rested
  <2>1. \A r \in Slots : mSlots'[r].mBufferState = mSlots[r].mBufferState
    BY <1>2 DEF RequestBuffer, TypeOK, BufferSlot
  <2> QED
    BY <1>2, <2>1, NothingToWakeFor DEF RequestBuffer, StateOf
<1>3. ASSUME NEW s \in Slots, ProducerDetachBuffer(t, s) \/ CancelBuffer(t, s)
      PROVE  Woken
  BY <1>3, BroadcastWakes DEF ProducerDetachBuffer, CancelBuffer
<1>4. ASSUME NEW s \in Slots, NEW async \in AsyncModes, NEW stamp \in Stamps,
             QueueBuffer(t, s, async, stamp)
      PROVE  Woken
  BY <1>4, BroadcastWakes DEF QueueBuffer
<1>5. ASSUME NEW api \in Apis \cup {NO_CONNECTED_API},
             NEW byApp \in AppControlled, ProducerConnect(t, api, byApp)
      PROVE  Rested
  BY <1>5, CoreUndisturbed DEF ProducerConnect, TypeOK, BufferQueueCore
<1>6. ASSUME NEW stream \in BOOLEAN, SetSidebandStream(t, stream)
      PROVE  Rested
  BY <1>6, CoreUndisturbed DEF SetSidebandStream, TypeOK, BufferQueueCore
<1> QED
  BY <1>1, <1>2, <1>3, <1>4, <1>5, <1>6 DEF ProducerCall, QueueBufferInVRMode

\* A later step of a producer call that frees a slot below the maximum
\* broadcasts.
LEMMA ProducerStepRests ==
    ASSUME TypeOK, Synchronous, Waiting, NEW t \in Threads, ProducerStep(t)
    PROVE  Rested \/ Woken
<1> USE DEF threads, clients
<1>1. CASE WaitWhileAllocating(t)
  <2>1. \A u \in Threads : sleeping'[u] = "mDequeueCondition" =>
           sleeping[u] = "mDequeueCondition"
    BY <1>1 DEF WaitWhileAllocating, TypeOK
  <2> QED
    BY <1>1, <2>1 DEF WaitWhileAllocating, Rested, Undisturbed, StateOf
<1>2. CASE SetBufferCount(t)
  <2>1. CASE UNCHANGED <<mSlots, mCore, sleeping>>
    BY <1>2, <2>1, NothingToWakeFor DEF SetBufferCount, StateOf
  <2> QED
    BY <1>2, <2>1, BroadcastWakes DEF SetBufferCount
<1>3. CASE DequeueBuffer(t)
  <2>1. call[t].async = FALSE
    BY <1>3, CallType DEF DequeueBuffer, Runs, Synchronous
  <2> QED
    BY <1>3, <2>1, DequeueTurnRests DEF DequeueBuffer
<1>4. CASE DequeueRetry(t)
  <2>1. call[t].async = FALSE
    BY <1>4, CallType DEF DequeueRetry, Synchronous
  <2> QED
    BY <1>4, <2>1, DequeueTurnRests DEF DequeueRetry
<1>5. CASE DequeueAllocate(t)
  <2>1. UNCHANGED <<sleeping, mQueue, mCore>>
    BY <1>5 DEF DequeueAllocate
  <2>2. \A s \in Slots : StateOf(s)' = StateOf(s)
    BY <1>5, DequeueAllocateEffect DEF StateOf
  <2> QED
    BY <2>1, <2>2, NothingToWakeFor
<1>6. CASE DequeueReturn(t) \/ CallBack(t) \/ CallBackReleased(t)
  BY <1>6, NothingToWakeFor
  DEF DequeueReturn, CallBack, CallBackReleased, StateOf
<1>7. CASE DetachNextBuffer(t)
  <2>1. \A s \in Slots : StateOf(s)' = StateOf(s)
    BY <1>7, DetachEffects, FreedFields DEF DetachEffect, StateOf
  <2> QED
    BY <1>7, <2>1, NothingToWakeFor DEF DetachNextBuffer
<1>8. CASE ProducerAttachBuffer(t) \/ AttachRetry(t)
  BY <1>8, AttachTurnRests DEF ProducerAttachBuffer, AttachRetry
<1>9. CASE ProducerDisconnect(t)
  <2>1. CASE UNCHANGED <<mSlots, mCore, sleeping>>
    BY <1>9, <2>1, NothingToWakeFor DEF ProducerDisconnect, StateOf
  <2> QED
    BY <1>9, <2>1, BroadcastWakes DEF ProducerDisconnect
<1>10. CASE AllocateBuffers(t)
  BY <1>10, CoreUndisturbed DEF AllocateBuffers, TypeOK, BufferQueueCore
<1>11. CASE AllocateBuffersCommit(t)
  <2>1. \A s \in Slots : StateOf(s)' = StateOf(s)
    BY <1>11, AllocateCommitEffect DEF StateOf
  <2>2. \A u \in Threads : sleeping'[u] = "mDequeueCondition" =>
           sleeping[u] = "mDequeueCondition"
    BY <1>11 DEF AllocateBuffersCommit, Broadcast
  <2>3. UNCHANGED mQueue /\ mCore' = [mCore EXCEPT !.mIsAllocating = FALSE]
    BY <1>11 DEF AllocateBuffersCommit
  <2> QED
    BY <2>1, <2>2, <2>3 DEF Rested, Undisturbed, TypeOK, BufferQueueCore
<1> QED
  BY <1>1, <1>2, <1>3, <1>4, <1>5, <1>6, <1>7, <1>8, <1>9, <1>10, <1>11
  DEF ProducerStep

\* A consumer call that frees a slot or takes a frame broadcasts; the consumer
\* that raises its own maximum does not.
LEMMA ConsumerCallRests ==
    ASSUME "setMaxAcquiredBufferCount" \notin Calls, TypeOK, ConsumerCall
    PROVE  Rested \/ Woken
<1> USE DEF threads, consumer, clients
<1>1. CASE \/ \E expectedPresent \in PresentTimes :
                 AcquireBuffer(expectedPresent)
           \/ \E item \in consumerItems : \/ ConsumerDetachBuffer(item)
                                          \/ ReleaseBuffer(item)
           \/ ConsumerDisconnect
           \/ \E n \in 1..NUM_BUFFER_SLOTS : SetDefaultMaxBufferCount(n)
  BY <1>1, BroadcastWakes
  DEF AcquireBuffer, ConsumerDetachBuffer, ReleaseBuffer, WakeDequeuers,
      ConsumerDisconnect, SetDefaultMaxBufferCount
<1>2. ASSUME NEW item \in consumerItems, ReleaseStaleBuffer(item)
      PROVE  Rested
  <2>1. item.slot \in Slots
    BY ItemTypes
  <2>2. \/ UNCHANGED mSlots
        \/ mSlots' = [mSlots EXCEPT
                        ![item.slot].mNeedsCleanupOnRelease = FALSE]
    BY <1>2 DEF ReleaseStaleBuffer
  <2>3. \A r \in Slots : mSlots'[r].mBufferState = mSlots[r].mBufferState
    BY <2>1, <2>2 DEF TypeOK, BufferSlot
  <2> QED
    BY <1>2, <2>3, NothingToWakeFor DEF ReleaseStaleBuffer, StateOf
<1>3. ASSUME NEW b \in Attachable, ConsumerAttachBuffer(b)
      PROVE  Rested
  <2>1. UNCHANGED <<sleeping, mQueue, mCore>>
    BY <1>3 DEF ConsumerAttachBuffer
  <2>2. \A s \in Slots : \/ StateOf(s)' = StateOf(s)
                         \/ StateOf(s) = "FREE" /\ StateOf(s)' = "ACQUIRED"
    BY <1>3, ConsumerAttachEffect DEF StateOf
  <2> QED
    BY <2>1, <2>2 DEF Rested, Undisturbed
<1>4. ASSUME NEW byApp \in AppControlled, ConsumerConnect(byApp)
      PROVE  Rested
  BY <1>4, CoreUndisturbed DEF ConsumerConnect, TypeOK, BufferQueueCore
<1>5. CASE \/ \E size \in Sizes : SetDefaultBufferSize(size)
           \/ \E format \in Formats : SetDefaultBufferFormat(format)
           \/ \E usage \in SUBSET UsageBits : SetConsumerUsageBits(usage)
           \/ DisableAsyncBuffer
  BY <1>5, CoreUndisturbed
  DEF SetDefaultBufferSize, SetDefaultBufferFormat, SetConsumerUsageBits,
      DisableAsyncBuffer, TypeOK, BufferQueueCore
<1> QED
  BY <1>1, <1>2, <1>3, <1>4, <1>5 DEF ConsumerCall, SetMaxAcquiredBufferCount

\* What the environment is asked not to do where dequeuers sleep: it leaves VR
\* mode off, never asks for a queue that cannot block, and leaves the number of
\* acquired buffers as it is (none of these steps broadcasts).
SteadyModes ==
    /\ TRUE \notin AsyncModes /\ TRUE \notin AppControlled
    /\ "setVRMode" \notin Calls /\ "setMaxAcquiredBufferCount" \notin Calls

\* Blocking, Synchronous and Waiting are an inductive invariant.
LEMMA WaitingInductive ==
    ASSUME SteadyModes
    PROVE  Spec => [](Blocking /\ Synchronous /\ Waiting)
<1> DEFINE Inv == ~vrMode /\ Blocking /\ Synchronous /\ Waiting
<1>1. Init => Inv
  BY DEF Init, Blocking, Synchronous, Waiting, Idle
<1>2. TypeOK /\ Inv /\ [Next]_vars => Inv'
  <2> SUFFICES ASSUME TypeOK, Inv, [Next]_vars PROVE Inv'
    OBVIOUS
  <2> USE DEF threads, clients
  <2>0. UNCHANGED vrMode
    BY NoVRMode DEF SteadyModes
  <2>1. ~vrMode' /\ Blocking' /\ Synchronous'
    <3>1. Blocking'
      BY BlockingStep DEF SteadyModes
    <3>2. Synchronous'
      BY SynchronousStep DEF SteadyModes
    <3> QED
      BY <2>0, <3>1, <3>2
  <2>2. Rested \/ Woken
    <3>1. ASSUME UNCHANGED <<mSlots, mQueue, mCore, sleeping>> PROVE Rested
      BY <3>1, NothingToWakeFor DEF StateOf
    <3>2. CASE UNCHANGED vars
      BY <3>1, <3>2 DEF vars
    <3>3. ASSUME NEW t \in Threads, BinderDied(t) PROVE Rested
      BY <3>1, <3>3 DEF BinderDied
    <3>4. CASE ConsumerCall
      BY <3>4, ConsumerCallRests DEF SteadyModes
    <3> QED
      BY <3>1, <3>2, <3>3, <3>4, ProducerCallRests, ProducerStepRests
      DEF Next, DropClientBuffer, SetVRMode
  <2>3. CASE Woken
    BY <2>1, <2>3 DEF Woken, Waiting
  <2>4. CASE Rested
    <3>1. (\E t \in Threads : sleeping'[t] = "mDequeueCondition") =>
             FreeSlotStatus(FALSE) = "WAIT"
      BY <2>4 DEF Rested, Waiting
    <3>2. FreeSlotStatus(FALSE) = "WAIT" => FreeSlotStatus(FALSE)' = "WAIT"
      BY <2>1, <2>4, StillWaits DEF Rested
    <3> QED
      BY <2>1, <3>1, <3>2 DEF Waiting
  <2> QED
    BY <2>2, <2>3, <2>4
<1> QED
  BY <1>1, <1>2, TypeCorrect, PTL DEF Spec

\* No wake-up is lost: whoever sleeps on mDequeueCondition would have to wait
\* if it looked again, however many threads dequeue, attach, cancel, queue,
\* detach and disconnect and whatever the consumer does.
THEOREM SleepersHaveToWait ==
    ASSUME SteadyModes
    PROVE  Spec => []NoLostWakeup
<1>1. TypeOK /\ Synchronous /\ Waiting => NoLostWakeup
  <2> SUFFICES ASSUME TypeOK, Synchronous, Waiting, NEW t \in Threads,
                      sleeping[t] = "mDequeueCondition"
               PROVE  FreeSlotStatus(call[t].op = "dequeueRetry"
                                       /\ call[t].async) = "WAIT"
    BY DEF NoLostWakeup
  <2>1. (call[t].op = "dequeueRetry" /\ call[t].async) = FALSE
    BY DEF Synchronous
  <2>2. FreeSlotStatus(FALSE) = "WAIT"
    BY DEF Waiting
  <2> QED
    BY <2>1, <2>2, Zenon
<1> QED
  BY <1>1, TypeCorrect, WaitingInductive, PTL

\* The maximum never exceeds the slot array.
LEMMA MaximumFits ==
    ASSUME TypeOK, Blocking
    PROVE  MaxBufferCount(FALSE) \in 0..NUM_BUFFER_SLOTS
<1> DEFINE min  == MinMaxBufferCount(FALSE)
           base == IF mCore.mOverrideMaxBufferCount # 0
                   THEN mCore.mOverrideMaxBufferCount
                   ELSE IF mCore.mDefaultMaxBufferCount > min
                   THEN mCore.mDefaultMaxBufferCount ELSE min
           kept == {s \in InState("QUEUED") \cup InState("DEQUEUED") : s >= base}
           max  == MaxBufferCount(FALSE)
<1>1. max = IF kept = {} THEN base ELSE 1 + LastOf(kept)
  BY DEF MaxBufferCount, LastOf
<1>2. min \in 0..NUM_BUFFER_SLOTS
  BY SlotsAssumption
  DEF MinMaxBufferCount, MinUndequeuedBufferCount, Blocking, TypeOK,
      BufferQueueCore, MAX_MAX_ACQUIRED_BUFFERS
<1> HIDE DEF min
<1>3. base \in 0..NUM_BUFFER_SLOTS
  BY <1>2, SlotsAssumption DEF TypeOK, BufferQueueCore
<1>4. kept \subseteq Slots
  BY DEF InState
<1> HIDE DEF base, kept
<1>5. kept # {} => LastOf(kept) \in Slots
  BY <1>4, LastSlot DEF LastOf
<1> HIDE DEF max
<1>6. max \in 0..NUM_BUFFER_SLOTS
  BY <1>1, <1>3, <1>5, SlotsAssumption DEF Slots
<1> QED
  BY <1>6 DEF max

\* Who has to wait once a buffer has been queued waits for a frame in the FIFO
\* or for an acquired buffer: with neither, every slot below the maximum would
\* be DEQUEUED, and dequeueBuffer would have failed instead.
LEMMA SomebodyElseHasIt ==
    ASSUME TypeOK, Blocking, Tracked, FreeSlotStatus(FALSE) = "WAIT",
           mCore.mBufferHasBeenQueued, mQueue = <<>>
    PROVE  InState("ACQUIRED") # {}
<1> SUFFICES ASSUME InState("ACQUIRED") = {} PROVE FALSE
  OBVIOUS
<1> DEFINE max == MaxBufferCount(FALSE)
           min == MinUndequeuedBufferCount(FALSE)
           dequeued == {s \in InState("DEQUEUED") : s < max}
<1>1. ~TooManyDequeued(FALSE) /\ (FreeSlots(FALSE) = {} \/ Len(mQueue) > max)
  BY DEF FreeSlotStatus, MustWait
<1>2. max \in 0..NUM_BUFFER_SLOTS
  BY MaximumFits
<1>3. FreeSlots(FALSE) = {}
  <2> HIDE DEF max
  <2>1. ~(Len(mQueue) > max)
    BY <1>2, SlotsAssumption
  <2> QED
    BY <1>1, <2>1
<1>4. \A s \in Slots : StateOf(s) \notin {"QUEUED", "ACQUIRED"}
  BY DEF Tracked, HasFrame, InState, StateOf
<1>5. \A s \in Slots : s < max => StateOf(s) # "FREE"
  BY <1>3 DEF FreeSlots, InState, StateOf
<1>6. \A s \in Slots : StateOf(s) \in {"FREE", "DEQUEUED", "QUEUED", "ACQUIRED"}
  BY DEF TypeOK, BufferSlot, StateOf
<1>7. \A s \in Slots : s < max => s \in InState("DEQUEUED")
  BY <1>4, <1>5, <1>6 DEF InState, StateOf
<1>8. InState("DEQUEUED") \subseteq Slots
  BY DEF InState
<1> HIDE DEF max
<1>9. dequeued = 0..(max - 1)
  BY <1>2, <1>7, <1>8, SlotsAssumption DEF Slots
<1>10. Cardinality(dequeued) = max
  <2>1. 0 \in Int /\ max - 1 \in Int
    BY <1>2, SlotsAssumption
  <2>2. Cardinality(0..(max - 1)) = IF 0 > max - 1 THEN 0 ELSE max - 1 - 0 + 1
    BY <2>1, FS_Interval, Zenon
  <2> HIDE DEF dequeued
  <2> QED
    BY <1>2, <1>9, <2>2, SlotsAssumption
<1>11. DequeuedCount(FALSE) = max
  BY <1>10 DEF DequeuedCount, max
<1>12. min \in Nat
  <2>1. FALSE \in BOOLEAN
    OBVIOUS
  <2> QED
    BY <2>1, BeyondMaximum, Zenon
<1> HIDE DEF min
<1>13. max - (max + 1) < min
  BY <1>2, <1>12, SlotsAssumption
<1>14. TooManyDequeued(FALSE)
  BY <1>11, <1>13 DEF TooManyDequeued, max, min
<1> QED
  BY <1>1, <1>14

\* Once a buffer has been queued, a sleeping dequeuer never waits for its own
\* process: the consumer has a frame to take or a buffer to release.
THEOREM SleepersWaitForConsumer ==
    ASSUME SteadyModes, NoRacingDisconnect
    PROVE  Spec => []ConsumerCanHelp
<1>1. TypeOK /\ Blocking /\ Tracked /\ Waiting => ConsumerCanHelp
  BY SomebodyElseHasIt DEF Waiting, ConsumerCanHelp
<1> QED
  BY <1>1, TypeCorrect, TrackedInductive, WaitingInductive, PTL
=============================================================================
