------------------------- MODULE GuiConsumersProofs -------------------------
(***************************************************************************)
(* The consumers of libgui keep in step with their queue.  The queue sends *)
(* a buffer along only the first time it is acquired, frees slots behind   *)
(* the consumer's back and calls the consumer late; yet the copy that the  *)
(* consumer falls back on is the right buffer, what the application reads  *)
(* is in nobody else's slot, and every acquired slot will be released.     *)
(*                                                                         *)
(* Every step of a consumer is, for the queue, a step of BufferQueue or    *)
(* one that only forgets items (QueueStep), so that the invariants of      *)
(* BufferQueueOwnership hold here too.  All steps but queueBuffer and      *)
(* acquireBuffer leave the slots in the sense of SlotsLeft: nothing        *)
(* becomes QUEUED or ACQUIRED, and mAcquireCalled comes up nowhere.        *)
(***************************************************************************)
EXTENDS GuiConsumers, BufferQueueOwnership

\* Neither client attaches buffers: a slot that is attached to keeps its
\* mAcquireCalled, and the consumer would look up the wrong copy.
NobodyAttaches ==
    "attachBuffer" \notin Calls /\ "consumerAttachBuffer" \notin Calls

\* A GLConsumer that uses releaseTexImage neither loses its context nor fails:
\* releaseTexImage names the buffer of the slot, which would not always be the
\* one it shows.
ReleasesWhatItShows ==
    \A c \in DOMAIN Configurations :
        "releaseTexImage" \in Configurations[c].calls =>
            /\ "switchContext" \notin Configurations[c].calls
            /\ ~Configurations[c].fails

-----------------------------------------------------------------------------
(* The queue under a consumer *)

CopyCalled(s) == mSlots[s].mAcquireCalled

\* No thread attaches a buffer.
NoAttach == \A t \in Threads : ~Attaching(t)

\* One thread at a time is in a call.
OneInside == \A t, u \in Threads : Inside(t) /\ Inside(u) => t = u

\* The slot an allocation is for stays empty until it gets its buffer.
Creating ==
    \A t \in Threads :
        call[t].op = "createGraphicBuffer" =>
            /\ BufferIn(call[t].slot) = NULL
            /\ StateOf(call[t].slot) \in {"FREE", "DEQUEUED"}
            /\ ~CopyCalled(call[t].slot)

\* The buffer of an ACQUIRED slot has been sent along.
AcquiredCalled == \A s \in Slots : StateOf(s) = "ACQUIRED" => CopyCalled(s)

\* A buffer that the consumer was given and that is in a slot is in the slot
\* it came from, under the same frame number.
ItemsMatch ==
    \A x \in consumerItems, s \in Slots :
        BufferIn(s) = x.buffer => s = x.slot /\ FrameIn(s) = x.frame

\* The FIFO is in the order of its frames, the front included.
InOrder == \A i, j \in 1..Len(mQueue) : i < j => Frame(i) < Frame(j)

\* No frame of an ACQUIRED slot is waiting, and a QUEUED slot is about the
\* newest frame that came from it.
NewestFrame ==
    \A s \in Slots, i \in 1..Len(mQueue) :
        mQueue[i].mSlot = s =>
            /\ StateOf(s) # "ACQUIRED"
            /\ StateOf(s) = "QUEUED" => Frame(i) <= FrameIn(s)

\* Once the buffer of a slot has been sent along, all frames of the slot are
\* about that buffer.
CalledFrames ==
    \A s \in Slots, i \in 1..Len(mQueue) :
        mQueue[i].mSlot = s /\ CopyCalled(s) =>
            mQueue[i].mGraphicBuffer = BufferIn(s)

\* No other frame of a slot is ahead of one whose buffer has been sent along.
CalledFirst ==
    \A i, j \in 1..Len(mQueue) :
        i < j /\ mQueue[j].mAcquireCalled => mQueue[i].mSlot # mQueue[j].mSlot

QueueInv ==
    TypeOK /\ Tickets /\ Homes /\ QueueTailOrdered /\ Reads /\ UniformQueue

CallSide == NoAttach /\ OneInside /\ Creating

SlotSide ==
    /\ AcquiredCalled /\ ItemsMatch
    /\ InOrder /\ NewestFrame /\ CalledFrames /\ CalledFirst

\* The consumer has done with some of its items.
Forget ==
    /\ consumerItems' \subseteq consumerItems
    /\ UNCHANGED <<mSlots, mQueue, mCore, vrMode, threads, callbacks,
                   producerSlots, lastAcquired, owedFence, clientBuffers>>

QueueStep == [Next]_vars \/ Forget

\* The queue keeps its invariants under a consumer.
LEMMA QueueInvStep ==
    ASSUME NobodyAttaches, QueueInv, QueueStep
    PROVE  QueueInv'
<1>1. CASE [Next]_vars
  BY <1>1, TypeOKStep, TicketsStep, HomesStep, QueueTailOrderedStep, ReadsStep,
     UniformQueueStep
  DEF QueueInv, NobodyAttaches
<1>2. CASE Forget
  <2>1. UNCHANGED <<mSlots, mQueue, mCore, vrMode, call, sleeping, callbacks,
                    producerSlots, lastAcquired, owedFence, clientBuffers>>
    BY <1>2 DEF Forget, threads
  <2>2. TypeOK'
    BY <1>2, <2>1 DEF QueueInv, TypeOK, Forget
  <2>3. Tickets'
    BY <2>1 DEF QueueInv, Tickets
  <2>4. CalmCalls
    BY <2>1, SameCallsCalm
  <2>5. Homes'
    BY <2>1 DEF QueueInv, Homes, BufferInOneSlot, FramesAtHome,
       BufferInOneFrame, AttachedOutside, DetachedStaysOut, BufferIn, StateOf,
       FrameIn, Frame, Attaching, Outside
  <2>6. QueueTailOrdered'
    BY <2>1 DEF QueueInv, QueueTailOrdered, Frame
  <2>7. Reads'
    <3>1. \A s \in Slots : SlotKept(mSlots[s], mSlots'[s])
      BY <2>1 DEF SlotKept
    <3> QED
      BY <1>2, <2>1, <2>4, <3>1, FilledReads
      DEF QueueInv, Forget, CalmQueue
  <2>8. UniformQueue'
    BY <2>1 DEF QueueInv, UniformQueue
  <2> QED
    BY <2>2, <2>3, <2>5, <2>6, <2>7, <2>8 DEF QueueInv
<1> QED
  BY <1>1, <1>2 DEF QueueStep

\* What becomes of a slot in a step that neither queues nor acquires: it is
\* not QUEUED or ACQUIRED unless it was before, with the same contents, and no
\* new buffer counts as sent along.
SlotLeft(old, new) ==
    /\ new.mAcquireCalled => /\ old.mAcquireCalled
                             /\ new.mGraphicBuffer = old.mGraphicBuffer
    /\ new.mBufferState \in {"QUEUED", "ACQUIRED"} =>
          /\ new.mBufferState = old.mBufferState
          /\ new.mGraphicBuffer = old.mGraphicBuffer
          /\ new.mFrameNumber = old.mFrameNumber
          /\ new.mAcquireCalled = old.mAcquireCalled

SlotsLeft == \A s \in Slots : SlotLeft(mSlots[s], mSlots'[s])

\* Freeing slots leaves the others.
LEMMA FreedLeft ==
    ASSUME TypeOK, NEW S, mSlots' = FreedAt(S)
    PROVE  /\ SlotsLeft
           /\ \A s \in Slots : s \notin S => mSlots'[s] = mSlots[s]
           /\ \A s \in Slots \cap S : /\ BufferIn(s)' = NULL
                                      /\ StateOf(s)' = "FREE"
                                      /\ ~CopyCalled(s)'
<1>1. \A s \in Slots :
         mSlots'[s] = IF s \in S THEN Freed(mSlots[s]) ELSE mSlots[s]
  BY DEF FreedAt
<1>2. ASSUME NEW slot \in BufferSlot
      PROVE  /\ Freed(slot).mAcquireCalled = FALSE
             /\ Freed(slot).mBufferState = "FREE"
             /\ Freed(slot).mGraphicBuffer = NULL
  BY DEF Freed, BufferSlot
<1>3. \A s \in Slots : /\ Freed(mSlots[s]).mAcquireCalled = FALSE
                       /\ Freed(mSlots[s]).mBufferState = "FREE"
                       /\ Freed(mSlots[s]).mGraphicBuffer = NULL
  BY <1>2, SlotIsRecord
<1> QED
  BY <1>1, <1>3 DEF SlotsLeft, SlotLeft, BufferIn, StateOf, CopyCalled

\* So does leaving them all alone.
LEMMA SameLeft == ASSUME UNCHANGED mSlots PROVE SlotsLeft
BY DEF SlotsLeft, SlotLeft

\* A step of producer thread t that queues no frame.
Produced(t) ==
    /\ SlotsLeft
    /\ UNCHANGED <<mQueue, consumerItems>>
    /\ \A u \in Threads \ {t} : call'[u] = call[u]
    /\ call'[t].op \notin {"attachBuffer", "attachRetry"}
    /\ call'[t].op = "createGraphicBuffer" =>
          /\ call'[t].slot \in Slots
          /\ BufferIn(call[t].slot)' = NULL
          /\ StateOf(call[t].slot)' \in {"FREE", "DEQUEUED"}
          /\ ~CopyCalled(call[t].slot)'

\* A thread that goes on with another call or returns.
LEMMA CallLeft ==
    ASSUME TypeOK, NEW t \in Threads, NEW c, call' = [call EXCEPT ![t] = c]
    PROVE  call'[t] = c /\ \A u \in Threads \ {t} : call'[u] = call[u]
BY DEF TypeOK

\* One slot that is not QUEUED or ACQUIRED changes, and its copy stays good.
LEMMA OneSlotLeft ==
    ASSUME TypeOK, NEW s \in Slots, NEW new,
           mSlots' = [mSlots EXCEPT ![s] = new],
           new.mAcquireCalled = mSlots[s].mAcquireCalled,
           new.mGraphicBuffer = mSlots[s].mGraphicBuffer,
           new.mBufferState \notin {"QUEUED", "ACQUIRED"}
    PROVE  SlotsLeft
BY DEF TypeOK, SlotsLeft, SlotLeft

\* A thread that makes a step without touching slots, FIFO and items.
LEMMA PlainProduced ==
    ASSUME TypeOK, NEW t \in Threads, NEW c, call' = [call EXCEPT ![t] = c],
           c.op \notin {"attachBuffer", "attachRetry", "createGraphicBuffer"},
           SlotsLeft, UNCHANGED <<mQueue, consumerItems>>
    PROVE  Produced(t)
BY CallLeft DEF Produced

\* A thread that is idle before and after the step.
LEMMA IdleProduced ==
    ASSUME TypeOK, NEW t \in Threads, IsIdle(t), UNCHANGED call,
           SlotsLeft, UNCHANGED <<mQueue, consumerItems>>
    PROVE  Produced(t)
BY DEF Produced, IsIdle, Idle

\* The beginning of a producer call, unless it attaches a buffer or queues a
\* frame.
LEMMA ProducerCallLeft ==
    ASSUME TypeOK, NobodyAttaches, NEW t \in Threads, ProducerCall(t),
           ~\E s \in Slots, async \in AsyncModes, stamp \in Stamps :
               QueueBuffer(t, s, async, stamp)
    PROVE  Produced(t)
<1> USE DEF threads, consumer, clients
<1>1. ASSUME NEW c, Enter(t, c),
             c.op \notin {"attachBuffer", "attachRetry", "createGraphicBuffer"}
      PROVE  Produced(t)
  BY <1>1, PlainProduced, SameLeft DEF Enter
<1>2. ASSUME NEW async \in AsyncModes, NEW req \in Requests,
             \/ Enter(t, [op |-> "dequeueBuffer", async |-> async,
                          req |-> req, flags |-> {}])
             \/ Enter(t, [op |-> "allocateBuffers", async |-> async,
                          req |-> req])
      PROVE  Produced(t)
  BY <1>1, <1>2
<1>3. ASSUME NEW n \in BufferCounts,
             Enter(t, [op |-> "setBufferCount", count |-> n])
      PROVE  Produced(t)
  BY <1>1, <1>3
<1>4. ASSUME Enter(t, [op |-> "detachNextBuffer"])
      PROVE  Produced(t)
  BY <1>1, <1>4
<1>5. ASSUME NEW api \in Apis, Enter(t, [op |-> "disconnect", api |-> api])
      PROVE  Produced(t)
  BY <1>1, <1>5
<1>6. ASSUME NEW b, Enter(t, [op |-> "attachBuffer", buffer |-> b])
      PROVE  FALSE
  BY <1>6 DEF Enter, NobodyAttaches
<1>7. ASSUME NEW s \in Slots, RequestBuffer(t, s)
      PROVE  Produced(t)
  <2>1. \A r \in Slots : /\ mSlots'[r].mBufferState = mSlots[r].mBufferState
                         /\ mSlots'[r].mGraphicBuffer =
                               mSlots[r].mGraphicBuffer
                         /\ mSlots'[r].mFrameNumber = mSlots[r].mFrameNumber
                         /\ mSlots'[r].mAcquireCalled = mSlots[r].mAcquireCalled
    BY <1>7 DEF RequestBuffer, TypeOK, BufferSlot
  <2>2. SlotsLeft
    BY <2>1 DEF SlotsLeft, SlotLeft
  <2> QED
    BY <1>7, <2>2, IdleProduced DEF RequestBuffer
<1>8. ASSUME NEW s \in Slots, ProducerDetachBuffer(t, s)
      PROVE  Produced(t)
  BY <1>8, FreedLeft, IdleProduced DEF ProducerDetachBuffer
<1>9. ASSUME NEW s \in Slots, CancelBuffer(t, s)
      PROVE  Produced(t)
  <2>1. /\ Cancelled(mSlots[s]).mBufferState = "FREE"
        /\ Cancelled(mSlots[s]).mGraphicBuffer = mSlots[s].mGraphicBuffer
        /\ Cancelled(mSlots[s]).mAcquireCalled = mSlots[s].mAcquireCalled
    BY SlotIsRecord DEF Cancelled, BufferSlot
  <2>2. SlotsLeft
    BY <1>9, <2>1, OneSlotLeft DEF CancelBuffer
  <2> QED
    BY <1>9, <2>2, IdleProduced DEF CancelBuffer
<1>10. ASSUME NEW s \in Slots, NEW async \in AsyncModes,
              QueueBufferInVRMode(t, s, async)
       PROVE  Produced(t)
  <2> DEFINE slot == [mSlots[s] EXCEPT !.mFence = "NO_FENCE",
                                       !.mBufferState = "FREE"]
  <2>1. /\ slot.mBufferState = "FREE"
        /\ slot.mGraphicBuffer = mSlots[s].mGraphicBuffer
        /\ slot.mAcquireCalled = mSlots[s].mAcquireCalled
    BY SlotIsRecord DEF BufferSlot
  <2>2. mSlots' = [mSlots EXCEPT ![s] = slot]
    BY <1>10 DEF QueueBufferInVRMode
  <2> HIDE DEF slot
  <2>3. SlotsLeft
    BY <2>1, <2>2, OneSlotLeft
  <2> QED
    BY <1>10, <2>3, IdleProduced DEF QueueBufferInVRMode
<1>11. ASSUME NEW api \in Apis \cup {NO_CONNECTED_API},
              NEW byApp \in AppControlled, ProducerConnect(t, api, byApp)
       PROVE  Produced(t)
  BY <1>11, SameLeft, IdleProduced DEF ProducerConnect
<1>12. ASSUME NEW stream \in BOOLEAN, SetSidebandStream(t, stream)
       PROVE  Produced(t)
  BY <1>12, SameLeft, IdleProduced DEF SetSidebandStream
<1> QED
  BY <1>2, <1>3, <1>4, <1>5, <1>6, <1>7, <1>8, <1>9, <1>10, <1>11, <1>12
  DEF ProducerCall

\* dequeueBuffer's turn of its loop: it frees slots, and the slot it takes
\* keeps its buffer or is emptied for a new one.
LEMMA DequeueTurnLeft ==
    ASSUME TypeOK, NEW t \in Threads, NEW async, NEW req, NEW flags,
           DequeueTurn(t, async, req, flags)
    PROVE  Produced(t)
<1> DEFINE seen == flags \cup ReleaseAllFlag(async)
           retry == [op |-> "dequeueRetry", async |-> async, req |-> req,
                     flags |-> seen]
<1>0. UNCHANGED <<mQueue, consumerItems>>
  BY DEF DequeueTurn, consumer
<1>1. CASE FreeSlotError(t, async)
  BY <1>0, <1>1, FreedLeft, PlainProduced DEF FreeSlotError, Returns, Idle
<1>2. CASE FreeSlotWait(t, async, retry)
  <2>1. retry.op = "dequeueRetry"
    OBVIOUS
  <2> HIDE DEF retry
  <2> QED
    BY <1>0, <1>2, <2>1, FreedLeft, PlainProduced DEF FreeSlotWait
<1>3. ASSUME NEW s \in Slots, IsOldest(s, FreeSlots(async)),
             TakeSlot(t, s, async, req, seen)
      PROVE  Produced(t)
  <2> HIDE DEF seen
  <2> DEFINE F == FreedAt(SlotsToFree(async))
  <2>1. F \in [Slots -> BufferSlot] /\ mSlots[s] \in BufferSlot
    BY FreedAtType, SlotIsRecord
  <2>2. \E usable \in BOOLEAN :
          /\ mSlots' = [F EXCEPT ![s] =
                IF usable
                THEN [mSlots[s] EXCEPT !.mBufferState = "DEQUEUED",
                                       !.mFence = "NO_FENCE"]
                ELSE [mSlots[s] EXCEPT !.mBufferState = "DEQUEUED",
                                       !.mGraphicBuffer = NULL,
                                       !.mAcquireCalled = FALSE,
                                       !.mRequestBufferCalled = FALSE,
                                       !.mFence = "NO_FENCE"]]
          /\ \E attr, f :
                call' = [call EXCEPT ![t] =
                   IF usable
                   THEN [op |-> "dequeueReturn", slot |-> s, flags |-> f]
                   ELSE [op |-> "createGraphicBuffer", slot |-> s,
                         attr |-> attr, flags |-> f]]
    BY <1>3 DEF TakeSlot
  <2>3. \A r \in Slots : F[r] = IF r \in SlotsToFree(async)
                                THEN Freed(mSlots[r]) ELSE mSlots[r]
    BY DEF FreedAt
  <2> HIDE DEF F
  <2>4. \A r \in Slots \ {s} : mSlots'[r] = F[r]
    BY <2>1, <2>2
  <2>5. \A r \in Slots \ {s} : SlotLeft(mSlots[r], mSlots'[r])
    BY <2>3, <2>4, SlotIsRecord, ZenonT(30) DEF SlotLeft, Freed, BufferSlot
  <2>6. /\ mSlots'[s].mBufferState = "DEQUEUED"
        /\ \/ /\ mSlots'[s].mGraphicBuffer = mSlots[s].mGraphicBuffer
              /\ mSlots'[s].mAcquireCalled = mSlots[s].mAcquireCalled
              /\ call'[t].op = "dequeueReturn"
           \/ /\ mSlots'[s].mGraphicBuffer = NULL
              /\ mSlots'[s].mAcquireCalled = FALSE
              /\ call'[t].op = "createGraphicBuffer"
              /\ call'[t].slot = s
    BY <2>1, <2>2 DEF BufferSlot, TypeOK
  <2>7. \A u \in Threads \ {t} : call'[u] = call[u]
    BY <2>2 DEF TypeOK
  <2>8. SlotsLeft
    BY <2>5, <2>6 DEF SlotsLeft, SlotLeft
  <2> QED
    BY <1>0, <2>6, <2>7, <2>8 DEF Produced, BufferIn, StateOf, CopyCalled
<1> QED
  BY <1>1, <1>2, <1>3 DEF DequeueTurn

\* The end of setBufferCount and disconnect, with or without a callback.
LEMMA ReleasedProduced ==
    ASSUME TypeOK, NEW t \in Threads, SlotsLeft,
           UNCHANGED <<mQueue, consumerItems>>,
           call' = [call EXCEPT ![t] = IF mCore.mConsumerListener
                                       THEN [op |-> "onBuffersReleased"]
                                       ELSE Idle]
    PROVE  Produced(t)
<1> DEFINE c == IF mCore.mConsumerListener THEN [op |-> "onBuffersReleased"]
                ELSE Idle
<1>1. c.op \in {"onBuffersReleased", "idle"}
  BY DEF Idle
<1>2. call' = [call EXCEPT ![t] = c]
  OBVIOUS
<1> HIDE DEF c
<1> QED
  BY <1>1, <1>2, PlainProduced

\* A thread that returns.
LEMMA ReturnsProduced ==
    ASSUME TypeOK, NEW t \in Threads, SlotsLeft, Returns(t),
           UNCHANGED <<mQueue, consumerItems>>
    PROVE  Produced(t)
BY PlainProduced DEF Returns, Idle

\* The later steps of producer calls.  What createGraphicBuffer allocates goes
\* into the slot that was emptied for it.
LEMMA ProducerStepLeft ==
    ASSUME TypeOK, CallSide, NEW t \in Threads, ProducerStep(t)
    PROVE  Produced(t)
<1> USE DEF threads, consumer, clients
<1>1. CASE WaitWhileAllocating(t)
  <2>1. /\ UNCHANGED <<mSlots, mQueue, consumerItems, call>>
        /\ call[t].op # "createGraphicBuffer"
    BY <1>1 DEF WaitWhileAllocating
  <2>2. ~Attaching(t)
    BY DEF CallSide, NoAttach
  <2> QED
    BY <2>1, <2>2, SameLeft DEF Produced, Attaching
<1>2. CASE SetBufferCount(t)
  <2>1. SlotsLeft
    BY <1>2, FreedLeft, SameLeft DEF SetBufferCount, FreeAllBuffers
  <2> QED
    BY <1>2, <2>1, ReturnsProduced, ReleasedProduced DEF SetBufferCount
<1>3. CASE DequeueBuffer(t)
  BY <1>3, DequeueTurnLeft DEF DequeueBuffer
<1>4. CASE DequeueRetry(t)
  BY <1>4, DequeueTurnLeft DEF DequeueRetry
<1>5. CASE DequeueAllocate(t)
  <2> DEFINE s == call[t].slot
  <2>1. /\ s \in Slots /\ call[t].op = "createGraphicBuffer"
        /\ UNCHANGED <<mQueue, consumerItems>>
        /\ \A u \in Threads \ {t} : call'[u] = call[u]
        /\ call'[t].op \in {"idle", "dequeueReturn"}
    <3>1. call[t].op = "createGraphicBuffer"
      BY <1>5 DEF DequeueAllocate
    <3>2. Idle.op = "idle"
      BY DEF Idle
    <3> QED
      BY <1>5, <3>1, <3>2, DequeueAllocateEffect
  <2>2. StateOf(s) \in {"FREE", "DEQUEUED"} /\ ~CopyCalled(s)
    BY <2>1 DEF CallSide, Creating
  <2>3. \/ UNCHANGED mSlots
        \/ \E b : mSlots' = [mSlots EXCEPT ![s] =
                               [@ EXCEPT !.mFrameNumber = UINT32_MAX,
                                         !.mGraphicBuffer = b]]
    BY <1>5 DEF DequeueAllocate
  <2> HIDE DEF s
  <2>4. \A r \in Slots :
           \/ mSlots'[r] = mSlots[r]
           \/ /\ r = s
              /\ mSlots'[r].mBufferState = mSlots[r].mBufferState
              /\ mSlots'[r].mAcquireCalled = mSlots[r].mAcquireCalled
    <3>1. CASE UNCHANGED mSlots
      BY <3>1
    <3>2. ASSUME NEW b,
                 mSlots' = [mSlots EXCEPT ![s] =
                              [@ EXCEPT !.mFrameNumber = UINT32_MAX,
                                        !.mGraphicBuffer = b]]
          PROVE  /\ mSlots'[s].mBufferState = mSlots[s].mBufferState
                 /\ mSlots'[s].mAcquireCalled = mSlots[s].mAcquireCalled
                 /\ \A r \in Slots \ {s} : mSlots'[r] = mSlots[r]
      <4>1. /\ mSlots'[s] = [mSlots[s] EXCEPT !.mFrameNumber = UINT32_MAX,
                                              !.mGraphicBuffer = b]
            /\ \A r \in Slots \ {s} : mSlots'[r] = mSlots[r]
        BY <2>1, <3>2 DEF TypeOK
      <4> QED
        BY <2>1, <4>1, SlotIsRecord DEF BufferSlot
    <3> QED
      BY <2>3, <3>1, <3>2
  <2>5. SlotsLeft
    BY <2>2, <2>4 DEF SlotsLeft, SlotLeft, StateOf, CopyCalled
  <2> QED
    BY <2>1, <2>5 DEF Produced
<1>6. CASE DequeueReturn(t)
  BY <1>6, SameLeft, ReturnsProduced DEF DequeueReturn
<1>7. CASE DetachNextBuffer(t)
  <2>1. SlotsLeft
    BY <1>7, FreedLeft, SameLeft DEF DetachNextBuffer
  <2> QED
    BY <1>7, <2>1, ReturnsProduced DEF DetachNextBuffer
<1>8. CASE ProducerAttachBuffer(t) \/ AttachRetry(t)
  BY <1>8 DEF ProducerAttachBuffer, AttachRetry, Runs, CallSide, NoAttach,
     Attaching
<1>9. CASE CallBack(t)
  BY <1>9, SameLeft, ReturnsProduced DEF CallBack
<1>10. CASE CallBackReleased(t)
  BY <1>10, SameLeft, ReturnsProduced DEF CallBackReleased
<1>11. CASE ProducerDisconnect(t)
  <2>1. SlotsLeft
    BY <1>11, FreedLeft, SameLeft DEF ProducerDisconnect, FreeAllBuffers
  <2> QED
    BY <1>11, <2>1, ReturnsProduced, ReleasedProduced DEF ProducerDisconnect
<1>12. CASE AllocateBuffers(t)
  <2>1. \/ Returns(t)
        \/ \E slots, attr :
             call' = [call EXCEPT ![t] =
               [op |-> "allocating", async |-> call[t].async,
                req |-> call[t].req, slots |-> slots, attr |-> attr]]
    BY <1>12 DEF AllocateBuffers
  <2>2. UNCHANGED <<mSlots, mQueue, consumerItems>>
    BY <1>12 DEF AllocateBuffers
  <2> QED
    BY <2>1, <2>2, SameLeft, ReturnsProduced, PlainProduced
<1>13. CASE AllocateBuffersCommit(t)
  <2> DEFINE filled == call[t].slots \cap InState("FREE")
  <2>1. \/ UNCHANGED mSlots
        \/ \E f : mSlots' = [s \in Slots |->
                     IF s \in filled
                     THEN [Freed(mSlots[s]) EXCEPT !.mGraphicBuffer = f[s]]
                     ELSE mSlots[s]]
    BY <1>13 DEF AllocateBuffersCommit
  <2>2. ASSUME NEW slot \in BufferSlot, NEW b
        PROVE  LET new == [Freed(slot) EXCEPT !.mGraphicBuffer = b] IN
               new.mBufferState = "FREE" /\ ~new.mAcquireCalled
    BY DEF Freed, BufferSlot
  <2>3. SlotsLeft
    BY <2>1, <2>2, SlotIsRecord, ZenonT(30) DEF SlotsLeft, SlotLeft
  <2> QED
    BY <1>13, <2>3, AllocateCommitEffect DEF Produced
<1> QED
  BY <1>1, <1>2, <1>3, <1>4, <1>5, <1>6, <1>7, <1>8, <1>9, <1>10, <1>11,
     <1>12, <1>13 DEF ProducerStep

\* queueBuffer makes its slot QUEUED with the buffer it had, and adds one frame
\* that says whether that buffer has been sent along.
FrameAdded(s, n) ==
    /\ n \in 1..Len(mQueue')
    /\ mQueue'[n].mSlot = s
    /\ mQueue'[n].mGraphicBuffer = BufferIn(s)
    /\ mQueue'[n].mAcquireCalled = CopyCalled(s)
    /\ mQueue'[n].mFrameNumber = mCore.mFrameCounter + 1
    /\ ~Replaces => n = Len(mQueue')
    /\ \A i \in 1..Len(mQueue') :
          i # n => i \in 1..Len(mQueue) /\ mQueue'[i] = mQueue[i]

Enqueued(s) ==
    /\ StateOf(s) = "DEQUEUED" /\ StateOf(s)' = "QUEUED"
    /\ BufferIn(s)' = BufferIn(s)
    /\ CopyCalled(s)' = CopyCalled(s)
    /\ FrameIn(s)' = mCore.mFrameCounter + 1
    /\ \A r \in Slots \ {s} : SlotLeft(mSlots[r], mSlots'[r])
    /\ consumerItems' = consumerItems
    /\ \E n \in 1..Len(mQueue') : FrameAdded(s, n)

\* queueBuffer does that, and goes on to call the consumer back.
LEMMA QueueBufferLeft ==
    ASSUME TypeOK, Homes, NEW t \in Threads, NEW s \in Slots,
           NEW async \in AsyncModes, NEW stamp \in Stamps,
           QueueBuffer(t, s, async, stamp)
    PROVE  /\ Enqueued(s)
           /\ call'[t].op = "onFrame"
           /\ \A u \in Threads \ {t} : call'[u] = call[u]
<1> DEFINE f == mCore.mFrameCounter + 1
           queued == [mSlots EXCEPT ![s] = Queued(@, f)]
           freed(slot) == [slot EXCEPT !.mBufferState = "FREE",
                                       !.mFrameNumber = 0]
           front == mQueue[1].mSlot
           item == [mSlot |-> s, mGraphicBuffer |-> mSlots[s].mGraphicBuffer,
                    mFrameNumber |-> f,
                    mAcquireCalled |-> mSlots[s].mAcquireCalled,
                    mIsDroppable |-> mCore.mDequeueBufferCannotBlock \/ async,
                    mTimestamp |-> stamp.time,
                    mIsAutoTimestamp |-> stamp.isAuto,
                    mFence |-> "producer"]
<1>1. /\ StateOf(s) = "DEQUEUED"
      /\ call'[t].op = "onFrame"
      /\ \A u \in Threads \ {t} : call'[u] = call[u]
      /\ UNCHANGED consumerItems
      /\ \A r \in Slots \ {s} : ~GivenUp(r) => mSlots'[r] = mSlots[r]
  BY QueueBufferEffect DEF StateOf
<1>2. ~GivenUp(s)
  <2>1. SUFFICES ASSUME GivenUp(s) PROVE FALSE
    OBVIOUS
  <2>2. 1 \in 1..Len(mQueue)
    BY <2>1 DEF GivenUp, Replaces, TypeOK
  <2> QED
    BY <1>1, <2>1, <2>2
    DEF GivenUp, StillTracking, Homes, FramesAtHome, BufferIn
<1>3. mSlots' = IF Replaces /\ StillTracking(mQueue[1])
                THEN [queued EXCEPT ![front] = freed(@)]
                ELSE queued
  BY DEF QueueBuffer
<1>4. /\ mSlots[s] \in BufferSlot
      /\ queued[s] = Queued(mSlots[s], f)
      /\ \A r \in Slots \ {s} : queued[r] = mSlots[r]
      /\ DOMAIN queued = Slots
  BY SlotIsRecord DEF TypeOK
<1>5. /\ Queued(mSlots[s], f).mBufferState = "QUEUED"
      /\ Queued(mSlots[s], f).mGraphicBuffer = mSlots[s].mGraphicBuffer
      /\ Queued(mSlots[s], f).mFrameNumber = f
      /\ Queued(mSlots[s], f).mAcquireCalled = mSlots[s].mAcquireCalled
  BY <1>4 DEF Queued, BufferSlot
<1>6. ASSUME NEW slot \in BufferSlot
      PROVE  /\ freed(slot).mBufferState = "FREE"
             /\ freed(slot).mGraphicBuffer = slot.mGraphicBuffer
             /\ freed(slot).mAcquireCalled = slot.mAcquireCalled
  BY DEF BufferSlot
<1> HIDE DEF queued, freed, front
<1>7. \A r \in Slots :
         mSlots'[r] = IF GivenUp(r) THEN freed(queued[r]) ELSE queued[r]
  BY <1>3, <1>4 DEF GivenUp, front
<1>8. /\ StateOf(s)' = "QUEUED" /\ BufferIn(s)' = BufferIn(s)
      /\ CopyCalled(s)' = CopyCalled(s) /\ FrameIn(s)' = f
  BY <1>2, <1>4, <1>5, <1>7 DEF StateOf, BufferIn, CopyCalled, FrameIn
<1>9. \A r \in Slots \ {s} : SlotLeft(mSlots[r], mSlots'[r])
  BY <1>4, <1>6, <1>7, SlotIsRecord DEF SlotLeft
<1>10. \E n \in 1..Len(mQueue') : FrameAdded(s, n)
  <2>1. mQueue' = Enqueue(item)
    BY DEF QueueBuffer
  <2>2. /\ item.mSlot = s /\ item.mGraphicBuffer = BufferIn(s)
        /\ item.mFrameNumber = f /\ item.mAcquireCalled = CopyCalled(s)
    BY DEF BufferIn, CopyCalled
  <2> HIDE DEF item
  <2>3. mQueue \in Seq(BufferItem) /\ Len(mQueue) \in Nat
    BY DEF TypeOK
  <2>4. CASE Replaces
    <3>1. mQueue' = [mQueue EXCEPT ![1] = item]
      BY <2>1, <2>4 DEF Enqueue
    <3>2. Len(mQueue) > 0
      BY <2>3, <2>4 DEF Replaces
    <3>3. /\ Len(mQueue') = Len(mQueue)
          /\ mQueue'[1] = item
          /\ \A i \in 1..Len(mQueue) : i # 1 => mQueue'[i] = mQueue[i]
      BY <2>3, <3>1, <3>2
    <3> QED
      BY <2>2, <2>3, <2>4, <3>2, <3>3 DEF FrameAdded
  <2>5. CASE ~Replaces
    <3>1. mQueue' = Append(mQueue, item)
      BY <2>1, <2>5 DEF Enqueue
    <3>2. /\ Len(mQueue') = Len(mQueue) + 1
          /\ mQueue'[Len(mQueue) + 1] = item
          /\ \A i \in 1..Len(mQueue) : mQueue'[i] = mQueue[i]
      BY <2>3, <3>1
    <3> QED
      BY <2>2, <2>3, <3>2 DEF FrameAdded
  <2> QED
    BY <2>4, <2>5
<1> QED
  BY <1>1, <1>8, <1>9, <1>10 DEF Enqueued

\* Without a present time acquireBuffer takes the front of the FIFO and drops
\* nothing.
FrontItem ==
    [slot |-> Front.mSlot, frame |-> Front.mFrameNumber,
     buffer |-> Front.mGraphicBuffer]

FrontTaken ==
    /\ 1 \in 1..Len(mQueue)
    /\ Len(mQueue') = Len(mQueue) - 1
    /\ \A i \in 1..Len(mQueue') :
          i + 1 \in 1..Len(mQueue) /\ mQueue'[i] = mQueue[i + 1]
    /\ UNCHANGED call
    /\ consumerItems' = consumerItems \cup {FrontItem}
    /\ \A r \in Slots :
         IF TakenAt(1, r)
         THEN /\ StateOf(r)' = "ACQUIRED" /\ CopyCalled(r)'
              /\ BufferIn(r)' = BufferIn(r)
              /\ FrameIn(r)' = FrameIn(r)
         ELSE mSlots'[r] = mSlots[r]

\* acquireBuffer as these consumers call it.
LEMMA AcquireLeft ==
    ASSUME TypeOK, AcquireBuffer(0)
    PROVE  FrontTaken
<1> DEFINE drops(n) == {i \in 1..(n - 1) : StillTracking(mQueue[i])}
           dropSlots(n) == {mQueue[i].mSlot : i \in drops(n)}
           afterDrop(n) == [s \in Slots |->
                              IF s \in dropSlots(n)
                              THEN [mSlots[s] EXCEPT !.mBufferState = "FREE"]
                              ELSE mSlots[s]]
<1>1. PICK n \in 1..Len(mQueue) :
         /\ IsFront(n, 0)
         /\ mSlots' = IF StillTracking(mQueue[n])
                      THEN [afterDrop(n) EXCEPT
                              ![mQueue[n].mSlot] = Acquired(@)]
                      ELSE afterDrop(n)
         /\ mQueue' = SubSeq(mQueue, n + 1, Len(mQueue))
         /\ consumerItems' = consumerItems \cup
               {[slot |-> mQueue[n].mSlot, frame |-> mQueue[n].mFrameNumber,
                 buffer |-> mQueue[n].mGraphicBuffer]}
  BY DEF AcquireBuffer
<1>2. Len(mQueue) \in Nat /\ mQueue \in Seq(BufferItem)
  BY DEF TypeOK
<1>3. n = 1
  <2>1. \A i \in 1..(n - 1) : CanDrop(i, 0)
    BY <1>1 DEF IsFront
  <2>2. \A i : ~CanDrop(i, 0)
    BY DEF CanDrop
  <2> QED
    BY <1>2, <2>1, <2>2
<1>4. UNCHANGED call
  BY DEF AcquireBuffer
<1>5. drops(1) = {} /\ afterDrop(1) = mSlots
  BY DEF TypeOK
<1> HIDE DEF drops, afterDrop, dropSlots
<1>6. mSlots' = IF StillTracking(mQueue[1])
                THEN [mSlots EXCEPT ![mQueue[1].mSlot] = Acquired(@)]
                ELSE mSlots
  BY <1>1, <1>3, <1>5
<1>7. ASSUME NEW slot \in BufferSlot
      PROVE  /\ Acquired(slot).mBufferState = "ACQUIRED"
             /\ Acquired(slot).mAcquireCalled
             /\ Acquired(slot).mGraphicBuffer = slot.mGraphicBuffer
             /\ Acquired(slot).mFrameNumber = slot.mFrameNumber
  BY DEF Acquired, BufferSlot
<1>8. 1 \in 1..Len(mQueue) /\ mQueue[1].mSlot \in Slots
  BY <1>1, <1>2, <1>3, ItemTypes
<1>9. \A r \in Slots :
         mSlots'[r] = IF TakenAt(1, r) THEN Acquired(mSlots[r]) ELSE mSlots[r]
  BY <1>6, <1>8 DEF TakenAt, TypeOK
<1>10. /\ Len(mQueue') = Len(mQueue) - 1
       /\ \A i \in 1..Len(mQueue') :
             i + 1 \in 1..Len(mQueue) /\ mQueue'[i] = mQueue[i + 1]
  <2>1. mQueue' = SubSeq(mQueue, n + 1, Len(mQueue))
    BY <1>1
  <2>2. /\ Len(mQueue') = Len(mQueue) - n
        /\ \A i \in 1..(Len(mQueue) - n) : mQueue'[i] = mQueue[n + i]
    BY <2>1, SMTT(60) DEF TypeOK
  <2>3. \A i \in 1..(Len(mQueue) - 1) : i + 1 \in 1..Len(mQueue)
    BY <1>2
  <2> QED
    BY <1>2, <1>3, <2>2, <2>3
<1> QED
  BY <1>1, <1>3, <1>4, <1>7, <1>8, <1>9, <1>10, SlotIsRecord
  DEF FrontTaken, FrontItem, Front, StateOf, CopyCalled, BufferIn, FrameIn

\* A slot whose contents stay.
SlotSame(r) ==
    /\ BufferIn(r)' = BufferIn(r) /\ StateOf(r)' = StateOf(r)
    /\ FrameIn(r)' = FrameIn(r) /\ CopyCalled(r)' = CopyCalled(r)

\* A slot that releaseBuffer takes back.
SlotReleased(r) ==
    /\ StateOf(r) = "ACQUIRED" /\ StateOf(r)' = "FREE"
    /\ BufferIn(r)' = BufferIn(r) /\ CopyCalled(r)' = CopyCalled(r)

\* ConsumerBase::releaseBufferLocked takes back the slot it names or nothing,
\* and forgets no other item.
ReleaseDone(slot, buffer, status) ==
    /\ UNCHANGED <<mQueue, call>>
    /\ consumerItems' \subseteq consumerItems
    /\ \A x \in consumerItems :
          x \in consumerItems' \/ (x.slot = slot /\ x.buffer = buffer)
    /\ \A r \in Slots : SlotSame(r) \/ (r = slot /\ SlotReleased(r))
    /\ status \in Statuses
    /\ status = "STALE_BUFFER_SLOT" =>
          /\ stillTracking(slot, buffer)
          /\ IsStale(Copied(slot)) \/ StateOf(slot) # "ACQUIRED"
    /\ /\ stillTracking(slot, buffer) /\ ~IsStale(Copied(slot))
       /\ StateOf(slot) = "ACQUIRED" /\ ~PendingInQueue(slot)
       => SlotReleased(slot)

\* What releaseBufferLocked passes to the queue is an item of the consumer, so
\* the queue takes one of its own steps.
LEMMA ReleaseLeft ==
    ASSUME TypeOK, NEW slot \in Slots, NEW buffer, NEW status,
           stillTracking(slot, buffer) => Copied(slot) \in consumerItems,
           releaseBufferLocked(slot, buffer, status)
    PROVE  QueueStep /\ ReleaseDone(slot, buffer, status)
<1> USE DEF threads
<1> DEFINE item == Copied(slot)
<1>0. item.slot = slot /\ item.buffer = cached[slot].buffer
  BY DEF Copied
<1>1. ASSUME UNCHANGED mSlots
      PROVE  \A r \in Slots : SlotSame(r)
  BY <1>1 DEF SlotSame, BufferIn, StateOf, FrameIn, CopyCalled
<1>2. CASE ~stillTracking(slot, buffer)
  <2>1. Forget /\ UNCHANGED <<mSlots, mQueue, call>> /\ status = "OK"
    BY <1>2 DEF releaseBufferLocked, Forget
  <2>2. consumerItems' = {i \in consumerItems :
                            ~(i.slot = slot /\ i.buffer = buffer)}
    BY <1>2 DEF releaseBufferLocked
  <2> QED
    BY <1>1, <1>2, <2>1, <2>2 DEF QueueStep, ReleaseDone, Statuses
<1>3. CASE stillTracking(slot, buffer) /\ status = "OK"
  <2>1. ReleaseBuffer(item) /\ item \in consumerItems /\ item.buffer = buffer
    BY <1>0, <1>3 DEF releaseBufferLocked, stillTracking
  <2>2. QueueStep
    BY <2>1 DEF QueueStep, Next, ConsumerCall
  <2> HIDE DEF item
  <2>3. /\ UNCHANGED <<mQueue, call>>
        /\ consumerItems' = consumerItems \ {item}
        /\ StateOf(slot) = "ACQUIRED"
        /\ mSlots' = [mSlots EXCEPT ![slot] = Released(@)]
    BY <1>0, <2>1 DEF ReleaseBuffer, StateOf
  <2>4. /\ Released(mSlots[slot]).mBufferState = "FREE"
        /\ Released(mSlots[slot]).mGraphicBuffer = mSlots[slot].mGraphicBuffer
        /\ Released(mSlots[slot]).mAcquireCalled = mSlots[slot].mAcquireCalled
    BY SlotIsRecord DEF Released, BufferSlot
  <2>5. /\ mSlots'[slot] = Released(mSlots[slot])
        /\ \A r \in Slots \ {slot} : mSlots'[r] = mSlots[r]
    BY <2>3 DEF TypeOK
  <2>6. /\ SlotReleased(slot)
        /\ \A r \in Slots \ {slot} : SlotSame(r)
    BY <2>3, <2>4, <2>5
    DEF SlotReleased, SlotSame, BufferIn, StateOf, FrameIn, CopyCalled
  <2> QED
    BY <1>0, <1>3, <2>1, <2>2, <2>3, <2>6 DEF ReleaseDone, Statuses
<1>4. CASE stillTracking(slot, buffer) /\ status = "STALE_BUFFER_SLOT"
  <2>1. ReleaseStaleBuffer(item) /\ item \in consumerItems
        /\ item.buffer = buffer
    BY <1>0, <1>4 DEF releaseBufferLocked, stillTracking
  <2>2. QueueStep
    BY <2>1 DEF QueueStep, Next, ConsumerCall
  <2> HIDE DEF item
  <2>3. /\ UNCHANGED <<mQueue, call>>
        /\ consumerItems' = consumerItems \ {item}
        /\ \/ UNCHANGED mSlots /\ IsStale(item)
           \/ /\ mSlots' = [mSlots EXCEPT
                              ![slot].mNeedsCleanupOnRelease = FALSE]
              /\ StateOf(slot) # "ACQUIRED"
    BY <1>0, <2>1 DEF ReleaseStaleBuffer, StateOf
  <2>4. ASSUME mSlots' = [mSlots EXCEPT ![slot].mNeedsCleanupOnRelease = FALSE]
        PROVE  \A r \in Slots : SlotSame(r)
    BY <2>4, SlotIsRecord
    DEF TypeOK, BufferSlot, SlotSame, BufferIn, StateOf, FrameIn, CopyCalled
  <2>5. \A r \in Slots : SlotSame(r)
    BY <1>1, <2>3, <2>4
  <2> QED
    BY <1>0, <1>4, <2>1, <2>2, <2>3, <2>5 DEF ReleaseDone, Statuses, item
<1>5. CASE stillTracking(slot, buffer) /\ status = "BAD_VALUE"
  <2>1. UNCHANGED vars
    BY <1>5 DEF releaseBufferLocked, queueVars
  <2>2. UNCHANGED <<mSlots, mQueue, call, consumerItems>>
    BY <2>1 DEF vars, clients, consumer
  <2>3. \/ PendingInQueue(slot) \/ StateOf(slot) # "ACQUIRED"
    BY <1>5 DEF releaseBufferLocked, StateOf
  <2> QED
    BY <1>1, <1>5, <2>1, <2>2, <2>3 DEF QueueStep, ReleaseDone, Statuses
<1> QED
  BY <1>2, <1>3, <1>4, <1>5 DEF releaseBufferLocked

-----------------------------------------------------------------------------
(* The queue's side of the invariant *)

\* A step that neither queues nor acquires.
Leaves ==
    /\ SlotsLeft
    /\ UNCHANGED mQueue \/ mQueue' = <<>>
    /\ consumerItems' \subseteq consumerItems

\* All frames were queued in one mode: AlwaysAsync or NeverAsync.
OneMode == AlwaysAsync \/ NeverAsync

\* A step that neither queues nor acquires keeps the slots in order.
LEMMA SlotSideLeft ==
    ASSUME SlotSide, Leaves, Reads'
    PROVE  SlotSide'
<1>1. ASSUME NEW s \in Slots, StateOf(s)' \in {"QUEUED", "ACQUIRED"}
      PROVE  SlotSame(s)
  BY <1>1 DEF Leaves, SlotsLeft, SlotLeft, SlotSame, BufferIn, StateOf,
     FrameIn, CopyCalled
<1>2. AcquiredCalled'
  BY <1>1 DEF SlotSide, AcquiredCalled, SlotSame
<1>3. ASSUME NEW x \in consumerItems', NEW s \in Slots, BufferIn(s)' = x.buffer
      PROVE  s = x.slot /\ FrameIn(s)' = x.frame
  <2>1. StateOf(s)' = "ACQUIRED" /\ x \in consumerItems
    BY <1>3 DEF Reads, NoSharedAccess, BufferIn, StateOf, Leaves
  <2> QED
    BY <1>1, <1>3, <2>1 DEF SlotSide, ItemsMatch, SlotSame
<1>4. CASE mQueue' = <<>>
  BY <1>2, <1>3, <1>4
  DEF SlotSide, ItemsMatch, InOrder, NewestFrame, CalledFrames, CalledFirst
<1>5. CASE UNCHANGED mQueue
  <2>1. InOrder'
    BY <1>5 DEF SlotSide, InOrder, Frame
  <2>2. NewestFrame'
    BY <1>1, <1>5 DEF SlotSide, NewestFrame, SlotSame, Frame
  <2>3. CalledFrames'
    BY <1>5 DEF SlotSide, CalledFrames, Leaves, SlotsLeft, SlotLeft, BufferIn,
       CopyCalled
  <2>4. CalledFirst'
    BY <1>5 DEF SlotSide, CalledFirst
  <2> QED
    BY <1>2, <1>3, <2>1, <2>2, <2>3, <2>4 DEF SlotSide, ItemsMatch
<1> QED
  BY <1>4, <1>5 DEF Leaves

\* The frame that queueBuffer adds is the last one, and what is ahead of it was
\* there before.
LEMMA AddedLast ==
    ASSUME OneMode, TypeOK, TypeOK', UniformQueue, UniformQueue',
           NEW s \in Slots, NEW n \in 1..Len(mQueue'), FrameAdded(s, n)
    PROVE  /\ n = Len(mQueue')
           /\ \A i, j \in 1..Len(mQueue') :
                 i < j => i # n /\ i \in 1..Len(mQueue)
                          /\ mQueue'[i] = mQueue[i]
<1>1. Len(mQueue) \in Nat /\ Len(mQueue') \in Nat
  BY DEF TypeOK
<1>2. CASE AlwaysAsync
  <2>1. Len(mQueue') <= 1
    BY <1>2 DEF UniformQueue
  <2> QED
    BY <1>1, <2>1
<1>3. CASE NeverAsync
  <2>1. \A i \in 1..Len(mQueue) : ~mQueue[i].mIsDroppable
    BY <1>3 DEF UniformQueue
  <2>2. Replaces => 1 \in 1..Len(mQueue)
    BY DEF Replaces, TypeOK
  <2>3. ~Replaces
    BY <2>1, <2>2 DEF Replaces
  <2>4. n = Len(mQueue')
    BY <2>3 DEF FrameAdded
  <2>5. \A i, j \in 1..Len(mQueue') : i < j => i # n
    BY <1>1, <2>4
  <2> QED
    BY <2>4, <2>5 DEF FrameAdded
<1> QED
  BY <1>2, <1>3 DEF OneMode

\* So the FIFO stays in the order of its frames.
LEMMA QueuedInOrder ==
    ASSUME OneMode, TypeOK, QueueTailOrdered, UniformQueue, UniformQueue',
           TypeOK', InOrder, NEW s \in Slots, Enqueued(s)
    PROVE  InOrder'
<1>0. PICK n \in 1..Len(mQueue') : FrameAdded(s, n)
  BY DEF Enqueued
<1>1. \A i, j \in 1..Len(mQueue') :
         i < j => i # n /\ i \in 1..Len(mQueue) /\ Frame(i)' = Frame(i)
  BY <1>0, AddedLast DEF Frame
<1>2. \A i \in 1..Len(mQueue') :
         i # n => i \in 1..Len(mQueue) /\ Frame(i)' = Frame(i)
  BY <1>0 DEF FrameAdded, Frame
<1>3. \A i \in 1..Len(mQueue) : /\ Frame(i) <= mCore.mFrameCounter
                                /\ Frame(i) \in Nat
  BY FrameTypes DEF QueueTailOrdered
<1>4. Frame(n)' = mCore.mFrameCounter + 1 /\ mCore.mFrameCounter \in Nat
  BY <1>0, FrameTypes DEF FrameAdded, Frame
<1> SUFFICES ASSUME NEW i \in 1..Len(mQueue'), NEW j \in 1..Len(mQueue'),
                    i < j
             PROVE  Frame(i)' < Frame(j)'
  BY DEF InOrder
<1>5. CASE j = n
  BY <1>1, <1>3, <1>4, <1>5
<1>6. CASE j # n
  BY <1>1, <1>2, <1>6 DEF InOrder
<1> QED
  BY <1>5, <1>6

\* queueBuffer keeps the slots in order.
LEMMA SlotSideQueued ==
    ASSUME OneMode, QueueInv, QueueInv', SlotSide, NEW s \in Slots, Enqueued(s)
    PROVE  SlotSide'
<1>0. PICK n \in 1..Len(mQueue') : FrameAdded(s, n)
  BY DEF Enqueued
<1>1. ASSUME NEW r \in Slots \ {s}, StateOf(r)' \in {"QUEUED", "ACQUIRED"}
      PROVE  SlotSame(r)
  BY <1>1 DEF Enqueued, SlotLeft, SlotSame, StateOf, BufferIn, FrameIn,
     CopyCalled
<1>2. AcquiredCalled'
  BY <1>1 DEF SlotSide, AcquiredCalled, SlotSame, Enqueued
<1>3. ASSUME NEW x \in consumerItems, NEW r \in Slots, BufferIn(r)' = x.buffer
      PROVE  r = x.slot /\ FrameIn(r)' = x.frame
  <2>1. StateOf(r)' = "ACQUIRED"
    BY <1>3 DEF QueueInv, Reads, NoSharedAccess, BufferIn, StateOf, Enqueued
  <2> QED
    BY <1>1, <1>3, <2>1 DEF SlotSide, ItemsMatch, SlotSame, Enqueued
<1>4. ItemsMatch'
  BY <1>3 DEF ItemsMatch, Enqueued
<1>5. InOrder'
  BY QueuedInOrder DEF QueueInv, SlotSide
<1>6. \A i \in 1..Len(mQueue') :
         i # n => /\ i \in 1..Len(mQueue) /\ mQueue'[i] = mQueue[i]
                  /\ Frame(i)' = Frame(i)
  BY <1>0 DEF FrameAdded, Frame
<1>7. NewestFrame'
  <2> SUFFICES ASSUME NEW r \in Slots, NEW i \in 1..Len(mQueue'),
                      mQueue'[i].mSlot = r
               PROVE  /\ StateOf(r)' # "ACQUIRED"
                      /\ StateOf(r)' = "QUEUED" => Frame(i)' <= FrameIn(r)'
    BY DEF NewestFrame
  <2>1. CASE r = s
    <3>1. StateOf(r)' = "QUEUED" /\ FrameIn(r)' = mCore.mFrameCounter + 1
      BY <2>1 DEF Enqueued
    <3>2. mCore.mFrameCounter \in Nat
      BY FrameTypes DEF QueueInv
    <3>3. i # n => Frame(i) <= mCore.mFrameCounter /\ Frame(i) \in Nat
      BY <1>6, FrameTypes DEF QueueInv, QueueTailOrdered
    <3>4. i = n => Frame(i)' = mCore.mFrameCounter + 1
      BY <1>0 DEF FrameAdded, Frame
    <3> QED
      BY <1>6, <3>1, <3>2, <3>3, <3>4
  <2>2. CASE r # s
    <3>1. i # n
      BY <1>0, <2>2 DEF FrameAdded
    <3> QED
      BY <1>1, <1>6, <2>2, <3>1 DEF SlotSide, NewestFrame, SlotSame
  <2> QED
    BY <2>1, <2>2
<1>8. CalledFrames'
  <2>1. \A r \in Slots : CopyCalled(r)' =>
           CopyCalled(r) /\ BufferIn(r)' = BufferIn(r)
    BY DEF Enqueued, SlotLeft, CopyCalled, BufferIn
  <2> QED
    BY <1>0, <1>6, <2>1 DEF SlotSide, CalledFrames, FrameAdded
<1>9. CalledFirst'
  <2> SUFFICES ASSUME NEW i \in 1..Len(mQueue'), NEW j \in 1..Len(mQueue'),
                      i < j, mQueue'[j].mAcquireCalled,
                      mQueue'[i].mSlot = mQueue'[j].mSlot
               PROVE  FALSE
    BY DEF CalledFirst
  <2>1. i \in 1..Len(mQueue) /\ mQueue'[i] = mQueue[i]
    BY <1>0, AddedLast DEF QueueInv
  <2>2. CASE j = n
    <3>1. CopyCalled(s) /\ mQueue[i].mSlot = s
      BY <1>0, <2>1, <2>2 DEF FrameAdded
    <3>2. mQueue[i].mGraphicBuffer = BufferIn(s)
      BY <2>1, <3>1 DEF SlotSide, CalledFrames
    <3> QED
      BY <2>1, <3>2 DEF QueueInv, Homes, FramesAtHome, Enqueued
  <2>3. CASE j # n
    BY <1>0, <2>1, <2>3 DEF FrameAdded, SlotSide, CalledFirst
  <2> QED
    BY <2>2, <2>3
<1> QED
  BY <1>2, <1>4, <1>5, <1>7, <1>8, <1>9 DEF SlotSide

\* acquireBuffer marks the slot it acquires, which has no other frame, and adds
\* the item of that slot.
LEMMA SlotSideTaken ==
    ASSUME TypeOK, Homes, SlotSide, FrontTaken
    PROVE  SlotSide'
<1>0. /\ \A i \in 1..Len(mQueue') :
            /\ i + 1 \in 1..Len(mQueue) /\ mQueue'[i] = mQueue[i + 1]
            /\ Frame(i)' = Frame(i + 1) /\ Frame(i + 1) \in Nat
            /\ Frame(1) < Frame(i + 1)
      /\ Frame(1) \in Nat /\ Len(mQueue') \in Nat
  <2>1. /\ \A i \in 1..Len(mQueue') :
              i + 1 \in 1..Len(mQueue) /\ mQueue'[i] = mQueue[i + 1]
        /\ 1 \in 1..Len(mQueue)
        /\ Len(mQueue) \in Nat /\ Len(mQueue') = Len(mQueue) - 1
    BY DEF FrontTaken, TypeOK
  <2>2. \A i \in 1..Len(mQueue') : 1 < i + 1
    BY <2>1
  <2>3. \A i \in 1..Len(mQueue') : Frame(i)' = Frame(i + 1)
    BY <2>1 DEF Frame
  <2>4. \A i \in 1..Len(mQueue) : Frame(i) \in Nat
    BY FrameTypes
  <2>5. \A i \in 1..Len(mQueue') : Frame(1) < Frame(i + 1)
    BY <2>1, <2>2 DEF SlotSide, InOrder
  <2>6. Len(mQueue') \in Nat
    BY <2>1
  <2> QED
    BY <2>1, <2>3, <2>4, <2>5, <2>6
<1>1. AcquiredCalled'
  BY DEF SlotSide, AcquiredCalled, FrontTaken, StateOf, CopyCalled
<1>2. \A r \in Slots : BufferIn(r)' = BufferIn(r) /\ FrameIn(r)' = FrameIn(r)
  BY DEF FrontTaken, BufferIn, FrameIn
<1>3. ASSUME NEW r \in Slots, BufferIn(r) = Front.mGraphicBuffer
      PROVE  /\ r = Front.mSlot /\ FrameIn(r) = Front.mFrameNumber
             /\ StateOf(r) = "QUEUED"
  BY <1>3 DEF Homes, FramesAtHome, FrontTaken, Front, Frame
<1>4. ItemsMatch'
  <2>1. \A x \in consumerItems' : x \in consumerItems \/ x = FrontItem
    BY DEF FrontTaken
  <2>2. /\ FrontItem.buffer = Front.mGraphicBuffer
        /\ FrontItem.slot = Front.mSlot
        /\ FrontItem.frame = Front.mFrameNumber
    BY DEF FrontItem
  <2> QED
    BY <1>2, <1>3, <2>1, <2>2 DEF SlotSide, ItemsMatch
<1>5. InOrder'
  <2> SUFFICES ASSUME NEW i \in 1..Len(mQueue'), NEW j \in 1..Len(mQueue'),
                      i < j
               PROVE  Frame(i)' < Frame(j)'
    BY DEF InOrder
  <2>1. i + 1 < j + 1
    BY <1>0
  <2> QED
    BY <1>0, <2>1 DEF SlotSide, InOrder
<1>6. ASSUME NEW r \in Slots, TakenAt(1, r)
      PROVE  \A i \in 1..Len(mQueue') : mQueue'[i].mSlot # r
  <2>1. BufferIn(r) = Front.mGraphicBuffer
    BY <1>6 DEF TakenAt, StillTracking, BufferIn, Front
  <2>2. StateOf(r) = "QUEUED" /\ FrameIn(r) = Frame(1)
    BY <1>3, <2>1 DEF Front, Frame
  <2>3. \A i \in 1..Len(mQueue') :
           mQueue[i + 1].mSlot = r => Frame(i + 1) <= FrameIn(r)
    BY <1>0, <2>2 DEF SlotSide, NewestFrame
  <2> QED
    BY <1>0, <2>2, <2>3
<1>7. ASSUME NEW r \in Slots, ~TakenAt(1, r)
      PROVE  SlotSame(r)
  BY <1>7 DEF FrontTaken, SlotSame, BufferIn, StateOf, FrameIn, CopyCalled
<1>8. NewestFrame'
  <2> SUFFICES ASSUME NEW r \in Slots, NEW i \in 1..Len(mQueue'),
                      mQueue'[i].mSlot = r
               PROVE  /\ StateOf(r)' # "ACQUIRED"
                      /\ StateOf(r)' = "QUEUED" => Frame(i)' <= FrameIn(r)'
    BY DEF NewestFrame
  <2>1. SlotSame(r)
    BY <1>6, <1>7
  <2> QED
    BY <1>0, <2>1 DEF SlotSide, NewestFrame, SlotSame
<1>9. CalledFrames'
  <2> SUFFICES ASSUME NEW r \in Slots, NEW i \in 1..Len(mQueue'),
                      mQueue'[i].mSlot = r, CopyCalled(r)'
               PROVE  mQueue'[i].mGraphicBuffer = BufferIn(r)'
    BY DEF CalledFrames
  <2>1. SlotSame(r)
    BY <1>6, <1>7
  <2> QED
    BY <1>0, <2>1 DEF SlotSide, CalledFrames, SlotSame
<1>10. CalledFirst'
  <2> SUFFICES ASSUME NEW i \in 1..Len(mQueue'), NEW j \in 1..Len(mQueue'),
                      i < j, mQueue'[j].mAcquireCalled
               PROVE  mQueue'[i].mSlot # mQueue'[j].mSlot
    BY DEF CalledFirst
  <2>1. i + 1 < j + 1
    BY <1>0
  <2>2. \A k, l \in 1..Len(mQueue) :
           k < l /\ mQueue[l].mAcquireCalled => mQueue[k].mSlot # mQueue[l].mSlot
    BY DEF SlotSide, CalledFirst
  <2>3. i + 1 \in 1..Len(mQueue) /\ j + 1 \in 1..Len(mQueue)
    BY <1>0
  <2>4. mQueue'[i] = mQueue[i + 1] /\ mQueue'[j] = mQueue[j + 1]
    BY <1>0
  <2>5. mQueue[j + 1].mAcquireCalled
    BY <2>4
  <2>6. mQueue[i + 1].mSlot # mQueue[j + 1].mSlot
    BY <2>1, <2>2, <2>3, <2>5
  <2> QED
    BY <2>4, <2>6
<1> QED
  BY <1>1, <1>4, <1>5, <1>8, <1>9, <1>10 DEF SlotSide

\* A slot that an allocation is under way for stays as it is.
EmptyKept ==
    \A r \in Slots :
        BufferIn(r) = NULL /\ StateOf(r) \in {"FREE", "DEQUEUED"}
          /\ ~CopyCalled(r)
        => BufferIn(r)' = NULL /\ StateOf(r)' \in {"FREE", "DEQUEUED"}
             /\ ~CopyCalled(r)'

\* Steps of the consumer begin no producer call.
LEMMA CallSideKept ==
    ASSUME TypeOK, CallSide, EmptyKept,
           \A t \in Threads : call'[t] = call[t] \/ call'[t] = Idle
    PROVE  CallSide'
<1>1. Idle.op = "idle"
  BY DEF Idle
<1>2. NoAttach'
  BY <1>1 DEF CallSide, NoAttach, Attaching
<1>3. OneInside'
  BY <1>1 DEF CallSide, OneInside, Inside
<1>4. ASSUME NEW t \in Threads, call'[t].op = "createGraphicBuffer"
      PROVE  call'[t] = call[t] /\ call[t].slot \in Slots
  BY <1>1, <1>4, CallType
<1>5. Creating'
  BY <1>4 DEF CallSide, Creating, EmptyKept
<1> QED
  BY <1>2, <1>3, <1>5 DEF CallSide

\* Nor do two producer calls go on at once.
LEMMA CallSideProduced ==
    ASSUME CallSide, NEW t \in Threads,
           \A u \in Threads \ {t} : ~Inside(u) /\ call'[u] = call[u],
           Produced(t) \/ call'[t].op = "onFrame"
    PROVE  CallSide'
<1>1. NoAttach'
  BY DEF CallSide, NoAttach, Attaching, Produced
<1>2. OneInside'
  BY DEF OneInside, Inside
<1>3. \A u \in Threads \ {t} : call'[u].op # "createGraphicBuffer"
  BY DEF Inside
<1>4. Creating'
  BY <1>3 DEF Creating, Produced
<1> QED
  BY <1>1, <1>2, <1>4 DEF CallSide

\* A step of the consumer that releases slots at most leaves slots that wait
\* for a buffer alone.
LEMMA ReleaseKeepsEmpty ==
    ASSUME NEW slot, NEW buffer, NEW status, ReleaseDone(slot, buffer, status)
    PROVE  EmptyKept /\ Leaves
<1>1. EmptyKept
  BY DEF ReleaseDone, SlotSame, SlotReleased, EmptyKept
<1>2. SlotsLeft
  BY DEF ReleaseDone, SlotSame, SlotReleased, SlotsLeft, SlotLeft, BufferIn,
     StateOf, FrameIn, CopyCalled
<1> QED
  BY <1>1, <1>2 DEF Leaves, ReleaseDone

\* So does acquireBuffer: a frame's buffer is in no empty slot.
LEMMA TakenKeepsEmpty ==
    ASSUME TypeOK, FrontTaken
    PROVE  EmptyKept
<1>1. ASSUME NEW r \in Slots, TakenAt(1, r)
      PROVE  BufferIn(r) # NULL
  BY <1>1, ItemTypes DEF TakenAt, StillTracking, BufferIn, FrontTaken
<1> QED
  BY <1>1 DEF FrontTaken, EmptyKept, BufferIn, StateOf, CopyCalled

-----------------------------------------------------------------------------
(* The consumer's side of the invariant *)

\* The consumer is of one class, and its fields are what the class uses.
Kinds ==
    /\ conf \in DOMAIN Configurations
    /\ cached \in [Slots -> [buffer: Buffers \cup {NULL}, frame: 0..MaxFrames]]
    /\ images \in [Slots -> Buffers \cup {NULL}]
    /\ texture \in [slot: Slots \cup {NO_SLOT}, image: Buffers \cup {NULL}]
    /\ updating \in Slots \cup {NO_SLOT}
    /\ locked \subseteq [slot: Slots, buffer: Buffers]
    /\ held \subseteq [slot: Slots, buffer: Buffers]
    /\ locked # {} => Is("cpu")
    /\ held # {} => Is("item")
    /\ updating # NO_SLOT \/ texture.slot # NO_SLOT \/ texture.image # NULL =>
          Is("gl")
    /\ "releaseTexImage" \in It.calls => attached

\* The copy of slot s is buffer b.
CopyIs(s, b) == cached[s].buffer = b /\ (Is("gl") => images[s] = b)

\* The buffer that acquireBuffer will not send along for slot s, and that of a
\* frame marked so, is the one the consumer has a copy of.
SlotsCopied == \A s \in Slots : CopyCalled(s) => CopyIs(s, BufferIn(s))
FramesCopied ==
    \A i \in 1..Len(mQueue) :
        mQueue[i].mAcquireCalled =>
            CopyIs(mQueue[i].mSlot, mQueue[i].mGraphicBuffer)

\* A copy of the buffer of an item has the frame number of the item.
CopyFrames ==
    \A x \in consumerItems :
        cached[x.slot].buffer = x.buffer => cached[x.slot].frame = x.frame

Copies == SlotsCopied /\ FramesCopied /\ CopyFrames

\* The consumer was given buffer b from slot s and has not done with it.
Given(s, b) == \E x \in consumerItems : x.slot = s /\ x.buffer = b

\* What the application has locked or holds was given to the consumer, and so
\* was what GLConsumer shows and the buffer that it is about to show.
EntriesGiven == \A e \in locked \cup held : Given(e.slot, e.buffer)
TextureGiven ==
    /\ texture.slot # NO_SLOT => Given(texture.slot, texture.image)
    /\ texture.image # NULL =>
          \E x \in consumerItems : x.buffer = texture.image
UpdatingGiven ==
    updating # NO_SLOT =>
        /\ Given(updating, cached[updating].buffer)
        /\ images[updating] = cached[updating].buffer
        /\ texture.image # cached[updating].buffer

\* The buffer that releaseTexImage names is the one that is shown.
ShowsCopy ==
    /\ "releaseTexImage" \in It.calls
    /\ updating = NO_SLOT /\ texture.slot # NO_SLOT
    => cached[texture.slot].buffer = texture.image

AllGiven == EntriesGiven /\ TextureGiven /\ UpdatingGiven /\ ShowsCopy

QueueSide == QueueInv /\ CallSide /\ SlotSide

ConsumerInv == QueueSide /\ Kinds /\ Copies /\ AllGiven

\* The copy of slot s stays, or is one that nothing will ask for.
CopySame(s) == cached'[s] = cached[s] /\ images'[s] = images[s]
CopyDropped(s) ==
    /\ cached'[s].buffer = NULL
    /\ ~CopyCalled(s)'
    /\ \A i \in 1..Len(mQueue') :
          mQueue'[i].mSlot = s => ~mQueue'[i].mAcquireCalled

\* A step that neither queues nor acquires keeps the copies that are needed.
LEMMA CopiesLeft ==
    ASSUME TypeOK, Copies, Leaves, UNCHANGED conf,
           \A s \in Slots : CopySame(s) \/ CopyDropped(s)
    PROVE  Copies'
<1>0. Is("gl")' <=> Is("gl")
  BY DEF Is, It
<1>1. ASSUME NEW s \in Slots, NEW b, CopySame(s), CopyIs(s, b)
      PROVE  CopyIs(s, b)'
  BY <1>0, <1>1 DEF CopySame, CopyIs
<1>2. SlotsCopied'
  <2> SUFFICES ASSUME NEW s \in Slots, CopyCalled(s)'
               PROVE  CopyIs(s, BufferIn(s))'
    BY DEF SlotsCopied
  <2>1. CopyCalled(s) /\ BufferIn(s)' = BufferIn(s)
    BY DEF Leaves, SlotsLeft, SlotLeft, CopyCalled, BufferIn
  <2>2. CopySame(s)
    BY DEF CopyDropped
  <2> QED
    BY <1>1, <2>1, <2>2 DEF Copies, SlotsCopied, CopyIs
<1>3. FramesCopied'
  <2>1. CASE mQueue' = <<>>
    BY <2>1 DEF FramesCopied
  <2>2. CASE UNCHANGED mQueue
    <3> SUFFICES ASSUME NEW i \in 1..Len(mQueue), mQueue[i].mAcquireCalled
                 PROVE  CopyIs(mQueue[i].mSlot, mQueue[i].mGraphicBuffer)'
      BY <2>2 DEF FramesCopied
    <3>1. mQueue[i].mSlot \in Slots
      BY ItemTypes
    <3>2. CopySame(mQueue[i].mSlot)
      BY <2>2, <3>1 DEF CopyDropped
    <3>3. CopyIs(mQueue[i].mSlot, mQueue[i].mGraphicBuffer)
      BY DEF Copies, FramesCopied
    <3> QED
      BY <1>1, <2>2, <3>1, <3>2, <3>3 DEF CopyIs
  <2> QED
    BY <2>1, <2>2 DEF Leaves
<1>4. CopyFrames'
  <2> SUFFICES ASSUME NEW x \in consumerItems, cached'[x.slot].buffer = x.buffer
               PROVE  cached'[x.slot].frame = x.frame
    BY DEF CopyFrames, Leaves
  <2>1. x.slot \in Slots /\ x.buffer # NULL
    BY ItemTypes
  <2>2. CopySame(x.slot)
    BY <2>1 DEF CopyDropped
  <2> QED
    BY <2>2 DEF CopySame, Copies, CopyFrames
<1> QED
  BY <1>2, <1>3, <1>4 DEF Copies

\* queueBuffer marks its frame as its slot is marked.
LEMMA CopiesQueued ==
    ASSUME Copies, NEW s \in Slots, Enqueued(s),
           UNCHANGED <<conf, cached, images>>
    PROVE  Copies'
<1>0. PICK n \in 1..Len(mQueue') : FrameAdded(s, n)
  BY DEF Enqueued
<1>1. ASSUME NEW r, NEW b, CopyIs(r, b)
      PROVE  CopyIs(r, b)'
  BY <1>1 DEF CopyIs, Is, It
<1>2. \A r \in Slots : CopyCalled(r)' =>
         CopyCalled(r) /\ BufferIn(r)' = BufferIn(r)
  BY DEF Enqueued, SlotLeft, CopyCalled, BufferIn
<1>3. SlotsCopied'
  <2> SUFFICES ASSUME NEW r \in Slots, CopyCalled(r)'
               PROVE  CopyIs(r, BufferIn(r))'
    BY DEF SlotsCopied
  <2>1. CopyIs(r, BufferIn(r))
    BY <1>2 DEF Copies, SlotsCopied
  <2> QED
    BY <1>1, <1>2, <2>1 DEF CopyIs
<1>4. FramesCopied'
  <2> SUFFICES ASSUME NEW i \in 1..Len(mQueue'), mQueue'[i].mAcquireCalled
               PROVE  CopyIs(mQueue[i].mSlot, mQueue[i].mGraphicBuffer)'
    BY DEF FramesCopied
  <2>1. CASE i = n
    BY <1>0, <1>1, <2>1 DEF FrameAdded, Copies, SlotsCopied, CopyIs
  <2>2. CASE i # n
    BY <1>0, <1>1, <2>2 DEF FrameAdded, Copies, FramesCopied, CopyIs
  <2> QED
    BY <2>1, <2>2
<1>5. CopyFrames'
  BY DEF Copies, CopyFrames, Enqueued
<1> QED
  BY <1>3, <1>4, <1>5 DEF Copies

\* What acquireBufferLocked does to the copies, and updateTexImage to the images.
CopyTaken ==
    /\ cached' = [cached EXCEPT ![Front.mSlot] = CopyOf(Front)]
    /\ images' = IF Is("gl") /\ ~Front.mAcquireCalled
                 THEN [images EXCEPT ![Front.mSlot] = Front.mGraphicBuffer]
                 ELSE images
    /\ UNCHANGED conf

\* After acquireBufferLocked the copy of the slot is the buffer of the frame,
\* whether it was sent along or not.
LEMMA CopiesTaken ==
    ASSUME TypeOK, Reads, SlotSide, Kinds, Copies, FrontTaken, CopyTaken
    PROVE  /\ Copies'
           /\ cached'[Front.mSlot] = [buffer |-> Front.mGraphicBuffer,
                                      frame |-> Front.mFrameNumber]
           /\ Is("gl") => images'[Front.mSlot] = Front.mGraphicBuffer
           /\ \A r \in Slots \ {Front.mSlot} : CopySame(r)
           /\ Front.mSlot \in Slots /\ Front.mGraphicBuffer \in Buffers
           /\ Front.mFrameNumber \in 1..MaxFrames
<1> DEFINE s == Front.mSlot
           b == Front.mGraphicBuffer
<1>1. 1 \in 1..Len(mQueue)
  BY DEF FrontTaken
<1>2. s \in Slots /\ b \in Buffers /\ Front.mFrameNumber \in 1..MaxFrames
  BY <1>1, ItemTypes DEF Front
<1>3. Front.mAcquireCalled => CopyIs(s, b)
  BY <1>1 DEF Front, Copies, FramesCopied
<1>4. cached'[s] = [buffer |-> b, frame |-> Front.mFrameNumber]
  <2>1. cached'[s] = CopyOf(Front)
    BY <1>2 DEF CopyTaken, Kinds
  <2> QED
    BY <1>3, <2>1 DEF CopyOf, CopyIs
<1>5. Is("gl") => images'[s] = b
  BY <1>2, <1>3 DEF CopyTaken, Kinds, CopyIs
<1>6. ASSUME NEW r \in Slots \ {s}
      PROVE  CopySame(r)
  BY <1>2 DEF CopyTaken, Kinds, CopySame
<1>8. ASSUME NEW r \in Slots \ {s}, NEW c, CopyIs(r, c)
      PROVE  CopyIs(r, c)'
  BY <1>6, <1>8 DEF CopyTaken, CopySame, CopyIs, Is, It
<1>9. SlotsCopied'
  <2> SUFFICES ASSUME NEW r \in Slots, CopyCalled(r)'
               PROVE  CopyIs(r, BufferIn(r))'
    BY DEF SlotsCopied
  <2>1. BufferIn(r)' = BufferIn(r)
    BY DEF FrontTaken, BufferIn
  <2>2. CASE r = s
    <3>1. BufferIn(r) = b
      <4>1. CASE TakenAt(1, r)
        BY <4>1 DEF TakenAt, StillTracking, BufferIn, Front
      <4>2. CASE ~TakenAt(1, r)
        <5>1. CopyCalled(r)
          BY <4>2 DEF FrontTaken, CopyCalled
        <5> QED
          BY <1>1, <2>2, <5>1 DEF SlotSide, CalledFrames, Front
      <4> QED
        BY <4>1, <4>2
    <3> QED
      BY <1>4, <1>5, <2>1, <2>2, <3>1 DEF CopyIs, Is, It, CopyTaken
  <2>3. CASE r # s
    <3>1. ~TakenAt(1, r)
      BY <2>3 DEF TakenAt, Front
    <3>2. CopyCalled(r)
      BY <3>1 DEF FrontTaken, CopyCalled
    <3>3. CopyIs(r, BufferIn(r))
      BY <3>2 DEF Copies, SlotsCopied
    <3> QED
      BY <1>8, <2>1, <2>3, <3>3 DEF CopyIs
  <2> QED
    BY <2>2, <2>3
<1>10. FramesCopied'
  <2> SUFFICES ASSUME NEW i \in 1..Len(mQueue'), mQueue'[i].mAcquireCalled
               PROVE  CopyIs(mQueue[i].mSlot, mQueue[i].mGraphicBuffer)'
    BY DEF FramesCopied
  <2>1. i + 1 \in 1..Len(mQueue) /\ mQueue'[i] = mQueue[i + 1]
    BY DEF FrontTaken
  <2>2. 1 < i + 1
    BY DEF TypeOK, FrontTaken
  <2>3. mQueue[i + 1].mSlot # s
    BY <1>1, <2>1, <2>2 DEF SlotSide, CalledFirst, Front
  <2>4. mQueue[i + 1].mSlot \in Slots
    BY <2>1, ItemTypes
  <2>5. CopyIs(mQueue[i + 1].mSlot, mQueue[i + 1].mGraphicBuffer)
    BY <2>1 DEF Copies, FramesCopied
  <2> QED
    BY <1>8, <2>1, <2>3, <2>4, <2>5 DEF CopyIs
<1>11. CopyFrames'
  <2> SUFFICES ASSUME NEW x \in consumerItems', cached'[x.slot].buffer = x.buffer
               PROVE  cached'[x.slot].frame = x.frame
    BY DEF CopyFrames
  <2>1. CASE x = FrontItem
    BY <1>4, <2>1 DEF FrontItem
  <2>2. CASE x \in consumerItems
    <3>1. x.slot \in Slots
      BY <2>2, ItemTypes
    <3>2. x.buffer # b
      BY <1>1, <2>2 DEF Reads, ItemsApart, Front
    <3>3. x.slot # s
      BY <1>4, <3>2
    <3> QED
      BY <1>6, <2>2, <3>1, <3>3 DEF CopySame, Copies, CopyFrames
  <2> QED
    BY <2>1, <2>2 DEF FrontTaken
<1> QED
  BY <1>2, <1>4, <1>5, <1>6, <1>9, <1>10, <1>11 DEF Copies

\* What the consumer tracks and was given is an item of the queue.
LEMMA TrackedIsItem ==
    ASSUME TypeOK, Copies, NEW slot \in Slots, NEW buffer,
           Given(slot, buffer), stillTracking(slot, buffer)
    PROVE  Copied(slot) \in consumerItems
<1>1. PICK x \in consumerItems : x.slot = slot /\ x.buffer = buffer
  BY DEF Given
<1>2. x.frame = cached[slot].frame /\ x.buffer = cached[slot].buffer
  BY <1>1 DEF stillTracking, Copies, CopyFrames
<1>3. x \in [slot: Slots, frame: 0..MaxFrames, buffer: Buffers]
  BY DEF TypeOK, ConsumerItem
<1>4. x = Copied(slot)
  BY <1>1, <1>2, <1>3 DEF Copied
<1> QED
  BY <1>4

\* When the queue calls an item stale it will send the next buffer of the slot
\* along: the copy may go.
LEMMA StaleIsSafe ==
    ASSUME TypeOK, Reads, SlotSide, Copies, NEW slot \in Slots,
           Copied(slot) \in consumerItems,
           IsStale(Copied(slot)) \/ StateOf(slot) # "ACQUIRED"
    PROVE  /\ ~CopyCalled(slot)
           /\ \A i \in 1..Len(mQueue) :
                 mQueue[i].mSlot = slot => ~mQueue[i].mAcquireCalled
<1> DEFINE x == Copied(slot)
<1>0. /\ x.slot = slot /\ x.buffer = cached[slot].buffer
      /\ x.frame = cached[slot].frame
  BY DEF Copied
<1> HIDE DEF x
<1>1. ~CopyCalled(slot)
  <2> SUFFICES ASSUME CopyCalled(slot) PROVE FALSE
    OBVIOUS
  <2>1. BufferIn(slot) = x.buffer
    BY <1>0 DEF Copies, SlotsCopied, CopyIs
  <2>2. StateOf(slot) = "ACQUIRED"
    BY <2>1 DEF Reads, NoSharedAccess, BufferIn, StateOf, x
  <2>3. FrameIn(slot) = x.frame
    BY <2>1 DEF SlotSide, ItemsMatch, x
  <2> QED
    BY <1>0, <2>2, <2>3 DEF IsStale, FrameIn, x
<1>2. ASSUME NEW i \in 1..Len(mQueue), mQueue[i].mSlot = slot,
             mQueue[i].mAcquireCalled
      PROVE  FALSE
  <2>1. mQueue[i].mGraphicBuffer = x.buffer
    BY <1>0, <1>2 DEF Copies, FramesCopied, CopyIs
  <2> QED
    BY <2>1 DEF Reads, ItemsApart, x
<1> QED
  BY <1>1, <1>2

\* A call that releases a buffer the consumer was given keeps the invariants of
\* the queue and the copies, and forgets that buffer only.
LEMMA ReleaseStep ==
    ASSUME NobodyAttaches, QueueSide, Kinds, Copies,
           NEW slot \in Slots, NEW buffer, NEW status, Given(slot, buffer),
           releaseBufferLocked(slot, buffer, status),
           freeBufferLocked(FreedFor(slot, status)), UNCHANGED conf
    PROVE  /\ QueueSide' /\ Copies'
           /\ ReleaseDone(slot, buffer, status)
           /\ cached' \in
                 [Slots -> [buffer: Buffers \cup {NULL}, frame: 0..MaxFrames]]
           /\ images' \in [Slots -> Buffers \cup {NULL}]
           /\ \A s, b : Given(s, b) /\ ~(s = slot /\ b = buffer) => Given(s, b)'
           /\ \A x \in consumerItems : x.buffer # buffer => x \in consumerItems'
           /\ \A s \in Slots :
                 (s = slot /\ status = "STALE_BUFFER_SLOT") \/ CopySame(s)
           /\ status = "STALE_BUFFER_SLOT" =>
                 stillTracking(slot, buffer) /\ ~CopyCalled(slot)
<1>0. TypeOK /\ Reads
  BY DEF QueueSide, QueueInv
<1>1. stillTracking(slot, buffer) => Copied(slot) \in consumerItems
  BY <1>0, TrackedIsItem
<1>2. QueueStep /\ ReleaseDone(slot, buffer, status)
  BY <1>0, <1>1, ReleaseLeft
<1>3. EmptyKept /\ Leaves
  BY <1>2, ReleaseKeepsEmpty
<1>4. QueueInv'
  BY <1>2, QueueInvStep DEF QueueSide
<1>5. SlotSide'
  BY <1>3, <1>4, SlotSideLeft DEF QueueSide, QueueInv
<1>6. CallSide'
  BY <1>0, <1>2, <1>3, CallSideKept DEF QueueSide, ReleaseDone
<1>7. /\ cached' = [s \in Slots |-> IF s \in FreedFor(slot, status)
                                    THEN NoCopy ELSE cached[s]]
      /\ images' = [s \in Slots |-> IF s \in FreedFor(slot, status)
                                    THEN NULL ELSE images[s]]
  BY DEF freeBufferLocked
<1>8. \A s \in Slots : \/ CopySame(s)
                       \/ /\ s = slot /\ status = "STALE_BUFFER_SLOT"
                          /\ cached'[s].buffer = NULL
  BY <1>7 DEF FreedFor, CopySame, NoCopy
<1>9. status = "STALE_BUFFER_SLOT" =>
        /\ stillTracking(slot, buffer)
        /\ ~CopyCalled(slot)
        /\ \A i \in 1..Len(mQueue) :
              mQueue[i].mSlot = slot => ~mQueue[i].mAcquireCalled
  BY <1>0, <1>1, <1>2, StaleIsSafe DEF QueueSide, ReleaseDone
<1>10. Copies'
  <2>1. \A s \in Slots : CopySame(s) \/ CopyDropped(s)
    BY <1>2, <1>8, <1>9
    DEF CopyDropped, ReleaseDone, SlotSame, SlotReleased
  <2> QED
    BY <1>0, <1>3, <2>1, CopiesLeft
<1>11. /\ cached' \in
            [Slots -> [buffer: Buffers \cup {NULL}, frame: 0..MaxFrames]]
       /\ images' \in [Slots -> Buffers \cup {NULL}]
  <2>1. NoCopy \in [buffer: Buffers \cup {NULL}, frame: 0..MaxFrames]
    BY FramesAssumption DEF NoCopy
  <2> QED
    BY <1>7, <2>1 DEF Kinds
<1>12. \A x \in consumerItems :
          x \in consumerItems' \/ (x.slot = slot /\ x.buffer = buffer)
  BY <1>2 DEF ReleaseDone
<1>13. \A s, b : Given(s, b) /\ ~(s = slot /\ b = buffer) => Given(s, b)'
  BY <1>12 DEF Given
<1> QED
  BY <1>2, <1>4, <1>5, <1>6, <1>8, <1>9, <1>10, <1>11, <1>12, <1>13
  DEF QueueSide

\* The sets and classes of the fields, in terms of what changes.
LEMMA KindsKept ==
    ASSUME Kinds, UNCHANGED <<conf, attached>>,
           cached' \in
              [Slots -> [buffer: Buffers \cup {NULL}, frame: 0..MaxFrames]],
           images' \in [Slots -> Buffers \cup {NULL}],
           texture' \in
              [slot: Slots \cup {NO_SLOT}, image: Buffers \cup {NULL}],
           updating' \in Slots \cup {NO_SLOT},
           Is("gl") \/ UNCHANGED <<texture, updating>>,
           locked' \subseteq locked, held' \subseteq held
    PROVE  Kinds'
<1>1. It' = It /\ \A k : Is(k)' <=> Is(k)
  BY DEF It, Is
<1> QED
  BY <1>1 DEF Kinds

\* GLConsumer::freeBufferLocked keeps the image.
LEMMA TextureWithoutType ==
    ASSUME Kinds, NEW S
    PROVE  /\ TextureWithout(S) \in
                [slot: Slots \cup {NO_SLOT}, image: Buffers \cup {NULL}]
           /\ TextureWithout(S).image = texture.image
           /\ TextureWithout(S).slot =
                 IF texture.slot \in S THEN NO_SLOT ELSE texture.slot
BY DEF Kinds, TextureWithout

-----------------------------------------------------------------------------
(* Every step keeps the invariant *)

\* What the invariant says about the consumer's fields.
fields == <<conf, cached, images, texture, updating, attached, locked, held>>

\* Nothing is forgotten and no field changes.
LEMMA FieldsSame ==
    ASSUME Kinds, AllGiven, UNCHANGED fields, UNCHANGED consumerItems
    PROVE  Kinds' /\ AllGiven'
<1>1. It' = It /\ \A k : Is(k)' <=> Is(k)
  BY DEF It, Is, fields
<1>2. \A s, b : Given(s, b)' <=> Given(s, b)
  BY DEF Given
<1>3. Kinds'
  BY <1>1 DEF Kinds, fields
<1>4. EntriesGiven' /\ TextureGiven' /\ UpdatingGiven'
  BY <1>2 DEF AllGiven, EntriesGiven, TextureGiven, UpdatingGiven, fields
<1>5. ShowsCopy'
  BY <1>1 DEF AllGiven, ShowsCopy, fields
<1> QED
  BY <1>3, <1>4, <1>5 DEF AllGiven

\* Neither does a slot, a frame or an item.
LEMMA StillStep ==
    ASSUME NobodyAttaches, ConsumerInv, QueueStep,
           UNCHANGED <<mSlots, mQueue, consumerItems>>, UNCHANGED fields,
           \A t \in Threads : call'[t] = call[t] \/ call'[t] = Idle
    PROVE  ConsumerInv'
<1>0. TypeOK
  BY DEF ConsumerInv, QueueSide, QueueInv
<1>1. EmptyKept /\ Leaves
  BY SameLeft DEF EmptyKept, Leaves, BufferIn, StateOf, CopyCalled
<1>2. QueueInv'
  BY QueueInvStep DEF ConsumerInv, QueueSide
<1>3. CallSide'
  BY <1>0, <1>1, CallSideKept DEF ConsumerInv, QueueSide
<1>4. SlotSide'
  BY <1>1, <1>2, SlotSideLeft DEF ConsumerInv, QueueSide, QueueInv
<1>5. Copies'
  BY <1>0, <1>1, CopiesLeft DEF ConsumerInv, CopySame, fields
<1>6. Kinds' /\ AllGiven'
  BY FieldsSame DEF ConsumerInv
<1> QED
  BY <1>2, <1>3, <1>4, <1>5, <1>6 DEF ConsumerInv, QueueSide

\* The producers make their calls one after the other.
LEMMA ProduceStep ==
    ASSUME NobodyAttaches, OneMode, ConsumerInv, NEW t \in Threads, Produce(t)
    PROVE  ConsumerInv'
<1>0. TypeOK /\ Homes
  BY DEF ConsumerInv, QueueSide, QueueInv
<1>1. ProducerCall(t) \/ ProducerStep(t)
  BY DEF Produce
<1>2. QueueInv'
  <2>1. QueueStep
    BY <1>1 DEF QueueStep, Next
  <2> QED
    BY <2>1, QueueInvStep DEF ConsumerInv, QueueSide
<1>3. UNCHANGED fields
  BY DEF Produce, consumerVars, gl, cpu, fields
<1>4. \A u \in Threads \ {t} : ~Inside(u)
  BY DEF Produce
<1>5. CASE Produced(t)
  <2>1. Leaves /\ UNCHANGED consumerItems
    BY <1>5 DEF Produced, Leaves
  <2>2. CallSide'
    BY <1>4, <1>5, CallSideProduced DEF ConsumerInv, QueueSide, Produced
  <2>3. SlotSide'
    BY <1>2, <2>1, SlotSideLeft DEF ConsumerInv, QueueSide, QueueInv
  <2>4. Copies'
    BY <1>0, <1>3, <2>1, CopiesLeft DEF ConsumerInv, CopySame, fields
  <2>5. Kinds' /\ AllGiven'
    BY <1>3, <2>1, FieldsSame DEF ConsumerInv
  <2> QED
    BY <1>2, <2>2, <2>3, <2>4, <2>5 DEF ConsumerInv, QueueSide
<1>6. ASSUME NEW s \in Slots, NEW async \in AsyncModes, NEW stamp \in Stamps,
             QueueBuffer(t, s, async, stamp)
      PROVE  ConsumerInv'
  <2>1. /\ Enqueued(s) /\ call'[t].op = "onFrame"
        /\ \A u \in Threads \ {t} : call'[u] = call[u]
    BY <1>0, <1>6, QueueBufferLeft
  <2>2. CallSide'
    BY <1>4, <2>1, CallSideProduced DEF ConsumerInv, QueueSide
  <2>3. SlotSide'
    BY <1>2, <2>1, SlotSideQueued DEF ConsumerInv, QueueSide
  <2>4. Copies'
    BY <1>3, <2>1, CopiesQueued DEF ConsumerInv, fields
  <2>5. Kinds' /\ AllGiven'
    BY <1>3, <2>1, FieldsSame DEF ConsumerInv, Enqueued
  <2> QED
    BY <1>2, <2>2, <2>3, <2>4, <2>5 DEF ConsumerInv, QueueSide
<1>7. CASE ProducerCall(t)
  BY <1>0, <1>5, <1>6, <1>7, ProducerCallLeft
<1>8. CASE ProducerStep(t)
  BY <1>0, <1>5, <1>8, ProducerStepLeft DEF ConsumerInv, QueueSide
<1> QED
  BY <1>1, <1>7, <1>8

\* onBuffersReleased frees the copies that nothing will ask for.
LEMMA OnBuffersReleasedStep ==
    ASSUME NobodyAttaches, ConsumerInv, NEW t \in Threads, onBuffersReleased(t)
    PROVE  ConsumerInv'
<1> DEFINE released == IF phase = "abandoned" THEN {} ELSE getReleasedBuffers
<1>0. TypeOK
  BY DEF ConsumerInv, QueueSide, QueueInv
<1>1. /\ MutexFree /\ CallBackReleased(t) /\ freeBufferLocked(released)
      /\ texture' = TextureWithout(released)
      /\ UNCHANGED <<conf, attached, updating, locked, held>>
  BY DEF onBuffersReleased, cpu
<1>2. /\ UNCHANGED <<mSlots, mQueue, consumerItems>>
      /\ \A u \in Threads : call'[u] = call[u] \/ call'[u] = Idle
  BY <1>0, <1>1 DEF CallBackReleased, Returns, clients, consumer, TypeOK
<1>3. QueueStep
  BY <1>1 DEF QueueStep, Next, ProducerStep
<1>4. EmptyKept /\ Leaves
  BY <1>2, SameLeft DEF EmptyKept, Leaves, BufferIn, StateOf, CopyCalled
<1>5. QueueSide'
  <2>1. QueueInv'
    BY <1>3, QueueInvStep DEF ConsumerInv, QueueSide
  <2>2. CallSide'
    BY <1>0, <1>2, <1>4, CallSideKept DEF ConsumerInv, QueueSide
  <2>3. SlotSide'
    BY <1>4, <2>1, SlotSideLeft DEF ConsumerInv, QueueSide, QueueInv
  <2> QED
    BY <2>1, <2>2, <2>3 DEF QueueSide
<1>6. \A s \in released :
         /\ ~CopyCalled(s)
         /\ \A i \in 1..Len(mQueue) :
               mQueue[i].mSlot = s => ~mQueue[i].mAcquireCalled
  BY DEF getReleasedBuffers, CopyCalled
<1> HIDE DEF released
<1>7. \A s \in Slots : /\ s \notin released => CopySame(s)
                       /\ s \in released => cached'[s].buffer = NULL
  BY <1>1 DEF freeBufferLocked, CopySame, NoCopy
<1>8. Copies'
  <2>1. \A s \in Slots : CopySame(s) \/ CopyDropped(s)
    BY <1>2, <1>6, <1>7 DEF CopyDropped, CopyCalled
  <2> QED
    BY <1>0, <1>1, <1>4, <2>1, CopiesLeft DEF ConsumerInv
<1>9. /\ texture' \in
            [slot: Slots \cup {NO_SLOT}, image: Buffers \cup {NULL}]
      /\ texture'.image = texture.image
      /\ texture'.slot = IF texture.slot \in released THEN NO_SLOT
                         ELSE texture.slot
  BY <1>1, TextureWithoutType DEF ConsumerInv
<1>10. Kinds'
  <2>1. /\ cached' \in
             [Slots -> [buffer: Buffers \cup {NULL}, frame: 0..MaxFrames]]
        /\ images' \in [Slots -> Buffers \cup {NULL}]
    <3>1. NoCopy \in [buffer: Buffers \cup {NULL}, frame: 0..MaxFrames]
      BY FramesAssumption DEF NoCopy
    <3> QED
      BY <1>1, <3>1 DEF freeBufferLocked, ConsumerInv, Kinds
  <2>2. Is("gl") \/ UNCHANGED <<texture, updating>>
    <3>1. texture.slot # NO_SLOT => Is("gl")
      BY DEF ConsumerInv, Kinds
    <3>2. texture.slot = NO_SLOT => texture' = texture
      BY <1>1 DEF TextureWithout, ConsumerInv, Kinds
    <3> QED
      BY <1>1, <3>1, <3>2
  <2> QED
    BY <1>1, <1>9, <2>1, <2>2, KindsKept DEF ConsumerInv, Kinds
<1>11. AllGiven'
  <2>1. \A s, b : Given(s, b)' <=> Given(s, b)
    BY <1>2 DEF Given
  <2>2. EntriesGiven'
    BY <1>1, <2>1 DEF ConsumerInv, AllGiven, EntriesGiven
  <2>3. TextureGiven'
    BY <1>2, <1>9, <2>1 DEF ConsumerInv, AllGiven, TextureGiven
  <2>4. UpdatingGiven'
    BY <1>1 DEF MutexFree, UpdatingGiven
  <2>5. ShowsCopy'
    <3>1. It' = It
      BY <1>1 DEF It
    <3>2. texture'.slot # NO_SLOT =>
             texture'.slot = texture.slot /\ texture.slot \notin released
             /\ texture.slot \in Slots
      BY <1>9 DEF ConsumerInv, Kinds
    <3> QED
      BY <1>1, <1>7, <1>9, <3>1, <3>2
      DEF ConsumerInv, AllGiven, ShowsCopy, CopySame
  <2> QED
    BY <2>2, <2>3, <2>4, <2>5 DEF AllGiven
<1> QED
  BY <1>5, <1>8, <1>10, <1>11 DEF ConsumerInv

\* acquireBufferLocked of a consumer whose mutex was free.
LEMMA AcquireStep ==
    ASSUME NobodyAttaches, ConsumerInv, AcquireBuffer(0), CopyTaken
    PROVE  /\ QueueSide' /\ Copies' /\ FrontTaken
           /\ cached' \in
                 [Slots -> [buffer: Buffers \cup {NULL}, frame: 0..MaxFrames]]
           /\ images' \in [Slots -> Buffers \cup {NULL}]
           /\ cached'[Front.mSlot] = [buffer |-> Front.mGraphicBuffer,
                                      frame |-> Front.mFrameNumber]
           /\ Is("gl") => images'[Front.mSlot] = Front.mGraphicBuffer
           /\ \A r \in Slots \ {Front.mSlot} : CopySame(r)
           /\ Front.mSlot \in Slots /\ Front.mGraphicBuffer \in Buffers
           /\ \A x \in consumerItems : x.buffer # Front.mGraphicBuffer
           /\ consumerItems \subseteq consumerItems'
           /\ \A s, b : Given(s, b) => Given(s, b)'
           /\ \E x \in consumerItems' : /\ x.slot = Front.mSlot
                                        /\ x.buffer = Front.mGraphicBuffer
<1>0. TypeOK /\ Homes /\ Reads
  BY DEF ConsumerInv, QueueSide, QueueInv
<1>1. FrontTaken
  BY <1>0, AcquireLeft
<1>2. QueueStep
  BY ConsumersAssumption DEF QueueStep, Next, ConsumerCall
<1>3. QueueInv'
  BY <1>2, QueueInvStep DEF ConsumerInv, QueueSide
<1>4. SlotSide'
  BY <1>0, <1>1, SlotSideTaken DEF ConsumerInv, QueueSide
<1>5. EmptyKept
  BY <1>0, <1>1, TakenKeepsEmpty
<1>6. CallSide'
  <2>1. UNCHANGED call
    BY <1>1 DEF FrontTaken
  <2> QED
    BY <1>0, <1>5, <2>1, CallSideKept DEF ConsumerInv, QueueSide
<1>7. /\ Copies'
      /\ cached'[Front.mSlot] = [buffer |-> Front.mGraphicBuffer,
                                 frame |-> Front.mFrameNumber]
      /\ Is("gl") => images'[Front.mSlot] = Front.mGraphicBuffer
      /\ \A r \in Slots \ {Front.mSlot} : CopySame(r)
      /\ Front.mSlot \in Slots /\ Front.mGraphicBuffer \in Buffers
      /\ Front.mFrameNumber \in 1..MaxFrames
  BY <1>0, <1>1, CopiesTaken DEF ConsumerInv, QueueSide
<1>8. \A x \in consumerItems : x.buffer # Front.mGraphicBuffer
  BY <1>0, <1>1 DEF FrontTaken, Reads, ItemsApart, Front
<1>9. /\ consumerItems \subseteq consumerItems'
      /\ \A s, b : Given(s, b) => Given(s, b)'
      /\ \E x \in consumerItems' : /\ x.slot = Front.mSlot
                                   /\ x.buffer = Front.mGraphicBuffer
  <2>1. consumerItems' = consumerItems \cup {FrontItem}
    BY <1>1 DEF FrontTaken
  <2>2. \A s, b : Given(s, b) => Given(s, b)'
    BY <2>1 DEF Given
  <2>3. /\ FrontItem.slot = Front.mSlot
        /\ FrontItem.buffer = Front.mGraphicBuffer
    BY DEF FrontItem
  <2> QED
    BY <2>1, <2>2, <2>3
<1>10. /\ cached' \in
            [Slots -> [buffer: Buffers \cup {NULL}, frame: 0..MaxFrames]]
       /\ images' \in [Slots -> Buffers \cup {NULL}]
  <2>1. CopyOf(Front) = cached'[Front.mSlot]
    BY <1>7 DEF CopyTaken, ConsumerInv, Kinds
  <2>2. CopyOf(Front) \in [buffer: Buffers \cup {NULL}, frame: 0..MaxFrames]
    BY <1>7, <2>1, FramesAssumption
  <2> QED
    BY <1>7, <2>2 DEF CopyTaken, ConsumerInv, Kinds
<1> QED
  BY <1>1, <1>3, <1>4, <1>6, <1>7, <1>8, <1>9, <1>10 DEF QueueSide

\* updateTexImage up to the answer of the queue.
LEMMA UpdateTexImageStep ==
    ASSUME NobodyAttaches, ConsumerInv, updateTexImage
    PROVE  ConsumerInv'
<1>1. /\ AcquireBuffer(0) /\ CopyTaken /\ Is("gl") /\ updating' = Front.mSlot
      /\ UNCHANGED <<conf, texture, attached, locked, held>>
  BY DEF updateTexImage, acquireBufferLocked, IsReady, CopyTaken, cpu
<1>2. /\ QueueSide' /\ Copies'
      /\ cached' \in
            [Slots -> [buffer: Buffers \cup {NULL}, frame: 0..MaxFrames]]
      /\ images' \in [Slots -> Buffers \cup {NULL}]
      /\ cached'[Front.mSlot].buffer = Front.mGraphicBuffer
      /\ images'[Front.mSlot] = Front.mGraphicBuffer
      /\ Front.mSlot \in Slots /\ Front.mGraphicBuffer \in Buffers
      /\ \A x \in consumerItems : x.buffer # Front.mGraphicBuffer
      /\ consumerItems \subseteq consumerItems'
      /\ \A s, b : Given(s, b) => Given(s, b)'
      /\ \E x \in consumerItems' : /\ x.slot = Front.mSlot
                                   /\ x.buffer = Front.mGraphicBuffer
  BY <1>1, AcquireStep
<1>3. Kinds'
  BY <1>1, <1>2, KindsKept DEF ConsumerInv, Kinds
<1>4. EntriesGiven' /\ TextureGiven'
  BY <1>1, <1>2 DEF ConsumerInv, AllGiven, EntriesGiven, TextureGiven
<1>5. UpdatingGiven'
  <2>1. Given(updating, cached[updating].buffer)'
    BY <1>1, <1>2 DEF Given
  <2>2. texture.image # Front.mGraphicBuffer
    BY <1>2, BuffersAssumption DEF ConsumerInv, AllGiven, TextureGiven
  <2> QED
    BY <1>1, <1>2, <2>1, <2>2 DEF UpdatingGiven
<1>6. ShowsCopy'
  BY <1>1, <1>2, ConsumersAssumption DEF ShowsCopy
<1> QED
  BY <1>2, <1>3, <1>4, <1>5, <1>6 DEF ConsumerInv, AllGiven

\* The new entry of a client of CpuConsumer or BufferItemConsumer.
Entry == [slot |-> Front.mSlot, buffer |-> Front.mGraphicBuffer]

\* lockNextBuffer and acquireBuffer of the other classes.
LEMMA EntryStep ==
    ASSUME NobodyAttaches, ConsumerInv, AcquireBuffer(0),
           cached' = [cached EXCEPT ![Front.mSlot] = CopyOf(Front)],
           UNCHANGED <<conf, images, texture, attached, updating>>,
           locked' \subseteq locked \cup {Entry}, locked' # locked => Is("cpu"),
           held' \subseteq held \cup {Entry}, held' # held => Is("item"),
           ~Is("gl")
    PROVE  ConsumerInv'
<1>1. CopyTaken
  BY DEF CopyTaken
<1>2. /\ QueueSide' /\ Copies'
      /\ cached' \in
            [Slots -> [buffer: Buffers \cup {NULL}, frame: 0..MaxFrames]]
      /\ images' \in [Slots -> Buffers \cup {NULL}]
      /\ Front.mSlot \in Slots /\ Front.mGraphicBuffer \in Buffers
      /\ consumerItems \subseteq consumerItems'
      /\ \A s, b : Given(s, b) => Given(s, b)'
      /\ \E x \in consumerItems' : /\ x.slot = Front.mSlot
                                   /\ x.buffer = Front.mGraphicBuffer
  BY <1>1, AcquireStep
<1>3. It' = It /\ \A k : Is(k)' <=> Is(k)
  BY DEF It, Is
<1>4. /\ Entry \in [slot: Slots, buffer: Buffers]
      /\ Entry.slot = Front.mSlot /\ Entry.buffer = Front.mGraphicBuffer
  BY <1>2 DEF Entry
<1>5. updating = NO_SLOT /\ texture.slot = NO_SLOT /\ texture.image = NULL
  BY DEF ConsumerInv, Kinds
<1>6. Kinds'
  BY <1>2, <1>3, <1>4 DEF ConsumerInv, Kinds
<1>7. EntriesGiven'
  <2> SUFFICES ASSUME NEW e \in locked' \cup held'
               PROVE  Given(e.slot, e.buffer)'
    BY DEF EntriesGiven
  <2>1. CASE e = Entry
    BY <1>2, <1>4, <2>1 DEF Given
  <2>2. CASE e \in locked \cup held
    BY <1>2, <2>2 DEF ConsumerInv, AllGiven, EntriesGiven
  <2> QED
    BY <2>1, <2>2
<1>8. TextureGiven' /\ UpdatingGiven' /\ ShowsCopy'
  BY <1>5 DEF TextureGiven, UpdatingGiven, ShowsCopy
<1> QED
  BY <1>2, <1>6, <1>7, <1>8 DEF ConsumerInv, AllGiven

\* updateAndReleaseLocked gives the new buffer back.
LEMMA UpdateFailsStep ==
    ASSUME NobodyAttaches, ReleasesWhatItShows, ConsumerInv, updateFails
    PROVE  ConsumerInv'
<1> DEFINE slot == updating
           buffer == cached[updating].buffer
<1>1. PICK status \in Statuses :
         /\ releaseBufferLocked(slot, buffer, status)
         /\ freeBufferLocked(FreedFor(slot, status))
         /\ texture' = TextureWithout(FreedFor(slot, status))
  BY DEF updateFails
<1>2. /\ updating # NO_SLOT /\ updating' = NO_SLOT /\ (~attached \/ It.fails)
      /\ UNCHANGED <<conf, attached, locked, held>>
  BY DEF updateFails, cpu
<1>3. /\ slot \in Slots /\ Is("gl") /\ Given(slot, buffer)
      /\ texture.image # buffer /\ locked = {} /\ held = {}
  BY <1>2 DEF ConsumerInv, Kinds, AllGiven, UpdatingGiven, Is
<1> HIDE DEF slot, buffer
<1>4. /\ QueueSide' /\ Copies'
      /\ cached' \in
            [Slots -> [buffer: Buffers \cup {NULL}, frame: 0..MaxFrames]]
      /\ images' \in [Slots -> Buffers \cup {NULL}]
      /\ \A s, b : Given(s, b) /\ ~(s = slot /\ b = buffer) => Given(s, b)'
      /\ \A x \in consumerItems : x.buffer # buffer => x \in consumerItems'
  BY <1>1, <1>2, <1>3, ReleaseStep DEF ConsumerInv
<1>5. /\ texture' \in
            [slot: Slots \cup {NO_SLOT}, image: Buffers \cup {NULL}]
      /\ texture'.image = texture.image
      /\ texture'.slot # NO_SLOT => texture'.slot = texture.slot
  BY <1>1, TextureWithoutType DEF ConsumerInv
<1>6. Kinds'
  BY <1>2, <1>3, <1>4, <1>5, KindsKept DEF ConsumerInv
<1>7. EntriesGiven' /\ UpdatingGiven'
  BY <1>2, <1>3 DEF EntriesGiven, UpdatingGiven
<1>8. TextureGiven'
  BY <1>3, <1>4, <1>5 DEF ConsumerInv, AllGiven, TextureGiven
<1>9. ShowsCopy'
  <2>1. "releaseTexImage" \notin It.calls
    BY <1>2 DEF ConsumerInv, Kinds, ReleasesWhatItShows, It
  <2> QED
    BY <1>2, <2>1 DEF ShowsCopy, It
<1> QED
  BY <1>4, <1>6, <1>7, <1>8, <1>9 DEF ConsumerInv, AllGiven

\* updateAndReleaseLocked lets the old buffer go and shows the new one.
LEMMA UpdateStep ==
    ASSUME NobodyAttaches, ConsumerInv, updateAndReleaseLocked
    PROVE  ConsumerInv'
<1> DEFINE b == cached[updating].buffer
<1>1. /\ updating # NO_SLOT /\ updating' = NO_SLOT
      /\ texture' = [slot |-> updating, image |-> images'[updating]]
      /\ UNCHANGED <<conf, attached, locked, held>>
  BY DEF updateAndReleaseLocked, cpu
<1>2. /\ updating \in Slots /\ Is("gl") /\ Given(updating, b)
      /\ images[updating] = b
      /\ texture.image # b /\ locked = {} /\ held = {}
  BY <1>1 DEF ConsumerInv, Kinds, AllGiven, UpdatingGiven, Is
<1>3. /\ QueueSide' /\ Copies' /\ CopySame(updating)
      /\ \E x \in consumerItems' : x.slot = updating /\ x.buffer = b
      /\ cached' \in
            [Slots -> [buffer: Buffers \cup {NULL}, frame: 0..MaxFrames]]
      /\ images' \in [Slots -> Buffers \cup {NULL}]
  <2>1. CASE texture.slot = NO_SLOT
    <3>1. UNCHANGED <<vars, cached, images>>
      BY <2>1 DEF updateAndReleaseLocked, queueVars
    <3>2. UNCHANGED <<mSlots, mQueue, call, consumerItems>>
      BY <3>1 DEF vars, threads, clients, consumer
    <3>3. TypeOK
      BY DEF ConsumerInv, QueueSide, QueueInv
    <3>4. EmptyKept /\ Leaves
      BY <3>2, SameLeft DEF EmptyKept, Leaves, BufferIn, StateOf, CopyCalled
    <3>5. QueueInv'
      BY <3>1, QueueInvStep DEF ConsumerInv, QueueSide, QueueStep
    <3>6. CallSide'
      BY <3>2, <3>3, <3>4, CallSideKept DEF ConsumerInv, QueueSide
    <3>7. SlotSide'
      BY <3>4, <3>5, SlotSideLeft DEF ConsumerInv, QueueSide, QueueInv
    <3>8. Copies'
      BY <1>1, <3>1, <3>3, <3>4, CopiesLeft DEF ConsumerInv, CopySame
    <3> QED
      BY <1>2, <3>1, <3>2, <3>5, <3>6, <3>7, <3>8
      DEF Given, QueueSide, CopySame, ConsumerInv, Kinds
  <2>2. CASE texture.slot # NO_SLOT
    <3>1. PICK status \in Statuses :
             /\ releaseBufferLocked(texture.slot, texture.image, status)
             /\ freeBufferLocked(FreedFor(texture.slot, status))
      BY <2>2 DEF updateAndReleaseLocked
    <3>2. texture.slot \in Slots /\ Given(texture.slot, texture.image)
      BY <2>2 DEF ConsumerInv, Kinds, AllGiven, TextureGiven
    <3>3. /\ QueueSide' /\ Copies'
          /\ ReleaseDone(texture.slot, texture.image, status)
          /\ cached' \in
                [Slots -> [buffer: Buffers \cup {NULL}, frame: 0..MaxFrames]]
          /\ images' \in [Slots -> Buffers \cup {NULL}]
          /\ \A x \in consumerItems :
                x.buffer # texture.image => x \in consumerItems'
          /\ \A s \in Slots :
                (s = texture.slot /\ status = "STALE_BUFFER_SLOT")
                \/ CopySame(s)
          /\ status = "STALE_BUFFER_SLOT" =>
                stillTracking(texture.slot, texture.image)
      BY <1>1, <3>1, <3>2, ReleaseStep DEF ConsumerInv
    <3>4. CopySame(updating)
      BY <1>2, <3>3 DEF stillTracking
    <3>5. \E x \in consumerItems' : x.slot = updating /\ x.buffer = b
      BY <1>2, <3>3 DEF Given
    <3> QED
      BY <3>3, <3>4, <3>5
  <2> QED
    BY <2>1, <2>2
<1>4. texture'.slot = updating /\ texture'.image = b
  BY <1>1, <1>2, <1>3 DEF CopySame
<1>5. Kinds'
  BY <1>1, <1>2, <1>3, KindsKept DEF ConsumerInv
<1>6. EntriesGiven' /\ UpdatingGiven'
  BY <1>1, <1>2 DEF EntriesGiven, UpdatingGiven
<1>7. TextureGiven'
  BY <1>3, <1>4 DEF TextureGiven, Given
<1>8. ShowsCopy'
  BY <1>1, <1>3, <1>4 DEF ShowsCopy, CopySame
<1> QED
  BY <1>3, <1>5, <1>6, <1>7, <1>8 DEF ConsumerInv, AllGiven

\* releaseTexImage lets go of what it shows.
LEMMA ReleaseTexImageStep ==
    ASSUME NobodyAttaches, ConsumerInv, releaseTexImage
    PROVE  ConsumerInv'
<1> DEFINE slot == texture.slot
           buffer == texture.image
<1>1. /\ "releaseTexImage" \in It.calls /\ Is("gl") /\ updating = NO_SLOT
      /\ texture.slot # NO_SLOT
      /\ UNCHANGED <<conf, attached, updating, locked, held>>
  BY DEF releaseTexImage, IsReady, MutexFree, cpu
<1>2. cached[slot].buffer = buffer
  BY <1>1 DEF ConsumerInv, AllGiven, ShowsCopy
<1>3. PICK status \in Statuses :
         /\ releaseBufferLocked(slot, buffer, status)
         /\ freeBufferLocked(FreedFor(slot, status))
         /\ texture' = IF status = "BAD_VALUE" THEN texture
                       ELSE [slot |-> NO_SLOT, image |-> NULL]
  BY <1>2 DEF releaseTexImage
<1>4. slot \in Slots /\ Given(slot, buffer) /\ locked = {} /\ held = {}
  BY <1>1 DEF ConsumerInv, Kinds, AllGiven, TextureGiven, Is
<1>5. /\ QueueSide' /\ Copies'
      /\ cached' \in
            [Slots -> [buffer: Buffers \cup {NULL}, frame: 0..MaxFrames]]
      /\ images' \in [Slots -> Buffers \cup {NULL}]
      /\ \A s \in Slots :
            (s = slot /\ status = "STALE_BUFFER_SLOT") \/ CopySame(s)
  BY <1>1, <1>3, <1>4, ReleaseStep DEF ConsumerInv
<1>6. CASE status = "BAD_VALUE"
  <2>1. UNCHANGED <<texture, consumerItems>>
    <3>1. stillTracking(slot, buffer)
      BY <1>3, <1>6 DEF releaseBufferLocked
    <3>2. UNCHANGED vars
      BY <1>3, <1>6, <3>1 DEF releaseBufferLocked, queueVars
    <3> QED
      BY <1>3, <1>6, <3>2 DEF vars, clients, consumer
  <2>2. /\ cached' = cached /\ images' = images
    BY <1>3, <1>6 DEF freeBufferLocked, FreedFor, ConsumerInv, Kinds
  <2>3. Kinds' /\ AllGiven'
    BY <1>1, <2>1, <2>2, FieldsSame DEF ConsumerInv, fields
  <2> QED
    BY <1>5, <2>3 DEF ConsumerInv
<1>7. CASE status # "BAD_VALUE"
  <2>1. texture' = [slot |-> NO_SLOT, image |-> NULL]
    BY <1>3, <1>7
  <2>2. Kinds'
    BY <1>1, <1>4, <1>5, <2>1, KindsKept DEF ConsumerInv, Kinds
  <2>3. AllGiven'
    BY <1>1, <1>4, <2>1
    DEF AllGiven, EntriesGiven, TextureGiven, UpdatingGiven, ShowsCopy
  <2> QED
    BY <1>5, <2>2, <2>3 DEF ConsumerInv
<1> QED
  BY <1>6, <1>7

\* A client of CpuConsumer or BufferItemConsumer gives a buffer back.
LEMMA GiveBackStep ==
    ASSUME NobodyAttaches, ConsumerInv, NEW entry \in locked \cup held,
           NEW status,
           releaseBufferLocked(entry.slot, entry.buffer, status),
           freeBufferLocked(FreedFor(entry.slot, status)),
           locked' \subseteq locked \ {entry}, held' \subseteq held \ {entry},
           UNCHANGED <<conf, texture, attached, updating>>
    PROVE  ConsumerInv'
<1>1. /\ entry.slot \in Slots /\ Given(entry.slot, entry.buffer)
      /\ updating = NO_SLOT /\ texture.slot = NO_SLOT /\ texture.image = NULL
  BY DEF ConsumerInv, Kinds, AllGiven, EntriesGiven, Is
<1>2. /\ QueueSide' /\ Copies'
      /\ cached' \in
            [Slots -> [buffer: Buffers \cup {NULL}, frame: 0..MaxFrames]]
      /\ images' \in [Slots -> Buffers \cup {NULL}]
      /\ \A s, b : Given(s, b) /\ ~(s = entry.slot /\ b = entry.buffer)
                     => Given(s, b)'
  BY <1>1, ReleaseStep DEF ConsumerInv
<1>3. Kinds'
  BY <1>2, KindsKept DEF ConsumerInv, Kinds
<1>4. EntriesGiven'
  <2> SUFFICES ASSUME NEW e \in locked' \cup held'
               PROVE  Given(e.slot, e.buffer)'
    BY DEF EntriesGiven
  <2>1. /\ e # entry /\ e \in locked \cup held
        /\ e \in [slot: Slots, buffer: Buffers]
        /\ entry \in [slot: Slots, buffer: Buffers]
    BY DEF ConsumerInv, Kinds
  <2>2. e.slot # entry.slot \/ e.buffer # entry.buffer
    BY <2>1
  <2>3. Given(e.slot, e.buffer)
    BY <2>1 DEF ConsumerInv, AllGiven, EntriesGiven
  <2> QED
    BY <1>2, <2>2, <2>3
<1>5. TextureGiven' /\ UpdatingGiven' /\ ShowsCopy'
  BY <1>1 DEF TextureGiven, UpdatingGiven, ShowsCopy
<1> QED
  BY <1>2, <1>3, <1>4, <1>5 DEF ConsumerInv, AllGiven

\* abandon drops all copies, and the queue all its buffers.
LEMMA AbandonStep ==
    ASSUME NobodyAttaches, ConsumerInv, abandon
    PROVE  ConsumerInv'
<1>0. TypeOK
  BY DEF ConsumerInv, QueueSide, QueueInv
<1>1. /\ updating = NO_SLOT /\ ConsumerDisconnect /\ freeBufferLocked(Slots)
      /\ texture' = [slot |-> NO_SLOT, image |-> NULL]
      /\ UNCHANGED <<conf, attached, updating, locked, held>>
  BY DEF abandon, MutexFree, cpu
<1>2. /\ mQueue' = <<>> /\ mSlots' = FreedAt(Slots)
      /\ UNCHANGED <<call, consumerItems>>
  BY <1>1 DEF ConsumerDisconnect, FreeAllBuffers, consumer
<1>3. /\ SlotsLeft
      /\ \A s \in Slots : /\ BufferIn(s)' = NULL /\ StateOf(s)' = "FREE"
                           /\ ~CopyCalled(s)'
  BY <1>0, <1>2, FreedLeft
<1>4. EmptyKept /\ Leaves
  BY <1>2, <1>3 DEF EmptyKept, Leaves
<1>5. QueueSide'
  <2>1. QueueStep
    BY <1>1 DEF QueueStep, Next, ConsumerCall
  <2>2. QueueInv'
    BY <2>1, QueueInvStep DEF ConsumerInv, QueueSide
  <2>3. CallSide'
    BY <1>0, <1>2, <1>4, CallSideKept DEF ConsumerInv, QueueSide
  <2>4. SlotSide'
    BY <1>4, <2>2, SlotSideLeft DEF ConsumerInv, QueueSide, QueueInv
  <2> QED
    BY <2>2, <2>3, <2>4 DEF QueueSide
<1>6. /\ cached' = [s \in Slots |-> NoCopy]
      /\ images' = [s \in Slots |-> NULL]
  BY <1>1 DEF freeBufferLocked
<1>7. Copies'
  <2>1. \A s \in Slots : CopyDropped(s)
    BY <1>2, <1>3, <1>6 DEF CopyDropped, NoCopy
  <2> QED
    BY <1>0, <1>1, <1>4, <2>1, CopiesLeft DEF ConsumerInv
<1>8. Kinds'
  <2>1. NoCopy \in [buffer: Buffers \cup {NULL}, frame: 0..MaxFrames]
    BY FramesAssumption DEF NoCopy
  <2>2. It' = It /\ \A k : Is(k)' <=> Is(k)
    BY <1>1 DEF It, Is
  <2> QED
    BY <1>1, <1>6, <2>1, <2>2 DEF ConsumerInv, Kinds
<1>9. AllGiven'
  <2>1. \A s, b : Given(s, b) => Given(s, b)'
    BY <1>2 DEF Given
  <2>2. EntriesGiven'
    BY <1>1, <2>1 DEF ConsumerInv, AllGiven, EntriesGiven
  <2>3. TextureGiven' /\ UpdatingGiven' /\ ShowsCopy'
    BY <1>1 DEF TextureGiven, UpdatingGiven, ShowsCopy
  <2> QED
    BY <2>2, <2>3 DEF AllGiven
<1> QED
  BY <1>5, <1>7, <1>8, <1>9 DEF ConsumerInv

\* What a client gets from lockNextBuffer or acquireBuffer is the front buffer.
LEMMA EntryOfFront ==
    ASSUME NobodyAttaches, ConsumerInv, acquireBufferLocked, ~Is("gl"),
           UNCHANGED <<conf, images>>
    PROVE  /\ AcquireBuffer(0)
           /\ cached' = [cached EXCEPT ![Front.mSlot] = CopyOf(Front)]
           /\ [slot |-> Front.mSlot, buffer |-> cached'[Front.mSlot].buffer]
                = Entry
<1>1. AcquireBuffer(0) /\ CopyTaken
  BY DEF acquireBufferLocked, CopyTaken
<1> QED
  BY <1>1, AcquireStep DEF acquireBufferLocked, Entry

\* Calls that change nothing the invariant is about.
LEMMA PlainStep ==
    ASSUME NobodyAttaches, ConsumerInv,
           \/ \E t \in Threads : onFrameAvailable(t)
           \/ construct \/ setMaxAcquired \/ EnterVRMode
           \/ \E u \in Callers : lockNextBuffer(u) \/ lockRefused(u)
           \/ UNCHANGED allVars
    PROVE  ConsumerInv'
<1> USE DEF threads, clients, consumer, fields, gl, cpu
<1>0. TypeOK
  BY DEF ConsumerInv, QueueSide, QueueInv
<1>1. ASSUME NEW t \in Threads, onFrameAvailable(t)
      PROVE  ConsumerInv'
  <2>1. CallBack(t) /\ UNCHANGED fields
    BY <1>1 DEF onFrameAvailable, consumerVars
  <2>2. /\ QueueStep
        /\ UNCHANGED <<mSlots, mQueue, consumerItems>>
        /\ \A u \in Threads : call'[u] = call[u] \/ call'[u] = Idle
    BY <1>0, <2>1
    DEF CallBack, Returns, TypeOK, QueueStep, Next, ProducerStep
  <2> QED
    BY <2>1, <2>2, StillStep
<1>2. CASE construct
  <2>1. PICK byApp \in AppControlled : ConsumerConnect(byApp)
    BY <1>2 DEF construct
  <2>2. QueueStep /\ UNCHANGED <<mSlots, mQueue, consumerItems, call>>
    BY <2>1 DEF ConsumerConnect, QueueStep, Next, ConsumerCall
  <2> QED
    BY <1>2, <2>2, StillStep DEF construct
<1>3. ASSUME UNCHANGED vars, UNCHANGED fields
      PROVE  ConsumerInv'
  <2>1. QueueStep /\ UNCHANGED <<mSlots, mQueue, consumerItems, call>>
    BY <1>3 DEF QueueStep, vars
  <2> QED
    BY <1>3, <2>1, StillStep
<1>4. CASE setMaxAcquired
  <2>1. CASE UNCHANGED vars
    BY <1>3, <1>4, <2>1 DEF setMaxAcquired
  <2>2. CASE SetMaxAcquiredBufferCount(MaxLocked)
    <3>1. MaxLocked \in 1..MAX_MAX_ACQUIRED_BUFFERS
      BY SlotsAssumption DEF MaxLocked, MAX_MAX_ACQUIRED_BUFFERS
    <3>2. QueueStep /\ UNCHANGED <<mSlots, mQueue, consumerItems, call>>
      BY <2>2, <3>1
      DEF SetMaxAcquiredBufferCount, QueueStep, Next, ConsumerCall
    <3> QED
      BY <1>4, <3>2, StillStep DEF setMaxAcquired
  <2> QED
    BY <1>4, <2>1, <2>2 DEF setMaxAcquired, queueVars
<1>5. CASE EnterVRMode
  <2>1. QueueStep /\ UNCHANGED <<mSlots, mQueue, consumerItems, call>>
    BY <1>5 DEF EnterVRMode, SetVRMode, QueueStep, Next
  <2> QED
    BY <1>5, <2>1, StillStep DEF EnterVRMode, consumerVars
<1>6. ASSUME NEW u \in Callers, lockNextBuffer(u) \/ lockRefused(u)
      PROVE  ConsumerInv'
  BY <1>3, <1>6 DEF lockNextBuffer, lockRefused, queueVars
<1>7. CASE UNCHANGED allVars
  BY <1>3, <1>7 DEF allVars, queueVars, consumerVars
<1> QED
  BY <1>1, <1>2, <1>4, <1>5, <1>6, <1>7

\* Every step of the producers and of the consumer keeps the invariant.
LEMMA ConsumersStep ==
    ASSUME NobodyAttaches, ReleasesWhatItShows, OneMode, ConsumerInv,
           [ConsumersNext]_allVars
    PROVE  ConsumerInv'
<1> USE DEF gl, cpu
<1>1. ASSUME NEW t \in Threads, Produce(t)
      PROVE  ConsumerInv'
  BY <1>1, ProduceStep
<1>2. ASSUME NEW t \in Threads, onBuffersReleased(t)
      PROVE  ConsumerInv'
  BY <1>2, OnBuffersReleasedStep
<1>3. CASE abandon
  BY <1>3, AbandonStep
<1>4. CASE updateTexImage
  BY <1>4, UpdateTexImageStep
<1>5. CASE updateFails
  BY <1>5, UpdateFailsStep
<1>6. CASE updateAndReleaseLocked
  BY <1>6, UpdateStep
<1>7. CASE releaseTexImage
  BY <1>7, ReleaseTexImageStep
<1>8. CASE switchContext
  <2>1. "releaseTexImage" \notin It.calls
    BY <1>8 DEF switchContext, ReleasesWhatItShows, It, ConsumerInv, Kinds
  <2>2. /\ UNCHANGED <<conf, cached, images, texture, updating, locked, held>>
        /\ UNCHANGED vars
    BY <1>8 DEF switchContext, queueVars
  <2>3. UNCHANGED <<mSlots, mQueue, call, consumerItems>>
    BY <2>2 DEF vars, threads, clients, consumer
  <2>4. EmptyKept /\ Leaves
    BY <2>3, SameLeft DEF EmptyKept, Leaves, BufferIn, StateOf, CopyCalled
  <2>5. QueueInv'
    BY <2>2, QueueInvStep DEF ConsumerInv, QueueSide, QueueStep
  <2>6. CallSide'
    BY <2>3, <2>4, CallSideKept DEF ConsumerInv, QueueSide, QueueInv
  <2>7. SlotSide'
    BY <2>4, <2>5, SlotSideLeft DEF ConsumerInv, QueueSide, QueueInv
  <2>8. Copies'
    BY <2>2, <2>4, CopiesLeft DEF ConsumerInv, CopySame, QueueSide, QueueInv
  <2>9. It' = It /\ \A k : Is(k)' <=> Is(k)
    BY <2>2 DEF It, Is
  <2>10. Kinds'
    BY <2>1, <2>2, <2>9 DEF ConsumerInv, Kinds
  <2>11. AllGiven'
    <3>1. \A s, b : Given(s, b)' <=> Given(s, b)
      BY <2>3 DEF Given
    <3> QED
      BY <2>1, <2>2, <2>3, <2>9, <3>1
      DEF ConsumerInv, AllGiven, EntriesGiven, TextureGiven, UpdatingGiven,
          ShowsCopy
  <2> QED
    BY <2>5, <2>6, <2>7, <2>8, <2>10, <2>11 DEF ConsumerInv, QueueSide
<1>9. ASSUME NEW u \in Callers, lockAcquired(u)
      PROVE  ConsumerInv'
  <2>1. /\ Is("cpu") /\ ~Is("gl") /\ acquireBufferLocked
        /\ UNCHANGED <<conf, images, texture, attached, updating, held>>
    BY <1>9 DEF lockAcquired, IsReady, Is
  <2>2. /\ AcquireBuffer(0)
        /\ cached' = [cached EXCEPT ![Front.mSlot] = CopyOf(Front)]
        /\ [slot |-> Front.mSlot, buffer |-> cached'[Front.mSlot].buffer]
             = Entry
    BY <2>1, EntryOfFront
  <2>3. locked' \subseteq locked \cup {Entry}
    BY <1>9, <2>2 DEF lockAcquired
  <2> QED
    BY <2>1, <2>2, <2>3, EntryStep
<1>10. ASSUME NEW entry \in locked, unlockBuffer(entry)
       PROVE  ConsumerInv'
  <2>1. /\ locked' = locked \ {entry}
        /\ UNCHANGED <<conf, texture, attached, updating, held>>
    BY <1>10 DEF unlockBuffer
  <2>2. held = {}
    BY DEF ConsumerInv, Kinds, Is
  <2> QED
    BY <1>10, <2>1, <2>2, GiveBackStep DEF unlockBuffer
<1>11. CASE acquireBuffer
  <2>1. /\ Is("item") /\ ~Is("gl") /\ acquireBufferLocked
        /\ UNCHANGED <<conf, images, texture, attached, updating, locked>>
    BY <1>11 DEF acquireBuffer, IsReady, Is
  <2>2. /\ AcquireBuffer(0)
        /\ cached' = [cached EXCEPT ![Front.mSlot] = CopyOf(Front)]
        /\ [slot |-> Front.mSlot, buffer |-> cached'[Front.mSlot].buffer]
             = Entry
    BY <2>1, EntryOfFront
  <2>3. held' \subseteq held \cup {Entry}
    BY <1>11, <2>2 DEF acquireBuffer
  <2> QED
    BY <2>1, <2>2, <2>3, EntryStep
<1>12. ASSUME NEW item \in held, releaseBuffer(item)
       PROVE  ConsumerInv'
  <2>1. /\ held' = held \ {item}
        /\ UNCHANGED <<conf, texture, attached, updating, locked>>
    BY <1>12 DEF releaseBuffer
  <2>2. locked = {}
    BY DEF ConsumerInv, Kinds, Is
  <2> QED
    BY <1>12, <2>1, <2>2, GiveBackStep DEF releaseBuffer
<1>13. CASE \/ \E t \in Threads : onFrameAvailable(t)
            \/ construct \/ setMaxAcquired \/ EnterVRMode
            \/ \E u \in Callers : lockNextBuffer(u) \/ lockRefused(u)
            \/ UNCHANGED allVars
  BY <1>13, PlainStep
<1> QED
  BY <1>1, <1>2, <1>3, <1>4, <1>5, <1>6, <1>7, <1>8, <1>9, <1>10, <1>11,
     <1>12, <1>13 DEF ConsumersNext

-----------------------------------------------------------------------------
(* Copies and readers *)

\* A behaviour starts with an empty queue and a consumer that has nothing.
LEMMA ConsumersInitInv == ConsumersInit => ConsumerInv
<1> SUFFICES ASSUME ConsumersInit PROVE ConsumerInv
  OBVIOUS
<1>0. Init
  BY DEF ConsumersInit
<1>1. QueueInv
  <2>1. TypeOK
    BY <1>0, InitTypeOK
  <2>2. Tickets
    BY <1>0 DEF Init, Tickets, Idle
  <2>3. Homes
    BY <1>0, BuffersAssumption
    DEF Init, Homes, BufferInOneSlot, FramesAtHome, BufferInOneFrame,
        AttachedOutside, Attaching, DetachedStaysOut, BufferIn, EmptySlot, Idle
  <2>4. QueueTailOrdered /\ UniformQueue
    BY <1>0 DEF Init, QueueTailOrdered, UniformQueue
  <2>5. Reads
    BY <1>0 DEF Init, Reads, ItemsApart, AcquiredFrames, NoSharedAccess,
       StateOf, EmptySlot
  <2> QED
    BY <2>1, <2>2, <2>3, <2>4, <2>5 DEF QueueInv
<1>2. CallSide
  BY <1>0 DEF Init, CallSide, NoAttach, OneInside, Creating, Attaching, Inside,
     Idle
<1>3. SlotSide
  BY <1>0 DEF Init, SlotSide, AcquiredCalled, ItemsMatch, InOrder, NewestFrame,
     CalledFrames, CalledFirst, StateOf, EmptySlot
<1>4. Kinds
  BY FramesAssumption DEF ConsumersInit, Kinds, NoCopy
<1>5. Copies
  BY <1>0 DEF Init, Copies, SlotsCopied, FramesCopied, CopyFrames, CopyCalled,
     EmptySlot
<1>6. AllGiven
  BY DEF ConsumersInit, AllGiven, EntriesGiven, TextureGiven, UpdatingGiven,
     ShowsCopy
<1> QED
  BY <1>1, <1>2, <1>3, <1>4, <1>5, <1>6 DEF ConsumerInv, QueueSide

\* The invariant of the queue with its consumer.
LEMMA ConsumerInvariant ==
    ASSUME NobodyAttaches, ReleasesWhatItShows, OneMode
    PROVE  ConsumersSpec => []ConsumerInv
<1>1. ConsumerInv /\ [ConsumersNext]_allVars => ConsumerInv'
  BY ConsumersStep
<1> QED
  BY <1>1, ConsumersInitInv, PTL DEF ConsumersSpec

\* The consumer's copy, and GLConsumer's image, of a buffer that the queue will
\* hand out without sending it along is that buffer: disconnect,
\* setBufferCount and reallocation free and refill slots before the consumer is
\* told, and onBuffersReleased and stale releases drop copies late.
THEOREM CopiesAreTheBuffers ==
    ASSUME NobodyAttaches, ReleasesWhatItShows, OneMode
    PROVE  ConsumersSpec => []CopyIsTheBuffer
<1>1. ConsumerInv => CopyIsTheBuffer
  BY DEF ConsumerInv, Copies, FramesCopied, CopyIs, CopyIsTheBuffer
<1> QED
  BY <1>1, ConsumerInvariant, PTL

\* The image that is bound, and the buffers that the application has locked or
\* holds, are in nobody else's hands: their slot is ACQUIRED, or the queue has
\* let go of them.
THEOREM ReadersUndisturbed ==
    ASSUME NobodyAttaches, ReleasesWhatItShows, OneMode
    PROVE  ConsumersSpec => []ReadingUndisturbed
<1>1. ASSUME ConsumerInv
      PROVE  ReadingUndisturbed
  <2> SUFFICES ASSUME NEW s \in Slots, BufferIn(s) \in Reading, BufferIn(s) # NULL
               PROVE  StateOf(s) = "ACQUIRED"
    BY DEF ReadingUndisturbed, BufferIn, StateOf
  <2>1. \E x \in consumerItems : x.buffer = BufferIn(s)
    <3>1. CASE BufferIn(s) = texture.image
      BY <1>1, <3>1 DEF ConsumerInv, AllGiven, TextureGiven
    <3>2. ASSUME NEW e \in locked \cup held, BufferIn(s) = e.buffer
          PROVE  \E x \in consumerItems : x.buffer = BufferIn(s)
      BY <1>1, <3>2 DEF ConsumerInv, AllGiven, EntriesGiven, Given
    <3> QED
      BY <3>1, <3>2 DEF Reading
  <2> QED
    BY <1>1, <2>1
    DEF ConsumerInv, QueueSide, QueueInv, Reads, NoSharedAccess, BufferIn,
        StateOf
<1> QED
  BY <1>1, ConsumerInvariant, PTL

-----------------------------------------------------------------------------
(* Acquired slots are released *)

\* CpuConsumer and BufferItemConsumer can map what they acquire and wait for
\* it: when they fail they return and leave the buffer acquired.
ClientsSucceed ==
    \A c \in DOMAIN Configurations :
        Configurations[c].kind # "gl" => ~Configurations[c].fails

\* Slot s is acquired, and will be in the hands of an owner with its copy.
OwnedAfter(s) ==
    /\ HasOwner(s)'
    /\ cached'[s] = [buffer |-> BufferIn(s)', frame |-> FrameIn(s)']

\* Slot s stays acquired and keeps its copy and its owner.
OwnerStays(s) ==
    SlotSame(s) /\ cached'[s] = cached[s] /\ (HasOwner(s) => HasOwner(s)')

\* It suffices to look at the slots that are ACQUIRED after the step.
LEMMA OwnedStep ==
    ASSUME AcquiredWillBeReleased,
           \A s \in Slots : StateOf(s)' = "ACQUIRED" =>
                               OwnerStays(s) \/ OwnedAfter(s)
    PROVE  AcquiredWillBeReleased'
<1> SUFFICES ASSUME NEW s \in Slots, StateOf(s)' = "ACQUIRED"
             PROVE  OwnedAfter(s)
  BY DEF AcquiredWillBeReleased, InState, StateOf, OwnedAfter, BufferIn, FrameIn
<1>1. CASE OwnerStays(s)
  <2>1. StateOf(s) = "ACQUIRED"
    BY <1>1 DEF OwnerStays, SlotSame
  <2>2. /\ HasOwner(s)
        /\ cached[s] = [buffer |-> BufferIn(s), frame |-> FrameIn(s)]
    BY <2>1
    DEF AcquiredWillBeReleased, InState, StateOf, BufferIn, FrameIn
  <2> QED
    BY <1>1, <2>2 DEF OwnerStays, OwnedAfter, SlotSame
<1> QED
  BY <1>1

\* An acquired slot that is released under the name of its owner is free then.
LEMMA OwnedIsReleased ==
    ASSUME ConsumerInv, AcquiredWillBeReleased,
           NEW slot \in Slots, NEW buffer, NEW status,
           StateOf(slot) = "ACQUIRED", buffer = BufferIn(slot),
           Given(slot, buffer), ReleaseDone(slot, buffer, status)
    PROVE  StateOf(slot)' = "FREE"
<1>1. cached[slot] = [buffer |-> BufferIn(slot), frame |-> FrameIn(slot)]
  BY DEF AcquiredWillBeReleased, InState, StateOf, BufferIn, FrameIn
<1>2. buffer # NULL
  BY ItemTypes DEF Given, ConsumerInv, QueueSide, QueueInv
<1>3. stillTracking(slot, buffer)
  BY <1>1, <1>2 DEF stillTracking
<1>4. ~IsStale(Copied(slot))
  BY <1>1 DEF IsStale, Copied, FrameIn
<1>5. ~PendingInQueue(slot)
  BY DEF PendingInQueue, ConsumerInv, QueueSide, SlotSide, NewestFrame
<1> QED
  BY <1>3, <1>4, <1>5 DEF ReleaseDone, SlotReleased

\* acquireBuffer gives the slot it acquires an owner.
LEMMA OwnedTaken ==
    ASSUME NobodyAttaches, ConsumerInv, AcquiredWillBeReleased,
           AcquireBuffer(0), CopyTaken, updating = NO_SLOT,
           texture' = texture, locked \subseteq locked', held \subseteq held',
           updating' = Front.mSlot \/ Entry \in locked' \cup held'
    PROVE  AcquiredWillBeReleased'
<1>1. /\ FrontTaken
      /\ cached'[Front.mSlot] = [buffer |-> Front.mGraphicBuffer,
                                 frame |-> Front.mFrameNumber]
      /\ \A r \in Slots \ {Front.mSlot} : CopySame(r)
      /\ Front.mSlot \in Slots /\ Front.mGraphicBuffer \in Buffers
  BY AcquireStep
<1>2. \A r \in Slots : BufferIn(r)' = BufferIn(r) /\ FrameIn(r)' = FrameIn(r)
  BY <1>1 DEF FrontTaken, BufferIn, FrameIn
<1>3. ASSUME NEW s \in Slots, HasOwner(s)
      PROVE  HasOwner(s)'
  BY <1>2, <1>3, ConsumersAssumption DEF HasOwner, BufferIn
<1> SUFFICES ASSUME NEW s \in Slots, StateOf(s)' = "ACQUIRED"
             PROVE  OwnerStays(s) \/ OwnedAfter(s)
  BY OwnedStep
<1>4. CASE TakenAt(1, s)
  <2>1. s = Front.mSlot /\ BufferIn(s) = Front.mGraphicBuffer
    BY <1>4 DEF TakenAt, StillTracking, Front, BufferIn
  <2>2. FrameIn(s) = Front.mFrameNumber
    BY <1>1, <2>1
    DEF ConsumerInv, QueueSide, QueueInv, Homes, FramesAtHome, FrontTaken,
        Front, Frame
  <2>3. HasOwner(s)'
    <3>1. CASE updating' = Front.mSlot
      BY <2>1, <3>1 DEF HasOwner
    <3>2. CASE Entry \in locked' \cup held'
      <4>1. Entry.slot = s /\ Entry.buffer = mSlots'[s].mGraphicBuffer
        BY <1>2, <2>1 DEF Entry, BufferIn
      <4> QED
        BY <3>2, <4>1 DEF HasOwner
    <3> QED
      BY <3>1, <3>2
  <2> QED
    BY <1>1, <1>2, <2>1, <2>2, <2>3 DEF OwnedAfter
<1>5. CASE ~TakenAt(1, s)
  <2>1. SlotSame(s)
    BY <1>1, <1>5 DEF FrontTaken, SlotSame, BufferIn, StateOf, FrameIn,
       CopyCalled
  <2>2. s # Front.mSlot
    BY <1>1, <2>1
    DEF ConsumerInv, QueueSide, SlotSide, NewestFrame, SlotSame, FrontTaken,
        Front
  <2> QED
    BY <1>1, <1>3, <2>1, <2>2 DEF OwnerStays, CopySame
<1> QED
  BY <1>4, <1>5

\* A step of the queue that leaves the consumer alone.
LEMMA OwnedLeft ==
    ASSUME AcquiredWillBeReleased, UNCHANGED fields,
           \A s \in Slots : StateOf(s)' = "ACQUIRED" => SlotSame(s)
    PROVE  AcquiredWillBeReleased'
<1>1. ASSUME NEW s \in Slots, StateOf(s)' = "ACQUIRED"
      PROVE  OwnerStays(s)
  BY <1>1 DEF OwnerStays, SlotSame, HasOwner, BufferIn, fields
<1> QED
  BY <1>1, OwnedStep

\* A release by the owner, who then has done with the slot.
LEMMA OwnedReleased ==
    ASSUME NobodyAttaches, ConsumerInv, AcquiredWillBeReleased,
           NEW slot \in Slots, NEW buffer, NEW status, Given(slot, buffer),
           releaseBufferLocked(slot, buffer, status),
           freeBufferLocked(FreedFor(slot, status)), UNCHANGED conf,
           \A s \in Slots :
              /\ HasOwner(s) /\ StateOf(s) = "ACQUIRED" /\ SlotSame(s)
              /\ status = "STALE_BUFFER_SLOT" => s # slot
              /\ s = slot => buffer # BufferIn(s)
              /\ CopySame(s)
              => HasOwner(s)'
    PROVE  AcquiredWillBeReleased'
<1>1. /\ ReleaseDone(slot, buffer, status)
      /\ \A s \in Slots :
            (s = slot /\ status = "STALE_BUFFER_SLOT") \/ CopySame(s)
      /\ status = "STALE_BUFFER_SLOT" => ~CopyCalled(slot)
  BY ReleaseStep DEF ConsumerInv
<1> SUFFICES ASSUME NEW s \in Slots, StateOf(s)' = "ACQUIRED"
             PROVE  OwnerStays(s)
  BY OwnedStep
<1>2. SlotSame(s) /\ StateOf(s) = "ACQUIRED"
  BY <1>1 DEF ReleaseDone, SlotReleased, SlotSame
<1>3. status = "STALE_BUFFER_SLOT" => s # slot
  BY <1>1, <1>2 DEF ConsumerInv, QueueSide, SlotSide, AcquiredCalled
<1>4. s = slot => buffer # BufferIn(s)
  BY <1>1, <1>2, OwnedIsReleased
<1>5. CopySame(s)
  BY <1>1, <1>3
<1> QED
  BY <1>2, <1>3, <1>4, <1>5 DEF OwnerStays, CopySame

\* No step leaves an acquired slot without an owner.
LEMMA AcquiredStep ==
    ASSUME NobodyAttaches, ReleasesWhatItShows, OneMode, ClientsSucceed,
           ConsumerInv, AcquiredWillBeReleased, [ConsumersNext]_allVars
    PROVE  AcquiredWillBeReleased'
<1> USE DEF gl, cpu
<1>0. TypeOK /\ Homes /\ conf \in DOMAIN Configurations
  BY DEF ConsumerInv, QueueSide, QueueInv, Kinds
<1>copied. ASSUME NEW s \in Slots, StateOf(s) = "ACQUIRED"
       PROVE  cached[s].buffer = BufferIn(s)
  <2>1. cached[s] = [buffer |-> BufferIn(s), frame |-> FrameIn(s)]
    BY <1>copied
    DEF AcquiredWillBeReleased, InState, StateOf, BufferIn, FrameIn
  <2> QED
    BY <2>1
<1>1. ASSUME UNCHANGED mSlots, UNCHANGED fields
      PROVE  AcquiredWillBeReleased'
  BY <1>1, OwnedLeft DEF SlotSame, BufferIn, StateOf, FrameIn, CopyCalled
<1>2. ASSUME NEW t \in Threads, Produce(t)
      PROVE  AcquiredWillBeReleased'
  <2>1. UNCHANGED fields
    BY <1>2 DEF Produce, consumerVars, fields
  <2>2. ASSUME SlotsLeft
        PROVE  \A s \in Slots : StateOf(s)' = "ACQUIRED" => SlotSame(s)
    BY <2>2 DEF SlotsLeft, SlotLeft, SlotSame, BufferIn, StateOf, FrameIn,
       CopyCalled
  <2>3. ASSUME NEW s \in Slots, NEW async \in AsyncModes, NEW stamp \in Stamps,
               QueueBuffer(t, s, async, stamp)
        PROVE  \A r \in Slots : StateOf(r)' = "ACQUIRED" => SlotSame(r)
    <3>1. Enqueued(s)
      BY <1>0, <2>3, QueueBufferLeft
    <3> QED
      BY <3>1 DEF Enqueued, SlotLeft, SlotSame, BufferIn, StateOf, FrameIn,
         CopyCalled
  <2>4. CASE ProducerCall(t)
    BY <1>0, <2>1, <2>2, <2>3, <2>4, ProducerCallLeft, OwnedLeft DEF Produced
  <2>5. CASE ProducerStep(t)
    BY <1>0, <2>1, <2>2, <2>5, ProducerStepLeft, OwnedLeft
    DEF Produced, ConsumerInv, QueueSide
  <2> QED
    BY <1>2, <2>4, <2>5 DEF Produce
<1>3. ASSUME NEW t \in Threads, onBuffersReleased(t)
      PROVE  AcquiredWillBeReleased'
  <2> DEFINE released == IF phase = "abandoned" THEN {} ELSE getReleasedBuffers
  <2>1. /\ UNCHANGED <<mSlots, updating, locked, held>>
        /\ freeBufferLocked(released)
        /\ texture' = TextureWithout(released)
    BY <1>3 DEF onBuffersReleased, CallBackReleased
  <2>2. \A s \in released : ~CopyCalled(s)
    BY DEF getReleasedBuffers, CopyCalled
  <2> HIDE DEF released
  <2> SUFFICES ASSUME NEW s \in Slots, StateOf(s)' = "ACQUIRED"
               PROVE  OwnerStays(s)
    BY OwnedStep
  <2>3. SlotSame(s)
    BY <2>1 DEF SlotSame, BufferIn, StateOf, FrameIn, CopyCalled
  <2>4. s \notin released
    BY <2>2, <2>3
    DEF SlotSame, ConsumerInv, QueueSide, SlotSide, AcquiredCalled
  <2>5. cached'[s] = cached[s]
    BY <2>1, <2>4 DEF freeBufferLocked
  <2>6. texture.slot = s => texture'.slot = s /\ texture'.image = texture.image
    BY <2>1, <2>4, TextureWithoutType DEF ConsumerInv
  <2> QED
    BY <2>1, <2>3, <2>5, <2>6 DEF OwnerStays, HasOwner
<1>4. CASE abandon
  <2>1. mSlots' = FreedAt(Slots)
    BY <1>4 DEF abandon, ConsumerDisconnect, FreeAllBuffers
  <2>2. \A s \in Slots : StateOf(s)' = "FREE"
    BY <1>0, <2>1, FreedLeft
  <2> QED
    BY <2>2, OwnedStep
<1>5. CASE updateTexImage
  <2>1. /\ AcquireBuffer(0) /\ CopyTaken /\ updating = NO_SLOT
        /\ updating' = Front.mSlot /\ UNCHANGED <<texture, locked, held>>
    BY <1>5 DEF updateTexImage, acquireBufferLocked, IsReady, MutexFree,
       CopyTaken
  <2> QED
    BY <2>1, OwnedTaken
<1>6. CASE updateFails
  <2> DEFINE b == cached[updating].buffer
  <2>1. PICK status \in Statuses :
           /\ releaseBufferLocked(updating, b, status)
           /\ freeBufferLocked(FreedFor(updating, status))
           /\ texture' = TextureWithout(FreedFor(updating, status))
    BY <1>6 DEF updateFails
  <2>2. updating # NO_SLOT /\ UNCHANGED <<conf, locked, held>>
    BY <1>6 DEF updateFails
  <2>3. updating \in Slots /\ Given(updating, b)
    BY <2>2 DEF ConsumerInv, Kinds, AllGiven, UpdatingGiven
  <2>4. ASSUME NEW s \in Slots, HasOwner(s), StateOf(s) = "ACQUIRED",
               SlotSame(s), status = "STALE_BUFFER_SLOT" => s # updating,
               s = updating => b # BufferIn(s)
        PROVE  HasOwner(s)'
    <3>1. s # updating
      BY <1>copied, <2>4
    <3>2. texture.slot = s => texture'.slot = s /\ texture'.image = texture.image
      BY <2>1, <3>1, TextureWithoutType DEF ConsumerInv, FreedFor
    <3> QED
      BY <2>2, <2>4, <3>1, <3>2 DEF HasOwner, SlotSame, BufferIn
  <2> HIDE DEF b
  <2> QED
    BY <2>1, <2>2, <2>3, <2>4, OwnedReleased
<1>7. CASE updateAndReleaseLocked
  <2>1. /\ updating # NO_SLOT /\ UNCHANGED <<conf, locked, held>>
        /\ texture' = [slot |-> updating, image |-> images'[updating]]
    BY <1>7 DEF updateAndReleaseLocked
  <2>2. ASSUME NEW s \in Slots, StateOf(s) = "ACQUIRED", SlotSame(s),
               CopySame(s), updating = s
        PROVE  HasOwner(s)'
    <3>1. images[s] = cached[s].buffer
      BY <2>1, <2>2 DEF ConsumerInv, AllGiven, UpdatingGiven
    <3>2. cached[s].buffer = BufferIn(s)
      BY <1>copied, <2>2
    <3> QED
      BY <2>1, <2>2, <3>1, <3>2 DEF HasOwner, SlotSame, CopySame, BufferIn
  <2>3. ASSUME NEW s \in Slots, HasOwner(s), SlotSame(s), updating # s,
               ~(texture.slot = s /\ texture.image = BufferIn(s))
        PROVE  HasOwner(s)'
    BY <2>1, <2>3 DEF HasOwner, SlotSame, BufferIn
  <2>4. CASE texture.slot = NO_SLOT
    <3>1. UNCHANGED <<mSlots, cached, images>>
      BY <1>7, <2>4 DEF updateAndReleaseLocked, queueVars, vars
    <3>2. \A s \in Slots : SlotSame(s) /\ CopySame(s) /\ texture.slot # s
      BY <2>4, <3>1, ConsumersAssumption
      DEF SlotSame, CopySame, BufferIn, StateOf, FrameIn, CopyCalled
    <3>3. ASSUME NEW s \in Slots, StateOf(s)' = "ACQUIRED"
          PROVE  OwnerStays(s)
      BY <2>2, <2>3, <3>2, <3>3 DEF OwnerStays, SlotSame, CopySame
    <3> QED
      BY <3>3, OwnedStep
  <2>5. CASE texture.slot # NO_SLOT
    <3>1. PICK status \in Statuses :
             /\ releaseBufferLocked(texture.slot, texture.image, status)
             /\ freeBufferLocked(FreedFor(texture.slot, status))
      BY <1>7, <2>5 DEF updateAndReleaseLocked
    <3>2. texture.slot \in Slots /\ Given(texture.slot, texture.image)
      BY <2>5 DEF ConsumerInv, Kinds, AllGiven, TextureGiven
    <3>3. ASSUME NEW s \in Slots, HasOwner(s), StateOf(s) = "ACQUIRED",
                 SlotSame(s), s = texture.slot => texture.image # BufferIn(s),
                 CopySame(s)
          PROVE  HasOwner(s)'
      BY <2>2, <2>3, <3>3
    <3> QED
      BY <2>1, <3>1, <3>2, <3>3, OwnedReleased
  <2> QED
    BY <2>4, <2>5
<1>8. CASE releaseTexImage
  <2>1. /\ texture.slot # NO_SLOT /\ updating = NO_SLOT
        /\ "releaseTexImage" \in It.calls
        /\ UNCHANGED <<conf, updating, locked, held>>
    BY <1>8 DEF releaseTexImage, IsReady, MutexFree
  <2>2. cached[texture.slot].buffer = texture.image
    BY <2>1 DEF ConsumerInv, AllGiven, ShowsCopy
  <2>3. PICK status \in Statuses :
           /\ releaseBufferLocked(texture.slot, texture.image, status)
           /\ freeBufferLocked(FreedFor(texture.slot, status))
    BY <1>8, <2>2 DEF releaseTexImage
  <2>4. texture.slot \in Slots /\ Given(texture.slot, texture.image)
    BY <2>1 DEF ConsumerInv, Kinds, AllGiven, TextureGiven
  <2>5. ASSUME NEW s \in Slots, HasOwner(s), SlotSame(s),
               s = texture.slot => texture.image # BufferIn(s)
        PROVE  HasOwner(s)'
    BY <2>1, <2>5, ConsumersAssumption DEF HasOwner, SlotSame, BufferIn
  <2> QED
    BY <2>1, <2>3, <2>4, <2>5, OwnedReleased
<1>9. CASE switchContext
  <2>1. UNCHANGED <<mSlots, cached, texture, updating, locked, held>>
    BY <1>9 DEF switchContext, queueVars, vars
  <2>2. \A s \in Slots : OwnerStays(s)
    BY <2>1 DEF OwnerStays, SlotSame, HasOwner, BufferIn, StateOf, FrameIn,
       CopyCalled
  <2> QED
    BY <2>2, OwnedStep
<1>10. ASSUME NEW u \in Callers, lockAcquired(u)
       PROVE  AcquiredWillBeReleased'
  <2>1. /\ Is("cpu") /\ ~Is("gl") /\ acquireBufferLocked /\ updating = NO_SLOT
        /\ UNCHANGED <<conf, images, texture, held>>
    BY <1>10 DEF lockAcquired, IsReady, MutexFree, Is
  <2>2. ~It.fails
    BY <1>0, <2>1 DEF ClientsSucceed, It, Is
  <2>3. AcquireBuffer(0) /\ CopyTaken /\ locked' = locked \cup {Entry}
    BY <1>10, <2>1, <2>2, EntryOfFront DEF lockAcquired, CopyTaken
  <2> QED
    BY <2>1, <2>3, OwnedTaken
<1>11. CASE acquireBuffer
  <2>1. /\ Is("item") /\ ~Is("gl") /\ acquireBufferLocked /\ updating = NO_SLOT
        /\ UNCHANGED <<conf, images, texture, locked>>
    BY <1>11 DEF acquireBuffer, IsReady, MutexFree, Is
  <2>2. ~It.fails
    BY <1>0, <2>1 DEF ClientsSucceed, It, Is
  <2>3. AcquireBuffer(0) /\ CopyTaken /\ held' = held \cup {Entry}
    BY <1>11, <2>1, <2>2, EntryOfFront DEF acquireBuffer, CopyTaken
  <2> QED
    BY <2>1, <2>3, OwnedTaken
<1>12. ASSUME NEW entry \in locked \cup held, NEW status,
              releaseBufferLocked(entry.slot, entry.buffer, status),
              freeBufferLocked(FreedFor(entry.slot, status)),
              locked \ {entry} \subseteq locked', held \ {entry} \subseteq held',
              UNCHANGED <<conf, texture, updating>>
       PROVE  AcquiredWillBeReleased'
  <2>1. entry.slot \in Slots /\ Given(entry.slot, entry.buffer)
    BY DEF ConsumerInv, Kinds, AllGiven, EntriesGiven
  <2>2. ASSUME NEW s \in Slots, HasOwner(s), SlotSame(s),
               s = entry.slot => entry.buffer # BufferIn(s)
        PROVE  HasOwner(s)'
    BY <1>12, <2>2 DEF HasOwner, SlotSame, BufferIn
  <2> QED
    BY <1>12, <2>1, <2>2, OwnedReleased
<1>13. ASSUME NEW entry \in locked, unlockBuffer(entry)
       PROVE  AcquiredWillBeReleased'
  BY <1>12, <1>13 DEF unlockBuffer
<1>14. ASSUME NEW item \in held, releaseBuffer(item)
       PROVE  AcquiredWillBeReleased'
  BY <1>12, <1>14 DEF releaseBuffer
<1>15. CASE \/ \E t \in Threads : onFrameAvailable(t)
            \/ construct \/ setMaxAcquired \/ EnterVRMode
            \/ \E u \in Callers : lockNextBuffer(u) \/ lockRefused(u)
            \/ UNCHANGED allVars
  BY <1>1, <1>15
  DEF fields, allVars, queueVars, consumerVars, vars, onFrameAvailable,
      construct, setMaxAcquired, EnterVRMode, lockNextBuffer, lockRefused,
      CallBack, ConsumerConnect, SetMaxAcquiredBufferCount, SetVRMode
<1> QED
  BY <1>2, <1>3, <1>4, <1>5, <1>6, <1>7, <1>8, <1>9, <1>10, <1>11, <1>13,
     <1>14, <1>15 DEF ConsumersNext

\* Every acquired slot has an owner in the consumer, with the buffer and frame
\* number that releaseBuffer will accept: no slot is lost.
THEOREM AcquiredSlotsOwned ==
    ASSUME NobodyAttaches, ReleasesWhatItShows, OneMode, ClientsSucceed
    PROVE  ConsumersSpec => []AcquiredWillBeReleased
<1>1. ConsumersInit => AcquiredWillBeReleased
  BY DEF ConsumersInit, Init, AcquiredWillBeReleased, InState, EmptySlot
<1>2. /\ ConsumerInv /\ AcquiredWillBeReleased /\ [ConsumersNext]_allVars
      => AcquiredWillBeReleased'
  BY AcquiredStep
<1> QED
  BY <1>1, <1>2, ConsumerInvariant, PTL DEF ConsumersSpec
=============================================================================
