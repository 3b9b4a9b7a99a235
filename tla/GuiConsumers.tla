---------------------------- MODULE GuiConsumers ----------------------------
(***************************************************************************)
(* The consumers of libgui on top of a BufferQueue: ConsumerBase, which    *)
(* keeps a copy of the buffer of every slot, and its three subclasses      *)
(* GLConsumer, CpuConsumer and BufferItemConsumer.                         *)
(*                                                                         *)
(* Producer calls are the actions of BufferQueue.  A call of the consumer  *)
(* holds ConsumerBase::mMutex from beginning to end and enters the queue   *)
(* once or twice; one action is one visit of the queue with what the       *)
(* consumer does around it.  The producer's thread brings the callbacks:   *)
(* it has left the queue's lock by then and has to wait for mMutex.        *)
(***************************************************************************)
EXTENDS BufferQueue

CONSTANTS
    Configurations,   \* the instances a behaviour may start with
    NO_SLOT           \* BufferQueue::INVALID_BUFFER_SLOT

\* These consumers acquire without a present time, which acquireBuffer takes
\* as 0.
ASSUME ConsumersAssumption == NO_SLOT \notin Slots /\ 0 \in PresentTimes

VARIABLES
    conf,       \* the instance of this behaviour
    phase,      \* of the consumer: absent, constructing, alive, abandoned
    cached,     \* ConsumerBase::mSlots: the buffer and frame of every slot
    images,     \* GLConsumer::mEglSlots: the buffer of the slot's EglImage
    texture,    \* mCurrentTexture, and the buffer of mCurrentTextureImage
    attached,   \* GLConsumer::mAttached
    updating,   \* the slot updateTexImage has acquired, while under way
    lockers,    \* threads past the first check of lockNextBuffer
    locked,     \* CpuConsumer::mAcquiredBuffers: slots and buffers in use
    held        \* items a client of BufferItemConsumer was given

gl == <<images, texture, attached, updating>>
cpu == <<lockers, locked>>
queueVars == vars
consumerVars == <<conf, phase, cached, gl, cpu, held>>
allVars == <<queueVars, consumerVars>>

It == Configurations[conf]
Is(kind) == It.kind = kind

\* How many buffers the application may lock: maxLockedBuffers.
MaxLocked == 1

NoCopy == [buffer |-> NULL, frame |-> 0]

ConsumersInit ==
    /\ Init
    /\ conf \in DOMAIN Configurations
    /\ phase = "absent"
    /\ cached = [s \in Slots |-> NoCopy]
    /\ images = [s \in Slots |-> NULL]
    /\ texture = [slot |-> NO_SLOT, image |-> NULL]
    /\ attached = TRUE
    /\ updating = NO_SLOT
    /\ lockers = {} /\ locked = {}
    /\ held = {}
-----------------------------------------------------------------------------
(* ConsumerBase *)

\* Nobody holds mMutex.
MutexFree == updating = NO_SLOT

\* freeBufferLocked of the class, for every slot of S
freeBufferLocked(S) ==
    /\ cached' = [s \in Slots |-> IF s \in S THEN NoCopy ELSE cached[s]]
    /\ images' = [s \in Slots |-> IF s \in S THEN NULL ELSE images[s]]

\* GLConsumer::freeBufferLocked forgets the current slot, not its image.
TextureWithout(S) ==
    [texture EXCEPT !.slot = IF @ \in S THEN NO_SLOT ELSE @]

construct ==
    /\ phase = "absent"
    /\ \E byApp \in AppControlled : ConsumerConnect(byApp)
    /\ phase' = "constructing"
    /\ UNCHANGED <<conf, cached, gl, cpu, held>>

\* CpuConsumer and BufferItemConsumer (unless it takes the default) set their
\* number of buffers once they are connected; a producer may have connected as
\* well: the queue refuses, CpuConsumer ignores it, BufferItemConsumer aborts.
setMaxAcquired ==
    /\ phase = "constructing"
    /\ \/ ~Is("gl") /\ SetMaxAcquiredBufferCount(MaxLocked)
       \/ /\ Is("cpu") => mCore.mConnectedApi # NO_CONNECTED_API
          /\ UNCHANGED queueVars
    /\ phase' = "alive"
    /\ UNCHANGED <<conf, cached, gl, cpu, held>>

\* Mutant: the copies of buffers that are queued are not kept.
ReleasedSlotsAll == {s \in Slots : ~mSlots[s].mAcquireCalled}

\* getReleasedBuffers: all slots whose buffer acquireBuffer will send along.
getReleasedBuffers ==
    {s \in Slots :
       /\ ~mSlots[s].mAcquireCalled
       /\ \A i \in 1..Len(mQueue) :
             mQueue[i].mSlot = s => ~mQueue[i].mAcquireCalled}

\* onBuffersReleased, called by a producer thread after its critical section
onBuffersReleased(t) ==
    LET released == IF phase = "abandoned" THEN {} ELSE getReleasedBuffers
    IN
    /\ MutexFree
    /\ CallBackReleased(t)
    /\ freeBufferLocked(released)
    /\ texture' = TextureWithout(released)
    /\ UNCHANGED <<conf, phase, attached, updating, cpu, held>>

\* onFrameAvailable takes mMutex to look up the listener.
onFrameAvailable(t) == MutexFree /\ CallBack(t) /\ UNCHANGED consumerVars

\* abandon: abandonLocked of the class, with consumerDisconnect
abandon ==
    /\ phase = "alive"
    /\ MutexFree
    /\ ConsumerDisconnect
    /\ phase' = "abandoned"
    /\ freeBufferLocked(Slots)
    /\ texture' = [slot |-> NO_SLOT, image |-> NULL]
    /\ UNCHANGED <<conf, attached, updating, cpu, held>>

\* The item the queue hands out next; all consumers here pass no present time.
Front == mQueue[1]

\* ConsumerBase::acquireBufferLocked: a buffer that is sent along replaces the
\* copy, otherwise the copy must be the buffer.
CopyOf(item) ==
    [buffer |-> IF item.mAcquireCalled THEN cached[item.mSlot].buffer
                ELSE item.mGraphicBuffer,
     frame |-> item.mFrameNumber]

acquireBufferLocked ==
    /\ AcquireBuffer(0)
    /\ cached' = [cached EXCEPT ![Front.mSlot] = CopyOf(Front)]

\* Mutant: any buffer of the slot will do.
TracksSlot(slot, buffer) == cached[slot].buffer # NULL

stillTracking(slot, buffer) ==
    cached[slot].buffer # NULL /\ cached[slot].buffer = buffer

\* What ConsumerBase::releaseBufferLocked passes to the queue
Copied(slot) ==
    [slot |-> slot, frame |-> cached[slot].frame,
     buffer |-> cached[slot].buffer]

\* ConsumerBase::releaseBufferLocked as the queue sees it, by what it answers;
\* a client that gets OK or STALE_BUFFER_SLOT has done with the buffer.
releaseBufferLocked(slot, buffer, status) ==
    \/ /\ ~stillTracking(slot, buffer)
       /\ status = "OK"
       /\ consumerItems' = {i \in consumerItems :
                              ~(i.slot = slot /\ i.buffer = buffer)}
       /\ UNCHANGED <<mSlots, mQueue, mCore, vrMode, threads, callbacks,
                      producerSlots, lastAcquired, owedFence, clientBuffers>>
    \/ /\ stillTracking(slot, buffer)
       /\ \/ status = "OK" /\ ReleaseBuffer(Copied(slot))
          \/ status = "STALE_BUFFER_SLOT" /\ ReleaseStaleBuffer(Copied(slot))
          \/ /\ status = "BAD_VALUE"
             /\ ~IsStale(Copied(slot))
             /\ \/ PendingInQueue(slot)
                \/ /\ mSlots[slot].mBufferState # "ACQUIRED"
                   /\ ~mSlots[slot].mNeedsCleanupOnRelease
             /\ UNCHANGED queueVars

Statuses == {"OK", "STALE_BUFFER_SLOT", "BAD_VALUE"}

\* The slots releaseBufferLocked frees for that answer
FreedFor(slot, status) == IF status = "STALE_BUFFER_SLOT" THEN {slot} ELSE {}
-----------------------------------------------------------------------------
(* GLConsumer *)

IsReady(kind) == Is(kind) /\ phase = "alive" /\ MutexFree

\* updateTexImage up to the answer of the queue; a thread without the right
\* EGL context gives up before, and with no buffer it only binds the texture.
updateTexImage ==
    /\ IsReady("gl")
    /\ acquireBufferLocked
    /\ images' = IF Front.mAcquireCalled THEN images
                 ELSE [images EXCEPT ![Front.mSlot] = Front.mGraphicBuffer]
    /\ updating' = Front.mSlot
    /\ UNCHANGED <<conf, phase, texture, attached, cpu, held>>

\* Mutant: the buffer just acquired is kept when it cannot be shown.
updateFailsKeepingBuffer ==
    /\ updating # NO_SLOT
    /\ ~attached \/ It.fails
    /\ updating' = NO_SLOT
    /\ UNCHANGED <<queueVars, conf, phase, cached, images, texture, attached,
                   cpu, held>>

\* updateAndReleaseLocked gives the new buffer back: there is no context, or
\* the image or the fence for the old buffer cannot be created.
updateFails ==
    /\ updating # NO_SLOT
    /\ ~attached \/ It.fails
    /\ \E status \in Statuses :
          /\ releaseBufferLocked(updating, cached[updating].buffer, status)
          /\ freeBufferLocked(FreedFor(updating, status))
          /\ texture' = TextureWithout(FreedFor(updating, status))
    /\ updating' = NO_SLOT
    /\ UNCHANGED <<conf, phase, attached, cpu, held>>

\* updateAndReleaseLocked lets the old buffer go and shows the new one.  (An
\* error in letting it go is returned at the end.)
updateAndReleaseLocked ==
    /\ updating # NO_SLOT
    /\ attached
    /\ \/ /\ texture.slot = NO_SLOT
          /\ UNCHANGED <<queueVars, cached, images>>
       \/ /\ texture.slot # NO_SLOT
          /\ \E status \in Statuses :
                /\ releaseBufferLocked(texture.slot, texture.image, status)
                /\ freeBufferLocked(FreedFor(texture.slot, status))
    /\ texture' = [slot |-> updating, image |-> images'[updating]]
    /\ updating' = NO_SLOT
    /\ UNCHANGED <<conf, phase, attached, cpu, held>>

\* releaseTexImage names the buffer of the slot, not the one it shows.
releaseTexImage ==
    /\ IsReady("gl")
    /\ "releaseTexImage" \in It.calls
    /\ texture.slot # NO_SLOT
    /\ \E status \in Statuses :
          /\ releaseBufferLocked(texture.slot, cached[texture.slot].buffer,
                                 status)
          /\ freeBufferLocked(FreedFor(texture.slot, status))
          /\ texture' = IF status = "BAD_VALUE" THEN texture
                        ELSE [slot |-> NO_SLOT, image |-> NULL]
    /\ UNCHANGED <<conf, phase, attached, updating, cpu, held>>

\* detachFromContext and attachToContext, when the context is the right one
switchContext ==
    /\ IsReady("gl")
    /\ "switchContext" \in It.calls
    /\ attached' = ~attached
    /\ UNCHANGED <<queueVars, conf, phase, cached, images, texture, updating,
                   cpu, held>>
-----------------------------------------------------------------------------
(* CpuConsumer.  Neither it nor BufferItemConsumer looks at mAbandoned: a call *)
(* after abandon goes through a null mConsumer, and has no action here.        *)

Callers == 1..It.callers

\* lockNextBuffer looks at mCurrentLockedBuffers before it takes mMutex.
lockNextBuffer(u) ==
    /\ IsReady("cpu")
    /\ u \notin lockers
    /\ Cardinality(locked) # MaxLocked
    /\ lockers' = lockers \cup {u}
    /\ UNCHANGED <<queueVars, conf, phase, cached, gl, locked, held>>

\* The rest of lockNextBuffer.  When the buffer cannot be mapped the call
\* returns and leaves it acquired.
lockAcquired(u) ==
    /\ IsReady("cpu")
    /\ u \in lockers
    /\ acquireBufferLocked
    /\ \/ locked' = locked \cup {[slot |-> Front.mSlot,
                                  buffer |-> cached'[Front.mSlot].buffer]}
       \/ It.fails /\ UNCHANGED locked
    /\ lockers' = lockers \ {u}
    /\ UNCHANGED <<conf, phase, gl, held>>

\* lockNextBuffer finds no buffer, or too many acquired.
lockRefused(u) ==
    /\ u \in lockers
    /\ \/ mQueue = <<>>
       \/ Cardinality(InState("ACQUIRED")) > mCore.mMaxAcquiredBufferCount
    /\ lockers' = lockers \ {u}
    /\ UNCHANGED <<queueVars, conf, phase, cached, gl, locked, held>>

\* unlockBuffer and releaseAcquiredBufferLocked: the buffer is released only
\* if the slot still has it.
unlockBuffer(entry) ==
    /\ \E status \in Statuses :
          /\ releaseBufferLocked(entry.slot, entry.buffer, status)
          /\ freeBufferLocked(FreedFor(entry.slot, status))
    /\ locked' = locked \ {entry}
    /\ UNCHANGED <<conf, phase, texture, attached, updating, lockers, held>>
-----------------------------------------------------------------------------
(* BufferItemConsumer *)

\* acquireBuffer; waiting for the fence may fail, and leaves the buffer acquired.
acquireBuffer ==
    /\ IsReady("item")
    /\ acquireBufferLocked
    /\ \/ held' = held \cup {[slot |-> Front.mSlot,
                              buffer |-> cached'[Front.mSlot].buffer]}
       \/ It.fails /\ UNCHANGED held
    /\ UNCHANGED <<conf, phase, gl, cpu>>

\* releaseBuffer of an item the client holds
releaseBuffer(item) ==
    /\ \E status \in Statuses :
          /\ releaseBufferLocked(item.slot, item.buffer, status)
          /\ freeBufferLocked(FreedFor(item.slot, status))
    /\ held' = held \ {item}
    /\ UNCHANGED <<conf, phase, texture, attached, updating, cpu>>
-----------------------------------------------------------------------------
\* Buffers that something in the consumer refers to
Referenced ==
    {cached[s].buffer : s \in Slots} \cup {images[s] : s \in Slots}
      \cup {texture.image} \cup {e.buffer : e \in locked \cup held}

\* Calls with something left to do but to call the consumer back
Inside(t) == call[t].op \notin {"idle", "onFrame", "onBuffersReleased"}

\* A producer's step; the allocator never makes a buffer that is still in use.
\* Producers make one call after the other, without waiting for the callbacks
\* of the last one.  (BufferQueue has the runs in which their calls overlap.)
Produce(t) ==
    /\ \A u \in Threads \ {t} : ~Inside(u)
    /\ \/ ProducerCall(t)
       \/ /\ call[t].op \notin {"onFrame", "onBuffersReleased"}
          /\ ProducerStep(t)
    /\ call'[t].op = "disconnect" => "disconnect" \in It.calls
    /\ \A s \in Slots :
          mSlots'[s].mGraphicBuffer # mSlots[s].mGraphicBuffer =>
             mSlots'[s].mGraphicBuffer \notin Referenced \ {NULL}
    /\ UNCHANGED consumerVars

\* The property that makes queueBuffer discard frames is set.
EnterVRMode == SetVRMode(TRUE) /\ UNCHANGED consumerVars

ConsumersNext ==
    \/ \E t \in Threads :
          Produce(t) \/ onFrameAvailable(t) \/ onBuffersReleased(t)
    \/ construct \/ setMaxAcquired \/ abandon
    \/ "setVRMode" \in It.calls /\ EnterVRMode
    \/ updateTexImage \/ updateFails \/ updateAndReleaseLocked
    \/ releaseTexImage \/ switchContext
    \/ \E u \in Callers :
          lockNextBuffer(u) \/ lockAcquired(u) \/ lockRefused(u)
    \/ \E entry \in locked : unlockBuffer(entry)
    \/ acquireBuffer
    \/ \E item \in held : releaseBuffer(item)

ConsumersSpec == ConsumersInit /\ [][ConsumersNext]_allVars
-----------------------------------------------------------------------------
(* Properties *)

\* A buffer the queue will hand out without sending it along is the one the
\* consumer has a copy of (getReleasedBuffers: "the consumer will not receive
\* their buffer addresses and so must retain their cached information"), and
\* GLConsumer has an image of it: whatever was freed, reallocated or called
\* back late in between.
CopyIsTheBuffer ==
    phase = "alive" =>
       \A i \in 1..Len(mQueue) :
          LET item == mQueue[i] IN
          item.mAcquireCalled =>
             /\ cached[item.mSlot].buffer = item.mGraphicBuffer
             /\ Is("gl") => images[item.mSlot] = item.mGraphicBuffer

\* The buffers the application reads: the image that is bound, the buffers it
\* has locked, the items it holds.
Reading == {texture.image} \cup {e.buffer : e \in locked \cup held}

\* A buffer the application reads is not one the producer may get or has: its
\* slot is ACQUIRED, or the queue has let go of it.
ReadingUndisturbed ==
    \A s \in Slots :
       mSlots[s].mGraphicBuffer \in Reading \ {NULL} =>
          mSlots[s].mBufferState = "ACQUIRED"

\* Somebody will release slot s: GLConsumer shows it or is about to, or the
\* application has locked it or holds it.
HasOwner(s) ==
    \/ updating = s
    \/ texture.slot = s /\ texture.image = mSlots[s].mGraphicBuffer
    \/ \E e \in locked \cup held :
          e.slot = s /\ e.buffer = mSlots[s].mGraphicBuffer

\* An acquired slot has an owner in the consumer, and the copy of buffer and
\* frame number with which releaseBuffer will accept it: otherwise the queue
\* runs out of slots, one at a time, and the producer waits for ever.
AcquiredWillBeReleased ==
    \A s \in InState("ACQUIRED") :
       /\ HasOwner(s)
       /\ cached[s] = [buffer |-> mSlots[s].mGraphicBuffer,
                       frame |-> mSlots[s].mFrameNumber]

\* The array of CpuConsumer is never too small (the assertion at its line 182).
LockedBuffersFit == Cardinality(locked) <= MaxLocked
=============================================================================
