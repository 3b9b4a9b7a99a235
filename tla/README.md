# Graphics buffers, input and sensors of Android's native framework, in TLA+

The repository is `frameworks/native` of Android 5.1 with local changes in
`libs/gui`. This directory models its three concurrent subsystems: the
BufferQueue, through which graphic buffers go from a producer (an application,
a camera, a codec) to a consumer (SurfaceFlinger, a GL texture, an encoder),
with the consumers built on it; the way of an input event from the reader to
an application and of its answer back; and the sensor service. TLC checks the
models on small instances, and TLAPS proves properties of the BufferQueue, of its
consumers and of both halves of InputDispatcher for every instance.

Nothing but the code describes these systems: there is no design document. The
comments of the sources and headers and the tests beside them say what callers may
rely on, and are what the properties are compared with.

## 1. Inventory of the system

| Component | State | Operations | Interacts with | What is hard | What makes it correct |
|---|---|---|---|---|---|
| **BufferQueue** (`libs/gui/BufferQueueCore`, `BufferQueueProducer`, `BufferQueueConsumer`) | slot array, FIFO of items, settings, connection state, two condition variables, callback tickets | dequeue, request, queue, cancel, attach, detach, connect, disconnect, allocate, set counts; acquire, release, attach, detach, connect, disconnect, settings | binder threads of the producer; the consumer, through a listener; the allocator | the lock is let go in the middle of calls; slots are freed under both clients; frames are replaced and dropped; processes die | a slot has one owner, frames in order, no lost wake-up, fences follow buffers, calls return |
| **ConsumerBase** | copy of the slot array (buffer, fence, frame number), `mAbandoned` | acquire, release, `onBuffersReleased`, abandon | BufferQueue's consumer interface, listener | the cache is updated by callbacks that race with acquire | the cached buffer is the slot's buffer whenever it is used |
| **BufferItemConsumer, CpuConsumer, GLConsumer** | acquired or locked buffers; current texture and its images | acquire, release, lock, unlock, update and release a texture, attach to and detach from a context | ConsumerBase | several buffers held; a buffer freed while in use; calls that fail half-way | each acquired buffer is released, what is read is not written |
| **InputTransport** | two socket directions, batches, chains of sequence numbers, touch states | publish, consume, finish | the dispatcher and an application | batching, splitting and resampling; full sockets; either end closes | every published event is finished once |
| **InputDispatcher**, outbound | per connection: outbound and wait queue, `InputState`; commands | prepare, start and finish a dispatch cycle, cancel, unregister, fallback keys | InputTransport, policy | the policy is called without the lock; entries are shared | what the dispatcher believes is what the application was told |
| **InputDispatcher**, inbound | inbound queue, pending event, focus, modes, ANR wait, key repeat, injections | notify, inject, dispatch, time out, settings | reader thread, injectors, window manager, policy | time-outs against late answers; settings change under a waiting event | no key sticks, the thread never sleeps on work, injectors are answered |
| **InputDispatcher**, touched windows | `TouchState`, hovered window | find targets, split, transfer, reset | window manager | several fingers, devices and windows that go away | every window sees a gesture that begins, makes sense and ends |
| **SensorService, SensorDevice, SensorEventQueue, BitTube** | connections with caches, active sensors, wake lock, activation counts | enable, disable, flush, set rate, poll, send, acknowledge, clean-up on death | client processes over a socket pair, HAL | dead clients, full sockets, late acknowledgements | the wake lock is held while it is needed and no longer; the hardware runs as the clients want |
| Surface | producer's copy of the slots, pending settings | `ANativeWindow` hooks | BufferQueue's producer interface | reallocation flags, lock and copy-back | slot cache agrees with the queue |
| StreamSplitter | outputs, tracked buffers and how many outputs hold each | callbacks of input and outputs, abandonment | one input and many output BufferQueues | callbacks of all queues interleave | a buffer returns to the input once, after all outputs |
| InputReader, EventHub | devices and their mappers, raw events | read, decode, configure | kernel, InputDispatcher | many protocols | decoded data; see section 7 |
| Binder (`libs/binder`) | reference counts, death recipients, thread pool | transact, link to death | kernel driver | reference counts across processes | see section 7 |
| MemoryDealer, servicemanager | list of chunks; list of services | allocate, free; add, get, list | - ; binder | coalescing; re-registration | chunks tile the heap; a name leads to its last registration |
| SurfaceComposerClient, display events, libui, EGL loader, libagl, fusion, installd, tools | | | | | not concurrent, numeric, generated, or against code that is not here |

The parts in bold are modelled. `PROJECT.json` lists every component with its files
and status, and the hazards: the places where something can go wrong that a
test would hardly reach, each with the properties that watch it.

## 2. Modules

| Module | Content |
|---|---|
| `BufferQueue` | the queue: state, one action per operation or per critical section of one, properties, fairness |
| `FrameStream` | abstract specification: frames are produced, replaced, delivered in order or discarded; with the proof that only newer frames are delivered |
| `BufferQueueProofs`, `BufferQueueOwnership` | proofs about the queue, section 6 |
| `GuiConsumers` | ConsumerBase and its three subclasses, composed with BufferQueue |
| `GuiConsumersProofs` | proofs about the consumers, section 6 |
| `InputTransport` | publisher, consumer and the socket pair between them |
| `InputTransportProofs` | proofs about the order of messages, section 6 |
| `DispatchCycle` | outbound half of InputDispatcher: connections, `InputState`, answers, commands |
| `DispatchCycleProofs` | proofs about the outbound half, section 6 |
| `InputDispatcher` | inbound half: queue, dispatcher thread, keys, ANR, injection |
| `InputDispatcherProofs` | proofs about the inbound half, section 6 |
| `TouchTargets` | `findTouchedWindowTargetsLocked` and what keeps its `TouchState` |
| `SensorService` | service threads, connections, SensorDevice, the client's SensorEventQueue |
| `SensorServiceProofs` | proofs about the sensors' clients, section 6 |
| `MC...` | instances for TLC |

The modules of the input subsystem cut the dispatcher at its own seams: the inbound half
hands an event and its targets to connections, and connections hand messages to a
socket. Each of the three uses a coarse picture of its neighbour:
`InputDispatcher` sees a window as the events it has not finished,
`DispatchCycle` sees a socket that holds `PIPE` messages and may close, and a touch in
`InputDispatcher` names the window it hits.

Except for BufferQueue, a module takes a constant `Configurations`, a record of named
systems: which devices, keys or sensors there are, which faults happen, and the
bounds. The variable `conf` picks one in Init and never changes, and `It` is its record.
One run thus covers several small systems, each with the part of the state space
that matters, instead of one product of all of them.

Definitions that `PROJECT.json` lists as mutants are plausible mistakes in the code
(a dropped guard, a missing reset); each shows that a property can fail.

### BufferQueue

All state is in `BufferQueueCore` and guarded by `mMutex`. A slot goes FREE ->
DEQUEUED (`dequeueBuffer`) -> QUEUED (`queueBuffer`) -> ACQUIRED
(`acquireBuffer`) -> FREE (`releaseBuffer`), with short cuts (`cancelBuffer`,
dropped and replaced frames, attach and detach on both sides), and any slot may
be freed at any time by a `disconnect`, a `setBufferCount` or the death of the
producer. Four places make it hard:

* `dequeueBuffer` and `attachBuffer` sleep on `mDequeueCondition` in
  `waitForFreeSlotThenRelock`; `dequeueBuffer` later allocates without the lock;
* `allocateBuffers` lets go of the lock between choosing and filling slots, and
  holds other calls off with `mIsAllocating` and `mIsAllocatingCondition`;
* `queueBuffer` calls the consumer back without `mMutex`, ordered by tickets
  under `mCallbackMutex`;
* the FIFO survives a disconnect of the producer, so that its items and the
  items the consumer holds may refer to slots that have been recycled.

A local change of this repository: in VR mode (property `sf.vrmode`)
`queueBuffer` discards the frame and frees the slot at once.

State:

| Variable | Code |
|---|---|
| `mSlots`, `mQueue` | the arrays of the same names; a `sp<GraphicBuffer>` is a model value, `NULL` the null pointer |
| `mCore` | the other fields of `BufferQueueCore`; width and height are one value `mDefaultSize`, the listener and the sideband stream are "is there one" |
| `vrMode` | the system property that `isInVRMode` reads |
| `call[t]`, `sleeping[t]` | binder thread t of the producer: where in a call it has let go of the lock, the locals it will still use, and the condition variable it sleeps on |
| `callbacks` | `mNextCallbackTicket`, `mCurrentCallbackTicket`; `announced` records the last frame the listener heard of |
| `producerSlots`, `consumerItems`, `clientBuffers`, `lastAcquired` | what the clients were given: slots, acquired items, detached buffers, the last frame |
| `owedFence` | history: the fence the slot's last owner handed in |

An action is one critical section of `mMutex` with everything the code does in
it. A call the code refuses without changing anything is no step; a refusal
that follows a sleep or that freed slots is one. A call that lets go of the
lock is split:

| Call | Actions |
|---|---|
| `dequeueBuffer` | entering; `WaitWhileAllocating`; `DequeueBuffer` (one turn of `waitForFreeSlotThenRelock` and, if it finds a slot, the rest of the critical section, `TakeSlot`); `DequeueRetry` for each turn after a sleep; `DequeueAllocate` (allocation without the lock and the second critical section); `DequeueReturn` |
| `attachBuffer` (producer) | entering, `ProducerAttachBuffer`, `AttachRetry` |
| `queueBuffer` | `QueueBuffer` or `QueueBufferInVRMode` under `mMutex`, then `CallBack` when the ticket is served |
| `allocateBuffers` | entering, `AllocateBuffers`, `AllocateBuffersCommit`, and again until nothing is left to allocate |
| `setBufferCount`, `disconnect`, `binderDied` | entering, `SetBufferCount` or `ProducerDisconnect`, then `CallBackReleased` |
| `detachNextBuffer` | entering, `DetachNextBuffer` |
| all others | one action each |

`waitForFreeSlotThenRelock` is modelled by `FreeSlotStatus` (what a turn of its
loop comes to, in the order in which the code tests), `SlotsToFree` (the slots beyond
the maximum that it frees before it counts) and `IsOldest` (which slot it
picks). `Freed` is `freeBufferLocked` on a slot, `Attached`, `Queued`,
`Cancelled`, `Acquired`, `Released` and `AttachedAcquired` are what the
operations make of one.

Abstractions and assumptions:

* Assertions (`ALOG_ASSERT`) compile to nothing in release builds and are not modelled.
* The constant `Calls` lists the operations and environment events (failing
  allocations, process death, VR mode) that an instance has. All of them are in `Next`.
* The clients use only slots and items they were given and attach only buffers
  of their own. They are not made to connect before other calls, since the code does not
  ask for it.
* An allocation needs a buffer that nothing refers to. With a finite set
  `Buffers` this is a bound on the number of live buffers, not on allocations;
  it is chosen so that no behaviour of interest stops.
* A fence is named by who handed it in. A buffer's size, format and usage are the record
  `AttributesOf[b]`; a request may leave size or format to the default.
* Left out: transform, crop, scaling mode and surface damage; EGL sync objects and the
  throttling wait at the end of `queueBuffer`; consumer names and `dump`;
  `query`; the `QCOM_BSP` variants; `IProducerListener::onBufferReleased` and
  the sideband callback, which change no state of the queue.

### GuiConsumers

Extends `BufferQueue` with the consumer's side of the callbacks. Its state is
`cached` (ConsumerBase's `mSlots`), `images`, `texture`, `attached` and `updating`
(GLConsumer), `lockers` and `locked` (CpuConsumer) and `held` (the items of a
BufferItemConsumer). A consumer's call holds `ConsumerBase::mMutex` throughout and
enters the queue once or twice; `updateTexImage` is split where it leaves the
queue between acquiring the new and releasing the old buffer, `lockNextBuffer`
between its unlocked check and the rest. A callback is brought by the
producer's thread after it left the queue's lock and waits for `mMutex`, so that
`onBuffersReleased` may arrive long after the slots were freed and filled
again: that is the case the module is about.

Assumed: producers make one call after the other (overlapping calls are in the
runs of BufferQueue), nothing is attached by the producer, and nobody calls a
consumer after it was abandoned. EGL and GL are a choice of success or failure.

### InputTransport

`publishMotionEvent`, `publishKeyEvent`, `receiveFinishedSignal` on the server's
side; `consume` and `sendFinishedSignal` on the client's. `consume` is split per
message it reads (`consumeCall`, `consumeDeferred`, `consumeReceived`,
`consumeExhausted`), and a chain of finished signals is one action per signal,
since the server runs in between and the socket may be full at each
(`sendFailed` rebuilds the rest of the chain). Each end may close at any time.
Coordinates are abstracted to the time at which an evenly moving finger was
there: interpolation and extrapolation are then exact, and a touch that jumps
back is a smaller number. Left out: allocation failures of the event factory and the
contents of keys and motions.

### DispatchCycle

A connection is one record: outbound and wait queue, the mementos of `InputState`,
fallback keys, the socket in both directions, and a `view` of what the application has
been told. Operators map a connection to the connection after a locked call
(`enqueueDispatchEntryLocked`, `startDispatchCycleLocked`, `trackKey`,
`trackMotion`, `synthesizeCancelationEvents`...). Commands run one by one; those that ask
the policy (`doDispatchCycleFinishedLockedInterruptible`) stop at `thread.pc = "policy"`,
where the lock is free and other threads cancel events or unregister channels.

The loop that enqueues the cancelations of a connection is stated at once
(`CancelationsEnqueued`): what one turn does to the mementos and counts is not read by the
next. `MementosMatchStream` includes that this is what `enqueueDispatchEntryLocked` comes to
when it is called for one event after the other.

### InputDispatcher

The dispatcher's thread is about to enter `dispatchOnce` ("run"), inside a call of the
policy ("policy") or in `pollOnce` ("sleep"). `Decision` is what
`dispatchOnceInnerLocked`, `dispatchKeyLocked` and `dispatchMotionLocked` make of
the pending event, `dispatchPending` one pass of them with the command
it posts. `notifyKey` is cut in three: the policy's `interceptKeyBeforeQueueing` runs
unlocked, and so does `filterInputEvent` while the input filter is on. The filter may
pass the event, which is queued then whatever was reset meanwhile, or consume it
(`filterInputEvent(passes)`); `notifyMotion` asks it as well. A window is a record of
what it has not finished, the keys it believes down and whether it is paused; an
injector without the permission may inject into the windows of its own uid
(`SameUid`). Time is the set `due` of deadlines that have passed: a
deadline that is armed may pass at any moment. Left out: user activity, trace
points, monitors (in DispatchCycle), the choice of touched windows (in TouchTargets).

### TouchTargets

`findTouchedWindowTargetsLocked` as a function of the event and of `touch`
(`TouchState`), `lastHover` and `present`; delivery with `splitMotionEvent` and the
dispatch modes; and everything else that changes the touch state: dropped events,
ANRs, device resets, `setInputWindows`, `transferTouchFocus`, `resetAndDropEverythingLocked`.
A place on the screen is named by the window at it. `view` is what each window was told,
`phys` what the fingers do. There is one display. The place "edge" of the instances is
in no window at all, so that events miss every target.

A window that is not ready makes the event wait. Nothing is saved then, so that only the end of the wait is a
step of the model: the window becomes ready and the event is taken, or the policy gives up on
it (`resumeAfterTargetsNotReadyTimeout`), it leaves the touch state, and the event is
looked at again (`expired`), when the other windows of a split may get it, it may time out
on another window, or find none. A window goes in two steps, which the code takes in two calls:
`setInputWindows` takes it from the list, `unregisterInputChannel` closes its channel
(`registered`); an application that dies closes it first.

`lost` is a history variable: what an event without targets made the dispatcher
forget although a window still believes in it. The code does forget it (section 5); the
properties say that nothing else is forgotten.

### SensorService

Four kinds of threads: `ThreadLoop` (`poll`, `populate`, `dispatch`: the three
critical sections of `SensorService::threadLoop`), `AckReceiver` (the looper over
the connections' sockets with its five-second time-out), the clients' binder calls
(`enable`, `disable`, `flushSensor`, `setEventRate`, `cleanupConnection`), and the
clients, which read, acknowledge, stop or die. A connection is a record with its
cache, its flush bookkeeping, `mWakeLockRefCount` and the two directions of its
BitTube. SensorDevice is `mActivationCount` and `hal`. Where `fails` is set, every call
of the hardware may fail: `batch`, `flush` and `activate` within `enable`; `setDelay`, after
the new period was recorded; and, within `disable` and the destructor, `activate(0)` and the
`batch` for the clients that remain, whose results nobody looks at. `hal.unstopped` and `hal.unset`
are the sensors that the hardware last refused to stop, or to set. `lost` counts
the answers that the overflow of a cache loses (section 5). Left out: virtual sensors and
the sorting of their events, batch time-outs, permissions and app-ops.

## 3. Runs

| Run | Instance | Distinct states | Checks |
|---|---|---|---|
| `queue` | 1 thread, 4 buffers, 3 slots, 3 frames, synchronous and asynchronous, both ends controlled by the application or not; cancel, disconnect, death, reconnect | 482,271 | `QueuedSlotsTracked`, `NoSharedAccess`, `FenceHandedOver`, `QueueTailOrdered` |
| `threads` | 2 threads, 3 buffers, 2 frames, time stamps due or not; buffer count 3, preallocation that may fail | 535,339 | `SlotOwnedOnce`, `NoLostWakeup`, `ConsumerCanHelp`, `OneAllocator`, `AnnouncedInOrder`, and that the queue implements `FrameStream` |
| `attach` | 1 thread, 3 buffers, 1 frame; attach and detach on both sides | 539,105 | `DetachedStaysOut` |
| `config` | 1 thread, buffers of 2 formats, all settings, abandonment, VR mode, failing allocation | 111,320 | `TypeOK`, `AbandonedForGood` |
| `live` | 2 threads, 3 buffers, preallocation, 2 frames, time stamps due or far in the future | 42,438 | `CallsReturn`, `FramesLeave` |
| `consumers` | 2 producer threads, 4 buffers, 4 frames; `glShared`, `glContexts`, `cpu`, `item`, `discarding` | 549,443 | `CopyIsTheBuffer`, `ReadingUndisturbed`, `AcquiredWillBeReleased` |
| `transport` | sockets that hold one message; `pipes`, `resampling`, `served` | 72,433 | `EachMessageOnce`, `DeviceOrderKept`, `NoJumpBehindPrediction`, `AllFinished` |
| `cycle` | sockets that hold one message; `keys`, `monitored`, `motions`, `responsive` | 121,650 | `ForegroundCountExact`, `AnswerOwed`, `EntryOutlivesPolicyCall`, `TouchStreamConsistent`, `MementosMatchStream`, `QueuesDrain` |
| `dispatch` | 2 windows of 2 applications; `modes`, `meta`, `anr`, `injection`, `filtered` | 2,080,523 | `NoStuckKey`, `NoMissedWake`, `InjectionAccounted` |
| `touch` | 3 windows, a wallpaper and a place without a window; `split`, `twoDevices`, `changing`, `hovering` | 78,637 | `NoStuckTouch`, `HoverRemembered`, `PointerInOneWindow`, `StreamMakesSense` |
| `sensors` | `waking`, `overflowing`, `failing`, `oneShot`, `oldHal` | 465,631 | `WakeLockCovers`, `AcksExact`, `FlushAnswered`, `HardwareFollowsClients`, `WakeLockReleased` |
| `disconnect_race` | 2 threads, `disconnect` | | `GivenSlotIsDequeued`, violated |

The configurations are records of the MC modules, with a comment each.

### Bounds

* Slots: 3, enough for one buffer dequeued, one queued and one acquired. Frame
  numbers bound the length of a behaviour of the queue. Three frames are enough
  for an item that was dropped, one that is replaced or recycled, and one that
  is acquired, all at once; with a consumer that keeps copies, a fourth comes back
  to a slot whose copy is old. Two threads are enough for each race in the code,
  which are all between two critical sections of one call and one other
  call; that more threads change nothing for tickets and allocation is proved.
* `attach`, `config` and `live` need no connected producer, since no operation in them
  asks for one; `attach` and `live` leave `connect` out for a smaller state space.
  Three buffers are needed in `attach` for a producer that sleeps: two acquired, one
  to attach.
* Buffers are interchangeable when they have the same format, threads always,
  hence the symmetry; runs with liveness properties use none.
* Input: `maxSeq` messages, `maxEvents` events, `maxCalls` calls of the window manager and
  `maxFaults` interruptions. A socket that holds one message is full whenever it
  can be. Three messages are a batch of two and one that ends it; three
  events are a press, a release and one more that is pending while settings change;
  three pointers leave two in one window when the third goes to another.
  `touch` bounds only the interruptions: gestures go on for ever.
  One place without a window is enough for an event to miss: in `split` it is
  touched by a finger of a gesture, in `twoDevices` and `changing` it comes between two devices, in `hovering` between
  two windows.
* Sensors: sockets of one packet, caches of one to two events, up to four calls and
  two events of the hardware. In `overflowing` a poll brings up to two events for a cache
  of two, so that the cache overflows by one and by two, with flush complete events in it and
  among the new ones. A batch fits an empty cache (`SensorConstants`): the cache is as large as
  the largest FIFO and the socket's buffer, and a poll brings no more. Every race is
  between two threads over one connection, or over two where one sensor serves both.

### What the properties assume

Several properties hold only under conditions, which are part of the property
or of the instance. Where the code breaks a property without them, section 5 says so.

* `SlotOwnedOnce`, `NoLostWakeup`: no `disconnect` while another thread is inside a call, no VR mode.
* `NoSharedAccess`: the consumer attaches no buffers. `FenceHandedOver`: no VR mode.
* `FramesFlowInOrder`: all frames queued in one mode.
* `CallsReturn`: nobody disconnects and reconnects for ever.
* `CopyIsTheBuffer`, `AcquiredWillBeReleased`: no `attachBuffer` by the producer, one caller
  of `lockNextBuffer`, and `lock` and fence waits succeed.
* `AllFinished`: the application answers and neither end closes. `QueuesDrain`: the
  same, except that applications may die.
* `GivenSlotIsDequeued` is what a client is promised of a slot with a buffer in it; it is
  violated (section 5). A slot that is freed before it is returned has no buffer, and
  `requestBuffer` will refuse it.
* `NoStuckKey`: nobody injects keys (an injected press is held by nobody), no device is
  reset, and the dispatcher is not reset while META may replace a key. A key whose release
  the input filter consumed is exempt (`swallowed`): what a filter
  takes out of the stream is the filter's to answer for (`InputDispatcher.h:214`).
* `HoverRemembered`: one device. It, `NoStuckTouch` and `PointerInOneWindow` exempt what an event
  without a target displaced or should have ended (`lost`), until the window is told.
* `WakeLockCovers`: nobody calls between the two critical sections of `threadLoop` or while
  references are reset (`races`), nobody flushes, and a client enables a sensor once (`again`).
  `FlushAnswered`: no `races`; answers that are lost because a batch was cut to fit the cache are
  exempt (`lost`), and only those.
* `HardwareFollowsClients`: where calls fail, a client enables a sensor once (`again`). A sensor that the
  hardware last refused to stop or to set is exempt, since the service
  does not try again until somebody calls.
* `AcksExact`: until a time-out gave up on a client.

### Fairness

`BufferQueue!LiveSpec` asks for weak fairness of each producer thread that is inside a call
and not asleep (the scheduler runs it; the allocator and the consumer's
callback return), of acquiring and of releasing. A consumer that is told of a
frame acquires it and releases what it has finished with: ConsumerBase and its
subclasses do so on every `onFrameAvailable` or vsync. Nothing is asked of the
producer: it may stop calling at any moment. Waking up needs no fairness of its
own, for `Broadcast` makes the thread runnable. `disconnect` is left out of `live`,
because a thread that disconnects and reconnects for ever starves
a sleeping dequeuer, which no scheduler can prevent.

`InputTransport!LiveSpec` asks that the dispatcher's looper reads signals that arrive, and,
of an application that answers, that its looper reads, takes its batches at a
frame and retries a finished signal that did not go out. Consuming and
finishing compete for the application's one thread and for room in the socket,
so these are strongly fair. Nothing is asked for messages to be published.

`DispatchCycle!FairSpec` applies to the configuration `responsive`: the dispatcher's
thread keeps looping, the policy returns, applications that live read and answer. They may die.

`SensorService!LiveSpec` asks for the service's two threads only, and that the five
seconds of a time-out pass; clients may stop reading or acknowledging. `ENABLED` of
a thread is written out (`LoopEnabled`, `AckEnabled`) to keep TLC from
enumerating its steps.

## 4. What the runs show

* **BufferQueue.** No slot has two owners; the FIFO, the slots and what the clients
  hold agree; a sleeping producer is woken whenever a slot is free, and if it
  sleeps there is something the consumer can do about it; a detached buffer stays
  out; an abandoned queue stays empty; calls return and frames leave the FIFO.
* **Consumers.** A buffer the queue hands out without its address is the one the consumer
  has a copy of, although the callback that should have dropped the old copy is
  late; what is read is not written; every acquired slot will be released.
* **Transport.** Every message is in one place from publication to its finished
  signal, also when signals of a batch fail half-way; batching keeps each
  device's order; a finger does not jump behind a predicted place.
* **Dispatcher.** Counts for which injectors wait are exact; a queue is never stuck without an
  answer on its way; after the policy was asked without the lock, the entry it was
  asked about is still there; mementos equal what the application will have seen, so
  that cancelation is complete. No key sticks; the thread does not sleep on work. Windows
  that split a gesture never share a finger, and each sees one that makes sense.
* **Sensors.** Reference counts equal what clients owe; every flush is answered, save for those
  that an overflowing cache loses; the hardware runs exactly as long and as fast as clients ask, also when calls
  fail, save for what it refused itself; and the wake lock is given back whatever the clients do.

## 5. Disagreements between the code and what is said of it

One has a run of its own, `disconnect_race`. `dequeueBuffer` allocates without the lock, and then
fills and returns its slot without looking whether it is still DEQUEUED
(`BufferQueueProducer.cpp:358`). When another thread disconnects meanwhile, the client is given a slot
that is FREE, with the new buffer in it, and the next `dequeueBuffer` may give the same buffer to
somebody else (`IGraphicBufferProducer.h:104`: "Ownership of the slot is transfered to the
client, meaning that the server will not use the contents of the buffer associated with that slot").

The others were found with the modules as they are and a changed instance. The third
column says how to see each: a configuration of the MC module, what to change
in it or in the run's cfg, and the property that TLC then finds violated.

| Where | What happens, against what is said | Reproduced by |
|---|---|---|
| `BufferQueueProducer.cpp:609` | In VR mode `queueBuffer` frees a slot without a broadcast; a thread asleep in `dequeueBuffer` sleeps on although a slot is free (line 228: it waits "for a buffer to be acquired or released") | `threads` with `setVRMode` in `Calls`: `NoLostWakeup` |
| `BufferQueueProducer.cpp:648` | After synchronous frames an asynchronous one may become the front and is replaced by the next although older ones wait behind it, which are acquired later (`BufferQueueConsumer.cpp:61`: "In asynchronous mode the list is guaranteed to be one buffer deep") | `queue` with `MaxFrames = 4`: `DeliveredInOrder` |
| `BufferQueueConsumer.cpp:308` | Buffers the consumer attaches all have frame number 0, so that `releaseBuffer` cannot tell that a slot was recycled and frees a buffer still held (line 306) | `queue` with `consumerAttachBuffer`: `NoSharedAccess` |
| `BufferQueueProducer.cpp:503` | `attachBuffer` leaves `mAcquireCalled` of the slot's last buffer set, so that the attached buffer is acquired without its address | `consumers` with `attachBuffer` and `producerDetachBuffer` in `Calls`: `CopyIsTheBuffer` |
| `GLConsumer.cpp:279` | A frame that outlives its producer is shown from slot s, a new producer's buffer arrives in s and is acquired and released without a context. `releaseTexImage` then releases s with the old frame number, and the copy and image of the new buffer are dropped on STALE_BUFFER_SLOT (`BufferQueueConsumer.cpp:419`: "must retain their cached information") | `ContextLost`: `CopyIsTheBuffer` |
| `CpuConsumer.cpp:102` | Two threads pass the unlocked check of `lockNextBuffer`; the second finds no room in `mAcquiredBuffers` (the assertion at line 182) | `cpu` with `callers` 2: `LockedBuffersFit` |
| `CpuConsumer.cpp`, `BufferItemConsumer.cpp` | When the lock or the wait for the fence fails, the acquired buffer is neither released nor given to the caller | `cpu` or `item` with `fails`: `AcquiredWillBeReleased` |
| `InputTransport.cpp:657` | `rewriteMessage` replaces the coordinates of a sample and keeps its time; reported times go backwards (line 586: "use the resampled time and coordinates instead") | `Resampling`: `ReportedTimesOrdered` |
| `InputDispatcher.cpp:3360` | `unregisterInputChannelLocked` makes the connection a zombie before the command runs that reports it, and the command skips zombies: the policy never hears of a broken channel (`InputDispatcher.h:208`) | `KeyPresses`: `BrokenChannelReported` |
| `InputDispatcher.cpp:3541` | An entry restarted as a fallback key goes back to the outbound queue without `trackKey`, so that the fallback key is not remembered as down and can stay down (line 3567: "then cancel the associated fallback key, if any") | `KeyPresses`: `FallbackKeyCancelled` |
| `InputDispatcher.cpp:2396` | `resetAndDropEverythingLocked` clears `mReplacedKeys` while `notifyKey` is between recording a replacement and queueing the key; the release goes out under the original code (line 2378: "maintain a consistent stream of up and down events") | `Meta` with `settings` {"mode"} or {"filter"}, 2 calls: `ReplacedKeyReleased` |
| `InputDispatcher.cpp:354` | A switch key dispatched in time leaves `mAppSwitchDueTime` set; an event pending when it passes is dropped with no switch key behind it (line 411: "drop all events preceding the app switch key") | `Anr`: `OnlyEventsBeforeSwitchDropped` |
| `InputDispatcher.cpp:951` | `setInputWindows` moves the focus and keeps the deadline of the wait; the new window is reported when the old one's time is up (`InputDispatcher.h:202`) | `Anr`: `ReportedApplicationWaited` |
| `InputDispatcher.cpp:700` | A device reset cancels the device's keys but not their repeat (line 684: "Reset key repeating in case a keyboard device was added or removed or something") | `Modes` with `inputs` {"key", "reset"}: `ResetDeviceRepeatsNothing` |
| `InputDispatcher.cpp:1528` | A hover event without a window fails before HOVER_EXIT is added and still overwrites `mLastHoverWindowHandle`: hovering over a window, beside it and over another one leaves both hovered (line 1326: "Let the previous window know that the hover sequence is over") | `touch` with `Configurations <- MCOneHovers`: `HoverEnds` |
| `InputDispatcher.cpp:1238` | A DOWN that hits no window saves its empty touch state and is dropped before the conflict with another device is acted upon. The UP of that device finds no touched window, and its window keeps the finger (`InputDispatcher.h:698`: "so that cancelation events can be synthesized when events are dropped") | `touch` with `Configurations <- MCTwoTouch`: `EndedGestureIsCancelled` |
| `InputDispatcher.cpp:1161` | Resets and drops leave `TouchState`: events are refused "because a pointer for a different device is already down" (line 1163) when none is | `TwoDevices`: `OtherDeviceIsDown` |
| `InputDispatcher.cpp:1178` | POINTER_DOWN of the device that lost the touch is added to the other device's split state; a window is sent a pointer that is not its own (`InputDispatcher.h:158`) | `Changing` with `pointers` {1, 2}: `PointerInOneWindow` |
| `InputDispatcher.cpp:2856` | `setInputWindows` removes a closed window from the touch state and leaves its wallpaper, which is never released (line 1409: "locked in for the duration of the touch gesture") | `Split` with `faults` {"remove"} and without "edge": `EndedGestureIsCancelled` |
| `SensorService.cpp:1318` | When the cache overflows, those of the new events that were copied into its free space are not moved along by `memmove` and are lost, flush complete events uncounted (`SensorService.h:153`: "The number of flush complete events dropped for this sensor is stored here. They are sent separately before the next batch of events") | `sensors` with `Configurations <- MCOverflowing`: `FlushesKept` |
| `SensorService.cpp:1406` | The flush complete event that the service makes up for a wake-up sensor goes out, and waits for its acknowledgement, without the wake lock (`SensorService.h:229`) | `OldHal`: `WakeLockHeld` |
| `SensorService.cpp:420` | A client that registers between the copy of `mActiveConnections` and its use is left out when the need for the wake lock is computed | `Waking` with `races`: `WakeLockHeld` |
| `SensorService.cpp` | A sensor that is disabled and enabled again is sent its last value outside `threadLoop`, without the lock | `Waking` with `again`, 4 calls: `WakeLockHeld` |
| `SensorService.cpp` | A flush complete event is mapped to a connection that is not in the copy and is lost | `Waking` with `races`, `again`, 5 calls, 1 event: `FlushesKept` |
| `SensorService.cpp` | Dropped flush complete events are counted for a sensor that the connection no longer has | `Overflowing` with `again`, 5 calls: `NoneMissing` |
| `SensorService.cpp` | One client takes the event of a one-shot sensor that another has just armed | `OneShot` with two connections: `OneShotArmed` |
| `SensorService.cpp` | Enabling a sensor again takes the client out of service and device when the hardware call fails, and leaves the sensor on, for nobody if it was the only client | `Failing` with `again`: `HardwareFollowsClients` |
| `SensorService.cpp` | A stale flag in `mLastEventSeen` leads to two flagged events in a packet (`SensorService.h:93`: "Exactly one event per packet will have the wake_up flag set") | `Waking` with `write` 2, `again`, 5 calls, 3 events: `OneFlagPerPacket` |

Met while modelling the BufferQueue, where no comment or test says otherwise:

* In VR mode the fence the producer hands in is dropped (`mFence = NO_FENCE`), so that
  `FenceHandedOver` holds only without VR mode.
* A slot beyond the maximum can be ACQUIRED (the consumer's `attachBuffer` takes any
  free slot) and `waitForFreeSlotThenRelock` frees it.
* `setBufferCount` checks the count against the synchronous minimum; a later
  asynchronous call finds it below the asynchronous one.
* If the allocation in `dequeueBuffer` fails, the slot stays DEQUEUED and no
  client knows it. It is recovered by a disconnect only.
* A dequeuer woken from `mDequeueCondition` does not look at `mIsAllocating`
  again and may take a slot that `allocateBuffers` has chosen; the second critical
  section of `allocateBuffers` notices, because the slot is no longer FREE.
* `allocateBuffers` does not look at `mIsAbandoned`, so that an abandoned queue
  can be filled with buffers. They stay FREE.
* After a `setBufferCount` or a disconnect the FIFO may be longer than the
  maximum of slots, and dequeuers then wait for the consumer.

## 6. Proofs

The proofs are about the BufferQueue, its consumers, InputTransport, the inbound and outbound
halves of InputDispatcher, and SensorService with SensorDevice. Those about the BufferQueue hold for every number of slots (at least 3), threads,
buffers, formats and frames, for every subset of operations in `Calls`, and for all
interleavings, under the `ASSUME`s of `BufferQueue`: they give the constants their
types, the defaults of the constructor exist (`1 \in Sizes`, `1 \in Formats`), 0 is not a
size, and the number that marks a new buffer is not a frame number. Those about
the consumers hold for every record of configurations, too. Those about
InputDispatcher hold for all sets of windows, keys, injectors, and for every record of
configurations, under `InboundConstants`: types, at least one window, and names
that stand for different things differ. Those about DispatchCycle hold for all finite
sets of connections, keys and devices, sockets of any size (at least one message) and
every record of configurations, under `CycleConstants`: types and different names. Its
sets are finite because the code goes through them in turn. The one about SensorService holds
for every set of clients, sensors and rates and every record of configurations, under
`SensorConstants`: types, periods that are not 0, `NoConnection` is no connection, calls fail
only where flushes exist, and a batch fits an empty cache. The one
about InputTransport holds for all devices, pointers, socket sizes and records of configurations,
under `TransportConstants`: types only.

| Theorem | Statement | Assumes |
|---|---|---|
| `TypeCorrect` | `Spec => []TypeOK` | |
| `CallbacksInOrder` | `Spec => AnnouncedInOrder` | |
| `AllocationExclusive` | `Spec => []OneAllocator` | |
| `FifoOrdered` | `Spec => []QueueTailOrdered` | |
| `AbandonmentFinal` | `Spec => []AbandonedForGood` | |
| `DetachedBuffersStayOut` | `Spec => []DetachedStaysOut` | |
| `FencesHandedOver` | `Spec => []FenceHandedOver` | no VR mode |
| `ConsumerReadsAlone` | `Spec => []NoSharedAccess` | no `consumerAttachBuffer` |
| `SlotsOwnedOnce` | `Spec => []SlotOwnedOnce` | `NoRacingDisconnect`, allocation succeeds |
| `QueuedSlotsHaveFrames` | `Spec => []QueuedSlotsTracked` | `NoRacingDisconnect` |
| `SleepersHaveToWait` | `Spec => []NoLostWakeup` | `SteadyModes` |
| `SleepersWaitForConsumer` | `Spec => []ConsumerCanHelp` | `SteadyModes`, `NoRacingDisconnect` |
| `StreamInOrder` | `FrameStream!Spec => OnlyNewer` | |
| `StreamImplemented` | `Spec => FramesFlowInOrder` | one mode only |
| `DeliveryInOrder` | `Spec => DeliveredInOrder` | one mode only |
| `ThreadWakesForWork` | `InputDispatcher!Spec => []NoMissedWake` | |
| `CopiesAreTheBuffers` | `ConsumersSpec => []CopyIsTheBuffer` | `NobodyAttaches`, `ReleasesWhatItShows`, one mode only |
| `ReadersUndisturbed` | `ConsumersSpec => []ReadingUndisturbed` | the same |
| `AcquiredSlotsOwned` | `ConsumersSpec => []AcquiredWillBeReleased` | the same, `ClientsSucceed` |
| `NoKeyStaysDown` | `InputDispatcher!Spec => []NoStuckKey` | `StreamKept` |
| `InjectorsAnswered` | `InputDispatcher!Spec => []InjectionAccounted` | |
| `PendingIsQueued` | `DispatchCycle!Spec => []ForegroundCountExact` | |
| `QueueIsSent` | `DispatchCycle!Spec => []AnswerOwed` | |
| `EntrySurvivesPolicy` | `DispatchCycle!Spec => []EntryOutlivesPolicyCall` | |
| `DevicesInOrder` | `InputTransport!Spec => []DeviceOrderKept` | |
| `HardwareServesClients` | `SensorService!Spec => []HardwareFollowsClients` | `NoFailedRetry` |

All invariants of BufferQueue, GuiConsumers and the inbound half of InputDispatcher that the
runs check are theorems.

### The BufferQueue's types, order and stream (`BufferQueueProofs`)

The inductive invariant is `TypeOK /\ Tickets`. `TypeOK` alone is not inductive:
`CallBack` raises `mCurrentCallbackTicket`, whose type is bounded by the number of
frames, and only `Tickets` (tickets count frames, and each thread that waits
has one of its own between the served one and the next) shows that it never
overtakes `mNextCallbackTicket`. `Tickets` also gives the order of the callbacks.

The other invariants concern few actions each. `QuietStep` proves once
that every step either is one of seven *loud* actions (`queueBuffer`,
its callback, waiting for an allocation, the two halves of `allocateBuffers`,
`acquireBuffer`, the consumer's `disconnect`) or is `Quiet`: it keeps the FIFO, the
tickets, the allocation and abandonment flags, and gives no slot of an
abandoned queue to a producer. Each later proof has one step for `Quiet` and one
per loud action.

`StreamImplemented` needs `UniformQueue`: all items of the FIFO were queued in one
mode, and in asynchronous mode there is at most one. `DeliveryInOrder`
follows from it and from `StreamInOrder` without looking at BufferQueue again.

### Who owns a buffer (`BufferQueueOwnership`)

Buffers need a coarser split of the steps: a *calm* step (`CalmStep`) brings no buffer
into the queue and at most empties a slot or moves it between FREE and DEQUEUED;
the *bold* ones each have a lemma that says what they do to slots, FIFO and items.

* `FencesExact`: every slot has the fence its last owner owes. The property
  speaks only of buffers that wait for an owner and is not inductive, because a
  slot keeps its fence through the states in between.
* `Homes`: a buffer is in one slot, in one frame of the FIFO, and then in the slot of
  that frame; the buffers of threads inside `attachBuffer` and those of the clients
  are in neither, and no two threads attach the same one. `DetachedStaysOut` is one of
  its parts and needs the others: what is detached must have had no second home.
* `Reads` (on top of `Homes` and `QueueTailOrdered`): the frames the consumer holds
  differ from each other and from those in the FIFO, nobody attaches their buffers, and
  the frame number of an ACQUIRED slot tells which of them it belongs to. This is why
  `releaseBuffer`, which compares frame numbers, never frees a recycled slot.

### Who owns a slot, and who sleeps for one (`BufferQueueOwnership`, second half)

* `Owners` and `Claimed` are the two directions of `SlotOwnedOnce`. `Owners` holds even when
  allocations fail, and `QueuedSlotsHaveFrames` needs only it.
* `Tracked`: each QUEUED slot has a frame with its buffer and number. With `Homes`
  this is `QueuedSlotsTracked`.
* `Blocking /\ Synchronous /\ Waiting`: no call may dequeue without blocking, and while
  anyone sleeps on `mDequeueCondition` the loop of `waitForFreeSlotThenRelock` would
  wait. A step keeps it by waking all (`Woken`), or by leaving alone what the loop
  looks at (`Undisturbed`). `BeyondMaximum` is the lemma this rests on: slots beyond the
  maximum are never QUEUED or DEQUEUED.

### The consumers and their copies (`GuiConsumersProofs`)

To the queue a step of a consumer is a step of BufferQueue or one that only forgets
items (`QueueStep`), so that the invariants above hold here without a second proof. The
inductive invariant is `ConsumerInv`:

* `QueueSide`: the queue's own invariants, and what the consumer's class relies on: one call is
  inside the queue at a time, an ACQUIRED slot has sent its buffer along, an item
  that the consumer was given and whose buffer is still in a slot came from that slot
  under that frame number.
* `Kinds`: the fields are those of the consumer's class.
* `Copies`: the copy of a slot, or of a frame in the FIFO, that the queue will hand out
  without a buffer is its buffer; the copy of a buffer that was given has its frame number.
  `CopyIsTheBuffer` speaks of frames only. The slots are needed because a slot passes
  through the producer's hands and comes back in a new frame with `mAcquireCalled` as it was.
* `AllGiven`: what is locked, held, shown or about to be shown was given to the consumer.

`ReadersUndisturbed` follows from `AllGiven` and `Reads`, the invariant of `ConsumerReadsAlone`: what is read was
given, and what was given is in no slot but an ACQUIRED one. `AcquiredSlotsOwned` adds its own
property to `ConsumerInv`. TLC found `ConsumerInv` true in 1.26 million states before it
was proved.

### The dispatcher's thread and its keys (`InputDispatcherProofs`)

`WakeInv`: the types of the stream; a switch deadline passes only while a switch is pending;
and `Covered`: while the thread sleeps with nothing to wake it, the queue is empty or
an event is pending that waits for a deadline the thread also waits for.
`NoMissedWake` asks only whether the next pass would do something; to see that a step of another
thread does not create work without a wake, one has to know which wait the last pass ended in.

`KeyInv`: *the last word about every key is true*. Presses travel from the reader through the
queue and the pending event to windows and key repeat. If a press is the last that any
stage after it says about a code, the user holds the key (`ReaderHonest`, `QueueHonest`);
if a window or the repeat believes in a code about which nothing is under way, the
user holds it (`FrontHonest`). The other parts say that a held key goes up with the code
it went down with (`CodesMatch`), that a pending release has ended the repeat
(`RepeatEnds`), that only the focused window has keys down (`FocusHolds`), that none has
once a key is given up after an ANR (`GivenUp`). A press that waits for the filter's answer
is of a key that is held (`ReaderHonest`): the reader is inside `notifyKey`, and cannot
report the release. A release that the filter consumes is the one case in which the
user lets go and nobody is told; `swallowed` remembers the code until a press of it is queued
again, and `Accounted` admits it. A reset of the dispatcher while the filter is asked
empties windows and queue, and what the filter passes afterwards is again the last word.
`NoStuckKey` is `FrontHonest` in a state where nothing is under way.

`InjectionInv`: *an injected event is in one place*. It is in the queue or pending exactly
while its injector has no result, in at most one entry of one window afterwards
(`OnePlace`), and the injector counts that entry (`Counted`). That an event
does not come to a window twice follows from the numbers events are given: entries come
before what is pending, and that before what is queued (`Numbered`, `EntriesNumbered`).

TLC found these invariants true on the instances of run `dispatch`, the last one to a depth of
12 steps, before they were proved.

### Sequence numbers and their places (`DispatchCycleProofs`)

An entry goes out under a sequence number, and the number comes back: outbound queue,
socket, application, socket, command and, for a fallback key, the front of the outbound
queue again. `CycleInv` says that each number is in one of these places at a time:

* `ConnInv`, for each connection: no place has a number twice (`Distinct`), places that
  exclude each other have none in common (`Apart`), numbers are below the next (`Numbered`);
  the counts are the foreground entries in the two queues (`Counted`); only a connection in order
  waits for answers (`Alive`), what the application has not read is in the wait queue
  (`UnreadOwed`), and a queue that is not empty has an answer due that sends it (`Sending`).
* `CommandsApart`, `PolicyApart`: the number in a command, or in the call of the policy, is
  in no other command and no longer with the application, and the entry of the policy's call
  still waits unless the connection is out of order.

None of the three properties is inductive. `doDispatchCycleFinishedLockedInterruptible` finds
its entry by number, lets go of the lock, and finds it by number again: that the second one is
the first, and that a count is decremented once, needs that no other answer, command or queue has
the number. The wait queue is not among the places that exclude each other: it keeps the entry
while its number is with the application, or loses it when the connection is drained.

Every locked call maps a connection to a connection, so there is one lemma per operator: it
keeps `ConnInv` and gives no number a second place (`Continues`, `NumbersKept`). The lemmas
`AnswerStep` and `AnswerAfterPolicy` put them together for a command that runs through, and for one
that stops at the policy. TLC found `CycleInv` true in all states of run `cycle` first.

### Messages in their order (`InputTransportProofs`)

A message waits in the socket, deferred in `mMsg`, or in a batch, and passes them in this order.
`DeviceOrderKept` compares only messages of one device; the inductive invariant `OrderInv` says more
of what is further ahead and less of what is level:

* everything deferred or batched, of whichever device, is older than everything in the socket
  (`Older`), the socket's messages are in order, and their numbers are below `nextSeq`;
* a batch holds messages of one device in order, and no device has two (`AreBatches`). Batches of
  different devices are not ordered, since they overtake each other;
* a message is deferred only while its device has no batch. This is what the property needs and does
  not say: the next turn of the loop starts a batch with the deferred message or returns it, and
  either would be wrong behind a batch of the same device.

`ProcessOrder` is the turn of the loop of `consume`, once for the deferred message and the received one;
`BatchOrder` is the split of a batch at a frame, whichever batch is due and wherever the
split falls (`SampleCount`). No other action touches what waits. TLC found `OrderInv` true in all
states of run `transport` before it was proved.

### The sensors and their clients (`SensorServiceProofs`)

Who uses a sensor is written down three times: in `SensorRecord` (service), in the batch parameters
of `SensorDevice`, and in the connection's `mSensorInfo`. `HardwareFollowsClients` compares the first two
with the hardware, sensor by sensor (`Follows`). The inductive invariant `HardwareInv` adds

* `UsersKnow`: a user of a sensor has it in its own list, and has enabled it. The destructor of a
  connection switches off what its own list names, so that without this a client
  that dies could leave a sensor running for nobody;
* `SensorTypes`: the shapes of the records, as far as `EXCEPT` needs them.

Most steps change what a connection holds and sends, and not which sensors it has: `SameSensors` says so for
each operator (a write that fails, a cache that overflows), and `SensorsLeft` concludes that
the invariant stays. `DeactivatedHardware` says what `SensorDevice::activate` leaves of a sensor that a client
stops using, whether or not the hardware obeys: the table of periods loses the client in any case, and a
refusal is noted in `unstopped` or `unset`. `ClientLeaves` covers `disable` and the destructor
together with it, and `RateStep` a `setDelay` that may fail. `EnableStep` goes through the
outcomes of `batch` and `activate`: an enable that fails leaves everything as it
was, except for the period of a sensor that is off. One-shot sensors are exempt, as in the
property: they switch themselves off before the service knows. TLC found `HardwareInv` true in all
states of run `sensors` before it was proved.

### The assumptions, and why they are there

Each excludes a behaviour of the code that breaks the property; sections 4 and 5 name
the places.

* No VR mode: it drops the fence that the producer hands in, and frees slots without a broadcast.
* No `consumerAttachBuffer`: such buffers share frame number 0, and `releaseBuffer`
  takes one for another.
* `NoRacingDisconnect`: one thread, or no disconnect or death of the producer. A
  disconnect during an allocation makes `dequeueBuffer` return a FREE slot
  (run `disconnect_race`), which the client then may queue.
* Allocation succeeds: a failed one leaves a DEQUEUED slot that nobody knows.
* `SteadyModes`: all calls synchronous, nobody asks for a queue that cannot block, and
  `setMaxAcquiredBufferCount` is not called. None of these changes broadcasts, and the
  maximum that a sleeping call looks at depends on its own mode.
* One mode only: section 5, second row.
* `NobodyAttaches`: `attachBuffer` leaves `mAcquireCalled` of the slot's last buffer set
  (section 5, fourth row).
* `ReleasesWhatItShows`: a GLConsumer on which `releaseTexImage` is called neither changes its
  context nor fails. `releaseTexImage` names the buffer of the slot, which after a
  failure or a change of context is not always the one it shows (section 5, fifth row).
  The configuration `glContexts` of run `consumers` has all three; it is
  only model-checked.
* `ClientsSucceed`: CpuConsumer and BufferItemConsumer return with the buffer acquired when
  the lock or the wait for its fence fails (section 5).
* `StreamKept`: in every configuration no device is reset, and the key that META replaces is
  absent or nobody calls `setInputDispatchMode` or `setInputFilterEnabled`. A device
  reset keeps the key repeat, which presses the key again; a reset of the dispatcher forgets
  replacements (section 5). With either, TLC finds `NoStuckKey` violated.
* `NoFailedRetry`: a client whose hardware calls may fail enables each sensor once. When it enables one
  again and the call fails, `cleanupWithoutDisableLocked` takes it out as if it had never used
  the sensor, and the hardware stays on (section 5).

### Only model-checked

* Liveness: the prover does not cover it.
* `TouchStreamConsistent` and `MementosMatchStream` of DispatchCycle: they compare with a fold over
  the events of a queue, so that a proof is an induction over the queue.
* The invariants of TouchTargets: its actions fold over targets and modes, for the same reason.
* `AcksExact` and `FlushAnswered` of SensorService: they count events in packets and sum up
  acknowledgements, again by a fold.
* `WakeLockCovers`: it depends on which copies of `mActiveConnections` are in use and on what the
  cache still owes, and section 5 lists the configurations in which it is lost.
* `EachMessageOnce` of InputTransport: what is owed for the events an application holds is a walk
  of `mSeqChains` from its end, so that a proof is an induction over the chains.
  `NoJumpBehindPrediction` is about divisions in a fold over the samples of a batch.

## 7. Plan, and what is not modelled

Done: the BufferQueue and its consumers, InputTransport, the three parts of
InputDispatcher, SensorService; the theorems of section 6. Next, in this order:

1. `EachMessageOnce` of InputTransport without the walk: each chain record joins two messages
   of one event, and no message has two records on either side.
2. The part of TouchTargets that can be stated without a fold: `PointerInOneWindow`.
3. `Surface` composed with BufferQueue (the producer's cache, the flags
   `BUFFER_NEEDS_REALLOCATION` and `RELEASE_ALL_BUFFERS`), and `StreamSplitter` over
   several queues.
4. The composition of DispatchCycle with InputTransport in place of its abstract socket.

Not modelled, and why:

* Binder: reference counts and death notices against a kernel driver whose
  code is not here; the models use it as threads that make calls, and a death notice.
  Parcel marshalling is data.
* Surface, StreamSplitter, MemoryDealer, servicemanager: state under a single lock, left
  for later.
* InputReader, EventHub, key maps and other parsers, libui, sensor fusion: decoding and
  arithmetic without concurrency; the fusion is floating-point.
* EGL loader, libagl, GL tracing, the GL headers: dispatch to a vendor's driver, a software
  renderer, generated code. They are most of the lines of the repository.
* installd and the command-line tools: sequential commands on files.
* The BF single-buffer variants of BufferQueue: used by nothing in the repository.
* SurfaceFlinger: its code is not here.
