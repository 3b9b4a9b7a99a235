--------------------------- MODULE InputTransport ---------------------------
(***************************************************************************)
(* libs/input/InputTransport.cpp: the socket pair through which the input  *)
(* dispatcher (publisher) hands events to an application (consumer) and    *)
(* the application answers when it has finished with them.                 *)
(*                                                                         *)
(* The consumer merges moves into batches, splits batches at frame times,  *)
(* resamples touches, and must still finish every published message once.  *)
(* The coordinates of a pointer are abstracted to the time at which the    *)
(* finger was there: a finger that moves evenly, so that interpolation is  *)
(* exact and a coordinate that goes backwards is a smaller number.         *)
(***************************************************************************)
EXTENDS Integers, Sequences, FiniteSets, SequencesExt

CONSTANTS
    Devices,            \* pairs of a device id and a source
    PointerDevices,     \* those whose source has AINPUT_SOURCE_CLASS_POINTER
    PointerIds,         \* ids of the pointers of a touch
    StylusIds,          \* those with a tool type that is not resampled
    CAPACITY,           \* messages one direction of the socket pair holds
    RESAMPLE_LATENCY, RESAMPLE_MIN_DELTA, RESAMPLE_MAX_PREDICTION,
    Configurations      \* named systems and their bounds; conf is a name

ASSUME TransportConstants ==
    /\ PointerDevices \subseteq Devices /\ StylusIds \subseteq PointerIds
    /\ CAPACITY \in Nat \ {0}
    /\ \A n \in DOMAIN Configurations : LET c == Configurations[n] IN
          /\ c.devices \subseteq Devices /\ c.ids \subseteq PointerIds
          /\ {c.keys, c.answers, c.closes, c.resample} \subseteq BOOLEAN
          /\ {c.maxSeq, c.maxTime} \subseteq Nat /\ c.frameTimes \subseteq Int

VARIABLES
    toClient, toServer,         \* the two directions of the socket pair
    serverOpen, clientOpen,     \* the ends that are not closed
    gesture,                    \* per device, the pointers that are down
    clock,                      \* per device, the time of its last event
    nextSeq,                    \* the next sequence number to publish
    op,                         \* the call the consumer's thread is in
    mMsg,                       \* <<the deferred message>>, or <<>>
    mBatches, mSeqChains, mTouchStates,
    held,                       \* seqs the application has yet to finish
    events,                     \* the messages merged into each event returned
    report,                     \* per device, the samples of its last touch
    finished,                   \* finished signals the publisher received
    conf                        \* what is connected; it never changes

server == <<serverOpen, gesture, clock, nextSeq, finished, conf>>
consumer == <<mMsg, mBatches, mSeqChains, mTouchStates, held, events, report>>
vars == <<toClient, toServer, clientOpen, op, server, consumer>>

It == Configurations[conf]
Actions == It.actions               \* the motion actions the devices produce
mResampleTouch == It.resample       \* ro.input.noresample is not 1
FrameTimes == It.frameTimes         \* arguments of consume, -1 for none

Idle == [call |-> "none"]
Seqs == 1 .. Max({Configurations[n].maxSeq : n \in DOMAIN Configurations})
NoTouch == [known |-> FALSE]
NoDevice == CHOOSE d : d \notin Devices

Init ==
    /\ conf \in DOMAIN Configurations
    /\ toClient = <<>> /\ toServer = <<>>
    /\ serverOpen = TRUE /\ clientOpen = TRUE
    /\ gesture = [d \in Devices |-> {}]
    /\ clock = [d \in Devices |-> 1]
    /\ nextSeq = 1
    /\ op = Idle
    /\ mMsg = <<>> /\ mBatches = <<>> /\ mSeqChains = <<>>
    /\ mTouchStates = [d \in Devices |-> NoTouch]
    /\ held = {} /\ events = <<>> /\ finished = <<>>
    /\ report = [d \in Devices |-> <<>>]

-----------------------------------------------------------------------------
(* The publisher. *)

Motion(d, action, ids, id, time) ==
    [type |-> "MOTION", seq |-> nextSeq, dev |-> d, action |-> action,
     id |-> id, time |-> time, pos |-> [p \in ids |-> time]]

\* The motion events a device can produce next, with the pointers down after.
NextMotions(d, t) ==
    LET down == gesture[d]
        Alone(action) == {<<Motion(d, action, {p}, p, t), {}>> : p \in It.ids}
    IN  IF down = {}
        THEN {<<Motion(d, "DOWN", {p}, p, t), {p}>> : p \in It.ids}
             \cup Alone("HOVER_MOVE") \cup Alone("SCROLL")
        ELSE {<<Motion(d, "MOVE", down, CHOOSE p \in down : TRUE, t), down>>,
              <<Motion(d, "CANCEL", down, CHOOSE p \in down : TRUE, t), {}>>}
             \cup {<<Motion(d, "POINTER_DOWN", down \cup {p}, p, t),
                     down \cup {p}>> : p \in It.ids \ down}
             \cup {<<Motion(d, IF down = {p} THEN "UP" ELSE "POINTER_UP",
                            down, p, t), down \ {p}>> : p \in down}

\* InputChannel::sendMessage for the server's end: WOULD_BLOCK when the socket
\* is full, DEAD_OBJECT when the peer is gone; the caller keeps the message.
CanSend(queue, peerOpen) == peerOpen /\ Len(queue) < CAPACITY

publishMotionEvent(d) ==
    /\ serverOpen /\ nextSeq <= It.maxSeq
    /\ CanSend(toClient, clientOpen)
    /\ \E t \in clock[d] .. It.maxTime : \E m \in NextMotions(d, t) :
          /\ m[1].action \in Actions
          /\ toClient' = Append(toClient, m[1])
          /\ gesture' = [gesture EXCEPT ![d] = m[2]]
          /\ clock' = [clock EXCEPT ![d] = t]
    /\ nextSeq' = nextSeq + 1
    /\ UNCHANGED <<toServer, serverOpen, clientOpen, op, finished, conf, consumer>>

publishKeyEvent ==
    /\ It.keys /\ serverOpen /\ nextSeq <= It.maxSeq
    /\ CanSend(toClient, clientOpen)
    /\ toClient' = Append(toClient, [type |-> "KEY", seq |-> nextSeq])
    /\ nextSeq' = nextSeq + 1
    /\ UNCHANGED <<toServer, serverOpen, clientOpen, op, gesture, clock,
                   finished, conf, consumer>>

receiveFinishedSignal ==
    /\ serverOpen /\ toServer # <<>>
    /\ finished' = Append(finished, Head(toServer))
    /\ toServer' = Tail(toServer)
    /\ UNCHANGED <<toClient, serverOpen, clientOpen, gesture, clock, nextSeq,
                   op, conf, consumer>>

-----------------------------------------------------------------------------
(* Touch state and resampling. *)

SmallerOf(a, b) == IF a < b THEN a ELSE b

\* TouchState::addHistory: the two last samples, the newest first.
AddHistory(state, msg) ==
    [state EXCEPT !.history =
        SubSeq(<<[time |-> msg.time, pos |-> msg.pos]>> \o @, 1,
               SmallerOf(2, Len(@) + 1))]

ClearResample(state, ids) ==
    [state EXCEPT !.resamplePos =
        [p \in DOMAIN @ \ ids |-> state.resamplePos[p]]]

rewriteMessageNever(state, msg) == msg

\* Pointers that were resampled stay where they were last reported.
rewriteMessage(state, msg) ==
    [msg EXCEPT !.pos = [p \in DOMAIN @ |->
        IF p \in DOMAIN state.resamplePos THEN state.resamplePos[p] ELSE @[p]]]

\* Returns <<the device's touch state, the message>>, both updated.
updateTouchState(state, msg) ==
    IF ~mResampleTouch \/ msg.dev \notin PointerDevices THEN <<state, msg>>
    ELSE IF msg.action = "DOWN" THEN
        <<AddHistory([known |-> TRUE, history |-> <<>>, resampleTime |-> 0,
                      resamplePos |-> <<>>], msg), msg>>
    ELSE IF ~state.known \/ msg.action = "HOVER_MOVE" THEN <<state, msg>>
    ELSE CASE msg.action = "MOVE" ->
                LET new == AddHistory(state, msg)
                IN  IF msg.time < state.resampleTime
                    THEN <<new, rewriteMessage(new, msg)>>
                    ELSE <<ClearResample(new, PointerIds), msg>>
           [] msg.action = "POINTER_DOWN" ->
                LET new == ClearResample(state, {msg.id})
                IN  <<new, rewriteMessage(new, msg)>>
           [] msg.action = "POINTER_UP" ->
                <<ClearResample(state, {msg.id}), rewriteMessage(state, msg)>>
           [] msg.action = "SCROLL" -> <<state, rewriteMessage(state, msg)>>
           [] msg.action \in {"UP", "CANCEL"} ->
                <<NoTouch, rewriteMessage(state, msg)>>

Sample(msg) ==
    [time |-> msg.time, pos |-> msg.pos, resampled |-> FALSE,
     lifted |-> IF msg.action = "POINTER_UP" THEN {msg.id} ELSE {}]

\* The time to resample at, and the sample to combine the newest one with:
\* <<time, other>>, or <<>> when the touch is not resampled.
ResamplePlan(state, ids, sampleTime, next) ==
    LET current == state.history[1]
        Far(delta) == delta >= RESAMPLE_MIN_DELTA
    IN  IF ~state.known \/ ~(ids \subseteq DOMAIN current.pos) THEN <<>>
        ELSE IF next # <<>> THEN
            IF Far(next[1].time - current.time)
            THEN <<sampleTime, next[1]>> ELSE <<>>
        ELSE IF Len(state.history) >= 2 THEN
            LET other == state.history[2]
                delta == current.time - other.time
                maxPredict == current.time
                    + SmallerOf(delta \div 2, RESAMPLE_MAX_PREDICTION)
            IN  IF Far(delta)
                THEN <<SmallerOf(sampleTime, maxPredict), other>> ELSE <<>>
        ELSE <<>>

\* lerp(current, other, alpha) with alpha = (at - current) / (other - current),
\* which is what both the interpolation's and the extrapolation's alpha are.
Lerp(current, other, p, at) ==
    current.pos[p] + ((at - current.time) * (other.pos[p] - current.pos[p]))
                         \div (other.time - current.time)

\* Returns <<touch state, samples of the event>>.
resampleTouchState(state, action, samples, sampleTime, next) ==
    LET ids == DOMAIN samples[1].pos
        plan == ResamplePlan(state, ids, sampleTime, next)
    IN  IF action # "MOVE" \/ plan = <<>> THEN <<state, samples>>
        ELSE LET current == state.history[1]
                 other == plan[2]
                 pos == [p \in ids |->
                    IF p \in DOMAIN other.pos /\ p \notin StylusIds
                    THEN Lerp(current, other, p, plan[1])
                    ELSE current.pos[p]]
             IN  <<[state EXCEPT !.resampleTime = plan[1], !.resamplePos = pos],
                   Append(samples, [time |-> plan[1], pos |-> pos,
                                    resampled |-> TRUE, lifted |-> {}])>>

-----------------------------------------------------------------------------
(* The consumer: consume, a loop over messages that other steps interleave. *)

SeqsOf(msgs) == [i \in DOMAIN msgs |-> msgs[i].seq]

\* Returns from consume with an event made of msgs.
ReturnEvent(msgs) ==
    /\ op' = Idle
    /\ held' = held \cup {Last(msgs).seq}
    /\ events' = Append(events, SeqsOf(msgs))

ReportSamples(d, action, samples) ==
    report' = [report EXCEPT ![d] =
                  IF action = "DOWN" THEN samples ELSE @ \o samples]

\* consumeSamples on the first n messages of a batch: <<touch state, samples>>.
MergedSamples(state, msgs) ==
    FoldLeft(LAMBDA acc, m : LET u == updateTouchState(acc[1], m)
                             IN  <<u[1], Append(acc[2], Sample(u[2]))>>,
             <<state, <<>>>>, msgs)

\* The chain records that consumeSamples pushes for the messages of an event.
ChainOf(msgs) ==
    [i \in 1 .. Len(msgs) - 1 |-> [seq |-> msgs[i + 1].seq, chain |-> msgs[i].seq]]

consumeSamples(msgs, sampleTime, next, resample) ==
    LET d == msgs[1].dev
        merged == MergedSamples(mTouchStates[d], msgs)
        out == IF resample /\ mResampleTouch /\ d \in PointerDevices
               THEN resampleTouchState(merged[1], msgs[1].action, merged[2],
                                       sampleTime, next)
               ELSE merged
    IN  /\ mSeqChains' = mSeqChains \o ChainOf(msgs)
        /\ mTouchStates' = [mTouchStates EXCEPT ![d] = out[1]]
        /\ ReportSamples(d, msgs[1].action, out[2])
        /\ ReturnEvent(msgs)

findFirstBatch(d) ==
    IF mBatches # <<>> /\ mBatches[1][1].dev = d THEN 1 ELSE 0

findBatch(d) == SelectInSeq(mBatches, LAMBDA b : b[1].dev = d)

canAddSample(batch, msg) ==
    /\ DOMAIN batch[1].pos = DOMAIN msg.pos
    /\ batch[1].action = msg.action

findSampleNoLaterThan(batch, time) ==
    Cardinality({i \in DOMAIN batch : \A j \in 1 .. i : batch[j].time <= time})

\* consumeBatch: the last batch with a sample that is due, or every sample of
\* the last batch when the frame time is unknown.
SampleTime(frameTime) ==
    IF mResampleTouch THEN frameTime - RESAMPLE_LATENCY ELSE frameTime

DueBatches(frameTime) ==
    {i \in DOMAIN mBatches : \/ frameTime < 0
        \/ findSampleNoLaterThan(mBatches[i], SampleTime(frameTime)) > 0}

consumeBatch(frameTime) ==
    \E i \in DueBatches(frameTime) :
        LET batch == mBatches[i]
            n == IF frameTime < 0 THEN Len(batch)
                 ELSE findSampleNoLaterThan(batch, SampleTime(frameTime))
            rest == SubSeq(batch, n + 1, Len(batch))
        IN  /\ \A k \in DueBatches(frameTime) : k <= i
            /\ consumeSamples(SubSeq(batch, 1, n), SampleTime(frameTime),
                              SubSeq(rest, 1, SmallerOf(1, Len(rest))),
                              frameTime >= 0)
            /\ mBatches' = IF rest = <<>> THEN RemoveAt(mBatches, i)
                           ELSE [mBatches EXCEPT ![i] = rest]

consumeCall(batches, frameTime) ==
    /\ clientOpen /\ op = Idle
    /\ op' = [call |-> "consume", batches |-> batches, frameTime |-> frameTime]
    /\ UNCHANGED <<toClient, toServer, clientOpen, server, consumer>>

\* The loop's body on one message, the deferred one or a fresh one.
ProcessKey(msg) ==
    /\ msg.type = "KEY"
    /\ ReturnEvent(<<msg>>)
    /\ mMsg' = <<>>
    /\ UNCHANGED <<mBatches, mSeqChains, mTouchStates, report>>

AppendToBatch(msg) ==
    /\ msg.type = "MOTION" /\ findBatch(msg.dev) # 0
    /\ canAddSample(mBatches[findBatch(msg.dev)], msg)
    /\ mBatches' = [mBatches EXCEPT ![findBatch(msg.dev)] = Append(@, msg)]
    /\ mMsg' = <<>>
    /\ UNCHANGED <<op, mSeqChains, mTouchStates, held, events, report>>

FlushBatchOnly(msg) ==
    /\ msg.type = "MOTION" /\ findBatch(msg.dev) # 0
    /\ ~canAddSample(mBatches[findBatch(msg.dev)], msg)
    /\ consumeSamples(mBatches[findBatch(msg.dev)], 0, <<>>, FALSE)
    /\ mBatches' = RemoveAt(mBatches, findBatch(msg.dev))
    /\ mMsg' = <<>>

FlushBatchAndDefer(msg) ==
    /\ msg.type = "MOTION" /\ findBatch(msg.dev) # 0
    /\ ~canAddSample(mBatches[findBatch(msg.dev)], msg)
    /\ consumeSamples(mBatches[findBatch(msg.dev)], 0, <<>>, FALSE)
    /\ mBatches' = RemoveAt(mBatches, findBatch(msg.dev))
    /\ mMsg' = <<msg>>

StartBatch(msg) ==
    /\ msg.type = "MOTION" /\ findBatch(msg.dev) = 0
    /\ msg.action \in {"MOVE", "HOVER_MOVE"}
    /\ mBatches' = Append(mBatches, <<msg>>)
    /\ mMsg' = <<>>
    /\ UNCHANGED <<op, mSeqChains, mTouchStates, held, events, report>>

ReturnMotion(msg) ==
    /\ msg.type = "MOTION" /\ findBatch(msg.dev) = 0
    /\ msg.action \notin {"MOVE", "HOVER_MOVE"}
    /\ LET u == updateTouchState(mTouchStates[msg.dev], msg)
       IN  /\ mTouchStates' = [mTouchStates EXCEPT ![msg.dev] = u[1]]
           /\ ReportSamples(msg.dev, msg.action, <<Sample(u[2])>>)
    /\ ReturnEvent(<<msg>>)
    /\ mMsg' = <<>>
    /\ UNCHANGED <<mBatches, mSeqChains>>

ProcessMessage(msg) ==
    \/ ProcessKey(msg)
    \/ AppendToBatch(msg)
    \/ FlushBatchAndDefer(msg)
    \/ StartBatch(msg)
    \/ ReturnMotion(msg)

consumeDeferred ==
    /\ clientOpen /\ op.call = "consume" /\ mMsg # <<>>
    /\ ProcessMessage(mMsg[1])
    /\ UNCHANGED <<toClient, toServer, clientOpen, server>>

consumeReceived ==
    /\ clientOpen /\ op.call = "consume" /\ mMsg = <<>> /\ toClient # <<>>
    /\ ProcessMessage(Head(toClient))
    /\ toClient' = Tail(toClient)
    /\ UNCHANGED <<toServer, clientOpen, server>>

\* receiveMessage fails: WOULD_BLOCK, or DEAD_OBJECT once the server is gone.
consumeExhausted ==
    /\ clientOpen /\ op.call = "consume" /\ mMsg = <<>> /\ toClient = <<>>
    /\ \/ /\ op.batches \/ ~serverOpen
          /\ consumeBatch(op.frameTime)
          /\ UNCHANGED mMsg
       \/ /\ ~(op.batches \/ ~serverOpen) \/ DueBatches(op.frameTime) = {}
          /\ op' = Idle
          /\ UNCHANGED consumer
    /\ UNCHANGED <<toClient, toServer, clientOpen, server>>

-----------------------------------------------------------------------------
(* The consumer: sendFinishedSignal, one socket write at a time. *)

\* The walk of mSeqChains from its end: older seqs of seq's event, oldest
\* first, and the records that are left.
ChainWalk(seq) ==
    FoldRight(LAMBDA link, acc :
                  IF link.seq = acc.current
                  THEN [current |-> link.chain, rest |-> acc.rest,
                        chain |-> <<link.chain>> \o acc.chain]
                  ELSE [acc EXCEPT !.rest = <<link>> \o @],
              mSeqChains, [current |-> seq, chain |-> <<>>, rest |-> <<>>])

sendFinishedSignal(seq) ==
    /\ It.answers /\ clientOpen /\ op = Idle /\ seq \in held
    /\ op' = [call |-> "finish", seq |-> seq,
              unsent |-> Append(ChainWalk(seq).chain, seq)]
    /\ mSeqChains' = ChainWalk(seq).rest
    /\ UNCHANGED <<toClient, toServer, clientOpen, server, mMsg, mBatches,
                   mTouchStates, held, events, report>>

sendUnchainedFinishedSignal ==
    /\ clientOpen /\ op.call = "finish"
    /\ CanSend(toServer, serverOpen)
    /\ toServer' = Append(toServer, Head(op.unsent))
    /\ IF Len(op.unsent) = 1
       THEN op' = Idle /\ held' = held \ {op.seq}
       ELSE op' = [op EXCEPT !.unsent = Tail(@)] /\ UNCHANGED held
    /\ UNCHANGED <<toClient, clientOpen, server, mMsg, mBatches, mSeqChains,
                   mTouchStates, events, report>>

LostChain(unsent) == <<>>

\* The chain of the signals that were not sent.
ReconstructedChain(unsent) ==
    [i \in 1 .. Len(unsent) - 1 |-> [seq |-> unsent[i + 1], chain |-> unsent[i]]]

\* A write fails: the chain is rebuilt and the application will try again.
sendFailed ==
    /\ clientOpen /\ op.call = "finish"
    /\ ~CanSend(toServer, serverOpen)
    /\ mSeqChains' = mSeqChains \o ReconstructedChain(op.unsent)
    /\ op' = Idle
    /\ UNCHANGED <<toClient, toServer, clientOpen, server, mMsg, mBatches,
                   mTouchStates, held, events, report>>

-----------------------------------------------------------------------------
(* Either end may be closed at any time; InputChannel::~InputChannel. *)

closeServer ==
    /\ It.closes /\ serverOpen /\ serverOpen' = FALSE
    /\ UNCHANGED <<toClient, toServer, clientOpen, op, gesture, clock, nextSeq,
                   finished, conf, consumer>>

closeClient ==
    /\ It.closes /\ clientOpen /\ clientOpen' = FALSE
    /\ UNCHANGED <<toClient, toServer, op, server, consumer>>

Next ==
    \/ \E d \in It.devices : publishMotionEvent(d)
    \/ publishKeyEvent
    \/ receiveFinishedSignal
    \/ \E b \in BOOLEAN, f \in FrameTimes : consumeCall(b, f)
    \/ consumeDeferred
    \/ consumeReceived
    \/ consumeExhausted
    \/ \E s \in held : sendFinishedSignal(s)
    \/ sendUnchainedFinishedSignal
    \/ sendFailed
    \/ closeServer
    \/ closeClient

Spec == Init /\ [][Next]_vars

\* An application that answers keeps serving its end of the channel: its
\* looper reads until the socket is dry, takes its batches at the next frame
\* and retries a finished signal that did not go out; and the dispatcher's
\* looper reads signals that arrive.
Fairness ==
    /\ WF_vars(receiveFinishedSignal)
    /\ SF_vars(It.answers /\ \E f \in FrameTimes : f < 0 /\ consumeCall(TRUE, f))
    /\ WF_vars(/\ It.answers
               /\ consumeDeferred \/ consumeReceived \/ consumeExhausted)
    /\ \A s \in Seqs : SF_vars(s \in held /\ sendFinishedSignal(s))
    /\ WF_vars(sendUnchainedFinishedSignal \/ sendFailed)

LiveSpec == Spec /\ Fairness

-----------------------------------------------------------------------------
(* Properties *)

ChainBelow[s \in Seqs] ==
    LET i == SelectLastInSeq(mSeqChains, LAMBDA l : l.seq = s)
    IN  IF i = 0 THEN <<>>
        ELSE Append(ChainBelow[mSeqChains[i].chain], mSeqChains[i].chain)

\* What sendFinishedSignal would still send for the events the application has.
Owed == FoldSet(LAMBDA s, acc : acc \o
                    IF op.call = "finish" /\ op.seq = s THEN op.unsent
                    ELSE Append(ChainBelow[s], s),
                <<>>, held)

Whereabouts ==
    SeqsOf(toClient) \o SeqsOf(mMsg)
    \o FlattenSeq([i \in DOMAIN mBatches |-> SeqsOf(mBatches[i])])
    \o Owed \o toServer \o finished

\* Every published message is in one place: on its way, deferred, in a batch,
\* owed by an event the application holds, or finished; never lost and never
\* finished twice, whatever writes fail half-way through a batch's signals
\* (sendFinishedSignal's chain and its reconstruction, mMsgDeferred).
EachMessageOnce ==
    /\ Len(Whereabouts) = nextSeq - 1
    /\ ToSet(Whereabouts) = 1 .. nextSeq - 1

\* Batching never reorders the messages of one device: whatever is held back
\* is older than what is still to come (findBatch, deferred messages).
DeviceOrderKept ==
    LET waiting == mBatches \o <<mMsg, toClient>>
        Of(m, d) == m.type = "MOTION" /\ m.dev = d
        Ahead(k, i, l, j) == k < l \/ (k = l /\ i < j)
    IN  /\ \A d \in Devices : \A k, l \in DOMAIN waiting :
              \A i \in DOMAIN waiting[k], j \in DOMAIN waiting[l] :
                 LET m == waiting[k][i]  n == waiting[l][j]
                 IN  Ahead(k, i, l, j) /\ Of(m, d) /\ Of(n, d) => m.seq < n.seq
        /\ \A k, l \in DOMAIN mBatches :
              mBatches[k][1].dev = mBatches[l][1].dev => k = l

\* A pointer is never reported behind the place where the last resampled touch
\* put it (rewriteMessage): a finger that stays down does not jump back because
\* of prediction.
NoJumpBehindPrediction ==
    \A d \in Devices : \A i, j \in DOMAIN report[d] :
        (/\ i < j /\ report[d][i].resampled
         /\ \A k \in i + 1 .. j : ~report[d][k].resampled) =>
            \A p \in DOMAIN report[d][i].pos \cap DOMAIN report[d][j].pos :
                \/ \E k \in i + 1 .. j - 1 : p \in report[d][k].lifted
                \/ report[d][j].pos[p] >= report[d][i].pos[p]

\* "If the message is in the past relative to the most recently produced
\* resampled touch, then use the resampled time and coordinates instead": the
\* samples of a touch are reported in the order of their times.
ReportedTimesOrdered ==
    \A d \in Devices : \A i \in 2 .. Len(report[d]) :
        report[d][i - 1].time <= report[d][i].time

\* A published message is finished in the end, with sockets that fill up in
\* both directions and batches that wait for a frame, when the application
\* answers and neither process dies.
AllFinished ==
    \A s \in Seqs : (nextSeq > s /\ It.answers /\ ~It.closes) ~>
                         (s \in ToSet(finished))
=============================================================================
