--------------------------- MODULE SensorService ---------------------------
(***************************************************************************)
(* services/sensorservice: SensorService with its connections,             *)
(* SensorDevice and, in libs/gui, the client's SensorEventQueue.           *)
(*                                                                         *)
(* Four kinds of threads meet here: the service's own, which polls the HAL *)
(* and sends events to the connections; the acknowledgement receiver,      *)
(* which runs a looper over the connections' sockets; binder threads that  *)
(* carry the clients' calls; and the clients, which read events,           *)
(* acknowledge the ones of wake-up sensors, and die.                       *)
(***************************************************************************)
EXTENDS Integers, Sequences, FiniteSets, SequencesExt

CONSTANTS
    Connections,        \* one SensorEventConnection for each client
    NoConnection,       \* the null pointer
    MAX_SOCKET_BUFFER,  \* events cached for sensors without a FIFO
    Configurations      \* named systems and their bounds; conf is a name

ASSUME SensorConstants ==
    /\ NoConnection \notin Connections
    /\ MAX_SOCKET_BUFFER \in Nat \ {0}
    /\ \A n \in DOMAIN Configurations : LET c == Configurations[n] IN
          /\ c.connections \subseteq Connections
          /\ \A s \in DOMAIN c.sensors : LET t == c.sensors[s] IN
                /\ t.mode \in {"CONTINUOUS", "ON_CHANGE", "ONE_SHOT"}
                /\ {t.wakeUp, t.shared} \subseteq BOOLEAN /\ t.fifo \in Nat
          /\ {c.flushes, c.fails, c.dies, c.races, c.again} \subseteq BOOLEAN
          /\ c.fails => c.flushes       \* failures are those of a HAL that batches
          /\ {c.poll, c.write, c.capacity} \subseteq Nat \ {0}
          \* What one poll brings fits in an empty cache.
          /\ c.poll <= MAX_SOCKET_BUFFER
          /\ \A s \in DOMAIN c.sensors :
                c.sensors[s].fifo = 0 \/ c.sensors[s].fifo >= c.poll
          /\ {c.maxEvents, c.maxCalls} \subseteq Nat
          /\ c.calls \subseteq {"enable", "disable", "flush", "setEventRate"}
          /\ c.rates \subseteq Nat \ {0}

VARIABLES
    mActiveSensors,     \* per sensor, the connections and the flush() calls
    mActiveConnections,
    mWakeLockAcquired,
    mLastEventSeen,     \* per sensor, <<its last event>> or <<>>
    conn,               \* the connections, with their sockets and clients
    gone,               \* connections whose destructor has run
    loop,               \* SensorService::threadLoop: where it is, its locals
    ack,                \* SensorEventAckReceiver::threadLoop, and its looper
    mActivationCount,   \* SensorDevice: per sensor, the period per client
    hal,                \* the hardware: what is on, its rate and its FIFO, and
                        \* the sensors it last refused to stop, or to set
    timedOut,           \* an acknowledgement was given up
    made, calls,        \* events and calls so far, which are bounded
    conf                \* what is connected; it never changes

service == <<mActiveSensors, mActiveConnections, mWakeLockAcquired, mLastEventSeen>>
device == <<mActivationCount, hal>>
bounds == <<made, calls, conf>>
vars == <<service, conn, gone, loop, ack, device, timedOut, bounds>>

It == Configurations[conf]
Sensors == DOMAIN It.sensors
IsWakeUpSensor(s) == It.sensors[s].wakeUp
ReportingMode(s) == It.sensors[s].mode

NoRecord == [connections |-> {}, flushes |-> <<>>]
Silence == [s \in Sensors |-> 0]

\* A new connection: FlushInfo per sensor, mWakeLockRefCount, mDead, the
\* events its fd is polled for, mEventCache and mMaxCacheSize; its two sockets;
\* its client, mNumAcksToSend, the flushes it asked for and got answers to, those
\* whose answer an overflowing cache lost, and the sensors it ever enabled.
NewConnection ==
    [info |-> <<>>, refs |-> 0, mDead |-> FALSE, polled |-> {},
     cache |-> <<>>, maxCache |-> 0, missing |-> FALSE,
     toClient |-> <<>>, toServer |-> <<>>,
     alive |-> TRUE, acks |-> 0, asked |-> Silence, got |-> Silence, lost |-> Silence,
     had |-> {}]

Init ==
    /\ conf \in DOMAIN Configurations
    /\ mActiveSensors = [s \in Sensors |-> NoRecord]
    /\ mActiveConnections = {} /\ mWakeLockAcquired = FALSE
    /\ mLastEventSeen = [s \in Sensors |-> <<>>]
    /\ conn = [c \in It.connections |-> NewConnection]
    /\ gone = {}
    /\ loop = [at |-> "poll", buffer |-> <<>>, connections |-> {}]
    /\ ack = [at |-> "check", conn |-> NoConnection, timeout |-> FALSE,
              woken |-> FALSE, connections |-> {}]
    /\ mActivationCount = [s \in Sensors |-> <<>>]
    /\ hal = [on |-> {}, rate |-> Silence, fifo |-> <<>>,
              unstopped |-> {}, unset |-> {}]
    /\ timedOut = FALSE
    /\ made = 0 /\ calls = 0

\* Function f with value v at x.
With(f, x, v) == [y \in DOMAIN f \cup {x} |-> IF y = x THEN v ELSE f[y]]

Data(s) == [s |-> s, type |-> "DATA", needsAck |-> FALSE]
FlushComplete(s) == [s |-> s, type |-> "META_DATA", needsAck |-> FALSE]

\* How many of the events complete a flush of sensor s.
Completes(events, s) ==
    Len(SelectSeq(events, LAMBDA e : e.type = "META_DATA" /\ e.s = s))

-----------------------------------------------------------------------------
(* SensorEventConnection. These operators take the record of a connection. *)

needsWakeLock(k) == ~k.mDead /\ k.refs > 0

\* BitTube: a packet is written as a whole or not at all.
Room(k) == IF k.alive THEN It.capacity - Len(k.toClient) ELSE 0
CanWrite(k) == Room(k) > 0

updateLooperRegistration(k) ==
    [k EXCEPT !.polled =
        IF DOMAIN k.info = {} \/ k.mDead THEN {}
        ELSE (IF k.cache # <<>> THEN {"OUTPUT"} ELSE {}) \cup
             (IF \E s \in DOMAIN k.info : IsWakeUpSensor(s) THEN {"INPUT"} ELSE {})]

\* Reserved FIFOs add up, of shared ones the largest counts.
computeMaxCacheSize(k) ==
    LET Fifo(wakeUp) ==
            FoldLeft(LAMBDA n, s : LET t == It.sensors[s] IN
                         IF t.wakeUp # wakeUp THEN n
                         ELSE IF ~t.shared THEN n + t.fifo
                         ELSE Max({n, t.fifo}),
                     0, SetToSortSeq(DOMAIN k.info, <))
        total == Fifo(TRUE) + Fifo(FALSE)
    IN  IF total = 0 THEN MAX_SOCKET_BUFFER ELSE total

\* The first event of a wake-up sensor in a packet, 0 if there is none.
findWakeUpSensorEvent(events) ==
    SelectInSeq(events, LAMBDA e : IsWakeUpSensor(e.s))

FlagSet(events, i, value) ==
    IF i = 0 THEN events ELSE [events EXCEPT ![i].needsAck = value]

\* The packet as it goes out: the client has to acknowledge an event that can
\* wake it up.
Flagged(events) == FlagSet(events, findWakeUpSensorEvent(events), TRUE)

Sent(k, events) ==
    [k EXCEPT !.toClient = Append(@, Flagged(events)),
              !.refs = IF findWakeUpSensorEvent(events) = 0 THEN @ ELSE @ + 1]

\* The sensors of the flush complete events that are owed, in the order in
\* which they are sent.
FlushesDue(k) ==
    LET order == SetToSortSeq(DOMAIN k.info, <)
        Due(s) == [n \in 1 .. k.info[s].mPendingFlushEventsToSend |-> s]
    IN  FlattenSeq([i \in DOMAIN order |-> Due(order[i])])

\* As many as there is room for, each in a packet of its own. The flag of
\* flushCompleteEvent is set for a wake-up sensor and never taken back.
sendPendingFlushEvents(k) ==
    LET due == FlushesDue(k)
        sent == SubSeq(due, 1, Min({Room(k), Len(due)}))
        Wakes(i) == \E j \in 1 .. i : IsWakeUpSensor(sent[j])
        Packet(i) == <<[FlushComplete(sent[i]) EXCEPT !.needsAck = Wakes(i)]>>
        SentFor(s) == Len(SelectSeq(sent, LAMBDA x : x = s))
        Left(s) == [k.info[s] EXCEPT !.mPendingFlushEventsToSend = @ - SentFor(s)]
    IN  [k EXCEPT
            !.toClient = @ \o [i \in DOMAIN sent |-> Packet(i)],
            !.refs = @ + Len(SelectSeq(sent, IsWakeUpSensor)),
            !.info = [s \in DOMAIN @ |-> Left(s)]]

\* Mutant: flush complete events are dropped like any other.
NoneCounted(k, dropped) == k

\* editValueFor of a sensor that is no longer registered is fatal: missing.
countFlushCompleteEvents(k, dropped) ==
    LET Dropped(s) == Completes(dropped, s)
        Owed(s) == [k.info[s] EXCEPT !.mPendingFlushEventsToSend = @ + Dropped(s)]
    IN  [k EXCEPT !.info = [s \in DOMAIN @ |-> Owed(s)],
                  !.missing = @ \/ \E s \in Sensors \ DOMAIN k.info : Dropped(s) > 0]

\* The oldest events make room. What was copied behind the cache first is lost,
\* for memmove moves mCacheSize events and no more.
DropOldest(k, events) ==
    LET room == k.maxCache - Len(k.cache)
        n == Len(events) - room
    IN  [countFlushCompleteEvents(k, SubSeq(k.cache, 1, n)) EXCEPT
            !.cache = SubSeq(@, n + 1, Len(@))
                      \o SubSeq(events, room + 1, Len(events)),
            !.lost = [s \in Sensors |->
                         @[s] + Completes(SubSeq(events, 1, room), s)]]

Cached(k, events) ==
    LET size == Len(k.cache) + Len(events)
    IN  IF size <= k.maxCache THEN [k EXCEPT !.cache = @ \o events]
        ELSE IF size < computeMaxCacheSize(k)
        THEN [k EXCEPT !.cache = @ \o events, !.maxCache = computeMaxCacheSize(k)]
        ELSE DropOldest(k, events)

\* Mutant: the reference taken for the packet is not given back.
WriteFailedCounted(k, events) ==
    updateLooperRegistration(
        [k EXCEPT !.cache = events,
                  !.refs = IF findWakeUpSensorEvent(events) = 0 THEN @ ELSE @ + 1,
                  !.maxCache = IF @ = 0 THEN computeMaxCacheSize(k) ELSE @])

WriteFailed(k, events) ==
    updateLooperRegistration(
        [k EXCEPT !.cache = FlagSet(events, findWakeUpSensorEvent(events), FALSE),
                  !.maxCache = IF @ = 0 THEN computeMaxCacheSize(k) ELSE @])

\* sendEvents, once it knows which events are for this connection.
sendEvents(k0, events) ==
    LET k == sendPendingFlushEvents(k0)
    IN  IF events = <<>> THEN k
        ELSE IF k.cache # <<>> THEN Cached(k, events)
        ELSE IF CanWrite(k) THEN Sent(k, events)
        ELSE WriteFailed(k, events)

\* As many packets of at most It.write events as there is room for.
WriteCache(k) ==
    LET size == Len(k.cache)
        Packet(i) == SubSeq(k.cache, (i - 1) * It.write + 1, Min({i * It.write, size}))
        n == Min({Room(k), (size + It.write - 1) \div It.write})
        Wakes(i) == findWakeUpSensorEvent(Packet(i)) # 0
        rest == SubSeq(k.cache, n * It.write + 1, size)
        written == [k EXCEPT !.toClient = @ \o [i \in 1 .. n |-> Flagged(Packet(i))],
                             !.refs = @ + Cardinality({i \in 1 .. n : Wakes(i)})]
    IN  IF rest = <<>> THEN updateLooperRegistration([written EXCEPT !.cache = <<>>])
        ELSE [written EXCEPT !.cache =
                 FlagSet(rest, findWakeUpSensorEvent(Packet(n + 1)), FALSE)]
writeToSocketFromCache(k) == WriteCache(sendPendingFlushEvents(k))

addSensor(k, s) ==
    IF s \in DOMAIN k.info THEN k
    ELSE [k EXCEPT !.info = With(@, s, [mPendingFlushEventsToSend |-> 0,
                                        mFirstFlushPending |-> FALSE])]

removeSensors(k, removed) ==
    LET Kept(f) == [s \in Sensors |-> IF s \in removed THEN 0 ELSE f[s]]
    IN  [k EXCEPT !.info = Restrict(@, DOMAIN @ \ removed),
                  !.asked = Kept(@), !.got = Kept(@), !.lost = Kept(@)]

-----------------------------------------------------------------------------
(* SensorRecord, SensorDevice and the wake lock. *)

\* The connections of a set are removed one by one; a record without any goes.
removeConnections(rec, cs) ==
    IF cs # {} /\ rec.connections \subseteq cs THEN NoRecord
    ELSE [connections |-> rec.connections \ cs,
          flushes |-> SelectSeq(rec.flushes, LAMBDA d : d \notin cs)]
removeConnection(rec, c) == removeConnections(rec, {c})

\* cleanupWithoutDisableLocked, for connection c and the sensors of a set.
CleanedUp(k, removed) ==
    LET k1 == removeSensors(k, removed)
    IN  IF removed # {} /\ DOMAIN k1.info = {} THEN updateLooperRegistration(k1) ELSE k1

\* Info::selectBatchParams: the shortest period any client asked for.
BestParams(params) == IF DOMAIN params = {} THEN -1 ELSE Min(Range(params))

WithoutIdent(params, c) == Restrict(params, DOMAIN params \ {c})

\* Mutant: the others are left with the period of the one that went.
DeactivatedLast(sensors, c, obeyed) ==
    [hal EXCEPT !.on = @ \ {s \in sensors \cap obeyed :
                                DOMAIN mActivationCount[s] = {c}}]

\* The hardware after SensorDevice::activate with enabled = false on each sensor
\* of a set. The client is out whether the hardware obeys or not; it does for
\* the sensors in obeyed.
Deactivated(sensors, c, obeyed) ==
    LET used == {s \in sensors : c \in DOMAIN mActivationCount[s]}
        left == [s \in used |-> WithoutIdent(mActivationCount[s], c)]
        stop == {s \in used : DOMAIN left[s] = {}}
        set == used \ stop
    IN  [hal EXCEPT
            !.on = @ \ (stop \cap obeyed),
            !.rate = [s \in Sensors |-> IF s \in set \cap obeyed
                                        THEN BestParams(left[s]) ELSE @[s]],
            !.unstopped = (@ \ stop) \cup (stop \ obeyed),
            !.unset = (@ \ set) \cup (set \ obeyed)]

\* A connection that someone refers to; promote() fails on the others.
Referenced(c) ==
    /\ c \notin gone
    /\ \/ conn[c].alive \/ conn[c].polled # {}
       \/ c \in loop.connections \cup ack.connections \cup {ack.conn}

populateActiveConnections == {c \in mActiveConnections : Referenced(c)}

\* What checkWakeLockStateLocked leaves of the wake lock.
checkWakeLockState(acquired) ==
    acquired /\ \E c \in populateActiveConnections : needsWakeLock(conn[c])

\* Mutant: the looper sleeps on without a timeout.
NotWoken(needed) == ack

\* setWakeLockAcquiredLocked(true) wakes the looper, so that it sets its timeout.
LooperWoken(needed) == [ack EXCEPT !.woken = @ \/ needed]

-----------------------------------------------------------------------------
(* Calls of the clients, each under mLock. *)

\* Without races nobody calls while a thread uses a copy of mActiveConnections.
CanCall(c, call) ==
    /\ conn[c].alive /\ call \in It.calls /\ calls < It.maxCalls
    /\ It.races \/ (loop.at # "dispatch" /\ ack.at # "resetting")
    /\ calls' = calls + 1

Outcomes == IF It.fails THEN BOOLEAN ELSE {TRUE}
Obeying == {Sensors} \cup (IF It.fails THEN SUBSET Sensors ELSE {})

\* The last value of an on-change sensor that is already active goes to the
\* new connection at once.
SendsLastValue(c, s) ==
    /\ mActiveSensors[s].connections # {} /\ c \notin mActiveSensors[s].connections
    /\ ReportingMode(s) = "ON_CHANGE" /\ mLastEventSeen[s] # <<>>

\* A client that enables each sensor once and does not come back after it has
\* disabled them all.
ComesOnce(c, s) ==
    s \notin conn[c].had /\ (conn[c].had = {} \/ DOMAIN conn[c].info # {})

enable(c, s, rate, batchOk, flushOk, activateOk) ==
    LET repeats == SendsLastValue(c, s)
        wakes == repeats /\ IsWakeUpSensor(s)
        before == sendPendingFlushEvents(conn[c])
        k1 == IF repeats THEN sendEvents(conn[c], mLastEventSeen[s]) ELSE conn[c]
        k2 == [addSensor(k1, s) EXCEPT !.had = @ \cup {s}]
        conns == mActiveSensors[s].connections \cup {c}
        params == With(mActivationCount[s], c, rate)
        changed == BestParams(params) # BestParams(mActivationCount[s])
        batched == ~changed \/ batchOk
        flushing == /\ batched /\ It.flushes
                    /\ ReportingMode(s) # "ONE_SHOT" /\ Cardinality(conns) > 1
        k3 == IF flushing THEN [k2 EXCEPT !.info[s].mFirstFlushPending = flushOk]
              ELSE k2
        actuates == batched /\ DOMAIN params = {c}
        ok == batched /\ (actuates => activateOk)
        rec == [connections |-> conns,
                flushes |-> IF flushing /\ flushOk
                            THEN Append(mActiveSensors[s].flushes, c)
                            ELSE mActiveSensors[s].flushes]
    IN  /\ CanCall(c, "enable")
        /\ It.again \/ ComesOnce(c, s)
        /\ mLastEventSeen' =
              IF wakes /\ before.cache = <<>>
              THEN [mLastEventSeen EXCEPT ![s] = FlagSet(@, 1, CanWrite(before))]
              ELSE mLastEventSeen
        /\ mWakeLockAcquired' =
              IF repeats /\ ~needsWakeLock(k1)
              THEN checkWakeLockState(mWakeLockAcquired \/ wakes)
              ELSE mWakeLockAcquired \/ wakes
        /\ ack' = LooperWoken(wakes /\ ~mWakeLockAcquired)
        /\ hal' = [hal EXCEPT
              !.rate[s] = IF changed /\ batched THEN BestParams(params) ELSE @,
              !.fifo = IF flushing /\ flushOk THEN Append(@, FlushComplete(s)) ELSE @,
              !.on = IF actuates /\ activateOk THEN @ \cup {s} ELSE @,
              !.unstopped = IF actuates /\ activateOk THEN @ \ {s} ELSE @,
              !.unset = IF changed /\ batched THEN @ \ {s} ELSE @]
        /\ mActivationCount' = [mActivationCount EXCEPT ![s] =
              IF ok THEN params ELSE WithoutIdent(@, c)]
        /\ mActiveSensors' = [mActiveSensors EXCEPT ![s] =
              IF ok THEN rec ELSE removeConnection(rec, c)]
        /\ conn' = [conn EXCEPT ![c] =
              IF ok THEN updateLooperRegistration(k3) ELSE CleanedUp(k3, {s})]
        /\ mActiveConnections' =
              IF ok \/ DOMAIN k3.info # {s} THEN mActiveConnections \cup {c}
              ELSE mActiveConnections \ {c}
        /\ UNCHANGED <<gone, loop, timedOut, made, conf>>

disable(c, s, obeyed) ==
    LET k == CleanedUp(conn[c], {s})
    IN  /\ CanCall(c, "disable") /\ s \in DOMAIN conn[c].info
        /\ mActiveSensors' = [mActiveSensors EXCEPT ![s] = removeConnection(@, c)]
        /\ conn' = [conn EXCEPT ![c] = k]
        /\ mActiveConnections' = IF DOMAIN k.info = {} THEN mActiveConnections \ {c}
                                 ELSE mActiveConnections
        /\ hal' = Deactivated({s}, c, obeyed)
        /\ mActivationCount' = [mActivationCount EXCEPT ![s] = WithoutIdent(@, c)]
        /\ UNCHANGED <<mWakeLockAcquired, mLastEventSeen, gone, loop, ack,
                       timedOut, made, conf>>

\* Old HALs cannot flush: the service answers itself, before the next events.
flushSensor(c, accepted) ==
    LET own == {s \in DOMAIN conn[c].info : ReportingMode(s) # "ONE_SHOT"}
        done == IF It.flushes THEN own \cap accepted ELSE own
        order == SetToSortSeq(done, <)
        Owed(s) == [conn[c].info[s] EXCEPT !.mPendingFlushEventsToSend = @ + 1]
        k == [conn[c] EXCEPT
                !.asked = [s \in Sensors |-> IF s \in done THEN @[s] + 1 ELSE @[s]],
                !.info = [s \in DOMAIN @ |->
                             IF s \in done /\ ~It.flushes THEN Owed(s) ELSE @[s]]]
    IN  /\ CanCall(c, "flush") /\ done # {}
        /\ conn' = [conn EXCEPT ![c] = k]
        /\ IF It.flushes
           THEN /\ hal' = [hal EXCEPT !.fifo =
                              @ \o [i \in DOMAIN order |-> FlushComplete(order[i])]]
                /\ mActiveSensors' = [s \in Sensors |->
                      IF s \in done
                      THEN [mActiveSensors[s] EXCEPT !.flushes = Append(@, c)]
                      ELSE mActiveSensors[s]]
           ELSE UNCHANGED <<hal, mActiveSensors>>
        /\ UNCHANGED <<mActiveConnections, mWakeLockAcquired, mLastEventSeen, gone,
                       loop, ack, mActivationCount, timedOut, made, conf>>

\* SensorDevice::setDelay keeps the period also when the hardware refuses it.
setEventRate(c, s, rate, ok) ==
    LET params == [mActivationCount[s] EXCEPT ![c] = rate]
    IN  /\ CanCall(c, "setEventRate") /\ c \in DOMAIN mActivationCount[s]
        /\ mActivationCount' = [mActivationCount EXCEPT ![s] = params]
        /\ hal' = [hal EXCEPT !.rate[s] = IF ok THEN BestParams(params) ELSE @,
                              !.unset = IF ok THEN @ \ {s} ELSE @ \cup {s}]
        /\ UNCHANGED <<service, conn, gone, loop, ack, timedOut, made, conf>>

\* The destructor of a connection that nobody refers to: cleanupConnection.
cleanupConnection(c, obeyed) ==
    LET own == DOMAIN conn[c].info
        held == needsWakeLock(conn[c])
        others == populateActiveConnections \ {c}
    IN  /\ c \notin gone /\ ~Referenced(c)
        /\ gone' = gone \cup {c}
        /\ mActiveSensors' = [s \in Sensors |-> removeConnection(mActiveSensors[s], c)]
        /\ mActivationCount' = [s \in Sensors |-> WithoutIdent(mActivationCount[s], c)]
        /\ hal' = Deactivated(own, c, obeyed)
        /\ conn' = [conn EXCEPT ![c] =
                       updateLooperRegistration(removeSensors(@, own))]
        /\ mActiveConnections' = mActiveConnections \ {c}
        /\ mWakeLockAcquired' =
              (mWakeLockAcquired /\ (held => \E d \in others : needsWakeLock(conn[d])))
        /\ UNCHANGED <<mLastEventSeen, loop, ack, timedOut, bounds>>

-----------------------------------------------------------------------------
(* SensorService::threadLoop. *)

\* The hardware reports. A one-shot sensor switches itself off.
HardwareEvent(s) ==
    /\ s \in hal.on /\ made < It.maxEvents
    /\ made' = made + 1
    /\ hal' = [hal EXCEPT !.fifo = Append(@, Data(s)),
                          !.on = IF ReportingMode(s) = "ONE_SHOT" THEN @ \ {s} ELSE @]
    /\ UNCHANGED <<service, conn, gone, loop, ack, mActivationCount, timedOut,
                   calls, conf>>

poll(n) ==
    /\ loop.at = "poll" /\ n <= Len(hal.fifo)
    /\ loop' = [loop EXCEPT !.at = "populate", !.buffer = SubSeq(hal.fifo, 1, n)]
    /\ hal' = [hal EXCEPT !.fifo = SubSeq(@, n + 1, Len(@))]
    /\ UNCHANGED <<service, conn, gone, ack, mActivationCount, timedOut, bounds>>

\* The copy is made in a critical section of its own.
populate ==
    /\ loop.at = "populate"
    /\ loop' = [loop EXCEPT !.at = "dispatch",
                            !.connections = populateActiveConnections]
    /\ UNCHANGED <<service, conn, gone, ack, device, timedOut, bounds>>

\* mMapFlushEventsToConnections: the n-th flush complete event of a sensor
\* answers the n-th flush() call that was made on it.
FlushesUpTo(buffer, s, i) ==
    Completes(SubSeq(buffer, 1, i), s)

FlushedConnection(buffer, i) ==
    LET calling == mActiveSensors[buffer[i].s].flushes
        n == FlushesUpTo(buffer, buffer[i].s, i)
    IN  IF n <= Len(calling) THEN calling[n] ELSE NoConnection

\* The events of the buffer that are for connection c, and FlushInfo after
\* them: until its first flush is complete, a sensor's events are kept from it.
Filtered(c, buffer) ==
    LET info == conn[c].info
        Mine(i) == buffer[i].type = "DATA" \/ FlushedConnection(buffer, i) = c
        Answers(i, s) == buffer[i].s = s /\ buffer[i].type = "META_DATA" /\ Mine(i)
        Awaits(s, n) == /\ info[s].mFirstFlushPending
                        /\ ~\E i \in 1 .. n : Answers(i, s)
        passed == {i \in DOMAIN buffer : /\ buffer[i].s \in DOMAIN info /\ Mine(i)
                                         /\ ~Awaits(buffer[i].s, i - 1)}
        order == SetToSortSeq(passed, <)
    IN  [info |-> [s \in DOMAIN info |->
                      [info[s] EXCEPT !.mFirstFlushPending = Awaits(s, Len(buffer))]],
         events |-> [i \in DOMAIN order |-> buffer[order[i]]]]

\* The rest of the turn, under mLock: the wake lock for events of wake-up
\* sensors, last values, flush() calls, sending, one-shot sensors.
dispatch ==
    LET buffer == loop.buffer
        Has(test(_)) == \E i \in DOMAIN buffer : test(buffer[i])
        wakes == Has(LAMBDA e : IsWakeUpSensor(e.s))
        fired == {s \in Sensors : ReportingMode(s) = "ONE_SHOT" /\ Has(LAMBDA e : e.s = s)}
        sent == [c \in loop.connections |->
                    sendEvents([conn[c] EXCEPT !.info = Filtered(c, buffer).info],
                               Filtered(c, buffer).events)]
        Done(c) == fired \cap DOMAIN sent[c].info
        off == {c \in loop.connections : Done(c) # {} /\ Done(c) = DOMAIN sent[c].info}
        users(s) == {c \in loop.connections : s \in Done(c)}
    IN  /\ loop.at = "dispatch"
        /\ loop' = [at |-> "poll", buffer |-> <<>>, connections |-> {}]
        /\ mLastEventSeen' = [s \in Sensors |->
              IF Has(LAMBDA e : e = Data(s)) THEN <<Data(s)>> ELSE mLastEventSeen[s]]
        /\ conn' = [c \in DOMAIN conn |->
              IF c \in loop.connections THEN CleanedUp(sent[c], Done(c)) ELSE conn[c]]
        /\ mActiveSensors' = [s \in Sensors |->
              removeConnections(
                  [mActiveSensors[s] EXCEPT !.flushes =
                      SubSeq(@, 1 + FlushesUpTo(buffer, s, Len(buffer)), Len(@))],
                  users(s))]
        /\ mActivationCount' = [s \in Sensors |->
              Restrict(mActivationCount[s], DOMAIN mActivationCount[s] \ users(s))]
        /\ mActiveConnections' = mActiveConnections \ off
        /\ mWakeLockAcquired' =
              ((mWakeLockAcquired \/ wakes)
               /\ \E c \in loop.connections : needsWakeLock(sent[c]))
        /\ ack' = LooperWoken(wakes /\ ~mWakeLockAcquired)
        /\ UNCHANGED <<gone, hal, timedOut, bounds>>

-----------------------------------------------------------------------------
(* SensorEventAckReceiver::threadLoop, which polls the looper. *)

isWakeLockAcquired ==
    /\ ack.at = "check"
    /\ ack' = [ack EXCEPT !.at = "poll", !.timeout = mWakeLockAcquired]
    /\ UNCHANGED <<service, conn, gone, loop, device, timedOut, bounds>>

HangsUp(c) == conn[c].polled # {} /\ ~conn[c].alive
Readable(c) == "INPUT" \in conn[c].polled /\ conn[c].alive /\ conn[c].toServer # <<>>
Writable(c) == "OUTPUT" \in conn[c].polled /\ CanWrite(conn[c])

wake ==
    /\ ack.at = "poll" /\ ack.woken
    /\ ack' = [ack EXCEPT !.at = "check", !.woken = FALSE]
    /\ UNCHANGED <<service, conn, gone, loop, device, timedOut, bounds>>

\* handleEvent with ALOOPER_EVENT_HANGUP; checkWakeLockState follows.
handleHangup(c) ==
    /\ ack.at = "poll" /\ HangsUp(c)
    /\ conn' = [conn EXCEPT ![c] = updateLooperRegistration(
                   [@ EXCEPT !.mDead = TRUE, !.refs = 0])]
    /\ ack' = [ack EXCEPT !.at = "acknowledged", !.conn = c]
    /\ UNCHANGED <<service, gone, loop, device, timedOut, bounds>>

\* handleEvent with ALOOPER_EVENT_INPUT: a number of acknowledgements that
\* makes no sense gives up all of them.
handleInput(c) ==
    LET numAcks == Head(conn[c].toServer)
        k == [conn[c] EXCEPT
                !.toServer = Tail(@),
                !.refs = IF numAcks > @ \/ numAcks = 0 THEN 0 ELSE @ - numAcks]
    IN  /\ ack.at = "poll" /\ Readable(c)
        /\ conn' = [conn EXCEPT ![c] = k]
        /\ ack' = [ack EXCEPT !.at = "acknowledged", !.conn = c]
        /\ UNCHANGED <<service, gone, loop, device, timedOut, bounds>>

acknowledged ==
    /\ ack.at = "acknowledged"
    /\ mWakeLockAcquired' = IF conn[ack.conn].refs = 0
                            THEN checkWakeLockState(mWakeLockAcquired)
                            ELSE mWakeLockAcquired
    /\ ack' = [ack EXCEPT !.at = "check", !.conn = NoConnection]
    /\ UNCHANGED <<mActiveSensors, mActiveConnections, mLastEventSeen, conn, gone,
                   loop, device, timedOut, bounds>>

\* handleEvent with ALOOPER_EVENT_OUTPUT alone.
handleOutput(c) ==
    /\ ack.at = "poll" /\ Writable(c) /\ ~Readable(c)
    /\ ack' = [ack EXCEPT !.at = "output", !.conn = c]
    /\ UNCHANGED <<service, conn, gone, loop, device, timedOut, bounds>>

\* Mutant: the events go out without the wake lock.
SendFromCacheOnly ==
    /\ ack.at = "output"
    /\ conn' = [conn EXCEPT ![ack.conn] = writeToSocketFromCache(@)]
    /\ ack' = [ack EXCEPT !.at = "check", !.conn = NoConnection]
    /\ UNCHANGED <<service, gone, loop, device, timedOut, bounds>>

sendEventsFromCache ==
    LET k == writeToSocketFromCache(conn[ack.conn])
    IN  /\ ack.at = "output"
        /\ conn' = [conn EXCEPT ![ack.conn] = k]
        /\ mWakeLockAcquired' = (mWakeLockAcquired \/ needsWakeLock(k))
        /\ ack' = [LooperWoken(needsWakeLock(k)) EXCEPT
                      !.at = "check", !.conn = NoConnection]
        /\ UNCHANGED <<mActiveSensors, mActiveConnections, mLastEventSeen, gone,
                       loop, device, timedOut, bounds>>

\* Nothing came for five seconds: resetAllWakeLockRefCounts copies the
\* connections in one critical section and resets them in another.
timeout ==
    /\ ack.at = "poll" /\ ack.timeout /\ ~ack.woken
    /\ \A c \in DOMAIN conn : ~(HangsUp(c) \/ Readable(c) \/ Writable(c))
    /\ ack' = [ack EXCEPT !.at = "populate"]
    /\ UNCHANGED <<service, conn, gone, loop, device, timedOut, bounds>>

populateToReset ==
    /\ ack.at = "populate"
    /\ ack' = [ack EXCEPT !.at = "resetting", !.connections = populateActiveConnections]
    /\ UNCHANGED <<service, conn, gone, loop, device, timedOut, bounds>>

resetAllWakeLockRefCounts ==
    /\ ack.at = "resetting"
    /\ conn' = [c \in DOMAIN conn |-> IF c \in ack.connections
                                      THEN [conn[c] EXCEPT !.refs = 0] ELSE conn[c]]
    /\ mWakeLockAcquired' = FALSE
    /\ timedOut' = TRUE
    /\ ack' = [ack EXCEPT !.at = "check", !.connections = {}]
    /\ UNCHANGED <<mActiveSensors, mActiveConnections, mLastEventSeen, gone, loop,
                   device, bounds>>

-----------------------------------------------------------------------------
(* The clients: SensorEventQueue. *)

NeedAck(events) == Len(SelectSeq(events, LAMBDA e : e.needsAck))

read(c) ==
    LET events == Head(conn[c].toClient)
        k == [conn[c] EXCEPT
                !.toClient = Tail(@), !.acks = @ + NeedAck(events),
                !.got = [s \in Sensors |-> IF s \in DOMAIN conn[c].info
                                           THEN @[s] + Completes(events, s) ELSE 0]]
    IN  /\ conn[c].alive /\ conn[c].toClient # <<>>
        /\ conn' = [conn EXCEPT ![c] = k]
        /\ UNCHANGED <<service, gone, loop, ack, device, timedOut, bounds>>

\* Without room in the socket the client counts on, until a later call.
sendAck(c) ==
    /\ conn[c].alive /\ conn[c].acks > 0 /\ Len(conn[c].toServer) < It.capacity
    /\ LET sent == Append(conn[c].toServer, conn[c].acks)
       IN  conn' = [conn EXCEPT ![c] = [@ EXCEPT !.acks = 0, !.toServer = sent]]
    /\ UNCHANGED <<service, gone, loop, ack, device, timedOut, bounds>>

\* The process ends: its reference to the connection and its socket are gone.
die(c) ==
    /\ It.dies /\ conn[c].alive
    /\ conn' = [conn EXCEPT ![c] = [@ EXCEPT !.alive = FALSE, !.acks = 0,
                                             !.toClient = <<>>, !.toServer = <<>>]]
    /\ UNCHANGED <<service, gone, loop, ack, device, timedOut, bounds>>

-----------------------------------------------------------------------------
ThreadLoop == populate \/ dispatch \/ \E n \in 1 .. It.poll : poll(n)

AckReceiver ==
    \/ isWakeLockAcquired \/ wake \/ acknowledged \/ sendEventsFromCache
    \/ timeout \/ populateToReset \/ resetAllWakeLockRefCounts
    \/ \E c \in DOMAIN conn : handleHangup(c) \/ handleInput(c) \/ handleOutput(c)

Call(c) ==
    \/ \E s \in Sensors, rate \in It.rates, b, f, a \in Outcomes :
          enable(c, s, rate, b, f, a)
    \/ \E s \in Sensors, obeyed \in Obeying : disable(c, s, obeyed)
    \/ \E s \in Sensors, rate \in It.rates, ok \in Outcomes :
          setEventRate(c, s, rate, ok)
    \/ \E accepted \in Obeying : flushSensor(c, accepted)

Next ==
    \/ ThreadLoop
    \/ AckReceiver
    \/ \E s \in Sensors : HardwareEvent(s)
    \/ \E c \in DOMAIN conn :
          \/ Call(c) \/ read(c) \/ sendAck(c) \/ die(c)
          \/ \E obeyed \in Obeying : cleanupConnection(c, obeyed)

Spec == Init /\ [][Next]_vars

\* The service's threads run, and time passes; nothing is asked of clients. This
\* is weak fairness of each thread, with what enables its steps written out.
LoopEnabled == loop.at # "poll" \/ hal.fifo # <<>>
AckEnabled ==
    \/ ack.at # "poll" \/ ack.woken \/ ack.timeout
    \/ \E c \in DOMAIN conn : HangsUp(c) \/ Readable(c) \/ Writable(c)

Fairness ==
    /\ []<>~LoopEnabled \/ []<><<ThreadLoop>>_vars
    /\ []<>~AckEnabled \/ []<><<AckReceiver>>_vars

LiveSpec == Spec /\ Fairness

-----------------------------------------------------------------------------
(* Properties *)

\* A wake lock is held as long as an active connection has been sent an event
\* of a wake-up sensor that it did not acknowledge: "Check the state of wake
\* lock for each client and release the lock if none of the clients need it."
WakeLockHeld ==
    \A c \in mActiveConnections : needsWakeLock(conn[c]) => mWakeLockAcquired

\* The same for clients that do not flush and do not call while threadLoop or
\* resetAllWakeLockRefCounts uses its copy of mActiveConnections: acknowledgements,
\* last values, cached events that go out late and time-outs never leave an
\* event without the wake lock.
WakeLockCovers == (~It.races /\ "flush" \notin It.calls) => WakeLockHeld

\* mWakeLockRefCount is what the client still owes: the flagged events on their
\* way, those it read and did not acknowledge, and the acknowledgements on
\* their way back, also when writes fail and events wait in the cache; until a
\* time-out gives up.
AcksExact ==
    \A c \in DOMAIN conn : LET k == conn[c] IN
        (k.alive /\ ~timedOut) =>
            k.refs = NeedAck(FlattenSeq(k.toClient)) + k.acks
                     + FoldSeq(LAMBDA n, sum : n + sum, 0, k.toServer)

\* The flush() calls of connection c on sensor s, enable's own included, that
\* nothing will answer any more: they do not wait for the hardware, and no answer
\* is in the cache, owed, on its way or read.
Unanswered(c, s) ==
    LET k == conn[c]
        first == IF k.info[s].mFirstFlushPending THEN 1 ELSE 0
        waiting == Len(SelectSeq(mActiveSensors[s].flushes, LAMBDA d : d = c))
    IN  k.asked[s] + first
        - (waiting + Completes(k.cache \o FlattenSeq(k.toClient), s)
           + k.info[s].mPendingFlushEventsToSend + k.got[s])

Flushing(c) == conn[c].alive /\ ~conn[c].missing

\* Every flush() of a client that stays registered is answered, also when the
\* answer is dropped from the cache: "These will be sent separately before the
\* next batch of events."
FlushesKept ==
    \A c \in DOMAIN conn : Flushing(c) =>
        \A s \in DOMAIN conn[c].info : Unanswered(c, s) <= 0

\* The same, when no client registers between threadLoop's copy and its use, for
\* all but the answers in the first part of a batch of several events that an
\* almost full cache has no room for.
FlushAnswered ==
    ~It.races =>
        \A c \in DOMAIN conn : Flushing(c) =>
            \A s \in DOMAIN conn[c].info : Unanswered(c, s) <= conn[c].lost[s]

\* Dropped events are counted for sensors that the connection has.
NoneMissing == \A c \in DOMAIN conn : ~conn[c].missing

\* SensorService and SensorDevice agree on who uses a sensor. It is on as long
\* as somebody does, at the shortest period any of them asked for, and off
\* otherwise, whatever enables fail and whichever clients leave or die first;
\* except that a sensor whose last switch-off or whose last new period the
\* hardware refused is left as it was, for the service does not try again.
\* One-shot sensors switch themselves off.
HardwareFollowsClients ==
    \A s \in Sensors : ReportingMode(s) # "ONE_SHOT" =>
        LET users == mActiveSensors[s].connections
        IN  /\ DOMAIN mActivationCount[s] = users
            /\ IF users = {} THEN s \in hal.on => s \in hal.unstopped
               ELSE /\ s \in hal.on
                    /\ s \in hal.unset \/ hal.rate[s] = BestParams(mActivationCount[s])

\* A one-shot sensor that a connection waits for is armed, or its event is on
\* its way.
OneShotArmed ==
    \A s \in Sensors :
        (ReportingMode(s) = "ONE_SHOT" /\ mActiveSensors[s].connections # {}) =>
            \/ s \in hal.on
            \/ Data(s) \in Range(hal.fifo) \cup Range(loop.buffer)

\* "Exactly one event per packet will have the wake_up flag set."
OneFlagPerPacket ==
    \A c \in DOMAIN conn : \A i \in DOMAIN conn[c].toClient :
        NeedAck(conn[c].toClient[i]) <= 1

\* The wake lock is never kept for good: clients that do not read, do not
\* acknowledge or die are timed out, once events and calls cease.
WakeLockReleased == mWakeLockAcquired ~> ~mWakeLockAcquired
=============================================================================
