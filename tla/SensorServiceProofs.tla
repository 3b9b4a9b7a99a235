------------------------ MODULE SensorServiceProofs -------------------------
(***************************************************************************)
(* The hardware runs as its clients want.  Who uses a sensor is kept three *)
(* times: in SensorService's record of the sensor, in SensorDevice's table *)
(* of periods, and in the connection itself, whose list decides what is    *)
(* switched off when the client is gone.  The first two are changed in     *)
(* step, whatever calls of the hardware fail; and who they know, the third *)
(* knows too, so that a client that dies leaves nothing running.           *)
(***************************************************************************)
EXTENDS SensorService, TLAPS

\* A client whose calls may fail enables each sensor once. To enable it again
\* and fail takes the client out as if it had never used the sensor, and the
\* hardware stays on.
NoFailedRetry ==
    \A n \in DOMAIN Configurations :
        Configurations[n].fails => ~Configurations[n].again

Ordinary == {s \in Sensors : ReportingMode(s) # "ONE_SHOT"}
Users(s) == mActiveSensors[s].connections

Fields ==
    {"info", "refs", "mDead", "polled", "cache", "maxCache", "missing",
     "toClient", "toServer", "alive", "acks", "asked", "got", "lost", "had"}
IsConnection(k) == k = [f \in Fields |-> k[f]]
IsRecord(rec) == rec = [f \in {"connections", "flushes"} |-> rec[f]]
IsHardware(h) == h = [f \in {"on", "rate", "fifo", "unstopped", "unset"} |-> h[f]]
IsTable(params) == params = [c \in DOMAIN params |-> params[c]]

DeviceTypes ==
    /\ IsHardware(hal)
    /\ hal.rate = [s \in Sensors |-> hal.rate[s]]
    /\ mActivationCount = [s \in Sensors |-> mActivationCount[s]]
    /\ \A s \in Sensors : IsTable(mActivationCount[s])

SensorTypes ==
    /\ conf \in DOMAIN Configurations
    /\ conn = [c \in It.connections |-> conn[c]]
    /\ \A c \in It.connections : IsConnection(conn[c])
    /\ mActiveSensors = [s \in Sensors |-> mActiveSensors[s]]
    /\ \A s \in Sensors : IsRecord(mActiveSensors[s])
    /\ DeviceTypes

\* A user of a sensor has it in its list, and has enabled it.
UsersKnow ==
    \A s \in Ordinary : \A c \in Users(s) :
        c \in It.connections /\ s \in DOMAIN conn[c].info /\ s \in conn[c].had

\* HardwareFollowsClients for one sensor.
Follows(s) ==
    /\ DOMAIN mActivationCount[s] = Users(s)
    /\ Users(s) = {} => (s \in hal.on => s \in hal.unstopped)
    /\ Users(s) # {} =>
          /\ s \in hal.on
          /\ s \in hal.unset \/ hal.rate[s] = BestParams(mActivationCount[s])

HardwareInv == SensorTypes /\ UsersKnow /\ HardwareFollowsClients

LEMMA EachFollows == HardwareFollowsClients <=> \A s \in Ordinary : Follows(s)
  BY DEF HardwareFollowsClients, Ordinary, Follows, Users

\* The same of the next state, whose system is this one's.
LEMMA EachFollowsNext ==
    ASSUME UNCHANGED conf, \A s \in Ordinary : Follows(s)'
    PROVE  HardwareFollowsClients'
<1>1. It' = It /\ Sensors' = Sensors /\ Ordinary' = Ordinary
  BY DEF It, Sensors, Ordinary, ReportingMode
<1> QED
  BY <1>1 DEF HardwareFollowsClients, Ordinary, Follows, Users, ReportingMode

-----------------------------------------------------------------------------
(* What becomes of a connection *)

\* Connection l is k with other events, flushes and acknowledgements.
SameSensors(k, l) ==
    IsConnection(l) /\ DOMAIN l.info = DOMAIN k.info /\ l.had = k.had

LEMMA LooperSame ==
    ASSUME NEW k, IsConnection(k)
    PROVE  SameSensors(k, updateLooperRegistration(k))
  BY DEF SameSensors, IsConnection, Fields, updateLooperRegistration

LEMMA FlushesSame ==
    ASSUME NEW k, IsConnection(k)
    PROVE  SameSensors(k, sendPendingFlushEvents(k))
  BY DEF SameSensors, IsConnection, Fields, sendPendingFlushEvents

LEMMA CountSame ==
    ASSUME NEW k, IsConnection(k), NEW dropped
    PROVE  SameSensors(k, countFlushCompleteEvents(k, dropped))
  BY DEF SameSensors, IsConnection, Fields, countFlushCompleteEvents

LEMMA SendSame ==
    ASSUME NEW k, IsConnection(k), NEW events
    PROVE  SameSensors(k, sendEvents(k, events))
<1> DEFINE l == sendPendingFlushEvents(k)
<1>1. SameSensors(k, l)
  BY FlushesSame
<1> HIDE DEF l
<1>2. SameSensors(l, Sent(l, events))
  BY <1>1 DEF SameSensors, IsConnection, Fields, Sent
<1>3. SameSensors(l, WriteFailed(l, events))
  <2> DEFINE m == [l EXCEPT
                      !.cache = FlagSet(events, findWakeUpSensorEvent(events), FALSE),
                      !.maxCache = IF @ = 0 THEN computeMaxCacheSize(l) ELSE @]
  <2>1. SameSensors(l, m)
    BY <1>1 DEF SameSensors, IsConnection, Fields
  <2>2. SameSensors(m, updateLooperRegistration(m))
    BY <2>1, LooperSame DEF SameSensors
  <2> QED
    BY <2>1, <2>2 DEF SameSensors, WriteFailed
<1>4. SameSensors(l, DropOldest(l, events))
  <2>1. ASSUME NEW m, SameSensors(l, m), NEW cache, NEW lost
        PROVE  SameSensors(l, [m EXCEPT !.cache = cache, !.lost = lost])
    BY <2>1 DEF SameSensors, IsConnection, Fields
  <2>2. ASSUME NEW dropped PROVE SameSensors(l, countFlushCompleteEvents(l, dropped))
    BY <1>1, CountSame DEF SameSensors
  <2>3. PICK dropped, cache, lost :
           DropOldest(l, events) = [countFlushCompleteEvents(l, dropped) EXCEPT
                                       !.cache = cache, !.lost = lost]
    BY Zenon DEF DropOldest
  <2> DEFINE m == countFlushCompleteEvents(l, dropped)
  <2>4. SameSensors(l, m)
    BY <2>2
  <2> HIDE DEF m
  <2>5. SameSensors(l, [m EXCEPT !.cache = cache, !.lost = lost])
    BY <2>1, <2>4
  <2> QED
    BY <2>3, <2>5 DEF m
<1>5. SameSensors(l, Cached(l, events))
  BY <1>1, <1>4 DEF SameSensors, IsConnection, Fields, Cached
<1> QED
  BY <1>1, <1>2, <1>3, <1>5 DEF SameSensors, sendEvents, l

LEMMA WriteSame ==
    ASSUME NEW k, IsConnection(k)
    PROVE  SameSensors(k, writeToSocketFromCache(k))
<1> DEFINE l == sendPendingFlushEvents(k)
<1>1. SameSensors(k, l)
  BY FlushesSame
<1> HIDE DEF l
<1>2. ASSUME NEW sent, NEW refs, NEW cache
      PROVE  SameSensors(l, [[l EXCEPT !.toClient = sent, !.refs = refs]
                             EXCEPT !.cache = cache])
  BY <1>1 DEF SameSensors, IsConnection, Fields
<1>3. ASSUME NEW m, SameSensors(l, m)
      PROVE  SameSensors(l, updateLooperRegistration(m))
  BY <1>3, LooperSame DEF SameSensors
<1>4. SameSensors(l, WriteCache(l))
  BY <1>2, <1>3 DEF WriteCache
<1> QED
  BY <1>1, <1>4 DEF SameSensors, writeToSocketFromCache, l

\* A connection loses the sensors of a set and no other.
LEMMA CleanedUpLoses ==
    ASSUME NEW k, IsConnection(k), NEW removed
    PROVE  /\ IsConnection(CleanedUp(k, removed))
           /\ DOMAIN CleanedUp(k, removed).info = DOMAIN k.info \ removed
           /\ CleanedUp(k, removed).had = k.had
           /\ IsConnection(removeSensors(k, removed))
           /\ DOMAIN removeSensors(k, removed).info = DOMAIN k.info \ removed
           /\ removeSensors(k, removed).had = k.had
<1>1. /\ IsConnection(removeSensors(k, removed))
      /\ DOMAIN removeSensors(k, removed).info = DOMAIN k.info \ removed
      /\ removeSensors(k, removed).had = k.had
  BY DEF IsConnection, Fields, removeSensors, Restrict
<1> QED
  BY <1>1, LooperSame DEF SameSensors, CleanedUp

LEMMA RemovedUsers ==
    ASSUME NEW rec, NEW cs
    PROVE  /\ IsRecord(removeConnections(rec, cs))
           /\ removeConnections(rec, cs).connections = rec.connections \ cs
  BY DEF IsRecord, removeConnections, NoRecord

-----------------------------------------------------------------------------
(* Steps *)

\* The hardware does as before for a sensor.
SameHardware(s) ==
    /\ s \in hal'.on <=> s \in hal.on
    /\ hal'.rate[s] = hal.rate[s]
    /\ s \in hal'.unstopped <=> s \in hal.unstopped
    /\ s \in hal'.unset <=> s \in hal.unset

\* Nobody loses or wins an ordinary sensor, and the hardware is left alone.
LeavesSensors ==
    \A s \in Ordinary :
        /\ Users(s)' = Users(s) /\ mActivationCount'[s] = mActivationCount[s]
        /\ SameHardware(s)

\* Each connection keeps the ordinary sensors in its list.
KeepsSensors ==
    \A c \in It.connections :
        /\ \A s \in Ordinary : s \in DOMAIN conn[c].info => s \in DOMAIN conn'[c].info
        /\ conn[c].had \subseteq conn'[c].had

LEMMA SameSystem ==
    ASSUME UNCHANGED conf
    PROVE  It' = It /\ Sensors' = Sensors /\ Ordinary' = Ordinary
  BY DEF It, Sensors, Ordinary, ReportingMode

LEMMA TypesAgain ==
    ASSUME SensorTypes, UNCHANGED conf, DeviceTypes',
           conn' = [c \in It.connections |-> conn'[c]],
           \A c \in It.connections : IsConnection(conn'[c]),
           mActiveSensors' = [s \in Sensors |-> mActiveSensors'[s]],
           \A s \in Sensors : IsRecord(mActiveSensors'[s])
    PROVE  SensorTypes'
  BY SameSystem DEF SensorTypes, IsConnection, IsRecord

LEMMA SensorsLeft ==
    ASSUME HardwareInv, UNCHANGED conf, SensorTypes', LeavesSensors, KeepsSensors
    PROVE  HardwareInv'
<1>1. It' = It /\ Sensors' = Sensors /\ Ordinary' = Ordinary
  BY SameSystem
<1>2. UsersKnow'
  BY <1>1 DEF HardwareInv, UsersKnow, LeavesSensors, KeepsSensors
<1>3. HardwareFollowsClients'
  <2>1. ASSUME NEW s \in Ordinary PROVE Follows(s)'
    <3>1. Follows(s)
      BY EachFollows DEF HardwareInv
    <3> QED
      BY <3>1 DEF LeavesSensors, SameHardware, Follows
  <2> QED
    BY <2>1, EachFollowsNext
<1> QED
  BY <1>2, <1>3 DEF HardwareInv

\* One connection changes, and keeps its sensors.
LEMMA OneConnection ==
    ASSUME SensorTypes, UNCHANGED conf, NEW c \in DOMAIN conn, NEW k,
           SameSensors(conn[c], k), conn' = [conn EXCEPT ![c] = k]
    PROVE  /\ conn' = [d \in It.connections |-> conn'[d]]
           /\ \A d \in It.connections : IsConnection(conn'[d])
           /\ KeepsSensors
<1>1. DOMAIN conn = It.connections /\ DOMAIN conn' = It.connections
  BY DEF SensorTypes
<1>2. \A d \in It.connections : conn'[d] = IF d = c THEN k ELSE conn[d]
  BY <1>1
<1> QED
  BY <1>1, <1>2 DEF SensorTypes, SameSensors, KeepsSensors

\* Steps of the looper and of the clients themselves.
LEMMA ConnectionStep ==
    ASSUME HardwareInv, NEW c \in DOMAIN conn, NEW k, SameSensors(conn[c], k),
           conn' = [conn EXCEPT ![c] = k],
           UNCHANGED <<mActiveSensors, mActivationCount, hal, conf>>
    PROVE  HardwareInv'
<1>1. /\ conn' = [d \in It.connections |-> conn'[d]]
      /\ \A d \in It.connections : IsConnection(conn'[d])
      /\ KeepsSensors
  BY OneConnection DEF HardwareInv
<1>2. SensorTypes'
  BY <1>1, SameSystem DEF HardwareInv, SensorTypes, DeviceTypes, IsConnection, IsRecord,
                          IsTable, IsHardware
<1>3. LeavesSensors
  BY DEF LeavesSensors, SameHardware, Users
<1> QED
  BY <1>1, <1>2, <1>3, SensorsLeft

LEMMA StutterStep ==
    ASSUME HardwareInv,
           UNCHANGED <<mActiveSensors, mActivationCount, hal, conn, conf>>
    PROVE  HardwareInv'
<1>1. SensorTypes'
  BY SameSystem DEF HardwareInv, SensorTypes, DeviceTypes, IsConnection, IsRecord, IsTable, IsHardware
<1>2. LeavesSensors /\ KeepsSensors
  BY DEF LeavesSensors, SameHardware, KeepsSensors, Users
<1> QED
  BY <1>1, <1>2, SensorsLeft

LEMMA ClientStep ==
    ASSUME HardwareInv, NEW c \in DOMAIN conn, read(c) \/ sendAck(c) \/ die(c)
    PROVE  HardwareInv'
<1>1. IsConnection(conn[c])
  BY DEF HardwareInv, SensorTypes
<1>2. UNCHANGED <<mActiveSensors, mActivationCount, hal, conf>>
  BY DEF read, sendAck, die, service, device, bounds
<1>3. CASE read(c)
  <2>1. PICK packets, acks, got :
            conn' = [conn EXCEPT ![c] = [conn[c] EXCEPT !.toClient = packets, !.acks = acks,
                                                        !.got = got]]
    BY <1>3, Zenon DEF read
  <2> DEFINE k == [conn[c] EXCEPT !.toClient = packets, !.acks = acks, !.got = got]
  <2>2. SameSensors(conn[c], k)
    BY <1>1 DEF SameSensors, IsConnection, Fields
  <2>3. conn' = [conn EXCEPT ![c] = k]
    BY <2>1
  <2> HIDE DEF k
  <2> QED
    BY <1>2, <2>2, <2>3, ConnectionStep
<1>4. CASE sendAck(c)
  <2>1. PICK packets : conn' = [conn EXCEPT ![c] = [@ EXCEPT !.acks = 0,
                                                            !.toServer = packets]]
    BY <1>4, Zenon DEF sendAck
  <2> DEFINE k == [conn[c] EXCEPT !.acks = 0, !.toServer = packets]
  <2>2. SameSensors(conn[c], k)
    BY <1>1 DEF SameSensors, IsConnection, Fields
  <2>3. conn' = [conn EXCEPT ![c] = k]
    BY <2>1
  <2> HIDE DEF k
  <2> QED
    BY <1>2, <2>2, <2>3, ConnectionStep
<1>5. CASE die(c)
  <2> DEFINE k == [conn[c] EXCEPT !.alive = FALSE, !.acks = 0,
                                  !.toClient = <<>>, !.toServer = <<>>]
  <2>1. SameSensors(conn[c], k)
    BY <1>1 DEF SameSensors, IsConnection, Fields
  <2> QED
    BY <1>2, <1>5, <2>1, ConnectionStep DEF die
<1> QED
  BY <1>3, <1>4, <1>5

LEMMA AckStep ==
    ASSUME HardwareInv, AckReceiver
    PROVE  HardwareInv'
<1>1. \A c \in DOMAIN conn : IsConnection(conn[c])
  BY DEF HardwareInv, SensorTypes
<1>2. CASE isWakeLockAcquired \/ wake \/ timeout \/ populateToReset
  BY <1>2, StutterStep DEF isWakeLockAcquired, wake, timeout, populateToReset, service,
                           device, bounds
<1>3. CASE acknowledged
  BY <1>3, StutterStep DEF acknowledged, device, bounds
<1>4. CASE sendEventsFromCache
  <2>1. CASE ack.conn \in DOMAIN conn
    <3>1. SameSensors(conn[ack.conn], writeToSocketFromCache(conn[ack.conn]))
      BY <1>1, <2>1, WriteSame
    <3> QED
      BY <1>4, <2>1, <3>1, ConnectionStep DEF sendEventsFromCache, device, bounds
  <2>2. CASE ack.conn \notin DOMAIN conn
    <3>1. conn' = conn
      BY <1>4, <2>2 DEF sendEventsFromCache, HardwareInv, SensorTypes
    <3> QED
      BY <1>4, <3>1, StutterStep DEF sendEventsFromCache, device, bounds
  <2> QED
    BY <2>1, <2>2
<1>5. ASSUME NEW c \in DOMAIN conn, handleHangup(c)
      PROVE  HardwareInv'
  <2> DEFINE k == [conn[c] EXCEPT !.mDead = TRUE, !.refs = 0]
  <2>1. SameSensors(conn[c], k)
    BY <1>1 DEF SameSensors, IsConnection, Fields
  <2>2. SameSensors(k, updateLooperRegistration(k))
    BY <2>1, LooperSame DEF SameSensors
  <2>3. SameSensors(conn[c], updateLooperRegistration(k))
    BY <2>1, <2>2 DEF SameSensors
  <2> QED
    BY <1>5, <2>3, ConnectionStep DEF handleHangup, service, device, bounds
<1>6. ASSUME NEW c \in DOMAIN conn, handleInput(c)
      PROVE  HardwareInv'
  <2>1. PICK packets, refs :
            conn' = [conn EXCEPT ![c] = [conn[c] EXCEPT !.toServer = packets,
                                                        !.refs = refs]]
    BY <1>6, Zenon DEF handleInput
  <2> DEFINE k == [conn[c] EXCEPT !.toServer = packets, !.refs = refs]
  <2>2. SameSensors(conn[c], k)
    BY <1>1 DEF SameSensors, IsConnection, Fields
  <2>3. conn' = [conn EXCEPT ![c] = k]
    BY <2>1
  <2> HIDE DEF k
  <2> QED
    BY <1>6, <2>2, <2>3, ConnectionStep DEF handleInput, service, device, bounds
<1>7. ASSUME NEW c \in DOMAIN conn, handleOutput(c)
      PROVE  HardwareInv'
  BY <1>7, StutterStep DEF handleOutput, service, device, bounds
<1>8. CASE resetAllWakeLockRefCounts
  <2>1. \A c \in DOMAIN conn : SameSensors(conn[c], conn'[c])
    BY <1>1, <1>8 DEF resetAllWakeLockRefCounts, SameSensors, IsConnection, Fields
  <2>2. UNCHANGED <<mActiveSensors, mActivationCount, hal, conf>>
    BY <1>8 DEF resetAllWakeLockRefCounts, device, bounds
  <2>3. conn' = [c \in It.connections |-> conn'[c]]
    BY <1>8 DEF resetAllWakeLockRefCounts, HardwareInv, SensorTypes
  <2>4. SensorTypes'
    BY <2>1, <2>2, <2>3, SameSystem DEF HardwareInv, SensorTypes, SameSensors, DeviceTypes,
                                        IsConnection, IsRecord, IsTable, IsHardware
  <2>5. LeavesSensors /\ KeepsSensors
    BY <2>1, <2>2 DEF LeavesSensors, SameHardware, KeepsSensors, Users, SameSensors, HardwareInv,
                      SensorTypes
  <2> QED
    BY <2>2, <2>4, <2>5, SensorsLeft
<1> QED
  BY <1>2, <1>3, <1>4, <1>5, <1>6, <1>7, <1>8 DEF AckReceiver

-----------------------------------------------------------------------------
(* The service's thread and the hardware *)

LEMMA OnlyFifo ==
    ASSUME DeviceTypes, NEW fifo, hal' = [hal EXCEPT !.fifo = fifo]
    PROVE  /\ IsHardware(hal)' /\ hal'.on = hal.on /\ hal'.rate = hal.rate
           /\ hal'.unstopped = hal.unstopped /\ hal'.unset = hal.unset
  BY DEF DeviceTypes, IsHardware

LEMMA ThreadStep ==
    ASSUME HardwareInv, populate \/ \E n \in 1 .. It.poll : poll(n)
    PROVE  HardwareInv'
<1>1. CASE populate
  BY <1>1, StutterStep DEF populate, service, device, bounds
<1>2. ASSUME NEW n, poll(n) PROVE HardwareInv'
  <2>1. /\ IsHardware(hal)' /\ hal'.on = hal.on /\ hal'.rate = hal.rate
        /\ hal'.unstopped = hal.unstopped /\ hal'.unset = hal.unset
        /\ UNCHANGED <<mActiveSensors, mActivationCount, conn, conf>>
    <3>1. /\ \E fifo : hal' = [hal EXCEPT !.fifo = fifo]
          /\ UNCHANGED <<mActiveSensors, mActivationCount, conn, conf>>
      BY <1>2, Zenon DEF poll, service, bounds
    <3> QED
      BY <3>1, OnlyFifo DEF HardwareInv, SensorTypes
  <2>2. SensorTypes'
    BY <2>1, SameSystem DEF HardwareInv, SensorTypes, DeviceTypes, IsConnection, IsRecord,
                            IsTable, IsHardware
  <2>3. LeavesSensors /\ KeepsSensors
    BY <2>1 DEF LeavesSensors, SameHardware, KeepsSensors, Users
  <2> QED
    BY <2>1, <2>2, <2>3, SensorsLeft
<1> QED
  BY <1>1, <1>2

\* A one-shot sensor switches itself off; the others do not.
LEMMA HardwareStep ==
    ASSUME HardwareInv, NEW s \in Sensors, HardwareEvent(s)
    PROVE  HardwareInv'
<1>1. /\ IsHardware(hal)' /\ hal'.rate = hal.rate
      /\ hal'.unstopped = hal.unstopped /\ hal'.unset = hal.unset
      /\ hal'.on = IF ReportingMode(s) = "ONE_SHOT" THEN hal.on \ {s} ELSE hal.on
      /\ UNCHANGED <<mActiveSensors, mActivationCount, conn, conf>>
  <2>1. /\ \E fifo : hal' = [hal EXCEPT !.fifo = fifo,
                  !.on = IF ReportingMode(s) = "ONE_SHOT" THEN @ \ {s} ELSE @]
        /\ UNCHANGED <<mActiveSensors, mActivationCount, conn, conf>>
    BY Zenon DEF HardwareEvent, service
  <2> QED
    BY <2>1 DEF HardwareInv, SensorTypes, DeviceTypes, IsHardware
<1>2. SensorTypes'
  BY <1>1, SameSystem DEF HardwareInv, SensorTypes, DeviceTypes, IsConnection, IsRecord,
                          IsTable, IsHardware
<1>3. LeavesSensors /\ KeepsSensors
  BY <1>1 DEF LeavesSensors, SameHardware, KeepsSensors, Users, Ordinary
<1> QED
  BY <1>1, <1>2, <1>3, SensorsLeft

LEMMA FilteredKeeps ==
    ASSUME NEW c, NEW buffer
    PROVE  DOMAIN Filtered(c, buffer).info = DOMAIN conn[c].info
  BY DEF Filtered

\* Only one-shot sensors that fired are taken from connections.
LEMMA DispatchStep ==
    ASSUME HardwareInv, dispatch
    PROVE  HardwareInv'
<1> DEFINE fired == {s \in Sensors : /\ ReportingMode(s) = "ONE_SHOT"
                                     /\ \E i \in DOMAIN loop.buffer : loop.buffer[i].s = s}
           sent(c) == sendEvents([conn[c] EXCEPT !.info = Filtered(c, loop.buffer).info],
                                 Filtered(c, loop.buffer).events)
           Done(c) == fired \cap DOMAIN sent(c).info
           users(s) == {c \in loop.connections : s \in Done(c)}
           rec(s) == [mActiveSensors[s] EXCEPT !.flushes =
                         SubSeq(@, 1 + FlushesUpTo(loop.buffer, s, Len(loop.buffer)), Len(@))]
<1>1. /\ conn' = [c \in DOMAIN conn |-> IF c \in loop.connections
                                        THEN CleanedUp(sent(c), Done(c)) ELSE conn[c]]
      /\ mActiveSensors' = [s \in Sensors |-> removeConnections(rec(s), users(s))]
      /\ mActivationCount' = [s \in Sensors |->
            Restrict(mActivationCount[s], DOMAIN mActivationCount[s] \ users(s))]
      /\ UNCHANGED <<hal, conf>>
  <2>1. conn' = [c \in DOMAIN conn |-> IF c \in loop.connections
                                       THEN CleanedUp(sent(c), Done(c)) ELSE conn[c]]
    BY DEF dispatch
  <2>2. mActiveSensors' = [s \in Sensors |-> removeConnections(rec(s), users(s))]
    BY DEF dispatch
  <2>3. mActivationCount' = [s \in Sensors |->
            Restrict(mActivationCount[s], DOMAIN mActivationCount[s] \ users(s))]
    BY DEF dispatch
  <2>4. UNCHANGED <<hal, conf>>
    BY DEF dispatch, bounds
  <2> QED
    BY <2>1, <2>2, <2>3, <2>4
<1>2. \A s \in Ordinary : users(s) = {}
  BY DEF Ordinary
<1>3. \A s \in Sensors : /\ IsRecord(rec(s))
                         /\ rec(s).connections = Users(s)
  BY DEF HardwareInv, SensorTypes, IsRecord, Users
<1>4. ASSUME NEW c \in It.connections
      PROVE  /\ IsConnection(conn'[c])
             /\ \A s \in Ordinary : s \in DOMAIN conn[c].info => s \in DOMAIN conn'[c].info
             /\ conn[c].had = conn'[c].had
  <2>1. IsConnection(conn[c]) /\ c \in DOMAIN conn
    BY DEF HardwareInv, SensorTypes
  <2>2. SameSensors(conn[c], [conn[c] EXCEPT !.info = Filtered(c, loop.buffer).info])
    BY <2>1, FilteredKeeps DEF SameSensors, IsConnection, Fields
  <2>3. SameSensors(conn[c], sent(c))
    BY <2>2, SendSame DEF SameSensors
  <2>4. /\ IsConnection(CleanedUp(sent(c), Done(c)))
        /\ DOMAIN CleanedUp(sent(c), Done(c)).info = DOMAIN conn[c].info \ Done(c)
        /\ CleanedUp(sent(c), Done(c)).had = conn[c].had
    BY <2>3, CleanedUpLoses DEF SameSensors
  <2>5. \A s \in Ordinary : s \notin Done(c)
    BY DEF Ordinary
  <2> HIDE DEF sent, Done
  <2> QED
    BY <1>1, <2>1, <2>4, <2>5
<1>5. \A s \in Sensors : /\ IsRecord(mActiveSensors'[s])
                         /\ mActiveSensors'[s].connections = Users(s) \ users(s)
  <2> HIDE DEF users, rec
  <2> QED
    BY <1>1, <1>3, RemovedUsers
<1>6. \A s \in Sensors : /\ IsTable(mActivationCount'[s])
                         /\ users(s) = {} => mActivationCount'[s] = mActivationCount[s]
  <2> HIDE DEF users
  <2> QED
    BY <1>1 DEF IsTable, Restrict, HardwareInv, SensorTypes, DeviceTypes
<1> HIDE DEF fired, sent, Done, users, rec
<1>7. conn' = [c \in It.connections |-> conn'[c]]
  BY <1>1 DEF HardwareInv, SensorTypes
<1>8. mActiveSensors' = [s \in Sensors |-> mActiveSensors'[s]]
      /\ mActivationCount' = [s \in Sensors |-> mActivationCount'[s]]
  BY <1>1
<1>9. SensorTypes'
  BY <1>1, <1>4, <1>5, <1>6, <1>7, <1>8, SameSystem
  DEF HardwareInv, SensorTypes, DeviceTypes, IsConnection, IsRecord, IsTable, IsHardware
<1>10. LeavesSensors /\ KeepsSensors
  BY <1>1, <1>2, <1>4, <1>5, <1>6 DEF LeavesSensors, SameHardware, KeepsSensors, Users, Ordinary
<1> QED
  BY <1>1, <1>9, <1>10, SensorsLeft

-----------------------------------------------------------------------------
(* Calls of the clients *)

LEMMA TableWithout ==
    ASSUME NEW params, NEW c
    PROVE  /\ IsTable(WithoutIdent(params, c))
           /\ DOMAIN WithoutIdent(params, c) = DOMAIN params \ {c}
           /\ IsTable(params) /\ c \notin DOMAIN params => WithoutIdent(params, c) = params
  BY DEF IsTable, WithoutIdent, Restrict

LEMMA DeactivatedHardware ==
    ASSUME DeviceTypes, NEW sensors, NEW c, NEW obeyed,
           hal' = Deactivated(sensors, c, obeyed)
    PROVE  /\ IsHardware(hal)' /\ hal'.rate = [s \in Sensors |-> hal'.rate[s]]
           /\ \A s \in Sensors :
                 LET used == s \in sensors /\ c \in DOMAIN mActivationCount[s]
                     empty == DOMAIN mActivationCount[s] \subseteq {c}
                     left == WithoutIdent(mActivationCount[s], c)
                 IN  /\ ~used => SameHardware(s)
                     /\ used /\ empty =>
                           /\ s \in hal'.on => s \notin obeyed
                           /\ s \in hal'.unstopped <=> s \notin obeyed
                     /\ used /\ ~empty =>
                           /\ s \in hal'.on <=> s \in hal.on
                           /\ s \notin hal'.unset => hal'.rate[s] = BestParams(left)
<1> DEFINE used == {s \in sensors : c \in DOMAIN mActivationCount[s]}
           left == [s \in used |-> WithoutIdent(mActivationCount[s], c)]
           stop == {s \in used : DOMAIN mActivationCount[s] \subseteq {c}}
           set == used \ stop
           on == hal.on \ (stop \cap obeyed)
           rate == [s \in Sensors |-> IF s \in set \cap obeyed
                                      THEN BestParams(left[s]) ELSE hal.rate[s]]
           unstopped == (hal.unstopped \ stop) \cup (stop \ obeyed)
           unset == (hal.unset \ set) \cup (set \ obeyed)
<1>1. stop = {s \in used : DOMAIN left[s] = {}}
  <2>1. \A s \in used : DOMAIN left[s] = DOMAIN mActivationCount[s] \ {c}
    BY TableWithout
  <2> QED
    BY <2>1
<1>2. hal' = [hal EXCEPT !.on = on, !.rate = rate, !.unstopped = unstopped,
                         !.unset = unset]
  BY <1>1, Zenon DEF Deactivated
<1>3. /\ \A s \in used : left[s] = WithoutIdent(mActivationCount[s], c)
      /\ rate = [s \in Sensors |-> rate[s]]
      /\ \A s \in Sensors : rate[s] = IF s \in set \cap obeyed THEN BestParams(left[s])
                                                            ELSE hal.rate[s]
  OBVIOUS
<1> HIDE DEF left, rate
<1>4. /\ \A s : s \in on <=> s \in hal.on /\ ~(s \in stop /\ s \in obeyed)
      /\ \A s : s \in unstopped <=> IF s \in stop THEN s \notin obeyed
                                                ELSE s \in hal.unstopped
      /\ \A s : s \in unset <=> IF s \in set THEN s \notin obeyed ELSE s \in hal.unset
  OBVIOUS
<1>5. \A s : /\ s \in used <=> s \in sensors /\ c \in DOMAIN mActivationCount[s]
             /\ s \in stop <=> s \in used /\ DOMAIN mActivationCount[s] \subseteq {c}
             /\ s \in set <=> s \in used /\ s \notin stop
  OBVIOUS
<1> HIDE DEF on, unstopped, unset, set, stop, used
<1>6. /\ IsHardware(hal)' /\ hal'.on = on /\ hal'.rate = rate
      /\ hal'.unstopped = unstopped /\ hal'.unset = unset
  BY <1>2 DEF DeviceTypes, IsHardware
<1> SUFFICES ASSUME NEW s \in Sensors
             PROVE  /\ s \notin used => SameHardware(s)
                    /\ s \in stop =>
                          /\ s \in hal'.on => s \notin obeyed
                          /\ s \in hal'.unstopped <=> s \notin obeyed
                    /\ s \in set =>
                          /\ s \in hal'.on <=> s \in hal.on
                          /\ s \notin hal'.unset => hal'.rate[s] = BestParams(left[s])
  BY <1>3, <1>5, <1>6, Zenon
<1>7. s \notin used => SameHardware(s)
  BY <1>3, <1>4, <1>5, <1>6 DEF SameHardware
<1>8. s \in stop =>
         /\ s \in hal'.on => s \notin obeyed
         /\ s \in hal'.unstopped <=> s \notin obeyed
  BY <1>4, <1>6
<1>9. s \in set =>
         /\ s \in hal'.on <=> s \in hal.on
         /\ s \notin hal'.unset => hal'.rate[s] = BestParams(left[s])
  BY <1>3, <1>4, <1>5, <1>6
<1> QED
  BY <1>7, <1>8, <1>9

\* A client gives up the sensors of a set, by itself or because it is gone.
LEMMA ClientLeaves ==
    ASSUME HardwareInv, UNCHANGED conf, SensorTypes', NEW c, NEW sensors,
           NEW obeyed, hal' = Deactivated(sensors, c, obeyed),
           \A s \in Ordinary :
              /\ Users(s)' = IF s \in sensors THEN Users(s) \ {c} ELSE Users(s)
              /\ mActivationCount'[s] =
                    IF s \in sensors THEN WithoutIdent(mActivationCount[s], c)
                                     ELSE mActivationCount[s],
           \A d \in It.connections :
              /\ \A s \in Ordinary : s \in DOMAIN conn[d].info /\ ~(d = c /\ s \in sensors)
                                     => s \in DOMAIN conn'[d].info
              /\ conn[d].had \subseteq conn'[d].had
    PROVE  HardwareInv'
<1>1. It' = It /\ Sensors' = Sensors /\ Ordinary' = Ordinary
  BY SameSystem
<1>2. UsersKnow'
  BY <1>1 DEF HardwareInv, UsersKnow
<1>3. ASSUME NEW s \in Ordinary
      PROVE  Follows(s)'
  <2>1. s \in Sensors /\ IsTable(mActivationCount[s])
    BY DEF Ordinary, HardwareInv, SensorTypes, DeviceTypes
  <2>2. Follows(s)
    BY EachFollows DEF HardwareInv
  <2>3. DeviceTypes
    BY DEF HardwareInv, SensorTypes
  <2> DEFINE used == s \in sensors /\ c \in DOMAIN mActivationCount[s]
             empty == DOMAIN mActivationCount[s] \subseteq {c}
             left == WithoutIdent(mActivationCount[s], c)
  <2>4. /\ ~used => SameHardware(s)
        /\ used /\ empty =>
              /\ s \in hal'.on => s \notin obeyed
              /\ s \in hal'.unstopped <=> s \notin obeyed
        /\ used /\ ~empty =>
              /\ s \in hal'.on <=> s \in hal.on
              /\ s \notin hal'.unset => hal'.rate[s] = BestParams(left)
    BY <2>1, <2>3, DeactivatedHardware
  <2>5. DOMAIN left = DOMAIN mActivationCount[s] \ {c}
    BY TableWithout
  <2>6. CASE used
    BY <2>2, <2>4, <2>5, <2>6 DEF Follows
  <2>7. CASE ~used
    <3>1. Users(s)' = Users(s) /\ mActivationCount'[s] = mActivationCount[s]
      BY <2>1, <2>2, <2>7, TableWithout DEF Follows
    <3> QED
      BY <2>2, <2>4, <2>7, <3>1 DEF Follows, SameHardware
  <2> QED
    BY <2>6, <2>7
<1>4. HardwareFollowsClients'
  BY <1>3, EachFollowsNext
<1> QED
  BY <1>2, <1>4 DEF HardwareInv

LEMMA DisableStep ==
    ASSUME HardwareInv, NEW c \in DOMAIN conn, NEW s \in Sensors, NEW obeyed,
           disable(c, s, obeyed)
    PROVE  HardwareInv'
<1> DEFINE k == CleanedUp(conn[c], {s})
<1>1. /\ mActiveSensors' = [mActiveSensors EXCEPT ![s] = removeConnections(@, {c})]
      /\ conn' = [conn EXCEPT ![c] = k]
      /\ hal' = Deactivated({s}, c, obeyed)
      /\ mActivationCount' = [mActivationCount EXCEPT ![s] = WithoutIdent(@, c)]
      /\ UNCHANGED conf
  BY DEF disable, removeConnection
<1>2. c \in It.connections /\ IsConnection(conn[c])
  BY DEF HardwareInv, SensorTypes
<1>3. IsConnection(k) /\ DOMAIN k.info = DOMAIN conn[c].info \ {s} /\ k.had = conn[c].had
  BY <1>2, CleanedUpLoses
<1> HIDE DEF k
<1>4. \A d \in It.connections : conn'[d] = IF d = c THEN k ELSE conn[d]
  BY <1>1 DEF HardwareInv, SensorTypes
<1>5. conn' = [d \in It.connections |-> conn'[d]]
  BY <1>1 DEF HardwareInv, SensorTypes
<1>6. /\ mActiveSensors' = [r \in Sensors |-> mActiveSensors'[r]]
      /\ mActivationCount' = [r \in Sensors |-> mActivationCount'[r]]
  BY <1>1 DEF HardwareInv, SensorTypes, DeviceTypes
<1>7. ASSUME NEW r \in Sensors
      PROVE  /\ IsRecord(mActiveSensors'[r]) /\ IsTable(mActivationCount'[r])
             /\ Users(r)' = IF r \in {s} THEN Users(r) \ {c} ELSE Users(r)
             /\ mActivationCount'[r] = IF r \in {s} THEN WithoutIdent(mActivationCount[r], c)
                                                    ELSE mActivationCount[r]
  <2>1. mActiveSensors'[r] = IF r = s THEN removeConnections(mActiveSensors[r], {c})
                                      ELSE mActiveSensors[r]
    BY <1>1 DEF HardwareInv, SensorTypes
  <2>2. mActivationCount'[r] = IF r = s THEN WithoutIdent(mActivationCount[r], c)
                                        ELSE mActivationCount[r]
    BY <1>1 DEF HardwareInv, SensorTypes, DeviceTypes
  <2>3. IsRecord(mActiveSensors[r]) /\ IsTable(mActivationCount[r])
    BY DEF HardwareInv, SensorTypes, DeviceTypes
  <2>4. IsRecord(mActiveSensors'[r])
    BY <2>1, <2>3, RemovedUsers
  <2>5. IsTable(mActivationCount'[r])
    BY <2>2, <2>3, TableWithout
  <2>6. Users(r)' = IF r = s THEN Users(r) \ {c} ELSE Users(r)
    BY <2>1, RemovedUsers DEF Users
  <2> QED
    BY <2>2, <2>4, <2>5, <2>6
<1>8. DeviceTypes'
  <2>1. IsHardware(hal)' /\ hal'.rate = [r \in Sensors |-> hal'.rate[r]]
    BY <1>1, DeactivatedHardware DEF HardwareInv, SensorTypes
  <2>2. \A r \in Sensors : IsTable(mActivationCount[r])'
    BY <1>7 DEF IsTable
  <2> QED
    BY <1>1, <1>6, <2>1, <2>2, SameSystem DEF DeviceTypes
<1>9. SensorTypes'
  <2>1. \A d \in It.connections : IsConnection(conn'[d])
    BY <1>3, <1>4 DEF HardwareInv, SensorTypes
  <2> QED
    BY <1>1, <1>5, <1>6, <1>7, <1>8, <2>1, TypesAgain DEF HardwareInv
<1>10. \A d \in It.connections :
          /\ \A r \in Ordinary : r \in DOMAIN conn[d].info /\ ~(d = c /\ r \in {s})
                                 => r \in DOMAIN conn'[d].info
          /\ conn[d].had \subseteq conn'[d].had
  BY <1>3, <1>4
<1> QED
  BY <1>1, <1>7, <1>9, <1>10, ClientLeaves DEF Ordinary

\* The list of a connection tells which sensors to switch off.
LEMMA CleanupStep ==
    ASSUME HardwareInv, NEW c \in DOMAIN conn, NEW obeyed,
           cleanupConnection(c, obeyed)
    PROVE  HardwareInv'
<1> DEFINE own == DOMAIN conn[c].info
           k == updateLooperRegistration(removeSensors(conn[c], own))
<1>1. /\ mActiveSensors' = [s \in Sensors |-> removeConnections(mActiveSensors[s], {c})]
      /\ mActivationCount' = [s \in Sensors |-> WithoutIdent(mActivationCount[s], c)]
      /\ hal' = Deactivated(own, c, obeyed)
      /\ conn' = [conn EXCEPT ![c] = k]
      /\ UNCHANGED conf
  BY DEF cleanupConnection, removeConnection, bounds
<1>2. c \in It.connections /\ IsConnection(conn[c])
  BY DEF HardwareInv, SensorTypes
<1>3. IsConnection(k) /\ k.had = conn[c].had
  BY <1>2, CleanedUpLoses, LooperSame DEF SameSensors
<1> HIDE DEF k
<1>4. \A d \in It.connections : conn'[d] = IF d = c THEN k ELSE conn[d]
  BY <1>1 DEF HardwareInv, SensorTypes
<1>5. conn' = [d \in It.connections |-> conn'[d]]
  BY <1>1 DEF HardwareInv, SensorTypes
<1>6. /\ mActiveSensors' = [s \in Sensors |-> mActiveSensors'[s]]
      /\ mActivationCount' = [s \in Sensors |-> mActivationCount'[s]]
      /\ \A s \in Sensors : IsRecord(mActiveSensors'[s]) /\ IsTable(mActivationCount'[s])
  BY <1>1, RemovedUsers, TableWithout
<1>7. ASSUME NEW s \in Ordinary
      PROVE  /\ Users(s)' = IF s \in own THEN Users(s) \ {c} ELSE Users(s)
             /\ mActivationCount'[s] = IF s \in own THEN WithoutIdent(mActivationCount[s], c)
                                                    ELSE mActivationCount[s]
  <2>1. s \in Sensors /\ Users(s)' = Users(s) \ {c}
    BY <1>1, RemovedUsers DEF Ordinary, Users
  <2>2. c \in Users(s) => s \in own
    BY DEF HardwareInv, UsersKnow
  <2>3. IsTable(mActivationCount[s]) /\ DOMAIN mActivationCount[s] = Users(s)
    BY <2>1 DEF HardwareInv, SensorTypes, DeviceTypes, HardwareFollowsClients, Users,
                Ordinary
  <2> HIDE DEF own
  <2> QED
    BY <1>1, <2>1, <2>2, <2>3, TableWithout
<1> HIDE DEF own
<1>8. DeviceTypes'
  BY <1>1, <1>6, DeactivatedHardware, SameSystem
  DEF HardwareInv, SensorTypes, DeviceTypes, IsTable, IsHardware
<1>9. SensorTypes'
  <2>1. \A d \in It.connections : IsConnection(conn'[d])
    BY <1>3, <1>4 DEF HardwareInv, SensorTypes
  <2> QED
    BY <1>1, <1>5, <1>6, <1>8, <2>1, TypesAgain DEF HardwareInv
<1>10. \A d \in It.connections :
          /\ \A s \in Ordinary : s \in DOMAIN conn[d].info /\ ~(d = c /\ s \in own)
                                 => s \in DOMAIN conn'[d].info
          /\ conn[d].had \subseteq conn'[d].had
  BY <1>3, <1>4 DEF own
<1> QED
  BY <1>1, <1>7, <1>9, <1>10, ClientLeaves

LEMMA FlushStep ==
    ASSUME HardwareInv, NEW c \in DOMAIN conn, NEW accepted, flushSensor(c, accepted)
    PROVE  HardwareInv'
<1> DEFINE own == {s \in DOMAIN conn[c].info : ReportingMode(s) # "ONE_SHOT"}
           done == IF It.flushes THEN own \cap accepted ELSE own
<1>1. PICK asked, info :
         /\ conn' = [conn EXCEPT ![c] = [conn[c] EXCEPT !.asked = asked, !.info = info]]
         /\ DOMAIN info = DOMAIN conn[c].info
  <2> DEFINE Owed(s) == [conn[c].info[s] EXCEPT !.mPendingFlushEventsToSend = @ + 1]
             asked == [s \in Sensors |-> IF s \in done THEN conn[c].asked[s] + 1
                                                      ELSE conn[c].asked[s]]
             info == [s \in DOMAIN conn[c].info |->
                         IF s \in done /\ ~It.flushes THEN Owed(s) ELSE conn[c].info[s]]
  <2>1. conn' = [conn EXCEPT ![c] = [conn[c] EXCEPT !.asked = asked, !.info = info]]
    BY DEF flushSensor
  <2>2. DOMAIN info = DOMAIN conn[c].info
    OBVIOUS
  <2> HIDE DEF asked, info
  <2> QED
    BY <2>1, <2>2
<1> DEFINE k == [conn[c] EXCEPT !.asked = asked, !.info = info]
<1>2. conn' = [conn EXCEPT ![c] = k]
  BY <1>1
<1>3. c \in It.connections /\ IsConnection(conn[c])
  BY DEF HardwareInv, SensorTypes
<1>4. SameSensors(conn[c], k)
  BY <1>1, <1>3 DEF SameSensors, IsConnection, Fields
<1> HIDE DEF k
<1>5. UNCHANGED <<mActivationCount, conf>>
  BY DEF flushSensor
<1>6. /\ conn' = [d \in It.connections |-> conn'[d]]
      /\ \A d \in It.connections : IsConnection(conn'[d])
      /\ KeepsSensors
  BY <1>2, <1>4, <1>5, OneConnection DEF HardwareInv
<1>7. /\ IsHardware(hal)' /\ hal'.on = hal.on /\ hal'.rate = hal.rate
      /\ hal'.unstopped = hal.unstopped /\ hal'.unset = hal.unset
  <2>1. UNCHANGED hal \/ \E fifo : hal' = [hal EXCEPT !.fifo = fifo]
    BY Zenon DEF flushSensor
  <2> QED
    BY <2>1, OnlyFifo DEF HardwareInv, SensorTypes, DeviceTypes, IsHardware
<1>8. /\ mActiveSensors' = [s \in Sensors |-> mActiveSensors'[s]]
      /\ \A s \in Sensors : IsRecord(mActiveSensors'[s]) /\ Users(s)' = Users(s)
  <2>1. \/ UNCHANGED mActiveSensors
        \/ mActiveSensors' = [s \in Sensors |->
              IF s \in done THEN [mActiveSensors[s] EXCEPT !.flushes = Append(@, c)]
                            ELSE mActiveSensors[s]]
    BY DEF flushSensor
  <2>2. \A s \in Sensors : IsRecord(mActiveSensors[s])
    BY DEF HardwareInv, SensorTypes
  <2>3. ASSUME NEW rec, IsRecord(rec), NEW flushes
        PROVE  /\ IsRecord([rec EXCEPT !.flushes = flushes])
               /\ [rec EXCEPT !.flushes = flushes].connections = rec.connections
    BY <2>3 DEF IsRecord
  <2>4. CASE UNCHANGED mActiveSensors
    BY <2>2, <2>4 DEF HardwareInv, SensorTypes, Users
  <2>5. CASE mActiveSensors' = [s \in Sensors |->
              IF s \in done THEN [mActiveSensors[s] EXCEPT !.flushes = Append(@, c)]
                            ELSE mActiveSensors[s]]
    <3> HIDE DEF done
    <3> QED
      BY <2>2, <2>3, <2>5 DEF Users
  <2> QED
    BY <2>1, <2>4, <2>5
<1>9. DeviceTypes'
  BY <1>5, <1>7, SameSystem DEF HardwareInv, SensorTypes, DeviceTypes, IsTable
<1>10. SensorTypes'
  BY <1>5, <1>6, <1>8, <1>9, TypesAgain DEF HardwareInv
<1>11. LeavesSensors
  BY <1>5, <1>7, <1>8 DEF LeavesSensors, SameHardware, Ordinary
<1> QED
  BY <1>5, <1>6, <1>10, <1>11, SensorsLeft

LEMMA RateStep ==
    ASSUME HardwareInv, NEW c \in DOMAIN conn, NEW s \in Sensors, NEW rate, NEW ok,
           setEventRate(c, s, rate, ok)
    PROVE  HardwareInv'
<1> DEFINE params == [mActivationCount[s] EXCEPT ![c] = rate]
           period == IF ok THEN BestParams(params) ELSE hal.rate[s]
           unset == IF ok THEN hal.unset \ {s} ELSE hal.unset \cup {s}
<1>1. /\ mActivationCount' = [mActivationCount EXCEPT ![s] = params]
      /\ hal' = [hal EXCEPT !.rate[s] = period, !.unset = unset]
      /\ UNCHANGED <<mActiveSensors, conn, conf>>
  BY Zenon DEF setEventRate, service
<1>2. IsTable(params) /\ DOMAIN params = DOMAIN mActivationCount[s]
  BY DEF IsTable, HardwareInv, SensorTypes, DeviceTypes
<1>0. /\ s \in unset \/ period = BestParams(params)
      /\ \A r : r # s => (r \in unset <=> r \in hal.unset)
  OBVIOUS
<1> HIDE DEF params, period, unset
<1>3. /\ mActivationCount' = [r \in Sensors |-> mActivationCount'[r]]
      /\ \A r \in Sensors : mActivationCount'[r] =
                               IF r = s THEN params ELSE mActivationCount[r]
  BY <1>1 DEF HardwareInv, SensorTypes, DeviceTypes
<1>4. /\ IsHardware(hal)' /\ hal'.on = hal.on
      /\ hal'.rate = [hal.rate EXCEPT ![s] = period]
      /\ hal'.unset = unset /\ hal'.unstopped = hal.unstopped
  BY <1>1 DEF HardwareInv, SensorTypes, DeviceTypes, IsHardware
<1>5. /\ hal'.rate = [r \in Sensors |-> hal'.rate[r]]
      /\ \A r \in Sensors : hal'.rate[r] = IF r = s THEN period ELSE hal.rate[r]
  BY <1>4 DEF HardwareInv, SensorTypes, DeviceTypes
<1>6. It' = It /\ Sensors' = Sensors /\ Ordinary' = Ordinary
  BY <1>1, SameSystem
<1>7. \A r \in Sensors : IsTable(mActivationCount'[r])
  BY <1>2, <1>3 DEF HardwareInv, SensorTypes, DeviceTypes
<1>8. DeviceTypes'
  BY <1>3, <1>4, <1>5, <1>6, <1>7 DEF DeviceTypes, IsTable
<1>9. SensorTypes'
  BY <1>1, <1>8, TypesAgain DEF HardwareInv, SensorTypes
<1>10. UsersKnow'
  BY <1>1, <1>6 DEF HardwareInv, UsersKnow, Users
<1>11. ASSUME NEW r \in Ordinary PROVE Follows(r)'
  <2>1. Follows(r) /\ r \in Sensors
    BY EachFollows DEF HardwareInv, Ordinary
  <2>2. Users(r)' = Users(r)
    BY <1>1 DEF Users
  <2> QED
    BY <1>0, <1>2, <1>3, <1>4, <1>5, <2>1, <2>2 DEF Follows
<1>12. HardwareFollowsClients'
  BY <1>1, <1>11, EachFollowsNext
<1> QED
  BY <1>9, <1>10, <1>12 DEF HardwareInv

\* What enable() makes of the connection before the outcome is known.
Enabled(k, s) == [addSensor(k, s) EXCEPT !.had = @ \cup {s}]
AwaitsFlush(k, s, awaits) == [k EXCEPT !.info[s].mFirstFlushPending = awaits]

LEMMA EnabledConnection ==
    ASSUME NEW k, IsConnection(k), NEW s
    PROVE  /\ IsConnection(Enabled(k, s))
           /\ DOMAIN Enabled(k, s).info = DOMAIN k.info \cup {s}
           /\ Enabled(k, s).had = k.had \cup {s}
<1> DEFINE l == addSensor(k, s)
           had == l.had \cup {s}
<1>1. IsConnection(l) /\ DOMAIN l.info = DOMAIN k.info \cup {s} /\ l.had = k.had
  <2>1. CASE s \in DOMAIN k.info
    BY <2>1 DEF addSensor
  <2>2. CASE s \notin DOMAIN k.info
    <3> DEFINE info == With(k.info, s, [mPendingFlushEventsToSend |-> 0,
                                        mFirstFlushPending |-> FALSE])
    <3>1. DOMAIN info = DOMAIN k.info \cup {s}
      BY DEF With
    <3>2. l = [k EXCEPT !.info = info]
      BY <2>2 DEF addSensor
    <3> HIDE DEF info, l
    <3> QED
      BY <3>1, <3>2 DEF IsConnection, Fields
  <2> QED
    BY <2>1, <2>2
<1>2. Enabled(k, s) = [l EXCEPT !.had = had] /\ had = k.had \cup {s}
  BY <1>1 DEF Enabled
<1> HIDE DEF l, had
<1>3. /\ IsConnection([l EXCEPT !.had = had])
      /\ [l EXCEPT !.had = had].info = l.info /\ [l EXCEPT !.had = had].had = had
  BY <1>1 DEF IsConnection, Fields
<1> QED
  BY <1>1, <1>2, <1>3

LEMMA AwaitsSame ==
    ASSUME NEW k, IsConnection(k), NEW s, NEW awaits
    PROVE  SameSensors(k, AwaitsFlush(k, s, awaits))
<1> DEFINE info == [k.info EXCEPT ![s].mFirstFlushPending = awaits]
<1>1. AwaitsFlush(k, s, awaits) = [k EXCEPT !.info = info]
  BY DEF AwaitsFlush
<1>2. DOMAIN info = DOMAIN k.info
  OBVIOUS
<1> HIDE DEF info
<1> QED
  BY <1>1, <1>2 DEF SameSensors, IsConnection, Fields

\* A period that is the only one is the best.
LEMMA OnlyPeriod ==
    ASSUME NEW c, NEW rate \in Nat \ {0}, NEW params, DOMAIN params = {}
    PROVE  BestParams(With(params, c, rate)) # BestParams(params)
<1>1. DOMAIN With(params, c, rate) = {c} /\ With(params, c, rate)[c] = rate
  BY DEF With
<1>2. Range(With(params, c, rate)) = {rate}
  BY <1>1 DEF Range
<1>3. Min({rate}) = rate
  BY DEF Min
<1> QED
  BY <1>1, <1>2, <1>3 DEF BestParams

LEMMA EnableStep ==
    ASSUME NoFailedRetry, HardwareInv, NEW c \in DOMAIN conn, NEW s \in Sensors,
           NEW rate \in It.rates, NEW batchOk \in Outcomes, NEW flushOk \in Outcomes,
           NEW activateOk \in Outcomes, enable(c, s, rate, batchOk, flushOk, activateOk)
    PROVE  HardwareInv'
<1> DEFINE old == mActivationCount[s]
           k1 == IF SendsLastValue(c, s) THEN sendEvents(conn[c], mLastEventSeen[s])
                 ELSE conn[c]
           conns == Users(s) \cup {c}
           params == With(old, c, rate)
           changed == BestParams(params) # BestParams(old)
           batched == ~changed \/ batchOk
           flushing == /\ batched /\ It.flushes
                       /\ ReportingMode(s) # "ONE_SHOT" /\ Cardinality(conns) > 1
           k2 == Enabled(k1, s)
           k3 == IF flushing THEN AwaitsFlush(k2, s, flushOk) ELSE k2
           actuates == batched /\ DOMAIN params = {c}
           ok == batched /\ (actuates => activateOk)
           rec == [connections |-> conns,
                   flushes |-> IF flushing /\ flushOk
                               THEN Append(mActiveSensors[s].flushes, c)
                               ELSE mActiveSensors[s].flushes]
           k == IF ok THEN updateLooperRegistration(k3) ELSE CleanedUp(k3, {s})
           now == IF ok THEN params ELSE WithoutIdent(old, c)
           active == IF ok THEN rec ELSE removeConnections(rec, {c})
<1>1. /\ mActivationCount' = [mActivationCount EXCEPT ![s] = now]
      /\ mActiveSensors' = [mActiveSensors EXCEPT ![s] = active]
      /\ conn' = [conn EXCEPT ![c] = k]
      /\ UNCHANGED conf
  BY DEF enable, Users, removeConnection, Enabled, AwaitsFlush
<1>2. hal' = [hal EXCEPT !.rate[s] = IF changed /\ batched THEN BestParams(params) ELSE @,
                         !.fifo = IF flushing /\ flushOk THEN Append(@, FlushComplete(s))
                                  ELSE @,
                         !.on = IF actuates /\ activateOk THEN @ \cup {s} ELSE @,
                         !.unstopped = IF actuates /\ activateOk THEN @ \ {s} ELSE @,
                         !.unset = IF changed /\ batched THEN @ \ {s} ELSE @]
  BY DEF enable, Users
<1>3. It.again \/ ComesOnce(c, s)
  BY DEF enable
<1>4. c \in It.connections /\ IsConnection(conn[c])
  BY DEF HardwareInv, SensorTypes
<1>5. IsTable(old) /\ IsTable(now) /\ IsRecord(active)
  <2>1. IsTable(params)
    BY DEF IsTable, With
  <2>2. IsRecord(rec)
    BY DEF IsRecord
  <2>3. IsTable(old)
    BY DEF HardwareInv, SensorTypes, DeviceTypes
  <2> HIDE DEF rec, params, old
  <2> QED
    BY <2>1, <2>2, <2>3, RemovedUsers, TableWithout
<1>6. DOMAIN params = DOMAIN old \cup {c}
  BY DEF With
<1>7. active.connections = IF ok THEN Users(s) \cup {c} ELSE Users(s) \ {c}
  <2>1. rec.connections = Users(s) \cup {c}
    OBVIOUS
  <2>2. removeConnections(rec, {c}).connections = rec.connections \ {c}
    BY RemovedUsers, Zenon
  <2> HIDE DEF rec, ok
  <2> QED
    BY <2>1, <2>2
<1>8. DOMAIN now = IF ok THEN DOMAIN old \cup {c} ELSE DOMAIN old \ {c}
  <2>1. DOMAIN WithoutIdent(old, c) = DOMAIN old \ {c}
    BY TableWithout
  <2> HIDE DEF params, ok
  <2> QED
    BY <1>6, <2>1
<1> HIDE DEF active
<1>9. /\ IsConnection(k)
      /\ DOMAIN k.info = IF ok THEN DOMAIN conn[c].info \cup {s}
                         ELSE DOMAIN conn[c].info \ {s}
      /\ conn[c].had \subseteq k.had /\ s \in k.had
  <2>1. SameSensors(conn[c], k1)
    <3>1. SameSensors(conn[c], conn[c])
      BY <1>4 DEF SameSensors
    <3> QED
      BY <1>4, <3>1, SendSame
  <2> HIDE DEF k1, flushing
  <2>2. /\ IsConnection(k2) /\ DOMAIN k2.info = DOMAIN k1.info \cup {s}
        /\ k2.had = k1.had \cup {s}
    BY <2>1, EnabledConnection DEF SameSensors
  <2> HIDE DEF k2
  <2>3. SameSensors(k2, k3)
    BY <2>2, AwaitsSame DEF SameSensors
  <2>4. IsConnection(k3)
    BY <2>3 DEF SameSensors
  <2> HIDE DEF k3
  <2> HIDE DEF ok
  <2>5. /\ DOMAIN k3.info = DOMAIN conn[c].info \cup {s}
        /\ k3.had = conn[c].had \cup {s}
    BY <2>1, <2>2, <2>3 DEF SameSensors
  <2>6. CASE ok
    BY <2>4, <2>5, <2>6, LooperSame DEF SameSensors
  <2>7. CASE ~ok
    <3>1. DOMAIN CleanedUp(k3, {s}).info = DOMAIN conn[c].info \ {s}
      BY <2>4, <2>5, CleanedUpLoses
    <3> QED
      BY <2>4, <2>5, <2>7, <3>1, CleanedUpLoses
  <2> QED
    BY <2>6, <2>7
<1> HIDE DEF k
<1>10. s \in Ordinary /\ c \in Users(s) => ok
  <2> SUFFICES ASSUME s \in Ordinary, c \in Users(s) PROVE ok
    OBVIOUS
  <2>1. s \in conn[c].had
    BY DEF HardwareInv, UsersKnow
  <2>2. It.again
    BY <1>3, <2>1 DEF ComesOnce
  <2>3. ~It.fails
    BY <2>2 DEF NoFailedRetry, It, HardwareInv, SensorTypes
  <2>4. batchOk /\ activateOk
    BY <2>3 DEF Outcomes
  <2> QED
    BY <2>4
<1>11. It' = It /\ Sensors' = Sensors /\ Ordinary' = Ordinary
  BY <1>1, SameSystem
<1>12. /\ mActivationCount' = [r \in Sensors |-> mActivationCount'[r]]
       /\ \A r \in Sensors : mActivationCount'[r] = IF r = s THEN now
                                                    ELSE mActivationCount[r]
  BY <1>1 DEF HardwareInv, SensorTypes, DeviceTypes
<1>13. /\ mActiveSensors' = [r \in Sensors |-> mActiveSensors'[r]]
       /\ \A r \in Sensors : mActiveSensors'[r] = IF r = s THEN active
                                                  ELSE mActiveSensors[r]
  BY <1>1 DEF HardwareInv, SensorTypes
<1>14. /\ conn' = [d \in It.connections |-> conn'[d]]
       /\ \A d \in It.connections : conn'[d] = IF d = c THEN k ELSE conn[d]
  BY <1>1 DEF HardwareInv, SensorTypes
<1>15. /\ IsHardware(hal)' /\ hal'.rate = [r \in Sensors |-> hal'.rate[r]]
       /\ \A r \in Sensors : r # s => /\ hal'.rate[r] = hal.rate[r]
                                      /\ r \in hal'.on <=> r \in hal.on
                                      /\ r \in hal'.unstopped <=> r \in hal.unstopped
                                      /\ r \in hal'.unset <=> r \in hal.unset
       /\ ~(actuates /\ activateOk) => (s \in hal'.unstopped <=> s \in hal.unstopped)
       /\ ~(changed /\ batched) => (s \in hal'.unset <=> s \in hal.unset)
       /\ hal'.rate[s] = IF changed /\ batched THEN BestParams(params) ELSE hal.rate[s]
       /\ s \in hal'.on <=> s \in hal.on \/ (actuates /\ activateOk)
  <2> DEFINE rates == [hal.rate EXCEPT ![s] =
                          IF changed /\ batched THEN BestParams(params) ELSE @]
             fifo == IF flushing /\ flushOk THEN Append(hal.fifo, FlushComplete(s))
                     ELSE hal.fifo
             on == IF actuates /\ activateOk THEN hal.on \cup {s} ELSE hal.on
             unstopped == IF actuates /\ activateOk THEN hal.unstopped \ {s}
                                                   ELSE hal.unstopped
             unset == IF changed /\ batched THEN hal.unset \ {s} ELSE hal.unset
  <2>1. hal' = [hal EXCEPT !.rate = rates, !.fifo = fifo, !.on = on,
                           !.unstopped = unstopped, !.unset = unset]
    BY <1>2
  <2>2. /\ rates = [r \in Sensors |-> rates[r]]
        /\ \A r \in Sensors : r # s => rates[r] = hal.rate[r]
        /\ rates[s] = IF changed /\ batched THEN BestParams(params) ELSE hal.rate[s]
    BY DEF HardwareInv, SensorTypes, DeviceTypes
  <2>3. /\ \A r : r # s => (r \in on <=> r \in hal.on)
        /\ s \in on <=> s \in hal.on \/ (actuates /\ activateOk)
    OBVIOUS
  <2>5. /\ \A r : r # s => (r \in unstopped <=> r \in hal.unstopped)
        /\ ~(actuates /\ activateOk) => unstopped = hal.unstopped
    OBVIOUS
  <2>6. /\ \A r : r # s => (r \in unset <=> r \in hal.unset)
        /\ ~(changed /\ batched) => unset = hal.unset
    BY Zenon
  <2> HIDE DEF rates, fifo, on, unstopped, unset
  <2>4. /\ IsHardware(hal)' /\ hal'.rate = rates /\ hal'.on = on
        /\ hal'.unstopped = unstopped /\ hal'.unset = unset
    BY <2>1 DEF HardwareInv, SensorTypes, DeviceTypes, IsHardware
  <2> QED
    BY <2>2, <2>3, <2>4, <2>5, <2>6
<1> HIDE DEF now
<1>16. SensorTypes'
  <2>1. DeviceTypes'
    BY <1>5, <1>11, <1>12, <1>15 DEF HardwareInv, SensorTypes, DeviceTypes, IsTable
  <2> QED
    BY <1>1, <1>4, <1>5, <1>9, <1>13, <1>14, <2>1, TypesAgain DEF HardwareInv, SensorTypes
<1>17. UsersKnow'
  <2> SUFFICES ASSUME NEW r \in Ordinary, NEW d \in Users(r)'
               PROVE  d \in It.connections /\ r \in DOMAIN conn'[d].info /\ r \in conn'[d].had
    BY <1>11 DEF UsersKnow
  <2>1. r \in Sensors
    BY DEF Ordinary
  <2>2. CASE d \in Users(r) /\ ~(r = s /\ d = c)
    BY <1>9, <1>14, <2>2 DEF HardwareInv, UsersKnow
  <2>3. CASE r = s /\ d = c
    <3>1. ok
      BY <1>7, <1>13, <2>3 DEF Users
    <3> QED
      BY <1>4, <1>9, <1>14, <2>3, <3>1
  <2>4. d \in Users(r) \/ (r = s /\ d = c)
    BY <1>7, <1>13, <2>1 DEF Users
  <2> QED
    BY <2>2, <2>3, <2>4
<1>18. ASSUME NEW r \in Ordinary
       PROVE  Follows(r)'
  <2>1. r \in Sensors /\ Follows(r)
    BY EachFollows DEF HardwareInv, Ordinary
  <2>2. CASE r # s
    BY <1>12, <1>13, <1>15, <2>1, <2>2 DEF Follows, Users
  <2>3. CASE r = s /\ ok
    <3>1. Users(s)' = Users(s) \cup {c} /\ DOMAIN mActivationCount'[s] = Users(s) \cup {c}
      BY <1>7, <1>8, <1>12, <1>13, <2>1, <2>3 DEF Follows, Users
    <3>2. s \in hal'.on
      BY <1>6, <1>15, <2>1, <2>3 DEF Follows
    <3>3. mActivationCount'[s] = params
      BY <1>12, <2>3 DEF now
    <3>4. CASE changed
      BY <1>15, <2>3, <3>1, <3>2, <3>3, <3>4 DEF Follows
    <3>5. CASE ~changed
      <4>1. rate \in Nat \ {0}
        BY SensorConstants DEF HardwareInv, SensorTypes, It
      <4>2. DOMAIN old # {}
        BY <3>5, <4>1, OnlyPeriod
      <4> QED
        BY <1>15, <2>1, <2>3, <3>1, <3>2, <3>3, <3>5, <4>2 DEF Follows
    <3> QED
      BY <3>4, <3>5
  <2>4. CASE r = s /\ ~ok
    <3>1. c \notin Users(s)
      BY <1>10, <2>4
    <3>2. Users(s)' = Users(s) /\ mActivationCount'[s] = old
      <4>1. WithoutIdent(old, c) = old
        BY <1>5, <2>1, <2>4, <3>1, TableWithout DEF Follows
      <4>2. now = WithoutIdent(old, c)
        BY <2>4 DEF now
      <4> HIDE DEF ok
      <4>3. mActivationCount'[s] = old
        BY <1>12, <4>1, <4>2
      <4>4. Users(s)' = Users(s) \ {c}
        BY <1>7, <1>13, <2>4 DEF Users
      <4> QED
        BY <3>1, <4>3, <4>4
    <3>3. /\ s \in hal'.on <=> s \in hal.on
          /\ s \in hal'.unstopped <=> s \in hal.unstopped
      BY <1>15, <2>4
    <3>4. Users(s) # {} => /\ hal'.rate[s] = hal.rate[s]
                           /\ s \in hal'.unset <=> s \in hal.unset
      <4>1. Users(s) # {} => ~batched
        BY <1>6, <2>1, <2>4, <3>1 DEF Follows
      <4> QED
        BY <1>15, <4>1
    <3> QED
      BY <2>1, <2>4, <3>2, <3>3, <3>4 DEF Follows
  <2> QED
    BY <2>2, <2>3, <2>4
<1>19. HardwareFollowsClients'
  BY <1>1, <1>18, EachFollowsNext
<1> QED
  BY <1>16, <1>17, <1>19 DEF HardwareInv

-----------------------------------------------------------------------------
(* The service *)

LEMMA HardwareInit == Init => HardwareInv
<1> SUFFICES ASSUME Init PROVE HardwareInv
  OBVIOUS
<1>1. SensorTypes
  <2>1. IsConnection(NewConnection)
    BY DEF NewConnection, IsConnection, Fields
  <2>2. IsRecord(NoRecord) /\ IsTable(<<>>)
    BY DEF NoRecord, IsRecord, IsTable
  <2>4. IsHardware(hal)
    BY DEF Init, IsHardware
  <2>3. hal.rate = [s \in Sensors |-> hal.rate[s]]
    BY DEF Init, Silence
  <2> QED
    BY <2>1, <2>2, <2>3, <2>4 DEF Init, SensorTypes, DeviceTypes
<1>2. \A s \in Sensors : Users(s) = {} /\ DOMAIN mActivationCount[s] = {}
  BY DEF Init, NoRecord, Users
<1>3. hal.on = {}
  BY DEF Init
<1>4. UsersKnow
  BY <1>2 DEF UsersKnow, Ordinary
<1>5. HardwareFollowsClients
  BY <1>2, <1>3 DEF HardwareFollowsClients, Users
<1> QED
  BY <1>1, <1>4, <1>5 DEF HardwareInv

LEMMA HardwareStays ==
    ASSUME NoFailedRetry, HardwareInv, [Next]_vars
    PROVE  HardwareInv'
<1>1. CASE ThreadLoop
  BY <1>1, ThreadStep, DispatchStep DEF ThreadLoop
<1>2. CASE AckReceiver
  BY <1>2, AckStep
<1>3. ASSUME NEW s \in Sensors, HardwareEvent(s)
      PROVE  HardwareInv'
  BY <1>3, HardwareStep
<1>4. ASSUME NEW c \in DOMAIN conn, Call(c)
      PROVE  HardwareInv'
  <2>1. ASSUME NEW s \in Sensors, NEW rate \in It.rates, NEW b \in Outcomes,
               NEW f \in Outcomes, NEW a \in Outcomes, enable(c, s, rate, b, f, a)
        PROVE  HardwareInv'
    BY <2>1, EnableStep
  <2>2. ASSUME NEW s \in Sensors, NEW obeyed, disable(c, s, obeyed)
        PROVE  HardwareInv'
    BY <2>2, DisableStep
  <2>3. ASSUME NEW s \in Sensors, NEW rate \in It.rates, NEW ok,
               setEventRate(c, s, rate, ok)
        PROVE  HardwareInv'
    BY <2>3, RateStep
  <2>4. ASSUME NEW accepted, flushSensor(c, accepted)
        PROVE  HardwareInv'
    BY <2>4, FlushStep
  <2> QED
    BY <1>4, <2>1, <2>2, <2>3, <2>4 DEF Call
<1>5. ASSUME NEW c \in DOMAIN conn, read(c) \/ sendAck(c) \/ die(c)
      PROVE  HardwareInv'
  BY <1>5, ClientStep
<1>6. ASSUME NEW c \in DOMAIN conn, NEW obeyed, cleanupConnection(c, obeyed)
      PROVE  HardwareInv'
  BY <1>6, CleanupStep
<1>7. CASE UNCHANGED vars
  BY <1>7, StutterStep DEF vars, service, device, bounds
<1> QED
  BY <1>1, <1>2, <1>3, <1>4, <1>5, <1>6, <1>7 DEF Next

\* SensorService and SensorDevice agree on who uses a sensor, the hardware is on
\* as long as somebody does, at the shortest period any of them asked for, and
\* off otherwise, for all sensors that are not one-shot and save what the
\* hardware itself refused: enable, disable, setEventRate and the clean-up of
\* dead clients keep it so, for every number of clients and sensors, in any
\* interleaving with the service's threads, whichever calls of the hardware
\* fail; a sensor that it refused to stop or to set is the only exception.
THEOREM HardwareServesClients ==
    ASSUME NoFailedRetry
    PROVE  Spec => []HardwareFollowsClients
<1>1. Init => HardwareInv
  BY HardwareInit
<1>2. HardwareInv /\ [Next]_vars => HardwareInv'
  BY HardwareStays
<1>3. HardwareInv => HardwareFollowsClients
  BY DEF HardwareInv
<1> QED
  BY <1>1, <1>2, <1>3, PTL DEF Spec
=============================================================================
