---------------------------- MODULE DispatchCycle ----------------------------
(***************************************************************************)
(* services/inputflinger/InputDispatcher.cpp, the outbound half: the       *)
(* queues of each connection, what the dispatcher believes an application  *)
(* has been told (InputState), the answers of applications, and the        *)
(* commands that run with mLock released while binder threads cancel       *)
(* events or unregister channels.                                          *)
(*                                                                         *)
(* A connection is one record, InputPublisher's socket included; operators *)
(* map a connection to the connection after a locked call. A KeyEntry is   *)
(* shared by the dispatch entries of all its targets: `ev' names it. There *)
(* is one keyboard, so a key is its code.                                  *)
(***************************************************************************)
EXTENDS Integers, Sequences, FiniteSets, SequencesExt

CONSTANTS
    Apps, Monitors,     \* connections of windows, and monitoring channels
    KeyCodes,           \* key codes
    Pointers, Joysticks,\* motion devices by class of source
    PIPE,               \* messages the socket to an application holds
    NONE, UNKNOWN,      \* no fallback key, and AKEYCODE_UNKNOWN
    Configurations      \* named systems and their bounds; conf is a name

Conns == Apps \cup Monitors

ASSUME CycleConstants ==
    /\ IsFiniteSet(Conns) /\ IsFiniteSet(KeyCodes)
    /\ IsFiniteSet(Pointers \cup Joysticks)
    /\ Apps \cap Monitors = {} /\ Pointers \cap Joysticks = {}
    /\ NONE \notin KeyCodes /\ UNKNOWN \notin KeyCodes /\ PIPE \in Nat \ {0}
    /\ \A n \in DOMAIN Configurations : LET c == Configurations[n] IN
          /\ c.channels \subseteq Conns /\ c.keys \subseteq KeyCodes
          /\ c.devices \subseteq Pointers \cup Joysticks
          /\ c.fallbacks \subseteq c.keys
          /\ c.cancelModes \subseteq {"ALL", "POINTER", "NON_POINTER"}
          /\ c.responsive \in BOOLEAN /\ {c.maxEvents, c.maxCancels} \subseteq Nat

VARIABLES
    conn,       \* the connection of each input channel
    commands,   \* mCommandQueue
    thread,     \* what the dispatcher's thread is doing
    lastKey,    \* mKeyRepeatState.lastKeyEntry
    nextEvent,  \* number of the next event
    cancels,    \* calls of binder threads that cancelled events
    hungUp,     \* channels whose callback asked to notify the policy
    notified,   \* channels the policy was told are broken
    conf        \* what is connected, and the policy; it never changes

cycle == <<conn, commands, thread, lastKey, nextEvent, cancels, hungUp, notified>>
vars == <<cycle, conf>>

It == Configurations[conf]
Keys == It.keys
Devices == It.devices
Fallbacks == It.fallbacks       \* key codes the policy may substitute
CancelModes == It.cancelModes   \* modes in which binder threads cancel events
MaxEvents == It.maxEvents       \* bound: events dispatched
MaxCancels == It.maxCancels     \* bound: calls that cancel

NoKey == [ev |-> 0]
Idle == [pc |-> "idle"]

\* A Connection, the two directions of its socket (unread, signals), the
\* application's end (reading, open), and what the application was told (view).
NewConnection ==
    [status |-> "NEW", registered |-> FALSE,
     outbound |-> <<>>, wait |-> <<>>, blocked |-> FALSE,
     keyMementos |-> {}, motionMementos |-> {}, fallbackKeys |-> <<>>,
     nextSeq |-> 1, pending |-> [e \in 1 .. MaxEvents |-> 0],
     unread |-> <<>>, reading |-> {}, signals |-> <<>>, open |-> TRUE,
     view |-> [keys |-> {}, touch |-> {}, hover |-> {}, ok |-> TRUE]]

Init ==
    /\ conf \in DOMAIN Configurations
    /\ conn = [c \in Conns |-> NewConnection]
    /\ commands = <<>> /\ thread = Idle /\ lastKey = NoKey
    /\ nextEvent = 1 /\ cancels = 0 /\ hungUp = {} /\ notified = {}

-----------------------------------------------------------------------------
(* InputState *)

HasMotion(cn, d, hovering) == [dev |-> d, hovering |-> hovering] \in cn.motionMementos
SetMotion(cn, d, hovering) ==
    [cn EXCEPT !.motionMementos = @ \cup {[dev |-> d, hovering |-> hovering]}]
DropMotion(cn, d, hovering) ==
    [cn EXCEPT !.motionMementos = @ \ {[dev |-> d, hovering |-> hovering]}]

\* trackKey accepts every key. The release of a fallback key ends the fallback.
trackKey(cn, e) ==
    LET others == {m \in cn.keyMementos : m.code # e.code}
        kept == {k \in DOMAIN cn.fallbackKeys : cn.fallbackKeys[k] # e.code}
    IN  IF e.action = "DOWN"
        THEN [cn EXCEPT !.keyMementos =
                 others \cup {[code |-> e.code, flagged |-> e.resolvedFlagged]}]
        ELSE [cn EXCEPT
                 !.keyMementos = others,
                 !.fallbackKeys = IF e.flagged THEN [k \in kept |-> @[k]] ELSE @]

\* trackMotion: whether the event is consistent with what came before it ...
IsConsistent(cn, e) ==
    CASE e.action \in {"UP", "CANCEL"} -> HasMotion(cn, e.dev, FALSE)
      [] e.action = "MOVE" -> e.dev \in Joysticks \/ HasMotion(cn, e.dev, FALSE)
      [] e.action = "HOVER_EXIT" -> HasMotion(cn, e.dev, TRUE)
      [] OTHER -> TRUE

TrackWithoutCancel(cn, e) ==
    CASE e.action = "UP" -> DropMotion(cn, e.dev, FALSE)
      [] e.action = "DOWN" -> SetMotion(cn, e.dev, FALSE)
      [] OTHER -> cn

\* ... and the state after a consistent one.
trackMotion(cn, e) ==
    CASE e.action \in {"UP", "CANCEL"} -> DropMotion(cn, e.dev, FALSE)
      [] e.action = "DOWN" -> SetMotion(cn, e.dev, FALSE)
      [] e.action = "MOVE" /\ e.dev \in Joysticks ->
            IF e.neutral THEN DropMotion(cn, e.dev, FALSE)
            ELSE SetMotion(cn, e.dev, FALSE)
      [] e.action = "HOVER_EXIT" -> DropMotion(cn, e.dev, TRUE)
      [] e.action \in {"HOVER_ENTER", "HOVER_MOVE"} -> SetMotion(cn, e.dev, TRUE)
      [] OTHER -> cn

shouldCancelKey(m, options) ==
    /\ options.keyCode \in {NONE, m.code}
    /\ \/ options.mode \in {"ALL", "NON_POINTER"}
       \/ options.mode = "FALLBACK" /\ m.flagged

shouldCancelMotion(m, options) ==
    \/ options.mode = "ALL"
    \/ options.mode = "POINTER" /\ m.dev \in Pointers
    \/ options.mode = "NON_POINTER" /\ m.dev \notin Pointers

Options(mode) == [mode |-> mode, keyCode |-> NONE]

-----------------------------------------------------------------------------
(* Dispatch entries *)

KeyEvent(ev, code, action, repeat, flagged) ==
    [type |-> "KEY", ev |-> ev, code |-> code, action |-> action,
     repeat |-> repeat, flagged |-> flagged, resolvedFlagged |-> flagged]

MotionEvent(ev, d, action, neutral) ==
    [type |-> "MOTION", ev |-> ev, dev |-> d, action |-> action,
     neutral |-> neutral]

ResolvedAction(cn, e, mode) ==
    CASE mode = "OUTSIDE" -> "OUTSIDE"
      [] mode = "HOVER_EXIT" -> "HOVER_EXIT"
      [] mode = "HOVER_ENTER" -> "HOVER_ENTER"
      [] mode = "SLIPPERY_EXIT" -> "CANCEL"
      [] mode = "SLIPPERY_ENTER" -> "DOWN"
      [] OTHER -> IF e.action = "HOVER_MOVE" /\ ~HasMotion(cn, e.dev, TRUE)
                  THEN "HOVER_ENTER" ELSE e.action

Queued(cn) == cn.outbound \o cn.wait

\* The places of the foreground entries of an event in a connection's queues.
Foreground(cn, ev) ==
    {i \in DOMAIN Queued(cn) : Queued(cn)[i].fg /\ Queued(cn)[i].ev = ev}

\* incrementPendingForegroundDispatchesLocked and its counterpart, as this
\* connection's share of the event's count.
Pend(cn, e) == IF e.fg THEN [cn EXCEPT !.pending[e.ev] = @ + 1] ELSE cn
Release(cn, e) == IF e.fg THEN [cn EXCEPT !.pending[e.ev] = @ - 1] ELSE cn

\* An event on its way to one connection.
DispatchEntry(e, fg, seq) ==
    [f \in DOMAIN e \cup {"fg", "seq"} |->
        CASE f = "fg" -> fg [] f = "seq" -> seq [] OTHER -> e[f]]

Enqueued(cn, e, fg) ==
    LET entry == DispatchEntry(e, fg, cn.nextSeq)
    IN  Pend([cn EXCEPT !.outbound = Append(@, entry), !.nextSeq = @ + 1], entry)

EnqueuedUntracked(cn, event, fg, mode) ==
    IF event.type = "KEY" THEN Enqueued(trackKey(cn, event), event, fg)
    ELSE LET e == [event EXCEPT !.action = ResolvedAction(cn, event, mode)]
         IN  Enqueued(trackMotion(cn, e), e, fg)

enqueueDispatchEntryLocked(cn, event, fg, mode) ==
    IF event.type = "KEY" THEN Enqueued(trackKey(cn, event), event, fg)
    ELSE LET e == [event EXCEPT !.action = ResolvedAction(cn, event, mode)]
         IN  IF IsConsistent(cn, e) THEN Enqueued(trackMotion(cn, e), e, fg)
             ELSE cn

\* What the application has been told once an entry is published.
ViewAfter(v, e) ==
    LET Need(d, S) == [v EXCEPT !.ok = @ /\ d \in S]
    IN  CASE e.type = "KEY" /\ e.action = "DOWN" -> [v EXCEPT !.keys = @ \cup {e.code}]
          [] e.type = "KEY" /\ e.action = "UP" -> [v EXCEPT !.keys = @ \ {e.code}]
          [] e.type = "MOTION" /\ e.dev \in Joysticks ->
                [v EXCEPT !.touch = IF e.neutral \/ e.action = "CANCEL"
                                    THEN @ \ {e.dev} ELSE @ \cup {e.dev}]
          [] e.action = "DOWN" -> [v EXCEPT !.touch = @ \cup {e.dev}]
          [] e.action = "MOVE" -> Need(e.dev, v.touch)
          [] e.action \in {"UP", "CANCEL"} ->
                [Need(e.dev, v.touch) EXCEPT !.touch = @ \ {e.dev}]
          [] e.action = "HOVER_ENTER" -> [v EXCEPT !.hover = @ \cup {e.dev}]
          [] e.action = "HOVER_MOVE" -> Need(e.dev, v.hover)
          [] e.action = "HOVER_EXIT" ->
                [Need(e.dev, v.hover) EXCEPT !.hover = @ \ {e.dev}]
          [] OTHER -> v

DrainedWithoutRelease(cn) == [cn EXCEPT !.outbound = <<>>, !.wait = <<>>]

\* Every entry is released.
Drained(cn) ==
    [cn EXCEPT !.pending = [ev \in DOMAIN @ |-> @[ev] - Cardinality(Foreground(cn, ev))],
               !.outbound = <<>>, !.wait = <<>>]

AbortedButNormal(cn) == Drained(cn)

abortBrokenDispatchCycleLocked(cn) ==
    [Drained(cn) EXCEPT !.status = IF @ = "NORMAL" THEN "BROKEN" ELSE @]

StartAwaitingForeground(cn) ==
    LET room == IF cn.open THEN PIPE - Len(cn.unread) ELSE 0
        n == IF room < Len(cn.outbound) THEN room ELSE Len(cn.outbound)
        sent == SubSeq(cn.outbound, 1, n)
    IN  IF cn.status # "NORMAL" THEN cn
        ELSE [cn EXCEPT !.outbound = SubSeq(@, n + 1, Len(@)),
                        !.wait = @ \o SelectSeq(sent, LAMBDA e : e.fg),
                        !.unread = @ \o [i \in 1 .. n |-> sent[i].seq]]

\* Publishes what the socket takes; a full socket blocks the publisher while
\* the application still owes answers, and breaks the connection otherwise.
startDispatchCycleLocked(cn) ==
    LET room == IF cn.open THEN PIPE - Len(cn.unread) ELSE 0
        n == IF room < Len(cn.outbound) THEN room ELSE Len(cn.outbound)
        sent == SubSeq(cn.outbound, 1, n)
        after == [cn EXCEPT
            !.outbound = SubSeq(@, n + 1, Len(@)),
            !.wait = @ \o sent,
            !.unread = @ \o [i \in 1 .. n |-> sent[i].seq],
            !.view = FoldLeft(ViewAfter, @, sent)]
    IN  IF cn.status # "NORMAL" THEN cn
        ELSE IF after.outbound = <<>> THEN after
        ELSE IF cn.open /\ after.wait # <<>> THEN [after EXCEPT !.blocked = TRUE]
        ELSE abortBrokenDispatchCycleLocked(after)

prepareDispatchCycleLocked(cn, event, fg, mode) ==
    IF ~cn.registered \/ cn.status # "NORMAL" THEN cn
    ELSE LET new == enqueueDispatchEntryLocked(cn, event, fg, mode)
         IN  IF cn.outbound = <<>> /\ new.outbound # <<>>
             THEN startDispatchCycleLocked(new) ELSE new

\* The mementos that the options select, and the cancelation events for them:
\* keys, then motions.
KeysToCancel(cn, options) == {m \in cn.keyMementos : shouldCancelKey(m, options)}
MotionsToCancel(cn, options) ==
    {m \in cn.motionMementos : shouldCancelMotion(m, options)}

CancelationEvents(cn, options) ==
    LET keys == KeysToCancel(cn, options)
        motions == MotionsToCancel(cn, options)
    IN  [i \in 1 .. Cardinality(keys) |->
            LET m == SetToSeq(keys)[i] IN KeyEvent(0, m.code, "UP", 0, m.flagged)]
        \o [i \in 1 .. Cardinality(motions) |->
            LET m == SetToSeq(motions)[i]
            IN  MotionEvent(0, m.dev, IF m.hovering THEN "HOVER_EXIT" ELSE "CANCEL",
                            TRUE)]

\* enqueueDispatchEntryLocked for all of them, nobody's foreground dispatches: each
\* ends what its memento remembers (CancelationsConsistent says why).
CancelationsEnqueued(cn, options) ==
    LET events == CancelationEvents(cn, options)
        keys == KeysToCancel(cn, options)
        fallbacksUp == {m.code : m \in {k \in keys : k.flagged}}
        kept == {k \in DOMAIN cn.fallbackKeys : cn.fallbackKeys[k] \notin fallbacksUp}
    IN  [cn EXCEPT
            !.keyMementos = {m \in @ : \A k \in keys : k.code # m.code},
            !.fallbackKeys = [k \in kept |-> @[k]],
            !.motionMementos = @ \ MotionsToCancel(cn, options),
            !.outbound = @ \o [i \in DOMAIN events |->
                DispatchEntry(events[i], FALSE, cn.nextSeq + i - 1)],
            !.nextSeq = @ + Len(events)]

synthesizeCancelationEventsForConnectionLocked(cn, options) ==
    IF cn.status = "BROKEN" \/ CancelationEvents(cn, options) = <<>> THEN cn
    ELSE startDispatchCycleLocked(CancelationsEnqueued(cn, options))

\* onDispatchCycleBrokenLocked for every connection that broke in this step.
NotifyBroken(broke) ==
    [i \in 1 .. Cardinality(broke) |->
        [type |-> "broken", conn |-> SetToSeq(broke)[i]]]

BrokenCommands(before, after) ==
    NotifyBroken({c \in Conns : before[c].status = "NORMAL"
                                /\ after[c].status = "BROKEN"})

SetConnections(new) ==
    /\ conn' = new
    /\ commands' = commands \o BrokenCommands(conn, new)

-----------------------------------------------------------------------------
(* Registration, by binder threads *)

LockFree == thread.pc # "commands"

registerInputChannel(c) ==
    /\ LockFree /\ c \in It.channels /\ conn[c].status = "NEW"
    /\ conn' = [conn EXCEPT ![c].status = "NORMAL", ![c].registered = TRUE]
    /\ UNCHANGED <<commands, thread, lastKey, nextEvent, cancels, hungUp, notified>>

\* The channel is closed with its connection, and nothing more is told.
Unregistered(cn) ==
    [abortBrokenDispatchCycleLocked(cn) EXCEPT
        !.registered = FALSE, !.status = "ZOMBIE", !.signals = <<>>,
        !.unread = <<>>, !.reading = {}, !.view = NewConnection.view]

unregisterInputChannel(c) ==
    /\ LockFree /\ conn[c].registered
    /\ conn' = [conn EXCEPT ![c] = Unregistered(@)]
    /\ UNCHANGED <<commands, thread, lastKey, nextEvent, cancels, hungUp, notified>>

\* setInputWindows and dropped events: cancelations for one connection.
cancelEvents(c, mode) ==
    /\ LockFree /\ conn[c].registered /\ cancels < MaxCancels
    /\ CancelationEvents(conn[c], Options(mode)) # <<>>
    /\ SetConnections([conn EXCEPT ![c] =
           synthesizeCancelationEventsForConnectionLocked(@, Options(mode))])
    /\ cancels' = cancels + 1
    /\ UNCHANGED <<thread, lastKey, nextEvent, hungUp, notified>>

-----------------------------------------------------------------------------
(* Dispatching, by the dispatcher's thread *)

\* checkWindowReadyForMoreInputLocked, without the time the queue has waited.
IsReady(cn, event) ==
    /\ cn.registered /\ cn.status = "NORMAL" /\ ~cn.blocked
    /\ event.type = "KEY" => cn.outbound = <<>> /\ cn.wait = <<>>

dispatchEventLocked(event, target, fg, mode) ==
    LET Sent(c) ==
            IF c = target THEN prepareDispatchCycleLocked(conn[c], event, fg, mode)
            ELSE IF c \in Monitors
            THEN prepareDispatchCycleLocked(conn[c], event, FALSE, "AS_IS")
            ELSE conn[c]
    IN  /\ thread = Idle /\ commands = <<>> /\ event.ev <= MaxEvents
        /\ mode \in {"AS_IS", "SLIPPERY_EXIT", "SLIPPERY_ENTER"} =>
               IsReady(conn[target], event)
        /\ SetConnections([c \in Conns |-> Sent(c)])
        /\ thread' = IF commands' = <<>> THEN Idle
                     ELSE [pc |-> "commands", unregister |-> {}]
        /\ nextEvent' = nextEvent + 1
        /\ UNCHANGED <<cancels, hungUp, notified>>

dispatchKey(target, code, action) ==
    LET again == lastKey # NoKey /\ lastKey.code = code
        event == KeyEvent(nextEvent, code, action,
                          IF action = "DOWN" /\ again THEN lastKey.repeat + 1 ELSE 0,
                          FALSE)
    IN  /\ dispatchEventLocked(event, target, TRUE, "AS_IS")
        /\ lastKey' = IF action = "DOWN" THEN event ELSE NoKey

\* synthesizeKeyRepeatLocked: a repeat of the entry that was saved.
repeatKey(target) ==
    /\ lastKey # NoKey
    /\ LET event == KeyEvent(nextEvent, lastKey.code, "DOWN", lastKey.repeat + 1,
                             lastKey.flagged)
       IN  dispatchEventLocked(event, target, TRUE, "AS_IS") /\ lastKey' = event

\* The dispatch modes findTouchedWindowTargetsLocked gives an action.
ModesOf(action) ==
    CASE action = "DOWN" -> {"AS_IS", "OUTSIDE"}
      [] action = "MOVE" -> {"AS_IS", "SLIPPERY_EXIT", "SLIPPERY_ENTER"}
      [] action = "HOVER_MOVE" -> {"AS_IS", "HOVER_ENTER", "HOVER_EXIT"}
      [] OTHER -> {"AS_IS"}

dispatchMotion(target, d, action, mode, neutral) ==
    /\ mode \in ModesOf(action)
    /\ d \in Joysticks => action = "MOVE" /\ mode = "AS_IS"
    /\ d \in Pointers => ~neutral
    /\ dispatchEventLocked(MotionEvent(nextEvent, d, action, neutral), target,
                           mode \in {"AS_IS", "SLIPPERY_EXIT", "SLIPPERY_ENTER"},
                           mode)
    /\ UNCHANGED lastKey

\* handleReceiveCallback: takes every signal, runs the commands they cause and
\* unregisters the channel of an application that is gone.
handleReceiveCallback(c) ==
    LET cn == conn[c]
    IN  /\ thread = Idle /\ cn.registered
        /\ \/ /\ cn.signals # <<>>
              /\ conn' = [conn EXCEPT ![c].signals = <<>>, ![c].blocked = FALSE]
              /\ commands' = commands \o
                    (IF cn.status = "BROKEN" THEN <<>> ELSE
                     [i \in DOMAIN cn.signals |->
                         [type |-> "finished", conn |-> c,
                          seq |-> cn.signals[i].seq,
                          handled |-> cn.signals[i].handled]])
              /\ thread' = [pc |-> "commands",
                            unregister |-> IF cn.open THEN {} ELSE {c}]
              /\ UNCHANGED hungUp
           \/ /\ ~cn.open
              /\ conn' = [conn EXCEPT ![c] = Unregistered(@)]
              /\ commands' = commands \o
                    (IF c \in Monitors \/ cn.status # "NORMAL" THEN <<>>
                     ELSE <<[type |-> "broken", conn |-> c]>>)
              /\ hungUp' = hungUp \cup ({c} \ Monitors)
              /\ UNCHANGED thread
        /\ UNCHANGED <<lastKey, nextEvent, cancels, notified>>

-----------------------------------------------------------------------------
(* Commands *)

startCommands ==
    /\ thread = Idle /\ commands # <<>>
    /\ thread' = [pc |-> "commands", unregister |-> {}]
    /\ UNCHANGED <<conn, commands, lastKey, nextEvent, cancels, hungUp, notified>>

commandsDone ==
    /\ thread.pc = "commands" /\ commands = <<>>
    /\ LET gone == {c \in thread.unregister : conn[c].registered}
       IN  /\ conn' = [c \in Conns |-> IF c \in gone THEN Unregistered(conn[c])
                                       ELSE conn[c]]
           /\ commands' = NotifyBroken({g \in gone \ Monitors :
                                            conn[g].status = "NORMAL"})
           /\ hungUp' = hungUp \cup (gone \ Monitors)
    /\ thread' = Idle
    /\ UNCHANGED <<lastKey, nextEvent, cancels, notified>>

doNotifyInputChannelBroken ==
    /\ thread.pc = "commands" /\ commands # <<>> /\ Head(commands).type = "broken"
    /\ notified' = IF conn[Head(commands).conn].status # "ZOMBIE"
                   THEN notified \cup {Head(commands).conn} ELSE notified
    /\ commands' = Tail(commands)
    /\ UNCHANGED <<conn, thread, lastKey, nextEvent, cancels, hungUp>>

InWait(cn, seq) == \E i \in DOMAIN cn.wait : cn.wait[i].seq = seq
waitQueueIndex(cn, seq) == CHOOSE i \in DOMAIN cn.wait : cn.wait[i].seq = seq
findWaitQueueEntry(cn, seq) == cn.wait[waitQueueIndex(cn, seq)]

FallbackOf(cn, code) ==
    IF code \in DOMAIN cn.fallbackKeys THEN cn.fallbackKeys[code] ELSE NONE
setFallbackKey(cn, code, fallback) ==
    [cn EXCEPT !.fallbackKeys = [k \in DOMAIN @ \cup {code} |->
        IF k = code THEN fallback ELSE @[k]]]
removeFallbackKey(cn, code) ==
    [cn EXCEPT !.fallbackKeys = [k \in DOMAIN @ \ {code} |-> @[k]]]

FinishedWithoutNext(cn, e, restart) ==
    LET rest == [cn EXCEPT !.wait = RemoveAt(@, waitQueueIndex(cn, e.seq))]
    IN  IF ~InWait(cn, e.seq) THEN cn
        ELSE IF restart THEN [rest EXCEPT !.outbound = <<e>> \o @]
        ELSE Release(rest, e)

\* The rest of doDispatchCycleFinishedLockedInterruptible. The lock may have
\* been released, so the entry may be gone.
Finished(cn, e, restart) ==
    LET rest == [cn EXCEPT !.wait = RemoveAt(@, waitQueueIndex(cn, e.seq))]
        done == IF restart /\ cn.status = "NORMAL"
                THEN [rest EXCEPT !.outbound = <<e>> \o @]
                ELSE Release(rest, e)
    IN  startDispatchCycleLocked(IF InWait(cn, e.seq) THEN done ELSE cn)

\* The first half of afterKeyEventLockedInterruptible: whether the policy must
\* be asked about the key, and why.
PolicyQuestion(cn, e, handled) ==
    LET fallback == FallbackOf(cn, e.code)
        initialDown == e.action = "DOWN" /\ e.repeat = 0
    IN  IF e.type # "KEY" \/ e.flagged THEN "none"
        ELSE IF handled \/ ~e.fg
        THEN IF fallback = NONE THEN "none" ELSE "cancel"
        ELSE IF fallback = NONE /\ ~initialDown THEN "none" ELSE "unhandled"

doDispatchCycleFinished ==
    LET cmd == Head(commands)
        c == cmd.conn
        e == findWaitQueueEntry(conn[c], cmd.seq)
        question == PolicyQuestion(conn[c], e, cmd.handled)
        forgotten == IF e.type = "KEY" /\ ~e.flagged /\ e.action = "UP"
                     THEN removeFallbackKey(conn[c], e.code) ELSE conn[c]
    IN  /\ thread.pc = "commands" /\ commands # <<>> /\ cmd.type = "finished"
        /\ IF ~InWait(conn[c], cmd.seq) THEN
               /\ commands' = Tail(commands)
               /\ UNCHANGED <<conn, thread>>
           ELSE IF question = "none" THEN
               LET new == [conn EXCEPT ![c] = Finished(forgotten, e, FALSE)]
               IN  /\ conn' = new
                   /\ commands' = Tail(commands) \o BrokenCommands(conn, new)
                   /\ UNCHANGED thread
           ELSE
               /\ conn' = [conn EXCEPT ![c] = forgotten]
               /\ commands' = Tail(commands)
               /\ thread' = [pc |-> "policy", unregister |-> thread.unregister,
                             question |-> question, conn |-> c, entry |-> e,
                             fallback |-> FallbackOf(conn[c], e.code)]
        /\ UNCHANGED <<lastKey, nextEvent, cancels, hungUp, notified>>

CancelFallback(cn, code) ==
    IF code = UNKNOWN THEN cn
    ELSE synthesizeCancelationEventsForConnectionLocked(cn,
             [mode |-> "FALLBACK", keyCode |-> code])

\* A KeyEntry that becomes its fallback does so in every queue it is in.
Substituted(cns, ev, code) ==
    LET Change(q) == [i \in DOMAIN q |->
            IF q[i].ev = ev THEN [q[i] EXCEPT !.code = code, !.flagged = TRUE]
            ELSE q[i]]
    IN  [c \in Conns |-> [cns[c] EXCEPT !.outbound = Change(@), !.wait = Change(@)]]

\* dispatchUnhandledKey returns, for a key that was handled after all.
policyReturnsForHandledKey ==
    LET c == thread.conn
        e == thread.entry
        new == [conn EXCEPT ![c] = Finished(
                   removeFallbackKey(CancelFallback(@, thread.fallback), e.code),
                   e, FALSE)]
    IN  /\ thread.pc = "policy" /\ thread.question = "cancel"
        /\ SetConnections(new)
        /\ thread' = [pc |-> "commands", unregister |-> thread.unregister]
        /\ UNCHANGED <<lastKey, nextEvent, cancels, hungUp, notified>>

\* dispatchUnhandledKey returns the key to send instead, or NONE.
policyReturns(answer) ==
    LET c == thread.conn
        e == thread.entry
        cn == conn[c]
        initialDown == e.action = "DOWN" /\ e.repeat = 0
        fallback == IF ~initialDown THEN thread.fallback
                    ELSE IF answer = NONE THEN UNKNOWN ELSE answer
        latched == IF initialDown THEN setFallbackKey(cn, e.code, fallback) ELSE cn
        withdrawn == fallback # UNKNOWN /\ answer # fallback
        cancelled == IF e.action = "UP" THEN CancelFallback(latched, fallback)
                     ELSE setFallbackKey(CancelFallback(latched, fallback),
                                         e.code, UNKNOWN)
        restart == cn.status = "NORMAL" /\ ~withdrawn /\ answer # NONE
        code == IF fallback = UNKNOWN THEN UNKNOWN ELSE answer
        before == IF cn.status # "NORMAL" THEN removeFallbackKey(cn, e.code)
                  ELSE IF withdrawn THEN cancelled ELSE latched
        world == IF restart THEN Substituted([conn EXCEPT ![c] = before], e.ev, code)
                 ELSE [conn EXCEPT ![c] = before]
        entry == IF restart THEN [e EXCEPT !.code = code, !.flagged = TRUE] ELSE e
    IN  /\ thread.pc = "policy" /\ thread.question = "unhandled"
        /\ SetConnections([world EXCEPT ![c] = Finished(@, entry, restart)])
        /\ lastKey' = IF restart /\ lastKey.ev = e.ev
                      THEN [lastKey EXCEPT !.code = code, !.flagged = TRUE] ELSE lastKey
        /\ thread' = [pc |-> "commands", unregister |-> thread.unregister]
        /\ UNCHANGED <<nextEvent, cancels, hungUp, notified>>

-----------------------------------------------------------------------------
(* The application *)

appReads(c) ==
    /\ conn[c].open /\ conn[c].unread # <<>>
    /\ conn' = [conn EXCEPT ![c].unread = Tail(@),
                            ![c].reading = @ \cup {Head(conn[c].unread)}]
    /\ UNCHANGED <<commands, thread, lastKey, nextEvent, cancels, hungUp, notified>>

\* Whether the event was handled matters for keys only.
Answers == IF Keys = {} THEN {TRUE} ELSE BOOLEAN

appFinishes(c, seq, handled) ==
    /\ conn[c].open /\ seq \in conn[c].reading
    /\ conn' = [conn EXCEPT
           ![c].reading = @ \ {seq},
           ![c].signals = Append(@, [seq |-> seq, handled |-> handled])]
    /\ UNCHANGED <<commands, thread, lastKey, nextEvent, cancels, hungUp, notified>>

appDies(c) ==
    /\ conn[c].registered /\ conn[c].open
    /\ conn' = [conn EXCEPT ![c].open = FALSE, ![c].unread = <<>>,
                            ![c].reading = {}]
    /\ UNCHANGED <<commands, thread, lastKey, nextEvent, cancels, hungUp, notified>>

MotionActions == {"DOWN", "MOVE", "UP", "CANCEL", "HOVER_MOVE"}

Dispatcher ==
    \/ \E t \in Apps, k \in Keys, a \in {"DOWN", "UP"} : dispatchKey(t, k, a)
    \/ \E t \in Apps : repeatKey(t)
    \/ \E t \in Apps, d \in Devices, a \in MotionActions, n \in BOOLEAN :
          \E m \in ModesOf(a) : dispatchMotion(t, d, a, m, n)
    \/ \E c \in Conns : handleReceiveCallback(c)
    \/ startCommands
    \/ commandsDone
    \/ doNotifyInputChannelBroken
    \/ doDispatchCycleFinished
    \/ policyReturnsForHandledKey
    \/ \E f \in Fallbacks \cup {NONE} : policyReturns(f)

Step ==
    \/ Dispatcher
    \/ \E c \in Conns : registerInputChannel(c) \/ unregisterInputChannel(c)
    \/ \E c \in Conns, m \in CancelModes : cancelEvents(c, m)
    \/ \E c \in Conns : appReads(c) \/ appDies(c)
    \/ \E c \in Conns, h \in Answers : \E s \in conn[c].reading : appFinishes(c, s, h)

Next == Step /\ UNCHANGED conf

Spec == Init /\ [][Next]_vars

\* The dispatcher's thread keeps looping, the policy returns, and applications
\* that live read and answer: the machine and its applications are responsive.
FairSpec ==
    /\ Spec
    /\ \A c \in Conns :
          /\ WF_cycle(It.responsive /\ handleReceiveCallback(c))
          /\ WF_cycle(It.responsive /\ appReads(c))
          /\ WF_cycle(/\ It.responsive
                      /\ \E h \in Answers : \E s \in conn[c].reading :
                            appFinishes(c, s, h))
    /\ WF_cycle(/\ It.responsive
                /\ \/ startCommands \/ commandsDone
                   \/ doNotifyInputChannelBroken \/ doDispatchCycleFinished
                   \/ policyReturnsForHandledKey
                   \/ \E f \in Fallbacks \cup {NONE} : policyReturns(f))

-----------------------------------------------------------------------------
(* Properties *)

\* The count of foreground dispatches of an event, for which injectors wait, is
\* the number of its entries that are queued: it neither leaks when a broken
\* connection is drained while the policy is asked about one of its entries,
\* nor counts an entry twice that is sent again as a fallback.
ForegroundCountExact ==
    \A c \in Conns : \A ev \in 1 .. MaxEvents :
        conn[c].pending[ev] = Cardinality(Foreground(conn[c], ev))

\* Entries wait in the outbound queue of a connection only while the
\* application owes an answer whose arrival sends them, and what the application
\* has not read is in the wait queue. So no queue is stuck, and the socket is
\* never full while the wait queue is empty, the case that
\* startDispatchCycleLocked calls unexpected.
AnswerOwed ==
    \A c \in Conns : conn[c].status = "NORMAL" =>
        /\ conn[c].outbound # <<>> => conn[c].wait # <<>>
        /\ \A i \in DOMAIN conn[c].unread : InWait(conn[c], conn[c].unread[i])

\* No application sees the middle or the end of a touch or hover whose begin it
\* did not see, whatever was cancelled, dropped or sent elsewhere in between.
TouchStreamConsistent == \A c \in Conns : conn[c].view.ok

\* synthesizeCancelationEventsForConnectionLocked enqueues the cancelations one
\* after the other, and what one changes is what the next is checked against:
\* none is dropped as inconsistent, and together they end what was selected.
AllOptions ==
    [mode : {"ALL", "POINTER", "NON_POINTER"}, keyCode : {NONE}]
    \cup [mode : {"FALLBACK"}, keyCode : KeyCodes]
CancelationsConsistent ==
    \A c \in Conns, options \in AllOptions :
        CancelationsEnqueued(conn[c], options) =
            FoldLeft(LAMBDA cn, e : enqueueDispatchEntryLocked(cn, e, FALSE, "AS_IS"),
                     conn[c], CancelationEvents(conn[c], options))

\* The touches and hovers the dispatcher remembers for cancelation are those an
\* application will have seen once its outbound queue has been published, and
\* the cancelations made of them are consistent with each other.
MementosMatchStream ==
    /\ \A c \in Conns : conn[c].status = "NORMAL" =>
          LET v == FoldLeft(ViewAfter, conn[c].view, conn[c].outbound)
          IN  conn[c].motionMementos = [dev: v.touch, hovering: {FALSE}]
                                       \cup [dev: v.hover, hovering: {TRUE}]
    /\ CancelationsConsistent

\* While the policy is asked about a key, the lock is free: if the connection is
\* still in order afterwards, its entry is still there to be changed or resent.
EntryOutlivesPolicyCall ==
    thread.pc = "policy" /\ conn[thread.conn].status = "NORMAL" =>
        InWait(conn[thread.conn], thread.entry.seq)

\* Every answer is worked off and every queue empties while applications answer.
QueuesDrain ==
    \A c \in Conns :
        (It.responsive /\ conn[c].status = "NORMAL" /\ Queued(conn[c]) # <<>>) ~>
        (conn[c].status # "NORMAL" \/ Queued(conn[c]) = <<>>)

\* "If the application handles the original key for which we previously
\* generated a fallback ... then cancel the associated fallback key, if any" and
\* "Cancel the fallback key if the policy decides not to send it anymore": no
\* application is left with a fallback key down that no key stands for.
FallbackKeyCancelled ==
    \A c \in Apps :
        /\ thread = Idle /\ commands = <<>> /\ conn[c].status = "NORMAL"
        /\ Queued(conn[c]) = <<>>
        => \A f \in conn[c].view.keys :
              \/ \E m \in conn[c].keyMementos : m.code = f
              \/ \E k \in DOMAIN conn[c].fallbackKeys : conn[c].fallbackKeys[k] = f

\* "Notifies the system that an input channel is unrecoverably broken": the
\* policy hears of every channel whose callback asked for the notification.
BrokenChannelReported ==
    (thread = Idle /\ commands = <<>>) => hungUp \subseteq notified
=============================================================================
