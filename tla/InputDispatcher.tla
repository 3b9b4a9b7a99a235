--------------------------- MODULE InputDispatcher ---------------------------
(***************************************************************************)
(* services/inputflinger/InputDispatcher.cpp, the inbound half: the        *)
(* inbound queue, the pending event and the reasons to drop it, the        *)
(* policy's say about keys, windows that are not ready and the ANR that    *)
(* follows, the settings of the window manager, key repeat, and injectors  *)
(* that wait.                                                              *)
(*                                                                         *)
(* The dispatcher's thread is in "run" (about to enter dispatchOnce), in   *)
(* "policy" (a command called the policy, mLock is free) or in "sleep"     *)
(* (pollOnce). Time is the set `due' of the deadlines that have passed.    *)
(* What a connection does with an event is in DispatchCycle; here a window *)
(* is the foreground events it has not finished, whether it is slow, and   *)
(* the keys it was told are down. A touch names the window that it hits:   *)
(* the choice of windows is in TouchTargets. Pokes of user activity are    *)
(* left out.                                                               *)
(***************************************************************************)
EXTENDS Integers, Sequences, FiniteSets, SequencesExt

CONSTANTS
    Windows, Applications,
    KeyCodes, HomeKeys,     \* key codes, and those that switch applications
    Replaced, Replacement,  \* a key and the one META turns it into
    Injectors, Trusted,     \* injecting threads, and those with the permission
    SameUid,                \* per injector, the windows that its own uid owns
    NONE,
    Configurations          \* named systems and their bounds; conf is a name

ASSUME InboundConstants ==
    /\ Windows # {} /\ HomeKeys \subseteq KeyCodes /\ Trusted \subseteq Injectors
    /\ SameUid \in [Injectors -> SUBSET Windows]
    /\ NONE \notin Windows \cup Applications \cup KeyCodes \cup Injectors
    /\ NONE \notin {Replacement, "POLICY", "DISABLED", "APP_SWITCH", "STALE", "BLOCKED",
                    "APPLICATION_NOT_READY", "PENDING", "SUCCEEDED", "FAILED"}
    /\ \A n \in DOMAIN Configurations : LET c == Configurations[n] IN
          /\ c.keys \subseteq KeyCodes /\ c.injectors \subseteq Injectors
          /\ c.inputs \subseteq {"key", "touch", "config", "reset"}
          /\ c.settings \subseteq {"windows", "paused", "app", "mode", "filter", "channel"}
          /\ c.deadlines \subseteq {"appSwitch", "anr", "later", "repeat", "stale"}
          /\ c.passes \subseteq BOOLEAN /\ {c.maxEvents, c.maxCalls} \subseteq Nat

VARIABLES
    queue, pending,     \* mInboundQueue, mPendingEvent
    nextId,             \* number of the next event
    mode,               \* mDispatchEnabled, mDispatchFrozen, mInputFilterEnabled
    focus,              \* mFocusedWindowHandle, mFocusedApplicationHandle
    wait,               \* mInputTargetWait...
    due,                \* deadlines that have passed
    sawKeyDown, appSwitch, \* mAppSwitchSawKeyDown, mAppSwitchDueTime is set
    nextUnblocked,      \* mNextUnblockedEvent: number of an event, or 0
    lastKey,            \* mKeyRepeatState
    replacedKeys,       \* mReplacedKeys has the replaced key
    thread, sleepOn,    \* the dispatcher's thread, and what wakes it in time
    wake,               \* Looper::wake was called
    reader,             \* the event of the reader's thread inside notifyKey
    filtering,          \* ... which waits for the input filter, mLock free
    sent,               \* key code last sent as down for each key, or NONE
    swallowed,          \* history: key codes whose last release, with no press
                        \* queued since, was consumed by the input filter
    window, injector, calls, lastDrop,
    conf                \* who uses the dispatcher, and how; it never changes

vars == <<queue, pending, nextId, mode, focus, wait, due, sawKeyDown, appSwitch,
          nextUnblocked, lastKey, replacedKeys, thread, sleepOn, wake,
          reader, filtering, sent, swallowed, window, injector, calls, lastDrop, conf>>

It == Configurations[conf]
Keys == It.keys
Inputs == It.inputs         \* kinds of input that occur
Settings == It.settings     \* calls the window manager makes
Deadlines == It.deadlines   \* those that may pass: see Armed
Passes == It.passes         \* whether the policy passes keys to the user
MaxEvents == It.maxEvents   \* bound: events
MaxCalls == It.maxCalls     \* bound: calls of the window manager

NoEvent == [id |-> 0]
NoWait == [cause |-> NONE, app |-> NONE, expired |-> FALSE]
NoDrop == [reason |-> NONE]
NoKey == [code |-> NONE]
AppOf == CHOOSE f \in [Windows -> Applications] :
             Cardinality(Applications) > 1 =>
                 \A v, w \in Windows : v # w => f[v] # f[w]

Event(type, code, action, pass, inj) ==
    [id |-> nextId, type |-> type, code |-> code, action |-> action,
     pass |-> pass, injector |-> inj, synthetic |-> FALSE, intercept |-> "UNKNOWN"]

Init ==
    /\ conf \in DOMAIN Configurations
    /\ queue = <<>> /\ pending = NoEvent /\ nextId = 1
    /\ mode = [enabled |-> TRUE, frozen |-> FALSE, filter |-> FALSE]
    /\ focus = [win |-> CHOOSE w \in Windows : TRUE,
                app |-> AppOf[CHOOSE w \in Windows : TRUE]]
    /\ wait = NoWait /\ due = {} /\ sawKeyDown = FALSE /\ appSwitch = FALSE
    /\ nextUnblocked = 0 /\ lastKey = NoKey /\ replacedKeys = FALSE
    /\ thread = [pc |-> "run"] /\ sleepOn = {} /\ wake = FALSE
    /\ reader = NoEvent /\ filtering = FALSE
    /\ sent = [k \in Keys |-> NONE] /\ swallowed = {}
    /\ window = [w \in Windows |-> [entries |-> <<>>, slow |-> FALSE, down |-> {},
                                    registered |-> TRUE, paused |-> FALSE]]
    /\ injector = [i \in Injectors |-> [sync |-> NONE, result |-> NONE, fg |-> 0]]
    /\ calls = 0 /\ lastDrop = NoDrop

-----------------------------------------------------------------------------
(* The inbound queue *)

isAppSwitchKeyEventLocked(e) ==
    /\ e.type = "key" /\ e.code \in HomeKeys /\ e.pass
    /\ e.injector = NONE \/ e.injector \in Trusted

\* A touch of another application than the one that is waited for.
Unblocks(e) ==
    /\ e.type = "touch" /\ e.action = "DOWN" /\ wait.cause = "APPLICATION_NOT_READY"
    /\ wait.app # NONE /\ AppOf[e.code] # wait.app

\* The release of a switch key whose press was seen starts the timeout.
SwitchPends(e) == isAppSwitchKeyEventLocked(e) /\ e.action = "UP" /\ sawKeyDown

WakesIfEmpty(e) == queue = <<>>

needWake(e) == queue = <<>> \/ SwitchPends(e) \/ Unblocks(e)

enqueueInboundEventLocked(e) ==
    LET switch == isAppSwitchKeyEventLocked(e)
        pends == SwitchPends(e)
    IN  /\ queue' = Append(queue, e)
        /\ sawKeyDown' = IF switch /\ e.action = "DOWN" THEN TRUE
                         ELSE IF pends THEN FALSE ELSE sawKeyDown
        /\ appSwitch' = (appSwitch \/ pends)
        /\ due' = IF pends THEN due \ {"appSwitch"} ELSE due
        /\ nextUnblocked' = IF Unblocks(e) THEN e.id ELSE nextUnblocked
        /\ wake' = (wake \/ needWake(e))
        /\ nextId' = nextId + 1

NotSettings == <<mode, focus, window>>
NotLoop == <<pending, wait, lastKey, thread, sleepOn, lastDrop>>

\* The key going up was replaced when it went down, whatever META says now.
RestoresReplaced(k, action, meta) == action = "UP" /\ k = Replaced /\ replacedKeys

\* notifyKey up to the policy's interceptKeyBeforeQueueing, which runs unlocked.
notifyKey(k, action, meta, pass) ==
    LET replaces == action = "DOWN" /\ meta /\ k = Replaced
        restores == RestoresReplaced(k, action, meta)
        code == IF replaces \/ restores THEN Replacement ELSE k
    IN  /\ reader = NoEvent /\ nextId <= MaxEvents
        /\ (action = "DOWN") = (sent[k] = NONE)
        /\ reader' = Event("key", code, action, pass, NONE)
        /\ sent' = [sent EXCEPT ![k] = IF action = "DOWN" THEN code ELSE NONE]
        /\ replacedKeys' = (replaces \/ (replacedKeys /\ ~restores))
        /\ UNCHANGED <<queue, nextId, due, sawKeyDown, appSwitch, nextUnblocked,
                       wake, filtering, swallowed, injector, calls, NotSettings,
                       NotLoop>>

NotQueue == <<queue, due, sawKeyDown, appSwitch, nextUnblocked, wake>>

ReaderEnqueues ==
    /\ enqueueInboundEventLocked([reader EXCEPT !.id = nextId])
    /\ reader' = NoEvent
    /\ swallowed' = IF reader.type = "key" /\ reader.action = "DOWN"
                    THEN swallowed \ {reader.code} ELSE swallowed

\* ... and its end: the queue takes the event, or an enabled filter is asked, for
\* which mLock is released.
notifyKeyEnqueue ==
    /\ reader # NoEvent /\ ~filtering
    /\ filtering' = mode.filter
    /\ IF mode.filter THEN UNCHANGED <<reader, nextId, swallowed, NotQueue>>
       ELSE ReaderEnqueues
    /\ UNCHANGED <<replacedKeys, sent, injector, calls, NotSettings, NotLoop>>

\* The filter answers. An event that it passes is queued whatever has been
\* switched, reset or dropped meanwhile.
filterInputEvent(passes) ==
    /\ filtering /\ filtering' = FALSE
    /\ IF passes THEN ReaderEnqueues
       ELSE /\ reader' = NoEvent /\ nextId' = nextId + 1
            /\ swallowed' = IF reader.type = "key" /\ reader.action = "UP"
                            THEN swallowed \cup {reader.code} ELSE swallowed
            /\ UNCHANGED NotQueue
    /\ UNCHANGED <<replacedKeys, sent, injector, calls, NotSettings, NotLoop>>

\* notifyMotion for a touch, which the filter may ask for too, notifyConfigurationChanged
\* and notifyDeviceReset. The reader that resets a device forgets the keys that are down.
notifyOther(e) ==
    /\ reader = NoEvent /\ nextId <= MaxEvents
    /\ filtering' = (e.type = "touch" /\ mode.filter)
    /\ IF filtering' THEN reader' = e /\ UNCHANGED <<nextId, NotQueue>>
       ELSE enqueueInboundEventLocked(e) /\ UNCHANGED reader
    /\ sent' = IF e.type = "reset" THEN [k \in Keys |-> NONE] ELSE sent
    /\ UNCHANGED <<replacedKeys, swallowed, injector, calls, NotSettings, NotLoop>>

-----------------------------------------------------------------------------
(* Injection *)

injectInputEvent(i, e, sync) ==
    /\ injector[i].result = NONE /\ nextId <= MaxEvents
    /\ enqueueInboundEventLocked(e)
    /\ injector' = [injector EXCEPT ![i] =
           [sync |-> sync, result |-> "PENDING", fg |-> 0]]
    /\ UNCHANGED <<replacedKeys, reader, filtering, sent, swallowed, calls, NotSettings,
                   NotLoop>>

\* The injector has its answer: at once, with the result, or once finished.
Answered(i) ==
    LET s == injector[i]
    IN  \/ s.sync = "NONE"
        \/ s.sync # NONE /\ s.result \notin {"PENDING", "SUCCEEDED"}
        \/ s.result = "SUCCEEDED" /\ (s.sync = "FINISHED" => s.fg = 0)

injectReturns(i) ==
    /\ Answered(i)
    /\ injector' = [injector EXCEPT ![i].sync = NONE]
    /\ UNCHANGED <<queue, nextId, due, sawKeyDown, appSwitch, nextUnblocked, wake,
                   replacedKeys, reader, filtering, sent, swallowed, calls, NotSettings,
                   NotLoop>>

setInjectionResultLocked(inj, e, result) ==
    IF e.injector = NONE THEN inj ELSE [inj EXCEPT ![e.injector].result = result]

\* releaseInboundEventLocked: an injected event without a result has failed.
Released(inj, events) ==
    [i \in Injectors |->
        IF inj[i].result = "PENDING" /\ \E n \in DOMAIN events : events[n].injector = i
        THEN [inj[i] EXCEPT !.result = "FAILED"] ELSE inj[i]]

Pend(inj, e) == IF e.injector = NONE THEN inj ELSE [inj EXCEPT ![e.injector].fg = @ + 1]

\* decrementPendingForegroundDispatchesLocked, for each of the entries.
Unpend(inj, entries) ==
    [i \in Injectors |-> [inj[i] EXCEPT !.fg =
        @ - Cardinality({n \in DOMAIN entries : entries[n].injector = i})]]

-----------------------------------------------------------------------------
(* Targets *)

\* checkWindowReadyForMoreInputLocked. `slow' stands for a window whose oldest event
\* is half a second old or whose channel is full.
IsReady(e, w) ==
    /\ ~window[w].paused /\ window[w].registered
    /\ IF e.type = "key" THEN window[w].entries = <<>> ELSE ~window[w].slow

\* handleTargetsNotReadyLocked: wait, give up, or report the application.
handleTargetsNotReadyLocked(w0, app, win) ==
    LET begins == w0.cause # "APPLICATION_NOT_READY"
        new == IF begins
               THEN [cause |-> "APPLICATION_NOT_READY", expired |-> FALSE,
                     app |-> IF win # NONE THEN AppOf[win] ELSE app]
               ELSE w0
    IN  [wait |-> new, begins |-> begins,
         anr |-> ~new.expired /\ ~begins /\ "anr" \in due,
         result |-> IF new.expired THEN "TIMED_OUT" ELSE "PENDING"]

\* findFocusedWindowTargetsLocked, and the end of findTouchedWindowTargetsLocked.
FindTarget(e, w0) ==
    LET Plain(r) == [wait |-> w0, begins |-> FALSE, anr |-> FALSE, result |-> r]
        win == IF e.type = "key" THEN focus.win ELSE e.code
        denied == /\ e.injector # NONE /\ e.injector \notin Trusted
                  /\ win \notin SameUid[e.injector]
    IN  IF win = NONE
        THEN IF focus.app = NONE THEN Plain("FAILED")
             ELSE handleTargetsNotReadyLocked(w0, focus.app, NONE)
        ELSE IF denied THEN Plain("PERMISSION_DENIED")
        ELSE IF IsReady(e, win) THEN Plain("SUCCEEDED")
        ELSE handleTargetsNotReadyLocked(w0, IF e.type = "key" THEN focus.app ELSE NONE,
                                         win)

-----------------------------------------------------------------------------
(* dispatchOnceInnerLocked *)

DropReason(e, isAppSwitchDue, unblocked, stale) ==
    CASE e.type \in {"config", "reset"} -> NONE
      [] ~e.pass -> "POLICY"
      [] ~mode.enabled -> "DISABLED"
      [] isAppSwitchDue /\ ~isAppSwitchKeyEventLocked(e) -> "APP_SWITCH"
      [] stale -> "STALE"
      [] unblocked # 0 -> "BLOCKED"
      [] OTHER -> NONE

\* The touch that unblocks ends the blocking once it is taken.
UnblockedAfter(e) == IF nextUnblocked = e.id THEN 0 ELSE nextUnblocked

\* What becomes of event e in one pass: the policy is asked first (`asks'), or
\* asked to be asked again `later'; then e is dropped or `sends' to its target.
Decision(e, fresh, isAppSwitchDue, stale) ==
    LET unblocked == UnblockedAfter(e)
        reason == DropReason(e, isAppSwitchDue, unblocked, stale)
        later == e.intercept = "LATER" /\ "later" \notin due
        asks == e.type = "key" /\ e.pass /\ ~later /\ e.intercept \in {"UNKNOWN", "LATER"}
        drop == IF reason = NONE /\ e.intercept = "SKIP" THEN "POLICY" ELSE reason
        sends == e.type \in {"key", "touch"} /\ ~later /\ ~asks /\ drop = NONE
        w0 == IF fresh THEN NoWait ELSE wait
        found == FindTarget(e, w0)
        waits == later \/ asks \/ (sends /\ found.result = "PENDING")
    IN  [later |-> later, asks |-> asks, drop |-> drop, sends |-> sends, waits |-> waits,
         begins |-> sends /\ found.begins, anr |-> sends /\ found.anr,
         wait |-> IF ~waits THEN NoWait ELSE IF sends THEN found.wait ELSE w0,
         unblocked |-> unblocked,
         result |-> IF drop = "POLICY" THEN "SUCCEEDED"
                    ELSE IF drop # NONE THEN "FAILED" ELSE found.result]

\* synthesizeCancelationEventsForAllConnectionsLocked, for keys.
AllKeysUp(win) == [w \in Windows |-> [win[w] EXCEPT !.down = {}]]

DroppedSilently(win, e) == win

\* dropInboundEventLocked. The cancelations of touches are in TouchTargets.
dropInboundEventLocked(win, e) == IF e.type = "touch" THEN win ELSE AllKeysUp(win)

\* The window gets the event, and InputState tracks it.
Delivered(win, w, e) ==
    [win EXCEPT ![w].entries = Append(@, e),
                ![w].down = IF e.type # "key" THEN @
                            ELSE IF e.action = "DOWN" THEN @ \cup {e.code}
                            ELSE @ \ {e.code}]

RepeatsKeys == mode.enabled /\ lastKey # NoKey /\ lastKey.timer

\* synthesizeKeyRepeatLocked
synthesizeKeyRepeatLocked ==
    [Event("key", lastKey.code, "DOWN", lastKey.pass, NONE) EXCEPT !.synthetic = TRUE]

\* What a fresh event does to the repeat: dispatchConfigurationChangedLocked
\* and the beginning of dispatchKeyLocked. A driver that repeats keys itself
\* turns the timer off.
KeyRepeatAfter(e, key) ==
    IF e.type = "config" THEN NoKey
    ELSE IF e.type # "key" \/ e.synthetic THEN key
    ELSE IF e.action = "DOWN" /\ (e.injector = NONE \/ e.injector \in Trusted)
    THEN [code |-> e.code, pass |-> e.pass, timer |-> key.code # e.code]
    ELSE NoKey

\* Nothing to dispatch: dispatch is frozen, or there is no event.
dispatchNothing ==
    /\ thread.pc = "run"
    /\ \/ mode.frozen
       \/ pending = NoEvent /\ queue = <<>> /\ ~(RepeatsKeys /\ "repeat" \in due)
    /\ lastKey' = IF mode.enabled THEN lastKey ELSE NoKey
    /\ IF ~mode.frozen /\ "appSwitch" \in due
       THEN appSwitch' = FALSE /\ due' = due \ {"appSwitch"}
       ELSE UNCHANGED <<appSwitch, due>>
    /\ thread' = [pc |-> "sleep"]
    /\ sleepOn' = IF mode.frozen THEN {}
                  ELSE (IF appSwitch' THEN {"appSwitch"} ELSE {})
                       \cup (IF RepeatsKeys THEN {"repeat"} ELSE {})
    /\ UNCHANGED <<queue, pending, nextId, wait, sawKeyDown, nextUnblocked, wake,
                   replacedKeys, reader, filtering, sent, swallowed, injector, calls,
                   lastDrop, NotSettings>>

\* Takes the next event if none is pending, or a repeat if there is no event at
\* all, and dispatches it, drops it or leaves it pending. A command it posts
\* runs before mLock is released.
dispatchPending ==
    LET fresh == pending = NoEvent
        synthesizes == fresh /\ queue = <<>>
        e == IF ~fresh THEN pending
             ELSE IF synthesizes THEN synthesizeKeyRepeatLocked ELSE Head(queue)
        target == IF e.type = "key" THEN focus.win ELSE e.code
        switchDue == "appSwitch" \in due
        arrived == switchDue /\ (synthesizes \/ isAppSwitchKeyEventLocked(e))
        key == IF mode.enabled THEN lastKey ELSE NoKey
    IN  /\ thread.pc = "run" /\ ~mode.frozen
        /\ synthesizes => RepeatsKeys /\ "repeat" \in due /\ nextId <= MaxEvents
        /\ queue' = IF fresh /\ ~synthesizes THEN Tail(queue) ELSE queue
        /\ nextId' = IF synthesizes THEN nextId + 1 ELSE nextId
        /\ lastKey' = IF fresh THEN KeyRepeatAfter(e, key) ELSE key
        /\ appSwitch' = (appSwitch /\ ~arrived)
        /\ \E d \in {Decision(e, fresh, switchDue /\ ~synthesizes, "stale" \in due)} :
              /\ nextUnblocked' = d.unblocked
              /\ wait' = d.wait
              /\ due' = due \ ((IF arrived THEN {"appSwitch"} ELSE {})
                               \cup (IF d.begins \/ ~d.waits THEN {"anr"} ELSE {})
                               \cup (IF d.asks THEN {"later"} ELSE {})
                               \cup (IF synthesizes \/ lastKey' # lastKey
                                     THEN {"repeat"} ELSE {})
                               \cup (IF d.waits THEN {} ELSE {"stale"}))
              /\ pending' = IF ~d.waits THEN NoEvent
                            ELSE IF d.asks THEN [e EXCEPT !.intercept = "UNKNOWN"] ELSE e
              /\ injector' =
                    IF d.waits THEN injector
                    ELSE LET set == setInjectionResultLocked(injector, e, d.result)
                         IN  IF d.sends /\ d.result = "SUCCEEDED" THEN Pend(set, e) ELSE set
              /\ window' = IF d.waits THEN window
                           ELSE IF e.type = "reset" THEN AllKeysUp(window)
                           ELSE IF d.drop # NONE THEN dropInboundEventLocked(window, e)
                           ELSE IF d.sends /\ d.result = "SUCCEEDED"
                           THEN Delivered(window, target, e) ELSE window
              /\ lastDrop' = IF d.waits \/ d.drop = NONE THEN NoDrop
                             ELSE [reason |-> d.drop, switchWaits |->
                                      \E q \in Range(queue') : isAppSwitchKeyEventLocked(q)]
              /\ thread' = CASE d.asks -> [pc |-> "policy", call |-> "intercept", id |-> e.id]
                             [] d.anr -> [pc |-> "policy", call |-> "anr", win |-> target,
                                          waited |-> d.wait.app]
                             [] e.type = "config" -> [pc |-> "policy", call |-> "config"]
                             [] OTHER -> [pc |-> IF d.waits THEN "sleep" ELSE "run"]
              /\ sleepOn' = (IF appSwitch THEN {"appSwitch"} ELSE {})
                            \cup (IF d.later THEN {"later"} ELSE {})
                            \cup (IF d.sends THEN {"anr"} ELSE {})
        /\ UNCHANGED <<sawKeyDown, wake, replacedKeys, reader, filtering, sent,
                       swallowed, calls, mode, focus>>

\* pollOnce returns: a deadline has passed or somebody called wake.
pollOnceReturns ==
    /\ thread.pc = "sleep" /\ (wake \/ due \cap sleepOn # {})
    /\ thread' = [pc |-> "run"] /\ wake' = FALSE
    /\ UNCHANGED <<queue, pending, nextId, wait, due, sawKeyDown, appSwitch,
                   nextUnblocked, lastKey, replacedKeys, sleepOn, reader, filtering,
                   sent, swallowed, injector, calls, lastDrop, NotSettings>>

\* A window finishes its oldest event; handleReceiveCallback runs inside
\* pollOnce, which then returns.
handleReceiveCallback(w) ==
    /\ thread.pc \in {"sleep", "run"} /\ window[w].entries # <<>>
    /\ window' = [window EXCEPT ![w].entries = Tail(@), ![w].slow = FALSE]
    /\ injector' = Unpend(injector, <<Head(window[w].entries)>>)
    /\ thread' = [pc |-> "run"]
    /\ UNCHANGED <<queue, pending, nextId, mode, focus, wait, due, sawKeyDown,
                   appSwitch, nextUnblocked, lastKey, replacedKeys, sleepOn, wake,
                   reader, filtering, sent, swallowed, calls, lastDrop>>

-----------------------------------------------------------------------------
(* The policy returns *)

Unlocked == <<queue, nextId, mode, focus, sawKeyDown, appSwitch, nextUnblocked,
              lastKey, replacedKeys, sleepOn, wake, reader, filtering, sent,
              swallowed, injector, calls, lastDrop>>

doInterceptKeyBeforeDispatching(answer) ==
    /\ thread.pc = "policy" /\ thread.call = "intercept"
    /\ pending' = IF pending.id = thread.id
                  THEN [pending EXCEPT !.intercept = answer] ELSE pending
    /\ due' = due \ {"later"}
    /\ thread' = [pc |-> "run"]
    /\ UNCHANGED <<wait, window, Unlocked>>

\* The wait is given up and the window's state is out of sync, or it goes on.
resumeAfterTargetsNotReadyTimeoutLocked(giveUp, w) ==
    IF giveUp
    THEN /\ wait' = [wait EXCEPT !.expired = TRUE]
         /\ window' = IF w = NONE THEN window ELSE [window EXCEPT ![w].down = {}]
         /\ UNCHANGED due
    ELSE due' = due \ {"anr"} /\ UNCHANGED <<wait, window>>

doNotifyANR(giveUp) ==
    /\ thread.pc = "policy" /\ thread.call = "anr"
    /\ resumeAfterTargetsNotReadyTimeoutLocked(giveUp, thread.win)
    /\ thread' = [pc |-> "run"]
    /\ UNCHANGED <<pending, Unlocked>>

doNotifyConfigurationChanged ==
    /\ thread.pc = "policy" /\ thread.call = "config"
    /\ thread' = [pc |-> "run"]
    /\ UNCHANGED <<pending, due, wait, window, Unlocked>>

-----------------------------------------------------------------------------
(* The window manager *)

Calls == calls < MaxCalls /\ calls' = calls + 1 /\ wake' = TRUE

Paused == {w \in Windows : window[w].paused}

\* A window that loses the focus is told that its keys are up.
WithFlags(state, isPaused, losesFocus) ==
    [state EXCEPT !.paused = isPaused, !.down = IF losesFocus THEN {} ELSE @]

\* The windows come with their flags: which one has the focus, which are paused.
setInputWindows(w, paused) ==
    /\ "windows" \in Settings /\ Calls
    /\ w # focus.win \/ paused # Paused
    /\ "paused" \in Settings \/ paused = Paused
    /\ focus' = [focus EXCEPT !.win = w]
    /\ window' = [v \in Windows |->
                    WithFlags(window[v], v \in paused, v = focus.win /\ v # w)]
    /\ UNCHANGED <<queue, nextId, mode, due, sawKeyDown, appSwitch, nextUnblocked,
                   replacedKeys, reader, filtering, sent, swallowed, injector, NotLoop>>

setFocusedApplication(a) ==
    /\ "app" \in Settings /\ a # focus.app /\ Calls
    /\ focus' = [focus EXCEPT !.app = a]
    /\ wait' = IF focus.app = NONE THEN wait ELSE [wait EXCEPT !.cause = NONE, !.app = NONE]
    /\ UNCHANGED <<queue, pending, nextId, mode, due, sawKeyDown, appSwitch,
                   nextUnblocked, lastKey, replacedKeys, thread, sleepOn, reader,
                   filtering, sent, swallowed, window, injector, lastDrop>>

InQueue == {pending.id} \cup {queue[i].id : i \in DOMAIN queue}

DropKeepingInjections ==
    /\ window' = AllKeysUp(window) /\ lastKey' = NoKey
    /\ nextUnblocked' = IF nextUnblocked \in InQueue THEN 0 ELSE nextUnblocked
    /\ pending' = NoEvent /\ queue' = <<>> /\ wait' = NoWait /\ replacedKeys' = FALSE
    /\ due' = due \ {"anr", "later", "stale", "repeat"}
    /\ UNCHANGED injector

resetAndDropEverythingLocked ==
    /\ window' = AllKeysUp(window) /\ lastKey' = NoKey
    /\ injector' = Released(injector,
                       IF pending = NoEvent THEN queue ELSE <<pending>> \o queue)
    /\ nextUnblocked' = IF nextUnblocked \in InQueue THEN 0 ELSE nextUnblocked
    /\ pending' = NoEvent /\ queue' = <<>> /\ wait' = NoWait /\ replacedKeys' = FALSE
    /\ due' = due \ {"anr", "later", "stale", "repeat"}

KeepsEverything ==
    UNCHANGED <<window, lastKey, injector, nextUnblocked, pending, queue, replacedKeys,
                due>>

setInputDispatchMode(enabled, frozen) ==
    /\ "mode" \in Settings /\ Calls
    /\ mode.enabled # enabled \/ mode.frozen # frozen
    /\ mode' = [mode EXCEPT !.enabled = enabled, !.frozen = frozen]
    /\ IF mode.enabled /\ ~enabled THEN resetAndDropEverythingLocked
       ELSE /\ KeepsEverything
            /\ wait' = IF mode.frozen /\ ~frozen
                       THEN [wait EXCEPT !.cause = NONE, !.app = NONE] ELSE wait
    /\ UNCHANGED <<nextId, focus, sawKeyDown, appSwitch, thread, sleepOn, reader,
                   filtering, sent, swallowed, lastDrop>>

setInputFilterEnabled(enabled) ==
    /\ "filter" \in Settings /\ mode.filter # enabled /\ Calls
    /\ mode' = [mode EXCEPT !.filter = enabled]
    /\ resetAndDropEverythingLocked
    /\ UNCHANGED <<nextId, focus, sawKeyDown, appSwitch, thread, sleepOn, reader,
                   filtering, sent, swallowed, lastDrop>>

unregisterInputChannel(w) ==
    /\ "channel" \in Settings /\ window[w].registered /\ Calls
    /\ window' = [window EXCEPT ![w] = [entries |-> <<>>, slow |-> FALSE, down |-> {},
                                        registered |-> FALSE, paused |-> @.paused]]
    /\ injector' = Unpend(injector, window[w].entries)
    /\ UNCHANGED <<queue, nextId, mode, focus, due, sawKeyDown, appSwitch, nextUnblocked,
                   replacedKeys, reader, filtering, sent, swallowed, NotLoop>>

-----------------------------------------------------------------------------
(* Time *)

Armed(t) ==
    CASE t = "appSwitch" -> appSwitch
      [] t = "anr" -> wait.cause # NONE /\ ~wait.expired
      [] t = "later" -> pending # NoEvent /\ pending.intercept = "LATER"
      [] t = "repeat" -> lastKey # NoKey
      [] t = "stale" -> pending # NoEvent \/ queue # <<>>

timePasses(t) ==
    /\ Armed(t) /\ t \notin due /\ due' = due \cup {t}
    /\ UNCHANGED <<queue, nextId, sawKeyDown, appSwitch, nextUnblocked, wake,
                   replacedKeys, reader, filtering, sent, swallowed, injector, calls,
                   NotSettings, NotLoop>>

\* The oldest event a window has not finished is half a second old.
windowSlow(w) ==
    /\ window[w].entries # <<>> /\ ~window[w].slow
    /\ window' = [window EXCEPT ![w].slow = TRUE]
    /\ UNCHANGED <<queue, nextId, mode, focus, due, sawKeyDown, appSwitch,
                   nextUnblocked, wake, replacedKeys, reader, filtering, sent,
                   swallowed, injector, calls, NotLoop>>

-----------------------------------------------------------------------------
Dispatcher ==
    \/ dispatchNothing
    \/ dispatchPending
    \/ pollOnceReturns
    \/ \E w \in Windows : handleReceiveCallback(w)
    \/ \E a \in {"SKIP", "CONTINUE", "LATER"} : doInterceptKeyBeforeDispatching(a)
    \/ \E giveUp \in BOOLEAN : doNotifyANR(giveUp)
    \/ doNotifyConfigurationChanged

Reader ==
    \/ "key" \in Inputs /\ \E k \in Keys, a \in {"DOWN", "UP"}, meta \in BOOLEAN, pass \in Passes :
          (meta => k = Replaced) /\ notifyKey(k, a, meta, pass)
    \/ notifyKeyEnqueue
    \/ \E passes \in BOOLEAN : filterInputEvent(passes)
    \/ "touch" \in Inputs /\ \E w \in Windows, a \in {"DOWN", "MOVE"} :
          notifyOther(Event("touch", w, a, TRUE, NONE))
    \/ \E t \in {"config", "reset"} \cap Inputs :
          notifyOther(Event(t, NONE, NONE, TRUE, NONE))

Inject ==
    \E i \in It.injectors :
       \/ \E s \in {"NONE", "RESULT", "FINISHED"} :
             \/ "key" \in Inputs /\ \E k \in Keys :
                   injectInputEvent(i, Event("key", k, "DOWN", TRUE, i), s)
             \/ "touch" \in Inputs /\ \E w \in Windows :
                   injectInputEvent(i, Event("touch", w, "DOWN", TRUE, i), s)
       \/ injectReturns(i)

WindowManager ==
    \/ \E w \in Windows \cup {NONE}, paused \in SUBSET Windows : setInputWindows(w, paused)
    \/ \E a \in Applications \cup {NONE} : setFocusedApplication(a)
    \/ \E enabled, frozen \in BOOLEAN : setInputDispatchMode(enabled, frozen)
    \/ \E enabled \in BOOLEAN : setInputFilterEnabled(enabled)
    \/ \E w \in Windows : unregisterInputChannel(w)

Step ==
    \/ Dispatcher
    \/ Reader
    \/ Inject
    \/ WindowManager
    \/ \E t \in Deadlines : timePasses(t)
    \/ \E w \in Windows : windowSlow(w)

Next == Step /\ UNCHANGED conf

Spec == Init /\ [][Next]_vars

-----------------------------------------------------------------------------
(* Properties *)

\* The event of an injector that waits for a result is still to be processed,
\* and an injector that waits for the windows to finish counts exactly the
\* events they have: no drop, no reset and no lost channel strands it.
InjectionAccounted ==
    \A i \in Injectors :
        /\ injector[i].result = "PENDING" =>
               \E e \in {pending} \cup Range(queue) : e # NoEvent /\ e.injector = i
        /\ injector[i].fg = Cardinality({p \in Windows \X (1 .. MaxEvents) :
               LET entries == window[p[1]].entries
               IN  p[2] \in DOMAIN entries /\ entries[p[2]].injector = i})

\* The thread does not sleep on work: if nothing will wake it, there is no event
\* to take, and another look at the pending event would leave it pending.
NoMissedWake ==
    thread.pc = "sleep" /\ ~wake /\ due \cap sleepOn = {} /\ ~mode.frozen =>
        IF pending = NoEvent THEN queue = <<>>
        ELSE LET d == Decision(pending, FALSE, "appSwitch" \in due, FALSE)
             IN  d.waits /\ ~d.asks /\ ~d.begins /\ ~d.anr

Quiet == /\ pending = NoEvent /\ queue = <<>> /\ reader = NoEvent
         /\ thread.pc \in {"run", "sleep"}

\* Once all events are processed, no window believes a key is down that the
\* user does not hold, although key-ups are dropped, time out or go elsewhere,
\* and the filter is switched while it is asked. Two cases apart: an injected
\* press, which nobody holds, and a release that the input filter consumed,
\* which is the filter's to answer for if it let the press pass.
NoStuckKey ==
    Quiet /\ It.injectors = {} =>
        \A w \in Windows : \A c \in window[w].down :
            c \in swallowed \/ \E k \in Keys : sent[k] = c

\* "In order to maintain a consistent stream of up and down events, check to see
\* if the key going up is one we've replaced in a down event": a replaced key
\* is released, also when the filter or the dispatch mode is switched.
ReplacedKeyReleased ==
    Quiet /\ (\A k \in Keys : sent[k] = NONE) =>
        \A w \in Windows : window[w].down \subseteq swallowed

\* "drop all events preceding the app switch key": an event is dropped for a
\* pending switch only if a switch key is behind it.
OnlyEventsBeforeSwitchDropped ==
    lastDrop.reason = "APP_SWITCH" => lastDrop.switchWaits

\* "Notifies the system that an application is not responding": the application
\* that is reported is the one that was waited for.
ReportedApplicationWaited ==
    thread.pc = "policy" /\ thread.call = "anr" /\ thread.win # NONE =>
        thread.waited = AppOf[thread.win]


\* "Reset key repeating in case a keyboard device was added or removed or
\* something": a reset device, whose keys the reader has forgotten, repeats none.
ResetDeviceRepeatsNothing ==
    Quiet /\ (\A k \in Keys : sent[k] = NONE) => lastKey = NoKey
=============================================================================
