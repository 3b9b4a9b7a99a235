------------------------ MODULE InputDispatcherProofs ------------------------
(***************************************************************************)
(* The dispatcher's thread does not sleep on work.  It decides what to     *)
(* wait for in one pass of dispatchOnceInnerLocked, lets go of mLock in    *)
(* pollOnce, and the reader, injectors, the window manager, windows and    *)
(* the clock go on meanwhile.  Each of them calls wake only when the code  *)
(* believes it has to.                                                     *)
(*                                                                         *)
(* Nor does a window believe for ever that a key is down.  Presses and     *)
(* releases pass through the reader, the queue and the pending event; each *)
(* may be dropped, repeated, given up, or sent to another window than its  *)
(* counterpart.  The invariant says that the last word about every key,    *)
(* wherever it is, is true.                                                *)
(*                                                                         *)
(* Nor is an injector left waiting.  Its event is in one place, and the    *)
(* numbers that events get when they are queued tell the places apart.     *)
(***************************************************************************)
EXTENDS InputDispatcher, FiniteSetTheorems, TLAPS

Codes == KeyCodes \cup Windows \cup {Replacement}

\* The code of a touch is the window that it hits.
Events ==
    {e \in [id : Nat \ {0}, type : {"key", "touch", "config", "reset"},
            code : Codes \cup {NONE}, action : {"DOWN", "UP", "MOVE", NONE},
            pass : BOOLEAN, injector : Injectors \cup {NONE}, synthetic : BOOLEAN,
            intercept : {"UNKNOWN", "SKIP", "CONTINUE", "LATER"}] :
        /\ e.type = "touch" => e.code \in Windows
        /\ e.type = "key" => e.code \in Codes
        /\ e.synthetic => e.action = "DOWN"}

WindowStates ==
    [Windows -> [entries : Seq(Events), slow : BOOLEAN, down : SUBSET Codes,
                 registered : BOOLEAN, paused : BOOLEAN]]

\* The shapes of what the loop looks at.
InboundTypes ==
    /\ conf \in DOMAIN Configurations
    /\ nextId \in Nat \ {0}
    /\ queue \in Seq(Events)
    /\ pending \in Events \cup {NoEvent}
    /\ reader \in Events \cup {NoEvent}
    /\ filtering => reader # NoEvent
    /\ lastKey \in [code : Codes, pass : BOOLEAN, timer : BOOLEAN] \cup {NoKey}
    /\ window \in WindowStates
    /\ mode \in [enabled : BOOLEAN, frozen : BOOLEAN, filter : BOOLEAN]
    /\ focus = [win |-> focus.win, app |-> focus.app]
    /\ focus.win \in Windows \cup {NONE}

\* Parts of Decision, for the event that is pending.
Later(e) == e.intercept = "LATER" /\ "later" \notin due

Asks(e) == /\ e.type = "key" /\ e.pass /\ ~Later(e)
           /\ e.intercept \in {"UNKNOWN", "LATER"}

\* The event goes to its target unless an application switch is due.
Sends(e) == /\ e.type \in {"key", "touch"} /\ ~Later(e) /\ ~Asks(e)
            /\ e.intercept # "SKIP"
            /\ e.pass /\ mode.enabled /\ UnblockedAfter(e) = 0

\* pollOnce will not return by itself.
Sleeps ==
    thread.pc = "sleep" /\ ~wake /\ due \cap sleepOn = {} /\ ~mode.frozen

\* A switch is due only while one is pending.
SwitchDueIsPending == "appSwitch" \in due => appSwitch

\* What the thread sleeps on covers all that could make it go on.
Covered ==
    Sleeps =>
       /\ appSwitch => "appSwitch" \in sleepOn
       /\ pending = NoEvent => queue = <<>>
       /\ pending # NoEvent =>
             /\ ~Asks(pending)
             /\ Later(pending) => "later" \in sleepOn
             /\ ~Later(pending) =>
                   /\ Sends(pending)
                   /\ "anr" \in sleepOn
                   /\ wait.cause = "APPLICATION_NOT_READY"
                   /\ FindTarget(pending, wait).result = "PENDING"

WakeInv == InboundTypes /\ SwitchDueIsPending /\ Covered

-----------------------------------------------------------------------------
(* Types *)

\* The events that the reader, injectors and key repeat make are events.
LEMMA MadeEvents ==
    ASSUME InboundTypes,
           NEW type \in {"key", "touch", "config", "reset"},
           NEW code \in Codes \cup {NONE},
           NEW action \in {"DOWN", "UP", "MOVE", NONE}, NEW pass \in BOOLEAN,
           NEW inj \in Injectors \cup {NONE}, type = "touch" => code \in Windows,
           type = "key" => code \in Codes
    PROVE  /\ Event(type, code, action, pass, inj) \in Events
           /\ action = "DOWN" =>
                 [Event(type, code, action, pass, inj) EXCEPT !.synthetic = TRUE]
                    \in Events
<1>1. Event(type, code, action, pass, inj) \in Events
  BY DEF Event, Events, InboundTypes
<1>2. Event(type, code, action, pass, inj).action = action
  BY DEF Event
<1> QED
  BY <1>1, <1>2 DEF Events

\* No event is the event that is none.
LEMMA EventsAreSome == NoEvent \notin Events
<1>1. \A e \in Events : e.id # 0
  BY DEF Events
<1>2. NoEvent.id = 0
  BY DEF NoEvent
<1> QED
  BY <1>1, <1>2

\* Queueing an event keeps the queue one of events.
LEMMA EnqueueTypes ==
    ASSUME InboundTypes, NEW e \in Events, enqueueInboundEventLocked(e)
    PROVE  queue' \in Seq(Events) /\ nextId' \in Nat \ {0}
BY DEF InboundTypes, enqueueInboundEventLocked

\* Marks on windows keep their shape.
LEMMA MarkTypes ==
    ASSUME InboundTypes, NEW w
    PROVE  /\ AllKeysUp(window) \in WindowStates
           /\ [window EXCEPT ![w].down = {}] \in WindowStates
           /\ [window EXCEPT ![w].slow = TRUE] \in WindowStates
<1> DEFINE R == [entries : Seq(Events), slow : BOOLEAN,
                 down : SUBSET Codes, registered : BOOLEAN,
                 paused : BOOLEAN]
<1>1. window \in [Windows -> R]
  BY DEF InboundTypes, WindowStates
<1>2. \A r \in R : [r EXCEPT !.down = {}] \in R /\ [r EXCEPT !.slow = TRUE] \in R
  OBVIOUS
<1>3. AllKeysUp(window) \in [Windows -> R]
  BY <1>1, <1>2 DEF AllKeysUp
<1>4. /\ [window EXCEPT ![w].down = {}] \in [Windows -> R]
      /\ [window EXCEPT ![w].slow = TRUE] \in [Windows -> R]
  <2> HIDE DEF R
  <2> QED
    BY <1>1, <1>2
<1> QED
  BY <1>3, <1>4 DEF WindowStates

\* Deliveries keep the windows' shape.
LEMMA DeliveredTypes ==
    ASSUME InboundTypes, NEW e \in Events, NEW w
    PROVE  Delivered(window, w, e) \in WindowStates
<1> DEFINE R == [entries : Seq(Events), slow : BOOLEAN,
                 down : SUBSET Codes, registered : BOOLEAN,
                 paused : BOOLEAN]
<1>1. window \in [Windows -> R]
  BY DEF InboundTypes, WindowStates
<1>2. CASE w \notin Windows
  BY <1>1, <1>2 DEF Delivered, WindowStates
<1>3. CASE w \in Windows
  <2>1. window[w] \in R
    BY <1>1, <1>3
  <2>2. Append(window[w].entries, e) \in Seq(Events)
    BY <2>1
  <2>3. /\ e.type = "key" => window[w].down \cup {e.code} \in SUBSET Codes
        /\ window[w].down \ {e.code} \in SUBSET Codes
    BY <2>1 DEF Events
  <2> QED
    BY <1>1, <1>3, <2>1, <2>2, <2>3 DEF Delivered, WindowStates
<1> QED
  BY <1>2, <1>3 DEF WindowStates

\* What the configuration allows is known.
LEMMA KnownConfiguration ==
    ASSUME conf \in DOMAIN Configurations
    PROVE  /\ Keys \subseteq KeyCodes /\ It.injectors \subseteq Injectors
           /\ Inputs \subseteq {"key", "touch", "config", "reset"}
           /\ Passes \subseteq BOOLEAN
BY InboundConstants DEF It, Keys, Inputs, Passes

\* A step of the dispatcher's thread keeps the types.
LEMMA DispatcherTypes ==
    ASSUME InboundTypes, Dispatcher, UNCHANGED conf
    PROVE  InboundTypes'
<1>1. CASE dispatchNothing
  BY <1>1 DEF InboundTypes, dispatchNothing, NotSettings
<1>2. CASE dispatchPending
  <2> DEFINE fresh == pending = NoEvent
             synthesizes == fresh /\ queue = <<>>
             e == IF ~fresh THEN pending
                  ELSE IF synthesizes THEN synthesizeKeyRepeatLocked ELSE Head(queue)
             target == IF e.type = "key" THEN focus.win ELSE e.code
             key == IF mode.enabled THEN lastKey ELSE NoKey
  <2>1. e \in Events
    <3>1. CASE synthesizes
      <4>1. lastKey # NoKey
        BY <1>2, <3>1 DEF dispatchPending, RepeatsKeys
      <4>2. lastKey.code \in Codes /\ lastKey.pass \in BOOLEAN
        BY <4>1 DEF InboundTypes
      <4> QED
        BY <3>1, <4>2, MadeEvents DEF synthesizeKeyRepeatLocked
    <3>2. CASE fresh /\ ~synthesizes
      BY <3>2 DEF InboundTypes
    <3>3. CASE ~fresh
      BY <3>3 DEF InboundTypes
    <3> QED
      BY <3>1, <3>2, <3>3
  <2>2. queue' \in Seq(Events) /\ nextId' \in Nat \ {0}
    BY <1>2 DEF dispatchPending, InboundTypes
  <2>3. lastKey' \in [code : Codes, pass : BOOLEAN, timer : BOOLEAN] \cup {NoKey}
    <3>1. lastKey' = IF fresh THEN KeyRepeatAfter(e, key) ELSE key
      BY <1>2 DEF dispatchPending
    <3>2. (e.type = "key" => e.code \in Codes) /\ e.pass \in BOOLEAN
      BY <2>1 DEF Events
    <3> HIDE DEF e
    <3> QED
      BY <3>1, <3>2 DEF KeyRepeatAfter, InboundTypes
  <2>4. /\ pending' \in {NoEvent, e, [e EXCEPT !.intercept = "UNKNOWN"]}
        /\ window' \in {window, AllKeysUp(window), Delivered(window, target, e)}
    <3>1. \E d : /\ pending' = IF ~d.waits THEN NoEvent
                               ELSE IF d.asks THEN [e EXCEPT !.intercept = "UNKNOWN"]
                               ELSE e
                 /\ window' = IF d.waits THEN window
                              ELSE IF e.type = "reset" THEN AllKeysUp(window)
                              ELSE IF d.drop # NONE THEN dropInboundEventLocked(window, e)
                              ELSE IF d.sends /\ d.result = "SUCCEEDED"
                              THEN Delivered(window, target, e) ELSE window
      BY <1>2, Zenon DEF dispatchPending
    <3> HIDE DEF e, target
    <3> QED
      BY <3>1 DEF dropInboundEventLocked
  <2>5. pending' \in Events \cup {NoEvent}
    BY <2>1, <2>4 DEF Events
  <2>6. window' \in WindowStates
    <3> HIDE DEF e, target
    <3>1. window \in WindowStates
      BY DEF InboundTypes
    <3>2. AllKeysUp(window) \in WindowStates
      BY MarkTypes
    <3>3. Delivered(window, target, e) \in WindowStates
      BY <2>1, DeliveredTypes
    <3> QED
      BY <2>4, <3>1, <3>2, <3>3
  <2>7. UNCHANGED <<conf, reader, filtering, mode, focus>>
    BY <1>2 DEF dispatchPending
  <2> QED
    BY <2>2, <2>3, <2>5, <2>6, <2>7 DEF InboundTypes
<1>3. CASE pollOnceReturns
  BY <1>3 DEF InboundTypes, pollOnceReturns, NotSettings
<1>4. ASSUME NEW w \in Windows, handleReceiveCallback(w)
      PROVE  InboundTypes'
  <2>1. window' = [window EXCEPT ![w].entries = Tail(@), ![w].slow = FALSE]
    BY <1>4 DEF handleReceiveCallback
  <2>2. Tail(window[w].entries) \in Seq(Events)
    BY <1>4 DEF handleReceiveCallback, InboundTypes, WindowStates
  <2>3. window' \in WindowStates
    BY <2>1, <2>2, ZenonT(30) DEF InboundTypes, WindowStates
  <2> QED
    BY <1>4, <2>3 DEF handleReceiveCallback, InboundTypes
<1>5. ASSUME NEW a \in {"SKIP", "CONTINUE", "LATER"},
             doInterceptKeyBeforeDispatching(a)
      PROVE  InboundTypes'
  <2>1. pending' \in {pending, [pending EXCEPT !.intercept = a]}
    BY <1>5 DEF doInterceptKeyBeforeDispatching
  <2>2. CASE pending \in Events
    <3>1. [pending EXCEPT !.intercept = a] \in Events
      BY <2>2 DEF Events
    <3> QED
      BY <1>5, <2>1, <2>2, <3>1 DEF doInterceptKeyBeforeDispatching, Unlocked,
                                      InboundTypes
  <2>3. CASE pending = NoEvent
    <3>1. [pending EXCEPT !.intercept = a] = NoEvent
      BY <2>3 DEF NoEvent
    <3> QED
      BY <1>5, <2>1, <2>3, <3>1 DEF doInterceptKeyBeforeDispatching, Unlocked,
                                      InboundTypes
  <2> QED
    BY <2>2, <2>3 DEF InboundTypes
<1>6. ASSUME NEW g \in BOOLEAN, doNotifyANR(g)
      PROVE  InboundTypes'
  <2>1. window' \in {window, [window EXCEPT ![thread.win].down = {}]}
    BY <1>6 DEF doNotifyANR, resumeAfterTargetsNotReadyTimeoutLocked
  <2>2. window' \in WindowStates
    <3>1. window \in WindowStates
      BY DEF InboundTypes
    <3> QED
      BY <2>1, <3>1, MarkTypes
  <2> QED
    BY <1>6, <2>2 DEF doNotifyANR, Unlocked, InboundTypes
<1>7. CASE doNotifyConfigurationChanged
  BY <1>7 DEF InboundTypes, doNotifyConfigurationChanged, Unlocked
<1> QED
  BY <1>1, <1>2, <1>3, <1>4, <1>5, <1>6, <1>7 DEF Dispatcher

\* The reader's event waits for the filter, is queued, or is gone.
FilterConsumes ==
    /\ reader' = NoEvent /\ nextId' = nextId + 1
    /\ swallowed' = IF reader.type = "key" /\ reader.action = "UP"
                    THEN swallowed \cup {reader.code} ELSE swallowed
    /\ UNCHANGED NotQueue

LEMMA ReaderOutcomes ==
    ASSUME InboundTypes,
           notifyKeyEnqueue \/ \E passes \in BOOLEAN : filterInputEvent(passes)
    PROVE  /\ UNCHANGED <<pending, mode, focus, window, wait, lastKey, thread,
                          sleepOn, replacedKeys, sent, injector>>
           /\ reader # NoEvent /\ reader \in Events
           /\ [reader EXCEPT !.id = nextId] \in Events
           /\ \/ UNCHANGED <<reader, nextId, swallowed, NotQueue>>
              \/ ~filtering' /\ ReaderEnqueues
              \/ ~filtering' /\ FilterConsumes
<1>1. reader # NoEvent
  BY DEF notifyKeyEnqueue, filterInputEvent, InboundTypes
<1>2. reader \in Events /\ [reader EXCEPT !.id = nextId] \in Events
  <2>1. reader \in Events /\ nextId \in Nat \ {0}
    BY <1>1 DEF InboundTypes
  <2> QED
    BY <2>1 DEF Events
<1>3. CASE notifyKeyEnqueue
  <2>1. UNCHANGED <<pending, mode, focus, window, wait, lastKey, thread, sleepOn,
                    replacedKeys, sent, injector>>
    BY <1>3 DEF notifyKeyEnqueue, NotSettings, NotLoop
  <2>2. \/ UNCHANGED <<reader, nextId, swallowed, NotQueue>>
        \/ ~filtering' /\ ReaderEnqueues
    BY <1>3 DEF notifyKeyEnqueue
  <2> QED
    BY <1>1, <1>2, <2>1, <2>2
<1>4. ASSUME NEW passes \in BOOLEAN, filterInputEvent(passes)
      PROVE  /\ UNCHANGED <<pending, mode, focus, window, wait, lastKey, thread,
                            sleepOn, replacedKeys, sent, injector>>
             /\ \/ ~filtering' /\ ReaderEnqueues
                \/ ~filtering' /\ FilterConsumes
  <2>1. UNCHANGED <<pending, mode, focus, window, wait, lastKey, thread, sleepOn,
                    replacedKeys, sent, injector>>
    BY <1>4 DEF filterInputEvent, NotSettings, NotLoop
  <2>2. \/ ~filtering' /\ ReaderEnqueues
        \/ ~filtering' /\ FilterConsumes
    BY <1>4 DEF filterInputEvent, FilterConsumes
  <2> QED
    BY <2>1, <2>2
<1> QED
  BY <1>1, <1>2, <1>3, <1>4

\* A touch, a configuration change or a reset is queued, or a touch waits for
\* the filter.
LEMMA OtherOutcomes ==
    ASSUME NEW e, notifyOther(e)
    PROVE  /\ UNCHANGED <<pending, mode, focus, window, wait, lastKey, thread,
                          sleepOn, replacedKeys, swallowed, injector>>
           /\ reader = NoEvent /\ (e.type # "reset" => UNCHANGED sent)
           /\ \/ e.type = "touch" /\ reader' = e /\ UNCHANGED <<nextId, NotQueue>>
              \/ /\ ~filtering' /\ reader' = NoEvent
                 /\ enqueueInboundEventLocked(e)
<1>1. /\ UNCHANGED <<pending, mode, focus, window, wait, lastKey, thread, sleepOn,
                     replacedKeys, swallowed, injector>>
      /\ reader = NoEvent /\ (e.type # "reset" => UNCHANGED sent)
  BY DEF notifyOther, NotSettings, NotLoop
<1>2. CASE filtering'
  <2>1. e.type = "touch" /\ reader' = e /\ UNCHANGED <<nextId, NotQueue>>
    BY <1>2 DEF notifyOther
  <2> QED
    BY <1>1, <2>1
<1>3. CASE ~filtering'
  <2>1. reader' = NoEvent /\ enqueueInboundEventLocked(e)
    BY <1>1, <1>3 DEF notifyOther
  <2> QED
    BY <1>1, <1>3, <2>1
<1> QED
  BY <1>2, <1>3

\* A step of the reader or of an injector keeps the types.
LEMMA SourcesTypes ==
    ASSUME InboundTypes, Reader \/ Inject, UNCHANGED conf
    PROVE  InboundTypes'
<1>1. KeyCodes \subseteq Codes /\ Windows \subseteq Codes
         /\ Replacement \in Codes
  BY DEF Codes
<1>2. /\ Keys \subseteq KeyCodes /\ It.injectors \subseteq Injectors
      /\ Passes \subseteq BOOLEAN
  BY KnownConfiguration DEF InboundTypes
<1>3. ASSUME NEW k \in Keys, NEW a \in {"DOWN", "UP"}, NEW meta \in BOOLEAN,
             NEW pass \in Passes, notifyKey(k, a, meta, pass)
      PROVE  InboundTypes'
  <2>1. \E c \in {Replacement, k} : reader' = Event("key", c, a, pass, NONE)
    BY <1>3 DEF notifyKey
  <2>2. PICK c \in Codes : reader' = Event("key", c, a, pass, NONE)
    BY <1>1, <1>2, <1>3, <2>1
  <2>3. reader' \in Events
    BY <1>2, <1>3, <2>2, MadeEvents
  <2> QED
    BY <1>3, <2>3, EventsAreSome DEF notifyKey, NotSettings, NotLoop, InboundTypes
<1>4. ASSUME notifyKeyEnqueue \/ \E passes \in BOOLEAN : filterInputEvent(passes)
      PROVE  InboundTypes'
  <2>1. /\ UNCHANGED <<pending, mode, focus, window, lastKey>>
        /\ reader # NoEvent /\ reader \in Events
        /\ [reader EXCEPT !.id = nextId] \in Events
        /\ \/ UNCHANGED <<reader, nextId, NotQueue>>
           \/ ~filtering' /\ ReaderEnqueues
           \/ ~filtering' /\ FilterConsumes
    BY <1>4, ReaderOutcomes
  <2>2. CASE UNCHANGED <<reader, nextId, NotQueue>>
    BY <2>1, <2>2 DEF NotQueue, InboundTypes
  <2>3. CASE ~filtering' /\ ReaderEnqueues
    <3>1. queue' \in Seq(Events) /\ nextId' \in Nat \ {0}
      BY <2>1, <2>3, EnqueueTypes DEF ReaderEnqueues
    <3> QED
      BY <2>1, <2>3, <3>1 DEF ReaderEnqueues, InboundTypes
  <2>4. CASE ~filtering' /\ FilterConsumes
    BY <2>1, <2>4 DEF FilterConsumes, NotQueue, InboundTypes
  <2> QED
    BY <2>1, <2>2, <2>3, <2>4
<1>5. ASSUME NEW e \in Events, notifyOther(e)
      PROVE  InboundTypes'
  <2>1. /\ UNCHANGED <<pending, mode, focus, window, lastKey>>
        /\ \/ reader' = e /\ UNCHANGED <<nextId, NotQueue>>
           \/ /\ ~filtering' /\ reader' = NoEvent
              /\ enqueueInboundEventLocked(e)
    BY <1>5, OtherOutcomes
  <2>2. CASE reader' = e /\ UNCHANGED <<nextId, NotQueue>>
    BY <2>1, <2>2, EventsAreSome DEF NotQueue, InboundTypes
  <2>3. CASE /\ ~filtering' /\ reader' = NoEvent
             /\ enqueueInboundEventLocked(e)
    <3>1. queue' \in Seq(Events) /\ nextId' \in Nat \ {0}
      BY <2>3, EnqueueTypes
    <3> QED
      BY <2>1, <2>3, <3>1 DEF InboundTypes
  <2> QED
    BY <2>1, <2>2, <2>3
<1>6. ASSUME NEW i, NEW s, NEW e \in Events, injectInputEvent(i, e, s)
      PROVE  InboundTypes'
  <2>1. queue' \in Seq(Events) /\ nextId' \in Nat \ {0}
    BY <1>6, EnqueueTypes DEF injectInputEvent
  <2> QED
    BY <1>6, <2>1 DEF injectInputEvent, NotSettings, NotLoop, InboundTypes
<1>7. ASSUME NEW i, injectReturns(i)
      PROVE  InboundTypes'
  BY <1>7 DEF injectReturns, NotSettings, NotLoop, InboundTypes
<1>8. /\ \A w \in Windows, a \in {"DOWN", "MOVE"}, i \in Injectors \cup {NONE} :
            Event("touch", w, a, TRUE, i) \in Events
      /\ \A t \in {"config", "reset"} : Event(t, NONE, NONE, TRUE, NONE) \in Events
      /\ \A k \in KeyCodes, i \in Injectors \cup {NONE} :
            Event("key", k, "DOWN", TRUE, i) \in Events
  BY <1>1, MadeEvents
<1>9. CASE Reader
  BY <1>3, <1>4, <1>5, <1>8, <1>9 DEF Reader
<1>10. CASE Inject
  BY <1>2, <1>6, <1>7, <1>8, <1>10 DEF Inject
<1> QED
  BY <1>9, <1>10

\* The windows come with their flags; only one that loses the focus lets go of keys.
LEMMA FlagsSet ==
    ASSUME InboundTypes, NEW w, NEW paused, setInputWindows(w, paused)
    PROVE  /\ window' \in WindowStates
           /\ \A v \in Windows :
                 /\ window'[v].entries = window[v].entries
                 /\ window'[v].down =
                       IF v = focus.win /\ v # w THEN {} ELSE window[v].down
<1> DEFINE R == [entries : Seq(Events), slow : BOOLEAN, down : SUBSET Codes,
                 registered : BOOLEAN, paused : BOOLEAN]
<1>1. window' = [v \in Windows |->
                    WithFlags(window[v], v \in paused, v = focus.win /\ v # w)]
  BY DEF setInputWindows
<1>2. ASSUME NEW r \in R, NEW p \in BOOLEAN, NEW b \in BOOLEAN
      PROVE  LET f == WithFlags(r, p, b)
             IN  /\ f \in R /\ f.entries = r.entries
                 /\ f.down = IF b THEN {} ELSE r.down
  BY DEF WithFlags
<1>3. window \in [Windows -> R]
  BY DEF InboundTypes, WindowStates
<1>4. \A v \in Windows : LET f == WithFlags(window[v], v \in paused,
                                           v = focus.win /\ v # w)
                        IN  /\ f \in R /\ f.entries = window[v].entries
                            /\ f.down = IF v = focus.win /\ v # w THEN {}
                                        ELSE window[v].down
  <2> SUFFICES ASSUME NEW v \in Windows
               PROVE  LET f == WithFlags(window[v], v \in paused,
                                         v = focus.win /\ v # w)
                      IN  /\ f \in R /\ f.entries = window[v].entries
                          /\ f.down = IF v = focus.win /\ v # w THEN {}
                                      ELSE window[v].down
    OBVIOUS
  <2> DEFINE p == v \in paused
             b == v = focus.win /\ v # w
  <2>1. window[v] \in R /\ p \in BOOLEAN /\ b \in BOOLEAN
    BY <1>3
  <2> HIDE DEF R, p, b
  <2>2. LET f == WithFlags(window[v], p, b)
        IN  /\ f \in R /\ f.entries = window[v].entries
            /\ f.down = IF b THEN {} ELSE window[v].down
    BY <1>2, <2>1
  <2> QED
    BY <2>2, Zenon DEF p, b
<1> HIDE DEF R
<1>5. window' \in [Windows -> R]
  BY <1>1, <1>4
<1>6. \A v \in Windows : /\ window'[v].entries = window[v].entries
                         /\ window'[v].down =
                               IF v = focus.win /\ v # w THEN {} ELSE window[v].down
  BY <1>1, <1>4
<1> QED
  BY <1>5, <1>6 DEF R, WindowStates

\* A call of the window manager keeps the types.
LEMMA WindowManagerTypes ==
    ASSUME InboundTypes, WindowManager, UNCHANGED conf
    PROVE  InboundTypes'
<1>1. ASSUME resetAndDropEverythingLocked, UNCHANGED <<nextId, reader, filtering, focus>>,
             mode' \in [enabled : BOOLEAN, frozen : BOOLEAN, filter : BOOLEAN]
      PROVE  InboundTypes'
  <2>1. window' \in WindowStates
    BY <1>1, MarkTypes DEF resetAndDropEverythingLocked
  <2>2. <<>> \in Seq(Events)
    OBVIOUS
  <2> QED
    BY <1>1, <2>1, <2>2 DEF resetAndDropEverythingLocked, InboundTypes
<1>2. ASSUME NEW w \in Windows \cup {NONE}, NEW paused \in SUBSET Windows,
             setInputWindows(w, paused)
      PROVE  InboundTypes'
  <2>3. window' \in WindowStates
    BY <1>2, FlagsSet
  <2>4. focus' = [win |-> w, app |-> focus.app]
    BY <1>2 DEF setInputWindows, InboundTypes
  <2> QED
    BY <1>2, <2>3, <2>4 DEF setInputWindows, NotLoop, InboundTypes
<1>3. ASSUME NEW a, setFocusedApplication(a)
      PROVE  InboundTypes'
  <2>1. focus' = [win |-> focus.win, app |-> a]
    BY <1>3 DEF setFocusedApplication, InboundTypes
  <2> QED
    BY <1>3, <2>1 DEF setFocusedApplication, InboundTypes
<1>4. ASSUME NEW enabled \in BOOLEAN, NEW frozen \in BOOLEAN,
             setInputDispatchMode(enabled, frozen)
      PROVE  InboundTypes'
  <2>1. mode' \in [enabled : BOOLEAN, frozen : BOOLEAN, filter : BOOLEAN]
    BY <1>4 DEF setInputDispatchMode, InboundTypes
  <2>2. CASE mode.enabled /\ ~enabled
    BY <1>1, <1>4, <2>1, <2>2 DEF setInputDispatchMode
  <2>3. CASE ~(mode.enabled /\ ~enabled)
    BY <1>4, <2>1, <2>3 DEF setInputDispatchMode, KeepsEverything, InboundTypes
  <2> QED
    BY <2>2, <2>3
<1>5. ASSUME NEW enabled \in BOOLEAN, setInputFilterEnabled(enabled)
      PROVE  InboundTypes'
  <2>1. mode' \in [enabled : BOOLEAN, frozen : BOOLEAN, filter : BOOLEAN]
    BY <1>5 DEF setInputFilterEnabled, InboundTypes
  <2> QED
    BY <1>1, <1>5, <2>1 DEF setInputFilterEnabled
<1>6. ASSUME NEW w \in Windows, unregisterInputChannel(w)
      PROVE  InboundTypes'
  <2>1. window' = [window EXCEPT ![w] = [entries |-> <<>>, slow |-> FALSE,
                                         down |-> {}, registered |-> FALSE,
                                         paused |-> @.paused]]
    BY <1>6 DEF unregisterInputChannel
  <2>2. window' \in WindowStates
    BY <2>1 DEF InboundTypes, WindowStates
  <2> QED
    BY <1>6, <2>2 DEF unregisterInputChannel, NotLoop, InboundTypes
<1> QED
  BY <1>2, <1>3, <1>4, <1>5, <1>6 DEF WindowManager

\* The loop's state keeps its shape, whatever the configuration.
LEMMA TypesInductive ==
    ASSUME InboundTypes, [Next]_vars
    PROVE  InboundTypes'
<1>1. CASE Dispatcher /\ UNCHANGED conf
  BY <1>1, DispatcherTypes
<1>2. CASE (Reader \/ Inject) /\ UNCHANGED conf
  BY <1>2, SourcesTypes
<1>3. CASE WindowManager /\ UNCHANGED conf
  BY <1>3, WindowManagerTypes
<1>4. ASSUME NEW t, timePasses(t), UNCHANGED conf
      PROVE  InboundTypes'
  BY <1>4 DEF timePasses, NotSettings, NotLoop, InboundTypes
<1>5. ASSUME NEW w \in Windows, windowSlow(w), UNCHANGED conf
      PROVE  InboundTypes'
  <2>1. window' \in WindowStates
    BY <1>5, MarkTypes DEF windowSlow
  <2> QED
    BY <1>5, <2>1 DEF windowSlow, NotLoop, InboundTypes
<1>6. CASE UNCHANGED vars
  BY <1>6 DEF vars, InboundTypes
<1> QED
  BY <1>1, <1>2, <1>3, <1>4, <1>5, <1>6 DEF Next, Step

-----------------------------------------------------------------------------
(* Sleeping *)

\* An event is not dropped for exactly these reasons.
LEMMA NotDropped ==
    ASSUME NEW e, NEW switchDue \in BOOLEAN, NEW unblocked, NEW stale \in BOOLEAN,
           e.type \in {"key", "touch"}
    PROVE  (DropReason(e, switchDue, unblocked, stale) = NONE) <=>
              /\ e.pass /\ mode.enabled /\ unblocked = 0 /\ ~stale
              /\ ~switchDue \/ isAppSwitchKeyEventLocked(e)
<1> DEFINE P == e.pass
           M == mode.enabled
           A == isAppSwitchKeyEventLocked(e)
<1>1. DropReason(e, switchDue, unblocked, stale) =
         CASE e.type \in {"config", "reset"} -> NONE
           [] ~P -> "POLICY" [] ~M -> "DISABLED"
           [] switchDue /\ ~A -> "APP_SWITCH" [] stale -> "STALE"
           [] unblocked # 0 -> "BLOCKED" [] OTHER -> NONE
  BY Zenon DEF DropReason
<1>2. e.type \notin {"config", "reset"}
  OBVIOUS
<1> HIDE DEF P, M, A
<1>3. (DropReason(e, switchDue, unblocked, stale) = NONE) <=>
         P /\ M /\ unblocked = 0 /\ ~stale /\ (~switchDue \/ A)
  BY <1>1, <1>2, InboundConstants
<1> QED
  BY <1>3 DEF P, M, A

\* What one pass decides about an event.
LEMMA DecisionParts ==
    ASSUME NEW e, NEW fresh \in BOOLEAN, NEW switchDue \in BOOLEAN,
           NEW stale \in BOOLEAN
    PROVE  LET d == Decision(e, fresh, switchDue, stale)
               found == FindTarget(e, IF fresh THEN NoWait ELSE wait)
           IN  /\ d.later <=> Later(e)
               /\ d.asks <=> Asks(e)
               /\ d.sends <=> /\ Sends(e) /\ ~stale
                              /\ ~switchDue \/ isAppSwitchKeyEventLocked(e)
               /\ d.waits <=> \/ d.later \/ d.asks
                              \/ d.sends /\ found.result = "PENDING"
               /\ d.begins <=> d.sends /\ found.begins
               /\ d.anr <=> d.sends /\ found.anr
               /\ d.waits /\ d.sends => d.wait = found.wait
               /\ d.unblocked = UnblockedAfter(e)
<1> DEFINE unblocked == UnblockedAfter(e)
           reason == DropReason(e, switchDue, unblocked, stale)
           later == e.intercept = "LATER" /\ "later" \notin due
           asks == e.type = "key" /\ e.pass /\ ~later
                      /\ e.intercept \in {"UNKNOWN", "LATER"}
           drop == IF reason = NONE /\ e.intercept = "SKIP" THEN "POLICY" ELSE reason
           sends == e.type \in {"key", "touch"} /\ ~later /\ ~asks /\ drop = NONE
           w0 == IF fresh THEN NoWait ELSE wait
           found == FindTarget(e, w0)
           waits == later \/ asks \/ (sends /\ found.result = "PENDING")
           begins == sends /\ found.begins
           anr == sends /\ found.anr
           w1 == IF ~waits THEN NoWait ELSE IF sends THEN found.wait ELSE w0
           result == IF drop = "POLICY" THEN "SUCCEEDED"
                     ELSE IF drop # NONE THEN "FAILED" ELSE found.result
           d == Decision(e, fresh, switchDue, stale)
<1>1. d = [later |-> later, asks |-> asks, drop |-> drop, sends |-> sends,
           waits |-> waits, begins |-> begins, anr |-> anr, wait |-> w1,
           unblocked |-> unblocked, result |-> result]
  BY Zenon DEF Decision
<1>2. later <=> Later(e)
  BY DEF Later
<1>3. asks <=> Asks(e)
  BY DEF Asks, Later
<1>4. sends <=> /\ Sends(e) /\ ~stale
                /\ ~switchDue \/ isAppSwitchKeyEventLocked(e)
  <2>1. CASE e.type \notin {"key", "touch"}
    BY <2>1 DEF Sends
  <2>2. CASE e.type \in {"key", "touch"}
    <3>1. (reason = NONE) <=> /\ e.pass /\ mode.enabled /\ unblocked = 0 /\ ~stale
                              /\ ~switchDue \/ isAppSwitchKeyEventLocked(e)
      BY <2>2, NotDropped
    <3>2. (drop = NONE) <=> (reason = NONE /\ e.intercept # "SKIP")
      <4> HIDE DEF reason
      <4> QED
        BY InboundConstants
    <3> HIDE DEF reason, drop, later, asks, unblocked
    <3>3. sends <=> ~Later(e) /\ ~Asks(e) /\ reason = NONE /\ e.intercept # "SKIP"
      BY <2>2, <3>2, <1>2, <1>3
    <3> QED
      BY <2>2, <3>1, <3>3 DEF Sends, unblocked
  <2> QED
    BY <2>1, <2>2
<1>5. /\ d.later <=> later
      /\ d.asks <=> asks
      /\ d.sends <=> sends
      /\ d.waits <=> waits
      /\ d.begins <=> begins
      /\ d.anr <=> anr
      /\ d.wait = w1 /\ d.unblocked = unblocked
  <2> HIDE DEF later, asks, drop, sends, waits, begins, anr, w1, unblocked, result, d
  <2> QED
    BY <1>1
<1> QED
  BY <1>2, <1>3, <1>4, <1>5

\* A target that is not ready begins the wait, or the wait has not expired.
LEMMA TargetNotReady ==
    ASSUME NEW e, NEW w0, FindTarget(e, w0).result = "PENDING"
    PROVE  LET found == FindTarget(e, w0)
           IN  /\ found.wait.cause = "APPLICATION_NOT_READY"
               /\ w0.cause = "APPLICATION_NOT_READY" => ~found.begins
               /\ found.anr => "anr" \in due
<1>1. \E app, win : FindTarget(e, w0) = handleTargetsNotReadyLocked(w0, app, win)
  BY DEF FindTarget
<1>2. PICK app, win : FindTarget(e, w0) = handleTargetsNotReadyLocked(w0, app, win)
  BY <1>1
<1> DEFINE begins == w0.cause # "APPLICATION_NOT_READY"
           new == IF begins
                  THEN [cause |-> "APPLICATION_NOT_READY", expired |-> FALSE,
                        app |-> IF win # NONE THEN AppOf[win] ELSE app]
                  ELSE w0
           anr == ~new.expired /\ ~begins /\ "anr" \in due
           result == IF new.expired THEN "TIMED_OUT" ELSE "PENDING"
<1>3. FindTarget(e, w0) = [wait |-> new, begins |-> begins, anr |-> anr,
                           result |-> result]
  BY <1>2, Zenon DEF handleTargetsNotReadyLocked
<1>4. new.cause = "APPLICATION_NOT_READY"
  OBVIOUS
<1>5. /\ FindTarget(e, w0).wait = new
      /\ FindTarget(e, w0).begins <=> begins
      /\ FindTarget(e, w0).anr <=> anr
  <2> HIDE DEF new, begins, anr, result
  <2> QED
    BY <1>3
<1> HIDE DEF new
<1> QED
  BY <1>4, <1>5

\* The result of looking for the target of an event.
LEMMA TargetResult ==
    ASSUME NEW e, NEW w0
    PROVE  (FindTarget(e, w0).result = "PENDING") <=>
              LET win == IF e.type = "key" THEN focus.win ELSE e.code
              IN  /\ IF win = NONE THEN focus.app # NONE
                     ELSE /\ \/ e.injector = NONE \/ e.injector \in Trusted
                             \/ win \in SameUid[e.injector]
                          /\ ~IsReady(e, win)
                  /\ w0.cause = "APPLICATION_NOT_READY" => ~w0.expired
<1>1. ASSUME NEW app, NEW win
      PROVE  (handleTargetsNotReadyLocked(w0, app, win).result = "PENDING") <=>
                (w0.cause = "APPLICATION_NOT_READY" => ~w0.expired)
  BY DEF handleTargetsNotReadyLocked
<1> QED
  BY <1>1 DEF FindTarget

\* Looking again, with the wait that the first look left, finds the same.
LEMMA LookAgain ==
    ASSUME NEW e, NEW w0, FindTarget(e, w0).result = "PENDING"
    PROVE  FindTarget(e, FindTarget(e, w0).wait).result = "PENDING"
<1> DEFINE w1 == FindTarget(e, w0).wait
<1>1. ~w1.expired
  <2>1. ASSUME NEW app, NEW win,
               handleTargetsNotReadyLocked(w0, app, win).result = "PENDING"
        PROVE  ~handleTargetsNotReadyLocked(w0, app, win).wait.expired
    BY <2>1 DEF handleTargetsNotReadyLocked
  <2>2. \E app, win : FindTarget(e, w0) = handleTargetsNotReadyLocked(w0, app, win)
    BY DEF FindTarget
  <2> QED
    BY <2>1, <2>2
<1> HIDE DEF w1
<1>2. FindTarget(e, w1).result = "PENDING"
  BY <1>1, TargetResult
<1> QED
  BY <1>2 DEF w1

\* A target that is not ready stays so while windows only become slower.
LEMMA StillNotReady ==
    ASSUME InboundTypes, NEW e \in Events, e.type \in {"key", "touch"},
           UNCHANGED <<focus, wait>>,
           \A w \in Windows : /\ window'[w].registered = window[w].registered
                              /\ window'[w].paused = window[w].paused
                              /\ window'[w].entries = window[w].entries
                              /\ window[w].slow => window'[w].slow,
           FindTarget(e, wait).result = "PENDING"
    PROVE  FindTarget(e, wait)'.result = "PENDING"
<1> DEFINE win == IF e.type = "key" THEN focus.win ELSE e.code
<1>1. /\ IF win = NONE THEN focus.app # NONE
         ELSE /\ \/ e.injector = NONE \/ e.injector \in Trusted
                 \/ win \in SameUid[e.injector]
              /\ ~IsReady(e, win)
      /\ wait.cause = "APPLICATION_NOT_READY" => ~wait.expired
  BY TargetResult
<1>2. win # NONE => ~IsReady(e, win)'
  <2>1. win \in Windows \cup {NONE}
    BY DEF InboundTypes, Events
  <2>2. ASSUME NEW w \in Windows, ~IsReady(e, w)
        PROVE  ~IsReady(e, w)'
    BY <2>2 DEF IsReady
  <2>3. win' = win
    OBVIOUS
  <2> HIDE DEF win
  <2> QED
    BY <1>1, <2>1, <2>2, <2>3
<1>3. ASSUME NEW app, NEW v
      PROVE  handleTargetsNotReadyLocked(wait, app, v)'.result = "PENDING"
  BY <1>1 DEF handleTargetsNotReadyLocked
<1> QED
  BY <1>1, <1>2, <1>3 DEF FindTarget

\* The thread's sleep depends on these only.
LEMMA CoveredUnchanged ==
    ASSUME Covered, UNCHANGED <<queue, pending, mode, focus, wait, due, appSwitch,
                                nextUnblocked, thread, sleepOn, wake, window>>
    PROVE  Covered'
<1>1. ASSUME NEW e PROVE FindTarget(e, wait)' = FindTarget(e, wait)
  BY DEF FindTarget, handleTargetsNotReadyLocked, IsReady
<1>2. FindTarget(pending, wait)' = FindTarget(pending, wait)
  BY <1>1
<1>3. /\ Later(pending)' <=> Later(pending)
      /\ Asks(pending)' <=> Asks(pending)
      /\ Sends(pending)' <=> Sends(pending)
  BY DEF Later, Asks, Sends, UnblockedAfter
<1>4. Sleeps' <=> Sleeps
  BY DEF Sleeps
<1> QED
  BY <1>2, <1>3, <1>4 DEF Covered

\* A thread that is awake, or will be, need not be covered.
LEMMA AwakeIsCovered ==
    ASSUME thread'.pc # "sleep" \/ wake' \/ mode'.frozen
    PROVE  Covered'
BY DEF Covered, Sleeps

\* enqueueInboundEventLocked wakes the thread whenever the event, or the switch
\* it announces, or the window it unblocks, could matter to it.
LEMMA EnqueueCovered ==
    ASSUME SwitchDueIsPending, Covered, NEW e, enqueueInboundEventLocked(e),
           UNCHANGED <<pending, mode, focus, wait, thread, sleepOn, window>>
    PROVE  SwitchDueIsPending' /\ Covered'
<1>1. SwitchDueIsPending'
  BY DEF SwitchDueIsPending, enqueueInboundEventLocked
<1>2. CASE wake \/ needWake(e)
  <2>1. wake'
    BY <1>2 DEF enqueueInboundEventLocked
  <2> QED
    BY <1>1, <2>1, AwakeIsCovered
<1>3. CASE ~(wake \/ needWake(e)) /\ Sleeps'
  <2>1. queue # <<>> /\ ~SwitchPends(e) /\ ~Unblocks(e)
    BY <1>3 DEF needWake
  <2>2. due' = due /\ (appSwitch' <=> appSwitch) /\ nextUnblocked' = nextUnblocked
    BY <2>1 DEF enqueueInboundEventLocked
  <2>3. Sleeps
    BY <1>3, <2>2 DEF Sleeps
  <2>4. pending # NoEvent
    BY <2>1, <2>3 DEF Covered
  <2>5. FindTarget(pending, wait)' = FindTarget(pending, wait)
    <3>1. ASSUME NEW f PROVE FindTarget(f, wait)' = FindTarget(f, wait)
      BY <2>2 DEF FindTarget, handleTargetsNotReadyLocked, IsReady
    <3> QED
      BY <3>1
  <2>6. /\ Later(pending)' <=> Later(pending)
        /\ Asks(pending)' <=> Asks(pending)
        /\ Sends(pending)' <=> Sends(pending)
    BY <2>2 DEF Later, Asks, Sends, UnblockedAfter
  <2> QED
    BY <1>1, <2>2, <2>3, <2>4, <2>5, <2>6 DEF Covered
<1> QED
  BY <1>1, <1>2, <1>3 DEF Covered

\* A deadline that passes either wakes the thread or does not matter to it.
LEMMA TimeCovered ==
    ASSUME SwitchDueIsPending, Covered, NEW t, timePasses(t)
    PROVE  SwitchDueIsPending' /\ Covered'
<1>1. /\ due' = due \cup {t}
      /\ UNCHANGED <<queue, pending, mode, focus, wait, appSwitch, nextUnblocked,
                     thread, sleepOn, wake, window>>
  BY DEF timePasses, NotSettings, NotLoop
<1>2. SwitchDueIsPending'
  <2>1. ASSUME t = "appSwitch" PROVE appSwitch
    <3>1. Armed(t)
      BY DEF timePasses
    <3>2. Armed(t) = appSwitch
      BY <2>1 DEF Armed
    <3> QED
      BY <3>1, <3>2
  <2> QED
    BY <1>1, <2>1 DEF SwitchDueIsPending
<1>3. CASE Sleeps'
  <2>1. Sleeps /\ t \notin sleepOn
    BY <1>1, <1>3 DEF Sleeps
  <2>2. CASE pending = NoEvent
    BY <1>1, <1>2, <2>1, <2>2 DEF Covered
  <2>3. CASE pending # NoEvent
    <3>1. Later(pending)' <=> Later(pending)
      BY <1>1, <2>1, <2>3 DEF Covered, Later
    <3>2. /\ Asks(pending)' <=> Asks(pending)
          /\ Sends(pending)' <=> Sends(pending)
      BY <1>1, <3>1 DEF Asks, Sends, UnblockedAfter
    <3>3. (FindTarget(pending, wait)'.result = "PENDING") <=>
             (FindTarget(pending, wait).result = "PENDING")
      <4>1. ASSUME NEW e
            PROVE  FindTarget(e, wait)'.result = FindTarget(e, wait).result
        BY <1>1 DEF FindTarget, handleTargetsNotReadyLocked, IsReady
      <4> QED
        BY <1>1, <4>1
    <3> QED
      BY <1>1, <1>2, <2>1, <2>3, <3>1, <3>2, <3>3 DEF Covered
  <2> QED
    BY <2>2, <2>3
<1> QED
  BY <1>2, <1>3 DEF Covered

\* A window that becomes slow does not let an event pass.
LEMMA SlowCovered ==
    ASSUME InboundTypes, Covered, NEW w \in Windows, windowSlow(w)
    PROVE  Covered'
<1>1. UNCHANGED <<queue, pending, mode, focus, wait, due, appSwitch, nextUnblocked,
                  thread, sleepOn, wake>>
  BY DEF windowSlow, NotLoop
<1>2. \A v \in Windows : /\ window'[v].registered = window[v].registered
                         /\ window'[v].paused = window[v].paused
                         /\ window'[v].entries = window[v].entries
                         /\ window[v].slow => window'[v].slow
  BY DEF windowSlow, InboundTypes, WindowStates
<1>3. /\ Later(pending)' <=> Later(pending)
      /\ Asks(pending)' <=> Asks(pending)
      /\ Sends(pending)' <=> Sends(pending)
  BY <1>1 DEF Later, Asks, Sends, UnblockedAfter
<1>4. Sleeps' <=> Sleeps
  BY <1>1 DEF Sleeps
<1>5. ASSUME pending # NoEvent, Sends(pending),
             FindTarget(pending, wait).result = "PENDING"
      PROVE  FindTarget(pending, wait)'.result = "PENDING"
  <2>1. pending \in Events /\ pending.type \in {"key", "touch"}
    BY <1>5 DEF Sends, InboundTypes
  <2>2. ASSUME NEW e \in Events, e.type \in {"key", "touch"},
               FindTarget(e, wait).result = "PENDING"
        PROVE  FindTarget(e, wait)'.result = "PENDING"
    BY <1>1, <1>2, <2>2, StillNotReady
  <2> QED
    BY <1>1, <1>5, <2>1, <2>2
<1> QED
  BY <1>1, <1>3, <1>4, <1>5 DEF Covered

\* A pass that leaves its event pending sleeps on all that it waits for.
LEMMA DispatchCovered ==
    ASSUME InboundTypes, SwitchDueIsPending, dispatchPending, InboundTypes'
    PROVE  SwitchDueIsPending' /\ Covered'
<1> DEFINE fresh == pending = NoEvent
           synthesizes == fresh /\ queue = <<>>
           e == IF ~fresh THEN pending
                ELSE IF synthesizes THEN synthesizeKeyRepeatLocked ELSE Head(queue)
           target == IF e.type = "key" THEN focus.win ELSE e.code
           switchDue == "appSwitch" \in due
           arrived == switchDue /\ (synthesizes \/ isAppSwitchKeyEventLocked(e))
           d == Decision(e, fresh, switchDue /\ ~synthesizes, "stale" \in due)
<1> DEFINE Effect(x) ==
              /\ nextUnblocked' = x.unblocked
              /\ wait' = x.wait
              /\ due' = due \ ((IF arrived THEN {"appSwitch"} ELSE {})
                               \cup (IF x.begins \/ ~x.waits THEN {"anr"} ELSE {})
                               \cup (IF x.asks THEN {"later"} ELSE {})
                               \cup (IF synthesizes \/ lastKey' # lastKey
                                     THEN {"repeat"} ELSE {})
                               \cup (IF x.waits THEN {} ELSE {"stale"}))
              /\ pending' = IF ~x.waits THEN NoEvent
                            ELSE IF x.asks THEN [e EXCEPT !.intercept = "UNKNOWN"]
                            ELSE e
              /\ x.waits => window' = window
              /\ thread' = CASE x.asks -> [pc |-> "policy", call |-> "intercept",
                                           id |-> e.id]
                             [] x.anr -> [pc |-> "policy", call |-> "anr",
                                          win |-> target, waited |-> x.wait.app]
                             [] e.type = "config" -> [pc |-> "policy", call |-> "config"]
                             [] OTHER -> [pc |-> IF x.waits THEN "sleep" ELSE "run"]
              /\ sleepOn' = (IF appSwitch THEN {"appSwitch"} ELSE {})
                            \cup (IF x.later THEN {"later"} ELSE {})
                            \cup (IF x.sends THEN {"anr"} ELSE {})
<1>1. /\ appSwitch' = (appSwitch /\ ~arrived)
      /\ Effect(d)
      /\ UNCHANGED <<mode, focus>>
  <2>1. \E x \in {d} : Effect(x)
    BY DEF dispatchPending
  <2>2. appSwitch' = (appSwitch /\ ~arrived) /\ UNCHANGED <<mode, focus>>
    BY DEF dispatchPending
  <2> HIDE DEF Effect, d
  <2> QED
    BY <2>1, <2>2
<1>2. e \in Events
  <2>1. CASE synthesizes
    <3>1. lastKey \in [code : Codes, pass : BOOLEAN, timer : BOOLEAN]
      BY <2>1 DEF dispatchPending, RepeatsKeys, InboundTypes
    <3> QED
      BY <2>1, <3>1, MadeEvents DEF synthesizeKeyRepeatLocked
  <2>2. CASE fresh /\ ~synthesizes
    BY <2>2 DEF InboundTypes
  <2>3. CASE ~fresh
    BY <2>3 DEF InboundTypes
  <2> QED
    BY <2>1, <2>2, <2>3
<1>3. LET found == FindTarget(e, IF fresh THEN NoWait ELSE wait)
      IN  /\ d.later <=> Later(e)
          /\ d.asks <=> Asks(e)
          /\ d.sends => Sends(e)
          /\ d.waits <=> \/ d.later \/ d.asks
                         \/ d.sends /\ found.result = "PENDING"
          /\ d.waits /\ d.sends => d.wait = found.wait
          /\ d.unblocked = UnblockedAfter(e)
  <2> DEFINE due1 == switchDue /\ ~synthesizes
             stale == "stale" \in due
  <2>1. fresh \in BOOLEAN /\ due1 \in BOOLEAN /\ stale \in BOOLEAN
    OBVIOUS
  <2>2. d = Decision(e, fresh, due1, stale)
    OBVIOUS
  <2> HIDE DEF fresh, due1, stale, e, d
  <2> QED
    BY <2>1, <2>2, DecisionParts
<1> HIDE DEF d, e, arrived, target
<1>4. SwitchDueIsPending'
  BY <1>1 DEF SwitchDueIsPending
<1>5. CASE Sleeps'
  <2>1. thread'.pc = "sleep"
    BY <1>5 DEF Sleeps
  <2>2. d.waits /\ ~d.asks
    <3> HIDE DEF fresh, switchDue, synthesizes
    <3> QED
      BY <1>1, <2>1
  <2>3. pending' = e /\ pending' # NoEvent /\ window' = window
    BY <1>1, <1>2, <2>2, EventsAreSome
  <2>4. ~Asks(e) /\ (Later(e) => "later" \in sleepOn')
    BY <1>1, <1>3, <2>2
  <2>5. Later(pending)' <=> Later(e)
    <3>1. ("later" \in due') <=> ("later" \in due)
      BY <1>1, <2>2
    <3> QED
      BY <2>3, <3>1 DEF Later
  <2>6. Asks(pending)' <=> Asks(e)
    BY <2>3, <2>5 DEF Asks
  <2>7. ASSUME ~Later(e)
        PROVE  /\ Sends(pending)'
               /\ "anr" \in sleepOn'
               /\ wait'.cause = "APPLICATION_NOT_READY"
               /\ FindTarget(pending, wait)'.result = "PENDING"
    <3> DEFINE w0 == IF fresh THEN NoWait ELSE wait
    <3>1. d.sends /\ FindTarget(e, w0).result = "PENDING"
             /\ wait' = FindTarget(e, w0).wait
      BY <1>1, <1>3, <2>2, <2>7
    <3>2. Sends(e) /\ nextUnblocked' = 0
      BY <1>1, <1>3, <3>1 DEF Sends
    <3>3. UnblockedAfter(pending)' = 0
      BY <3>2 DEF UnblockedAfter
    <3>4. Sends(pending)'
      BY <1>1, <2>3, <2>4, <2>5, <2>6, <2>7, <3>2, <3>3 DEF Sends
    <3> HIDE DEF w0
    <3>5. wait'.cause = "APPLICATION_NOT_READY"
      BY <3>1, TargetNotReady
    <3>6. FindTarget(e, wait').result = "PENDING"
      BY <3>1, LookAgain
    <3>7. ASSUME NEW f
          PROVE  FindTarget(f, wait)'.result = FindTarget(f, wait').result
      BY <1>1, <2>3 DEF FindTarget, handleTargetsNotReadyLocked, IsReady
    <3>8. FindTarget(pending, wait)'.result = "PENDING"
      BY <2>3, <3>6, <3>7
    <3> QED
      BY <1>1, <3>1, <3>4, <3>5, <3>8
  <2>8. appSwitch' => "appSwitch" \in sleepOn'
    BY <1>1
  <2> QED
    BY <1>4, <2>3, <2>4, <2>5, <2>6, <2>7, <2>8 DEF Covered
<1> QED
  BY <1>4, <1>5 DEF Covered

\* Every step of the dispatcher's thread keeps what it sleeps on covered.
LEMMA DispatcherCovered ==
    ASSUME InboundTypes, SwitchDueIsPending, Covered, Dispatcher, InboundTypes'
    PROVE  SwitchDueIsPending' /\ Covered'
<1>1. ASSUME dispatchNothing
      PROVE  SwitchDueIsPending' /\ Covered'
  <2>1. SwitchDueIsPending'
    BY <1>1 DEF dispatchNothing, SwitchDueIsPending
  <2>2. CASE mode.frozen
    <3>1. mode'.frozen
      BY <1>1, <2>2 DEF dispatchNothing, NotSettings
    <3> QED
      BY <2>1, <3>1, AwakeIsCovered
  <2>3. CASE ~mode.frozen
    BY <1>1, <2>1, <2>3 DEF dispatchNothing, Covered
  <2> QED
    BY <2>2, <2>3
<1>2. ASSUME thread'.pc = "run", due' \subseteq due, UNCHANGED appSwitch
      PROVE  SwitchDueIsPending' /\ Covered'
  BY <1>2, AwakeIsCovered DEF SwitchDueIsPending
<1>3. CASE pollOnceReturns
  BY <1>2, <1>3 DEF pollOnceReturns
<1>4. ASSUME NEW w \in Windows, handleReceiveCallback(w)
      PROVE  SwitchDueIsPending' /\ Covered'
  BY <1>2, <1>4 DEF handleReceiveCallback
<1>5. ASSUME NEW a, doInterceptKeyBeforeDispatching(a)
      PROVE  SwitchDueIsPending' /\ Covered'
  BY <1>2, <1>5 DEF doInterceptKeyBeforeDispatching, Unlocked
<1>6. ASSUME NEW g \in BOOLEAN, doNotifyANR(g)
      PROVE  SwitchDueIsPending' /\ Covered'
  BY <1>2, <1>6 DEF doNotifyANR, resumeAfterTargetsNotReadyTimeoutLocked, Unlocked
<1>7. CASE doNotifyConfigurationChanged
  BY <1>2, <1>7 DEF doNotifyConfigurationChanged, Unlocked
<1> QED
  BY <1>1, <1>3, <1>4, <1>5, <1>6, <1>7, DispatchCovered DEF Dispatcher

\* Whatever comes from outside wakes the thread if it matters to it.
LEMMA SourcesCovered ==
    ASSUME InboundTypes, SwitchDueIsPending, Covered, Reader \/ Inject
    PROVE  SwitchDueIsPending' /\ Covered'
<1>1. ASSUME UNCHANGED <<queue, pending, mode, focus, wait, due, appSwitch,
                         nextUnblocked, thread, sleepOn, wake, window>>
      PROVE  SwitchDueIsPending' /\ Covered'
  BY <1>1, CoveredUnchanged DEF SwitchDueIsPending
<1>2. ASSUME NEW k, NEW a, NEW meta, NEW pass, notifyKey(k, a, meta, pass)
      PROVE  SwitchDueIsPending' /\ Covered'
  BY <1>1, <1>2 DEF notifyKey, NotSettings, NotLoop
<1>3. ASSUME notifyKeyEnqueue \/ \E passes \in BOOLEAN : filterInputEvent(passes)
      PROVE  SwitchDueIsPending' /\ Covered'
  <2>1. /\ UNCHANGED <<pending, mode, focus, wait, thread, sleepOn, window>>
        /\ \/ UNCHANGED NotQueue
           \/ ReaderEnqueues
    BY <1>3, ReaderOutcomes DEF FilterConsumes
  <2>2. CASE UNCHANGED NotQueue
    BY <1>1, <2>1, <2>2 DEF NotQueue
  <2>3. CASE ReaderEnqueues
    <3> DEFINE e == [reader EXCEPT !.id = nextId]
    <3>1. enqueueInboundEventLocked(e)
      BY <2>3 DEF ReaderEnqueues
    <3> HIDE DEF e
    <3> QED
      BY <2>1, <3>1, EnqueueCovered
  <2> QED
    BY <2>1, <2>2, <2>3
<1>4. ASSUME NEW e, notifyOther(e)
      PROVE  SwitchDueIsPending' /\ Covered'
  <2>1. /\ UNCHANGED <<pending, mode, focus, wait, thread, sleepOn, window>>
        /\ UNCHANGED NotQueue \/ enqueueInboundEventLocked(e)
    BY <1>4, OtherOutcomes
  <2>2. CASE UNCHANGED NotQueue
    BY <1>1, <2>1, <2>2 DEF NotQueue
  <2> QED
    BY <2>1, <2>2, EnqueueCovered
<1>5. ASSUME NEW i, NEW e, NEW s, injectInputEvent(i, e, s)
      PROVE  SwitchDueIsPending' /\ Covered'
  BY <1>5, EnqueueCovered DEF injectInputEvent, NotSettings, NotLoop
<1>6. ASSUME NEW i, injectReturns(i)
      PROVE  SwitchDueIsPending' /\ Covered'
  BY <1>1, <1>6 DEF injectReturns, NotSettings, NotLoop
<1>7. CASE Reader
  BY <1>2, <1>3, <1>4, <1>7 DEF Reader
<1>8. CASE Inject
  BY <1>5, <1>6, <1>8 DEF Inject
<1> QED
  BY <1>7, <1>8

\* Every call of the window manager wakes the thread.
LEMMA WindowManagerWakes ==
    ASSUME SwitchDueIsPending, WindowManager
    PROVE  SwitchDueIsPending' /\ Covered'
<1>1. ASSUME NEW w, NEW paused, setInputWindows(w, paused)
      PROVE  wake' /\ due' \subseteq due /\ UNCHANGED appSwitch
  BY <1>1 DEF setInputWindows, Calls
<1>2. ASSUME NEW a, setFocusedApplication(a)
      PROVE  wake' /\ due' \subseteq due /\ UNCHANGED appSwitch
  BY <1>2 DEF setFocusedApplication, Calls
<1>3. ASSUME NEW enabled, NEW frozen, setInputDispatchMode(enabled, frozen)
      PROVE  wake' /\ due' \subseteq due /\ UNCHANGED appSwitch
  BY <1>3 DEF setInputDispatchMode, resetAndDropEverythingLocked, KeepsEverything, Calls
<1>4. ASSUME NEW enabled, setInputFilterEnabled(enabled)
      PROVE  wake' /\ due' \subseteq due /\ UNCHANGED appSwitch
  BY <1>4 DEF setInputFilterEnabled, resetAndDropEverythingLocked, Calls
<1>5. ASSUME NEW w, unregisterInputChannel(w)
      PROVE  wake' /\ due' \subseteq due /\ UNCHANGED appSwitch
  BY <1>5 DEF unregisterInputChannel, Calls
<1>6. wake' /\ due' \subseteq due /\ UNCHANGED appSwitch
  BY <1>1, <1>2, <1>3, <1>4, <1>5, Zenon DEF WindowManager
<1> QED
  BY <1>6, AwakeIsCovered DEF SwitchDueIsPending

\* WakeInv holds at first and every step preserves it.
LEMMA WakeInductive ==
    /\ Init => WakeInv
    /\ WakeInv /\ [Next]_vars => WakeInv'
<1>1. ASSUME Init PROVE WakeInv
  <2>1. (CHOOSE w \in Windows : TRUE) \in Windows
    BY InboundConstants
  <2>2. window \in WindowStates
    BY <1>1 DEF Init, WindowStates
  <2>3. InboundTypes
    BY <1>1, <2>1, <2>2 DEF Init, InboundTypes
  <2>4. SwitchDueIsPending /\ Covered
    BY <1>1 DEF Init, SwitchDueIsPending, Covered, Sleeps
  <2> QED
    BY <2>3, <2>4 DEF WakeInv
<1>2. ASSUME WakeInv, [Next]_vars PROVE WakeInv'
  <2>1. InboundTypes /\ SwitchDueIsPending /\ Covered /\ InboundTypes'
    BY <1>2, TypesInductive DEF WakeInv
  <2>2. CASE Dispatcher
    BY <2>1, <2>2, DispatcherCovered DEF WakeInv
  <2>3. CASE Reader \/ Inject
    BY <2>1, <2>3, SourcesCovered DEF WakeInv
  <2>4. CASE WindowManager
    BY <2>1, <2>4, WindowManagerWakes DEF WakeInv
  <2>5. ASSUME NEW t, timePasses(t) PROVE WakeInv'
    BY <2>1, <2>5, TimeCovered DEF WakeInv
  <2>6. ASSUME NEW w \in Windows, windowSlow(w) PROVE WakeInv'
    <3>1. SwitchDueIsPending'
      BY <2>1, <2>6 DEF windowSlow, SwitchDueIsPending
    <3> QED
      BY <2>1, <2>6, <3>1, SlowCovered DEF WakeInv
  <2>7. CASE UNCHANGED vars
    <3>1. SwitchDueIsPending' /\ Covered'
      BY <2>1, <2>7, CoveredUnchanged DEF vars, SwitchDueIsPending
    <3> QED
      BY <2>1, <3>1 DEF WakeInv
  <2> QED
    BY <1>2, <2>2, <2>3, <2>4, <2>5, <2>6, <2>7 DEF Next, Step
<1> QED
  BY <1>1, <1>2

\* Covered is what NoMissedWake promises: every deadline and every change that
\* another look at the pending event could react to is slept on or wakes.
LEMMA CoveredSuffices == WakeInv => NoMissedWake
<1> SUFFICES ASSUME WakeInv, Sleeps PROVE
       IF pending = NoEvent THEN queue = <<>>
       ELSE LET d == Decision(pending, FALSE, "appSwitch" \in due, FALSE)
            IN  d.waits /\ ~d.asks /\ ~d.begins /\ ~d.anr
  BY Zenon DEF NoMissedWake, Sleeps
<1>1. CASE pending = NoEvent
  BY <1>1 DEF WakeInv, Covered
<1>2. CASE pending # NoEvent
  <2> DEFINE no == FALSE
             switchDue == "appSwitch" \in due
             d == Decision(pending, no, switchDue, no)
             found == FindTarget(pending, IF no THEN NoWait ELSE wait)
  <2>1. ~switchDue /\ ~no
    BY DEF WakeInv, Covered, SwitchDueIsPending, Sleeps
  <2>2. found = FindTarget(pending, wait)
    BY Zenon
  <2>3. no \in BOOLEAN /\ switchDue \in BOOLEAN
    OBVIOUS
  <2> HIDE DEF no, switchDue
  <2>4. /\ d.later <=> Later(pending)
        /\ d.asks <=> Asks(pending)
        /\ d.sends <=> Sends(pending)
        /\ d.waits <=> d.later \/ d.asks \/ (d.sends /\ found.result = "PENDING")
        /\ d.begins <=> d.sends /\ found.begins
        /\ d.anr <=> d.sends /\ found.anr
    BY <2>1, <2>3, DecisionParts
  <2> HIDE DEF d, found
  <2>5. d.waits /\ ~d.asks /\ ~d.begins /\ ~d.anr
    <3>1. CASE Later(pending)
      BY <1>2, <2>4, <3>1 DEF WakeInv, Covered, Sends
    <3>2. CASE ~Later(pending)
      <4>1. /\ found.result = "PENDING" /\ wait.cause = "APPLICATION_NOT_READY"
            /\ Sends(pending) /\ ~Asks(pending) /\ "anr" \in sleepOn
        BY <1>2, <2>2, <3>2 DEF WakeInv, Covered
      <4>2. "anr" \notin due
        BY <4>1 DEF Sleeps
      <4>3. ~found.begins /\ ~found.anr
        BY <2>2, <4>1, <4>2, TargetNotReady
      <4> QED
        BY <2>4, <4>1, <4>3
    <3> QED
      BY <3>1, <3>2
  <2> QED
    BY <1>2, <2>5, Zenon DEF d, no, switchDue
<1> QED
  BY <1>1, <1>2

\* The dispatcher's thread never sleeps on work: an event, a deadline, a focus
\* or mode change that comes while it is in pollOnce wakes it (the wake calls of
\* notifyKey, injectInputEvent and the window manager's setters, and the timeout
\* that dispatchOnceInnerLocked leaves for pollOnce).
THEOREM ThreadWakesForWork == Spec => []NoMissedWake
<1>1. Init => WakeInv
  BY WakeInductive
<1>2. WakeInv /\ [Next]_vars => WakeInv'
  BY WakeInductive
<1>3. WakeInv => NoMissedWake
  BY CoveredSuffices
<1> QED
  BY <1>1, <1>2, <1>3, PTL DEF Spec

-----------------------------------------------------------------------------
(* Keys *)

\* Where the code keeps the stream of keys consistent.  A device reset forgets
\* the keys that are down but not their repeat, and a reset of the dispatcher
\* forgets which key META replaced.
StreamKept ==
    \A n \in DOMAIN Configurations : LET c == Configurations[n] IN
       /\ "reset" \notin c.inputs
       /\ Replaced \notin c.keys \/ c.settings \cap {"mode", "filter"} = {}

About(e, c) == e # NoEvent /\ e.type = "key" /\ e.code = c
Presses(e, c) == About(e, c) /\ e.action = "DOWN"

\* An event about c is queued behind the i-th, or will be.
ToCome(i, c) ==
    \/ About(reader, c)
    \/ \E j \in 1..Len(queue) : j > i /\ About(queue[j], c)

\* The user holds a key that was sent as c, or the filter consumed its release.
Held(c) == \E k \in Keys : sent[k] = c
Accounted(c) == c \in swallowed \/ Held(c)

\* A window, or key repeat, believes that c is down.
Believed(c) ==
    \/ \E w \in Windows : c \in window[w].down
    \/ lastKey # NoKey /\ lastKey.code = c

\* The last word about a key, in the stream or in the windows, is true. A press
\* that the reader is about to queue is of a key that is still held.
ReaderHonest == \A c \in Codes : About(reader, c) /\ reader.action # "UP" => Held(c)
QueueHonest ==
    \A i \in 1..Len(queue), c \in Codes :
       Presses(queue[i], c) /\ ~ToCome(i, c) => Accounted(c)
FrontHonest ==
    \A c \in Codes :
       /\ ~ToCome(0, c)
       /\ Presses(pending, c) \/ (Believed(c) /\ ~About(pending, c))
       => Accounted(c)

\* A key goes up with the code that it went down with.
CodesMatch ==
    /\ sent \in [Keys -> Codes \cup {NONE}]
    /\ \A k \in Keys :
          sent[k] \in {NONE, IF k = Replaced /\ replacedKeys THEN Replacement ELSE k}
    /\ Replaced \in Keys /\ replacedKeys => sent[Replaced] # NONE

\* A release that is pending has ended the repeat.
RepeatEnds ==
    pending # NoEvent /\ pending.type = "key" /\ pending.action # "DOWN" =>
       lastKey = NoKey

\* Only the window that has the focus holds keys.
FocusHolds == \A w \in Windows : w # focus.win => window[w].down = {}

\* Once a key is given up, or is about to be, no (other) window holds keys.
GivenUp ==
    pending # NoEvent /\ pending.type = "key" =>
       /\ wait.expired => \A w \in Windows : window[w].down = {}
       /\ thread.pc = "policy" /\ thread.call = "anr" =>
             \A w \in Windows : w # thread.win => window[w].down = {}

\* Nobody injects.
Uninjected ==
    /\ \A e \in {pending, reader} : e # NoEvent => e.injector = NONE
    /\ \A i \in 1..Len(queue) : queue[i].injector = NONE

WaitShape == wait = [cause |-> wait.cause, app |-> wait.app, expired |-> wait.expired]

KeyParts ==
    /\ ReaderHonest /\ QueueHonest /\ FrontHonest
    /\ CodesMatch /\ RepeatEnds /\ FocusHolds /\ GivenUp
    /\ Uninjected /\ WaitShape

KeyInv == InboundTypes /\ (It.injectors = {} => KeyParts)

\* A step that leaves the stream alone, and lets windows and key repeat believe
\* in fewer keys, keeps the last word true.
LEMMA LessBelieved ==
    ASSUME InboundTypes, KeyParts, InboundTypes',
           UNCHANGED <<queue, reader, sent, swallowed, replacedKeys, conf>>,
           (pending' = NoEvent) <=> (pending = NoEvent),
           pending # NoEvent => /\ pending'.type = pending.type
                                /\ pending'.code = pending.code
                                /\ pending'.action = pending.action
                                /\ pending'.injector = pending.injector,
           \A w \in Windows : window'[w].down \subseteq window[w].down,
           lastKey' \in {lastKey, NoKey}
    PROVE  /\ ReaderHonest' /\ QueueHonest' /\ FrontHonest'
           /\ CodesMatch' /\ RepeatEnds' /\ Uninjected'
<1> USE DEF KeyParts
<1>1. Keys' = Keys
  BY DEF Keys, It
<1>2. \A c \in Codes : /\ Held(c)' <=> Held(c)
                       /\ Accounted(c)' <=> Accounted(c)
                       /\ About(reader, c)' <=> About(reader, c)
                       /\ About(pending, c)' <=> About(pending, c)
                       /\ Presses(pending, c)' <=> Presses(pending, c)
                       /\ Believed(c)' => Believed(c)
  BY <1>1 DEF Held, Accounted, About, Presses, Believed
<1>3. ASSUME NEW i \in Nat, NEW c \in Codes
      PROVE  ToCome(i, c)' <=> ToCome(i, c)
  BY DEF ToCome, About
<1>4. ReaderHonest'
  BY <1>2 DEF ReaderHonest
<1>5. QueueHonest'
  <2>1. ASSUME NEW i \in 1..Len(queue), NEW c \in Codes
        PROVE  Presses(queue[i], c)' <=> Presses(queue[i], c)
    BY DEF Presses, About
  <2> QED
    BY <1>2, <1>3, <2>1 DEF QueueHonest
<1>6. FrontHonest'
  BY <1>2, <1>3 DEF FrontHonest
<1>7. CodesMatch'
  BY <1>1 DEF CodesMatch
<1>8. RepeatEnds'
  BY DEF RepeatEnds
<1>9. Uninjected'
  BY DEF Uninjected
<1> QED
  BY <1>4, <1>5, <1>6, <1>7, <1>8, <1>9

\* ... and, with the focus and the wait as they were, all of KeyParts.
LEMMA LessBelievedParts ==
    ASSUME InboundTypes, KeyParts, InboundTypes',
           UNCHANGED <<queue, reader, sent, swallowed, replacedKeys, conf>>,
           (pending' = NoEvent) <=> (pending = NoEvent),
           pending # NoEvent => /\ pending'.type = pending.type
                                /\ pending'.code = pending.code
                                /\ pending'.action = pending.action
                                /\ pending'.injector = pending.injector,
           \A w \in Windows : window'[w].down \subseteq window[w].down,
           lastKey' \in {lastKey, NoKey},
           focus'.win = focus.win, WaitShape', wait'.expired => wait.expired,
           thread' = thread \/ thread'.pc # "policy"
    PROVE  KeyParts'
<1>1. /\ ReaderHonest' /\ QueueHonest' /\ FrontHonest'
      /\ CodesMatch' /\ RepeatEnds' /\ Uninjected'
  BY LessBelieved
<1>2. FocusHolds'
  BY DEF FocusHolds, KeyParts
<1>3. GivenUp'
  BY DEF GivenUp, KeyParts
<1> QED
  BY <1>1, <1>2, <1>3 DEF KeyParts

\* What the reader holds becomes the last of the queue.
LEMMA EnqueueKeys ==
    ASSUME InboundTypes, KeyParts, NEW e \in Events, e.injector = NONE,
           queue' = Append(queue, e), reader' = NoEvent,
           \A c \in Codes : /\ About(e, c) <=> About(reader, c)
                            /\ Presses(e, c) <=> Presses(reader, c),
           swallowed' = IF e.type = "key" /\ e.action = "DOWN"
                        THEN swallowed \ {e.code} ELSE swallowed,
           UNCHANGED <<pending, mode, focus, wait, lastKey, replacedKeys, thread,
                       sent, window, conf>>
    PROVE  KeyParts'
<1> USE DEF KeyParts
<1> DEFINE n == Len(queue)
<1>1. /\ n \in Nat /\ Len(queue') = n + 1
      /\ \A i \in 1..n : queue'[i] = queue[i]
      /\ queue'[n + 1] = e
  BY DEF InboundTypes
<1>2. Keys' = Keys
  BY DEF Keys, It
<1>3. \A c \in Codes : /\ Accounted(c) => Accounted(c)'
                       /\ About(pending, c)' <=> About(pending, c)
                       /\ Presses(pending, c)' <=> Presses(pending, c)
                       /\ Believed(c)' <=> Believed(c)
                       /\ ~About(reader, c)'
  <2>1. ASSUME NEW c \in Codes, Accounted(c)
        PROVE  Accounted(c)'
    <3>1. CASE Held(c)
      BY <1>2, <3>1 DEF Held, Accounted
    <3>2. CASE c \in swallowed'
      BY <3>2 DEF Accounted
    <3>3. CASE c \in swallowed /\ c \notin swallowed'
      <4>1. Presses(e, c)
        BY <3>3, EventsAreSome DEF Presses, About
      <4>2. Held(c)
        BY <4>1 DEF ReaderHonest, Presses
      <4> QED
        BY <3>1, <4>2
    <3> QED
      BY <2>1, <3>1, <3>2, <3>3 DEF Accounted
  <2> QED
    BY <2>1 DEF About, Presses, Believed
<1>4. \A i \in 1..n, c \in Codes : /\ About(queue[i], c)' <=> About(queue[i], c)
                                   /\ Presses(queue[i], c)' <=> Presses(queue[i], c)
  BY <1>1 DEF About, Presses
<1>5. \A c \in Codes : /\ About(queue'[n + 1], c) <=> About(reader, c)
                       /\ Presses(queue'[n + 1], c) <=> Presses(reader, c)
  BY <1>1
<1>6. ASSUME NEW i \in 0..n, NEW c \in Codes, ~ToCome(i, c)'
      PROVE  ~ToCome(i, c)
  <2>1. \A j \in 1..(n + 1) : j > i => ~About(queue'[j], c)
    BY <1>1, <1>6 DEF ToCome, About
  <2>2. ~About(reader, c)
    BY <1>1, <1>5, <2>1
  <2>3. \A j \in 1..n : j > i => ~About(queue[j], c)
    BY <1>1, <2>1
  <2> QED
    BY <2>2, <2>3 DEF ToCome
<1>7. ReaderHonest'
  BY <1>3 DEF ReaderHonest
<1>8. QueueHonest'
  <2> SUFFICES ASSUME NEW i \in 1..(n + 1), NEW c \in Codes,
                      Presses(queue[i], c)', ~ToCome(i, c)'
               PROVE  Accounted(c)
    BY <1>1, <1>3 DEF QueueHonest
  <2>1. CASE i \in 1..n
    <3>1. Presses(queue[i], c)
      BY <1>4, <2>1
    <3>2. ~ToCome(i, c)
      BY <1>1, <1>6, <2>1
    <3> QED
      BY <2>1, <3>1, <3>2 DEF QueueHonest
  <2>2. CASE i = n + 1
    <3>1. Presses(queue'[n + 1], c)
      BY <2>2 DEF Presses, About
    <3>2. Held(c)
      BY <1>5, <3>1 DEF ReaderHonest, Presses
    <3> QED
      BY <3>2 DEF Accounted
  <2> QED
    BY <1>1, <2>1, <2>2
<1>9. FrontHonest'
  <2>1. \A c \in Codes : ~ToCome(0, c)' => ~ToCome(0, c)
    BY <1>1, <1>6
  <2> QED
    BY <1>3, <2>1 DEF FrontHonest
<1>10. CodesMatch' /\ RepeatEnds' /\ FocusHolds' /\ GivenUp' /\ WaitShape'
  BY <1>2 DEF CodesMatch, RepeatEnds, FocusHolds, GivenUp, WaitShape
<1>11. Uninjected'
  BY <1>1 DEF Uninjected
<1> QED
  BY <1>7, <1>8, <1>9, <1>10, <1>11

\* notifyKey: a press is held from now on, and a release, which has the code of
\* its press, is the last word about it.
LEMMA NotifyKeyKeys ==
    ASSUME InboundTypes, KeyParts, NEW k \in Keys, NEW a \in {"DOWN", "UP"},
           NEW meta \in BOOLEAN, NEW pass \in Passes, meta => k = Replaced,
           notifyKey(k, a, meta, pass), UNCHANGED conf
    PROVE  KeyParts'
<1> USE DEF KeyParts
<1> DEFINE replaces == a = "DOWN" /\ meta /\ k = Replaced
           restores == a = "UP" /\ k = Replaced /\ replacedKeys
           code == IF replaces \/ restores THEN Replacement ELSE k
<1>1. /\ reader = NoEvent
      /\ (a = "DOWN") = (sent[k] = NONE)
      /\ reader' = Event("key", code, a, pass, NONE)
      /\ sent' = [sent EXCEPT ![k] = IF a = "DOWN" THEN code ELSE NONE]
      /\ replacedKeys' = (replaces \/ (replacedKeys /\ ~restores))
      /\ UNCHANGED <<queue, pending, mode, focus, wait, lastKey, thread, window,
                     swallowed>>
  BY DEF notifyKey, RestoresReplaced, NotSettings, NotLoop
<1>2. Keys' = Keys /\ Keys \subseteq KeyCodes
  BY KnownConfiguration DEF Keys, It, InboundTypes
<1>3. NONE \notin KeyCodes /\ NONE \notin Windows /\ NONE # Replacement
  BY InboundConstants
<1>4. sent \in [Keys -> Codes \cup {NONE}] /\ code \in Codes
  BY <1>2 DEF CodesMatch, Codes
<1>5. a = "UP" => sent[k] = code
  BY <1>1 DEF CodesMatch
<1>6. /\ reader' # NoEvent /\ reader'.type = "key" /\ reader'.code = code
      /\ reader'.action = a /\ reader'.injector = NONE
  <2>1. /\ reader'.type = "key" /\ reader'.code = code
        /\ reader'.action = a /\ reader'.injector = NONE /\ reader'.id = nextId
    <3> HIDE DEF code
    <3> QED
      BY <1>1 DEF Event
  <2>2. nextId # 0 /\ NoEvent.id = 0
    BY DEF InboundTypes, NoEvent
  <2> QED
    BY <2>1, <2>2
<1>7. \A c \in Codes : /\ About(reader, c)' <=> c = code
                       /\ reader'.action = a
  <2> HIDE DEF code
  <2> QED
    BY <1>6 DEF About
<1>8. \A c \in Codes : c # code /\ Accounted(c) => Accounted(c)'
  <2> SUFFICES ASSUME NEW c \in Codes, c # code, Accounted(c) PROVE Accounted(c)'
    OBVIOUS
  <2>1. CASE c \in swallowed
    BY <1>1, <2>1 DEF Accounted
  <2>2. ASSUME NEW h \in Keys, sent[h] = c
        PROVE  Accounted(c)'
    <3>1. CASE h # k
      BY <1>1, <1>2, <1>4, <2>2, <3>1 DEF Accounted, Held
    <3>2. CASE h = k /\ a = "DOWN"
      BY <1>1, <1>3, <2>2, <3>2 DEF Codes
    <3> QED
      BY <1>5, <2>2, <3>1, <3>2
  <2> QED
    BY <2>1, <2>2 DEF Accounted, Held
<1>9. a = "DOWN" => Held(code)'
  BY <1>1, <1>2, <1>4 DEF Held
<1>10. ASSUME NEW i \in Nat, NEW c \in Codes, ~ToCome(i, c)'
       PROVE  ~ToCome(i, c) /\ c # code
  <2>1. c # code
    BY <1>7, <1>10 DEF ToCome
  <2>2. ~About(reader, c)
    BY <1>1 DEF About
  <2>3. \A j \in 1..Len(queue) : j > i => ~About(queue[j], c)
    BY <1>1, <1>10 DEF ToCome, About
  <2> QED
    BY <2>1, <2>2, <2>3 DEF ToCome
<1>11. ReaderHonest'
  BY <1>7, <1>9 DEF ReaderHonest
<1>12. QueueHonest'
  <2> SUFFICES ASSUME NEW i \in 1..Len(queue), NEW c \in Codes,
                      Presses(queue[i], c)', ~ToCome(i, c)'
               PROVE  Accounted(c)'
    BY <1>1 DEF QueueHonest
  <2>1. Presses(queue[i], c)
    BY <1>1 DEF Presses, About
  <2> QED
    BY <1>8, <1>10, <2>1 DEF QueueHonest
<1>13. FrontHonest'
  <2>1. \A c \in Codes : /\ About(pending, c)' <=> About(pending, c)
                         /\ Presses(pending, c)' <=> Presses(pending, c)
                         /\ Believed(c)' <=> Believed(c)
    BY <1>1 DEF About, Presses, Believed
  <2>2. \A c \in Codes : ~ToCome(0, c)' => ~ToCome(0, c) /\ c # code
    BY <1>10
  <2> HIDE DEF code
  <2> QED
    BY <1>8, <2>1, <2>2 DEF FrontHonest
<1>14. CodesMatch'
  <2>1. sent' \in [Keys' -> Codes \cup {NONE}]
    BY <1>1, <1>2, <1>4
  <2>2. ASSUME NEW h \in Keys
        PROVE  sent'[h] \in {NONE, IF h = Replaced /\ replacedKeys'
                                   THEN Replacement ELSE h}
    <3>1. CASE h # k
      BY <1>1, <1>4, <3>1 DEF CodesMatch
    <3>2. CASE h = k
      BY <1>1, <1>4, <3>2 DEF CodesMatch
    <3> QED
      BY <3>1, <3>2
  <2>3. Replaced \in Keys /\ replacedKeys' => sent'[Replaced] # NONE
    BY <1>1, <1>3, <1>4 DEF CodesMatch, Codes
  <2> QED
    BY <1>2, <2>1, <2>2, <2>3 DEF CodesMatch
<1>15. RepeatEnds' /\ FocusHolds' /\ GivenUp' /\ WaitShape'
  BY <1>1 DEF RepeatEnds, FocusHolds, GivenUp, WaitShape
<1>16. Uninjected'
  BY <1>1, <1>6 DEF Uninjected
<1> QED
  BY <1>11, <1>12, <1>13, <1>14, <1>15, <1>16

\* resetAndDropEverythingLocked empties the stream and takes all keys up.
LEMMA ResetKeys ==
    ASSUME InboundTypes, KeyParts, resetAndDropEverythingLocked, Replaced \notin Keys,
           UNCHANGED <<focus, thread, reader, sent, swallowed, conf>>
    PROVE  KeyParts'
<1> USE DEF KeyParts
<1>1. /\ lastKey' = NoKey /\ pending' = NoEvent /\ queue' = <<>> /\ wait' = NoWait
      /\ window' = AllKeysUp(window)
  BY DEF resetAndDropEverythingLocked
<1>2. \A w \in Windows : window'[w].down = {}
  BY <1>1 DEF AllKeysUp, InboundTypes, WindowStates
<1>3. Keys' = Keys
  BY DEF Keys, It
<1>4. \A c \in Codes : /\ ~Believed(c)' /\ ~Presses(pending, c)'
                       /\ Accounted(c)' <=> Accounted(c)
                       /\ Presses(reader, c)' <=> Presses(reader, c)
  BY <1>1, <1>2, <1>3 DEF Believed, Presses, About, Accounted, Held
<1>5. ReaderHonest' /\ QueueHonest' /\ FrontHonest'
  <2>1. ReaderHonest'
    BY <1>3 DEF ReaderHonest, About, Held
  <2> QED
    BY <1>1, <1>4, <2>1 DEF QueueHonest, FrontHonest
<1>6. CodesMatch'
  BY <1>3 DEF CodesMatch
<1>7. RepeatEnds' /\ FocusHolds' /\ GivenUp'
  BY <1>1, <1>2 DEF RepeatEnds, FocusHolds, GivenUp
<1>8. WaitShape'
  BY <1>1 DEF WaitShape, NoWait
<1>9. Uninjected'
  BY <1>1, <1>4 DEF Uninjected
<1> QED
  BY <1>5, <1>6, <1>7, <1>8, <1>9

\* The event that a pass takes is the next of the stream, or repeats a key.
Takes(e) ==
    \/ pending # NoEvent /\ e = pending /\ queue' = queue
    \/ pending = NoEvent /\ queue # <<>> /\ e = Head(queue) /\ queue' = Tail(queue)
    \/ /\ pending = NoEvent /\ queue = <<>> /\ queue' = <<>>
       /\ lastKey # NoKey /\ e.type = "key" /\ e.code = lastKey.code
       /\ e.action = "DOWN" /\ e.injector = NONE

\* Whatever a pass does with the event it takes, the last word stays true if a
\* press is all that makes a window or key repeat believe in a key, and if a
\* release that is done with leaves nobody who does.
LEMMA TakeKeys ==
    ASSUME InboundTypes, KeyParts, NEW e \in Events, Takes(e),
           UNCHANGED <<reader, sent, swallowed, replacedKeys, conf, mode>>,
           \/ pending' = NoEvent
           \/ /\ pending' # NoEvent /\ pending'.type = e.type /\ pending'.code = e.code
              /\ pending'.action = e.action /\ pending'.injector = e.injector,
           \/ lastKey' \in {lastKey, NoKey}
           \/ e.type = "key" /\ e.action = "DOWN" /\ lastKey'.code = e.code,
           e.type = "key" /\ e.action # "DOWN" => lastKey' = NoKey,
           \A w \in Windows : window'[w].down \subseteq window[w].down \cup
              IF e.type = "key" /\ e.action = "DOWN" THEN {e.code} ELSE {},
           e.type = "key" /\ e.action # "DOWN" /\ pending' = NoEvent =>
              \A w \in Windows : e.code \notin window'[w].down
    PROVE  /\ ReaderHonest' /\ QueueHonest' /\ FrontHonest'
           /\ CodesMatch' /\ RepeatEnds' /\ Uninjected'
<1> USE DEF KeyParts
<1>1. Keys' = Keys
  BY DEF Keys, It
<1>2. e # NoEvent
  BY EventsAreSome
<1>3. \A c \in Codes : /\ Accounted(c)' <=> Accounted(c)
                       /\ Held(c)' <=> Held(c)
                       /\ About(reader, c)' <=> About(reader, c)
                       /\ About(pending, c)' => About(e, c)
                       /\ Presses(pending, c)' => Presses(e, c)
                       /\ pending' # NoEvent => (About(e, c) => About(pending, c)')
                       /\ Believed(c)' => Believed(c) \/ Presses(e, c)
  BY <1>1, <1>2 DEF Accounted, Held, About, Presses, Believed
<1>4. ASSUME NEW c \in Codes, ~ToCome(0, c)', ~About(e, c)
      PROVE  ~ToCome(0, c) /\ ~About(pending, c)
  <2>1. CASE pending # NoEvent /\ e = pending /\ queue' = queue
    BY <1>4, <2>1 DEF ToCome, About
  <2>2. CASE pending = NoEvent /\ queue # <<>> /\ e = Head(queue) /\ queue' = Tail(queue)
    <3>1. Len(queue) \in Nat /\ Len(queue') = Len(queue) - 1 /\ queue[1] = e
             /\ \A j \in 1..Len(queue') : queue'[j] = queue[j + 1]
      BY <2>2 DEF InboundTypes
    <3>2. ~About(reader, c) /\ \A j \in 1..Len(queue') : ~About(queue'[j], c)
      BY <1>4 DEF ToCome, About
    <3>3. \A j \in 1..Len(queue) : ~About(queue[j], c)
      <4> SUFFICES ASSUME NEW j \in 1..Len(queue) PROVE ~About(queue[j], c)
        OBVIOUS
      <4>1. CASE j = 1
        BY <1>4, <3>1, <4>1
      <4>2. CASE j # 1
        <5>1. j - 1 \in 1..Len(queue') /\ queue'[j - 1] = queue[(j - 1) + 1]
          BY <3>1, <4>2
        <5>2. (j - 1) + 1 = j
          BY <3>1
        <5> QED
          BY <3>2, <5>1, <5>2
      <4> QED
        BY <4>1, <4>2
    <3> QED
      BY <2>2, <3>2, <3>3 DEF ToCome, About
  <2>3. CASE pending = NoEvent /\ queue = <<>> /\ queue' = <<>>
    BY <1>4, <2>3 DEF ToCome, About
  <2> QED
    BY <2>1, <2>2, <2>3 DEF Takes
<1>5. ASSUME NEW c \in Codes, ~ToCome(0, c)', Presses(e, c)
      PROVE  Accounted(c)
  <2>1. CASE pending # NoEvent /\ e = pending /\ queue' = queue
    <3>1. ~ToCome(0, c)
      BY <1>5, <2>1 DEF ToCome, About
    <3> QED
      BY <1>5, <2>1, <3>1 DEF FrontHonest
  <2>2. CASE pending = NoEvent /\ queue # <<>> /\ e = Head(queue) /\ queue' = Tail(queue)
    <3>1. Len(queue) \in Nat /\ Len(queue') = Len(queue) - 1 /\ queue[1] = e
             /\ \A j \in 1..Len(queue') : queue'[j] = queue[j + 1]
      BY <2>2 DEF InboundTypes
    <3>2. ~About(reader, c) /\ \A j \in 1..Len(queue') : ~About(queue'[j], c)
      BY <1>5 DEF ToCome, About
    <3>3. ASSUME NEW j \in 1..Len(queue), j > 1 PROVE ~About(queue[j], c)
      <4>1. j - 1 \in 1..Len(queue') /\ queue'[j - 1] = queue[(j - 1) + 1]
        BY <3>1, <3>3
      <4>2. (j - 1) + 1 = j
        BY <3>1
      <4> QED
        BY <3>2, <4>1, <4>2
    <3>4. ~ToCome(1, c) /\ 1 \in 1..Len(queue)
      BY <2>2, <3>1, <3>2, <3>3 DEF ToCome, InboundTypes
    <3> QED
      BY <1>5, <3>1, <3>4 DEF QueueHonest
  <2>3. CASE /\ pending = NoEvent /\ queue = <<>> /\ queue' = <<>>
             /\ lastKey # NoKey /\ e.code = lastKey.code
    <3>1. ~ToCome(0, c) /\ ~About(pending, c) /\ Believed(c)
      BY <1>5, <2>3 DEF ToCome, About, Presses, Believed
    <3> QED
      BY <3>1 DEF FrontHonest
  <2> QED
    BY <2>1, <2>2, <2>3 DEF Takes
<1>6. ReaderHonest'
  BY <1>3 DEF ReaderHonest
<1>7. QueueHonest'
  <2>1. CASE queue' = queue
    BY <1>3, <2>1 DEF QueueHonest, ToCome, Presses, About
  <2>2. CASE queue # <<>> /\ queue' = Tail(queue)
    <3>1. Len(queue) \in Nat /\ Len(queue') = Len(queue) - 1
             /\ \A j \in 1..Len(queue') : queue'[j] = queue[j + 1]
      BY <2>2 DEF InboundTypes
    <3> SUFFICES ASSUME NEW i \in 1..Len(queue'), NEW c \in Codes,
                        Presses(queue'[i], c), ~ToCome(i, c)'
                 PROVE  Accounted(c)
      BY <1>3 DEF QueueHonest, Presses, About
    <3>2. ~About(reader, c)
             /\ \A j \in 1..Len(queue') : j > i => ~About(queue'[j], c)
      BY DEF ToCome, About
    <3>3. ASSUME NEW j \in 1..Len(queue), j > i + 1 PROVE ~About(queue[j], c)
      <4>1. j - 1 \in 1..Len(queue') /\ j - 1 > i
               /\ queue'[j - 1] = queue[(j - 1) + 1]
        BY <3>1, <3>3
      <4>2. (j - 1) + 1 = j
        BY <3>1
      <4> QED
        BY <3>2, <4>1, <4>2
    <3>4. ~ToCome(i + 1, c)
      BY <3>2, <3>3 DEF ToCome
    <3>5. i + 1 \in 1..Len(queue) /\ Presses(queue[i + 1], c)
      BY <3>1
    <3> QED
      BY <3>4, <3>5 DEF QueueHonest
  <2> QED
    BY <2>1, <2>2 DEF Takes
<1>8. FrontHonest'
  <2> SUFFICES ASSUME NEW c \in Codes, ~ToCome(0, c)',
                      Presses(pending, c)' \/ (Believed(c)' /\ ~About(pending, c)')
               PROVE  Accounted(c)
    BY <1>3 DEF FrontHonest
  <2>1. CASE Presses(e, c)
    BY <1>5, <2>1
  <2>2. CASE ~About(e, c)
    <3>1. Believed(c)
      BY <1>3, <2>2 DEF Presses
    <3> QED
      BY <1>4, <2>2, <3>1 DEF FrontHonest
  <2>3. CASE About(e, c) /\ ~Presses(e, c)
    <3>1. e.type = "key" /\ e.action # "DOWN" /\ e.code = c
      BY <2>3 DEF About, Presses
    <3>2. pending' = NoEvent /\ Believed(c)'
      BY <1>3, <2>3
    <3> QED
      BY <3>1, <3>2 DEF Believed
  <2> QED
    BY <2>1, <2>2, <2>3
<1>9. CodesMatch'
  BY <1>1 DEF CodesMatch
<1>10. RepeatEnds'
  BY DEF RepeatEnds
<1>11. Uninjected'
  <2>1. e.injector = NONE
    BY DEF Uninjected, Takes, InboundTypes
  <2>2. \A i \in 1..Len(queue') : queue'[i].injector = NONE
    <3>1. CASE queue' = queue
      BY <3>1 DEF Uninjected
    <3>2. CASE queue # <<>> /\ queue' = Tail(queue)
      <4>1. \A i \in 1..Len(queue') : /\ queue'[i] = queue[i + 1]
                                      /\ i + 1 \in 1..Len(queue)
        BY <3>2 DEF InboundTypes
      <4> QED
        BY <4>1 DEF Uninjected
    <3> QED
      BY <3>1, <3>2 DEF Takes
  <2>3. \A f \in {pending', reader'} : f # NoEvent => f.injector = NONE
    BY <2>1 DEF Uninjected
  <2> QED
    BY <2>2, <2>3 DEF Uninjected
<1> QED
  BY <1>6, <1>7, <1>8, <1>9, <1>10, <1>11

\* An event that is neither dropped nor left pending was sent to its target, and
\* its result is what the search for the target found; one that is dropped has
\* a result too.
LEMMA DecisionResult ==
    ASSUME NEW e, NEW fresh \in BOOLEAN, NEW switchDue \in BOOLEAN,
           NEW stale \in BOOLEAN
    PROVE  LET d == Decision(e, fresh, switchDue, stale)
               found == FindTarget(e, IF fresh THEN NoWait ELSE wait)
           IN  /\ e.type \in {"key", "touch"} /\ ~d.waits /\ d.drop = NONE =>
                     d.sends /\ d.result = found.result /\ found.result # "PENDING"
               /\ d.waits => \/ d.wait = IF fresh THEN NoWait ELSE wait
                             \/ d.sends /\ d.wait = found.wait
               /\ d.drop # NONE => ~d.sends /\ d.result \in {"SUCCEEDED", "FAILED"}
<1> DEFINE unblocked == UnblockedAfter(e)
           reason == DropReason(e, switchDue, unblocked, stale)
           later == e.intercept = "LATER" /\ "later" \notin due
           asks == e.type = "key" /\ e.pass /\ ~later
                      /\ e.intercept \in {"UNKNOWN", "LATER"}
           drop == IF reason = NONE /\ e.intercept = "SKIP" THEN "POLICY" ELSE reason
           sends == e.type \in {"key", "touch"} /\ ~later /\ ~asks /\ drop = NONE
           w0 == IF fresh THEN NoWait ELSE wait
           found == FindTarget(e, w0)
           waits == later \/ asks \/ (sends /\ found.result = "PENDING")
           begins == sends /\ found.begins
           anr == sends /\ found.anr
           w1 == IF ~waits THEN NoWait ELSE IF sends THEN found.wait ELSE w0
           result == IF drop = "POLICY" THEN "SUCCEEDED"
                     ELSE IF drop # NONE THEN "FAILED" ELSE found.result
           d == Decision(e, fresh, switchDue, stale)
<1>1. d = [later |-> later, asks |-> asks, drop |-> drop, sends |-> sends,
           waits |-> waits, begins |-> begins, anr |-> anr, wait |-> w1,
           unblocked |-> unblocked, result |-> result]
  BY Zenon DEF Decision
<1>2. /\ e.type \in {"key", "touch"} /\ ~waits /\ drop = NONE =>
            sends /\ result = found.result /\ found.result # "PENDING"
      /\ drop # NONE => ~sends /\ result \in {"SUCCEEDED", "FAILED"}
  <2> HIDE DEF later, asks, drop, found
  <2> QED
    BY InboundConstants
<1>3. w1 = IF ~waits THEN NoWait ELSE IF sends THEN found.wait ELSE w0
  OBVIOUS
<1>4. /\ d.sends <=> sends
      /\ d.waits <=> waits
      /\ d.drop = drop /\ d.result = result /\ d.wait = w1
  <2> HIDE DEF later, asks, drop, sends, waits, begins, anr, w1, unblocked, result, d
  <2> QED
    BY <1>1
<1> HIDE DEF sends, waits, drop, result, w1, d, found
<1>5. /\ e.type \in {"key", "touch"} /\ ~d.waits /\ d.drop = NONE =>
            d.sends /\ d.result = found.result /\ found.result # "PENDING"
      /\ d.waits => d.wait = w0 \/ (d.sends /\ d.wait = found.wait)
      /\ d.drop # NONE => ~d.sends /\ d.result \in {"SUCCEEDED", "FAILED"}
  BY <1>2, <1>3, <1>4
<1> QED
  BY <1>5 DEF d, found

\* An event that is dropped is not sent, and has a result.
LEMMA DroppedResult ==
    ASSUME NEW e, NEW fresh \in BOOLEAN, NEW switchDue \in BOOLEAN,
           NEW stale \in BOOLEAN,
           Decision(e, fresh, switchDue, stale).drop # NONE
    PROVE  /\ ~Decision(e, fresh, switchDue, stale).sends
           /\ Decision(e, fresh, switchDue, stale).result \in {"SUCCEEDED", "FAILED"}
BY InboundConstants DEF Decision

\* An event that is done with ends the wait.
LEMMA DecisionDone ==
    ASSUME NEW e, NEW fresh \in BOOLEAN, NEW switchDue \in BOOLEAN,
           NEW stale \in BOOLEAN
    PROVE  \/ Decision(e, fresh, switchDue, stale).waits
           \/ Decision(e, fresh, switchDue, stale).wait = NoWait
BY DEF Decision

\* The search for the target of a key that nobody injected: it is found, or not
\* ready yet, or nothing has the focus, or its time is up.
LEMMA KeyTarget ==
    ASSUME NEW e, NEW w0, e.type = "key", e.injector = NONE
    PROVE  \/ FindTarget(e, w0).result \in {"PENDING", "SUCCEEDED"}
           \/ focus.win = NONE
           \/ w0.cause = "APPLICATION_NOT_READY" /\ w0.expired
<1>1. ASSUME NEW app, NEW win
      PROVE  \/ handleTargetsNotReadyLocked(w0, app, win).result = "PENDING"
             \/ w0.cause = "APPLICATION_NOT_READY" /\ w0.expired
  BY DEF handleTargetsNotReadyLocked
<1> QED
  BY <1>1 DEF FindTarget

\* The search leaves the wait alone or begins one that has not expired.
LEMMA FoundWait ==
    ASSUME NEW e, NEW w0
    PROVE  LET w1 == FindTarget(e, w0).wait
           IN  \/ w1 = w0
               \/ /\ w1 = [cause |-> w1.cause, app |-> w1.app, expired |-> w1.expired]
                  /\ ~w1.expired
<1>1. ASSUME NEW app, NEW win
      PROVE  LET w1 == handleTargetsNotReadyLocked(w0, app, win).wait
             IN  \/ w1 = w0
                 \/ /\ w1 = [cause |-> w1.cause, app |-> w1.app,
                             expired |-> w1.expired]
                    /\ ~w1.expired
  BY DEF handleTargetsNotReadyLocked
<1> QED
  BY <1>1 DEF FindTarget

\* A delivered key changes what its target holds, and nothing else does.
LEMMA DeliveredDown ==
    ASSUME InboundTypes, NEW e \in Events, NEW t, NEW w \in Windows
    PROVE  Delivered(window, t, e)[w].down =
              IF w = t /\ e.type = "key"
              THEN IF e.action = "DOWN" THEN window[w].down \cup {e.code}
                   ELSE window[w].down \ {e.code}
              ELSE window[w].down
BY DEF InboundTypes, WindowStates, Delivered

\* A pass keeps the last word about every key true: a release that does not
\* reach its window is one whose window was told before that the key is up.
LEMMA DispatchKeys ==
    ASSUME InboundTypes, KeyParts, dispatchPending, UNCHANGED conf
    PROVE  KeyParts'
<1> DEFINE fresh == pending = NoEvent
           synthesizes == fresh /\ queue = <<>>
           e == IF ~fresh THEN pending
                ELSE IF synthesizes THEN synthesizeKeyRepeatLocked ELSE Head(queue)
           target == IF e.type = "key" THEN focus.win ELSE e.code
           switchDue == "appSwitch" \in due
           stale == "stale" \in due
           due1 == switchDue /\ ~synthesizes
           key == IF mode.enabled THEN lastKey ELSE NoKey
           w0 == IF fresh THEN NoWait ELSE wait
           found == FindTarget(e, w0)
           d == Decision(e, fresh, due1, stale)
           Effect(x) ==
              /\ wait' = x.wait
              /\ pending' = IF ~x.waits THEN NoEvent
                            ELSE IF x.asks THEN [e EXCEPT !.intercept = "UNKNOWN"]
                            ELSE e
              /\ window' = IF x.waits THEN window
                           ELSE IF e.type = "reset" THEN AllKeysUp(window)
                           ELSE IF x.drop # NONE THEN dropInboundEventLocked(window, e)
                           ELSE IF x.sends /\ x.result = "SUCCEEDED"
                           THEN Delivered(window, target, e) ELSE window
              /\ thread' = CASE x.asks -> [pc |-> "policy", call |-> "intercept",
                                           id |-> e.id]
                             [] x.anr -> [pc |-> "policy", call |-> "anr",
                                          win |-> target, waited |-> x.wait.app]
                             [] e.type = "config" -> [pc |-> "policy", call |-> "config"]
                             [] OTHER -> [pc |-> IF x.waits THEN "sleep" ELSE "run"]
<1>1. /\ Effect(d)
      /\ lastKey' = IF fresh THEN KeyRepeatAfter(e, key) ELSE key
      /\ UNCHANGED <<reader, sent, swallowed, replacedKeys, mode, focus>>
  <2>1. \E x \in {d} : Effect(x)
    BY DEF dispatchPending
  <2>2. /\ lastKey' = IF fresh THEN KeyRepeatAfter(e, key) ELSE key
        /\ UNCHANGED <<reader, sent, swallowed, replacedKeys, mode, focus>>
    BY DEF dispatchPending
  <2> HIDE DEF Effect, d
  <2> QED
    BY <2>1, <2>2
<1>2. e \in Events /\ Takes(e)
  <2>1. CASE synthesizes
    <3>1. lastKey \in [code : Codes, pass : BOOLEAN, timer : BOOLEAN] /\ lastKey # NoKey
             /\ queue' = queue
      BY <2>1 DEF dispatchPending, RepeatsKeys, InboundTypes
    <3>2. e = synthesizeKeyRepeatLocked
      BY <2>1
    <3>3. e \in Events
      BY <3>1, <3>2, MadeEvents DEF synthesizeKeyRepeatLocked
    <3>4. /\ e.type = "key" /\ e.code = lastKey.code /\ e.action = "DOWN"
          /\ e.injector = NONE
      <4> HIDE DEF e
      <4> QED
        BY <3>2 DEF synthesizeKeyRepeatLocked, Event
    <3> QED
      BY <2>1, <3>1, <3>3, <3>4 DEF Takes
  <2>2. CASE fresh /\ ~synthesizes
    <3>1. queue' = Tail(queue) /\ e = Head(queue) /\ queue # <<>>
      BY <2>2 DEF dispatchPending
    <3> QED
      BY <2>2, <3>1 DEF InboundTypes, Takes
  <2>3. CASE ~fresh
    <3>1. queue' = queue /\ e = pending
      BY <2>3 DEF dispatchPending
    <3> QED
      BY <2>3, <3>1 DEF InboundTypes, Takes
  <2> QED
    BY <2>1, <2>2, <2>3
<1>3. /\ e.type \in {"key", "touch"} /\ ~d.waits /\ d.drop = NONE =>
            d.sends /\ d.result = found.result /\ found.result # "PENDING"
      /\ d.waits => d.wait = w0 \/ (d.sends /\ d.wait = found.wait)
      /\ d.waits \/ d.wait = NoWait
  <2>1. fresh \in BOOLEAN /\ due1 \in BOOLEAN /\ stale \in BOOLEAN
    OBVIOUS
  <2> HIDE DEF fresh, due1, stale, e
  <2>2. e.type \in {"key", "touch"} /\ ~d.waits /\ d.drop = NONE =>
            d.sends /\ d.result = found.result /\ found.result # "PENDING"
    BY <2>1, DecisionResult
  <2>3. d.waits => d.wait = w0 \/ (d.sends /\ d.wait = found.wait)
    BY <2>1, DecisionResult, ZenonT(30)
  <2>4. d.waits \/ d.wait = NoWait
    BY <2>1, DecisionDone
  <2> HIDE DEF d, found, w0
  <2> QED
    BY <2>2, <2>3, <2>4
<1>4. e.injector = NONE
  BY <1>2 DEF KeyParts, Uninjected, Takes, InboundTypes
<1>5. ~fresh => e = pending
  OBVIOUS
<1> HIDE DEF d, e, found, due1, stale
<1>6. e # NoEvent
  BY <1>2, EventsAreSome
<1>7. \/ pending' = NoEvent /\ ~d.waits
      \/ /\ d.waits /\ pending' # NoEvent /\ pending'.type = e.type
         /\ pending'.code = e.code /\ pending'.action = e.action
         /\ pending'.injector = e.injector
  <2>1. LET f == [e EXCEPT !.intercept = "UNKNOWN"]
        IN  /\ f \in Events /\ f.type = e.type /\ f.code = e.code
            /\ f.action = e.action /\ f.injector = e.injector
    BY <1>2 DEF Events
  <2>2. pending' \in {NoEvent, e, [e EXCEPT !.intercept = "UNKNOWN"]}
           /\ (pending' = NoEvent \/ d.waits)
    BY <1>1
  <2>3. ~d.waits => pending' = NoEvent
    BY <1>1
  <2>4. d.waits => pending' # NoEvent
    BY <1>1, <1>6, <2>1, EventsAreSome
  <2> QED
    BY <2>1, <2>2, <2>3, <2>4
<1>8. /\ \/ lastKey' \in {lastKey, NoKey}
         \/ e.type = "key" /\ e.action = "DOWN" /\ lastKey'.code = e.code
      /\ e.type = "key" /\ e.action # "DOWN" => lastKey' = NoKey
  <2>1. CASE fresh
    <3>1. e.synthetic => e.action = "DOWN"
      BY <1>2 DEF Events
    <3> QED
      BY <1>1, <2>1, <3>1 DEF KeyRepeatAfter
  <2>2. CASE ~fresh
    BY <1>1, <1>5, <1>6, <2>2 DEF KeyParts, RepeatEnds
  <2> QED
    BY <2>1, <2>2
<1>9. w0.expired => ~fresh /\ wait.expired
  BY DEF NoWait
<1>10. \A w \in Windows : AllKeysUp(window)[w].down = {}
  BY DEF AllKeysUp, InboundTypes, WindowStates
<1>11. \A w \in Windows : Delivered(window, target, e)[w].down =
          IF w = target /\ e.type = "key"
          THEN IF e.action = "DOWN" THEN window[w].down \cup {e.code}
               ELSE window[w].down \ {e.code}
          ELSE window[w].down
  <2> HIDE DEF target
  <2> QED
    BY <1>2, DeliveredDown
<1>12. \/ window' = window
       \/ window' = AllKeysUp(window)
       \/ window' = Delivered(window, target, e)
  BY <1>1 DEF dropInboundEventLocked
<1>13. \A w \in Windows : window'[w].down \subseteq window[w].down \cup
          IF e.type = "key" /\ e.action = "DOWN" THEN {e.code} ELSE {}
  <2> HIDE DEF target
  <2> QED
    BY <1>10, <1>11, <1>12
<1>14. ASSUME e.type = "key", e.action # "DOWN", ~d.waits, NEW w \in Windows
       PROVE  e.code \notin window'[w].down
  <2>1. CASE d.drop # NONE
    BY <1>1, <1>10, <1>14, <2>1 DEF dropInboundEventLocked
  <2>2. CASE d.drop = NONE /\ found.result = "SUCCEEDED"
    <3>1. window' = Delivered(window, target, e)
      BY <1>1, <1>3, <1>14, <2>2
    <3>2. w # focus.win => window[w].down = {}
      BY DEF KeyParts, FocusHolds
    <3> QED
      BY <1>11, <1>14, <3>1, <3>2
  <2>3. CASE d.drop = NONE /\ found.result # "SUCCEEDED"
    <3>1. window' = window
      BY <1>1, <1>3, <1>14, <2>3
    <3>2. found.result # "PENDING"
      BY <1>3, <1>14, <2>3
    <3>3. focus.win = NONE \/ w0.expired
      <4> HIDE DEF w0
      <4> QED
        BY <1>4, <1>14, <2>3, <3>2, KeyTarget DEF found
    <3>4. CASE focus.win = NONE
      BY <3>1, <3>4, InboundConstants DEF KeyParts, FocusHolds
    <3>5. CASE w0.expired
      BY <1>5, <1>9, <1>14, <3>1, <3>5 DEF KeyParts, GivenUp
    <3> QED
      BY <3>3, <3>4, <3>5
  <2> QED
    BY <2>1, <2>2, <2>3
<1>15. /\ ReaderHonest' /\ QueueHonest' /\ FrontHonest'
       /\ CodesMatch' /\ RepeatEnds' /\ Uninjected'
  <2>1. e.type = "key" /\ e.action # "DOWN" /\ pending' = NoEvent =>
           \A w \in Windows : e.code \notin window'[w].down
    BY <1>7, <1>14
  <2> QED
    BY <1>1, <1>2, <1>7, <1>8, <1>13, <2>1, TakeKeys
<1>16. FocusHolds'
  BY <1>1, <1>10, <1>11, <1>12 DEF KeyParts, FocusHolds
<1>17. /\ wait' = NoWait \/ wait' = w0 \/ wait' = found.wait
       /\ wait'.expired => w0.expired
       /\ WaitShape'
  <2>1. wait' = NoWait \/ wait' = w0 \/ wait' = found.wait
    BY <1>1, <1>3
  <2>2. /\ NoWait = [cause |-> NoWait.cause, app |-> NoWait.app,
                     expired |-> NoWait.expired]
        /\ ~NoWait.expired
    BY DEF NoWait
  <2>3. w0 = [cause |-> w0.cause, app |-> w0.app, expired |-> w0.expired]
    BY <2>2 DEF KeyParts, WaitShape
  <2> HIDE DEF w0
  <2>4. \/ found.wait = w0
        \/ /\ found.wait = [cause |-> found.wait.cause, app |-> found.wait.app,
                            expired |-> found.wait.expired]
           /\ ~found.wait.expired
    BY FoundWait DEF found
  <2> QED
    BY <2>1, <2>2, <2>3, <2>4 DEF WaitShape
<1>18. GivenUp'
  <2> SUFFICES ASSUME pending' # NoEvent, pending'.type = "key"
               PROVE  /\ wait'.expired => \A w \in Windows : window'[w].down = {}
                      /\ thread'.pc = "policy" /\ thread'.call = "anr" =>
                            \A w \in Windows : w # thread'.win => window'[w].down = {}
    BY DEF GivenUp
  <2>1. d.waits /\ e.type = "key" /\ window' = window
    BY <1>1, <1>7
  <2>2. wait'.expired => \A w \in Windows : window'[w].down = {}
    BY <1>5, <1>9, <1>17, <2>1 DEF KeyParts, GivenUp
  <2>3. ASSUME thread'.pc = "policy", thread'.call = "anr"
        PROVE  thread'.win = focus.win
    <3>1. target = focus.win
      BY <2>1
    <3> HIDE DEF target, fresh, w0, key
    <3> QED
      BY <1>1, <2>1, <2>3, <3>1
  <2> QED
    BY <2>1, <2>2, <2>3 DEF KeyParts, FocusHolds
<1> QED
  BY <1>15, <1>16, <1>17, <1>18 DEF KeyParts

\* The other steps of the dispatcher's thread.
LEMMA DispatcherKeys ==
    ASSUME InboundTypes, KeyParts, Dispatcher, UNCHANGED conf, InboundTypes'
    PROVE  KeyParts'
<1>1. ASSUME UNCHANGED <<queue, pending, reader, sent, swallowed, replacedKeys, mode, focus>>,
             UNCHANGED wait,
             \A w \in Windows : window'[w].down \subseteq window[w].down,
             lastKey' \in {lastKey, NoKey},
             thread' = thread \/ thread'.pc # "policy"
      PROVE  KeyParts'
  <2>1. WaitShape'
    BY <1>1 DEF KeyParts, WaitShape
  <2> QED
    BY <1>1, <2>1, LessBelievedParts
<1>2. CASE dispatchNothing
  BY <1>1, <1>2 DEF dispatchNothing, NotSettings
<1>3. CASE pollOnceReturns
  BY <1>1, <1>3 DEF pollOnceReturns, NotSettings
<1>4. ASSUME NEW w \in Windows, handleReceiveCallback(w)
      PROVE  KeyParts'
  <2>1. \A v \in Windows : window'[v].down = window[v].down
    BY <1>4 DEF handleReceiveCallback, InboundTypes, WindowStates
  <2> QED
    BY <1>1, <1>4, <2>1 DEF handleReceiveCallback
<1>5. ASSUME NEW a \in {"SKIP", "CONTINUE", "LATER"},
             doInterceptKeyBeforeDispatching(a)
      PROVE  KeyParts'
  <2>1. /\ UNCHANGED <<queue, reader, sent, swallowed, replacedKeys, mode, focus, wait, window,
                       lastKey>>
        /\ thread'.pc = "run"
    BY <1>5 DEF doInterceptKeyBeforeDispatching, Unlocked
  <2>2. /\ (pending' = NoEvent) <=> (pending = NoEvent)
        /\ pending # NoEvent => /\ pending'.type = pending.type
                                /\ pending'.code = pending.code
                                /\ pending'.action = pending.action
                                /\ pending'.injector = pending.injector
    <3>1. pending' \in {pending, [pending EXCEPT !.intercept = a]}
      BY <1>5 DEF doInterceptKeyBeforeDispatching
    <3>2. CASE pending = NoEvent
      <4>1. [pending EXCEPT !.intercept = a] = NoEvent
        BY <3>2 DEF NoEvent
      <4> QED
        BY <3>1, <3>2, <4>1
    <3>3. CASE pending \in Events
      <4>1. LET f == [pending EXCEPT !.intercept = a]
            IN  /\ f \in Events /\ f.type = pending.type /\ f.code = pending.code
                /\ f.action = pending.action /\ f.injector = pending.injector
        BY <3>3 DEF Events
      <4> QED
        BY <3>1, <3>3, <4>1, EventsAreSome
    <3> QED
      BY <3>2, <3>3 DEF InboundTypes
  <2>3. WaitShape'
    BY <2>1 DEF KeyParts, WaitShape
  <2> QED
    BY <2>1, <2>2, <2>3, LessBelievedParts
<1>6. ASSUME NEW g \in BOOLEAN, doNotifyANR(g)
      PROVE  KeyParts'
  <2>1. /\ UNCHANGED <<queue, pending, reader, sent, swallowed, replacedKeys, mode, focus, lastKey>>
        /\ thread'.pc = "run" /\ thread.pc = "policy" /\ thread.call = "anr"
    BY <1>6 DEF doNotifyANR, Unlocked
  <2>2. CASE ~g
    <3>1. UNCHANGED <<wait, window>>
      BY <1>6, <2>2 DEF doNotifyANR, resumeAfterTargetsNotReadyTimeoutLocked
    <3> QED
      BY <1>1, <2>1, <3>1
  <2>3. CASE g
    <3>1. /\ wait' = [wait EXCEPT !.expired = TRUE]
          /\ window' = IF thread.win = NONE THEN window
                       ELSE [window EXCEPT ![thread.win].down = {}]
      BY <1>6, <2>3 DEF doNotifyANR, resumeAfterTargetsNotReadyTimeoutLocked
    <3>2. \A v \in Windows : /\ window'[v].down \subseteq window[v].down
                             /\ v = thread.win => window'[v].down = {}
      BY <3>1, InboundConstants DEF InboundTypes, WindowStates
    <3>3. WaitShape'
      BY <3>1 DEF KeyParts, WaitShape
    <3>4. /\ ReaderHonest' /\ QueueHonest' /\ FrontHonest'
          /\ CodesMatch' /\ RepeatEnds' /\ Uninjected'
      BY <2>1, <3>2, LessBelieved
    <3>5. FocusHolds'
      BY <2>1, <3>2 DEF KeyParts, FocusHolds
    <3>6. GivenUp'
      BY <2>1, <3>2 DEF KeyParts, GivenUp
    <3> QED
      BY <3>3, <3>4, <3>5, <3>6 DEF KeyParts
  <2> QED
    BY <2>2, <2>3
<1>7. CASE doNotifyConfigurationChanged
  BY <1>1, <1>7 DEF doNotifyConfigurationChanged, Unlocked
<1> QED
  BY <1>2, <1>3, <1>4, <1>5, <1>6, <1>7, DispatchKeys DEF Dispatcher

\* The filter consumes what the reader holds: a press of a key that is held, or a
\* release, which the filter has to answer for from now on.
LEMMA ConsumeKeys ==
    ASSUME InboundTypes, KeyParts, FilterConsumes, reader \in Events,
           UNCHANGED <<pending, mode, focus, wait, lastKey, replacedKeys, thread,
                       sent, window, conf>>
    PROVE  KeyParts'
<1> USE DEF KeyParts
<1>1. /\ queue' = queue /\ reader' = NoEvent
      /\ swallowed' = IF reader.type = "key" /\ reader.action = "UP"
                      THEN swallowed \cup {reader.code} ELSE swallowed
  BY DEF FilterConsumes, NotQueue
<1>2. Keys' = Keys
  BY DEF Keys, It
<1>3. \A c \in Codes : /\ Accounted(c) => Accounted(c)'
                       /\ About(reader, c) => Accounted(c)'
                       /\ ~About(reader, c)'
                       /\ About(pending, c)' <=> About(pending, c)
                       /\ Presses(pending, c)' <=> Presses(pending, c)
                       /\ Believed(c)' <=> Believed(c)
  <2>1. ASSUME NEW c \in Codes, Held(c) \/ c \in swallowed'
        PROVE  Accounted(c)'
    BY <1>2, <2>1 DEF Held, Accounted
  <2>2. ASSUME NEW c \in Codes, About(reader, c)
        PROVE  Held(c) \/ c \in swallowed'
    BY <1>1, <2>2 DEF ReaderHonest, About
  <2>3. \A c \in Codes : Accounted(c) => Held(c) \/ c \in swallowed'
    BY <1>1 DEF Accounted
  <2> QED
    BY <1>1, <2>1, <2>2, <2>3 DEF About, Presses, Believed
<1>4. ASSUME NEW i \in Nat, NEW c \in Codes, ~ToCome(i, c)'
      PROVE  ~ToCome(i, c) \/ About(reader, c)
  BY <1>1, <1>4 DEF ToCome, About
<1>5. ReaderHonest'
  BY <1>3 DEF ReaderHonest
<1>6. QueueHonest'
  <2> SUFFICES ASSUME NEW i \in 1..Len(queue), NEW c \in Codes,
                      Presses(queue[i], c)', ~ToCome(i, c)'
               PROVE  Accounted(c)'
    BY <1>1 DEF QueueHonest
  <2>1. Presses(queue[i], c)
    BY <1>1 DEF Presses, About
  <2> QED
    BY <1>3, <1>4, <2>1 DEF QueueHonest
<1>7. FrontHonest'
  BY <1>3, <1>4 DEF FrontHonest
<1>8. CodesMatch' /\ RepeatEnds' /\ FocusHolds' /\ GivenUp' /\ WaitShape'
  BY <1>2 DEF CodesMatch, RepeatEnds, FocusHolds, GivenUp, WaitShape
<1>9. Uninjected'
  BY <1>1 DEF Uninjected
<1> QED
  BY <1>5, <1>6, <1>7, <1>8, <1>9

\* A touch that waits for the filter says nothing about keys.
LEMMA OtherWaitsKeys ==
    ASSUME InboundTypes, KeyParts, NEW e, reader' = e, e.injector = NONE,
           \A c \in Codes : ~About(e, c) /\ ~About(reader, c),
           UNCHANGED <<queue, pending, mode, focus, wait, lastKey, replacedKeys, thread,
                       sent, swallowed, window, conf>>
    PROVE  KeyParts'
<1> USE DEF KeyParts
<1>1. Keys' = Keys
  BY DEF Keys, It
<1>2. \A c \in Codes : /\ Accounted(c)' <=> Accounted(c)
                       /\ ~About(reader, c)'
                       /\ About(pending, c)' <=> About(pending, c)
                       /\ Presses(pending, c)' <=> Presses(pending, c)
                       /\ Believed(c)' <=> Believed(c)
  BY <1>1 DEF Accounted, Held, About, Presses, Believed
<1>3. ASSUME NEW i \in Nat, NEW c \in Codes, ~ToCome(i, c)'
      PROVE  ~ToCome(i, c)
  BY <1>3 DEF ToCome, About
<1>4. ReaderHonest'
  BY <1>2 DEF ReaderHonest
<1>5. QueueHonest'
  <2>1. ASSUME NEW i \in 1..Len(queue), NEW c \in Codes
        PROVE  Presses(queue[i], c)' <=> Presses(queue[i], c)
    BY DEF Presses, About
  <2> QED
    BY <1>2, <1>3, <2>1 DEF QueueHonest
<1>6. FrontHonest'
  BY <1>2, <1>3 DEF FrontHonest
<1>7. CodesMatch' /\ RepeatEnds' /\ FocusHolds' /\ GivenUp' /\ WaitShape'
  BY <1>1 DEF CodesMatch, RepeatEnds, FocusHolds, GivenUp, WaitShape
<1>8. Uninjected'
  BY DEF Uninjected
<1> QED
  BY <1>4, <1>5, <1>6, <1>7, <1>8

\* The reader's steps; nobody injects here.
LEMMA ReaderKeys ==
    ASSUME StreamKept, InboundTypes, KeyParts, Reader, UNCHANGED conf, InboundTypes'
    PROVE  KeyParts'
<1>1. "reset" \notin Inputs
  BY DEF StreamKept, InboundTypes, Inputs, It
<1>2. ASSUME notifyKeyEnqueue \/ \E passes \in BOOLEAN : filterInputEvent(passes)
      PROVE  KeyParts'
  <2>1. /\ UNCHANGED <<pending, mode, focus, wait, lastKey, replacedKeys, thread, sent,
                       window>>
        /\ reader # NoEvent /\ reader \in Events
        /\ [reader EXCEPT !.id = nextId] \in Events
        /\ \/ UNCHANGED <<reader, swallowed, NotQueue>>
           \/ ReaderEnqueues
           \/ FilterConsumes
    BY <1>2, ReaderOutcomes
  <2>2. CASE UNCHANGED <<reader, swallowed, NotQueue>>
    <3>1. UNCHANGED <<pending, focus, lastKey, replacedKeys, thread, sent, window,
                      reader, swallowed, queue, wait>>
      BY <2>1, <2>2 DEF NotQueue
    <3>2. WaitShape'
      BY <3>1 DEF KeyParts, WaitShape
    <3> QED
      BY <3>1, <3>2, LessBelievedParts
  <2>3. CASE ReaderEnqueues
    <3> DEFINE e == [reader EXCEPT !.id = nextId]
    <3>1. /\ e \in Events /\ e.type = reader.type /\ e.code = reader.code
          /\ e.action = reader.action /\ e.injector = NONE
      <4>1. reader.injector = NONE
        BY <2>1 DEF KeyParts, Uninjected
      <4> QED
        BY <2>1, <4>1 DEF Events
    <3>2. /\ queue' = Append(queue, e) /\ reader' = NoEvent
          /\ swallowed' = IF reader.type = "key" /\ reader.action = "DOWN"
                          THEN swallowed \ {reader.code} ELSE swallowed
      BY <2>3 DEF ReaderEnqueues, enqueueInboundEventLocked
    <3> HIDE DEF e
    <3>3. \A c \in Codes : /\ About(e, c) <=> About(reader, c)
                           /\ Presses(e, c) <=> Presses(reader, c)
      BY <2>1, <3>1, EventsAreSome DEF About, Presses
    <3> QED
      BY <2>1, <3>1, <3>2, <3>3, EnqueueKeys
  <2>4. CASE FilterConsumes
    BY <2>1, <2>4, ConsumeKeys
  <2> QED
    BY <2>1, <2>2, <2>3, <2>4
<1>3. ASSUME NEW e \in Events, e.type \in {"touch", "config"}, e.injector = NONE,
             notifyOther(e)
      PROVE  KeyParts'
  <2>1. /\ UNCHANGED <<pending, mode, focus, wait, lastKey, replacedKeys, thread, sent,
                       swallowed, window>>
        /\ reader = NoEvent
        /\ \/ reader' = e /\ UNCHANGED NotQueue
           \/ reader' = NoEvent /\ enqueueInboundEventLocked(e)
    BY <1>3, OtherOutcomes
  <2>2. \A c \in Codes : ~About(e, c) /\ ~About(reader, c)
    BY <1>3, <2>1 DEF About
  <2>3. CASE reader' = e /\ UNCHANGED NotQueue
    BY <1>3, <2>1, <2>2, <2>3, OtherWaitsKeys DEF NotQueue
  <2>4. CASE reader' = NoEvent /\ enqueueInboundEventLocked(e)
    <3>1. queue' = Append(queue, e)
      BY <2>4 DEF enqueueInboundEventLocked
    <3>2. \A c \in Codes : /\ About(e, c) <=> About(reader, c)
                           /\ Presses(e, c) <=> Presses(reader, c)
      BY <2>2 DEF Presses
    <3> QED
      BY <1>3, <2>1, <2>4, <3>1, <3>2, EnqueueKeys
  <2> QED
    BY <2>1, <2>3, <2>4
<1>4. /\ \A w \in Windows, a \in {"DOWN", "MOVE"} :
            LET e == Event("touch", w, a, TRUE, NONE)
            IN  e \in Events /\ e.type = "touch" /\ e.injector = NONE
      /\ LET e == Event("config", NONE, NONE, TRUE, NONE)
         IN  e \in Events /\ e.type = "config" /\ e.injector = NONE
  <2>1. /\ \A w \in Windows, a \in {"DOWN", "MOVE"} :
              Event("touch", w, a, TRUE, NONE) \in Events
        /\ Event("config", NONE, NONE, TRUE, NONE) \in Events
    BY MadeEvents DEF Codes
  <2> QED
    BY <2>1 DEF Event
<1>5. \A t \in {"config", "reset"} \cap Inputs : t = "config"
  BY <1>1
<1> QED
  BY <1>2, <1>3, <1>4, <1>5, NotifyKeyKeys DEF Reader

\* The window manager's calls.
LEMMA WindowManagerKeys ==
    ASSUME StreamKept, InboundTypes, KeyParts, WindowManager, UNCHANGED conf,
           InboundTypes'
    PROVE  KeyParts'
<1>1. {"mode", "filter"} \cap Settings # {} => Replaced \notin Keys
  BY DEF StreamKept, InboundTypes, Settings, Keys, It
<1>2. ASSUME NEW w \in Windows \cup {NONE}, NEW paused \in SUBSET Windows,
             setInputWindows(w, paused)
      PROVE  KeyParts'
  <2>1. /\ UNCHANGED <<queue, pending, reader, sent, swallowed, replacedKeys, mode,
                       lastKey, wait, thread>>
        /\ focus' = [focus EXCEPT !.win = w]
    BY <1>2 DEF setInputWindows, NotLoop
  <2>2. \A v \in Windows :
           window'[v].down = IF v = focus.win /\ v # w THEN {} ELSE window[v].down
    BY <1>2, FlagsSet
  <2>3. focus'.win = w
    BY <2>1 DEF InboundTypes
  <2>4. WaitShape'
    BY <2>1 DEF KeyParts, WaitShape
  <2>5. CASE w = focus.win
    <3>1. \A v \in Windows : window'[v].down \subseteq window[v].down
      BY <2>2
    <3> QED
      BY <2>1, <2>3, <2>4, <2>5, <3>1, LessBelievedParts
  <2>6. CASE w # focus.win
    <3>1. \A v \in Windows : window'[v].down = {}
      BY <2>2, <2>6 DEF KeyParts, FocusHolds
    <3>2. /\ ReaderHonest' /\ QueueHonest' /\ FrontHonest'
          /\ CodesMatch' /\ RepeatEnds' /\ Uninjected'
      BY <2>1, <3>1, LessBelieved
    <3>3. FocusHolds' /\ GivenUp'
      BY <3>1 DEF FocusHolds, GivenUp
    <3> QED
      BY <2>4, <3>2, <3>3 DEF KeyParts
  <2> QED
    BY <2>5, <2>6
<1>3. ASSUME NEW a, setFocusedApplication(a)
      PROVE  KeyParts'
  <2>1. UNCHANGED <<queue, pending, reader, sent, swallowed, replacedKeys, mode, lastKey, thread,
                    window>>
    BY <1>3 DEF setFocusedApplication
  <2>2. focus'.win = focus.win
    BY <1>3 DEF setFocusedApplication, InboundTypes
  <2>3. wait' = wait \/ wait' = [wait EXCEPT !.cause = NONE, !.app = NONE]
    BY <1>3 DEF setFocusedApplication
  <2>4. WaitShape' /\ wait'.expired = wait.expired
    BY <2>3 DEF KeyParts, WaitShape
  <2> QED
    BY <2>1, <2>2, <2>4, LessBelievedParts
<1>4. ASSUME NEW enabled \in BOOLEAN, NEW frozen \in BOOLEAN,
             setInputDispatchMode(enabled, frozen)
      PROVE  KeyParts'
  <2>1. Replaced \notin Keys
    BY <1>1, <1>4 DEF setInputDispatchMode
  <2>2. UNCHANGED <<focus, thread, reader, sent, swallowed>>
    BY <1>4 DEF setInputDispatchMode
  <2>3. CASE mode.enabled /\ ~enabled
    BY <1>4, <2>1, <2>2, <2>3, ResetKeys DEF setInputDispatchMode
  <2>4. CASE ~(mode.enabled /\ ~enabled)
    <3>1. /\ UNCHANGED <<queue, pending, replacedKeys, lastKey, window>>
          /\ wait' = wait \/ wait' = [wait EXCEPT !.cause = NONE, !.app = NONE]
      BY <1>4, <2>4 DEF setInputDispatchMode, KeepsEverything
    <3>2. WaitShape' /\ wait'.expired = wait.expired
      BY <3>1 DEF KeyParts, WaitShape
    <3> QED
      BY <2>2, <3>1, <3>2, LessBelievedParts
  <2> QED
    BY <2>3, <2>4
<1>5. ASSUME NEW enabled \in BOOLEAN, setInputFilterEnabled(enabled)
      PROVE  KeyParts'
  BY <1>1, <1>5, ResetKeys DEF setInputFilterEnabled
<1>6. ASSUME NEW w \in Windows, unregisterInputChannel(w)
      PROVE  KeyParts'
  <2>1. /\ UNCHANGED <<queue, pending, reader, sent, swallowed, replacedKeys, mode, focus, lastKey,
                       wait, thread>>
        /\ window' = [window EXCEPT ![w] = [entries |-> <<>>, slow |-> FALSE,
                                            down |-> {}, registered |-> FALSE,
                                            paused |-> @.paused]]
    BY <1>6 DEF unregisterInputChannel, NotLoop
  <2>2. \A v \in Windows : window'[v].down \subseteq window[v].down
    BY <2>1 DEF InboundTypes, WindowStates
  <2>3. WaitShape'
    BY <2>1 DEF KeyParts, WaitShape
  <2> QED
    BY <2>1, <2>2, <2>3, LessBelievedParts
<1> QED
  BY <1>2, <1>3, <1>4, <1>5, <1>6 DEF WindowManager

\* KeyInv holds at first and every step preserves it.
LEMMA KeysInductive ==
    ASSUME StreamKept
    PROVE  /\ Init => KeyInv
           /\ KeyInv /\ [Next]_vars => KeyInv'
<1>1. ASSUME Init PROVE KeyInv
  <2>1. InboundTypes
    BY <1>1, WakeInductive DEF WakeInv
  <2>2. /\ queue = <<>> /\ pending = NoEvent /\ reader = NoEvent /\ lastKey = NoKey
        /\ replacedKeys = FALSE /\ sent = [k \in Keys |-> NONE] /\ wait = NoWait
        /\ \A w \in Windows : window[w].down = {}
    BY <1>1 DEF Init
  <2>3. \A c \in Codes : ~Believed(c) /\ ~Presses(pending, c) /\ ~About(reader, c)
    BY <2>2 DEF Believed, Presses, About
  <2>4. ReaderHonest /\ QueueHonest /\ FrontHonest
    BY <2>2, <2>3 DEF ReaderHonest, QueueHonest, FrontHonest
  <2>5. CodesMatch
    BY <2>2 DEF CodesMatch
  <2>6. RepeatEnds /\ FocusHolds /\ GivenUp /\ Uninjected
    BY <2>2, <2>3 DEF RepeatEnds, FocusHolds, GivenUp, Uninjected
  <2>7. WaitShape
    BY <2>2 DEF WaitShape, NoWait
  <2> QED
    BY <2>1, <2>4, <2>5, <2>6, <2>7 DEF KeyInv, KeyParts
<1>2. ASSUME KeyInv, [Next]_vars PROVE KeyInv'
  <2>1. InboundTypes /\ InboundTypes' /\ UNCHANGED conf
    BY <1>2, TypesInductive DEF KeyInv, Next, vars
  <2> SUFFICES ASSUME It.injectors = {}
               PROVE  KeyParts'
    BY <2>1 DEF KeyInv, It
  <2>2. KeyParts
    BY <1>2 DEF KeyInv
  <2>3. ASSUME UNCHANGED <<queue, pending, reader, sent, swallowed, replacedKeys, mode, focus,
                           wait, lastKey, thread>>,
               \A w \in Windows : window'[w].down = window[w].down
        PROVE  KeyParts'
    <3>1. WaitShape'
      BY <2>2, <2>3 DEF KeyParts, WaitShape
    <3> QED
      BY <2>1, <2>2, <2>3, <3>1, LessBelievedParts
  <2>4. CASE Dispatcher
    BY <2>1, <2>2, <2>4, DispatcherKeys
  <2>5. CASE Reader
    BY <2>1, <2>2, <2>5, ReaderKeys
  <2>6. ~Inject
    BY DEF Inject
  <2>7. CASE WindowManager
    BY <2>1, <2>2, <2>7, WindowManagerKeys
  <2>8. ASSUME NEW t, timePasses(t) PROVE KeyParts'
    BY <2>3, <2>8 DEF timePasses, NotSettings, NotLoop
  <2>9. ASSUME NEW w \in Windows, windowSlow(w) PROVE KeyParts'
    <3>1. \A v \in Windows : window'[v].down = window[v].down
      BY <2>1, <2>9 DEF windowSlow, InboundTypes, WindowStates
    <3> QED
      BY <2>3, <2>9, <3>1 DEF windowSlow, NotLoop
  <2>10. CASE UNCHANGED vars
    BY <2>3, <2>10 DEF vars
  <2> QED
    BY <1>2, <2>4, <2>5, <2>6, <2>7, <2>8, <2>9, <2>10 DEF Next, Step
<1> QED
  BY <1>1, <1>2

\* Once all is processed, no window believes in a key that the user does not
\* hold, whatever was dropped, replaced, repeated, timed out or sent elsewhere
\* (dropInboundEventLocked, resetAndDropEverythingLocked, setInputWindows and
\* resumeAfterTargetsNotReadyTimeoutLocked all synthesize the releases), unless
\* devices are reset or the dispatcher is while META may replace a key. The input
\* filter may be switched at any time, and may pass or consume each event while
\* it is asked (notifyKey); a key whose last release it consumed is the exception
\* that NoStuckKey itself makes.
THEOREM NoKeyStaysDown ==
    ASSUME StreamKept
    PROVE  Spec => []NoStuckKey
<1>1. Init => KeyInv
  BY KeysInductive
<1>2. KeyInv /\ [Next]_vars => KeyInv'
  BY KeysInductive
<1>3. KeyInv => NoStuckKey
  <2> SUFFICES ASSUME KeyInv, Quiet, It.injectors = {}, NEW w \in Windows,
                      NEW c \in window[w].down
               PROVE  Accounted(c)
    BY DEF NoStuckKey, Accounted, Held
  <2>1. c \in Codes
    BY DEF KeyInv, InboundTypes, WindowStates
  <2>2. ~ToCome(0, c) /\ ~About(pending, c)
    BY DEF Quiet, ToCome, About
  <2>3. Believed(c)
    BY DEF Believed
  <2> QED
    BY <2>1, <2>2, <2>3 DEF KeyInv, KeyParts, FrontHonest
<1> QED
  BY <1>1, <1>2, <1>3, PTL DEF Spec

-----------------------------------------------------------------------------
(* Injectors *)

Entries(w) == window[w].entries

\* Window w has, as its n-th entry, the event that i injected.
Holds(i, w, n) == n \in DOMAIN Entries(w) /\ Entries(w)[n].injector = i

\* The event that i injected is still to be processed.
Queued(i) == \E n \in DOMAIN queue : queue[n].injector = i
Awaited(i) == pending # NoEvent /\ pending.injector = i

\* What the dispatcher keeps for each injector.
InjectorShape ==
    /\ injector = [i \in Injectors |-> injector[i]]
    /\ \A i \in Injectors :
          injector[i] = [sync |-> injector[i].sync, result |-> injector[i].result,
                         fg |-> injector[i].fg]

\* Events are numbered in the order in which they are queued, and taken.
Numbered ==
    /\ \A n \in DOMAIN queue : queue[n].id < nextId
    /\ \A m, n \in DOMAIN queue : m < n => queue[m].id < queue[n].id
    /\ pending # NoEvent => /\ pending.id < nextId
                            /\ \A n \in DOMAIN queue : pending.id < queue[n].id

\* The entries of a window come before all events that are to be processed, and
\* there are no more of them than events before.
EntriesNumbered ==
    \A w \in Windows : \A n \in DOMAIN Entries(w) :
        /\ n <= Entries(w)[n].id /\ Entries(w)[n].id < nextId
        /\ \A m \in DOMAIN queue : Entries(w)[n].id < queue[m].id
        /\ pending # NoEvent => Entries(w)[n].id < pending.id

\* Only keys and touches are injected, and within the bound.
Injectable(e) ==
    e.injector # NONE => e.type \in {"key", "touch"} /\ e.id <= MaxEvents

AllInjectable ==
    /\ \A n \in DOMAIN queue : Injectable(queue[n])
    /\ pending # NoEvent => Injectable(pending)
    /\ \A w \in Windows : \A n \in DOMAIN Entries(w) : Injectable(Entries(w)[n])
    /\ reader # NoEvent => reader.injector = NONE

\* An injector has one event, and it is in one place.
OnePlace ==
    \A i \in Injectors :
        /\ (Queued(i) \/ Awaited(i)) <=> injector[i].result = "PENDING"
        /\ ~(Queued(i) /\ Awaited(i))
        /\ \A m, n \in DOMAIN queue :
              queue[m].injector = i /\ queue[n].injector = i => m = n
        /\ injector[i].result \in {NONE, "PENDING"} =>
              \A w \in Windows : \A n \in DOMAIN Entries(w) : ~Holds(i, w, n)
        /\ \A v, w \in Windows : \A m \in DOMAIN Entries(v), n \in DOMAIN Entries(w) :
              Holds(i, v, m) /\ Holds(i, w, n) => v = w /\ m = n

\* An injector counts the entry that its event is.
Counted ==
    \A i \in Injectors :
        injector[i].fg =
            IF \E w \in Windows : \E n \in DOMAIN Entries(w) : Holds(i, w, n)
            THEN 1 ELSE 0

InjectionParts ==
    /\ InjectorShape /\ Numbered /\ EntriesNumbered /\ AllInjectable /\ OnePlace /\ Counted

InjectionInv == InboundTypes /\ InjectionParts

\* The events in the queue, at the policy and in the windows are events.
LEMMA KnownEvents ==
    ASSUME InboundTypes
    PROVE  /\ nextId \in Nat /\ queue \in Seq(Events) /\ Len(queue) \in Nat
           /\ DOMAIN queue = 1 .. Len(queue)
           /\ \A n \in DOMAIN queue : queue[n] \in Events /\ queue[n].id \in Nat
           /\ pending # NoEvent => pending \in Events /\ pending.id \in Nat
           /\ \A w \in Windows :
                 /\ Entries(w) \in Seq(Events) /\ Len(Entries(w)) \in Nat
                 /\ DOMAIN Entries(w) = 1 .. Len(Entries(w))
                 /\ \A n \in DOMAIN Entries(w) :
                       Entries(w)[n] \in Events /\ Entries(w)[n].id \in Nat
<1>1. \A e \in Events : e.id \in Nat
  BY DEF Events
<1>2. /\ nextId \in Nat /\ queue \in Seq(Events)
      /\ pending # NoEvent => pending \in Events
  BY DEF InboundTypes
<1>3. \A w \in Windows : Entries(w) \in Seq(Events)
  BY DEF InboundTypes, WindowStates, Entries
<1>4. \A s \in Seq(Events) : /\ Len(s) \in Nat /\ DOMAIN s = 1 .. Len(s)
                             /\ \A n \in DOMAIN s : s[n] \in Events
  OBVIOUS
<1> QED
  BY <1>1, <1>2, <1>3, <1>4

\* The injectors' state depends on these only: not on the sync mode, on what
\* else is known of the pending event, or on anything else about a window.
LEMMA InjectionUnchanged ==
    ASSUME InboundTypes, InboundTypes', InjectionParts, UNCHANGED <<queue, conf>>,
           nextId' >= nextId, pending' # NoEvent <=> pending # NoEvent,
           pending # NoEvent => /\ pending'.id = pending.id
                                /\ pending'.type = pending.type
                                /\ pending'.injector = pending.injector,
           reader' # NoEvent => reader'.injector = NONE, InjectorShape',
           \A i \in Injectors : /\ injector'[i].result = injector[i].result
                                /\ injector'[i].fg = injector[i].fg,
           \A w \in Windows : window'[w].entries = window[w].entries
    PROVE  InjectionParts'
<1>1. \A w \in Windows : Entries(w)' = Entries(w)
  BY DEF Entries
<1>2. MaxEvents' = MaxEvents
  BY DEF MaxEvents, It
<1>3. \A i \in Injectors, w \in Windows : \A n : Holds(i, w, n)' <=> Holds(i, w, n)
  BY <1>1 DEF Holds
<1>4. \A i \in Injectors : /\ Queued(i)' <=> Queued(i)
                           /\ Awaited(i)' <=> Awaited(i)
  BY DEF Queued, Awaited
<1>5. nextId \in Nat /\ nextId' \in Nat
  BY DEF InboundTypes
<1>6. /\ \A n \in DOMAIN queue : queue[n].id \in Nat
      /\ pending # NoEvent => pending.id \in Nat
      /\ \A w \in Windows : \A n \in DOMAIN Entries(w) : Entries(w)[n].id \in Nat
  BY KnownEvents
<1>7. Numbered'
  BY <1>5, <1>6 DEF InjectionParts, Numbered
<1>8. EntriesNumbered'
  BY <1>1, <1>5, <1>6 DEF InjectionParts, EntriesNumbered
<1>9. AllInjectable'
  BY <1>1, <1>2 DEF InjectionParts, AllInjectable, Injectable
<1>10. OnePlace'
  BY <1>1, <1>3, <1>4 DEF InjectionParts, OnePlace
<1>11. Counted'
  BY <1>1, <1>3 DEF InjectionParts, Counted
<1> QED
  BY <1>7, <1>8, <1>9, <1>10, <1>11 DEF InjectionParts

\* An event that is queued behind the others is the first of its injector.
LEMMA EnqueueInjection ==
    ASSUME InboundTypes, InboundTypes', InjectionParts, UNCHANGED <<pending, conf>>,
           NEW e \in Events, e.id = nextId, queue' = Append(queue, e),
           nextId' = nextId + 1, reader' # NoEvent => reader'.injector = NONE,
           InjectorShape', Injectable(e),
           \A i \in Injectors : /\ injector'[i].fg = injector[i].fg
                                /\ IF e.injector = i
                                   THEN /\ injector[i].result = NONE
                                        /\ injector'[i].result = "PENDING"
                                   ELSE injector'[i].result = injector[i].result,
           \A w \in Windows : window'[w].entries = window[w].entries
    PROVE  InjectionParts'
<1>1. \A w \in Windows : Entries(w)' = Entries(w)
  BY DEF Entries
<1>2. MaxEvents' = MaxEvents
  BY DEF MaxEvents, It
<1>3. \A i \in Injectors, w \in Windows : \A n : Holds(i, w, n)' <=> Holds(i, w, n)
  BY <1>1 DEF Holds
<1>4. /\ nextId \in Nat /\ nextId' \in Nat
      /\ queue \in Seq(Events) /\ DOMAIN queue = 1 .. Len(queue) /\ Len(queue) \in Nat
      /\ DOMAIN queue' = 1 .. Len(queue) + 1 /\ queue'[Len(queue) + 1] = e
      /\ \A n \in DOMAIN queue : queue'[n] = queue[n]
  BY DEF InboundTypes
<1>5. \A n \in DOMAIN queue' : n \in DOMAIN queue \/ (n = Len(queue) + 1 /\ queue'[n] = e)
  BY <1>4
<1>6. /\ \A n \in DOMAIN queue : queue[n].id \in Nat
      /\ pending # NoEvent => pending.id \in Nat
      /\ \A w \in Windows : \A n \in DOMAIN Entries(w) : Entries(w)[n].id \in Nat
  BY KnownEvents
<1>7. \A i \in Injectors : /\ Queued(i)' <=> (Queued(i) \/ e.injector = i)
                           /\ Awaited(i)' <=> Awaited(i)
  BY <1>4, <1>5 DEF Queued, Awaited
<1>8. Numbered'
  <2>1. \A n \in DOMAIN queue' : queue'[n].id < nextId'
    BY <1>4, <1>5, <1>6 DEF InjectionParts, Numbered
  <2>2. \A m, n \in DOMAIN queue' : m < n => queue'[m].id < queue'[n].id
    <3> SUFFICES ASSUME NEW m \in DOMAIN queue', NEW n \in DOMAIN queue', m < n
                 PROVE  queue'[m].id < queue'[n].id
      OBVIOUS
    <3>1. m \in DOMAIN queue
      BY <1>4
    <3> QED
      BY <1>4, <1>5, <3>1 DEF InjectionParts, Numbered
  <2>3. pending' # NoEvent => /\ pending'.id < nextId'
                              /\ \A n \in DOMAIN queue' : pending'.id < queue'[n].id
    BY <1>4, <1>5, <1>6 DEF InjectionParts, Numbered
  <2> QED
    BY <2>1, <2>2, <2>3 DEF Numbered
<1>9. EntriesNumbered'
  <2> SUFFICES ASSUME NEW w \in Windows, NEW n \in DOMAIN Entries(w)
               PROVE  /\ n <= Entries(w)[n].id /\ Entries(w)[n].id < nextId'
                      /\ \A m \in DOMAIN queue' : Entries(w)[n].id < queue'[m].id
                      /\ pending' # NoEvent => Entries(w)[n].id < pending'.id
    BY <1>1 DEF EntriesNumbered
  <2>1. /\ n <= Entries(w)[n].id /\ Entries(w)[n].id < nextId
        /\ \A m \in DOMAIN queue : Entries(w)[n].id < queue[m].id
        /\ pending # NoEvent => Entries(w)[n].id < pending.id
    BY DEF InjectionParts, EntriesNumbered
  <2> QED
    BY <1>4, <1>5, <1>6, <2>1
<1>10. AllInjectable'
  BY <1>1, <1>2, <1>4, <1>5 DEF InjectionParts, AllInjectable, Injectable
<1>11. OnePlace'
  <2> SUFFICES ASSUME NEW i \in Injectors
               PROVE  (/\ (Queued(i) \/ Awaited(i)) <=> injector[i].result = "PENDING"
                       /\ ~(Queued(i) /\ Awaited(i))
                       /\ \A m, n \in DOMAIN queue :
                             queue[m].injector = i /\ queue[n].injector = i => m = n
                       /\ injector[i].result \in {NONE, "PENDING"} =>
                             \A w \in Windows : \A n \in DOMAIN Entries(w) :
                                ~Holds(i, w, n)
                       /\ \A v, w \in Windows : \A m \in DOMAIN Entries(v),
                                                  n \in DOMAIN Entries(w) :
                             Holds(i, v, m) /\ Holds(i, w, n) => v = w /\ m = n)'
    BY DEF OnePlace
  <2>1. CASE e.injector = i
    <3>1. ~Queued(i) /\ ~Awaited(i)
      BY <2>1, InboundConstants DEF InjectionParts, OnePlace
    <3>2. \A n \in DOMAIN queue : queue[n].injector # i
      BY <3>1 DEF Queued
    <3>3. \A m, n \in DOMAIN queue' :
             queue'[m].injector = i /\ queue'[n].injector = i => m = n
      BY <1>4, <1>5, <3>2
    <3> QED
      BY <1>1, <1>3, <1>7, <2>1, <3>1, <3>3 DEF InjectionParts, OnePlace
  <2>2. CASE e.injector # i
    <3>1. \A m, n \in DOMAIN queue' :
             queue'[m].injector = i /\ queue'[n].injector = i => m = n
      BY <1>4, <1>5, <2>2 DEF InjectionParts, OnePlace
    <3> QED
      BY <1>1, <1>3, <1>7, <2>2, <3>1 DEF InjectionParts, OnePlace
  <2> QED
    BY <2>1, <2>2
<1>12. Counted'
  BY <1>1, <1>3 DEF InjectionParts, Counted
<1> QED
  BY <1>8, <1>9, <1>10, <1>11, <1>12 DEF InjectionParts

\* resetAndDropEverythingLocked answers the injectors whose events it drops.
LEMMA ResetInjection ==
    ASSUME InboundTypes, InboundTypes', InjectionParts, resetAndDropEverythingLocked,
           UNCHANGED <<conf, nextId, reader>>
    PROVE  InjectionParts'
<1> DEFINE events == IF pending = NoEvent THEN queue ELSE <<pending>> \o queue
<1>1. /\ pending' = NoEvent /\ queue' = <<>> /\ window' = AllKeysUp(window)
      /\ injector' = Released(injector, events)
  BY DEF resetAndDropEverythingLocked
<1>2. \A w \in Windows : Entries(w)' = Entries(w)
  BY <1>1 DEF Entries, AllKeysUp, InboundTypes, WindowStates
<1>3. MaxEvents' = MaxEvents
  BY DEF MaxEvents, It
<1>4. \A i \in Injectors, w \in Windows : \A n : Holds(i, w, n)' <=> Holds(i, w, n)
  BY <1>2 DEF Holds
<1>5. \A i \in Injectors :
         (\E n \in DOMAIN events : events[n].injector = i) <=> Queued(i) \/ Awaited(i)
  <2>1. CASE pending = NoEvent
    BY <2>1 DEF Queued, Awaited
  <2>2. CASE pending # NoEvent
    <3>1. /\ events = <<pending>> \o queue /\ Len(events) = Len(queue) + 1
          /\ DOMAIN events = 1 .. Len(queue) + 1 /\ events[1] = pending
          /\ \A n \in DOMAIN queue : events[n + 1] = queue[n]
          /\ Len(queue) \in Nat /\ DOMAIN queue = 1 .. Len(queue)
      BY <2>2, KnownEvents
    <3>2. \A n \in DOMAIN events : n = 1 \/ n - 1 \in DOMAIN queue
      BY <3>1
    <3>3. \A n \in DOMAIN queue : n + 1 \in DOMAIN events
      BY <3>1
    <3>4. \A n \in DOMAIN events : n # 1 => events[n] = queue[n - 1]
      BY <3>1, <3>2
    <3> HIDE DEF events
    <3>5. 1 \in DOMAIN events
      BY <3>1
    <3> QED
      BY <2>2, <3>1, <3>2, <3>3, <3>4, <3>5 DEF Queued, Awaited
  <2> QED
    BY <2>1, <2>2
<1> HIDE DEF events
<1>6. \A i \in Injectors :
         injector'[i] = IF injector[i].result = "PENDING"
                        THEN [injector[i] EXCEPT !.result = "FAILED"] ELSE injector[i]
  BY <1>1, <1>5 DEF Released, InjectionParts, OnePlace
<1>7. \A i \in Injectors :
         /\ injector[i] = [sync |-> injector[i].sync, result |-> injector[i].result,
                           fg |-> injector[i].fg]
         /\ injector'[i].sync = injector[i].sync /\ injector'[i].fg = injector[i].fg
         /\ injector'[i].result =
               IF injector[i].result = "PENDING" THEN "FAILED" ELSE injector[i].result
  BY <1>6 DEF InjectionParts, InjectorShape
<1>8. InjectorShape'
  <2>1. injector' = [i \in Injectors |-> injector'[i]]
    BY <1>1 DEF Released
  <2> QED
    BY <1>6, <1>7, <2>1 DEF InjectorShape
<1>9. Numbered' /\ EntriesNumbered'
  BY <1>1, <1>2 DEF InjectionParts, Numbered, EntriesNumbered
<1>10. AllInjectable'
  BY <1>1, <1>2, <1>3 DEF InjectionParts, AllInjectable, Injectable
<1>11. OnePlace'
  <2>1. \A i \in Injectors : ~Queued(i)' /\ ~Awaited(i)'
    BY <1>1 DEF Queued, Awaited
  <2>2. \A i \in Injectors : injector'[i].result # "PENDING"
    BY <1>7
  <2>3. \A i \in Injectors :
           injector'[i].result = NONE => injector[i].result = NONE
    BY <1>7, InboundConstants
  <2> QED
    BY <1>1, <1>2, <1>4, <2>1, <2>2, <2>3 DEF InjectionParts, OnePlace
<1>12. Counted'
  BY <1>2, <1>4, <1>7 DEF InjectionParts, Counted
<1> QED
  BY <1>8, <1>9, <1>10, <1>11, <1>12 DEF InjectionParts

\* A window is done with its first k entries: each injector's count goes down by
\* the entries that are its own, one at most.
LEMMA FinishInjection ==
    ASSUME InboundTypes, InboundTypes', InjectionParts,
           UNCHANGED <<queue, pending, nextId, reader, conf>>,
           NEW w \in Windows, NEW k \in Nat, NEW gone, k <= Len(Entries(w)),
           DOMAIN gone = 1 .. k, \A n \in 1 .. k : gone[n] = Entries(w)[n],
           injector' = Unpend(injector, gone),
           DOMAIN Entries(w)' = 1 .. Len(Entries(w)) - k,
           \A n \in 1 .. Len(Entries(w)) - k : Entries(w)'[n] = Entries(w)[n + k],
           \A v \in Windows : v # w => window'[v].entries = window[v].entries
    PROVE  InjectionParts'
<1>1. /\ Len(Entries(w)) \in Nat /\ DOMAIN Entries(w) = 1 .. Len(Entries(w))
      /\ \A n \in DOMAIN Entries(w) : Entries(w)[n].id \in Nat
  BY KnownEvents
<1>2. \A v \in Windows : v # w => Entries(v)' = Entries(v)
  BY DEF Entries
<1>3. MaxEvents' = MaxEvents
  BY DEF MaxEvents, It
<1>4. \A n \in DOMAIN Entries(w)' :
         n + k \in DOMAIN Entries(w) /\ Entries(w)'[n] = Entries(w)[n + k]
  BY <1>1
<1>5. \A i \in Injectors : /\ Queued(i)' <=> Queued(i)
                           /\ Awaited(i)' <=> Awaited(i)
  BY DEF Queued, Awaited
<1>6. \A i \in Injectors, v \in Windows : \A n :
         /\ v # w => (Holds(i, v, n)' <=> Holds(i, v, n))
         /\ Holds(i, w, n)' => Holds(i, w, n + k)
  BY <1>2, <1>4 DEF Holds
<1>7. \A i \in Injectors, n \in DOMAIN Entries(w) :
         Holds(i, w, n) => n \in 1 .. k \/ Holds(i, w, n - k)'
  <2> SUFFICES ASSUME NEW i \in Injectors, NEW n \in DOMAIN Entries(w),
                      Holds(i, w, n), n \notin 1 .. k
               PROVE  Holds(i, w, n - k)'
    OBVIOUS
  <2>1. n - k \in 1 .. Len(Entries(w)) - k
    BY <1>1
  <2>2. (n - k) + k = n
    BY <1>1
  <2>3. Entries(w)'[n - k] = Entries(w)[n]
    BY <2>1, <2>2
  <2> QED
    BY <2>1, <2>3 DEF Holds
<1>8. ASSUME NEW i \in Injectors
      PROVE  /\ injector'[i] = [injector[i] EXCEPT !.fg = injector[i].fg -
                Cardinality({n \in 1 .. k : gone[n].injector = i})]
             /\ injector[i] = [sync |-> injector[i].sync,
                               result |-> injector[i].result, fg |-> injector[i].fg]
  BY DEF Unpend, InjectionParts, InjectorShape
<1>9. \A i \in Injectors : /\ injector'[i].sync = injector[i].sync
                           /\ injector'[i].result = injector[i].result
                           /\ injector'[i].fg = injector[i].fg -
                                 Cardinality({n \in 1 .. k : gone[n].injector = i})
                           /\ injector'[i] = [sync |-> injector'[i].sync,
                                              result |-> injector'[i].result,
                                              fg |-> injector'[i].fg]
  BY <1>8
<1>10. InjectorShape'
  <2>1. injector' = [i \in Injectors |-> injector'[i]]
    BY DEF Unpend
  <2> QED
    BY <1>9, <2>1 DEF InjectorShape
<1>11. Numbered'
  BY DEF InjectionParts, Numbered
<1>12. EntriesNumbered'
  <2> SUFFICES ASSUME NEW v \in Windows, NEW n \in DOMAIN Entries(v)'
               PROVE  /\ n <= Entries(v)'[n].id /\ Entries(v)'[n].id < nextId
                      /\ \A m \in DOMAIN queue : Entries(v)'[n].id < queue[m].id
                      /\ pending # NoEvent => Entries(v)'[n].id < pending.id
    BY DEF EntriesNumbered
  <2>1. CASE v # w
    BY <1>2, <2>1 DEF InjectionParts, EntriesNumbered
  <2>2. CASE v = w
    <3>1. n \in Nat /\ n + k \in DOMAIN Entries(w) /\ Entries(w)'[n] = Entries(w)[n + k]
      BY <1>1, <1>4, <2>2
    <3>2. /\ n + k <= Entries(w)[n + k].id /\ Entries(w)[n + k].id < nextId
          /\ \A m \in DOMAIN queue : Entries(w)[n + k].id < queue[m].id
          /\ pending # NoEvent => Entries(w)[n + k].id < pending.id
          /\ Entries(w)[n + k].id \in Nat
      BY <1>1, <3>1 DEF InjectionParts, EntriesNumbered
    <3>3. n <= Entries(w)[n + k].id
      BY <3>1, <3>2
    <3> QED
      BY <2>2, <3>1, <3>2, <3>3
  <2> QED
    BY <2>1, <2>2
<1>13. AllInjectable'
  <2>1. \A v \in Windows : \A n \in DOMAIN Entries(v)' : Injectable(Entries(v)'[n])
    BY <1>2, <1>4 DEF InjectionParts, AllInjectable
  <2> QED
    BY <1>3, <2>1 DEF InjectionParts, AllInjectable, Injectable
<1>14. OnePlace'
  <2> SUFFICES ASSUME NEW i \in Injectors
               PROVE  (/\ (Queued(i) \/ Awaited(i)) <=> injector[i].result = "PENDING"
                       /\ ~(Queued(i) /\ Awaited(i))
                       /\ \A m, n \in DOMAIN queue :
                             queue[m].injector = i /\ queue[n].injector = i => m = n
                       /\ injector[i].result \in {NONE, "PENDING"} =>
                             \A v \in Windows : \A n \in DOMAIN Entries(v) :
                                ~Holds(i, v, n)
                       /\ \A u, v \in Windows : \A m \in DOMAIN Entries(u),
                                                  n \in DOMAIN Entries(v) :
                             Holds(i, u, m) /\ Holds(i, v, n) => u = v /\ m = n)'
    BY DEF OnePlace
  <2>1. \A u \in Windows : \A m \in DOMAIN Entries(u)' : Holds(i, u, m)' =>
           LET p == IF u = w THEN m + k ELSE m
           IN  p \in DOMAIN Entries(u) /\ Holds(i, u, p)
    BY <1>2, <1>4, <1>6
  <2>2. injector[i].result \in {NONE, "PENDING"} =>
           \A v \in Windows : \A n \in DOMAIN Entries(v)' : ~Holds(i, v, n)'
    BY <2>1 DEF InjectionParts, OnePlace
  <2>3. ASSUME NEW u \in Windows, NEW v \in Windows,
               NEW m \in DOMAIN Entries(u)', NEW n \in DOMAIN Entries(v)',
               Holds(i, u, m)', Holds(i, v, n)'
        PROVE  u = v /\ m = n
    <3>1. u = v /\ (IF u = w THEN m + k ELSE m) = (IF v = w THEN n + k ELSE n)
      BY <2>1, <2>3 DEF InjectionParts, OnePlace
    <3>2. u = w => m \in Nat /\ n \in Nat
      BY <1>1, <3>1
    <3> QED
      BY <3>1, <3>2
  <2> QED
    BY <1>5, <1>9, <2>2, <2>3, ZenonT(30) DEF InjectionParts, OnePlace
<1>15. Counted'
  <2> SUFFICES ASSUME NEW i \in Injectors
               PROVE  injector'[i].fg =
                         IF \E v \in Windows : \E n \in DOMAIN Entries(v)' : Holds(i, v, n)'
                         THEN 1 ELSE 0
    BY DEF Counted
  <2> DEFINE own == {n \in 1 .. k : gone[n].injector = i}
  <2>1. injector'[i].fg = injector[i].fg - Cardinality(own)
    BY <1>9
  <2>2. injector[i].fg =
           IF \E v \in Windows : \E n \in DOMAIN Entries(v) : Holds(i, v, n) THEN 1 ELSE 0
    BY DEF InjectionParts, Counted
  <2>3. \A n \in 1 .. k : n \in DOMAIN Entries(w) /\ (n \in own <=> Holds(i, w, n))
    BY <1>1 DEF Holds
  <2>4. CASE own = {}
    <3>1. Cardinality(own) = 0
      BY <2>4, FS_EmptySet
    <3>2. (\E v \in Windows : \E n \in DOMAIN Entries(v) : Holds(i, v, n)) <=>
             \E v \in Windows : \E n \in DOMAIN Entries(v)' : Holds(i, v, n)'
      <4>1. ASSUME NEW v \in Windows, NEW n \in DOMAIN Entries(v), Holds(i, v, n)
            PROVE  \E m \in DOMAIN Entries(v)' : Holds(i, v, m)'
        <5>1. CASE v # w
          BY <1>2, <1>6, <4>1, <5>1
        <5>2. CASE v = w
          <6>1. Holds(i, w, n - k)'
            BY <1>7, <2>3, <2>4, <4>1, <5>2
          <6> QED
            BY <5>2, <6>1 DEF Holds
        <5> QED
          BY <5>1, <5>2
      <4>2. ASSUME NEW v \in Windows, NEW n \in DOMAIN Entries(v)', Holds(i, v, n)'
            PROVE  \E m \in DOMAIN Entries(v) : Holds(i, v, m)
        BY <1>2, <1>4, <1>6, <4>2
      <4> QED
        BY <4>1, <4>2
    <3> QED
      BY <2>1, <2>2, <3>1, <3>2
  <2>5. CASE own # {}
    <3>1. PICK n \in own : TRUE
      BY <2>5
    <3>2. n \in DOMAIN Entries(w) /\ Holds(i, w, n) /\ n \in 1 .. k
      BY <2>3
    <3>3. own = {n}
      BY <2>3, <3>2 DEF InjectionParts, OnePlace
    <3>4. Cardinality(own) = 1
      BY <3>3, FS_Singleton
    <3>5. ASSUME NEW v \in Windows, NEW m \in DOMAIN Entries(v)', Holds(i, v, m)'
          PROVE  FALSE
      <4>1. CASE v # w
        BY <1>2, <1>6, <3>2, <3>5, <4>1 DEF InjectionParts, OnePlace
      <4>2. CASE v = w
        <5>1. m + k \in DOMAIN Entries(w) /\ Holds(i, w, m + k) /\ m \in Nat \ {0}
          BY <1>1, <1>4, <1>6, <3>5, <4>2
        <5>2. m + k = n
          BY <3>2, <5>1 DEF InjectionParts, OnePlace
        <5> QED
          BY <3>2, <5>1, <5>2
      <4> QED
        BY <4>1, <4>2
    <3> HIDE DEF own
    <3>6. injector[i].fg = 1
      BY <2>2, <3>2
    <3> QED
      BY <2>1, <3>4, <3>5, <3>6
  <2> QED
    BY <2>4, <2>5
<1> QED
  BY <1>10, <1>11, <1>12, <1>13, <1>14, <1>15 DEF InjectionParts

\* The event that a pass takes: what is behind it in the queue and before it in
\* the windows, and that it is the only one of its injector.
LEMMA TakeInjection ==
    ASSUME InboundTypes, InjectionParts, NEW e \in Events, Takes(e),
           IF pending = NoEvent /\ queue = <<>>
           THEN e.id = nextId /\ nextId' = nextId + 1 ELSE nextId' = nextId
    PROVE  /\ nextId <= nextId' /\ e.id < nextId' /\ Injectable(e)
           /\ \A n \in DOMAIN queue' : /\ e.id < queue'[n].id /\ queue'[n].id < nextId'
                                       /\ Injectable(queue'[n])
           /\ \A m, n \in DOMAIN queue' : m < n => queue'[m].id < queue'[n].id
           /\ \A w \in Windows : \A n \in DOMAIN Entries(w) :
                 /\ Entries(w)[n].id < e.id
                 /\ \A m \in DOMAIN queue' : Entries(w)[n].id < queue'[m].id
           /\ \A i \in Injectors :
                 /\ \A m, n \in DOMAIN queue' :
                       queue'[m].injector = i /\ queue'[n].injector = i => m = n
                 /\ (Queued(i)' \/ e.injector = i) <=> injector[i].result = "PENDING"
                 /\ ~(Queued(i)' /\ e.injector = i)
<1> USE KnownEvents
<1>1. e.id \in Nat \ {0}
  BY DEF Events
<1>2. CASE pending # NoEvent /\ e = pending /\ queue' = queue
  <2>1. nextId' = nextId
    BY <1>2
  <2>2. \A i \in Injectors : /\ Queued(i)' <=> Queued(i)
                             /\ Awaited(i) <=> e.injector = i
    BY <1>2 DEF Queued, Awaited
  <2>3. \A i \in Injectors :
           /\ \A m, n \in DOMAIN queue' :
                 queue'[m].injector = i /\ queue'[n].injector = i => m = n
           /\ (Queued(i)' \/ e.injector = i) <=> injector[i].result = "PENDING"
           /\ ~(Queued(i)' /\ e.injector = i)
    BY <1>2, <2>2 DEF InjectionParts, OnePlace
  <2>4. /\ e.id < nextId' /\ Injectable(e)
        /\ \A n \in DOMAIN queue' : /\ e.id < queue'[n].id /\ queue'[n].id < nextId'
                                    /\ Injectable(queue'[n])
        /\ \A m, n \in DOMAIN queue' : m < n => queue'[m].id < queue'[n].id
    BY <1>2, <2>1 DEF InjectionParts, Numbered, AllInjectable
  <2>5. \A w \in Windows : \A n \in DOMAIN Entries(w) :
           /\ Entries(w)[n].id < e.id
           /\ \A m \in DOMAIN queue' : Entries(w)[n].id < queue'[m].id
    BY <1>2 DEF InjectionParts, EntriesNumbered
  <2> QED
    BY <2>1, <2>3, <2>4, <2>5
<1>3. CASE pending = NoEvent /\ queue # <<>> /\ e = Head(queue) /\ queue' = Tail(queue)
  <2>1. nextId' = nextId
    BY <1>3
  <2>2. /\ 1 \in DOMAIN queue /\ e = queue[1]
        /\ DOMAIN queue' = 1 .. Len(queue) - 1
        /\ \A n \in DOMAIN queue' : n + 1 \in DOMAIN queue /\ queue'[n] = queue[n + 1]
    BY <1>3
  <2>3. \A n \in DOMAIN queue : n = 1 \/ (n - 1 \in DOMAIN queue' /\ queue[n] = queue'[n - 1])
    BY <2>2
  <2>4. \A i \in Injectors : ~Awaited(i)
    BY <1>3 DEF Awaited
  <2>5. \A i \in Injectors : Queued(i) <=> (Queued(i)' \/ e.injector = i)
    BY <2>2, <2>3 DEF Queued
  <2>6. ASSUME NEW i \in Injectors, NEW m \in DOMAIN queue', NEW n \in DOMAIN queue',
               queue'[m].injector = i, queue'[n].injector = i
        PROVE  m = n
    <3>1. m + 1 = n + 1
      BY <2>2, <2>6 DEF InjectionParts, OnePlace
    <3> QED
      BY <2>2, <3>1
  <2>7. ASSUME NEW i \in Injectors, Queued(i)', e.injector = i
        PROVE  FALSE
    <3>1. PICK n \in DOMAIN queue' : queue'[n].injector = i
      BY <2>7 DEF Queued
    <3>2. n + 1 = 1
      BY <2>2, <2>7, <3>1 DEF InjectionParts, OnePlace
    <3> QED
      BY <2>2, <3>2
  <2>8. \A n \in DOMAIN queue' : /\ e.id < queue'[n].id /\ queue'[n].id < nextId'
                                 /\ Injectable(queue'[n])
    <3> SUFFICES ASSUME NEW n \in DOMAIN queue'
                 PROVE  /\ e.id < queue'[n].id /\ queue'[n].id < nextId'
                        /\ Injectable(queue'[n])
      OBVIOUS
    <3>1. n + 1 \in DOMAIN queue /\ 1 < n + 1 /\ queue'[n] = queue[n + 1]
      BY <2>2
    <3> QED
      BY <2>1, <2>2, <3>1 DEF InjectionParts, Numbered, AllInjectable
  <2>9. \A m, n \in DOMAIN queue' : m < n => queue'[m].id < queue'[n].id
    <3> SUFFICES ASSUME NEW m \in DOMAIN queue', NEW n \in DOMAIN queue', m < n
                 PROVE  queue'[m].id < queue'[n].id
      OBVIOUS
    <3>1. /\ m + 1 \in DOMAIN queue /\ n + 1 \in DOMAIN queue /\ m + 1 < n + 1
          /\ queue'[m] = queue[m + 1] /\ queue'[n] = queue[n + 1]
      BY <2>2
    <3> QED
      BY <3>1 DEF InjectionParts, Numbered
  <2>10. e.id < nextId' /\ Injectable(e)
    BY <2>1, <2>2 DEF InjectionParts, Numbered, AllInjectable
  <2>11. \A w \in Windows : \A n \in DOMAIN Entries(w) :
            /\ Entries(w)[n].id < e.id
            /\ \A m \in DOMAIN queue' : Entries(w)[n].id < queue'[m].id
    BY <2>2 DEF InjectionParts, EntriesNumbered
  <2>12. \A i \in Injectors :
            (Queued(i)' \/ e.injector = i) <=> injector[i].result = "PENDING"
    BY <2>4, <2>5 DEF InjectionParts, OnePlace
  <2> QED
    BY <2>1, <2>6, <2>7, <2>8, <2>9, <2>10, <2>11, <2>12
<1>4. CASE pending = NoEvent /\ queue = <<>> /\ queue' = <<>> /\ e.injector = NONE
  <2>1. e.id = nextId /\ nextId' = nextId + 1 /\ nextId <= nextId' /\ e.id < nextId'
    BY <1>4
  <2>2. Injectable(e)
    BY <1>4 DEF Injectable
  <2>3. \A i \in Injectors : /\ ~Queued(i)' /\ ~Queued(i) /\ ~Awaited(i)
                             /\ e.injector # i
    BY <1>4, InboundConstants DEF Queued, Awaited
  <2>4. \A i \in Injectors : injector[i].result # "PENDING"
    BY <2>3 DEF InjectionParts, OnePlace
  <2>5. \A w \in Windows : \A n \in DOMAIN Entries(w) : Entries(w)[n].id < e.id
    BY <2>1 DEF InjectionParts, EntriesNumbered
  <2>6. DOMAIN queue' = {}
    BY <1>4
  <2> QED
    BY <2>1, <2>2, <2>3, <2>4, <2>5, <2>6
<1> QED
  BY <1>2, <1>3, <1>4 DEF Takes

\* A search that succeeds found a window.
LEMMA TargetFound ==
    ASSUME InboundTypes, NEW e \in Events, e.type \in {"key", "touch"}, NEW w0,
           FindTarget(e, w0).result = "SUCCEEDED"
    PROVE  (IF e.type = "key" THEN focus.win ELSE e.code) \in Windows
<1> DEFINE win == IF e.type = "key" THEN focus.win ELSE e.code
<1>1. win \in Windows \cup {NONE}
  BY DEF InboundTypes, Events
<1>2. win # NONE
  <2> SUFFICES ASSUME win = NONE PROVE FALSE
    OBVIOUS
  <2>1. FindTarget(e, w0).result =
           IF focus.app = NONE THEN "FAILED"
           ELSE handleTargetsNotReadyLocked(w0, focus.app, NONE).result
    BY DEF FindTarget
  <2>2. handleTargetsNotReadyLocked(w0, focus.app, NONE).result
           \in {"TIMED_OUT", "PENDING"}
    BY DEF handleTargetsNotReadyLocked
  <2> QED
    BY <2>1, <2>2
<1> QED
  BY <1>1, <1>2

\* An event that is left pending, with another answer of the policy or none, is
\* still the one its injector waits for.
LEMMA WaitInjection ==
    ASSUME InboundTypes, InboundTypes', InjectionParts, NEW e \in Events, Takes(e),
           IF pending = NoEvent /\ queue = <<>>
           THEN e.id = nextId /\ nextId' = nextId + 1 ELSE nextId' = nextId,
           UNCHANGED <<injector, window, reader, conf>>, pending' # NoEvent,
           pending'.id = e.id, pending'.type = e.type, pending'.injector = e.injector
    PROVE  InjectionParts'
<1>1. \A w \in Windows : Entries(w)' = Entries(w)
  BY DEF Entries
<1>2. MaxEvents' = MaxEvents
  BY DEF MaxEvents, It
<1>3. \A i \in Injectors, w \in Windows : \A n : Holds(i, w, n)' <=> Holds(i, w, n)
  BY <1>1 DEF Holds
<1>4. \A i \in Injectors : Awaited(i)' <=> e.injector = i
  BY DEF Awaited
<1>5. Numbered'
  BY TakeInjection DEF Numbered
<1>6. EntriesNumbered'
  <2>1. \A w \in Windows : \A n \in DOMAIN Entries(w) :
           /\ n <= Entries(w)[n].id /\ Entries(w)[n].id < nextId
           /\ Entries(w)[n].id \in Nat
    BY KnownEvents DEF InjectionParts, EntriesNumbered
  <2>2. nextId \in Nat /\ nextId' \in Nat /\ nextId <= nextId'
    BY TakeInjection DEF InboundTypes
  <2> QED
    BY <1>1, <2>1, <2>2, TakeInjection DEF EntriesNumbered
<1>7. AllInjectable'
  <2>1. Injectable(pending)'
    BY <1>2, TakeInjection DEF Injectable
  <2>2. \A n \in DOMAIN queue' : Injectable(queue[n])'
    BY <1>2, TakeInjection DEF Injectable
  <2> QED
    BY <1>1, <1>2, <2>1, <2>2 DEF InjectionParts, AllInjectable, Injectable
<1>8. OnePlace'
  <2>1. \A i \in Injectors :
           /\ \A m, n \in DOMAIN queue' :
                 queue'[m].injector = i /\ queue'[n].injector = i => m = n
           /\ (Queued(i)' \/ Awaited(i)') <=> injector'[i].result = "PENDING"
           /\ ~(Queued(i)' /\ Awaited(i)')
    BY <1>4, TakeInjection
  <2> QED
    BY <1>1, <1>3, <2>1 DEF InjectionParts, OnePlace
<1>9. Counted' /\ InjectorShape'
  BY <1>1, <1>3 DEF InjectionParts, Counted, InjectorShape
<1> QED
  BY <1>5, <1>6, <1>7, <1>8, <1>9 DEF InjectionParts

\* Event e is done with: its injector has result r, and window `to' has e.
DoneWith(e, r, to) ==
    /\ \A i \in Injectors :
          IF e.injector = i
          THEN /\ injector'[i].result = r
               /\ injector'[i].fg = injector[i].fg + (IF to = NONE THEN 0 ELSE 1)
          ELSE /\ injector'[i].result = injector[i].result
               /\ injector'[i].fg = injector[i].fg
    /\ \A v \in Windows : window'[v].entries =
          IF v = to THEN Append(window[v].entries, e) ELSE window[v].entries

\* An event that is done with has a result, and is counted if a window has it.
LEMMA DoneInjection ==
    ASSUME InboundTypes, InboundTypes', InjectionParts, NEW e \in Events, Takes(e),
           IF pending = NoEvent /\ queue = <<>>
           THEN e.id = nextId /\ nextId' = nextId + 1 ELSE nextId' = nextId,
           UNCHANGED <<reader, conf>>, pending' = NoEvent,
           NEW r, NEW to \in Windows \cup {NONE}, e.injector # NONE => r # "PENDING",
           to # NONE => r = "SUCCEEDED", InjectorShape', DoneWith(e, r, to)
    PROVE  InjectionParts'
<1> USE DEF DoneWith
<1>1. \A v \in Windows :
         /\ DOMAIN Entries(v) = 1 .. Len(Entries(v)) /\ Len(Entries(v)) \in Nat
         /\ \A n \in DOMAIN Entries(v) : Entries(v)[n].id \in Nat
  BY KnownEvents
<1>2. \A v \in Windows :
         /\ v # to => Entries(v)' = Entries(v)
         /\ v = to => /\ Len(Entries(v)') = Len(Entries(v)) + 1
                      /\ DOMAIN Entries(v)' = 1 .. Len(Entries(v)) + 1
                      /\ Entries(v)'[Len(Entries(v)) + 1] = e
                      /\ \A n \in DOMAIN Entries(v) : Entries(v)'[n] = Entries(v)[n]
  <2> SUFFICES ASSUME NEW v \in Windows
               PROVE  /\ v # to => Entries(v)' = Entries(v)
                      /\ v = to =>
                            /\ Len(Entries(v)') = Len(Entries(v)) + 1
                            /\ DOMAIN Entries(v)' = 1 .. Len(Entries(v)) + 1
                            /\ Entries(v)'[Len(Entries(v)) + 1] = e
                            /\ \A n \in DOMAIN Entries(v) :
                                  Entries(v)'[n] = Entries(v)[n]
    OBVIOUS
  <2>1. Entries(v) \in Seq(Events)
    BY KnownEvents
  <2>2. Entries(v)' = IF v = to THEN Append(Entries(v), e) ELSE Entries(v)
    BY DEF Entries
  <2> QED
    BY <2>1, <2>2
<1>3. \A v \in Windows : \A n \in DOMAIN Entries(v)' :
         \/ n \in DOMAIN Entries(v) /\ Entries(v)'[n] = Entries(v)[n]
         \/ v = to /\ n = Len(Entries(v)) + 1 /\ Entries(v)'[n] = e
  BY <1>1, <1>2
<1>4. \A v \in Windows : \A n \in DOMAIN Entries(v) :
         n \in DOMAIN Entries(v)' /\ Entries(v)'[n] = Entries(v)[n]
  BY <1>1, <1>2
<1>5. MaxEvents' = MaxEvents
  BY DEF MaxEvents, It
<1>6. nextId \in Nat /\ nextId' \in Nat /\ nextId <= nextId' /\ e.id \in Nat \ {0}
  BY TakeInjection DEF InboundTypes, Events
<1>7. \A i \in Injectors : ~Awaited(i)'
  BY DEF Awaited
<1>8. Numbered'
  BY TakeInjection DEF Numbered
<1>9. EntriesNumbered'
  <2> SUFFICES ASSUME NEW v \in Windows, NEW n \in DOMAIN Entries(v)'
               PROVE  /\ n <= Entries(v)'[n].id /\ Entries(v)'[n].id < nextId'
                      /\ \A m \in DOMAIN queue' : Entries(v)'[n].id < queue'[m].id
    BY DEF EntriesNumbered
  <2>1. CASE n \in DOMAIN Entries(v) /\ Entries(v)'[n] = Entries(v)[n]
    <3>1. /\ n <= Entries(v)[n].id /\ Entries(v)[n].id < nextId
          /\ Entries(v)[n].id \in Nat
      BY <1>1, <2>1 DEF InjectionParts, EntriesNumbered
    <3> QED
      BY <1>6, <2>1, <3>1, TakeInjection
  <2>2. CASE v = to /\ n = Len(Entries(v)) + 1 /\ Entries(v)'[n] = e
    <3>1. n <= e.id
      <4>1. CASE Len(Entries(v)) = 0
        BY <1>6, <2>2, <4>1
      <4>2. CASE Len(Entries(v)) # 0
        <5> DEFINE l == Len(Entries(v))
        <5>1. l \in DOMAIN Entries(v) /\ l \in Nat
          BY <1>1, <4>2
        <5> HIDE DEF l
        <5>2. l <= Entries(v)[l].id /\ Entries(v)[l].id \in Nat
          BY <1>1, <5>1 DEF InjectionParts, EntriesNumbered
        <5>3. Entries(v)[l].id < e.id
          BY <5>1, TakeInjection
        <5>4. n = l + 1
          BY <2>2 DEF l
        <5> QED
          BY <1>6, <5>1, <5>2, <5>3, <5>4
      <4> QED
        BY <4>1, <4>2
    <3> QED
      BY <2>2, <3>1, TakeInjection
  <2> QED
    BY <1>3, <2>1, <2>2
<1>10. AllInjectable'
  <2>1. \A n \in DOMAIN queue' : Injectable(queue[n])'
    BY <1>5, TakeInjection DEF Injectable
  <2>2. Injectable(e)
    BY TakeInjection
  <2>3. \A v \in Windows : \A n \in DOMAIN Entries(v)' : Injectable(Entries(v)'[n])
    BY <1>3, <2>2 DEF InjectionParts, AllInjectable
  <2> QED
    BY <1>5, <2>1, <2>3 DEF InjectionParts, AllInjectable, Injectable
<1>11. ASSUME NEW i \in Injectors, e.injector # i
       PROVE  \A v \in Windows : \A n : Holds(i, v, n)' <=> Holds(i, v, n)
  BY <1>3, <1>4, <1>11 DEF Holds
<1>12. ASSUME NEW i \in Injectors, e.injector = i
       PROVE  /\ \A v \in Windows : \A n \in DOMAIN Entries(v) : ~Holds(i, v, n)
              /\ \A v \in Windows : \A n \in DOMAIN Entries(v)' :
                    Holds(i, v, n)' <=> v = to /\ n = Len(Entries(v)) + 1
  <2>1. injector[i].result = "PENDING"
    BY <1>12, TakeInjection
  <2>2. \A v \in Windows : \A n \in DOMAIN Entries(v) : ~Holds(i, v, n)
    BY <2>1 DEF InjectionParts, OnePlace
  <2>3. \A v \in Windows : \A n \in DOMAIN Entries(v) : Entries(v)[n].injector # i
    BY <2>2 DEF Holds
  <2>4. \A v \in Windows : Len(Entries(v)) + 1 \notin DOMAIN Entries(v)
    BY <1>1
  <2>5. ASSUME NEW v \in Windows, NEW n \in DOMAIN Entries(v)'
        PROVE  Holds(i, v, n)' <=> v = to /\ n = Len(Entries(v)) + 1
    BY <1>3, <1>12, <2>3, <2>4 DEF Holds
  <2> QED
    BY <2>2, <2>5
<1>13. OnePlace'
  <2> SUFFICES ASSUME NEW i \in Injectors
               PROVE  (/\ (Queued(i) \/ Awaited(i)) <=> injector[i].result = "PENDING"
                       /\ ~(Queued(i) /\ Awaited(i))
                       /\ \A m, n \in DOMAIN queue :
                             queue[m].injector = i /\ queue[n].injector = i => m = n
                       /\ injector[i].result \in {NONE, "PENDING"} =>
                             \A v \in Windows : \A n \in DOMAIN Entries(v) :
                                ~Holds(i, v, n)
                       /\ \A u, v \in Windows : \A m \in DOMAIN Entries(u),
                                                  n \in DOMAIN Entries(v) :
                             Holds(i, u, m) /\ Holds(i, v, n) => u = v /\ m = n)'
    BY DEF OnePlace
  <2>1. \A m, n \in DOMAIN queue' :
           queue'[m].injector = i /\ queue'[n].injector = i => m = n
    BY TakeInjection
  <2>2. CASE e.injector = i
    <3>1. ~Queued(i)' /\ injector'[i].result = r /\ r # "PENDING"
      BY <2>2, TakeInjection, InboundConstants
    <3>2. r = NONE => to = NONE
      BY InboundConstants
    <3>3. \A v \in Windows : \A n \in DOMAIN Entries(v)' :
             Holds(i, v, n)' => to # NONE /\ v = to /\ n = Len(Entries(v)) + 1
      BY <1>12, <2>2, InboundConstants
    <3> QED
      BY <1>7, <2>1, <3>1, <3>2, <3>3
  <2>3. CASE e.injector # i
    <3>1. Queued(i)' <=> injector'[i].result = "PENDING"
      BY <2>3, TakeInjection
    <3>2. \A v \in Windows : \A n \in DOMAIN Entries(v)' :
             Holds(i, v, n)' => n \in DOMAIN Entries(v) /\ Holds(i, v, n)
      BY <1>11, <2>3 DEF Holds
    <3>3. injector'[i].result \in {NONE, "PENDING"} =>
             \A v \in Windows : \A n \in DOMAIN Entries(v)' : ~Holds(i, v, n)'
      BY <2>3, <3>2 DEF InjectionParts, OnePlace
    <3>4. \A u, v \in Windows : \A m \in DOMAIN Entries(u)', n \in DOMAIN Entries(v)' :
             Holds(i, u, m)' /\ Holds(i, v, n)' => u = v /\ m = n
      BY <3>2 DEF InjectionParts, OnePlace
    <3> QED
      BY <1>7, <2>1, <3>1, <3>3, <3>4
  <2> QED
    BY <2>2, <2>3
<1>14. Counted'
  <2> SUFFICES ASSUME NEW i \in Injectors
               PROVE  injector'[i].fg =
                         IF \E v \in Windows : \E n \in DOMAIN Entries(v)' : Holds(i, v, n)'
                         THEN 1 ELSE 0
    BY DEF Counted
  <2>1. injector[i].fg =
           IF \E v \in Windows : \E n \in DOMAIN Entries(v) : Holds(i, v, n) THEN 1 ELSE 0
    BY DEF InjectionParts, Counted
  <2>2. CASE e.injector = i
    <3>1. injector[i].fg = 0
      BY <1>12, <2>1, <2>2
    <3>2. (\E v \in Windows : \E n \in DOMAIN Entries(v)' : Holds(i, v, n)') <=> to # NONE
      <4>1. ASSUME to # NONE
            PROVE  \E v \in Windows : \E n \in DOMAIN Entries(v)' : Holds(i, v, n)'
        <5>1. to \in Windows /\ Len(Entries(to)) + 1 \in DOMAIN Entries(to)'
          BY <1>1, <1>2, <4>1
        <5> QED
          BY <1>12, <2>2, <5>1
      <4>2. ASSUME to = NONE
            PROVE  \A v \in Windows : \A n \in DOMAIN Entries(v)' : ~Holds(i, v, n)'
        BY <1>12, <2>2, <4>2, InboundConstants
      <4> QED
        BY <4>1, <4>2
    <3> QED
      BY <2>2, <3>1, <3>2
  <2>3. CASE e.injector # i
    <3>1. (\E v \in Windows : \E n \in DOMAIN Entries(v)' : Holds(i, v, n)') <=>
             \E v \in Windows : \E n \in DOMAIN Entries(v) : Holds(i, v, n)
      BY <1>4, <1>11, <2>3 DEF Holds
    <3> QED
      BY <2>1, <2>3, <3>1
  <2> QED
    BY <2>2, <2>3
<1> QED
  BY <1>8, <1>9, <1>10, <1>13, <1>14 DEF InjectionParts

\* The event of a pass.
Taken == IF pending # NoEvent THEN pending
         ELSE IF queue = <<>> THEN synthesizeKeyRepeatLocked ELSE Head(queue)

\* A pass takes an event, or makes one with the next number.
LEMMA PassTakes ==
    ASSUME InboundTypes, dispatchPending
    PROVE  /\ Taken \in Events /\ Takes(Taken)
           /\ IF pending = NoEvent /\ queue = <<>>
              THEN Taken.id = nextId /\ nextId' = nextId + 1 ELSE nextId' = nextId
<1>1. CASE pending = NoEvent /\ queue = <<>>
  <2>1. /\ lastKey \in [code : Codes, pass : BOOLEAN, timer : BOOLEAN]
        /\ lastKey # NoKey /\ queue' = queue /\ nextId' = nextId + 1
    BY <1>1 DEF dispatchPending, RepeatsKeys, InboundTypes
  <2>2. Taken = synthesizeKeyRepeatLocked
    BY <1>1 DEF Taken
  <2>3. Taken \in Events
    BY <2>1, <2>2, MadeEvents DEF synthesizeKeyRepeatLocked
  <2>4. /\ Taken.type = "key" /\ Taken.code = lastKey.code /\ Taken.action = "DOWN"
        /\ Taken.injector = NONE /\ Taken.id = nextId
    BY <2>2 DEF synthesizeKeyRepeatLocked, Event
  <2> QED
    BY <1>1, <2>1, <2>3, <2>4 DEF Takes
<1>2. CASE pending = NoEvent /\ queue # <<>>
  <2>1. queue' = Tail(queue) /\ nextId' = nextId
    BY <1>2 DEF dispatchPending
  <2>2. Taken = Head(queue) /\ Taken \in Events
    BY <1>2 DEF Taken, InboundTypes
  <2> QED
    BY <1>2, <2>1, <2>2 DEF Takes
<1>3. CASE pending # NoEvent
  <2>1. queue' = queue /\ nextId' = nextId
    BY <1>3 DEF dispatchPending
  <2>2. Taken = pending /\ Taken \in Events
    BY <1>3 DEF Taken, InboundTypes
  <2> QED
    BY <1>3, <2>1, <2>2 DEF Takes
<1> QED
  BY <1>1, <1>2, <1>3

\* A pass keeps the injectors' accounts.
LEMMA DispatchInjection ==
    ASSUME InboundTypes, InboundTypes', InjectionParts, dispatchPending, UNCHANGED conf
    PROVE  InjectionParts'
<1> DEFINE fresh == pending = NoEvent
           synthesizes == fresh /\ queue = <<>>
           e == Taken
           target == IF e.type = "key" THEN focus.win ELSE e.code
           switchDue == "appSwitch" \in due /\ ~synthesizes
           stale == "stale" \in due
           found == FindTarget(e, IF fresh THEN NoWait ELSE wait)
           d == Decision(e, fresh, switchDue, stale)
           Effect(x) ==
              /\ pending' = IF ~x.waits THEN NoEvent
                            ELSE IF x.asks THEN [e EXCEPT !.intercept = "UNKNOWN"]
                            ELSE e
              /\ injector' =
                    IF x.waits THEN injector
                    ELSE IF x.sends /\ x.result = "SUCCEEDED"
                    THEN Pend(setInjectionResultLocked(injector, e, x.result), e)
                    ELSE setInjectionResultLocked(injector, e, x.result)
              /\ window' = IF x.waits THEN window
                           ELSE IF e.type = "reset" THEN AllKeysUp(window)
                           ELSE IF x.drop # NONE THEN dropInboundEventLocked(window, e)
                           ELSE IF x.sends /\ x.result = "SUCCEEDED"
                           THEN Delivered(window, target, e) ELSE window
<1>1. Effect(d) /\ UNCHANGED reader
  <2>1. \E x \in {d} : Effect(x)
    BY DEF dispatchPending, Taken
  <2>2. UNCHANGED reader
    BY DEF dispatchPending
  <2> HIDE DEF Effect, d
  <2> QED
    BY <2>1, <2>2
<1>2. /\ e \in Events /\ Takes(e)
      /\ IF pending = NoEvent /\ queue = <<>>
         THEN e.id = nextId /\ nextId' = nextId + 1 ELSE nextId' = nextId
  BY PassTakes
<1>3. Injectable(e)
  BY <1>2, TakeInjection
<1>4. /\ e.type \in {"key", "touch"} /\ ~d.waits /\ d.drop = NONE =>
            d.sends /\ d.result = found.result /\ found.result # "PENDING"
      /\ d.drop # NONE => ~d.sends /\ d.result \in {"SUCCEEDED", "FAILED"}
      /\ d.sends => e.type \in {"key", "touch"}
  <2>1. fresh \in BOOLEAN /\ switchDue \in BOOLEAN /\ stale \in BOOLEAN
    OBVIOUS
  <2> HIDE DEF e, fresh, switchDue, stale
  <2>2. d.sends => Sends(e)
    BY <2>1, DecisionParts
  <2>3. d.sends => e.type \in {"key", "touch"}
    BY <2>2 DEF Sends
  <2>4. e.type \in {"key", "touch"} /\ ~d.waits /\ d.drop = NONE =>
           d.sends /\ d.result = found.result /\ found.result # "PENDING"
    BY <2>1, DecisionResult
  <2>5. d.drop # NONE => ~d.sends /\ d.result \in {"SUCCEEDED", "FAILED"}
    BY <2>1, DroppedResult
  <2> HIDE DEF d, found
  <2> QED
    BY <2>3, <2>4, <2>5
<1> HIDE DEF e, d, found
<1>5. CASE d.waits
  <2>1. /\ pending' # NoEvent /\ pending'.id = e.id /\ pending'.type = e.type
        /\ pending'.injector = e.injector
    <3>1. LET f == [e EXCEPT !.intercept = "UNKNOWN"]
          IN  f \in Events /\ f.id = e.id /\ f.type = e.type /\ f.injector = e.injector
      BY <1>2 DEF Events
    <3> QED
      BY <1>1, <1>2, <1>5, <3>1, EventsAreSome
  <2>2. UNCHANGED <<injector, window>>
    BY <1>1, <1>5
  <2> QED
    BY <1>1, <1>2, <2>1, <2>2, WaitInjection
<1>6. CASE ~d.waits
  <2> DEFINE goes == d.sends /\ d.result = "SUCCEEDED"
             to == IF goes THEN target ELSE NONE
             set == setInjectionResultLocked(injector, e, d.result)
  <2>1. pending' = NoEvent /\ injector' = IF goes THEN Pend(set, e) ELSE set
    BY <1>1, <1>6
  <2>2. goes => d.drop = NONE /\ e.type \in {"key", "touch"} /\ target \in Windows
    <3>1. goes => d.drop = NONE /\ e.type \in {"key", "touch"}
      BY <1>4
    <3>2. goes => found.result = "SUCCEEDED"
      BY <1>4, <1>6, <3>1
    <3>3. goes => target \in Windows
      BY <1>2, <3>1, <3>2, TargetFound DEF found
    <3> QED
      BY <3>1, <3>3
  <2>3. to \in Windows \cup {NONE} /\ (to # NONE <=> goes)
    BY <2>2, InboundConstants
  <2>4. window' = IF goes THEN Delivered(window, target, e)
                  ELSE IF e.type = "reset" THEN AllKeysUp(window)
                  ELSE IF d.drop # NONE THEN dropInboundEventLocked(window, e) ELSE window
    <3> HIDE DEF target
    <3> QED
      BY <1>1, <1>6, <2>2
  <2>5. \A v \in Windows : window'[v].entries =
           IF v = to THEN Append(window[v].entries, e) ELSE window[v].entries
    <3>1. window \in WindowStates
      BY DEF InboundTypes
    <3>2. \A v \in Windows : AllKeysUp(window)[v].entries = window[v].entries
      BY <3>1 DEF AllKeysUp, WindowStates
    <3>3. \A t \in Windows, v \in Windows : Delivered(window, t, e)[v].entries =
             IF v = t THEN Append(window[v].entries, e) ELSE window[v].entries
      BY <3>1 DEF Delivered, WindowStates
    <3>4. CASE goes
      <4>1. to = target /\ target \in Windows
        BY <2>2, <3>4
      <4>2. window' = Delivered(window, target, e)
        BY <2>4, <3>4
      <4> HIDE DEF target, to
      <4> QED
        BY <3>3, <4>1, <4>2
    <3>5. CASE ~goes
      <4>1. \A v \in Windows : v # to
        BY <3>5, InboundConstants
      <4>2. window' \in {window, AllKeysUp(window)}
        BY <2>4, <3>5 DEF dropInboundEventLocked
      <4> HIDE DEF to
      <4> QED
        BY <3>2, <4>1, <4>2
    <3> QED
      BY <3>4, <3>5
  <2>6. e.injector # NONE => d.result # "PENDING"
    <3>1. e.injector # NONE => e.type \in {"key", "touch"}
      BY <1>3 DEF Injectable
    <3> QED
      BY <1>4, <1>6, <3>1
  <2>7. goes => d.result = "SUCCEEDED"
    OBVIOUS
  <2> HIDE DEF goes
  <2>8. e.injector \in Injectors \cup {NONE}
    BY <1>2 DEF Events
  <2>9. /\ InjectorShape'
        /\ \A i \in Injectors :
              IF e.injector = i
              THEN /\ injector'[i].result = d.result
                   /\ injector'[i].fg = injector[i].fg + (IF goes THEN 1 ELSE 0)
              ELSE /\ injector'[i].result = injector[i].result
                   /\ injector'[i].fg = injector[i].fg
    <3>1. CASE e.injector = NONE
      <4>1. injector' = injector
        BY <2>1, <3>1 DEF Pend, setInjectionResultLocked
      <4>2. \A i \in Injectors : e.injector # i
        BY <3>1, InboundConstants
      <4> QED
        BY <4>1, <4>2 DEF InjectionParts, InjectorShape
    <3>2. CASE e.injector \in Injectors
      <4> DEFINE j == e.injector
      <4>1. e.injector # NONE
        BY <3>2, InboundConstants
      <4>2. set = [injector EXCEPT ![j].result = d.result]
        BY <4>1 DEF setInjectionResultLocked
      <4>3. injector' = IF goes THEN [set EXCEPT ![j].fg = @ + 1] ELSE set
        BY <2>1, <4>1 DEF Pend
      <4> HIDE DEF set, j
      <4>4. j \in Injectors /\ j = e.injector
        BY <3>2 DEF j
      <4>5. /\ injector = [i \in Injectors |-> injector[i]]
            /\ \A i \in Injectors :
                  injector[i] = [sync |-> injector[i].sync, fg |-> injector[i].fg,
                                 result |-> injector[i].result]
        BY DEF InjectionParts, InjectorShape
      <4>6. injector[j].fg \in Nat
        BY <4>4 DEF InjectionParts, Counted
      <4>7. /\ set = [i \in Injectors |-> set[i]]
            /\ set[j] = [sync |-> injector[j].sync, fg |-> injector[j].fg,
                         result |-> d.result]
            /\ \A i \in Injectors : i # j => set[i] = injector[i]
        BY <4>2, <4>4, <4>5
      <4>8. /\ injector' = [i \in Injectors |-> injector'[i]]
            /\ injector'[j] = [sync |-> injector[j].sync, result |-> d.result,
                               fg |-> injector[j].fg + (IF goes THEN 1 ELSE 0)]
            /\ \A i \in Injectors : i # j => injector'[i] = injector[i]
        BY <4>3, <4>4, <4>6, <4>7
      <4>9. InjectorShape'
        BY <4>4, <4>5, <4>8 DEF InjectorShape
      <4> QED
        BY <4>4, <4>8, <4>9
    <3> QED
      BY <2>8, <3>1, <3>2
  <2> HIDE DEF to
  <2>10. DoneWith(e, d.result, to)
    BY <2>3, <2>5, <2>9 DEF DoneWith
  <2>11. to # NONE => d.result = "SUCCEEDED"
    BY <2>3, <2>7
  <2>12. UNCHANGED <<reader, conf>> /\ pending' = NoEvent /\ to \in Windows \cup {NONE}
    BY <1>1, <2>1, <2>3
  <2> QED
    BY <1>2, <2>6, <2>9, <2>10, <2>11, <2>12, DoneInjection
<1> QED
  BY <1>5, <1>6

\* Events that the reader makes have no injector.
LEMMA SourcesInjection ==
    ASSUME InboundTypes, InboundTypes', InjectionParts, Reader \/ Inject, UNCHANGED conf
    PROVE  InjectionParts'
<1>1. /\ It.injectors \subseteq Injectors /\ Keys \subseteq KeyCodes
      /\ MaxEvents' = MaxEvents
  BY KnownConfiguration DEF InboundTypes, MaxEvents, It
<1>2. reader # NoEvent => reader.injector = NONE
  BY DEF InjectionParts, AllInjectable
<1>3. ASSUME NEW k, NEW a, NEW meta, NEW pass, notifyKey(k, a, meta, pass)
      PROVE  InjectionParts'
  <2>1. /\ UNCHANGED <<queue, pending, nextId, window, injector>>
        /\ \E c : reader' = Event("key", c, a, pass, NONE)
    BY <1>3 DEF notifyKey, NotSettings, NotLoop
  <2>2. reader'.injector = NONE
    BY <2>1 DEF Event
  <2>3. InjectorShape' /\ nextId' >= nextId
    BY <2>1 DEF InjectionParts, InjectorShape, InboundTypes
  <2> QED
    BY <2>1, <2>2, <2>3, InjectionUnchanged
<1>4. ASSUME NEW e \in Events, e.id = nextId, e.injector = NONE,
             enqueueInboundEventLocked(e), reader' # NoEvent => reader'.injector = NONE,
             UNCHANGED <<pending, window, injector>>
      PROVE  InjectionParts'
  <2>1. queue' = Append(queue, e) /\ nextId' = nextId + 1
    BY <1>4 DEF enqueueInboundEventLocked
  <2>2. \A i \in Injectors : e.injector # i
    BY <1>4, InboundConstants
  <2>3. Injectable(e) /\ InjectorShape'
    BY <1>4 DEF Injectable, InjectionParts, InjectorShape
  <2> QED
    BY <1>4, <2>1, <2>2, <2>3, EnqueueInjection
<1>5. ASSUME notifyKeyEnqueue \/ \E passes \in BOOLEAN : filterInputEvent(passes)
      PROVE  InjectionParts'
  <2>1. /\ UNCHANGED <<pending, window, injector>>
        /\ reader # NoEvent /\ reader \in Events
        /\ \/ UNCHANGED <<reader, nextId, NotQueue>>
           \/ ReaderEnqueues
           \/ FilterConsumes
    BY <1>5, ReaderOutcomes
  <2>2. reader.injector = NONE
    BY <1>2, <2>1
  <2>3. CASE UNCHANGED <<reader, nextId, NotQueue>> \/ FilterConsumes
    <3>1. /\ UNCHANGED queue /\ nextId' >= nextId
          /\ reader' # NoEvent => reader'.injector = NONE
      BY <2>2, <2>3 DEF FilterConsumes, NotQueue, InboundTypes
    <3>2. InjectorShape'
      BY <2>1 DEF InjectionParts, InjectorShape
    <3> QED
      BY <2>1, <3>1, <3>2, InjectionUnchanged
  <2>4. CASE ReaderEnqueues
    <3> DEFINE e == [reader EXCEPT !.id = nextId]
    <3>1. enqueueInboundEventLocked(e) /\ reader' = NoEvent
      BY <2>4 DEF ReaderEnqueues
    <3>2. e \in Events /\ e.id = nextId /\ e.injector = NONE
      BY <2>1, <2>2 DEF Events, InboundTypes
    <3> HIDE DEF e
    <3> QED
      BY <1>4, <2>1, <3>1, <3>2
  <2> QED
    BY <2>1, <2>3, <2>4
<1>6. ASSUME NEW e \in Events, e.id = nextId, e.injector = NONE, notifyOther(e)
      PROVE  InjectionParts'
  <2>1. /\ UNCHANGED <<pending, window, injector>>
        /\ \/ reader' = e /\ UNCHANGED <<nextId, NotQueue>>
           \/ reader' = NoEvent /\ enqueueInboundEventLocked(e)
    BY <1>6, OtherOutcomes
  <2>2. CASE reader' = e /\ UNCHANGED <<nextId, NotQueue>>
    <3>1. UNCHANGED queue /\ nextId' >= nextId /\ reader'.injector = NONE
      BY <1>6, <2>2 DEF NotQueue, InboundTypes
    <3>2. InjectorShape'
      BY <2>1 DEF InjectionParts, InjectorShape
    <3> QED
      BY <2>1, <3>1, <3>2, InjectionUnchanged
  <2> QED
    BY <1>4, <1>6, <2>1, <2>2
<1>7. ASSUME NEW i \in Injectors, NEW s, NEW e \in Events, e.id = nextId,
             e.injector = i, e.type \in {"key", "touch"}, injectInputEvent(i, e, s)
      PROVE  InjectionParts'
  <2>1. /\ UNCHANGED <<pending, window, reader>> /\ queue' = Append(queue, e)
        /\ nextId' = nextId + 1 /\ injector[i].result = NONE /\ nextId <= MaxEvents
        /\ injector' = [injector EXCEPT ![i] =
              [sync |-> s, result |-> "PENDING", fg |-> 0]]
    BY <1>7 DEF injectInputEvent, enqueueInboundEventLocked, NotSettings, NotLoop
  <2>2. Injectable(e)
    BY <1>7, <2>1 DEF Injectable
  <2>3. injector[i].fg = 0
    <3>1. \A w \in Windows : \A n \in DOMAIN Entries(w) : ~Holds(i, w, n)
      BY <2>1 DEF InjectionParts, OnePlace
    <3> QED
      BY <3>1 DEF InjectionParts, Counted
  <2>4. InjectorShape'
    BY <2>1 DEF InjectionParts, InjectorShape
  <2>5. \A j \in Injectors :
           /\ injector'[j].fg = injector[j].fg
           /\ IF e.injector = j
              THEN injector[j].result = NONE /\ injector'[j].result = "PENDING"
              ELSE injector'[j].result = injector[j].result
    BY <1>7, <2>1, <2>3 DEF InjectionParts, InjectorShape
  <2> QED
    BY <1>2, <1>7, <2>1, <2>2, <2>4, <2>5, EnqueueInjection
<1>8. ASSUME NEW i \in Injectors, injectReturns(i)
      PROVE  InjectionParts'
  <2>1. /\ UNCHANGED <<queue, pending, nextId, window, reader>>
        /\ injector' = [injector EXCEPT ![i].sync = NONE]
    BY <1>8 DEF injectReturns, NotSettings, NotLoop
  <2>2. /\ InjectorShape'
        /\ \A j \in Injectors : /\ injector'[j].result = injector[j].result
                                /\ injector'[j].fg = injector[j].fg
    BY <2>1 DEF InjectionParts, InjectorShape
  <2>3. nextId' >= nextId
    BY <2>1 DEF InboundTypes
  <2> QED
    BY <1>2, <2>1, <2>2, <2>3, InjectionUnchanged
<1>9. /\ \A w \in Windows, a \in {"DOWN", "MOVE"}, i \in Injectors \cup {NONE} :
            Event("touch", w, a, TRUE, i) \in Events
      /\ \A t \in {"config", "reset"} : Event(t, NONE, NONE, TRUE, NONE) \in Events
      /\ \A k \in KeyCodes, i \in Injectors \cup {NONE} :
            Event("key", k, "DOWN", TRUE, i) \in Events
  BY MadeEvents DEF Codes
<1>10. CASE Reader
  <2>1. ASSUME NEW type, NEW code, NEW a,
               Event(type, code, a, TRUE, NONE) \in Events,
               notifyOther(Event(type, code, a, TRUE, NONE))
        PROVE  InjectionParts'
    <3> DEFINE e == Event(type, code, a, TRUE, NONE)
    <3>1. e.id = nextId /\ e.injector = NONE
      BY DEF Event
    <3>2. e \in Events /\ notifyOther(e)
      BY <2>1
    <3> HIDE DEF e
    <3> QED
      BY <1>6, <3>1, <3>2
  <2>2. \/ \E k, a, meta, pass : notifyKey(k, a, meta, pass)
        \/ notifyKeyEnqueue \/ \E passes \in BOOLEAN : filterInputEvent(passes)
        \/ \E w \in Windows, a \in {"DOWN", "MOVE"} :
              notifyOther(Event("touch", w, a, TRUE, NONE))
        \/ \E t \in {"config", "reset"} : notifyOther(Event(t, NONE, NONE, TRUE, NONE))
    BY <1>10, Zenon DEF Reader
  <2> QED
    BY <1>3, <1>5, <1>9, <2>1, <2>2
<1>11. CASE Inject
  <2>1. ASSUME NEW i \in Injectors, NEW s, NEW type \in {"key", "touch"}, NEW code,
               Event(type, code, "DOWN", TRUE, i) \in Events,
               injectInputEvent(i, Event(type, code, "DOWN", TRUE, i), s)
        PROVE  InjectionParts'
    <3> DEFINE e == Event(type, code, "DOWN", TRUE, i)
    <3>1. e.id = nextId /\ e.injector = i /\ e.type \in {"key", "touch"}
      BY DEF Event
    <3>2. e \in Events /\ injectInputEvent(i, e, s)
      BY <2>1
    <3> HIDE DEF e
    <3> QED
      BY <1>7, <3>1, <3>2
  <2>2. \/ \E i \in Injectors, s \in {"NONE", "RESULT", "FINISHED"}, k \in KeyCodes :
              injectInputEvent(i, Event("key", k, "DOWN", TRUE, i), s)
        \/ \E i \in Injectors, s \in {"NONE", "RESULT", "FINISHED"}, w \in Windows :
              injectInputEvent(i, Event("touch", w, "DOWN", TRUE, i), s)
        \/ \E i \in Injectors : injectReturns(i)
    BY <1>1, <1>11 DEF Inject
  <2> QED
    BY <1>8, <1>9, <2>1, <2>2
<1> QED
  BY <1>10, <1>11

\* The window manager's calls.
LEMMA WindowManagerInjection ==
    ASSUME InboundTypes, InboundTypes', InjectionParts, WindowManager, UNCHANGED conf
    PROVE  InjectionParts'
<1>1. reader # NoEvent => reader.injector = NONE
  BY DEF InjectionParts, AllInjectable
<1>2. ASSUME UNCHANGED <<queue, pending, nextId, reader, injector>>,
             \A w \in Windows : window'[w].entries = window[w].entries
      PROVE  InjectionParts'
  <2>1. InjectorShape' /\ nextId' >= nextId
    BY <1>2 DEF InjectionParts, InjectorShape, InboundTypes
  <2> QED
    BY <1>1, <1>2, <2>1, InjectionUnchanged
<1>3. ASSUME NEW w, NEW paused, setInputWindows(w, paused) PROVE InjectionParts'
  <2>1. \A v \in Windows : window'[v].entries = window[v].entries
    BY <1>3, FlagsSet
  <2> QED
    BY <1>2, <1>3, <2>1 DEF setInputWindows, NotLoop
<1>4. ASSUME NEW a, setFocusedApplication(a) PROVE InjectionParts'
  BY <1>2, <1>4 DEF setFocusedApplication
<1>5. ASSUME NEW enabled, NEW frozen, setInputDispatchMode(enabled, frozen)
      PROVE  InjectionParts'
  <2>1. UNCHANGED <<nextId, reader>>
    BY <1>5 DEF setInputDispatchMode
  <2>2. CASE mode.enabled /\ ~enabled
    BY <1>5, <2>1, <2>2, ResetInjection DEF setInputDispatchMode
  <2>3. CASE ~(mode.enabled /\ ~enabled)
    BY <1>2, <1>5, <2>1, <2>3 DEF setInputDispatchMode, KeepsEverything
  <2> QED
    BY <2>2, <2>3
<1>6. ASSUME NEW enabled, setInputFilterEnabled(enabled) PROVE InjectionParts'
  BY <1>6, ResetInjection DEF setInputFilterEnabled
<1>7. ASSUME NEW w \in Windows, unregisterInputChannel(w) PROVE InjectionParts'
  <2>1. /\ UNCHANGED <<queue, pending, nextId, reader, conf>>
        /\ window' = [window EXCEPT ![w] = [entries |-> <<>>, slow |-> FALSE,
                                            down |-> {}, registered |-> FALSE,
                                            paused |-> @.paused]]
        /\ injector' = Unpend(injector, Entries(w))
    BY <1>7 DEF unregisterInputChannel, NotLoop, Entries
  <2>2. \A v \in Windows : window'[v].entries = IF v = w THEN <<>> ELSE window[v].entries
    BY <2>1 DEF InboundTypes, WindowStates
  <2>3. DOMAIN Entries(w)' = {}
    BY <2>2 DEF Entries
  <2> DEFINE l == Len(Entries(w))
  <2>4. l \in Nat /\ DOMAIN Entries(w) = 1 .. l
    BY KnownEvents
  <2> HIDE DEF l
  <2>5. DOMAIN Entries(w)' = 1 .. l - l
    BY <2>3, <2>4
  <2>6. \A n \in 1 .. l - l : Entries(w)'[n] = Entries(w)[n + l]
    BY <2>4
  <2>7. l = Len(Entries(w)) /\ l <= l
    BY <2>4 DEF l
  <2> QED
    BY <2>1, <2>2, <2>4, <2>5, <2>6, <2>7, FinishInjection
<1> QED
  BY <1>3, <1>4, <1>5, <1>6, <1>7 DEF WindowManager

\* The steps of the dispatcher's thread.
LEMMA DispatcherInjection ==
    ASSUME InboundTypes, InboundTypes', InjectionParts, Dispatcher, UNCHANGED conf
    PROVE  InjectionParts'
<1>1. reader # NoEvent => reader.injector = NONE
  BY DEF InjectionParts, AllInjectable
<1>2. ASSUME UNCHANGED <<queue, nextId, reader, injector>>,
             pending' # NoEvent <=> pending # NoEvent,
             pending # NoEvent => /\ pending'.id = pending.id
                                  /\ pending'.type = pending.type
                                  /\ pending'.injector = pending.injector,
             \A w \in Windows : window'[w].entries = window[w].entries
      PROVE  InjectionParts'
  <2>1. InjectorShape' /\ nextId' >= nextId
    BY <1>2 DEF InjectionParts, InjectorShape, InboundTypes
  <2> QED
    BY <1>1, <1>2, <2>1, InjectionUnchanged
<1>3. CASE dispatchNothing
  BY <1>2, <1>3 DEF dispatchNothing, NotSettings
<1>4. CASE pollOnceReturns
  BY <1>2, <1>4 DEF pollOnceReturns, NotSettings
<1>5. ASSUME NEW w \in Windows, handleReceiveCallback(w) PROVE InjectionParts'
  <2>1. /\ UNCHANGED <<queue, pending, nextId, reader, conf>> /\ Entries(w) # <<>>
        /\ window' = [window EXCEPT ![w].entries = Tail(@), ![w].slow = FALSE]
        /\ injector' = Unpend(injector, <<Head(Entries(w))>>)
    BY <1>5 DEF handleReceiveCallback, Entries
  <2>2. \A v \in Windows :
           window'[v].entries = IF v = w THEN Tail(window[v].entries) ELSE window[v].entries
    BY <2>1 DEF InboundTypes, WindowStates
  <2>3. Entries(w)' = Tail(Entries(w))
    BY <2>2 DEF Entries
  <2>4. Entries(w) \in Seq(Events) /\ 1 <= Len(Entries(w))
    BY <2>1, KnownEvents
  <2>5. /\ DOMAIN Entries(w)' = 1 .. Len(Entries(w)) - 1
        /\ \A n \in 1 .. Len(Entries(w)) - 1 : Entries(w)'[n] = Entries(w)[n + 1]
    BY <2>3, <2>4
  <2> DEFINE gone == <<Head(Entries(w))>>
  <2>6. DOMAIN gone = 1 .. 1 /\ \A n \in 1 .. 1 : gone[n] = Entries(w)[n]
    BY <2>4
  <2> HIDE DEF gone
  <2>7. injector' = Unpend(injector, gone)
    BY <2>1 DEF gone
  <2> QED
    <3>1. /\ 1 \in Nat /\ 1 <= Len(Entries(w))
          /\ \A v \in Windows : v # w => window'[v].entries = window[v].entries
      BY <2>2, <2>4
    <3> QED
      BY <2>1, <2>5, <2>6, <2>7, <3>1, FinishInjection
<1>6. ASSUME NEW a, doInterceptKeyBeforeDispatching(a) PROVE InjectionParts'
  <2>1. /\ UNCHANGED <<queue, nextId, reader, injector, window>>
        /\ pending' \in {pending, [pending EXCEPT !.intercept = a]}
    BY <1>6 DEF doInterceptKeyBeforeDispatching, Unlocked
  <2>2. CASE pending = NoEvent
    <3>1. [pending EXCEPT !.intercept = a] = NoEvent
      BY <2>2 DEF NoEvent
    <3> QED
      BY <1>2, <2>1, <2>2, <3>1
  <2>3. CASE pending \in Events
    <3>1. LET f == [pending EXCEPT !.intercept = a]
          IN  /\ f.id = pending.id /\ f.type = pending.type
              /\ f.injector = pending.injector
      BY <2>3 DEF Events
    <3>2. pending'.id = pending.id /\ pending.id # 0 /\ NoEvent.id = 0
      BY <2>1, <2>3, <3>1 DEF Events, NoEvent
    <3> QED
      BY <1>2, <2>1, <3>1, <3>2
  <2> QED
    BY <2>2, <2>3 DEF InboundTypes
<1>7. ASSUME NEW g, doNotifyANR(g) PROVE InjectionParts'
  <2>1. UNCHANGED <<queue, nextId, reader, injector, pending>>
    BY <1>7 DEF doNotifyANR, Unlocked
  <2>2. window' = window \/ window' = [window EXCEPT ![thread.win].down = {}]
    BY <1>7 DEF doNotifyANR, resumeAfterTargetsNotReadyTimeoutLocked
  <2>3. CASE window' = window
    BY <1>2, <2>1, <2>3
  <2>4. CASE window' = [window EXCEPT ![thread.win].down = {}]
    <3>1. \A v \in Windows : window'[v].entries = window[v].entries
      <4>1. \A v \in Windows :
               window'[v] = IF v = thread.win THEN [window[v] EXCEPT !.down = {}]
                            ELSE window[v]
        BY <2>4 DEF InboundTypes, WindowStates
      <4>2. \A v \in Windows : [window[v] EXCEPT !.down = {}].entries = window[v].entries
        BY DEF InboundTypes, WindowStates
      <4> QED
        BY <4>1, <4>2
    <3> QED
      BY <1>2, <2>1, <3>1
  <2> QED
    BY <2>2, <2>3, <2>4
<1>8. CASE doNotifyConfigurationChanged
  BY <1>2, <1>8 DEF doNotifyConfigurationChanged, Unlocked
<1> QED
  BY <1>3, <1>4, <1>5, <1>6, <1>7, <1>8, DispatchInjection DEF Dispatcher

\* The injectors' accounts hold at first and every step keeps them.
LEMMA InjectionInductive ==
    /\ Init => InjectionInv
    /\ InjectionInv /\ [Next]_vars => InjectionInv'
<1>1. ASSUME Init PROVE InjectionInv
  <2>1. InboundTypes
    BY <1>1, WakeInductive DEF WakeInv
  <2>2. /\ queue = <<>> /\ pending = NoEvent /\ reader = NoEvent
        /\ injector = [i \in Injectors |-> [sync |-> NONE, result |-> NONE, fg |-> 0]]
        /\ \A w \in Windows : Entries(w) = <<>>
    BY <1>1 DEF Init, Entries
  <2>3. InjectorShape
    BY <2>2 DEF InjectorShape
  <2>4. Numbered /\ EntriesNumbered /\ AllInjectable
    BY <2>2 DEF Numbered, EntriesNumbered, AllInjectable
  <2>5. \A i \in Injectors : /\ ~Queued(i) /\ ~Awaited(i)
                             /\ \A w \in Windows : \A n : ~Holds(i, w, n)
                             /\ injector[i].result # "PENDING" /\ injector[i].fg = 0
    BY <2>2, InboundConstants DEF Queued, Awaited, Holds
  <2>6. OnePlace /\ Counted
    BY <2>2, <2>5 DEF OnePlace, Counted
  <2> QED
    BY <2>1, <2>3, <2>4, <2>6 DEF InjectionInv, InjectionParts
<1>2. ASSUME InjectionInv, [Next]_vars PROVE InjectionInv'
  <2>1. InboundTypes /\ InboundTypes' /\ UNCHANGED conf /\ InjectionParts
    BY <1>2, TypesInductive DEF InjectionInv, Next, vars
  <2> SUFFICES InjectionParts'
    BY <2>1 DEF InjectionInv
  <2>2. ASSUME UNCHANGED <<queue, pending, nextId, reader, injector>>,
               \A w \in Windows : window'[w].entries = window[w].entries
        PROVE  InjectionParts'
    <3>1. InjectorShape' /\ nextId' >= nextId
      BY <2>1, <2>2 DEF InjectionParts, InjectorShape, InboundTypes
    <3>2. reader' # NoEvent => reader'.injector = NONE
      BY <2>1, <2>2 DEF InjectionParts, AllInjectable
    <3> QED
      BY <2>1, <2>2, <3>1, <3>2, InjectionUnchanged
  <2>3. CASE Dispatcher
    BY <2>1, <2>3, DispatcherInjection
  <2>4. CASE Reader \/ Inject
    BY <2>1, <2>4, SourcesInjection
  <2>5. CASE WindowManager
    BY <2>1, <2>5, WindowManagerInjection
  <2>6. ASSUME NEW t, timePasses(t) PROVE InjectionParts'
    BY <2>2, <2>6 DEF timePasses, NotSettings, NotLoop
  <2>7. ASSUME NEW w \in Windows, windowSlow(w) PROVE InjectionParts'
    <3>1. \A v \in Windows : window'[v].entries = window[v].entries
      BY <2>1, <2>7 DEF windowSlow, InboundTypes, WindowStates
    <3> QED
      BY <2>2, <2>7, <3>1 DEF windowSlow, NotLoop
  <2>8. CASE UNCHANGED vars
    BY <2>2, <2>8 DEF vars
  <2> QED
    BY <1>2, <2>3, <2>4, <2>5, <2>6, <2>7, <2>8 DEF Next, Step
<1> QED
  BY <1>1, <1>2

\* An injector that waits for a result has an event to be processed, and one
\* that waits for the windows counts exactly the entries they have of it,
\* whatever is dropped (releaseInboundEventLocked), repeated, reset or lost with
\* its channel (releaseDispatchEntryLocked), and in whatever order.
THEOREM InjectorsAnswered == Spec => []InjectionAccounted
<1>1. InjectionInv => InjectionAccounted
  <2> SUFFICES ASSUME InjectionInv, NEW i \in Injectors
               PROVE  /\ injector[i].result = "PENDING" =>
                            \E e \in {pending} \cup Range(queue) :
                               e # NoEvent /\ e.injector = i
                      /\ injector[i].fg =
                            Cardinality({p \in Windows \X (1 .. MaxEvents) :
                               LET entries == window[p[1]].entries
                               IN  p[2] \in DOMAIN entries /\ entries[p[2]].injector = i})
    BY DEF InjectionAccounted
  <2> DEFINE own == {p \in Windows \X (1 .. MaxEvents) :
                        LET entries == window[p[1]].entries
                        IN  p[2] \in DOMAIN entries /\ entries[p[2]].injector = i}
  <2>1. InboundTypes /\ InjectionParts
    BY DEF InjectionInv
  <2>2. ASSUME injector[i].result = "PENDING"
        PROVE  \E e \in {pending} \cup Range(queue) : e # NoEvent /\ e.injector = i
    <3>1. CASE Awaited(i)
      BY <3>1 DEF Awaited
    <3>2. CASE Queued(i)
      <4>1. PICK n \in DOMAIN queue : queue[n].injector = i
        BY <3>2 DEF Queued
      <4>2. queue[n] \in Range(queue) /\ queue[n] # NoEvent
        BY <2>1, KnownEvents, EventsAreSome DEF Range
      <4> QED
        BY <4>1, <4>2
    <3> QED
      BY <2>1, <2>2, <3>1, <3>2 DEF InjectionParts, OnePlace
  <2>3. \A p \in own : p[1] \in Windows /\ p[2] \in DOMAIN Entries(p[1])
                          /\ Holds(i, p[1], p[2]) /\ p = <<p[1], p[2]>>
    BY DEF Entries, Holds
  <2>4. ASSUME NEW w \in Windows, NEW n \in DOMAIN Entries(w), Holds(i, w, n)
        PROVE  <<w, n>> \in own
    <3>1. /\ n \in Nat \ {0} /\ n <= Entries(w)[n].id /\ Entries(w)[n].id \in Nat
          /\ Entries(w)[n].id <= MaxEvents /\ MaxEvents \in Nat
      <4>1. Entries(w)[n].injector # NONE
        BY <2>4, InboundConstants DEF Holds
      <4>2. n <= Entries(w)[n].id /\ Entries(w)[n].id <= MaxEvents
        BY <2>1, <4>1 DEF InjectionParts, EntriesNumbered, AllInjectable, Injectable
      <4>3. MaxEvents \in Nat
        BY <2>1, InboundConstants DEF InboundTypes, MaxEvents, It
      <4>4. n \in Nat \ {0} /\ Entries(w)[n].id \in Nat
        BY <2>1, KnownEvents
      <4> QED
        BY <4>2, <4>3, <4>4
    <3>2. n \in 1 .. MaxEvents
      BY <3>1
    <3> QED
      BY <2>4, <3>2 DEF Entries, Holds
  <2> HIDE DEF own
  <2>5. injector[i].fg =
           IF \E w \in Windows : \E n \in DOMAIN Entries(w) : Holds(i, w, n) THEN 1 ELSE 0
    BY <2>1 DEF InjectionParts, Counted
  <2>6. injector[i].fg = Cardinality(own)
    <3>1. CASE own = {}
      <4>1. Cardinality(own) = 0
        BY <3>1, FS_EmptySet
      <4>2. \A w \in Windows : \A n \in DOMAIN Entries(w) : ~Holds(i, w, n)
        BY <2>4, <3>1
      <4> QED
        BY <2>5, <4>1, <4>2
    <3>2. CASE own # {}
      <4>1. PICK p \in own : TRUE
        BY <3>2
      <4>2. \A q \in own : q = p
        BY <2>1, <2>3, <4>1 DEF InjectionParts, OnePlace
      <4>3. own = {p}
        BY <4>1, <4>2
      <4>4. Cardinality(own) = 1
        BY <4>3, FS_Singleton
      <4> QED
        BY <2>3, <2>5, <4>1, <4>4
    <3> QED
      BY <3>1, <3>2
  <2> QED
    BY <2>2, <2>6 DEF own
<1>2. Init => InjectionInv
  BY InjectionInductive
<1>3. InjectionInv /\ [Next]_vars => InjectionInv'
  BY InjectionInductive
<1> QED
  BY <1>1, <1>2, <1>3, PTL DEF Spec
=============================================================================
