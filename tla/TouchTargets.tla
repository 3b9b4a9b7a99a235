---------------------------- MODULE TouchTargets ----------------------------
(***************************************************************************)
(* services/inputflinger/InputDispatcher.cpp: which windows a pointer      *)
(* event goes to. findTouchedWindowTargetsLocked with its TouchState, the  *)
(* splitting of events among windows, hovering, slippery windows,          *)
(* wallpapers and windows that watch outside touches; what                 *)
(* setInputWindows, transferTouchFocus, device resets, dropped events and  *)
(* ANRs do to it; and the InputState of every connection, which must know  *)
(* whom to cancel.                                                         *)
(*                                                                         *)
(* There is one display. A place of the screen is named by the windows     *)
(* that contain it. An event may have to wait for a window until the       *)
(* policy gives up on it.                                                  *)
(***************************************************************************)
EXTENDS Integers, Sequences, FiniteSets, SequencesExt

CONSTANTS
    ZOrder,         \* the windows, front to back
    Devices,        \* pointer devices
    AllPlaces, At(_), \* places of the screen, and the windows that contain one
    SplitTouch, WatchOutside, HasWallpaper, \* windows
    NONE,
    Configurations  \* named systems and their bounds; conf is a name

Windows == Range(ZOrder)

ASSUME TouchConstants ==
    /\ SplitTouch \cup WatchOutside \cup HasWallpaper \subseteq Windows
    /\ NONE \notin Windows \cup Devices
    /\ \A n \in DOMAIN Configurations : LET c == Configurations[n] IN
          /\ c.devices \subseteq Devices /\ c.hovers \subseteq c.devices
          /\ c.slippery \cup c.wallpapers \subseteq Windows
          /\ c.places \subseteq AllPlaces /\ c.maxFaults \in Nat
          /\ c.faults \subseteq
                {"drop", "reset", "anr", "transfer", "remove", "die", "clear"}

VARIABLES
    touch,      \* mTouchStatesByDisplay[0]
    lastHover,  \* mLastHoverWindowHandle
    present,    \* mWindowHandles
    registered, \* the windows whose channel is in mConnectionsByFd
    expired,    \* the pending event, if mInputTargetWaitTimeoutExpired
    mementos,   \* the motion mementos of each window's connection
    view,       \* what each window was told: pointers down, and whether it made sense
    phys,       \* pointers down and hovering of each device
    lost,       \* mementos of what an event without effect has ended; for the properties
    faults,
    conf        \* the screen and its devices; it never changes

vars == <<touch, lastHover, present, registered, expired, mementos, view, phys, lost,
          faults, conf>>

It == Configurations[conf]
Pointers == It.pointers     \* pointer ids
Places == It.places         \* places that are touched
Slippery == It.slippery     \* windows with the flag
Wallpapers == It.wallpapers \* windows of the type
Hovers == It.hovers         \* devices that hover and scroll
Removable == It.removable   \* windows that may close
Faults == It.faults         \* what else happens to the touch state
MaxFaults == It.maxFaults   \* bound on the calls of Faults

NoTouch == [down |-> FALSE, split |-> FALSE, dev |-> NONE, windows |-> <<>>]
NoPointers == [d \in Devices |-> {}]
NoEvent == [action |-> NONE]

Init ==
    /\ conf \in DOMAIN Configurations
    /\ touch = NoTouch /\ lastHover = NONE
    /\ present = Windows /\ registered = Windows /\ expired = NoEvent
    /\ mementos = [w \in Windows |-> {}]
    /\ view = [w \in Windows |-> [down |-> NoPointers, ok |-> TRUE]]
    /\ phys = [d \in Devices |-> [down |-> {}, hovering |-> FALSE]]
    /\ lost = {} /\ faults = 0

-----------------------------------------------------------------------------
(* TouchState *)

addOrUpdateWindow(s, w, flags, ids) ==
    LET known == {i \in DOMAIN s.windows : s.windows[i].win = w}
        merged == [i \in DOMAIN s.windows |->
            IF i \in known
            THEN [win |-> w, ids |-> s.windows[i].ids \cup ids,
                  flags |-> (s.windows[i].flags \cup flags)
                            \ (IF "SLIPPERY_EXIT" \in flags THEN {"AS_IS"} ELSE {})]
            ELSE s.windows[i]]
    IN  [s EXCEPT
            !.split = @ \/ "SPLIT" \in flags,
            !.windows = IF known # {} THEN merged
                        ELSE Append(@, [win |-> w, flags |-> flags, ids |-> ids])]

\* Targets that were only told of an exit, an enter or an outside touch go.
filterNonAsIsTouchWindows(s) ==
    LET stays(t) == t.flags \cap {"AS_IS", "SLIPPERY_ENTER"} # {}
        kept == SelectSeq(s.windows, stays)
    IN  [s EXCEPT !.windows = [i \in DOMAIN kept |->
            [kept[i] EXCEPT !.flags = (@ \cap {"FOREGROUND", "SPLIT"}) \cup {"AS_IS"}]]]

Foreground(s) == SelectSeq(s.windows, LAMBDA t : "FOREGROUND" \in t.flags)

getFirstForegroundWindowHandle(s) ==
    IF Foreground(s) = <<>> THEN NONE ELSE Foreground(s)[1].win

isSlippery(s) == Len(Foreground(s)) = 1 /\ Foreground(s)[1].win \in Slippery

removeWindow(s, w) ==
    [s EXCEPT !.windows = SelectSeq(@, LAMBDA t : t.win # w)]

-----------------------------------------------------------------------------
(* findTouchedWindowTargetsLocked *)

findTouchedWindowAtLocked(place) ==
    LET hits == SelectSeq(ZOrder, LAMBDA w : w \in present /\ w \in At(place))
    IN  IF hits = <<>> THEN NONE ELSE hits[1]

\* The windows in front of the touched one that watch outside touches.
OutsideWindows(place) ==
    LET hit == findTouchedWindowAtLocked(place)
        n == IF hit = NONE THEN Len(ZOrder)
             ELSE (CHOOSE i \in DOMAIN ZOrder : ZOrder[i] = hit) - 1
    IN  SelectSeq(SubSeq(ZOrder, 1, n), LAMBDA w : w \in present \cap WatchOutside)

IsHover(e) == e.action \in {"HOVER_MOVE", "HOVER_EXIT"}
IsNewGesture(e) == IsHover(e) \/ e.action \in {"DOWN", "SCROLL"}

\* Case 1: a pointer that may be given to a window of its own, hover or scroll.
NewPointer(e, s) ==
    LET hit == findTouchedWindowAtLocked(e.place)
        Out(x, w) == addOrUpdateWindow(x, w, {"OUTSIDE"}, {})
        out == IF e.action = "DOWN" THEN FoldLeft(Out, s, OutsideWindows(e.place)) ELSE s
        isSplit == s.split \/ hit \in SplitTouch
        own == IF s.split /\ hit \notin SplitTouch THEN NONE ELSE hit
        win == IF own # NONE THEN own ELSE getFirstForegroundWindowHandle(out)
    IN  IF win = NONE THEN [ok |-> FALSE, state |-> out, hover |-> NONE]
        ELSE [ok |-> TRUE,
              state |-> addOrUpdateWindow(out, win,
                  {"FOREGROUND", "AS_IS"} \cup (IF isSplit THEN {"SPLIT"} ELSE {}),
                  IF isSplit THEN {e.ptr} ELSE {}),
              hover |-> IF IsHover(e) THEN win
                        ELSE IF e.action = "SCROLL" THEN lastHover ELSE NONE]

\* Case 2: move, up, cancel, or a pointer down that is not split. One pointer
\* may slip out of a slippery window into another.
KnownPointer(e, s) ==
    LET from == getFirstForegroundWindowHandle(s)
        to == findTouchedWindowAtLocked(e.place)
        slips == /\ e.action = "MOVE" /\ Cardinality(e.ptrs) = 1 /\ isSlippery(s)
                 /\ to \notin {NONE, from}
        isSplit == s.split \/ to \in SplitTouch
        left == addOrUpdateWindow(s, from, {"SLIPPERY_EXIT"}, {})
        slid == addOrUpdateWindow(left, to,
                    {"FOREGROUND", "SLIPPERY_ENTER"} \cup
                        (IF isSplit THEN {"SPLIT"} ELSE {}),
                    IF isSplit THEN e.ptrs ELSE {})
    IN  [ok |-> s.down, hover |-> NONE, state |-> IF s.down /\ slips THEN slid ELSE s]

EntersWithoutExit(s, hover) ==
    IF hover \in {NONE, lastHover} THEN s ELSE addOrUpdateWindow(s, hover, {"HOVER_ENTER"}, {})

WithHover(s, hover) ==
    LET left == IF lastHover \in {NONE, hover} THEN s
                ELSE addOrUpdateWindow(s, lastHover, {"HOVER_EXIT"}, {})
    IN  IF hover \in {NONE, lastHover} THEN left
        ELSE addOrUpdateWindow(left, hover, {"HOVER_ENTER"}, {})

\* "lock in" the wallpaper for the touch of a window that shows it.
WithWallpaper(e, s) ==
    LET Add(x, w) == addOrUpdateWindow(x, w, {"AS_IS"}, {})
    IN  IF e.action = "DOWN" /\ getFirstForegroundWindowHandle(s) \in HasWallpaper
        THEN FoldLeft(Add, s, SelectSeq(ZOrder, LAMBDA w : w \in present \cap Wallpapers))
        ELSE s

PointerUpKept(e, s) == s

\* A split pointer went up: windows without a pointer are done.
WithoutPointer(e, s) ==
    LET less == [i \in DOMAIN s.windows |->
                    IF "SPLIT" \in s.windows[i].flags
                    THEN [s.windows[i] EXCEPT !.ids = @ \ {e.ptr}] ELSE s.windows[i]]
    IN  IF ~s.split THEN s
        ELSE [s EXCEPT !.windows = SelectSeq(less,
                  LAMBDA t : "SPLIT" \notin t.flags \/ t.ids # {})]

\* What comes of the windows found for event e: the targets, and the state that
\* is saved.
Outcome(e, found) ==
    LET hovered == WithHover(found.state, found.hover)
        ok == found.ok /\ Foreground(hovered) # <<>>
        targets == WithWallpaper(e, hovered)
        after == IF ok THEN filterNonAsIsTouchWindows(targets)
                 ELSE IF found.ok THEN hovered ELSE found.state
        saved == CASE e.action = "HOVER_MOVE" -> [NoTouch EXCEPT !.dev = e.dev]
                   [] e.action \in {"HOVER_EXIT", "UP", "CANCEL"} -> NoTouch
                   [] e.action = "POINTER_UP" -> WithoutPointer(e, after)
                   [] e.action = "SCROLL" -> touch
                   [] OTHER -> after
    IN  [result |-> IF ok THEN "SUCCEEDED" ELSE "FAILED",
         targets |-> IF ok THEN targets.windows ELSE <<>>,
         conflict |-> \/ touch.dev \notin {NONE, e.dev}
                      \/ touch.down /\ (IsHover(e) \/ e.action = "DOWN"),
         touch |-> saved, hover |-> found.hover]

findTouchedWindowTargetsLocked(e) ==
    LET switched == touch.dev \notin {NONE, e.dev}
        wrong == IsNewGesture(e) /\ switched /\ touch.down /\ e.action # "DOWN"
        temp == IF IsNewGesture(e)
                THEN [NoTouch EXCEPT !.down = e.action = "DOWN", !.dev = e.dev]
                ELSE touch
        case1 == IsNewGesture(e) \/ (temp.split /\ e.action = "POINTER_DOWN")
    IN  IF wrong
        THEN [result |-> "WRONG_DEVICE", targets |-> <<>>, conflict |-> FALSE,
              touch |-> touch, hover |-> lastHover]
        ELSE Outcome(e, IF case1 THEN NewPointer(e, temp) ELSE KnownPointer(e, temp))

-----------------------------------------------------------------------------
(* Delivery: splitMotionEvent, the dispatch modes and InputState *)

\* The event as a window sees it that has only some of the pointers.
splitMotionEvent(e, ids) ==
    IF ~(ids \subseteq e.ptrs) THEN NoEvent
    ELSE [e EXCEPT
        !.ptrs = ids,
        !.action = CASE @ \notin {"POINTER_DOWN", "POINTER_UP"} -> @
                     [] e.ptr \notin ids -> "MOVE"
                     [] ids # {e.ptr} -> @
                     [] @ = "POINTER_DOWN" -> "DOWN"
                     [] @ = "POINTER_UP" -> "UP"]

SplitFor(t, e) ==
    IF "SPLIT" \in t.flags /\ Cardinality(t.ids) # Cardinality(e.ptrs)
    THEN splitMotionEvent(e, t.ids) ELSE e

Memento(m, d, hovering) == {x \in m : x.dev = d /\ x.hovering = hovering}

\* trackMotion: an inconsistent event is skipped.
IsConsistent(m, e) ==
    CASE e.action \in {"UP", "CANCEL", "MOVE", "POINTER_UP", "POINTER_DOWN"} ->
            Memento(m, e.dev, FALSE) # {}
      [] e.action = "HOVER_EXIT" -> Memento(m, e.dev, TRUE) # {}
      [] OTHER -> TRUE

trackMotion(m, e) ==
    LET hovering == e.action \in {"HOVER_ENTER", "HOVER_MOVE", "HOVER_EXIT"}
        rest == m \ Memento(m, e.dev, hovering)
    IN  IF e.action \in {"UP", "CANCEL", "HOVER_EXIT"} THEN rest
        ELSE IF e.action \in {"SCROLL", "OUTSIDE"} THEN m
        ELSE rest \cup {[dev |-> e.dev, hovering |-> hovering, ptrs |-> e.ptrs]}

\* What the application makes of an event.
Told(v, e) ==
    LET now == v.down[e.dev]
        To(good, ptrs) == [v EXCEPT !.down[e.dev] = ptrs, !.ok = @ /\ good]
    IN  CASE e.action = "DOWN" -> To(TRUE, e.ptrs)
          [] e.action = "POINTER_DOWN" ->
                To(e.ptr \notin now /\ e.ptrs = now \cup {e.ptr}, e.ptrs)
          [] e.action = "POINTER_UP" -> To(e.ptrs = now /\ e.ptr \in now, now \ {e.ptr})
          [] e.action = "MOVE" -> To(e.ptrs = now, now)
          [] e.action = "UP" -> To(e.ptrs = now, {})
          [] e.action = "CANCEL" -> To(TRUE, {})
          [] OTHER -> v

SlipsWithoutCancel(mode, action) ==
    CASE mode = "SLIPPERY_ENTER" -> "DOWN" [] mode \in {"AS_IS", "SLIPPERY_EXIT"} -> action
      [] OTHER -> mode

Resolved(mode, action) ==
    CASE mode = "SLIPPERY_EXIT" -> "CANCEL"
      [] mode = "SLIPPERY_ENTER" -> "DOWN"
      [] mode = "AS_IS" -> action
      [] OTHER -> mode

\* enqueueDispatchEntriesLocked for one target; c is [m, v] of its connection.
Deliver(c, t, e) ==
    LET own == SplitFor(t, e)
        Enqueue(x, mode) ==
            LET r == [own EXCEPT !.action = Resolved(mode, @)]
            IN  IF mode \notin t.flags \/ ~IsConsistent(x.m, r) THEN x
                ELSE [m |-> trackMotion(x.m, r), v |-> Told(x.v, r)]
    IN  IF own = NoEvent THEN c
        ELSE FoldLeft(Enqueue, c, <<"HOVER_EXIT", "OUTSIDE", "HOVER_ENTER", "AS_IS",
                                    "SLIPPERY_EXIT", "SLIPPERY_ENTER">>)

\* synthesizeCancelationEvents... for the mementos in S of one connection.
Cancelled(c, S) ==
    [m |-> c.m \ S,
     v |-> [c.v EXCEPT !.down = [d \in Devices |->
               IF \E x \in S : x.dev = d /\ ~x.hovering THEN {} ELSE @[d]]]]

Connections == [w \in Windows |-> [m |-> mementos[w], v |-> view[w]]]
CancelAll(cs) == [w \in Windows |-> Cancelled(cs[w], cs[w].m)]

Keys(cs) ==
    UNION {{[win |-> w, dev |-> x.dev, hovering |-> x.hovering] : x \in cs[w].m} : w \in Windows}

\* What is in nowLost stays lost while the connection or its window remembers it.
SetConnections(cs, nowLost) ==
    /\ mementos' = [w \in Windows |-> cs[w].m]
    /\ view' = [w \in Windows |-> cs[w].v]
    /\ lost' = {k \in nowLost :
           k \in Keys(cs) \/ (~k.hovering /\ cs[k.win].v.down[k.dev] # {})}

To(w, targets) == SelectSeq(targets, LAMBDA t : t.win = w)

SentWithoutCancel(found, e) ==
    [w \in Windows |->
        IF w \notin registered \/ To(w, found.targets) = <<>> THEN Connections[w]
        ELSE Deliver(Connections[w], To(w, found.targets)[1], e)]

\* dispatchMotionLocked once the targets are known; who has no connection any
\* more is passed over.
Sent(found, e) ==
    LET before == IF found.conflict THEN CancelAll(Connections) ELSE Connections
    IN  [w \in Windows |->
            IF w \notin registered \/ To(w, found.targets) = <<>> THEN before[w]
            ELSE Deliver(before[w], To(w, found.targets)[1], e)]

-----------------------------------------------------------------------------
(* Events of the devices *)

Event(d, action, ptr, ptrs, place) ==
    [dev |-> d, action |-> action, ptr |-> ptr, ptrs |-> ptrs, place |-> place]

\* The pointer state of a device after an event, if the device may send it.
Possible(d, e) ==
    LET p == phys[d]
    IN  CASE e.action = "DOWN" -> p.down = {} /\ ~p.hovering /\ e.ptrs = {e.ptr}
          [] e.action = "POINTER_DOWN" ->
                p.down # {} /\ e.ptr \notin p.down /\ e.ptrs = p.down \cup {e.ptr}
          [] e.action = "POINTER_UP" ->
                e.ptr \in p.down /\ p.down # {e.ptr} /\ e.ptrs = p.down
          [] e.action = "MOVE" -> e.ptr \in p.down /\ e.ptrs = p.down
          [] e.action \in {"UP", "CANCEL"} -> p.down = {e.ptr} /\ e.ptrs = p.down
          [] e.action \in {"HOVER_MOVE", "SCROLL"} ->
                d \in Hovers /\ p.down = {} /\ e.ptrs = {e.ptr}
          [] e.action = "HOVER_EXIT" -> p.hovering /\ e.ptrs = {e.ptr}

Moved(p, e) ==
    [down |-> CASE e.action \in {"DOWN", "POINTER_DOWN"} -> p.down \cup {e.ptr}
                [] e.action \in {"UP", "CANCEL", "POINTER_UP"} -> p.down \ {e.ptr}
                [] OTHER -> p.down,
     hovering |-> e.action = "HOVER_MOVE" \/ (p.hovering /\ e.action # "HOVER_EXIT")]

Actions == {"DOWN", "POINTER_DOWN", "POINTER_UP", "MOVE", "UP", "CANCEL"}
HoverActions == {"HOVER_MOVE", "HOVER_EXIT", "SCROLL"}

\* The events that a device may send next; none while another event waits.
Events(d) ==
    {e \in {Event(d, a, p, S, x) :
                a \in Actions \cup (IF d \in Hovers THEN HoverActions ELSE {}),
                p \in Pointers, S \in SUBSET Pointers \ {{}}, x \in Places} :
        Possible(d, e) /\ expired \in {NoEvent, e}}

Touched(s) == {t.win : t \in Range(s.windows)}
Served(s) == {t.win : t \in {x \in Range(s.windows) : "AS_IS" \in x.flags}}

\* What an event without targets makes the dispatcher forget: touches of windows
\* that leave the touch state, touches that the event would have ended, and the
\* hover of the last hovered window.
Forgotten(e, found) ==
    {k \in Keys(Connections) :
        IF k.hovering THEN k.win = lastHover /\ found.hover # lastHover
        ELSE \/ k.win \in Served(touch) \ Served(found.touch)
             \/ k.dev = e.dev /\ e.action \in {"UP", "CANCEL"}}

\* What an event that reaches its targets makes it know again.
Regained(e, found) ==
    {k \in lost : IF k.hovering THEN k.win = found.hover
                  ELSE /\ k.dev = e.dev /\ e.action = "DOWN"
                       /\ k.win \in Served(found.touch)}

ForegroundTargets(found) ==
    {t.win : t \in {x \in Range(found.targets) : "FOREGROUND" \in x.flags}}

\* The pending event e, if it is taken now, is looked at with these results. A
\* window that is not ready makes it wait, and time out once the policy gave up
\* on one; nothing is saved then.
Results(e) ==
    LET found == findTouchedWindowTargetsLocked(e)
        timedOut == [found EXCEPT !.result = "TIMED_OUT", !.touch = touch, !.hover = lastHover]
        canTimeOut == found.result = "SUCCEEDED" /\ expired = e
        canBeSent == found.result = "SUCCEEDED" => ForegroundTargets(found) \subseteq registered
    IN  (IF canBeSent THEN {found} ELSE {}) \cup (IF canTimeOut THEN {timedOut} ELSE {})

Taken(e) == expired' = NoEvent /\ phys' = [phys EXCEPT ![e.dev] = Moved(@, e)]

dispatchMotion(e) ==
    /\ Taken(e)
    /\ \E found \in Results(e) :
          /\ touch' = found.touch /\ lastHover' = found.hover
          /\ IF found.result = "SUCCEEDED"
             THEN SetConnections(Sent(found, e), lost \ Regained(e, found))
             ELSE SetConnections(Connections, lost \cup Forgotten(e, found))
    /\ UNCHANGED <<present, registered, faults>>

-----------------------------------------------------------------------------
(* Whatever else changes the touch state *)

Fault(f) == f \in Faults /\ faults < MaxFaults /\ faults' = faults + 1

\* dropInboundEventLocked: cancels the pointers everywhere.
dropMotion(e) ==
    /\ Fault("drop") /\ Taken(e)
    /\ SetConnections(CancelAll(Connections), lost)
    /\ UNCHANGED <<touch, lastHover, present, registered>>

\* The policy gives up on window w, for which event e waits: the window loses its
\* touch, and the event is looked at again.
resumeAfterTargetsNotReadyTimeout(e, w) ==
    /\ Fault("anr")
    /\ w \in ForegroundTargets(findTouchedWindowTargetsLocked(e))
    /\ expired' = e
    /\ touch' = IF w \in registered THEN removeWindow(touch, w) ELSE touch
    /\ SetConnections([Connections EXCEPT ![w] = Cancelled(@, @.m)], lost)
    /\ UNCHANGED <<lastHover, present, registered, phys>>

\* dispatchDeviceResetLocked
deviceReset(d) ==
    /\ Fault("reset") /\ expired = NoEvent
    /\ phys' = [phys EXCEPT ![d] = [down |-> {}, hovering |-> FALSE]]
    /\ SetConnections([w \in Windows |->
           Cancelled(Connections[w], {x \in mementos[w] : x.dev = d})], lost)
    /\ UNCHANGED <<touch, lastHover, present, registered, expired>>

\* setInputWindows without window w
setInputWindows(w) ==
    /\ Fault("remove") /\ w \in present \cap Removable
    /\ present' = present \ {w}
    /\ lastHover' = IF lastHover = w THEN NONE ELSE lastHover
    /\ touch' = removeWindow(touch, w)
    /\ SetConnections(IF w \in Touched(touch)
                      THEN [Connections EXCEPT ![w] = Cancelled(@, @.m)] ELSE Connections, lost)
    /\ UNCHANGED <<registered, expired, phys>>

\* The window manager closes the channel of a window that it took away; or the
\* application dies, and the channel goes while the window is still there.
unregisterInputChannel(w) ==
    /\ w \in registered \cap Removable
    /\ IF w \in present THEN Fault("die") ELSE UNCHANGED faults
    /\ registered' = registered \ {w}
    /\ SetConnections([Connections EXCEPT ![w] =
           [m |-> {}, v |-> [@.v EXCEPT !.down = NoPointers]]], lost)
    /\ UNCHANGED <<touch, lastHover, present, expired, phys>>

copyPointerStateTo(from, to) ==
    from \cup {x \in to : \A y \in from : y.dev # x.dev}

transferTouchFocus(from, to) ==
    LET t == To(from, touch.windows)[1]
        moved == [Connections EXCEPT
            ![from] = Cancelled(@, @.m),
            ![to].m = copyPointerStateTo(mementos[from], @),
            ![to].v.down = [d \in Devices |-> @[d] \cup view[from].down[d]]]
    IN  /\ Fault("transfer") /\ {from, to} \subseteq present /\ from # to
        /\ from \in Touched(touch)
        /\ touch' = addOrUpdateWindow(removeWindow(touch, from), to,
                        t.flags \cap {"FOREGROUND", "SPLIT", "AS_IS"}, t.ids)
        /\ IF {from, to} \subseteq registered
           THEN SetConnections(moved,
                    lost \cup {[k EXCEPT !.win = to] : k \in {l \in lost : l.win = from}})
           ELSE SetConnections(Connections,
                    lost \cup {k \in Keys(Connections) : k.win = from /\ ~k.hovering})
        /\ UNCHANGED <<lastHover, present, registered, expired, phys>>

\* resetAndDropEverythingLocked; a pending event is dropped as well.
resetAndDropEverything ==
    /\ Fault("clear")
    /\ touch' = NoTouch /\ lastHover' = NONE
    /\ SetConnections(CancelAll(Connections), lost)
    /\ expired' = NoEvent
    /\ phys' = IF expired = NoEvent THEN phys
               ELSE [phys EXCEPT ![expired.dev] = Moved(@, expired)]
    /\ UNCHANGED <<present, registered>>

-----------------------------------------------------------------------------
Step ==
    \/ \E d \in It.devices : \E e \in Events(d) :
          \/ dispatchMotion(e)
          \/ dropMotion(e)
          \/ \E w \in Windows : resumeAfterTargetsNotReadyTimeout(e, w)
    \/ \E d \in It.devices : deviceReset(d)
    \/ \E w \in Windows : setInputWindows(w)
    \/ \E w \in Windows : unregisterInputChannel(w)
    \/ \E from, to \in Windows : transferTouchFocus(from, to)
    \/ resetAndDropEverything

Next == Step /\ UNCHANGED conf

Spec == Init /\ [][Next]_vars

-----------------------------------------------------------------------------
(* Properties *)

\* A window that holds a touch is served by the touch state, so that the end of the
\* gesture or its conflict with another will reach it, and a finger of that
\* device is down: whatever is dropped, cancelled, refused, transferred or closed,
\* except what an event without targets ended or displaced (lost).
NoStuckTouch ==
    \A k \in Keys(Connections) \ lost : ~k.hovering =>
        k.win \in Served(touch) /\ phys[k.dev].down # {}

\* With one device, a window that is hovered is the last hovered one, and no two
\* are, unless the window is no longer among the windows or the dispatcher forgot
\* it with an event that had no target (lost).
HoverRemembered ==
    Cardinality(It.devices) = 1 =>
        \A k \in Keys(Connections) \ lost :
            k.hovering /\ k.win \in present => k.win = lastHover

\* A pointer that is down belongs to one window, besides the wallpapers that
\* are locked in with it and windows whose touch is lost: windows that split a
\* gesture never see the same finger.
PointerInOneWindow ==
    \A v, w \in Windows \ Wallpapers, d \in Devices :
        /\ v # w
        /\ \A u \in {v, w} : [win |-> u, dev |-> d, hovering |-> FALSE] \notin lost
        => view[v].down[d] \cap view[w].down[d] = {}

\* Every window sees a gesture of its own that makes sense: the first pointer
\* down, others joining and leaving, the pointers of each event those that are
\* down.
StreamMakesSense == \A w \in Windows : view[w].ok

\* findTouchedWindowTargetsLocked, where the hovered window changes: "Let the
\* previous window know that the hover sequence is over." A device that hovers in
\* a window hovers in no other.
HoverEnds ==
    \A v, w \in Windows, d \in Devices :
        v # w => Memento(mementos[v], d, TRUE) = {} \/ Memento(mementos[w], d, TRUE) = {}

\* InputState: "Tracks dispatched key and motion event state so that cancelation
\* events can be synthesized when events are dropped." Once every finger is up,
\* whatever events were dropped, no window holds a touch.
EndedGestureIsCancelled ==
    (\A d \in Devices : phys[d].down = {}) => \A k \in Keys(Connections) : k.hovering

\* "Dropping event because a pointer for a different device is already down."
OtherDeviceIsDown ==
    \A d \in It.devices : \A e \in Events(d) :
        findTouchedWindowTargetsLocked(e).result = "WRONG_DEVICE"
            => phys[touch.dev].down # {}
=============================================================================
