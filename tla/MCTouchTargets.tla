--------------------------- MODULE MCTouchTargets ---------------------------
(***************************************************************************)
(* Screens for TouchTargets. Three windows stand side by side, the last    *)
(* one not splittable, before a wallpaper that fills the screen; "edge" is *)
(* a place without any window.                                             *)
(***************************************************************************)
EXTENDS TouchTargets

MCZOrder == <<"left", "middle", "bar", "wallpaper">>

MCAt(place) == IF place = "edge" THEN {} ELSE {place, "wallpaper"}

\* Three fingers on windows that split a touch, and a slippery one.
Split ==
    [devices |-> {"d1"}, pointers |-> {1, 2, 3},
     places |-> {"left", "middle", "bar", "edge"}, slippery |-> {"bar"},
     wallpapers |-> {"wallpaper"}, hovers |-> {},
     removable |-> {"left", "middle", "bar"},
     faults |-> {"reset", "clear", "die"}, maxFaults |-> 2]

\* Two devices that take the touch from each other, one of them hovering, while
\* events are dropped and time out.
TwoDevices ==
    [devices |-> {"d1", "d2"}, pointers |-> {1},
     places |-> {"left", "bar", "edge"}, slippery |-> {},
     wallpapers |-> {}, hovers |-> {"d2"}, removable |-> {"left"},
     faults |-> {"drop", "anr", "reset", "die", "clear"}, maxFaults |-> 2]

\* Two devices that touch while windows close and touches are transferred.
Changing ==
    [devices |-> {"d1", "d2"}, pointers |-> {1},
     places |-> {"left", "middle", "edge"}, slippery |-> {},
     wallpapers |-> {}, hovers |-> {}, removable |-> {"left", "middle"},
     faults |-> {"anr", "transfer", "remove"}, maxFaults |-> 2]

\* A device that hovers, scrolls and touches over windows that change.
Hovering ==
    [devices |-> {"d1"}, pointers |-> {1, 2},
     places |-> {"left", "middle", "bar", "edge"}, slippery |-> {"bar"},
     wallpapers |-> {}, hovers |-> {"d1"}, removable |-> {"left", "bar"},
     faults |-> {"transfer", "reset", "remove"}, maxFaults |-> 2]

MCConfigurations ==
    [split |-> Split, twoDevices |-> TwoDevices, changing |-> Changing,
     hovering |-> Hovering]

\* Nothing goes wrong but that the pointer passes over a place without a window.
Quiet(devices, hovers) ==
    [devices |-> devices, pointers |-> {1}, places |-> {"left", "middle", "edge"},
     slippery |-> {}, wallpapers |-> {}, hovers |-> hovers, removable |-> {},
     faults |-> {}, maxFaults |-> 0]

MCOneHovers == [oneHovers |-> Quiet({"d1"}, {"d1"})]
MCTwoTouch == [twoTouch |-> Quiet({"d1", "d2"}, {})]
=============================================================================
