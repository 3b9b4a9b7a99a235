------------------------- MODULE MCInputDispatcher --------------------------
(* Instances of InputDispatcher for TLC; see the .cfg files. *)
EXTENDS InputDispatcher

CONSTANTS i1, i2, k, home, w2

\* The untrusted injector's process owns the second window.
MCSameUid == [i \in {i1, i2} |-> IF i = i2 THEN {w2} ELSE {}]

AllDeadlines == {"appSwitch", "anr", "later", "repeat", "stale"}

\* Keys while focus, the dispatch mode and the filter change.
Modes ==
    [keys |-> {k}, injectors |-> {}, inputs |-> {"key", "config"},
     settings |-> {"windows", "mode", "filter"},
     deadlines |-> {"later", "repeat", "stale"}, passes |-> BOOLEAN,
     maxEvents |-> 3, maxCalls |-> 2]

\* A key that META replaces, focus changes and channels that go away.
Meta ==
    [keys |-> {Replaced}, injectors |-> {}, inputs |-> {"key"},
     settings |-> {"windows", "channel"},
     deadlines |-> AllDeadlines, passes |-> {TRUE},
     maxEvents |-> 3, maxCalls |-> 1]

\* Home keys and touches while applications are paused or do not respond.
Anr ==
    [keys |-> {home}, injectors |-> {}, inputs |-> {"key", "touch"},
     settings |-> {"windows", "paused", "app", "mode"},
     deadlines |-> {"appSwitch", "anr", "later"}, passes |-> {TRUE},
     maxEvents |-> 3, maxCalls |-> 1]

\* Injectors with the permission, without it, and into a window of their own.
Injected ==
    [keys |-> {k}, injectors |-> {i1, i2}, inputs |-> {"key", "touch"},
     settings |-> {"channel"}, deadlines |-> {"anr"}, passes |-> {TRUE},
     maxEvents |-> 2, maxCalls |-> 1]

\* Injectors while the filter is switched, which resets everything.
Filtered ==
    [Injected EXCEPT !.inputs = {"touch"}, !.settings = {"filter"}]

MCConfigurations ==
    [modes |-> Modes, meta |-> Meta, anr |-> Anr, injection |-> Injected,
     filtered |-> Filtered]
=============================================================================
