-------------------------- MODULE MCSensorService --------------------------
(* Instances of SensorService for TLC; see the .cfg file. *)
EXTENDS SensorService

CONSTANTS c1, c2

Sensor(mode, wakeUp, fifo) ==
    [mode |-> mode, wakeUp |-> wakeUp, fifo |-> fifo, shared |-> FALSE]

\* Two clients of a wake-up sensor that reports changes; they come and go.
Waking ==
    [connections |-> {c1, c2}, sensors |-> <<Sensor("ON_CHANGE", TRUE, 2)>>,
     calls |-> {"enable", "disable"},
     flushes |-> TRUE, fails |-> FALSE, dies |-> FALSE, races |-> FALSE,
     again |-> FALSE, poll |-> 1, write |-> 1, capacity |-> 1,
     maxEvents |-> 2, maxCalls |-> 3, rates |-> {1}]

\* One client of two sensors that flushes, with a cache that overflows, also by
\* two events at once.
Overflowing ==
    [connections |-> {c1},
     sensors |-> <<Sensor("CONTINUOUS", FALSE, 2), Sensor("CONTINUOUS", TRUE, 2)>>,
     calls |-> {"enable", "flush", "disable"},
     flushes |-> TRUE, fails |-> FALSE, dies |-> FALSE, races |-> FALSE,
     again |-> FALSE, poll |-> 2, write |-> 2, capacity |-> 1,
     maxEvents |-> 1, maxCalls |-> 4, rates |-> {1}]

\* Hardware calls that fail, two rates, clients that die.
Failing ==
    [connections |-> {c1, c2}, sensors |-> <<Sensor("CONTINUOUS", FALSE, 1)>>,
     calls |-> {"enable", "disable", "setEventRate"},
     flushes |-> TRUE, fails |-> TRUE, dies |-> TRUE, races |-> TRUE,
     again |-> FALSE, poll |-> 1, write |-> 1, capacity |-> 1,
     maxEvents |-> 1, maxCalls |-> 4, rates |-> {1, 2}]

\* A client that waits for a wake-up sensor to fire, gives up or dies.
OneShot ==
    [connections |-> {c1}, sensors |-> <<Sensor("ONE_SHOT", TRUE, 0)>>,
     calls |-> {"enable", "disable"},
     flushes |-> TRUE, fails |-> FALSE, dies |-> TRUE, races |-> TRUE,
     again |-> TRUE, poll |-> 2, write |-> 1, capacity |-> 1,
     maxEvents |-> 2, maxCalls |-> 3, rates |-> {1}]

\* A HAL that cannot flush.
OldHal ==
    [connections |-> {c1},
     sensors |-> <<Sensor("CONTINUOUS", FALSE, 2), Sensor("CONTINUOUS", TRUE, 2)>>,
     calls |-> {"enable", "flush"},
     flushes |-> FALSE, fails |-> FALSE, dies |-> FALSE, races |-> FALSE,
     again |-> FALSE, poll |-> 2, write |-> 2, capacity |-> 1,
     maxEvents |-> 2, maxCalls |-> 3, rates |-> {1}]

MCConfigurations ==
    [waking |-> Waking, overflowing |-> Overflowing, failing |-> Failing,
     oneShot |-> OneShot, oldHal |-> OldHal]

\* Caches that overflow, alone.
MCOverflowing == [overflowing |-> Overflowing]
=============================================================================
