-------------------------- MODULE MCDispatchCycle ---------------------------
(* Instances of DispatchCycle for TLC; see the .cfg file. *)
EXTENDS DispatchCycle

CONSTANTS app, monitor, pad, stick

\* Keys, repeats and fallback keys, and cancelations by other threads.
KeyPresses ==
    [channels |-> {app}, keys |-> {1, 2}, devices |-> {}, fallbacks |-> {2},
     cancelModes |-> {"NON_POINTER"}, maxEvents |-> 2, maxCancels |-> 1,
     responsive |-> FALSE]

\* A monitor shares the key events of a window.
Monitored ==
    [channels |-> {app, monitor}, keys |-> {1}, devices |-> {}, fallbacks |-> {1},
     cancelModes |-> {}, maxEvents |-> 2, maxCancels |-> 0,
     responsive |-> FALSE]

\* Touch, hover and joystick motions in every dispatch mode.
Motions ==
    [channels |-> {app}, keys |-> {}, devices |-> {pad, stick}, fallbacks |-> {},
     cancelModes |-> {"POINTER", "ALL"}, maxEvents |-> 2, maxCancels |-> 1,
     responsive |-> FALSE]

\* Applications that answer, or die.
Responsive ==
    [channels |-> {app}, keys |-> {1, 2}, devices |-> {pad}, fallbacks |-> {2},
     cancelModes |-> {}, maxEvents |-> 2, maxCancels |-> 0,
     responsive |-> TRUE]

MCConfigurations ==
    [keys |-> KeyPresses, monitored |-> Monitored, motions |-> Motions,
     responsive |-> Responsive]
=============================================================================
