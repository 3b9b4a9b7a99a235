-------------------------- MODULE MCInputTransport --------------------------
(* Instances of InputTransport for TLC; see the .cfg file. *)
EXTENDS InputTransport

CONSTANTS d1, d2

\* Single touches of two devices, with frames whose time is unknown
\* or 1, and processes that die.
Pipes ==
    [devices |-> {d1, d2}, ids |-> {1}, keys |-> FALSE,
     actions |-> {"DOWN", "MOVE", "UP"},
     answers |-> TRUE, closes |-> TRUE, resample |-> FALSE,
     frameTimes |-> {-1, 1}, maxSeq |-> 3, maxTime |-> 1]

\* One touch of two pointers that is resampled at later and later frames.
Resampling ==
    [devices |-> {d1}, ids |-> {1, 2}, keys |-> FALSE,
     actions |-> {"DOWN", "MOVE", "UP", "POINTER_DOWN", "POINTER_UP"},
     answers |-> FALSE, closes |-> FALSE, resample |-> TRUE,
     frameTimes |-> {4, 6}, maxSeq |-> 4, maxTime |-> 4]

\* Keys, every action that can end a batch, and processes that stay.
Served ==
    [devices |-> {d1, d2}, ids |-> {1}, keys |-> TRUE,
     actions |-> {"DOWN", "MOVE", "UP", "CANCEL", "SCROLL", "HOVER_MOVE"},
     answers |-> TRUE, closes |-> FALSE, resample |-> FALSE,
     frameTimes |-> {-1}, maxSeq |-> 3, maxTime |-> 1]

MCConfigurations ==
    [pipes |-> Pipes, resampling |-> Resampling, served |-> Served]
=============================================================================
