--------------------------- MODULE MCBufferQueue ---------------------------
(* Instances of BufferQueue for TLC; see the .cfg files. *)
EXTENDS BufferQueue, TLC

\* Buffers of the second pixel format; the others have the first.
CONSTANT SecondFormat

MCAttributesOf ==
    [b \in Buffers |-> [size |-> 1, usage |-> {},
                        format |-> IF b \in SecondFormat THEN 2 ELSE 1]]

DefaultRequest == {[size |-> 0, format |-> 0, usage |-> {}]}

\* The time stamp Surface makes up when the application sets none.
AutoStamp == {[time |-> 1, isAuto |-> TRUE]}

\* Time stamps the application sets, due at time 2 and not yet due.
DueStamps == [time: {1, 3}, isAuto: {FALSE}]

\* A time stamp that is due at time 2, and one out of all proportion.
FarStamps == [time: {1, 9}, isAuto: {FALSE}]

Symmetry == Permutations(Buffers \ SecondFormat)
ThreadSymmetry == Symmetry \cup Permutations(Threads)
=============================================================================
