--------------------------- MODULE MCGuiConsumers ---------------------------
(* Instances of GuiConsumers for TLC: one consumer of each class. *)
EXTENDS GuiConsumers, TLC

MCAttributesOf == [b \in Buffers |-> [size |-> 1, usage |-> {}, format |-> 1]]
DefaultRequest == {[size |-> 0, format |-> 0, usage |-> {}]}
AutoStamp == {[time |-> 1, isAuto |-> TRUE]}

Consumer(kind, calls, fails) ==
    [kind |-> kind, calls |-> calls, fails |-> fails, callers |-> 1]

MCConfigurations ==
    [glShared   |-> Consumer("gl", {"disconnect"}, FALSE),
     glContexts |-> Consumer("gl", {"switchContext", "releaseTexImage"}, TRUE),
     cpu        |-> Consumer("cpu", {"disconnect"}, FALSE),
     item       |-> Consumer("item", {"disconnect"}, FALSE),
     discarding |-> Consumer("item", {"setVRMode"}, FALSE)]

\* A GLConsumer that loses its context, whose producer also disconnects.
ContextLost ==
    [gl |-> Consumer("gl", {"disconnect", "switchContext", "releaseTexImage"},
                     FALSE)]

Symmetry == Permutations(Buffers) \cup Permutations(Threads)
=============================================================================
