---------------------------- MODULE FrameStream ----------------------------
(***************************************************************************)
(* What a BufferQueue promises about frames, without slots, buffers, locks *)
(* or threads: frames are numbered as they are produced, wait in a queue,  *)
(* and reach the consumer in that order.  A frame may be lost on the way:  *)
(* replaced by a newer one while it is the only frame waiting, passed over *)
(* by the consumer, or discarded with the queue.                           *)
(***************************************************************************)
EXTENDS Integers, Sequences, TLAPS

VARIABLES
    pending,      \* numbers of the frames that wait
    produced,     \* the number of the newest frame
    delivered     \* the frame the consumer got last, 0 before the first

svars == <<pending, produced, delivered>>

Init == pending = <<>> /\ produced = 0 /\ delivered = 0

\* A new frame joins the queue.
Produce ==
    /\ produced' = produced + 1
    /\ pending' = Append(pending, produced + 1)
    /\ UNCHANGED delivered

\* A new frame takes the place of the only frame that waits.
Replace ==
    /\ Len(pending) = 1
    /\ produced' = produced + 1
    /\ pending' = <<produced + 1>>
    /\ UNCHANGED delivered

\* The consumer gets the n-th frame that waits and passes over those before.
Deliver(n) ==
    /\ delivered' = pending[n]
    /\ pending' = SubSeq(pending, n + 1, Len(pending))
    /\ UNCHANGED produced

\* The queue is abandoned with the frames in it.
Discard ==
    /\ pending' = <<>>
    /\ UNCHANGED <<produced, delivered>>

Next ==
    \/ Produce
    \/ Replace
    \/ \E n \in 1..Len(pending) : Deliver(n)
    \/ Discard

Spec == Init /\ [][Next]_svars

StreamTypeOK ==
    /\ pending \in Seq(Nat)
    /\ produced \in Nat
    /\ delivered \in Nat

(***************************************************************************)
(* Every frame that waits is newer than the last one delivered, and the    *)
(* frames wait in the order they were produced.                            *)
(***************************************************************************)
WaitInOrder ==
    /\ delivered <= produced
    /\ \A i \in 1..Len(pending) :
         delivered < pending[i] /\ pending[i] <= produced
    /\ \A i, j \in 1..Len(pending) : i < j => pending[i] < pending[j]

\* Only newer frames are ever delivered: no frame twice, none out of order.
OnlyNewer == [][delivered' # delivered => delivered' > delivered]_svars

\* The inductive invariant of the frame stream: frames wait in the order
\* queueBuffer numbered them, all newer than the one acquireBuffer returned
\* last.
LEMMA StreamInductive == Spec => [](StreamTypeOK /\ WaitInOrder)
<1>1. Init => StreamTypeOK /\ WaitInOrder
  BY DEF Init, StreamTypeOK, WaitInOrder
<1>2. ASSUME StreamTypeOK, WaitInOrder, [Next]_svars
      PROVE  StreamTypeOK' /\ WaitInOrder'
  <2>1. CASE Produce
    <3>1. /\ Len(pending') = Len(pending) + 1
          /\ \A i \in 1..Len(pending) : pending'[i] = pending[i]
          /\ pending'[Len(pending) + 1] = produced + 1
      BY <1>2, <2>1 DEF Produce, StreamTypeOK
    <3>2. StreamTypeOK'
      BY <1>2, <2>1 DEF Produce, StreamTypeOK
    <3>3. WaitInOrder'
      BY <1>2, <2>1, <3>1 DEF Produce, StreamTypeOK, WaitInOrder
    <3> QED
      BY <3>2, <3>3
  <2>2. CASE Replace
    BY <1>2, <2>2 DEF Replace, StreamTypeOK, WaitInOrder
  <2>3. ASSUME NEW n \in 1..Len(pending), Deliver(n)
        PROVE  StreamTypeOK' /\ WaitInOrder'
    <3>1. /\ Len(pending') = Len(pending) - n
          /\ \A i \in 1..(Len(pending) - n) : pending'[i] = pending[n + i]
      BY <1>2, <2>3 DEF Deliver, StreamTypeOK
    <3>2. \A i \in 1..Len(pending') :
            n + i \in 1..Len(pending) /\ n < n + i
              /\ pending'[i] = pending[n + i]
      <4>1. Len(pending) \in Nat
        BY <1>2 DEF StreamTypeOK
      <4> QED
        BY <3>1, <4>1
    <3>3. StreamTypeOK'
      <4>1. pending[n] \in Nat
        BY <1>2, <2>3 DEF StreamTypeOK
      <4>2. SubSeq(pending, n + 1, Len(pending)) \in Seq(Nat)
        BY <1>2, <2>3 DEF StreamTypeOK
      <4> QED
        BY <1>2, <2>3, <4>1, <4>2 DEF Deliver, StreamTypeOK
    <3>4. \A i \in 1..Len(pending') :
            delivered' < pending'[i] /\ pending'[i] <= produced'
      BY <1>2, <2>3, <3>2 DEF Deliver, WaitInOrder, StreamTypeOK
    <3>5. \A i, j \in 1..Len(pending') : i < j => pending'[i] < pending'[j]
      <4> SUFFICES ASSUME NEW i \in 1..Len(pending'),
                          NEW j \in 1..Len(pending'), i < j
                   PROVE  pending'[i] < pending'[j]
        OBVIOUS
      <4>1. /\ n + i \in 1..Len(pending) /\ n + j \in 1..Len(pending)
            /\ pending'[i] = pending[n + i] /\ pending'[j] = pending[n + j]
        BY <3>2
      <4>2. n + i < n + j
        BY <3>1
      <4> QED
        BY <1>2, <4>1, <4>2 DEF WaitInOrder
    <3> QED
      BY <1>2, <2>3, <3>3, <3>4, <3>5 DEF Deliver, WaitInOrder
  <2>4. CASE Discard
    BY <1>2, <2>4 DEF Discard, StreamTypeOK, WaitInOrder
  <2>5. CASE UNCHANGED svars
    BY <1>2, <2>5 DEF svars, StreamTypeOK, WaitInOrder
  <2> QED
    BY <1>2, <2>1, <2>2, <2>3, <2>4, <2>5 DEF Next
<1> QED
  BY <1>1, <1>2, PTL DEF Spec

\* The consumer of a frame stream gets newer frames only; a BufferQueue that
\* implements FrameStream inherits this.
THEOREM StreamInOrder == Spec => OnlyNewer
<1>1. ASSUME StreamTypeOK, WaitInOrder, [Next]_svars
      PROVE  [delivered' # delivered => delivered' > delivered]_svars
  BY <1>1 DEF Next, Produce, Replace, Deliver, Discard, WaitInOrder,
     StreamTypeOK, svars
<1> QED
  BY <1>1, StreamInductive, PTL DEF Spec, OnlyNewer
=============================================================================
