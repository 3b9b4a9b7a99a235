------------------------ MODULE InputTransportProofs ------------------------
(***************************************************************************)
(* Batching keeps the order of the messages of each device.  A message     *)
(* passes through the socket, may be deferred when it ends a batch, and    *)
(* may wait in a batch.  What is in front is older than what is behind:    *)
(* everything the consumer keeps is older than everything in the socket,   *)
(* and a message is deferred only when its device has no batch, so that    *)
(* the next turn of consume's loop cannot put it behind a newer one.       *)
(***************************************************************************)
EXTENDS InputTransport, SequenceTheorems, FiniteSetTheorems, TLAPS

-----------------------------------------------------------------------------
(* Sequences of messages *)

IsSeq(q) == q \in Seq({q[i] : i \in DOMAIN q})

\* Messages in the order in which they were published.
InOrder(q) ==
    /\ IsSeq(q)
    /\ \A i \in DOMAIN q : q[i].seq \in Nat
    /\ \A i, j \in DOMAIN q : i < j => q[i].seq < q[j].seq

Older(p, q) == \A i \in DOMAIN p, j \in DOMAIN q : p[i].seq < q[j].seq
Below(q, n) == \A i \in DOMAIN q : q[i].seq < n

IsBatch(b) ==
    /\ InOrder(b) /\ b # <<>>
    /\ \A i \in DOMAIN b : b[i].type = "MOTION" /\ b[i].dev = b[1].dev

AreBatches(bs) ==
    /\ IsSeq(bs)
    /\ \A i \in DOMAIN bs : IsBatch(bs[i])
    /\ \A i, j \in DOMAIN bs : bs[i][1].dev = bs[j][1].dev => i = j

LEMMA IsSeqIntro ==
    ASSUME NEW S, NEW q \in Seq(S)
    PROVE  IsSeq(q)
<1>1. q \in [1 .. Len(q) -> S] /\ Len(q) \in Nat
  OBVIOUS
<1>2. q \in [1 .. Len(q) -> {q[i] : i \in DOMAIN q}]
  BY <1>1
<1> QED
  BY <1>1, <1>2 DEF IsSeq

LEMMA IsSeqFacts ==
    ASSUME NEW q, IsSeq(q)
    PROVE  Len(q) \in Nat /\ DOMAIN q = 1 .. Len(q)
  BY DEF IsSeq

LEMMA IsSeqAppend ==
    ASSUME NEW q, IsSeq(q), NEW m
    PROVE  /\ IsSeq(Append(q, m)) /\ DOMAIN Append(q, m) = 1 .. Len(q) + 1
           /\ \A i \in 1 .. Len(q) : Append(q, m)[i] = q[i]
           /\ Append(q, m)[Len(q) + 1] = m
<1>1. PICK S : q \in Seq(S)
  BY DEF IsSeq
<1>2. q \in Seq(S \cup {m}) /\ m \in S \cup {m}
  BY <1>1, SeqMonotonic
<1>3. /\ Append(q, m) \in Seq(S \cup {m}) /\ Len(Append(q, m)) = Len(q) + 1
      /\ \A i \in 1 .. Len(q) : Append(q, m)[i] = q[i]
      /\ Append(q, m)[Len(q) + 1] = m
  BY <1>2, AppendProperties
<1>4. DOMAIN Append(q, m) = 1 .. Len(Append(q, m))
  BY <1>3, LenProperties
<1> QED
  BY <1>3, <1>4, IsSeqIntro

LEMMA IsSeqTail ==
    ASSUME NEW q, IsSeq(q), q # <<>>
    PROVE  /\ IsSeq(Tail(q)) /\ DOMAIN Tail(q) = 1 .. Len(q) - 1
           /\ \A i \in 1 .. Len(q) - 1 : Tail(q)[i] = q[i + 1]
           /\ Head(q) = q[1] /\ 1 \in DOMAIN q
<1>1. PICK S : q \in Seq(S)
  BY DEF IsSeq
<1>2. /\ Tail(q) \in Seq(S) /\ Len(Tail(q)) = Len(q) - 1
      /\ \A i \in 1 .. Len(Tail(q)) : Tail(q)[i] = q[i + 1]
  BY <1>1, HeadTailProperties
<1>3. DOMAIN Tail(q) = 1 .. Len(Tail(q))
  BY <1>2, LenProperties
<1>4. Head(q) = q[1] /\ 1 \in DOMAIN q
  BY <1>1, EmptySeq, LenProperties
<1> QED
  BY <1>2, <1>3, <1>4, IsSeqIntro

LEMMA IsSeqSub ==
    ASSUME NEW q, IsSeq(q), NEW m \in 1 .. Len(q) + 1, NEW n \in 0 .. Len(q)
    PROVE  /\ IsSeq(SubSeq(q, m, n))
           /\ Len(SubSeq(q, m, n)) = IF m <= n THEN n - m + 1 ELSE 0
           /\ \A i \in 1 .. n - m + 1 : SubSeq(q, m, n)[i] = q[m + i - 1]
<1>1. PICK S : q \in Seq(S)
  BY DEF IsSeq
<1>2. m \in Int /\ n \in Int /\ \A i \in m .. n : q[i] \in S
  <2>1. Len(q) \in Nat
    BY IsSeqFacts
  <2>2. \A i \in 1 .. Len(q) : q[i] \in S
    BY <1>1
  <2> QED
    BY <2>1, <2>2
<1>3. /\ SubSeq(q, m, n) \in Seq(S)
      /\ Len(SubSeq(q, m, n)) = IF m <= n THEN n - m + 1 ELSE 0
      /\ \A i \in 1 .. n - m + 1 : SubSeq(q, m, n)[i] = q[m + i - 1]
  BY <1>2, SubSeqProperties
<1> QED
  BY <1>3, IsSeqIntro

LEMMA IsSeqRemove ==
    ASSUME NEW q, IsSeq(q), NEW n \in DOMAIN q
    PROVE  /\ IsSeq(RemoveAt(q, n)) /\ DOMAIN RemoveAt(q, n) = 1 .. Len(q) - 1
           /\ \A i \in 1 .. Len(q) - 1 :
                 RemoveAt(q, n)[i] = IF i < n THEN q[i] ELSE q[i + 1]
<1> DEFINE p == SubSeq(q, 1, n - 1)
           r == SubSeq(q, n + 1, Len(q))
<1>1. PICK S : q \in Seq(S)
  BY DEF IsSeq
<1>2. Len(q) \in Nat /\ n \in 1 .. Len(q)
  BY IsSeqFacts
<1>3. \A i \in 1 .. Len(q) : q[i] \in S
  BY <1>1
<1>4. /\ p \in Seq(S) /\ Len(p) = n - 1
      /\ \A i \in 1 .. n - 1 : p[i] = q[i]
  <2>1. n - 1 \in Int /\ 1 \in Int /\ \A i \in 1 .. n - 1 : q[i] \in S
    BY <1>2, <1>3
  <2>2. /\ p \in Seq(S) /\ Len(p) = IF 1 <= n - 1 THEN n - 1 - 1 + 1 ELSE 0
        /\ \A i \in 1 .. n - 1 - 1 + 1 : p[i] = q[1 + i - 1]
    BY <2>1, SubSeqProperties
  <2> QED
    BY <1>2, <2>2
<1>5. /\ r \in Seq(S) /\ Len(r) = Len(q) - n
      /\ \A i \in 1 .. Len(q) - n : r[i] = q[n + i]
  <2>1. n + 1 \in Int /\ Len(q) \in Int /\ \A i \in n + 1 .. Len(q) : q[i] \in S
    BY <1>2, <1>3
  <2>2. /\ r \in Seq(S) /\ Len(r) = IF n + 1 <= Len(q) THEN Len(q) - (n + 1) + 1 ELSE 0
        /\ \A i \in 1 .. Len(q) - (n + 1) + 1 : r[i] = q[(n + 1) + i - 1]
    BY <2>1, SubSeqProperties
  <2> QED
    BY <1>2, <2>2
<1>6. RemoveAt(q, n) = p \o r
  BY DEF RemoveAt
<1> HIDE DEF p, r
<1>7. /\ p \o r \in Seq(S) /\ Len(p \o r) = Len(p) + Len(r)
      /\ \A i \in 1 .. Len(p) + Len(r) :
            (p \o r)[i] = IF i <= Len(p) THEN p[i] ELSE r[i - Len(p)]
  BY <1>4, <1>5, ConcatProperties
<1>8. DOMAIN (p \o r) = 1 .. Len(p \o r)
  BY <1>7, LenProperties
<1>9. Len(p) + Len(r) = Len(q) - 1
  BY <1>2, <1>4, <1>5
<1>10. ASSUME NEW i \in 1 .. Len(q) - 1
       PROVE  (p \o r)[i] = IF i < n THEN q[i] ELSE q[i + 1]
  <2>1. (p \o r)[i] = IF i <= n - 1 THEN p[i] ELSE r[i - (n - 1)]
    BY <1>4, <1>7, <1>9
  <2>2. CASE i < n
    <3>1. i \in 1 .. n - 1
      BY <1>2, <2>2
    <3> QED
      BY <1>4, <2>1, <2>2, <3>1
  <2>3. CASE ~(i < n)
    <3>1. i - (n - 1) \in 1 .. Len(q) - n /\ n + (i - (n - 1)) = i + 1 /\ ~(i <= n - 1)
      BY <1>2, <2>3
    <3>2. r[i - (n - 1)] = q[n + (i - (n - 1))]
      BY <1>5, <3>1
    <3> QED
      BY <2>1, <2>3, <3>1, <3>2
  <2> QED
    BY <2>2, <2>3
<1>11. IsSeq(p \o r)
  BY <1>7, IsSeqIntro
<1> QED
  BY <1>6, <1>7, <1>8, <1>9, <1>10, <1>11

-----------------------------------------------------------------------------
(* The order of what waits *)

\* A message is deferred only while its device has no batch.
Order(queue, deferred, batches, next) ==
    /\ InOrder(queue) /\ Below(queue, next)
    /\ InOrder(deferred) /\ Len(deferred) <= 1
    /\ Older(deferred, queue) /\ Below(deferred, next)
    /\ AreBatches(batches)
    /\ \A k \in DOMAIN batches : Older(batches[k], queue) /\ Below(batches[k], next)
    /\ \A i \in DOMAIN deferred :
          /\ deferred[i].type = "MOTION"
          /\ \A k \in DOMAIN batches : batches[k][1].dev # deferred[i].dev

OrderInv == nextSeq \in Nat /\ Order(toClient, mMsg, mBatches, nextSeq)

\* findBatch finds the batch of a device, if there is one.
LEMMA FindBatch ==
    ASSUME AreBatches(mBatches), NEW d
    PROVE  /\ findBatch(d) # 0 => /\ findBatch(d) \in DOMAIN mBatches
                                  /\ mBatches[findBatch(d)][1].dev = d
           /\ findBatch(d) = 0 => \A k \in DOMAIN mBatches : mBatches[k][1].dev # d
<1> DEFINE I == {k \in 1 .. Len(mBatches) : mBatches[k][1].dev = d}
<1>1. findBatch(d) = IF I # {} THEN Min(I) ELSE 0
  BY DEF findBatch, SelectInSeq
<1>2. DOMAIN mBatches = 1 .. Len(mBatches) /\ Len(mBatches) \in Nat
  BY IsSeqFacts DEF AreBatches
<1>3. CASE I = {}
  BY <1>1, <1>2, <1>3
<1>4. CASE I # {}
  <2>1. PICK k \in I : TRUE
    BY <1>4
  <2>2. I = {k}
    BY <1>2, <2>1 DEF AreBatches
  <2>3. k \in Nat \ {0}
    BY <1>2, <2>1
  <2>4. Min({k}) = k
    BY <2>3 DEF Min
  <2> QED
    BY <1>1, <1>2, <2>1, <2>2, <2>3, <2>4
<1> QED
  BY <1>3, <1>4

LEMMA SingleInOrder ==
    ASSUME NEW m, m.seq \in Nat
    PROVE  /\ InOrder(<<m>>) /\ DOMAIN <<m>> = {1} /\ <<m>>[1] = m /\ Len(<<m>>) = 1
<1>1. /\ <<m>> \in Seq({m}) /\ <<m>>[1] = m /\ Len(<<m>>) = 1
      /\ DOMAIN <<m>> = 1 .. 1
  OBVIOUS
<1> DEFINE q == <<m>>
<1>2. IsSeq(q)
  BY <1>1, IsSeqIntro
<1> HIDE DEF q
<1>3. DOMAIN q = {1} /\ q[1] = m
  BY <1>1 DEF q
<1>4. InOrder(q)
  BY <1>2, <1>3 DEF InOrder
<1> QED
  BY <1>1, <1>3, <1>4 DEF q

LEMMA EmptyInOrder == InOrder(<<>>) /\ DOMAIN <<>> = {} /\ Len(<<>>) = 0
<1>1. <<>> \in Seq({}) /\ Len(<<>>) = 0 /\ DOMAIN <<>> = {}
  OBVIOUS
<1>2. IsSeq(<<>>)
  BY <1>1, IsSeqIntro
<1> QED
  BY <1>1, <1>2 DEF InOrder

LEMMA AppendInOrder ==
    ASSUME NEW q, InOrder(q), NEW m, m.seq \in Nat, \A i \in DOMAIN q : q[i].seq < m.seq
    PROVE  /\ InOrder(Append(q, m)) /\ DOMAIN Append(q, m) = 1 .. Len(q) + 1
           /\ \A i \in 1 .. Len(q) : Append(q, m)[i] = q[i]
           /\ Append(q, m)[Len(q) + 1] = m
           /\ Len(q) \in Nat /\ DOMAIN q = 1 .. Len(q)
<1>1. IsSeq(q) /\ Len(q) \in Nat /\ DOMAIN q = 1 .. Len(q)
  BY IsSeqFacts DEF InOrder
<1>2. /\ IsSeq(Append(q, m)) /\ DOMAIN Append(q, m) = 1 .. Len(q) + 1
      /\ \A i \in 1 .. Len(q) : Append(q, m)[i] = q[i]
      /\ Append(q, m)[Len(q) + 1] = m
  BY <1>1, IsSeqAppend
<1>3. \A i \in 1 .. Len(q) + 1 : i \in 1 .. Len(q) \/ i = Len(q) + 1
  BY <1>1
<1>4. \A i \in DOMAIN Append(q, m) : Append(q, m)[i].seq \in Nat
  BY <1>1, <1>2, <1>3 DEF InOrder
<1>5. ASSUME NEW i \in DOMAIN Append(q, m), NEW j \in DOMAIN Append(q, m), i < j
      PROVE  Append(q, m)[i].seq < Append(q, m)[j].seq
  <2>1. i \in 1 .. Len(q)
    BY <1>1, <1>2, <1>5
  <2>2. CASE j \in 1 .. Len(q)
    BY <1>1, <1>2, <1>5, <2>1, <2>2 DEF InOrder
  <2>3. CASE j = Len(q) + 1
    BY <1>1, <1>2, <2>1, <2>3
  <2> QED
    BY <1>2, <1>3, <2>2, <2>3
<1> QED
  BY <1>1, <1>2, <1>4, <1>5 DEF InOrder

\* A message that a device produces joins the queue.
LEMMA PublishOrder ==
    ASSUME OrderInv, NEW m, m.seq = nextSeq, toClient' = Append(toClient, m),
           nextSeq' = nextSeq + 1, UNCHANGED <<mMsg, mBatches>>
    PROVE  OrderInv'
<1>1. nextSeq \in Nat /\ \A i \in DOMAIN toClient : toClient[i].seq < m.seq
  BY DEF OrderInv, Order, Below
<1>2. InOrder(toClient)
  BY DEF OrderInv, Order
<1>3. /\ InOrder(toClient') /\ DOMAIN toClient' = 1 .. Len(toClient) + 1
      /\ \A i \in 1 .. Len(toClient) : toClient'[i] = toClient[i]
      /\ toClient'[Len(toClient) + 1] = m
      /\ Len(toClient) \in Nat /\ DOMAIN toClient = 1 .. Len(toClient)
  BY <1>1, <1>2, AppendInOrder
<1>4. \A i \in DOMAIN toClient' : \/ i \in DOMAIN toClient /\ toClient'[i] = toClient[i]
                                  \/ toClient'[i] = m
  BY <1>3
<1>5. ASSUME NEW q, InOrder(q), Below(q, nextSeq), Older(q, toClient)
      PROVE  Older(q, toClient') /\ Below(q, nextSeq')
  BY <1>1, <1>4, <1>5 DEF Older, Below, InOrder
<1>6. Below(toClient', nextSeq')
  BY <1>1, <1>2, <1>4 DEF Below, InOrder
<1>7. \A k \in DOMAIN mBatches : InOrder(mBatches[k])
  BY DEF OrderInv, Order, AreBatches, IsBatch
<1>8. Order(toClient', mMsg, mBatches, nextSeq')
  BY <1>3, <1>5, <1>6, <1>7 DEF OrderInv, Order
<1> QED
  BY <1>1, <1>8 DEF OrderInv

-----------------------------------------------------------------------------
(* Batches *)

LEMMA RemovedBatch ==
    ASSUME NEW bs, AreBatches(bs), NEW n \in DOMAIN bs
    PROVE  /\ AreBatches(RemoveAt(bs, n))
           /\ \A k \in DOMAIN RemoveAt(bs, n) :
                 \E l \in DOMAIN bs : l # n /\ RemoveAt(bs, n)[k] = bs[l]
<1> DEFINE r == RemoveAt(bs, n)
           At(k) == IF k < n THEN k ELSE k + 1
<1>1. IsSeq(bs) /\ Len(bs) \in Nat /\ DOMAIN bs = 1 .. Len(bs)
  BY IsSeqFacts DEF AreBatches
<1>2. /\ IsSeq(r) /\ DOMAIN r = 1 .. Len(bs) - 1
      /\ \A k \in 1 .. Len(bs) - 1 : r[k] = IF k < n THEN bs[k] ELSE bs[k + 1]
  BY <1>1, IsSeqRemove
<1> HIDE DEF r
<1>3. \A k \in DOMAIN r : At(k) \in DOMAIN bs /\ At(k) # n /\ r[k] = bs[At(k)]
  BY <1>1, <1>2
<1>4. \A k, l \in DOMAIN r : At(k) = At(l) => k = l
  BY <1>1, <1>2
<1> HIDE DEF At
<1>5. AreBatches(r)
  BY <1>2, <1>3, <1>4 DEF AreBatches
<1> QED
  BY <1>3, <1>5 DEF r

LEMMA ChangedBatch ==
    ASSUME NEW bs, AreBatches(bs), NEW n \in DOMAIN bs, NEW b, IsBatch(b),
           b[1].dev = bs[n][1].dev
    PROVE  /\ AreBatches([bs EXCEPT ![n] = b])
           /\ DOMAIN [bs EXCEPT ![n] = b] = DOMAIN bs
           /\ \A k \in DOMAIN bs : [bs EXCEPT ![n] = b][k] = IF k = n THEN b ELSE bs[k]
<1> DEFINE r == [bs EXCEPT ![n] = b]
<1>1. PICK S : bs \in Seq(S)
  BY DEF AreBatches, IsSeq
<1>2. bs \in Seq(S \cup {b}) /\ b \in S \cup {b} /\ n \in 1 .. Len(bs)
  BY <1>1, SeqMonotonic, LenProperties
<1>3. r \in Seq(S \cup {b})
  BY <1>2, ExceptSeq
<1>4. IsSeq(r)
  BY <1>3, IsSeqIntro
<1>5. DOMAIN r = DOMAIN bs /\ \A k \in DOMAIN bs : r[k] = IF k = n THEN b ELSE bs[k]
  OBVIOUS
<1> HIDE DEF r
<1>6. AreBatches(r)
  BY <1>4, <1>5 DEF AreBatches
<1> QED
  BY <1>5, <1>6 DEF r

LEMMA AddedBatch ==
    ASSUME NEW bs, AreBatches(bs), NEW b, IsBatch(b),
           \A k \in DOMAIN bs : bs[k][1].dev # b[1].dev
    PROVE  /\ AreBatches(Append(bs, b))
           /\ \A k \in DOMAIN Append(bs, b) :
                 (k \in DOMAIN bs /\ Append(bs, b)[k] = bs[k]) \/ Append(bs, b)[k] = b
<1> DEFINE r == Append(bs, b)
<1>1. IsSeq(bs) /\ Len(bs) \in Nat /\ DOMAIN bs = 1 .. Len(bs)
  BY IsSeqFacts DEF AreBatches
<1>2. /\ IsSeq(r) /\ DOMAIN r = 1 .. Len(bs) + 1
      /\ \A k \in 1 .. Len(bs) : r[k] = bs[k]
      /\ r[Len(bs) + 1] = b
  BY <1>1, IsSeqAppend
<1> HIDE DEF r
<1>3. \A k \in DOMAIN r : \/ k \in DOMAIN bs /\ r[k] = bs[k]
                          \/ k = Len(bs) + 1 /\ r[k] = b
  BY <1>1, <1>2
<1>4. AreBatches(r)
  BY <1>2, <1>3 DEF AreBatches
<1> QED
  BY <1>3, <1>4 DEF r

\* What is left of a batch when its first samples have been consumed.
LEMMA BatchRest ==
    ASSUME NEW b, IsBatch(b), NEW n \in 0 .. Len(b),
           SubSeq(b, n + 1, Len(b)) # <<>>
    PROVE  LET rest == SubSeq(b, n + 1, Len(b))
           IN  /\ IsBatch(rest) /\ rest[1].dev = b[1].dev
               /\ \A i \in DOMAIN rest : \E j \in DOMAIN b : rest[i] = b[j]
<1> DEFINE rest == SubSeq(b, n + 1, Len(b))
<1>1. IsSeq(b) /\ Len(b) \in Nat /\ DOMAIN b = 1 .. Len(b)
  BY IsSeqFacts DEF IsBatch, InOrder
<1>2. /\ IsSeq(rest)
      /\ Len(rest) = IF n + 1 <= Len(b) THEN Len(b) - (n + 1) + 1 ELSE 0
      /\ \A i \in 1 .. Len(b) - (n + 1) + 1 : rest[i] = b[(n + 1) + i - 1]
  <2>1. n + 1 \in 1 .. Len(b) + 1 /\ Len(b) \in 0 .. Len(b)
    BY <1>1
  <2> QED
    BY <1>1, <2>1, IsSeqSub
<1>0. rest # <<>>
  OBVIOUS
<1> HIDE DEF rest
<1>3. Len(rest) = Len(b) - n /\ DOMAIN rest = 1 .. Len(b) - n
  <2>1. Len(rest) = Len(b) - n
    <3> DEFINE size == Len(b)
    <3>1. size \in Nat /\ Len(rest) = IF n + 1 <= size THEN size - (n + 1) + 1 ELSE 0
      BY <1>1, <1>2
    <3> HIDE DEF size
    <3>2. ASSUME NEW s \in Nat, NEW k \in 0 .. s
          PROVE  (IF k + 1 <= s THEN s - (k + 1) + 1 ELSE 0) = s - k
      OBVIOUS
    <3>3. n \in 0 .. size
      BY DEF size
    <3>4. Len(rest) = size - n
      BY <3>1, <3>2, <3>3, Zenon
    <3> QED
      BY <3>4 DEF size
  <2>2. DOMAIN rest = 1 .. Len(rest)
    BY <1>2, IsSeqFacts
  <2> QED
    BY <2>1, <2>2
<1>4. \A i \in DOMAIN rest : n + i \in DOMAIN b /\ rest[i] = b[n + i]
  <2> SUFFICES ASSUME NEW i \in DOMAIN rest
               PROVE  n + i \in DOMAIN b /\ rest[i] = b[n + i]
    OBVIOUS
  <2>1. i \in 1 .. Len(b) - (n + 1) + 1 /\ (n + 1) + i - 1 = n + i /\ n + i \in 1 .. Len(b)
    BY <1>1, <1>3
  <2> QED
    BY <1>1, <1>2, <2>1
<1>5. 1 \in DOMAIN rest
  BY <1>0, <1>2, IsSeqTail
<1>6. \A i \in DOMAIN rest : i \in Nat
  BY <1>3
<1>7. InOrder(rest)
  <2>1. \A i \in DOMAIN rest : rest[i].seq \in Nat
    BY <1>4 DEF IsBatch, InOrder
  <2>2. ASSUME NEW i \in DOMAIN rest, NEW j \in DOMAIN rest, i < j
        PROVE  rest[i].seq < rest[j].seq
    <3>1. n + i < n + j
      BY <1>6, <2>2
    <3> QED
      BY <1>4, <3>1 DEF IsBatch, InOrder
  <2> QED
    BY <1>2, <2>1, <2>2 DEF InOrder
<1>8. \A i \in DOMAIN rest : rest[i].type = "MOTION" /\ rest[i].dev = b[1].dev
  BY <1>4 DEF IsBatch
<1>9. rest[1].dev = b[1].dev
  BY <1>5, <1>8
<1>10. IsBatch(rest)
  BY <1>0, <1>7, <1>8, <1>9 DEF IsBatch
<1> QED
  BY <1>4, <1>9, <1>10 DEF rest

-----------------------------------------------------------------------------
(* The turns of consume's loop *)

\* A message newer than its device's batch, put at the end of it.
LEMMA GrownBatch ==
    ASSUME NEW b, IsBatch(b), NEW m, m.seq \in Nat, m.type = "MOTION",
           m.dev = b[1].dev, \A i \in DOMAIN b : b[i].seq < m.seq
    PROVE  /\ IsBatch(Append(b, m)) /\ Append(b, m)[1].dev = b[1].dev
           /\ \A i \in DOMAIN Append(b, m) :
                 \/ i \in DOMAIN b /\ Append(b, m)[i] = b[i]
                 \/ Append(b, m)[i] = m
<1> DEFINE c == Append(b, m)
<1>1. /\ InOrder(c) /\ DOMAIN c = 1 .. Len(b) + 1
      /\ \A i \in 1 .. Len(b) : c[i] = b[i]
      /\ c[Len(b) + 1] = m
      /\ Len(b) \in Nat /\ DOMAIN b = 1 .. Len(b)
  BY AppendInOrder DEF IsBatch
<1> HIDE DEF c
<1>2. 1 \in DOMAIN b
  BY IsSeqTail DEF IsBatch, InOrder
<1>3. c # <<>>
  BY <1>1, EmptyInOrder
<1>4. \A i \in DOMAIN c : (i \in DOMAIN b /\ c[i] = b[i]) \/ c[i] = m
  BY <1>1
<1>5. \A i \in DOMAIN c : c[i].type = "MOTION" /\ c[i].dev = b[1].dev
  BY <1>4 DEF IsBatch
<1>6. c[1] = b[1]
  BY <1>1, <1>2
<1> QED
  BY <1>1, <1>3, <1>4, <1>5, <1>6 DEF IsBatch, c

LEMMA ProcessOrder ==
    ASSUME NEW queue, Order(queue, <<>>, mBatches, nextSeq),
           NEW m, m.seq \in Nat, m.seq < nextSeq,
           \A j \in DOMAIN queue : m.seq < queue[j].seq,
           m.type = "MOTION" =>
               \A k \in DOMAIN mBatches : mBatches[k][1].dev = m.dev =>
                   \A i \in DOMAIN mBatches[k] : mBatches[k][i].seq < m.seq,
           ProcessMessage(m)
    PROVE  Order(queue, mMsg', mBatches', nextSeq)
<1> USE DEF Order
<1> DEFINE n == findBatch(m.dev)
<1>1. AreBatches(mBatches) /\ \A k \in DOMAIN mBatches : IsBatch(mBatches[k])
  BY DEF AreBatches
<1>2. InOrder(<<m>>) /\ DOMAIN <<m>> = {1} /\ <<m>>[1] = m /\ Len(<<m>>) = 1
  BY SingleInOrder
<1>3. InOrder(<<>>) /\ DOMAIN <<>> = {} /\ Len(<<>>) = 0
  BY EmptyInOrder
<1>4. n # 0 => n \in DOMAIN mBatches /\ mBatches[n][1].dev = m.dev
  BY <1>1, FindBatch
<1>5. n = 0 => \A k \in DOMAIN mBatches : mBatches[k][1].dev # m.dev
  BY <1>1, FindBatch
<1> HIDE DEF n
<1>6. Older(<<m>>, queue) /\ Below(<<m>>, nextSeq)
  BY <1>2 DEF Older, Below
<1>7. CASE ProcessKey(m)
  BY <1>7 DEF ProcessKey
<1>8. CASE AppendToBatch(m)
  <2> DEFINE b == mBatches[n]
             c == Append(b, m)
             bs == [mBatches EXCEPT ![n] = c]
  <2>1. n \in DOMAIN mBatches /\ m.type = "MOTION" /\ m.dev = b[1].dev
    BY <1>4, <1>8 DEF AppendToBatch, n
  <2>2. IsBatch(b) /\ \A i \in DOMAIN b : b[i].seq < m.seq
    BY <1>1, <2>1
  <2>3. mMsg' = <<>> /\ mBatches' = bs
    BY <1>8, <2>1 DEF AppendToBatch, n
  <2> HIDE DEF b
  <2>4. /\ IsBatch(c) /\ c[1].dev = b[1].dev
        /\ \A i \in DOMAIN c : (i \in DOMAIN b /\ c[i] = b[i]) \/ c[i] = m
    BY <2>1, <2>2, GrownBatch
  <2> HIDE DEF c
  <2>5. /\ AreBatches(bs) /\ DOMAIN bs = DOMAIN mBatches
        /\ \A k \in DOMAIN mBatches : bs[k] = IF k = n THEN c ELSE mBatches[k]
    BY <1>1, <2>1, <2>4, ChangedBatch DEF b
  <2> HIDE DEF bs
  <2>6. Older(b, queue) /\ Below(b, nextSeq)
    BY <2>1 DEF b
  <2>7. Older(c, queue) /\ Below(c, nextSeq)
    BY <2>4, <2>6 DEF Older, Below
  <2>8. \A k \in DOMAIN bs : Older(bs[k], queue) /\ Below(bs[k], nextSeq)
    BY <2>5, <2>7
  <2> QED
    BY <1>3, <2>3, <2>5, <2>8
<1>9. CASE FlushBatchAndDefer(m)
  <2> DEFINE bs == RemoveAt(mBatches, n)
  <2>1. n \in DOMAIN mBatches /\ m.type = "MOTION" /\ m.dev = mBatches[n][1].dev
    BY <1>4, <1>9 DEF FlushBatchAndDefer, n
  <2>2. mMsg' = <<m>> /\ mBatches' = bs
    BY <1>9 DEF FlushBatchAndDefer, n
  <2>3. /\ AreBatches(bs)
        /\ \A k \in DOMAIN bs : \E l \in DOMAIN mBatches : l # n /\ bs[k] = mBatches[l]
    BY <1>1, <2>1, RemovedBatch
  <2> HIDE DEF bs
  <2>4. \A k \in DOMAIN bs : Older(bs[k], queue) /\ Below(bs[k], nextSeq)
    BY <2>3
  <2>5. \A k \in DOMAIN bs : bs[k][1].dev # m.dev
    BY <1>1, <2>1, <2>3 DEF AreBatches
  <2> QED
    BY <1>2, <1>6, <2>1, <2>2, <2>3, <2>4, <2>5
<1>10. CASE StartBatch(m)
  <2> DEFINE c == <<m>>
             bs == Append(mBatches, c)
  <2>1. n = 0 /\ m.type = "MOTION"
    BY <1>10 DEF StartBatch, n
  <2>2. mMsg' = <<>> /\ mBatches' = bs
    BY <1>10 DEF StartBatch
  <2>3. c # <<>> /\ c[1].dev = m.dev
    BY <1>2
  <2> HIDE DEF c
  <2>4. IsBatch(c)
    BY <1>2, <2>1, <2>3 DEF IsBatch, c
  <2>5. /\ AreBatches(bs)
        /\ \A k \in DOMAIN bs : (k \in DOMAIN mBatches /\ bs[k] = mBatches[k]) \/ bs[k] = c
    BY <1>1, <1>5, <2>1, <2>3, <2>4, AddedBatch
  <2> HIDE DEF bs
  <2>6. \A k \in DOMAIN bs : Older(bs[k], queue) /\ Below(bs[k], nextSeq)
    BY <1>6, <2>5 DEF c
  <2> QED
    BY <1>3, <2>2, <2>5, <2>6
<1>11. CASE ReturnMotion(m)
  BY <1>11 DEF ReturnMotion
<1> QED
  BY <1>7, <1>8, <1>9, <1>10, <1>11 DEF ProcessMessage

LEMMA DeferredLeaves ==
    ASSUME NEW queue, NEW q, NEW bs, NEW n, Order(queue, q, bs, n)
    PROVE  Order(queue, <<>>, bs, n)
<1>1. Older(<<>>, queue) /\ Below(<<>>, n)
  BY EmptyInOrder DEF Older, Below
<1> QED
  BY <1>1, EmptyInOrder DEF Order

LEMMA DeferredOrder ==
    ASSUME OrderInv, consumeDeferred
    PROVE  OrderInv'
<1> DEFINE m == mMsg[1]
<1>1. nextSeq \in Nat /\ Order(toClient, <<>>, mBatches, nextSeq)
  BY DeferredLeaves DEF OrderInv
<1>2. 1 \in DOMAIN mMsg
  BY IsSeqTail DEF OrderInv, Order, InOrder, consumeDeferred
<1>3. m.seq \in Nat /\ m.seq < nextSeq /\ \A j \in DOMAIN toClient : m.seq < toClient[j].seq
  BY <1>2 DEF OrderInv, Order, InOrder, Below, Older
<1>4. \A k \in DOMAIN mBatches : mBatches[k][1].dev # m.dev
  BY <1>2 DEF OrderInv, Order
<1>5. ProcessMessage(m) /\ UNCHANGED <<toClient, nextSeq>>
  BY DEF consumeDeferred, server
<1> HIDE DEF m
<1>6. Order(toClient, mMsg', mBatches', nextSeq)
  BY <1>1, <1>3, <1>4, <1>5, ProcessOrder
<1> QED
  BY <1>1, <1>5, <1>6 DEF OrderInv

LEMMA ReceivedOrder ==
    ASSUME OrderInv, consumeReceived
    PROVE  OrderInv'
<1> DEFINE m == Head(toClient)
           queue == Tail(toClient)
<1>1. nextSeq \in Nat /\ Order(toClient, <<>>, mBatches, nextSeq)
  BY DeferredLeaves DEF OrderInv
<1>2. IsSeq(toClient) /\ toClient # <<>>
  BY DEF OrderInv, Order, InOrder, consumeReceived
<1>3. Len(toClient) \in Nat /\ DOMAIN toClient = 1 .. Len(toClient)
  BY <1>2, IsSeqFacts
<1>4. /\ IsSeq(queue) /\ DOMAIN queue = 1 .. Len(toClient) - 1
      /\ \A i \in 1 .. Len(toClient) - 1 : queue[i] = toClient[i + 1]
      /\ m = toClient[1] /\ 1 \in DOMAIN toClient
  BY <1>2, IsSeqTail
<1>5. ProcessMessage(m) /\ toClient' = queue /\ nextSeq' = nextSeq
  BY DEF consumeReceived, server
<1> HIDE DEF m, queue
<1>6. \A i \in DOMAIN queue : /\ i + 1 \in DOMAIN toClient /\ queue[i] = toClient[i + 1]
                              /\ 1 < i + 1 /\ i \in Nat
  BY <1>3, <1>4
<1>7. InOrder(toClient) /\ Below(toClient, nextSeq)
  BY DEF OrderInv, Order
<1>8. m.seq \in Nat /\ m.seq < nextSeq /\ \A j \in DOMAIN queue : m.seq < queue[j].seq
  BY <1>4, <1>6, <1>7 DEF InOrder, Below
<1>9. InOrder(queue) /\ Below(queue, nextSeq)
  <2>1. \A i \in DOMAIN queue : queue[i].seq \in Nat /\ queue[i].seq < nextSeq
    BY <1>6, <1>7 DEF InOrder, Below
  <2>2. ASSUME NEW i \in DOMAIN queue, NEW j \in DOMAIN queue, i < j
        PROVE  queue[i].seq < queue[j].seq
    <3>1. i + 1 < j + 1
      BY <1>6, <2>2
    <3> QED
      BY <1>6, <1>7, <3>1 DEF InOrder
  <2> QED
    BY <1>4, <2>1, <2>2 DEF InOrder, Below
<1>10. ASSUME NEW q, Older(q, toClient)
       PROVE  Older(q, queue) /\ \A i \in DOMAIN q : q[i].seq < m.seq
  BY <1>4, <1>6, <1>10 DEF Older
<1>11. Order(queue, <<>>, mBatches, nextSeq)
  BY <1>1, <1>9, <1>10 DEF Order
<1>12. \A k \in DOMAIN mBatches : \A i \in DOMAIN mBatches[k] : mBatches[k][i].seq < m.seq
  BY <1>1, <1>10 DEF Order
<1>13. Order(queue, mMsg', mBatches', nextSeq)
  BY <1>5, <1>8, <1>11, <1>12, ProcessOrder
<1> QED
  BY <1>1, <1>5, <1>13 DEF OrderInv

\* The number of samples that are due is at most the size of the batch.
LEMMA SampleCount ==
    ASSUME NEW b, IsSeq(b), NEW t
    PROVE  findSampleNoLaterThan(b, t) \in 0 .. Len(b)
<1> DEFINE T == {i \in DOMAIN b : \A j \in 1 .. i : b[j].time <= t}
<1>1. DOMAIN b = 1 .. Len(b) /\ Len(b) \in Nat
  BY IsSeqFacts
<1>2. IsFiniteSet(1 .. Len(b)) /\ Cardinality(1 .. Len(b)) = Len(b)
  <2>1. ASSUME NEW n \in Nat
        PROVE  IsFiniteSet(1 .. n) /\ Cardinality(1 .. n) = n
    <3>1. /\ IsFiniteSet(1 .. n)
          /\ Cardinality(1 .. n) = IF 1 > n THEN 0 ELSE n - 1 + 1
      BY FS_Interval
    <3> QED
      BY <3>1
  <2> QED
    BY <1>1, <2>1
<1>3. T \in SUBSET (1 .. Len(b))
  BY <1>1
<1> HIDE DEF T
<1>4. IsFiniteSet(T) /\ Cardinality(T) <= Len(b)
  BY <1>2, <1>3, FS_Subset
<1>5. Cardinality(T) \in Nat
  BY <1>4, FS_CardinalityType
<1> QED
  BY <1>1, <1>4, <1>5 DEF T, findSampleNoLaterThan

LEMMA BatchOrder ==
    ASSUME OrderInv, NEW frameTime, consumeBatch(frameTime),
           UNCHANGED <<toClient, nextSeq, mMsg>>
    PROVE  OrderInv'
<1> USE DEF Order
<1>1. PICK i \in DueBatches(frameTime) :
         LET batch == mBatches[i]
             n == IF frameTime < 0 THEN Len(batch)
                  ELSE findSampleNoLaterThan(batch, SampleTime(frameTime))
             rest == SubSeq(batch, n + 1, Len(batch))
         IN  mBatches' = IF rest = <<>> THEN RemoveAt(mBatches, i)
                         ELSE [mBatches EXCEPT ![i] = rest]
  BY DEF consumeBatch
<1> DEFINE batch == mBatches[i]
           n == IF frameTime < 0 THEN Len(batch)
                ELSE findSampleNoLaterThan(batch, SampleTime(frameTime))
           rest == SubSeq(batch, n + 1, Len(batch))
<1>2. i \in DOMAIN mBatches /\ AreBatches(mBatches)
  BY DEF DueBatches, OrderInv
<1>3. IsBatch(batch) /\ IsSeq(batch)
  BY <1>2 DEF AreBatches, IsBatch, InOrder
<1>4. n \in 0 .. Len(batch)
  BY <1>3, SampleCount, IsSeqFacts
<1>5. mBatches' = IF rest = <<>> THEN RemoveAt(mBatches, i)
                  ELSE [mBatches EXCEPT ![i] = rest]
  BY <1>1
<1>6. Older(batch, toClient) /\ Below(batch, nextSeq)
  BY <1>2 DEF OrderInv
<1>7. rest # <<>> => /\ IsBatch(rest) /\ rest[1].dev = batch[1].dev
                     /\ \A k \in DOMAIN rest : \E j \in DOMAIN batch : rest[k] = batch[j]
  <2> HIDE DEF n, batch
  <2> QED
    BY <1>3, <1>4, BatchRest
<1> HIDE DEF rest
<1>8. CASE rest = <<>>
  <2> DEFINE bs == RemoveAt(mBatches, i)
  <2>1. /\ AreBatches(bs)
        /\ \A k \in DOMAIN bs : \E l \in DOMAIN mBatches : l # i /\ bs[k] = mBatches[l]
    BY <1>2, RemovedBatch
  <2> HIDE DEF bs
  <2>2. mBatches' = bs
    BY <1>5, <1>8 DEF bs
  <2> QED
    BY <2>1, <2>2 DEF OrderInv
<1>9. CASE rest # <<>>
  <2> DEFINE bs == [mBatches EXCEPT ![i] = rest]
  <2>1. /\ AreBatches(bs) /\ DOMAIN bs = DOMAIN mBatches
        /\ \A k \in DOMAIN mBatches : bs[k] = IF k = i THEN rest ELSE mBatches[k]
    BY <1>2, <1>7, <1>9, ChangedBatch
  <2> HIDE DEF bs
  <2>2. mBatches' = bs
    BY <1>5, <1>9 DEF bs
  <2> HIDE DEF batch
  <2>3. Older(rest, toClient) /\ Below(rest, nextSeq)
    BY <1>6, <1>7, <1>9 DEF Older, Below
  <2>4. rest[1].dev = batch[1].dev
    BY <1>7, <1>9
  <2> QED
    BY <1>2, <2>1, <2>2, <2>3, <2>4 DEF OrderInv, batch
<1> QED
  BY <1>8, <1>9

-----------------------------------------------------------------------------
(* The theorem *)

LEMMA OrderInit == Init => OrderInv
<1> SUFFICES ASSUME Init PROVE OrderInv
  OBVIOUS
<1>1. InOrder(<<>>) /\ IsSeq(<<>>) /\ DOMAIN <<>> = {} /\ Len(<<>>) = 0
  BY EmptyInOrder DEF InOrder
<1>2. /\ toClient = <<>> /\ mMsg = <<>> /\ mBatches = <<>> /\ nextSeq = 1
  BY DEF Init
<1> QED
  BY <1>1, <1>2 DEF OrderInv, Order, AreBatches, Older, Below

LEMMA OrderStep == OrderInv /\ [Next]_vars => OrderInv'
<1> SUFFICES ASSUME OrderInv, [Next]_vars PROVE OrderInv'
  OBVIOUS
<1> DEFINE Kept == UNCHANGED <<toClient, mMsg, mBatches, nextSeq>>
<1>1. Kept => OrderInv'
  BY DEF OrderInv, Order, AreBatches
<1>2. ASSUME NEW d \in It.devices, publishMotionEvent(d)
      PROVE  OrderInv'
  <2>1. PICK t \in clock[d] .. It.maxTime : \E m \in NextMotions(d, t) :
            toClient' = Append(toClient, m[1])
    BY <1>2 DEF publishMotionEvent
  <2>2. PICK m \in NextMotions(d, t) : toClient' = Append(toClient, m[1])
    BY <2>1
  <2>3. m[1].seq = nextSeq
    <3>1. \A a, ids, id : Motion(d, a, ids, id, t).seq = nextSeq
      BY DEF Motion
    <3>2. \E a, ids, id, down : m = <<Motion(d, a, ids, id, t), down>>
      <4>1. CASE gesture[d] = {}
        <5>1. \/ \E p \in It.ids : m = <<Motion(d, "DOWN", {p}, p, t), {p}>>
              \/ \E a \in {"HOVER_MOVE", "SCROLL"}, p \in It.ids :
                     m = <<Motion(d, a, {p}, p, t), {}>>
          BY <4>1 DEF NextMotions
        <5> QED
          BY <5>1, Zenon
      <4>2. CASE gesture[d] # {}
        <5> DEFINE down == gesture[d]
        <5>1. \/ m = <<Motion(d, "MOVE", down, CHOOSE p \in down : TRUE, t), down>>
              \/ m = <<Motion(d, "CANCEL", down, CHOOSE p \in down : TRUE, t), {}>>
              \/ \E p \in It.ids \ down :
                     m = <<Motion(d, "POINTER_DOWN", down \cup {p}, p, t), down \cup {p}>>
              \/ \E p \in down :
                     m = <<Motion(d, IF down = {p} THEN "UP" ELSE "POINTER_UP",
                                  down, p, t), down \ {p}>>
          BY <4>2 DEF NextMotions
        <5> QED
          BY <5>1, Zenon
      <4> QED
        BY <4>1, <4>2
    <3> QED
      BY <3>1, <3>2
  <2>4. nextSeq' = nextSeq + 1 /\ UNCHANGED <<mMsg, mBatches>>
    BY <1>2 DEF publishMotionEvent, consumer
  <2> QED
    BY <2>2, <2>3, <2>4, PublishOrder
<1>3. CASE publishKeyEvent
  <2> DEFINE m == [type |-> "KEY", seq |-> nextSeq]
  <2>1. toClient' = Append(toClient, m) /\ m.seq = nextSeq
    BY <1>3 DEF publishKeyEvent
  <2>2. nextSeq' = nextSeq + 1 /\ UNCHANGED <<mMsg, mBatches>>
    BY <1>3 DEF publishKeyEvent, consumer
  <2> QED
    BY <2>1, <2>2, PublishOrder
<1>4. CASE receiveFinishedSignal
  BY <1>1, <1>4 DEF receiveFinishedSignal, consumer
<1>5. ASSUME NEW b \in BOOLEAN, NEW f \in FrameTimes, consumeCall(b, f)
      PROVE  OrderInv'
  BY <1>1, <1>5 DEF consumeCall, consumer, server
<1>6. CASE consumeDeferred
  BY <1>6, DeferredOrder
<1>7. CASE consumeReceived
  BY <1>7, ReceivedOrder
<1>8. CASE consumeExhausted
  <2>1. UNCHANGED <<toClient, nextSeq>>
    BY <1>8 DEF consumeExhausted, server
  <2>2. CASE consumeBatch(op.frameTime) /\ UNCHANGED mMsg
    BY <2>1, <2>2, BatchOrder
  <2>3. CASE UNCHANGED consumer
    BY <1>1, <2>1, <2>3 DEF consumer
  <2> QED
    BY <1>8, <2>2, <2>3 DEF consumeExhausted
<1>9. ASSUME NEW s \in held, sendFinishedSignal(s)
      PROVE  OrderInv'
  BY <1>1, <1>9 DEF sendFinishedSignal, server
<1>10. CASE sendUnchainedFinishedSignal
  BY <1>1, <1>10 DEF sendUnchainedFinishedSignal, server
<1>11. CASE sendFailed
  BY <1>1, <1>11 DEF sendFailed, server
<1>12. CASE closeServer
  BY <1>1, <1>12 DEF closeServer, consumer
<1>13. CASE closeClient
  BY <1>1, <1>13 DEF closeClient, consumer, server
<1>14. CASE UNCHANGED vars
  BY <1>1, <1>14 DEF vars, consumer, server
<1> QED
  BY <1>2, <1>3, <1>4, <1>5, <1>6, <1>7, <1>8, <1>9, <1>10, <1>11, <1>12, <1>13, <1>14
     DEF Next

LEMMA OrderImplies == OrderInv => DeviceOrderKept
<1> SUFFICES ASSUME OrderInv PROVE DeviceOrderKept
  OBVIOUS
<1> DEFINE waiting == mBatches \o <<mMsg, toClient>>
           N == Len(mBatches)
<1>1. /\ AreBatches(mBatches) /\ InOrder(mMsg) /\ InOrder(toClient)
      /\ Older(mMsg, toClient)
      /\ \A k \in DOMAIN mBatches : Older(mBatches[k], toClient)
      /\ \A i \in DOMAIN mMsg : \A k \in DOMAIN mBatches : mBatches[k][1].dev # mMsg[i].dev
  BY DEF OrderInv, Order
<1>2. N \in Nat /\ DOMAIN mBatches = 1 .. N
  BY <1>1, IsSeqFacts DEF AreBatches
<1>3. /\ DOMAIN waiting = 1 .. N + 2
      /\ \A k \in 1 .. N : waiting[k] = mBatches[k]
      /\ waiting[N + 1] = mMsg /\ waiting[N + 2] = toClient
  <2>1. PICK S : mBatches \in Seq(S)
    BY <1>1 DEF AreBatches, IsSeq
  <2> DEFINE T == S \cup {mMsg, toClient}
             two == <<mMsg, toClient>>
  <2>2. /\ mBatches \in Seq(T) /\ two \in Seq(T) /\ Len(two) = 2
        /\ two[1] = mMsg /\ two[2] = toClient
    BY <2>1, SeqMonotonic
  <2> HIDE DEF T, two
  <2>3. /\ mBatches \o two \in Seq(T) /\ Len(mBatches \o two) = N + 2
        /\ \A k \in 1 .. N + 2 :
              (mBatches \o two)[k] = IF k <= N THEN mBatches[k] ELSE two[k - N]
    <3>1. /\ mBatches \o two \in Seq(T) /\ Len(mBatches \o two) = Len(mBatches) + Len(two)
          /\ \A k \in 1 .. Len(mBatches) + Len(two) :
                (mBatches \o two)[k] = IF k <= Len(mBatches) THEN mBatches[k]
                                       ELSE two[k - Len(mBatches)]
      BY <2>2, ConcatProperties
    <3> QED
      BY <2>2, <3>1, Zenon
  <2>4. DOMAIN (mBatches \o two) = 1 .. N + 2
    BY <2>3, LenProperties
  <2> HIDE DEF N
  <2>5. /\ N + 1 \in 1 .. N + 2 /\ N + 2 \in 1 .. N + 2 /\ (N + 1) - N = 1 /\ (N + 2) - N = 2
        /\ ~(N + 1 <= N) /\ ~(N + 2 <= N)
        /\ \A k \in 1 .. N : k \in 1 .. N + 2 /\ k <= N
    BY <1>2
  <2> QED
    BY <2>2, <2>3, <2>4, <2>5 DEF two
<1> HIDE DEF waiting, N
<1>4. \A k \in DOMAIN waiting : k \in 1 .. N \/ k = N + 1 \/ k = N + 2
  BY <1>2, <1>3
<1>5. \A k \in DOMAIN waiting : InOrder(waiting[k])
  BY <1>1, <1>2, <1>3, <1>4 DEF AreBatches, IsBatch
<1>6. ASSUME NEW k \in DOMAIN waiting, NEW l \in DOMAIN waiting,
             NEW i \in DOMAIN waiting[k], NEW j \in DOMAIN waiting[l],
             waiting[k][i].type = "MOTION", waiting[l][j].type = "MOTION",
             waiting[k][i].dev = waiting[l][j].dev,
             k < l \/ (k = l /\ i < j)
      PROVE  waiting[k][i].seq < waiting[l][j].seq
  <2>1. CASE k = l
    <3>1. i < j
      BY <1>2, <1>3, <1>6, <2>1
    <3> QED
      BY <1>5, <2>1, <3>1 DEF InOrder
  <2>2. CASE k # l /\ l = N + 2
    <3>1. k \in 1 .. N \/ k = N + 1
      BY <1>4, <2>2
    <3> QED
      BY <1>1, <1>2, <1>3, <2>2, <3>1 DEF Older
  <2>3. CASE k # l /\ l # N + 2
    <3>1. k \in 1 .. N
      BY <1>2, <1>4, <1>6, <2>3
    <3>2. waiting[k][i].dev = mBatches[k][1].dev
      BY <1>1, <1>2, <1>3, <3>1 DEF AreBatches, IsBatch
    <3>3. l # N + 1
      BY <1>1, <1>2, <1>3, <1>6, <3>1, <3>2
    <3>4. l \in 1 .. N
      BY <1>4, <2>3, <3>3
    <3>5. waiting[l][j].dev = mBatches[l][1].dev
      BY <1>1, <1>2, <1>3, <3>4 DEF AreBatches, IsBatch
    <3> QED
      BY <1>1, <1>2, <1>6, <2>3, <3>1, <3>2, <3>4, <3>5 DEF AreBatches
  <2> QED
    BY <2>1, <2>2, <2>3
<1>7. \A k, l \in DOMAIN mBatches : mBatches[k][1].dev = mBatches[l][1].dev => k = l
  BY <1>1 DEF AreBatches
<1> QED
  BY <1>6, <1>7 DEF DeviceOrderKept, waiting

\* Batching never reorders the messages of one device, whatever the sizes of
\* the socket and of the batches: what consume holds back (batches, a deferred
\* message) is older than what is still to come.
THEOREM DevicesInOrder == Spec => []DeviceOrderKept
<1>1. Spec => []OrderInv
  BY OrderInit, OrderStep, PTL DEF Spec
<1> QED
  BY <1>1, OrderImplies, PTL
=============================================================================
