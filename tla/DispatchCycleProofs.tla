------------------------ MODULE DispatchCycleProofs -------------------------
(***************************************************************************)
(* What the dispatcher knows of an application's answers is right.  An     *)
(* event goes out under a sequence number, and the number comes back: from *)
(* the outbound queue to the socket, to the application, to the socket     *)
(* again, to a command, and, if the key goes out once more as a fallback,  *)
(* to the front of the outbound queue.  The invariant says that each       *)
(* number is in one of these places at a time, whatever other threads do   *)
(* to the queues while the policy is asked with mLock released.            *)
(*                                                                         *)
(* All but the commands is about one connection, and every locked call     *)
(* maps a connection to a connection.  So there is one lemma for each      *)
(* operator of DispatchCycle, which says that it keeps ConnInv and is      *)
(* Continues: it gives no number a second place.                           *)
(***************************************************************************)
EXTENDS DispatchCycle, FiniteSetTheorems, SequenceTheorems, TLAPS

Codes == KeyCodes \cup {UNKNOWN}
AllDevices == Pointers \cup Joysticks

KeyEvents ==
    [type : {"KEY"}, ev : Nat, code : Codes, action : {"DOWN", "UP"},
     repeat : Nat, flagged : BOOLEAN, resolvedFlagged : BOOLEAN]
MotionEvents ==
    [type : {"MOTION"}, ev : Nat, dev : AllDevices,
     action : MotionActions \cup {"OUTSIDE", "HOVER_ENTER", "HOVER_EXIT"},
     neutral : BOOLEAN]

Entries ==
    [type : {"KEY"}, ev : Nat, code : Codes, action : {"DOWN", "UP"},
     repeat : Nat, flagged : BOOLEAN, resolvedFlagged : BOOLEAN,
     fg : BOOLEAN, seq : Nat]
    \cup
    [type : {"MOTION"}, ev : Nat, dev : AllDevices,
     action : MotionActions \cup {"OUTSIDE", "HOVER_ENTER", "HOVER_EXIT"},
     neutral : BOOLEAN, fg : BOOLEAN, seq : Nat]

Signals == [seq : Nat, handled : BOOLEAN]
Commands ==
    [type : {"broken"}, conn : Conns]
    \cup [type : {"finished"}, conn : Conns, seq : Nat, handled : BOOLEAN]

Fields ==
    {"status", "registered", "outbound", "wait", "blocked", "keyMementos",
     "motionMementos", "fallbackKeys", "nextSeq", "pending", "unread", "reading",
     "signals", "open", "view"}

IsConnection(cn) == cn = [f \in Fields |-> cn[f]]

\* A connection has the fields of a connection; what the application was told
\* and the fallback keys do not matter here.
ConnTypes(cn) ==
    /\ cn = [f \in Fields |-> cn[f]]
    /\ cn.status \in {"NEW", "NORMAL", "BROKEN", "ZOMBIE"}
    /\ cn.registered \in BOOLEAN /\ cn.blocked \in BOOLEAN /\ cn.open \in BOOLEAN
    /\ cn.outbound \in Seq(Entries) /\ cn.wait \in Seq(Entries)
    /\ cn.keyMementos \subseteq [code : Codes, flagged : BOOLEAN]
    /\ cn.motionMementos \subseteq [dev : AllDevices, hovering : BOOLEAN]
    /\ cn.nextSeq \in Nat \ {0}
    /\ cn.pending = [ev \in DOMAIN cn.pending |-> cn.pending[ev]]
    /\ cn.unread \in Seq(Nat) /\ cn.reading \subseteq Nat
    /\ cn.signals \in Seq(Signals)

-----------------------------------------------------------------------------
(* Sequence numbers and their places *)

SeqsOf(q) == {e.seq : e \in Range(q)}
Unread(cn) == Range(cn.unread)

\* The numbers that the connection and its socket have.
Held(cn) ==
    SeqsOf(cn.outbound) \cup Unread(cn) \cup cn.reading \cup SeqsOf(cn.signals)

OnceEach(q) == \A i, j \in DOMAIN q : q[i] = q[j] => i = j
NoRepeats(q) == \A i, j \in DOMAIN q : q[i].seq = q[j].seq => i = j

\* No number is twice in one place ...
Distinct(cn) ==
    /\ NoRepeats(cn.outbound) /\ NoRepeats(cn.wait) /\ NoRepeats(cn.signals)
    /\ OnceEach(cn.unread)

\* ... or in two places that exclude each other.
Apart(cn) ==
    /\ SeqsOf(cn.outbound) \cap SeqsOf(cn.wait) = {}
    /\ SeqsOf(cn.outbound) \cap (Unread(cn) \cup cn.reading \cup SeqsOf(cn.signals)) = {}
    /\ Unread(cn) \cap (cn.reading \cup SeqsOf(cn.signals)) = {}
    /\ cn.reading \cap SeqsOf(cn.signals) = {}

\* Numbers are given out in order.
Numbered(cn) == \A s \in Held(cn) \cup SeqsOf(cn.wait) : s < cn.nextSeq

\* The foreground entries of an event that are queued, by their numbers.
ForegroundSeqs(cn, ev) ==
    {e.seq : e \in {x \in Range(cn.outbound) \cup Range(cn.wait) : x.fg /\ x.ev = ev}}

Counted(cn) ==
    /\ \A ev \in DOMAIN cn.pending : cn.pending[ev] = Cardinality(ForegroundSeqs(cn, ev))
    /\ \A e \in Range(cn.outbound) \cup Range(cn.wait) :
          e.fg => e.ev \in DOMAIN cn.pending

\* Only a connection in order waits for answers, and a new one has nothing.
Alive(cn) ==
    /\ cn.wait # <<>> => cn.status = "NORMAL"
    /\ cn.status = "NEW" => ~cn.registered /\ Held(cn) = {}

\* What the application has not read fits into the socket, and it owes an
\* answer to it.
UnreadOwed(cn) ==
    /\ Len(cn.unread) <= PIPE
    /\ cn.status = "NORMAL" => Unread(cn) \subseteq SeqsOf(cn.wait)

QueueInv(cn) ==
    /\ ConnTypes(cn) /\ Distinct(cn) /\ Apart(cn) /\ Numbered(cn)
    /\ Counted(cn) /\ Alive(cn) /\ UnreadOwed(cn)

\* An answer will come that sends what is in the outbound queue.
Sending(cn) ==
    cn.status = "NORMAL" /\ cn.outbound # <<>> => cn.wait # <<>>

ConnInv(cn) == QueueInv(cn) /\ Sending(cn)

IsFinished(i) == commands[i].type = "finished"

\* A command has the only copy of its number.
CommandsApart ==
    /\ \A i \in DOMAIN commands : IsFinished(i) =>
          /\ commands[i].seq < conn[commands[i].conn].nextSeq
          /\ commands[i].seq \notin Held(conn[commands[i].conn])
    /\ \A i, j \in DOMAIN commands :
          /\ IsFinished(i) /\ IsFinished(j)
          /\ commands[i].conn = commands[j].conn /\ commands[i].seq = commands[j].seq
          => i = j

\* So has the call of the policy, and its entry is the one that still waits.
Asked(cn, e) ==
    /\ cn.status # "NEW"
    /\ e.seq < cn.nextSeq /\ e.seq \notin Held(cn)
    /\ \A w \in Range(cn.wait) : w.seq = e.seq => w.fg = e.fg /\ w.ev = e.ev
    /\ cn.status = "NORMAL" => e.seq \in SeqsOf(cn.wait)

PolicyApart ==
    thread.pc = "policy" =>
        /\ Asked(conn[thread.conn], thread.entry)
        /\ \A i \in DOMAIN commands :
              ~(/\ IsFinished(i) /\ commands[i].conn = thread.conn
                /\ commands[i].seq = thread.entry.seq)

ThreadTypes(th) ==
    /\ th.pc \in {"idle", "commands", "policy"}
    /\ th.pc # "idle" => th.unregister \subseteq Conns
    /\ th.pc = "policy" => th.conn \in Conns /\ th.entry \in Entries

\* The dispatcher's thread is not asking the policy.
Working(th) ==
    th.pc = "idle" \/ (th.pc = "commands" /\ th.unregister \subseteq Conns)

CycleTypes ==
    /\ conf \in DOMAIN Configurations
    /\ conn = [c \in Conns |-> conn[c]]
    /\ commands \in Seq(Commands)
    /\ ThreadTypes(thread)
    /\ lastKey = NoKey \/ lastKey \in KeyEvents
    /\ nextEvent \in Nat \ {0}
    /\ \A c \in Conns : DOMAIN conn[c].pending = 1 .. MaxEvents

CycleInv ==
    /\ CycleTypes
    /\ \A c \in Conns : ConnInv(conn[c])
    /\ CommandsApart /\ PolicyApart

-----------------------------------------------------------------------------
(* Queues *)

\* A queue that is appended to another: the elements and the numbers.
LEMMA ConcatQueues ==
    ASSUME NEW q \in Seq(Entries), NEW r \in Seq(Entries)
    PROVE  /\ q \o r \in Seq(Entries)
           /\ Range(q \o r) = Range(q) \cup Range(r)
           /\ SeqsOf(q \o r) = SeqsOf(q) \cup SeqsOf(r)
           /\ NoRepeats(q) /\ NoRepeats(r) /\ SeqsOf(q) \cap SeqsOf(r) = {}
              => NoRepeats(q \o r)
<1>1. q \o r \in Seq(Entries)
  OBVIOUS
<1>2. Range(q \o r) = Range(q) \cup Range(r)
  BY RangeConcatenation
<1>3. SeqsOf(q \o r) = SeqsOf(q) \cup SeqsOf(r)
  BY <1>2 DEF SeqsOf
<1>4. ASSUME NoRepeats(q), NoRepeats(r), SeqsOf(q) \cap SeqsOf(r) = {}
      PROVE  NoRepeats(q \o r)
  <2> SUFFICES ASSUME NEW i \in DOMAIN (q \o r), NEW j \in DOMAIN (q \o r),
                      (q \o r)[i].seq = (q \o r)[j].seq
               PROVE  i = j
    BY DEF NoRepeats
  <2>1. /\ DOMAIN q = 1 .. Len(q) /\ DOMAIN r = 1 .. Len(r)
        /\ DOMAIN (q \o r) = 1 .. Len(q) + Len(r)
        /\ Len(q) \in Nat /\ Len(r) \in Nat
    OBVIOUS
  <2>2. \A k \in DOMAIN (q \o r) :
           (q \o r)[k] = IF k <= Len(q) THEN q[k] ELSE r[k - Len(q)]
    OBVIOUS
  <2>3. \A k \in DOMAIN q, l \in DOMAIN r : q[k].seq # r[l].seq
    BY <1>4 DEF SeqsOf, Range
  <2>4. CASE i <= Len(q) /\ j <= Len(q)
    BY <1>4, <2>1, <2>2, <2>4 DEF NoRepeats
  <2>5. CASE i > Len(q) /\ j > Len(q)
    <3>1. i - Len(q) \in DOMAIN r /\ j - Len(q) \in DOMAIN r
      BY <2>1, <2>5
    <3>2. r[i - Len(q)].seq = r[j - Len(q)].seq
      BY <2>1, <2>2, <2>5
    <3>3. i - Len(q) = j - Len(q)
      BY <1>4, <3>1, <3>2 DEF NoRepeats
    <3> QED
      BY <2>1, <3>3
  <2>6. CASE i <= Len(q) /\ j > Len(q)
    <3>1. i \in DOMAIN q /\ j - Len(q) \in DOMAIN r
      BY <2>1, <2>6
    <3> QED
      BY <2>1, <2>2, <2>3, <2>6, <3>1
  <2>7. CASE i > Len(q) /\ j <= Len(q)
    <3>1. j \in DOMAIN q /\ i - Len(q) \in DOMAIN r
      BY <2>1, <2>7
    <3> QED
      BY <2>1, <2>2, <2>3, <2>7, <3>1
  <2> QED
    BY <2>1, <2>4, <2>5, <2>6, <2>7
<1> QED
  BY <1>1, <1>2, <1>3, <1>4

\* A part of a queue, from index a to index b.
LEMMA PartOfQueue ==
    ASSUME NEW q \in Seq(Entries), NEW a \in Nat \ {0}, NEW b \in Nat,
           b <= Len(q), a <= b + 1
    PROVE  LET p == SubSeq(q, a, b) IN
           /\ p \in Seq(Entries) /\ Len(p) = b - a + 1
           /\ \A i \in DOMAIN p : a + i - 1 \in DOMAIN q /\ p[i] = q[a + i - 1]
           /\ Range(p) = {q[i] : i \in a .. b}
           /\ NoRepeats(q) => NoRepeats(p)
<1> DEFINE p == SubSeq(q, a, b)
<1>1. p \in Seq(Entries) /\ Len(p) = b - a + 1
  BY SubSeqProperties
<1>2. \A i \in DOMAIN p : a + i - 1 \in a .. b /\ a + i - 1 \in DOMAIN q /\ p[i] = q[a + i - 1]
  BY <1>1, SubSeqProperties
<1>3. \A k \in a .. b : k - a + 1 \in DOMAIN p /\ p[k - a + 1] = q[k]
  <2> TAKE k \in a .. b
  <2>1. k - a + 1 \in DOMAIN p
    BY <1>1
  <2>2. p[k - a + 1] = q[a + (k - a + 1) - 1]
    BY <1>2, <2>1
  <2> QED
    BY <2>1, <2>2
<1> HIDE DEF p
<1>4. Range(p) = {q[i] : i \in a .. b}
  BY <1>2, <1>3 DEF Range
<1>5. ASSUME NoRepeats(q), NEW i \in DOMAIN p, NEW j \in DOMAIN p, p[i].seq = p[j].seq
      PROVE  i = j
  <2>1. a + i - 1 = a + j - 1
    BY <1>2, <1>5 DEF NoRepeats
  <2>2. i \in Nat /\ j \in Nat
    BY <1>1
  <2> QED
    BY <2>1, <2>2
<1> QED
  BY <1>1, <1>2, <1>4, <1>5 DEF p, NoRepeats

\* What is sent off the front of a queue, and what stays.
LEMMA QueueCut ==
    ASSUME NEW q \in Seq(Entries), NEW n \in Nat, n <= Len(q), NoRepeats(q)
    PROVE  LET p == SubSeq(q, 1, n)
               r == SubSeq(q, n + 1, Len(q))
           IN  /\ p \in Seq(Entries) /\ r \in Seq(Entries) /\ Len(p) = n
               /\ Range(q) = Range(p) \cup Range(r)
               /\ NoRepeats(p) /\ NoRepeats(r) /\ SeqsOf(p) \cap SeqsOf(r) = {}
<1> DEFINE p == SubSeq(q, 1, n)
           r == SubSeq(q, n + 1, Len(q))
<1>0. DOMAIN q = 1 .. Len(q) /\ Len(q) \in Nat
  OBVIOUS
<1>1. /\ p \in Seq(Entries) /\ Len(p) = n /\ NoRepeats(p)
      /\ Range(p) = {q[i] : i \in 1 .. n}
  <2>1. n - 1 + 1 = n /\ 1 <= n + 1
    OBVIOUS
  <2> QED
    BY <2>1, PartOfQueue
<1>2. /\ r \in Seq(Entries) /\ NoRepeats(r)
      /\ Range(r) = {q[i] : i \in (n + 1) .. Len(q)}
  <2>1. n + 1 \in Nat \ {0} /\ n + 1 <= Len(q) + 1 /\ Len(q) <= Len(q)
    BY <1>0
  <2> QED
    BY <1>0, <2>1, PartOfQueue
<1> HIDE DEF p, r
<1>3. 1 .. Len(q) = (1 .. n) \cup ((n + 1) .. Len(q))
  BY <1>0
<1>4. Range(q) = Range(p) \cup Range(r)
  BY <1>0, <1>1, <1>2, <1>3 DEF Range
<1>5. \A i \in 1 .. n, j \in (n + 1) .. Len(q) : q[i].seq # q[j].seq
  BY <1>0 DEF NoRepeats
<1>6. SeqsOf(p) \cap SeqsOf(r) = {}
  BY <1>1, <1>2, <1>5 DEF SeqsOf
<1> QED
  BY <1>1, <1>2, <1>4, <1>6 DEF p, r

\* An entry taken out of the wait queue.
LEMMA QueueWithout ==
    ASSUME NEW q \in Seq(Entries), NoRepeats(q), NEW i \in DOMAIN q
    PROVE  LET r == RemoveAt(q, i) IN
           /\ r \in Seq(Entries) /\ NoRepeats(r)
           /\ Range(r) = Range(q) \ {q[i]}
           /\ SeqsOf(r) = SeqsOf(q) \ {q[i].seq}
<1> DEFINE before == SubSeq(q, 1, i - 1)
           after == SubSeq(q, i + 1, Len(q))
<1>0. DOMAIN q = 1 .. Len(q) /\ Len(q) \in Nat /\ i \in 1 .. Len(q)
  OBVIOUS
<1>1. /\ before \in Seq(Entries) /\ NoRepeats(before)
      /\ Range(before) = {q[k] : k \in 1 .. (i - 1)}
  <2>1. i - 1 \in Nat /\ i - 1 <= Len(q) /\ 1 <= i - 1 + 1
    BY <1>0
  <2> QED
    BY <2>1, PartOfQueue
<1>2. /\ after \in Seq(Entries) /\ NoRepeats(after)
      /\ Range(after) = {q[k] : k \in (i + 1) .. Len(q)}
  <2>1. i + 1 \in Nat \ {0} /\ i + 1 <= Len(q) + 1 /\ Len(q) <= Len(q)
    BY <1>0
  <2> QED
    BY <1>0, <2>1, PartOfQueue
<1>3. RemoveAt(q, i) = before \o after
  BY DEF RemoveAt
<1> HIDE DEF before, after
<1>4. \A k, l \in 1 .. Len(q) : k # l => q[k].seq # q[l].seq
  BY <1>0 DEF NoRepeats
<1>5. 1 .. Len(q) = (1 .. (i - 1)) \cup {i} \cup ((i + 1) .. Len(q))
  BY <1>0
<1>6. \A k \in 1 .. (i - 1), l \in (i + 1) .. Len(q) :
         k \in 1 .. Len(q) /\ l \in 1 .. Len(q) /\ k # l /\ k # i /\ l # i
  BY <1>0
<1>7. SeqsOf(before) \cap SeqsOf(after) = {}
  BY <1>1, <1>2, <1>4, <1>6 DEF SeqsOf
<1>8. Range(q) = {q[k] : k \in 1 .. (i - 1)} \cup {q[i]} \cup {q[k] : k \in (i + 1) .. Len(q)}
  BY <1>0, <1>5 DEF Range
<1>9. \A e \in Range(before) \cup Range(after) : e.seq # q[i].seq
  <2>1. \A k \in 1 .. (i - 1) : k \in 1 .. Len(q) /\ k # i
    BY <1>0
  <2>2. \A k \in (i + 1) .. Len(q) : k \in 1 .. Len(q) /\ k # i
    BY <1>0
  <2> QED
    BY <1>0, <1>1, <1>2, <1>4, <2>1, <2>2
<1>10. Range(before) \cup Range(after) = Range(q) \ {q[i]}
  BY <1>1, <1>2, <1>8, <1>9
<1>11. SeqsOf(before) \cup SeqsOf(after) = SeqsOf(q) \ {q[i].seq}
  BY <1>9, <1>10 DEF SeqsOf
<1> QED
  BY <1>1, <1>2, <1>3, <1>7, <1>10, <1>11, ConcatQueues

\* The numbers of the foreground entries of an event are as many as they.
LEMMA ForegroundCount ==
    ASSUME NEW cn, cn.outbound \in Seq(Entries), cn.wait \in Seq(Entries),
           NoRepeats(cn.outbound), NoRepeats(cn.wait),
           SeqsOf(cn.outbound) \cap SeqsOf(cn.wait) = {}, NEW ev
    PROVE  /\ IsFiniteSet(ForegroundSeqs(cn, ev))
           /\ Cardinality(Foreground(cn, ev)) = Cardinality(ForegroundSeqs(cn, ev))
           /\ Cardinality(ForegroundSeqs(cn, ev)) \in Nat
<1> DEFINE q == Queued(cn)
           F == Foreground(cn, ev)
           S == ForegroundSeqs(cn, ev)
           f == [i \in F |-> q[i].seq]
<1>1. /\ q \in Seq(Entries) /\ NoRepeats(q)
      /\ Range(q) = Range(cn.outbound) \cup Range(cn.wait)
  BY ConcatQueues DEF Queued
<1>2. F = {i \in DOMAIN q : q[i].fg /\ q[i].ev = ev}
  BY DEF Foreground
<1>3. S = {e.seq : e \in {x \in Range(q) : x.fg /\ x.ev = ev}}
  BY <1>1 DEF ForegroundSeqs
<1>4. IsFiniteSet(F)
  <2>1. DOMAIN q = 1 .. Len(q) /\ Len(q) \in Nat
    BY <1>1
  <2>2. IsFiniteSet(1 .. Len(q))
    BY <2>1, FS_Interval
  <2> QED
    BY <1>2, <2>1, <2>2, FS_Subset
<1> HIDE DEF q, F, S
<1>5. f \in Bijection(F, S)
  <2>1. \A i \in F : q[i].seq \in S
    BY <1>2, <1>3 DEF Range
  <2>2. \A s \in S : \E i \in F : q[i].seq = s
    BY <1>2, <1>3 DEF Range
  <2>3. \A i, j \in F : q[i].seq = q[j].seq => i = j
    BY <1>1, <1>2 DEF NoRepeats
  <2>4. f \in Injection(F, S)
    BY <2>1, <2>3 DEF Injection, IsInjective
  <2>5. f \in Surjection(F, S)
    BY <2>1, <2>2 DEF Surjection
  <2> QED
    BY <2>4, <2>5 DEF Bijection
<1>6. ExistsBijection(F, S)
  BY <1>5 DEF ExistsBijection
<1>7. IsFiniteSet(S) /\ Cardinality(F) = Cardinality(S)
  BY <1>4, <1>6, FS_Bijection
<1> QED
  BY <1>7, FS_CardinalityType DEF F, S

-----------------------------------------------------------------------------
(* Steps of a connection *)

\* A queue has no numbers that were not in the connection before, are not new
\* and are not in `back', the numbers that come back to it.
NumbersKept(old, new, back) ==
    /\ old.nextSeq <= new.nextSeq
    /\ DOMAIN new.pending = DOMAIN old.pending
    /\ \A s \in Held(new) : s \in Held(old) \cup back \/ s >= old.nextSeq
    /\ old.status # "NEW" => new.status # "NEW"

\* A connection goes on: nothing comes back, and if it stays in order, all that
\* waited still waits.
Continues(old, new) ==
    /\ NumbersKept(old, new, {})
    /\ new.status = "NORMAL" =>
          old.status = "NORMAL" /\ SeqsOf(old.wait) \subseteq SeqsOf(new.wait)
    /\ \A w \in Range(new.wait) :
          w \in Range(old.wait) \/ w.seq \in Held(old) \/ w.seq >= old.nextSeq

\* The numbers of a connection are numbers.
LEMMA SeqTypes ==
    ASSUME NEW cn, ConnTypes(cn)
    PROVE  /\ Held(cn) \subseteq Nat /\ SeqsOf(cn.wait) \subseteq Nat
           /\ cn.nextSeq \in Nat
           /\ Range(cn.wait) \subseteq Entries /\ Range(cn.outbound) \subseteq Entries
           /\ Range(cn.signals) \subseteq Signals
<1>0. /\ cn.wait \in Seq(Entries) /\ cn.outbound \in Seq(Entries)
      /\ cn.signals \in Seq(Signals) /\ cn.unread \in Seq(Nat)
  BY DEF ConnTypes
<1>1. Range(cn.wait) \subseteq Entries /\ Range(cn.outbound) \subseteq Entries
  BY <1>0, RangeOfSeq
<1>2. Range(cn.signals) \subseteq Signals /\ Unread(cn) \subseteq Nat
  BY <1>0, RangeOfSeq DEF Unread
<1>3. \A e \in Entries : e.seq \in Nat
  BY DEF Entries
<1>4. \A x \in Signals : x.seq \in Nat
  BY DEF Signals
<1> QED
  BY <1>1, <1>2, <1>3, <1>4 DEF Held, SeqsOf, ConnTypes

\* Two steps that go on make one.
LEMMA ContinuesTwice ==
    ASSUME NEW a, NEW b, NEW c, ConnTypes(a), ConnTypes(b), ConnTypes(c),
           Continues(a, b), Continues(b, c)
    PROVE  Continues(a, c)
<1>1. /\ a.nextSeq \in Nat /\ b.nextSeq \in Nat /\ c.nextSeq \in Nat
      /\ a.nextSeq <= b.nextSeq /\ b.nextSeq <= c.nextSeq
  BY DEF ConnTypes, Continues, NumbersKept
<1>2. \A s \in Held(b) : s \in Held(a) \/ s >= a.nextSeq
  BY DEF Continues, NumbersKept
<1>3. \A s \in Nat : s >= b.nextSeq => s >= a.nextSeq
  BY <1>1
<1>4. \A s \in Held(c) : s \in Held(a) \cup {} \/ s >= a.nextSeq
  BY <1>2, <1>3, SeqTypes DEF Continues, NumbersKept
<1>5. \A w \in Range(c.wait) :
         w \in Range(a.wait) \/ w.seq \in Held(a) \/ w.seq >= a.nextSeq
  <2>1. \A w \in Range(c.wait) : w.seq \in Nat
    BY SeqTypes DEF SeqsOf
  <2> QED
    BY <1>2, <1>3, <2>1 DEF Continues
<1>6. a.nextSeq <= c.nextSeq
  BY <1>1
<1> QED
  BY <1>4, <1>5, <1>6 DEF Continues, NumbersKept

\* A connection that stays as it is goes on.
LEMMA ContinuesSame ==
    ASSUME NEW cn, ConnTypes(cn)
    PROVE  Continues(cn, cn)
BY DEF Continues, NumbersKept, ConnTypes

\* The entry the policy is asked about survives what others do.
LEMMA AskedContinues ==
    ASSUME NEW old, NEW new, NEW e \in Entries, ConnTypes(old), ConnTypes(new),
           Asked(old, e), Continues(old, new)
    PROVE  Asked(new, e)
<1>1. e.seq \in Nat
  BY DEF Entries
<1>2. e.seq < old.nextSeq /\ old.nextSeq <= new.nextSeq
  BY DEF Asked, Continues, NumbersKept
<1>3. ~(e.seq >= old.nextSeq) /\ e.seq < new.nextSeq
  BY <1>1, <1>2 DEF ConnTypes
<1>4. e.seq \notin Held(new)
  BY <1>3 DEF Asked, Continues, NumbersKept
<1>5. \A w \in Range(new.wait) : w.seq = e.seq => w \in Range(old.wait)
  BY <1>3 DEF Asked, Continues
<1> QED
  BY <1>3, <1>4, <1>5 DEF Asked, Continues, NumbersKept

\* A step that concerns mementos and fallback keys only.
SameQueues(old, new) ==
    /\ ConnTypes(new)
    /\ \A f \in Fields \ {"keyMementos", "motionMementos", "fallbackKeys"} :
          new[f] = old[f]

\* Mementos and fallback keys are no part of the invariant.
LEMMA SameQueuesInv ==
    ASSUME NEW old, NEW new, QueueInv(old), SameQueues(old, new)
    PROVE  /\ QueueInv(new) /\ Continues(old, new)
           /\ Sending(old) => Sending(new)
           /\ new.outbound = old.outbound /\ new.wait = old.wait
           /\ new.status = old.status /\ new.nextSeq = old.nextSeq
           /\ new.pending = old.pending /\ Held(new) = Held(old)
<1>1. /\ new.status = old.status /\ new.registered = old.registered
      /\ new.outbound = old.outbound /\ new.wait = old.wait
      /\ new.nextSeq = old.nextSeq /\ new.pending = old.pending
      /\ new.unread = old.unread /\ new.reading = old.reading
      /\ new.signals = old.signals
  BY DEF SameQueues, Fields
<1>2. Held(new) = Held(old) /\ Unread(new) = Unread(old)
  BY <1>1 DEF Held, Unread
<1>3. ConnTypes(new) /\ ConnTypes(old)
  BY DEF SameQueues, QueueInv
<1>4. Distinct(new) /\ Apart(new) /\ Numbered(new)
  BY <1>1, <1>2 DEF QueueInv, Distinct, Apart, Numbered, Unread
<1>5. Counted(new)
  BY <1>1 DEF QueueInv, Counted, ForegroundSeqs
<1>6. Alive(new) /\ UnreadOwed(new)
  BY <1>1, <1>2 DEF QueueInv, Alive, UnreadOwed
<1>7. Continues(old, new)
  BY <1>1, <1>2, <1>3 DEF Continues, NumbersKept, ConnTypes
<1>8. Sending(old) => Sending(new)
  BY <1>1 DEF Sending
<1> QED
  BY <1>1, <1>2, <1>3, <1>4, <1>5, <1>6, <1>7, <1>8 DEF QueueInv

\* trackKey and trackMotion change mementos.
LEMMA TrackedKey ==
    ASSUME NEW cn, ConnTypes(cn), NEW e \in KeyEvents
    PROVE  SameQueues(cn, trackKey(cn, e))
<1> DEFINE others == {m \in cn.keyMementos : m.code # e.code}
<1>1. e.code \in Codes /\ e.resolvedFlagged \in BOOLEAN
  BY DEF KeyEvents
<1>2. others \subseteq [code : Codes, flagged : BOOLEAN]
  BY DEF ConnTypes
<1> HIDE DEF others
<1>3. others \cup {[code |-> e.code, flagged |-> e.resolvedFlagged]}
         \subseteq [code : Codes, flagged : BOOLEAN]
  BY <1>1, <1>2
<1>4. \/ \E x \in SUBSET [code : Codes, flagged : BOOLEAN] :
            trackKey(cn, e) = [cn EXCEPT !.keyMementos = x]
      \/ \E x \in SUBSET [code : Codes, flagged : BOOLEAN] : \E y :
            trackKey(cn, e) = [cn EXCEPT !.keyMementos = x, !.fallbackKeys = y]
  BY <1>2, <1>3 DEF trackKey, others
<1>5. ASSUME NEW x \in SUBSET [code : Codes, flagged : BOOLEAN]
      PROVE  SameQueues(cn, [cn EXCEPT !.keyMementos = x])
  BY DEF SameQueues, ConnTypes, Fields
<1>6. ASSUME NEW x \in SUBSET [code : Codes, flagged : BOOLEAN], NEW y
      PROVE  SameQueues(cn, [cn EXCEPT !.keyMementos = x, !.fallbackKeys = y])
  BY DEF SameQueues, ConnTypes, Fields
<1> QED
  BY <1>4, <1>5, <1>6

\* trackMotion, and what is tracked of it without a cancelation, likewise.
LEMMA TrackedMotion ==
    ASSUME NEW cn, ConnTypes(cn), NEW e \in MotionEvents
    PROVE  SameQueues(cn, trackMotion(cn, e))
<1>1. e.dev \in AllDevices
  BY DEF MotionEvents
<1>2. cn.motionMementos \subseteq [dev : AllDevices, hovering : BOOLEAN]
  BY DEF ConnTypes
<1>3. \A h \in {TRUE, FALSE} :
         /\ cn.motionMementos \cup {[dev |-> e.dev, hovering |-> h]}
               \in SUBSET [dev : AllDevices, hovering : BOOLEAN]
         /\ cn.motionMementos \ {[dev |-> e.dev, hovering |-> h]}
               \in SUBSET [dev : AllDevices, hovering : BOOLEAN]
  <2>1. \A h \in {TRUE, FALSE} :
           [dev |-> e.dev, hovering |-> h] \in [dev : AllDevices, hovering : BOOLEAN]
    BY <1>1
  <2> QED
    BY <1>2, <2>1, Zenon
<1>4. ASSUME NEW x \in SUBSET [dev : AllDevices, hovering : BOOLEAN]
      PROVE  SameQueues(cn, [cn EXCEPT !.motionMementos = x])
  BY DEF SameQueues, ConnTypes, Fields
<1>5. \A h \in {TRUE, FALSE} : /\ SameQueues(cn, SetMotion(cn, e.dev, h))
                              /\ SameQueues(cn, DropMotion(cn, e.dev, h))
  BY <1>3, <1>4 DEF SetMotion, DropMotion
<1>6. SameQueues(cn, cn)
  BY DEF SameQueues
<1>7. \/ trackMotion(cn, e) = cn
      \/ \E h \in {TRUE, FALSE} : \/ trackMotion(cn, e) = SetMotion(cn, e.dev, h)
                                  \/ trackMotion(cn, e) = DropMotion(cn, e.dev, h)
  BY DEF trackMotion
<1> QED
  BY <1>5, <1>6, <1>7

\* So do the operations on fallback keys.
LEMMA FallbackKept ==
    ASSUME NEW cn, ConnTypes(cn), NEW code, NEW fallback
    PROVE  /\ SameQueues(cn, setFallbackKey(cn, code, fallback))
           /\ SameQueues(cn, removeFallbackKey(cn, code))
<1>1. ASSUME NEW x PROVE SameQueues(cn, [cn EXCEPT !.fallbackKeys = x])
  BY DEF SameQueues, ConnTypes, Fields
<1> QED
  BY <1>1 DEF setFallbackKey, removeFallbackKey

\* The entry that an event becomes in a queue.
LEMMA EntryMade ==
    ASSUME NEW e \in KeyEvents \cup MotionEvents, NEW fg \in BOOLEAN, NEW n \in Nat
    PROVE  LET entry == DispatchEntry(e, fg, n) IN
           /\ entry \in Entries
           /\ entry.seq = n /\ entry.ev = e.ev /\ (entry.fg <=> fg)
<1> DEFINE entry == DispatchEntry(e, fg, n)
<1>1. CASE e \in KeyEvents
  <2>1. entry = [type |-> e.type, ev |-> e.ev, code |-> e.code, action |-> e.action,
                 repeat |-> e.repeat, flagged |-> e.flagged,
                 resolvedFlagged |-> e.resolvedFlagged, fg |-> fg, seq |-> n]
    BY <1>1 DEF KeyEvents, DispatchEntry
  <2> QED
    BY <1>1, <2>1 DEF KeyEvents, Entries
<1>2. CASE e \in MotionEvents
  <2>1. entry = [type |-> e.type, ev |-> e.ev, dev |-> e.dev, action |-> e.action,
                 neutral |-> e.neutral, fg |-> fg, seq |-> n]
    BY <1>2 DEF MotionEvents, DispatchEntry
  <2> QED
    BY <1>2, <2>1 DEF MotionEvents, Entries
<1> QED
  BY <1>1, <1>2

-----------------------------------------------------------------------------
(* Entries are queued *)

\* New entries with the next numbers, at the end of the outbound queue.
LEMMA AddEntries ==
    ASSUME NEW cn, QueueInv(cn), cn.status # "NEW", NEW r \in Seq(Entries),
           \A i \in DOMAIN r : r[i].seq = cn.nextSeq + i - 1,
           NEW new, ConnTypes(new), Counted(new),
           new.outbound = cn.outbound \o r, new.nextSeq = cn.nextSeq + Len(r),
           new.wait = cn.wait, new.unread = cn.unread, new.reading = cn.reading,
           new.signals = cn.signals, new.status = cn.status,
           DOMAIN new.pending = DOMAIN cn.pending
    PROVE  /\ QueueInv(new) /\ Continues(cn, new)
           /\ Sending(cn) /\ cn.outbound # <<>> => Sending(new)
<1>0. ConnTypes(cn)
  BY DEF QueueInv
<1>1. /\ ConnTypes(cn) /\ cn.outbound \in Seq(Entries) /\ cn.wait \in Seq(Entries)
      /\ cn.nextSeq \in Nat
  BY <1>0 DEF ConnTypes
<1>2. DOMAIN r = 1 .. Len(r) /\ Len(r) \in Nat
  OBVIOUS
<1>3. NoRepeats(r)
  BY <1>1, <1>2 DEF NoRepeats
<1>4. \A s \in SeqsOf(r) : s \in Nat /\ s >= cn.nextSeq /\ s < new.nextSeq
  <2> SUFFICES ASSUME NEW i \in DOMAIN r
               PROVE  r[i].seq \in Nat /\ r[i].seq >= cn.nextSeq /\ r[i].seq < new.nextSeq
    BY DEF SeqsOf, Range
  <2> QED
    BY <1>1, <1>2
<1>5. \A s \in Held(cn) \cup SeqsOf(cn.wait) : s \in Nat /\ s < cn.nextSeq
  BY <1>1, SeqTypes DEF QueueInv, Numbered
<1>6. SeqsOf(r) \cap (Held(cn) \cup SeqsOf(cn.wait)) = {}
  BY <1>1, <1>4, <1>5
<1>7. /\ SeqsOf(new.outbound) = SeqsOf(cn.outbound) \cup SeqsOf(r)
      /\ NoRepeats(new.outbound)
  BY <1>1, <1>3, <1>6, ConcatQueues DEF QueueInv, Distinct, Held
<1>8. Held(new) = Held(cn) \cup SeqsOf(r)
  BY <1>7 DEF Held, Unread
<1>9. Distinct(new)
  BY <1>7 DEF QueueInv, Distinct
<1>10. Apart(new)
  BY <1>6, <1>7 DEF QueueInv, Apart, Held, Unread
<1>11. Numbered(new)
  <2>1. \A s \in Nat : s < cn.nextSeq => s < new.nextSeq
    BY <1>1
  <2> QED
    BY <1>4, <1>5, <1>8, <2>1 DEF Numbered
<1>12. Alive(new) /\ UnreadOwed(new)
  BY DEF QueueInv, Alive, UnreadOwed, Unread
<1>13. Continues(cn, new)
  <2>1. cn.nextSeq <= new.nextSeq
    BY <1>1
  <2> QED
    BY <1>4, <1>8, <2>1 DEF Continues, NumbersKept
<1>14. Sending(cn) /\ cn.outbound # <<>> => Sending(new)
  BY DEF Sending
<1> QED
  BY <1>9, <1>10, <1>11, <1>12, <1>13, <1>14 DEF QueueInv

\* An event that is put into the outbound queue, and counted.
LEMMA EnqueuedInv ==
    ASSUME NEW cn, QueueInv(cn), cn.status # "NEW",
           NEW e \in KeyEvents \cup MotionEvents, NEW fg \in BOOLEAN,
           fg => e.ev \in DOMAIN cn.pending
    PROVE  LET new == Enqueued(cn, e, fg) IN
           /\ QueueInv(new) /\ Continues(cn, new)
           /\ new.outbound # <<>> /\ new.status = cn.status
           /\ Sending(cn) /\ cn.outbound # <<>> => Sending(new)
<1> DEFINE entry == DispatchEntry(e, fg, cn.nextSeq)
           queued == [cn EXCEPT !.outbound = Append(@, entry), !.nextSeq = @ + 1]
           new == Enqueued(cn, e, fg)
           r == <<entry>>
<1>1. /\ ConnTypes(cn) /\ cn.outbound \in Seq(Entries) /\ cn.wait \in Seq(Entries)
      /\ cn.nextSeq \in Nat
  BY DEF QueueInv, ConnTypes
<1>2. /\ entry \in Entries /\ entry.seq = cn.nextSeq
      /\ entry.ev = e.ev /\ (entry.fg <=> fg)
  BY <1>1, EntryMade
<1>3. new = IF entry.fg THEN [queued EXCEPT !.pending[entry.ev] = @ + 1] ELSE queued
  BY DEF Enqueued, Pend
<1> HIDE DEF new, entry
<1>4. /\ new = [f \in Fields |-> new[f]]
      /\ new.outbound = Append(cn.outbound, entry) /\ new.nextSeq = cn.nextSeq + 1
      /\ new.pending = IF entry.fg THEN [cn.pending EXCEPT ![entry.ev] = @ + 1]
                       ELSE cn.pending
      /\ \A f \in Fields \ {"outbound", "nextSeq", "pending"} : new[f] = cn[f]
  <2>1. /\ queued = [f \in Fields |-> queued[f]]
        /\ queued.outbound = Append(cn.outbound, entry)
        /\ queued.nextSeq = cn.nextSeq + 1 /\ queued.pending = cn.pending
        /\ \A f \in Fields \ {"outbound", "nextSeq"} : queued[f] = cn[f]
    BY DEF QueueInv, ConnTypes, Fields
  <2> HIDE DEF queued
  <2>2. CASE entry.fg
    BY <1>3, <2>1, <2>2 DEF Fields
  <2>3. CASE ~entry.fg
    BY <1>3, <2>1, <2>3
  <2> QED
    BY <2>2, <2>3
<1>5. /\ new.outbound = Append(cn.outbound, entry) /\ new.nextSeq = cn.nextSeq + 1
      /\ new.wait = cn.wait /\ new.unread = cn.unread /\ new.reading = cn.reading
      /\ new.signals = cn.signals /\ new.status = cn.status
      /\ new.registered = cn.registered /\ new.blocked = cn.blocked
      /\ new.open = cn.open /\ new.keyMementos = cn.keyMementos
      /\ new.motionMementos = cn.motionMementos
  BY <1>4 DEF Fields
<1>5a. new.pending = IF entry.fg THEN [cn.pending EXCEPT ![entry.ev] = @ + 1]
                     ELSE cn.pending
  BY <1>4
<1>6. /\ r \in Seq(Entries) /\ Len(r) = 1 /\ DOMAIN r = {1} /\ r[1] = entry
      /\ Range(r) = {entry} /\ SeqsOf(r) = {cn.nextSeq}
  BY <1>2 DEF Range, SeqsOf
<1>7. new.outbound = cn.outbound \o r
  BY <1>1, <1>2, <1>5, AppendIsConcat
<1> HIDE DEF r
<1>8. ConnTypes(new)
  <2>1. new.outbound \in Seq(Entries) /\ new.nextSeq \in Nat \ {0}
    <3>1. cn.outbound \o r \in Seq(Entries)
      BY <1>1, <1>6
    <3> QED
      BY <1>1, <1>5, <1>7, <3>1
  <2>2. new.pending = [ev \in DOMAIN new.pending |-> new.pending[ev]]
    BY <1>5a DEF QueueInv, ConnTypes
  <2>3. new = [f \in Fields |-> new[f]]
    BY <1>4
  <2> QED
    BY <1>1, <1>5, <2>1, <2>2, <2>3 DEF ConnTypes
<1>9. DOMAIN new.pending = DOMAIN cn.pending
  BY <1>5a
<1>10. Range(new.outbound) = Range(cn.outbound) \cup {entry}
  BY <1>1, <1>6, <1>7, ConcatQueues
<1>11. Counted(new)
  <2>1. \A x \in Range(new.outbound) \cup Range(new.wait) :
           x.fg => x.ev \in DOMAIN new.pending
    BY <1>2, <1>5, <1>9, <1>10 DEF QueueInv, Counted
  <2>2. ASSUME NEW ev \in DOMAIN cn.pending
        PROVE  new.pending[ev] = Cardinality(ForegroundSeqs(new, ev))
    <3>1. /\ IsFiniteSet(ForegroundSeqs(cn, ev))
          /\ Cardinality(ForegroundSeqs(cn, ev)) \in Nat
      BY <1>1, ForegroundCount DEF QueueInv, Distinct, Apart
    <3>2. cn.pending[ev] = Cardinality(ForegroundSeqs(cn, ev))
      BY DEF QueueInv, Counted
    <3>3. cn.nextSeq \notin ForegroundSeqs(cn, ev)
      <4>1. ForegroundSeqs(cn, ev) \subseteq SeqsOf(cn.outbound) \cup SeqsOf(cn.wait)
        BY DEF ForegroundSeqs, SeqsOf
      <4> QED
        <5>1. \A s \in SeqsOf(cn.outbound) \cup SeqsOf(cn.wait) : s < cn.nextSeq
          BY DEF QueueInv, Numbered, Held
        <5> QED
          BY <1>1, <4>1, <5>1
    <3>4. CASE fg /\ e.ev = ev
      <4>1. ForegroundSeqs(new, ev) = ForegroundSeqs(cn, ev) \cup {cn.nextSeq}
        BY <1>2, <1>5, <1>10, <3>4 DEF ForegroundSeqs
      <4>2. Cardinality(ForegroundSeqs(new, ev)) = Cardinality(ForegroundSeqs(cn, ev)) + 1
        BY <3>1, <3>3, <4>1, FS_AddElement
      <4>3. new.pending[ev] = cn.pending[ev] + 1
        BY <1>2, <1>5a, <3>4
      <4> QED
        BY <3>2, <4>2, <4>3
    <3>5. CASE ~(fg /\ e.ev = ev)
      <4>1. ForegroundSeqs(new, ev) = ForegroundSeqs(cn, ev)
        BY <1>2, <1>5, <1>10, <3>5 DEF ForegroundSeqs
      <4>2. new.pending[ev] = cn.pending[ev]
        BY <1>2, <1>5a, <3>5
      <4> QED
        BY <3>2, <4>1, <4>2
    <3> QED
      BY <3>4, <3>5
  <2> QED
    BY <1>9, <2>1, <2>2 DEF Counted
<1>12. \A i \in DOMAIN r : r[i].seq = cn.nextSeq + i - 1
  BY <1>1, <1>2, <1>6
<1>13. /\ QueueInv(new) /\ Continues(cn, new)
       /\ Sending(cn) /\ cn.outbound # <<>> => Sending(new)
  <2>1. new.nextSeq = cn.nextSeq + Len(r)
    BY <1>5, <1>6
  <2> QED
    BY <1>5, <1>6, <1>7, <1>8, <1>9, <1>11, <1>12, <2>1, AddEntries
<1>14. new.outbound # <<>>
  BY <1>1, <1>2, <1>5, AppendProperties
<1> QED
  BY <1>5, <1>13, <1>14 DEF new

\* A finite set in some order.
LEMMA SetInOrder ==
    ASSUME NEW S, IsFiniteSet(S)
    PROVE  /\ Cardinality(S) \in Nat
           /\ SetToSeq(S) \in [1 .. Cardinality(S) -> S]
<1>1. Cardinality(S) \in Nat /\ ExistsBijection(1 .. Cardinality(S), S)
  BY FS_CardinalityType
<1>2. PICK f \in Bijection(1 .. Cardinality(S), S) : TRUE
  BY <1>1 DEF ExistsBijection
<1>3. f \in [1 .. Cardinality(S) -> S] /\ IsInjective(f)
  BY <1>2 DEF Bijection, Injection, Surjection, IsInjective
<1> QED
  BY <1>1, <1>3 DEF SetToSeq

\* A function on the first numbers is a sequence.
LEMMA SequenceMade ==
    ASSUME NEW S, NEW n \in Nat, NEW f \in [1 .. n -> S]
    PROVE  f \in Seq(S) /\ Len(f) = n /\ DOMAIN f = 1 .. n
<1>1. f \in Seq(S) /\ DOMAIN f = 1 .. n
  BY SeqDef
<1>2. Len(f) \in Nat /\ DOMAIN f = 1 .. Len(f)
  BY <1>1, LenProperties
<1> QED
  BY <1>1, <1>2

\* There are finitely many mementos.
LEMMA MementosFinite ==
    ASSUME NEW cn, ConnTypes(cn)
    PROVE  IsFiniteSet(cn.keyMementos) /\ IsFiniteSet(cn.motionMementos)
<1>1. IsFiniteSet(BOOLEAN)
  <2>1. IsFiniteSet({} \cup {TRUE})
    BY FS_EmptySet, FS_AddElement
  <2>2. IsFiniteSet(({} \cup {TRUE}) \cup {FALSE})
    BY <2>1, FS_AddElement
  <2>3. BOOLEAN = ({} \cup {TRUE}) \cup {FALSE}
    OBVIOUS
  <2> QED
    BY <2>2, <2>3
<1>2. IsFiniteSet(Codes) /\ IsFiniteSet(AllDevices)
  BY CycleConstants, FS_AddElement DEF Codes, AllDevices
<1>3. IsFiniteSet(Codes \X BOOLEAN) /\ IsFiniteSet(AllDevices \X BOOLEAN)
  BY <1>1, <1>2, FS_Product
<1>4. IsFiniteSet([code : Codes, flagged : BOOLEAN])
  <2> DEFINE R == [code : Codes, flagged : BOOLEAN]
             f == [m \in R |-> <<m.code, m.flagged>>]
  <2>1. f \in Injection(R, Codes \X BOOLEAN)
    BY DEF Injection, IsInjective
  <2> QED
    BY <1>3, <2>1, FS_Injection DEF ExistsInjection
<1>5. IsFiniteSet([dev : AllDevices, hovering : BOOLEAN])
  <2> DEFINE R == [dev : AllDevices, hovering : BOOLEAN]
             f == [m \in R |-> <<m.dev, m.hovering>>]
  <2>1. f \in Injection(R, AllDevices \X BOOLEAN)
    BY DEF Injection, IsInjective
  <2> QED
    BY <1>3, <2>1, FS_Injection DEF ExistsInjection
<1>6. /\ cn.keyMementos \subseteq [code : Codes, flagged : BOOLEAN]
      /\ cn.motionMementos \subseteq [dev : AllDevices, hovering : BOOLEAN]
  BY DEF ConnTypes
<1> QED
  BY <1>4, <1>5, <1>6, FS_Subset

\* Cancelations are events.
LEMMA CancelationTypes ==
    ASSUME NEW cn, ConnTypes(cn), NEW options
    PROVE  CancelationEvents(cn, options) \in Seq(KeyEvents \cup MotionEvents)
<1> DEFINE keys == KeysToCancel(cn, options)
           motions == MotionsToCancel(cn, options)
           kq == [i \in 1 .. Cardinality(keys) |->
                    LET m == SetToSeq(keys)[i] IN KeyEvent(0, m.code, "UP", 0, m.flagged)]
           mq == [i \in 1 .. Cardinality(motions) |->
                    LET m == SetToSeq(motions)[i]
                    IN  MotionEvent(0, m.dev,
                                    IF m.hovering THEN "HOVER_EXIT" ELSE "CANCEL", TRUE)]
<1>1. /\ keys \subseteq cn.keyMementos /\ motions \subseteq cn.motionMementos
      /\ keys \subseteq [code : Codes, flagged : BOOLEAN]
      /\ motions \subseteq [dev : AllDevices, hovering : BOOLEAN]
  BY DEF KeysToCancel, MotionsToCancel, ConnTypes
<1>2. /\ Cardinality(keys) \in Nat /\ SetToSeq(keys) \in [1 .. Cardinality(keys) -> keys]
      /\ Cardinality(motions) \in Nat
      /\ SetToSeq(motions) \in [1 .. Cardinality(motions) -> motions]
  BY <1>1, MementosFinite, FS_Subset, SetInOrder
<1>3. CancelationEvents(cn, options) = kq \o mq
  BY DEF CancelationEvents
<1>4. \A m \in [code : Codes, flagged : BOOLEAN] :
         KeyEvent(0, m.code, "UP", 0, m.flagged) \in KeyEvents
  BY DEF KeyEvent, KeyEvents
<1>5. \A m \in [dev : AllDevices, hovering : BOOLEAN] :
         MotionEvent(0, m.dev, IF m.hovering THEN "HOVER_EXIT" ELSE "CANCEL", TRUE)
            \in MotionEvents
  BY DEF MotionEvent, MotionEvents, MotionActions
<1> HIDE DEF keys, motions
<1>6. kq \in [1 .. Cardinality(keys) -> KeyEvents \cup MotionEvents]
  BY <1>1, <1>2, <1>4
<1>7. mq \in [1 .. Cardinality(motions) -> KeyEvents \cup MotionEvents]
  BY <1>1, <1>2, <1>5
<1> HIDE DEF kq, mq
<1>8. kq \in Seq(KeyEvents \cup MotionEvents) /\ mq \in Seq(KeyEvents \cup MotionEvents)
  BY <1>2, <1>6, <1>7, SequenceMade
<1> QED
  BY <1>3, <1>8, ConcatProperties

\* Cancelations that are put into the outbound queue count for nothing.
LEMMA CancelationsInv ==
    ASSUME NEW cn, QueueInv(cn), cn.status # "NEW", NEW options
    PROVE  LET new == CancelationsEnqueued(cn, options) IN
           /\ QueueInv(new) /\ Continues(cn, new) /\ new.status = cn.status
           /\ Sending(cn) /\ cn.outbound # <<>> => Sending(new)
<1> DEFINE events == CancelationEvents(cn, options)
           r == [i \in DOMAIN events |->
                    DispatchEntry(events[i], FALSE, cn.nextSeq + i - 1)]
           new == CancelationsEnqueued(cn, options)
<1>1. /\ ConnTypes(cn) /\ cn.outbound \in Seq(Entries) /\ cn.wait \in Seq(Entries)
      /\ cn.nextSeq \in Nat
  BY DEF QueueInv, ConnTypes
<1>2. /\ events \in Seq(KeyEvents \cup MotionEvents)
      /\ DOMAIN events = 1 .. Len(events) /\ Len(events) \in Nat
  BY <1>1, CancelationTypes
<1>3. PICK k, m, f :
         /\ k \in SUBSET [code : Codes, flagged : BOOLEAN]
         /\ m \in SUBSET [dev : AllDevices, hovering : BOOLEAN]
         /\ new = [cn EXCEPT !.keyMementos = k, !.fallbackKeys = f, !.motionMementos = m,
                             !.outbound = @ \o r, !.nextSeq = @ + Len(events)]
  <2>1. /\ {x \in cn.keyMementos : \A y \in KeysToCancel(cn, options) : y.code # x.code}
              \in SUBSET [code : Codes, flagged : BOOLEAN]
        /\ cn.motionMementos \ MotionsToCancel(cn, options)
              \in SUBSET [dev : AllDevices, hovering : BOOLEAN]
    BY <1>1 DEF ConnTypes
  <2> QED
    BY <2>1 DEF CancelationsEnqueued
<1> HIDE DEF new, events
<1>4. \A i \in DOMAIN events :
         /\ r[i] \in Entries /\ r[i].seq = cn.nextSeq + i - 1 /\ ~r[i].fg
  <2> TAKE i \in DOMAIN events
  <2>1. events[i] \in KeyEvents \cup MotionEvents
    BY <1>2
  <2>2. cn.nextSeq + i - 1 \in Nat
    BY <1>1, <1>2
  <2> QED
    BY <2>1, <2>2, EntryMade
<1>5. r \in Seq(Entries) /\ Len(r) = Len(events) /\ DOMAIN r = DOMAIN events
  <2>1. r \in [1 .. Len(events) -> Entries]
    BY <1>2, <1>4
  <2> HIDE DEF r
  <2> QED
    BY <1>2, <2>1, SequenceMade
<1> HIDE DEF r
<1>6. cn = [x \in Fields |-> cn[x]]
  BY <1>1 DEF ConnTypes
<1>7. /\ new = [x \in Fields |-> new[x]]
      /\ new.keyMementos = k /\ new.motionMementos = m
      /\ new.outbound = cn.outbound \o r /\ new.nextSeq = cn.nextSeq + Len(events)
      /\ \A x \in Fields \ {"outbound", "nextSeq", "keyMementos", "motionMementos",
                            "fallbackKeys"} : new[x] = cn[x]
  BY <1>3, <1>6 DEF Fields
<1>8. /\ new.wait = cn.wait /\ new.unread = cn.unread /\ new.reading = cn.reading
      /\ new.signals = cn.signals /\ new.status = cn.status
      /\ new.registered = cn.registered /\ new.blocked = cn.blocked
      /\ new.open = cn.open /\ new.pending = cn.pending
  BY <1>7 DEF Fields
<1>9. /\ new.outbound = cn.outbound \o r /\ new.nextSeq = cn.nextSeq + Len(r)
      /\ new.keyMementos = k /\ new.motionMementos = m
  BY <1>5, <1>7
<1>10. /\ cn.outbound \o r \in Seq(Entries)
       /\ Range(new.outbound) = Range(cn.outbound) \cup Range(r)
  BY <1>1, <1>5, <1>9, ConcatQueues
<1>11. ConnTypes(new)
  <2>1. new.outbound \in Seq(Entries) /\ new.nextSeq \in Nat \ {0}
    <3>1. cn.nextSeq \in Nat \ {0}
      BY <1>1 DEF ConnTypes
    <3> QED
      BY <1>2, <1>5, <1>9, <1>10, <3>1
  <2>2. new = [x \in Fields |-> new[x]]
    BY <1>7
  <2>3. /\ new.keyMementos \subseteq [code : Codes, flagged : BOOLEAN]
        /\ new.motionMementos \subseteq [dev : AllDevices, hovering : BOOLEAN]
    BY <1>3, <1>9
  <2> QED
    BY <1>1, <1>8, <2>1, <2>2, <2>3 DEF ConnTypes
<1>12. Counted(new)
  <2>1. \A x \in Range(r) : ~x.fg
    BY <1>4, <1>5 DEF Range
  <2>2. \A ev : ForegroundSeqs(new, ev) = ForegroundSeqs(cn, ev)
    BY <1>8, <1>10, <2>1 DEF ForegroundSeqs
  <2> QED
    BY <1>8, <1>10, <2>1, <2>2 DEF QueueInv, Counted
<1>13. \A i \in DOMAIN r : r[i].seq = cn.nextSeq + i - 1
  BY <1>4, <1>5
<1> QED
  BY <1>5, <1>8, <1>9, <1>11, <1>12, <1>13, AddEntries DEF new

-----------------------------------------------------------------------------
(* Queues are emptied and sent *)

\* Queues are drained and the connection is given up.
LEMMA EmptiedInv ==
    ASSUME NEW cn, QueueInv(cn), NEW new, ConnTypes(new),
           new.outbound = <<>>, new.wait = <<>>, new.nextSeq = cn.nextSeq,
           new.pending = [ev \in DOMAIN cn.pending |->
                             cn.pending[ev] - Cardinality(Foreground(cn, ev))],
           new.status # "NORMAL", cn.status # "NEW" => new.status # "NEW",
           cn.status = "NEW" => new.registered = cn.registered,
           \/ /\ new.unread = cn.unread /\ new.reading = cn.reading
              /\ new.signals = cn.signals
           \/ new.unread = <<>> /\ new.reading = {} /\ new.signals = <<>>
    PROVE  ConnInv(new) /\ Continues(cn, new)
<1>1. /\ ConnTypes(cn) /\ cn.nextSeq \in Nat
  BY DEF QueueInv, ConnTypes
<1>2. /\ Range(new.outbound) = {} /\ Range(new.wait) = {}
      /\ SeqsOf(new.outbound) = {} /\ SeqsOf(new.wait) = {}
  BY DEF Range, SeqsOf
<1>3. /\ Unread(new) \in {Unread(cn), {}} /\ new.reading \in {cn.reading, {}}
      /\ SeqsOf(new.signals) \in {SeqsOf(cn.signals), {}}
  BY DEF Unread, Range, SeqsOf
<1>4. Held(new) \subseteq Held(cn)
  BY <1>2, <1>3 DEF Held
<1>5. Distinct(new)
  <2>1. NoRepeats(<<>>) /\ OnceEach(<<>>)
    BY DEF NoRepeats, OnceEach
  <2>2. NoRepeats(cn.signals) /\ OnceEach(cn.unread)
    BY DEF QueueInv, Distinct
  <2> QED
    BY <2>1, <2>2 DEF Distinct
<1>6. Apart(new)
  BY <1>2, <1>3 DEF QueueInv, Apart
<1>7. Numbered(new)
  BY <1>2, <1>4 DEF QueueInv, Numbered
<1>8. Counted(new)
  <2>1. ASSUME NEW ev \in DOMAIN cn.pending
        PROVE  new.pending[ev] = Cardinality(ForegroundSeqs(new, ev))
    <3>1. /\ Cardinality(Foreground(cn, ev)) = Cardinality(ForegroundSeqs(cn, ev))
          /\ Cardinality(ForegroundSeqs(cn, ev)) \in Nat
      <4>1. cn.outbound \in Seq(Entries) /\ cn.wait \in Seq(Entries)
        BY <1>1 DEF ConnTypes
      <4> QED
        BY <4>1, ForegroundCount DEF QueueInv, Distinct, Apart
    <3>2. cn.pending[ev] = Cardinality(ForegroundSeqs(cn, ev))
      BY DEF QueueInv, Counted
    <3>3. new.pending[ev] = 0
      BY <3>1, <3>2
    <3>4. ForegroundSeqs(new, ev) = {}
      BY <1>2 DEF ForegroundSeqs
    <3> QED
      BY <3>3, <3>4, FS_EmptySet
  <2>2. DOMAIN new.pending = DOMAIN cn.pending
    OBVIOUS
  <2> QED
    BY <1>2, <2>1, <2>2 DEF Counted
<1>9. Alive(new) /\ UnreadOwed(new) /\ Sending(new)
  <2>1. Len(<<>>) <= PIPE
    BY CycleConstants
  <2> QED
    BY <1>4, <2>1 DEF QueueInv, Alive, UnreadOwed, Sending
<1>10. Continues(cn, new)
  BY <1>1, <1>2, <1>4 DEF Continues, NumbersKept
<1> QED
  BY <1>5, <1>6, <1>7, <1>8, <1>9, <1>10 DEF ConnInv, QueueInv

\* What abortBrokenDispatchCycleLocked and the loss of a channel do.
LEMMA GivenUpInv ==
    ASSUME NEW cn, QueueInv(cn)
    PROVE  /\ LET new == abortBrokenDispatchCycleLocked(cn) IN
              /\ ConnInv(new) /\ Continues(cn, new)
           /\ LET new == Unregistered(cn) IN
              /\ ConnInv(new) /\ Continues(cn, new)
<1> DEFINE pend == [ev \in DOMAIN cn.pending |->
                       cn.pending[ev] - Cardinality(Foreground(cn, ev))]
           drained == Drained(cn)
           aborted == abortBrokenDispatchCycleLocked(cn)
           lost == Unregistered(cn)
<1>1. ConnTypes(cn) /\ cn = [f \in Fields |-> cn[f]]
  BY DEF QueueInv, ConnTypes
<1> HIDE DEF pend
<1>2. /\ drained = [f \in Fields |-> drained[f]]
      /\ drained.outbound = <<>> /\ drained.wait = <<>> /\ drained.pending = pend
      /\ \A f \in Fields \ {"outbound", "wait", "pending"} : drained[f] = cn[f]
  BY <1>1 DEF Drained, Fields, pend
<1>3. aborted = [drained EXCEPT !.status = IF @ = "NORMAL" THEN "BROKEN" ELSE @]
  BY DEF abortBrokenDispatchCycleLocked
<1> HIDE DEF drained, aborted
<1>4. /\ aborted = [f \in Fields |-> aborted[f]]
      /\ aborted.outbound = <<>> /\ aborted.wait = <<>> /\ aborted.pending = pend
      /\ aborted.status = IF cn.status = "NORMAL" THEN "BROKEN" ELSE cn.status
      /\ \A f \in Fields \ {"outbound", "wait", "pending", "status"} :
            aborted[f] = cn[f]
  BY <1>2, <1>3 DEF Fields
<1>5. lost = [aborted EXCEPT
                 !.registered = FALSE, !.status = "ZOMBIE", !.signals = <<>>,
                 !.unread = <<>>, !.reading = {}, !.view = NewConnection.view]
  BY DEF Unregistered, aborted
<1> HIDE DEF lost
<1>6. /\ lost = [f \in Fields |-> lost[f]]
      /\ lost.outbound = <<>> /\ lost.wait = <<>> /\ lost.pending = pend
      /\ lost.status = "ZOMBIE" /\ lost.registered = FALSE /\ lost.signals = <<>>
      /\ lost.unread = <<>> /\ lost.reading = {}
      /\ \A f \in {"blocked", "keyMementos", "motionMementos", "nextSeq", "open"} :
            lost[f] = cn[f]
  BY <1>4, <1>5 DEF Fields
<1>7. pend = [ev \in DOMAIN pend |-> pend[ev]]
  BY DEF pend
<1>8. /\ aborted.outbound = <<>> /\ aborted.wait = <<>> /\ aborted.pending = pend
      /\ aborted.status = IF cn.status = "NORMAL" THEN "BROKEN" ELSE cn.status
      /\ aborted.registered = cn.registered /\ aborted.blocked = cn.blocked
      /\ aborted.keyMementos = cn.keyMementos
      /\ aborted.motionMementos = cn.motionMementos /\ aborted.nextSeq = cn.nextSeq
      /\ aborted.unread = cn.unread /\ aborted.reading = cn.reading
      /\ aborted.signals = cn.signals /\ aborted.open = cn.open
  BY <1>4 DEF Fields
<1>9. /\ lost.outbound = <<>> /\ lost.wait = <<>> /\ lost.pending = pend
      /\ lost.status = "ZOMBIE" /\ lost.registered = FALSE /\ lost.signals = <<>>
      /\ lost.unread = <<>> /\ lost.reading = {}
      /\ lost.blocked = cn.blocked /\ lost.keyMementos = cn.keyMementos
      /\ lost.motionMementos = cn.motionMementos /\ lost.nextSeq = cn.nextSeq
      /\ lost.open = cn.open
  BY <1>6
<1>10. ConnTypes(aborted)
  <2>1. aborted = [f \in Fields |-> aborted[f]]
    BY <1>4
  <2>2. aborted.pending = [ev \in DOMAIN aborted.pending |-> aborted.pending[ev]]
    BY <1>7, <1>8
  <2> QED
    BY <1>1, <1>8, <2>1, <2>2, EmptySeq DEF ConnTypes
<1>11. ConnTypes(lost)
  <2>1. lost = [f \in Fields |-> lost[f]]
    BY <1>6
  <2>2. lost.pending = [ev \in DOMAIN lost.pending |-> lost.pending[ev]]
    BY <1>7, <1>9
  <2> QED
    BY <1>1, <1>9, <2>1, <2>2, EmptySeq DEF ConnTypes
<1>12. ConnInv(aborted) /\ Continues(cn, aborted)
  BY <1>8, <1>10, EmptiedInv DEF pend
<1>13. ConnInv(lost) /\ Continues(cn, lost)
  <2>1. cn.status = "NEW" => ~cn.registered /\ cn.registered \in BOOLEAN
    BY DEF QueueInv, Alive, ConnTypes
  <2> QED
    BY <1>9, <1>11, <2>1, EmptiedInv DEF pend
<1> QED
  BY <1>12, <1>13 DEF aborted, lost

\* Numbers that are put behind others.
LEMMA ConcatNumbers ==
    ASSUME NEW q \in Seq(Nat), NEW r \in Seq(Nat)
    PROVE  /\ q \o r \in Seq(Nat) /\ Len(q \o r) = Len(q) + Len(r)
           /\ Range(q \o r) = Range(q) \cup Range(r)
           /\ OnceEach(q) /\ OnceEach(r) /\ Range(q) \cap Range(r) = {}
              => OnceEach(q \o r)
<1>1. q \o r \in Seq(Nat) /\ Len(q \o r) = Len(q) + Len(r)
  BY ConcatProperties
<1>2. Range(q \o r) = Range(q) \cup Range(r)
  BY RangeConcatenation
<1>3. ASSUME OnceEach(q), OnceEach(r), Range(q) \cap Range(r) = {},
             NEW i \in DOMAIN (q \o r), NEW j \in DOMAIN (q \o r),
             (q \o r)[i] = (q \o r)[j]
      PROVE  i = j
  <2>1. /\ DOMAIN q = 1 .. Len(q) /\ DOMAIN r = 1 .. Len(r)
        /\ DOMAIN (q \o r) = 1 .. Len(q) + Len(r)
        /\ Len(q) \in Nat /\ Len(r) \in Nat
    OBVIOUS
  <2>2. \A k \in DOMAIN (q \o r) :
           (q \o r)[k] = IF k <= Len(q) THEN q[k] ELSE r[k - Len(q)]
    OBVIOUS
  <2>3. \A k \in DOMAIN q, l \in DOMAIN r : q[k] # r[l]
    BY <1>3 DEF Range
  <2>4. CASE i <= Len(q) /\ j <= Len(q)
    BY <1>3, <2>1, <2>2, <2>4 DEF OnceEach
  <2>5. CASE i > Len(q) /\ j > Len(q)
    <3>1. i - Len(q) \in DOMAIN r /\ j - Len(q) \in DOMAIN r
      BY <2>1, <2>5
    <3>2. r[i - Len(q)] = r[j - Len(q)]
      BY <1>3, <2>1, <2>2, <2>5
    <3>3. i - Len(q) = j - Len(q)
      BY <1>3, <3>1, <3>2 DEF OnceEach
    <3> QED
      BY <2>1, <3>3
  <2>6. CASE i <= Len(q) /\ j > Len(q)
    <3>1. i \in DOMAIN q /\ j - Len(q) \in DOMAIN r
      BY <2>1, <2>6
    <3> QED
      BY <1>3, <2>1, <2>2, <2>3, <2>6, <3>1
  <2>7. CASE i > Len(q) /\ j <= Len(q)
    <3>1. j \in DOMAIN q /\ i - Len(q) \in DOMAIN r
      BY <2>1, <2>7
    <3> QED
      BY <1>3, <2>1, <2>2, <2>3, <2>7, <3>1
  <2> QED
    BY <2>1, <2>4, <2>5, <2>6, <2>7
<1> QED
  BY <1>1, <1>2, <1>3 DEF OnceEach

\* The front of the outbound queue goes to the socket and waits for answers.
LEMMA SentInv ==
    ASSUME NEW cn, QueueInv(cn), cn.status = "NORMAL",
           NEW n \in Nat, n <= Len(cn.outbound), Len(cn.unread) + n <= PIPE,
           NEW sent, sent = SubSeq(cn.outbound, 1, n),
           NEW new, IsConnection(new), new.blocked \in BOOLEAN,
           new.outbound = SubSeq(cn.outbound, n + 1, Len(cn.outbound)),
           new.wait = cn.wait \o sent,
           new.unread = cn.unread \o [i \in 1 .. n |-> sent[i].seq],
           new.status = cn.status, new.registered = cn.registered,
           new.keyMementos = cn.keyMementos, new.motionMementos = cn.motionMementos,
           new.nextSeq = cn.nextSeq, new.pending = cn.pending,
           new.reading = cn.reading, new.signals = cn.signals, new.open = cn.open
    PROVE  QueueInv(new) /\ Continues(cn, new)
<1> DEFINE news == [i \in 1 .. n |-> sent[i].seq]
<1>0. ConnTypes(cn)
  BY DEF QueueInv
<1>1. /\ cn.outbound \in Seq(Entries) /\ cn.wait \in Seq(Entries)
      /\ cn.unread \in Seq(Nat) /\ cn.nextSeq \in Nat
  BY <1>0 DEF ConnTypes
<1>2. /\ sent \in Seq(Entries) /\ new.outbound \in Seq(Entries) /\ Len(sent) = n
      /\ Range(cn.outbound) = Range(sent) \cup Range(new.outbound)
      /\ NoRepeats(sent) /\ NoRepeats(new.outbound)
      /\ SeqsOf(sent) \cap SeqsOf(new.outbound) = {}
  BY <1>1, QueueCut DEF QueueInv, Distinct
<1>3. SeqsOf(cn.outbound) = SeqsOf(sent) \cup SeqsOf(new.outbound)
  BY <1>2 DEF SeqsOf
<1>4. /\ SeqsOf(cn.outbound) \cap SeqsOf(cn.wait) = {}
      /\ SeqsOf(cn.outbound) \cap Unread(cn) = {}
      /\ SeqsOf(cn.outbound) \cap (cn.reading \cup SeqsOf(cn.signals)) = {}
  BY DEF QueueInv, Apart
<1>5. /\ new.wait \in Seq(Entries) /\ NoRepeats(new.wait)
      /\ Range(new.wait) = Range(cn.wait) \cup Range(sent)
      /\ SeqsOf(new.wait) = SeqsOf(cn.wait) \cup SeqsOf(sent)
  <2>1. NoRepeats(cn.wait)
    BY DEF QueueInv, Distinct
  <2>2. SeqsOf(cn.wait) \cap SeqsOf(sent) = {}
    BY <1>3, <1>4
  <2> QED
    BY <1>1, <1>2, <2>1, <2>2, ConcatQueues
<1>6. /\ news \in Seq(Nat) /\ Len(news) = n /\ OnceEach(news)
      /\ Range(news) = SeqsOf(sent)
  <2>1. DOMAIN sent = 1 .. n /\ \A i \in 1 .. n : sent[i] \in Entries
    BY <1>2
  <2>2. \A e \in Entries : e.seq \in Nat
    BY DEF Entries
  <2>3. news \in [1 .. n -> Nat]
    BY <2>1, <2>2
  <2>4. Range(news) = SeqsOf(sent)
    BY <2>1 DEF Range, SeqsOf
  <2>5. OnceEach(news)
    BY <1>2, <2>1 DEF OnceEach, NoRepeats
  <2> HIDE DEF news
  <2> QED
    BY <2>3, <2>4, <2>5, SequenceMade
<1> HIDE DEF news
<1>7. new.unread = cn.unread \o news
  BY DEF news
<1>8. /\ new.unread \in Seq(Nat) /\ Len(new.unread) = Len(cn.unread) + n
      /\ Unread(new) = Unread(cn) \cup SeqsOf(sent) /\ OnceEach(new.unread)
  <2>1. OnceEach(cn.unread)
    BY DEF QueueInv, Distinct
  <2>2. Range(cn.unread) \cap Range(news) = {}
    BY <1>3, <1>4, <1>6 DEF Unread
  <2> QED
    BY <1>1, <1>6, <1>7, <2>1, <2>2, ConcatNumbers DEF Unread
<1>9. Held(new) = Held(cn)
  BY <1>3, <1>8 DEF Held
<1>10. ConnTypes(new)
  BY <1>0, <1>2, <1>5, <1>8 DEF ConnTypes, IsConnection
<1>11. Distinct(new)
  BY <1>2, <1>5, <1>8 DEF QueueInv, Distinct
<1>12. Apart(new)
  <2>1. /\ Unread(cn) \cap (cn.reading \cup SeqsOf(cn.signals)) = {}
        /\ cn.reading \cap SeqsOf(cn.signals) = {}
    BY DEF QueueInv, Apart
  <2> QED
    BY <1>2, <1>3, <1>4, <1>5, <1>8, <2>1 DEF Apart
<1>13. Numbered(new)
  BY <1>3, <1>5, <1>9 DEF QueueInv, Numbered, Held
<1>14. Counted(new)
  <2>1. Range(new.outbound) \cup Range(new.wait) = Range(cn.outbound) \cup Range(cn.wait)
    BY <1>2, <1>5
  <2>2. \A ev : ForegroundSeqs(new, ev) = ForegroundSeqs(cn, ev)
    BY <2>1 DEF ForegroundSeqs
  <2> QED
    BY <2>1, <2>2 DEF QueueInv, Counted
<1>15. Alive(new)
  BY DEF Alive
<1>16. UnreadOwed(new)
  BY <1>5, <1>8 DEF QueueInv, UnreadOwed
<1>17. Continues(cn, new)
  <2>1. \A w \in Range(sent) : w.seq \in Held(cn)
    BY <1>2 DEF Held, SeqsOf
  <2>2. NumbersKept(cn, new, {})
    BY <1>1, <1>9 DEF NumbersKept
  <2> QED
    BY <1>5, <2>1, <2>2 DEF Continues
<1> QED
  BY <1>10, <1>11, <1>12, <1>13, <1>14, <1>15, <1>16, <1>17 DEF QueueInv

\* Whatever is published, the connection is in order, or waits for the
\* application, or is given up.
LEMMA StartInv ==
    ASSUME NEW cn, QueueInv(cn)
    PROVE  LET new == startDispatchCycleLocked(cn) IN
           ConnInv(new) /\ Continues(cn, new)
<1> DEFINE room == IF cn.open THEN PIPE - Len(cn.unread) ELSE 0
           n == IF room < Len(cn.outbound) THEN room ELSE Len(cn.outbound)
           sent == SubSeq(cn.outbound, 1, n)
           after == [cn EXCEPT
               !.outbound = SubSeq(@, n + 1, Len(@)),
               !.wait = @ \o sent,
               !.unread = @ \o [i \in 1 .. n |-> sent[i].seq],
               !.view = FoldLeft(ViewAfter, @, sent)]
           blocked == [after EXCEPT !.blocked = TRUE]
           new == startDispatchCycleLocked(cn)
<1>0. ConnTypes(cn) /\ cn = [f \in Fields |-> cn[f]]
  BY DEF QueueInv, ConnTypes
<1>1. CASE cn.status # "NORMAL"
  <2>1. new = cn
    BY <1>1 DEF startDispatchCycleLocked
  <2> QED
    BY <1>0, <1>1, <2>1, ContinuesSame DEF ConnInv, Sending
<1>2. CASE cn.status = "NORMAL"
  <2>1. new = IF after.outbound = <<>> THEN after
              ELSE IF cn.open /\ after.wait # <<>> THEN blocked
              ELSE abortBrokenDispatchCycleLocked(after)
    BY <1>2 DEF startDispatchCycleLocked
  <2>2. n \in Nat /\ n <= Len(cn.outbound) /\ Len(cn.unread) + n <= PIPE
    <3>1. Len(cn.unread) \in Nat /\ Len(cn.outbound) \in Nat
      BY <1>0 DEF ConnTypes
    <3>2. PIPE \in Nat /\ Len(cn.unread) <= PIPE
      BY CycleConstants DEF QueueInv, UnreadOwed
    <3>3. room = PIPE - Len(cn.unread) \/ room = 0
      BY Zenon
    <3> HIDE DEF room
    <3>4. room \in Nat /\ room + Len(cn.unread) <= PIPE
      BY <3>1, <3>2, <3>3
    <3>5. (n = room /\ room < Len(cn.outbound))
          \/ (n = Len(cn.outbound) /\ ~(room < Len(cn.outbound)))
      BY Zenon
    <3> HIDE DEF n, sent, after, blocked
    <3> QED
      BY <3>1, <3>2, <3>4, <3>5
  <2> HIDE DEF n, sent, new
  <2>3. /\ after = [f \in Fields |-> after[f]]
        /\ after.outbound = SubSeq(cn.outbound, n + 1, Len(cn.outbound))
        /\ after.wait = cn.wait \o sent
        /\ after.unread = cn.unread \o [i \in 1 .. n |-> sent[i].seq]
        /\ \A f \in Fields \ {"outbound", "wait", "unread", "view"} : after[f] = cn[f]
    BY <1>0 DEF Fields
  <2> HIDE DEF after
  <2>4. /\ blocked = [f \in Fields |-> blocked[f]] /\ blocked.blocked = TRUE
        /\ \A f \in Fields \ {"blocked"} : blocked[f] = after[f]
    BY <2>3 DEF Fields
  <2> HIDE DEF blocked
  <2>5. /\ after.status = cn.status /\ after.registered = cn.registered
        /\ after.keyMementos = cn.keyMementos
        /\ after.motionMementos = cn.motionMementos
        /\ after.nextSeq = cn.nextSeq /\ after.pending = cn.pending
        /\ after.reading = cn.reading /\ after.signals = cn.signals
        /\ after.open = cn.open /\ after.blocked = cn.blocked
        /\ after.outbound = SubSeq(cn.outbound, n + 1, Len(cn.outbound))
        /\ after.wait = cn.wait \o sent
        /\ after.unread = cn.unread \o [i \in 1 .. n |-> sent[i].seq]
    BY <2>3 DEF Fields
  <2>6. /\ blocked.status = cn.status /\ blocked.registered = cn.registered
        /\ blocked.keyMementos = cn.keyMementos
        /\ blocked.motionMementos = cn.motionMementos
        /\ blocked.nextSeq = cn.nextSeq /\ blocked.pending = cn.pending
        /\ blocked.reading = cn.reading /\ blocked.signals = cn.signals
        /\ blocked.open = cn.open /\ blocked.blocked \in BOOLEAN
        /\ blocked.outbound = SubSeq(cn.outbound, n + 1, Len(cn.outbound))
        /\ blocked.wait = cn.wait \o sent /\ blocked.wait = after.wait
        /\ blocked.unread = cn.unread \o [i \in 1 .. n |-> sent[i].seq]
    BY <2>4, <2>5 DEF Fields
  <2>7. cn.blocked \in BOOLEAN
    BY <1>0 DEF ConnTypes
  <2>8. IsConnection(after) /\ IsConnection(blocked)
    BY <2>3, <2>4 DEF IsConnection
  <2>9. sent = SubSeq(cn.outbound, 1, n)
    BY DEF sent
  <2>10. QueueInv(after) /\ Continues(cn, after)
    BY <1>2, <2>2, <2>5, <2>7, <2>8, <2>9, SentInv
  <2>11. QueueInv(blocked) /\ Continues(cn, blocked)
    BY <1>2, <2>2, <2>6, <2>8, <2>9, SentInv
  <2>12. LET given == abortBrokenDispatchCycleLocked(after) IN
         ConnInv(given) /\ Continues(cn, given)
    <3>1. LET given == abortBrokenDispatchCycleLocked(after) IN
          ConnInv(given) /\ Continues(after, given)
      BY <2>10, GivenUpInv
    <3> QED
      BY <1>0, <2>10, <3>1, ContinuesTwice DEF ConnInv, QueueInv
  <2> QED
    BY <2>1, <2>6, <2>10, <2>11, <2>12 DEF ConnInv, Sending, new
<1> QED
  BY <1>1, <1>2

\* Cancelations reach a connection.
LEMMA CancelInv ==
    ASSUME NEW cn, ConnInv(cn), cn.status # "NEW", NEW options
    PROVE  LET new == synthesizeCancelationEventsForConnectionLocked(cn, options) IN
           ConnInv(new) /\ Continues(cn, new)
<1> DEFINE mid == CancelationsEnqueued(cn, options)
           new == synthesizeCancelationEventsForConnectionLocked(cn, options)
<1>1. ConnTypes(cn)
  BY DEF ConnInv, QueueInv
<1>2. new = cn \/ new = startDispatchCycleLocked(mid)
  BY DEF synthesizeCancelationEventsForConnectionLocked
<1>3. QueueInv(mid) /\ Continues(cn, mid)
  BY CancelationsInv DEF ConnInv
<1> HIDE DEF mid, new
<1>4. LET started == startDispatchCycleLocked(mid) IN
      ConnInv(started) /\ Continues(mid, started)
  BY <1>3, StartInv
<1>5. CASE new = cn
  BY <1>1, <1>5, ContinuesSame DEF new
<1>6. CASE new = startDispatchCycleLocked(mid)
  <2>1. ConnTypes(mid) /\ ConnTypes(startDispatchCycleLocked(mid))
    BY <1>3, <1>4 DEF ConnInv, QueueInv
  <2> QED
    BY <1>1, <1>3, <1>4, <1>6, <2>1, ContinuesTwice DEF new
<1> QED
  BY <1>2, <1>5, <1>6

\* So do those for the fallback of a key.
LEMMA CancelFallbackInv ==
    ASSUME NEW cn, ConnInv(cn), cn.status # "NEW", NEW code
    PROVE  LET new == CancelFallback(cn, code) IN
           ConnInv(new) /\ Continues(cn, new)
<1>1. ConnTypes(cn)
  BY DEF ConnInv, QueueInv
<1> QED
  BY <1>1, CancelInv, ContinuesSame DEF CancelFallback

\* What enqueueDispatchEntryLocked puts into the queue, if anything.
LEMMA EnqueueForms ==
    ASSUME NEW cn, ConnTypes(cn), NEW event \in KeyEvents \cup MotionEvents,
           NEW fg \in BOOLEAN, NEW mode
    PROVE  LET new == enqueueDispatchEntryLocked(cn, event, fg, mode) IN
           \/ new = cn
           \/ \E mid, e :
                 /\ SameQueues(cn, mid) /\ e \in KeyEvents \cup MotionEvents
                 /\ e.ev = event.ev /\ new = Enqueued(mid, e, fg)
<1> DEFINE e == [event EXCEPT !.action = ResolvedAction(cn, event, mode)]
<1>1. CASE event \in KeyEvents
  <2>1. event.type = "KEY"
    BY <1>1 DEF KeyEvents
  <2>2. SameQueues(cn, trackKey(cn, event))
    BY <1>1, TrackedKey
  <2> QED
    BY <2>1, <2>2 DEF enqueueDispatchEntryLocked
<1>2. CASE event \in MotionEvents
  <2>1. event.type # "KEY"
    BY <1>2 DEF MotionEvents
  <2>2. ResolvedAction(cn, event, mode)
           \in MotionActions \cup {"OUTSIDE", "HOVER_ENTER", "HOVER_EXIT"}
    <3>1. event.action \in MotionActions \cup {"OUTSIDE", "HOVER_ENTER", "HOVER_EXIT"}
      BY <1>2 DEF MotionEvents
    <3> QED
      BY <3>1 DEF ResolvedAction, MotionActions
  <2>3. e \in MotionEvents /\ e.ev = event.ev
    BY <1>2, <2>2 DEF MotionEvents
  <2>4. SameQueues(cn, trackMotion(cn, e))
    BY <2>3, TrackedMotion
  <2>5. enqueueDispatchEntryLocked(cn, event, fg, mode) =
           IF IsConsistent(cn, e) THEN Enqueued(trackMotion(cn, e), e, fg) ELSE cn
    BY <2>1 DEF enqueueDispatchEntryLocked
  <2> HIDE DEF e
  <2> QED
    BY <2>3, <2>4, <2>5
<1> QED
  BY <1>1, <1>2

\* An event is dispatched to a connection.
LEMMA PrepareInv ==
    ASSUME NEW cn, ConnInv(cn), NEW event \in KeyEvents \cup MotionEvents,
           NEW fg \in BOOLEAN, fg => event.ev \in DOMAIN cn.pending, NEW mode
    PROVE  LET new == prepareDispatchCycleLocked(cn, event, fg, mode) IN
           ConnInv(new) /\ Continues(cn, new)
<1> DEFINE queued == enqueueDispatchEntryLocked(cn, event, fg, mode)
           new == prepareDispatchCycleLocked(cn, event, fg, mode)
<1>0. ConnTypes(cn) /\ QueueInv(cn) /\ Sending(cn)
  BY DEF ConnInv, QueueInv
<1>1. \/ new = cn
      \/ /\ cn.status = "NORMAL"
         /\ new = IF cn.outbound = <<>> /\ queued.outbound # <<>>
                  THEN startDispatchCycleLocked(queued) ELSE queued
  BY DEF prepareDispatchCycleLocked
<1>2. \/ queued = cn
      \/ \E mid, e :
            /\ SameQueues(cn, mid) /\ e \in KeyEvents \cup MotionEvents
            /\ e.ev = event.ev /\ queued = Enqueued(mid, e, fg)
  BY <1>0, EnqueueForms
<1> HIDE DEF new, queued
<1>3. CASE new = cn
  BY <1>0, <1>3, ContinuesSame DEF new
<1>4. ASSUME cn.status = "NORMAL", queued # cn
      PROVE  /\ QueueInv(queued) /\ Continues(cn, queued) /\ queued.outbound # <<>>
             /\ cn.outbound # <<>> => Sending(queued)
  <2>1. PICK mid, e :
           /\ SameQueues(cn, mid) /\ e \in KeyEvents \cup MotionEvents
           /\ e.ev = event.ev /\ queued = Enqueued(mid, e, fg)
    BY <1>2, <1>4
  <2>2. /\ QueueInv(mid) /\ Continues(cn, mid) /\ Sending(mid)
        /\ mid.outbound = cn.outbound /\ mid.status = cn.status
        /\ mid.pending = cn.pending
    BY <1>0, <2>1, SameQueuesInv
  <2>3. /\ QueueInv(queued) /\ Continues(mid, queued) /\ queued.outbound # <<>>
        /\ Sending(mid) /\ mid.outbound # <<>> => Sending(queued)
    <3>1. mid.status # "NEW" /\ (fg => e.ev \in DOMAIN mid.pending)
      BY <1>4, <2>1, <2>2
    <3> QED
      BY <2>1, <2>2, <3>1, EnqueuedInv
  <2>4. Continues(cn, queued)
    <3>1. ConnTypes(mid) /\ ConnTypes(queued)
      BY <2>2, <2>3 DEF QueueInv
    <3> QED
      BY <1>0, <2>2, <2>3, <3>1, ContinuesTwice
  <2> QED
    BY <2>2, <2>3, <2>4
<1>5. ASSUME cn.status = "NORMAL", cn.outbound = <<>>, queued.outbound # <<>>
      PROVE  LET started == startDispatchCycleLocked(queued) IN
             ConnInv(started) /\ Continues(cn, started)
  <2>1. QueueInv(queued) /\ Continues(cn, queued)
    BY <1>4, <1>5
  <2>2. LET started == startDispatchCycleLocked(queued) IN
        ConnInv(started) /\ Continues(queued, started)
    BY <2>1, StartInv
  <2> QED
    BY <1>0, <2>1, <2>2, ContinuesTwice DEF ConnInv, QueueInv
<1>6. ASSUME cn.status = "NORMAL", ~(cn.outbound = <<>> /\ queued.outbound # <<>>)
      PROVE  ConnInv(queued) /\ Continues(cn, queued)
  <2>1. CASE queued = cn
    BY <1>0, <2>1, ContinuesSame
  <2>2. CASE queued # cn
    BY <1>4, <1>6, <2>2 DEF ConnInv
  <2> QED
    BY <2>1, <2>2
<1> QED
  BY <1>1, <1>3, <1>5, <1>6 DEF new

-----------------------------------------------------------------------------
(* Answers *)

\* What a queue's entry must agree on with the entry of an answer.
Matches(cn, e) ==
    /\ e.seq < cn.nextSeq /\ e.seq \notin Held(cn)
    /\ \A w \in Range(cn.wait) : w.seq = e.seq => w.fg = e.fg /\ w.ev = e.ev

\* The wait queue without the entry that was answered.
LEMMA AnsweredQueue ==
    ASSUME NEW cn, QueueInv(cn), NEW e \in Entries, Matches(cn, e),
           InWait(cn, e.seq)
    PROVE  LET r == RemoveAt(cn.wait, waitQueueIndex(cn, e.seq)) IN
           /\ r \in Seq(Entries) /\ NoRepeats(r)
           /\ SeqsOf(r) = SeqsOf(cn.wait) \ {e.seq} /\ e.seq \in SeqsOf(cn.wait)
           /\ \E w \in Range(cn.wait) :
                 /\ w.seq = e.seq /\ w.fg = e.fg /\ w.ev = e.ev
                 /\ Range(r) = Range(cn.wait) \ {w}
<1> DEFINE i == waitQueueIndex(cn, e.seq)
<1>1. i \in DOMAIN cn.wait /\ cn.wait[i].seq = e.seq
  BY DEF InWait, waitQueueIndex
<1> HIDE DEF i
<1>2. cn.wait \in Seq(Entries) /\ NoRepeats(cn.wait)
  BY DEF QueueInv, ConnTypes, Distinct
<1>3. LET r == RemoveAt(cn.wait, i) IN
      /\ r \in Seq(Entries) /\ NoRepeats(r)
      /\ Range(r) = Range(cn.wait) \ {cn.wait[i]}
      /\ SeqsOf(r) = SeqsOf(cn.wait) \ {cn.wait[i].seq}
  BY <1>1, <1>2, QueueWithout
<1>4. cn.wait[i] \in Range(cn.wait)
  BY <1>1 DEF Range
<1>5. e.seq \in SeqsOf(cn.wait)
  BY <1>1, <1>4 DEF SeqsOf
<1>6. cn.wait[i].fg = e.fg /\ cn.wait[i].ev = e.ev
  BY <1>1, <1>4 DEF Matches
<1> QED
  BY <1>1, <1>3, <1>4, <1>5, <1>6 DEF i

\* What an entry changes that leaves the wait queue, to be sent again or to be
\* released.
LEMMA AnsweredInv ==
    ASSUME NEW cn, QueueInv(cn), NEW e \in Entries, Matches(cn, e),
           InWait(cn, e.seq), NEW restart \in BOOLEAN,
           NEW new, IsConnection(new),
           new.wait = RemoveAt(cn.wait, waitQueueIndex(cn, e.seq)),
           new.outbound = IF restart THEN <<e>> \o cn.outbound ELSE cn.outbound,
           new.pending = IF ~restart /\ e.fg
                         THEN [cn.pending EXCEPT ![e.ev] = @ - 1] ELSE cn.pending,
           new.status = cn.status, new.registered = cn.registered,
           new.blocked = cn.blocked, new.keyMementos = cn.keyMementos,
           new.motionMementos = cn.motionMementos, new.nextSeq = cn.nextSeq,
           new.unread = cn.unread, new.reading = cn.reading,
           new.signals = cn.signals, new.open = cn.open
    PROVE  QueueInv(new) /\ NumbersKept(cn, new, {e.seq})
<1>0. ConnTypes(cn)
  BY DEF QueueInv
<1>1. /\ cn.outbound \in Seq(Entries) /\ cn.wait \in Seq(Entries)
      /\ cn.nextSeq \in Nat
      /\ cn.pending = [ev \in DOMAIN cn.pending |-> cn.pending[ev]]
  BY <1>0 DEF ConnTypes
<1>2. PICK w \in Range(cn.wait) :
         /\ w.seq = e.seq /\ w.fg = e.fg /\ w.ev = e.ev
         /\ Range(new.wait) = Range(cn.wait) \ {w}
  <2> DEFINE r == RemoveAt(cn.wait, waitQueueIndex(cn, e.seq))
  <2>1. \E w \in Range(cn.wait) :
           /\ w.seq = e.seq /\ w.fg = e.fg /\ w.ev = e.ev
           /\ Range(r) = Range(cn.wait) \ {w}
    BY AnsweredQueue
  <2>2. new.wait = r
    OBVIOUS
  <2> HIDE DEF r
  <2> QED
    BY <2>1, <2>2
<1>3. /\ new.wait \in Seq(Entries) /\ NoRepeats(new.wait)
      /\ SeqsOf(new.wait) = SeqsOf(cn.wait) \ {e.seq} /\ e.seq \in SeqsOf(cn.wait)
  <2> DEFINE r == RemoveAt(cn.wait, waitQueueIndex(cn, e.seq))
  <2>1. /\ r \in Seq(Entries) /\ NoRepeats(r)
        /\ SeqsOf(r) = SeqsOf(cn.wait) \ {e.seq} /\ e.seq \in SeqsOf(cn.wait)
    BY AnsweredQueue
  <2>2. new.wait = r
    OBVIOUS
  <2> HIDE DEF r
  <2> QED
    BY <2>1, <2>2
<1>4. e.seq \notin Held(cn) /\ e.seq < cn.nextSeq
  BY DEF Matches
<1> DEFINE sent == IF restart THEN {e} ELSE {}
           numbers == IF restart THEN {e.seq} ELSE {}
<1>5. /\ new.outbound \in Seq(Entries) /\ NoRepeats(new.outbound)
      /\ Range(new.outbound) = Range(cn.outbound) \cup sent
      /\ SeqsOf(new.outbound) = SeqsOf(cn.outbound) \cup numbers
  <2>1. NoRepeats(cn.outbound)
    BY DEF QueueInv, Distinct
  <2>2. CASE restart
    <3> DEFINE q == <<e>>
    <3>1. /\ q \in Seq(Entries) /\ DOMAIN q = {1} /\ q[1] = e
      OBVIOUS
    <3> HIDE DEF q
    <3>2. NoRepeats(q) /\ Range(q) = {e} /\ SeqsOf(q) = {e.seq}
      BY <3>1 DEF NoRepeats, Range, SeqsOf
    <3>3. SeqsOf(q) \cap SeqsOf(cn.outbound) = {}
      BY <1>4, <3>2 DEF Held
    <3>4. new.outbound = q \o cn.outbound
      BY <2>2 DEF q
    <3>5. /\ new.outbound \in Seq(Entries) /\ NoRepeats(new.outbound)
          /\ Range(new.outbound) = Range(q) \cup Range(cn.outbound)
          /\ SeqsOf(new.outbound) = SeqsOf(q) \cup SeqsOf(cn.outbound)
      <4>1. /\ q \o cn.outbound \in Seq(Entries)
            /\ Range(q \o cn.outbound) = Range(q) \cup Range(cn.outbound)
            /\ SeqsOf(q \o cn.outbound) = SeqsOf(q) \cup SeqsOf(cn.outbound)
            /\ NoRepeats(q \o cn.outbound)
        BY <1>1, <2>1, <3>1, <3>2, <3>3, ConcatQueues
      <4> QED
        BY <3>4, <4>1
    <3> QED
      BY <2>2, <3>2, <3>5
  <2>3. CASE ~restart
    BY <1>1, <2>1, <2>3
  <2> QED
    BY <2>2, <2>3
<1>6. numbers \subseteq {e.seq} /\ sent \subseteq {e}
  OBVIOUS
<1>7. Held(new) = Held(cn) \cup numbers
  BY <1>5 DEF Held, Unread
<1>8. ConnTypes(new)
  <2>1. new.pending = [ev \in DOMAIN new.pending |-> new.pending[ev]]
    BY <1>1
  <2> QED
    BY <1>0, <1>3, <1>5, <2>1 DEF ConnTypes, IsConnection
<1>9. Distinct(new)
  BY <1>3, <1>5 DEF QueueInv, Distinct
<1> HIDE DEF numbers, sent
<1>10. Apart(new)
  <2>1. /\ SeqsOf(cn.outbound) \cap SeqsOf(cn.wait) = {}
        /\ SeqsOf(cn.outbound) \cap (Unread(cn) \cup cn.reading \cup SeqsOf(cn.signals)) = {}
        /\ Unread(cn) \cap (cn.reading \cup SeqsOf(cn.signals)) = {}
        /\ cn.reading \cap SeqsOf(cn.signals) = {}
    BY DEF QueueInv, Apart
  <2>2. e.seq \notin Unread(cn) \cup cn.reading \cup SeqsOf(cn.signals)
    BY <1>4 DEF Held
  <2>3. Unread(new) = Unread(cn)
    BY DEF Unread
  <2> QED
    BY <1>3, <1>5, <1>6, <2>1, <2>2, <2>3 DEF Apart
<1>11. Numbered(new)
  BY <1>3, <1>4, <1>6, <1>7 DEF QueueInv, Numbered
<1>12. Alive(new)
  <2>1. cn.wait # <<>>
    BY <1>2 DEF Range
  <2> QED
    BY <2>1 DEF QueueInv, Alive
<1>13. UnreadOwed(new)
  <2>1. Unread(new) = Unread(cn) /\ e.seq \notin Unread(cn)
    BY <1>4 DEF Unread, Held
  <2> QED
    BY <1>3, <2>1 DEF QueueInv, UnreadOwed
<1>14. DOMAIN new.pending = DOMAIN cn.pending
  BY <1>1
<1>15. NumbersKept(cn, new, {e.seq})
  BY <1>1, <1>6, <1>7, <1>14 DEF NumbersKept
<1>16. Counted(new)
  <2>1. e.fg => e.ev \in DOMAIN cn.pending
    BY <1>2 DEF QueueInv, Counted
  <2>2. \A x \in Range(new.outbound) \cup Range(new.wait) :
           x.fg => x.ev \in DOMAIN new.pending
    BY <1>2, <1>5, <1>6, <1>14, <2>1 DEF QueueInv, Counted
  <2>3. \A x \in Range(cn.outbound) \cup (Range(cn.wait) \ {w}) : x.seq # e.seq
    <3>1. e.seq \notin SeqsOf(cn.outbound) /\ e.seq \notin SeqsOf(new.wait)
      BY <1>3, <1>4 DEF Held
    <3> QED
      BY <1>2, <3>1 DEF SeqsOf
  <2>4. ASSUME NEW ev \in DOMAIN cn.pending
        PROVE  new.pending[ev] = Cardinality(ForegroundSeqs(new, ev))
    <3>1. /\ IsFiniteSet(ForegroundSeqs(cn, ev))
          /\ Cardinality(ForegroundSeqs(cn, ev)) \in Nat
      BY <1>1, ForegroundCount DEF QueueInv, Distinct, Apart
    <3>2. cn.pending[ev] = Cardinality(ForegroundSeqs(cn, ev))
      BY DEF QueueInv, Counted
    <3>3. CASE restart
      <4>1. sent = {e}
        BY <3>3 DEF sent
      <4>2. ForegroundSeqs(new, ev) = ForegroundSeqs(cn, ev)
        BY <1>2, <1>5, <4>1 DEF ForegroundSeqs
      <4> QED
        BY <3>2, <3>3, <4>2
    <3>4. CASE ~restart
      <4>1. Range(new.outbound) = Range(cn.outbound)
        BY <1>5, <3>4 DEF sent
      <4>2. CASE e.fg /\ e.ev = ev
        <5>1. ForegroundSeqs(new, ev) = ForegroundSeqs(cn, ev) \ {e.seq}
          BY <1>2, <2>3, <4>1 DEF ForegroundSeqs
        <5>2. e.seq \in ForegroundSeqs(cn, ev)
          BY <1>2, <4>2 DEF ForegroundSeqs
        <5>3. Cardinality(ForegroundSeqs(new, ev)) = Cardinality(ForegroundSeqs(cn, ev)) - 1
          BY <3>1, <5>1, <5>2, FS_RemoveElement
        <5>4. new.pending[ev] = cn.pending[ev] - 1
          BY <3>4, <4>2
        <5> QED
          BY <3>2, <5>3, <5>4
      <4>3. CASE ~(e.fg /\ e.ev = ev)
        <5>1. ForegroundSeqs(new, ev) = ForegroundSeqs(cn, ev)
          BY <1>2, <4>1, <4>3 DEF ForegroundSeqs
        <5>2. new.pending[ev] = cn.pending[ev]
          BY <3>4, <4>3
        <5> QED
          BY <3>2, <5>1, <5>2
      <4> QED
        BY <4>2, <4>3
    <3> QED
      BY <3>3, <3>4
  <2> QED
    BY <1>14, <2>2, <2>4 DEF Counted
<1> QED
  BY <1>8, <1>9, <1>10, <1>11, <1>12, <1>13, <1>15, <1>16 DEF QueueInv

\* Numbers come back at either of two steps.
LEMMA KeptTwice ==
    ASSUME NEW a, NEW b, NEW c, ConnTypes(a), ConnTypes(b), ConnTypes(c), NEW S, NEW T,
           NumbersKept(a, b, S), NumbersKept(b, c, T)
    PROVE  NumbersKept(a, c, S \cup T)
<1>1. /\ a.nextSeq \in Nat /\ b.nextSeq \in Nat /\ c.nextSeq \in Nat
      /\ a.nextSeq <= b.nextSeq /\ b.nextSeq <= c.nextSeq
  BY DEF ConnTypes, NumbersKept
<1>2. \A s \in Nat : s >= b.nextSeq => s >= a.nextSeq
  BY <1>1
<1>3. ASSUME NEW s \in Held(c)
      PROVE  s \in Held(a) \cup (S \cup T) \/ s >= a.nextSeq
  <2>1. s \in Nat
    BY SeqTypes
  <2>2. s \in Held(b) \cup T \/ s >= b.nextSeq
    BY DEF NumbersKept
  <2> QED
    BY <1>2, <2>1, <2>2 DEF NumbersKept
<1>4. a.nextSeq <= c.nextSeq
  BY <1>1
<1> QED
  BY <1>3, <1>4 DEF NumbersKept

\* The end of a dispatch cycle: the answered entry leaves the wait queue, and the
\* next entries are published.
LEMMA FinishedInv ==
    ASSUME NEW cn, QueueInv(cn), NEW e \in Entries, Matches(cn, e),
           NEW restart \in BOOLEAN
    PROVE  LET new == Finished(cn, e, restart) IN
           ConnInv(new) /\ NumbersKept(cn, new, {e.seq})
<1> DEFINE again == restart /\ cn.status = "NORMAL"
           rest == [cn EXCEPT !.wait = RemoveAt(@, waitQueueIndex(cn, e.seq))]
           done == IF again THEN [rest EXCEPT !.outbound = <<e>> \o @]
                   ELSE Release(rest, e)
           mid == IF InWait(cn, e.seq) THEN done ELSE cn
           new == Finished(cn, e, restart)
<1>0. ConnTypes(cn) /\ cn = [f \in Fields |-> cn[f]]
  BY DEF QueueInv, ConnTypes
<1>1. new = startDispatchCycleLocked(mid)
  BY DEF Finished
<1> HIDE DEF new
<1>2. QueueInv(mid) /\ NumbersKept(cn, mid, {e.seq})
  <2>1. CASE ~InWait(cn, e.seq)
    <3>1. mid = cn
      BY <2>1
    <3>2. NumbersKept(cn, cn, {e.seq})
      BY <1>0 DEF NumbersKept, ConnTypes
    <3> QED
      BY <3>1, <3>2
  <2>2. CASE InWait(cn, e.seq)
    <3>1. mid = done
      BY <2>2
    <3>2. again \in BOOLEAN /\ e.fg \in BOOLEAN
      BY DEF Entries
    <3>3. /\ rest = [f \in Fields |-> rest[f]]
          /\ rest.wait = RemoveAt(cn.wait, waitQueueIndex(cn, e.seq))
          /\ \A f \in Fields \ {"wait"} : rest[f] = cn[f]
      BY <1>0 DEF Fields
    <3> HIDE DEF rest
    <3>4. /\ done = [f \in Fields |-> done[f]]
          /\ done.outbound = IF again THEN <<e>> \o rest.outbound ELSE rest.outbound
          /\ done.pending = IF ~again /\ e.fg
                            THEN [rest.pending EXCEPT ![e.ev] = @ - 1] ELSE rest.pending
          /\ \A f \in Fields \ {"outbound", "pending"} : done[f] = rest[f]
      <4>1. CASE again
        <5>1. done = [rest EXCEPT !.outbound = <<e>> \o @]
          BY <4>1
        <5> HIDE DEF done
        <5> QED
          BY <3>3, <4>1, <5>1 DEF Fields
      <4>2. CASE ~again /\ e.fg
        <5>1. done = [rest EXCEPT !.pending[e.ev] = @ - 1]
          BY <4>2 DEF Release
        <5> HIDE DEF done
        <5> QED
          BY <3>3, <4>2, <5>1 DEF Fields
      <4>3. CASE ~again /\ ~e.fg
        <5>1. done = rest
          BY <4>3 DEF Release
        <5> HIDE DEF done
        <5> QED
          BY <3>3, <4>3, <5>1 DEF Fields
      <4> QED
        BY <3>2, <4>1, <4>2, <4>3
    <3> HIDE DEF done, again
    <3>5. /\ done.wait = RemoveAt(cn.wait, waitQueueIndex(cn, e.seq))
          /\ done.outbound = IF again THEN <<e>> \o cn.outbound ELSE cn.outbound
          /\ done.pending = IF ~again /\ e.fg
                            THEN [cn.pending EXCEPT ![e.ev] = @ - 1] ELSE cn.pending
          /\ done.status = cn.status /\ done.registered = cn.registered
          /\ done.blocked = cn.blocked /\ done.keyMementos = cn.keyMementos
          /\ done.motionMementos = cn.motionMementos /\ done.nextSeq = cn.nextSeq
          /\ done.unread = cn.unread /\ done.reading = cn.reading
          /\ done.signals = cn.signals /\ done.open = cn.open
      BY <3>3, <3>4 DEF Fields
    <3>6. IsConnection(done)
      BY <3>4 DEF IsConnection
    <3>7. QueueInv(done) /\ NumbersKept(cn, done, {e.seq})
      BY <2>2, <3>2, <3>5, <3>6, AnsweredInv
    <3> QED
      BY <3>1, <3>7
  <2> QED
    BY <2>1, <2>2
<1> HIDE DEF mid
<1>3. LET started == startDispatchCycleLocked(mid) IN
      ConnInv(started) /\ Continues(mid, started)
  BY <1>2, StartInv
<1>4. ConnInv(new) /\ NumbersKept(mid, new, {})
  BY <1>1, <1>3 DEF Continues
<1>5. ConnTypes(mid) /\ ConnTypes(new)
  BY <1>2, <1>4 DEF ConnInv, QueueInv
<1> HIDE DEF mid
<1>6. NumbersKept(cn, new, {e.seq})
  <2>1. NumbersKept(cn, new, {e.seq} \cup {})
    BY <1>0, <1>2, <1>4, <1>5, KeptTwice
  <2>2. {e.seq} \cup {} = {e.seq}
    OBVIOUS
  <2> QED
    BY <2>1, <2>2
<1> QED
  BY <1>4, <1>6 DEF new

\* The entries of an event in a queue, when the key becomes its fallback.
Renamed(q, ev, code) ==
    [i \in DOMAIN q |->
        IF q[i].ev = ev THEN [q[i] EXCEPT !.code = code, !.flagged = TRUE] ELSE q[i]]

\* What a queue keeps when a key becomes its fallback.
LEMMA RenamedQueue ==
    ASSUME NEW q \in Seq(Entries), NEW ev, NEW code \in Codes
    PROVE  LET r == Renamed(q, ev, code) IN
           /\ r \in Seq(Entries) /\ DOMAIN r = DOMAIN q /\ (r = <<>> <=> q = <<>>)
           /\ \A i \in DOMAIN q :
                 r[i].seq = q[i].seq /\ r[i].fg = q[i].fg /\ r[i].ev = q[i].ev
<1> DEFINE r == Renamed(q, ev, code)
<1>1. ASSUME NEW e \in Entries
      PROVE  LET x == [e EXCEPT !.code = code, !.flagged = TRUE] IN
             x \in Entries /\ x.seq = e.seq /\ x.fg = e.fg /\ x.ev = e.ev
  BY DEF Entries
<1>2. DOMAIN q = 1 .. Len(q) /\ Len(q) \in Nat /\ \A i \in DOMAIN q : q[i] \in Entries
  OBVIOUS
<1>3. \A i \in DOMAIN q :
         /\ r[i] \in Entries
         /\ r[i].seq = q[i].seq /\ r[i].fg = q[i].fg /\ r[i].ev = q[i].ev
  BY <1>1, <1>2 DEF Renamed
<1>4. r \in [1 .. Len(q) -> Entries] /\ DOMAIN r = DOMAIN q
  <2>1. r = [i \in DOMAIN q |-> r[i]]
    BY DEF Renamed
  <2> HIDE DEF r
  <2> QED
    BY <1>2, <1>3, <2>1
<1> HIDE DEF r
<1>5. r \in Seq(Entries) /\ Len(r) = Len(q)
  BY <1>2, <1>4, SequenceMade
<1>6. r = <<>> <=> q = <<>>
  BY <1>2, <1>5
<1> QED
  BY <1>3, <1>4, <1>5, <1>6 DEF r

ForegroundAt(q, ev) == {i \in DOMAIN q : q[i].fg /\ q[i].ev = ev}
NumbersOf(q, places) == {q[i].seq : i \in places}

\* The numbers of foreground entries, by their places.
LEMMA ForegroundNumbers ==
    ASSUME NEW cn, NEW ev
    PROVE  ForegroundSeqs(cn, ev) = NumbersOf(cn.outbound, ForegroundAt(cn.outbound, ev))
                                    \cup NumbersOf(cn.wait, ForegroundAt(cn.wait, ev))
<1>1. ASSUME NEW q
      PROVE  {e.seq : e \in {x \in Range(q) : x.fg /\ x.ev = ev}}
                = NumbersOf(q, ForegroundAt(q, ev))
  BY DEF NumbersOf, ForegroundAt, Range
<1>2. ForegroundSeqs(cn, ev)
         = {e.seq : e \in {x \in Range(cn.outbound) : x.fg /\ x.ev = ev}}
           \cup {e.seq : e \in {x \in Range(cn.wait) : x.fg /\ x.ev = ev}}
  BY DEF ForegroundSeqs
<1> QED
  BY <1>1, <1>2

\* A key becomes its fallback in the queues of one connection.
LEMMA RenamedInv ==
    ASSUME NEW cn, QueueInv(cn), NEW ev, NEW code \in Codes
    PROVE  LET new == [cn EXCEPT !.outbound = Renamed(@, ev, code),
                                 !.wait = Renamed(@, ev, code)]
           IN  /\ QueueInv(new) /\ NumbersKept(cn, new, {})
               /\ Sending(cn) => Sending(new)
               /\ new.status = cn.status
               /\ \A e \in Entries : Matches(cn, e) => Matches(new, e)
<1> DEFINE new == [cn EXCEPT !.outbound = Renamed(@, ev, code),
                             !.wait = Renamed(@, ev, code)]
           out == Renamed(cn.outbound, ev, code)
           wait == Renamed(cn.wait, ev, code)
<1>0. ConnTypes(cn) /\ cn = [f \in Fields |-> cn[f]]
  BY DEF QueueInv, ConnTypes
<1>1. cn.outbound \in Seq(Entries) /\ cn.wait \in Seq(Entries) /\ cn.nextSeq \in Nat
  BY <1>0 DEF ConnTypes
<1>2. /\ out \in Seq(Entries) /\ DOMAIN out = DOMAIN cn.outbound
      /\ out = <<>> <=> cn.outbound = <<>>
      /\ \A i \in DOMAIN out : /\ out[i].seq = cn.outbound[i].seq
                               /\ out[i].fg = cn.outbound[i].fg
                               /\ out[i].ev = cn.outbound[i].ev
  BY <1>1, RenamedQueue
<1>3. /\ wait \in Seq(Entries) /\ DOMAIN wait = DOMAIN cn.wait
      /\ wait = <<>> <=> cn.wait = <<>>
      /\ \A i \in DOMAIN wait : /\ wait[i].seq = cn.wait[i].seq
                                /\ wait[i].fg = cn.wait[i].fg
                                /\ wait[i].ev = cn.wait[i].ev
  BY <1>1, RenamedQueue
<1> HIDE DEF out, wait
<1>4. /\ new = [f \in Fields |-> new[f]]
      /\ new.outbound = out /\ new.wait = wait
      /\ \A f \in Fields \ {"outbound", "wait"} : new[f] = cn[f]
  BY <1>0 DEF Fields, out, wait
<1> HIDE DEF new
<1>5. /\ new.outbound = out /\ new.wait = wait
      /\ new.status = cn.status /\ new.registered = cn.registered
      /\ new.blocked = cn.blocked /\ new.keyMementos = cn.keyMementos
      /\ new.motionMementos = cn.motionMementos /\ new.nextSeq = cn.nextSeq
      /\ new.pending = cn.pending /\ new.unread = cn.unread
      /\ new.reading = cn.reading /\ new.signals = cn.signals /\ new.open = cn.open
  BY <1>4 DEF Fields
<1>6. IsConnection(new)
  BY <1>4 DEF IsConnection
<1>7. ConnTypes(new)
  BY <1>0, <1>2, <1>3, <1>5, <1>6 DEF ConnTypes, IsConnection
<1>8. /\ SeqsOf(new.outbound) = SeqsOf(cn.outbound)
      /\ SeqsOf(new.wait) = SeqsOf(cn.wait)
  <2>1. \A q : SeqsOf(q) = {q[i].seq : i \in DOMAIN q}
    BY DEF SeqsOf, Range
  <2>2. /\ {out[i].seq : i \in DOMAIN out}
              = {cn.outbound[i].seq : i \in DOMAIN cn.outbound}
        /\ {wait[i].seq : i \in DOMAIN wait} = {cn.wait[i].seq : i \in DOMAIN cn.wait}
    BY <1>2, <1>3
  <2> QED
    BY <1>5, <2>1, <2>2
<1>9. Held(new) = Held(cn) /\ Unread(new) = Unread(cn)
  BY <1>5, <1>8 DEF Held, Unread
<1>10. Distinct(new)
  <2>1. NoRepeats(out) /\ NoRepeats(wait)
    BY <1>2, <1>3 DEF QueueInv, Distinct, NoRepeats
  <2> QED
    BY <1>5, <2>1 DEF QueueInv, Distinct
<1>11. Apart(new) /\ Numbered(new)
  BY <1>5, <1>8, <1>9 DEF QueueInv, Apart, Numbered, Unread
<1>12. Counted(new)
  <2>1. \A x : ForegroundSeqs(new, x) = ForegroundSeqs(cn, x)
    <3>1. \A x : /\ ForegroundAt(out, x) = ForegroundAt(cn.outbound, x)
                 /\ ForegroundAt(wait, x) = ForegroundAt(cn.wait, x)
                 /\ ForegroundAt(out, x) \subseteq DOMAIN out
                 /\ ForegroundAt(wait, x) \subseteq DOMAIN wait
      BY <1>2, <1>3 DEF ForegroundAt
    <3>2. ASSUME NEW x
          PROVE  /\ NumbersOf(out, ForegroundAt(out, x))
                       = NumbersOf(cn.outbound, ForegroundAt(out, x))
                 /\ NumbersOf(wait, ForegroundAt(wait, x))
                       = NumbersOf(cn.wait, ForegroundAt(wait, x))
      <4>1. /\ \A i \in ForegroundAt(out, x) : out[i].seq = cn.outbound[i].seq
            /\ \A i \in ForegroundAt(wait, x) : wait[i].seq = cn.wait[i].seq
        BY <1>2, <1>3, <3>1
      <4> QED
        BY <4>1 DEF NumbersOf
    <3>3. \A x : /\ ForegroundSeqs(new, x)
                       = NumbersOf(out, ForegroundAt(out, x))
                         \cup NumbersOf(wait, ForegroundAt(wait, x))
                 /\ ForegroundSeqs(cn, x)
                       = NumbersOf(cn.outbound, ForegroundAt(cn.outbound, x))
                         \cup NumbersOf(cn.wait, ForegroundAt(cn.wait, x))
      BY <1>5, ForegroundNumbers
    <3> QED
      BY <3>1, <3>2, <3>3
  <2>2. \A e \in Range(new.outbound) \cup Range(new.wait) :
           e.fg => e.ev \in DOMAIN cn.pending
    BY <1>2, <1>3, <1>5 DEF QueueInv, Counted, Range
  <2> QED
    BY <1>5, <2>1, <2>2 DEF QueueInv, Counted
<1>13. Alive(new) /\ UnreadOwed(new) /\ (Sending(cn) => Sending(new))
  BY <1>2, <1>3, <1>5, <1>8, <1>9 DEF QueueInv, Alive, UnreadOwed, Sending
<1>14. NumbersKept(cn, new, {})
  BY <1>1, <1>5, <1>9 DEF NumbersKept
<1>15. \A e \in Entries : Matches(cn, e) => Matches(new, e)
  <2> SUFFICES ASSUME NEW e \in Entries, Matches(cn, e)
               PROVE  Matches(new, e)
    OBVIOUS
  <2>1. \A w \in Range(new.wait) : w.seq = e.seq => w.fg = e.fg /\ w.ev = e.ev
    BY <1>3, <1>5 DEF Matches, Range
  <2> QED
    BY <1>5, <1>9, <2>1 DEF Matches
<1> QED
  BY <1>5, <1>7, <1>10, <1>11, <1>12, <1>13, <1>14, <1>15 DEF QueueInv, new

-----------------------------------------------------------------------------
(* The command queue *)

FinishedIn(q) == {i \in DOMAIN q : q[i].type = "finished"}

\* Notifications are put behind the commands there are.
LEMMA BrokenAdded ==
    ASSUME NEW q \in Seq(Commands), NEW broke \in SUBSET Conns
    PROVE  LET r == q \o NotifyBroken(broke) IN
           /\ r \in Seq(Commands) /\ NotifyBroken(broke) \in Seq(Commands)
           /\ FinishedIn(NotifyBroken(broke)) = {}
           /\ FinishedIn(r) \subseteq DOMAIN q /\ \A i \in FinishedIn(r) : r[i] = q[i]
<1> DEFINE b == NotifyBroken(broke)
           r == q \o b
<1>1. /\ Cardinality(broke) \in Nat
      /\ SetToSeq(broke) \in [1 .. Cardinality(broke) -> broke]
  BY CycleConstants, FS_Subset, SetInOrder
<1>2. b \in [1 .. Cardinality(broke) -> [type : {"broken"}, conn : Conns]]
  <2>1. \A c \in broke : [type |-> "broken", conn |-> c] \in [type : {"broken"}, conn : Conns]
    OBVIOUS
  <2>2. \A i \in 1 .. Cardinality(broke) :
           [type |-> "broken", conn |-> SetToSeq(broke)[i]] \in [type : {"broken"}, conn : Conns]
    BY <1>1, <2>1
  <2>3. b = [i \in 1 .. Cardinality(broke) |->
               [type |-> "broken", conn |-> SetToSeq(broke)[i]]]
    BY DEF NotifyBroken
  <2> HIDE DEF b
  <2> QED
    BY <2>2, <2>3
<1> HIDE DEF b
<1>3. b \in Seq([type : {"broken"}, conn : Conns]) /\ DOMAIN b = 1 .. Cardinality(broke)
  BY <1>1, <1>2, SequenceMade
<1>4. /\ b \in Seq(Commands) /\ DOMAIN b = 1 .. Len(b) /\ Len(b) \in Nat
      /\ \A i \in DOMAIN b : b[i].type = "broken"
  <2>1. \A i \in DOMAIN b : b[i] \in [type : {"broken"}, conn : Conns]
    BY <1>2
  <2>2. \A x \in [type : {"broken"}, conn : Conns] : x.type = "broken" /\ x \in Commands
    BY DEF Commands
  <2>3. b \in [1 .. Cardinality(broke) -> Commands]
    BY <1>2, <2>2
  <2>4. b \in Seq(Commands) /\ Len(b) = Cardinality(broke)
    BY <1>1, <2>3, SequenceMade
  <2> QED
    BY <1>1, <1>3, <2>1, <2>2, <2>4
<1>5. /\ r \in Seq(Commands)
      /\ \A i \in DOMAIN r : r[i] = IF i <= Len(q) THEN q[i] ELSE b[i - Len(q)]
      /\ DOMAIN r = 1 .. (Len(q) + Len(b))
  BY <1>4
<1>6. DOMAIN q = 1 .. Len(q) /\ Len(q) \in Nat
  OBVIOUS
<1> HIDE DEF r
<1>7. ASSUME NEW i \in FinishedIn(r)
      PROVE  i \in DOMAIN q /\ r[i] = q[i]
  <2>1. i \in DOMAIN r /\ r[i].type = "finished"
    BY DEF FinishedIn
  <2>2. CASE i <= Len(q)
    BY <1>4, <1>5, <1>6, <2>1, <2>2
  <2>3. CASE i > Len(q)
    <3>1. i - Len(q) \in DOMAIN b /\ r[i] = b[i - Len(q)]
      BY <1>4, <1>5, <1>6, <2>1, <2>3
    <3> QED
      BY <1>4, <2>1, <3>1
  <2> QED
    BY <1>4, <1>5, <1>6, <2>1, <2>2, <2>3
<1>8. FinishedIn(b) = {}
  BY <1>4 DEF FinishedIn
<1> QED
  BY <1>4, <1>5, <1>7, <1>8 DEF b, r

\* Answers in the command queue after a step that takes k commands off its front,
\* and gives back no number of the rest.
LEMMA CommandsKept ==
    ASSUME CycleInv, NEW k \in Nat, NEW back,
           conn' = [c \in Conns |-> conn'[c]],
           \A c \in Conns : /\ ConnTypes(conn'[c])
                            /\ NumbersKept(conn[c], conn'[c], back[c]),
           commands' \in Seq(Commands),
           \A i \in FinishedIn(commands') :
              i + k \in DOMAIN commands /\ commands'[i] = commands[i + k],
           \A i \in FinishedIn(commands) :
              i > k => commands[i].seq \notin back[commands[i].conn]
    PROVE  CommandsApart'
<1>1. /\ \A c \in Conns : ConnTypes(conn[c])
      /\ commands \in Seq(Commands)
  BY DEF CycleInv, CycleTypes, ConnInv, QueueInv
<1>2. DOMAIN commands = 1 .. Len(commands) /\ DOMAIN commands' = 1 .. Len(commands')
  BY <1>1
<1>3. ASSUME NEW i \in DOMAIN commands', IsFinished(i)'
      PROVE  /\ i + k \in DOMAIN commands /\ IsFinished(i + k)
             /\ commands'[i] = commands[i + k] /\ i + k > k
             /\ commands'[i].conn \in Conns /\ commands'[i].seq \in Nat
  <2>1. i \in FinishedIn(commands')
    BY <1>3 DEF IsFinished, FinishedIn
  <2>2. i + k \in DOMAIN commands /\ commands'[i] = commands[i + k]
    BY <2>1
  <2>3. i + k > k
    BY <1>2
  <2>4. commands[i + k] \in Commands /\ commands[i + k].type = "finished"
    BY <1>1, <1>3, <2>2 DEF IsFinished
  <2> QED
    BY <2>2, <2>3, <2>4 DEF IsFinished, Commands
<1>4. ASSUME NEW i \in DOMAIN commands', IsFinished(i)'
      PROVE  /\ commands'[i].seq < conn'[commands'[i].conn].nextSeq
             /\ commands'[i].seq \notin Held(conn'[commands'[i].conn])
  <2> DEFINE c == commands'[i].conn
             s == commands'[i].seq
  <2>1. /\ i + k \in DOMAIN commands /\ IsFinished(i + k)
        /\ commands'[i] = commands[i + k] /\ i + k > k /\ c \in Conns /\ s \in Nat
    BY <1>3, <1>4
  <2>2. s < conn[c].nextSeq /\ s \notin Held(conn[c])
    BY <2>1 DEF CycleInv, CommandsApart
  <2>3. s \notin back[c]
    BY <2>1 DEF IsFinished, FinishedIn
  <2> HIDE DEF c, s
  <2>4. NumbersKept(conn[c], conn'[c], back[c]) /\ ConnTypes(conn[c]) /\ ConnTypes(conn'[c])
    BY <1>1, <2>1
  <2>5. /\ conn[c].nextSeq \in Nat /\ conn'[c].nextSeq \in Nat
        /\ conn[c].nextSeq <= conn'[c].nextSeq
    BY <2>4 DEF ConnTypes, NumbersKept
  <2>6. s < conn'[c].nextSeq /\ ~(s >= conn[c].nextSeq)
    BY <2>1, <2>2, <2>5
  <2>7. s \notin Held(conn'[c])
    BY <2>2, <2>3, <2>4, <2>6 DEF NumbersKept
  <2> QED
    BY <2>6, <2>7 DEF c, s
<1>5. ASSUME NEW i \in DOMAIN commands', NEW j \in DOMAIN commands',
             IsFinished(i)', IsFinished(j)',
             commands'[i].conn = commands'[j].conn, commands'[i].seq = commands'[j].seq
      PROVE  i = j
  <2>1. i + k = j + k
    BY <1>3, <1>5 DEF CycleInv, CommandsApart
  <2> QED
    BY <1>2, <2>1
<1> QED
  BY <1>4, <1>5 DEF CommandsApart

-----------------------------------------------------------------------------
(* Steps of the system *)

\* At first nothing has been sent.
LEMMA InitInv == Init => CycleInv
<1> SUFFICES ASSUME Init PROVE CycleInv
  OBVIOUS
<1> DEFINE cn == NewConnection
<1>1. /\ conf \in DOMAIN Configurations /\ conn = [c \in Conns |-> NewConnection]
      /\ commands = <<>> /\ thread = Idle /\ lastKey = NoKey /\ nextEvent = 1
  BY DEF Init
<1>2. MaxEvents \in Nat
  BY <1>1, CycleConstants DEF MaxEvents, It
<1>3. /\ cn = [f \in Fields |-> cn[f]] /\ cn.status = "NEW" /\ cn.registered = FALSE
      /\ cn.outbound = <<>> /\ cn.wait = <<>> /\ cn.blocked = FALSE
      /\ cn.keyMementos = {} /\ cn.motionMementos = {} /\ cn.nextSeq = 1
      /\ cn.pending = [e \in 1 .. MaxEvents |-> 0]
      /\ cn.unread = <<>> /\ cn.reading = {} /\ cn.signals = <<>> /\ cn.open = TRUE
  BY DEF NewConnection, Fields
<1> HIDE DEF cn
<1>4. ConnTypes(cn)
  <2>1. cn = [f \in Fields |-> cn[f]]
    BY <1>3
  <2>2. cn.pending = [ev \in DOMAIN cn.pending |-> cn.pending[ev]]
    BY <1>3
  <2>3. /\ cn.status = "NEW" /\ cn.registered = FALSE
        /\ cn.outbound = <<>> /\ cn.wait = <<>> /\ cn.blocked = FALSE
        /\ cn.keyMementos = {} /\ cn.motionMementos = {} /\ cn.nextSeq = 1
        /\ cn.unread = <<>> /\ cn.reading = {} /\ cn.signals = <<>> /\ cn.open = TRUE
    BY <1>3
  <2>4. /\ cn.outbound \in Seq(Entries) /\ cn.wait \in Seq(Entries)
        /\ cn.unread \in Seq(Nat) /\ cn.signals \in Seq(Signals)
    BY <2>3, EmptySeq
  <2>5. /\ cn.status \in {"NEW", "NORMAL", "BROKEN", "ZOMBIE"}
        /\ cn.registered \in BOOLEAN /\ cn.blocked \in BOOLEAN /\ cn.open \in BOOLEAN
    BY <2>3
  <2>7. cn.nextSeq \in Nat \ {0}
    BY <2>3
  <2>6. /\ cn.keyMementos \subseteq [code : Codes, flagged : BOOLEAN]
        /\ cn.motionMementos \subseteq [dev : AllDevices, hovering : BOOLEAN]
        /\ cn.reading \subseteq Nat
    BY <2>3
  <2> QED
    BY <2>1, <2>2, <2>4, <2>5, <2>6, <2>7 DEF ConnTypes
<1>5. /\ cn.status = "NEW" /\ cn.registered = FALSE
      /\ cn.outbound = <<>> /\ cn.wait = <<>>
      /\ cn.unread = <<>> /\ cn.reading = {} /\ cn.signals = <<>>
  BY <1>3
<1>6. /\ Range(<<>>) = {} /\ SeqsOf(<<>>) = {}
  BY DEF Range, SeqsOf
<1>7. Held(cn) = {} /\ Unread(cn) = {}
  BY <1>5, <1>6 DEF Held, Unread
<1>8. Distinct(cn)
  BY <1>5 DEF Distinct, NoRepeats, OnceEach
<1>9. Apart(cn) /\ Numbered(cn)
  BY <1>5, <1>6, <1>7 DEF Apart, Numbered
<1>10. Counted(cn)
  <2>1. \A ev : ForegroundSeqs(cn, ev) = {}
    BY <1>5, <1>6 DEF ForegroundSeqs
  <2>2. \A ev \in DOMAIN cn.pending : cn.pending[ev] = 0
    BY <1>3
  <2> QED
    BY <1>5, <1>6, <2>1, <2>2, FS_EmptySet DEF Counted
<1>11. Alive(cn) /\ UnreadOwed(cn) /\ Sending(cn)
  <2>1. Len(<<>>) <= PIPE
    BY CycleConstants
  <2> QED
    BY <1>5, <1>7, <2>1 DEF Alive, UnreadOwed, Sending
<1>12. \A c \in Conns : conn[c] = cn
  BY <1>1 DEF cn
<1>13. \A c \in Conns : ConnInv(conn[c])
  BY <1>4, <1>8, <1>9, <1>10, <1>11, <1>12 DEF ConnInv, QueueInv
<1>14. CycleTypes
  <2>1. conn = [c \in Conns |-> conn[c]]
    BY <1>1
  <2>2. \A c \in Conns : DOMAIN conn[c].pending = 1 .. MaxEvents
    BY <1>3, <1>12
  <2>3. commands \in Seq(Commands)
    BY <1>1, EmptySeq
  <2>4. ThreadTypes(thread)
    BY <1>1 DEF Idle, ThreadTypes
  <2> QED
    BY <1>1, <2>1, <2>2, <2>3, <2>4 DEF CycleTypes
<1>15. CommandsApart /\ PolicyApart
  BY <1>1 DEF CommandsApart, PolicyApart, Idle
<1> QED
  BY <1>13, <1>14, <1>15 DEF CycleInv

\* The types after a step that gives every connection the fields and the events
\* it had.
LEMMA TypesKept ==
    ASSUME CycleInv, conf' = conf, conn' = [c \in Conns |-> conn'[c]],
           \A c \in Conns : DOMAIN conn'[c].pending = DOMAIN conn[c].pending,
           commands' \in Seq(Commands),
           ThreadTypes(thread'),
           lastKey' = NoKey \/ lastKey' \in KeyEvents, nextEvent' \in Nat \ {0}
    PROVE  CycleTypes'
<1>1. MaxEvents' = MaxEvents
  BY DEF MaxEvents, It
<1>2. \A c \in Conns : DOMAIN conn'[c].pending = 1 .. MaxEvents'
  BY <1>1 DEF CycleInv, CycleTypes
<1>3. conf' \in DOMAIN Configurations
  BY DEF CycleInv, CycleTypes
<1> QED
  BY <1>2, <1>3 DEF CycleTypes

\* A thread that works, or starts to, has the types of a thread.
LEMMA WorkingTypes ==
    ASSUME NEW th, Working(th)
    PROVE  ThreadTypes(th)
BY DEF Working, ThreadTypes

\* Steps in which every connection goes on, and no answer becomes a command.
LEMMA ConnectionsGoOn ==
    ASSUME CycleInv, conf' = conf, conn' = [c \in Conns |-> conn'[c]],
           \A c \in Conns : ConnInv(conn'[c]) /\ Continues(conn[c], conn'[c]),
           commands' \in Seq(Commands),
           FinishedIn(commands') \subseteq DOMAIN commands,
           \A i \in FinishedIn(commands') : commands'[i] = commands[i],
           Working(thread') \/ thread' = thread,
           lastKey' = NoKey \/ lastKey' \in KeyEvents, nextEvent' \in Nat \ {0}
    PROVE  CycleInv'
<1>1. \A c \in Conns : /\ ConnTypes(conn[c]) /\ ConnTypes(conn'[c])
                       /\ NumbersKept(conn[c], conn'[c], {})
                       /\ DOMAIN conn'[c].pending = DOMAIN conn[c].pending
  BY DEF CycleInv, ConnInv, QueueInv, Continues, NumbersKept
<1>2. CycleTypes'
  <2>1. ThreadTypes(thread')
    BY WorkingTypes DEF CycleInv, CycleTypes
  <2> QED
    BY <1>1, <2>1, TypesKept
<1>3. CommandsApart'
  <2> DEFINE back == [c \in Conns |-> {}]
  <2>1. commands \in Seq(Commands)
    BY DEF CycleInv, CycleTypes
  <2>2. \A i \in FinishedIn(commands) : commands[i].conn \in Conns
    <3>1. \A x \in Commands : x.conn \in Conns
      BY DEF Commands
    <3> QED
      BY <2>1, <3>1 DEF FinishedIn
  <2>3. \A c \in Conns : back[c] = {}
    OBVIOUS
  <2>4. \A i \in FinishedIn(commands') :
           i + 0 \in DOMAIN commands /\ commands'[i] = commands[i + 0]
    <3>1. DOMAIN commands \subseteq Nat
      BY <2>1
    <3>2. \A i \in Nat : i + 0 = i
      OBVIOUS
    <3> QED
      BY <3>1, <3>2
  <2>5. \A i \in FinishedIn(commands) : commands[i].seq \notin back[commands[i].conn]
    BY <2>2, <2>3
  <2> HIDE DEF back
  <2>6. \A c \in Conns : /\ ConnTypes(conn'[c])
                         /\ NumbersKept(conn[c], conn'[c], back[c])
    BY <1>1, <2>3
  <2>7. 0 \in Nat
    OBVIOUS
  <2> QED
    BY <2>4, <2>5, <2>6, <2>7, CommandsKept
<1>4. PolicyApart'
  <2> SUFFICES ASSUME thread'.pc = "policy"
               PROVE  /\ Asked(conn'[thread'.conn], thread'.entry)
                      /\ \A i \in DOMAIN commands' :
                            ~(/\ IsFinished(i)' /\ commands'[i].conn = thread'.conn
                              /\ commands'[i].seq = thread'.entry.seq)
    BY DEF PolicyApart
  <2>1. thread' = thread /\ thread.pc = "policy"
    BY DEF Working
  <2>2. thread.conn \in Conns /\ thread.entry \in Entries
    BY <2>1 DEF CycleInv, CycleTypes, ThreadTypes
  <2>3. Asked(conn[thread.conn], thread.entry)
    BY <2>1 DEF CycleInv, PolicyApart
  <2>4. Asked(conn'[thread.conn], thread.entry)
    BY <1>1, <2>2, <2>3, AskedContinues
  <2>5. ASSUME NEW i \in DOMAIN commands', IsFinished(i)',
               commands'[i].conn = thread'.conn, commands'[i].seq = thread'.entry.seq
        PROVE  FALSE
    <3>1. i \in FinishedIn(commands')
      BY <2>5 DEF FinishedIn, IsFinished
    <3>2. i \in DOMAIN commands /\ commands'[i] = commands[i] /\ IsFinished(i)
      BY <2>5, <3>1 DEF IsFinished
    <3> QED
      BY <2>1, <2>5, <3>2 DEF CycleInv, PolicyApart
  <2> QED
    BY <2>1, <2>4, <2>5
<1> QED
  BY <1>2, <1>3, <1>4 DEF CycleInv

\* Steps that concern one connection leave the others alone.
LEMMA OneConnection ==
    ASSUME CycleInv, NEW c \in Conns, NEW x, conn' = [conn EXCEPT ![c] = x]
    PROVE  /\ conn' = [d \in Conns |-> conn'[d]] /\ conn'[c] = x
           /\ \A d \in Conns : d # c => conn'[d] = conn[d]
           /\ ConnInv(x) /\ Continues(conn[c], x) =>
                 \A d \in Conns : ConnInv(conn'[d]) /\ Continues(conn[d], conn'[d])
<1>1. /\ conn' = [d \in Conns |-> conn'[d]] /\ conn'[c] = x
      /\ \A d \in Conns : d # c => conn'[d] = conn[d]
  BY DEF CycleInv, CycleTypes
<1>2. \A d \in Conns : ConnInv(conn[d]) /\ Continues(conn[d], conn[d])
  BY ContinuesSame DEF CycleInv, ConnInv, QueueInv
<1> QED
  BY <1>1, <1>2, Zenon

\* A step of one connection that causes no command.
LEMMA OneGoesOn ==
    ASSUME CycleInv, conf' = conf, NEW c \in Conns, NEW x,
           conn' = [conn EXCEPT ![c] = x], ConnInv(x), Continues(conn[c], x),
           commands' = commands, thread' = thread, lastKey' = lastKey,
           nextEvent' = nextEvent
    PROVE  CycleInv'
<1>1. /\ conn' = [d \in Conns |-> conn'[d]]
      /\ \A d \in Conns : ConnInv(conn'[d]) /\ Continues(conn[d], conn'[d])
  BY OneConnection
<1>2. /\ commands' \in Seq(Commands)
      /\ FinishedIn(commands') \subseteq DOMAIN commands
      /\ \A i \in FinishedIn(commands') : commands'[i] = commands[i]
      /\ lastKey' = NoKey \/ lastKey' \in KeyEvents
      /\ nextEvent' \in Nat \ {0}
  BY DEF CycleInv, CycleTypes, FinishedIn
<1> QED
  BY <1>1, <1>2, ConnectionsGoOn

\* A binder thread unregisters a channel: its connection is given up.
LEMMA unregisterStep ==
    ASSUME CycleInv, UNCHANGED conf, NEW c \in Conns, unregisterInputChannel(c)
    PROVE  CycleInv'
<1>1. conn' = [conn EXCEPT ![c] = Unregistered(conn[c])]
  BY DEF unregisterInputChannel
<1>2. /\ commands' = commands /\ thread' = thread /\ lastKey' = lastKey
      /\ nextEvent' = nextEvent
  BY DEF unregisterInputChannel
<1>3. QueueInv(conn[c])
  BY DEF CycleInv, ConnInv
<1>4. ConnInv(Unregistered(conn[c])) /\ Continues(conn[c], Unregistered(conn[c]))
  BY <1>3, GivenUpInv
<1> QED
  BY <1>1, <1>2, <1>4, OneGoesOn

\* A binder thread cancels events: their cancelations are sent.
LEMMA cancelStep ==
    ASSUME CycleInv, UNCHANGED conf, NEW c \in Conns, NEW mode, cancelEvents(c, mode)
    PROVE  CycleInv'
<1> DEFINE x == synthesizeCancelationEventsForConnectionLocked(conn[c], Options(mode))
           broke == {d \in Conns : conn[d].status = "NORMAL" /\ conn'[d].status = "BROKEN"}
<1>1. /\ conn' = [conn EXCEPT ![c] = x] /\ conn[c].registered
      /\ commands' = commands \o NotifyBroken(broke)
      /\ thread' = thread /\ lastKey' = lastKey /\ nextEvent' = nextEvent
  BY DEF cancelEvents, SetConnections, BrokenCommands
<1>2. ConnInv(conn[c]) /\ conn[c].status # "NEW"
  BY <1>1 DEF CycleInv, ConnInv, QueueInv, Alive
<1>3. ConnInv(x) /\ Continues(conn[c], x)
  BY <1>2, CancelInv
<1> HIDE DEF x
<1>4. /\ conn' = [d \in Conns |-> conn'[d]]
      /\ \A d \in Conns : ConnInv(conn'[d]) /\ Continues(conn[d], conn'[d])
  BY <1>1, <1>3, OneConnection
<1>5. /\ commands' \in Seq(Commands)
      /\ FinishedIn(commands') \subseteq DOMAIN commands
      /\ \A i \in FinishedIn(commands') : commands'[i] = commands[i]
  <2>1. commands \in Seq(Commands) /\ broke \in SUBSET Conns
    BY DEF CycleInv, CycleTypes
  <2> HIDE DEF broke
  <2> QED
    BY <1>1, <2>1, BrokenAdded
<1>6. /\ lastKey' = NoKey \/ lastKey' \in KeyEvents
      /\ nextEvent' \in Nat \ {0}
  BY <1>1 DEF CycleInv, CycleTypes
<1> QED
  BY <1>1, <1>4, <1>5, <1>6, ConnectionsGoOn

\* What the application and the receive callback do to the socket.
LEMMA SocketInv ==
    ASSUME NEW cn, ConnInv(cn), NEW new, ConnTypes(new),
           new.status = cn.status, new.registered = cn.registered,
           new.outbound = cn.outbound, new.wait = cn.wait,
           new.nextSeq = cn.nextSeq, new.pending = cn.pending,
           Unread(new) \cup new.reading \cup SeqsOf(new.signals)
              \subseteq Unread(cn) \cup cn.reading \cup SeqsOf(cn.signals),
           Unread(new) \subseteq Unread(cn), Len(new.unread) <= Len(cn.unread),
           OnceEach(new.unread), NoRepeats(new.signals),
           Unread(new) \cap (new.reading \cup SeqsOf(new.signals)) = {},
           new.reading \cap SeqsOf(new.signals) = {}
    PROVE  ConnInv(new) /\ Continues(cn, new)
<1>1. QueueInv(cn) /\ Sending(cn) /\ ConnTypes(cn)
  BY DEF ConnInv, QueueInv
<1>2. Held(new) \subseteq Held(cn)
  BY DEF Held
<1>3. Distinct(new) /\ Apart(new) /\ Numbered(new)
  BY <1>1, <1>2 DEF QueueInv, Distinct, Apart, Numbered
<1>4. Counted(new)
  <2>1. \A ev : ForegroundSeqs(new, ev) = ForegroundSeqs(cn, ev)
    BY DEF ForegroundSeqs
  <2> QED
    BY <1>1, <2>1 DEF QueueInv, Counted
<1>5. Alive(new)
  BY <1>1, <1>2 DEF QueueInv, Alive
<1>6. UnreadOwed(new)
  <2>1. Len(new.unread) \in Nat /\ Len(cn.unread) \in Nat /\ PIPE \in Nat
    BY <1>1, CycleConstants DEF ConnTypes
  <2>2. Len(new.unread) <= PIPE
    BY <1>1, <2>1 DEF QueueInv, UnreadOwed
  <2> QED
    BY <1>1, <2>2 DEF QueueInv, UnreadOwed
<1>7. Sending(new)
  BY <1>1 DEF Sending
<1>8. Continues(cn, new)
  <2>1. cn.nextSeq <= new.nextSeq
    BY <1>1 DEF ConnTypes
  <2> QED
    BY <1>2, <2>1 DEF Continues, NumbersKept
<1> QED
  BY <1>3, <1>4, <1>5, <1>6, <1>7, <1>8 DEF ConnInv, QueueInv

\* The first of the numbers that are unread.
LEMMA UnreadCut ==
    ASSUME NEW q \in Seq(Nat), q # <<>>, OnceEach(q)
    PROVE  /\ Tail(q) \in Seq(Nat) /\ Len(Tail(q)) <= Len(q) /\ OnceEach(Tail(q))
           /\ Head(q) \in Nat /\ Head(q) \in Range(q)
           /\ Range(Tail(q)) = Range(q) \ {Head(q)}
<1>1. /\ DOMAIN q = 1 .. Len(q) /\ Len(q) \in Nat /\ Len(q) > 0
      /\ Head(q) = q[1] /\ 1 \in DOMAIN q
  OBVIOUS
<1>2. /\ Tail(q) \in Seq(Nat) /\ Len(Tail(q)) = Len(q) - 1
      /\ DOMAIN Tail(q) = 1 .. (Len(q) - 1)
      /\ \A i \in 1 .. (Len(q) - 1) : Tail(q)[i] = q[i + 1]
  BY <1>1
<1> DEFINE t == Tail(q)
<1> HIDE DEF t
<1>3. OnceEach(t)
  <2> SUFFICES ASSUME NEW i \in DOMAIN t, NEW j \in DOMAIN t, t[i] = t[j]
               PROVE  i = j
    BY DEF OnceEach
  <2>1. /\ i \in 1 .. (Len(q) - 1) /\ j \in 1 .. (Len(q) - 1)
        /\ q[i + 1] = q[j + 1] /\ i + 1 \in DOMAIN q /\ j + 1 \in DOMAIN q
    BY <1>1, <1>2 DEF t
  <2>2. i + 1 = j + 1
    BY <2>1 DEF OnceEach
  <2> QED
    BY <2>1, <2>2
<1>4. \A i \in DOMAIN t : t[i] \in Range(q) \ {q[1]}
  <2> TAKE i \in DOMAIN t
  <2>1. i \in 1 .. (Len(q) - 1) /\ t[i] = q[i + 1] /\ i + 1 \in DOMAIN q /\ i + 1 # 1
    BY <1>1, <1>2 DEF t
  <2>2. q[i + 1] # q[1]
    BY <1>1, <2>1 DEF OnceEach
  <2> QED
    BY <2>1, <2>2 DEF Range
<1>5. \A i \in DOMAIN q : q[i] # q[1] => \E j \in DOMAIN t : t[j] = q[i]
  <2> SUFFICES ASSUME NEW i \in DOMAIN q, q[i] # q[1]
               PROVE  \E j \in DOMAIN t : t[j] = q[i]
    OBVIOUS
  <2>1. i - 1 \in DOMAIN t
    BY <1>1, <1>2 DEF t
  <2>2. t[i - 1] = q[i]
    BY <1>1, <1>2, <2>1 DEF t
  <2> QED
    BY <2>1, <2>2
<1>6. Range(t) = Range(q) \ {q[1]}
  BY <1>4, <1>5 DEF Range
<1>7. Head(q) \in Nat /\ Head(q) \in Range(q)
  BY <1>1 DEF Range
<1> QED
  BY <1>1, <1>2, <1>3, <1>6, <1>7 DEF t

\* The application reads a message, whose number goes from the socket to it.
LEMMA readStep ==
    ASSUME CycleInv, UNCHANGED conf, NEW c \in Conns, appReads(c)
    PROVE  CycleInv'
<1> DEFINE cn == conn[c]
           x == [cn EXCEPT !.unread = Tail(@), !.reading = @ \cup {Head(cn.unread)}]
<1>1. /\ conn' = [conn EXCEPT ![c] = x] /\ cn.unread # <<>>
      /\ commands' = commands /\ thread' = thread /\ lastKey' = lastKey
      /\ nextEvent' = nextEvent
  <2>1. conn' = [conn EXCEPT ![c].unread = Tail(@),
                             ![c].reading = @ \cup {Head(conn[c].unread)}]
    BY DEF appReads
  <2>2. conn' = [conn EXCEPT ![c] = x]
    BY <2>1 DEF CycleInv, CycleTypes
  <2> QED
    BY <2>2 DEF appReads
<1>2. ConnInv(cn) /\ ConnTypes(cn)
  BY DEF CycleInv, ConnInv, QueueInv
<1> HIDE DEF cn
<1>3. cn.unread \in Seq(Nat) /\ cn.reading \subseteq Nat
  BY <1>2 DEF ConnTypes
<1>4. OnceEach(cn.unread) /\ NoRepeats(cn.signals)
  BY <1>2 DEF ConnInv, QueueInv, Distinct
<1>5. /\ Tail(cn.unread) \in Seq(Nat) /\ Len(Tail(cn.unread)) <= Len(cn.unread)
      /\ OnceEach(Tail(cn.unread))
      /\ Head(cn.unread) \in Nat /\ Head(cn.unread) \in Range(cn.unread)
      /\ Range(Tail(cn.unread)) = Range(cn.unread) \ {Head(cn.unread)}
  BY <1>1, <1>3, <1>4, UnreadCut
<1>6. /\ x = [f \in Fields |-> x[f]]
      /\ x.unread = Tail(cn.unread) /\ x.reading = cn.reading \cup {Head(cn.unread)}
      /\ \A f \in Fields \ {"unread", "reading"} : x[f] = cn[f]
  BY <1>2 DEF ConnTypes, Fields
<1> HIDE DEF x
<1>7. /\ x.unread = Tail(cn.unread) /\ x.reading = cn.reading \cup {Head(cn.unread)}
      /\ x.status = cn.status /\ x.registered = cn.registered
      /\ x.blocked = cn.blocked /\ x.keyMementos = cn.keyMementos
      /\ x.motionMementos = cn.motionMementos /\ x.nextSeq = cn.nextSeq
      /\ x.pending = cn.pending /\ x.outbound = cn.outbound /\ x.wait = cn.wait
      /\ x.signals = cn.signals /\ x.open = cn.open
  BY <1>6 DEF Fields
<1>8. ConnTypes(x)
  <2>1. x = [f \in Fields |-> x[f]]
    BY <1>6
  <2> QED
    BY <1>2, <1>3, <1>5, <1>7, <2>1 DEF ConnTypes
<1>9. /\ Unread(x) = Unread(cn) \ {Head(cn.unread)} /\ Head(cn.unread) \in Unread(cn)
      /\ Len(x.unread) <= Len(cn.unread) /\ OnceEach(x.unread)
  BY <1>5, <1>7 DEF Unread
<1>10. /\ Unread(cn) \cap (cn.reading \cup SeqsOf(cn.signals)) = {}
       /\ cn.reading \cap SeqsOf(cn.signals) = {}
  BY <1>2 DEF ConnInv, QueueInv, Apart
<1>11. /\ Unread(x) \cup x.reading \cup SeqsOf(x.signals)
             \subseteq Unread(cn) \cup cn.reading \cup SeqsOf(cn.signals)
       /\ Unread(x) \subseteq Unread(cn)
       /\ Unread(x) \cap (x.reading \cup SeqsOf(x.signals)) = {}
       /\ x.reading \cap SeqsOf(x.signals) = {}
  BY <1>7, <1>9, <1>10
<1>12. ConnInv(x) /\ Continues(cn, x)
  BY <1>2, <1>4, <1>7, <1>8, <1>9, <1>11, SocketInv
<1> QED
  BY <1>1, <1>12, OneGoesOn DEF cn

\* The application answers, and the number goes back into the socket.
LEMMA finishStep ==
    ASSUME CycleInv, UNCHANGED conf, NEW c \in Conns, NEW seq, NEW handled \in BOOLEAN,
           appFinishes(c, seq, handled)
    PROVE  CycleInv'
<1> DEFINE cn == conn[c]
           signal == [seq |-> seq, handled |-> handled]
           x == [cn EXCEPT !.reading = @ \ {seq}, !.signals = Append(@, signal)]
<1>1. /\ conn' = [conn EXCEPT ![c] = x] /\ seq \in cn.reading
      /\ commands' = commands /\ thread' = thread /\ lastKey' = lastKey
      /\ nextEvent' = nextEvent
  <2>1. conn' = [conn EXCEPT ![c].reading = @ \ {seq}, ![c].signals = Append(@, signal)]
    BY DEF appFinishes
  <2>2. conn' = [conn EXCEPT ![c] = x]
    BY <2>1 DEF CycleInv, CycleTypes
  <2> QED
    BY <2>2 DEF appFinishes
<1>2. ConnInv(cn) /\ ConnTypes(cn)
  BY DEF CycleInv, ConnInv, QueueInv
<1> HIDE DEF cn
<1>3. cn.signals \in Seq(Signals) /\ cn.reading \subseteq Nat /\ cn.unread \in Seq(Nat)
  BY <1>2 DEF ConnTypes
<1>4. OnceEach(cn.unread) /\ NoRepeats(cn.signals)
  BY <1>2 DEF ConnInv, QueueInv, Distinct
<1>5. /\ Unread(cn) \cap (cn.reading \cup SeqsOf(cn.signals)) = {}
      /\ cn.reading \cap SeqsOf(cn.signals) = {}
  BY <1>2 DEF ConnInv, QueueInv, Apart
<1>6. signal \in Signals /\ signal.seq = seq
  BY <1>1, <1>3 DEF Signals
<1> HIDE DEF signal
<1>7. /\ x = [f \in Fields |-> x[f]]
      /\ x.signals = Append(cn.signals, signal) /\ x.reading = cn.reading \ {seq}
      /\ \A f \in Fields \ {"signals", "reading"} : x[f] = cn[f]
  BY <1>2 DEF ConnTypes, Fields
<1> HIDE DEF x
<1>8. /\ x.signals = Append(cn.signals, signal) /\ x.reading = cn.reading \ {seq}
      /\ x.status = cn.status /\ x.registered = cn.registered
      /\ x.blocked = cn.blocked /\ x.keyMementos = cn.keyMementos
      /\ x.motionMementos = cn.motionMementos /\ x.nextSeq = cn.nextSeq
      /\ x.pending = cn.pending /\ x.outbound = cn.outbound /\ x.wait = cn.wait
      /\ x.unread = cn.unread /\ x.open = cn.open
  BY <1>7 DEF Fields
<1>9. /\ x.signals \in Seq(Signals) /\ SeqsOf(x.signals) = SeqsOf(cn.signals) \cup {seq}
      /\ NoRepeats(x.signals)
  <2>1. /\ x.signals \in Seq(Signals) /\ Len(x.signals) = Len(cn.signals) + 1
        /\ DOMAIN x.signals = 1 .. (Len(cn.signals) + 1)
        /\ DOMAIN cn.signals = 1 .. Len(cn.signals) /\ Len(cn.signals) \in Nat
        /\ \A i \in 1 .. (Len(cn.signals) + 1) :
              x.signals[i] = IF i <= Len(cn.signals) THEN cn.signals[i] ELSE signal
    BY <1>3, <1>6, <1>8
  <2>2. \A i \in DOMAIN cn.signals : cn.signals[i].seq # seq
    BY <1>1, <1>5 DEF SeqsOf, Range
  <2>3. Range(x.signals) = Range(cn.signals) \cup {signal}
    <3>1. \A i \in DOMAIN x.signals : x.signals[i] \in Range(cn.signals) \cup {signal}
      BY <2>1 DEF Range
    <3>2. \A i \in DOMAIN cn.signals :
             i \in DOMAIN x.signals /\ x.signals[i] = cn.signals[i]
      BY <2>1
    <3>3. Len(cn.signals) + 1 \in DOMAIN x.signals
          /\ x.signals[Len(cn.signals) + 1] = signal
      BY <2>1
    <3> QED
      BY <3>1, <3>2, <3>3 DEF Range
  <2>4. SeqsOf(x.signals) = SeqsOf(cn.signals) \cup {seq}
    BY <1>6, <2>3 DEF SeqsOf
  <2>5. ASSUME NEW i \in DOMAIN x.signals, NEW j \in DOMAIN x.signals,
               x.signals[i].seq = x.signals[j].seq
        PROVE  i = j
    BY <1>4, <1>6, <2>1, <2>2, <2>5 DEF NoRepeats
  <2> QED
    BY <2>1, <2>4, <2>5 DEF NoRepeats
<1>10. ConnTypes(x)
  <2>1. x = [f \in Fields |-> x[f]]
    BY <1>7
  <2>2. x.reading \subseteq Nat
    BY <1>3, <1>8
  <2> QED
    BY <1>2, <1>8, <1>9, <2>1, <2>2 DEF ConnTypes
<1>11. Unread(x) = Unread(cn) /\ Len(x.unread) <= Len(cn.unread) /\ OnceEach(x.unread)
  BY <1>3, <1>4, <1>8 DEF Unread
<1>12. /\ Unread(x) \cup x.reading \cup SeqsOf(x.signals)
             \subseteq Unread(cn) \cup cn.reading \cup SeqsOf(cn.signals)
       /\ Unread(x) \subseteq Unread(cn)
       /\ Unread(x) \cap (x.reading \cup SeqsOf(x.signals)) = {}
       /\ x.reading \cap SeqsOf(x.signals) = {}
  BY <1>1, <1>5, <1>8, <1>9, <1>11
<1>13. ConnInv(x) /\ Continues(cn, x)
  BY <1>2, <1>8, <1>9, <1>10, <1>11, <1>12, SocketInv
<1> QED
  BY <1>1, <1>13, OneGoesOn DEF cn

\* The command queue stays as it is, or loses its front.
LEMMA CommandsStay ==
    ASSUME CycleInv, conf' = conf, conn' = [c \in Conns |-> conn'[c]],
           \A c \in Conns : ConnInv(conn'[c]) /\ NumbersKept(conn[c], conn'[c], {}),
           commands' = commands \/ (commands # <<>> /\ commands' = Tail(commands)),
           ThreadTypes(thread'),
           lastKey' = lastKey, nextEvent' = nextEvent
    PROVE  CycleTypes' /\ CommandsApart'
<1>0. commands \in Seq(Commands)
  BY DEF CycleInv, CycleTypes
<1>1. /\ \A c \in Conns : ConnTypes(conn'[c])
      /\ \A c \in Conns : DOMAIN conn'[c].pending = DOMAIN conn[c].pending
  BY DEF ConnInv, QueueInv, NumbersKept
<1>2. PICK k \in {0, 1} :
         /\ commands' \in Seq(Commands)
         /\ \A i \in DOMAIN commands' :
               i + k \in DOMAIN commands /\ commands'[i] = commands[i + k]
  <2>1. CASE commands' = commands
    <3>1. \A i \in DOMAIN commands : i + 0 = i
      BY <1>0
    <3> QED
      BY <1>0, <2>1, <3>1
  <2>2. CASE commands # <<>> /\ commands' = Tail(commands)
    <3>1. /\ commands' \in Seq(Commands)
          /\ \A i \in DOMAIN commands' :
                i + 1 \in DOMAIN commands /\ commands'[i] = commands[i + 1]
      BY <1>0, <2>2
    <3> QED
      BY <3>1
  <2> QED
    BY <2>1, <2>2
<1>3. /\ lastKey' = NoKey \/ lastKey' \in KeyEvents
      /\ nextEvent' \in Nat \ {0}
  BY DEF CycleInv, CycleTypes
<1>4. CycleTypes'
  BY <1>1, <1>2, <1>3, TypesKept
<1>5. CommandsApart'
  <2> DEFINE back == [c \in Conns |-> {}]
  <2>1. \A i \in FinishedIn(commands) : commands[i].conn \in Conns
    <3>1. \A x \in Commands : x.conn \in Conns
      BY DEF Commands
    <3> QED
      BY <1>0, <3>1 DEF FinishedIn
  <2>2. \A c \in Conns : back[c] = {}
    OBVIOUS
  <2>3. \A i \in FinishedIn(commands) : commands[i].seq \notin back[commands[i].conn]
    BY <2>1, <2>2
  <2> HIDE DEF back
  <2>4. \A c \in Conns : /\ ConnTypes(conn'[c])
                         /\ NumbersKept(conn[c], conn'[c], back[c])
    BY <1>1, <2>2
  <2>5. k \in Nat
    BY <1>2
  <2>6. \A i \in FinishedIn(commands') :
           i + k \in DOMAIN commands /\ commands'[i] = commands[i + k]
    BY <1>2 DEF FinishedIn
  <2> QED
    BY <1>2, <2>3, <2>4, <2>5, <2>6, CommandsKept
<1> QED
  BY <1>4, <1>5

\* The application dies, and its end of the socket is closed.
LEMMA dieStep ==
    ASSUME CycleInv, UNCHANGED conf, NEW c \in Conns, appDies(c)
    PROVE  CycleInv'
<1> DEFINE cn == conn[c]
           x == [cn EXCEPT !.open = FALSE, !.unread = <<>>, !.reading = {}]
<1>1. /\ conn' = [conn EXCEPT ![c] = x]
      /\ commands' = commands /\ thread' = thread /\ lastKey' = lastKey
      /\ nextEvent' = nextEvent
  <2>1. conn' = [conn EXCEPT ![c].open = FALSE, ![c].unread = <<>>, ![c].reading = {}]
    BY DEF appDies
  <2>2. conn' = [conn EXCEPT ![c] = x]
    BY <2>1 DEF CycleInv, CycleTypes
  <2> QED
    BY <2>2 DEF appDies
<1>2. ConnInv(cn) /\ ConnTypes(cn)
  BY DEF CycleInv, ConnInv, QueueInv
<1> HIDE DEF cn
<1>3. cn.unread \in Seq(Nat) /\ NoRepeats(cn.signals)
  BY <1>2 DEF ConnTypes, ConnInv, QueueInv, Distinct
<1>4. /\ x = [f \in Fields |-> x[f]]
      /\ x.open = FALSE /\ x.unread = <<>> /\ x.reading = {}
      /\ \A f \in Fields \ {"open", "unread", "reading"} : x[f] = cn[f]
  BY <1>2 DEF ConnTypes, Fields
<1> HIDE DEF x
<1>5. /\ x.open = FALSE /\ x.unread = <<>> /\ x.reading = {}
      /\ x.status = cn.status /\ x.registered = cn.registered
      /\ x.blocked = cn.blocked /\ x.keyMementos = cn.keyMementos
      /\ x.motionMementos = cn.motionMementos /\ x.nextSeq = cn.nextSeq
      /\ x.pending = cn.pending /\ x.outbound = cn.outbound /\ x.wait = cn.wait
      /\ x.signals = cn.signals
  BY <1>4 DEF Fields
<1>6. ConnTypes(x)
  <2>1. x = [f \in Fields |-> x[f]]
    BY <1>4
  <2>2. x.unread \in Seq(Nat) /\ x.reading \subseteq Nat
    BY <1>5, EmptySeq
  <2> QED
    BY <1>2, <1>5, <2>1, <2>2 DEF ConnTypes
<1>7. /\ Unread(x) = {} /\ OnceEach(x.unread) /\ Len(x.unread) <= Len(cn.unread)
  <2>1. Len(cn.unread) \in Nat
    BY <1>3
  <2> QED
    BY <1>5, <2>1 DEF Unread, Range, OnceEach
<1>8. ConnInv(x) /\ Continues(cn, x)
  BY <1>2, <1>3, <1>5, <1>6, <1>7, SocketInv
<1> QED
  BY <1>1, <1>8, OneGoesOn DEF cn

\* A connection becomes one in order, with nothing sent yet.
LEMMA registerStep ==
    ASSUME CycleInv, UNCHANGED conf, NEW c \in Conns, registerInputChannel(c)
    PROVE  CycleInv'
<1> DEFINE cn == conn[c]
           x == [cn EXCEPT !.status = "NORMAL", !.registered = TRUE]
<1>1. /\ conn' = [conn EXCEPT ![c] = x] /\ cn.status = "NEW"
      /\ commands' = commands /\ thread' = thread /\ lastKey' = lastKey
      /\ nextEvent' = nextEvent
  <2>1. conn' = [conn EXCEPT ![c].status = "NORMAL", ![c].registered = TRUE]
    BY DEF registerInputChannel
  <2>2. conn' = [conn EXCEPT ![c] = x]
    BY <2>1 DEF CycleInv, CycleTypes
  <2> QED
    BY <2>2 DEF registerInputChannel
<1>2. ConnInv(cn) /\ QueueInv(cn) /\ ConnTypes(cn)
  BY DEF CycleInv, ConnInv, QueueInv
<1>3. \A d \in Conns : conn[d].status # "NEW" => d # c
  BY <1>1
<1> HIDE DEF cn
<1>4. /\ x = [f \in Fields |-> x[f]]
      /\ x.status = "NORMAL" /\ x.registered = TRUE
      /\ \A f \in Fields \ {"status", "registered"} : x[f] = cn[f]
  BY <1>2 DEF ConnTypes, Fields
<1> HIDE DEF x
<1>5. /\ x.status = "NORMAL" /\ x.registered = TRUE /\ x.open = cn.open
      /\ x.blocked = cn.blocked /\ x.keyMementos = cn.keyMementos
      /\ x.motionMementos = cn.motionMementos /\ x.nextSeq = cn.nextSeq
      /\ x.pending = cn.pending /\ x.outbound = cn.outbound /\ x.wait = cn.wait
      /\ x.unread = cn.unread /\ x.reading = cn.reading /\ x.signals = cn.signals
  BY <1>4 DEF Fields
<1>6. ConnTypes(x)
  <2>1. x = [f \in Fields |-> x[f]]
    BY <1>4
  <2>2. x.status \in {"NEW", "NORMAL", "BROKEN", "ZOMBIE"} /\ x.registered \in BOOLEAN
    BY <1>5
  <2> QED
    BY <1>2, <1>5, <2>1, <2>2 DEF ConnTypes
<1>7. Held(x) = Held(cn) /\ Unread(x) = Unread(cn) /\ Held(cn) = {}
  BY <1>1, <1>2, <1>5 DEF Held, Unread, QueueInv, Alive
<1>8. Distinct(x) /\ Apart(x) /\ Numbered(x)
  BY <1>2, <1>5, <1>7 DEF QueueInv, Distinct, Apart, Numbered
<1>9. Counted(x)
  <2>1. \A ev : ForegroundSeqs(x, ev) = ForegroundSeqs(cn, ev)
    BY <1>5 DEF ForegroundSeqs
  <2> QED
    BY <1>2, <1>5, <2>1 DEF QueueInv, Counted
<1>10. Alive(x)
  BY <1>5 DEF Alive
<1>11. UnreadOwed(x)
  BY <1>2, <1>5, <1>7 DEF QueueInv, UnreadOwed, Held
<1>12. Sending(x)
  <2>1. SeqsOf(cn.outbound) = {} /\ cn.outbound \in Seq(Entries)
    BY <1>2, <1>7 DEF Held, ConnTypes
  <2>2. DOMAIN cn.outbound = {}
    BY <2>1 DEF SeqsOf, Range
  <2>3. cn.outbound = <<>>
    <3>1. Len(cn.outbound) \in Nat /\ DOMAIN cn.outbound = 1 .. Len(cn.outbound)
      BY <2>1
    <3>2. Len(cn.outbound) = 0
      <4>1. \A n \in Nat : n # 0 => 1 \in 1 .. n
        OBVIOUS
      <4> QED
        BY <2>2, <3>1, <4>1
    <3> QED
      BY <2>1, <3>2, EmptySeq
  <2> QED
    BY <1>5, <2>3 DEF Sending
<1>13. ConnInv(x)
  BY <1>6, <1>8, <1>9, <1>10, <1>11, <1>12 DEF ConnInv, QueueInv
<1>14. NumbersKept(cn, x, {})
  <2>1. cn.nextSeq <= x.nextSeq
    BY <1>2, <1>5 DEF ConnTypes
  <2> QED
    BY <1>1, <1>5, <1>7, <2>1 DEF NumbersKept
<1>15. /\ conn' = [d \in Conns |-> conn'[d]] /\ conn'[c] = x
       /\ \A d \in Conns : d # c => conn'[d] = conn[d]
  BY <1>1, OneConnection
<1>16. \A d \in Conns : ConnInv(conn'[d]) /\ NumbersKept(conn[d], conn'[d], {})
  <2>1. \A d \in Conns : ConnInv(conn[d]) /\ NumbersKept(conn[d], conn[d], {})
    BY ContinuesSame DEF CycleInv, ConnInv, QueueInv, Continues
  <2> QED
    BY <1>13, <1>14, <1>15, <2>1 DEF cn
<1>17. CycleTypes' /\ CommandsApart'
  <2>1. ThreadTypes(thread')
    BY <1>1 DEF CycleInv, CycleTypes
  <2> QED
    BY <1>1, <1>15, <1>16, <2>1, CommandsStay
<1>18. PolicyApart'
  <2>1. thread.pc = "policy" => thread.conn \in Conns /\ thread.conn # c
    BY <1>3 DEF CycleInv, CycleTypes, ThreadTypes, PolicyApart, Asked
  <2> QED
    BY <1>1, <1>15, <2>1 DEF CycleInv, PolicyApart, IsFinished
<1> QED
  BY <1>13, <1>16, <1>17, <1>18 DEF CycleInv

\* Steps that leave the connections alone.
LEMMA commandStep ==
    ASSUME CycleInv, UNCHANGED conf, startCommands \/ doNotifyInputChannelBroken
    PROVE  CycleInv'
<1>1. /\ conn' = conn /\ Working(thread')
      /\ commands' = commands \/ (commands # <<>> /\ commands' = Tail(commands))
      /\ lastKey' = lastKey /\ nextEvent' = nextEvent
  BY DEF startCommands, doNotifyInputChannelBroken, CycleInv, CycleTypes, ThreadTypes,
         Working
<1>2. /\ conn' = [c \in Conns |-> conn'[c]]
      /\ \A c \in Conns : ConnInv(conn'[c]) /\ NumbersKept(conn[c], conn'[c], {})
  <2>1. \A c \in Conns : ConnInv(conn[c]) /\ NumbersKept(conn[c], conn[c], {})
    BY ContinuesSame DEF CycleInv, ConnInv, QueueInv, Continues
  <2>2. conn = [c \in Conns |-> conn[c]]
    BY DEF CycleInv, CycleTypes
  <2> QED
    BY <1>1, <2>1, <2>2
<1>3. CycleTypes' /\ CommandsApart'
  BY <1>1, <1>2, WorkingTypes, CommandsStay
<1>4. PolicyApart'
  BY <1>1 DEF PolicyApart, Working
<1> QED
  BY <1>2, <1>3, <1>4 DEF CycleInv

\* An event goes to the connections of its targets.
LEMMA dispatchStep ==
    ASSUME CycleInv, UNCHANGED conf, NEW event \in KeyEvents \cup MotionEvents,
           event.ev = nextEvent, NEW target, NEW fg \in BOOLEAN, NEW mode,
           dispatchEventLocked(event, target, fg, mode),
           lastKey' = NoKey \/ lastKey' \in KeyEvents
    PROVE  CycleInv'
<1> DEFINE broke == {d \in Conns : conn[d].status = "NORMAL" /\ conn'[d].status = "BROKEN"}
           Sent(c) ==
               IF c = target THEN prepareDispatchCycleLocked(conn[c], event, fg, mode)
               ELSE IF c \in Monitors
               THEN prepareDispatchCycleLocked(conn[c], event, FALSE, "AS_IS")
               ELSE conn[c]
<1>1. /\ conn' = [c \in Conns |-> Sent(c)] /\ event.ev <= MaxEvents
      /\ commands' = commands \o NotifyBroken(broke)
      /\ nextEvent' = nextEvent + 1
      /\ thread' = Idle \/ thread' = [pc |-> "commands", unregister |-> {}]
  BY DEF dispatchEventLocked, SetConnections, BrokenCommands
<1>2. Working(thread')
  BY <1>1 DEF Idle, Working
<1>3. nextEvent \in Nat \ {0} /\ nextEvent' \in Nat \ {0}
  BY <1>1 DEF CycleInv, CycleTypes
<1>4. \A c \in Conns : event.ev \in DOMAIN conn[c].pending
  <2>1. conf \in DOMAIN Configurations
    BY DEF CycleInv, CycleTypes
  <2>2. MaxEvents \in Nat
    BY <2>1, CycleConstants DEF MaxEvents, It
  <2>3. nextEvent \in 1 .. MaxEvents
    BY <1>1, <1>3, <2>2
  <2> QED
    BY <2>3 DEF CycleInv, CycleTypes
<1>5. ASSUME NEW c \in Conns
      PROVE  ConnInv(Sent(c)) /\ Continues(conn[c], Sent(c))
  <2>1. ConnInv(conn[c]) /\ ConnTypes(conn[c])
    BY DEF CycleInv, ConnInv, QueueInv
  <2>2. LET new == prepareDispatchCycleLocked(conn[c], event, fg, mode) IN
        ConnInv(new) /\ Continues(conn[c], new)
    BY <1>4, <2>1, PrepareInv
  <2>3. LET new == prepareDispatchCycleLocked(conn[c], event, FALSE, "AS_IS") IN
        ConnInv(new) /\ Continues(conn[c], new)
    BY <1>4, <2>1, PrepareInv
  <2>4. Continues(conn[c], conn[c])
    BY <2>1, ContinuesSame
  <2> QED
    BY <2>1, <2>2, <2>3, <2>4
<1>6. /\ conn' = [c \in Conns |-> conn'[c]]
      /\ \A c \in Conns : ConnInv(conn'[c]) /\ Continues(conn[c], conn'[c])
  BY <1>1, <1>5
<1>7. /\ commands' \in Seq(Commands)
      /\ FinishedIn(commands') \subseteq DOMAIN commands
      /\ \A i \in FinishedIn(commands') : commands'[i] = commands[i]
  <2>1. commands \in Seq(Commands) /\ broke \in SUBSET Conns
    BY DEF CycleInv, CycleTypes
  <2> HIDE DEF broke
  <2> QED
    BY <1>1, <2>1, BrokenAdded
<1> HIDE DEF broke, Sent
<1> QED
  BY <1>2, <1>3, <1>6, <1>7, ConnectionsGoOn

\* The events that are dispatched.
LEMMA KeyEventTypes ==
    ASSUME NEW ev \in Nat, NEW code \in Codes, NEW action \in {"DOWN", "UP"},
           NEW repeat \in Nat, NEW flagged \in BOOLEAN
    PROVE  /\ KeyEvent(ev, code, action, repeat, flagged) \in KeyEvents
           /\ KeyEvent(ev, code, action, repeat, flagged).ev = ev
BY DEF KeyEvent, KeyEvents

\* The same for motion events.
LEMMA MotionEventTypes ==
    ASSUME NEW ev \in Nat, NEW d \in AllDevices, NEW action \in MotionActions,
           NEW neutral \in BOOLEAN
    PROVE  /\ MotionEvent(ev, d, action, neutral) \in MotionEvents
           /\ MotionEvent(ev, d, action, neutral).ev = ev
BY DEF MotionEvent, MotionEvents

\* Events of keys, repeats of them, and motion events.
LEMMA dispatchSteps ==
    ASSUME CycleInv, UNCHANGED conf,
           \/ \E t \in Apps, k \in Keys, a \in {"DOWN", "UP"} : dispatchKey(t, k, a)
           \/ \E t \in Apps : repeatKey(t)
           \/ \E t \in Apps, d \in Devices, a \in MotionActions, n \in BOOLEAN :
                 \E m \in ModesOf(a) : dispatchMotion(t, d, a, m, n)
    PROVE  CycleInv'
<1>1. /\ nextEvent \in Nat
      /\ lastKey = NoKey \/ lastKey \in KeyEvents
      /\ conf \in DOMAIN Configurations
  BY DEF CycleInv, CycleTypes
<1>2. Keys \subseteq Codes /\ Devices \subseteq AllDevices
  BY <1>1, CycleConstants DEF Keys, Devices, It, Codes, AllDevices
<1>3. lastKey # NoKey => lastKey \in KeyEvents
  BY <1>1
<1>4. lastKey # NoKey => /\ lastKey.repeat + 1 \in Nat /\ lastKey.code \in Codes
                         /\ lastKey.flagged \in BOOLEAN
  BY <1>3 DEF KeyEvents
<1>5. ASSUME NEW t \in Apps, NEW k \in Keys, NEW a \in {"DOWN", "UP"}, dispatchKey(t, k, a)
      PROVE  CycleInv'
  <2> DEFINE again == lastKey # NoKey /\ lastKey.code = k
             n == IF a = "DOWN" /\ again THEN lastKey.repeat + 1 ELSE 0
             event == KeyEvent(nextEvent, k, a, n, FALSE)
  <2>1. /\ dispatchEventLocked(event, t, TRUE, "AS_IS")
        /\ lastKey' = IF a = "DOWN" THEN event ELSE NoKey
    BY <1>5 DEF dispatchKey
  <2>2. n \in Nat
    BY <1>4
  <2> HIDE DEF n
  <2>3. event \in KeyEvents /\ event.ev = nextEvent
    <3>1. k \in Codes /\ nextEvent \in Nat /\ FALSE \in BOOLEAN
      BY <1>1, <1>2
    <3> QED
      BY <2>2, <3>1, KeyEventTypes
  <2> HIDE DEF event
  <2>4. lastKey' = NoKey \/ lastKey' \in KeyEvents
    BY <2>1, <2>3
  <2> QED
    BY <2>1, <2>3, <2>4, dispatchStep
<1>6. ASSUME NEW t \in Apps, repeatKey(t)
      PROVE  CycleInv'
  <2> DEFINE event == KeyEvent(nextEvent, lastKey.code, "DOWN", lastKey.repeat + 1,
                               lastKey.flagged)
  <2>1. /\ dispatchEventLocked(event, t, TRUE, "AS_IS") /\ lastKey' = event
        /\ lastKey # NoKey
    BY <1>6 DEF repeatKey
  <2>2. event \in KeyEvents /\ event.ev = nextEvent
    <3>1. /\ lastKey.repeat + 1 \in Nat /\ lastKey.code \in Codes
          /\ lastKey.flagged \in BOOLEAN /\ nextEvent \in Nat
      BY <1>1, <1>4, <2>1
    <3> QED
      BY <3>1, KeyEventTypes
  <2> HIDE DEF event
  <2> QED
    BY <2>1, <2>2, dispatchStep
<1>7. ASSUME NEW t \in Apps, NEW d \in Devices, NEW a \in MotionActions, NEW n \in BOOLEAN,
             NEW m \in ModesOf(a), dispatchMotion(t, d, a, m, n)
      PROVE  CycleInv'
  <2> DEFINE event == MotionEvent(nextEvent, d, a, n)
             fg == m \in {"AS_IS", "SLIPPERY_EXIT", "SLIPPERY_ENTER"}
  <2>1. dispatchEventLocked(event, t, fg, m) /\ lastKey' = lastKey
    BY <1>7 DEF dispatchMotion
  <2>2. event \in MotionEvents /\ event.ev = nextEvent
    <3>1. d \in AllDevices /\ nextEvent \in Nat
      BY <1>1, <1>2
    <3> QED
      BY <3>1, MotionEventTypes
  <2>3. fg \in BOOLEAN
    OBVIOUS
  <2> HIDE DEF event, fg
  <2>4. lastKey' = NoKey \/ lastKey' \in KeyEvents
    BY <1>1, <2>1
  <2> QED
    BY <2>1, <2>2, <2>3, <2>4, dispatchStep
<1> QED
  BY <1>5, <1>6, <1>7

\* The channels of applications that are gone are unregistered.
LEMMA doneStep ==
    ASSUME CycleInv, UNCHANGED conf, commandsDone
    PROVE  CycleInv'
<1> DEFINE gone == {c \in thread.unregister : conn[c].registered}
           broke == {g \in gone \ Monitors : conn[g].status = "NORMAL"}
<1>1. /\ conn' = [c \in Conns |-> IF c \in gone THEN Unregistered(conn[c]) ELSE conn[c]]
      /\ commands = <<>> /\ commands' = NotifyBroken(broke)
      /\ thread' = Idle /\ lastKey' = lastKey /\ nextEvent' = nextEvent
  BY DEF commandsDone
<1>2. \A c \in Conns :
         /\ ConnInv(conn[c]) /\ Continues(conn[c], conn[c])
         /\ ConnInv(Unregistered(conn[c])) /\ Continues(conn[c], Unregistered(conn[c]))
  BY ContinuesSame, GivenUpInv DEF CycleInv, ConnInv, QueueInv
<1>3. /\ conn' = [c \in Conns |-> conn'[c]]
      /\ \A c \in Conns : ConnInv(conn'[c]) /\ Continues(conn[c], conn'[c])
  BY <1>1, <1>2
<1>4. broke \in SUBSET Conns
  BY DEF commandsDone, CycleInv, CycleTypes, ThreadTypes
<1> HIDE DEF broke, gone
<1>5. /\ commands' \in Seq(Commands) /\ FinishedIn(commands') = {}
  <2>1. <<>> \in Seq(Commands)
    BY EmptySeq
  <2>2. NotifyBroken(broke) \in Seq(Commands) /\ FinishedIn(NotifyBroken(broke)) = {}
    BY <1>4, <2>1, BrokenAdded
  <2> QED
    BY <1>1, <2>2
<1>6. /\ Working(thread')
      /\ lastKey' = NoKey \/ lastKey' \in KeyEvents
      /\ nextEvent' \in Nat \ {0}
  BY <1>1 DEF CycleInv, CycleTypes, Idle, Working
<1> QED
  BY <1>3, <1>5, <1>6, ConnectionsGoOn

\* The answers that a connection has received become commands.
LEMMA AnswersTaken ==
    ASSUME CycleInv, conf' = conf, NEW c \in Conns, NEW x,
           conn' = [conn EXCEPT ![c] = x], ConnInv(x), Continues(conn[c], x),
           Held(x) = SeqsOf(conn[c].outbound) \cup Unread(conn[c]) \cup conn[c].reading,
           NEW q \in Seq(Commands), commands' = commands \o q,
           \A j \in DOMAIN q :
              /\ j \in DOMAIN conn[c].signals /\ q[j].type = "finished"
              /\ q[j].conn = c /\ q[j].seq = conn[c].signals[j].seq,
           Working(thread'), lastKey' = lastKey, nextEvent' = nextEvent
    PROVE  CycleInv'
<1>1. commands \in Seq(Commands) /\ ConnInv(conn[c]) /\ ConnTypes(conn[c]) /\ ConnTypes(x)
  BY DEF CycleInv, CycleTypes, ConnInv, QueueInv
<1>2. /\ commands' \in Seq(Commands)
      /\ DOMAIN commands = 1 .. Len(commands) /\ Len(commands) \in Nat
      /\ DOMAIN q = 1 .. Len(q) /\ Len(q) \in Nat
      /\ DOMAIN commands' = 1 .. (Len(commands) + Len(q))
      /\ \A i \in DOMAIN commands' :
            commands'[i] = IF i <= Len(commands) THEN commands[i] ELSE q[i - Len(commands)]
  BY <1>1
<1>3. /\ conn' = [d \in Conns |-> conn'[d]] /\ conn'[c] = x
      /\ \A d \in Conns : d # c => conn'[d] = conn[d]
      /\ \A d \in Conns : ConnInv(conn'[d]) /\ Continues(conn[d], conn'[d])
  BY OneConnection
<1>4. CycleTypes'
  <2>1. \A d \in Conns : DOMAIN conn'[d].pending = DOMAIN conn[d].pending
    BY <1>3 DEF Continues, NumbersKept
  <2>2. lastKey' = NoKey \/ lastKey' \in KeyEvents
    BY DEF CycleInv, CycleTypes
  <2>3. nextEvent' \in Nat \ {0}
    BY DEF CycleInv, CycleTypes
  <2> QED
    BY <1>2, <1>3, <2>1, <2>2, <2>3, WorkingTypes, TypesKept
<1>5. \A s \in SeqsOf(conn[c].signals) :
         /\ s \in Held(conn[c]) /\ s < x.nextSeq /\ s \notin Held(x)
  <2> SUFFICES ASSUME NEW s \in SeqsOf(conn[c].signals)
               PROVE  s \in Held(conn[c]) /\ s < x.nextSeq /\ s \notin Held(x)
    OBVIOUS
  <2>1. s \in Held(conn[c]) /\ s \in Nat /\ s < conn[c].nextSeq
    BY <1>1, SeqTypes DEF Held, ConnInv, QueueInv, Numbered
  <2>2. conn[c].nextSeq \in Nat /\ x.nextSeq \in Nat /\ conn[c].nextSeq <= x.nextSeq
    BY <1>1 DEF ConnTypes, Continues, NumbersKept
  <2>3. s < x.nextSeq
    BY <2>1, <2>2
  <2>4. s \notin Held(x)
    BY <1>1 DEF ConnInv, QueueInv, Apart
  <2> QED
    BY <2>1, <2>3, <2>4
<1>6. ASSUME NEW j \in DOMAIN q
      PROVE  /\ q[j].conn = c /\ q[j].seq \in SeqsOf(conn[c].signals)
             /\ q[j].seq = conn[c].signals[j].seq /\ j \in DOMAIN conn[c].signals
  BY DEF SeqsOf, Range
<1>7. ASSUME NEW i \in DOMAIN commands', IsFinished(i)'
      PROVE  \/ i \in DOMAIN commands /\ IsFinished(i) /\ commands'[i] = commands[i]
             \/ i - Len(commands) \in DOMAIN q /\ commands'[i] = q[i - Len(commands)]
  BY <1>2, <1>7 DEF IsFinished
<1>8. ASSUME NEW i \in DOMAIN commands, IsFinished(i)
      PROVE  /\ commands[i].conn \in Conns
             /\ commands[i].seq < conn'[commands[i].conn].nextSeq
             /\ commands[i].seq \notin Held(conn'[commands[i].conn])
             /\ commands[i].seq \notin Held(conn[commands[i].conn])
  <2> DEFINE d == commands[i].conn
             s == commands[i].seq
  <2>1. d \in Conns /\ s \in Nat
    <3>1. commands[i] \in Commands /\ commands[i].type = "finished"
      BY <1>1, <1>8 DEF IsFinished
    <3> QED
      BY <3>1 DEF Commands
  <2>2. s < conn[d].nextSeq /\ s \notin Held(conn[d])
    BY <1>8 DEF CycleInv, CommandsApart
  <2> HIDE DEF d, s
  <2>3. ConnTypes(conn[d]) /\ ConnTypes(conn'[d]) /\ NumbersKept(conn[d], conn'[d], {})
    BY <1>3, <2>1 DEF CycleInv, ConnInv, QueueInv, Continues
  <2>4. /\ conn[d].nextSeq \in Nat /\ conn'[d].nextSeq \in Nat
        /\ conn[d].nextSeq <= conn'[d].nextSeq
    BY <2>3 DEF ConnTypes, NumbersKept
  <2>5. s < conn'[d].nextSeq /\ ~(s >= conn[d].nextSeq)
    BY <2>1, <2>2, <2>4
  <2>6. s \notin Held(conn'[d])
    BY <2>2, <2>3, <2>5 DEF NumbersKept
  <2> QED
    BY <2>1, <2>2, <2>5, <2>6 DEF d, s
<1>9. ASSUME NEW i \in DOMAIN commands', IsFinished(i)'
      PROVE  /\ commands'[i].seq < conn'[commands'[i].conn].nextSeq
             /\ commands'[i].seq \notin Held(conn'[commands'[i].conn])
  <2>1. CASE i \in DOMAIN commands /\ IsFinished(i) /\ commands'[i] = commands[i]
    BY <1>8, <2>1
  <2>2. CASE i - Len(commands) \in DOMAIN q /\ commands'[i] = q[i - Len(commands)]
    BY <1>3, <1>5, <1>6, <2>2
  <2> QED
    BY <1>7, <1>9, <2>1, <2>2
<1>10. ASSUME NEW i \in DOMAIN commands', NEW j \in DOMAIN commands',
              IsFinished(i)', IsFinished(j)',
              commands'[i].conn = commands'[j].conn, commands'[i].seq = commands'[j].seq
       PROVE  i = j
  <2> DEFINE Old(k) == k \in DOMAIN commands /\ IsFinished(k) /\ commands'[k] = commands[k]
             New(k) == /\ k - Len(commands) \in DOMAIN q
                       /\ commands'[k] = q[k - Len(commands)]
  <2>1. (Old(i) \/ New(i)) /\ (Old(j) \/ New(j))
    BY <1>7, <1>10
  <2>2. CASE Old(i) /\ Old(j)
    BY <1>10, <2>2 DEF CycleInv, CommandsApart
  <2>3. CASE New(i) /\ New(j)
    <3>1. /\ i - Len(commands) \in DOMAIN conn[c].signals
          /\ j - Len(commands) \in DOMAIN conn[c].signals
          /\ conn[c].signals[i - Len(commands)].seq = conn[c].signals[j - Len(commands)].seq
      BY <1>6, <1>10, <2>3
    <3>2. i - Len(commands) = j - Len(commands)
      BY <1>1, <3>1 DEF ConnInv, QueueInv, Distinct, NoRepeats
    <3> QED
      BY <1>2, <3>2
  <2>4. CASE Old(i) /\ New(j)
    BY <1>5, <1>6, <1>8, <1>10, <2>4
  <2>5. CASE New(i) /\ Old(j)
    BY <1>5, <1>6, <1>8, <1>10, <2>5
  <2> QED
    BY <2>1, <2>2, <2>3, <2>4, <2>5
<1>11. CommandsApart'
  BY <1>9, <1>10 DEF CommandsApart
<1>12. PolicyApart'
  BY DEF PolicyApart, Working
<1> QED
  BY <1>3, <1>4, <1>11, <1>12 DEF CycleInv

\* The receive callback of a connection: answers, or the end of its channel.
LEMMA receiveStep ==
    ASSUME CycleInv, UNCHANGED conf, NEW c \in Conns, handleReceiveCallback(c)
    PROVE  CycleInv'
<1> DEFINE cn == conn[c]
           x == [cn EXCEPT !.signals = <<>>, !.blocked = FALSE]
           taken == [i \in DOMAIN cn.signals |->
                       [type |-> "finished", conn |-> c, seq |-> cn.signals[i].seq,
                        handled |-> cn.signals[i].handled]]
           q == IF cn.status = "BROKEN" THEN <<>> ELSE taken
           told == IF c \in Monitors \/ cn.status # "NORMAL" THEN <<>>
                   ELSE <<[type |-> "broken", conn |-> c]>>
<1>1. /\ thread = Idle /\ lastKey' = lastKey /\ nextEvent' = nextEvent
      /\ \/ /\ conn' = [conn EXCEPT ![c] = x] /\ commands' = commands \o q
            /\ thread' = [pc |-> "commands",
                          unregister |-> IF cn.open THEN {} ELSE {c}]
         \/ /\ conn' = [conn EXCEPT ![c] = Unregistered(cn)]
            /\ commands' = commands \o told /\ thread' = thread
  <2>1. [conn EXCEPT ![c].signals = <<>>, ![c].blocked = FALSE] = [conn EXCEPT ![c] = x]
    BY DEF CycleInv, CycleTypes
  <2> QED
    BY <2>1 DEF handleReceiveCallback
<1>2. /\ ConnInv(cn) /\ QueueInv(cn) /\ ConnTypes(cn) /\ commands \in Seq(Commands)
      /\ cn.signals \in Seq(Signals)
  BY DEF CycleInv, CycleTypes, ConnInv, QueueInv, ConnTypes
<1>3. CASE /\ conn' = [conn EXCEPT ![c] = x] /\ commands' = commands \o q
           /\ thread' = [pc |-> "commands",
                         unregister |-> IF cn.open THEN {} ELSE {c}]
  <2>1. /\ x = [f \in Fields |-> x[f]]
        /\ x.signals = <<>> /\ x.blocked = FALSE
        /\ \A f \in Fields \ {"signals", "blocked"} : x[f] = cn[f]
    BY <1>2 DEF ConnTypes, Fields
  <2> HIDE DEF x, cn
  <2>2. /\ x.signals = <<>> /\ x.blocked = FALSE
        /\ x.status = cn.status /\ x.registered = cn.registered
        /\ x.keyMementos = cn.keyMementos
        /\ x.motionMementos = cn.motionMementos /\ x.nextSeq = cn.nextSeq
        /\ x.pending = cn.pending /\ x.outbound = cn.outbound /\ x.wait = cn.wait
        /\ x.unread = cn.unread /\ x.reading = cn.reading /\ x.open = cn.open
    BY <2>1 DEF Fields
  <2>3. ConnTypes(x)
    <3>1. x = [f \in Fields |-> x[f]]
      BY <2>1
    <3>2. x.signals \in Seq(Signals) /\ x.blocked \in BOOLEAN
      BY <2>2, EmptySeq
    <3> QED
      BY <1>2, <2>2, <3>1, <3>2 DEF ConnTypes
  <2>4. /\ SeqsOf(x.signals) = {} /\ NoRepeats(x.signals) /\ Unread(x) = Unread(cn)
        /\ Held(x) = SeqsOf(cn.outbound) \cup Unread(cn) \cup cn.reading
    BY <2>2 DEF SeqsOf, Range, NoRepeats, Unread, Held
  <2>5. ConnInv(x) /\ Continues(cn, x)
    <3>1. /\ OnceEach(x.unread) /\ Len(x.unread) <= Len(cn.unread)
          /\ Unread(x) \cap (x.reading \cup SeqsOf(x.signals)) = {}
      <4>1. Len(cn.unread) \in Nat
        BY <1>2 DEF ConnTypes
      <4> QED
        BY <1>2, <2>2, <2>4, <4>1 DEF QueueInv, Distinct, Apart
    <3> QED
      BY <1>2, <2>2, <2>3, <2>4, <3>1, SocketInv
  <2>6. /\ q \in Seq(Commands)
        /\ \A j \in DOMAIN q :
              /\ j \in DOMAIN cn.signals /\ q[j].type = "finished"
              /\ q[j].conn = c /\ q[j].seq = cn.signals[j].seq
    <3>1. taken \in Seq(Commands)
      <4>1. \A s \in Signals :
               [type |-> "finished", conn |-> c, seq |-> s.seq, handled |-> s.handled]
                  \in Commands
        BY DEF Signals, Commands
      <4>2. /\ DOMAIN cn.signals = 1 .. Len(cn.signals) /\ Len(cn.signals) \in Nat
            /\ \A i \in DOMAIN cn.signals : cn.signals[i] \in Signals
        BY <1>2
      <4>3. taken \in [1 .. Len(cn.signals) -> Commands]
        BY <4>1, <4>2
      <4> HIDE DEF taken
      <4> QED
        BY <4>2, <4>3, SequenceMade
    <3>2. CASE cn.status = "BROKEN"
      BY <3>2, EmptySeq
    <3>3. CASE cn.status # "BROKEN"
      BY <3>1, <3>3
    <3> QED
      BY <3>2, <3>3
  <2>7. Working(thread')
    BY <1>3 DEF Working
  <2> HIDE DEF q
  <2> QED
    BY <1>1, <1>3, <2>4, <2>5, <2>6, <2>7, AnswersTaken DEF cn
<1>4. CASE /\ conn' = [conn EXCEPT ![c] = Unregistered(cn)]
           /\ commands' = commands \o told /\ thread' = thread
  <2>1. /\ conn' = [d \in Conns |-> conn'[d]]
        /\ \A d \in Conns : ConnInv(conn'[d]) /\ Continues(conn[d], conn'[d])
    BY <1>2, <1>4, GivenUpInv, OneConnection
  <2>2. /\ told \in Seq(Commands) /\ \A i \in DOMAIN told : told[i].type = "broken"
    <3>1. [type |-> "broken", conn |-> c] \in Commands
      BY DEF Commands
    <3>2. CASE told = <<>>
      BY <3>2, EmptySeq
    <3>3. CASE told = <<[type |-> "broken", conn |-> c]>>
      BY <3>1, <3>3
    <3> QED
      BY <3>2, <3>3
  <2> HIDE DEF told
  <2>3. /\ commands' \in Seq(Commands)
        /\ DOMAIN commands = 1 .. Len(commands) /\ Len(commands) \in Nat
        /\ DOMAIN told = 1 .. Len(told) /\ Len(told) \in Nat
        /\ DOMAIN commands' = 1 .. (Len(commands) + Len(told))
        /\ \A i \in DOMAIN commands' :
              commands'[i] = IF i <= Len(commands) THEN commands[i]
                             ELSE told[i - Len(commands)]
    BY <1>2, <1>4, <2>2
  <2>4. ASSUME NEW i \in FinishedIn(commands')
        PROVE  i \in DOMAIN commands /\ commands'[i] = commands[i]
    <3>1. i \in DOMAIN commands' /\ commands'[i].type = "finished"
      BY DEF FinishedIn
    <3>2. i <= Len(commands)
      <4> SUFFICES ASSUME ~(i <= Len(commands)) PROVE FALSE
        OBVIOUS
      <4>1. i - Len(commands) \in DOMAIN told /\ commands'[i] = told[i - Len(commands)]
        BY <2>3, <3>1
      <4> QED
        BY <2>2, <3>1, <4>1
    <3> QED
      BY <2>3, <3>1, <3>2
  <2>5. lastKey' = NoKey \/ lastKey' \in KeyEvents
    BY <1>1 DEF CycleInv, CycleTypes
  <2>6. nextEvent' \in Nat \ {0}
    BY <1>1 DEF CycleInv, CycleTypes
  <2>7. commands' \in Seq(Commands)
    BY <2>3
  <2> QED
    BY <1>4, <2>1, <2>4, <2>5, <2>6, <2>7, ConnectionsGoOn
<1> QED
  BY <1>1, <1>3, <1>4

\* A step that finishes a dispatch cycle: one number goes back, and no command
\* that stays in the queue, behind the first k, answers for it.
LEMMA AnswerStep ==
    ASSUME CycleInv, conf' = conf, NEW c \in Conns, NEW s, NEW k \in {0, 1},
           conn' = [d \in Conns |-> conn'[d]],
           \A d \in Conns :
              /\ ConnInv(conn'[d])
              /\ NumbersKept(conn[d], conn'[d], IF d = c THEN {s} ELSE {}),
           \A i \in FinishedIn(commands) :
              i > k => ~(commands[i].conn = c /\ commands[i].seq = s),
           NEW q \in Seq(Commands),
           \A i \in DOMAIN q : i + k \in DOMAIN commands /\ q[i] = commands[i + k],
           NEW broke \in SUBSET Conns, commands' = q \o NotifyBroken(broke),
           Working(thread'),
           lastKey' = NoKey \/ lastKey' \in KeyEvents, nextEvent' = nextEvent
    PROVE  CycleInv'
<1> DEFINE back == [d \in Conns |-> IF d = c THEN {s} ELSE {}]
<1>1. \A d \in Conns :
         /\ ConnTypes(conn'[d]) /\ DOMAIN conn'[d].pending = DOMAIN conn[d].pending
         /\ NumbersKept(conn[d], conn'[d], back[d])
  BY DEF ConnInv, QueueInv, NumbersKept
<1>2. \A i \in FinishedIn(commands) :
         i > k => commands[i].seq \notin back[commands[i].conn]
  <2>1. commands \in Seq(Commands) /\ \A x \in Commands : x.conn \in Conns
    BY DEF CycleInv, CycleTypes, Commands
  <2>2. \A i \in FinishedIn(commands) : commands[i].conn \in Conns
    BY <2>1 DEF FinishedIn
  <2> QED
    BY <2>2
<1> HIDE DEF back
<1>3. /\ commands' \in Seq(Commands)
      /\ FinishedIn(commands') \subseteq DOMAIN q
      /\ \A i \in FinishedIn(commands') : commands'[i] = q[i]
  BY BrokenAdded
<1>4. \A i \in FinishedIn(commands') :
         i + k \in DOMAIN commands /\ commands'[i] = commands[i + k]
  BY <1>3
<1>5. CommandsApart'
  <2>1. k \in Nat
    OBVIOUS
  <2> QED
    BY <1>1, <1>2, <1>3, <1>4, <2>1, CommandsKept
<1>6. CycleTypes'
  <2>1. nextEvent' \in Nat \ {0}
    BY DEF CycleInv, CycleTypes
  <2> QED
    BY <1>1, <1>3, <2>1, WorkingTypes, TypesKept
<1>7. PolicyApart'
  BY DEF PolicyApart, Working
<1> QED
  BY <1>5, <1>6, <1>7 DEF CycleInv

\* What the operations on fallback keys leave alone.
LEMMA FallbackInv ==
    ASSUME NEW cn, QueueInv(cn), NEW code, NEW fallback, NEW new,
           \/ new = setFallbackKey(cn, code, fallback)
           \/ new = removeFallbackKey(cn, code)
           \/ new = cn
    PROVE  /\ QueueInv(new) /\ Continues(cn, new) /\ ConnTypes(new)
           /\ Sending(cn) => Sending(new)
           /\ new.wait = cn.wait /\ new.status = cn.status
           /\ new.nextSeq = cn.nextSeq /\ Held(new) = Held(cn)
           /\ \A e : Matches(cn, e) => Matches(new, e)
<1>1. ConnTypes(cn)
  BY DEF QueueInv
<1>2. SameQueues(cn, new)
  BY <1>1, FallbackKept DEF SameQueues
<1>3. /\ QueueInv(new) /\ Continues(cn, new) /\ (Sending(cn) => Sending(new))
      /\ new.wait = cn.wait /\ new.status = cn.status
      /\ new.nextSeq = cn.nextSeq /\ Held(new) = Held(cn)
  BY <1>2, SameQueuesInv
<1> QED
  BY <1>3 DEF Matches, QueueInv

\* A step of one connection only, as the lemmas above want it.
LEMMA OneKeeps ==
    ASSUME CycleInv, NEW c \in Conns, NEW x, NEW S, conn' = [conn EXCEPT ![c] = x],
           ConnInv(x), NumbersKept(conn[c], x, S)
    PROVE  /\ conn' = [d \in Conns |-> conn'[d]] /\ conn'[c] = x
           /\ \A d \in Conns :
                 /\ ConnInv(conn'[d])
                 /\ NumbersKept(conn[d], conn'[d], IF d = c THEN S ELSE {})
<1>1. /\ conn' = [d \in Conns |-> conn'[d]] /\ conn'[c] = x
      /\ \A d \in Conns : d # c => conn'[d] = conn[d]
  BY OneConnection
<1>2. \A d \in Conns : ConnInv(conn[d]) /\ NumbersKept(conn[d], conn[d], {})
  BY ContinuesSame DEF CycleInv, ConnInv, QueueInv, Continues
<1> QED
  BY <1>1, <1>2

\* The commands behind the first one.
LEMMA BehindFirst ==
    ASSUME NEW q \in Seq(Commands), q # <<>>
    PROVE  /\ 1 \in DOMAIN q /\ Head(q) = q[1] /\ Head(q) \in Commands
           /\ Tail(q) \in Seq(Commands)
           /\ \A i \in DOMAIN Tail(q) : i + 1 \in DOMAIN q /\ Tail(q)[i] = q[i + 1]
OBVIOUS

\* An answer ends the dispatch cycle of its entry, or the policy is asked first.
LEMMA answerStep ==
    ASSUME CycleInv, UNCHANGED conf, doDispatchCycleFinished
    PROVE  CycleInv'
<1> DEFINE cmd == Head(commands)
           c == cmd.conn
           cn == conn[c]
           e == findWaitQueueEntry(cn, cmd.seq)
           forgotten == IF e.type = "KEY" /\ ~e.flagged /\ e.action = "UP"
                        THEN removeFallbackKey(cn, e.code) ELSE cn
           done == Finished(forgotten, e, FALSE)
           new == [conn EXCEPT ![c] = done]
           broke == {d \in Conns : conn[d].status = "NORMAL" /\ new[d].status = "BROKEN"}
           question == PolicyQuestion(cn, e, cmd.handled)
<1>1. /\ thread.pc = "commands" /\ commands # <<>> /\ cmd.type = "finished"
      /\ lastKey' = lastKey /\ nextEvent' = nextEvent
      /\ \/ /\ ~InWait(cn, cmd.seq) /\ commands' = Tail(commands)
            /\ conn' = conn /\ thread' = thread
         \/ /\ InWait(cn, cmd.seq) /\ conn' = new /\ thread' = thread
            /\ commands' = Tail(commands) \o NotifyBroken(broke)
         \/ /\ InWait(cn, cmd.seq) /\ conn' = [conn EXCEPT ![c] = forgotten]
            /\ commands' = Tail(commands)
            /\ thread' = [pc |-> "policy", unregister |-> thread.unregister,
                          question |-> question, conn |-> c, entry |-> e,
                          fallback |-> FallbackOf(cn, e.code)]
  BY DEF doDispatchCycleFinished, BrokenCommands
<1>2. /\ commands \in Seq(Commands)
      /\ 1 \in DOMAIN commands /\ cmd = commands[1] /\ cmd \in Commands
      /\ Tail(commands) \in Seq(Commands)
      /\ \A i \in DOMAIN Tail(commands) :
            i + 1 \in DOMAIN commands /\ Tail(commands)[i] = commands[i + 1]
  BY <1>1, BehindFirst DEF CycleInv, CycleTypes
<1>3. c \in Conns /\ cmd.seq \in Nat /\ IsFinished(1)
  BY <1>1, <1>2 DEF Commands, IsFinished
<1>4. /\ cmd.seq < cn.nextSeq /\ cmd.seq \notin Held(cn)
      /\ \A i \in DOMAIN commands :
            IsFinished(i) /\ commands[i].conn = c /\ commands[i].seq = cmd.seq => i = 1
  BY <1>2, <1>3 DEF CycleInv, CommandsApart
<1>5. ConnInv(cn) /\ QueueInv(cn) /\ ConnTypes(cn)
  BY <1>3 DEF CycleInv, ConnInv, QueueInv
<1>6. thread.unregister \subseteq Conns /\ Working(thread) /\ ThreadTypes(thread)
  BY <1>1 DEF CycleInv, CycleTypes, ThreadTypes, Working
<1> HIDE DEF cmd, c, cn
<1>7. CASE /\ ~InWait(cn, cmd.seq) /\ commands' = Tail(commands)
           /\ conn' = conn /\ thread' = thread
  <2>1. /\ conn' = [d \in Conns |-> conn'[d]]
        /\ \A d \in Conns : ConnInv(conn'[d]) /\ NumbersKept(conn[d], conn'[d], {})
    <3>1. \A d \in Conns : ConnInv(conn[d]) /\ NumbersKept(conn[d], conn[d], {})
      BY ContinuesSame DEF CycleInv, ConnInv, QueueInv, Continues
    <3>2. conn = [d \in Conns |-> conn[d]]
      BY DEF CycleInv, CycleTypes
    <3> QED
      BY <1>7, <3>1, <3>2
  <2>2. CycleTypes' /\ CommandsApart'
    BY <1>1, <1>6, <1>7, <2>1, CommandsStay
  <2>3. PolicyApart'
    BY <1>1, <1>7 DEF PolicyApart
  <2> QED
    BY <2>1, <2>2, <2>3 DEF CycleInv
<1>8. ASSUME InWait(cn, cmd.seq)
      PROVE  /\ e \in Entries /\ e \in Range(cn.wait) /\ e.seq = cmd.seq
             /\ cn.status = "NORMAL" /\ Matches(cn, e)
  <2> DEFINE i == waitQueueIndex(cn, cmd.seq)
  <2>1. i \in DOMAIN cn.wait /\ cn.wait[i].seq = cmd.seq
    BY <1>8 DEF InWait, waitQueueIndex
  <2>2. e = cn.wait[i]
    BY DEF findWaitQueueEntry
  <2> HIDE DEF i, e
  <2>3. cn.wait \in Seq(Entries) /\ NoRepeats(cn.wait)
    BY <1>5 DEF ConnTypes, QueueInv, Distinct
  <2>4. e \in Entries /\ e \in Range(cn.wait) /\ e.seq = cmd.seq
    BY <2>1, <2>2, <2>3 DEF Range
  <2>5. \A w \in Range(cn.wait) : w.seq = e.seq => w = e
    BY <2>1, <2>2, <2>3, <2>4 DEF Range, NoRepeats
  <2>6. cn.wait # <<>>
    BY <2>1
  <2>7. cn.status = "NORMAL"
    BY <1>5, <2>6 DEF QueueInv, Alive
  <2>8. Matches(cn, e)
    BY <1>4, <2>4, <2>5 DEF Matches
  <2> QED
    BY <2>4, <2>7, <2>8
<1> HIDE DEF e
<1>9. /\ QueueInv(forgotten) /\ Continues(cn, forgotten) /\ ConnTypes(forgotten)
      /\ Sending(forgotten)
      /\ forgotten.wait = cn.wait /\ forgotten.status = cn.status
      /\ forgotten.nextSeq = cn.nextSeq /\ Held(forgotten) = Held(cn)
      /\ Matches(cn, e) => Matches(forgotten, e)
  <2>1. forgotten = removeFallbackKey(cn, e.code) \/ forgotten = cn
    OBVIOUS
  <2> HIDE DEF forgotten
  <2> QED
    BY <1>5, <2>1, FallbackInv DEF ConnInv
<1> HIDE DEF forgotten
<1>10. CASE /\ InWait(cn, cmd.seq) /\ conn' = new /\ thread' = thread
            /\ commands' = Tail(commands) \o NotifyBroken(broke)
  <2>1. e \in Entries /\ e.seq = cmd.seq /\ Matches(forgotten, e) /\ FALSE \in BOOLEAN
    BY <1>8, <1>9, <1>10
  <2>2. ConnInv(done) /\ NumbersKept(forgotten, done, {e.seq})
    BY <1>9, <2>1, FinishedInv
  <2> HIDE DEF done
  <2>3. NumbersKept(cn, done, {cmd.seq})
    <3>1. ConnTypes(done) /\ NumbersKept(cn, forgotten, {})
      BY <1>9, <2>2 DEF ConnInv, QueueInv, Continues
    <3>2. {} \cup {e.seq} = {cmd.seq}
      BY <2>1
    <3>3. NumbersKept(cn, done, {} \cup {e.seq})
      BY <1>5, <1>9, <2>2, <3>1, KeptTwice
    <3> QED
      BY <3>2, <3>3
  <2>4. /\ conn' = [d \in Conns |-> conn'[d]]
        /\ \A d \in Conns :
              /\ ConnInv(conn'[d])
              /\ NumbersKept(conn[d], conn'[d], IF d = c THEN {cmd.seq} ELSE {})
    BY <1>3, <1>10, <2>2, <2>3, OneKeeps DEF cn
  <2>5. \A i \in FinishedIn(commands) :
           i > 1 => ~(commands[i].conn = c /\ commands[i].seq = cmd.seq)
    BY <1>4 DEF FinishedIn, IsFinished
  <2>6. broke \in SUBSET Conns
    OBVIOUS
  <2>7. lastKey' = NoKey \/ lastKey' \in KeyEvents
    BY <1>1 DEF CycleInv, CycleTypes
  <2> HIDE DEF broke
  <2> QED
    BY <1>1, <1>2, <1>3, <1>6, <1>10, <2>4, <2>5, <2>6, <2>7, AnswerStep
<1>11. CASE /\ InWait(cn, cmd.seq) /\ conn' = [conn EXCEPT ![c] = forgotten]
            /\ commands' = Tail(commands)
            /\ thread' = [pc |-> "policy", unregister |-> thread.unregister,
                          question |-> question, conn |-> c, entry |-> e,
                          fallback |-> FallbackOf(cn, e.code)]
  <2> HIDE DEF question
  <2>1. e \in Entries /\ e \in Range(cn.wait) /\ e.seq = cmd.seq /\ Matches(forgotten, e)
    BY <1>8, <1>9, <1>11
  <2>2. ConnInv(forgotten) /\ NumbersKept(cn, forgotten, {})
    BY <1>9 DEF ConnInv, Continues
  <2>3. /\ conn' = [d \in Conns |-> conn'[d]] /\ conn'[c] = forgotten
        /\ \A d \in Conns :
              /\ ConnInv(conn'[d])
              /\ NumbersKept(conn[d], conn'[d], IF d = c THEN {} ELSE {})
    BY <1>3, <1>11, <2>2, OneKeeps DEF cn
  <2>4. \A d \in Conns : ConnInv(conn'[d]) /\ NumbersKept(conn[d], conn'[d], {})
    BY <2>3
  <2>5. /\ thread'.pc = "policy" /\ thread'.unregister = thread.unregister
        /\ thread'.conn = c /\ thread'.entry = e
    BY <1>11
  <2>6. ThreadTypes(thread')
    BY <1>3, <1>6, <2>1, <2>5 DEF ThreadTypes
  <2>7. CycleTypes' /\ CommandsApart'
    BY <1>1, <1>11, <2>3, <2>4, <2>6, CommandsStay
  <2>8. Asked(forgotten, e)
    <3>1. e.seq \in SeqsOf(forgotten.wait)
      BY <1>9, <2>1 DEF SeqsOf
    <3>2. forgotten.status = "NORMAL"
      BY <1>8, <1>9, <1>11
    <3> QED
      BY <2>1, <3>1, <3>2 DEF Asked, Matches
  <2>9. ASSUME NEW i \in DOMAIN commands', IsFinished(i)', commands'[i].conn = c,
               commands'[i].seq = e.seq
        PROVE  FALSE
    <3>1. i + 1 \in DOMAIN commands /\ commands'[i] = commands[i + 1] /\ i \in Nat
      BY <1>2, <1>11, <2>9
    <3>2. i + 1 = 1
      BY <1>4, <2>1, <2>9, <3>1 DEF IsFinished
    <3>3. i # 0
      BY <1>2, <1>11
    <3> QED
      BY <3>1, <3>2, <3>3
  <2>10. PolicyApart'
    BY <2>3, <2>5, <2>8, <2>9 DEF PolicyApart
  <2> QED
    BY <2>4, <2>7, <2>10 DEF CycleInv
<1> QED
  BY <1>1, <1>7, <1>10, <1>11

\* When the policy has answered, the cycle of the entry it was asked about is
\* finished like any other: whatever happened meanwhile, the number of the entry
\* is nowhere else.
LEMMA AnswerAfterPolicy ==
    ASSUME CycleInv, conf' = conf, NEW world, NEW mid, NEW entry \in Entries,
           NEW restart \in BOOLEAN, thread.pc = "policy",
           entry.seq = thread.entry.seq,
           conn' = [world EXCEPT ![thread.conn] = Finished(mid, entry, restart)],
           world = [d \in Conns |-> world[d]],
           \A d \in Conns \ {thread.conn} :
              ConnInv(world[d]) /\ NumbersKept(conn[d], world[d], {}),
           QueueInv(mid), NumbersKept(conn[thread.conn], mid, {}), Matches(mid, entry),
           NEW broke \in SUBSET Conns, commands' = commands \o NotifyBroken(broke),
           Working(thread'),
           lastKey' = NoKey \/ lastKey' \in KeyEvents, nextEvent' = nextEvent
    PROVE  CycleInv'
<1> DEFINE c == thread.conn
           s == entry.seq
           done == Finished(mid, entry, restart)
<1>1. c \in Conns /\ ConnTypes(conn[c])
  BY DEF CycleInv, CycleTypes, ThreadTypes, ConnInv, QueueInv
<1>2. ConnInv(done) /\ NumbersKept(mid, done, {s})
  BY FinishedInv
<1> HIDE DEF done
<1>3. NumbersKept(conn[c], done, {s})
  <2>1. ConnTypes(done) /\ ConnTypes(mid) /\ {} \cup {s} = {s}
    BY <1>2 DEF ConnInv, QueueInv
  <2>2. NumbersKept(conn[c], done, {} \cup {s})
    BY <1>1, <1>2, <2>1, KeptTwice
  <2> QED
    BY <2>1, <2>2
<1>4. /\ conn' = [d \in Conns |-> conn'[d]] /\ conn'[c] = done
      /\ \A d \in Conns \ {c} : conn'[d] = world[d]
  BY <1>1 DEF done
<1>5. \A d \in Conns :
         ConnInv(conn'[d]) /\ NumbersKept(conn[d], conn'[d], IF d = c THEN {s} ELSE {})
  <2>1. \A d \in Conns \ {c} :
           ConnInv(conn'[d]) /\ NumbersKept(conn[d], conn'[d], {})
    BY <1>4
  <2>2. ConnInv(conn'[c]) /\ NumbersKept(conn[c], conn'[c], {s})
    BY <1>2, <1>3, <1>4
  <2> QED
    BY <2>1, <2>2
<1>6. \A i \in FinishedIn(commands) :
         i > 0 => ~(commands[i].conn = c /\ commands[i].seq = s)
  BY DEF CycleInv, PolicyApart, FinishedIn, IsFinished
<1>7. /\ commands \in Seq(Commands)
      /\ \A i \in DOMAIN commands : i + 0 \in DOMAIN commands /\ commands[i] = commands[i + 0]
  <2>1. commands \in Seq(Commands)
    BY DEF CycleInv, CycleTypes
  <2>2. \A i \in DOMAIN commands : i + 0 = i
    BY <2>1
  <2> QED
    BY <2>1, <2>2
<1> HIDE DEF c, s
<1>8. 0 \in {0, 1}
  OBVIOUS
<1> QED
  BY <1>1, <1>4, <1>5, <1>6, <1>7, <1>8, AnswerStep

\* The connection that is asked about, with the fallback keys and cancelations
\* that the policy's answer calls for.
LEMMA PreparedAnswer ==
    ASSUME NEW cn, ConnInv(cn), NEW e \in Entries, Asked(cn, e),
           NEW code, NEW x, NEW y, NEW fallback, NEW latched, NEW new,
           latched = setFallbackKey(cn, code, x) \/ latched = cn,
           \/ new = removeFallbackKey(cn, code)
           \/ new = latched
           \/ new = CancelFallback(latched, fallback)
           \/ new = setFallbackKey(CancelFallback(latched, fallback), code, y)
           \/ new = removeFallbackKey(CancelFallback(latched, fallback), code)
    PROVE  QueueInv(new) /\ NumbersKept(cn, new, {}) /\ Matches(new, e)
<1> DEFINE cancelled == CancelFallback(latched, fallback)
<1>1. /\ QueueInv(cn) /\ ConnTypes(cn) /\ Sending(cn) /\ cn.status # "NEW"
      /\ Matches(cn, e)
  BY DEF ConnInv, QueueInv, Asked, Matches
<1>2. /\ ConnInv(latched) /\ Continues(cn, latched) /\ ConnTypes(latched)
      /\ latched.status = cn.status /\ Matches(latched, e)
  BY <1>1, FallbackInv DEF ConnInv
<1>3. ConnInv(cancelled) /\ Continues(latched, cancelled)
  BY <1>1, <1>2, CancelFallbackInv
<1>4. /\ ConnTypes(cancelled) /\ QueueInv(cancelled) /\ Continues(cn, cancelled)
      /\ Matches(cancelled, e)
  <2>1. ConnTypes(cancelled) /\ QueueInv(cancelled)
    BY <1>3 DEF ConnInv, QueueInv
  <2>2. Continues(cn, cancelled)
    BY <1>1, <1>2, <1>3, <2>1, ContinuesTwice
  <2>3. Asked(cancelled, e)
    BY <1>1, <2>1, <2>2, AskedContinues
  <2> QED
    BY <2>1, <2>2, <2>3 DEF Asked, Matches
<1> HIDE DEF cancelled
<1>5. CASE new = removeFallbackKey(cn, code)
  BY <1>1, <1>5, FallbackInv DEF Continues
<1>6. CASE new = latched
  BY <1>2, <1>6 DEF ConnInv, Continues
<1>7. CASE \/ new = cancelled
           \/ new = setFallbackKey(cancelled, code, y)
           \/ new = removeFallbackKey(cancelled, code)
  <2>1. QueueInv(new) /\ Continues(cancelled, new) /\ ConnTypes(new) /\ Matches(new, e)
    BY <1>4, <1>7, FallbackInv
  <2>2. Continues(cn, new)
    BY <1>1, <1>4, <2>1, ContinuesTwice
  <2> QED
    BY <2>1, <2>2 DEF Continues
<1> QED
  BY <1>5, <1>6, <1>7 DEF cancelled

\* What is known when the policy returns.
LEMMA PolicyAsked ==
    ASSUME CycleInv, thread.pc = "policy"
    PROVE  /\ thread.conn \in Conns /\ thread.entry \in Entries
           /\ thread.unregister \subseteq Conns
           /\ ConnInv(conn[thread.conn]) /\ Asked(conn[thread.conn], thread.entry)
           /\ conn = [d \in Conns |-> conn[d]]
           /\ \A d \in Conns : ConnInv(conn[d]) /\ NumbersKept(conn[d], conn[d], {})
BY ContinuesSame DEF CycleInv, CycleTypes, ThreadTypes, PolicyApart, ConnInv, QueueInv,
                     Continues

\* The policy returns for a key that the application handled after all.
LEMMA handledStep ==
    ASSUME CycleInv, UNCHANGED conf, policyReturnsForHandledKey
    PROVE  CycleInv'
<1> DEFINE c == thread.conn
           e == thread.entry
           mid == removeFallbackKey(CancelFallback(conn[c], thread.fallback), e.code)
           broke == {d \in Conns : conn[d].status = "NORMAL" /\ conn'[d].status = "BROKEN"}
<1>1. /\ thread.pc = "policy" /\ conn' = [conn EXCEPT ![c] = Finished(mid, e, FALSE)]
      /\ commands' = commands \o NotifyBroken(broke)
      /\ thread' = [pc |-> "commands", unregister |-> thread.unregister]
      /\ lastKey' = lastKey /\ nextEvent' = nextEvent
  BY DEF policyReturnsForHandledKey, SetConnections, BrokenCommands
<1>2. /\ c \in Conns /\ e \in Entries /\ thread.unregister \subseteq Conns
      /\ ConnInv(conn[c]) /\ Asked(conn[c], e)
      /\ conn = [d \in Conns |-> conn[d]]
      /\ \A d \in Conns : ConnInv(conn[d]) /\ NumbersKept(conn[d], conn[d], {})
  BY <1>1, PolicyAsked
<1>3. QueueInv(mid) /\ NumbersKept(conn[c], mid, {}) /\ Matches(mid, e)
  BY <1>2, PreparedAnswer
<1>4. /\ Working(thread') /\ broke \in SUBSET Conns /\ FALSE \in BOOLEAN
      /\ lastKey' = NoKey \/ lastKey' \in KeyEvents
  BY <1>1, <1>2 DEF Working, CycleInv, CycleTypes
<1> HIDE DEF mid, broke
<1> QED
  BY <1>1, <1>2, <1>3, <1>4, AnswerAfterPolicy

\* A key becomes its fallback in the queues of every connection.
LEMMA SubstitutedInv ==
    ASSUME NEW cns, NEW ev, NEW code \in Codes, NEW d \in Conns
    PROVE  LET new == Substituted(cns, ev, code)[d] IN
           /\ new = [cns[d] EXCEPT !.outbound = Renamed(@, ev, code),
                                   !.wait = Renamed(@, ev, code)]
           /\ QueueInv(cns[d]) =>
                 /\ QueueInv(new) /\ NumbersKept(cns[d], new, {})
                 /\ Sending(cns[d]) => Sending(new)
                 /\ \A e \in Entries : Matches(cns[d], e) => Matches(new, e)
<1>1. Substituted(cns, ev, code)[d]
         = [cns[d] EXCEPT !.outbound = Renamed(@, ev, code),
                          !.wait = Renamed(@, ev, code)]
  BY DEF Substituted, Renamed
<1> DEFINE cn == cns[d]
           new == Substituted(cns, ev, code)[d]
<1>2. new = [cn EXCEPT !.outbound = Renamed(@, ev, code), !.wait = Renamed(@, ev, code)]
  BY <1>1
<1> HIDE DEF cn, new
<1>3. ASSUME QueueInv(cn)
      PROVE  /\ QueueInv(new) /\ NumbersKept(cn, new, {})
             /\ Sending(cn) => Sending(new)
             /\ \A e \in Entries : Matches(cn, e) => Matches(new, e)
  BY <1>2, <1>3, RenamedInv
<1> QED
  BY <1>1, <1>3 DEF cn, new

\* The policy answers with a key to send instead, or with none.
LEMMA unhandledStep ==
    ASSUME CycleInv, UNCHANGED conf, NEW answer \in Fallbacks \cup {NONE},
           policyReturns(answer)
    PROVE  CycleInv'
<1> DEFINE c == thread.conn
           e == thread.entry
           cn == conn[c]
           initialDown == e.action = "DOWN" /\ e.repeat = 0
           fallback == IF ~initialDown THEN thread.fallback
                       ELSE IF answer = NONE THEN UNKNOWN ELSE answer
           latched == IF initialDown THEN setFallbackKey(cn, e.code, fallback) ELSE cn
           withdrawn == fallback # UNKNOWN /\ answer # fallback
           cancelled == IF e.action = "UP" THEN CancelFallback(latched, fallback)
                        ELSE setFallbackKey(CancelFallback(latched, fallback),
                                            e.code, UNKNOWN)
           restart == cn.status = "NORMAL" /\ ~withdrawn /\ answer # NONE
           code == IF fallback = UNKNOWN THEN UNKNOWN ELSE answer
           before == IF cn.status # "NORMAL" THEN removeFallbackKey(cn, e.code)
                     ELSE IF withdrawn THEN cancelled ELSE latched
           started == [conn EXCEPT ![c] = before]
           world == IF restart THEN Substituted(started, e.ev, code) ELSE started
           entry == IF restart THEN [e EXCEPT !.code = code, !.flagged = TRUE] ELSE e
           broke == {d \in Conns : conn[d].status = "NORMAL" /\ conn'[d].status = "BROKEN"}
<1>1. /\ thread.pc = "policy"
      /\ conn' = [world EXCEPT ![c] = Finished(world[c], entry, restart)]
      /\ commands' = commands \o NotifyBroken(broke)
      /\ thread' = [pc |-> "commands", unregister |-> thread.unregister]
      /\ lastKey' = (IF restart /\ lastKey.ev = e.ev
                     THEN [lastKey EXCEPT !.code = code, !.flagged = TRUE] ELSE lastKey)
      /\ nextEvent' = nextEvent
  BY DEF policyReturns, SetConnections, BrokenCommands
<1>2. /\ c \in Conns /\ e \in Entries /\ thread.unregister \subseteq Conns
      /\ ConnInv(cn) /\ Asked(cn, e)
      /\ conn = [d \in Conns |-> conn[d]]
      /\ \A d \in Conns : ConnInv(conn[d]) /\ NumbersKept(conn[d], conn[d], {})
  BY <1>1, PolicyAsked
<1>3. restart => code \in Codes
  <2>1. Fallbacks \subseteq KeyCodes
    BY CycleConstants DEF CycleInv, CycleTypes, Fallbacks, Keys, It
  <2> QED
    BY <2>1 DEF Codes
<1>4. restart \in BOOLEAN
  OBVIOUS
<1>5. QueueInv(before) /\ NumbersKept(cn, before, {}) /\ Matches(before, e)
  <2>1. latched = setFallbackKey(cn, e.code, fallback) \/ latched = cn
    OBVIOUS
  <2>2. \/ before = removeFallbackKey(cn, e.code)
        \/ before = latched
        \/ before = CancelFallback(latched, fallback)
        \/ before = setFallbackKey(CancelFallback(latched, fallback), e.code, UNKNOWN)
    OBVIOUS
  <2> HIDE DEF latched, before, fallback, cn, e
  <2> QED
    BY <1>2, <2>1, <2>2, PreparedAnswer
<1>6. entry \in Entries /\ entry.seq = e.seq /\ entry.fg = e.fg /\ entry.ev = e.ev
  <2> HIDE DEF restart, code, e
  <2> QED
    BY <1>2, <1>3 DEF Entries
<1>7. lastKey' = NoKey \/ lastKey' \in KeyEvents
  <2>1. lastKey = NoKey \/ lastKey \in KeyEvents
    BY DEF CycleInv, CycleTypes
  <2> HIDE DEF restart, code, e
  <2>2. CASE lastKey = NoKey
    BY <1>1, <2>2 DEF NoKey
  <2>3. CASE lastKey \in KeyEvents
    BY <1>1, <1>3, <2>3 DEF KeyEvents
  <2> QED
    BY <2>1, <2>2, <2>3
<1>8. /\ Working(thread') /\ broke \in SUBSET Conns
  BY <1>1, <1>2 DEF Working
<1> HIDE DEF restart, code, before, entry, broke, fallback, latched, withdrawn,
             cancelled, initialDown
<1>9. /\ started = [d \in Conns |-> started[d]] /\ started[c] = before
      /\ \A d \in Conns \ {c} : started[d] = conn[d]
  BY <1>2
<1> HIDE DEF started
<1>10. /\ world = [d \in Conns |-> world[d]]
       /\ \A d \in Conns \ {c} :
             ConnInv(world[d]) /\ NumbersKept(conn[d], world[d], {})
       /\ QueueInv(world[c]) /\ NumbersKept(cn, world[c], {}) /\ Matches(world[c], e)
  <2>1. CASE ~restart
    BY <1>2, <1>5, <1>9, <2>1
  <2>2. CASE restart
    <3>1. world = Substituted(started, e.ev, code) /\ code \in Codes
      BY <1>3, <2>2
    <3> HIDE DEF world
    <3>2. world = [d \in Conns |-> world[d]]
      BY <3>1 DEF Substituted
    <3>3. \A d \in Conns : QueueInv(started[d]) =>
             /\ QueueInv(world[d]) /\ NumbersKept(started[d], world[d], {})
             /\ Sending(started[d]) => Sending(world[d])
             /\ \A x \in Entries : Matches(started[d], x) => Matches(world[d], x)
      BY <3>1, SubstitutedInv
    <3>4. \A d \in Conns \ {c} :
             ConnInv(world[d]) /\ NumbersKept(conn[d], world[d], {})
      BY <1>2, <1>9, <3>3 DEF ConnInv
    <3>5. /\ QueueInv(world[c]) /\ Matches(world[c], e)
          /\ NumbersKept(before, world[c], {})
      BY <1>2, <1>5, <1>9, <3>3
    <3>6. NumbersKept(cn, world[c], {})
      <4>1. ConnTypes(cn) /\ ConnTypes(before) /\ ConnTypes(world[c])
        BY <1>2, <1>5, <3>5 DEF ConnInv, QueueInv
      <4>2. NumbersKept(cn, world[c], {} \cup {})
        BY <1>5, <3>5, <4>1, KeptTwice
      <4>3. {} \cup {} = {}
        OBVIOUS
      <4> QED
        BY <4>2, <4>3
    <3> QED
      BY <3>2, <3>4, <3>5, <3>6
  <2> QED
    BY <2>1, <2>2
<1>11. Matches(world[c], entry)
  BY <1>6, <1>10 DEF Matches
<1> HIDE DEF world
<1> QED
  BY <1>1, <1>2, <1>4, <1>6, <1>7, <1>8, <1>10, <1>11, AnswerAfterPolicy

\* A step that changes nothing.
LEMMA stutterStep ==
    ASSUME CycleInv, UNCHANGED vars
    PROVE  CycleInv'
BY DEF vars, cycle, CycleInv, CycleTypes, MaxEvents, It, CommandsApart, PolicyApart,
       IsFinished

-----------------------------------------------------------------------------
(* Theorems *)

\* Every step keeps the invariant.
LEMMA StepInv ==
    ASSUME CycleInv, [Next]_vars
    PROVE  CycleInv'
<1>1. CASE UNCHANGED vars
  BY <1>1, stutterStep
<1>2. CASE Next
  <2>1. UNCHANGED conf /\ Step
    BY <1>2 DEF Next
  <2>2. CASE Dispatcher
    <3>1. ASSUME NEW t \in Apps, NEW k \in Keys, NEW a \in {"DOWN", "UP"},
                 dispatchKey(t, k, a)
          PROVE  CycleInv'
      BY <2>1, <3>1, dispatchSteps
    <3>2. ASSUME NEW t \in Apps, repeatKey(t)
          PROVE  CycleInv'
      BY <2>1, <3>2, dispatchSteps
    <3>3. ASSUME NEW t \in Apps, NEW d \in Devices, NEW a \in MotionActions,
                 NEW n \in BOOLEAN, NEW m \in ModesOf(a), dispatchMotion(t, d, a, m, n)
          PROVE  CycleInv'
      BY <2>1, <3>3, dispatchSteps
    <3>4. ASSUME NEW c \in Conns, handleReceiveCallback(c)
          PROVE  CycleInv'
      BY <2>1, <3>4, receiveStep
    <3>5. CASE startCommands \/ doNotifyInputChannelBroken
      BY <2>1, <3>5, commandStep
    <3>6. CASE commandsDone
      BY <2>1, <3>6, doneStep
    <3>7. CASE doDispatchCycleFinished
      BY <2>1, <3>7, answerStep
    <3>8. CASE policyReturnsForHandledKey
      BY <2>1, <3>8, handledStep
    <3>9. ASSUME NEW f \in Fallbacks \cup {NONE}, policyReturns(f)
          PROVE  CycleInv'
      BY <2>1, <3>9, unhandledStep
    <3> QED
      BY <2>2, <3>1, <3>2, <3>3, <3>4, <3>5, <3>6, <3>7, <3>8, <3>9 DEF Dispatcher
  <2>3. ASSUME NEW c \in Conns, registerInputChannel(c)
        PROVE  CycleInv'
    BY <2>1, <2>3, registerStep
  <2>4. ASSUME NEW c \in Conns, unregisterInputChannel(c)
        PROVE  CycleInv'
    BY <2>1, <2>4, unregisterStep
  <2>5. ASSUME NEW c \in Conns, NEW m \in CancelModes, cancelEvents(c, m)
        PROVE  CycleInv'
    BY <2>1, <2>5, cancelStep
  <2>6. ASSUME NEW c \in Conns, appReads(c)
        PROVE  CycleInv'
    BY <2>1, <2>6, readStep
  <2>7. ASSUME NEW c \in Conns, appDies(c)
        PROVE  CycleInv'
    BY <2>1, <2>7, dieStep
  <2>8. ASSUME NEW c \in Conns, NEW h \in Answers, NEW s \in conn[c].reading,
               appFinishes(c, s, h)
        PROVE  CycleInv'
    <3>1. h \in BOOLEAN
      BY DEF Answers
    <3> QED
      BY <2>1, <2>8, <3>1, finishStep
  <2> QED
    BY <2>1, <2>2, <2>3, <2>4, <2>5, <2>6, <2>7, <2>8 DEF Step
<1> QED
  BY <1>1, <1>2

\* Each number that an event was sent under is in one place at a time.
LEMMA CycleHolds == Spec => []CycleInv
<1>1. Init => CycleInv
  BY InitInv
<1>2. CycleInv /\ [Next]_vars => CycleInv'
  BY StepInv
<1> QED
  BY <1>1, <1>2, PTL DEF Spec

\* The dispatches that an injector waits for are the foreground entries that are
\* queued, whatever is drained, cancelled, resent or answered late: the count of
\* incrementPendingForegroundDispatchesLocked neither leaks nor counts twice.
THEOREM PendingIsQueued == Spec => []ForegroundCountExact
<1>1. ASSUME CycleInv PROVE ForegroundCountExact
  <2> SUFFICES ASSUME NEW c \in Conns, NEW ev \in 1 .. MaxEvents
               PROVE  conn[c].pending[ev] = Cardinality(Foreground(conn[c], ev))
    BY DEF ForegroundCountExact
  <2>1. QueueInv(conn[c]) /\ DOMAIN conn[c].pending = 1 .. MaxEvents
    BY <1>1 DEF CycleInv, CycleTypes, ConnInv
  <2>2. conn[c].pending[ev] = Cardinality(ForegroundSeqs(conn[c], ev))
    BY <2>1 DEF QueueInv, Counted
  <2>3. Cardinality(Foreground(conn[c], ev)) = Cardinality(ForegroundSeqs(conn[c], ev))
    BY <2>1, ForegroundCount DEF QueueInv, ConnTypes, Distinct, Apart
  <2> QED
    BY <2>2, <2>3
<1> QED
  BY <1>1, CycleHolds, PTL

\* A number that a queue has belongs to one of its entries.
LEMMA WaitsFor ==
    ASSUME NEW cn, NEW s
    PROVE  s \in SeqsOf(cn.wait) <=> InWait(cn, s)
BY DEF SeqsOf, Range, InWait

\* While entries wait in an outbound queue, an answer is due that sends them, and
\* what an application has not read is in the wait queue. So the case that
\* startDispatchCycleLocked calls unexpected, a full socket with an empty wait
\* queue, cannot occur for an application that lives.
THEOREM QueueIsSent == Spec => []AnswerOwed
<1>1. ASSUME CycleInv PROVE AnswerOwed
  <2> SUFFICES ASSUME NEW c \in Conns, conn[c].status = "NORMAL"
               PROVE  /\ conn[c].outbound # <<>> => conn[c].wait # <<>>
                      /\ \A i \in DOMAIN conn[c].unread :
                            InWait(conn[c], conn[c].unread[i])
    BY DEF AnswerOwed
  <2>1. QueueInv(conn[c]) /\ Sending(conn[c])
    BY <1>1 DEF CycleInv, ConnInv
  <2>2. \A i \in DOMAIN conn[c].unread : conn[c].unread[i] \in SeqsOf(conn[c].wait)
    BY <2>1 DEF QueueInv, UnreadOwed, Unread, Range
  <2> QED
    BY <2>1, <2>2, WaitsFor DEF Sending
<1> QED
  BY <1>1, CycleHolds, PTL

\* doDispatchCycleFinishedLockedInterruptible may use the entry after the policy
\* was called with mLock released: while the connection is in order, it is queued.
THEOREM EntrySurvivesPolicy == Spec => []EntryOutlivesPolicyCall
<1>1. ASSUME CycleInv PROVE EntryOutlivesPolicyCall
  BY <1>1, WaitsFor DEF EntryOutlivesPolicyCall, CycleInv, PolicyApart, Asked
<1> QED
  BY <1>1, CycleHolds, PTL
=============================================================================
