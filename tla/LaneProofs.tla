----------------------------- MODULE LaneProofs -----------------------------
(***************************************************************************)
(* Proofs about module Lane, for every number of workers and instances,    *)
(* every cap and turn, and every clock.                                    *)
(***************************************************************************)
EXTENDS LaneInv, FiniteSetTheorems, SequenceTheorems, TLAPS

USE DEF Smaller, Larger, Instance, Tick

-----------------------------------------------------------------------------
(* What the operators of the queue return.                                 *)

\* Total counts one tick more at the end of the inputs.
LEMMA TotalType ==
  ASSUME NEW t \in Nat, NEW v \in BOOLEAN
  PROVE  Total(t, v) \in Nat /\ t <= Total(t, v) /\ Total(t, v) <= t + 1
BY DEF Total

\* A queue from h up to n whose last tick was not cut before.
QueueAt(h, n, t, v) ==
  [head     |-> h, next |-> n,
   withheld |-> (Clock = "input" /\ Total(t, v) > n),
   last     |-> IF v /\ n = t + 1 THEN t ELSE None]

\* A queue from h up to n, within what is settled and what the cap allows, is
\* in order.
LEMMA CutAtKeeps ==
  ASSUME NEW h \in Nat, NEW n \in Nat, NEW t \in 0 .. MaxTick, NEW v \in BOOLEAN,
         ~stopped, h <= n, n <= Total(t, v),
         Clock \in {"input", "rate", "source"} => n - h <= Cap
  PROVE  QueueAt(h, n, t, v) \in Queues /\ QueueOK(QueueAt(h, n, t, v), t, v)
<1> DEFINE c == QueueAt(h, n, t, v)
<1> USE LaneAssumption, QueueAssumption
<1>1. Total(t, v) \in Nat /\ Total(t, v) <= t + 1 /\ t \in Nat /\ (~v => Total(t, v) = t)
  BY DEF Total
<1>2. c.last = (IF v /\ n = t + 1 THEN t ELSE None) /\ c.next = n /\ c.head = h
  BY DEF QueueAt
<1>3. c.withheld = (Clock = "input" /\ Total(t, v) > n)
  BY DEF QueueAt
<1>4. c \in Queues
  <2>1. n \in 0 .. (MaxTick + 2)
    BY <1>1
  <2>2. (IF v /\ n = t + 1 THEN t ELSE None) \in 0 .. (MaxTick + 1) \cup {None}
    BY <1>1
  <2>3. (Clock = "input" /\ Total(t, v) > n) \in BOOLEAN
    OBVIOUS
  <2> QED BY <2>1, <2>2, <2>3 DEF Queues, QueueAt
<1> HIDE DEF c
<1>5. QueueOK(c, t, v)
  <2>1. c.head <= c.next /\ (c.last # None => c.next = c.last + 1)
    BY <1>1, <1>2
  <2>2. c.next <= IF c.last = None THEN t ELSE t + 1
    BY <1>1, <1>2
  <2>3. c.last # None => v /\ c.last = t
    BY <1>2
  <2>4. c.withheld <=> (Clock = "input" /\ ~stopped /\ Total(t, v) > c.next)
    BY <1>2, <1>3
  <2>5. Clock \in {"input", "rate", "source"} => c.next - c.head <= Cap
    BY <1>2
  <2> QED BY <2>1, <2>2, <2>3, <2>4, <2>5 DEF QueueOK
<1> QED BY <1>4, <1>5 DEF c

\* A cut keeps the queue in order and what is queued, and numbers behind it.
LEMMA CutKeeps ==
  ASSUME NEW q \in Queues, NEW t \in 0 .. MaxTick, NEW v \in BOOLEAN,
         NEW quiet \in BOOLEAN, ~stopped, q.last = None,
         q.head <= q.next, q.next <= t,
         Clock # "input" => ~q.withheld,
         Clock \in {"input", "rate", "source"} => q.next - q.head <= Cap
  PROVE  /\ Cut(q, t, v, quiet) \in Queues
         /\ Cut(q, t, v, quiet).head = q.head
         /\ Cut(q, t, v, quiet).next >= q.next
         /\ Cut(q, t, v, quiet).last # None => Cut(q, t, v, quiet).last >= q.next
         /\ QueueOK(Cut(q, t, v, quiet), t, v)
<1> DEFINE c == Cut(q, t, v, quiet)
<1> USE LaneAssumption, QueueAssumption
<1>0. /\ Total(t, v) \in Nat /\ t <= Total(t, v) /\ Total(t, v) <= t + 1
      /\ q.head \in Nat /\ q.next \in Nat /\ t \in Nat
  BY DEF Total, Queues
<1>1. CASE Clock \in {"input", "rate", "source"}
  <2> DEFINE n == Larger(q.next, Smaller(Total(t, v), q.head + Cap))
  <2>1. c = CutUpTo(q, n, t, v)
    BY <1>1 DEF Cut
  <2>2. n \in Nat /\ q.next <= n /\ n <= Total(t, v) /\ n - q.head <= Cap
    BY <1>0, <1>1
  <2>3. c = QueueAt(q.head, n, t, v)
    BY <2>1 DEF CutUpTo, QueueAt
  <2> HIDE DEF n, c
  <2>4. c \in Queues /\ QueueOK(c, t, v)
    BY <1>0, <2>2, <2>3, CutAtKeeps
  <2>5. c.head = q.head /\ c.next = n /\ (c.last # None => c.last = t)
    BY <2>3 DEF QueueAt
  <2> QED BY <1>0, <2>2, <2>4, <2>5 DEF c
<1>2. CASE Clock \in {"windows", "host"}
  <2>1. c = CutUpTo(q, Total(t, v), t, v)
    BY <1>2 DEF Cut
  <2>2. c = QueueAt(q.head, Total(t, v), t, v)
    BY <2>1 DEF CutUpTo, QueueAt
  <2> HIDE DEF c
  <2>3. c \in Queues /\ QueueOK(c, t, v)
    BY <1>0, <1>2, <2>2, CutAtKeeps
  <2>4. c.head = q.head /\ c.next = Total(t, v) /\ (c.last # None => c.last = t)
    BY <2>2 DEF QueueAt
  <2> QED BY <1>0, <2>3, <2>4 DEF c
<1>3. CASE Clock = "self"
  <2>1. CASE q.head < q.next \/ ~quiet \/ (~v /\ t <= q.next)
    <3>1. c = q
      BY <1>3, <2>1 DEF Cut
    <3>2. QueueOK(q, t, v)
      <4>1. q.withheld <=> (Clock = "input" /\ ~stopped /\ Total(t, v) > q.next)
        BY <1>3
      <4>2. q.next <= IF q.last = None THEN t ELSE t + 1
        OBVIOUS
      <4>3. ~(Clock \in {"input", "rate", "source"})
        BY <1>3
      <4> QED BY <4>1, <4>2, <4>3 DEF QueueOK
    <3> HIDE DEF c
    <3> QED BY <1>0, <3>1, <3>2 DEF c
  <2>2. CASE ~(q.head < q.next \/ ~quiet \/ (~v /\ t <= q.next))
    <3>1. c = [head |-> q.head, next |-> q.next + 1, withheld |-> q.withheld,
               last |-> IF v /\ t <= q.next + 1 THEN q.next ELSE None]
      BY <1>3, <2>2 DEF Cut
    <3>2. c.head = q.head /\ c.next = q.next + 1 /\ c.withheld = q.withheld
            /\ c.last = IF v /\ t <= q.next + 1 THEN q.next ELSE None
      BY <3>1
    <3>3. c \in Queues
      <4>1. q.head \in Nat /\ q.withheld \in BOOLEAN
        BY DEF Queues
      <4>2. q.next + 1 \in 0 .. (MaxTick + 2)
        BY <1>0
      <4>3. (IF v /\ t <= q.next + 1 THEN q.next ELSE None) \in 0 .. (MaxTick + 1) \cup {None}
        BY <1>0
      <4> QED BY <3>1, <4>1, <4>2, <4>3 DEF Queues
    <3>4. QueueOK(c, t, v)
      BY <1>0, <1>3, <2>2, <3>2 DEF QueueOK, Total
    <3> HIDE DEF c
    <3> QED BY <1>0, <3>2, <3>3, <3>4 DEF c
  <2> QED BY <2>1, <2>2
<1> QED BY <1>1, <1>2, <1>3 DEF Clocks

\* Rounding d up to whole caps reaches d and stays within a cap of it.
LEMMA Rounding ==
  ASSUME NEW d \in Nat, NEW c \in Nat \ {0}
  PROVE  /\ ((d + c - 1) \div c) * c \in Nat
         /\ ((d + c - 1) \div c) * c >= d
         /\ ((d + c - 1) \div c) * c < d + c
<1> DEFINE k == (d + c - 1) \div c
<1>1. k \in Nat /\ k * c <= d + c - 1 /\ d + c - 1 < (k + 1) * c
  BY SMTT(30)
<1>2. (k + 1) * c = k * c + c
  BY <1>1, SMTT(30)
<1>3. k * c \in Nat
  BY <1>1, SMTT(30)
<1> HIDE DEF k
<1> QED BY <1>1, <1>2, <1>3 DEF k

\* A turn takes at least the front tick, never more than is queued or held
\* back, and the last tick alone; what is cut for it is numbered behind it.
LEMMA TakenKeeps ==
  ASSUME NEW q \in Queues, NEW t \in 0 .. MaxTick, NEW v \in BOOLEAN,
         QueueOK(q, t, v), q.head < q.next
  PROVE  LET n == Length(q, t, v)
             c == Taken(q, n, t, v)
         IN /\ n \in Nat /\ n >= 1
            /\ Width > 1 => n = 1
            /\ c \in Queues
            /\ c.head = q.head + n
            /\ c.next >= q.next
            /\ QueueOK(c, t, v)
            /\ q.last # None => c.last = q.last
            /\ (c.last # None /\ c.last <= c.head - 1) => n = 1 /\ q.head = c.last
            /\ (c.last # None /\ q.last = None) => c.last >= c.head /\ c.last >= q.next
<1> DEFINE n == Length(q, t, v)
           c == Taken(q, n, t, v)
           total == Total(t, v)
           front == q.head + n
<1> USE LaneAssumption, QueueAssumption
<1>0. /\ total \in Nat /\ t <= total /\ total <= t + 1 /\ (~v => total = t)
      /\ q.head \in Nat /\ q.next \in Nat /\ t \in Nat
      /\ (v => total = t + 1)
  BY DEF Total, Queues
<1>1. /\ q.head <= q.next
      /\ q.last # None => q.next = q.last + 1
      /\ q.withheld => ~stopped /\ Clock = "input" /\ total > q.next /\ q.last = None
      /\ ~stopped => q.next <= IF q.last = None THEN t ELSE t + 1
      /\ Clock \in {"input", "rate", "source"} => q.next - q.head <= Cap
  BY <1>0 DEF QueueOK, Queues
<1>2. /\ n \in Nat /\ n >= 1 /\ (Width > 1 => n = 1)
      /\ q.withheld => n <= t - q.head
      /\ ~q.withheld => front <= q.next
      /\ ~q.withheld /\ q.last # None /\ front = q.next => n = 1 /\ q.head = q.last
      /\ q.withheld /\ Width = 1 /\ n < TurnMax => n = total - q.head - (IF v THEN 1 ELSE 0)
      /\ n <= Larger(TurnMax, 1)
  BY <1>0, <1>1 DEF Length, Queues
<1> HIDE DEF n, c
<1>3. CASE Width = 1 /\ q.withheld /\ (n < TurnMax \/ front > q.next)
  <2> DEFINE next == IF n < TurnMax THEN total
                     ELSE Smaller(total, q.next + ((front - q.next + Cap - 1) \div Cap) * Cap)
  <2>0. q.last = None
    BY <1>1, <1>3
  <2>1. c = QueueAt(front, next, t, v)
    BY <1>3, <2>0 DEF c, n, Taken, CutUpTo, StartingAt, QueueAt
  <2>2. next \in Nat /\ front <= next /\ q.next <= next /\ next <= total
          /\ next - front <= Cap
    <3>1. CASE n < TurnMax
      BY <1>0, <1>1, <1>2, <1>3, <3>1
    <3>2. CASE n = TurnMax
      <4> DEFINE more == ((front - q.next + Cap - 1) \div Cap) * Cap
      <4>1. front - q.next \in Nat
        BY <1>0, <1>2, <1>3, <3>2
      <4>2. more \in Nat /\ more >= front - q.next /\ more < front - q.next + Cap
        BY <4>1, Rounding
      <4>3. next = Smaller(total, q.next + more)
        BY <3>2
      <4> HIDE DEF more, next
      <4> QED BY <1>0, <1>1, <1>2, <1>3, <4>1, <4>2, <4>3
    <3> QED BY <1>2, <1>3, <3>1, <3>2
  <2> HIDE DEF next
  <2>3. front \in Nat /\ q.last = None /\ ~stopped
    BY <1>0, <1>1, <1>2, <1>3
  <2>4. c \in Queues /\ QueueOK(c, t, v)
    BY <1>0, <2>1, <2>2, <2>3, CutAtKeeps
  <2>5. c.head = front /\ c.next = next /\ c.last = IF v /\ next = t + 1 THEN t ELSE None
    BY <2>1 DEF QueueAt
  <2>6. front <= t
    BY <1>0, <1>2, <1>3
  <2>7. q.next <= t
    BY <1>0, <1>1, <2>3
  <2> QED BY <1>0, <1>2, <2>2, <2>3, <2>4, <2>5, <2>6, <2>7 DEF c, n
<1>4. CASE ~(Width = 1 /\ q.withheld /\ (n < TurnMax \/ front > q.next))
  <2>1. c = [head |-> front, next |-> q.next, withheld |-> q.withheld, last |-> q.last]
    BY <1>4 DEF c, n, Taken, StartingAt
  <2>2. c.head = front /\ c.next = q.next /\ c.withheld = q.withheld /\ c.last = q.last
    BY <2>1
  <2>3. front \in Nat /\ front <= q.next
    BY <1>0, <1>1, <1>2, <1>4
  <2>4. c \in Queues
    BY <2>1, <2>3 DEF Queues
  <2>5. QueueOK(c, t, v)
    <3>1. c.head <= c.next /\ c.next - c.head <= q.next - q.head
      BY <1>0, <1>2, <2>2, <2>3
    <3>2. c.withheld <=> (Clock = "input" /\ ~stopped /\ total > c.next)
      BY <2>2 DEF QueueOK
    <3>3. /\ c.last # None => c.next = c.last + 1
          /\ ~stopped => c.next <= IF c.last = None THEN t ELSE t + 1
          /\ (~stopped /\ c.last # None) => v /\ (Clock # "self" => c.last = t)
      BY <2>2 DEF QueueOK
    <3>4. Clock \in {"input", "rate", "source"} => c.next - c.head <= Cap
      BY <1>0, <1>1, <2>2, <2>3, <3>1
    <3> QED BY <3>1, <3>2, <3>3, <3>4 DEF QueueOK
  <2>6. (c.last # None /\ c.last <= c.head - 1) => n = 1 /\ q.head = c.last
    <3> SUFFICES ASSUME q.last # None, q.last <= front - 1
                 PROVE  n = 1 /\ q.head = q.last
      BY <2>2
    <3>1. ~q.withheld /\ q.next = q.last + 1 /\ q.last \in Int
      BY <1>1 DEF Queues
    <3>2. front = q.next
      BY <1>0, <2>3, <3>1
    <3> QED BY <1>2, <3>1, <3>2
  <2> QED BY <1>0, <1>2, <2>2, <2>3, <2>4, <2>5, <2>6 DEF c, n
<1> QED BY <1>3, <1>4

\* How a queue may grow at its end between two turns of the lock: what the
\* front of the lane knows of it stays.
Grown(q) ==
  /\ q \in Queues
  /\ q.head = queue.head
  /\ q.next >= queue.next
  /\ queue.last # None => q.last = queue.last
  /\ (queue.last = None /\ q.last # None) => q.last >= queue.next
  /\ stopped => q = queue

\* Cutting whatever the intake settles grows the queue and keeps it in order.
LEMMA RecutKeeps ==
  ASSUME TypeOK, QueueInv,
         NEW t \in arrived .. MaxTick, NEW v \in BOOLEAN,
         over => v /\ t = arrived
  PROVE  Grown(Recut(queue, t, v)) /\ QueueOK(Recut(queue, t, v), t, v)
<1> DEFINE c == Recut(queue, t, v)
<1> USE LaneAssumption, QueueAssumption
<1>0. queue \in Queues /\ queue.head \in Nat /\ queue.next \in Nat /\ t \in 0 .. MaxTick
      /\ over \in BOOLEAN /\ stopped \in BOOLEAN /\ arrived \in Nat
  BY DEF TypeOK, Queues
<1>1. CASE stopped
  <2>1. c = queue
    BY <1>1 DEF Recut
  <2>2. QueueOK(queue, t, v)
    BY <1>1 DEF QueueInv, QueueOK
  <2> QED BY <1>0, <2>1, <2>2 DEF Grown
<1>2. CASE ~stopped /\ queue.last # None
  <2>1. c = queue
    BY <1>2 DEF Recut, Cut
  <2>2. over /\ v /\ t = arrived
    BY <1>2 DEF QueueInv, QueueOK
  <2>3. QueueOK(queue, t, v)
    BY <2>2 DEF QueueInv, QueueOK
  <2> QED BY <1>0, <2>1, <2>3, <1>2 DEF Grown
<1>3. CASE ~stopped /\ queue.last = None
  <2> DEFINE quiet == Busy = {}
  <2>1. c = Cut(queue, t, v, quiet)
    BY <1>3 DEF Recut
  <2>2. /\ queue.head <= queue.next /\ queue.next <= t
        /\ Clock # "input" => ~queue.withheld
        /\ Clock \in {"input", "rate", "source"} => queue.next - queue.head <= Cap
    BY <1>0, <1>3 DEF QueueInv, QueueOK
  <2>3. quiet \in BOOLEAN
    OBVIOUS
  <2> HIDE DEF quiet, c
  <2>4. /\ c \in Queues /\ c.head = queue.head /\ c.next >= queue.next
        /\ c.last # None => c.last >= queue.next
        /\ QueueOK(c, t, v)
    BY <1>0, <1>3, <2>1, <2>2, <2>3, CutKeeps
  <2> QED BY <1>3, <2>4 DEF Grown, c
<1> QED BY <1>0, <1>1, <1>2, <1>3

\* What pick cuts grows the queue too.
LEMMA PickedKeeps ==
  ASSUME TypeOK, QueueInv
  PROVE  Grown(Picked) /\ QueueOK(Picked, arrived, over)
<1>1. Grown(queue) /\ QueueOK(queue, arrived, over)
  BY DEF TypeOK, Queues, QueueInv, Grown
<1>2. arrived \in arrived .. MaxTick /\ over \in BOOLEAN
  BY LaneAssumption DEF TypeOK
<1> QED BY <1>1, <1>2, RecutKeeps DEF Picked

\* A step that only grows the queue keeps the invariant.
LEMMA GrowKeeps ==
  ASSUME LaneInvariant,
         arrived' \in 0 .. MaxTick, over' \in BOOLEAN,
         Grown(queue'), QueueOK(queue', arrived', over'),
         UNCHANGED <<life, pool, turn, done, nextFlush, error, rows, knows, out>>
  PROVE  LaneInvariant'
<1> USE DEF LaneInvariant, life, pool, rows
<1>0. /\ queue \in Queues /\ queue.head \in Nat /\ queue.next \in Nat
      /\ queue' \in Queues /\ queue'.next \in Nat /\ queue.head <= queue.next
      /\ stopped \in BOOLEAN /\ ended \in BOOLEAN
  BY DEF TypeOK, Queues, Grown, QueueInv, QueueOK
<1>1. Busy' = Busy
  BY DEF Busy
<1>2. \A w \in Busy : turn[w] \in Turn
  BY DEF TypeOK, Busy
<1>3. TypeOK'
  BY <1>0 DEF TypeOK, Queues
<1>4. QueueInv'
  BY DEF QueueInv, QueueOK
<1>5. TurnInv'
  <2> SUFFICES ASSUME NEW w \in Busy
               PROVE  turn[w].hi = queue'.last => turn[w].lo = queue'.last
    BY <1>1 DEF TurnInv, Grown
  <2>1. turn[w].hi \in Int /\ turn[w].hi < queue.head
    BY <1>2 DEF TurnInv, Turn
  <2> QED BY <1>0, <2>1, QueueAssumption DEF TurnInv, Grown
<1>6. DoneInv'
  <2>1. \A r \in done : r.tick # queue'.last
    <3> SUFFICES ASSUME NEW r \in done PROVE r.tick # queue'.last
      OBVIOUS
    <3>1. r.tick \in Int /\ r.tick < queue.head /\ r.tick # queue.last
      BY DEF DoneInv, TypeOK, Result
    <3> QED BY <1>0, <3>1, QueueAssumption DEF Grown
  <2> QED BY <1>1, <2>1 DEF DoneInv, Grown
<1>7. OutInv'
  BY <1>1 DEF OutInv, Grown
<1>8. InOrder'
  BY DEF InOrder, OutInv, Grown
<1>9. LastCallAlone'
  <2> SUFFICES ASSUME NEW w \in Busy, turn[w].lo = queue'.last
               PROVE  turn[w].lo = queue.last
    BY <1>1 DEF LastCallAlone, Grown
  <2>1. turn[w].lo \in Int /\ turn[w].lo < queue.head
    BY <1>0, <1>2 DEF TurnInv, Turn
  <2> QED BY <1>0, <2>1, QueueAssumption DEF Grown
<1>10. HandInv'
  BY <1>1 DEF HandInv, OneHandEach
<1>11. RowInv'
  BY <1>1 DEF RowInv, Grown
<1> QED BY <1>3, <1>4, <1>5, <1>6, <1>7, <1>8, <1>9, <1>10, <1>11

-----------------------------------------------------------------------------
(* A dispatch keeps the invariant.                                         *)

\* Taking the element at a place out of a sequence.
LEMMA TakenOut ==
  ASSUME NEW S, NEW s \in Seq(S), NEW at \in 1 .. Len(s)
  PROVE  LET r == SubSeq(s, 1, at - 1) \o SubSeq(s, at + 1, Len(s))
         IN /\ r \in Seq(S)
            /\ Len(r) = Len(s) - 1
            /\ \A k \in 1 .. Len(r) : /\ k < at => r[k] = s[k]
                                      /\ k >= at => r[k] = s[k + 1]
<1> DEFINE a == SubSeq(s, 1, at - 1)
           b == SubSeq(s, at + 1, Len(s))
<1>1. a \in Seq(S) /\ Len(a) = at - 1 /\ \A k \in 1 .. (at - 1) : a[k] = s[k]
  OBVIOUS
<1>2. b \in Seq(S) /\ Len(b) = Len(s) - at /\ \A k \in 1 .. (Len(s) - at) : b[k] = s[k + at]
  OBVIOUS
<1> HIDE DEF a, b
<1>3. /\ a \o b \in Seq(S) /\ Len(a \o b) = Len(s) - 1
      /\ \A k \in 1 .. (Len(s) - 1) :
           (a \o b)[k] = IF k <= at - 1 THEN a[k] ELSE b[k - (at - 1)]
  <2>1. /\ a \o b \in Seq(S) /\ Len(a \o b) = Len(a) + Len(b)
        /\ \A k \in 1 .. (Len(a) + Len(b)) :
             (a \o b)[k] = IF k <= Len(a) THEN a[k] ELSE b[k - Len(a)]
    BY <1>1, <1>2, ConcatProperties
  <2>2. Len(a) = at - 1 /\ Len(a) + Len(b) = Len(s) - 1
    BY <1>1, <1>2
  <2> QED BY <2>1, <2>2
<1>4. \A k \in 1 .. (Len(s) - 1) : /\ k < at => (a \o b)[k] = s[k]
                                   /\ k >= at => (a \o b)[k] = s[k + 1]
  <2> SUFFICES ASSUME NEW k \in 1 .. (Len(s) - 1)
               PROVE  /\ k < at => (a \o b)[k] = s[k]
                      /\ k >= at => (a \o b)[k] = s[k + 1]
    OBVIOUS
  <2>1. k < at => (a \o b)[k] = s[k]
    BY <1>1, <1>3
  <2>2. ASSUME k >= at
        PROVE  (a \o b)[k] = s[k + 1]
    <3> DEFINE j == k - (at - 1)
    <3>1. j \in 1 .. (Len(s) - at) /\ j + at = k + 1
      BY <2>2
    <3>2. (a \o b)[k] = b[j]
      BY <1>3, <2>2
    <3> HIDE DEF j
    <3>3. b[j] = s[j + at]
      BY <1>2, <3>1
    <3> QED BY <3>1, <3>2, <3>3
  <2> QED BY <2>1, <2>2
<1> QED BY <1>3, <1>4 DEF a, b

\* A dispatch finds its instance in no other hand, and finds the lane quiet
\* where it must be.
LEMMA DispatchFinds ==
  ASSUME LaneInvariant, NEW w \in Worker, turn[w] = None, ~error, ~ended,
         Dispatchable(Picked)
  PROVE  LET q    == Picked
             at   == Wanted(q)
             inst == IF at = 0 THEN created ELSE idle[at]
         IN /\ at \in 0 .. Len(idle)
            /\ at = 0 => created < Width
            /\ inst \in Instance
            /\ \A v \in Busy : turn[v].inst # inst
            /\ \A k \in 1 .. Len(idle) : k # at => idle[k] # inst
            /\ (q.head = q.last /\ finisher # None) => inst = finisher
            /\ Width = 1 => Busy = {}
            /\ q.head = q.last => Busy = {} /\ nextFlush = q.last /\ done = {}
<1> DEFINE q    == Picked
           at   == Wanted(q)
           inst == IF at = 0 THEN created ELSE idle[at]
<1> USE LaneAssumption, QueueAssumption DEF LaneInvariant
<1>0. /\ idle \in Seq(Instance) /\ Len(idle) \in Nat /\ created \in 0 .. Width
      /\ \A v \in Busy : turn[v] \in Turn
      /\ Width \in Nat
  BY DEF TypeOK, Busy
<1>1. Grown(q) /\ QueueOK(q, arrived, over)
  BY PickedKeeps
<1> HIDE DEF q
<1>2. /\ q.head < q.next /\ Cardinality(Busy) < Width
      /\ q.head = q.last => Busy = {}
      /\ IF q.head = q.last /\ finisher # None
           THEN \E k \in 1 .. Len(idle) : idle[k] = finisher
           ELSE Len(idle) > 0 \/ created < Width
  BY DEF Dispatchable, q
<1>3. /\ at \in 0 .. Len(idle)
      /\ at = 0 => created < Width
      /\ (q.head = q.last /\ finisher # None) => at > 0 /\ idle[at] = finisher
  BY <1>0, <1>2 DEF Wanted
<1> HIDE DEF at
<1>4. inst \in Instance /\ \A v \in Busy : turn[v].inst # inst
  <2>1. CASE at = 0
    BY <1>0, <1>3, <2>1 DEF HandInv, Turn
  <2>2. CASE at # 0
    BY <1>0, <1>3, <2>2 DEF HandInv, OneHandEach
  <2> QED BY <2>1, <2>2
<1>5. \A k \in 1 .. Len(idle) : k # at => idle[k] # inst
  <2> SUFFICES ASSUME NEW k \in 1 .. Len(idle), k # at
               PROVE  idle[k] # inst
    OBVIOUS
  <2>1. CASE at = 0
    BY <1>0, <1>3, <2>1 DEF HandInv
  <2>2. CASE at # 0
    BY <1>0, <1>3, <2>2 DEF HandInv, OneHandEach
  <2> QED BY <2>1, <2>2
<1>6. Width = 1 => Busy = {}
  <2>1. IsFiniteSet(Busy)
    BY FS_Subset DEF Busy
  <2> QED BY <1>2, <2>1, FS_EmptySet, FS_CardinalityType
<1>7. q.head = q.last => Busy = {} /\ nextFlush = q.last /\ done = {}
  <2> SUFFICES ASSUME q.head = q.last
               PROVE  nextFlush = q.last /\ done = {}
    BY <1>2
  <2>1. Busy = {} /\ q.head = queue.head
    BY <1>1, <1>2 DEF Grown
  <2>2. /\ nextFlush \in Nat /\ queue.head \in Nat /\ nextFlush <= queue.head
        /\ \A r \in done : r.tick \in Nat /\ nextFlush <= r.tick /\ r.tick < queue.head
                           /\ r.tick # nextFlush
        /\ \A n \in nextFlush .. (queue.head - 1) : \E r \in done : r.tick = n
    BY <2>1 DEF DoneInv, TypeOK, Result
  <2>3. nextFlush = queue.head
    <3>1. nextFlush < queue.head => nextFlush \in nextFlush .. (queue.head - 1)
      BY <2>2
    <3> QED BY <2>2, <3>1
  <2>4. done = {}
    BY <2>2, <2>3
  <2> QED BY <2>1, <2>3, <2>4
<1> QED BY <1>3, <1>4, <1>5, <1>6, <1>7 DEF at, q

\* A dispatch keeps the invariant.
LEMMA DispatchKeeps ==
  ASSUME LaneInvariant, NEW w \in Worker, Dispatch(w)
  PROVE  LaneInvariant'
<1> DEFINE q    == Picked
           at   == Wanted(q)
           inst == IF at = 0 THEN created ELSE idle[at]
           n    == Length(q, arrived, over)
           hi   == q.head + n - 1
           new  == at = 0
           t    == [lo |-> q.head, hi |-> hi, inst |-> inst, fresh |-> new,
                    from |-> Larger(told[inst], kept)]
<1> USE LaneAssumption, QueueAssumption
<1>0. /\ turn[w] = None /\ ~error /\ ~ended /\ Dispatchable(q)
      /\ idle' = IF at = 0 THEN idle
                 ELSE SubSeq(idle, 1, at - 1) \o SubSeq(idle, at + 1, Len(idle))
      /\ created' = IF at = 0 THEN created + 1 ELSE created
      /\ queue' = Taken(q, n, arrived, over)
      /\ told' = IF Assembled THEN [told EXCEPT ![inst] = hi + 1] ELSE told
      /\ Forget
      /\ turn' = [turn EXCEPT ![w] = t]
      /\ UNCHANGED <<arrived, over, stopped, ended, finisher, done, nextFlush,
                     error, knows, out>>
  BY DEF Dispatch, Without, intake, life
<1>1. Grown(q) /\ QueueOK(q, arrived, over)
  BY PickedKeeps DEF LaneInvariant
<1>2. q.head < q.next
  BY <1>0 DEF Dispatchable
<1>3. /\ at \in 0 .. Len(idle)
      /\ at = 0 => created < Width
      /\ inst \in Instance
      /\ \A v \in Busy : turn[v].inst # inst
      /\ \A k \in 1 .. Len(idle) : k # at => idle[k] # inst
      /\ (q.head = q.last /\ finisher # None) => inst = finisher
      /\ Width = 1 => Busy = {}
      /\ q.head = q.last => Busy = {} /\ nextFlush = q.last /\ done = {}
  BY <1>0, DispatchFinds
<1>4. /\ n \in Nat /\ n >= 1
      /\ Width > 1 => n = 1
      /\ queue' \in Queues
      /\ queue'.head = q.head + n
      /\ queue'.next >= q.next
      /\ QueueOK(queue', arrived, over)
      /\ q.last # None => queue'.last = q.last
      /\ (queue'.last # None /\ queue'.last <= queue'.head - 1)
           => n = 1 /\ q.head = queue'.last
      /\ (queue'.last # None /\ q.last = None)
           => queue'.last >= queue'.head /\ queue'.last >= q.next
  <2>1. arrived \in 0 .. MaxTick /\ over \in BOOLEAN /\ q \in Queues
    BY <1>1 DEF LaneInvariant, TypeOK, Grown
  <2> HIDE DEF q
  <2> QED BY <1>0, <1>1, <1>2, <2>1, TakenKeeps
<1> HIDE DEF q, at, inst, n
<1>5. /\ q.head = queue.head /\ queue.head \in Nat /\ queue.next \in Nat
      /\ queue.head <= queue.next
      /\ q.next >= queue.next /\ q.next \in Nat
      /\ queue'.head \in Nat /\ queue'.next \in 0 .. (MaxTick + 2)
      /\ queue'.head <= queue'.next
      /\ hi = queue'.head - 1 /\ hi \in Tick /\ q.head \in Tick /\ q.head <= hi
      /\ (queue.last = None /\ queue'.last # None) => queue'.last >= queue.next
      /\ queue.last # None => queue'.last = queue.last
      /\ queue'.last \in Tick \cup {None}
  <2>1. /\ q.head = queue.head /\ queue.head \in Nat /\ queue.next \in Nat
        /\ queue.head <= queue.next /\ q.next >= queue.next /\ q.next \in Nat
    BY <1>1 DEF LaneInvariant, TypeOK, QueueInv, QueueOK, Queues, Grown
  <2>2. /\ queue'.head \in Nat /\ queue'.next \in 0 .. (MaxTick + 2)
        /\ queue'.head <= queue'.next /\ queue'.last \in Tick \cup {None}
    BY <1>4 DEF Queues, QueueOK
  <2>3. /\ (queue.last = None /\ queue'.last # None) => queue'.last >= queue.next
        /\ queue.last # None => queue'.last = queue.last
    BY <1>1, <1>4, <2>1, <2>2 DEF Grown
  <2> QED BY <1>4, <2>1, <2>2, <2>3
<1>6. /\ turn \in [Worker -> Turn \cup {None}]
      /\ told \in [Instance -> Nat] /\ kept \in Nat /\ created \in 0 .. Width
      /\ idle \in Seq(Instance) /\ Len(idle) \in Nat
      /\ stopped \in BOOLEAN /\ nextFlush \in Nat
      /\ \A r \in done : r.tick \in Nat
  BY DEF LaneInvariant, TypeOK, Result
<1>7. t \in Turn /\ t # None
  <2>1. Larger(told[inst], kept) \in Nat /\ new \in BOOLEAN
    BY <1>3, <1>6
  <2> HIDE DEF new, hi
  <2> DEFINE from == Larger(told[inst], kept)
  <2> HIDE DEF from
  <2>2. t \in Turn
    <3>1. from \in Nat
      BY <2>1 DEF from
    <3>2. q.head \in Tick /\ hi \in Tick /\ inst \in Instance /\ new \in BOOLEAN
      BY <1>3, <1>5, <2>1
    <3> HIDE DEF Tick, Instance
    <3>3. [lo |-> q.head, hi |-> hi, inst |-> inst, fresh |-> new, from |-> from] \in Turn
      BY <3>1, <3>2 DEF Turn
    <3> QED BY <3>3 DEF from
  <2>3. Turn \subseteq [lo : Int, hi : Int, inst : Int, fresh : BOOLEAN, from : Int]
    BY DEF Turn
  <2> QED BY <2>2, <2>3
<1>8. /\ t.lo = q.head /\ t.hi = hi /\ t.inst = inst
      /\ t.from = Larger(told[inst], kept)
  OBVIOUS
<1> HIDE DEF t, hi
<1>9. /\ w \notin Busy /\ Busy' = Busy \cup {w}
      /\ turn'[w] = t /\ \A v \in Busy : v # w /\ turn'[v] = turn[v]
      /\ turn' \in [Worker -> Turn \cup {None}]
  BY <1>0, <1>6, <1>7 DEF Busy
<1>10. \A v \in Busy : turn[v] \in Turn /\ turn[v].lo \in Nat /\ turn[v].hi \in Nat
  BY <1>6 DEF Busy, Turn
<1>11. /\ idle' \in Seq(Instance)
       /\ \A k \in DOMAIN idle' : idle'[k] # inst /\ \E j \in DOMAIN idle : idle'[k] = idle[j]
       /\ \A j, k \in DOMAIN idle' : j # k => idle'[j] # idle'[k]
  <2>1. CASE at = 0
    <3>1. idle' = idle /\ idle \in Seq(Instance) /\ DOMAIN idle = 1 .. Len(idle)
      BY <1>0, <1>6, <2>1
    <3>2. \A k \in DOMAIN idle : idle[k] # inst
      <4>1. \A k \in 1 .. Len(idle) : k # at
        BY <1>6, <2>1
      <4> QED BY <1>3, <3>1, <4>1
    <3>3. \A j, k \in DOMAIN idle : j # k => idle[j] # idle[k]
      BY DEF LaneInvariant, HandInv, OneHandEach
    <3> QED BY <3>1, <3>2, <3>3
  <2>2. CASE at # 0
    <3> DEFINE r == SubSeq(idle, 1, at - 1) \o SubSeq(idle, at + 1, Len(idle))
    <3>1. at \in 1 .. Len(idle) /\ inst = idle[at]
      BY <1>3, <2>2 DEF inst
    <3>2. /\ r \in Seq(Instance) /\ Len(r) = Len(idle) - 1
          /\ \A k \in 1 .. Len(r) : /\ k < at => r[k] = idle[k]
                                    /\ k >= at => r[k] = idle[k + 1]
      BY <1>6, <3>1, TakenOut
    <3>3. idle' = r
      BY <1>0, <2>2
    <3> HIDE DEF r
    <3>4. \A k \in 1 .. Len(r) : \E x \in 1 .. Len(idle) :
             x # at /\ r[k] = idle[x]
      <4> SUFFICES ASSUME NEW k \in 1 .. (Len(idle) - 1)
                   PROVE  \E x \in 1 .. Len(idle) :
                            x # at /\ r[k] = idle[x]
        BY <3>2
      <4>1. Len(idle) \in Nat /\ at \in Nat
        BY <1>6, <3>1
      <4>2. CASE k < at
        <5>1. k \in 1 .. Len(idle) /\ k # at
          BY <4>1, <4>2
        <5>2. r[k] = idle[k]
          BY <3>2, <4>2
        <5> QED BY <5>1, <5>2
      <4>3. CASE k >= at
        <5>1. k + 1 \in 1 .. Len(idle) /\ k + 1 # at
          BY <4>1, <4>3
        <5>2. r[k] = idle[k + 1]
          BY <3>2, <4>3
        <5> QED BY <5>1, <5>2
      <4> QED BY <4>1, <4>2, <4>3
    <3>5. \A j, k \in 1 .. Len(r) : j # k => r[j] # r[k]
      <4>1. \A a, b \in 1 .. Len(idle) : a # b => idle[a] # idle[b]
        <5>1. \A a, b \in DOMAIN idle : a # b => idle[a] # idle[b]
          BY DEF LaneInvariant, HandInv, OneHandEach
        <5>2. DOMAIN idle = 1 .. Len(idle)
          BY <1>6
        <5> QED BY <5>1, <5>2
      <4>2. \A j, k \in 1 .. (Len(idle) - 1) : j < k => r[j] # r[k]
        <5> SUFFICES ASSUME NEW j \in 1 .. (Len(idle) - 1), NEW k \in 1 .. (Len(idle) - 1),
                            j < k
                     PROVE  r[j] # r[k]
          OBVIOUS
        <5>1. Len(idle) \in Nat /\ at \in 1 .. Len(idle)
          BY <1>6, <3>1
        <5>2. CASE k < at
          <6>1. r[j] = idle[j] /\ r[k] = idle[k]
            BY <3>2, <5>1, <5>2
          <6>2. j \in 1 .. Len(idle) /\ k \in 1 .. Len(idle) /\ j # k
            BY <5>1
          <6> QED BY <4>1, <6>1, <6>2
        <5>3. CASE j >= at
          <6>0. j >= at /\ k >= at /\ j \in 1 .. Len(r) /\ k \in 1 .. Len(r)
            BY <3>2, <5>1, <5>3
          <6>1. r[j] = idle[j + 1] /\ r[k] = idle[k + 1]
            BY <3>2, <6>0
          <6>2. j + 1 \in 1 .. Len(idle) /\ k + 1 \in 1 .. Len(idle) /\ j + 1 # k + 1
            BY <5>1
          <6> QED BY <4>1, <6>1, <6>2
        <5>4. CASE j < at /\ k >= at
          <6>1. r[j] = idle[j] /\ r[k] = idle[k + 1]
            BY <3>2, <5>1, <5>4
          <6>2. j \in 1 .. Len(idle) /\ k + 1 \in 1 .. Len(idle) /\ j # k + 1
            BY <5>1
          <6> QED BY <4>1, <6>1, <6>2
        <5> QED BY <5>1, <5>2, <5>3, <5>4
      <4>3. \A j, k \in 1 .. (Len(idle) - 1) : j # k => j < k \/ k < j
        BY <1>6
      <4> QED BY <3>2, <4>2, <4>3
    <3>6. DOMAIN r = 1 .. Len(r) /\ DOMAIN idle = 1 .. Len(idle)
      BY <1>6, <3>2
    <3>7. \A k \in 1 .. Len(r) : r[k] # inst
      BY <1>3, <3>4
    <3>8. \A k \in 1 .. Len(r) : \E j \in 1 .. Len(idle) : r[k] = idle[j]
      BY <3>4
    <3> QED BY <3>2, <3>3, <3>5, <3>6, <3>7, <3>8
  <2> QED BY <2>1, <2>2
<1>12. /\ kept' \in Nat
       /\ told' \in [Instance -> Nat]
       /\ created' \in 0 .. Width
       /\ (\A i \in Instance : kept <= told'[i]) => \A i \in Instance : kept' <= told'[i]
  <2>1. told' \in [Instance -> Nat]
    <3>1. hi + 1 \in Nat /\ inst \in Instance /\ told \in [Instance -> Nat]
      <4>1. hi + 1 \in Nat
        <5>1. hi = queue'.head - 1 /\ queue'.head \in Nat
          BY <1>5
        <5> QED BY <5>1
      <4>2. inst \in Instance
        BY <1>3
      <4>3. told \in [Instance -> Nat]
        BY <1>6
      <4> QED BY <4>1, <4>2, <4>3
    <3>2. told' = [told EXCEPT ![inst] = hi + 1] \/ told' = told
      BY <1>0
    <3> HIDE DEF Instance
    <3> QED BY <3>1, <3>2
  <2>2. created' \in 0 .. Width
    BY <1>0, <1>3, <1>6
  <2>3. \/ kept' = kept
        \/ \E i \in Instance :
             /\ \A j \in Instance : told'[i] <= told'[j]
             /\ kept' = told'[i]
    <3>1. Forget
      BY <1>0
    <3> HIDE DEF Instance
    <3> QED BY <3>1 DEF Forget
  <2>4. kept' \in Nat /\ ((\A i \in Instance : kept <= told'[i])
                            => \A i \in Instance : kept' <= told'[i])
    <3>1. \A i \in Instance : told'[i] \in Nat
      BY <2>1
    <3> HIDE DEF Instance
    <3>2. CASE kept' = kept
      BY <1>6, <3>2
    <3>3. CASE kept' # kept
      <4>1. PICK i \in Instance : (\A j \in Instance : told'[i] <= told'[j]) /\ kept' = told'[i]
        BY <2>3, <3>3
      <4> QED BY <3>1, <4>1
    <3> QED BY <3>2, <3>3
  <2> QED BY <2>1, <2>2, <2>4
<1>13. TypeOK'
  BY <1>0, <1>4, <1>5, <1>9, <1>11, <1>12 DEF LaneInvariant, TypeOK, Queues
<1>14. QueueInv'
  BY <1>0, <1>4 DEF QueueInv, QueueOK
<1>15. TurnInv'
  <2>1. /\ t.lo <= t.hi /\ t.hi < queue'.head
        /\ Width > 1 => t.lo = t.hi
        /\ ~stopped => nextFlush <= t.lo
        /\ t.hi = queue'.last => t.lo = queue'.last
    <3>1. ~stopped => nextFlush <= queue.head
      BY DEF LaneInvariant, DoneInv
    <3>2. hi = queue'.last => q.head = queue'.last
      BY <1>4, <1>5
    <3>3. Width > 1 => q.head = hi
      BY <1>4, <1>5
    <3> QED BY <1>5, <1>8, <3>1, <3>2, <3>3
  <2>2. \A v \in Busy :
          /\ turn[v].lo <= turn[v].hi /\ turn[v].hi < queue.head
          /\ Width > 1 => turn[v].lo = turn[v].hi
          /\ ~stopped => nextFlush <= turn[v].lo
          /\ turn[v].hi = queue.last => turn[v].lo = queue.last
          /\ \A u \in Busy \ {v} :
               /\ Width > 1
               /\ turn[u].hi < turn[v].lo \/ turn[v].hi < turn[u].lo
    BY DEF LaneInvariant, TurnInv
  <2>3. \A v \in Busy : /\ turn[v].hi < queue'.head /\ turn[v].hi < t.lo /\ Width > 1
                        /\ turn[v].hi = queue'.last => turn[v].lo = queue'.last
    <3> SUFFICES ASSUME NEW v \in Busy
                 PROVE  /\ turn[v].hi < queue'.head /\ turn[v].hi < t.lo /\ Width > 1
                        /\ turn[v].hi = queue'.last => turn[v].lo = queue'.last
      OBVIOUS
    <3>1. turn[v].hi < queue.head /\ turn[v].hi \in Nat
      BY <1>10, <2>2
    <3>2. Width > 1
      BY <1>3
    <3>3. turn[v].hi = queue'.last => queue'.last = queue.last
      BY <1>5, <3>1
    <3> QED BY <1>5, <1>8, <2>2, <3>1, <3>2, <3>3
  <2>4. stopped' = stopped /\ nextFlush' = nextFlush
    BY <1>0
  <2> SUFFICES ASSUME NEW v \in Busy'
               PROVE  /\ turn'[v].lo <= turn'[v].hi
                      /\ turn'[v].hi < queue'.head
                      /\ Width > 1 => turn'[v].lo = turn'[v].hi
                      /\ ~stopped' => nextFlush' <= turn'[v].lo
                      /\ turn'[v].hi = queue'.last => turn'[v].lo = queue'.last
                      /\ \A u \in Busy' \ {v} :
                           /\ Width > 1
                           /\ \/ turn'[u].hi < turn'[v].lo
                              \/ turn'[v].hi < turn'[u].lo
    BY DEF TurnInv
  <2>5. CASE v = w
    BY <1>9, <2>1, <2>3, <2>4, <2>5
  <2>6. CASE v \in Busy
    BY <1>9, <2>2, <2>3, <2>4, <2>6
  <2> QED BY <1>9, <2>5, <2>6
<1>16. DoneInv'
  <2>1. nextFlush' <= queue'.head
    BY <1>0, <1>5, <1>6 DEF LaneInvariant, DoneInv
  <2>2. \A r \in done : /\ nextFlush <= r.tick /\ r.tick < queue.head
                        /\ r.tick < queue'.head /\ r.tick # queue'.last
                        /\ r.tick < t.lo
    <3> SUFFICES ASSUME NEW r \in done
                 PROVE  /\ nextFlush <= r.tick /\ r.tick < queue.head
                        /\ r.tick < queue'.head /\ r.tick # queue'.last
                        /\ r.tick < t.lo
      OBVIOUS
    <3>1. nextFlush <= r.tick /\ r.tick < queue.head /\ r.tick # queue.last /\ r.tick \in Nat
      BY <1>6 DEF LaneInvariant, DoneInv
    <3>2. r.tick # queue'.last
      BY <1>5, <3>1
    <3> QED BY <1>5, <1>8, <3>1, <3>2
  <2>3. \A r \in done, v \in Busy' : r.tick < turn'[v].lo \/ turn'[v].hi < r.tick
    BY <1>9, <2>2 DEF LaneInvariant, DoneInv
  <2>4. \A m \in nextFlush .. (queue'.head - 1) :
          \/ \E r \in done : r.tick = m
          \/ \E v \in Busy' : turn'[v].lo <= m /\ m <= turn'[v].hi
    <3> SUFFICES ASSUME NEW m \in nextFlush .. (queue'.head - 1)
                 PROVE  \/ \E r \in done : r.tick = m
                        \/ \E v \in Busy' : turn'[v].lo <= m /\ m <= turn'[v].hi
      OBVIOUS
    <3>1. CASE m < queue.head
      <4>1. m \in nextFlush .. (queue.head - 1)
        BY <1>5, <1>6, <3>1
      <4>2. \/ \E r \in done : r.tick = m
            \/ \E v \in Busy : turn[v].lo <= m /\ m <= turn[v].hi
        BY <1>0, <4>1 DEF LaneInvariant, DoneInv
      <4> QED BY <1>9, <4>2
    <3>2. CASE m >= queue.head
      <4>1. t.lo <= m /\ m <= t.hi
        BY <1>5, <1>6, <1>8, <3>2
      <4> QED BY <1>9, <4>1
    <3> QED BY <1>5, <1>6, <3>1, <3>2
  <2>5. \A r \in done : r.tick # nextFlush
    BY <1>0 DEF LaneInvariant, DoneInv
  <2> QED BY <1>0, <2>1, <2>2, <2>3, <2>4, <2>5 DEF DoneInv
<1>17. OutInv'
  <2>1. stopped => queue.last # None /\ queue'.last = queue.last
    BY <1>5 DEF LaneInvariant, OutInv
  <2> QED BY <1>0, <2>1 DEF LaneInvariant, OutInv
<1>18. InOrder'
  BY <1>0 DEF LaneInvariant, InOrder
<1>19. LastCallAlone'
  <2> SUFFICES ASSUME NEW v \in Busy', turn'[v].lo = queue'.last
               PROVE  /\ Busy' = {v}
                      /\ nextFlush' = queue'.last /\ done' = {}
                      /\ finisher' # None => turn'[v].inst = finisher'
    BY DEF LastCallAlone
  <2>1. CASE v = w
    <3>1. q.head = queue'.last
      BY <1>8, <1>9, <2>1
    <3>2. q.last = queue'.last
      BY <1>4, <1>5, <3>1
    <3> QED BY <1>0, <1>3, <1>8, <1>9, <2>1, <3>1, <3>2
  <2>2. CASE v \in Busy
    <3>1. turn[v].lo = queue'.last /\ turn[v].lo \in Nat /\ turn[v].lo < queue.head
      BY <1>5, <1>9, <1>10, <2>2 DEF LaneInvariant, TurnInv
    <3>2. queue.last = queue'.last
      BY <1>5, <3>1
    <3>3. Busy = {v} /\ nextFlush = queue.last
      BY <2>2, <3>1, <3>2 DEF LaneInvariant, LastCallAlone
    <3>4. FALSE
      <4>1. queue.last # None /\ queue.last \in Nat
        BY <1>5, <3>1, <3>2
      <4>2. queue.next = queue.last + 1 /\ q.last = queue.last
        BY <1>1, <4>1 DEF LaneInvariant, QueueInv, QueueOK, Grown
      <4>3. q.next = queue.last + 1
        BY <1>1, <4>1, <4>2 DEF QueueOK
      <4> QED BY <1>2, <1>5, <3>1, <3>2, <4>1, <4>3
    <3> QED BY <3>4
  <2> QED BY <1>9, <2>1, <2>2
<1>20. HandInv'
  <2>1. created' >= created /\ inst < created'
    <3>1. CASE at = 0
      BY <1>0, <1>6, <3>1 DEF inst
    <3>2. CASE at # 0
      <4>1. at \in DOMAIN idle /\ inst = idle[at]
        BY <1>3, <1>6, <3>2 DEF inst
      <4> QED BY <1>0, <1>6, <3>2, <4>1 DEF LaneInvariant, HandInv
    <3> QED BY <3>1, <3>2
  <2>2. \A v \in Busy : turn[v].inst < created /\ turn[v].inst \in Int
    BY <1>10 DEF LaneInvariant, HandInv, Turn
  <2>3. ASSUME NEW v \in Busy' PROVE turn'[v].inst < created'
    <3>1. created \in Int /\ created' \in Int
      BY <1>0, <1>6
    <3>2. CASE v = w
      BY <1>8, <1>9, <2>1, <3>2
    <3>3. CASE v \in Busy
      BY <1>9, <2>1, <2>2, <3>1, <3>3
    <3> QED BY <1>9, <3>2, <3>3
  <2>4. \A k \in DOMAIN idle' : idle'[k] < created'
    <3> SUFFICES ASSUME NEW k \in DOMAIN idle' PROVE idle'[k] < created'
      OBVIOUS
    <3>1. PICK j \in DOMAIN idle : idle'[k] = idle[j]
      BY <1>11
    <3>2. idle[j] < created /\ idle[j] \in Int
      BY <1>6 DEF LaneInvariant, HandInv
    <3> QED BY <1>6, <1>12, <2>1, <3>1, <3>2
  <2>5. \A u, v \in Busy' : u # v => turn'[u].inst # turn'[v].inst
    BY <1>3, <1>8, <1>9 DEF LaneInvariant, HandInv, OneHandEach
  <2>6. \A v \in Busy', k \in DOMAIN idle' : turn'[v].inst # idle'[k]
    BY <1>8, <1>9, <1>11 DEF LaneInvariant, HandInv, OneHandEach
  <2> QED BY <1>11, <2>3, <2>4, <2>5, <2>6 DEF HandInv, OneHandEach
<1>21. RowInv'
  <2> SUFFICES ASSUME Assembled, Width > 1
               PROVE  /\ \A i \in Instance : told'[i] <= queue'.head /\ kept' <= told'[i]
                      /\ \A v \in Busy' : /\ turn'[v].from = knows'[turn'[v].inst]
                                           /\ told'[turn'[v].inst] = turn'[v].hi + 1
                      /\ \A i \in Instance :
                           (\A v \in Busy' : turn'[v].inst # i) => told'[i] = knows'[i]
    BY DEF RowInv, Assembled
  <2>1. /\ \A i \in Instance : told[i] <= queue.head /\ kept <= told[i]
        /\ \A v \in Busy : /\ turn[v].from = knows[turn[v].inst]
                            /\ told[turn[v].inst] = turn[v].hi + 1
        /\ \A i \in Instance : (\A v \in Busy : turn[v].inst # i) => told[i] = knows[i]
    BY DEF LaneInvariant, RowInv
  <2>2. /\ told'[inst] = queue'.head
        /\ \A i \in Instance : i # inst => told'[i] = told[i]
    BY <1>0, <1>3, <1>5, <1>6
  <2>3. \A i \in Instance : told'[i] <= queue'.head /\ kept <= told'[i]
    <3> SUFFICES ASSUME NEW i \in Instance
                 PROVE  told'[i] <= queue'.head /\ kept <= told'[i]
      OBVIOUS
    <3>1. told[i] <= queue.head /\ kept <= told[i] /\ told[i] \in Nat
      BY <1>6, <2>1
    <3>2. queue.head <= queue'.head
      BY <1>5
    <3>3. kept <= queue'.head
      BY <1>5, <1>6, <3>1, <3>2
    <3>4. CASE i = inst
      BY <1>5, <2>2, <3>3, <3>4
    <3>5. CASE i # inst
      BY <1>5, <2>2, <3>1, <3>2, <3>5
    <3> QED BY <3>4, <3>5
  <2>4. knows' = knows /\ told[inst] = knows[inst] /\ kept <= told[inst]
    BY <1>0, <1>3, <2>1
  <2>5. t.from = knows[inst]
    BY <1>3, <1>6, <1>8, <2>4
  <2>6. \A v \in Busy' : /\ turn'[v].from = knows'[turn'[v].inst]
                         /\ told'[turn'[v].inst] = turn'[v].hi + 1
    <3> SUFFICES ASSUME NEW v \in Busy'
                 PROVE  /\ turn'[v].from = knows'[turn'[v].inst]
                        /\ told'[turn'[v].inst] = turn'[v].hi + 1
      OBVIOUS
    <3>1. CASE v = w
      BY <1>5, <1>8, <1>9, <2>2, <2>4, <2>5, <3>1
    <3>2. CASE v \in Busy
      <4>1. turn'[v] = turn[v] /\ turn[v].inst # inst /\ turn[v].inst \in Instance
        BY <1>3, <1>9, <1>10, <3>2 DEF Turn
      <4> QED BY <2>1, <2>2, <2>4, <3>2, <4>1
    <3> QED BY <1>9, <3>1, <3>2
  <2>7. \A i \in Instance :
          (\A v \in Busy' : turn'[v].inst # i) => told'[i] = knows'[i]
    BY <1>8, <1>9, <2>1, <2>2, <2>4
  <2> QED BY <1>12, <2>3, <2>6, <2>7
<1> QED BY <1>13, <1>14, <1>15, <1>16, <1>17, <1>18, <1>19, <1>20, <1>21
      DEF LaneInvariant

-----------------------------------------------------------------------------
(* A completion keeps the invariant.                                       *)

\* The next m ordinals to leave.
Run(m) == [k \in 1 .. m |-> nextFlush + k - 1]

\* A run of ordinals in order is that run.
LEMMA OrderedRun ==
  ASSUME nextFlush \in Nat, NEW m \in Nat,
         NEW ticks, ticks = nextFlush .. (nextFlush + m - 1)
  PROVE  Ordered(ticks) = Run(m)
<1>1. Cardinality(ticks) = m
  <2> DEFINE b == nextFlush + m - 1
  <2>1. nextFlush \in Int /\ b \in Int
    OBVIOUS
  <2>2. Cardinality(nextFlush .. b) = IF nextFlush > b THEN 0 ELSE b - nextFlush + 1
    BY <2>1, FS_Interval
  <2>3. (IF nextFlush > b THEN 0 ELSE b - nextFlush + 1) = m
    OBVIOUS
  <2> QED BY <2>2, <2>3
<1>2. ASSUME NEW n \in ticks
      PROVE  Cardinality({x \in ticks : x < n}) = n - nextFlush
  <2>1. {x \in ticks : x < n} = nextFlush .. (n - 1)
    OBVIOUS
  <2>2. Cardinality(nextFlush .. (n - 1)) = n - nextFlush
    <3>1. n \in Int /\ nextFlush <= n
      OBVIOUS
    <3> DEFINE b == n - 1
    <3>2. nextFlush \in Int /\ b \in Int
      BY <3>1
    <3>3. Cardinality(nextFlush .. b) = IF nextFlush > b THEN 0 ELSE b - nextFlush + 1
      BY <3>2, FS_Interval
    <3>4. (IF nextFlush > b THEN 0 ELSE b - nextFlush + 1) = n - nextFlush
      BY <3>1
    <3> QED BY <3>3, <3>4
  <2> QED BY <2>1, <2>2
<1>3. ASSUME NEW k \in 1 .. m
      PROVE  (CHOOSE n \in ticks : Cardinality({x \in ticks : x < n}) = k - 1)
               = nextFlush + k - 1
  <2> DEFINE P(n) == Cardinality({x \in ticks : x < n}) = k - 1
  <2>1. nextFlush + k - 1 \in ticks
    OBVIOUS
  <2>2. P(nextFlush + k - 1)
    BY <1>2, <2>1
  <2>3. \A n \in ticks : P(n) => n = nextFlush + k - 1
    BY <1>2
  <2> HIDE DEF P
  <2>4. (CHOOSE n \in ticks : P(n)) = nextFlush + k - 1
    BY <2>1, <2>2, <2>3
  <2> QED BY <2>4 DEF P
<1> QED BY <1>1, <1>3 DEF Ordered, Run

\* What leaves follows what has left.
LEMMA Leaving ==
  ASSUME out \in Seq(Nat), nextFlush \in Nat, NEW m \in Nat
  PROVE  /\ out \o Run(m) \in Seq(Nat)
         /\ DOMAIN (out \o Run(m)) = 1 .. (Len(out) + m)
         /\ Len(out \o Run(m)) = Len(out) + m
         /\ \A k \in 1 .. Len(out) : (out \o Run(m))[k] = out[k]
         /\ \A k \in 1 .. m : (out \o Run(m))[Len(out) + k] = nextFlush + k - 1
<1>1. Run(m) \in Seq(Nat) /\ Len(Run(m)) = m /\ \A k \in 1 .. m : Run(m)[k] = nextFlush + k - 1
  BY DEF Run
<1> HIDE DEF Run
<1>2. /\ out \o Run(m) \in Seq(Nat) /\ Len(out \o Run(m)) = Len(out) + m
      /\ \A k \in 1 .. (Len(out) + m) :
           (out \o Run(m))[k] = IF k <= Len(out) THEN out[k] ELSE Run(m)[k - Len(out)]
  <2> HIDE DEF Run
  <2> DEFINE r == Run(m)
  <2>1. r \in Seq(Nat) /\ Len(r) = m
    BY <1>1
  <2> HIDE DEF r
  <2>2. /\ out \o r \in Seq(Nat) /\ Len(out \o r) = Len(out) + Len(r)
        /\ \A k \in 1 .. (Len(out) + Len(r)) :
             (out \o r)[k] = IF k <= Len(out) THEN out[k] ELSE r[k - Len(out)]
    BY <2>1, ConcatProperties
  <2> QED BY <2>1, <2>2 DEF r
<1>3. ASSUME NEW k \in 1 .. Len(out)
      PROVE  (out \o Run(m))[k] = out[k]
  <2>1. k \in 1 .. (Len(out) + m) /\ k <= Len(out)
    OBVIOUS
  <2> QED BY <1>2, <2>1
<1>4. ASSUME NEW k \in 1 .. m
      PROVE  (out \o Run(m))[Len(out) + k] = nextFlush + k - 1
  <2>1. /\ Len(out) + k \in 1 .. (Len(out) + m) /\ ~(Len(out) + k <= Len(out))
        /\ Len(out) + k - Len(out) = k
    OBVIOUS
  <2>2. (out \o Run(m))[Len(out) + k] = Run(m)[k]
    BY <1>2, <2>1
  <2> QED BY <1>1, <2>2
<1>5. DOMAIN (out \o Run(m)) = 1 .. (Len(out) + m)
  BY <1>2
<1> QED BY <1>2, <1>3, <1>4, <1>5

\* A worker that hands its turn in leaves the other turns as they are, and
\* puts its instance in no second hand.
LEMMA HandedIn ==
  ASSUME LaneInvariant, NEW w \in Worker, NEW stop, NEW verdict, Complete(w, stop, verdict)
  PROVE  /\ w \in Busy /\ turn[w] \in Turn /\ ~ended
         /\ Busy' = Busy \ {w} /\ \A v \in Busy' : turn'[v] = turn[v]
         /\ turn' \in [Worker -> Turn \cup {None}]
         /\ idle' \in Seq(Instance) /\ knows' \in [Instance -> Nat]
         /\ stop \in turn[w].lo .. turn[w].hi
         /\ verdict = "ok" => stop = turn[w].hi
         /\ HandInv'
         /\ (queue'.head \in Nat /\ queue'.head >= queue.head) => RowInv'
<1> USE DEF LaneInvariant
<1> DEFINE t == turn[w]
<1>1. /\ t # None /\ stop \in t.lo .. t.hi /\ (verdict = "ok" => stop = t.hi)
      /\ turn' = [turn EXCEPT ![w] = None]
      /\ idle' = Append(idle, t.inst) \/ idle' = idle
      /\ knows' = IF t.from <= knows[t.inst]
                    THEN [knows EXCEPT ![t.inst] = stop + 1] ELSE knows
      /\ UNCHANGED <<created, told, kept>>
  BY DEF Complete, rows
<1>2. /\ turn \in [Worker -> Turn \cup {None}] /\ idle \in Seq(Instance)
      /\ knows \in [Instance -> Nat] /\ told \in [Instance -> Nat] /\ queue.head \in Nat
      /\ created \in Int
  BY DEF TypeOK
<1>3. /\ w \in Busy /\ t \in Turn /\ ~ended
      /\ t.lo \in Nat /\ t.hi \in Nat /\ t.inst \in Instance /\ stop \in Nat
  BY <1>1, <1>2 DEF Busy, OutInv, Turn
<1>4. /\ Busy' = Busy \ {w} /\ \A v \in Busy' : turn'[v] = turn[v]
      /\ turn' \in [Worker -> Turn \cup {None}]
  BY <1>1, <1>2 DEF Busy
<1>5. \A v \in Busy : v # w => turn[v].inst # t.inst
  BY <1>3 DEF HandInv, OneHandEach
<1>6. idle' \in Seq(Instance) /\ HandInv'
  <2>1. CASE idle' = idle
    BY <1>1, <1>2, <1>4, <2>1 DEF HandInv, OneHandEach
  <2>2. CASE idle' = Append(idle, t.inst)
    <3>1. /\ idle' \in Seq(Instance) /\ DOMAIN idle' = 1 .. (Len(idle) + 1)
          /\ idle'[Len(idle) + 1] = t.inst
          /\ \A k \in DOMAIN idle : k \in 1 .. Len(idle) /\ idle'[k] = idle[k]
          /\ \A k \in DOMAIN idle' : k \in DOMAIN idle \/ k = Len(idle) + 1
      BY <1>2, <1>3, <2>2
    <3>2. /\ \A k \in DOMAIN idle : idle[k] # t.inst /\ idle[k] < created
          /\ \A j, k \in DOMAIN idle : j # k => idle[j] # idle[k]
          /\ \A v \in Busy, k \in DOMAIN idle : turn[v].inst # idle[k]
          /\ \A u, v \in Busy : u # v => turn[u].inst # turn[v].inst
          /\ \A v \in Busy : turn[v].inst < created
      BY <1>3 DEF HandInv, OneHandEach
    <3> HIDE DEF t
    <3>3. \A k \in DOMAIN idle' : idle'[k] < created'
      BY <1>1, <1>3, <3>1, <3>2 DEF t
    <3>4. \A j, k \in DOMAIN idle' : j # k => idle'[j] # idle'[k]
      BY <3>1, <3>2
    <3>5. \A v \in Busy', k \in DOMAIN idle' : turn'[v].inst # idle'[k]
      BY <1>4, <1>5, <3>1, <3>2
    <3>6. \A u, v \in Busy' : u # v => turn'[u].inst # turn'[v].inst
      BY <1>4, <3>2
    <3>7. \A v \in Busy' : turn'[v].inst < created'
      BY <1>1, <1>4, <3>2
    <3> QED BY <3>1, <3>3, <3>4, <3>5, <3>6, <3>7 DEF HandInv, OneHandEach
  <2> QED BY <1>1, <2>1, <2>2
<1>7. knows' \in [Instance -> Nat]
  BY <1>1, <1>2, <1>3
<1>8. ASSUME queue'.head \in Nat, queue'.head >= queue.head
      PROVE  RowInv'
  <2> SUFFICES ASSUME Assembled, Width > 1
               PROVE  /\ \A i \in Instance : told'[i] <= queue'.head /\ kept' <= told'[i]
                      /\ \A v \in Busy' : /\ turn'[v].from = knows'[turn'[v].inst]
                                          /\ told'[turn'[v].inst] = turn'[v].hi + 1
                      /\ \A i \in Instance :
                           (\A v \in Busy' : turn'[v].inst # i) => told'[i] = knows'[i]
    BY DEF RowInv, Assembled
  <2>1. /\ \A i \in Instance : told[i] <= queue.head /\ kept <= told[i]
        /\ \A v \in Busy : /\ turn[v].from = knows[turn[v].inst]
                           /\ told[turn[v].inst] = turn[v].hi + 1
        /\ \A i \in Instance : (\A v \in Busy : turn[v].inst # i) => told[i] = knows[i]
    BY DEF RowInv
  <2>2. t.lo = t.hi /\ stop = t.hi
    BY <1>1, <1>3 DEF TurnInv
  <2>3. knows'[t.inst] = told[t.inst] /\ \A i \in Instance : i # t.inst => knows'[i] = knows[i]
    <3>1. t.from = knows[t.inst] /\ t.from \in Nat /\ told[t.inst] = t.hi + 1
      BY <1>3, <2>1 DEF Turn
    <3> QED BY <1>1, <1>2, <1>3, <2>2, <3>1
  <2>4. \A i \in Instance : told'[i] <= queue'.head /\ kept' <= told'[i]
    <3> SUFFICES ASSUME NEW i \in Instance
                 PROVE  told'[i] <= queue'.head /\ kept' <= told'[i]
      OBVIOUS
    <3>1. told[i] \in Nat /\ told[i] <= queue.head /\ kept <= told[i]
      BY <1>2, <2>1
    <3>2. queue'.head >= told[i]
      BY <1>2, <1>8, <3>1
    <3>3. told' = told /\ kept' = kept
      BY <1>1
    <3> QED BY <3>1, <3>2, <3>3
  <2>5. \A v \in Busy' : /\ turn'[v].from = knows'[turn'[v].inst]
                         /\ told'[turn'[v].inst] = turn'[v].hi + 1
    <3> SUFFICES ASSUME NEW v \in Busy'
                 PROVE  /\ turn[v].from = knows'[turn[v].inst]
                        /\ told[turn[v].inst] = turn[v].hi + 1
      BY <1>1, <1>4
    <3>1. v \in Busy /\ turn[v].inst # t.inst /\ turn[v].inst \in Instance
      BY <1>2, <1>4, <1>5 DEF Busy, Turn
    <3> QED BY <2>1, <2>3, <3>1
  <2>6. \A i \in Instance : (\A v \in Busy' : turn'[v].inst # i) => told'[i] = knows'[i]
    <3> SUFFICES ASSUME NEW i \in Instance, \A v \in Busy' : turn'[v].inst # i
                 PROVE  told[i] = knows'[i]
      BY <1>1
    <3>1. CASE i = t.inst
      BY <2>3, <3>1
    <3>2. CASE i # t.inst
      BY <1>4, <2>1, <2>3, <3>2
    <3> QED BY <3>1, <3>2
  <2> QED BY <2>4, <2>5, <2>6
<1> QED BY <1>1, <1>3, <1>4, <1>6, <1>7, <1>8

\* What a turn made, run up to tick e: its ordinals from the one that leaves
\* next on.
LEMMA MadeOf ==
  ASSUME NEW t \in Turn, nextFlush \in Nat, NEW e \in Int, e <= t.hi, NEW verdict
  PROVE  /\ Made(t, e, verdict) \in SUBSET Result
         /\ \A r \in Made(t, e, verdict) :
              /\ r.tick \in Nat /\ t.lo <= r.tick /\ nextFlush <= r.tick /\ r.tick <= e
              /\ r.inst = t.inst
         /\ \A n \in t.lo .. e : nextFlush <= n =>
              \E r \in Made(t, e, verdict) : r.tick = n
         /\ (verdict = "finished" /\ t.lo <= e /\ nextFlush <= e) =>
              \E r \in Made(t, e, verdict) : r.tick = e /\ r.fin
<1> DEFINE lo == Larger(t.lo, nextFlush)
           one(n) == [tick |-> n, fin |-> (n = e /\ verdict = "finished"), inst |-> t.inst]
<1>1. t.lo \in Tick /\ t.hi \in Tick /\ t.inst \in Instance
  BY DEF Turn
<1>2. /\ lo \in Nat /\ t.lo <= lo /\ nextFlush <= lo
      /\ \A n \in t.lo .. e : nextFlush <= n => n \in lo .. e
  BY <1>1
<1>3. \A n \in lo .. e : n \in Tick /\ n \in t.lo .. e /\ nextFlush <= n /\ n \in Nat
  BY <1>1, <1>2, LaneAssumption
<1>4. Made(t, e, verdict) = {one(n) : n \in lo .. e}
  BY DEF Made
<1>5. \A n : /\ one(n).tick = n /\ one(n).inst = t.inst
             /\ one(n).fin <=> (n = e /\ verdict = "finished")
  OBVIOUS
<1>6. \A n \in Tick : one(n) \in Result
  <2> SUFFICES ASSUME NEW n \in Tick PROVE one(n) \in Result
    OBVIOUS
  <2> DEFINE fin == n = e /\ verdict = "finished"
  <2>1. fin \in BOOLEAN
    OBVIOUS
  <2> HIDE DEF fin, Tick, Instance
  <2>2. [tick |-> n, fin |-> fin, inst |-> t.inst] \in Result
    BY <1>1, <2>1 DEF Result
  <2> QED BY <2>2 DEF fin
<1> HIDE DEF lo, one, Tick, Instance
<1>7. Made(t, e, verdict) \in SUBSET Result
  BY <1>3, <1>4, <1>6
<1>8. \A r \in Made(t, e, verdict) :
        /\ r.tick \in Nat /\ t.lo <= r.tick /\ nextFlush <= r.tick /\ r.tick <= e
        /\ r.inst = t.inst
  <2> SUFFICES ASSUME NEW n \in lo .. e
               PROVE  /\ one(n).tick \in Nat /\ t.lo <= one(n).tick
                      /\ nextFlush <= one(n).tick /\ one(n).tick <= e
                      /\ one(n).inst = t.inst
    BY <1>4
  <2> QED BY <1>3, <1>5
<1>9. \A n \in t.lo .. e : nextFlush <= n => \E r \in Made(t, e, verdict) : r.tick = n
  BY <1>2, <1>4, <1>5
<1>10. (verdict = "finished" /\ t.lo <= e /\ nextFlush <= e) =>
         \E r \in Made(t, e, verdict) : r.tick = e /\ r.fin
  <2> SUFFICES ASSUME verdict = "finished", t.lo <= e, nextFlush <= e
               PROVE  \E r \in Made(t, e, verdict) : r.tick = e /\ r.fin
    OBVIOUS
  <2>1. e \in t.lo .. e
    BY <1>1 DEF Tick
  <2>2. e \in lo .. e
    BY <1>2, <2>1
  <2> QED BY <1>4, <1>5, <2>2
<1> QED BY <1>7, <1>8, <1>9, <1>10

\* Results in hand once worker w's turn is run up to tick e: none has left,
\* none belongs to another turn, and the last call's is alone.
LEMMA InHand ==
  ASSUME LaneInvariant, NEW w \in Busy, turn[w] \in Turn, NEW verdict,
         NEW e \in Int, e <= turn[w].hi
  PROVE  LET t == turn[w]
             d == done \cup Made(t, e, verdict)
         IN /\ d \in SUBSET Result
            /\ \A r \in d : r.tick \in Nat /\ nextFlush <= r.tick /\ r.tick < queue.head
            /\ \A r \in d : r.tick = queue.last =>
                 /\ t.lo = queue.last /\ nextFlush = queue.last
                 /\ done = {} /\ Busy = {w} /\ r.tick = t.hi
            /\ \A r \in d : r.tick = queue.last => r.tick = t.hi
            /\ \A r \in d, v \in Busy : v # w => r.tick < turn[v].lo \/ turn[v].hi < r.tick
            /\ \A v \in Busy : v # w => turn[v].lo # queue.last
            /\ queue.last # None => t.hi <= queue.last /\ queue.last \in Nat
            /\ stopped => nextFlush = queue.last /\ done = {}
            /\ t.lo \in Nat /\ t.hi \in Nat /\ t.lo <= t.hi /\ t.hi < queue.head
            /\ queue.head \in Nat /\ queue.next \in Nat /\ queue.head <= queue.next
            /\ nextFlush \in Nat /\ nextFlush <= queue.head
<1> USE DEF LaneInvariant
<1> DEFINE t == turn[w]
           m == Made(t, e, verdict)
           d == done \cup m
<1>1. /\ nextFlush \in Nat /\ queue.head \in Nat /\ queue.next \in Nat
      /\ queue.head <= queue.next /\ nextFlush <= queue.head
      /\ done \in SUBSET Result
      /\ queue.last # None => queue.last \in Nat /\ queue.next = queue.last + 1
      /\ \A v \in Busy : turn[v] \in Turn
  BY DEF TypeOK, QueueInv, QueueOK, DoneInv, Busy
<1>2. /\ t.lo \in Nat /\ t.hi \in Nat /\ t.lo <= t.hi /\ t.hi < queue.head
      /\ t.hi = queue.last => t.lo = queue.last
  BY DEF TurnInv, Turn
<1>3. queue.last # None => t.hi <= queue.last
  BY <1>1, <1>2
<1>4. \A v \in Busy : turn[v].lo = queue.last => Busy = {v} /\ nextFlush = queue.last /\ done = {}
  BY DEF LastCallAlone
<1>5. /\ m \in SUBSET Result
      /\ \A r \in m : r.tick \in Nat /\ t.lo <= r.tick /\ nextFlush <= r.tick /\ r.tick <= e
  BY <1>1, MadeOf
<1> HIDE DEF m
<1>6. d \in SUBSET Result
  BY <1>1, <1>5
<1>7. \A r \in d : r.tick \in Nat /\ nextFlush <= r.tick /\ r.tick < queue.head
  <2>1. \A r \in done : r.tick \in Nat /\ nextFlush <= r.tick /\ r.tick < queue.head
    BY <1>1 DEF DoneInv, Result
  <2>2. \A r \in m : r.tick < queue.head
    BY <1>1, <1>2, <1>5
  <2> QED BY <1>5, <2>1, <2>2
<1>8. ASSUME NEW r \in d, r.tick = queue.last
      PROVE  /\ t.lo = queue.last /\ nextFlush = queue.last
             /\ done = {} /\ Busy = {w} /\ r.tick = t.hi
  <2>1. r \in m
    BY <1>8 DEF DoneInv
  <2>2. queue.last # None /\ r.tick <= t.hi /\ r.tick \in Nat
    BY <1>2, <1>5, <1>8, <2>1, QueueAssumption
  <2>3. r.tick = t.hi
    BY <1>1, <1>2, <1>3, <1>8, <2>2
  <2> QED BY <1>2, <1>4, <1>8, <2>3
<1>9. ASSUME NEW r \in d, NEW v \in Busy, v # w
      PROVE  r.tick < turn[v].lo \/ turn[v].hi < r.tick
  <2>1. CASE r \in done
    BY <2>1 DEF DoneInv
  <2>2. CASE r \in m
    <3>1. turn[v].hi < t.lo \/ t.hi < turn[v].lo
      BY <1>9 DEF TurnInv
    <3>2. turn[v].lo \in Nat /\ turn[v].hi \in Nat
      BY <1>1 DEF Turn
    <3> QED BY <1>2, <1>5, <2>2, <3>1, <3>2
  <2> QED BY <2>1, <2>2
<1>10. \A v \in Busy : v # w => turn[v].lo # queue.last
  BY <1>4
<1>11. stopped => nextFlush = queue.last /\ done = {}
  <2>1. ~ended
    <3>1. ended => Busy = {}
      BY DEF OutInv
    <3> QED BY <3>1
  <2>2. (stopped /\ ~ended) => nextFlush = queue.last
    BY DEF OutInv
  <2>3. stopped => done = {}
    BY DEF OutInv
  <2> QED BY <2>1, <2>2, <2>3
<1> QED BY <1>1, <1>2, <1>3, <1>6, <1>7, <1>8, <1>9, <1>10, <1>11 DEF m

\* A turn that failed leaves with nothing: its results are kept, and the lane
\* is as it was.
LEMMA FailedKeeps ==
  ASSUME LaneInvariant, NEW w \in Worker, NEW stop, Complete(w, stop, "failed")
  PROVE  LaneInvariant'
<1> DEFINE t == turn[w]
           m == Made(t, stop - 1, "failed")
           d == done \cup m
<1>1. /\ error' = TRUE /\ done' = d
      /\ UNCHANGED <<arrived, over, queue, stopped, ended, finisher, nextFlush, out,
                     created, told, kept>>
  BY DEF Complete, life, intake, rows
<1>2. /\ w \in Busy /\ t \in Turn /\ ~ended
      /\ Busy' = Busy \ {w} /\ \A v \in Busy' : turn'[v] = turn[v]
      /\ turn' \in [Worker -> Turn \cup {None}]
      /\ idle' \in Seq(Instance) /\ knows' \in [Instance -> Nat]
      /\ stop \in t.lo .. t.hi
      /\ HandInv'
      /\ (queue'.head \in Nat /\ queue'.head >= queue.head) => RowInv'
  BY HandedIn
<1>3. t.lo \in Nat /\ t.hi \in Nat /\ queue.head \in Nat
  BY <1>2 DEF LaneInvariant, Turn, TypeOK
<1>4. stop - 1 \in Int /\ stop - 1 < t.hi /\ stop - 1 <= t.hi
  BY <1>2, <1>3
<1>5. /\ d \in SUBSET Result
      /\ \A r \in d : r.tick \in Nat /\ nextFlush <= r.tick /\ r.tick < queue.head
      /\ \A r \in d : r.tick = queue.last => r.tick = t.hi
      /\ \A r \in d, v \in Busy : v # w => r.tick < turn[v].lo \/ turn[v].hi < r.tick
      /\ \A v \in Busy : v # w => turn[v].lo # queue.last
      /\ queue.last # None => t.hi <= queue.last /\ queue.last \in Nat
      /\ stopped => nextFlush = queue.last /\ done = {}
      /\ nextFlush \in Nat /\ nextFlush <= queue.head
  <2> DEFINE e  == stop - 1
             dd == done \cup Made(turn[w], e, "failed")
  <2>1. e \in Int /\ e <= turn[w].hi /\ w \in Busy /\ turn[w] \in Turn
    <3>1. stop \in Int /\ stop <= t.hi /\ t.hi \in Int
      BY <1>2, <1>4 DEF Turn
    <3> QED BY <1>2, <3>1
  <2> HIDE DEF e
  <2>2. /\ dd \in SUBSET Result
        /\ \A r \in dd : r.tick \in Nat /\ nextFlush <= r.tick /\ r.tick < queue.head
        /\ \A r \in dd : r.tick = queue.last => r.tick = turn[w].hi
        /\ \A r \in dd, v \in Busy : v # w => r.tick < turn[v].lo \/ turn[v].hi < r.tick
    <3>1. dd \in SUBSET Result
      BY <2>1, InHand
    <3>2. \A r \in dd : r.tick \in Nat /\ nextFlush <= r.tick /\ r.tick < queue.head
      BY <2>1, InHand
    <3>3. \A r \in dd : r.tick = queue.last => r.tick = turn[w].hi
      BY <2>1, InHand
    <3>4. ASSUME NEW r \in dd, NEW v \in Busy, v # w
          PROVE  r.tick < turn[v].lo \/ turn[v].hi < r.tick
      BY <2>1, <3>4, InHand
    <3> QED BY <3>1, <3>2, <3>3, <3>4
  <2>3. /\ \A v \in Busy : v # w => turn[v].lo # queue.last
        /\ queue.last # None => turn[w].hi <= queue.last /\ queue.last \in Nat
        /\ stopped => nextFlush = queue.last /\ done = {}
        /\ nextFlush \in Nat /\ nextFlush <= queue.head
    BY <2>1, InHand
  <2> QED BY <2>2, <2>3 DEF e
<1>6. \A r \in m : r.tick \in Nat /\ nextFlush <= r.tick /\ r.tick <= stop - 1
  BY <1>2, <1>4, <1>5, MadeOf
<1> USE DEF LaneInvariant
<1> HIDE DEF m
<1>7. \A r \in d : r.tick # queue.last
  <2> SUFFICES ASSUME NEW r \in d, r.tick = queue.last
               PROVE  FALSE
    OBVIOUS
  <2>1. r \in m
    BY DEF DoneInv
  <2> QED BY <1>2, <1>3, <1>4, <1>5, <1>6, <2>1
<1>8. stopped => d = {}
  <2> SUFFICES ASSUME stopped, NEW r \in m
               PROVE  FALSE
    BY <1>5
  <2>1. queue.last # None /\ nextFlush = queue.last /\ queue.last \in Nat /\ t.hi <= queue.last
    BY <1>5 DEF OutInv
  <2> QED BY <1>2, <1>3, <1>4, <1>6, <2>1
<1>9. TypeOK'
  BY <1>1, <1>2, <1>5 DEF TypeOK
<1>10. QueueInv'
  BY <1>1 DEF QueueInv, QueueOK
<1>11. TurnInv'
  BY <1>1, <1>2 DEF TurnInv
<1>12. DoneInv'
  BY <1>1, <1>2, <1>5, <1>7 DEF DoneInv
<1>13. OutInv'
  BY <1>1, <1>2, <1>8 DEF OutInv
<1>14. InOrder'
  BY <1>1 DEF InOrder
<1>15. LastCallAlone'
  BY <1>1, <1>2, <1>5 DEF LastCallAlone
<1>16. RowInv'
  BY <1>1, <1>2, <1>3
<1> QED BY <1>2, <1>9, <1>10, <1>11, <1>12, <1>13, <1>14, <1>15, <1>16

\* What Flush is given by a turn handed in, and which of it is below past and
\* which claims to be finished.
Ready(w, stop, verdict) == done \cup Made(turn[w], stop, verdict)
Gone(d, past) == {r \in d : r.tick < past}
Claims(d, past) == {r \in Gone(d, past) : r.fin /\ r.tick # queue.last /\ ~stopped}

\* A turn handed in at whose run nobody claims to be finished.
LEMMA RunKeeps ==
  ASSUME LaneInvariant, NEW w \in Worker, NEW stop, NEW verdict \in {"ok", "finished"},
         Complete(w, stop, verdict), NEW past \in nextFlush .. queue.next,
         \A n \in nextFlush .. (past - 1) : \E r \in Ready(w, stop, verdict) : r.tick = n,
         \A r \in Ready(w, stop, verdict) : r.tick # past,
         Claims(Ready(w, stop, verdict), past) = {},
         FlushRun(Ready(w, stop, verdict), Gone(Ready(w, stop, verdict), past), past),
         UNCHANGED error
  PROVE  LaneInvariant'
<1> DEFINE t == turn[w]
           d == Ready(w, stop, verdict)
<1>1. /\ UNCHANGED <<arrived, over, queue, finisher, created, told, kept, error>>
      /\ out' = out \o Ordered({r.tick : r \in {r \in d : r.tick < past}})
      /\ done' = {r \in d : ~(r.tick < past)}
      /\ nextFlush' = past
      /\ IF \E r \in d : r.tick < past /\ r.tick = queue.last
           THEN stopped' = TRUE /\ ended' = TRUE
           ELSE UNCHANGED <<stopped, ended>>
  BY DEF Complete, FlushRun, intake, rows, Gone
<1>2. /\ w \in Busy /\ t \in Turn /\ ~ended
      /\ Busy' = Busy \ {w} /\ \A v \in Busy' : turn'[v] = turn[v]
      /\ turn' \in [Worker -> Turn \cup {None}]
      /\ idle' \in Seq(Instance) /\ knows' \in [Instance -> Nat]
      /\ stop \in t.lo .. t.hi
      /\ verdict = "ok" => stop = t.hi
      /\ HandInv'
      /\ (queue'.head \in Nat /\ queue'.head >= queue.head) => RowInv'
  BY HandedIn
<1>3. stop \in Nat /\ stop \in Int /\ stop <= t.hi /\ t.lo <= stop /\ t.hi \in Nat
  BY <1>2 DEF Turn
<1>4. /\ d \in SUBSET Result
      /\ \A r \in d : r.tick \in Nat /\ nextFlush <= r.tick /\ r.tick < queue.head
      /\ \A r \in d : r.tick = queue.last =>
           /\ t.lo = queue.last /\ nextFlush = queue.last
           /\ done = {} /\ Busy = {w} /\ r.tick = t.hi
      /\ \A r \in d, v \in Busy : v # w => r.tick < turn[v].lo \/ turn[v].hi < r.tick
      /\ \A v \in Busy : v # w => turn[v].lo # queue.last
      /\ queue.last # None => t.hi <= queue.last /\ queue.last \in Nat
      /\ stopped => nextFlush = queue.last /\ done = {}
      /\ t.lo \in Nat /\ t.hi \in Nat /\ t.lo <= t.hi /\ t.hi < queue.head
      /\ queue.head \in Nat /\ queue.next \in Nat /\ queue.head <= queue.next
      /\ nextFlush \in Nat /\ nextFlush <= queue.head
  BY <1>2, <1>3, InHand DEF Ready
<1>5. /\ \A n \in t.lo .. stop : nextFlush <= n => \E r \in d : r.tick = n
      /\ (verdict = "finished" /\ nextFlush <= stop) => \E r \in d : r.tick = stop /\ r.fin
      /\ \A r \in done : r \in d
      /\ \A r \in d : r.tick # past
  BY <1>2, <1>3, <1>4, MadeOf DEF Ready
<1> HIDE DEF t, d
<1>6. past \in Nat /\ nextFlush <= past /\ past <= queue.head
  <2>1. past \in Nat /\ nextFlush <= past
    BY <1>4
  <2>2. ASSUME past > queue.head
        PROVE  FALSE
    <3>1. queue.head \in nextFlush .. (past - 1)
      BY <1>4, <2>1, <2>2
    <3>2. PICK r \in d : r.tick = queue.head
      BY <3>1 DEF d
    <3> QED BY <1>4, <3>2
  <2> QED BY <1>4, <2>1, <2>2
<1>7. /\ done' \in SUBSET Result
      /\ \A r \in done' : r \in d /\ past <= r.tick /\ r.tick # past
  <2> SUFFICES ASSUME NEW r \in d, ~(r.tick < past)
               PROVE  past <= r.tick
    BY <1>1, <1>4, <1>5
  <2> QED BY <1>4, <1>6
<1>8. /\ out' \in Seq(Nat)
      /\ DOMAIN out' = 1 .. (Len(out) + (past - nextFlush))
      /\ Len(out') = Len(out) + (past - nextFlush)
      /\ \A k \in 1 .. Len(out) : out'[k] = out[k]
      /\ \A k \in 1 .. (past - nextFlush) : out'[Len(out) + k] = nextFlush + k - 1
  <2>1. past - nextFlush \in Nat /\ out \in Seq(Nat)
    BY <1>4, <1>6 DEF LaneInvariant, TypeOK
  <2> DEFINE ticks == {r.tick : r \in {r \in d : r.tick < past}}
  <2>3. ticks = nextFlush .. (nextFlush + (past - nextFlush) - 1)
    <3>1. nextFlush + (past - nextFlush) - 1 = past - 1
      BY <1>4, <1>6
    <3>2. \A r \in d : r.tick < past => r.tick \in nextFlush .. (past - 1)
      BY <1>4, <1>6
    <3>3. \A n \in nextFlush .. (past - 1) : \E r \in d : r.tick = n /\ r.tick < past
      BY <1>4, <1>6 DEF d
    <3> QED BY <3>1, <3>2, <3>3
  <2>4. Ordered(ticks) = Run(past - nextFlush)
    <3> HIDE DEF ticks
    <3> QED BY <1>4, <2>1, <2>3, OrderedRun
  <2>2. LET m == past - nextFlush
        IN  /\ out \o Run(m) \in Seq(Nat)
            /\ DOMAIN (out \o Run(m)) = 1 .. (Len(out) + m)
            /\ Len(out \o Run(m)) = Len(out) + m
            /\ \A k \in 1 .. Len(out) : (out \o Run(m))[k] = out[k]
            /\ \A k \in 1 .. m : (out \o Run(m))[Len(out) + k] = nextFlush + k - 1
    BY <1>4, <2>1, Leaving
  <2> QED BY <1>1, <2>2, <2>4
<1>9. /\ stopped' \in BOOLEAN /\ ended' \in BOOLEAN
      /\ \A k \in 1 .. Len(out) : out[k] = k - 1
      /\ Len(out) \in Nat
  <2>1. stopped \in BOOLEAN /\ ended \in BOOLEAN /\ out \in Seq(Nat)
    BY DEF LaneInvariant, TypeOK
  <2>2. \A k \in DOMAIN out : out[k] = k - 1
    BY <1>2 DEF LaneInvariant, OutInv
  <2>3. stopped' \in BOOLEAN /\ ended' \in BOOLEAN
    BY <1>1, <2>1
  <2> QED BY <2>1, <2>2, <2>3
<1>10. TypeOK'
  BY <1>1, <1>2, <1>6, <1>7, <1>8, <1>9 DEF LaneInvariant, TypeOK
<1>11. RowInv'
  BY <1>1, <1>2, <1>4
<1>12. LastCallAlone'
  BY <1>1, <1>2, <1>4 DEF LastCallAlone
<1>13. /\ queue.head <= queue.next
       /\ queue.last # None => queue.next = queue.last + 1
       /\ ~stopped => Len(out) = nextFlush
       /\ stopped => queue.last # None
  BY DEF LaneInvariant, QueueInv, QueueOK, OutInv
<1>14. CASE \E r \in d : r.tick < past /\ r.tick = queue.last
  <2>1. PICK r \in d : r.tick < past /\ r.tick = queue.last
    BY <1>14
  <2>2. /\ t.lo = queue.last /\ nextFlush = queue.last /\ Busy = {w}
        /\ queue.last # None /\ queue.last \in Nat /\ stopped' /\ ended'
    BY <1>1, <1>4, <2>1, QueueAssumption
  <2>3. past = nextFlush + 1 /\ past = queue.head /\ queue.head = queue.last + 1
    BY <1>4, <1>6, <1>13, <2>1, <2>2
  <2>4. Busy' = {} /\ done' = {}
    <3>1. Busy' = {}
      BY <1>2, <2>2
    <3>2. ASSUME NEW s \in done' PROVE FALSE
      BY <1>4, <1>6, <1>7, <2>3
    <3> QED BY <3>1, <3>2
  <2>5. QueueInv'
    BY <1>1, <2>2 DEF LaneInvariant, QueueInv, QueueOK, OutInv, Total
  <2>6. TurnInv'
    BY <2>4 DEF TurnInv
  <2>7. DoneInv'
    BY <1>1, <1>4, <2>3, <2>4 DEF DoneInv
  <2>8. OutInv'
    BY <1>1, <2>2, <2>4 DEF OutInv
  <2>9. InOrder'
    <3> SUFFICES ASSUME NEW k \in DOMAIN out'
                 PROVE  \/ out'[k] = k - 1
                        \/ k = Len(out') /\ ended' /\ out'[k] = queue'.last
      BY DEF InOrder
    <3>1. past - nextFlush = 1
      BY <1>4, <2>3
    <3>2. k \in 1 .. Len(out) \/ k = Len(out) + 1
      BY <1>8, <1>9, <3>1
    <3>3. CASE k \in 1 .. Len(out)
      BY <1>8, <1>9, <3>3
    <3>4. CASE k = Len(out) + 1
      <4>1. out'[Len(out) + 1] = nextFlush
        <5>1. 1 \in 1 .. (past - nextFlush) /\ nextFlush + 1 - 1 = nextFlush
          BY <1>4, <3>1
        <5> QED BY <1>8, <5>1
      <4> QED BY <1>1, <1>8, <2>2, <3>1, <3>4, <4>1
    <3> QED BY <3>2, <3>3, <3>4
  <2> QED BY <1>2, <1>10, <1>11, <1>12, <2>5, <2>6, <2>7, <2>8, <2>9 DEF LaneInvariant
<1>15. CASE ~\E r \in d : r.tick < past /\ r.tick = queue.last
  <2>1. stopped' = stopped /\ ended' = ended
    BY <1>1, <1>15
  <2>2. \A r \in done' : r.tick # queue.last
    <3> SUFFICES ASSUME NEW r \in done', r.tick = queue.last
                 PROVE  FALSE
      OBVIOUS
    <3>1. r \in d /\ past <= r.tick /\ r.tick # past /\ nextFlush = queue.last
      BY <1>4, <1>7
    <3>2. ASSUME nextFlush < past
          PROVE  FALSE
      BY <1>4, <1>6, <1>7, <3>1, <3>2
    <3>3. past = nextFlush
      BY <1>4, <1>6, <3>2
    <3> QED BY <3>1, <3>3
  <2>3. stopped => past = nextFlush /\ d = {}
    <3> SUFFICES ASSUME stopped
                 PROVE  past = nextFlush /\ d = {}
      OBVIOUS
    <3>1. nextFlush = queue.last /\ queue.last # None
      BY <1>4, <1>13
    <3>2. past = nextFlush
      <4> SUFFICES ASSUME past > nextFlush PROVE FALSE
        BY <1>4, <1>6
      <4>1. nextFlush \in nextFlush .. (past - 1)
        BY <1>4, <1>6
      <4>2. PICK r \in d : r.tick = nextFlush
        BY <4>1 DEF d
      <4> QED BY <1>15, <3>1, <4>2
    <3>3. ASSUME NEW r \in d
          PROVE  FALSE
      <4>1. r \notin done
        BY <1>4
      <4>2. r \in Made(t, stop, verdict)
        BY <4>1 DEF Ready, t, d
      <4>3. r.tick <= stop /\ r.tick \in Nat
        BY <1>2, <1>3, <1>4, <4>2, MadeOf
      <4>4. r.tick = queue.last
        <5>1. nextFlush <= r.tick /\ t.hi <= queue.last /\ queue.last \in Nat
          BY <1>4, <3>1
        <5> QED BY <1>3, <3>1, <4>3, <5>1
      <4> QED BY <1>5, <3>1, <3>2, <4>4
    <3> QED BY <3>2, <3>3
  <2>4. QueueInv'
    BY <1>1, <2>1 DEF LaneInvariant, QueueInv, QueueOK
  <2>5. \A v \in Busy' : v \in Busy /\ v # w /\ turn[v] \in Turn
    BY <1>2 DEF LaneInvariant, TypeOK, Busy
  <2>6. ASSUME ~stopped, NEW v \in Busy'
        PROVE  past <= turn[v].lo
    <3>1. /\ turn[v].lo \in Nat /\ turn[v].hi \in Nat /\ turn[v].lo <= turn[v].hi
          /\ nextFlush <= turn[v].lo
      BY <2>5, <2>6 DEF LaneInvariant, TurnInv, Turn
    <3>2. ASSUME turn[v].lo < past
          PROVE  FALSE
      <4>1. turn[v].lo \in nextFlush .. (past - 1)
        BY <1>4, <1>6, <3>1, <3>2
      <4>2. PICK r \in d : r.tick = turn[v].lo
        BY <4>1 DEF d
      <4>3. v \in Busy /\ v # w /\ r \in d
        BY <2>5, <4>2
      <4>4. r.tick < turn[v].lo \/ turn[v].hi < r.tick
        BY <1>4, <4>3
      <4> QED BY <3>1, <4>2, <4>4
    <3> QED BY <1>6, <3>1, <3>2
  <2>7. TurnInv'
    <3>1. queue' = queue /\ nextFlush' = past /\ (~stopped' => ~stopped)
      BY <1>1, <2>1
    <3>2. \A v \in Busy' : turn'[v] = turn[v] /\ v \in Busy
      BY <1>2, <2>5
    <3>3. TurnInv
      BY DEF LaneInvariant
    <3> QED BY <2>6, <3>1, <3>2, <3>3 DEF TurnInv
  <2>8. ASSUME ~error, NEW n \in past .. (queue.head - 1)
        PROVE  \/ \E r \in done' : r.tick = n
               \/ \E v \in Busy' : turn[v].lo <= n /\ n <= turn[v].hi
    <3>1. /\ n \in Nat /\ past <= n /\ nextFlush <= n
          /\ n \in nextFlush .. (queue.head - 1)
      BY <1>4, <1>6
    <3>2. \A i \in nextFlush .. (queue.head - 1) :
            \/ \E r \in done : r.tick = i
            \/ \E v \in Busy : turn[v].lo <= i /\ i <= turn[v].hi
      BY <2>8 DEF LaneInvariant, DoneInv
    <3>3. \A r \in d : r.tick = n => r \in done'
      BY <1>1, <1>6, <3>1
    <3>4. CASE \E r \in done : r.tick = n
      BY <1>5, <3>3, <3>4
    <3>5. CASE \E v \in Busy : v # w /\ turn[v].lo <= n /\ n <= turn[v].hi
      BY <1>2, <3>5
    <3>6. CASE t.lo <= n /\ n <= t.hi
      <4>1. CASE n <= stop
        <5>1. n \in t.lo .. stop
          BY <1>3, <1>4, <3>1, <3>6, <4>1
        <5> QED BY <1>5, <3>1, <3>3, <5>1
      <4>2. CASE n > stop
        \* The turn stopped early, on a tick that said it was finished: where
        \* that tick has left it would have been a claim, and where it has not
        \* the tick that leaves next is in hand.
        <5>1. stop < t.hi /\ verdict = "finished"
          BY <1>2, <1>3, <1>4, <3>1, <3>6, <4>2
        <5>2. Busy = {w}
          BY <1>2, <1>3, <1>4, <5>1 DEF LaneInvariant, TurnInv, t
        <5>3. ~stopped
          <6> SUFFICES ASSUME stopped PROVE FALSE
            OBVIOUS
          <6>1. queue.last # None /\ nextFlush = queue.last
            BY <1>4, <1>13
          <6>2. t.hi = queue.last
            BY <1>4, <3>1, <3>6, <6>1
          <6>3. t.lo = queue.last
            BY <1>2, <6>2 DEF LaneInvariant, TurnInv, t
          <6> QED BY <1>3, <1>4, <5>1, <6>2, <6>3
        <5>4. nextFlush <= t.lo /\ nextFlush <= stop
          BY <1>2, <1>3, <1>4, <5>3 DEF LaneInvariant, TurnInv, t
        <5>5. PICK r \in d : r.tick = stop /\ r.fin
          BY <1>5, <5>1, <5>4
        <5>6. stop # queue.last
          BY <1>3, <1>4, <5>1, <5>5
        <5>7. ~(stop < past)
          BY <5>3, <5>5, <5>6 DEF Claims, Gone, d
        <5>8. past \in nextFlush .. (queue.head - 1) /\ past <= stop
          BY <1>3, <1>4, <1>6, <5>7
        <5>9. PICK s \in d : s.tick = past
          <6>1. CASE \E s \in done : s.tick = past
            BY <1>5, <6>1
          <6>2. CASE t.lo <= past
            <7>1. past \in t.lo .. stop
              BY <1>3, <1>4, <1>6, <5>8, <6>2
            <7> QED BY <1>5, <1>6, <7>1
          <6>3. \/ \E s \in done : s.tick = past
                \/ \E v \in Busy : turn[v].lo <= past /\ past <= turn[v].hi
            BY <3>2, <5>8
          <6>4. (\E v \in Busy : turn[v].lo <= past /\ past <= turn[v].hi) => t.lo <= past
            BY <5>2 DEF t
          <6> QED BY <6>1, <6>2, <6>3, <6>4
        <5> QED BY <1>5, <5>9
      <4> QED BY <1>3, <3>1, <4>1, <4>2
    <3> QED BY <3>1, <3>2, <3>4, <3>5, <3>6 DEF t
  <2>9. DoneInv'
    <3>1. \A r \in done', v \in Busy' : r.tick < turn'[v].lo \/ turn'[v].hi < r.tick
      BY <1>2, <1>4, <1>7, <2>5
    <3>2. \A r \in done' : nextFlush' <= r.tick /\ r.tick < queue'.head /\ r.tick # queue'.last
      BY <1>1, <1>4, <1>7, <2>2
    <3>3. ~error' => /\ \A r \in done' : r.tick # nextFlush'
                     /\ \A n \in nextFlush' .. (queue'.head - 1) :
                          \/ \E r \in done' : r.tick = n
                          \/ \E v \in Busy' : turn'[v].lo <= n /\ n <= turn'[v].hi
      <4>1. error' = error /\ nextFlush' = past /\ queue' = queue
        BY <1>1
      <4>2. \A v \in Busy' : turn'[v] = turn[v]
        BY <1>2
      <4> QED BY <1>7, <2>8, <4>1, <4>2
    <3> QED BY <1>1, <1>6, <3>1, <3>2, <3>3 DEF DoneInv
  <2>10. \A k \in DOMAIN out' : out'[k] = k - 1
    <3> SUFFICES ASSUME NEW k \in DOMAIN out' PROVE out'[k] = k - 1
      OBVIOUS
    <3>1. CASE k \in 1 .. Len(out)
      BY <1>8, <1>9, <3>1
    <3>2. CASE k > Len(out)
      <4> DEFINE j == k - Len(out)
      <4>1. j \in 1 .. (past - nextFlush) /\ k = Len(out) + j
        <5>1. /\ DOMAIN out' = 1 .. Len(out') /\ Len(out') = Len(out) + (past - nextFlush)
              /\ Len(out) \in Nat /\ past - nextFlush \in Nat
          BY <1>4, <1>6, <1>8, <1>9
        <5>2. k \in 1 .. (Len(out) + (past - nextFlush))
          BY <5>1
        <5> QED BY <3>2, <5>1, <5>2
      <4>2. out'[Len(out) + j] = nextFlush + j - 1
        BY <1>8, <4>1
      <4>3. Len(out) = nextFlush
        BY <1>4, <1>6, <1>13, <2>3, <4>1
      <4> HIDE DEF j
      <4> QED BY <1>4, <1>6, <4>1, <4>2, <4>3
    <3> QED BY <1>4, <1>6, <1>8, <1>9, <3>1, <3>2
  <2>11. OutInv'
    <3>1. ~stopped' => Len(out') = nextFlush'
      <4>1. stopped' = stopped /\ nextFlush' = past
        BY <1>1, <2>1
      <4>2. Len(out') = Len(out) + (past - nextFlush)
        BY <1>8
      <4> QED BY <1>4, <1>6, <1>13, <4>1, <4>2
    <3>2. stopped' => queue'.last # None /\ done' = {}
      BY <1>1, <1>13, <2>1, <2>3
    <3>3. (stopped' /\ ~ended') => nextFlush' = queue'.last /\ finisher' # None
      <4>1. (stopped /\ ~ended) => finisher # None
        BY DEF LaneInvariant, OutInv
      <4> QED BY <1>1, <1>4, <2>1, <2>3, <4>1
    <3>4. finisher' # None => stopped'
      BY <1>1, <2>1 DEF LaneInvariant, OutInv
    <3>5. ~ended'
      BY <1>2, <2>1
    <3> QED BY <2>10, <3>1, <3>2, <3>3, <3>4, <3>5 DEF OutInv
  <2>12. InOrder'
    BY <2>10 DEF InOrder
  <2> QED BY <1>2, <1>10, <1>11, <1>12, <2>4, <2>7, <2>9, <2>11, <2>12 DEF LaneInvariant
<1> QED BY <1>14, <1>15

\* A turn handed in at whose run an instance says it is finished.
LEMMA ClaimKeeps ==
  ASSUME LaneInvariant, NEW w \in Worker, NEW stop, NEW verdict \in {"ok", "finished"},
         Complete(w, stop, verdict), NEW past \in nextFlush .. queue.next,
         \A n \in nextFlush .. (past - 1) : \E s \in Ready(w, stop, verdict) : s.tick = n,
         NEW r \in Claims(Ready(w, stop, verdict), past),
         FlushClaim(Ready(w, stop, verdict), r), UNCHANGED error
  PROVE  LaneInvariant'
<1> DEFINE t == turn[w]
           d == Ready(w, stop, verdict)
<1>1. /\ UNCHANGED <<arrived, over, ended, created, told, kept, error>>
      /\ out' = out \o Ordered({s.tick : s \in {s \in d : s.tick <= r.tick}})
      /\ done' = {}
      /\ nextFlush' = queue.next
      /\ stopped' = TRUE
      /\ finisher' = r.inst
      /\ queue' = [head |-> queue.next, next |-> queue.next + 1,
                   withheld |-> FALSE, last |-> queue.next]
  BY DEF Complete, FlushClaim, intake, rows
<1>2. /\ w \in Busy /\ t \in Turn /\ ~ended
      /\ Busy' = Busy \ {w} /\ \A v \in Busy' : turn'[v] = turn[v]
      /\ turn' \in [Worker -> Turn \cup {None}]
      /\ idle' \in Seq(Instance) /\ knows' \in [Instance -> Nat]
      /\ stop \in t.lo .. t.hi
      /\ HandInv'
      /\ (queue'.head \in Nat /\ queue'.head >= queue.head) => RowInv'
  BY HandedIn
<1>3. stop \in Nat /\ stop \in Int /\ stop <= t.hi
  BY <1>2 DEF Turn
<1>4. /\ d \in SUBSET Result
      /\ \A s \in d : s.tick \in Nat /\ nextFlush <= s.tick /\ s.tick < queue.head
      /\ queue.head \in Nat /\ queue.next \in Nat /\ queue.head <= queue.next
      /\ nextFlush \in Nat /\ nextFlush <= queue.head
  BY <1>2, <1>3, InHand DEF Ready
<1>5. r \in d /\ ~stopped
  BY DEF Claims, Gone
<1> HIDE DEF d, t
<1>6. /\ r.inst \in Instance /\ r.tick \in Nat /\ nextFlush <= r.tick
      /\ r.tick - nextFlush + 1 \in Nat
  BY <1>4, <1>5 DEF Result
<1>7. /\ queue'.head = queue.next /\ queue'.next = queue.next + 1 /\ ~queue'.withheld
      /\ queue'.last = queue.next
  BY <1>1
<1>8. queue.next \in Tick /\ queue' \in Queues
  <2>1. queue.next \in Nat /\ queue.next <= MaxTick + 1 /\ MaxTick \in Nat
    BY <1>4, <1>5, LaneAssumption DEF LaneInvariant, QueueInv, QueueOK, TypeOK
  <2> QED BY <1>1, <2>1 DEF Queues
<1>9. /\ out' \in Seq(Nat)
      /\ \A k \in DOMAIN out' : out'[k] = k - 1
  <2> DEFINE m == r.tick - nextFlush + 1
  <2>1. /\ out \in Seq(Nat) /\ Len(out) = nextFlush
        /\ \A k \in 1 .. Len(out) : out[k] = k - 1
    <3>1. out \in Seq(Nat)
      BY DEF LaneInvariant, TypeOK
    <3>2. Len(out) = nextFlush
      BY <1>5 DEF LaneInvariant, OutInv
    <3>3. \A k \in DOMAIN out : out[k] = k - 1
      BY <1>2 DEF LaneInvariant, OutInv
    <3> QED BY <3>1, <3>2, <3>3
  <2>2. /\ out \o Run(m) \in Seq(Nat)
        /\ DOMAIN (out \o Run(m)) = 1 .. (Len(out) + m)
        /\ \A k \in 1 .. Len(out) : (out \o Run(m))[k] = out[k]
        /\ \A k \in 1 .. m : (out \o Run(m))[Len(out) + k] = nextFlush + k - 1
    BY <1>4, <1>6, <2>1, Leaving
  <2>3. out' = out \o Run(m) /\ m \in Nat
    <3> DEFINE ticks == {s.tick : s \in {s \in d : s.tick <= r.tick}}
    <3>1. ticks = nextFlush .. (nextFlush + m - 1)
      <4>1. nextFlush + m - 1 = r.tick /\ r.tick < past
        BY <1>4, <1>6 DEF Claims, Gone
      <4>2. \A s \in d : s.tick <= r.tick => s.tick \in nextFlush .. r.tick
        BY <1>4, <1>6
      <4>3. \A n \in nextFlush .. r.tick : \E s \in d : s.tick = n /\ s.tick <= r.tick
        <5> SUFFICES ASSUME NEW n \in nextFlush .. r.tick
                     PROVE  \E s \in d : s.tick = n /\ s.tick <= r.tick
          OBVIOUS
        <5>1. n \in nextFlush .. (past - 1)
          BY <1>4, <1>6, <4>1
        <5>2. PICK s \in d : s.tick = n
          BY <5>1 DEF d
        <5> QED BY <5>2
      <4> QED BY <4>1, <4>2, <4>3
    <3>2. Ordered(ticks) = Run(m)
      <4> HIDE DEF ticks
      <4> QED BY <1>4, <1>6, <3>1, OrderedRun
    <3> QED BY <1>1, <1>6, <3>2
  <2> HIDE DEF m
  <2>4. ASSUME NEW k \in DOMAIN out'
        PROVE  out'[k] = k - 1
    <3>1. k \in 1 .. (Len(out) + m)
      BY <2>2, <2>3
    <3>2. CASE k \in 1 .. Len(out)
      BY <2>1, <2>2, <2>3, <3>2
    <3>3. CASE k > Len(out)
      <4> DEFINE j == k - Len(out)
      <4>1. j \in 1 .. m /\ k = Len(out) + j
        BY <1>4, <2>1, <2>3, <3>1, <3>3
      <4>2. out'[Len(out) + j] = nextFlush + j - 1
        BY <2>2, <2>3, <4>1
      <4> HIDE DEF j
      <4> QED BY <1>4, <2>1, <2>3, <4>1, <4>2
    <3> QED BY <1>4, <2>1, <3>1, <3>2, <3>3
  <2> QED BY <2>2, <2>3, <2>4
<1>10. \A v \in Busy' : /\ v \in Busy /\ turn[v] \in Turn
                        /\ turn[v].lo \in Nat /\ turn[v].hi \in Nat
                        /\ turn[v].lo <= turn[v].hi /\ turn[v].hi < queue.head
  BY <1>2 DEF LaneInvariant, TypeOK, TurnInv, Busy, Turn
<1>11. TypeOK'
  BY <1>1, <1>2, <1>4, <1>6, <1>8, <1>9 DEF LaneInvariant, TypeOK, Queues
<1>12. QueueInv'
  <2>1. queue'.next - queue'.head <= Cap
    BY <1>4, <1>7, QueueAssumption
  <2> QED BY <1>1, <1>4, <1>7, <2>1 DEF QueueInv, QueueOK
<1>13. TurnInv'
  <2> SUFFICES ASSUME NEW v \in Busy'
               PROVE  /\ turn[v].lo <= turn[v].hi
                      /\ turn[v].hi < queue'.head
                      /\ Width > 1 => turn[v].lo = turn[v].hi
                      /\ turn[v].hi # queue'.last
                      /\ \A u \in Busy' \ {v} :
                           /\ Width > 1
                           /\ turn[u].hi < turn[v].lo \/ turn[v].hi < turn[u].lo
    <3>1. stopped' /\ \A v \in Busy' : turn'[v] = turn[v]
      BY <1>1, <1>2
    <3>2. \A v \in Busy' : turn[v].hi # queue'.last
      BY <1>4, <1>7, <1>10
    <3> QED BY <3>1, <3>2 DEF TurnInv
  <2>1. turn[v].hi < queue'.head /\ turn[v].hi # queue'.last
    BY <1>4, <1>7, <1>10
  <2> QED BY <1>10, <2>1 DEF LaneInvariant, TurnInv
<1>14. DoneInv'
  <2>1. nextFlush' = queue'.head
    BY <1>1, <1>7
  <2>2. queue'.head \in Nat /\ nextFlush' .. (queue'.head - 1) = {}
    BY <1>4, <1>7, <2>1
  <2> QED BY <1>1, <2>1, <2>2 DEF DoneInv
<1>15. OutInv'
  <2>1. queue'.last # None
    BY <1>4, <1>7, QueueAssumption
  <2>2. finisher' # None
    BY <1>1, <1>6, QueueAssumption
  <2> QED BY <1>1, <1>2, <1>7, <1>9, <2>1, <2>2 DEF OutInv
<1>16. InOrder'
  BY <1>9 DEF InOrder
<1>17. LastCallAlone'
  <2> SUFFICES ASSUME NEW v \in Busy', turn[v].lo = queue'.last
               PROVE  FALSE
    BY <1>2 DEF LastCallAlone
  <2> QED BY <1>4, <1>7, <1>10
<1>18. RowInv'
  BY <1>2, <1>4, <1>7
<1> QED BY <1>2, <1>11, <1>12, <1>13, <1>14, <1>15, <1>16, <1>17, <1>18 DEF LaneInvariant

\* However a turn comes back, handing it in keeps the invariant.
LEMMA CompleteKeeps ==
  ASSUME LaneInvariant, NEW w \in Worker, NEW stop, NEW verdict \in Verdicts,
         Complete(w, stop, verdict)
  PROVE  LaneInvariant'
<1>1. CASE verdict = "failed"
  BY <1>1, FailedKeeps
<1>2. CASE verdict # "failed"
  <2> DEFINE d == Ready(w, stop, verdict)
  <2>1. verdict \in {"ok", "finished"} /\ Flush(d) /\ UNCHANGED error
    BY <1>2 DEF Complete, Verdicts, Ready
  <2> HIDE DEF d
  <2>2. PICK past \in nextFlush .. queue.next :
          /\ \A n \in nextFlush .. (past - 1) : \E r \in d : r.tick = n
          /\ \A r \in d : r.tick # past
          /\ \/ Claims(d, past) = {} /\ FlushRun(d, Gone(d, past), past)
             \/ \E r \in Claims(d, past) : FlushClaim(d, r)
    BY <2>1 DEF Flush, Claims, Gone
  <2>3. CASE Claims(d, past) = {} /\ FlushRun(d, Gone(d, past), past)
    BY <2>1, <2>2, <2>3, RunKeeps DEF d
  <2>4. CASE \E r \in Claims(d, past) : FlushClaim(d, r)
    BY <2>1, <2>2, <2>4, ClaimKeeps DEF d
  <2> QED BY <2>2, <2>3, <2>4
<1> QED BY <1>1, <1>2

-----------------------------------------------------------------------------
(* The theorems.                                                           *)

\* Every lane starts in the invariant.
LEMMA InitKeeps ==
  ASSUME Init
  PROVE  LaneInvariant
<1> USE LaneAssumption, QueueAssumption DEF Init
<1>1. Busy = {} /\ turn \in [Worker -> Turn \cup {None}]
  BY DEF Busy
<1>2. /\ arrived \in 0 .. MaxTick /\ arrived \in Nat
      /\ queue.head = 0 /\ queue.next \in Nat /\ ~queue.withheld /\ queue.last = None
      /\ queue.next <= arrived /\ (Clock # "source" => queue.next = 0 /\ arrived = 0)
      /\ queue.next <= Cap
  OBVIOUS
<1>3. queue \in Queues
  <2>1. queue = [head |-> 0, next |-> queue.next, withheld |-> FALSE, last |-> None]
    OBVIOUS
  <2>2. queue.next \in 0 .. (MaxTick + 2)
    BY <1>2
  <2> QED BY <2>1, <2>2 DEF Queues
<1>4. /\ created \in 0 .. Width /\ idle \in Seq(Instance) /\ Len(idle) = created
      /\ \A k \in 1 .. Len(idle) : idle[k] = k - 1
      /\ DOMAIN idle = 1 .. Len(idle)
  <2>1. created \in 0 .. Width
    OBVIOUS
  <2>2. idle = [k \in 1 .. created |-> k - 1]
    OBVIOUS
  <2>3. \A k \in 1 .. created : k - 1 \in Instance
    BY <2>1
  <2> HIDE DEF Init
  <2> QED BY <2>1, <2>2, <2>3
<1>5. /\ told \in [Instance -> Nat] /\ knows \in [Instance -> Nat]
      /\ \A i \in Instance : told[i] = 0 /\ knows[i] = 0
  OBVIOUS
<1>6. TypeOK
  <2>1. /\ over = FALSE /\ stopped = FALSE /\ ended = FALSE /\ finisher = None
        /\ done = {} /\ nextFlush = 0 /\ error = FALSE /\ kept = 0 /\ out = <<>>
    OBVIOUS
  <2> HIDE DEF Init, Instance
  <2>2. over \in BOOLEAN /\ stopped \in BOOLEAN /\ ended \in BOOLEAN /\ error \in BOOLEAN
    BY <2>1
  <2>3. /\ finisher \in Instance \cup {None} /\ done \in SUBSET Result
        /\ nextFlush \in Nat /\ kept \in Nat /\ out \in Seq(Nat)
    BY <2>1
  <2>4. queue \in [head : Nat, next : 0 .. (MaxTick + 2), withheld : BOOLEAN,
                   last : Tick \cup {None}]
    BY <1>3 DEF Queues
  <2> QED BY <1>1, <1>2, <1>4, <1>5, <2>2, <2>3, <2>4 DEF TypeOK
<1>7. QueueInv
  BY <1>2 DEF QueueInv, QueueOK, Total
<1>8. TurnInv /\ LastCallAlone
  BY <1>1 DEF TurnInv, LastCallAlone
<1>9. DoneInv
  BY <1>1, <1>2 DEF DoneInv
<1>10. OutInv /\ InOrder
  BY <1>1, <1>2 DEF OutInv, InOrder
<1>11. HandInv
  <2> HIDE DEF Init
  <2>1. \A k \in DOMAIN idle : idle[k] < created
    BY <1>4
  <2>2. \A j, k \in DOMAIN idle : j # k => idle[j] # idle[k]
    BY <1>4
  <2> QED BY <1>1, <2>1, <2>2 DEF HandInv, OneHandEach
<1>12. RowInv
  BY <1>1, <1>2, <1>5 DEF RowInv
<1> QED BY <1>6, <1>7, <1>8, <1>9, <1>10, <1>11, <1>12 DEF LaneInvariant

\* Every step keeps the invariant.
LEMMA NextKeeps ==
  ASSUME LaneInvariant, [Next]_vars
  PROVE  LaneInvariant'
<1>1. ASSUME UNCHANGED vars
      PROVE  LaneInvariant'
  <2>1. Grown(queue) /\ QueueOK(queue, arrived, over)
    BY DEF LaneInvariant, TypeOK, Queues, QueueInv, Grown
  <2> QED BY <1>1, <2>1, GrowKeeps DEF vars, intake, LaneInvariant, TypeOK
<1>2. ASSUME NEW k \in 1 .. MaxTick, Arrive(k)
      PROVE  LaneInvariant'
  <2>1. /\ arrived' \in arrived .. MaxTick /\ ~over /\ over' = over
        /\ queue' = Recut(queue, arrived', FALSE)
        /\ UNCHANGED <<life, pool, turn, done, nextFlush, error, rows, knows, out>>
    BY <1>2, LaneAssumption DEF Arrive, LaneInvariant, TypeOK
  <2>2. Grown(queue') /\ QueueOK(queue', arrived', FALSE)
    BY <2>1, RecutKeeps DEF LaneInvariant
  <2>3. arrived' \in 0 .. MaxTick /\ over' = FALSE /\ over' \in BOOLEAN
    BY <2>1, LaneAssumption DEF LaneInvariant, TypeOK
  <2> QED BY <2>1, <2>2, <2>3, GrowKeeps
<1>3. ASSUME End
      PROVE  LaneInvariant'
  <2>1. /\ ~over /\ over' = TRUE /\ arrived' = arrived
        /\ queue' = Recut(queue, arrived, TRUE)
        /\ UNCHANGED <<life, pool, turn, done, nextFlush, error, rows, knows, out>>
    BY <1>3 DEF End
  <2>2. arrived \in arrived .. MaxTick /\ arrived \in 0 .. MaxTick
    BY LaneAssumption DEF LaneInvariant, TypeOK
  <2>3. Grown(queue') /\ QueueOK(queue', arrived, TRUE)
    BY <2>1, <2>2, RecutKeeps DEF LaneInvariant
  <2> QED BY <2>1, <2>2, <2>3, GrowKeeps
<1>4. ASSUME NEW w \in Worker, Look(w)
      PROVE  LaneInvariant'
  <2>1. /\ queue' = Picked /\ UNCHANGED <<arrived, over>>
        /\ UNCHANGED <<life, pool, turn, done, nextFlush, error, rows, knows, out>>
    BY <1>4 DEF Look, intake
  <2>2. Grown(Picked) /\ QueueOK(Picked, arrived, over)
    BY PickedKeeps DEF LaneInvariant
  <2> QED BY <2>1, <2>2, GrowKeeps DEF LaneInvariant, TypeOK
<1>5. ASSUME NEW w \in Worker, Dispatch(w)
      PROVE  LaneInvariant'
  BY <1>5, DispatchKeeps
<1>6. ASSUME NEW w \in Worker, Finish(w)
      PROVE  LaneInvariant'
  BY <1>6, CompleteKeeps DEF Finish
<1> QED BY <1>1, <1>2, <1>3, <1>4, <1>5, <1>6 DEF Next, Feed, Work, Rest

-----------------------------------------------------------------------------
(* A lane is a serial lane.                                                *)

\* What is known of the ticks a flush finds in hand, in a lane that runs and in
\* one that waits for its last call.
LEMMA Unbroken ==
  ASSUME LaneInvariant, NEW w \in Worker, NEW stop, NEW verdict \in {"ok", "finished"},
         Complete(w, stop, verdict), NEW past \in nextFlush .. queue.next,
         \A n \in nextFlush .. (past - 1) : \E r \in Ready(w, stop, verdict) : r.tick = n
  PROVE  LET d == Ready(w, stop, verdict)
         IN /\ nextFlush \in Nat /\ past \in Nat /\ nextFlush <= past
            /\ arrived \in 0 .. MaxTick /\ out \in Seq(Nat) /\ Len(out) \in Nat
            /\ ~ended /\ \A k \in 1 .. Len(out) : out[k] = k - 1
            /\ \A r \in d : r.tick \in Nat /\ nextFlush <= r.tick
            /\ \A r \in d : r.inst \in Instance
            /\ \A r \in d : (r.tick # queue.last /\ ~stopped) => r.tick + 1 <= arrived
            /\ queue.last # None => queue.last \in Nat /\ past <= queue.last + 1
            /\ IF stopped THEN nextFlush = queue.last /\ finisher # None
                          ELSE Len(out) = nextFlush /\ finisher = None
            /\ (~stopped /\ queue.last # None) =>
                 over /\ (Clock # "self" => queue.last = arrived)
<1> DEFINE t == turn[w]
           d == Ready(w, stop, verdict)
<1> USE LaneAssumption, QueueAssumption
<1>1. w \in Busy /\ t \in Turn /\ ~ended /\ stop \in t.lo .. t.hi
  BY HandedIn
<1>2. stop \in Int /\ stop <= t.hi
  BY <1>1 DEF Turn
<1>3. /\ d \in SUBSET Result
      /\ \A r \in d : r.tick \in Nat /\ nextFlush <= r.tick /\ r.tick < queue.head
      /\ stopped => nextFlush = queue.last
      /\ queue.head \in Nat /\ queue.next \in Nat /\ queue.head <= queue.next
      /\ nextFlush \in Nat
  BY <1>1, <1>2, InHand DEF Ready
<1> HIDE DEF d, t
<1>4. /\ arrived \in 0 .. MaxTick /\ out \in Seq(Nat) /\ stopped \in BOOLEAN
      /\ queue.last \in Tick \cup {None}
  BY DEF LaneInvariant, TypeOK
<1>5. Len(out) \in Nat /\ \A k \in 1 .. Len(out) : out[k] = k - 1
  <2>1. DOMAIN out = 1 .. Len(out) /\ Len(out) \in Nat
    BY <1>4
  <2> QED BY <1>1, <2>1 DEF LaneInvariant, OutInv
<1>6. /\ queue.last # None => queue.next = queue.last + 1
      /\ ~stopped => queue.next <= IF queue.last = None THEN arrived ELSE arrived + 1
      /\ (~stopped /\ queue.last # None) => over /\ (Clock # "self" => queue.last = arrived)
  BY DEF LaneInvariant, QueueInv, QueueOK
<1>7. IF stopped THEN nextFlush = queue.last /\ finisher # None
                 ELSE Len(out) = nextFlush /\ finisher = None
  BY <1>1, <1>3, <1>4 DEF LaneInvariant, OutInv
<1>8. past \in Nat /\ nextFlush <= past /\ past <= queue.next
  BY <1>3
<1>9. queue.last # None => queue.last \in Nat /\ past <= queue.last + 1
  BY <1>4, <1>6, <1>8
<1>10. ASSUME NEW r \in d, r.tick # queue.last, ~stopped
       PROVE  r.tick + 1 <= arrived
  <2>1. r.tick \in Nat /\ r.tick < queue.next /\ arrived \in Nat
    BY <1>3, <1>4
  <2>2. CASE queue.last = None
    BY <1>3, <1>6, <1>10, <2>1, <2>2
  <2>3. CASE queue.last # None
    <3>1. queue.next = queue.last + 1 /\ queue.next <= arrived + 1 /\ queue.last \in Nat
      BY <1>6, <1>9, <1>10, <2>3
    <3> QED BY <1>10, <2>1, <3>1
  <2> QED BY <2>2, <2>3
<1>11. \A r \in d : r.inst \in Instance
  BY <1>3 DEF Result
<1> QED BY <1>1, <1>3, <1>4, <1>5, <1>6, <1>7, <1>8, <1>9, <1>10, <1>11 DEF d

\* Where nobody claims, a run of ticks leaves: the ones before the last call
\* were settled, and the last call leaves alone where the lane had stopped and
\* else behind every settled tick.
LEMMA RunLeaves ==
  ASSUME LaneInvariant, NEW w \in Worker, NEW stop, NEW verdict \in {"ok", "finished"},
         Complete(w, stop, verdict), NEW past \in nextFlush .. queue.next,
         \A n \in nextFlush .. (past - 1) : \E r \in Ready(w, stop, verdict) : r.tick = n,
         Claims(Ready(w, stop, verdict), past) = {},
         FlushRun(Ready(w, stop, verdict), Gone(Ready(w, stop, verdict), past), past)
  PROVE  /\ out' = out \o Run(past - nextFlush) /\ past - nextFlush \in Nat
         /\ UNCHANGED <<arrived, over, finisher>>
         /\ \/ ~ended' /\ past = nextFlush
            \/ ~ended' /\ finisher = None /\ Len(out) = nextFlush /\ past <= arrived
            \/ ended' /\ finisher # None /\ past - nextFlush = 1
            \/ /\ ended' /\ finisher = None /\ over /\ Len(out) = nextFlush
               /\ past - nextFlush \in Nat \ {0}
               /\ Clock # "self" => past - 1 = arrived
<1> DEFINE d == Ready(w, stop, verdict)
<1>1. /\ UNCHANGED <<arrived, over, finisher>>
      /\ out' = out \o Ordered({r.tick : r \in {r \in d : r.tick < past}})
      /\ IF \E r \in d : r.tick < past /\ r.tick = queue.last
           THEN stopped' = TRUE /\ ended' = TRUE
           ELSE UNCHANGED <<stopped, ended>>
  BY DEF Complete, FlushRun, intake, Gone
<1>2. /\ nextFlush \in Nat /\ past \in Nat /\ nextFlush <= past
      /\ arrived \in 0 .. MaxTick /\ out \in Seq(Nat) /\ Len(out) \in Nat
      /\ ~ended
      /\ \A r \in d : r.tick \in Nat /\ nextFlush <= r.tick
      /\ \A r \in d : (r.tick # queue.last /\ ~stopped) => r.tick + 1 <= arrived
      /\ queue.last # None => queue.last \in Nat /\ past <= queue.last + 1
      /\ IF stopped THEN nextFlush = queue.last /\ finisher # None
                    ELSE Len(out) = nextFlush /\ finisher = None
      /\ (~stopped /\ queue.last # None) =>
           over /\ (Clock # "self" => queue.last = arrived)
  BY Unbroken
<1>3. \A n \in nextFlush .. (past - 1) : \E r \in d : r.tick = n
  OBVIOUS
<1> HIDE DEF d
<1>4. past - nextFlush \in Nat
  BY <1>2
<1>5. out' = out \o Run(past - nextFlush)
  <2> DEFINE ticks == {r.tick : r \in {r \in d : r.tick < past}}
  <2>1. ticks = nextFlush .. (nextFlush + (past - nextFlush) - 1)
    <3>1. nextFlush + (past - nextFlush) - 1 = past - 1
      BY <1>2
    <3>2. \A r \in d : r.tick < past => r.tick \in nextFlush .. (past - 1)
      BY <1>2
    <3>3. ASSUME NEW n \in nextFlush .. (past - 1)
          PROVE  \E r \in d : r.tick = n /\ r.tick < past
      <4>1. n < past
        BY <1>2
      <4>2. PICK r \in d : r.tick = n
        BY <1>3
      <4> QED BY <4>1, <4>2
    <3> QED BY <3>1, <3>2, <3>3
  <2> HIDE DEF ticks
  <2>2. Ordered(ticks) = Run(past - nextFlush)
    BY <1>2, <1>4, <2>1, OrderedRun
  <2> QED BY <1>1, <2>2 DEF ticks
<1>6. CASE \E r \in d : r.tick < past /\ r.tick = queue.last
  <2>1. PICK r \in d : r.tick < past /\ r.tick = queue.last
    BY <1>6
  <2>2. ended' /\ r.tick \in Nat /\ queue.last # None
    BY <1>1, <1>2, <1>6, <2>1, QueueAssumption
  <2>3. past = queue.last + 1 /\ queue.last \in Nat /\ nextFlush <= queue.last
    BY <1>2, <2>1, <2>2
  <2>6. nextFlush \in Nat /\ past \in Nat
    BY <1>2
  <2>4. CASE stopped
    <3>1. nextFlush = queue.last /\ finisher # None
      BY <1>2, <2>4
    <3>2. past - nextFlush = 1
      BY <2>3, <2>6, <3>1
    <3> QED BY <1>1, <1>4, <1>5, <2>2, <3>1, <3>2
  <2>5. CASE ~stopped
    <3>1. finisher = None /\ over /\ Len(out) = nextFlush
      BY <1>2, <2>2, <2>5
    <3>2. past - nextFlush \in Nat \ {0} /\ past - 1 = queue.last
      BY <2>3, <2>6
    <3>3. Clock # "self" => past - 1 = arrived
      BY <1>2, <2>2, <2>5, <3>2
    <3> QED BY <1>1, <1>4, <1>5, <2>2, <3>1, <3>2, <3>3
  <2> QED BY <2>4, <2>5
<1>7. CASE ~\E r \in d : r.tick < past /\ r.tick = queue.last
  <2>1. ~ended'
    BY <1>1, <1>2, <1>7
  <2>2. CASE past = nextFlush
    BY <1>1, <1>4, <1>5, <2>1, <2>2
  <2>3. CASE past # nextFlush
    <3>1. past - 1 \in nextFlush .. (past - 1)
      BY <1>2, <2>3
    <3>2. PICK r \in d : r.tick = past - 1
      BY <1>3, <3>1
    <3>3. r.tick # queue.last
      BY <1>2, <1>7, <3>2
    <3>4. ~stopped
      <4> SUFFICES ASSUME stopped
                   PROVE  FALSE
        OBVIOUS
      <4>1. nextFlush = queue.last
        BY <1>2
      <4>2. nextFlush \in nextFlush .. (past - 1)
        BY <1>2, <3>1
      <4>3. PICK s \in d : s.tick = nextFlush
        BY <1>3, <4>2
      <4> QED BY <1>2, <1>7, <4>1, <4>2, <4>3
    <3>5. past <= arrived
      BY <1>2, <3>2, <3>3, <3>4
    <3> QED BY <1>1, <1>2, <1>4, <1>5, <2>1, <3>4, <3>5
  <2> QED BY <2>2, <2>3
<1> QED BY <1>6, <1>7

\* Where somebody claims, the settled ticks up to the claim leave.
LEMMA ClaimLeaves ==
  ASSUME LaneInvariant, NEW w \in Worker, NEW stop, NEW verdict \in {"ok", "finished"},
         Complete(w, stop, verdict), NEW past \in nextFlush .. queue.next,
         \A n \in nextFlush .. (past - 1) : \E s \in Ready(w, stop, verdict) : s.tick = n,
         NEW r \in Claims(Ready(w, stop, verdict), past),
         FlushClaim(Ready(w, stop, verdict), r)
  PROVE  LET m == r.tick - nextFlush + 1
         IN  /\ out' = out \o Run(m) /\ m \in Nat /\ m # 0
             /\ UNCHANGED <<arrived, over>>
             /\ ~ended' /\ finisher = None
             /\ Len(out) = nextFlush /\ nextFlush + m <= arrived
<1> DEFINE d == Ready(w, stop, verdict)
<1>1. /\ UNCHANGED <<arrived, over, ended>>
      /\ out' = out \o Ordered({s.tick : s \in {s \in d : s.tick <= r.tick}})
  BY DEF Complete, FlushClaim, intake
<1>2. /\ nextFlush \in Nat /\ past \in Nat /\ nextFlush <= past
      /\ arrived \in 0 .. MaxTick /\ out \in Seq(Nat) /\ Len(out) \in Nat
      /\ ~ended
      /\ \A s \in d : s.tick \in Nat /\ nextFlush <= s.tick
      /\ \A s \in d : (s.tick # queue.last /\ ~stopped) => s.tick + 1 <= arrived
      /\ IF stopped THEN nextFlush = queue.last /\ finisher # None
                    ELSE Len(out) = nextFlush /\ finisher = None
  BY Unbroken
<1>3. /\ \A n \in nextFlush .. (past - 1) : \E s \in d : s.tick = n
      /\ r \in d /\ r.tick < past /\ r.tick # queue.last /\ ~stopped
  BY DEF Claims, Gone
<1> HIDE DEF d
<1> DEFINE m == r.tick - nextFlush + 1
<1>4. /\ m \in Nat /\ m # 0 /\ nextFlush + m - 1 = r.tick /\ r.tick \in Nat
      /\ nextFlush + m <= arrived
  BY <1>2, <1>3
<1>5. out' = out \o Run(m)
  <2> DEFINE ticks == {s.tick : s \in {s \in d : s.tick <= r.tick}}
  <2>1. ticks = nextFlush .. r.tick
    <3>1. \A s \in d : s.tick <= r.tick => s.tick \in nextFlush .. r.tick
      BY <1>2, <1>4
    <3>2. \A n \in nextFlush .. r.tick : \E s \in d : s.tick = n /\ s.tick <= r.tick
      <4> SUFFICES ASSUME NEW n \in nextFlush .. r.tick
                   PROVE  \E s \in d : s.tick = n /\ s.tick <= r.tick
        OBVIOUS
      <4>1. n \in nextFlush .. (past - 1) /\ n <= r.tick
        BY <1>2, <1>3, <1>4
      <4> QED BY <1>3, <4>1
    <3> QED BY <3>1, <3>2
  <2> HIDE DEF ticks, m
  <2>2. ticks = nextFlush .. (nextFlush + m - 1)
    BY <1>4, <2>1
  <2>3. Ordered(ticks) = Run(m)
    BY <1>2, <1>4, <2>2, OrderedRun
  <2> QED BY <1>1, <2>3 DEF ticks
<1>6. ~ended' /\ finisher = None /\ Len(out) = nextFlush
  BY <1>1, <1>2, <1>3
<1> QED BY <1>1, <1>4, <1>5, <1>6

\* Until the last call has left, the log is what has left and is not closed.
LEMMA LogOpen ==
  ASSUME out \in Seq(Nat), ~ended
  PROVE  Log = out /\ ~Serial!Closed
<1>1. Log = [k \in DOMAIN out |-> out[k]]
  BY DEF Log
<1>2. Log = out
  BY <1>1
<1>3. ASSUME Len(out) > 0
      PROVE  out[Len(out)] # Last
  <2>1. Len(out) \in 1 .. Len(out)
    BY <1>3
  <2>2. out[Len(out)] \in Nat
    BY <2>1
  <2> QED BY <2>2 DEF Last
<1> QED BY <1>2, <1>3 DEF Serial!Closed

\* What a serial lane lets leave next.
LEMMA SerialRun ==
  ASSUME out \in Seq(Nat), ~ended, NEW m \in Nat
  PROVE  /\ Serial!Run(m) \in Seq(Int) /\ Len(Serial!Run(m)) = m
         /\ \A j \in 1 .. m : Serial!Run(m)[j] = Len(out) + j - 1
         /\ Len(out) = nextFlush => Serial!Run(m) = Run(m)
<1>1. Log = out
  BY LogOpen
<1>2. Serial!Run(m) = [j \in 1 .. m |-> Len(out) + j - 1]
  BY <1>1 DEF Serial!Run
<1>3. Len(out) \in Nat
  OBVIOUS
<1>4. [j \in 1 .. m |-> Len(out) + j - 1] \in Seq(Int)
  BY <1>3
<1>5. Len([j \in 1 .. m |-> Len(out) + j - 1]) = m
  OBVIOUS
<1>6. Len(out) = nextFlush => Serial!Run(m) = Run(m)
  BY <1>2 DEF Run
<1> QED BY <1>2, <1>4, <1>5, <1>6

\* A sequence is the function of its places.
LEMMA SeqIsFunction ==
  ASSUME NEW s \in Seq(Nat)
  PROVE  s = [k \in DOMAIN s |-> s[k]]
OBVIOUS

\* While the lane goes on, a run of ticks that leaves is a serial lane's.
LEMMA LogGrows ==
  ASSUME out \in Seq(Nat), nextFlush \in Nat, ~ended, ~ended', NEW m \in Nat,
         Len(out) = nextFlush, out' = out \o Run(m)
  PROVE  Log' = Log \o Serial!Run(m)
<1>1. Log = out /\ Serial!Run(m) = Run(m)
  BY LogOpen, SerialRun
<1>2. out' \in Seq(Nat)
  BY Leaving
<1>3. Log' = [k \in DOMAIN out' |-> out'[k]]
  BY DEF Log
<1>4. out' = [k \in DOMAIN out' |-> out'[k]]
  BY <1>2, SeqIsFunction
<1>5. Log' = out'
  BY <1>3, <1>4
<1> QED BY <1>1, <1>5

\* With the last call the log closes behind the ticks that left before it.
LEMMA LogCloses ==
  ASSUME out \in Seq(Nat), nextFlush \in Nat, ~ended, ended', NEW n \in Nat,
         n = 0 \/ Len(out) = nextFlush, out' = out \o Run(n + 1)
  PROVE  Log' = Append(Log \o Serial!Run(n), Last)
<1> DEFINE s == Serial!Run(n)
           t == out \o s
<1>1. Log = out /\ Len(out) \in Nat
  BY LogOpen
<1>2. /\ s \in Seq(Int) /\ Len(s) = n
      /\ \A j \in 1 .. n : s[j] = Len(out) + j - 1
  BY SerialRun
<1>3. /\ DOMAIN out' = 1 .. (Len(out) + n + 1) /\ Len(out') = Len(out) + n + 1
      /\ \A k \in 1 .. Len(out) : out'[k] = out[k]
      /\ \A k \in 1 .. (n + 1) : out'[Len(out) + k] = nextFlush + k - 1
  <2>1. n + 1 \in Nat /\ Len(out) + (n + 1) = Len(out) + n + 1
    BY <1>1
  <2> DEFINE m == n + 1
  <2>2. m \in Nat
    BY <2>1
  <2> HIDE DEF m
  <2>3. /\ DOMAIN (out \o Run(m)) = 1 .. (Len(out) + m)
        /\ Len(out \o Run(m)) = Len(out) + m
        /\ \A k \in 1 .. Len(out) : (out \o Run(m))[k] = out[k]
        /\ \A k \in 1 .. m : (out \o Run(m))[Len(out) + k] = nextFlush + k - 1
    BY <2>2, Leaving
  <2>4. out' = out \o Run(m)
    BY DEF m
  <2>5. /\ DOMAIN out' = 1 .. (Len(out) + m) /\ Len(out') = Len(out) + m
        /\ \A k \in 1 .. Len(out) : out'[k] = out[k]
        /\ \A k \in 1 .. m : out'[Len(out) + k] = nextFlush + k - 1
    BY <2>3, <2>4
  <2> QED BY <2>1, <2>5 DEF m
<1> HIDE DEF s
<1>4. /\ t \in Seq(Int) /\ Len(t) = Len(out) + n
      /\ \A k \in 1 .. (Len(out) + n) :
           t[k] = IF k <= Len(out) THEN out[k] ELSE s[k - Len(out)]
  <2>1. out \in Seq(Int)
    OBVIOUS
  <2>2. /\ out \o s \in Seq(Int) /\ Len(out \o s) = Len(out) + Len(s)
        /\ \A k \in 1 .. (Len(out) + Len(s)) :
             (out \o s)[k] = IF k <= Len(out) THEN out[k] ELSE s[k - Len(out)]
    BY <1>2, <2>1, ConcatProperties
  <2> QED BY <1>2, <2>2
<1> HIDE DEF t
<1> DEFINE u == Append(t, Last)
<1>5. /\ u \in Seq(Int) /\ Len(u) = Len(out) + n + 1
      /\ \A k \in 1 .. (Len(out) + n) : u[k] = t[k]
      /\ u[Len(out) + n + 1] = Last
  <2>1. Last \in Int
    BY DEF Last
  <2>2. /\ Append(t, Last) \in Seq(Int) /\ Len(Append(t, Last)) = Len(t) + 1
        /\ \A k \in 1 .. Len(t) : Append(t, Last)[k] = t[k]
        /\ Append(t, Last)[Len(t) + 1] = Last
    BY <1>4, <2>1, AppendProperties
  <2> QED BY <1>4, <2>2
<1> HIDE DEF u
<1>6. Log' = [k \in 1 .. (Len(out) + n + 1) |->
                IF k = Len(out) + n + 1 THEN Last ELSE out'[k]]
  BY <1>3 DEF Log, Last
<1>7. u = [k \in 1 .. (Len(out) + n + 1) |-> u[k]]
  <2>1. DOMAIN u = 1 .. Len(u)
    BY <1>5
  <2> QED BY <1>5, <2>1
<1>8. ASSUME NEW k \in 1 .. (Len(out) + n + 1)
      PROVE  u[k] = IF k = Len(out) + n + 1 THEN Last ELSE out'[k]
  <2>1. CASE k = Len(out) + n + 1
    BY <1>5, <2>1
  <2>2. CASE k <= Len(out)
    <3>1. k \in 1 .. Len(out) /\ k \in 1 .. (Len(out) + n) /\ k # Len(out) + n + 1
      BY <1>1, <2>2
    <3> QED BY <1>3, <1>4, <1>5, <2>2, <3>1
  <2>3. CASE Len(out) < k /\ k < Len(out) + n + 1
    <3> DEFINE j == k - Len(out)
    <3>1. /\ j \in 1 .. n /\ j \in 1 .. (n + 1) /\ k = Len(out) + j
          /\ k \in 1 .. (Len(out) + n) /\ k # Len(out) + n + 1 /\ ~(k <= Len(out))
          /\ n # 0
      BY <1>1, <2>3
    <3>2. u[k] = s[j]
      BY <1>4, <1>5, <3>1
    <3>3. s[j] = Len(out) + j - 1
      BY <1>2, <3>1
    <3> HIDE DEF j
    <3>4. out'[k] = nextFlush + j - 1
      BY <1>3, <3>1
    <3>5. Len(out) = nextFlush
      BY <3>1
    <3>6. u[k] = out'[k]
      BY <3>2, <3>3, <3>4, <3>5
    <3> QED BY <3>1, <3>6
  <2>4. Len(out) + n + 1 \in Nat /\ k \in Nat /\ k <= Len(out) + n + 1
    BY <1>1
  <2>5. k <= Len(out) \/ Len(out) < k
    BY <1>1, <2>4
  <2>6. k = Len(out) + n + 1 \/ k < Len(out) + n + 1
    <3> DEFINE b == Len(out) + n + 1
    <3>1. b \in Nat /\ k \in Nat /\ k <= b
      BY <2>4
    <3> HIDE DEF b
    <3>2. k = b \/ k < b
      BY <3>1
    <3> QED BY <3>2 DEF b
  <2> QED BY <2>1, <2>2, <2>3, <2>5, <2>6
<1>9. Log' = u
  BY <1>6, <1>7, <1>8
<1> QED BY <1>1, <1>9 DEF u, t, s

\* A turn handed in is a step of a serial lane: some ticks leave, or the last
\* call, or nothing.
LEMMA CompleteMaps ==
  ASSUME Clock # "self", LaneInvariant, NEW w \in Worker, NEW stop,
         NEW verdict \in {"ok", "finished"}, Complete(w, stop, verdict)
  PROVE  [Serial!Next]_(Serial!vars)
<1> USE LaneAssumption
<1>1. Flush(Ready(w, stop, verdict)) /\ UNCHANGED <<error, arrived, over>>
  BY DEF Complete, Ready, intake
<1>2. PICK past \in nextFlush .. queue.next :
        /\ \A n \in nextFlush .. (past - 1) :
             \E r \in Ready(w, stop, verdict) : r.tick = n
        /\ \/ /\ Claims(Ready(w, stop, verdict), past) = {}
              /\ FlushRun(Ready(w, stop, verdict), Gone(Ready(w, stop, verdict), past), past)
           \/ \E r \in Claims(Ready(w, stop, verdict), past) :
                FlushClaim(Ready(w, stop, verdict), r)
  BY <1>1 DEF Flush, Claims, Gone
<1>3. /\ out \in Seq(Nat) /\ Len(out) \in Nat /\ nextFlush \in Nat
      /\ arrived \in 0 .. MaxTick /\ ~ended
  BY <1>2, Unbroken
<1>4. /\ Log = out /\ Len(Log) = Len(out) /\ ~Serial!Closed
  BY <1>3, LogOpen
<1>5. ASSUME NEW m \in Nat, m # 0, ~ended', finisher = None,
             out' = out \o Run(m), Len(out) = nextFlush, nextFlush + m <= arrived
      PROVE  Serial!Next
  <2>1. Log' = Log \o Serial!Run(m)
    BY <1>3, <1>5, LogGrows
  <2>2. m \in 1 .. arrived /\ Len(Log) + m <= arrived
    BY <1>3, <1>4, <1>5
  <2>3. Serial!Leave(m)
    BY <1>1, <1>4, <1>5, <2>1, <2>2 DEF Serial!Leave
  <2> QED BY <2>2, <2>3 DEF Serial!Next
<1>6. ASSUME NEW n \in Nat, ended', UNCHANGED finisher, out' = out \o Run(n + 1),
             \/ n = 0 /\ finisher # None
             \/ finisher = None /\ over /\ Len(out) = nextFlush /\ nextFlush + n = arrived
      PROVE  Serial!Next
  <2>1. Log' = Append(Log \o Serial!Run(n), Last)
    BY <1>3, <1>6, LogCloses
  <2>2. n \in 0 .. arrived
    BY <1>3, <1>6
  <2>3. IF finisher # None THEN n = 0 ELSE over /\ Len(Log) + n = arrived
    BY <1>4, <1>6
  <2>4. Serial!Close(n)
    BY <1>1, <1>4, <1>6, <2>1, <2>3 DEF Serial!Close
  <2> QED BY <2>2, <2>4 DEF Serial!Next
<1>7. CASE \E r \in Claims(Ready(w, stop, verdict), past) :
             FlushClaim(Ready(w, stop, verdict), r)
  <2>1. PICK m \in Nat :
          /\ out' = out \o Run(m) /\ m # 0
          /\ ~ended' /\ finisher = None
          /\ Len(out) = nextFlush /\ nextFlush + m <= arrived
    BY <1>2, <1>7, ClaimLeaves
  <2> QED BY <1>5, <2>1
<1>8. CASE /\ Claims(Ready(w, stop, verdict), past) = {}
           /\ FlushRun(Ready(w, stop, verdict), Gone(Ready(w, stop, verdict), past), past)
  <2> DEFINE m == past - nextFlush
  <2>1. /\ out' = out \o Run(m) /\ m \in Nat
        /\ UNCHANGED finisher
        /\ \/ ~ended' /\ past = nextFlush
           \/ ~ended' /\ finisher = None /\ Len(out) = nextFlush /\ past <= arrived
           \/ ended' /\ finisher # None /\ m = 1
           \/ /\ ended' /\ finisher = None /\ over /\ Len(out) = nextFlush
              /\ m \in Nat \ {0}
              /\ past - 1 = arrived
    BY <1>2, <1>8, RunLeaves
  <2>2. past \in Nat /\ nextFlush + m = past
    BY <1>2, <1>3, <2>1
  <2>3. past = nextFlush => m = 0
    BY <1>3, <2>2
  <2> HIDE DEF m
  <2>4. CASE ~ended' /\ m = 0
    <3>1. Run(0) = <<>>
      BY DEF Run
    <3>2. out' = out
      BY <1>3, <2>1, <2>4, <3>1
    <3>3. out' \in Seq(Nat) /\ Log' = [k \in DOMAIN out' |-> out'[k]]
      BY <1>3, <2>4, <3>2 DEF Log
    <3>4. out' = [k \in DOMAIN out' |-> out'[k]]
      BY <3>3, SeqIsFunction
    <3>5. Log' = Log
      BY <1>4, <3>2, <3>3, <3>4
    <3> QED BY <1>1, <2>1, <3>5 DEF Serial!vars
  <2>5. CASE ~ended' /\ m # 0
    <3>1. finisher = None /\ Len(out) = nextFlush /\ nextFlush + m <= arrived
      BY <2>1, <2>2, <2>3, <2>5
    <3> QED BY <1>5, <2>1, <2>5, <3>1
  <2>6. CASE ended'
    <3> DEFINE n == m - 1
    <3>1. n \in Nat /\ n + 1 = m /\ m # 0
      BY <2>1, <2>6
    <3>2. \/ n = 0 /\ finisher # None
          \/ finisher = None /\ over /\ Len(out) = nextFlush /\ nextFlush + n = arrived
      BY <1>3, <2>1, <2>2, <2>6
    <3> HIDE DEF n
    <3>3. out' = out \o Run(n + 1)
      BY <2>1, <3>1
    <3> QED BY <1>6, <2>1, <2>6, <3>1, <3>2, <3>3
  <2> QED BY <2>4, <2>5, <2>6
<1> QED BY <1>2, <1>7, <1>8

\* Every step of a lane is a step of a serial lane, or none.
LEMMA NextMaps ==
  ASSUME Clock # "self", LaneInvariant, [Next]_vars
  PROVE  [Serial!Next]_(Serial!vars)
<1>1. ASSUME UNCHANGED <<arrived, over, out, ended, finisher, error>>
      PROVE  UNCHANGED Serial!vars
  BY <1>1 DEF Serial!vars, Log
<1>2. ASSUME over' \in BOOLEAN, ~over, arrived' \in Nat, arrived' >= arrived,
             UNCHANGED <<out, ended, finisher, error>>
      PROVE  Serial!Next
  <2>1. UNCHANGED <<Log, finisher, error>>
    BY <1>2 DEF Log
  <2> QED BY <1>2, <2>1 DEF Serial!Next, Serial!Settle
<1>3. CASE UNCHANGED vars
  BY <1>1, <1>3 DEF vars, intake, life
<1>4. ASSUME NEW k \in 1 .. MaxTick, Arrive(k)
      PROVE  Serial!Next
  <2>1. arrived' \in Nat /\ arrived' >= arrived /\ over' \in BOOLEAN
    BY <1>4, LaneAssumption DEF Arrive, LaneInvariant, TypeOK
  <2> QED BY <1>2, <1>4, <2>1 DEF Arrive, life
<1>5. CASE End
  <2>1. arrived' \in Nat /\ arrived' >= arrived /\ over' \in BOOLEAN
    BY <1>5, LaneAssumption DEF End, LaneInvariant, TypeOK
  <2> QED BY <1>2, <1>5, <2>1 DEF End, life
<1>6. ASSUME NEW w \in Worker, Look(w) \/ Dispatch(w)
      PROVE  UNCHANGED Serial!vars
  BY <1>1, <1>6 DEF Look, Dispatch, intake, life
<1>7. ASSUME NEW w \in Worker, Finish(w)
      PROVE  [Serial!Next]_(Serial!vars)
  <2>1. PICK stop \in 0 .. (MaxTick + 1), verdict \in Verdicts : Complete(w, stop, verdict)
    BY <1>7 DEF Finish
  <2>2. CASE verdict = "failed"
    <3>1. error' = TRUE /\ UNCHANGED <<arrived, over, ended, finisher, out>>
      BY <2>1, <2>2 DEF Complete, intake, life
    <3>2. UNCHANGED Log
      BY <3>1 DEF Log
    <3> QED BY <3>1, <3>2 DEF Serial!Next, Serial!Fail
  <2>3. CASE verdict # "failed"
    <3>1. verdict \in {"ok", "finished"}
      BY <2>3 DEF Verdicts
    <3> QED BY <2>1, <3>1, CompleteMaps
  <2> QED BY <2>2, <2>3
<1> QED BY <1>3, <1>4, <1>5, <1>6, <1>7 DEF Next, Feed, Work, Rest

\* A lane starts as a serial lane does.
LEMMA InitMaps ==
  ASSUME Init
  PROVE  Serial!Init
<1>1. out = <<>> /\ ended = FALSE /\ over = FALSE /\ error = FALSE /\ finisher = None
  BY DEF Init
<1>2. arrived \in Nat
  BY LaneAssumption DEF Init
<1>3. Log = <<>>
  BY <1>1 DEF Log
<1> QED BY <1>1, <1>2, <1>3 DEF Serial!Init

-----------------------------------------------------------------------------
(* A claim closes its lane.                                                *)

\* What a turn hands in has one result for each tick, and so has what waits
\* with it.
LEMMA OneEach ==
  ASSUME LaneInvariant, WaitsOnce, NEW w \in Busy, turn[w] \in Turn, NEW verdict,
         NEW e \in Int, e <= turn[w].hi
  PROVE  \A r, s \in done \cup Made(turn[w], e, verdict) : r.tick = s.tick => r = s
<1> DEFINE t == turn[w]
           m == Made(t, e, verdict)
<1>1. nextFlush \in Nat /\ t \in Turn
  BY DEF LaneInvariant, TypeOK
<1>2. \A r \in m : r.tick \in Nat /\ t.lo <= r.tick /\ r.tick <= e
  BY <1>1, MadeOf
<1>3. \A r, s \in m : r.tick = s.tick => r = s
  <2> DEFINE one(n) == [tick |-> n, fin |-> (n = e /\ verdict = "finished"), inst |-> t.inst]
  <2>1. m = {one(n) : n \in Larger(t.lo, nextFlush) .. e}
    BY DEF Made
  <2>2. \A n : one(n).tick = n
    OBVIOUS
  <2> HIDE DEF one, m
  <2> QED BY <2>1, <2>2
<1>4. t.lo \in Int /\ t.hi \in Int
  BY <1>1 DEF Turn, Tick
<1>5. ASSUME NEW r \in done, NEW s \in m
      PROVE  r.tick # s.tick
  <2>1. r.tick < t.lo \/ t.hi < r.tick
    BY DEF LaneInvariant, DoneInv
  <2>2. r.tick \in Int
    BY DEF LaneInvariant, TypeOK, Result, Tick
  <2>3. s.tick \in Int /\ t.lo <= s.tick /\ s.tick <= e /\ e <= t.hi
    BY <1>2
  <2> QED BY <1>4, <2>1, <2>2, <2>3
<1>6. \A r, s \in done : r.tick = s.tick => r = s
  BY DEF WaitsOnce
<1> HIDE DEF m
<1> QED BY <1>3, <1>5, <1>6 DEF m

\* However a turn comes back, what still waits waits once.
LEMMA WaitsOnceKept ==
  ASSUME LaneInvariant, WaitsOnce, [Next]_vars
  PROVE  WaitsOnce'
<1>1. CASE UNCHANGED done
  BY <1>1 DEF WaitsOnce
<1>2. ASSUME NEW w \in Worker, NEW stop, NEW verdict \in Verdicts,
             Complete(w, stop, verdict)
      PROVE  WaitsOnce'
  <2>1. w \in Busy /\ turn[w] \in Turn /\ stop \in turn[w].lo .. turn[w].hi
    BY <1>2, HandedIn
  <2>2. /\ stop \in Int /\ stop <= turn[w].hi
        /\ stop - 1 \in Int /\ stop - 1 <= turn[w].hi
    BY <2>1 DEF Turn, Tick
  <2>3. PICK e \in {stop - 1, stop} :
          done' \subseteq done \cup Made(turn[w], e, verdict)
    <3>1. CASE verdict = "failed"
      BY <1>2, <3>1 DEF Complete
    <3>2. CASE verdict # "failed"
      <4>1. Flush(done \cup Made(turn[w], stop, verdict))
        BY <1>2, <3>2 DEF Complete
      <4>2. done' \subseteq done \cup Made(turn[w], stop, verdict)
        BY <4>1 DEF Flush, FlushRun, FlushClaim
      <4> QED BY <4>2
    <3> QED BY <3>1, <3>2
  <2>4. e \in Int /\ e <= turn[w].hi
    BY <2>2
  <2>5. \A r, s \in done \cup Made(turn[w], e, verdict) : r.tick = s.tick => r = s
    BY <2>1, <2>4, OneEach
  <2> QED BY <2>3, <2>5 DEF WaitsOnce
<1>3. ASSUME NEW w \in Worker, Finish(w)
      PROVE  WaitsOnce'
  BY <1>2, <1>3 DEF Finish
<1>4. CASE Feed \/ Rest \/ UNCHANGED vars
  BY <1>1, <1>4 DEF Feed, Arrive, End, Rest, vars
<1>5. ASSUME NEW w \in Worker, Look(w) \/ Dispatch(w)
      PROVE  WaitsOnce'
  BY <1>1, <1>5 DEF Look, Dispatch
<1> QED BY <1>3, <1>4, <1>5 DEF Next, Work

\* A step of a lane.
ClaimStep ==
  \A r \in done, k \in (Len(out) + 1) .. Len(out') :
    (r.fin /\ ~stopped /\ out'[k] = r.tick) => k = Len(out') /\ finisher' = r.inst

\* A turn handed in lets a claim leave only as the last that leaves, and then
\* for the instance that made it.
LEMMA CompleteClaims ==
  ASSUME LaneInvariant, WaitsOnce, NEW w \in Worker, NEW stop,
         NEW verdict \in {"ok", "finished"}, Complete(w, stop, verdict)
  PROVE  ClaimStep
<1> DEFINE d == Ready(w, stop, verdict)
<1>1. Flush(d)
  BY DEF Complete, Ready
<1> HIDE DEF d
<1>2. PICK past \in nextFlush .. queue.next :
        /\ \A n \in nextFlush .. (past - 1) : \E r \in d : r.tick = n
        /\ \/ Claims(d, past) = {} /\ FlushRun(d, Gone(d, past), past)
           \/ \E r \in Claims(d, past) :
                (\A s \in Claims(d, past) : r.tick <= s.tick) /\ FlushClaim(d, r)
  BY <1>1 DEF Flush, Claims, Gone
<1>3. /\ out \in Seq(Nat) /\ Len(out) \in Nat /\ nextFlush \in Nat /\ past \in Nat
      /\ nextFlush <= past
      /\ \A r \in d : r.tick \in Nat /\ nextFlush <= r.tick
  BY <1>2, Unbroken DEF d
<1>4. \A r, s \in d : r.tick = s.tick => r = s
  <2>1. w \in Busy /\ turn[w] \in Turn /\ stop \in turn[w].lo .. turn[w].hi
    BY HandedIn
  <2>2. stop \in Int /\ stop <= turn[w].hi
    BY <2>1 DEF Turn, Tick
  <2> QED BY <2>1, <2>2, OneEach DEF d, Ready
<1>5. ASSUME NEW r \in done
      PROVE  r \in d /\ r.tick # queue.last
  BY DEF d, Ready, LaneInvariant, DoneInv
<1>6. ASSUME NEW m \in Nat, out' = out \o Run(m)
      PROVE  /\ Len(out') = Len(out) + m
             /\ \A j \in 1 .. m : out'[Len(out) + j] = nextFlush + j - 1
  BY <1>3, <1>6, Leaving
<1> SUFFICES ASSUME NEW r \in done, NEW k \in (Len(out) + 1) .. Len(out'),
                    r.fin, ~stopped, out'[k] = r.tick
             PROVE  k = Len(out') /\ finisher' = r.inst
  BY DEF ClaimStep
<1>7. CASE Claims(d, past) = {} /\ FlushRun(d, Gone(d, past), past)
  <2> DEFINE m == past - nextFlush
  <2>1. out' = out \o Run(m) /\ m \in Nat
    BY <1>2, <1>7, RunLeaves DEF d
  <2> HIDE DEF m
  <2>2. /\ Len(out') = Len(out) + m
        /\ \A j \in 1 .. m : out'[Len(out) + j] = nextFlush + j - 1
    BY <1>6, <2>1
  <2>3. k - Len(out) \in 1 .. m /\ Len(out) + (k - Len(out)) = k
    BY <1>3, <2>1, <2>2
  <2>4. r.tick = nextFlush + (k - Len(out)) - 1
    BY <2>2, <2>3
  <2>5. r.tick < past
    BY <1>3, <2>1, <2>3, <2>4 DEF m
  <2>6. r \in Claims(d, past)
    BY <1>5, <2>5 DEF Claims, Gone
  <2> QED BY <1>7, <2>6
<1>8. ASSUME NEW c \in Claims(d, past),
             \A s \in Claims(d, past) : c.tick <= s.tick, FlushClaim(d, c)
      PROVE  k = Len(out') /\ finisher' = r.inst
  <2>1. c \in d /\ c.tick < past /\ c.tick \in Nat /\ nextFlush <= c.tick
    BY <1>3, <1>8 DEF Claims, Gone
  <2> DEFINE m == c.tick - nextFlush + 1
  <2>2. m \in Nat /\ nextFlush + m - 1 = c.tick
    BY <1>3, <2>1
  <2>3. out' = out \o Run(m)
    BY <1>2, <1>8, ClaimLeaves DEF d
  <2> HIDE DEF m
  <2>4. /\ Len(out') = Len(out) + m
        /\ \A j \in 1 .. m : out'[Len(out) + j] = nextFlush + j - 1
    BY <1>6, <2>2, <2>3
  <2>5. k - Len(out) \in 1 .. m /\ Len(out) + (k - Len(out)) = k
    BY <1>3, <2>2, <2>4
  <2>6. r.tick = nextFlush + (k - Len(out)) - 1
    BY <2>4, <2>5
  <2>7. r.tick <= c.tick /\ r.tick \in Nat
    BY <1>3, <1>5, <2>2, <2>5, <2>6
  <2>8. r \in Claims(d, past)
    BY <1>3, <1>5, <2>1, <2>7 DEF Claims, Gone
  <2>9. r.tick = c.tick
    BY <1>8, <2>1, <2>7, <2>8
  <2>10. r = c
    BY <1>4, <1>5, <2>1, <2>9
  <2>11. k = Len(out')
    BY <1>3, <2>2, <2>4, <2>5, <2>6, <2>9
  <2>12. finisher' = c.inst
    BY <1>8 DEF FlushClaim
  <2> QED BY <2>10, <2>11, <2>12
<1> QED BY <1>2, <1>7, <1>8

\* So every step does.
LEMMA NextClaims ==
  ASSUME LaneInvariant, WaitsOnce, [Next]_vars
  PROVE  ClaimStep
<1>1. CASE UNCHANGED out
  <2>1. Len(out) \in Nat
    BY DEF LaneInvariant, TypeOK
  <2>2. (Len(out) + 1) .. Len(out') = {}
    BY <1>1, <2>1
  <2> QED BY <2>2 DEF ClaimStep
<1>2. ASSUME NEW w \in Worker, Finish(w)
      PROVE  ClaimStep
  <2>1. PICK stop \in 0 .. (MaxTick + 1), verdict \in Verdicts : Complete(w, stop, verdict)
    BY <1>2 DEF Finish
  <2>2. CASE verdict = "failed"
    BY <1>1, <2>1, <2>2 DEF Complete
  <2>3. CASE verdict # "failed"
    <3>1. verdict \in {"ok", "finished"}
      BY <2>3 DEF Verdicts
    <3> QED BY <2>1, <3>1, CompleteClaims
  <2> QED BY <2>2, <2>3
<1>3. CASE Feed \/ Rest \/ UNCHANGED vars
  BY <1>1, <1>3 DEF Feed, Arrive, End, Rest, vars
<1>4. ASSUME NEW w \in Worker, Look(w) \/ Dispatch(w)
      PROVE  ClaimStep
  BY <1>1, <1>4 DEF Look, Dispatch
<1> QED BY <1>2, <1>3, <1>4 DEF Next, Work

\* The invariant of every lane: any clock, width, cap and number of workers,
\* however arrivals, turns and failures fall.
THEOREM LaneSafe == Spec => []LaneInvariant
<1>1. Init => LaneInvariant
  BY InitKeeps
<1>2. LaneInvariant /\ [Next]_vars => LaneInvariant'
  BY NextKeeps
<1> QED BY <1>1, <1>2, PTL DEF Spec

\* The fields of a lane keep their types.
THEOREM TypesKept == Spec => []TypeOK
<1>1. LaneInvariant => TypeOK
  BY DEF LaneInvariant
<1> QED BY <1>1, LaneSafe, PTL

\* Results leave in ordinal order, each once, whatever order workers return
\* them in.
THEOREM LeavesInOrder == Spec => []InOrder
<1>1. LaneInvariant => InOrder
  BY DEF LaneInvariant
<1> QED BY <1>1, LaneSafe, PTL

\* The last call is the only turn out, is after everything that leaves, and
\* is on the instance that asked for it.
THEOREM LastCallIsAlone == Spec => []LastCallAlone
<1>1. LaneInvariant => LastCallAlone
  BY DEF LaneInvariant
<1> QED BY <1>1, LaneSafe, PTL

\* No two workers ever run one instance, and an instance run is not idle.
THEOREM InstancesInOneHand == Spec => []OneHandEach
<1>1. LaneInvariant => OneHandEach
  BY DEF LaneInvariant, HandInv
<1> QED BY <1>1, LaneSafe, PTL

\* A clock the cap bounds is never queued past it.
THEOREM CapHolds == Spec => []QueueWithinCap
<1>1. LaneInvariant => QueueWithinCap
  BY DEF LaneInvariant, QueueInv, QueueOK, QueueWithinCap
<1> QED BY <1>1, LaneSafe, PTL

\* A settled tick is numbered or announced as held back.
THEOREM NothingIsStranded == Spec => []NothingStranded
<1>1. LaneInvariant => NothingStranded
  BY DEF LaneInvariant, QueueInv, QueueOK, NothingStranded
<1> QED BY <1>1, LaneSafe, PTL

\* On a lane that runs several ticks at once every instance is handed the rows
\* of all the ticks it missed, each once.
THEOREM RowsAllHanded ==
  ASSUME Width > 1
  PROVE  Spec => []HandedEveryRow
<1>1. LaneInvariant => HandedEveryRow
  BY DEF LaneInvariant, RowInv, HandedEveryRow
<1> QED BY <1>1, LaneSafe, PTL

\* Whatever reads a lane cannot tell its workers, instances and queue from one
\* serial lane's: the settled ticks leave one after another from 0, nothing
\* past the tick the node said it was finished on, then one last call.  (A
\* self-clocked lane may have its last arrival and the end of its inputs in
\* one tick, the last call, and then closes one short of what arrived.)
THEOREM LaneIsSerial ==
  ASSUME Clock # "self"
  PROVE  Spec => ImplementsSerialLane
<1>1. Init => Serial!Init
  BY InitMaps
<1>2. LaneInvariant /\ [Next]_vars => [Serial!Next]_(Serial!vars)
  BY NextMaps
<1> QED BY <1>1, <1>2, LaneSafe, PTL DEF Spec, ImplementsSerialLane, Serial!Safe

\* The tick a running lane's node said it was finished on is the last to leave
\* with it: what other workers made past it, before or since, never does.
THEOREM ClaimsClose == Spec => ClaimClosesTheLane
<1>1. Init => WaitsOnce
  BY DEF Init, WaitsOnce
<1>2. LaneInvariant /\ WaitsOnce /\ [Next]_vars => WaitsOnce' /\ ClaimStep
  BY WaitsOnceKept, NextClaims
<1>3. Spec => [][ClaimStep]_vars
  BY <1>1, <1>2, LaneSafe, PTL DEF Spec
<1> QED BY <1>3 DEF ClaimClosesTheLane, ClaimStep
=============================================================================
