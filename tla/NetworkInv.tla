----------------------------- MODULE NetworkInv -----------------------------
(***************************************************************************)
(* The inductive invariants of module Network: what must hold between any  *)
(* two steps of its threads for no wake-up to be lost, no failure hidden,  *)
(* each lane serial, each output whole and what waits bounded.             *)
(***************************************************************************)
EXTENDS Network

Record(r) ==
  [got |-> r.got, closed |-> r.closed, queue |-> r.queue, done |-> r.done,
   nextFlush |-> r.nextFlush, stopped |-> r.stopped, claimed |-> r.claimed,
   ended |-> r.ended]

\* A self-clocked node's queue is cut a tick at a time, and nothing of it is
\* held back; so what a cut leaves, another leaves alone.
SelfQueue(l, q) ==
  LaneClock[l] = "self" =>
    q.head \in Int /\ q.next \in Int /\ q.head <= q.next /\ ~q.withheld

LaneKept(l, r) == r = Record(r) /\ SelfQueue(l, r.queue)

Lanes == lane = [l \in Lane |-> lane[l]] /\ \A l \in Lane : LaneKept(l, lane[l])

\* A worker that runs has a turn of a lane.
Turns ==
  /\ worker \in [Worker -> {"awake", "asleep", "run", "gone"}]
  /\ turn = [w \in Worker |-> turn[w]]
  /\ \A w \in Worker : worker[w] = "run" => turn[w].lane \in Lane

Outs ==
  /\ writer = [w \in Writer |-> writer[w]]
  /\ \A w \in Writer :
       {"pc", "items", "taken", "hand", "ends", "wrote", "fate", "result"}
         \subseteq DOMAIN writer[w]

\* The threads have their places, and a lane and a writer their fields.
Places == net \in Nets /\ Lanes /\ Turns /\ Outs

\* A worker returns only when the run has stopped.
StaysForWork == (\E w \in Worker : worker[w] = "gone") => ~Running

\* Whoever looked for work last found none, or will look again.
SeenInvariant == Places /\ StaysForWork /\ WorkIsSeen

\* Once the workers are joined no call can fail any more, and the main thread
\* has seen that none did.
JoinedClean ==
  main \in {"drain", "ok"} => ~error /\ \A w \in Worker : worker[w] = "gone"

FailureInvariant == JoinedClean /\ FailureSurfaces
-----------------------------------------------------------------------------
(* A lane among others is a serial lane.                                   *)

\* The queue of a lane: the last tick is the last one numbered, what is
\* numbered was settled, and a tick is held back only where an input clock has
\* settled one more.  A self-clocked lane numbers arrivals, not settled ticks.
QueueFits(l, q, t, v, stopped) ==
  /\ q.head <= q.next
  /\ q.last # None => q.next = q.last + 1
  /\ stopped => q.last # None
  /\ LaneClock[l] = "self" => ~q.withheld
  /\ (LaneClock[l] # "self" /\ ~stopped) =>
       /\ q.next <= IF q.last = None THEN t ELSE t + 1
       /\ q.last # None => v /\ q.last = t
  /\ q.withheld => LaneClock[l] = "input" /\ ~stopped /\ q.next < Q(l)!Total(t, v)

QueueOK(l, r) == QueueFits(l, r.queue, Settled(l, r), Over(l, r), r.stopped)

\* The workers that have a turn of lane l, their turns being tu.
Out(l, tu) == {w \in Worker : tu[w] # None /\ tu[w].lane = l}

Apart(t, u) == t.hi < u.lo \/ u.hi < t.lo

\* The turns of lane l that are out, against its record r: each a run of
\* ordinals taken off the queue and not behind what has left, more than one only
\* where turns come one at a time.
TurnsOK(l, r, tu) ==
  \A w \in Out(l, tu) :
    LET t == tu[w] IN
    /\ t.lo <= t.hi /\ t.hi < r.queue.head
    /\ LaneWidth[l] > 1 => t.lo = t.hi
    /\ LaneWidth[l] = 1 => r.done = {} /\ r.nextFlush = t.lo
    /\ ~r.stopped => r.nextFlush <= t.lo
    /\ t.hi = r.queue.last => t.lo = r.queue.last
    /\ \A v \in Out(l, tu) \ {w} : LaneWidth[l] > 1 /\ Apart(t, tu[v])

\* Results wait only for a turn that is out: every ordinal between what has
\* left and the front of the queue is one or the other, never both.
DoneOK(l, r, tu, e) ==
  /\ r.nextFlush <= r.queue.head
  /\ \A d \in r.done : /\ r.nextFlush <= d.tick /\ d.tick < r.queue.head
                       /\ d.tick # r.queue.last
                       /\ \A w \in Out(l, tu) : d.tick < tu[w].lo \/ tu[w].hi < d.tick
  /\ ~e => /\ \A d \in r.done : d.tick # r.nextFlush
           /\ \A n \in r.nextFlush .. r.queue.head - 1 :
                \/ \E d \in r.done : d.tick = n
                \/ \E w \in Out(l, tu) : tu[w].lo <= n /\ n <= tu[w].hi

\* What has left, sent ticks, is numbered from 0; after a claim the lane waits
\* for its last call, which runs alone, and after that for nothing.
OutOK(l, r, tu, sent) ==
  /\ ~r.stopped => sent = r.nextFlush
  /\ r.stopped => r.done = {}
  /\ (r.stopped /\ ~r.ended) => r.nextFlush = r.queue.last /\ r.claimed
  /\ r.ended => r.stopped /\ Out(l, tu) = {} /\ r.queue.head = r.queue.next
  /\ r.claimed => r.stopped
  /\ \A w \in Out(l, tu) : tu[w].lo = r.queue.last =>
       Out(l, tu) = {w} /\ r.done = {} /\ r.nextFlush = r.queue.last

LaneFits(l, r, tu, e, sent) ==
  QueueOK(l, r) /\ TurnsOK(l, r, tu) /\ DoneOK(l, r, tu, e) /\ OutOK(l, r, tu, sent)

LaneOK(l) == LaneFits(l, lane[l], turn, error, carried[l])

\* Nothing more of stream s is handed on.
Silent(s) == IF s \in Input THEN feeder[s] = "gone" ELSE lane[s].ended

\* A lane is told of the end of a stream only by the stream's end.
ClosedSilent == \A l \in Lane : \A s \in lane[l].closed : Silent(s)

\* A worker has a turn exactly while it runs.
RunsTurn == \A w \in Worker : worker[w] = "run" <=> turn[w] # None

\* Ending.writing counts the writers that have not got to the end.
WritingCounts ==
  writing = Cardinality({w \in Writer : writer[w].pc \notin {"ask", "settle", "closed", "gone"}})

LanesInvariant ==
  TypeOK /\ WritingCounts /\ RunsTurn /\ ClosedSilent /\ \A l \in Lane : LaneOK(l)

Last == -1

Log(l) == [k \in 1 .. carried[l] |-> k - 1] \o (IF lane[l].ended THEN <<Last>> ELSE <<>>)

Serial(l) == INSTANCE SerialLane WITH
               arrived <- Settled(l, lane[l]),
               over    <- Over(l, lane[l]),
               log     <- Log(l),
               claimed <- lane[l].claimed,
               failed  <- error

\* Each lane is a serial lane among the others: each tick it settles leaves once,
\* in order, then its end, whatever credit and the others' pace make it wait for.
\* A self-clocked lane gives its last arrival to the last call, so it is not one
\* tick per settled tick.
EachIsSerial ==
  /\ \A l \in Lane : LaneClock[l] # "self" => Serial(l)!Init
  /\ [][\A l \in Lane : LaneClock[l] # "self" => [Serial(l)!Next]_(Serial(l)!vars)]_vars

-----------------------------------------------------------------------------
(* An output written whole holds all its streams carried.                  *)

Item(s) == <<s, "item">>
End(s)  == <<s, "end">>

Held(w) == writer[w].pc \in {"took", "write"}

\* What an open output was given of its streams is in its queue, in its
\* writer's hand or written, and a stream's end is the last of it.
OpenOK(w) ==
  /\ \A s \in Reads[w] : writer[w].wrote[s] + Behind(w, s) = carried[s]
  /\ \A s \in Reads[w] :
       /\ \A k \in DOMAIN writer[w].items : writer[w].items[k] = End(s) =>
            /\ Silent(s)
            /\ \A j \in DOMAIN writer[w].items : j > k => writer[w].items[j] # Item(s)
       /\ (s \in writer[w].ends \/ (Held(w) /\ writer[w].hand = End(s))) =>
            /\ Silent(s)
            /\ \A j \in DOMAIN writer[w].items : writer[w].items[j] # Item(s)
       /\ (s \in writer[w].ends /\ Held(w)) => writer[w].hand # Item(s)
  /\ writer[w].pc \in {"last", "ask", "settle"} => writer[w].ends = Reads[w]

WriterOK(w) ==
  /\ Held(w) => writer[w].taken
  /\ writer[w].fate = "open" <=> writer[w].pc \notin {"closed", "gone"}
  /\ writer[w].fate # "open" => writer[w].items = <<>> /\ writer[w].fate = writer[w].result
  /\ writer[w].result # "done" => writer[w].pc \in {"last", "ask", "settle", "closed", "gone"}
  /\ (writer[w].fate = "open" /\ writer[w].result = "done") => OpenOK(w)
  /\ writer[w].fate = "done" => \A s \in Reads[w] : /\ Silent(s)
                                                   /\ writer[w].wrote[s] = carried[s]

WritersInvariant == \A w \in Writer : WriterOK(w)

-----------------------------------------------------------------------------
(* Credit bounds what waits.                                               *)

\* The lanes output w reads that have a turn out.
Working(w) == {l \in Reads[w] \cap Lane : Busy(l) # {}}

\* A turn of a lane that an output reads was found room for, or nothing of the
\* lane was waiting.
CreditInvariant ==
  /\ \A u \in Worker : turn[u] # None =>
       /\ turn[u].hi - turn[u].lo < TurnMax
       /\ turn[u].lane \in Unbuffered => turn[u].hi = turn[u].lo
  /\ \A w \in Writer :
       /\ (\A l \in Reads[w] \cap Lane : LaneWidth[l] = 1) =>
            Len(writer[w].items) + TurnMax * Cardinality(Working(w))
              < Cap + TurnMax * Cardinality(Reads[w])
       /\ \A s \in Reads[w] \cap Unbuffered :
            Behind(w, s) <= IF Busy(s) = {} THEN 1 ELSE 0
=============================================================================
