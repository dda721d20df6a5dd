------------------------------ MODULE LaneInv ------------------------------
(***************************************************************************)
(* The inductive invariant of module Lane: what must hold between any two  *)
(* steps for the next step to keep the lane's results in order, its last   *)
(* call alone and its instances told of every row.                         *)
(***************************************************************************)
EXTENDS Lane

Queues == [head : Nat, next : 0 .. (MaxTick + 2), withheld : BOOLEAN,
           last : Tick \cup {None}]

\* The last tick is the last one numbered, what is numbered was settled, a
\* tick is held back exactly where an input clock has settled one more, and
\* the cap bounds what a bounded clock queues.
QueueOK(q, t, v) ==
  /\ q.head <= q.next
  /\ q.last # None => q.next = q.last + 1
  /\ ~stopped => q.next <= IF q.last = None THEN t ELSE t + 1
  /\ (~stopped /\ q.last # None) => v /\ (Clock # "self" => q.last = t)
  /\ q.withheld <=> (Clock = "input" /\ ~stopped /\ Total(t, v) > q.next)
  /\ Clock \in {"input", "rate", "source"} => q.next - q.head <= Cap

QueueInv == QueueOK(queue, arrived, over)

\* Turns hold disjoint runs of ordinals taken off the queue; more than one
\* tick at a time only where turns come one at a time; and while a lane runs
\* none of them is behind what has left.
TurnInv ==
  \A w \in Busy :
    /\ turn[w].lo <= turn[w].hi
    /\ turn[w].hi < queue.head
    /\ Width > 1 => turn[w].lo = turn[w].hi
    /\ ~stopped => nextFlush <= turn[w].lo
    /\ turn[w].hi = queue.last => turn[w].lo = queue.last
    /\ \A v \in Busy \ {w} :
         /\ Width > 1
         /\ turn[v].hi < turn[w].lo \/ turn[w].hi < turn[v].lo

\* Results wait only for a turn that is out: every ordinal between what has
\* left and the front of the queue is one or the other, never both.
DoneInv ==
  /\ nextFlush <= queue.head
  /\ \A r \in done : nextFlush <= r.tick /\ r.tick < queue.head /\ r.tick # queue.last
  /\ \A r \in done, w \in Busy : r.tick < turn[w].lo \/ turn[w].hi < r.tick
  /\ ~error => /\ \A r \in done : r.tick # nextFlush
               /\ \A n \in nextFlush .. (queue.head - 1) :
                    \/ \E r \in done : r.tick = n
                    \/ \E w \in Busy : turn[w].lo <= n /\ n <= turn[w].hi

\* What has left is numbered from 0; once a claim has left the lane waits
\* for its last call, and once that has left for nothing.
OutInv ==
  /\ ~stopped => Len(out) = nextFlush
  /\ ~ended => \A k \in DOMAIN out : out[k] = k - 1
  /\ stopped => queue.last # None /\ done = {}
  /\ (stopped /\ ~ended) => nextFlush = queue.last /\ finisher # None
  /\ ended => stopped /\ Busy = {}
  /\ finisher # None => stopped

\* Instances are opened in order and each is in one hand.
HandInv ==
  /\ OneHandEach
  /\ \A w \in Busy : turn[w].inst < created
  /\ \A k \in DOMAIN idle : idle[k] < created

\* What an instance has been told is what it knows, but for the turn it is
\* out on; nothing it has not been told of is forgotten.
RowInv ==
  (Assembled /\ Width > 1) =>
    /\ \A i \in Instance : told[i] <= queue.head /\ kept <= told[i]
    /\ \A w \in Busy : /\ turn[w].from = knows[turn[w].inst]
                       /\ told[turn[w].inst] = turn[w].hi + 1
    /\ \A i \in Instance : (\A w \in Busy : turn[w].inst # i) => told[i] = knows[i]

LaneInvariant ==
  /\ TypeOK
  /\ QueueInv
  /\ TurnInv
  /\ DoneInv
  /\ OutInv
  /\ InOrder
  /\ LastCallAlone
  /\ HandInv
  /\ RowInv

\* A tick waits once.
WaitsOnce == \A r, s \in done : r.tick = s.tick => r = s

-----------------------------------------------------------------------------
(* The lane as one that runs a tick after another: what has left, with the *)
(* last call told apart from the ordinal it happened to get.               *)

Last == -1

Log == [k \in DOMAIN out |-> IF ended /\ k = Len(out) THEN Last ELSE out[k]]

Serial == INSTANCE SerialLane WITH
            log     <- Log,
            claimed <- finisher # None,
            failed  <- error

\* Whatever the workers' turns did, what left the lane is what a serial lane
\* lets leave: each settled tick once in order, nothing after the tick the
\* node said it was finished on, one last call (lanes.rs:1-16, State::flush).
ImplementsSerialLane == Serial!Safe

\* And the last call does leave once the inputs are over or the node has said
\* it is finished, unless a call fails.
LaneCloses == Serial!Closes
=============================================================================
