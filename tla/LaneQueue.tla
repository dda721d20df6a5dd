----------------------------- MODULE LaneQueue -----------------------------
(***************************************************************************)
(* The task queue of a lane (src/sidecar/ffrwd-wasm/src/lanes.rs): how its *)
(* clock cuts settled ticks into it and how much of it one turn takes.     *)
(*                                                                         *)
(* A queue always holds consecutive ordinals, so it is kept as the bounds  *)
(* of that run, a record                                                   *)
(*     head      the ordinal at the front                                  *)
(*     next      the next ordinal to give (Lane.next_ordinal)              *)
(*     withheld  a settled tick past the cap is held back                  *)
(*     last      the ordinal of the last tick once it is cut, else None    *)
(* and the loops of the code are operators in closed form; module TurnLoop *)
(* runs the loops themselves against them.                                 *)
(***************************************************************************)
EXTENDS Integers

CONSTANTS
  Width,       \* how many ticks the lane may run at once: Lane.width
  Cap,         \* State.cap, the bound a queue is held to
  TurnMax,     \* TURN, the most ticks one turn of a one-at-a-time lane takes
  Clock,       \* the lane's ClockKind
  None         \* no worker turn, no tick, no instance

Clocks == {"input", "rate", "source", "self", "windows", "host"}

ASSUME QueueAssumption ==
  /\ Width \in Nat \ {0}
  /\ Cap \in Nat \ {0}
  /\ TurnMax \in Nat \ {0}
  /\ Clock \in Clocks
  /\ None \notin Int

Smaller(a, b) == IF a <= b THEN a ELSE b
Larger(a, b)  == IF a >= b THEN a ELSE b

\* How many ticks the intake gives in all if nothing bounds the cut, of t
\* settled ones: at the end of the inputs (v) one more, the last.
Total(t, v) == IF v THEN t + 1 ELSE t

\* CutUpTo, with the tick the cap holds back forgotten.
CutUpToAndForget(q, n, t, v) ==
  [head     |-> q.head,
   next     |-> n,
   withheld |-> FALSE,
   last     |-> IF v /\ n = t + 1 THEN t ELSE q.last]

\* CutUpTo, with one ordinal given twice over.
CutUpToTwice(q, n, t, v) ==
  [head     |-> q.head,
   next     |-> n + 1,
   withheld |-> (Clock = "input" /\ Total(t, v) > n),
   last     |-> IF v /\ n = t + 1 THEN t ELSE q.last]

\* Queue q holding every tick below n.
CutUpTo(q, n, t, v) ==
  [head     |-> q.head,
   next     |-> n,
   withheld |-> (Clock = "input" /\ Total(t, v) > n),
   last     |-> IF v /\ n = t + 1 THEN t ELSE q.last]

\* Cut, one tick past the cap.
CutPastCap(q, t, v, quiet) ==
  IF q.last # None THEN q
  ELSE CutUpTo(q, Larger(q.next, Smaller(Total(t, v), q.head + Cap + 1)), t, v)

\* State::cut on queue q of a lane that goes on; quiet says nothing of the
\* lane is running.  An input clock stops at the cap and holds back one more
\* settled tick; rate clocks stop at the cap; a self-clocked node is cut a tick
\* at a time, each taking one arrival and the last one the last arrival; an
\* older module's windows and a host node's events are cut as they come.
Cut(q, t, v, quiet) ==
  IF q.last # None THEN q
  ELSE CASE Clock \in {"input", "rate", "source"} ->
              CutUpTo(q, Larger(q.next, Smaller(Total(t, v), q.head + Cap)), t, v)
         [] Clock = "self" ->
              IF q.head < q.next \/ ~quiet \/ (~v /\ t <= q.next) THEN q
              ELSE [head |-> q.head, next |-> q.next + 1, withheld |-> q.withheld,
                    last |-> IF v /\ t <= q.next + 1 THEN q.next ELSE None]
         [] OTHER -> CutUpTo(q, Total(t, v), t, v)

\* Length, the last tick taken with those before it.
LengthThroughLast(q, t, v) ==
  LET settled == IF q.withheld THEN Total(t, v) ELSE q.next
  IN IF Width > 1 THEN 1 ELSE Smaller(TurnMax, settled - q.head)

\* How many ticks one turn takes from the front of q: the front one, and on a
\* lane that runs one tick at a time those behind it and those the cap holds
\* back, up to TURN and short of the last.
Length(q, t, v) ==
  LET settled == IF q.withheld THEN Total(t, v) ELSE q.next
      lastIn  == IF q.withheld THEN v ELSE q.last # None
  IN IF Width > 1 \/ q.head = q.last THEN 1
     ELSE Smaller(TurnMax, settled - q.head - (IF lastIn THEN 1 ELSE 0))

\* Queue q with its front at n.
StartingAt(n, q) ==
  [head |-> n, next |-> q.next, withheld |-> q.withheld, last |-> q.last]

\* The queue once a turn of n ticks is taken off q.  Where the turn outruns
\* what is queued the lane is cut again, a cap's worth each time the queue
\* empties; a turn short of TurnMax stopped because nothing more was settled
\* or the last tick came to the front, so the intake is cut to its end.
Taken(q, n, t, v) ==
  LET front == q.head + n
      cuts  == (front - q.next + Cap - 1) \div Cap
      next  == IF n < TurnMax THEN Total(t, v)
               ELSE Smaller(Total(t, v), q.next + cuts * Cap)
  IN IF Width = 1 /\ q.withheld /\ (n < TurnMax \/ front > q.next)
       THEN StartingAt(front, CutUpTo(q, next, t, v))
       ELSE StartingAt(front, q)
=============================================================================
