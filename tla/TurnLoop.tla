------------------------------ MODULE TurnLoop ------------------------------
(***************************************************************************)
(* The loops of State::dispatch and State::cut, a step at a time, on a     *)
(* lane that runs one tick at a time under an input clock: the reference   *)
(* the closed forms of module LaneQueue are checked against.  A behaviour  *)
(* is one turn taken off a queue, or one cut as something arrives (n = 0). *)
(***************************************************************************)
EXTENDS TurnForms

CONSTANT MaxTick   \* bound: the most ticks settled

vars == <<settled, over, start, q, n, at>>

\* Every queue a turn may start on, its front at 0 and not the last tick;
\* and every queue an arrival may find, what it settles not yet looked at.
Init ==
  /\ settled \in 1 .. MaxTick
  /\ over \in BOOLEAN
  /\ start \in [head : {0}, next : 0 .. Smaller(Cap, Total(settled, over)),
                withheld : BOOLEAN, last : {None, settled}]
  /\ start.withheld => Total(settled, over) > start.next
  /\ start.last = IF over /\ start.next = settled + 1 THEN settled ELSE None
  /\ \/ /\ n = 1 /\ at = "take"
        /\ start.next > 0 /\ start.withheld = (Total(settled, over) > start.next)
        /\ q = [start EXCEPT !.head = 1]
     \/ /\ n = 0 /\ at = "cut"
        /\ start.last = None
        /\ q = start

\* while tasks.len() < TURN && the front is there and not the last.
Take ==
  /\ at = "take"
  /\ n < TurnMax /\ q.head < q.next /\ q.head # q.last
  /\ q' = [q EXCEPT !.head = @ + 1]
  /\ n' = n + 1
  /\ UNCHANGED <<settled, over, start, at>>

\* The inner loop is over: cut again if the queue ran dry with a tick held
\* back, else the turn is taken.
Leave ==
  /\ at = "take"
  /\ ~(n < TurnMax /\ q.head < q.next /\ q.head # q.last)
  /\ at' = IF n >= TurnMax \/ q.head < q.next \/ ~q.withheld THEN "done" ELSE "cut"
  /\ UNCHANGED <<settled, over, start, q, n>>

\* One round of the cut: the tick held back, or the next one settled.
CutOne ==
  /\ at = "cut"
  /\ q.last = None /\ q.next - q.head < Cap
  /\ q.withheld \/ q.next < Total(settled, over)
  /\ q' = [q EXCEPT !.next = @ + 1, !.withheld = FALSE,
                    !.last = IF over /\ q.next = settled THEN q.next ELSE @]
  /\ UNCHANGED <<settled, over, start, n, at>>

\* The cut stops at the cap, at the last tick or with nothing more settled,
\* and at the cap it holds the next tick back.
CutStops ==
  /\ at = "cut"
  /\ \/ q.last # None
     \/ q.next - q.head >= Cap
     \/ ~q.withheld /\ q.next = Total(settled, over)
  /\ q' = [q EXCEPT !.withheld = @ \/ (/\ q.last = None
                                       /\ q.next - q.head >= Cap
                                       /\ q.next < Total(settled, over))]
  /\ at' = IF n = 0 THEN "done" ELSE "take"
  /\ UNCHANGED <<settled, over, start, n>>

\* A cut turn stays as it is.
Stay == at = "done" /\ UNCHANGED vars

Next == Take \/ Leave \/ CutOne \/ CutStops \/ Stay

Spec == Init /\ [][Next]_vars /\ WF_vars(Next)
=============================================================================
