----------------------------- MODULE TurnForms -----------------------------
(***************************************************************************)
(* What the loops of State::dispatch and State::cut must have come to once *)
(* they are done, said by the closed forms of module LaneQueue.            *)
(***************************************************************************)
EXTENDS LaneQueue

VARIABLES
  settled,   \* how many ticks the intake has settled
  over,      \* and whether its inputs have ended
  start,     \* the queue the turn, or the arrival's cut, began from
  q,         \* the queue as the loops work on it
  n,         \* how many ticks the turn has taken
  at         \* "take", "cut" or "done"

\* A turn takes what Length says and leaves the queue Taken says, and a cut
\* leaves the queue Cut says, for every queue, cap and turn: the closed forms
\* module Lane dispatches by compute what the loops of lanes.rs compute.
LoopsAreTheForms ==
  at = "done" =>
    IF n = 0 THEN q = Cut(start, settled, over, TRUE)
    ELSE n = Length(start, settled, over) /\ q = Taken(start, n, settled, over)
=============================================================================
