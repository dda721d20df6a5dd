----------------------------- MODULE SerialLane -----------------------------
(***************************************************************************)
(* What a lane promises whatever reads it                                  *)
(* (src/sidecar/ffrwd-wasm/src/lanes.rs, the module's header): the ticks   *)
(* its intake settles run one after another from 0, each leaves once, and  *)
(* the last call leaves once after them and ends every port, when the      *)
(* inputs are over or as soon as the node has said it is finished.  No     *)
(* workers, no instances, no queue.                                        *)
(***************************************************************************)
EXTENDS Integers, Sequences

CONSTANT Last   \* the last call, in the log

VARIABLES
  arrived,   \* how many ticks the intake has settled
  over,      \* every input has ended
  log,       \* what has left, in order: ticks, then Last
  claimed,   \* the node said it was finished
  failed     \* a call failed: nothing more is promised

vars == <<arrived, over, log, claimed, failed>>

Closed == Len(log) > 0 /\ log[Len(log)] = Last

\* The next n ticks in order.
Run(n) == [k \in 1 .. n |-> Len(log) + k - 1]

\* A generator's ticks are settled before it runs, another lane's as they
\* arrive.
Init ==
  /\ arrived \in Nat /\ over = FALSE
  /\ log = <<>>
  /\ claimed = FALSE /\ failed = FALSE

\* Something arrives: it settles ticks, or is the end of the inputs, or both.
Settle ==
  /\ ~over
  /\ arrived' \in Nat /\ arrived' >= arrived
  /\ over' \in BOOLEAN
  /\ UNCHANGED <<log, claimed, failed>>

\* Settled ticks leave, up to one the node may say it is finished on.
Leave(n) ==
  /\ ~claimed /\ ~Closed
  /\ Len(log) + n <= arrived
  /\ log' = log \o Run(n)
  /\ claimed' \in BOOLEAN
  /\ UNCHANGED <<arrived, over, failed>>

\* The last call leaves, with any settled ticks still before it.
Close(n) ==
  /\ ~Closed
  /\ IF claimed THEN n = 0 ELSE over /\ Len(log) + n = arrived
  /\ log' = Append(log \o Run(n), Last)
  /\ UNCHANGED <<arrived, over, claimed, failed>>

Fail == failed' = TRUE /\ UNCHANGED <<arrived, over, log, claimed>>

Next ==
  \/ Settle \/ Fail
  \/ \E n \in 1 .. arrived : Leave(n)
  \/ \E n \in 0 .. arrived : Close(n)

\* The last call does leave once it is due.
Closes == (over \/ claimed) ~> (Closed \/ failed)

Safe == Init /\ [][Next]_vars
Spec == Safe /\ Closes
=============================================================================
