----------------------------- MODULE MCLanePair -----------------------------
(* One lane of each kind for TLC: it opens every instance before it begins, *)
(* as a node with state rows does, or each as it comes to need it.          *)
EXTENDS MCLane

VARIABLE opens   \* "first" or "lazily"

Lazily == INSTANCE Lane WITH Stateful <- FALSE

PairInit == \/ opens = "first"  /\ Init
            \/ opens = "lazily" /\ Lazily!Init
PairNext ==
  /\ \/ opens = "first"  /\ Next
     \/ opens = "lazily" /\ Lazily!Next
  /\ UNCHANGED opens
PairVars == <<vars, opens>>
PairFair ==
  \A w \in Worker : /\ WF_PairVars(opens = "first" /\ Work(w) /\ UNCHANGED opens)
                   /\ WF_PairVars(opens = "lazily" /\ Lazily!Work(w) /\ UNCHANGED opens)
PairSpec == PairInit /\ [][PairNext]_PairVars /\ PairFair
=============================================================================
