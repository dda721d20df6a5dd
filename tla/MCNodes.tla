------------------------------ MODULE MCNodes ------------------------------
(* Plans for Nodes: two members on two nodes; a second stage on the first   *)
(* of them; two stages on a node too slow for the coordinator's patience; a *)
(* feeder's writer and its reader on one node, with a timeout and without.  *)
EXTENDS Nodes

One(ids, feeders) == [ids |-> ids, feeders |-> feeders]

Pair == [nodes |-> 2, home |-> [a |-> 1, b |-> 2], stages |-> <<One(<<"a", "b">>, {})>>,
         limit |-> FALSE, stoppable |-> TRUE, mayDie |-> FALSE, late |-> FALSE]
Later == [nodes |-> 2, home |-> [a |-> 1, b |-> 2, c |-> 1],
          stages |-> <<One(<<"a", "b">>, {}), One(<<"c">>, {})>>,
          limit |-> FALSE, stoppable |-> FALSE, mayDie |-> TRUE, late |-> FALSE]
Late == [nodes |-> 1, home |-> [w |-> 1, r |-> 1, c |-> 1],
         stages |-> <<One(<<"w", "r">>, {<<"w", "r">>}), One(<<"c">>, {})>>,
         limit |-> FALSE, stoppable |-> FALSE, mayDie |-> FALSE, late |-> TRUE]
Fed == [nodes |-> 1, home |-> [w |-> 1, r |-> 1],
        stages |-> <<One(<<"w", "r">>, {<<"w", "r">>})>>,
        limit |-> FALSE, stoppable |-> FALSE, mayDie |-> FALSE, late |-> FALSE]
Timed == [nodes |-> 1, home |-> [w |-> 1, r |-> 1],
          stages |-> <<One(<<"w", "r">>, {<<"w", "r">>})>>,
          limit |-> TRUE, stoppable |-> FALSE, mayDie |-> FALSE, late |-> FALSE]

SplitPlans == {Pair, Later, Late, Fed, Timed}
=============================================================================
