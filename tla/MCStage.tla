------------------------------ MODULE MCStage ------------------------------
(* Plans of one and two stages: a chain; two readers of one process, the    *)
(* readers listed first as the partition lists its sinks; a feeder whose    *)
(* writer waits for its port; a display that is all the run feeds.          *)
EXTENDS StageInv

One(stages, showOnly, stoppable) ==
  [stages |-> stages, showOnly |-> showOnly, stoppable |-> stoppable]
Group(ids, w, feeders, limit, piped, live) ==
  [ids |-> ids, wires |-> w, feeders |-> feeders, limit |-> limit, piped |-> piped,
   live |-> live]

ChainOf3 == Group(<<"mux", "read", "node">>,
                  {<<"read", "node", 1>>, <<"node", "mux", 1>>}, <<>>, FALSE, FALSE, FALSE)
Pair     == Group(<<"mux", "read">>, {<<"read", "mux", 1>>}, <<>>, TRUE, FALSE, FALSE)
Fan      == Group(<<"left", "right", "read">>,
                  {<<"read", "left", 1>>, <<"read", "right", 1>>}, <<>>, TRUE, TRUE, FALSE)
Fed      == Group(<<"read", "fill", "node">>, {<<"read", "node", 1>>},
                  << <<"fill", <<"node">> >> >>, FALSE, FALSE, FALSE)

Live     == Group(<<"read", "fill", "pour", "node">>, {<<"read", "node", 1>>},
                  << <<"fill", <<"node">> >>, <<"pour", <<"node">> >> >>,
                  TRUE, FALSE, TRUE)

MCPlans ==
  { One(<<ChainOf3>>, FALSE, FALSE), One(<<Pair, Pair>>, FALSE, TRUE),
    One(<<Fan>>, FALSE, FALSE), One(<<Fed>>, FALSE, TRUE), One(<<Live>>, FALSE, FALSE),
    One(<<Pair>>, TRUE, FALSE) }

=============================================================================
