----------------------------- MODULE MCNetwork -----------------------------
(***************************************************************************)
(* Small networks for TLC.                                                 *)
(*   join   an input encoded by a self-clocked lane, an output of both, and *)
(*          a lane that joins the two, with its own output                 *)
(*   enc    the encoder's stream into an unbuffered lane, an output each,  *)
(*          where a call, the input and an output may fail and a reader of *)
(*          the other may go away                                          *)
(*   sink   an input with an output through one lane, and a lane that only *)
(*          consumes it                                                    *)
(***************************************************************************)
EXTENDS NetworkInv, TLC

CONSTANTS
  w1, w2,          \* workers
  i,               \* an input
  a, b,            \* lanes
  o, p             \* outputs

MCWorker == {w1, w2}
MCLane == {a, b}
MCInput == {i}
One == {o}
Two == {o, p}

Join ==
  [reads      |-> a :> {i} @@ b :> {i, a} @@ o :> {i, a} @@ p :> {b},
   stream     |-> a :> i @@ b :> a,
   width      |-> a :> 1 @@ b :> 2,
   clock      |-> a :> "self" @@ b :> "input",
   unbuffered |-> {},
   cap        |-> 1,
   gives      |-> i :> 2,
   makes      |-> a :> 3 @@ b :> 3,
   mayFinish  |-> {b}, mayFail |-> {}, mayTear |-> {}, mayLeave |-> {}, mayBreak |-> {}]

Enc ==
  [reads      |-> a :> {i} @@ b :> {a} @@ o :> {a} @@ p :> {b},
   stream     |-> a :> i @@ b :> a,
   width      |-> a :> 1 @@ b :> 1,
   clock      |-> a :> "self" @@ b :> "input",
   unbuffered |-> {b},
   cap        |-> 2,
   gives      |-> i :> 3,
   makes      |-> a :> 3 @@ b :> 3,
   mayFinish  |-> {}, mayFail |-> {a}, mayTear |-> {i}, mayLeave |-> {p}, mayBreak |-> {o}]

Sink ==
  [reads      |-> a :> {i} @@ b :> {i} @@ o :> {a},
   stream     |-> a :> i @@ b :> i,
   width      |-> a :> 1 @@ b :> 1,
   clock      |-> a :> "input" @@ b :> "input",
   unbuffered |-> {},
   cap        |-> 2,
   gives      |-> i :> 2,
   makes      |-> a :> 3 @@ b :> 3,
   mayFinish  |-> {}, mayFail |-> {}, mayTear |-> {}, mayLeave |-> {}, mayBreak |-> {}]

JoinAndEnc == {Join, Enc}
OnlySink   == {Sink}

=============================================================================
