---------------------------- MODULE MCAlgorithms ----------------------------
(***************************************************************************)
(* The algorithms that are functions of what they are given, each over all *)
(* the inputs of a size: the loops of a lane's turn (TurnLoop), the order  *)
(* of a plan's pipes (Startup), the nodes of its processes (Placement).    *)
(***************************************************************************)
EXTENDS TurnForms, Sequences, FiniteSets

CONSTANTS MaxTick,        \* of TurnLoop
          Procs, Edges    \* of a plan to start

VARIABLES which,                   \* the algorithm
          plan, given, stage,      \* Startup's
          laid, strategy, found    \* Placement's

Turn == INSTANCE TurnLoop
Run  == INSTANCE Startup WITH Plans <- {}

-----------------------------------------------------------------------------
(* Every plan of up to Procs processes and Edges pipes, an ffmpeg first: the *)
(* processes are numbered so that frames go up, and the pipes come in every  *)
(* order.  Process 3 may be a node network; a plan of fewer pipes than Edges *)
(* may hold a rows document, a sidecar's that an ffmpeg reads.               *)

Pairs == {e \in (1 .. Procs) \X (1 .. Procs) : e[1] < e[2]}
Kinds == {k \in [1 .. Procs -> {"ffmpeg", "sidecar", "network"}] :
            k[1] = "ffmpeg" /\ \A i \in 1 .. Procs : k[i] = "network" => i = 3}
Pipes(s, r) == [i \in 1 .. Len(s) |->
                  [key |-> i, source |-> s[i][1], target |-> s[i][2], rows |-> i = r]]

Partitioned(p) ==
  \E m \in 1 .. Edges, k \in Kinds : \E s \in [1 .. m -> Pairs] : \E r \in 0 .. m :
    /\ m = Edges => r = 0
    /\ r # 0 => k[s[r][1]] # "ffmpeg" /\ k[s[r][2]] = "ffmpeg"
    /\ p = [kinds |-> k, edges |-> Pipes(s, r)]

-----------------------------------------------------------------------------
(* Plans of four processes, ffmpegs first as a plan lists them, with every   *)
(* set of pipes that follows one of the ranks: the stream goes up them.      *)

Listed == {<<"ffmpeg", "module", "model", "module">>, <<"ffmpeg", "ffmpeg", "model", "model">>}
Ranks  == {<<1, 2, 3, 4>>, <<2, 1, 4, 3>>, <<4, 1, 3, 2>>}
Arcs   == <<<<1, 2>>, <<1, 3>>, <<1, 4>>, <<2, 3>>, <<2, 4>>, <<3, 4>>>>
Along(rank, S, back) ==
  LET way(e) == IF rank[e[1]] < rank[e[2]] THEN e ELSE <<e[2], e[1]>>
      all    == SelectSeq(Arcs, LAMBDA e : e \in S)
  IN  [i \in 1 .. Len(all) |-> way(all[IF back THEN Len(all) + 1 - i ELSE i])]

Place == INSTANCE Placement WITH Laid <- {}, Strategies <- {}
Strategies == {"one", "per-module", "by-hardware", "per-process"} \union Place!Searches

\* Nodes that hold half of the plan or all of it, and one more tie where they
\* hold half: none, a feeder connection, or a file.
LaidOut(p) ==
  \E k \in Listed, rank \in Ranks, back \in BOOLEAN :
  \E S \in SUBSET {Arcs[i] : i \in 1 .. Len(Arcs)} :
    LET arcs == Along(rank, S, back)
        half == [kinds |-> k, arcs |-> arcs, feeders |-> {}, files |-> {},
                 cores |-> 2, gpu_jobs |-> 1]
        most == [half EXCEPT !.cores = 3, !.gpu_jobs = 2]
        all  == [half EXCEPT !.cores = 4, !.gpu_jobs = 2] IN
    \/ p = half
    \/ p = all
    \/ ~back /\ \E i \in 1 .. Len(arcs) : p = [half EXCEPT !.feeders = {arcs[i]}]
    \/ ~back /\ \E i, j \in 1 .. 4 : i < j /\ p = [most EXCEPT !.files = {<<i, j>>}]

-----------------------------------------------------------------------------

NoTurn == /\ settled = 0 /\ over = FALSE /\ start = 0
          /\ q = 0 /\ n = 0 /\ at = "none"
NoRun  == plan = 0 /\ given = 0 /\ stage = "none"
NoPut  == laid = 0 /\ strategy = "none" /\ found = [outcome |-> "none"]

Init ==
  \/ which = "turn" /\ Turn!Init /\ NoRun /\ NoPut
  \/ /\ which = "start" /\ NoTurn /\ NoPut
     /\ Partitioned(given) /\ plan = given /\ stage = "partitioned"
  \/ /\ which = "place" /\ NoTurn /\ NoRun
     /\ LaidOut(laid) /\ strategy \in Strategies /\ found = Place!Pending

Next ==
  /\ UNCHANGED which
  /\ \/ which = "turn" /\ Turn!Next /\ UNCHANGED <<plan, given, stage, laid, strategy, found>>
     \/ which = "start" /\ Run!Next
        /\ UNCHANGED <<settled, over, start, q, n, at, laid, strategy, found>>
     \/ which = "place" /\ Place!Next
        /\ UNCHANGED <<settled, over, start, q, n, at, plan, given, stage>>

Spec == Init /\ [][Next]_<<which, settled, over, start, q, n, at,
                          plan, given, stage, laid, strategy, found>>

\* The order the walk found starts.
WalkStarts == which = "start" => Run!WalkStarts
\* What check refuses no order would start.
RefusedForCause == which = "start" => Run!RefusedForCause

\* Every strategy's placement is one check_placement passes.
EveryStrategyPasses == which = "place" => Place!EveryStrategyPasses
\* A searched placement keeps its caps and costs no more than the greedy one.
SearchKeepsItsCaps  == which = "place" => Place!SearchKeepsItsCaps
=============================================================================
