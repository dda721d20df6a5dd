------------------------------ MODULE NodesInv ------------------------------
(***************************************************************************)
(* The inductive invariant of a split run: what a message says is so when  *)
(* it is heard, a runner's orders lead it from stage to stage, and what    *)
(* the coordinator has of a stage is all there is of it.                   *)
(***************************************************************************)
EXTENDS Nodes

Codes    == {"none", "run", "zero", "fail", "killed"}
Someone  == Everyone \union {Nobody}
Reports  == [id : Everyone, code : Codes]
Endings  == [index : Nat \ {0}, members : SUBSET Reports]
Orders   == [type : {"peers", "stop", "exit"}] \union [type : {"stage"}, index : Nat \ {0}]
Messages ==
  [type : {"ready", "refused", "error"}] \union
  [type : {"started", "unheard"}, process : Everyone] \union
  [type : {"exited"}, process : Everyone, code : {"zero", "fail"}] \union
  [type : {"stage-end"}, index : Nat \ {0}, members : SUBSET Reports]
NodeStates == [conn : BOOLEAN, ready : BOOLEAN, refusal : BOOLEAN, lost : BOOLEAN,
              losing : BOOLEAN, ended : SUBSET Endings]
Results == [members : SUBSET [id : Everyone, code : Codes, lost : BOOLEAN],
            failed : Someone, timedOut : BOOLEAN, code : {0, 1}]

Opening == {"accept", "ready", "next"}
Closing == {"close", "reap", "done"}

CoordinatorTypes ==
  /\ plan \in Plans /\ at \in 1 .. Len(plan.stages) /\ turn \in Nodes
  /\ phase \in {"begin", "watch", "watched", "collect", "collected"} \union Opening
                \union Closing
  /\ struck \in [failed : Someone, timedOut : BOOLEAN, wedge : BOOLEAN,
                 interrupted : BOOLEAN]
  /\ reported \subseteq Reports /\ results \in Seq(Results)
  /\ raised \in {"no", "unreached", "unready", "refused", "error"}

HeardTypes ==
  /\ stage \in [open : BOOLEAN, code : [Everyone -> {"none", "zero", "fail"}],
                started : SUBSET Everyone, lost : SUBSET Everyone, abort : BOOLEAN,
                unheard : Someone, error : BOOLEAN]
  /\ node \in [Nodes -> NodeStates]
  /\ \A n \in Nodes : node[n].losing => node[n].lost
  /\ stop \in BOOLEAN

RunnerTypes ==
  /\ runner \in [Nodes -> {"start", "dialled", "serving", "gone", "dead"}]
  /\ thread \in [Nodes -> [do : {"none", "spawn", "feed", "wait", "broken"}, index : Nat,
                           stop : BOOLEAN, told : SUBSET Everyone]]
  /\ \A n \in Nodes : thread[n].do # "none" => thread[n].index # 0
  /\ proc \in [Everyone -> Codes]

QueueTypes == to \in [Nodes -> Seq(Orders)] /\ from \in [Nodes -> Seq(Messages)]

SplitTypes == CoordinatorTypes /\ HeardTypes /\ RunnerTypes /\ QueueTypes

\* Nodes are taken in turn in four phases, and from the first each time.
InTurn == phase \notin {"ready", "begin", "collect"} \union Closing => turn = 1

\* An order of the stage the run is in has not been sent to a node yet.
Unsent(n) == phase \in Opening \/ (phase = "begin" /\ turn <= n)

\* The stages a runner was ordered, the one it is in first, come in the run's order.
Forward ==
  \A n \in Nodes :
    /\ thread[n].index <= at /\ (Unsent(n) => thread[n].index < at)
    /\ \A k \in 1 .. Len(to[n]) : to[n][k].type = "stage" =>
         /\ thread[n].index < to[n][k].index /\ to[n][k].index <= at
         /\ Unsent(n) => to[n][k].index < at
         /\ \A j \in 1 .. k - 1 : to[n][j].type = "stage" => to[n][j].index < to[n][k].index

\* What runs is of the stage its runner is in.
OfItsStage ==
  \A m \in Everyone : Running(m) =>
    LET n == plan.home[m] IN thread[n].do # "none" /\ m \in Here(n, thread[n].index)

\* What a message says of a member is so and stays so.
True(message) ==
  /\ message.type = "started" => proc[message.process] # "none"
  /\ message.type = "exited"  => proc[message.process] = message.code

Truthful ==
  /\ \A n \in Nodes : \A k \in 1 .. Len(from[n]) : True(from[n][k])
  /\ \A m \in stage.started : proc[m] # "none"
  /\ \A m \in Everyone : stage.code[m] = "zero" => proc[m] = "zero"
  /\ \A m \in stage.lost : node[plan.home[m]].lost

\* A stage is over at a node: none of it starts there again.
Finished(n, i) ==
  /\ i <= thread[n].index /\ (thread[n].index = i => thread[n].do = "none")
  /\ \A k \in 1 .. Len(to[n]) : to[n][k].type = "stage" => i < to[n][k].index

\* A set of members is what was started of a stage at a node.
WholeOf(n, i, M) ==
  \A m \in Everyone : m \in M <=> m \in Here(n, i) /\ proc[m] # "none"

IdsIn(M) == {r.id : r \in M}
Final(n, i, M) == Finished(n, i) /\ WholeOf(n, i, IdsIn(M))

\* What a runner says of a stage's end is final, heard or not.
EndIsFinal ==
  \A n \in Nodes :
    /\ \A k \in 1 .. Len(from[n]) :
         from[n][k].type = "stage-end" => Final(n, from[n][k].index, from[n][k].members)
    /\ \A e \in node[n].ended : Final(n, e.index, e.members)

\* Of a stage at a node that is still heard, the ids in M are all that was started.
Complete(n, i, M) ==
  Here(n, i) # {} /\ ~node[n].lost /\ ~plan.late =>
    Finished(n, i) /\ \A m \in Here(n, i) : m \in M <=> proc[m] # "none"

Collecting ==
  /\ \A m \in IdsIn(reported) : proc[m] # "none"
  /\ phase = "collect"   => \A n \in 1 .. turn - 1 : Complete(n, at, IdsIn(reported))
  /\ phase = "collected" => \A n \in Nodes : Complete(n, at, IdsIn(reported))
  /\ \A i \in 1 .. Len(results) : \A n \in Nodes :
       Complete(n, i, IdsIn(results[i].members))

\* What feeders feed is not counted: their writers may be left unstarted or fail.
Ran(i) == \A m \in Ids(i) \ writers(i) : proc[m] = "zero"

\* A stage ends early for a reason that stays known.
Reasoned ==
  /\ stage.abort /\ phase \in {"begin", "watch"} =>
       stop \/ stage.error \/ stage.unheard # Nobody
  /\ phase \in {"begin", "watch"} => struck = NotStruck

\* A stage no one is named for ran to its end.
Verdict ==
  /\ phase = "watched" /\ struck.failed = Nobody =>
       stop \/ stage.error \/ stage.unheard # Nobody \/ struck.interrupted \/ Ran(at)
  /\ phase \in {"collect", "collected"} /\ struck.failed = Nobody /\ ~struck.timedOut =>
       stop \/ stage.error \/ struck.interrupted \/ Ran(at)

\* The results there are, and why there are no more.
Progress ==
  /\ phase \notin Closing => /\ raised = "no" /\ Len(results) = at - 1
                             /\ \A i \in 1 .. Len(results) : results[i].code = 0
  /\ phase \in Closing /\ raised = "no" /\ ~stop =>
       /\ Len(results) = at
       /\ struck.interrupted \/ results[at].code # 0 \/ at = Len(plan.stages)
  /\ Len(results) <= at
  /\ \A i \in 1 .. Len(results) - 1 : results[i].code = 0
  /\ \A i \in 1 .. Len(results) : results[i].code = 0 /\ ~results[i].timedOut =>
       Ran(i) \/ stop \/ (struck.interrupted /\ phase \in Closing)

SplitInvariant ==
  SplitTypes /\ InTurn /\ Forward /\ OfItsStage /\ Truthful /\ EndIsFinal /\ Collecting
  /\ Reasoned /\ Verdict /\ Progress
=============================================================================
