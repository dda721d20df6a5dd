------------------------------- MODULE Nodes -------------------------------
(***************************************************************************)
(* A plan on several nodes (nodes.py): one runner per node, which starts   *)
(* and stops its own members, and the coordinator, which hears what they   *)
(* report and judges the stage as if it ran on one machine.                *)
(*                                                                         *)
(* One TCP connection joins each runner to the coordinator: two queues, in *)
(* order, which a runner's end closes behind what it sent.  A runner is a  *)
(* serving thread, which reads the orders, and a thread per stage.  The    *)
(* coordinator has the thread that runs the stages and one that hears each *)
(* node.                                                                   *)
(*                                                                         *)
(* What the watch makes of the pipes between members is Stage's: here no   *)
(* member reads another, and a failure ends the stage at any poll after it *)
(* was heard.                                                              *)
(***************************************************************************)
EXTENDS Naturals, Sequences, FiniteSets

CONSTANTS
  Plans,      \* each [nodes, home, stages, limit, stoppable, mayDie, late]:
              \* the number of nodes, the node of each member, the stages
              \* (each [ids, feeders], feeders <<writer, reader>> pairs),
              \* whether a timeout is set, what may come from outside, and
              \* whether _STARTUP and _STAGE_END_WAIT may pass
  Nobody      \* None, for a member

\* A stage is of members the plan places on its nodes, no two stages share one, and
\* its feeders are between its own.
ASplit(p) ==
  /\ p.nodes \in Nat \ {0} /\ Nobody \notin DOMAIN p.home
  /\ \A m \in DOMAIN p.home : p.home[m] \in 1 .. p.nodes
  /\ Len(p.stages) \in Nat \ {0}
  /\ \A i \in 1 .. Len(p.stages) :
       LET s == p.stages[i]  ids == {s.ids[k] : k \in 1 .. Len(s.ids)} IN
         /\ Len(s.ids) \in Nat /\ ids \subseteq DOMAIN p.home
         /\ \A f \in s.feeders : f[1] \in ids /\ f[2] \in ids
         /\ \A j \in 1 .. i - 1 : \A k \in 1 .. Len(p.stages[j].ids) :
              p.stages[j].ids[k] \notin ids

ASSUME SplitAssumption == \A p \in Plans : ASplit(p)

VARIABLES
  plan, at,     \* the plan and the stage it is in
  phase, turn,  \* where the coordinator is, and at which node
  stage,        \* the coordinator's _Stage
  node,         \* the coordinator's _Node of each node
  struck,       \* [failed, timedOut, wedge, interrupted]
  reported,     \* what _collect has of the stage
  results,      \* the stages' reports, in order
  raised,       \* the error open or run_stage raised
  runner,       \* where each runner's process is
  thread,       \* the stage thread of each runner
  proc,         \* what became of each member
  to, from,     \* the connections, either way
  stop          \* the stop event

vars == <<plan, at, phase, turn, stage, node, struck, reported, results, raised,
          runner, thread, proc, to, from, stop>>
coordinator == <<plan, at, phase, turn, struck, reported, results, raised>>
runners     == <<runner, thread, proc>>

Nodes     == 1 .. plan.nodes
Ids(i)    == {plan.stages[i].ids[k] : k \in 1 .. Len(plan.stages[i].ids)}
Everyone  == DOMAIN plan.home
Here(n, i)  == {m \in Ids(i) : plan.home[m] = n}
writers(i)  == {f[1] : f \in plan.stages[i].feeders}
readers(w, i) == {f[2] : f \in {g \in plan.stages[i].feeders : g[1] = w}}
involved(n) == Here(n, at) # {}

First(s, S) ==
  IF \A k \in 1 .. Len(s) : s[k] \notin S THEN Nobody
  ELSE s[CHOOSE k \in 1 .. Len(s) : s[k] \in S /\ \A j \in 1 .. k - 1 : s[j] \notin S]

NewStage ==
  [open |-> FALSE, code |-> [m \in DOMAIN plan.home |-> "none"], started |-> {},
   lost |-> {}, abort |-> FALSE, unheard |-> Nobody, error |-> FALSE]
NewNode   == [conn |-> FALSE, ready |-> FALSE, refusal |-> FALSE, lost |-> FALSE,
              losing |-> FALSE, ended |-> {}]
NewThread == [do |-> "none", index |-> 0, stop |-> FALSE, told |-> {}]
NotStruck == [failed |-> Nobody, timedOut |-> FALSE, wedge |-> FALSE,
              interrupted |-> FALSE]

Init ==
  /\ plan \in Plans /\ at = 1 /\ phase = "accept" /\ turn = 1
  /\ stage = NewStage /\ node = [n \in Nodes |-> NewNode]
  /\ struck = NotStruck /\ reported = {} /\ results = <<>> /\ raised = "no"
  /\ runner = [n \in Nodes |-> "start"] /\ thread = [n \in Nodes |-> NewThread]
  /\ proc = [m \in Everyone |-> "none"]
  /\ to = [n \in Nodes |-> <<>>] /\ from = [n \in Nodes |-> <<>>]
  /\ stop = FALSE

Running(m) == proc[m] = "run"
Serving(n) == runner[n] = "serving"
Over(n)    == runner[n] \in {"gone", "dead"}

\* _send and Channel.send: nothing crosses to a runner that is lost or unmet.
Reach(n)   == node[n].conn /\ ~node[n].lost
Send(n, message) == IF Reach(n) THEN [to EXCEPT ![n] = Append(@, message)] ELSE to
Say(n, message)  == from' = [from EXCEPT ![n] = Append(@, message)]

-----------------------------------------------------------------------------
(* The world: members end, a runner dies, the run is stopped.              *)

Exit(m) ==
  /\ Running(m)
  /\ \E how \in {"zero", "fail"} : proc' = [proc EXCEPT ![m] = how]
  /\ UNCHANGED <<coordinator, stage, node, runner, thread, to, from, stop>>

\* Its members are left as they are: only Windows ties them to it.
Die(n) ==
  /\ plan.mayDie /\ ~Over(n) /\ \A k \in Nodes : runner[k] # "dead"
  /\ runner' = [runner EXCEPT ![n] = "dead"]
  /\ UNCHANGED <<coordinator, stage, node, thread, proc, to, from, stop>>

SetStop ==
  /\ plan.stoppable /\ ~stop /\ phase # "done"
  /\ stop' = TRUE
  /\ UNCHANGED <<coordinator, stage, node, runners, to, from>>

\* _chain hands the stop to the stage.
Chain ==
  /\ stop /\ phase \in {"begin", "watch"} /\ ~stage.abort
  /\ stage' = [stage EXCEPT !.abort = TRUE]
  /\ UNCHANGED <<coordinator, node, runners, to, from, stop>>

-----------------------------------------------------------------------------
(* The runner's serving thread.                                            *)

\* The job is here: refused, for a file its members load is missing, or ready.
Answer(n) ==
  /\ runner[n] = "dialled"
  /\ \/ Say(n, [type |-> "ready"]) /\ runner' = [runner EXCEPT ![n] = "serving"]
     \/ Say(n, [type |-> "refused"]) /\ runner' = [runner EXCEPT ![n] = "gone"]
  /\ UNCHANGED <<coordinator, stage, node, thread, proc, to, stop>>

\* _end_stage: the stage is told to stop, and the orders wait until it has.
Halt(n) ==
  /\ Serving(n) /\ to[n] # <<>> /\ Head(to[n]).type \in {"stage", "stop", "exit"}
  /\ thread[n].do # "none" /\ ~thread[n].stop
  /\ thread' = [thread EXCEPT ![n].stop = TRUE]
  /\ UNCHANGED <<coordinator, stage, node, runner, proc, to, from, stop>>

\* Serve, the stage told to stop and not waited for.
ServeUnjoined(n) ==
  /\ Serving(n) /\ to[n] # <<>>
  /\ LET order == Head(to[n]) IN
       /\ order.type \in {"stage", "stop", "exit"} => thread[n].do = "none" \/ thread[n].stop
       /\ thread' = IF order.type = "stage"
                    THEN [thread EXCEPT ![n] = [NewThread EXCEPT !.do = "spawn",
                                                                 !.index = order.index]]
                    ELSE thread
       /\ runner' = IF order.type = "exit" THEN [runner EXCEPT ![n] = "gone"] ELSE runner
  /\ to' = [to EXCEPT ![n] = Tail(@)]
  /\ UNCHANGED <<coordinator, stage, node, proc, from, stop>>

Serve(n) ==
  /\ Serving(n) /\ to[n] # <<>>
  /\ LET order == Head(to[n]) IN
       /\ order.type \in {"stage", "stop", "exit"} => thread[n].do = "none"
       /\ thread' = IF order.type = "stage"
                    THEN [thread EXCEPT ![n] = [NewThread EXCEPT !.do = "spawn",
                                                                 !.index = order.index]]
                    ELSE thread
       /\ runner' = IF order.type = "exit" THEN [runner EXCEPT ![n] = "gone"] ELSE runner
  /\ to' = [to EXCEPT ![n] = Tail(@)]
  /\ UNCHANGED <<coordinator, stage, node, proc, from, stop>>

-----------------------------------------------------------------------------
(* The runner's stage thread, _run_stage, and the thread that reports.     *)

Live(n) == runner[n] \in {"serving"} /\ thread[n].do # "none"

\* The members here but the feeders' writers, in stage order, then the writers.
Unspawned(n) == {m \in Here(n, thread[n].index) \ writers(thread[n].index) : proc[m] = "none"}

Spawn(n) ==
  /\ Live(n) /\ thread[n].do = "spawn"
  /\ LET m == First(plan.stages[thread[n].index].ids, Unspawned(n)) IN
       IF m = Nobody
       THEN /\ thread' = [thread EXCEPT ![n].do = "feed"]
            /\ UNCHANGED <<proc, from>>
       ELSE \/ /\ proc' = [proc EXCEPT ![m] = "run"]
               /\ Say(n, [type |-> "started", process |-> m])
               /\ UNCHANGED thread
            \/ /\ Say(n, [type |-> "error"])
               /\ thread' = [thread EXCEPT ![n].do = "broken"]
               /\ UNCHANGED proc
  /\ UNCHANGED <<coordinator, stage, node, runner, to, stop>>

\* feed_writers: each writer here once a reader listens, unless there is no point.
Feed(n) ==
  /\ Live(n) /\ thread[n].do = "feed"
  /\ LET i == thread[n].index
         w == First(plan.stages[i].ids,
                    {m \in Here(n, i) \cap writers(i) : proc[m] = "none"} \ thread[n].told)
         noPoint == \/ thread[n].stop \/ \A r \in readers(w, i) : ~Running(r)
                    \/ \E m \in Here(n, i) : proc[m] = "fail" IN
       IF w = Nobody
       THEN thread' = [thread EXCEPT ![n].do = "wait"] /\ UNCHANGED <<proc, from>>
       ELSE \/ /\ noPoint
               /\ thread' = [thread EXCEPT ![n].told = @ \union {w}]
               /\ UNCHANGED <<proc, from>>
            \/ /\ ~noPoint
               /\ proc' = [proc EXCEPT ![w] = "run"]
               /\ Say(n, [type |-> "started", process |-> w])
               /\ UNCHANGED thread
            \/ \* the writer cannot be spawned
               /\ ~noPoint /\ Say(n, [type |-> "error"])
               /\ thread' = [thread EXCEPT ![n].do = "wait"]
               /\ UNCHANGED proc
            \/ \* FEEDER_WAIT passed
               /\ Say(n, [type |-> "unheard",
                          process |-> CHOOSE r \in readers(w, i) : TRUE])
               /\ thread' = [thread EXCEPT ![n].do = "wait"]
               /\ UNCHANGED proc
  /\ UNCHANGED <<coordinator, stage, node, runner, to, stop>>

\* _report: an exit is said once; the pass it is in when the stage is told to stop
\* goes on to its end.
Report(n, m) ==
  /\ Live(n) /\ thread[n].do \in {"feed", "wait"}
  /\ plan.home[m] = n /\ m \in Ids(thread[n].index) \ thread[n].told
  /\ proc[m] \in {"zero", "fail"}
  /\ thread' = [thread EXCEPT ![n].told = @ \union {m}]
  /\ Say(n, [type |-> "exited", process |-> m, code |-> proc[m]])
  /\ UNCHANGED <<coordinator, stage, node, runner, proc, to, stop>>

\* run.end(), and stage-end with what each member spawned here came to.
End(n) ==
  /\ Live(n) /\ thread[n].do \in {"wait", "broken"} /\ thread[n].stop
  /\ LET mine == {m \in Here(n, thread[n].index) : proc[m] # "none"}
         ended == [m \in Everyone |-> IF m \in mine /\ Running(m) THEN "killed" ELSE proc[m]] IN
       /\ proc' = ended
       /\ Say(n, [type |-> "stage-end", index |-> thread[n].index,
                  members |-> {[id |-> m, code |-> ended[m]] : m \in mine}])
  /\ thread' = [thread EXCEPT ![n].do = "none"]
  /\ UNCHANGED <<coordinator, stage, node, runner, to, stop>>

-----------------------------------------------------------------------------
(* What the coordinator hears.                                             *)

\* A message about a stage that is over, or of a member of another, is dropped.
Heard(n, message) ==
  CASE message.type = "ready" ->
         node' = [node EXCEPT ![n].ready = TRUE] /\ UNCHANGED stage
    [] message.type = "refused" ->
         /\ node' = [node EXCEPT ![n].ready = TRUE, ![n].refusal = TRUE]
         /\ UNCHANGED stage
    [] message.type = "stage-end" ->
         /\ node' = [node EXCEPT ![n].ended =
                       {e \in @ : e.index # message.index} \union
                       {[index |-> message.index, members |-> message.members]}]
         /\ UNCHANGED stage
    [] OTHER ->
         /\ UNCHANGED node
         /\ stage' =
              IF ~stage.open THEN stage
              ELSE IF message.type = "error" THEN [stage EXCEPT !.error = TRUE, !.abort = TRUE]
              ELSE IF message.type = "unheard"
              THEN [stage EXCEPT !.unheard = message.process, !.abort = TRUE]
              ELSE IF message.process \notin Ids(at) THEN stage
              ELSE IF message.type = "started"
              THEN [stage EXCEPT !.started = @ \union {message.process}]
              ELSE [stage EXCEPT !.code[message.process] =
                                   IF @ = "none" THEN message.code ELSE @]

Hear(n) ==
  /\ node[n].conn /\ ~node[n].lost /\ from[n] # <<>>
  /\ from' = [from EXCEPT ![n] = Tail(@)]
  /\ Heard(n, Head(from[n]))
  /\ UNCHANGED <<coordinator, runners, to, stop>>

\* _lose, first half: the connection is closed, and the node is said to be lost.
Lose(n) ==
  /\ node[n].conn /\ ~node[n].lost /\ Over(n) /\ from[n] = <<>>
  /\ node' = [node EXCEPT ![n].lost = TRUE, ![n].ready = TRUE, ![n].losing = TRUE]
  /\ UNCHANGED <<coordinator, stage, runners, to, from, stop>>

Unsettled(n) == {m \in Here(n, at) : stage.code[m] = "none"}
Lost(n) ==
  [stage EXCEPT !.lost = @ \union Unsettled(n),
                !.code = [m \in Everyone |-> IF m \in Unsettled(n) THEN "fail"
                                             ELSE stage.code[m]]]

\* Second half: of the stage that is on, if one is, its members are lost with it.
LoseMembers(n) ==
  /\ node[n].losing
  /\ node' = [node EXCEPT ![n].losing = FALSE]
  /\ stage' = IF stage.open THEN Lost(n) ELSE stage
  /\ UNCHANGED <<coordinator, runners, to, from, stop>>

-----------------------------------------------------------------------------
(* Opening.                                                                *)

Accept(n) ==
  /\ phase = "accept" /\ runner[n] = "start" /\ ~node[n].conn
  /\ node' = [node EXCEPT ![n].conn = TRUE]
  /\ runner' = [runner EXCEPT ![n] = "dialled"]
  /\ phase' = IF \A k \in Nodes \ {n} : node[k].conn THEN "ready" ELSE phase
  /\ UNCHANGED <<plan, at, turn, struck, reported, results, raised, stage, thread,
                 proc, to, from, stop>>

Raise(why) == phase' = "close" /\ raised' = why

\* A runner ended before it dialled, or _STARTUP passed.
NeverReached ==
  /\ phase = "accept" /\ \E n \in Nodes : ~node[n].conn /\ (Over(n) \/ plan.late)
  /\ Raise("unreached")
  /\ UNCHANGED <<plan, at, turn, struck, reported, results, stage, node, runners, to,
                 from, stop>>

\* The nodes are waited for in their order, until _STARTUP passes; once all are
\* ready each is told the addresses.
Ready ==
  /\ phase = "ready" /\ (node[turn].ready \/ plan.late)
  /\ IF node[turn].refusal THEN Raise("refused") /\ UNCHANGED <<turn, to>>
     ELSE IF node[turn].lost \/ ~node[turn].ready
     THEN Raise("unready") /\ UNCHANGED <<turn, to>>
     ELSE IF turn < plan.nodes
     THEN turn' = turn + 1 /\ UNCHANGED <<phase, raised, to>>
     ELSE /\ turn' = 1 /\ phase' = "next" /\ UNCHANGED raised
          /\ to' = [n \in Nodes |-> IF Reach(n) THEN Append(to[n], [type |-> "peers"])
                                    ELSE to[n]]
  /\ UNCHANGED <<plan, at, struck, reported, results, stage, node, runners, from, stop>>

-----------------------------------------------------------------------------
(* A stage.                                                                *)

\* execute_split: a run that was stopped starts no other stage.
BeginStage ==
  /\ phase = "next"
  /\ IF stop THEN phase' = "close" /\ UNCHANGED <<stage, struck, reported>>
     ELSE /\ phase' = "begin" /\ struck' = NotStruck /\ reported' = {}
          /\ stage' = [NewStage EXCEPT !.open = TRUE]
  /\ UNCHANGED <<plan, at, turn, results, raised, node, runners, to, from, stop>>

NextTurn(then) ==
  IF turn < plan.nodes THEN turn' = turn + 1 /\ UNCHANGED phase
  ELSE turn' = 1 /\ phase' = then

\* SendStage, a node that is lost already left to the thread that hears it.
SendStageOnly ==
  /\ phase = "begin"
  /\ to' = IF involved(turn) THEN Send(turn, [type |-> "stage", index |-> at]) ELSE to
  /\ NextTurn("watch")
  /\ UNCHANGED <<plan, at, struck, reported, results, raised, stage, node, runners,
                 from, stop>>

\* A node lost since before is lost again, now that the stage is there to see it.
SendStage ==
  /\ phase = "begin"
  /\ IF involved(turn)
     THEN /\ stage' = IF node[turn].lost THEN Lost(turn) ELSE stage
          /\ to' = Send(turn, [type |-> "stage", index |-> at])
     ELSE UNCHANGED <<stage, to>>
  /\ NextTurn("watch")
  /\ UNCHANGED <<plan, at, struck, reported, results, raised, node, runners, from, stop>>

Coded == {m \in Ids(at) : stage.code[m] # "none"}
\* A failure ends the stage unless it is a feeder's writer's whose reader has gone.
Failing == {m \in Coded : /\ stage.code[m] = "fail"
                          /\ m \in writers(at) => readers(m, at) \cap Coded = {}}

\* AllEnded, those that were heard to start alone looked at.
AllStartedEnded == stage.started # {} /\ stage.started \ writers(at) \subseteq Coded
AllEnded == Ids(at) \ writers(at) \subseteq Coded

\* _watch: everyone ended, one that fails, or the stage was aborted.
Watch ==
  /\ phase = "watch"
  /\ \/ stage.abort /\ UNCHANGED struck
     \/ /\ ~stage.abort /\ (AllEnded \/ Failing # {})
        /\ IF Failing = {} THEN UNCHANGED struck
           ELSE \E m \in Failing : struck' = [struck EXCEPT !.failed = m]
  /\ phase' = "watched"
  /\ UNCHANGED <<plan, at, turn, reported, results, raised, stage, node, runners, to,
                 from, stop>>

\* The deadline: the first member of the stage not heard to have ended is named.
Deadline ==
  /\ phase = "watch" /\ plan.limit /\ ~stage.abort /\ Failing = {} /\ ~AllEnded
  /\ struck' = [struck EXCEPT !.timedOut = TRUE,
                              !.failed = First(plan.stages[at].ids, Ids(at) \ Coded)]
  /\ phase' = "watched"
  /\ UNCHANGED <<plan, at, turn, reported, results, raised, stage, node, runners, to,
                 from, stop>>

Interrupt ==
  /\ phase = "watch" /\ plan.stoppable
  /\ struck' = [struck EXCEPT !.interrupted = TRUE] /\ phase' = "watched"
  /\ UNCHANGED <<plan, at, turn, reported, results, raised, stage, node, runners, to,
                 from, stop>>

Wedged(m) == [struck EXCEPT !.failed = m, !.timedOut = TRUE, !.wedge = TRUE]

\* What the feeders make of it, and everyone is told to stop.
Watched ==
  /\ phase = "watched" /\ phase' = "collect"
  /\ stage' = [stage EXCEPT !.abort = TRUE]
  /\ LET missing == First(plan.stages[at].ids, writers(at) \ stage.started) IN
       struck' = IF struck.interrupted THEN struck
                 ELSE IF stage.unheard # Nobody THEN Wedged(stage.unheard)
                 ELSE IF struck.failed = Nobody /\ ~stop /\ missing # Nobody
                 THEN Wedged(missing) ELSE struck
  /\ to' = [n \in Nodes |-> IF involved(n) /\ Reach(n)
                            THEN Append(to[n], [type |-> "stop"]) ELSE to[n]]
  /\ UNCHANGED <<plan, at, turn, reported, results, raised, node, runners, from, stop>>

Told(n) == \E e \in node[n].ended : e.index = at

\* CollectNode, one wait for the first of the nodes alone.
CollectFirst ==
  /\ phase = "collect"
  /\ involved(turn) /\ ~node[turn].lost /\ ~plan.late => Told(turn) \/ turn > 1
  /\ reported' = reported \union UNION {e.members : e \in {f \in node[turn].ended : f.index = at}}
  /\ node' = [node EXCEPT ![turn].ended = {e \in @ : e.index # at}]
  /\ NextTurn("collected")
  /\ UNCHANGED <<plan, at, struck, results, raised, stage, runners, to, from, stop>>

\* _collect: each node in its order, until it says how the stage ended there, is
\* lost, or _STAGE_END_WAIT passes.
CollectNode ==
  /\ phase = "collect"
  /\ involved(turn) /\ ~node[turn].lost /\ ~plan.late => Told(turn)
  /\ reported' = reported \union UNION {e.members : e \in {f \in node[turn].ended : f.index = at}}
  /\ node' = [node EXCEPT ![turn].ended = {e \in @ : e.index # at}]
  /\ NextTurn("collected")
  /\ UNCHANGED <<plan, at, struck, results, raised, stage, runners, to, from, stop>>

Reporters == {r.id : r \in reported}
LostHere  == {m \in Ids(at) : m \in stage.lost \/ (m \notin Reporters /\ m \in stage.started)}
Collected ==
  {[id |-> m, code |-> "fail", lost |-> TRUE] : m \in LostHere} \union
  {[id |-> r.id, code |-> r.code, lost |-> FALSE] :
     r \in {s \in reported : s.id \in Ids(at) \ LostHere}}

\* stage_result: a stage timed out on a member that no result is of has no failure,
\* and a stage something ended has one.
stage_result ==
  LET named == struck.failed \in {r.id : r \in Collected} IN
  [members |-> Collected, failed |-> struck.failed, timedOut |-> struck.timedOut,
   code |-> IF struck.timedOut THEN (IF ~named /\ ~struck.wedge THEN 0 ELSE 1)
            ELSE IF struck.failed # Nobody THEN 1 ELSE 0]

EndStage ==
  /\ phase = "collected"
  /\ stage' = [stage EXCEPT !.open = FALSE]
  /\ IF stage.error /\ ~struck.interrupted
     THEN Raise("error") /\ UNCHANGED <<at, results>>
     ELSE /\ results' = Append(results, stage_result) /\ UNCHANGED raised
          /\ IF struck.interrupted \/ stage_result.code # 0 \/ at = Len(plan.stages)
             THEN phase' = "close" /\ UNCHANGED at
             ELSE phase' = "next" /\ at' = at + 1
  /\ UNCHANGED <<plan, turn, struck, reported, node, runners, to, from, stop>>

-----------------------------------------------------------------------------
(* Closing.                                                                *)

Close ==
  /\ phase = "close" /\ phase' = "reap"
  /\ to' = [n \in Nodes |-> IF Reach(n) THEN Append(to[n], [type |-> "exit"]) ELSE to[n]]
  /\ UNCHANGED <<plan, at, turn, struck, reported, results, raised, stage, node,
                 runners, from, stop>>

\* A runner that does not end in time is killed.
KillRunner(n) ==
  /\ phase = "reap" /\ ~Over(n)
  /\ runner' = [runner EXCEPT ![n] = "dead"]
  /\ UNCHANGED <<coordinator, stage, node, thread, proc, to, from, stop>>

Closed ==
  /\ phase = "reap" /\ \A n \in Nodes : Over(n)
  /\ phase' = "done"
  /\ UNCHANGED <<plan, at, turn, struck, reported, results, raised, stage, node,
                 runners, to, from, stop>>

-----------------------------------------------------------------------------

Coordinator ==
  \/ NeverReached \/ Ready \/ BeginStage \/ SendStage \/ Watch \/ Watched
  \/ CollectNode \/ EndStage \/ Close \/ Closed \/ Chain
  \/ \E n \in Nodes : Accept(n) \/ KillRunner(n)

Listener(n)  == Hear(n) \/ Lose(n) \/ LoseMembers(n)
StageThread(n) == Spawn(n) \/ Feed(n) \/ End(n)

Next ==
  \/ Coordinator \/ Deadline \/ Interrupt \/ SetStop
  \/ \E n \in Nodes : \/ Listener(n) \/ StageThread(n) \/ Answer(n) \/ Halt(n)
                      \/ Serve(n) \/ Die(n)
  \/ \E n \in Nodes, m \in Everyone : Report(n, m)
  \/ \E m \in Everyone : Exit(m)

\* Every thread runs, and the deadline comes when nothing ends the stage before.
Spec ==
  /\ Init /\ [][Next]_vars
  /\ WF_vars(Coordinator) /\ WF_vars(Deadline)
  /\ \A n \in 1 .. 2 :
       /\ WF_vars(n \in Nodes /\ Listener(n))
       /\ WF_vars(n \in Nodes /\ StageThread(n))
       /\ WF_vars(n \in Nodes /\ (Answer(n) \/ Halt(n) \/ Serve(n)))
       /\ WF_vars(n \in Nodes /\ \E m \in Everyone : Report(n, m))

-----------------------------------------------------------------------------
(* Properties.                                                             *)

Quiet ==
  /\ raised = "no" /\ ~stop /\ ~struck.interrupted
  /\ \A i \in 1 .. Len(results) : ~results[i].timedOut

\* A run on several nodes that reports no failure ran every member of every stage
\* to its own end with 0, though the coordinator knows of them by messages alone.
CleanMeansClean ==
  phase = "done" /\ Quiet /\ results[Len(results)].code = 0 =>
    /\ Len(results) = Len(plan.stages)
    /\ \A i \in 1 .. Len(plan.stages) : \A m \in Ids(i) \ writers(i) : proc[m] = "zero"

\* Two stages never share a node, though the coordinator may tire of waiting for
\* the end of one and order the next: what a runner spawned for one stage has ended
\* when it spawns for another.
StagesApart ==
  \A n \in Nodes : Live(n) =>
    \A i \in 1 .. thread[n].index - 1 : \A m \in Here(n, i) : ~Running(m)

\* A stage's report has every member a runner of a node not lost started, and none
\* other.
ReportIsWhole ==
  \A i \in 1 .. Len(results) : ~plan.late =>
    \A m \in Ids(i) : ~node[plan.home[m]].lost =>
      (proc[m] # "none" <=> m \in {r.id : r \in results[i].members})

\* A stage whose timeout passed is not a success.
TimeoutFails ==
  \A i \in 1 .. Len(results) : results[i].timedOut => results[i].code # 0

Trouble ==
  \/ stop \/ plan.limit
  \/ \E m \in Ids(at) \ writers(at) : proc[m] = "fail"
  \/ \E m \in Ids(at) \ writers(at) : /\ runner[plan.home[m]] = "dead"
                                      /\ proc[m] \in {"none", "run"}

\* A stop, a timeout, a member that fails or a runner that dies under its members
\* ends the run, whenever it comes and whatever the other members do.
RunEnds == Trouble ~> (phase = "done")
=============================================================================
