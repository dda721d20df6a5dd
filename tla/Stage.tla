------------------------------- MODULE Stage -------------------------------
(***************************************************************************)
(* The process group of one run: the stages of a plan in order, each with  *)
(* every member spawned at once, watched together and stopped together,    *)
(* and the report of who ended it (execute.py: execute_plan, _StageRun,    *)
(* _watch, _attribute, stage_result).                                      *)
(*                                                                         *)
(* The members are processes of their own: one may end at any time, with 0 *)
(* or not, and one that writes to a reader that has gone may break.  The   *)
(* watch looks at them one after another, so a member may end between the  *)
(* look at another member and the judgement of the poll.                   *)
(*                                                                         *)
(* Time.  `clock` numbers the polls.  A poll that sees nothing end and     *)
(* waits for no verdict leaves it as it is: how long nothing happens       *)
(* matters to the deadline only, and a deadline strikes when it strikes.   *)
(***************************************************************************)
EXTENDS Naturals, Sequences, FiniteSets

CONSTANTS
  Plans,      \* the plans run, each [stages, showOnly]; a stage is
              \* [ids, wires, feeders, limit, piped, live]: its processes in
              \* plan order, its pipes <<source, target, nth>>, its feeders'
              \* <<writer, readers>>, whether a timeout bounds it, whether the
              \* relay carries any of its pipes and whether it has a live input
  Cascade,    \* polls in _CASCADE seconds
  Nobody      \* None, for a member

Members1(s) == {s[i] : i \in 1 .. Len(s)}

\* A stage's pipes and feeders are between processes it names, and its pipes make
\* no cycle: processes are cut by depth, which never falls along an edge.
AStage(s) ==
  /\ s.ids \in Seq(Members1(s.ids)) /\ Nobody \notin Members1(s.ids)
  /\ s.feeders \in Seq(Members1(s.feeders))
  /\ \A i \in 1 .. Len(s.feeders) :
       /\ s.feeders[i][1] \in Members1(s.ids)
       /\ s.feeders[i][2] # <<>> /\ s.feeders[i][2][1] \in Members1(s.ids)
  /\ \A w \in s.wires : w[1] \in Members1(s.ids) /\ w[2] \in Members1(s.ids)
  /\ \E depth \in [Members1(s.ids) -> 0 .. Len(s.ids)] :
       \A w \in s.wires : depth[w[1]] < depth[w[2]]

ASSUME StageAssumption ==
  /\ Cascade \in Nat \ {0}
  /\ \A p \in Plans : /\ p.stages \in Seq(Members1(p.stages)) /\ p.stages # <<>>
                       /\ \A i \in 1 .. Len(p.stages) : AStage(p.stages[i])

VARIABLES
  plan, at,        \* the plan and the stage it is in
  phase,           \* where the runner is
  placed,          \* ids the spawn order has come to
  started,         \* the members, in the order they were spawned
  fed,             \* the feeder feed_writers settled last, 0 for none
  proc,            \* what became of each process
  terminated,      \* members the stage stopped
  seen,            \* ended_at, 0 for None
  clock,
  watch,           \* the watch's own locals
  struck,          \* [failed, timedOut, wedge, interrupted, raised]
  stop,            \* the stop event
  windows,         \* TRUE once every display window was closed
  results,         \* the stages' reports, in order
  ending,          \* of those _stop found running, the ones it has still to
                   \* tell, then the ones it has still to wait for
  cut              \* what a Ctrl-C that nothing catches broke off, "no" if none

vars == <<plan, at, phase, placed, started, fed, proc, terminated, seen, clock,
          watch, struck, stop, windows, results, ending, cut>>

stage   == plan.stages[at]
Ids     == {stage.ids[i] : i \in 1 .. Len(stage.ids)}
Members == {started[i] : i \in 1 .. Len(started)}
Position(id) == CHOOSE i \in 1 .. Len(stage.ids) : stage.ids[i] = id

-----------------------------------------------------------------------------
(* The wires of a stage.                                                   *)

\* An edge is chained, stdout to stdin, when it is all its source writes and
\* all its target reads; any other goes through the relay.
chained(w) ==
  /\ Cardinality({v \in stage.wires : v[2] = w[2]}) = 1
  /\ Cardinality({v \in stage.wires : v[1] = w[1]}) = 1

producers(m) == {w[1] : w \in {v \in stage.wires : v[2] = m}}
consumers(m) == {w[2] : w \in {v \in stage.wires : v[1] = m}}

writers    == {stage.feeders[i][1] : i \in 1 .. Len(stage.feeders)}
readers(w) == UNION {Members1(stage.feeders[i][2]) :
                       i \in {j \in 1 .. Len(stage.feeders) : stage.feeders[j][1] = w}}

reached(m) ==
  LET r[n \in 0 .. Cardinality(Ids)] ==
        IF n = 0 THEN {m} ELSE r[n-1] \union UNION {consumers(x) : x \in r[n-1]}
  IN  r[Cardinality(Ids)]

\* A feeder's writer waits for its port, unless a reader is downstream of it.
held_writers == {i \in 1 .. Len(stage.feeders) :
                   reached(stage.feeders[i][1]) \cap Members1(stage.feeders[i][2]) = {}}
held == {stage.feeders[i][1] : i \in held_writers}

-----------------------------------------------------------------------------
(* Processes.                                                              *)

Running(m) == proc[m] = "run"
Exited(m)  == proc[m] \notin {"none", "run"}
Zero(m)    == proc[m] = "zero"
Failed(m)  == Exited(m) /\ ~Zero(m)
_broken_pipe(m) == proc[m] = "pipe" /\ ~terminated[m]

NoWatch  == [todo |-> <<>>, just |-> {}, suspect |-> Nobody, ended |-> Nobody,
             settled |-> 0]
NotStruck == [failed |-> Nobody, timedOut |-> FALSE, wedge |-> FALSE,
              interrupted |-> FALSE, raised |-> FALSE]

Fresh(p, i) ==
  LET ids == Members1(p.stages[i].ids) IN
  [proc |-> [m \in ids |-> "none"], off |-> [m \in ids |-> FALSE],
   nat |-> [m \in ids |-> 0]]

Init ==
  /\ plan \in Plans /\ at = 1 /\ phase = "spawn"
  /\ placed = {} /\ started = <<>> /\ fed = 0
  /\ proc = Fresh(plan, 1).proc /\ terminated = Fresh(plan, 1).off
  /\ seen = Fresh(plan, 1).nat /\ clock = 1
  /\ watch = NoWatch /\ struck = NotStruck
  /\ stop = FALSE /\ windows = FALSE /\ results = <<>> /\ ending = {} /\ cut = "no"

\* A process ends: with 0, failing, or writing where nobody reads any more.
Exit(m) ==
  /\ phase # "done" /\ Running(m)
  /\ \E how \in {"zero", "fail", "pipe", "killed"} :
       /\ how = "pipe" => \E c \in consumers(m) \union (readers(m) \ {m}) : Exited(c)
       /\ how = "killed" => terminated[m]
       /\ proc' = [proc EXCEPT ![m] = how]
  /\ UNCHANGED <<plan, at, phase, placed, started, fed, terminated, seen, clock,
                 watch, struck, stop, windows, results, ending, cut>>

\* The run is ended from outside, or its last window closed.
SetStop ==
  /\ phase # "done" /\ ~stop /\ plan.stoppable
  /\ stop' = TRUE
  /\ UNCHANGED <<plan, at, phase, placed, started, fed, proc, terminated, seen,
                 clock, watch, struck, windows, results, ending, cut>>

CloseWindows ==
  /\ phase # "done" /\ ~windows /\ plan.showOnly
  /\ windows' = TRUE
  /\ UNCHANGED <<plan, at, phase, placed, started, fed, proc, terminated, seen,
                 clock, watch, struck, stop, results, ending, cut>>

-----------------------------------------------------------------------------
(* Starting: every member but the held writers, then each writer once its  *)
(* port accepts.                                                           *)

SpawnReady ==
  {m \in Ids \ placed : \A w \in stage.wires : w[2] = m /\ chained(w) => w[1] \in placed}
_spawn_order ==
  LET from == IF SpawnReady = {} THEN Ids \ placed ELSE SpawnReady
  IN  CHOOSE m \in from : \A n \in from : Position(m) <= Position(n)

Spawn ==
  /\ phase = "spawn" /\ placed # Ids
  /\ LET m == _spawn_order IN
       /\ placed' = placed \union {m}
       /\ IF m \in held
          THEN UNCHANGED <<started, proc>>
          ELSE started' = Append(started, m) /\ proc' = [proc EXCEPT ![m] = "run"]
  /\ UNCHANGED <<plan, at, phase, fed, terminated, seen, clock, watch, struck, stop,
                 windows, results, ending, cut>>

Spawned ==
  /\ phase = "spawn" /\ placed = Ids
  /\ phase' = "feed"
  /\ UNCHANGED <<plan, at, placed, started, fed, proc, terminated, seen, clock,
                 watch, struck, stop, windows, results, ending, cut>>

\* The held writers still to be settled, in the feeders' order.
Unfed == {i \in held_writers : i > fed}

Unsettled(i) == i \in Unfed /\ \A j \in Unfed : i <= j

\* _await_port gives up: a stop, every reader gone, or a failure in the stage.
NoPoint(w) ==
  \/ stop
  \/ \A r \in readers(w) \cap Members : Exited(r)
  \/ \E m \in Members : Failed(m)

Accepts(w) == ~NoPoint(w) /\ \E r \in readers(w) : Running(r)

FeedWriter ==
  /\ phase = "feed"
  /\ \E i \in 1 .. Len(stage.feeders) :
       LET w == stage.feeders[i][1] IN
       /\ Unsettled(i)
       /\ \/ /\ Accepts(w)
             /\ started' = Append(started, w) /\ proc' = [proc EXCEPT ![w] = "run"]
             /\ fed' = i /\ UNCHANGED <<phase, struck>>
          \/ /\ NoPoint(w)
             /\ fed' = i /\ UNCHANGED <<started, proc, phase, struck>>
          \/ \* the deadline passed before the live programme's first byte: no
             \* other writer is waited for either
             /\ stage.live /\ stage.limit
             /\ fed' = Len(stage.feeders) /\ UNCHANGED <<started, proc, phase, struck>>
          \/ \* FEEDER_WAIT passed, for a later writer where the programme
             \* started only after the deadline: the watch is never entered
             /\ phase' = "ended"
             /\ \E j \in Unfed :
                  /\ j # i => stage.live /\ stage.limit
                  /\ struck' = [struck EXCEPT !.failed = stage.feeders[j][2][1],
                                              !.timedOut = TRUE, !.wedge = TRUE]
             /\ UNCHANGED <<started, proc, fed>>
  /\ UNCHANGED <<plan, at, placed, terminated, seen, clock, watch, stop, windows,
                 results, ending, cut>>

\* A member that cannot be spawned, a held writer's turn or another's: the error
\* leaves through run.end().
SpawnRaises ==
  /\ \/ phase = "spawn" /\ placed # Ids /\ _spawn_order \notin held
     \/ /\ phase = "feed"
        /\ \E i \in Unfed : Unsettled(i) /\ Accepts(stage.feeders[i][1])
  /\ phase' = "end" /\ struck' = [struck EXCEPT !.raised = TRUE]
  /\ UNCHANGED <<plan, at, placed, started, fed, proc, terminated, seen, clock,
                 watch, stop, windows, results, ending, cut>>

FedAll ==
  /\ phase = "feed" /\ Unfed = {}
  /\ phase' = "poll"
  /\ UNCHANGED <<plan, at, placed, started, fed, proc, terminated, seen, clock,
                 watch, struck, stop, windows, results, ending, cut>>

-----------------------------------------------------------------------------
(* The watch.                                                              *)

Poll ==
  /\ phase = "poll"
  /\ IF stop THEN phase' = "ended" /\ UNCHANGED watch
             ELSE phase' = "scan" /\ watch' = [watch EXCEPT !.todo = started, !.just = {}]
  /\ UNCHANGED <<plan, at, placed, started, fed, proc, terminated, seen, clock,
                 struck, stop, windows, results, ending, cut>>

\* One member of the poll is looked at.
Scan ==
  /\ phase = "scan" /\ watch.todo # <<>>
  /\ LET m == Head(watch.todo) IN
       watch' = [watch EXCEPT !.todo = Tail(@),
                   !.just = IF seen[m] = 0 /\ Exited(m) THEN @ \union {m} ELSE @]
  /\ UNCHANGED <<plan, at, phase, placed, started, fed, proc, terminated, seen, clock,
                 struck, stop, windows, results, ending, cut>>

\* The rest of the watch reads ended_at as this poll left it.
Stamped == [m \in Ids |-> IF m \in watch.just THEN clock ELSE seen[m]]

_ends_the_stage(m) ==
  \/ ~Zero(m)
  \/ \E p \in producers(m) \cap Members : Stamped[p] = 0

_reader_gone(m) ==
  m \in writers /\ \E r \in (readers(m) \ {m}) \cap Members : Stamped[r] # 0

\* "early", "finished" or "open": what a 0 with a producer still running means.
_left_early(m) ==
  LET mine == producers(m) \cap Members IN
  IF \E p \in mine : Stamped[p] # 0 /\ ~Zero(p) THEN "early"
  ELSE IF \A p \in mine : Stamped[p] # 0 THEN "finished"
  ELSE IF clock - Stamped[m] >= Cascade THEN "early" ELSE "open"

FirstOf(S) ==
  IF S = {} THEN Nobody
  ELSE LET i == CHOOSE i \in 1 .. Len(started) :
                  started[i] \in S /\ \A j \in 1 .. i - 1 : started[j] \notin S
       IN  started[i]

Suspect ==
  IF watch.suspect # Nobody THEN watch.suspect
  ELSE FirstOf({m \in watch.just : Zero(m) /\ _ends_the_stage(m) /\ ~_reader_gone(m)})

\* Ender, failures left for later while a suspicion is open.
EnderOfSuspect ==
  IF Suspect # Nobody
  THEN IF _left_early(Suspect) = "early" THEN Suspect ELSE Nobody
  ELSE FirstOf({m \in watch.just : ~Zero(m) /\ ~_reader_gone(m)})

Ender ==
  IF Suspect # Nobody /\ _left_early(Suspect) = "early" THEN Suspect
  ELSE FirstOf({m \in watch.just : ~Zero(m) /\ ~_reader_gone(m)})

Judged ==
  IF watch.ended # Nobody THEN watch
  ELSE [watch EXCEPT
          !.suspect = IF Suspect # Nobody /\ _left_early(Suspect) = "finished"
                      THEN Nobody ELSE Suspect,
          !.ended = Ender,
          !.settled = IF Ender # Nobody THEN clock + Cascade ELSE @]

AllEnded == \A m \in Members \ writers : Stamped[m] # 0

Judge ==
  /\ phase = "scan" /\ watch.todo = <<>>
  /\ LET w == Judged
         over  == AllEnded \/ (w.ended # Nobody /\ clock >= w.settled)
         again == w.ended # Nobody
         shut  == plan.showOnly /\ windows
         waits == watch.just # {} \/ w.suspect # Nobody \/ w.ended # Nobody IN
       /\ seen' = Stamped
       /\ watch' = [w EXCEPT !.just = {}]
       /\ struck' = IF over THEN [struck EXCEPT !.failed = w.ended] ELSE struck
       /\ phase' = IF over THEN "ended" ELSE IF again THEN "poll"
                   ELSE IF shut THEN "ended" ELSE "late"
       /\ clock' = IF waits THEN clock + 1 ELSE clock
  /\ UNCHANGED <<plan, at, placed, started, fed, proc, terminated, stop, windows,
                 results, ending, cut>>

\* No wedge and no deadline yet: the watch sleeps.
Sleep ==
  /\ phase = "late" /\ phase' = "poll"
  /\ UNCHANGED <<plan, at, placed, started, fed, proc, terminated, seen, clock,
                 watch, struck, stop, windows, results, ending, cut>>

\* Strike, which looks whether any member is still running first.
StrikeIfQuiet(wedge) ==
  /\ phase = "late" /\ IF wedge THEN stage.piped ELSE stage.limit
  /\ \A m \in Members : Exited(m)
  /\ phase' = "ended" /\ UNCHANGED struck
  /\ UNCHANGED <<plan, at, placed, started, fed, proc, terminated, seen, clock,
                 watch, stop, windows, results, ending, cut>>

\* The deadline passed, or every pipe stood still and every member was idle:
\* the first member still running is named.  With none left there is no first,
\* and next() raises.
Strike(wedge) ==
  /\ phase = "late" /\ IF wedge THEN stage.piped ELSE stage.limit
  /\ LET hung == FirstOf({m \in Members : Running(m)}) IN
       IF hung = Nobody
       THEN phase' = "end" /\ struck' = [struck EXCEPT !.raised = TRUE]
       ELSE /\ phase' = "ended"
            /\ struck' = [struck EXCEPT !.failed = hung, !.timedOut = TRUE,
                                        !.wedge = wedge]
  /\ UNCHANGED <<plan, at, placed, started, fed, proc, terminated, seen, clock,
                 watch, stop, windows, results, ending, cut>>

\* A held writer the stage ended without starting fails it.
Ended ==
  /\ phase = "ended" /\ phase' = "end"
  /\ LET missing == {i \in held_writers : stage.feeders[i][1] \notin Members}
     IN  IF struck.failed = Nobody /\ ~plan.showOnly /\ ~stop /\ missing # {}
         THEN \E i \in missing :
                /\ \A j \in missing : i <= j
                /\ struck' = [struck EXCEPT !.failed = stage.feeders[i][1],
                                            !.timedOut = TRUE, !.wedge = TRUE]
         ELSE UNCHANGED struck
  /\ UNCHANGED <<plan, at, placed, started, fed, proc, terminated, seen, clock,
                 watch, stop, windows, results, ending, cut>>

\* Ctrl-C inside the try: the verdict stays as far as it was assigned.
Interrupt ==
  /\ phase \in {"spawn", "feed", "poll", "scan", "late", "ended"} /\ plan.stoppable
  /\ phase' = "end"
  /\ struck' \in {[NotStruck EXCEPT !.interrupted = TRUE],
                  [struck EXCEPT !.interrupted = TRUE]}
  /\ UNCHANGED <<plan, at, placed, started, fed, proc, terminated, seen, clock,
                 watch, stop, windows, results, ending, cut>>

-----------------------------------------------------------------------------
(* The end: everything found running is told to end, one after another,    *)
(* then waited for in turn, and killed if it does not in _GRACE seconds.   *)

\* StillRunning, the writers, which the watch does not wait for, left out.
StillWatched == {m \in Members \ writers : Running(m)}
StillRunning == {m \in Members : Running(m)}

_stop ==
  /\ phase = "end" /\ phase' = "tell"
  /\ ending' = StillRunning
  /\ UNCHANGED <<plan, at, placed, started, fed, proc, terminated, seen, clock, watch,
                 struck, stop, windows, results, cut>>

\* Told, and counted as stopped, whether or not it has just ended by itself.
Tell ==
  /\ phase = "tell" /\ ending # {}
  /\ LET m == FirstOf(ending) IN
       /\ terminated' = [terminated EXCEPT ![m] = TRUE]
       /\ ending' = ending \ {m}
  /\ UNCHANGED <<plan, at, phase, placed, started, fed, proc, seen, clock, watch,
                 struck, stop, windows, results, cut>>

Told ==
  /\ phase = "tell" /\ ending = {} /\ phase' = "reap"
  /\ ending' = {m \in Ids : terminated[m]}
  /\ UNCHANGED <<plan, at, placed, started, fed, proc, terminated, seen, clock, watch,
                 struck, stop, windows, results, cut>>

Wait ==
  /\ phase = "reap" /\ ending # {} /\ Exited(FirstOf(ending))
  /\ ending' = ending \ {FirstOf(ending)}
  /\ UNCHANGED <<plan, at, phase, placed, started, fed, proc, terminated, seen, clock,
                 watch, struck, stop, windows, results, cut>>

Kill ==
  /\ phase = "reap" /\ ending # {} /\ Running(FirstOf(ending))
  /\ proc' = [proc EXCEPT ![FirstOf(ending)] = "killed"]
  /\ ending' = ending \ {FirstOf(ending)}
  /\ UNCHANGED <<plan, at, phase, placed, started, fed, terminated, seen, clock,
                 watch, struck, stop, windows, results, cut>>

AllReaped ==
  /\ phase = "reap" /\ ending = {} /\ phase' = "report"
  /\ UNCHANGED <<plan, at, placed, started, fed, proc, terminated, seen, clock, watch,
                 struck, stop, windows, results, ending, cut>>

\* Ctrl-C once the end began, or between two stages: nothing catches it, and what
\* was still to be told, waited for or killed is not.
Abandon ==
  /\ phase \in {"end", "tell", "reap", "report", "next"} /\ plan.stoppable
  /\ phase' = "done" /\ cut' = phase /\ ending' = {}
  /\ UNCHANGED <<plan, at, placed, started, fed, proc, terminated, seen, clock, watch,
                 struck, stop, windows, results>>

\* A poll later than every one: ended_at of a member never seen to end.
WhenEnded(m) == IF seen[m] = 0 THEN clock + 1 ELSE seen[m]

AnyFailed == \E m \in Members : \/ Failed(m) /\ ~terminated[m]
                                \/ terminated[m] /\ m \notin writers

candidates ==
  {m \in Members :
     /\ seen[m] # 0 /\ ~terminated[m]
     /\ \/ ~Zero(m)
        \/ AnyFailed /\ \E p \in producers(m) : p \in Members => WhenEnded(p) >= seen[m]}

\* Before, one poll's ends by their place in the plan alone.
BeforeByPlace(m, n) ==
  \/ seen[m] < seen[n]
  \/ seen[m] = seen[n] /\ Position(m) <= Position(n)

\* The earliest; in one poll whatever did not break comes first.
Before(m, n) ==
  \/ seen[m] < seen[n]
  \/ seen[m] = seen[n] /\ ~_broken_pipe(m) /\ _broken_pipe(n)
  \/ /\ seen[m] = seen[n] /\ _broken_pipe(m) = _broken_pipe(n)
     /\ Position(m) <= Position(n)

_attribute ==
  IF candidates = {} THEN [failure |-> Nobody, consequences |-> {}]
  ELSE LET cause == CHOOSE m \in candidates : \A n \in candidates : Before(m, n)
       IN  [failure |-> cause,
            consequences |-> {m \in Members \ {cause} :
                                _broken_pipe(m) /\ WhenEnded(m) >= seen[cause]}]

stage_result ==
  LET a == _attribute
      blamed == a.consequences
      own == {m \in Members : Failed(m) /\ ~terminated[m]} \ blamed
      named == IF struck.failed \in Members THEN struck.failed ELSE Nobody IN
  IF struck.raised \/ struck.failed = Nobody
  THEN [failure |-> Nobody, failures |-> {}, consequences |-> {}, code |-> 0]
  ELSE IF struck.timedOut
  THEN [failure |-> named, failures |-> {named} \ {Nobody}, consequences |-> {},
        code |-> IF named = Nobody /\ ~struck.wedge THEN 0 ELSE 1]
  ELSE [failure |-> a.failure, failures |-> own \union ({a.failure} \ {Nobody}),
        consequences |-> blamed, code |-> IF a.failure = Nobody THEN 0 ELSE 1]

Report ==
  /\ phase = "report" /\ ~struck.raised
  /\ results' = Append(results, stage_result)
  /\ phase' = IF \/ struck.interrupted \/ stage_result.code # 0
                 \/ at = Len(plan.stages) \/ stop
              THEN "done" ELSE "next"
  /\ UNCHANGED <<plan, at, placed, started, fed, proc, terminated, seen, clock,
                 watch, struck, stop, windows, ending, cut>>

\* What was raised goes on out of execute_plan, and there is no report.
Propagate ==
  /\ phase = "report" /\ struck.raised /\ phase' = "done"
  /\ UNCHANGED <<plan, at, placed, started, fed, proc, terminated, seen, clock,
                 watch, struck, stop, windows, results, ending, cut>>

\* execute_plan comes to the next stage.
NextStage ==
  /\ phase = "next"
  /\ IF stop
     THEN phase' = "done" /\ UNCHANGED <<at, placed, started, fed, proc, terminated,
                                         seen, clock, watch, struck>>
     ELSE /\ at' = at + 1 /\ phase' = "spawn"
          /\ placed' = {} /\ started' = <<>> /\ fed' = 0
          /\ proc' = Fresh(plan, at + 1).proc /\ terminated' = Fresh(plan, at + 1).off
          /\ seen' = Fresh(plan, at + 1).nat /\ clock' = 1
          /\ watch' = NoWatch /\ struck' = NotStruck
  /\ UNCHANGED <<plan, stop, windows, results, ending, cut>>

Runner ==
  \/ Spawn \/ Spawned \/ FeedWriter \/ FedAll
  \/ Poll \/ Scan \/ Judge \/ Sleep \/ Ended
  \/ _stop \/ Tell \/ Told \/ Wait \/ Kill \/ AllReaped
  \/ Report \/ Propagate \/ NextStage

Next ==
  \/ Runner \/ SpawnRaises \/ Interrupt \/ Abandon \/ SetStop \/ CloseWindows
  \/ \E w \in BOOLEAN : Strike(w)
  \/ \E m \in Ids : Exit(m)

\* The runner's thread runs, and a deadline that is set comes.
Spec == Init /\ [][Next]_vars /\ WF_vars(Runner) /\ SF_vars(Strike(FALSE))

-----------------------------------------------------------------------------
(* Properties.                                                             *)

TypeOK ==
  /\ plan \in Plans /\ at \in 1 .. Len(plan.stages)
  /\ phase \in {"spawn", "feed", "poll", "scan", "late", "ended", "end", "tell",
                "reap", "report", "next", "done"}
  /\ placed \subseteq Ids /\ Members \subseteq placed
  /\ fed \in 0 .. Len(stage.feeders)
  /\ proc \in [Ids -> {"none", "run", "zero", "fail", "pipe", "killed"}]
  /\ terminated \in [Ids -> BOOLEAN]
  /\ clock \in Nat /\ seen \in [Ids -> 0 .. clock]
  /\ watch.suspect \in Ids \union {Nobody} /\ watch.ended \in Ids \union {Nobody}
  /\ struck.failed \in Ids \union {Nobody}
  /\ stop \in BOOLEAN /\ windows \in BOOLEAN
  /\ Len(results) \in 0 .. at
  /\ ending \subseteq Members
  /\ cut \in {"no", "end", "tell", "reap", "report", "next"}

\* The stage the run ended in made its report.
Reported   == ~struck.raised /\ cut = "no"
LastResult == results[Len(results)]

Clean ==
  /\ phase = "done" /\ Reported /\ ~struck.interrupted /\ ~stop
  /\ ~plan.showOnly /\ LastResult.code = 0

\* A run that reports no failure, and that nobody cut short, ran every stage, and
\* every member that something waits on was started and ended with 0 on its own:
\* no exit is missed between two polls and no suspicion left open hides one.
CleanMeansClean ==
  Clean => /\ at = Len(plan.stages)
           /\ \A m \in Ids \ writers : Zero(m) /\ ~terminated[m]
           /\ struck.failed = Nobody => held \subseteq Members

\* Whatever ends a stage, a refusal to spawn or a Ctrl-C that _run_stage catches
\* included, no member of it is left running behind it, and the next stage finds
\* none.  Only a Ctrl-C that comes while run.end() is at it leaves any: before all
\* were told, whichever still ran; after that, such as were told and did not end.
NothingLeftRunning ==
  phase \in {"next", "done"} =>
    \A m \in Ids : Running(m) =>
      /\ cut \in {"end", "tell", "reap"}
      /\ cut = "reap" => terminated[m]

\* A broken pipe is never the reason a pipe closed: a member that broke because
\* its reader had gone is not the one the stage is blamed on.
BlameIsACause ==
  phase = "done" /\ Reported /\ LastResult.failure # Nobody /\ ~struck.timedOut
  => ~_broken_pipe(LastResult.failure)

\* It holds where every wire is chained, which spawns, and so looks at, each
\* producer before its consumer, and no member writes a feeder connection.
ChainBlame ==
  (\A w \in stage.wires : chained(w)) /\ writers = {} => BlameIsACause

\* A member that nothing excuses and that fails ends the stage, and so does a
\* deadline: whatever the members still running do, the run comes to its end.
StageEnds ==
  (stage.limit \/ \E m \in Members \ writers : Failed(m)) ~> (phase \in {"next", "done"})
=============================================================================
