------------------------------ MODULE StageInv ------------------------------
(***************************************************************************)
(* The inductive invariant of module Stage, in named parts: what the watch *)
(* saw and judged is still so when the report is made.                     *)
(***************************************************************************)
EXTENDS Stage

Phases == {"spawn", "feed", "poll", "scan", "late", "ended", "end", "tell",
           "reap", "report", "next", "done"}
Starting == {"spawn", "feed"}
Watching == {"poll", "scan", "late"}
Closing  == {"end", "tell", "reap", "report", "next", "done"}
Over     == {"report", "next", "done"}
Cuts     == {"no", "end", "tell", "reap", "report", "next"}
Fates    == {"none", "run", "zero", "fail", "pipe", "killed"}
Someone  == Ids \cup {Nobody}
Quiet    == ~struck.raised /\ ~struck.interrupted
CutShort == stop \/ plan.showOnly

\* Every variable keeps its shape.
Shape ==
  /\ plan \in Plans /\ at \in 1 .. Len(plan.stages) /\ phase \in Phases
  /\ placed \subseteq Ids /\ started \in Seq(Ids) /\ fed \in Nat
  /\ proc \in [Ids -> Fates] /\ terminated \in [Ids -> BOOLEAN]
  /\ clock \in Nat \ {0}
  /\ seen \in [Ids -> Nat] /\ \A m \in Ids : seen[m] <= clock
  /\ watch \in [todo : Seq(Ids), just : SUBSET Ids, suspect : Someone,
                ended : Someone, settled : Nat]
  /\ struck \in [failed : Someone, timedOut : BOOLEAN, wedge : BOOLEAN,
                 interrupted : BOOLEAN, raised : BOOLEAN]
  /\ stop \in BOOLEAN
  /\ results \in Seq(Members1(results))
  /\ ending \subseteq Members /\ cut \in Cuts

\* Whatever has been placed was spawned, unless it waits for a port.
AllSpawned ==
  /\ placed \ held \subseteq Members
  /\ phase # "spawn" /\ Quiet => placed = Ids
  /\ \A m \in Members : proc[m] # "none"
  /\ Members \subseteq placed
  /\ \A m \in Ids : proc[m] # "none" => m \in Members

\* Nothing has been seen, or judged, before the watch begins.
Unwatched ==
  phase \in Starting =>
    /\ watch = NoWatch /\ struck = NotStruck
    /\ \A m \in Ids : seen[m] = 0 /\ ~terminated[m]

\* What was seen to end had ended, by itself.
SeenEnded ==
  /\ \A i \in 1 .. Len(watch.todo) : watch.todo[i] \in Members
  /\ \A m \in watch.just : m \in Members /\ Exited(m) /\ seen[m] = 0 /\ ~terminated[m]
  /\ \A m \in Ids : seen[m] # 0 => m \in Members /\ Exited(m) /\ ~terminated[m]
  /\ phase \in Watching \cup {"ended", "end"} => \A m \in Ids : ~terminated[m]
  /\ \A m \in Ids : terminated[m] => m \in Members
  /\ \A m \in ending : seen[m] = 0 /\ m \notin watch.just

\* A member the watch blames for ending the stage is one the report can blame:
\* it failed, or ended with 0 before a producer did, or another failed.
Blamable(m) ==
  /\ m \in Members /\ seen[m] # 0
  /\ Zero(m) => \/ \E p \in producers(m) \cap Members : seen[p] = 0 \/ seen[p] >= seen[m]
                \/ \E n \in Members : Failed(n) /\ seen[n] # 0

Verdict ==
  /\ watch.suspect # Nobody => watch.suspect \in Members /\ seen[watch.suspect] # 0
                               /\ Zero(watch.suspect)
  /\ watch.ended # Nobody => Blamable(watch.ended)
  /\ watch.ended = Nobody => \A m \in Ids \ writers : seen[m] # 0 => Zero(m)

\* How the stage was struck.
Struck ==
  /\ phase \in Watching => struck = NotStruck
  /\ Quiet /\ struck.timedOut =>
       struck.failed # Nobody /\ (struck.wedge \/ struck.failed \in Members)
  /\ Quiet /\ struck.failed # Nobody /\ ~struck.timedOut => struck.failed = watch.ended
  /\ phase \notin Starting \cup Watching /\ Quiet /\ struck.failed = Nobody /\ ~CutShort =>
       /\ watch.ended = Nobody
       /\ \A m \in Members \ writers : seen[m] # 0
       /\ phase # "ended" => held \subseteq Members

\* Whoever runs while the stage is stopped is still to be told or was, and then
\* is still to be waited for.
Stopping ==
  /\ phase = "tell" => \A m \in Ids : Running(m) => m \in ending \/ terminated[m]
  /\ phase = "reap" => /\ \A m \in Ids : Running(m) => m \in ending
                       /\ \A m \in ending : terminated[m]
  /\ phase \notin {"tell", "reap"} => ending = {}
  /\ cut # "no" => phase = "done"

\* Who may outlive a stage: whoever a Ctrl-C kept from being told or killed.
Left(m) ==
  /\ cut \in {"end", "tell", "reap"}
  /\ cut = "reap" => terminated[m]

\* Once the stage was reaped nothing of it runs, and the last report is its own.
Reaped ==
  /\ phase \in Over => \A m \in Ids : Running(m) => Left(m)
  /\ phase \in {"next", "done"} /\ Reported => results # <<>> /\ LastResult = stage_result
  /\ phase = "next" => at # Len(plan.stages) /\ ~struck.raised
  /\ phase = "done" => \/ ~Quiet \/ cut # "no" \/ stop \/ LastResult.code # 0
                       \/ at = Len(plan.stages)

StageInvariant ==
  Shape /\ AllSpawned /\ Unwatched /\ SeenEnded /\ Verdict /\ Struck
  /\ Stopping /\ Reaped

-----------------------------------------------------------------------------
(* Of a stage every pipe of which is chained, and that no feeder writes in. *)

Chain == (\A w \in stage.wires : chained(w)) /\ writers = {}

\* A producer is placed before its consumer, so started and looked at first.
InOrder ==
  Chain =>
    /\ placed = Members
    /\ \A m \in Ids : proc[m] # "none" => m \in Members
    /\ \A m \in placed : producers(m) \subseteq placed
    /\ \A i, j \in 1 .. Len(started) : started[i] \in producers(started[j]) => i < j
    /\ phase = "scan" =>
         /\ Len(watch.todo) <= Len(started)
         /\ \A i \in 1 .. Len(watch.todo) :
              watch.todo[i] = started[Len(started) - Len(watch.todo) + i]

\* The poll that sees a broken pipe sees the end of the reader that broke it, or
\* an earlier one did.
AtLatest(m, c) ==
  /\ Exited(c)
  /\ seen[m] # 0 => seen[c] # 0 /\ seen[c] <= seen[m]
  /\ phase = "scan" /\ m \in watch.just =>
       seen[c] # 0 \/ c \in watch.just \/ \E i \in 1 .. Len(watch.todo) : watch.todo[i] = c

BrokenByReader ==
  Chain => \A m \in Ids : _broken_pipe(m) => \E c \in consumers(m) : AtLatest(m, c)

ChainInvariant == InOrder /\ BrokenByReader
=============================================================================
