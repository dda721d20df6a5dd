----------------------------- MODULE StageProofs -----------------------------
(***************************************************************************)
(* That a run reported clean was clean, that nothing outlives a run, and   *)
(* that a chain is never blamed on a broken pipe: the proofs of StageInv's *)
(* StageInvariant and ChainInvariant, for every plan.                      *)
(***************************************************************************)
EXTENDS StageInv, WellFoundedInduction, SequenceTheorems, TLAPS

-----------------------------------------------------------------------------
(* The least of what there is.                                             *)

\* A set of numbers has a least one.
LEMMA Least ==
  ASSUME NEW S \in SUBSET Nat, S # {}
  PROVE  \E m \in S : \A n \in S : m <= n
<1>1. PICK m \in S : \A n \in S : ~ (<<n, m>> \in OpToRel(<, Nat))
  BY NatLessThanWellFounded, WFMin
<1>2. \A n \in S : ~(n < m)
  BY <1>1 DEF OpToRel
<1>3. m \in Nat /\ \A n \in S : n \in Nat
  OBVIOUS
<1> QED BY <1>2, <1>3

\* A sequence longer by one ends with what was appended.
LEMMA Appended ==
  ASSUME NEW s, s \in Seq(Members1(s)), NEW e
  PROVE  /\ Append(s, e) \in Seq(Members1(Append(s, e)))
         /\ Append(s, e) # <<>>
         /\ Append(s, e)[Len(Append(s, e))] = e
<1> DEFINE T == Members1(s) \cup {e}
           a == Append(s, e)
<1>1. s \in Seq(T)
  BY SeqMonotonic
<1>2. a \in Seq(T) /\ Len(a) = Len(s) + 1 /\ a # <<>> /\ a[Len(s) + 1] = e
  BY <1>1, AppendProperties
<1>3. a \in Seq(Members1(a))
  <2>1. a \in [1 .. Len(a) -> T] /\ Len(a) \in Nat
    BY <1>2, LenProperties
  <2>2. \A k \in 1 .. Len(a) : a[k] \in Members1(a)
    BY DEF Members1
  <2>3. a \in [1 .. Len(a) -> Members1(a)]
    BY <2>1, <2>2
  <2> QED BY <2>1, <2>3, SeqDef
<1> QED BY <1>2, <1>3

-----------------------------------------------------------------------------
(* A stage.                                                                *)

\* The stage a run is in is one.
LEMMA Staged ==
  ASSUME plan \in Plans, at \in 1 .. Len(plan.stages)
  PROVE  /\ AStage(stage)
         /\ Nobody \notin Ids
         /\ held \subseteq Ids /\ held \subseteq writers
         /\ Len(plan.stages) \in Nat
         /\ \A i \in held_writers : stage.feeders[i][1] \in Ids /\ stage.feeders[i][2][1] \in Ids
         /\ held_writers \subseteq Nat
<1>1. AStage(stage)
  BY StageAssumption DEF stage
<1>2. Len(plan.stages) \in Nat
  BY StageAssumption, LenProperties
<1>3. Len(stage.feeders) \in Nat
  BY <1>1, LenProperties DEF AStage
<1>4. Nobody \notin Ids
  BY <1>1 DEF AStage, Ids, Members1
<1>5. held_writers \subseteq 1 .. Len(stage.feeders) /\ held_writers \subseteq Nat
  BY <1>3 DEF held_writers
<1>6. \A i \in 1 .. Len(stage.feeders) :
        stage.feeders[i][1] \in Ids /\ stage.feeders[i][2][1] \in Ids
  BY <1>1 DEF AStage, Ids, Members1
<1>7. held \subseteq Ids /\ held \subseteq writers
  BY <1>5, <1>6 DEF held, writers
<1> QED BY <1>1, <1>2, <1>4, <1>5, <1>6, <1>7

\* While a run stays in its stage, what the stage says stays.
LEMMA Same ==
  ASSUME UNCHANGED <<plan, at>>
  PROVE  /\ stage' = stage /\ Ids' = Ids /\ writers' = writers
         /\ held_writers' = held_writers /\ held' = held
         /\ \A m : producers(m)' = producers(m)
<1>1. stage' = stage
  BY DEF stage
<1>2. Ids' = Ids /\ writers' = writers
  BY <1>1 DEF Ids, writers
<1>3. held_writers' = held_writers
  BY SMT DEF held_writers, reached, consumers, Ids, stage
<1>4. held' = held
  BY <1>1, <1>3 DEF held
<1>5. \A m : producers(m)' = producers(m)
  BY <1>1 DEF producers
<1> QED BY <1>1, <1>2, <1>3, <1>4, <1>5

\* So does the report, while what it reads stays.
LEMMA SameResult ==
  ASSUME UNCHANGED <<plan, at, started, proc, terminated, seen, clock, struck>>
  PROVE  stage_result' = stage_result
BY SMT DEF stage_result, _attribute, candidates, AnyFailed, Members, WhenEnded, Before,
           Position, stage, producers, _broken_pipe, Failed, Exited, Zero, writers

\* Each process has its place in the plan.
LEMMA Placed ==
  ASSUME plan \in Plans, at \in 1 .. Len(plan.stages), NEW m \in Ids
  PROVE  Position(m) \in Nat /\ stage.ids[Position(m)] = m
<1>1. Len(stage.ids) \in Nat
  BY Staged, LenProperties DEF AStage
<1>2. \E i \in 1 .. Len(stage.ids) : stage.ids[i] = m
  BY DEF Ids
<1> QED BY <1>1, <1>2 DEF Position

\* The first of some members is one of them.
LEMMA FirstIsOne ==
  ASSUME started \in Seq(Ids), NEW S, S \subseteq Members
  PROVE  /\ S # {} => FirstOf(S) \in S
         /\ S = {} => FirstOf(S) = Nobody
<1> DEFINE P == {i \in 1 .. Len(started) : started[i] \in S}
<1>1. Len(started) \in Nat
  BY LenProperties
<1>2. ASSUME S # {} PROVE FirstOf(S) \in S
  <2>1. P \in SUBSET Nat /\ P # {}
    BY <1>1, <1>2 DEF Members
  <2>2. PICK i \in P : \A j \in P : i <= j
    BY <2>1, Least
  <2>3. i \in 1 .. Len(started) /\ started[i] \in S /\ \A j \in 1 .. i - 1 : started[j] \notin S
    BY <2>2, <1>1
  <2> QED BY <1>2, <2>3 DEF FirstOf
<1> QED BY <1>2 DEF FirstOf

\* So is the next to be spawned.
LEMMA NextIsOne ==
  ASSUME plan \in Plans, at \in 1 .. Len(plan.stages), placed \subseteq Ids, placed # Ids
  PROVE  /\ _spawn_order \in Ids \ placed
         /\ SpawnReady # {} => _spawn_order \in SpawnReady
<1> DEFINE from == IF SpawnReady = {} THEN Ids \ placed ELSE SpawnReady
           P == {Position(m) : m \in from}
<1>1. from \subseteq Ids \ placed /\ from # {}
  BY DEF SpawnReady
<1>2. P \in SUBSET Nat /\ P # {}
  BY <1>1, Placed
<1>3. PICK i \in P : \A j \in P : i <= j
  BY <1>2, Least
<1>4. PICK m \in from : Position(m) = i
  BY <1>3
<1>5. \A n \in from : Position(m) <= Position(n)
  <2> HIDE DEF from
  <2> QED BY <1>3, <1>4
<1> QED BY <1>1, <1>4, <1>5 DEF _spawn_order

\* And whoever the report blames, where there is anyone to blame.
LEMMA CauseIsOne ==
  ASSUME Shape, candidates # {}, Members \subseteq Ids
  PROVE  /\ _attribute.failure \in candidates
         /\ \A n \in candidates : Before(_attribute.failure, n)
<1> DEFINE S1 == {seen[m] : m \in candidates}
<1>1. candidates \subseteq Ids
  BY DEF candidates
<1>2. PICK s \in S1 : \A t \in S1 : s <= t
  <2>1. S1 \in SUBSET Nat /\ S1 # {}
    BY <1>1 DEF Shape
  <2> QED BY <2>1, Least
<1> DEFINE E == {m \in candidates : seen[m] = s}
           B == {m \in E : ~_broken_pipe(m)}
           F == IF B = {} THEN E ELSE B
           P == {Position(m) : m \in F}
<1>3. F \subseteq E /\ F # {}
  BY <1>2
<1>4. P \in SUBSET Nat /\ P # {}
  BY <1>1, <1>3, Placed DEF Shape
<1>5. PICK m \in F : \A n \in F : Position(m) <= Position(n)
  <2>1. PICK i \in P : \A j \in P : i <= j
    BY <1>4, Least
  <2>2. PICK m \in F : Position(m) = i
    BY <2>1
  <2>3. \A n \in F : Position(m) <= Position(n)
    <3> HIDE DEF F
    <3> QED BY <2>1, <2>2
  <2> QED BY <2>2, <2>3
<1>6. ASSUME NEW n \in candidates PROVE Before(m, n)
  <2>1. seen[m] = s /\ seen[n] \in S1 /\ seen[m] \in Nat /\ seen[n] \in Nat /\ m \in candidates
    BY <1>1, <1>3, <1>5, <1>6 DEF Shape
  <2>2. CASE seen[n] # s
    BY <1>2, <2>1, <2>2 DEF Before
  <2>3. CASE n \in E /\ n \in F
    <3>1. _broken_pipe(m) = _broken_pipe(n)
      BY <1>5, <2>3 DEF _broken_pipe
    <3> QED BY <1>5, <2>1, <2>3, <3>1 DEF Before
  <2>4. CASE n \in E /\ n \notin F
    <3>1. ~_broken_pipe(m) /\ _broken_pipe(n)
      BY <1>5, <2>4
    <3> QED BY <2>1, <2>4, <3>1 DEF Before
  <2> QED BY <2>2, <2>3, <2>4
<1>7. m \in candidates
  BY <1>3, <1>5
<1> DEFINE cause == CHOOSE k \in candidates : \A n \in candidates : Before(k, n)
<1>8. cause \in candidates /\ \A n \in candidates : Before(cause, n)
  BY <1>6, <1>7
<1> QED BY <1>8 DEF _attribute

-----------------------------------------------------------------------------
(* Steps that change no process's member, and the report.                  *)

\* Nothing of a stage changes when a variable no part speaks of does.
LEMMA Kept ==
  ASSUME StageInvariant,
         UNCHANGED <<plan, at, phase, placed, started, fed, proc, terminated, seen, clock,
                     watch, struck, results, ending, cut>>,
         stop' \in BOOLEAN, stop => stop'
  PROVE  StageInvariant'
<1> USE Same, SameResult DEF StageInvariant
<1>1. Members' = Members
  BY DEF Members
<1>2. Shape'
  BY <1>1 DEF Shape, Someone
<1>3. AllSpawned'
  BY <1>1 DEF AllSpawned, Quiet
<1>4. Unwatched'
  BY DEF Unwatched, Starting
<1>5. SeenEnded'
  BY <1>1 DEF SeenEnded, Exited, Watching
<1>6. Verdict'
  BY <1>1 DEF Verdict, Blamable, Zero, Failed, Exited
<1>7. Struck'
  BY <1>1 DEF Struck, Quiet, CutShort, Watching, Starting
<1>8. Reaped'
  BY DEF Reaped, Over, Running, Quiet, LastResult, Reported, Left
<1>9. Stopping'
  BY DEF Stopping, Running
<1> QED BY <1>9, <1>2, <1>3, <1>4, <1>5, <1>6, <1>7, <1>8

\* A process ends.
LEMMA ExitInv ==
  ASSUME StageInvariant, NEW m \in Ids, Exit(m)
  PROVE  StageInvariant'
<1> USE Same DEF StageInvariant, Exit
<1>0. /\ Members' = Members
      /\ proc' \in [Ids -> Fates] /\ Running(m) /\ phase # "done"
      /\ \A n \in Ids \ {m} : proc'[n] = proc[n]
      /\ proc'[m] \notin {"none", "run"}
      /\ ending' \subseteq Members'
  BY DEF Members, Shape, Fates
<1>1. \A n \in Ids : /\ Exited(n) => n # m /\ Exited(n)' /\ (Zero(n)' <=> Zero(n))
                     /\ Running(n)' => Running(n)
  BY <1>0 DEF Exited, Zero, Running
<1>2. Shape'
  BY <1>0 DEF Shape, Someone
<1>3. AllSpawned'
  BY <1>0 DEF AllSpawned, Quiet, Shape, Running
<1>4. Unwatched'
  BY DEF Unwatched, Starting
<1>5. SeenEnded'
  BY <1>0, <1>1 DEF SeenEnded, Watching, Shape
<1>6. Verdict'
  <2>1. \A n \in Members : n \in Ids /\ (seen[n] # 0 => (Zero(n)' <=> Zero(n)))
    BY <1>1 DEF SeenEnded, AllSpawned, Shape
  <2>2. \A n \in Members : Failed(n) => Failed(n)'
    BY <1>1, <2>1 DEF Failed
  <2>3. \A n \in Members : Blamable(n) => Blamable(n)'
    BY <1>0, <2>1, <2>2 DEF Blamable
  <2>4. \A n : Blamable(n) => n \in Members
    BY DEF Blamable
  <2>5. \A n \in Ids : seen[n] # 0 => n \in Members
    BY DEF SeenEnded
  <2> QED BY <1>0, <2>1, <2>3, <2>4, <2>5 DEF Verdict
<1>7. Struck'
  BY <1>0 DEF Struck, Quiet, CutShort, Watching, Starting
<1>8. Reaped'
  BY <1>0, <1>1 DEF Reaped, Over, Quiet, Left, Reported
<1>9. Stopping'
  BY <1>0, <1>1 DEF Stopping
<1> QED BY <1>9, <1>2, <1>3, <1>4, <1>5, <1>6, <1>7, <1>8

-----------------------------------------------------------------------------
(* Steps that move the runner on.                                          *)

\* A step that only moves the runner on, before the stage is reaped.
LEMMA Moved ==
  ASSUME StageInvariant,
         UNCHANGED <<plan, at, placed, started, fed, proc, terminated, seen, clock, watch,
                     stop, results, ending, cut>>,
         phase \in Starting \cup Watching \cup {"ended"},
         phase' \in Starting \cup Watching \cup {"ended", "end"},
         phase' \in Starting => phase \in Starting /\ struck' = struck,
         phase = "spawn" /\ phase' # "spawn" /\ Quiet' => placed = Ids,
         Quiet' => Quiet,
         struck' \in [failed : Someone, timedOut : BOOLEAN, wedge : BOOLEAN,
                      interrupted : BOOLEAN, raised : BOOLEAN],
         Struck'
  PROVE  StageInvariant'
<1> USE Same DEF StageInvariant
<1>1. Members' = Members
  BY DEF Members
<1>2. Shape'
  BY <1>1 DEF Shape, Someone, Phases, Starting, Watching
<1>3. AllSpawned'
  BY <1>1 DEF AllSpawned
<1>4. Unwatched'
  BY DEF Unwatched
<1>5. SeenEnded'
  <2>1. \A m \in Ids : ~terminated[m]
    BY DEF SeenEnded, Unwatched
  <2> QED BY <1>1, <2>1 DEF SeenEnded, Exited
<1>6. Verdict'
  BY <1>1 DEF Verdict, Blamable, Zero, Failed, Exited
<1>8. Reaped'
  BY DEF Reaped, Over, Starting, Watching
<1>7. Stopping'
  BY DEF Stopping, Starting, Watching
<1> QED BY <1>7, <1>2, <1>3, <1>4, <1>5, <1>6, <1>8

\* A member cannot be spawned.
LEMMA SpawnRaisesInv ==
  ASSUME StageInvariant, SpawnRaises
  PROVE  StageInvariant'
<1> USE DEF StageInvariant, SpawnRaises
<1>1. struck' \in [failed : Someone, timedOut : BOOLEAN, wedge : BOOLEAN,
                   interrupted : BOOLEAN, raised : BOOLEAN] /\ struck'.raised
  BY DEF Shape
<1>2. Struck' /\ ~Quiet'
  BY <1>1 DEF Struck, Quiet, Watching
<1> QED BY <1>1, <1>2, Moved DEF Starting, Watching

\* Ctrl-C.
LEMMA InterruptInv ==
  ASSUME StageInvariant, Interrupt
  PROVE  StageInvariant'
<1> USE DEF StageInvariant, Interrupt
<1>1. struck' \in [failed : Someone, timedOut : BOOLEAN, wedge : BOOLEAN,
                   interrupted : BOOLEAN, raised : BOOLEAN] /\ struck'.interrupted
  BY Same DEF NotStruck, Someone, Shape
<1>2. Struck' /\ ~Quiet'
  BY <1>1 DEF Struck, Quiet, Watching
<1> QED BY <1>1, <1>2, Moved DEF Starting, Watching

\* The stage is spawned, or its writers settled.
LEMMA SpawnedInv ==
  ASSUME StageInvariant, Spawned \/ FedAll
  PROVE  StageInvariant'
<1> USE DEF StageInvariant, Spawned, FedAll
<1>1. Struck' /\ (Quiet' => Quiet)
  BY DEF Struck, Unwatched, Quiet, Starting, Watching, NotStruck
<1>2. struck' \in [failed : Someone, timedOut : BOOLEAN, wedge : BOOLEAN,
                   interrupted : BOOLEAN, raised : BOOLEAN]
  BY DEF Shape
<1> QED BY <1>1, <1>2, Moved DEF Starting, Watching

\* The watch sleeps.
LEMMA SleepInv ==
  ASSUME StageInvariant, Sleep
  PROVE  StageInvariant'
<1> USE DEF StageInvariant, Sleep
<1>1. Struck' /\ (Quiet' => Quiet)
  BY DEF Struck, Quiet, Starting, Watching, NotStruck
<1>2. struck' \in [failed : Someone, timedOut : BOOLEAN, wedge : BOOLEAN,
                   interrupted : BOOLEAN, raised : BOOLEAN]
  BY DEF Shape
<1> QED BY <1>1, <1>2, Moved DEF Starting, Watching

\* A deadline strikes.
LEMMA StrikeInv ==
  ASSUME StageInvariant, NEW wedge \in BOOLEAN, Strike(wedge)
  PROVE  StageInvariant'
<1> DEFINE hung == FirstOf({m \in Members : Running(m)})
<1> USE DEF StageInvariant, Strike
<1>0. /\ struck = NotStruck /\ Quiet
      /\ struck \in [failed : Someone, timedOut : BOOLEAN, wedge : BOOLEAN,
                     interrupted : BOOLEAN, raised : BOOLEAN]
  BY DEF Struck, Watching, Quiet, NotStruck, Shape
<1>a. Nobody \notin Ids /\ Members' = Members /\ Members \subseteq Ids /\ started \in Seq(Ids)
      /\ Someone' = Someone
  BY Staged, Same DEF Shape, AllSpawned, Members, Someone
<1>b. hung # Nobody => hung \in Members
  BY <1>a, FirstIsOne
<1>1. CASE hung = Nobody
  <2>1. struck' \in [failed : Someone, timedOut : BOOLEAN, wedge : BOOLEAN,
                     interrupted : BOOLEAN, raised : BOOLEAN] /\ struck'.raised /\ phase' = "end"
    BY <1>0, <1>1
  <2>2. Struck' /\ ~Quiet'
    BY <2>1 DEF Struck, Quiet, Watching
  <2> QED BY <2>1, <2>2, Moved DEF Starting, Watching
<1>2. CASE hung # Nobody
  <2>1. /\ struck' \in [failed : Someone, timedOut : BOOLEAN, wedge : BOOLEAN,
                     interrupted : BOOLEAN, raised : BOOLEAN]
        /\ struck'.failed = hung /\ struck'.timedOut /\ phase' = "ended"
    BY <1>0, <1>2, <1>a, <1>b DEF Someone
  <2>2. Struck'
    BY <1>2, <1>a, <1>b, <2>1 DEF Struck, Quiet, Watching
  <2> QED BY <1>0, <2>1, <2>2, Moved DEF Starting, Watching
<1> QED BY <1>1, <1>2

\* A writer that never started is what ended the stage.
LEMMA EndedInv ==
  ASSUME StageInvariant, Ended
  PROVE  StageInvariant'
<1> DEFINE missing == {i \in held_writers : stage.feeders[i][1] \notin Members}
<1> USE DEF StageInvariant, Ended
<1>0. struck \in [failed : Someone, timedOut : BOOLEAN, wedge : BOOLEAN,
                  interrupted : BOOLEAN, raised : BOOLEAN]
  BY DEF Shape
<1>a. /\ Nobody \notin Ids /\ Members' = Members /\ Someone' = Someone /\ held' = held
      /\ writers' = writers
      /\ \A i \in held_writers : stage.feeders[i][1] \in Ids
  <2>1. Nobody \notin Ids /\ \A i \in held_writers : stage.feeders[i][1] \in Ids
    BY Staged DEF Shape
  <2>2. Members' = Members /\ Someone' = Someone /\ held' = held /\ writers' = writers
    BY Same DEF Members, Someone
  <2> QED BY <2>1, <2>2
<1>1. CASE UNCHANGED struck /\ (struck.failed = Nobody /\ ~CutShort => missing = {})
  <2>1. struck.failed = Nobody /\ ~CutShort => held \subseteq Members
    BY <1>1 DEF held
  <2>2. Struck' /\ (Quiet' => Quiet)
    BY <1>1, <1>a, <2>1 DEF Struck, Quiet, CutShort, Watching, Starting
  <2> QED BY <1>0, <1>1, <1>a, <2>2, Moved DEF Starting, Watching
<1>2. CASE \E i \in missing : struck' = [struck EXCEPT !.failed = stage.feeders[i][1],
                                                       !.timedOut = TRUE, !.wedge = TRUE]
  <2>0. PICK w \in Ids : struck' = [struck EXCEPT !.failed = w, !.timedOut = TRUE,
                                                  !.wedge = TRUE]
    BY <1>2, <1>a
  <2>1. /\ struck' \in [failed : Someone, timedOut : BOOLEAN, wedge : BOOLEAN,
                     interrupted : BOOLEAN, raised : BOOLEAN]
        /\ struck'.failed # Nobody /\ struck'.timedOut /\ struck'.wedge
        /\ struck'.raised = struck.raised /\ struck'.interrupted = struck.interrupted
    BY <1>0, <2>0, <1>a DEF Someone
  <2>2. Struck' /\ (Quiet' => Quiet)
    BY <1>a, <2>1 DEF Struck, Quiet, Watching
  <2> QED BY <2>1, <2>2, Moved, <1>a DEF Starting, Watching
<1> QED BY <1>1, <1>2 DEF CutShort

-----------------------------------------------------------------------------
(* The start of a stage.                                                   *)

\* One more is a member.
LEMMA OneMore ==
  ASSUME started \in Seq(Ids), NEW w \in Ids, started' = Append(started, w), Ids' = Ids
  PROVE  started' \in Seq(Ids') /\ Members' = Members \cup {w}
<1>1. started' \in Seq(Ids) /\ Len(started') = Len(started) + 1 /\ Len(started) \in Nat
      /\ \A i \in 1 .. Len(started) : started'[i] = started[i]
      /\ started'[Len(started) + 1] = w
  BY AppendProperties, LenProperties
<1>2. 1 .. Len(started') = 1 .. Len(started) \cup {Len(started) + 1}
  BY <1>1
<1> QED BY <1>1, <1>2 DEF Members

\* A member is started before anything is watched.
LEMMA Joined ==
  ASSUME StageInvariant, phase \in Starting, NEW w \in Ids,
         UNCHANGED <<plan, at, phase, terminated, seen, clock, watch, struck, stop, results,
                     ending, cut>>,
         started' = Append(started, w), proc' = [proc EXCEPT ![w] = "run"],
         fed' \in Nat, placed' \in SUBSET Ids, placed \cup {w} \subseteq placed',
         placed' \subseteq placed \cup {w}
  PROVE  StageInvariant'
<1> USE Same DEF StageInvariant
<1>1. Members' = Members \cup {w} /\ started' \in Seq(Ids)
  BY OneMore DEF Shape
<1>2. proc' \in [Ids -> Fates] /\ proc'[w] = "run" /\ \A m \in Ids \ {w} : proc'[m] = proc[m]
  BY DEF Shape, Fates
<1>3. watch = NoWatch /\ struck = NotStruck /\ \A m \in Ids : seen[m] = 0 /\ ~terminated[m]
  BY DEF Unwatched
<1>4. Shape'
  BY <1>1, <1>2 DEF Shape, Someone, Stopping, Starting
<1>5. AllSpawned'
  BY <1>1, <1>2 DEF AllSpawned, Quiet, Shape
<1>6. Unwatched'
  BY DEF Unwatched
<1>7. SeenEnded'
  BY <1>1, <1>3 DEF SeenEnded, NoWatch, Starting, Watching, Stopping
<1>8. Verdict'
  BY <1>3 DEF Verdict, NoWatch
<1>9. Struck'
  BY <1>3 DEF Struck, NotStruck, Starting, Watching
<1>10. Reaped'
  BY DEF Reaped, Over, Starting
<1>11. Stopping'
  BY DEF Stopping, Starting
<1> QED BY <1>11, <1>4, <1>5, <1>6, <1>7, <1>8, <1>9, <1>10

\* A member is spawned, or held back.
LEMMA SpawnInv ==
  ASSUME StageInvariant, Spawn
  PROVE  StageInvariant'
<1> DEFINE m == _spawn_order
<1> USE DEF StageInvariant, Spawn
<1>1. m \in Ids \ placed /\ placed \subseteq Ids /\ fed \in Nat /\ Quiet
  BY NextIsOne DEF Shape, Unwatched, Quiet, Starting, NotStruck
<1>2. CASE m \notin held
  BY <1>1, <1>2, Joined DEF Starting
<1>3. CASE m \in held
  <2> USE <1>1, <1>3, Same
  <2>1. Members' = Members
    BY DEF Members
  <2>2. Shape'
    BY <2>1 DEF Shape, Someone
  <2>3. AllSpawned'
    BY <2>1 DEF AllSpawned
  <2>4. Unwatched'
    BY DEF Unwatched
  <2>5. SeenEnded'
    BY <2>1 DEF SeenEnded, Exited, Watching
  <2>6. Verdict'
    BY <2>1 DEF Verdict, Blamable, Zero, Failed, Exited
  <2>7. Struck'
    BY <2>1 DEF Struck, Quiet, CutShort, Watching, Starting
  <2>8. Reaped'
    BY DEF Reaped, Over
  <2>9. Stopping'
    BY DEF Stopping
  <2> QED BY <2>9, <2>2, <2>3, <2>4, <2>5, <2>6, <2>7, <2>8
<1> QED BY <1>2, <1>3

\* A held writer is settled.
LEMMA FeedWriterInv ==
  ASSUME StageInvariant, FeedWriter
  PROVE  StageInvariant'
<1> USE DEF StageInvariant
<1>0. phase = "feed" /\ UNCHANGED <<plan, at, placed, terminated, seen, clock, watch, stop,
                                    results, ending, cut>>
  BY DEF FeedWriter
<1>1. /\ phase = "feed" /\ struck = NotStruck /\ placed = Ids /\ Quiet
      /\ watch = NoWatch /\ UNCHANGED <<plan, at, placed, terminated, seen, clock, watch, stop,
                                         results, ending, cut>>
      /\ struck \in [failed : Someone, timedOut : BOOLEAN, wedge : BOOLEAN,
                     interrupted : BOOLEAN, raised : BOOLEAN]
  BY <1>0 DEF Unwatched, Starting, NotStruck, Quiet, AllSpawned, Shape
<1>2. PICK i \in held_writers :
        \/ /\ started' = Append(started, stage.feeders[i][1])
           /\ proc' = [proc EXCEPT ![stage.feeders[i][1]] = "run"]
           /\ fed' = i /\ UNCHANGED <<phase, struck>>
        \/ fed' \in Nat /\ UNCHANGED <<started, proc, phase, struck>>
        \/ /\ phase' = "ended"
           /\ struck' = [struck EXCEPT !.failed = stage.feeders[i][2][1],
                                       !.timedOut = TRUE, !.wedge = TRUE]
           /\ UNCHANGED <<started, proc, fed>>
  <2>1. Unfed \subseteq held_writers /\ Len(stage.feeders) \in Nat
    BY Staged, LenProperties DEF Unfed, AStage, Shape
  <2>2. \A j \in held_writers : j \in Nat
    BY Staged DEF Shape
  <2> QED BY <2>1, <2>2 DEF FeedWriter, Unsettled
<1> DEFINE w == stage.feeders[i][1]
           r == stage.feeders[i][2][1]
<1>3. i \in Nat /\ w \in Ids /\ r \in Ids /\ Nobody \notin Ids
  BY Staged DEF Shape
<1>4. CASE started' = Append(started, w) /\ proc' = [proc EXCEPT ![w] = "run"]
           /\ fed' = i /\ UNCHANGED <<phase, struck>>
  BY <1>1, <1>3, <1>4, Joined DEF Starting
<1>5. CASE fed' \in Nat /\ UNCHANGED <<started, proc, phase, struck>>
  <2> USE <1>1, <1>3, <1>5, Same
  <2>1. Members' = Members
    BY DEF Members
  <2>2. Shape'
    BY <2>1 DEF Shape, Someone
  <2>3. AllSpawned'
    BY <2>1 DEF AllSpawned, Quiet
  <2>4. Unwatched'
    BY DEF Unwatched
  <2>5. SeenEnded'
    BY <2>1 DEF SeenEnded, Exited, Watching
  <2>6. Verdict'
    BY <2>1 DEF Verdict, Blamable, Zero, Failed, Exited
  <2>7. Struck'
    BY <2>1 DEF Struck, Quiet, CutShort, Watching, Starting
  <2>8. Reaped'
    BY DEF Reaped, Over
  <2>9. Stopping'
    BY DEF Stopping
  <2> QED BY <2>9, <2>2, <2>3, <2>4, <2>5, <2>6, <2>7, <2>8
<1>6. CASE /\ phase' = "ended"
           /\ struck' = [struck EXCEPT !.failed = r, !.timedOut = TRUE, !.wedge = TRUE]
           /\ UNCHANGED <<started, proc, fed>>
  <2>1. /\ struck' \in [failed : Someone, timedOut : BOOLEAN, wedge : BOOLEAN,
                     interrupted : BOOLEAN, raised : BOOLEAN]
        /\ struck'.failed # Nobody /\ struck'.timedOut /\ struck'.wedge
        /\ ~struck'.raised /\ ~struck'.interrupted
    BY <1>1, <1>3, <1>6 DEF Someone, Quiet
  <2>2. Struck' /\ (Quiet' => Quiet)
    BY <1>1, <1>6, <2>1 DEF Struck, Quiet, Watching
  <2> QED BY <1>1, <1>6, <2>1, <2>2, Moved DEF Starting, Watching
<1> QED BY <1>2, <1>4, <1>5, <1>6

\* A watch that saw nothing and a stage nothing struck have their shape.
LEMMA Blank ==
  ASSUME NEW S
  PROVE  /\ NoWatch \in [todo : Seq(S), just : SUBSET S, suspect : S \cup {Nobody},
                         ended : S \cup {Nobody}, settled : Nat]
         /\ NotStruck \in [failed : S \cup {Nobody}, timedOut : BOOLEAN, wedge : BOOLEAN,
                           interrupted : BOOLEAN, raised : BOOLEAN]
         /\ [m \in S |-> "none"] \in [S -> Fates]
         /\ [m \in S |-> FALSE] \in [S -> BOOLEAN]
         /\ [m \in S |-> 0] \in [S -> Nat]
<1>1. <<>> \in Seq(S)
  OBVIOUS
<1>2. [m \in S |-> FALSE] \in [S -> BOOLEAN]
  BY Zenon
<1> QED BY <1>1, <1>2 DEF NoWatch, NotStruck, Fates

\* A run begins.
LEMMA InitInv ==
  ASSUME Init
  PROVE  StageInvariant
<1> USE DEF Init
<1>0. /\ plan \in Plans /\ at \in 1 .. Len(plan.stages)
      /\ Ids = Members1(plan.stages[1].ids)
  <2>1. plan.stages \in Seq(Members1(plan.stages)) /\ plan.stages # <<>>
    BY StageAssumption
  <2> QED BY <2>1, LenProperties, EmptySeq DEF Ids, stage, Members1
<1>1. /\ proc = [m \in Ids |-> "none"] /\ terminated = [m \in Ids |-> FALSE]
      /\ seen = [m \in Ids |-> 0]
  BY <1>0 DEF Fresh
<1>2. Members = {} /\ Members1(results) = {} /\ results = <<>>
  BY DEF Members, Members1
<1>3. Shape
  <2>1. started \in Seq(Ids) /\ results \in Seq(Members1(results)) /\ watch.todo \in Seq(Ids)
    BY <1>2 DEF NoWatch
  <2>2. /\ watch \in [todo : Seq(Ids), just : SUBSET Ids, suspect : Someone,
                      ended : Someone, settled : Nat]
        /\ struck \in [failed : Someone, timedOut : BOOLEAN, wedge : BOOLEAN,
                       interrupted : BOOLEAN, raised : BOOLEAN]
    BY Blank DEF Someone
  <2>3. proc \in [Ids -> Fates] /\ terminated \in [Ids -> BOOLEAN] /\ seen \in [Ids -> Nat]
    <3> HIDE DEF Init
    <3> QED BY <1>1, Blank, Zenon
  <2>4. phase \in Phases /\ clock \in Nat \ {0} /\ clock = 1 /\ cut \in Cuts /\ ending = {}
    BY DEF Phases, Cuts
  <2>5. \A m \in Ids : seen[m] <= clock
    <3> HIDE DEF Init
    <3> QED BY <1>1, <2>4
  <2> QED BY <1>0, <2>1, <2>2, <2>3, <2>4, <2>5 DEF Shape
<1>4. AllSpawned
  BY <1>1, <1>2 DEF AllSpawned
<1>5. Unwatched
  BY <1>1 DEF Unwatched
<1>6. SeenEnded
  BY <1>1 DEF SeenEnded, NoWatch
<1>7. Verdict
  BY <1>1 DEF Verdict, NoWatch
<1>8. Struck
  BY DEF Struck, Starting, NotStruck, Watching
<1>9. Reaped
  BY DEF Reaped, Over
<1>10. Stopping
  BY DEF Stopping
<1> QED BY <1>10, <1>3, <1>4, <1>5, <1>6, <1>7, <1>8, <1>9 DEF StageInvariant

\* The next stage begins, or the run is over.
LEMMA NextStageInv ==
  ASSUME StageInvariant, NextStage
  PROVE  StageInvariant'
<1> USE DEF NextStage, StageInvariant
<1>1. CASE stop
  <2> USE <1>1, Same
  <2>1. Members' = Members
    BY DEF Members
  <2>2. Shape'
    BY <2>1 DEF Shape, Someone, Phases
  <2>3. AllSpawned'
    BY <2>1 DEF AllSpawned, Quiet
  <2>4. Unwatched'
    BY DEF Unwatched, Starting
  <2>5. SeenEnded'
    BY <2>1 DEF SeenEnded, Exited, Watching
  <2>6. Verdict'
    BY <2>1 DEF Verdict, Blamable, Zero, Failed, Exited
  <2>7. Struck'
    BY <2>1 DEF Struck, Quiet, CutShort, Watching, Starting
  <2>8. Reaped'
    <3>1. stage_result' = stage_result /\ LastResult' = LastResult
      BY SameResult DEF LastResult
    <3> QED BY <3>1 DEF Reaped, Over, Running, Left, Reported, Quiet
  <2>9. Stopping'
    BY DEF Stopping
  <2> QED BY <2>9, <2>2, <2>3, <2>4, <2>5, <2>6, <2>7, <2>8
<1>2. CASE ~stop
  <2> USE <1>2
  <2>0. /\ plan' \in Plans' /\ at' \in 1 .. Len(plan'.stages)
        /\ Ids' = Members1(plan.stages[at + 1].ids)
    <3>1. plan' = plan /\ at' = at + 1 /\ Plans' = Plans
      OBVIOUS
    <3>2. plan \in Plans /\ at \in 1 .. Len(plan.stages) /\ at # Len(plan.stages)
      BY DEF Shape, Reaped
    <3>3. Len(plan.stages) \in Nat
      BY <3>2, Staged
    <3>4. plan' \in Plans' /\ at' \in 1 .. Len(plan'.stages)
      BY <3>1, <3>2, <3>3
    <3>5. Ids' = Members1(plan.stages[at + 1].ids)
      BY <3>1 DEF Ids, stage, Members1
    <3> QED BY <3>4, <3>5
  <2>1. /\ proc' = [m \in Ids' |-> "none"] /\ terminated' = [m \in Ids' |-> FALSE]
        /\ seen' = [m \in Ids' |-> 0]
    BY <2>0 DEF Fresh
  <2>2. Members' = {}
    BY DEF Members
  <2>3. Shape'
    <3>1. started' \in Seq(Ids') /\ <<>> \in Seq(Ids')
      OBVIOUS
    <3>2. /\ watch' \in [todo : Seq(Ids'), just : SUBSET Ids', suspect : Someone',
                         ended : Someone', settled : Nat]
          /\ struck' \in [failed : Someone', timedOut : BOOLEAN, wedge : BOOLEAN,
                          interrupted : BOOLEAN, raised : BOOLEAN]
      BY Blank DEF Someone
    <3>3. proc' \in [Ids' -> Fates] /\ terminated' \in [Ids' -> BOOLEAN]
          /\ seen' \in [Ids' -> Nat]
      BY <2>1, Blank
    <3>4. phase' \in Phases /\ clock' \in Nat \ {0} /\ \A m \in Ids' : seen'[m] <= clock'
      BY <2>1 DEF Phases
    <3>5. placed' \subseteq Ids' /\ fed' \in Nat /\ stop' \in BOOLEAN
          /\ results' \in Seq(Members1(results')) /\ ending' = {} /\ cut' \in Cuts
      BY DEF Shape, Members1, Stopping
    <3> QED BY <2>0, <3>1, <3>2, <3>3, <3>4, <3>5 DEF Shape
  <2>4. AllSpawned'
    BY <2>1, <2>2 DEF AllSpawned
  <2>5. Unwatched'
    BY <2>1 DEF Unwatched
  <2>6. SeenEnded'
    BY <2>1 DEF SeenEnded, NoWatch, Stopping
  <2>7. Verdict'
    BY <2>1 DEF Verdict, NoWatch
  <2>8. Struck'
    BY DEF Struck, Starting, NotStruck, Watching
  <2>9. Reaped'
    BY DEF Reaped, Over
  <2>10. Stopping'
    BY DEF Stopping
  <2> QED BY <2>10, <2>3, <2>4, <2>5, <2>6, <2>7, <2>8, <2>9
<1> QED BY <1>1, <1>2

-----------------------------------------------------------------------------
(* The watch, and the end of the stage.                                    *)

\* A poll begins.
LEMMA PollInv ==
  ASSUME StageInvariant, Poll
  PROVE  StageInvariant'
<1> USE Same DEF StageInvariant, Poll
<1>0. Members' = Members
  BY DEF Members
<1>1. /\ watch' \in [todo : Seq(Ids), just : SUBSET Ids, suspect : Someone,
                     ended : Someone, settled : Nat]
      /\ watch'.suspect = watch.suspect /\ watch'.ended = watch.ended
      /\ watch'.just \subseteq watch.just
      /\ watch' = watch \/ watch'.todo = started
  BY DEF Shape
<1>2. Shape'
  BY <1>0, <1>1 DEF Shape, Someone, Phases
<1>3. AllSpawned'
  BY <1>0 DEF AllSpawned, Quiet
<1>4. Unwatched'
  BY DEF Unwatched, Starting
<1>5. SeenEnded'
  <2>1. \A i \in 1 .. Len(watch'.todo) : watch'.todo[i] \in Members
    BY <1>1 DEF SeenEnded, Members
  <2> QED BY <1>0, <1>1, <2>1 DEF SeenEnded, Exited, Watching
<1>6. Verdict'
  BY <1>0, <1>1 DEF Verdict, Blamable, Zero, Failed, Exited
<1>7. Struck'
  BY <1>0, <1>1 DEF Struck, Quiet, CutShort, Watching, Starting, NotStruck
<1>8. Reaped'
  BY DEF Reaped, Over
<1>9. Stopping'
  BY DEF Stopping
<1> QED BY <1>9, <1>2, <1>3, <1>4, <1>5, <1>6, <1>7, <1>8

\* A member is looked at.
LEMMA ScanInv ==
  ASSUME StageInvariant, Scan
  PROVE  StageInvariant'
<1> USE Same DEF StageInvariant, Scan
<1> DEFINE m == Head(watch.todo)
<1>0. Members' = Members
  BY DEF Members
<1>a. watch.todo \in Seq(Ids) /\ watch.todo # <<>> /\ m = watch.todo[1]
      /\ 1 \in 1 .. Len(watch.todo) /\ m \in Members /\ m \in Ids
  <2>1. watch.todo \in Seq(Ids) /\ watch.todo # <<>>
    BY DEF Shape
  <2>2. m = watch.todo[1] /\ 1 \in 1 .. Len(watch.todo) /\ m \in Ids
    BY <2>1, HeadTailProperties, EmptySeq, LenProperties
  <2> QED BY <2>1, <2>2 DEF SeenEnded
<1>b. /\ Tail(watch.todo) \in Seq(Ids)
      /\ \A i \in 1 .. Len(Tail(watch.todo)) : Tail(watch.todo)[i] \in Members
  <2>1. /\ Tail(watch.todo) \in Seq(Ids) /\ Len(watch.todo) \in Nat
        /\ Len(Tail(watch.todo)) = Len(watch.todo) - 1
        /\ \A i \in 1 .. Len(Tail(watch.todo)) : Tail(watch.todo)[i] = watch.todo[i + 1]
    BY <1>a, HeadTailProperties, LenProperties
  <2>2. \A i \in 1 .. Len(Tail(watch.todo)) : i + 1 \in 1 .. Len(watch.todo)
    BY <2>1
  <2> QED BY <2>1, <2>2 DEF SeenEnded
<1>1. /\ watch' \in [todo : Seq(Ids), just : SUBSET Ids, suspect : Someone,
                     ended : Someone, settled : Nat]
      /\ watch'.suspect = watch.suspect /\ watch'.ended = watch.ended
      /\ watch'.todo = Tail(watch.todo)
      /\ \A n \in watch'.just : n \in watch.just \/ (n = m /\ seen[m] = 0 /\ Exited(m))
  BY <1>a, <1>b DEF Shape
<1>2. Shape'
  BY <1>0, <1>1 DEF Shape, Someone, Phases
<1>3. AllSpawned'
  BY <1>0 DEF AllSpawned, Quiet
<1>4. Unwatched'
  BY DEF Unwatched, Starting
<1>5. SeenEnded'
  BY <1>0, <1>1, <1>a, <1>b DEF SeenEnded, Exited, Watching, Stopping
<1>6. Verdict'
  BY <1>0, <1>1 DEF Verdict, Blamable, Zero, Failed, Exited
<1>7. Struck'
  BY <1>0, <1>1 DEF Struck, Quiet, CutShort, Watching, Starting, NotStruck
<1>8. Reaped'
  BY DEF Reaped, Over
<1>9. Stopping'
  BY DEF Stopping
<1> QED BY <1>9, <1>2, <1>3, <1>4, <1>5, <1>6, <1>7, <1>8

-----------------------------------------------------------------------------
(* The end of a stage.                                                     *)

\* A step of the end, which starts nothing and looks at nothing.
LEMMA EndStep ==
  ASSUME StageInvariant,
         UNCHANGED <<plan, at, placed, started, fed, seen, clock, watch, struck, stop>>,
         phase \in Closing, phase' \in Closing \ {"end"},
         proc' \in [Ids -> Fates], terminated' \in [Ids -> BOOLEAN],
         \A m \in Ids : /\ Exited(m) => proc'[m] = proc[m]
                        /\ proc'[m] = "none" <=> proc[m] = "none",
         \A m \in Ids : terminated'[m] => terminated[m] \/ m \in ending,
         ending' \subseteq Members, \A m \in ending' : seen[m] = 0 /\ m \notin watch.just,
         cut' \in Cuts, results' \in Seq(Members1(results')),
         Stopping', Reaped'
  PROVE  StageInvariant'
<1> USE Same DEF StageInvariant
<1>0. Members' = Members /\ Members \subseteq Ids
  BY DEF Members, AllSpawned, Shape
<1>1. \A m \in Ids : Exited(m) => Exited(m)' /\ (Zero(m)' <=> Zero(m))
  BY DEF Exited, Zero
<1>2. Shape'
  BY <1>0 DEF Shape, Someone, Phases, Closing
<1>3. AllSpawned'
  BY <1>0 DEF AllSpawned, Quiet, Shape, Closing
<1>4. Unwatched'
  BY DEF Unwatched, Starting, Closing
<1>5. SeenEnded'
  BY <1>0, <1>1 DEF SeenEnded, Watching, Shape, Closing
<1>6. Verdict'
  <2>1. \A n \in Members : n \in Ids /\ (seen[n] # 0 => (Zero(n)' <=> Zero(n)))
    BY <1>0, <1>1 DEF SeenEnded
  <2>2. \A n \in Members : Failed(n) => Failed(n)'
    BY <1>1, <2>1 DEF Failed
  <2>3. \A n \in Members : Blamable(n) => Blamable(n)'
    BY <1>0, <2>1, <2>2 DEF Blamable
  <2>4. \A n : Blamable(n) => n \in Members
    BY DEF Blamable
  <2>5. \A n \in Ids : seen[n] # 0 => n \in Members
    BY DEF SeenEnded
  <2> QED BY <1>0, <2>1, <2>3, <2>4, <2>5 DEF Verdict
<1>7. Struck'
  BY <1>0 DEF Struck, Quiet, CutShort, Watching, Starting, Closing
<1> QED BY <1>2, <1>3, <1>4, <1>5, <1>6, <1>7

\* Whatever still runs is to be told to end.
LEMMA StopInv ==
  ASSUME StageInvariant, _stop
  PROVE  StageInvariant'
<1> USE DEF StageInvariant, _stop
<1>1. /\ ending' \subseteq Members /\ Members \subseteq Ids
      /\ \A m \in ending' : Running(m)
      /\ \A m \in Ids : Running(m) => m \in ending'
  BY DEF StillRunning, AllSpawned, Shape, Running
<1>2. \A m \in ending' : seen[m] = 0 /\ m \notin watch.just
  BY <1>1 DEF SeenEnded, Running, Exited
<1>3. Stopping'
  BY <1>1, Same DEF Stopping, Running
<1>4. Reaped'
  BY DEF Reaped, Over
<1> QED BY <1>1, <1>2, <1>3, <1>4, EndStep DEF Shape, Closing

\* The first to be told is a member.
LEMMA FirstEnding ==
  ASSUME StageInvariant, ending # {}
  PROVE  FirstOf(ending) \in ending /\ FirstOf(ending) \in Ids
BY FirstIsOne DEF StageInvariant, Shape, AllSpawned

\* One is told.
LEMMA TellInv ==
  ASSUME StageInvariant, Tell
  PROVE  StageInvariant'
<1> DEFINE m == FirstOf(ending)
<1> USE DEF StageInvariant
<1>1. m \in ending /\ m \in Ids
  BY FirstEnding DEF Tell
<1>2. /\ phase = "tell" /\ terminated' = [terminated EXCEPT ![m] = TRUE]
      /\ ending' = ending \ {m}
      /\ UNCHANGED <<plan, at, phase, placed, started, fed, proc, seen, clock, watch,
                     struck, stop, results, cut>>
  BY DEF Tell
<1>3. /\ terminated' \in [Ids -> BOOLEAN] /\ terminated'[m]
      /\ \A n \in Ids \ {m} : terminated'[n] = terminated[n]
  <2> HIDE DEF m
  <2> QED BY <1>1, <1>2 DEF Shape
<1> HIDE DEF m
<1>4. Stopping'
  BY <1>1, <1>2, <1>3, Same DEF Stopping, Running
<1>5. Reaped'
  BY <1>2 DEF Reaped, Over
<1>6. ending' \subseteq Members /\ \A n \in ending' : seen[n] = 0 /\ n \notin watch.just
  BY <1>2 DEF Shape, SeenEnded
<1>7. \A n \in Ids : terminated'[n] => terminated[n] \/ n \in ending
  BY <1>1, <1>3
<1> QED BY <1>2, <1>3, <1>4, <1>5, <1>6, <1>7, EndStep DEF Shape, Closing

\* All are told: whoever was is to be waited for.
LEMMA ToldInv ==
  ASSUME StageInvariant, Told
  PROVE  StageInvariant'
<1> USE DEF StageInvariant, Told
<1>1. /\ ending' \subseteq Members /\ \A m \in ending' : m \in Ids /\ terminated[m]
      /\ \A m \in ending' : seen[m] = 0 /\ m \notin watch.just
  BY DEF SeenEnded
<1>2. Stopping'
  BY <1>1, Same DEF Stopping, Running
<1>3. Reaped'
  BY DEF Reaped, Over
<1> QED BY <1>1, <1>2, <1>3, EndStep DEF Shape, Closing

\* One has ended, or is killed.
LEMMA ReapInv ==
  ASSUME StageInvariant, Wait \/ Kill
  PROVE  StageInvariant'
<1> DEFINE m == FirstOf(ending)
<1> USE DEF StageInvariant
<1>1. m \in ending /\ m \in Ids
  BY FirstEnding DEF Wait, Kill
<1>2. /\ phase = "reap" /\ ending' = ending \ {m}
      /\ UNCHANGED <<plan, at, phase, placed, started, fed, terminated, seen, clock, watch,
                     struck, stop, results, cut>>
      /\ \/ Exited(m) /\ proc' = proc
         \/ Running(m) /\ proc' = [proc EXCEPT ![m] = "killed"]
  BY DEF Wait, Kill
<1> HIDE DEF m
<1>3. /\ proc' \in [Ids -> Fates] /\ proc'[m] \notin {"none", "run"}
      /\ \A n \in Ids \ {m} : proc'[n] = proc[n]
      /\ Exited(m) => proc'[m] = proc[m]
      /\ proc[m] # "none"
  BY <1>1, <1>2 DEF Shape, Fates, Exited, Running
<1>4. Stopping'
  BY <1>1, <1>2, <1>3, Same DEF Stopping, Running
<1>5. Reaped'
  BY <1>2 DEF Reaped, Over
<1>6. ending' \subseteq Members /\ \A n \in ending' : seen[n] = 0 /\ n \notin watch.just
  BY <1>2 DEF Shape, SeenEnded
<1>7. \A n \in Ids : /\ Exited(n) => proc'[n] = proc[n]
                     /\ proc'[n] = "none" <=> proc[n] = "none"
  BY <1>3
<1> QED BY <1>2, <1>3, <1>4, <1>5, <1>6, <1>7, EndStep DEF Shape, Closing

\* None is left to wait for, or what is left is left.
LEMMA LeftInv ==
  ASSUME StageInvariant, AllReaped \/ Abandon
  PROVE  StageInvariant'
<1> USE DEF StageInvariant
<1>1. /\ UNCHANGED <<plan, at, placed, started, fed, proc, terminated, seen, clock, watch,
                     struck, stop, results>>
      /\ phase \in Closing \ {"done"} /\ phase' \in {"report", "done"} /\ ending' = {}
      /\ \/ phase = "reap" /\ ending = {} /\ phase' = "report" /\ cut' = cut
         \/ phase' = "done" /\ cut' = phase
      /\ cut = "no" /\ cut' \in Cuts
  BY DEF AllReaped, Abandon, Stopping, Closing, Cuts
<1>2. Stopping'
  BY <1>1 DEF Stopping
<1>3. \A m \in Ids : Running(m)' => Running(m) /\ Left(m)'
  BY <1>1 DEF Stopping, Reaped, Running, Left, Over, Closing
<1>4. Reaped'
  BY <1>1, <1>3, Same DEF Reaped, Over, Reported, Cuts, Closing
<1> QED BY <1>1, <1>2, <1>4, EndStep DEF Shape, Closing

\* The report of a stage is one more, and what was raised leaves none.
LEMMA ReportInv ==
  ASSUME StageInvariant, Report \/ Propagate
  PROVE  StageInvariant'
<1> USE Same DEF StageInvariant
<1>0. /\ UNCHANGED <<plan, at, placed, started, fed, proc, terminated, seen, clock, watch,
                     struck, stop, ending, cut>>
      /\ phase = "report" /\ phase' \in {"next", "done"} /\ ending = {}
      /\ stage_result' = stage_result
  BY SameResult DEF Report, Propagate, Stopping
<1>1. CASE Report
  <2>1. results' \in Seq(Members1(results')) /\ results' # <<>> /\ LastResult' = stage_result
    BY <1>1, Appended DEF Shape, LastResult, Report
  <2>2. Reaped'
    BY <1>0, <1>1, <2>1 DEF Reaped, Over, Running, Quiet, Left, Report
  <2>3. Stopping'
    BY <1>0 DEF Stopping
  <2> QED BY <1>0, <2>1, <2>2, <2>3, EndStep DEF Shape, Closing
<1>2. CASE Propagate
  <2>1. Reaped'
    BY <1>0, <1>2 DEF Reaped, Over, Running, Quiet, Left, Propagate, Reported
  <2>2. Stopping'
    BY <1>0, <1>2 DEF Stopping, Propagate
  <2>3. results' \in Seq(Members1(results'))
    BY <1>2 DEF Propagate, Shape, Members1
  <2> QED BY <1>0, <2>1, <2>2, <2>3, EndStep DEF Shape, Closing
<1> QED BY <1>1, <1>2

-----------------------------------------------------------------------------
(* The judgement of a poll.                                                *)

\* What a poll reads of the ends it saw.
LEMMA Stamps ==
  ASSUME StageInvariant, phase = "scan"
  PROVE  /\ Stamped \in [Ids -> Nat]
         /\ \A m \in Ids : /\ Stamped[m] <= clock
                           /\ seen[m] # 0 => Stamped[m] = seen[m]
                           /\ m \in watch.just => seen[m] = 0 /\ Stamped[m] = clock
                           /\ Stamped[m] # 0 => /\ m \in Members /\ Exited(m) /\ ~terminated[m]
                                                /\ m \in watch.just \/ seen[m] # 0
BY DEF StageInvariant, Shape, SeenEnded, Stamped

\* A suspect of the watch ended with 0.
LEMMA Suspected ==
  ASSUME StageInvariant, phase = "scan", Suspect # Nobody
  PROVE  Suspect \in Members /\ Stamped[Suspect] # 0 /\ Zero(Suspect)
<1> USE DEF StageInvariant
<1>1. CASE watch.suspect # Nobody
  <2>1. Suspect = watch.suspect /\ Suspect \in Members /\ Suspect \in Ids
        /\ seen[Suspect] # 0 /\ Zero(Suspect)
    BY <1>1 DEF Suspect, Verdict, Shape, Someone
  <2> QED BY <2>1, Stamps
<1>2. CASE watch.suspect = Nobody
  <2> DEFINE S == {m \in watch.just : Zero(m) /\ _ends_the_stage(m) /\ ~_reader_gone(m)}
  <2>1. S \subseteq Members /\ S \subseteq Ids /\ started \in Seq(Ids)
    BY DEF SeenEnded, Shape
  <2>2. Suspect \in S
    BY <1>2, <2>1, FirstIsOne DEF Suspect
  <2>3. clock # 0 /\ Suspect \in watch.just /\ Zero(Suspect)
    BY <2>2 DEF Shape
  <2> QED BY <2>1, <2>2, <2>3, Stamps
<1> QED BY <1>1, <1>2

\* Whoever a poll finds ended the stage is blamed for a reason, and nobody is only
\* where every end but the writers' was a 0.
LEMMA Found ==
  ASSUME StageInvariant, phase = "scan", watch.ended = Nobody
  PROVE  /\ Ender # Nobody =>
              /\ Ender \in Members /\ Stamped[Ender] # 0
              /\ Zero(Ender) =>
                   \/ \E p \in producers(Ender) \cap Members :
                        Stamped[p] = 0 \/ Stamped[p] >= Stamped[Ender]
                   \/ \E n \in Members : Failed(n) /\ Stamped[n] # 0
         /\ Ender = Nobody => \A m \in Ids \ writers : Stamped[m] # 0 => Zero(m)
<1> USE DEF StageInvariant
<1> DEFINE S == {m \in watch.just : ~Zero(m) /\ ~_reader_gone(m)}
           early == Suspect # Nobody /\ _left_early(Suspect) = "early"
<1>0. S \subseteq Members /\ S \subseteq Ids /\ started \in Seq(Ids) /\ Nobody \notin Ids
      /\ Members \subseteq Ids
  BY Staged DEF SeenEnded, Shape, AllSpawned
<1>1. S # {} => FirstOf(S) \in S
  BY <1>0, FirstIsOne
<1>2. S = {} => FirstOf(S) = Nobody
  BY <1>0, FirstIsOne
<1>3. CASE early
  <2>1. Ender = Suspect /\ Suspect \in Members /\ Stamped[Suspect] # 0 /\ Suspect # Nobody
    BY <1>3, Suspected DEF Ender
  <2>2. \/ \E p \in producers(Suspect) \cap Members : Stamped[p] # 0 /\ ~Zero(p)
        \/ \E p \in producers(Suspect) \cap Members : Stamped[p] = 0
    BY <1>3 DEF _left_early
  <2>3. \A p \in Members : Stamped[p] # 0 /\ ~Zero(p) => Failed(p)
    BY <1>0, Stamps DEF Failed
  <2> QED BY <2>1, <2>2, <2>3
<1>4. CASE ~early
  <2>1. Ender = FirstOf(S)
    BY <1>4 DEF Ender
  <2>2. ASSUME Ender # Nobody
        PROVE  Ender \in Members /\ Stamped[Ender] # 0 /\ ~Zero(Ender)
    <3>1. Ender \in S
      BY <1>1, <1>2, <2>1, <2>2
    <3>2. clock # 0
      BY DEF Shape
    <3> QED BY <1>0, <3>1, <3>2, Stamps
  <2>3. ASSUME Ender = Nobody, NEW m \in Ids \ writers, Stamped[m] # 0
        PROVE  Zero(m)
    <3>1. S = {}
      BY <1>0, <1>1, <2>1, <2>3
    <3>2. m \in watch.just => Zero(m)
      BY <2>3, <3>1 DEF _reader_gone
    <3>3. seen[m] # 0 => Zero(m)
      BY <2>3 DEF Verdict
    <3> QED BY <2>3, <3>2, <3>3, Stamps
  <2> QED BY <2>2, <2>3
<1> QED BY <1>3, <1>4

\* A poll is judged.
LEMMA JudgeInv ==
  ASSUME StageInvariant, Judge
  PROVE  StageInvariant'
<1> USE Same DEF StageInvariant
<1> DEFINE over == AllEnded \/ (Judged.ended # Nobody /\ clock >= Judged.settled)
<1>0. /\ UNCHANGED <<plan, at, placed, started, fed, proc, terminated, stop, results, ending, cut>>
      /\ phase = "scan" /\ seen' = Stamped /\ Members' = Members
      /\ phase' \in {"ended", "poll", "late"} /\ clock' \in {clock, clock + 1}
      /\ watch' = [Judged EXCEPT !.just = {}]
  BY DEF Judge, Members
<1>a. /\ clock \in Nat \ {0} /\ clock' \in Nat \ {0} /\ clock <= clock'
      /\ Members \subseteq Ids /\ Nobody \notin Ids /\ Cascade \in Nat
  BY <1>0, Staged, StageAssumption DEF Shape, AllSpawned
<1>b. Suspect \in Someone /\ Ender \in Someone
  <2>1. Suspect \in Someone
    BY <1>0, <1>a, Suspected DEF Someone
  <2>2. {m \in watch.just : ~Zero(m) /\ ~_reader_gone(m)} \subseteq Members
        /\ started \in Seq(Ids)
    BY DEF SeenEnded, Shape
  <2>3. FirstOf({m \in watch.just : ~Zero(m) /\ ~_reader_gone(m)}) \in Someone
    BY <2>2, <1>a, FirstIsOne DEF Someone
  <2> QED BY <2>1, <2>3 DEF Ender
<1>1. /\ watch' \in [todo : Seq(Ids), just : SUBSET Ids, suspect : Someone,
                     ended : Someone, settled : Nat]
      /\ watch'.todo = watch.todo /\ watch'.just = {} /\ watch'.ended = Judged.ended
      /\ watch'.suspect = Judged.suspect
  <2>1. Judged \in [todo : Seq(Ids), just : SUBSET Ids, suspect : Someone,
                    ended : Someone, settled : Nat] /\ Judged.todo = watch.todo
    <3>1. watch \in [todo : Seq(Ids), just : SUBSET Ids, suspect : Someone,
                     ended : Someone, settled : Nat] /\ Nobody \in Someone
      BY DEF Shape, Someone
    <3>2. clock + Cascade \in Nat
      BY <1>a
    <3> QED BY <1>b, <3>1, <3>2 DEF Judged
  <2> QED BY <1>0, <2>1
<1>2. /\ watch.ended # Nobody => watch'.ended = watch.ended /\ watch'.suspect = watch.suspect
      /\ watch.ended = Nobody => watch'.ended = Ender /\ watch'.suspect \in {Nobody, Suspect}
  BY <1>1 DEF Judged, Shape
<1>3. /\ phase' = "ended" => \/ AllEnded /\ struck' = [struck EXCEPT !.failed = watch'.ended]
                             \/ watch'.ended # Nobody /\ struck' = [struck EXCEPT !.failed = watch'.ended]
                             \/ plan.showOnly /\ struck' = struck
      /\ phase' # "ended" => struck' = struck
  BY <1>0, <1>1 DEF Judge
<1>4. struck = NotStruck
  BY <1>0 DEF Struck, Watching
<1>5. Shape'
  <2>1. struck' \in [failed : Someone, timedOut : BOOLEAN, wedge : BOOLEAN,
                     interrupted : BOOLEAN, raised : BOOLEAN]
    BY <1>0, <1>1, <1>3 DEF Shape
  <2>2. seen' \in [Ids -> Nat] /\ \A m \in Ids : seen'[m] <= clock'
    BY <1>0, <1>a, Stamps
  <2> QED BY <1>0, <1>a, <1>1, <2>1, <2>2 DEF Shape, Someone, Phases
<1>6. AllSpawned'
  BY <1>0, <1>4 DEF AllSpawned, Quiet, NotStruck
<1>7. Unwatched'
  BY <1>0 DEF Unwatched, Starting
<1>8. SeenEnded'
  BY <1>0, <1>1, Stamps DEF SeenEnded, Exited, Watching, Stopping
<1>9. Verdict'
  <2>1. watch'.suspect # Nobody => watch'.suspect \in Members /\ Stamped[watch'.suspect] # 0
                                   /\ Zero(watch'.suspect)
    <3>1. watch.suspect # Nobody => watch.suspect = Suspect
      BY DEF Suspect
    <3> QED BY <1>0, <1>2, <3>1, Suspected
  <2>2. ASSUME watch.ended # Nobody PROVE Blamable(watch.ended)'
    <3> DEFINE e == watch.ended
    <3>1. Blamable(e) /\ e \in Ids
      BY <2>2, <1>a DEF Verdict, Blamable
    <3>2. Stamped[e] = seen[e] /\ seen[e] # 0 /\ e \in Members /\ seen[e] <= clock /\ seen[e] \in Nat
      BY <3>1, <1>0, Stamps DEF Blamable, Shape
    <3>3. \A p \in Members : \/ Stamped[p] = seen[p]
                             \/ seen[p] = 0 /\ (Stamped[p] = 0 \/ Stamped[p] = clock)
      BY <1>0, <1>a, Stamps
    <3>4. \A p \in Members : seen[p] = 0 \/ seen[p] >= seen[e]
                             => Stamped[p] = 0 \/ Stamped[p] >= Stamped[e]
      BY <3>2, <3>3, <1>a
    <3>5. \A n \in Members : seen[n] # 0 => Stamped[n] # 0
      BY <1>0, <1>a, Stamps
    <3>6. Zero(e) => \/ \E p \in producers(e) \cap Members : Stamped[p] = 0 \/ Stamped[p] >= Stamped[e]
                     \/ \E n \in Members : Failed(n) /\ Stamped[n] # 0
      BY <3>1, <3>4, <3>5 DEF Blamable
    <3>7. e' = watch'.ended /\ watch'.ended = e
      BY <1>2, <2>2
    <3> QED BY <1>0, <3>2, <3>6, <3>7 DEF Blamable, Zero, Failed, Exited
  <2>3. ASSUME watch.ended = Nobody, Ender # Nobody PROVE Blamable(watch.ended)'
    <3>1. watch'.ended = Ender
      BY <1>2, <2>3
    <3> QED BY <1>0, <2>3, <3>1, Found DEF Blamable, Zero, Failed, Exited
  <2>4. ASSUME watch.ended = Nobody, Ender = Nobody
        PROVE  \A m \in Ids \ writers : Stamped[m] # 0 => Zero(m)
    BY <1>0, <2>4, Found
  <2>5. watch'.ended = Nobody <=> watch.ended = Nobody /\ Ender = Nobody
    BY <1>2
  <2>6. \A n \in Ids : Zero(n)' <=> Zero(n)
    BY <1>0 DEF Zero
  <2>7. watch'.suspect # Nobody => Zero(watch.suspect)'
    BY <1>0, <2>1 DEF Zero
  <2> QED BY <1>0, <2>1, <2>2, <2>3, <2>4, <2>5, <2>6, <2>7 DEF Verdict
<1>10. Struck'
  <2>1. phase' # "ended" => struck' = NotStruck
    BY <1>3, <1>4
  <2>2. phase' = "ended" => struck'.timedOut = FALSE /\ (struck'.failed = Nobody \/ struck'.failed = watch'.ended)
    BY <1>3, <1>4 DEF NotStruck
  <2>3. ASSUME phase' = "ended", struck'.failed = Nobody, ~plan.showOnly
        PROVE  watch'.ended = Nobody /\ \A m \in Members \ writers : Stamped[m] # 0
    <3>1. struck' = [struck EXCEPT !.failed = watch'.ended] /\ (AllEnded \/ watch'.ended # Nobody)
      BY <1>3, <2>3
    <3>2. struck'.failed = watch'.ended
      BY <3>1, <1>4 DEF NotStruck
    <3> QED BY <2>3, <3>1, <3>2 DEF AllEnded
  <2>4. /\ writers' = writers /\ plan' = plan
        /\ phase' \notin Starting \cup Watching => phase' = "ended"
        /\ phase' \in Watching => phase' # "ended"
    BY <1>0 DEF Starting, Watching
  <2>5. Quiet' /\ struck'.timedOut => phase' = "ended" /\ FALSE
    BY <2>1, <2>2 DEF NotStruck
  <2>6. struck'.failed # Nobody => struck'.failed = watch'.ended
    BY <2>1, <2>2 DEF NotStruck
  <2>7. phase' \notin Starting \cup Watching /\ struck'.failed = Nobody /\ ~CutShort'
        => watch'.ended = Nobody /\ (\A m \in Members' \ writers' : seen'[m] # 0)
           /\ phase' = "ended"
    BY <1>0, <2>3, <2>4 DEF CutShort
  <2> QED BY <2>1, <2>4, <2>5, <2>6, <2>7 DEF Struck
<1>11. Reaped'
  BY <1>0 DEF Reaped, Over
<1>12. Stopping'
  BY <1>0 DEF Stopping
<1> QED BY <1>12, <1>5, <1>6, <1>7, <1>8, <1>9, <1>10, <1>11

-----------------------------------------------------------------------------
(* What is proved of a run.                                                *)

\* Every step keeps the invariant.
LEMMA StageStep ==
  ASSUME StageInvariant, [Next]_vars
  PROVE  StageInvariant'
<1>1. CASE UNCHANGED vars
  BY <1>1, Kept DEF vars, StageInvariant, Shape
<1>2. CASE SetStop \/ CloseWindows
  BY <1>2, Kept DEF SetStop, CloseWindows, StageInvariant, Shape
<1>3. CASE Runner
  <2>1. CASE Spawn \/ Spawned \/ FeedWriter \/ FedAll
    BY <2>1, SpawnInv, SpawnedInv, FeedWriterInv
  <2>2. CASE Poll \/ Scan \/ Judge \/ Sleep \/ Ended
    BY <2>2, PollInv, ScanInv, JudgeInv, SleepInv, EndedInv
  <2>3. CASE _stop \/ Tell \/ Told \/ Wait \/ Kill \/ AllReaped
    BY <2>3, StopInv, TellInv, ToldInv, ReapInv, LeftInv
  <2>4. CASE Report \/ Propagate \/ NextStage
    BY <2>4, ReportInv, NextStageInv
  <2> QED BY <1>3, <2>1, <2>2, <2>3, <2>4 DEF Runner
<1>4. CASE SpawnRaises \/ Interrupt \/ Abandon
  BY <1>4, SpawnRaisesInv, InterruptInv, LeftInv
<1>5. CASE \E w \in BOOLEAN : Strike(w)
  BY <1>5, StrikeInv
<1>6. CASE \E m \in Ids : Exit(m)
  BY <1>6, ExitInv
<1> QED BY <1>1, <1>2, <1>3, <1>4, <1>5, <1>6 DEF Next

\* StageInvariant holds throughout a run: what the watch judged is still so when
\* the report is made.
THEOREM StageCorrect == Spec => []StageInvariant
<1>1. Init => StageInvariant
  BY InitInv
<1>2. StageInvariant /\ [Next]_vars => StageInvariant'
  BY StageStep
<1> QED BY <1>1, <1>2, PTL DEF Spec

\* NothingLeftRunning: whatever ends a stage, no member of it is left behind but
\* by a Ctrl-C that comes while run.end() is at it.
THEOREM StageLeavesNothing == Spec => []NothingLeftRunning
<1>1. StageInvariant => NothingLeftRunning
  BY DEF StageInvariant, Reaped, Over, Left, NothingLeftRunning
<1> QED BY <1>1, StageCorrect, PTL

\* CleanMeansClean: a run that reports no failure ran every stage, and every member
\* but the writers of feeders ended with 0 on its own.
THEOREM StageReportsClean == Spec => []CleanMeansClean
<1>1. ASSUME StageInvariant, Clean
      PROVE  /\ at = Len(plan.stages)
             /\ \A m \in Ids \ writers : Zero(m) /\ ~terminated[m]
             /\ struck.failed = Nobody => held \subseteq Members
  <2> USE <1>1 DEF StageInvariant
  <2>1. /\ phase = "done" /\ Quiet /\ ~CutShort /\ stage_result.code = 0
        /\ at = Len(plan.stages)
    BY DEF Clean, Quiet, CutShort, Reaped, Reported
  <2>2. /\ Members \subseteq Ids /\ Ids \ writers \subseteq Members /\ Nobody \notin Ids
        /\ \A m \in Members : m \in Ids /\ Exited(m)
    BY <2>1, Staged DEF AllSpawned, Shape, Reaped, Over, Exited, Running, Left, Clean, Reported
  <2>3. struck.failed = Nobody => /\ watch.ended = Nobody
                                  /\ \A m \in Members \ writers : seen[m] # 0
                                  /\ held \subseteq Members
    BY <2>1 DEF Struck, Starting, Watching
  <2>4. CASE struck.failed = Nobody
    BY <2>1, <2>2, <2>3, <2>4 DEF Verdict, SeenEnded
  <2>5. CASE struck.failed # Nobody
    <3>1. ~struck.timedOut
      <4>1. SUFFICES ASSUME struck.timedOut PROVE FALSE
        OBVIOUS
      <4>2. ~struck.raised /\ (struck.wedge \/ struck.failed \in Members)
        BY <2>1, <2>5, <4>1 DEF Struck, Quiet
      <4>3. stage_result.code = 1
        BY <2>2, <2>5, <4>1, <4>2 DEF stage_result
      <4> QED BY <2>1, <4>3
    <3>2. struck.failed = watch.ended /\ Blamable(watch.ended)
      BY <2>1, <2>5, <3>1 DEF Struck, Verdict
    <3>3. _attribute.failure = Nobody
      BY <2>1, <2>5, <3>1 DEF stage_result, Quiet
    <3>4. candidates = {}
      BY <2>2, <3>3, CauseIsOne DEF candidates
    <3> DEFINE m == watch.ended
    <3>5. m \in Members /\ seen[m] # 0 /\ m \in Ids /\ ~terminated[m]
      BY <2>2, <3>2 DEF Blamable, SeenEnded
    <3>6. Zero(m)
      BY <3>4, <3>5 DEF candidates
    <3>7. \A n \in Members : seen[n] # 0 => Zero(n)
      BY <2>2, <3>4 DEF candidates, SeenEnded
    <3>8. PICK p \in producers(m) \cap Members : seen[p] = 0 \/ seen[p] >= seen[m]
      BY <3>2, <3>6, <3>7 DEF Blamable, Failed
    <3>9. WhenEnded(p) >= seen[m]
      BY <2>2, <3>5, <3>8 DEF WhenEnded, Shape
    <3>10. ~AnyFailed
      BY <3>4, <3>5, <3>8, <3>9 DEF candidates
    <3>11. \A n \in Members \ writers : Zero(n) /\ ~terminated[n]
      <4>1. \A n \in Members \ writers : ~terminated[n]
        BY <2>2, <3>10 DEF AnyFailed, Shape
      <4> QED BY <2>2, <3>10, <4>1 DEF AnyFailed, Failed
    <3> QED BY <2>1, <2>2, <2>5, <3>11
  <2> QED BY <2>4, <2>5
<1>2. StageInvariant => CleanMeansClean
  BY <1>1 DEF CleanMeansClean
<1> QED BY <1>2, StageCorrect, PTL


-----------------------------------------------------------------------------
(* What a chain is, and the steps that look at nothing.                    *)

\* A pipe leads from one process to another, and no chain of them comes back.
LEMMA Wired ==
  ASSUME plan \in Plans, at \in 1 .. Len(plan.stages)
  PROVE  /\ \A m \in Ids : producers(m) \subseteq Ids /\ consumers(m) \subseteq Ids
         /\ \A m, n : n \in producers(m) <=> m \in consumers(n)
         /\ \E depth \in [Ids -> Nat] : \A m \in Ids : \A n \in producers(m) : depth[n] < depth[m]
<1>1. AStage(stage)
  BY Staged
<1>2. \A w \in stage.wires : w[1] \in Ids /\ w[2] \in Ids
  BY <1>1 DEF AStage, Ids, Members1
<1>3. PICK depth \in [Ids -> 0 .. Len(stage.ids)] : \A w \in stage.wires : depth[w[1]] < depth[w[2]]
  BY <1>1 DEF AStage, Ids, Members1
<1>4. depth \in [Ids -> Nat]
  BY <1>3
<1>5. \A m \in Ids : \A n \in producers(m) : depth[n] < depth[m]
  BY <1>3 DEF producers
<1>6. \A m, n : n \in producers(m) <=> m \in consumers(n)
  BY DEF producers, consumers
<1> QED BY <1>2, <1>4, <1>5, <1>6 DEF producers, consumers

\* While a run stays in its stage, its pipes stay.
LEMMA SamePipes ==
  ASSUME UNCHANGED <<plan, at>>
  PROVE  (Chain' <=> Chain) /\ \A m : consumers(m)' = consumers(m)
<1>1. stage' = stage /\ writers' = writers
  BY Same
<1> QED BY <1>1 DEF Chain, chained, consumers

\* In a chain nothing is held, and whatever is next has every producer before it.
LEMMA NextInOrder ==
  ASSUME StageInvariant, Chain, placed # Ids
  PROVE  held = {} /\ _spawn_order \in Ids \ placed /\ producers(_spawn_order) \subseteq placed
<1> USE DEF StageInvariant
<1>1. held = {} /\ plan \in Plans /\ at \in 1 .. Len(plan.stages) /\ placed \subseteq Ids
  BY Staged DEF Chain, Shape
<1>2. PICK depth \in [Ids -> Nat] : \A m \in Ids : \A n \in producers(m) : depth[n] < depth[m]
  BY <1>1, Wired
<1> DEFINE D == {depth[m] : m \in Ids \ placed}
<1>3. D \in SUBSET Nat /\ D # {}
  BY <1>1
<1>4. PICK d \in D : \A e \in D : d <= e
  BY <1>3, Least
<1>5. PICK m \in Ids \ placed : depth[m] = d
  BY <1>4
<1>6. producers(m) \subseteq placed
  <2>1. SUFFICES ASSUME NEW n \in producers(m), n \notin placed PROVE FALSE
    OBVIOUS
  <2>2. n \in Ids /\ depth[n] < depth[m]
    BY <1>1, <1>2, <1>5, Wired
  <2>3. depth[n] \in D
    BY <2>1, <2>2
  <2> QED BY <1>3, <1>4, <1>5, <2>2, <2>3
<1>7. m \in SpawnReady
  BY <1>6 DEF SpawnReady, producers
<1>8. _spawn_order \in SpawnReady
  BY <1>1, <1>7, NextIsOne
<1>9. producers(_spawn_order) \subseteq placed
  BY <1>8 DEF SpawnReady, producers, Chain
<1> QED BY <1>1, <1>8, <1>9 DEF SpawnReady

\* The next member of a chain is started.
LEMMA SpawnChain ==
  ASSUME StageInvariant, ChainInvariant, Spawn
  PROVE  ChainInvariant'
<1> USE DEF StageInvariant, ChainInvariant
<1> SUFFICES ASSUME Chain' PROVE ChainInvariant'
  BY DEF InOrder, BrokenByReader
<1> DEFINE m == _spawn_order
<1>1. Chain /\ \A n : consumers(n)' = consumers(n) /\ producers(n)' = producers(n)
  BY Same, SamePipes DEF Spawn
<1>2. /\ held = {} /\ m \in Ids \ placed /\ producers(m) \subseteq placed
      /\ phase = "spawn" /\ Ids' = Ids
      /\ placed = Members /\ started \in Seq(Ids) /\ proc \in [Ids -> Fates]
  BY <1>1, NextInOrder, Same DEF Spawn, InOrder, Shape
<1>3. /\ started' = Append(started, m) /\ proc' = [proc EXCEPT ![m] = "run"]
      /\ placed' = placed \cup {m} /\ UNCHANGED <<phase, seen, terminated, watch>>
  BY <1>2 DEF Spawn
<1>4. Members' = Members \cup {m}
  BY <1>2, <1>3, OneMore DEF Spawn
<1>5. \A n \in Ids : (n # m => proc'[n] = proc[n]) /\ proc'[m] = "run"
  BY <1>2, <1>3
<1>6. \A n \in placed : m \notin producers(n)
  BY <1>1, <1>2 DEF InOrder
<1>7. InOrder'
  <2>1. /\ Len(started) \in Nat /\ Len(started') = Len(started) + 1
        /\ started'[Len(started) + 1] = m
        /\ \A i \in 1 .. Len(started) : started'[i] = started[i] /\ started[i] \in placed
    BY <1>2, <1>3, AppendProperties, LenProperties DEF Members
  <2>2. \A i, j \in 1 .. Len(started') : started'[i] \in producers(started'[j]) => i < j
    <3>1. SUFFICES ASSUME NEW i \in 1 .. Len(started'), NEW j \in 1 .. Len(started'),
                          started'[i] \in producers(started'[j])
                   PROVE  i < j
      OBVIOUS
    <3>2. i # Len(started) + 1
      BY <1>2, <1>6, <2>1, <3>1
    <3>3. CASE j = Len(started) + 1
      BY <2>1, <3>2, <3>3
    <3>4. CASE j # Len(started) + 1
      BY <1>1, <2>1, <3>1, <3>2, <3>4 DEF InOrder
    <3> QED BY <3>3, <3>4
  <2>3. \A n \in Ids' : proc'[n] # "none" => n \in Members'
    BY <1>1, <1>2, <1>4, <1>5 DEF InOrder
  <2>4. \A n \in placed' : producers(n) \subseteq placed'
    BY <1>1, <1>2, <1>3 DEF InOrder
  <2> QED BY <1>1, <1>2, <1>3, <1>4, <2>2, <2>3, <2>4 DEF InOrder
<1>8. BrokenByReader'
  <2>1. SUFFICES ASSUME NEW n \in Ids, _broken_pipe(n)'
                 PROVE  \E c \in consumers(n) : AtLatest(n, c)'
    BY <1>1, <1>2 DEF BrokenByReader
  <2>2. _broken_pipe(n)
    BY <1>3, <1>5, <2>1 DEF _broken_pipe
  <2>3. PICK c \in consumers(n) : AtLatest(n, c)
    BY <1>1, <2>2 DEF BrokenByReader
  <2>4. c # m /\ c \in Ids /\ Exited(c)
    BY <1>1, <1>2, <2>3, Wired DEF AtLatest, InOrder, Exited, Shape
  <2>5. Exited(c)'
    BY <1>5, <2>4 DEF Exited
  <2> QED BY <1>2, <1>3, <2>3, <2>5 DEF AtLatest
<1> QED BY <1>7, <1>8

\* A step that starts nothing, and after which what had ended, was stamped and is
\* looked at is as it was, keeps the order and the reasons.
LEMMA KeptChain ==
  ASSUME StageInvariant, ChainInvariant,
         UNCHANGED <<plan, at, placed, started, seen>>,
         proc' \in [Ids -> Fates],
         \A m \in Ids : /\ Exited(m) => Exited(m)'
                        /\ proc[m] = "none" => proc'[m] = "none"
                        /\ _broken_pipe(m)' => _broken_pipe(m),
         phase' = "scan" => phase = "scan" /\ watch' = watch
  PROVE  ChainInvariant'
<1> USE DEF StageInvariant, ChainInvariant
<1> SUFFICES ASSUME Chain' PROVE ChainInvariant'
  BY DEF InOrder, BrokenByReader
<1>1. /\ Chain /\ Ids' = Ids /\ Members' = Members
      /\ \A n : consumers(n)' = consumers(n) /\ producers(n)' = producers(n)
  BY Same, SamePipes DEF Members
<1>2. InOrder'
  BY <1>1 DEF InOrder
<1>3. BrokenByReader'
  <2>1. SUFFICES ASSUME NEW n \in Ids, _broken_pipe(n)'
                 PROVE  \E c \in consumers(n) : AtLatest(n, c)'
    BY <1>1 DEF BrokenByReader
  <2>2. PICK c \in consumers(n) : AtLatest(n, c)
    BY <1>1, <2>1 DEF BrokenByReader
  <2>3. c \in Ids
    BY <2>2, Wired DEF Shape
  <2> QED BY <2>2, <2>3 DEF AtLatest
<1> QED BY <1>2, <1>3

-----------------------------------------------------------------------------
(* An end, and the poll that sees it.                                      *)

\* A member breaks only where one of its readers has gone.
LEMMA ExitChain ==
  ASSUME StageInvariant, ChainInvariant, NEW x \in Ids, Exit(x)
  PROVE  ChainInvariant'
<1> USE DEF StageInvariant, ChainInvariant
<1> SUFFICES ASSUME Chain' PROVE ChainInvariant'
  BY DEF InOrder, BrokenByReader
<1>1. /\ Chain /\ Ids' = Ids /\ Members' = Members /\ stage' = stage
      /\ \A n : consumers(n)' = consumers(n) /\ producers(n)' = producers(n)
  BY Same, SamePipes DEF Members, Exit
<1>2. /\ UNCHANGED <<plan, at, phase, placed, started, terminated, seen, watch>>
      /\ Running(x) /\ \A n \in Ids \ {x} : proc'[n] = proc[n]
      /\ proc'[x] = "pipe" => \E c \in consumers(x) \cup (readers(x) \ {x}) : Exited(c)
  BY DEF Exit, Shape
<1>3. readers(x) = {}
  BY <1>1 DEF Chain, writers, readers
<1>4. \A n \in Ids : Exited(n) => n # x /\ Exited(n)'
  BY <1>2 DEF Exited, Running
<1>5. InOrder'
  BY <1>1, <1>2 DEF InOrder, Running
<1>6. BrokenByReader'
  <2>1. SUFFICES ASSUME NEW n \in Ids, _broken_pipe(n)'
                 PROVE  \E c \in consumers(n) : AtLatest(n, c)'
    BY <1>1 DEF BrokenByReader
  <2>2. CASE n = x
    <3>1. PICK c \in consumers(x) : Exited(c)
      BY <1>2, <1>3, <2>1, <2>2 DEF _broken_pipe
    <3>2. c \in Ids /\ Exited(c)'
      BY <1>4, <3>1, Wired DEF Shape
    <3>3. seen[x] = 0 /\ x \notin watch.just
      BY <1>2 DEF SeenEnded, Exited, Running
    <3> QED BY <1>2, <2>2, <3>1, <3>2, <3>3 DEF AtLatest
  <2>3. CASE n # x
    <3>1. _broken_pipe(n)
      BY <1>2, <2>1, <2>3 DEF _broken_pipe
    <3>2. PICK c \in consumers(n) : AtLatest(n, c)
      BY <1>1, <3>1 DEF BrokenByReader
    <3>3. c \in Ids /\ Exited(c)'
      BY <1>4, <3>2, Wired DEF Shape, AtLatest
    <3> QED BY <1>2, <3>2, <3>3 DEF AtLatest
  <2> QED BY <2>2, <2>3
<1> QED BY <1>5, <1>6

\* A poll begins with every member still to be looked at.
LEMMA PollChain ==
  ASSUME StageInvariant, ChainInvariant, Poll, ~stop
  PROVE  ChainInvariant'
<1> USE DEF StageInvariant, ChainInvariant, Poll
<1> SUFFICES ASSUME Chain' PROVE ChainInvariant'
  BY DEF InOrder, BrokenByReader
<1>1. /\ Chain /\ Ids' = Ids /\ Members' = Members
      /\ \A n : consumers(n)' = consumers(n) /\ producers(n)' = producers(n)
  BY Same, SamePipes DEF Members
<1>2. watch'.todo = started /\ watch'.just = {} /\ Len(started) \in Nat
  BY LenProperties DEF Shape
<1>3. InOrder'
  BY <1>1, <1>2 DEF InOrder
<1>4. BrokenByReader'
  BY <1>1, <1>2 DEF BrokenByReader, AtLatest, _broken_pipe, Exited
<1> QED BY <1>3, <1>4

\* The member looked at comes before its readers, which are still to be looked at.
LEMMA ScanChain ==
  ASSUME StageInvariant, ChainInvariant, Scan
  PROVE  ChainInvariant'
<1> USE DEF StageInvariant, ChainInvariant
<1> SUFFICES ASSUME Chain' PROVE ChainInvariant'
  BY DEF InOrder, BrokenByReader
<1> DEFINE todo == watch.todo
           m    == Head(todo)
           off  == Len(started) - Len(todo)
<1>1. /\ Chain /\ Ids' = Ids /\ Members' = Members
      /\ \A n : consumers(n)' = consumers(n) /\ producers(n)' = producers(n)
      /\ UNCHANGED <<plan, at, phase, placed, started, proc, terminated, seen>>
      /\ phase = "scan"
  BY Same, SamePipes DEF Members, Scan
<1>2. /\ Len(started) \in Nat /\ Len(todo) \in Nat /\ Len(todo) # 0 /\ off \in Nat
      /\ m = todo[1] /\ m = started[off + 1] /\ off + 1 \in 1 .. Len(started) /\ m \in Ids
  <2>1. todo \in Seq(Ids) /\ todo # <<>> /\ started \in Seq(Ids)
    BY DEF Shape, Scan
  <2>2. Len(todo) \in Nat /\ Len(todo) # 0 /\ Len(started) \in Nat /\ m = todo[1] /\ m \in Ids
    BY <2>1, LenProperties, EmptySeq, HeadTailProperties
  <2>3. Len(todo) <= Len(started) /\ \A i \in 1 .. Len(todo) : todo[i] = started[off + i]
    BY <1>1 DEF InOrder
  <2>4. 1 \in 1 .. Len(todo) /\ off \in Nat /\ off + 1 \in 1 .. Len(started)
    BY <2>2, <2>3
  <2>5. todo[1] = started[off + 1]
    BY <2>3, <2>4
  <2> QED BY <2>2, <2>4, <2>5
<1>3. /\ watch'.todo = Tail(todo) /\ Len(Tail(todo)) = Len(todo) - 1
      /\ \A i \in 1 .. Len(todo) - 1 : Tail(todo)[i] = todo[i + 1]
      /\ watch'.just = IF seen[m] = 0 /\ Exited(m) THEN watch.just \cup {m} ELSE watch.just
  <2>1. todo \in Seq(Ids) /\ todo # <<>>
    BY DEF Shape, Scan
  <2>2. Len(Tail(todo)) = Len(todo) - 1 /\ \A i \in 1 .. Len(todo) - 1 : Tail(todo)[i] = todo[i + 1]
    BY <2>1, HeadTailProperties, LenProperties
  <2> QED BY <2>2 DEF Shape, Scan
<1>4. InOrder'
  <2>1. /\ Len(watch'.todo) <= Len(started)
        /\ \A i \in 1 .. Len(watch'.todo) :
             watch'.todo[i] = started[Len(started) - Len(watch'.todo) + i]
    <3>1. \A i \in 1 .. Len(todo) : todo[i] = started[off + i]
      BY <1>1 DEF InOrder
    <3>2. \A i \in 1 .. Len(todo) - 1 :
            /\ i + 1 \in 1 .. Len(todo)
            /\ off + (i + 1) = Len(started) - (Len(todo) - 1) + i
      BY <1>2
    <3>3. \A i \in 1 .. Len(todo) - 1 :
            todo[i + 1] = started[Len(started) - (Len(todo) - 1) + i]
      <4>1. TAKE i \in 1 .. Len(todo) - 1
      <4>2. todo[i + 1] = started[off + (i + 1)]
        BY <3>1, <3>2
      <4> QED BY <3>2, <4>2
    <3>4. Len(todo) - 1 <= Len(started)
      BY <1>2
    <3> QED BY <1>3, <3>3, <3>4
  <2> QED BY <1>1, <2>1 DEF InOrder
<1>5. ASSUME NEW i \in 1 .. Len(todo), i # 1
      PROVE  \E k \in 1 .. Len(watch'.todo) : watch'.todo[k] = todo[i]
  <2>1. i - 1 \in 1 .. Len(todo) - 1 /\ (i - 1) + 1 = i
    BY <1>2, <1>5
  <2> QED BY <1>3, <2>1
<1>6. ASSUME NEW c, Exited(c), seen[c] # 0 \/ c \in watch.just \/ \E i \in 1 .. Len(todo) : todo[i] = c
      PROVE  seen[c] # 0 \/ c \in watch'.just \/ \E k \in 1 .. Len(watch'.todo) : watch'.todo[k] = c
  <2>1. c = m => seen[c] # 0 \/ c \in watch'.just
    BY <1>3, <1>6
  <2>2. c \in watch.just => c \in watch'.just
    BY <1>3
  <2> QED BY <1>2, <1>5, <1>6, <2>1, <2>2
<1>7. BrokenByReader'
  <2>1. SUFFICES ASSUME NEW n \in Ids, _broken_pipe(n)'
                 PROVE  \E c \in consumers(n) : AtLatest(n, c)'
    BY <1>1 DEF BrokenByReader
  <2>2. _broken_pipe(n)
    BY <1>1, <2>1 DEF _broken_pipe
  <2>3. PICK c \in consumers(n) : AtLatest(n, c)
    BY <1>1, <2>2 DEF BrokenByReader
  <2>4. Exited(c) /\ Exited(c)' /\ c \in Ids
    BY <1>1, <2>3, Wired DEF AtLatest, Exited, Shape
  <2>5. CASE n \in watch'.just /\ n \notin watch.just
    <3>1. n = m
      BY <1>3, <2>5
    <3>2. c \in Members /\ n \in producers(c)
      BY <1>1, <2>3, <2>4, Wired DEF InOrder, Exited, Shape
    <3>3. PICK j \in 1 .. Len(started) : started[j] = c
      BY <3>2 DEF Members
    <3>4. off + 1 < j
      BY <1>1, <1>2, <3>1, <3>2, <3>3 DEF InOrder
    <3>5. j - off \in 1 .. Len(todo) /\ j - off # 1 /\ off + (j - off) = j
      <4>1. j \in Nat /\ j <= Len(started) /\ off = Len(started) - Len(todo)
        BY <1>2
      <4> HIDE DEF off, todo
      <4> QED BY <1>2, <3>4, <4>1
    <3>6. todo[j - off] = c
      BY <1>1, <3>3, <3>5 DEF InOrder
    <3>7. \E k \in 1 .. Len(watch'.todo) : watch'.todo[k] = c
      BY <1>5, <3>5, <3>6
    <3> QED BY <1>1, <2>3, <2>4, <3>7 DEF AtLatest
  <2>6. CASE n \in watch.just \/ n \notin watch'.just
    <3>1. n \in watch'.just => seen[c] # 0 \/ c \in watch'.just
                               \/ \E k \in 1 .. Len(watch'.todo) : watch'.todo[k] = c
      BY <1>1, <1>6, <2>3, <2>4, <2>6 DEF AtLatest
    <3> QED BY <1>1, <2>3, <2>4, <3>1 DEF AtLatest
  <2> QED BY <2>5, <2>6
<1> QED BY <1>4, <1>7

\* So the end of a reader is stamped no later than the end it caused.
LEMMA JudgeChain ==
  ASSUME StageInvariant, ChainInvariant, Judge
  PROVE  ChainInvariant'
<1> USE DEF StageInvariant, ChainInvariant
<1> SUFFICES ASSUME Chain' PROVE ChainInvariant'
  BY DEF InOrder, BrokenByReader
<1>1. /\ Chain /\ Ids' = Ids /\ Members' = Members
      /\ \A n : consumers(n)' = consumers(n) /\ producers(n)' = producers(n)
      /\ UNCHANGED <<plan, at, placed, started, proc, terminated>>
      /\ phase = "scan" /\ phase' # "scan" /\ seen' = Stamped /\ watch.todo = <<>>
  BY Same, SamePipes DEF Members, Judge
<1>2. InOrder'
  BY <1>1 DEF InOrder
<1>3. BrokenByReader'
  <2>1. SUFFICES ASSUME NEW n \in Ids, _broken_pipe(n)'
                 PROVE  \E c \in consumers(n) : AtLatest(n, c)'
    BY <1>1 DEF BrokenByReader
  <2>2. PICK c \in consumers(n) : AtLatest(n, c)
    BY <1>1, <2>1 DEF BrokenByReader, _broken_pipe
  <2>3. Exited(c) /\ Exited(c)' /\ c \in Ids
    BY <1>1, <2>2, Wired DEF AtLatest, Exited, Shape
  <2>4. clock \in Nat \ {0} /\ Stamped[c] <= clock /\ Stamped[c] \in Nat /\ Len(watch.todo) = 0
    BY <1>1, <2>3, Stamps DEF Shape
  <2>5. CASE seen[n] # 0
    BY <1>1, <2>2, <2>3, <2>5, Stamps DEF AtLatest
  <2>6. CASE n \in watch.just
    <3>1. seen[c] # 0 \/ c \in watch.just
      BY <1>1, <2>2, <2>4, <2>6 DEF AtLatest
    <3>2. Stamped[n] = clock /\ Stamped[c] # 0
      BY <1>1, <2>3, <2>4, <2>6, <3>1, Stamps
    <3> QED BY <1>1, <2>3, <2>4, <3>2 DEF AtLatest
  <2>7. CASE seen[n] = 0 /\ n \notin watch.just
    <3>1. Stamped[n] = 0
      BY <1>1, <2>7, Stamps
    <3> QED BY <1>1, <2>3, <3>1 DEF AtLatest
  <2> QED BY <2>5, <2>6, <2>7
<1> QED BY <1>2, <1>3

-----------------------------------------------------------------------------
(* The blame.                                                              *)

\* Every step keeps the order and the reasons.
LEMMA ChainStep ==
  ASSUME StageInvariant, ChainInvariant, [Next]_vars
  PROVE  ChainInvariant'
<1> USE DEF StageInvariant
<1>0. proc \in [Ids -> Fates]
  BY DEF Shape
<1>1. CASE UNCHANGED vars \/ SetStop \/ CloseWindows
  <2>1. UNCHANGED <<plan, at, placed, started, seen, proc, terminated, phase, watch>>
    BY <1>1 DEF vars, SetStop, CloseWindows
  <2> QED BY <1>0, <2>1, KeptChain DEF _broken_pipe, Exited
<1>2. CASE \/ SpawnRaises \/ Interrupt \/ Spawned \/ FedAll \/ Sleep \/ Ended
           \/ Report \/ Propagate \/ _stop \/ Told \/ Wait \/ AllReaped \/ Abandon
           \/ \E w \in BOOLEAN : Strike(w)
  <2>1. /\ UNCHANGED <<plan, at, placed, started, seen, proc, terminated>>
        /\ phase' # "scan"
    BY <1>2 DEF SpawnRaises, Interrupt, Spawned, FedAll, Sleep, Ended, Report, Strike,
                Propagate, _stop, Told, Wait, AllReaped, Abandon
  <2> QED BY <1>0, <2>1, KeptChain DEF _broken_pipe, Exited
<1>3. CASE Spawn \/ Scan \/ Judge \/ \E m \in Ids : Exit(m)
  BY <1>3, SpawnChain, ScanChain, JudgeChain, ExitChain
<1>4. CASE Poll
  <2>1. CASE stop
    <3>1. UNCHANGED <<plan, at, placed, started, seen, proc, terminated>> /\ phase' # "scan"
      BY <1>4, <2>1 DEF Poll
    <3> QED BY <1>0, <3>1, KeptChain DEF _broken_pipe, Exited
  <2> QED BY <1>4, <2>1, PollChain
<1>5. CASE FeedWriter
  <2>1. writers # {}
    <3>1. PICK i \in 1 .. Len(stage.feeders) : Unsettled(i)
      BY <1>5 DEF FeedWriter
    <3>2. i \in 1 .. Len(stage.feeders)
      BY <3>1
    <3> QED BY <3>2 DEF writers
  <2>2. ~Chain'
    BY <1>5, <2>1, SamePipes DEF FeedWriter, Chain
  <2> QED BY <2>2 DEF ChainInvariant, InOrder, BrokenByReader
<1>6. CASE Tell
  <2>1. /\ UNCHANGED <<plan, at, placed, started, seen, proc>> /\ phase' # "scan"
        /\ terminated' = [terminated EXCEPT ![FirstOf(ending)] = TRUE]
    BY <1>6 DEF Tell
  <2>2. \A m \in Ids : terminated[m] => terminated'[m]
    BY <2>1 DEF Shape
  <2> QED BY <1>0, <2>1, <2>2, KeptChain DEF _broken_pipe, Exited
<1>7. CASE Kill
  <2>1. /\ UNCHANGED <<plan, at, placed, started, seen, terminated>> /\ phase' # "scan"
        /\ proc' = [proc EXCEPT ![FirstOf(ending)] = "killed"] /\ Running(FirstOf(ending))
    BY <1>7 DEF Kill
  <2>2. FirstOf(ending) \in Ids
    BY <1>7, FirstEnding DEF Kill
  <2>3. /\ proc' \in [Ids -> Fates] /\ proc[FirstOf(ending)] = "run"
        /\ proc'[FirstOf(ending)] = "killed"
        /\ \A m \in Ids \ {FirstOf(ending)} : proc'[m] = proc[m]
    BY <1>0, <2>1, <2>2 DEF Running, Fates
  <2>4. \A m \in Ids : /\ Exited(m) => Exited(m)'
                       /\ proc[m] = "none" => proc'[m] = "none"
                       /\ _broken_pipe(m)' => _broken_pipe(m)
    BY <2>1, <2>3 DEF _broken_pipe, Exited
  <2> QED BY <2>1, <2>3, <2>4, KeptChain
<1>8. CASE NextStage
  <2>1. CASE stop
    <3>1. UNCHANGED <<plan, at, placed, started, seen, proc, terminated>> /\ phase' # "scan"
      BY <1>8, <2>1 DEF NextStage
    <3> QED BY <1>0, <3>1, KeptChain DEF _broken_pipe, Exited
  <2>2. CASE ~stop
    <3>1. /\ placed' = {} /\ started' = <<>> /\ phase' = "spawn"
          /\ proc' = [m \in Ids' |-> "none"]
      BY <1>8, <2>2 DEF NextStage, Fresh, Ids, stage, Members1
    <3>2. InOrder'
      BY <3>1 DEF InOrder, Members
    <3>3. BrokenByReader'
      BY <3>1 DEF BrokenByReader, _broken_pipe
    <3> QED BY <3>2, <3>3 DEF ChainInvariant
  <2> QED BY <2>1, <2>2
<1> QED BY <1>1, <1>2, <1>3, <1>4, <1>5, <1>6, <1>7, <1>8 DEF Next, Runner

\* A run begins with nothing in order and nothing broken.
LEMMA ChainInit ==
  ASSUME Init
  PROVE  ChainInvariant
<1>1. /\ placed = {} /\ started = <<>> /\ phase = "spawn" /\ proc = [m \in Ids |-> "none"]
  BY DEF Init, Fresh, Ids, stage, Members1
<1>2. InOrder
  BY <1>1 DEF InOrder, Members
<1>3. BrokenByReader
  BY <1>1 DEF BrokenByReader, _broken_pipe
<1> QED BY <1>2, <1>3 DEF ChainInvariant

\* What comes before in the report ended no later; of one poll, a broken pipe comes
\* before broken pipes only.
LEMMA BeforeSays ==
  ASSUME NEW m \in Ids, NEW n \in Ids, seen \in [Ids -> Nat], Before(m, n)
  PROVE  /\ seen[m] <= seen[n]
         /\ seen[m] = seen[n] /\ _broken_pipe(m) => _broken_pipe(n)
<1>1. seen[m] \in Nat /\ seen[n] \in Nat
  OBVIOUS
<1>2. seen[m] < seen[n] \/ seen[m] = seen[n]
  BY Zenon DEF Before
<1>3. ASSUME seen[m] = seen[n], _broken_pipe(m) PROVE _broken_pipe(n)
  <2>1. ~(seen[m] < seen[n])
    BY <1>1, <1>3
  <2>2. _broken_pipe(m) = _broken_pipe(n)
    BY <1>3, <2>1, Zenon DEF Before
  <2> QED BY <1>3, <2>2
<1> QED BY <1>1, <1>2, <1>3

\* Whoever the report blames ended first, and was not broken by who ended before.
LEMMA Blame ==
  ASSUME StageInvariant, ChainInvariant, Chain, candidates # {}
  PROVE  ~_broken_pipe(_attribute.failure)
<1> USE DEF StageInvariant, ChainInvariant
<1> DEFINE k == _attribute.failure
           E == {n \in candidates : seen[n] = seen[k]}
           D == {Len(started) - i : i \in {j \in 1 .. Len(started) : started[j] \in E}}
<1> SUFFICES ASSUME _broken_pipe(k) PROVE FALSE
  OBVIOUS
<1>1. /\ Members \subseteq Ids /\ started \in Seq(Ids) /\ Len(started) \in Nat
      /\ seen \in [Ids -> Nat] /\ candidates \subseteq Members
  <2>1. started \in Seq(Ids) /\ seen \in [Ids -> Nat]
    BY DEF Shape
  <2>2. Members \subseteq Ids /\ candidates \subseteq Members
    BY DEF AllSpawned, Shape, candidates
  <2> QED BY <2>1, <2>2, LenProperties
<1>2. k \in candidates /\ \A n \in candidates : Before(k, n)
  BY <1>1, CauseIsOne
<1>3. \A n \in E : _broken_pipe(n) /\ n \in Ids /\ n \in Members
  BY <1>1, <1>2, BeforeSays
<1>4. D \in SUBSET Nat /\ D # {}
  <2>1. D \in SUBSET Nat
    BY <1>1
  <2>2. PICK j \in 1 .. Len(started) : started[j] = k
    BY <1>1, <1>2 DEF Members
  <2>3. started[j] \in E
    BY <1>2, <2>2
  <2> QED BY <2>1, <2>2, <2>3
<1>5. PICK d \in D : \A e \in D : d <= e
  BY <1>4, Least
<1>6. PICK i \in 1 .. Len(started) : d = Len(started) - i /\ started[i] \in E
  BY <1>5
<1> DEFINE x == started[i]
<1>7. PICK c \in consumers(x) : AtLatest(x, c)
  BY <1>3, <1>6 DEF BrokenByReader
<1>8. /\ seen[x] = seen[k] /\ seen[k] # 0 /\ seen[c] # 0 /\ seen[c] <= seen[k]
      /\ Exited(c) /\ c \in Ids /\ x \in producers(c) /\ x \in Members
  BY <1>1, <1>2, <1>3, <1>6, <1>7, Wired DEF AtLatest, candidates, Shape
<1>9. c \in Members /\ ~terminated[c]
  BY <1>8 DEF SeenEnded
<1>10. AnyFailed
  <2>1. Failed(k) /\ ~terminated[k] /\ k \in Members
    BY <1>1, <1>2 DEF _broken_pipe, Failed, Exited, Zero
  <2> QED BY <2>1 DEF AnyFailed
<1>11. c \in candidates
  <2>1. WhenEnded(x) >= seen[c]
    BY <1>1, <1>8 DEF WhenEnded
  <2> QED BY <1>8, <1>9, <1>10, <2>1 DEF candidates
<1>12. c \in E
  <2>1. seen[k] <= seen[c]
    BY <1>1, <1>2, <1>8, <1>11, BeforeSays
  <2>2. seen[k] \in Nat /\ seen[c] \in Nat
    BY <1>1, <1>2, <1>8
  <2> QED BY <1>8, <1>11, <2>1, <2>2
<1>13. PICK j \in 1 .. Len(started) : started[j] = c
  BY <1>9 DEF Members
<1>14. i < j
  BY <1>8, <1>13 DEF InOrder
<1>15. Len(started) - j \in D
  BY <1>12, <1>13
<1>16. d <= Len(started) - j
  BY <1>5, <1>15
<1> QED BY <1>1, <1>6, <1>14, <1>16

\* ChainBlame: in a stage whose pipes are all chained and that no feeder writes in,
\* the member the report blames is never one that broke because its reader had gone.
THEOREM StageBlamesACause == Spec => []ChainBlame
<1>1. Spec => []ChainInvariant
  <2>1. Init => ChainInvariant
    BY ChainInit
  <2>2. StageInvariant /\ ChainInvariant /\ [Next]_vars => ChainInvariant'
    BY ChainStep
  <2> QED BY <2>1, <2>2, StageCorrect, PTL DEF Spec
<1>2. StageInvariant /\ ChainInvariant => ChainBlame
  <2>1. SUFFICES ASSUME StageInvariant, ChainInvariant, Chain, phase = "done", Reported,
                        LastResult.failure # Nobody, ~struck.timedOut
                 PROVE  ~_broken_pipe(LastResult.failure)
    BY DEF ChainBlame, BlameIsACause, Chain
  <2>2. LastResult = stage_result
    BY <2>1 DEF StageInvariant, Reaped
  <2>3. LastResult.failure = _attribute.failure
    BY <2>1, <2>2 DEF stage_result
  <2>4. candidates # {}
    BY <2>1, <2>3 DEF _attribute
  <2> QED BY <2>1, <2>3, <2>4, Blame
<1> QED BY <1>1, <1>2, StageCorrect, PTL
=============================================================================
