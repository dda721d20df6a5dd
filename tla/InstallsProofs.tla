--------------------------- MODULE InstallsProofs ---------------------------
(***************************************************************************)
(* Proofs about module Installs, for every set of installers, every world, *)
(* every number of blocks, retries and runs.                               *)
(***************************************************************************)
EXTENDS InstallsInv, SequenceTheorems, TLAPS

-----------------------------------------------------------------------------
(* What the operators of the walk return.                                  *)

\* What a release depends on is a sequence of releases, whichever way it is
\* known, so a step of the walk is one.
LEMMA StepType ==
  ASSUME TornInv, NEW r \in Releases, NEW entries \in Seq(Pinned)
  PROVE  Step(r, entries) \in Walks
<1>1. Entry(entries, r) \in SUBSET (1 .. Len(entries))
  BY DEF Entry
<1>2. CASE Entry(entries, r) = {}
  <2>1. world.needs[r] \in Seq(Releases)
    BY InstallsAssumption DEF TornInv, Shape, Releases
  <2> QED BY <1>2, <2>1 DEF Step, Depends, Walks
<1>3. CASE Entry(entries, r) # {}
  <2>1. (CHOOSE k \in Entry(entries, r) : TRUE) \in 1 .. Len(entries)
    BY <1>1, <1>3
  <2>2. entries[CHOOSE k \in Entry(entries, r) : TRUE] \in Pinned
    BY <2>1
  <2>3. entries[CHOOSE k \in Entry(entries, r) : TRUE].deps \in Seq(Releases)
    BY <2>2 DEF Pinned
  <2> QED BY <1>3, <2>3 DEF Step, Depends, Walks
<1> QED BY <1>2, <1>3

\* The last of a chain, what is before it, and the chain once it is replaced
\* or added to.
LEMMA ChainParts ==
  ASSUME NEW S, NEW c \in Seq(S), c # <<>>
  PROVE  /\ Last(c) \in S /\ Last(c) = c[Len(c)]
         /\ Len(c) \in Nat \ {0}
         /\ Front(c) \in Seq(S) /\ Len(Front(c)) = Len(c) - 1
         /\ \A k \in 1 .. Len(c) - 1 : Front(c)[k] = c[k]
<1>1. Len(c) \in Nat \ {0}
  BY EmptySeq
<1>0. Len(c) - 1 \in Int /\ (1 <= Len(c) - 1 \/ Len(c) - 1 = 0)
  <2>1. ASSUME NEW l \in Nat \ {0} PROVE l - 1 \in Int /\ (1 <= l - 1 \/ l - 1 = 0)
    OBVIOUS
  <2> QED BY <1>1, <2>1
<1>2. Last(c) \in S /\ Last(c) = c[Len(c)]
  BY <1>1, ElementOfSeq DEF Last
<1>3. \A k \in 1 .. Len(c) - 1 : c[k] \in S
  BY <1>1, ElementOfSeq
<1>4. /\ SubSeq(c, 1, Len(c) - 1) \in Seq(S)
      /\ Len(SubSeq(c, 1, Len(c) - 1)) = Len(c) - 1
      /\ \A k \in 1 .. Len(c) - 1 : SubSeq(c, 1, Len(c) - 1)[k] = c[k]
  <2> DEFINE n == Len(c) - 1
  <2>0. n \in Int /\ 1 \in Int /\ (1 <= n \/ n = 0)
    BY <1>0
  <2>1. \A k \in 1 .. n : c[k] \in S
    BY <1>3
  <2> HIDE DEF n
  <2>2. /\ SubSeq(c, 1, n) \in Seq(S)
        /\ Len(SubSeq(c, 1, n)) = n
        /\ \A k \in 1 .. n - 1 + 1 : SubSeq(c, 1, n)[k] = c[1 + k - 1]
    BY <2>0, <2>1, SubSeqProperties
  <2>3. \A k \in 1 .. n : SubSeq(c, 1, n)[k] = c[k]
    BY <2>0, <2>2
  <2> QED BY <2>2, <2>3 DEF n
<1> QED BY <1>1, <1>2, <1>4 DEF Front

\* A chain of one more is not empty, and its last is what was added.
LEMMA Added ==
  ASSUME NEW S, NEW c \in Seq(S), NEW e \in S
  PROVE  /\ Append(c, e) \in Seq(S) /\ Append(c, e) # <<>>
         /\ Len(Append(c, e)) = Len(c) + 1
         /\ Append(c, e)[Len(c) + 1] = e
         /\ \A k \in 1 .. Len(c) : Append(c, e)[k] = c[k]
         /\ Last(Append(c, e)) = e
BY DEF Last

-----------------------------------------------------------------------------
(* One installer moves.                                                    *)

\* An installer's new state, and what it leaves in the store, keep the
\* invariant if they are its parts.
LEMMA OneMoves ==
  ASSUME TornInv, NEW i \in Installers, NEW q \in Procs,
         proc' = [proc EXCEPT ![i] = q],
         world' = world, clears' \in 0 .. world.clears,
         store' \in [Releases -> {Absent, "whole"}],
         kept' \in [Models -> {Absent, Body}],
         beside' \in [Releases -> Files],
         lock' \in [Projects -> Seq(Pinned)],
         \A r : store[r] = "whole" => store'[r] = "whole",
         Beside',
         q.temp = q.hashed, IsWhole(q.made),
         q.pc \in Walking => q.chain # <<>>,
         q.pc \in Bringing => store'[Last(q.chain).rel] = "whole",
         q.pc \in Bringing \ {"models"} => world.pins[Last(q.chain).rel] # Absent
  PROVE  TornInv'
<1>1. /\ Releases' = Releases /\ Models' = Models /\ Projects' = Projects
      /\ Pinned' = Pinned /\ Walks' = Walks /\ Procs' = Procs
  BY DEF Releases, Models, Projects, Pinned, Walks, Procs
<1>2. proc \in [Installers -> Procs] /\ world \in Worlds
  BY DEF TornInv, Shape
<1>3. Shape'
  BY <1>1, <1>2 DEF Shape
<1>4. \A j \in Installers : proc'[j] = IF j = i THEN q ELSE proc[j]
  BY <1>2
<1>5. HashesItsFile'
  BY <1>4 DEF TornInv, HashesItsFile
<1>6. Reached'
  <2> SUFFICES ASSUME NEW j \in Installers
               PROVE  /\ proc'[j].pc \in Walking => proc'[j].chain # <<>>
                      /\ proc'[j].pc \in Bringing => store'[Last(proc'[j].chain).rel] = "whole"
                      /\ proc'[j].pc \in Bringing \ {"models"} =>
                           world.pins[Last(proc'[j].chain).rel] # Absent
    BY DEF Reached, rel, pin, Walked
  <2>1. CASE j = i
    BY <1>4, <2>1
  <2>2. CASE j # i
    BY <1>4, <2>2 DEF TornInv, Reached, rel, pin, Walked
  <2> QED BY <2>1, <2>2
<1>7. MadeWhole'
  BY <1>4 DEF TornInv, MadeWhole, IsWhole
<1> QED BY <1>3, <1>5, <1>6, <1>7 DEF TornInv

\* The same, where nothing but that installer's state changes.
LEMMA OnlyOneMoves ==
  ASSUME TornInv, NEW i \in Installers, NEW q \in Procs,
         proc' = [proc EXCEPT ![i] = q], UNCHANGED shared,
         q.temp = q.hashed, IsWhole(q.made),
         q.pc \in Walking => q.chain # <<>>,
         q.pc \in Bringing => store[Last(q.chain).rel] = "whole",
         q.pc \in Bringing \ {"models"} => world.pins[Last(q.chain).rel] # Absent
  PROVE  TornInv'
<1>1. /\ world' = world /\ store' = store /\ kept' = kept /\ beside' = beside
      /\ lock' = lock /\ clears' = clears
  BY DEF shared
<1>2. Beside'
  BY <1>1 DEF TornInv, Beside, Releases
<1>3. /\ clears' \in 0 .. world.clears
      /\ store' \in [Releases -> {Absent, "whole"}]
      /\ kept' \in [Models -> {Absent, Body}]
      /\ beside' \in [Releases -> Files]
      /\ lock' \in [Projects -> Seq(Pinned)]
  BY <1>1 DEF TornInv, Shape
<1> QED BY <1>1, <1>2, <1>3, OneMoves

\* What a step may do to the files, with one installer going on from there.
LEMMA FilesMove ==
  ASSUME TornInv, NEW i \in Installers,
         NEW pc \in Walking \cup {"idle", "write", "root", "done", "failed", "crashed"},
         Go(i, pc), world' = world, clears' = clears,
         pc \in Walking => proc[i].pc \in Walking,
         pc \in Bringing => store'[rel(i)] = "whole",
         pc \notin Bringing \ {"models"} \/ pin(i) # Absent,
         store' \in [Releases -> {Absent, "whole"}],
         kept' \in [Models -> {Absent, Body}],
         beside' \in [Releases -> Files],
         lock' \in [Projects -> Seq(Pinned)],
         \A r : store[r] = "whole" => store'[r] = "whole",
         Beside'
  PROVE  TornInv'
<1> DEFINE q == [proc[i] EXCEPT !.pc = pc]
<1>1. proc[i] \in Procs /\ proc \in [Installers -> Procs] /\ clears \in 0 .. world.clears
  BY DEF TornInv, Shape
<1>2. /\ q \in Procs /\ q.pc = pc /\ q.chain = proc[i].chain
      /\ q.temp = proc[i].temp /\ q.hashed = proc[i].hashed /\ q.made = proc[i].made
  BY <1>1 DEF Procs
<1>3. proc' = [proc EXCEPT ![i] = q]
  BY DEF Go
<1>4. q.temp = q.hashed /\ IsWhole(q.made)
  BY <1>2 DEF TornInv, HashesItsFile, MadeWhole
<1>5. q.pc \in Walking => q.chain # <<>>
  BY <1>2 DEF TornInv, Reached
<1>6. /\ q.pc \in Bringing => store'[Last(q.chain).rel] = "whole"
      /\ q.pc \in Bringing \ {"models"} => world.pins[Last(q.chain).rel] # Absent
  BY <1>2 DEF rel, pin, Walked
<1> HIDE DEF q
<1> QED BY <1>1, <1>2, <1>3, <1>4, <1>5, <1>6, OneMoves
\* The place of a step in the walk alone.
LEMMA OnlyGoes ==
  ASSUME TornInv, NEW i \in Installers,
         NEW pc \in Walking \cup {"idle", "write", "root", "done", "failed", "crashed"},
         Go(i, pc), UNCHANGED shared,
         pc \in Walking => proc[i].pc \in Walking,
         pc \in Bringing => store[rel(i)] = "whole",
         pc \in Bringing \ {"models"} => pin(i) # Absent
  PROVE  TornInv'
<1>1. /\ world' = world /\ store' = store /\ kept' = kept /\ beside' = beside
      /\ lock' = lock /\ clears' = clears
  BY DEF shared
<1>2. Beside'
  BY <1>1 DEF TornInv, Beside, Releases
<1>3. /\ store' \in [Releases -> {Absent, "whole"}]
      /\ kept' \in [Models -> {Absent, Body}]
      /\ beside' \in [Releases -> Files]
      /\ lock' \in [Projects -> Seq(Pinned)]
  BY <1>1 DEF TornInv, Shape
<1> QED BY <1>1, <1>2, <1>3, FilesMove

\* Where an installer is, its release is one there is.
LEMMA AtRelease ==
  ASSUME TornInv, NEW i \in Installers, proc[i].pc \in Walking
  PROVE  /\ proc[i] \in Procs /\ proc \in [Installers -> Procs]
         /\ proc[i].chain \in Seq(Walks) /\ proc[i].chain # <<>>
         /\ Walked(i) \in Walks /\ rel(i) \in Releases
         /\ pin(i) \in Models \/ pin(i) = Absent
<1>1. proc[i] \in Procs /\ proc \in [Installers -> Procs]
  BY DEF TornInv, Shape
<1>2. proc[i].chain \in Seq(Walks) /\ proc[i].chain # <<>>
  BY <1>1 DEF TornInv, Reached, Procs
<1>3. Walked(i) \in Walks
  BY <1>2, ChainParts DEF Walked
<1>4. rel(i) \in Releases
  BY <1>3 DEF rel, Walks
<1>5. pin(i) \in Models \/ pin(i) = Absent
  BY <1>4 DEF pin, Models
<1> QED BY <1>1, <1>2, <1>3, <1>4, <1>5

\* An installer that is over knows nothing.
LEMMA OverParts ==
  ASSUME NEW p \in Procs,
         NEW pc \in {"idle", "write", "crashed"}, NEW entries \in Seq(Pinned)
  PROVE  /\ Over(p, pc, entries) \in Procs /\ Over(p, pc, entries).pc = pc
         /\ Over(p, pc, entries).entries = entries /\ Over(p, pc, entries).chain = <<>>
         /\ Over(p, pc, entries).temp = Over(p, pc, entries).hashed
         /\ Over(p, pc, entries).made = NoFile /\ IsWhole(Over(p, pc, entries).made)
<1>1. <<>> \in Seq(Nat) /\ <<>> \in Seq(Walks) /\ <<>> \in Seq(Pinned) /\ 0 \in Nat
  BY EmptySeq
<1>2. p.runs \in Nat
  BY DEF Procs
<1>3. NoFile \in Files /\ IsWhole(NoFile)
  BY DEF NoFile, Files, IsWhole
<1>4. Idle \in Procs
  BY <1>1, <1>3 DEF Idle, Procs
<1>5. PICK a \in Procs : a = [Idle EXCEPT !.pc = pc]
  BY <1>4 DEF Procs
<1>6. PICK b \in Procs : b = [a EXCEPT !.entries = entries]
  BY <1>5 DEF Procs
<1>7. Over(p, pc, entries) = [b EXCEPT !.runs = p.runs]
  BY <1>4, <1>5, <1>6 DEF Over, Procs
<1>8. /\ b.pc = pc /\ b.entries = entries /\ b.chain = <<>>
      /\ b.temp = <<>> /\ b.hashed = <<>> /\ b.made = NoFile
  BY <1>4, <1>5, <1>6 DEF Idle, Procs
<1>9. PICK c \in Procs : c = [b EXCEPT !.runs = p.runs]
  BY <1>2, <1>6 DEF Procs
<1>10. /\ c.pc = pc /\ c.entries = entries /\ c.chain = <<>>
       /\ c.temp = <<>> /\ c.hashed = <<>> /\ c.made = NoFile
  BY <1>6, <1>8, <1>9 DEF Procs
<1>11. Over(p, pc, entries) = c
  BY <1>7, <1>9
<1> QED BY <1>3, <1>10, <1>11

\* Back from a release, the walk is at the one before it or over.
LEMMA BackParts ==
  ASSUME NEW p \in Procs, p.chain # <<>>, p.temp = p.hashed, IsWhole(p.made)
  PROVE  /\ Back(p) \in Procs
         /\ Back(p).temp = Back(p).hashed /\ IsWhole(Back(p).made)
         /\ Back(p).made \in {p.made, NoFile}
         /\ Back(p).entries = p.entries
         /\ \/ Back(p).pc = "write" /\ Back(p).chain = <<>>
            \/ /\ Back(p).pc = "deps" /\ Back(p).chain = Front(p.chain)
               /\ Back(p).chain # <<>> /\ Len(p.chain) > 1
<1>1. p.chain \in Seq(Walks) /\ p.chain # <<>> /\ p.entries \in Seq(Pinned)
  BY DEF Procs
<1>2. /\ Len(p.chain) \in Nat \ {0}
      /\ Front(p.chain) \in Seq(Walks) /\ Len(Front(p.chain)) = Len(p.chain) - 1
  BY <1>1, ChainParts
<1>3. CASE Len(p.chain) = 1
  BY <1>1, <1>3, OverParts DEF Back
<1>4. CASE Len(p.chain) # 1
  <2>0. ASSUME NEW l \in Nat \ {0}, l # 1 PROVE l - 1 # 0 /\ l > 1
    BY <2>0
  <2>1. Len(Front(p.chain)) # 0 /\ Len(p.chain) > 1
    BY <1>2, <1>4, <2>0
  <2>2. Front(p.chain) # <<>>
    BY <2>1
  <2> QED BY <1>2, <1>4, <2>1, <2>2 DEF Back, Procs, Walking
<1> QED BY <1>3, <1>4

-----------------------------------------------------------------------------
(* NeverTorn: each step keeps TornInv.                                     *)

\* The steps of the walk.
LEMMA WalkKeepsWhole ==
  ASSUME TornInv, NEW i \in Installers,
         Install(i) \/ Ensure(i) \/ Dependencies(i) \/ WriteLock(i) \/ Return(i)
  PROVE  TornInv'
<1>1. proc[i] \in Procs /\ proc \in [Installers -> Procs] /\ world \in Worlds
  BY DEF TornInv, Shape
<1>2. CASE Install(i)
  <2> DEFINE entries == lock[world.project[i]]
             step    == Step(world.asks[i], entries)
             q == [Idle EXCEPT !.pc = "ensure", !.runs = proc[i].runs + 1,
                               !.entries = entries, !.chain = <<step>>]
  <2>1. entries \in Seq(Pinned)
    BY DEF TornInv, Shape, Projects
  <2>2. world.asks[i] \in Releases
    BY <1>1, InstallsAssumption DEF Releases
  <2>3. step \in Walks
    BY <2>1, <2>2, StepType
  <2> HIDE DEF step, entries
  <2>4. <<step>> \in Seq(Walks) /\ <<step>> # <<>>
    BY <2>3
  <2>5. q \in Procs
    <3>1. <<>> \in Seq(Nat) /\ <<>> \in Seq(Walks) /\ <<>> \in Seq(Pinned)
      BY EmptySeq
    <3>2. proc[i].runs + 1 \in Nat /\ 0 \in Nat
      <4>1. proc[i].runs \in Nat
        BY <1>1 DEF Procs
      <4> QED BY <4>1
    <3>3. Idle \in Procs
      BY <3>1, <3>2 DEF Idle, NoFile, Files, Procs
    <3> QED BY <2>1, <2>4, <3>2, <3>3 DEF Procs, Walking
  <2>7. q.temp = q.hashed /\ q.pc = "ensure" /\ q.chain # <<>> /\ IsWhole(q.made)
    BY <2>4 DEF Idle, NoFile, IsWhole
  <2>6. proc' = [proc EXCEPT ![i] = q] /\ UNCHANGED shared
    BY <1>2 DEF Install, step, entries
  <2> HIDE DEF q
  <2> QED BY <2>5, <2>6, <2>7, OnlyOneMoves DEF Bringing, Placing
<1>3. CASE Ensure(i)
  <2>0. /\ proc[i].pc = "ensure" /\ proc[i].temp = proc[i].hashed /\ IsWhole(proc[i].made)
        /\ UNCHANGED shared
    BY <1>3 DEF Ensure, At, TornInv, HashesItsFile, MadeWhole
  <2>1. proc[i].chain \in Seq(Walks) /\ proc[i].chain # <<>>
    BY <2>0, AtRelease DEF Walking
  <2>2. CASE proc' = [proc EXCEPT ![i] = [proc[i] EXCEPT !.pc = "failed"]]
    BY <2>0, <2>2, OnlyGoes DEF Go, Walking, Bringing, Placing
  <2>3. CASE proc' = [proc EXCEPT ![i] = Back(proc[i])]
    <3>1. /\ Back(proc[i]).temp = Back(proc[i]).hashed /\ Back(proc[i]) \in Procs
          /\ IsWhole(Back(proc[i]).made)
      BY <1>1, <2>0, <2>1, BackParts
    <3>2. /\ Back(proc[i]).pc \in Walking => Back(proc[i]).chain # <<>>
          /\ Back(proc[i]).pc \notin Bringing
      BY <1>1, <2>0, <2>1, BackParts DEF Walking, Bringing, Placing
    <3> QED BY <2>0, <2>3, <3>1, <3>2, OnlyOneMoves
  <2>4. CASE proc' = [proc EXCEPT ![i] = [proc[i] EXCEPT !.pc = Brings(i)]]
    <3>1. rel(i) \in Releases
      BY <2>0, AtRelease DEF Walking
    <3>2. Brings(i) \in {"models", "fetch"} /\ (Brings(i) = "models" => store[rel(i)] = "whole")
      BY <3>1 DEF Brings, stored, TornInv, Shape
    <3> QED BY <2>0, <2>4, <3>2, OnlyGoes DEF Go, Walking, Bringing, Placing
  <2> QED BY <1>3, <2>2, <2>3, <2>4 DEF Ensure
<1>4. CASE Dependencies(i)
  <2> DEFINE p == proc[i]
             f == Walked(i)
             entry == [rel |-> f.rel, deps |-> world.needs[f.rel]]
             g == [f EXCEPT !.todo = Tail(@)]
             next == Step(Head(f.todo), p.entries)
  <2>0. /\ p.pc = "deps" /\ p.temp = p.hashed /\ IsWhole(p.made) /\ UNCHANGED shared
        /\ p.entries \in Seq(Pinned)
    BY <1>1, <1>4 DEF Dependencies, At, TornInv, HashesItsFile, MadeWhole, Procs
  <2>1. p.chain \in Seq(Walks) /\ p.chain # <<>> /\ f \in Walks
    BY <2>0, AtRelease DEF Walking
  <2>2. CASE f.todo # <<>>
    <3> DEFINE c == Append(Front(p.chain) \o <<g>>, next)
               q == [p EXCEPT !.pc = "ensure", !.chain = c]
    <3>1. Head(f.todo) \in Releases /\ Tail(f.todo) \in Seq(Releases)
      BY <2>1, <2>2 DEF Walks
    <3>2. next \in Walks
      BY <2>0, <3>1, StepType
    <3>3. g \in Walks
      BY <2>1, <3>1 DEF Walks
    <3> HIDE DEF g, next
    <3>4. Front(p.chain) \o <<g>> \in Seq(Walks)
      BY <2>1, <3>3, ChainParts
    <3>5. c \in Seq(Walks) /\ c # <<>>
      BY <3>2, <3>4, Added
    <3>6. proc' = [proc EXCEPT ![i] = q]
      BY <1>4, <2>2 DEF Dependencies, g, next
    <3> HIDE DEF c
    <3>7. /\ q \in Procs /\ q.temp = q.hashed /\ q.pc = "ensure" /\ q.chain = c
          /\ IsWhole(q.made)
      BY <1>1, <2>0, <3>5 DEF Procs, Walking
    <3> HIDE DEF q
    <3> QED BY <2>0, <3>5, <3>6, <3>7, OnlyOneMoves DEF Bringing, Placing
  <2>3. CASE f.todo = <<>>
    <3> DEFINE e == IF f.pinned THEN p.entries ELSE Append(p.entries, entry)
               r == [p EXCEPT !.entries = e]
    <3>1. entry \in Pinned
      <4>1. f.rel \in Releases
        BY <2>1 DEF Walks
      <4>2. world.needs[f.rel] \in Seq(Releases)
        BY <1>1, <4>1, InstallsAssumption DEF Releases
      <4> QED BY <4>1, <4>2 DEF Pinned
    <3> HIDE DEF entry
    <3>2. e \in Seq(Pinned)
      BY <2>0, <3>1
    <3>3. proc' = [proc EXCEPT ![i] = Back(r)]
      BY <1>4, <2>3 DEF Dependencies, entry
    <3> HIDE DEF e
    <3>4. r \in Procs /\ r.chain = p.chain /\ r.temp = r.hashed /\ IsWhole(r.made)
      BY <1>1, <2>0, <3>2 DEF Procs
    <3> HIDE DEF r
    <3>5. /\ Back(r) \in Procs /\ Back(r).temp = Back(r).hashed /\ IsWhole(Back(r).made)
          /\ Back(r).pc \in Walking => Back(r).chain # <<>>
          /\ Back(r).pc \notin Bringing
      BY <2>1, <3>4, BackParts DEF Walking, Bringing, Placing
    <3> QED BY <2>0, <3>3, <3>5, OnlyOneMoves
  <2> QED BY <2>2, <2>3
<1>5. CASE WriteLock(i)
  <2>1. proc[i].entries \in Seq(Pinned) /\ lock \in [Projects -> Seq(Pinned)]
    BY <1>1 DEF Procs, TornInv, Shape
  <2>2. lock' \in [Projects -> Seq(Pinned)]
    BY <1>5, <2>1 DEF WriteLock
  <2>3. /\ Go(i, "root") /\ world' = world /\ clears' = clears /\ store' = store
        /\ kept' = kept /\ beside' = beside
    BY <1>5 DEF WriteLock
  <2>4. Beside'
    BY <2>3 DEF TornInv, Beside, Releases
  <2>5. /\ store' \in [Releases -> {Absent, "whole"}]
        /\ kept' \in [Models -> {Absent, Body}]
        /\ beside' \in [Releases -> Files]
    BY <2>3 DEF TornInv, Shape
  <2> QED BY <2>2, <2>3, <2>4, <2>5, FilesMove DEF Walking, Bringing, Placing
<1>6. CASE Return(i)
  <2>1. UNCHANGED shared /\ \E pc \in {"done", "failed"} : Go(i, pc)
    BY <1>6 DEF Return
  <2> QED BY <2>1, OnlyGoes DEF Walking, Bringing, Placing
<1> QED BY <1>2, <1>3, <1>4, <1>5, <1>6

\* An installer that brings a release goes on with it.
LEMMA BringsOn ==
  ASSUME TornInv, NEW i \in Installers, proc[i].pc \in Bringing \ {"models"},
         NEW q \in Procs, proc' = [proc EXCEPT ![i] = q], UNCHANGED shared,
         q.chain = proc[i].chain, q.temp = q.hashed, IsWhole(q.made)
  PROVE  TornInv'
<1>1. store[rel(i)] = "whole" /\ pin(i) # Absent /\ proc[i].chain # <<>>
  BY DEF TornInv, Reached, Walking
<1>2. store[Last(q.chain).rel] = "whole" /\ world.pins[Last(q.chain).rel] # Absent
  BY <1>1 DEF rel, pin, Walked
<1> QED BY <1>1, <1>2, OnlyOneMoves

\* What the hub is asked from, and what a place_model that placed nothing leaves.
LEMMA AskingParts ==
  ASSUME NEW p \in Procs
  PROVE  /\ Asking(p) \in Procs /\ Asking(p).pc = "request"
         /\ Asking(p).chain = p.chain /\ Asking(p).entries = p.entries
         /\ Asking(p).made = p.made /\ Asking(p).temp = Asking(p).hashed
<1>1. <<>> \in Seq(Nat) /\ 0 \in Nat
  BY EmptySeq
<1>2. Asking(p) = [p EXCEPT !.pc = "request", !.temp = <<>>, !.hashed = <<>>,
                            !.lost = FALSE, !.retries = 0]
  BY DEF Asking
<1> QED BY <1>1, <1>2 DEF Procs, Walking, Bringing

LEMMA UnplacedParts ==
  ASSUME NEW p \in Procs, p.temp = p.hashed
  PROVE  /\ Unplaced(p) \in Procs /\ Unplaced(p).pc \in {"deps", "request", "failed"}
         /\ Unplaced(p).pc = "deps" => p.placing = "spare"
         /\ Unplaced(p).chain = p.chain /\ Unplaced(p).entries = p.entries
         /\ Unplaced(p).made = p.made /\ Unplaced(p).temp = Unplaced(p).hashed
<1>1. CASE p.placing = "spare"
  <2>1. Unplaced(p) = [p EXCEPT !.pc = "deps"]
    BY <1>1 DEF Unplaced
  <2> QED BY <1>1, <2>1 DEF Procs, Walking
<1>2. CASE p.placing = "cache"
  <2>1. Unplaced(p) = Asking(p)
    BY <1>2 DEF Unplaced
  <2> QED BY <2>1, AskingParts
<1>3. CASE p.placing = "hub"
  <2>1. Unplaced(p) = [p EXCEPT !.pc = "failed"]
    BY <1>3 DEF Unplaced
  <2> QED BY <2>1 DEF Procs, Walking
<1> QED BY <1>1, <1>2, <1>3 DEF Procs

\* Bringing a release: its content, then its model, from where it is nearest.
LEMMA BringKeepsWhole ==
  ASSUME TornInv, NEW i \in Installers,
         Fetch(i) \/ Unpack(i) \/ Look(i) \/ Match(i) \/ CacheModel(i) \/ FromCache(i)
  PROVE  TornInv'
<1>0. proc[i].pc \in Walking
  BY DEF Fetch, Unpack, Look, Match, CacheModel, FromCache, At, Walking, Bringing
<1>1. /\ proc[i] \in Procs /\ proc \in [Installers -> Procs]
      /\ rel(i) \in Releases /\ (pin(i) \in Models \/ pin(i) = Absent)
      /\ proc[i].chain # <<>>
  BY <1>0, AtRelease
<1>2. /\ store \in [Releases -> {Absent, "whole"}] /\ kept \in [Models -> {Absent, Body}]
      /\ beside \in [Releases -> Files]
      /\ lock \in [Projects -> Seq(Pinned)]
  BY DEF TornInv, Shape
<1>9. proc[i].temp = proc[i].hashed /\ IsWhole(proc[i].made)
  BY DEF TornInv, HashesItsFile, MadeWhole
<1>3. CASE Fetch(i)
  <2>1. /\ UNCHANGED shared
        /\ \E pc \in {"models", "extract", "failed"} :
             Go(i, pc) /\ (pc = "models" => store[rel(i)] = "whole")
    BY <1>1, <1>2, <1>3 DEF Fetch, stored
  <2> QED BY <1>0, <2>1, OnlyGoes DEF Walking, Bringing, Placing
<1>4. CASE Unpack(i)
  <2>1. /\ Go(i, "models") /\ world' = world /\ clears' = clears
        /\ kept' = kept /\ beside' = beside /\ lock' = lock
        /\ store' = [store EXCEPT ![rel(i)] = "whole"]
    BY <1>4 DEF Unpack
  <2>2. /\ store' \in [Releases -> {Absent, "whole"}] /\ store'[rel(i)] = "whole"
        /\ \A r : store[r] = "whole" => store'[r] = "whole"
    <3>1. store' \in [Releases -> {Absent, "whole"}] /\ store'[rel(i)] = "whole"
      BY <1>1, <1>2, <2>1
    <3>2. ASSUME NEW r, store[r] = "whole" PROVE store'[r] = "whole"
      BY <1>1, <1>2, <2>1, <3>2
    <3> QED BY <3>1, <3>2
  <2>3. Beside'
    BY <2>1 DEF TornInv, Beside, Releases
  <2> QED BY <1>0, <1>2, <2>1, <2>2, <2>3, FilesMove DEF Walking, Bringing, Placing
<1>5. CASE Look(i)
  <2>0. proc[i].pc = "models" /\ UNCHANGED shared /\ store[rel(i)] = "whole"
    BY <1>5 DEF Look, At, TornInv, Reached, Bringing
  <2>1. CASE proc' = [proc EXCEPT ![i] = [proc[i] EXCEPT !.pc = "deps"]]
    BY <1>0, <2>0, <2>1, OnlyGoes DEF Go, Walking, Bringing, Placing
  <2>2. CASE /\ pin(i) # Absent
             /\ proc' = [proc EXCEPT ![i] = [proc[i] EXCEPT !.pc = "match",
                                                           !.cached = kept[pin(i)] # Absent]]
    <3> DEFINE q == [proc[i] EXCEPT !.pc = "match", !.cached = kept[pin(i)] # Absent]
    <3>1. (kept[pin(i)] # Absent) \in BOOLEAN
      OBVIOUS
    <3>2. /\ q \in Procs /\ q.pc = "match" /\ q.chain = proc[i].chain /\ q.temp = q.hashed
          /\ IsWhole(q.made)
      BY <1>1, <1>9, <3>1 DEF Procs, Walking, Bringing
    <3>3. proc' = [proc EXCEPT ![i] = q]
      BY <2>2
    <3> HIDE DEF q
    <3>4. store[Last(q.chain).rel] = "whole" /\ world.pins[Last(q.chain).rel] # Absent
      BY <2>0, <2>2, <3>2 DEF rel, pin, Walked
    <3> QED BY <1>1, <2>0, <3>2, <3>3, <3>4, OnlyOneMoves
  <2>3. \/ proc' = [proc EXCEPT ![i] = [proc[i] EXCEPT !.pc = "deps"]]
        \/ /\ pin(i) # Absent
           /\ proc' = [proc EXCEPT ![i] = [proc[i] EXCEPT !.pc = "match",
                                                         !.cached = kept[pin(i)] # Absent]]
    BY <1>5 DEF Look
  <2> QED BY <2>1, <2>2, <2>3
<1>6. CASE Match(i) \/ FromCache(i)
  <2> DEFINE a == [proc[i] EXCEPT !.pc = "check", !.placing = "spare"]
             b == [proc[i] EXCEPT !.pc = "pass"]
             c == [proc[i] EXCEPT !.pc = "check", !.placing = "cache"]
             d == Asking(proc[i])
  <2>0. proc[i].pc \in Bringing \ {"models"} /\ UNCHANGED shared
    BY <1>6 DEF Match, FromCache, At, Bringing
  <2>1. \E q \in {a, b, c, d} : proc' = [proc EXCEPT ![i] = q]
    BY <1>6 DEF Match, FromCache
  <2>2. ASSUME NEW q \in {a, b, c}
        PROVE  q \in Procs /\ q.chain = proc[i].chain /\ q.temp = q.hashed /\ IsWhole(q.made)
    BY <1>1, <1>9 DEF Procs, Walking, Bringing, Placing
  <2>3. d \in Procs /\ d.chain = proc[i].chain /\ d.temp = d.hashed /\ IsWhole(d.made)
    BY <1>1, <1>9, AskingParts
  <2> HIDE DEF a, b, c, d
  <2> QED BY <2>0, <2>1, <2>2, <2>3, BringsOn
<1>7. CASE CacheModel(i)
  <2>0. pin(i) # Absent /\ pin(i) \in Models
    BY <1>1, <1>7 DEF CacheModel, At, TornInv, Reached, Bringing
  <2>1. Go(i, "deps") /\ world' = world /\ clears' = clears /\ store' = store /\ lock' = lock
    BY <1>7 DEF CacheModel
  <2>2. CASE kept' = kept /\ beside' = beside
    <3>1. Beside'
      BY <2>1, <2>2 DEF TornInv, Beside, Releases
    <3> QED BY <1>0, <1>2, <2>1, <2>2, <3>1, FilesMove DEF Walking, Bringing, Placing
  <2>3. CASE /\ kept[pin(i)] = Absent /\ Found(rel(i)) = Body
             /\ kept' = [kept EXCEPT ![pin(i)] = Body]
             /\ beside' = IF "hard" \in world.links
                          THEN [beside EXCEPT ![rel(i)].how = "hard"] ELSE beside
    <3>1. kept' \in [Models -> {Absent, Body}]
      BY <1>2, <2>0, <2>3
    <3>2. CASE beside' = beside
      <4>1. Beside'
        BY <2>1, <3>2 DEF TornInv, Beside, Releases
      <4> QED BY <1>0, <1>2, <2>1, <3>1, <3>2, <4>1, FilesMove DEF Walking, Bringing, Placing
    <3>3. CASE beside' = [beside EXCEPT ![rel(i)].how = "hard"]
      <4>1. beside[rel(i)].how # "symlink"
        BY <1>1, <2>3, InstallsAssumption DEF Found, pin
      <4>2. beside[rel(i)].data = Body
        BY <2>3, <4>1 DEF Found
      <4>3. \A r \in Releases :
              /\ beside'[r] \in Files
              /\ beside'[r].data = beside[r].data
              /\ beside'[r].how = IF r = rel(i) THEN "hard" ELSE beside[r].how
        BY <1>1, <1>2, <3>3 DEF Files
      <4>4. Beside'
        BY <2>1, <4>2, <4>3 DEF TornInv, Beside, IsWhole, Releases
      <4>5. beside' \in [Releases -> Files]
        BY <1>2, <3>3, <4>3
      <4> QED BY <1>0, <1>2, <2>1, <3>1, <4>4, <4>5, FilesMove DEF Walking, Bringing, Placing
    <3> QED BY <2>3, <3>2, <3>3
  <2> QED BY <1>7, <2>2, <2>3 DEF CacheModel
<1> QED BY <1>3, <1>4, <1>5, <1>6, <1>7

\* Placing a model: the file is made, and renamed onto its name.
LEMMA PlaceKeepsWhole ==
  ASSUME TornInv, NEW i \in Installers,
         Check(i) \/ Make(i) \/ Rename(i) \/ Unwritten(i)
  PROVE  TornInv'
<1>0. proc[i].pc \in Bringing \ {"models"}
  BY DEF Check, Make, Rename, Unwritten, At, Bringing, Placing
<1>1. /\ proc[i] \in Procs /\ proc \in [Installers -> Procs]
      /\ rel(i) \in Releases /\ (pin(i) \in Models \/ pin(i) = Absent)
      /\ proc[i].chain # <<>> /\ proc[i].pc \in Walking
  BY <1>0, AtRelease DEF Walking
<1>2. /\ store[rel(i)] = "whole" /\ pin(i) # Absent /\ world.pins[rel(i)] = pin(i)
      /\ pin(i) \in Models /\ proc[i].temp = proc[i].hashed /\ IsWhole(proc[i].made)
  BY <1>0, <1>1 DEF TornInv, Reached, HashesItsFile, MadeWhole, pin
<1>3. /\ store \in [Releases -> {Absent, "whole"}] /\ kept \in [Models -> {Absent, Body}]
      /\ beside \in [Releases -> Files]
      /\ lock \in [Projects -> Seq(Pinned)]
  BY DEF TornInv, Shape
<1>4. NoFile \in Files /\ IsWhole(NoFile)
  BY DEF NoFile, Files, IsWhole
<1> DEFINE u == Unplaced(proc[i])
<1>5. u \in Procs /\ u.chain = proc[i].chain /\ u.temp = u.hashed /\ u.made = proc[i].made
  BY <1>1, <1>2, UnplacedParts
<1> HIDE DEF u
<1>6. CASE Check(i)
  <2> DEFINE q == [proc[i] EXCEPT !.pc = "make"]
  <2>1. q \in Procs /\ q.chain = proc[i].chain /\ q.temp = q.hashed /\ IsWhole(q.made)
    BY <1>1, <1>2 DEF Procs, Walking, Bringing, Placing
  <2>2. UNCHANGED shared /\ (proc' = [proc EXCEPT ![i] = q] \/ proc' = [proc EXCEPT ![i] = u])
    BY <1>6 DEF Check, u
  <2> HIDE DEF q
  <2> QED BY <1>0, <1>2, <1>5, <2>1, <2>2, BringsOn
<1>7. CASE Make(i)
  <2> DEFINE f == _made(i)
             q == [proc[i] EXCEPT !.pc = "rename", !.made = f]
  <2>1. f \in Files /\ IsWhole(f)
    BY <1>2, <1>3, <1>4 DEF _made, Files, IsWhole
  <2>2. UNCHANGED shared /\ (proc' = [proc EXCEPT ![i] = q] \/ proc' = [proc EXCEPT ![i] = u])
    BY <1>7 DEF Make, u
  <2> HIDE DEF f
  <2>3. q \in Procs /\ q.chain = proc[i].chain /\ q.temp = q.hashed /\ IsWhole(q.made)
    BY <1>1, <1>2, <2>1 DEF Procs, Walking, Bringing, Placing
  <2> HIDE DEF q
  <2> QED BY <1>0, <1>2, <1>5, <2>2, <2>3, BringsOn
<1>8. CASE Rename(i)
  <2> DEFINE q == [proc[i] EXCEPT !.pc = "deps", !.made = NoFile]
  <2>1. /\ world' = world /\ store' = store /\ kept' = kept /\ lock' = lock /\ clears' = clears
        /\ beside' = [beside EXCEPT ![rel(i)] = proc[i].made]
        /\ proc' = [proc EXCEPT ![i] = q]
    BY <1>1, <1>8 DEF Rename
  <2>2. /\ q \in Procs /\ q.pc = "deps" /\ q.chain = proc[i].chain /\ q.temp = q.hashed
        /\ IsWhole(q.made)
    BY <1>1, <1>2, <1>4 DEF Procs, Walking
  <2> HIDE DEF q
  <2>3. proc[i].made \in Files
    BY <1>1 DEF Procs
  <2>4. beside' \in [Releases -> Files]
    BY <1>3, <2>1, <2>3
  <2>5. \A r \in Releases : beside'[r] = IF r = rel(i) THEN proc[i].made ELSE beside[r]
    BY <1>3, <2>1
  <2>6. Beside'
    BY <1>2, <2>1, <2>5 DEF TornInv, Beside, Releases
  <2>7. clears \in 0 .. world.clears
    BY DEF TornInv, Shape
  <2> QED BY <1>1, <1>3, <2>1, <2>2, <2>4, <2>6, <2>7, OneMoves DEF Bringing, Placing
<1>9. CASE Unwritten(i)
  <2> DEFINE q == [u EXCEPT !.made = NoFile]
  <2>1. q \in Procs /\ q.chain = proc[i].chain /\ q.temp = q.hashed /\ IsWhole(q.made)
    BY <1>4, <1>5 DEF Procs
  <2>2. UNCHANGED shared /\ proc' = [proc EXCEPT ![i] = q]
    BY <1>9 DEF Unwritten, u
  <2> HIDE DEF q
  <2> QED BY <1>0, <2>1, <2>2, BringsOn
<1> QED BY <1>6, <1>7, <1>8, <1>9

\* The model from the hub: asked for, read, asked for again, kept.
LEMMA StreamKeepsWhole ==
  ASSUME TornInv, NEW i \in Installers,
         \/ Request(i) \/ ReadBlock(i) \/ ReadEnd(i) \/ Transient(i) \/ Refused(i)
         \/ Keep(i) \/ KeepBeside(i)
  PROVE  TornInv'
<1>0. proc[i].pc \in Bringing \ {"models"}
  BY DEF Request, ReadBlock, ReadEnd, Transient, Refused, Keep, KeepBeside, At, Bringing
<1>1. /\ proc[i] \in Procs /\ proc \in [Installers -> Procs]
      /\ rel(i) \in Releases /\ (pin(i) \in Models \/ pin(i) = Absent)
      /\ proc[i].chain # <<>> /\ proc[i].pc \in Walking
  BY <1>0, AtRelease DEF Walking
<1>2. /\ store[rel(i)] = "whole" /\ pin(i) # Absent /\ world.pins[rel(i)] = pin(i)
      /\ pin(i) \in Models /\ proc[i].temp = proc[i].hashed /\ IsWhole(proc[i].made)
  BY <1>0, <1>1 DEF TornInv, Reached, HashesItsFile, MadeWhole, pin
<1>3. /\ store \in [Releases -> {Absent, "whole"}] /\ kept \in [Models -> {Absent, Body}]
      /\ beside \in [Releases -> Files]
      /\ lock \in [Projects -> Seq(Pinned)]
  BY DEF TornInv, Shape
\* A step that goes on in the same release with as much hashed as written.
<1>4. ASSUME NEW q \in Procs, proc' = [proc EXCEPT ![i] = q], UNCHANGED shared,
             q.chain = proc[i].chain, q.temp = q.hashed, q.made = proc[i].made
      PROVE  TornInv'
  BY <1>0, <1>2, <1>4, BringsOn
<1>5. CASE Request(i)
  <2> DEFINE a == [proc[i] EXCEPT !.pc = "read"]
             b == [StartOver(proc[i]) EXCEPT !.pc = "read"]
  <2>1. a \in Procs /\ a.chain = proc[i].chain /\ a.temp = a.hashed /\ a.made = proc[i].made
    BY <1>1, <1>2 DEF Procs, Walking, Bringing
  <2>2. b \in Procs /\ b.chain = proc[i].chain /\ b.temp = b.hashed /\ b.made = proc[i].made
    <3>1. <<>> \in Seq(Nat)
      BY EmptySeq
    <3> QED BY <1>1, <3>1 DEF StartOver, Procs, Walking, Bringing
  <2>3. UNCHANGED shared /\ (proc' = [proc EXCEPT ![i] = a] \/ proc' = [proc EXCEPT ![i] = b])
    BY <1>5 DEF Request
  <2> HIDE DEF a, b
  <2> QED BY <1>4, <2>1, <2>2, <2>3
<1>6. CASE ReadBlock(i)
  <2> DEFINE block == Len(proc[i].hashed) + 1
             q == [proc[i] EXCEPT !.temp = Append(@, block), !.hashed = Append(@, block)]
  <2>1. proc[i].hashed \in Seq(Nat) /\ proc[i].temp \in Seq(Nat)
    BY <1>1 DEF Procs
  <2>2. block \in Nat
    BY <2>1, LenProperties
  <2>3. Append(proc[i].hashed, block) \in Seq(Nat) /\ Append(proc[i].temp, block) \in Seq(Nat)
    BY <2>1, <2>2, AppendProperties
  <2>4. proc' = [proc EXCEPT ![i] = q] /\ UNCHANGED shared
    BY <1>1, <1>6 DEF ReadBlock
  <2> HIDE DEF block
  <2>5. /\ q \in Procs /\ q.chain = proc[i].chain /\ q.temp = q.hashed
        /\ q.made = proc[i].made
    BY <1>1, <1>2, <2>3 DEF Procs
  <2> HIDE DEF q
  <2> QED BY <1>4, <2>4, <2>5
<1>7. CASE ReadEnd(i) \/ Refused(i)
  <2>1. UNCHANGED shared /\ \E pc \in {"verify", "failed"} : Go(i, pc)
    BY <1>7 DEF ReadEnd, Refused
  <2> QED BY <1>1, <1>2, <2>1, OnlyGoes DEF Walking, Bringing, Placing
<1>8. CASE Transient(i)
  <2>1. proc' = [proc EXCEPT ![i] = Again(proc[i])] /\ UNCHANGED shared
    BY <1>8 DEF Transient
  <2>2. proc[i].retries + 1 \in Nat
    <3>1. proc[i].retries \in Nat
      BY <1>1 DEF Procs
    <3> QED BY <3>1
  <2>3. /\ Again(proc[i]) \in Procs /\ Again(proc[i]).chain = proc[i].chain
        /\ Again(proc[i]).temp = Again(proc[i]).hashed /\ Again(proc[i]).made = proc[i].made
    BY <1>1, <1>2, <2>2 DEF Again, Procs, Walking, Bringing
  <2> QED BY <1>4, <2>1, <2>3
<1>9. CASE Keep(i)
  <2>1. world' = world /\ clears' = clears /\ store' = store /\ lock' = lock /\ beside' = beside
    BY <1>9 DEF Keep
  <2>2. CASE Go(i, "failed") /\ kept' = kept
    BY <1>1, <1>2, <2>1, <2>2, OnlyGoes DEF shared, Walking, Bringing, Placing
  <2>3. CASE /\ proc[i].hashed = Body
             /\ kept' = [kept EXCEPT ![pin(i)] = IF kept[pin(i)] = Absent THEN proc[i].temp
                                                 ELSE kept[pin(i)]]
             /\ proc' = [proc EXCEPT ![i].pc = "check", ![i].placing = "hub"]
    <3> DEFINE q == [proc[i] EXCEPT !.pc = "check", !.placing = "hub"]
    <3>1. kept' \in [Models -> {Absent, Body}]
      BY <1>2, <1>3, <2>3
    <3>2. Beside'
      BY <2>1 DEF TornInv, Beside, Releases
    <3>3. /\ q \in Procs /\ q.chain = proc[i].chain /\ q.temp = q.hashed /\ IsWhole(q.made)
      BY <1>1, <1>2 DEF Procs, Walking, Bringing, Placing
    <3>4. proc' = [proc EXCEPT ![i] = q]
      BY <1>1, <2>3
    <3> HIDE DEF q
    <3>5. store'[Last(q.chain).rel] = "whole" /\ world.pins[Last(q.chain).rel] # Absent
      BY <1>2, <2>1, <3>3 DEF rel, pin, Walked
    <3>6. clears \in 0 .. world.clears
      BY DEF TornInv, Shape
    <3> QED BY <1>1, <1>3, <2>1, <3>1, <3>2, <3>3, <3>4, <3>5, <3>6, OneMoves
  <2> QED BY <1>9, <2>2, <2>3 DEF Keep
<1>10. CASE KeepBeside(i)
  <2>1. world' = world /\ clears' = clears /\ store' = store /\ lock' = lock /\ kept' = kept
    BY <1>10 DEF KeepBeside
  <2>2. CASE Go(i, "failed") /\ beside' = beside
    BY <1>1, <1>2, <2>1, <2>2, OnlyGoes DEF shared, Walking, Bringing, Placing
  <2>3. CASE /\ proc[i].hashed = Body /\ Go(i, "deps")
             /\ beside' = [beside EXCEPT ![rel(i)] = [how |-> "copy", data |-> proc[i].temp]]
    <3> DEFINE f == [how |-> "copy", data |-> proc[i].temp]
    <3>1. f \in Files /\ IsWhole(f) /\ f.how = "copy"
      BY <1>2, <2>3 DEF Files, IsWhole
    <3>2. beside' = [beside EXCEPT ![rel(i)] = f]
      BY <2>3
    <3> HIDE DEF f
    <3>3. beside' \in [Releases -> Files]
      BY <1>3, <3>1, <3>2
    <3>4. \A r \in Releases : beside'[r] = IF r = rel(i) THEN f ELSE beside[r]
      BY <1>3, <3>2
    <3>5. Beside'
      BY <2>1, <3>1, <3>4 DEF TornInv, Beside, Releases
    <3> QED BY <1>1, <1>2, <1>3, <2>1, <2>3, <3>3, <3>5, FilesMove DEF Walking, Bringing, Placing
  <2> QED BY <1>10, <2>2, <2>3 DEF KeepBeside
<1> QED BY <1>5, <1>6, <1>7, <1>8, <1>9, <1>10

\* What a clear does to an installer: its temporary is lost, what it made a file
\* of its own.
LEMMA ClearParts ==
  ASSUME TornInv, Clear
  PROVE  /\ proc' \in [Installers -> Procs]
         /\ \A i \in Installers :
              /\ proc'[i].pc = proc[i].pc /\ proc'[i].chain = proc[i].chain
              /\ proc'[i].entries = proc[i].entries /\ proc'[i].placing = proc[i].placing
              /\ proc'[i].temp = proc[i].temp /\ proc'[i].hashed = proc[i].hashed
              /\ proc'[i].made = OfItsOwn(proc[i].made)
<1>1. proc \in [Installers -> Procs]
  BY DEF TornInv, Shape
<1> DEFINE q(i) == [proc[i] EXCEPT
                     !.made = OfItsOwn(@),
                     !.lost = @ \/ proc[i].pc \in {"request", "read", "verify"}]
<1>2. proc' = [i \in Installers |-> q(i)]
  BY DEF Clear
<1>3. ASSUME NEW i \in Installers
      PROVE  /\ q(i) \in Procs /\ q(i).pc = proc[i].pc /\ q(i).chain = proc[i].chain
             /\ q(i).entries = proc[i].entries /\ q(i).placing = proc[i].placing
             /\ q(i).temp = proc[i].temp /\ q(i).hashed = proc[i].hashed
             /\ q(i).made = OfItsOwn(proc[i].made)
  <2> DEFINE l == proc[i].lost \/ proc[i].pc \in {"request", "read", "verify"}
             f == OfItsOwn(proc[i].made)
  <2>1. proc[i] \in Procs /\ l \in BOOLEAN
    BY <1>1
  <2>2. f \in Files
    BY <2>1 DEF OfItsOwn, Files, Procs
  <2>3. q(i) = [[proc[i] EXCEPT !.made = f] EXCEPT !.lost = l]
    BY <2>1 DEF Procs
  <2> HIDE DEF q, l, f
  <2>4. PICK p \in Procs : p = [proc[i] EXCEPT !.made = f]
    BY <2>1, <2>2 DEF Procs
  <2>5. /\ p.pc = proc[i].pc /\ p.chain = proc[i].chain /\ p.entries = proc[i].entries
        /\ p.placing = proc[i].placing /\ p.temp = proc[i].temp /\ p.hashed = proc[i].hashed
        /\ p.made = f
    BY <2>1, <2>4 DEF Procs
  <2>6. [p EXCEPT !.lost = l] \in Procs
    BY <2>1 DEF Procs
  <2>7. q(i) = [p EXCEPT !.lost = l]
    BY <2>3, <2>4
  <2> QED BY <2>5, <2>6, <2>7 DEF f, Procs
<1> HIDE DEF q
<1> QED BY <1>2, <1>3

\* A crash, another run, and the cache cleared.
LEMMA UserKeepsWhole ==
  ASSUME TornInv, Clear \/ \E i \in Installers : Crash(i) \/ RunAgain(i)
  PROVE  TornInv'
<1>0. proc \in [Installers -> Procs]
  BY DEF TornInv, Shape
<1>1. ASSUME NEW i \in Installers, Crash(i) \/ RunAgain(i) PROVE TornInv'
  <2>1. PICK pc \in {"idle", "crashed"} :
          proc' = [proc EXCEPT ![i] = Over(proc[i], pc, <<>>)] /\ UNCHANGED shared
    BY <1>1 DEF Crash, RunAgain
  <2> DEFINE q == Over(proc[i], pc, <<>>)
  <2>3. <<>> \in Seq(Pinned) /\ proc[i] \in Procs
    BY <1>0, EmptySeq
  <2>4. q \in Procs /\ q.pc = pc /\ q.temp = q.hashed /\ IsWhole(q.made)
    <3>1. \A p \in Procs, s \in {"idle", "write", "crashed"}, e \in Seq(Pinned) :
            /\ Over(p, s, e) \in Procs /\ Over(p, s, e).pc = s
            /\ Over(p, s, e).temp = Over(p, s, e).hashed /\ IsWhole(Over(p, s, e).made)
      BY OverParts
    <3>2. pc \in {"idle", "write", "crashed"}
      OBVIOUS
    <3> QED BY <2>3, <3>1, <3>2
  <2>5. proc' = [proc EXCEPT ![i] = q]
    BY <2>1
  <2> HIDE DEF q
  <2> QED BY <2>1, <2>4, <2>5, OnlyOneMoves DEF Walking, Bringing, Placing
<1>3. CASE Clear
  <2>1. /\ world' = world /\ store' = store /\ lock' = lock
        /\ kept' = [m \in Models |-> Absent] /\ clears > 0 /\ clears' = clears - 1
        /\ beside' = [r \in Releases |-> OfItsOwn(beside[r])]
    BY <1>3 DEF Clear
  <2>2. /\ Releases' = Releases /\ Models' = Models /\ Projects' = Projects
        /\ Pinned' = Pinned /\ Walks' = Walks /\ Procs' = Procs
    BY <2>1 DEF Releases, Models, Projects, Pinned, Walks, Procs
  <2>3. beside \in [Releases -> Files]
    BY DEF TornInv, Shape
  <2>4. ASSUME NEW f \in Files, IsWhole(f)
        PROVE  /\ OfItsOwn(f) \in Files /\ IsWhole(OfItsOwn(f)) /\ OfItsOwn(f).data = f.data
               /\ OfItsOwn(f).how = IF f.how = "hard" THEN "copy" ELSE f.how
    BY <2>4 DEF OfItsOwn, Files, IsWhole
  <2>5. \A r \in Releases : /\ beside'[r] = OfItsOwn(beside[r])
                            /\ beside[r] \in Files /\ IsWhole(beside[r])
    BY <2>1, <2>3 DEF TornInv, Beside
  <2>6. beside' \in [Releases -> Files]
    BY <2>1, <2>4, <2>5
  <2>7. clears' \in 0 .. world.clears
    <3>1. clears \in 0 .. world.clears
      BY DEF TornInv, Shape
    <3>2. world.clears \in Nat
      BY InstallsAssumption DEF TornInv, Shape
    <3> QED BY <2>1, <3>1, <3>2
  <2>8. ASSUME NEW i \in Installers
        PROVE  /\ proc'[i].pc = proc[i].pc /\ proc'[i].chain = proc[i].chain
               /\ proc'[i].temp = proc[i].temp /\ proc'[i].hashed = proc[i].hashed
               /\ IsWhole(proc'[i].made)
    <3>1. proc[i].made \in Files /\ IsWhole(proc[i].made)
      BY <1>0 DEF Procs, TornInv, MadeWhole
    <3> QED BY <1>3, <2>4, <3>1, ClearParts
  <2>9. proc' \in [Installers -> Procs]
    BY <1>3, ClearParts
  <2>10. Shape'
    BY <2>1, <2>2, <2>6, <2>7, <2>9 DEF TornInv, Shape
  <2>11. Beside'
    BY <2>1, <2>2, <2>4, <2>5 DEF TornInv, Beside
  <2>12. MadeWhole' /\ HashesItsFile' /\ Reached'
    BY <2>1, <2>8 DEF TornInv, MadeWhole, HashesItsFile, Reached, rel, pin, Walked
  <2> QED BY <2>10, <2>11, <2>12 DEF TornInv
<1> QED BY <1>1, <1>3

\* The store, the cache and the modules as they are before anything is
\* installed.
LEMMA TornInit == Init => TornInv
<1> SUFFICES ASSUME Init PROVE TornInv
  OBVIOUS
<1>1. world \in Worlds /\ clears = world.clears
  BY DEF Init
<1>2. clears \in Nat
  BY <1>1, InstallsAssumption
<1>10. clears \in 0 .. world.clears
  BY <1>1, <1>2
<1>3. <<>> \in Seq(Nat) /\ <<>> \in Seq(Walks) /\ <<>> \in Seq(Pinned) /\ 0 \in Nat
  BY EmptySeq
<1>4. Idle \in Procs
  BY <1>3 DEF Idle, NoFile, Files, Procs
<1>5. proc = [i \in Installers |-> Idle] /\ proc \in [Installers -> Procs]
  BY <1>4 DEF Init
<1>6. /\ store \in [Releases -> {Absent, "whole"}] /\ kept \in [Models -> {Absent, Body}]
      /\ lock \in [Projects -> Seq(Pinned)]
  BY <1>3 DEF Init, Projects
<1>7. /\ beside \in [Releases -> Files]
      /\ \A r \in Releases : beside[r].how = "none"
  BY DEF Init, NoFile, Files
<1>8. Shape
  BY <1>1, <1>5, <1>6, <1>7, <1>10 DEF Shape
<1>9. Beside /\ MadeWhole /\ HashesItsFile /\ Reached
  BY <1>5, <1>7 DEF Beside, MadeWhole, IsWhole, NoFile, HashesItsFile, Reached, Idle,
                    Walking, Bringing, Placing
<1> QED BY <1>8, <1>9 DEF TornInv

\* A step of anybody keeps the invariant.
LEMMA TornStep == TornInv /\ [Next]_vars => TornInv'
<1> SUFFICES ASSUME TornInv, [Next]_vars PROVE TornInv'
  OBVIOUS
<1>1. CASE UNCHANGED vars
  <2>1. /\ world' = world /\ store' = store /\ kept' = kept /\ beside' = beside
        /\ lock' = lock /\ proc' = proc /\ clears' = clears
    BY <1>1 DEF vars
  <2>2. /\ Releases' = Releases /\ Models' = Models /\ Projects' = Projects
        /\ Pinned' = Pinned /\ Walks' = Walks /\ Procs' = Procs
    BY <2>1 DEF Releases, Models, Projects, Pinned, Walks, Procs
  <2> QED BY <2>1, <2>2 DEF TornInv, Shape, Beside, MadeWhole, HashesItsFile, Reached, rel, pin, Walked
<1>2. CASE Next
  <2>1. ASSUME NEW i \in Installers, Goes(i) PROVE TornInv'
    BY <2>1, WalkKeepsWhole, BringKeepsWhole, PlaceKeepsWhole, StreamKeepsWhole DEF Goes
  <2> QED BY <1>2, <2>1, UserKeepsWhole DEF Next
<1> QED BY <1>1, <1>2

\* No name of the store, of the cache or beside a module is ever torn, for any
\* number of installers, packages, projects, cuts, crashes and clears.
THEOREM NothingTorn == Spec => []NeverTorn
<1>1. Init => TornInv
  BY TornInit
<1>2. TornInv /\ [Next]_vars => TornInv'
  BY TornStep
<1>3. TornInv => NeverTorn
  <2> SUFFICES ASSUME TornInv PROVE NeverTorn
    OBVIOUS
  <2>1. /\ store \in [Releases -> {Absent, "whole"}] /\ kept \in [Models -> {Absent, Body}]
        /\ beside \in [Releases -> Files]
    BY DEF TornInv, Shape
  <2>2. \A r \in Releases : Found(r) \in {Absent, Body}
    BY <2>1 DEF TornInv, Beside, IsWhole, Files, Found, Models
  <2> QED BY <2>1, <2>2 DEF NeverTorn
<1> QED BY <1>1, <1>2, <1>3, PTL DEF Spec

-----------------------------------------------------------------------------
(* PinnedIsWhole: what is in place stays in place.                         *)

\* The parts of the invariant in the next state, of a release, entries or an
\* installer's state given by its value.
FoundNext(r)   == IF beside'[r].how = "symlink" THEN kept'[world'.pins[r]] ELSE beside'[r].data
MayDangleNext  == clears' < world'.clears /\ (world'.busy \/ "hard" \notin world'.links)
DanglesNext(r) == beside'[r].how = "symlink" /\ MayDangleNext
InPlaceNext(r) ==
  /\ store'[r] = "whole"
  /\ world'.pins[r] # Absent => FoundNext(r) = Body \/ DanglesNext(r)
ClosedNext(entries) ==
  \A k \in 1 .. Len(entries) :
    /\ InPlaceNext(entries[k].rel)
    /\ \A d \in Range(entries[k].deps) : Entry(entries, d) # {}
BelowNext(p)  == \A k \in 1 .. Len(p.chain) - 1 : InPlaceNext(p.chain[k].rel)
AtDepsNext(p) == Placed(p) => InPlaceNext(Last(p.chain).rel)

\* The world is chosen once.
LEMMA WorldStays == ASSUME Next PROVE world' = world
BY DEF Next, Goes, Install, Ensure, Dependencies, WriteLock, Return, Fetch, Unpack, Look,
       Match, CacheModel, FromCache, Check, Make, Rename, Unwritten, Request, ReadBlock,
       ReadEnd, Transient, Refused, Keep, KeepBeside, Crash, RunAgain, Clear, shared

\* The steps that touch neither the cache nor what is beside a module.
LEMMA QuietSteps ==
  ASSUME NEW i \in Installers,
         \/ Install(i) \/ Ensure(i) \/ Dependencies(i) \/ WriteLock(i) \/ Return(i)
         \/ Fetch(i) \/ Look(i) \/ Match(i) \/ FromCache(i)
         \/ Check(i) \/ Make(i) \/ Unwritten(i) \/ Request(i) \/ ReadBlock(i)
         \/ ReadEnd(i) \/ Transient(i) \/ Refused(i) \/ Crash(i) \/ RunAgain(i)
  PROVE  store' = store /\ kept' = kept /\ beside' = beside /\ clears' = clears
BY DEF Install, Ensure, Dependencies, WriteLock, Return, Fetch, Look, Match, FromCache,
       Check, Make, Unwritten, Request, ReadBlock, ReadEnd, Transient, Refused, Crash,
       RunAgain, shared

\* The cache once cleared stays so.
LEMMA ClearedStays ==
  ASSUME TornInv, Next
  PROVE  /\ MayDangle => MayDangleNext
         /\ ClearedUnder => ClearedUnder'
<1>1. world' = world /\ clears \in 0 .. world.clears /\ world.clears \in Nat
  BY WorldStays, InstallsAssumption DEF TornInv, Shape
<1>2. clears' = clears \/ clears' = clears - 1
  <2>1. ASSUME NEW i \in Installers,
               \/ Unpack(i) \/ CacheModel(i) \/ Rename(i) \/ Keep(i) \/ KeepBeside(i)
        PROVE  clears' = clears
    BY <2>1 DEF Unpack, CacheModel, Rename, Keep, KeepBeside
  <2>2. Clear => clears' = clears - 1
    BY DEF Clear
  <2> QED BY <2>1, <2>2, QuietSteps DEF Next, Goes
<1>3. clears < world.clears => clears' < world'.clears
  BY <1>1, <1>2
<1>4. MayDangle => MayDangleNext
  BY <1>1, <1>3 DEF MayDangle, MayDangleNext
<1>5. ClearedUnder => ClearedUnder'
  BY <1>1, <1>3 DEF ClearedUnder
<1> QED BY <1>4, <1>5

\* What is renamed beside a module is its model, or dangles.
LEMMA RenamedInPlace ==
  ASSUME TornInv, PinnedInv, Next, NEW i \in Installers, Rename(i)
  PROVE  FoundNext(rel(i)) = Body \/ DanglesNext(rel(i))
<1> DEFINE f == proc[i].made
<1>1. proc[i].pc = "rename" /\ proc[i].pc \in Walking
  BY DEF Rename, At, Walking, Bringing, Placing
<1>2. /\ proc[i] \in Procs /\ rel(i) \in Releases /\ world' = world
      /\ pin(i) \in Models \/ pin(i) = Absent
      /\ world.pins[rel(i)] = pin(i)
  BY <1>1, AtRelease, WorldStays DEF pin
<1>3. pin(i) \in Models
  BY <1>1, <1>2 DEF TornInv, Reached, Bringing, Placing
<1>4. f \in Files /\ IsWhole(f) /\ f.how # "none"
  BY <1>1, <1>2 DEF Procs, TornInv, MadeWhole, PinnedInv, AtHand
<1>5. kept[pin(i)] = Body \/ ClearedUnder
  <2>1. kept[pin(i)] # Absent \/ ClearedUnder
    BY <1>1 DEF PinnedInv, AtHand, pin, rel, Walked
  <2> QED BY <1>3, <2>1 DEF TornInv, Shape
<1>6. kept' = kept /\ beside'[rel(i)] = f
  BY <1>2 DEF Rename, TornInv, Shape
<1> HIDE DEF f
<1>7. CASE f.how \in {"hard", "copy"}
  BY <1>4, <1>6, <1>7 DEF IsWhole, FoundNext
<1>8. CASE f.how = "symlink" /\ kept[pin(i)] = Body
  BY <1>2, <1>6, <1>8 DEF FoundNext
<1>9. CASE f.how = "symlink" /\ ClearedUnder
  <2>1. MayDangle
    BY <1>9 DEF ClearedUnder, MayDangle
  <2>2. MayDangleNext
    BY <2>1, ClearedStays
  <2> QED BY <1>6, <1>9, <2>2 DEF DanglesNext
<1> QED BY <1>4, <1>5, <1>7, <1>8, <1>9 DEF Files

\* No step takes away a release that is in place: not another installer's, not
\* a crash; a clear leaves a symlink dangling where it may.
LEMMA InPlaceStays ==
  ASSUME TornInv, PinnedInv, Next, NEW r \in Releases, InPlace(r)
  PROVE  InPlaceNext(r)
<1>1. world' = world /\ (MayDangle => MayDangleNext)
  BY WorldStays, ClearedStays
<1>2. /\ store \in [Releases -> {Absent, "whole"}] /\ kept \in [Models -> {Absent, Body}]
      /\ beside \in [Releases -> Files]
  BY DEF TornInv, Shape
<1>4. store[r] = "whole" /\ (world.pins[r] # Absent => Found(r) = Body \/ Dangles(r))
  BY DEF InPlace
\* It is enough that the store keeps it, and that a whole file stays whole.
<1>3. ASSUME store'[r] = "whole",
             world.pins[r] # Absent /\ Found(r) = Body => FoundNext(r) = Body \/ DanglesNext(r),
             world.pins[r] # Absent /\ Dangles(r) => FoundNext(r) = Body \/ DanglesNext(r)
      PROVE  InPlaceNext(r)
  BY <1>1, <1>3, <1>4 DEF InPlaceNext
\* What is beside it stays as it is, and the cache keeps what it has.
<1>5. ASSUME store'[r] = "whole", beside'[r] = beside[r],
             \A m \in Models : kept[m] = Body => kept'[m] = Body
      PROVE  InPlaceNext(r)
  <2>1. Dangles(r) => DanglesNext(r)
    BY <1>1, <1>5 DEF Dangles, DanglesNext
  <2>2. world.pins[r] # Absent /\ Found(r) = Body => FoundNext(r) = Body
    BY <1>1, <1>5 DEF Found, FoundNext, Models
  <2> QED BY <1>3, <1>5, <2>1, <2>2
<1>6. ASSUME NEW i \in Installers, Unpack(i) PROVE InPlaceNext(r)
  <2>1. store' = [store EXCEPT ![rel(i)] = "whole"] /\ kept' = kept /\ beside' = beside
    BY <1>6 DEF Unpack
  <2>2. store'[r] = "whole"
    BY <1>2, <1>4, <2>1
  <2> QED BY <1>5, <2>1, <2>2
<1>7. ASSUME NEW i \in Installers, CacheModel(i) PROVE InPlaceNext(r)
  <2>1. proc[i].pc \in Bringing \ {"models"} /\ proc[i].pc \in Walking
    BY <1>7 DEF CacheModel, At, Bringing, Walking
  <2>2. /\ rel(i) \in Releases /\ pin(i) # Absent /\ world.pins[rel(i)] = pin(i)
        /\ pin(i) \in Models /\ store'[r] = "whole"
    BY <1>4, <1>7, <2>1, AtRelease DEF TornInv, Reached, pin, CacheModel
  <2>3. CASE kept' = kept /\ beside' = beside
    BY <1>5, <2>2, <2>3
  <2>4. CASE /\ kept[pin(i)] = Absent /\ Found(rel(i)) = Body
             /\ kept' = [kept EXCEPT ![pin(i)] = Body]
             /\ beside' = IF "hard" \in world.links
                          THEN [beside EXCEPT ![rel(i)].how = "hard"] ELSE beside
    <3>1. \A m \in Models : kept[m] = Body => kept'[m] = Body
      BY <1>2, <2>4
    <3>2. CASE beside'[r] = beside[r]
      BY <1>5, <2>2, <3>1, <3>2
    <3>3. CASE r = rel(i) /\ beside' = [beside EXCEPT ![rel(i)].how = "hard"]
      <4>1. beside[r].how # "symlink"
        BY <2>2, <2>4, <3>3, InstallsAssumption DEF Found
      <4>2. beside'[r].how = "hard" /\ beside'[r].data = beside[r].data
        BY <1>2, <3>3 DEF Files
      <4>3. FoundNext(r) = Body
        BY <2>4, <3>3, <4>1, <4>2 DEF Found, FoundNext
      <4> QED BY <1>3, <2>2, <4>3
    <3>4. beside'[r] = beside[r] \/ (r = rel(i) /\ beside' = [beside EXCEPT ![rel(i)].how = "hard"])
      BY <1>2, <2>2, <2>4
    <3> QED BY <3>2, <3>3, <3>4
  <2> QED BY <1>7, <2>3, <2>4 DEF CacheModel
<1>8. ASSUME NEW i \in Installers, Rename(i) PROVE InPlaceNext(r)
  <2>1. /\ store' = store /\ kept' = kept
        /\ beside' = [beside EXCEPT ![rel(i)] = proc[i].made]
    BY <1>8 DEF Rename
  <2>2. CASE r = rel(i)
    BY <1>3, <1>4, <1>8, <2>1, <2>2, RenamedInPlace
  <2>3. CASE r # rel(i)
    BY <1>2, <1>4, <1>5, <2>1, <2>3
  <2> QED BY <2>2, <2>3
<1>9. ASSUME NEW i \in Installers, Keep(i) PROVE InPlaceNext(r)
  <2>1. store' = store /\ beside' = beside
    BY <1>9 DEF Keep
  <2>2. \A m \in Models : kept[m] = Body => kept'[m] = Body
    <3>1. kept' = kept \/ kept' = [kept EXCEPT ![pin(i)] = IF kept[pin(i)] = Absent THEN proc[i].temp
                                                           ELSE kept[pin(i)]]
      BY <1>9 DEF Keep
    <3>2. \A m \in Models : kept[m] = Body => kept[m] # Absent
      BY InstallsAssumption
    <3> QED BY <1>2, <3>1, <3>2
  <2> QED BY <1>4, <1>5, <2>1, <2>2
<1>10. ASSUME NEW i \in Installers, KeepBeside(i) PROVE InPlaceNext(r)
  <2>1. store' = store /\ kept' = kept
    BY <1>10 DEF KeepBeside
  <2>2. CASE beside' = beside
    BY <1>4, <1>5, <2>1, <2>2
  <2>3. CASE /\ proc[i].hashed = Body
             /\ beside' = [beside EXCEPT ![rel(i)] = [how |-> "copy", data |-> proc[i].temp]]
    <3>1. CASE r = rel(i)
      <4>1. beside'[r].how = "copy" /\ beside'[r].data = Body
        BY <1>2, <2>3, <3>1 DEF TornInv, HashesItsFile
      <4>2. FoundNext(r) = Body
        BY <4>1 DEF FoundNext
      <4> QED BY <1>3, <1>4, <2>1, <4>2
    <3>2. CASE r # rel(i)
      BY <1>2, <1>4, <1>5, <2>1, <2>3, <3>2
    <3> QED BY <3>1, <3>2
  <2> QED BY <1>10, <2>2, <2>3 DEF KeepBeside
<1>11. CASE Clear
  <2>1. /\ store' = store /\ clears > 0 /\ clears' = clears - 1
        /\ beside' = [s \in Releases |-> OfItsOwn(beside[s])]
    BY <1>11 DEF Clear
  <2>2. beside[r] \in Files /\ beside'[r] = OfItsOwn(beside[r])
    BY <1>2, <2>1
  <2>3. beside'[r].data = beside[r].data /\ (beside'[r].how = "symlink" <=> beside[r].how = "symlink")
    BY <2>2 DEF OfItsOwn, Files
  <2>4. CASE beside[r].how = "symlink"
    <3>1. MaySymlink
      BY <2>4 DEF PinnedInv, Symlinks
    <3>2. clears' < world.clears
      <4>1. clears \in 0 .. world.clears /\ world.clears \in Nat
        BY InstallsAssumption DEF TornInv, Shape
      <4> QED BY <2>1, <4>1
    <3>3. MayDangleNext
      BY <1>1, <3>1, <3>2 DEF MaySymlink, MayDangleNext
    <3>4. DanglesNext(r)
      BY <2>3, <2>4, <3>3 DEF DanglesNext
    <3> QED BY <1>3, <1>4, <2>1, <3>4
  <2>5. CASE beside[r].how # "symlink"
    BY <1>3, <1>4, <2>1, <2>3, <2>5 DEF Found, FoundNext, Dangles
  <2> QED BY <2>4, <2>5
<1>12. ASSUME NEW i \in Installers, Goes(i) \/ Crash(i) \/ RunAgain(i) PROVE InPlaceNext(r)
  <2>1. CASE \/ Install(i) \/ Ensure(i) \/ Dependencies(i) \/ WriteLock(i) \/ Return(i)
             \/ Fetch(i) \/ Look(i) \/ Match(i) \/ FromCache(i)
             \/ Check(i) \/ Make(i) \/ Unwritten(i) \/ Request(i) \/ ReadBlock(i)
             \/ ReadEnd(i) \/ Transient(i) \/ Refused(i) \/ Crash(i) \/ RunAgain(i)
    BY <1>4, <1>5, <2>1, QuietSteps
  <2> QED BY <1>6, <1>7, <1>8, <1>9, <1>10, <1>12, <2>1 DEF Goes
<1> QED BY <1>11, <1>12 DEF Next

-----------------------------------------------------------------------------
(* PinnedIsWhole: the links that are made.                                 *)

\* But for a look at the cache and the link made after it, a step of an
\* installer leaves it with no link to make, and with none it had not made.
LEMMA Steady ==
  ASSUME TornInv, NEW i \in Installers,
         \/ Install(i) \/ Ensure(i) \/ Dependencies(i) \/ WriteLock(i) \/ Return(i)
         \/ Fetch(i) \/ Unpack(i) \/ Look(i) \/ Match(i) \/ CacheModel(i) \/ FromCache(i)
         \/ Rename(i) \/ Unwritten(i) \/ Request(i) \/ ReadBlock(i) \/ ReadEnd(i)
         \/ Transient(i) \/ Refused(i) \/ Keep(i) \/ KeepBeside(i) \/ Crash(i) \/ RunAgain(i)
  PROVE  \E q : /\ proc' = [proc EXCEPT ![i] = q]
                /\ q.pc \notin {"make", "rename"} /\ q.made \in {proc[i].made, NoFile}
<1> DEFINE p == proc[i]
<1>1. p \in Procs /\ proc \in [Installers -> Procs]
  BY DEF TornInv, Shape
\* A new state named, and its two parts.
<1>2. ASSUME NEW q \in Procs, proc' = [proc EXCEPT ![i] = q],
             q.pc \notin {"make", "rename"}, q.made \in {p.made, NoFile}
      PROVE  \E r : /\ proc' = [proc EXCEPT ![i] = r]
                    /\ r.pc \notin {"make", "rename"} /\ r.made \in {proc[i].made, NoFile}
  BY <1>2
\* Its place alone.
<1>3. ASSUME NEW pc, Go(i, pc), pc \notin {"make", "rename"}
      PROVE  \E r : /\ proc' = [proc EXCEPT ![i] = r]
                    /\ r.pc \notin {"make", "rename"} /\ r.made \in {proc[i].made, NoFile}
  <2> DEFINE q == [p EXCEPT !.pc = pc]
  <2>1. q.pc = pc /\ q.made = p.made /\ proc' = [proc EXCEPT ![i] = q]
    BY <1>1, <1>3 DEF Go, Procs
  <2> HIDE DEF q
  <2> QED BY <1>3, <2>1
\* The walk is back.
<1>4. ASSUME NEW r \in Procs, proc' = [proc EXCEPT ![i] = Back(r)],
             r.chain # <<>>, r.temp = r.hashed, IsWhole(r.made), r.made = p.made
      PROVE  \E s : /\ proc' = [proc EXCEPT ![i] = s]
                    /\ s.pc \notin {"make", "rename"} /\ s.made \in {proc[i].made, NoFile}
  <2>1. Back(r).made \in {p.made, NoFile} /\ Back(r).pc \in {"write", "deps"}
    BY <1>4, BackParts
  <2> QED BY <1>4, <2>1
<1>5. p.temp = p.hashed /\ IsWhole(p.made)
  BY DEF TornInv, HashesItsFile, MadeWhole
<1> HIDE DEF p
<1>6. CASE Install(i)
  <2> DEFINE entries == lock[world.project[i]]
             q == [Idle EXCEPT !.pc = "ensure", !.runs = p.runs + 1,
                               !.entries = entries, !.chain = <<Step(world.asks[i], entries)>>]
  <2>1. proc' = [proc EXCEPT ![i] = q] /\ q.pc = "ensure" /\ q.made = NoFile
    BY <1>6 DEF Install, Idle, p
  <2> HIDE DEF q
  <2> QED BY <2>1
<1>7. CASE Ensure(i)
  <2>1. p.pc \in Walking /\ p.chain # <<>>
    BY <1>7 DEF Ensure, At, Walking, TornInv, Reached, p
  <2>2. \/ proc' = [proc EXCEPT ![i] = Back(p)]
        \/ \E pc \in {"failed", Brings(i)} : proc' = [proc EXCEPT ![i] = [p EXCEPT !.pc = pc]]
    BY <1>7 DEF Ensure, p
  <2>3. Brings(i) \in {"models", "fetch"}
    BY DEF Brings
  <2>4. CASE \E pc \in {"failed", Brings(i)} : proc' = [proc EXCEPT ![i] = [p EXCEPT !.pc = pc]]
    BY <1>3, <2>3, <2>4 DEF Go, p
  <2> QED BY <1>1, <1>4, <1>5, <2>1, <2>2, <2>4
<1>8. CASE Dependencies(i)
  <2> DEFINE f == Walked(i)
             e == IF f.pinned THEN p.entries
                  ELSE Append(p.entries, [rel |-> f.rel, deps |-> world.needs[f.rel]])
             c == Append(Front(p.chain) \o <<[f EXCEPT !.todo = Tail(@)]>>,
                         Step(Head(f.todo), p.entries))
             q == [p EXCEPT !.pc = "ensure", !.chain = c]
             r == [p EXCEPT !.entries = e]
  <2>1. p.pc \in Walking /\ p.chain # <<>>
    BY <1>8 DEF Dependencies, At, Walking, TornInv, Reached, p
  <2>2. proc' = [proc EXCEPT ![i] = q] \/ proc' = [proc EXCEPT ![i] = Back(r)]
    BY <1>8 DEF Dependencies, p
  <2> HIDE DEF c
  <2>3. q.pc = "ensure" /\ q.made = p.made
    BY <1>1 DEF Procs
  <2>4. e \in Seq(Pinned)
    <3>1. p.entries \in Seq(Pinned) /\ f \in Walks
      BY <1>1, <2>1, AtRelease DEF Procs, p
    <3>2. f.rel \in Releases
      BY <3>1 DEF Walks
    <3>3. world.needs[f.rel] \in Seq(Releases)
      BY <3>2, InstallsAssumption DEF Releases, TornInv, Shape
    <3>4. [rel |-> f.rel, deps |-> world.needs[f.rel]] \in Pinned
      BY <3>2, <3>3 DEF Pinned
    <3> QED BY <3>1, <3>4
  <2> HIDE DEF e, q
  <2>5. /\ r \in Procs /\ r.chain = p.chain /\ r.temp = p.temp /\ r.hashed = p.hashed
        /\ r.made = p.made
    BY <1>1, <2>4 DEF Procs
  <2> HIDE DEF r
  <2> QED BY <1>4, <1>5, <2>1, <2>2, <2>3, <2>5 DEF p
<1>9. CASE \/ WriteLock(i) \/ Return(i) \/ Fetch(i) \/ Unpack(i) \/ CacheModel(i)
           \/ ReadEnd(i) \/ Refused(i) \/ KeepBeside(i)
  <2>1. \E pc \in {"root", "done", "failed", "models", "extract", "deps", "verify"} : Go(i, pc)
    BY <1>9 DEF WriteLock, Return, Fetch, Unpack, CacheModel, ReadEnd, Refused, KeepBeside
  <2> QED BY <1>3, <2>1
<1>10. CASE Look(i) \/ Match(i) \/ FromCache(i)
  <2> DEFINE a == [p EXCEPT !.pc = "match", !.cached = kept[pin(i)] # Absent]
             b == [p EXCEPT !.pc = "check", !.placing = "spare"]
             c == [p EXCEPT !.pc = "check", !.placing = "cache"]
  <2>1. \/ \E pc \in {"deps", "pass"} : Go(i, pc)
        \/ \E q \in {a, b, c, Asking(p)} : proc' = [proc EXCEPT ![i] = q]
    BY <1>10 DEF Look, Match, FromCache, Go, p
  <2>2. ASSUME NEW q \in {a, b, c} PROVE q.pc \notin {"make", "rename"} /\ q.made = p.made
    BY <1>1 DEF Procs
  <2>3. Asking(p).pc = "request" /\ Asking(p).made = p.made
    BY <1>1, AskingParts
  <2> HIDE DEF a, b, c
  <2> QED BY <1>3, <2>1, <2>2, <2>3 DEF p
<1>11. CASE Rename(i)
  <2> DEFINE q == [p EXCEPT !.pc = "deps", !.made = NoFile]
  <2>1. proc' = [proc EXCEPT ![i] = q] /\ q.pc = "deps" /\ q.made = NoFile
    BY <1>1, <1>11 DEF Rename, Procs, p
  <2> HIDE DEF q
  <2> QED BY <2>1
<1>12. CASE Unwritten(i)
  <2> DEFINE q == [Unplaced(p) EXCEPT !.made = NoFile]
  <2>1. proc' = [proc EXCEPT ![i] = q]
    BY <1>12 DEF Unwritten, p
  <2>2. Unplaced(p) \in Procs /\ Unplaced(p).pc \in {"deps", "request", "failed"}
    BY <1>1, <1>5, UnplacedParts
  <2>3. q.pc = Unplaced(p).pc /\ q.made = NoFile
    BY <2>2 DEF Procs
  <2> HIDE DEF q
  <2> QED BY <2>1, <2>2, <2>3
<1>13. CASE Request(i)
  <2> DEFINE a == [p EXCEPT !.pc = "read"]
             b == [StartOver(p) EXCEPT !.pc = "read"]
  <2>1. proc' = [proc EXCEPT ![i] = a] \/ proc' = [proc EXCEPT ![i] = b]
    BY <1>13 DEF Request, p
  <2>2. a.pc = "read" /\ a.made = p.made /\ b.pc = "read" /\ b.made = p.made
    BY <1>1 DEF StartOver, Procs
  <2> HIDE DEF a, b
  <2> QED BY <2>1, <2>2 DEF p
<1>14. CASE ReadBlock(i)
  <2> DEFINE block == Len(p.hashed) + 1
             q == [p EXCEPT !.temp = Append(@, block), !.hashed = Append(@, block)]
  <2>1. proc' = [proc EXCEPT ![i] = q] /\ p.pc = "read"
    BY <1>1, <1>14 DEF ReadBlock, At, p
  <2>2. q.pc = p.pc /\ q.made = p.made
    BY <1>1 DEF Procs
  <2> HIDE DEF q
  <2> QED BY <2>1, <2>2 DEF p
<1>15. CASE Transient(i)
  <2>1. proc' = [proc EXCEPT ![i] = Again(p)]
    BY <1>15 DEF Transient, p
  <2>2. Again(p).pc \in {"request", "failed"} /\ Again(p).made = p.made
    BY <1>1 DEF Again, Procs
  <2> QED BY <2>1, <2>2 DEF p
<1>16. CASE Keep(i)
  <2> DEFINE q == [p EXCEPT !.pc = "check", !.placing = "hub"]
  <2>1. Go(i, "failed") \/ proc' = [proc EXCEPT ![i] = q]
    BY <1>1, <1>16 DEF Keep, p
  <2>2. q.pc = "check" /\ q.made = p.made
    BY <1>1 DEF Procs
  <2> HIDE DEF q
  <2> QED BY <1>3, <2>1, <2>2 DEF p
<1>17. CASE Crash(i) \/ RunAgain(i)
  <2>1. PICK pc \in {"idle", "crashed"} : proc' = [proc EXCEPT ![i] = Over(p, pc, <<>>)]
    BY <1>17 DEF Crash, RunAgain, p
  <2>2. Over(p, pc, <<>>).pc = pc /\ Over(p, pc, <<>>).made = NoFile
    <3>1. \A q \in Procs, s \in {"idle", "write", "crashed"}, e \in Seq(Pinned) :
            Over(q, s, e).pc = s /\ Over(q, s, e).made = NoFile
      BY OverParts
    <3>2. <<>> \in Seq(Pinned) /\ pc \in {"idle", "write", "crashed"}
      BY EmptySeq
    <3> QED BY <1>1, <3>1, <3>2
  <2> QED BY <2>1, <2>2
<1> QED BY <1>6, <1>7, <1>8, <1>9, <1>10, <1>11, <1>12, <1>13, <1>14, <1>15, <1>16, <1>17

\* A model in the cache stays there unless the cache is cleared, and what is
\* beside a module becomes a symlink only where one was made.
LEMMA LinksKept ==
  ASSUME TornInv, NEW i \in Installers, Goes(i) \/ Crash(i) \/ RunAgain(i)
  PROVE  /\ \A m \in Models : kept[m] # Absent => kept'[m] # Absent
         /\ \A r \in Releases : beside'[r].how = "symlink" =>
              beside[r].how = "symlink" \/ proc[i].made.how = "symlink"
<1>1. kept \in [Models -> {Absent, Body}] /\ beside \in [Releases -> Files]
  BY DEF TornInv, Shape
<1>2. CASE kept' = kept /\ beside' = beside
  BY <1>2
<1>3. CASE CacheModel(i)
  <2>1. \/ kept' = kept /\ beside' = beside
        \/ /\ kept' = [kept EXCEPT ![pin(i)] = Body]
           /\ beside' = beside \/ beside' = [beside EXCEPT ![rel(i)].how = "hard"]
    BY <1>3 DEF CacheModel
  <2>2. \A m \in Models : kept[m] # Absent => kept'[m] # Absent
    BY <1>1, <2>1
  <2>3. \A r \in Releases : beside'[r].how = "symlink" => beside[r].how = "symlink"
    BY <1>1, <2>1 DEF Files
  <2> QED BY <2>2, <2>3
<1>4. CASE Rename(i)
  <2>1. kept' = kept /\ beside' = [beside EXCEPT ![rel(i)] = proc[i].made]
    BY <1>4 DEF Rename
  <2> QED BY <1>1, <2>1
<1>5. CASE Keep(i)
  <2>1. beside' = beside
    BY <1>5 DEF Keep
  <2>2. kept' = kept \/ kept' = [kept EXCEPT ![pin(i)] = IF kept[pin(i)] = Absent THEN proc[i].temp
                                                           ELSE kept[pin(i)]]
    BY <1>5 DEF Keep
  <2>3. \A m \in Models : kept[m] # Absent => kept'[m] # Absent
    BY <1>1, <2>2
  <2> QED BY <2>1, <2>3
<1>6. CASE KeepBeside(i)
  <2>1. kept' = kept
    BY <1>6 DEF KeepBeside
  <2>2. \/ beside' = beside
        \/ beside' = [beside EXCEPT ![rel(i)] = [how |-> "copy", data |-> proc[i].temp]]
    BY <1>6 DEF KeepBeside
  <2>3. \A r \in Releases : beside'[r].how = "symlink" => beside[r].how = "symlink"
    BY <1>1, <2>2
  <2> QED BY <2>1, <2>3
<1>7. CASE Unpack(i)
  BY <1>2, <1>7 DEF Unpack
<1> QED BY <1>2, <1>3, <1>4, <1>5, <1>6, <1>7, QuietSteps DEF Goes

\* Where a link is made the file it is made to was there when it was looked
\* for, so one that is made to nothing was cleared since.
LEMMA LinksStay ==
  ASSUME TornInv, PinnedInv, Next
  PROVE  Symlinks' /\ \A i \in Installers : AtHand(proc[i])'
<1>1. /\ world' = world /\ Releases' = Releases /\ (ClearedUnder => ClearedUnder')
  BY WorldStays, ClearedStays DEF Releases
<1>2. /\ proc \in [Installers -> Procs] /\ kept \in [Models -> {Absent, Body}]
      /\ beside \in [Releases -> Files]
  BY DEF TornInv, Shape
<1>3. ASSUME NEW j \in Installers, proc[j].pc \in {"make", "rename"}
      PROVE  /\ world.pins[Last(proc[j].chain).rel] = pin(j) /\ pin(j) \in Models
             /\ kept[pin(j)] # Absent \/ ClearedUnder
  <2>1. proc[j].pc \in Walking /\ proc[j].pc \in Bringing \ {"models"}
    BY <1>3 DEF Walking, Bringing, Placing
  <2>2. world.pins[Last(proc[j].chain).rel] = pin(j)
    BY DEF pin, rel, Walked
  <2> QED BY <1>3, <2>1, <2>2, AtRelease DEF TornInv, Reached, PinnedInv, AtHand
\* The parts of the next state, of one installer.
<1>4. ASSUME NEW i \in Installers, Goes(i) \/ Crash(i) \/ RunAgain(i),
             NEW q, proc' = [proc EXCEPT ![i] = q],
             q.made.how = "symlink" => MaySymlink,
             q.pc \in {"make", "rename"} =>
               kept'[world.pins[Last(q.chain).rel]] # Absent \/ ClearedUnder',
             q.pc = "rename" => q.made.how # "none"
      PROVE  Symlinks' /\ \A j \in Installers : AtHand(proc[j])'
  <2>1. \A m \in Models : kept[m] # Absent => kept'[m] # Absent
    BY <1>4, LinksKept
  <2>2. \A r \in Releases : beside'[r].how = "symlink" => MaySymlink
    BY <1>4, LinksKept DEF PinnedInv, Symlinks
  <2>3. ASSUME NEW j \in Installers
        PROVE  AtHand(proc[j])' /\ (proc'[j].made.how = "symlink" => MaySymlink)
    <3>1. CASE j = i
      <4>1. proc'[j] = q
        BY <1>2, <1>4, <3>1
      <4> QED BY <1>1, <1>4, <4>1 DEF AtHand
    <3>2. CASE j # i
      <4>1. proc'[j] = proc[j]
        BY <1>2, <1>4, <3>2
      <4>2. AtHand(proc[j]) /\ (proc[j].made.how = "symlink" => MaySymlink)
        BY DEF PinnedInv, Symlinks
      <4>3. proc[j].pc \in {"make", "rename"} =>
              kept'[world.pins[Last(proc[j].chain).rel]] # Absent \/ ClearedUnder'
        BY <1>1, <1>3, <2>1
      <4> QED BY <1>1, <4>1, <4>2, <4>3 DEF AtHand
    <3> QED BY <3>1, <3>2
  <2> QED BY <1>1, <2>2, <2>3 DEF Symlinks, MaySymlink
<1>5. ASSUME NEW i \in Installers, Goes(i) \/ Crash(i) \/ RunAgain(i)
      PROVE  Symlinks' /\ \A j \in Installers : AtHand(proc[j])'
  <2> DEFINE p == proc[i]
  <2>0. p \in Procs /\ (p.made.how = "symlink" => MaySymlink) /\ p.temp = p.hashed
    BY <1>2 DEF PinnedInv, Symlinks, TornInv, HashesItsFile
  <2>1. CASE Check(i) \/ Make(i)
    <3> DEFINE u == Unplaced(p)
               a == [p EXCEPT !.pc = "make"]
               b == [p EXCEPT !.pc = "rename", !.made = _made(i)]
    <3>1. /\ kept' = kept /\ p.pc \in {"check", "make"} /\ p.pc \in Walking
          /\ p.pc \in Bringing \ {"models"} /\ world.pins[Last(p.chain).rel] = pin(i)
      BY <2>1, QuietSteps DEF Check, Make, At, Walking, Bringing, Placing, pin, rel, Walked
    <3>2. pin(i) \in Models
      BY <3>1, AtRelease DEF TornInv, Reached
    <3>3. u.pc \notin {"make", "rename"} /\ u.made = p.made
      BY <2>0, UnplacedParts
    <3>4. a.pc = "make" /\ a.chain = p.chain /\ a.made = p.made
      BY <2>0 DEF Procs
    <3>5. b.pc = "rename" /\ b.chain = p.chain /\ b.made = _made(i)
      BY <2>0 DEF Procs
    <3>6. CASE proc' = [proc EXCEPT ![i] = u]
      <4> HIDE DEF u, a, b, p
      <4> QED BY <1>4, <1>5, <2>0, <3>3, <3>6
    <3>7. CASE proc' = [proc EXCEPT ![i] = a] /\ kept[pin(i)] # Absent
      <4>1. kept'[world.pins[Last(a.chain).rel]] # Absent
        BY <3>1, <3>4, <3>7
      <4> HIDE DEF u, a, b, p
      <4> QED BY <1>4, <1>5, <2>0, <3>4, <3>7, <4>1
    <3>8. CASE /\ proc' = [proc EXCEPT ![i] = b] /\ Make(i) /\ _made(i) # NoFile
      <4>0. p.pc = "make"
        BY <3>8 DEF Make, At
      <4>1. kept[pin(i)] # Absent \/ ClearedUnder
        BY <1>3, <4>0
      <4>2. _made(i).how # "none"
        BY <3>8 DEF _made
      <4>3. _made(i).how = "symlink" => MaySymlink
        BY <4>1 DEF _made, MaySymlink, ClearedUnder
      <4>4. kept'[world.pins[Last(b.chain).rel]] # Absent \/ ClearedUnder'
        BY <1>1, <3>1, <3>5, <4>1
      <4> HIDE DEF u, a, b, p
      <4> QED BY <1>4, <1>5, <3>5, <3>8, <4>2, <4>3, <4>4
    <3>9. \/ proc' = [proc EXCEPT ![i] = u]
          \/ proc' = [proc EXCEPT ![i] = a] /\ kept[pin(i)] # Absent
          \/ proc' = [proc EXCEPT ![i] = b] /\ Make(i) /\ _made(i) # NoFile
      BY <2>1 DEF Check, Make
    <3> QED BY <3>6, <3>7, <3>8, <3>9
  <2>2. CASE ~(Check(i) \/ Make(i))
    <3>1. PICK q : /\ proc' = [proc EXCEPT ![i] = q]
                   /\ q.pc \notin {"make", "rename"} /\ q.made \in {proc[i].made, NoFile}
      <4>1. \/ Install(i) \/ Ensure(i) \/ Dependencies(i) \/ WriteLock(i) \/ Return(i)
            \/ Fetch(i) \/ Unpack(i) \/ Look(i) \/ Match(i) \/ CacheModel(i) \/ FromCache(i)
            \/ Rename(i) \/ Unwritten(i) \/ Request(i) \/ ReadBlock(i) \/ ReadEnd(i)
            \/ Transient(i) \/ Refused(i) \/ Keep(i) \/ KeepBeside(i) \/ Crash(i) \/ RunAgain(i)
        BY <1>5, <2>2 DEF Goes
      <4> QED BY <4>1, Steady
    <3>2. q.made.how = "symlink" => MaySymlink
      BY <2>0, <3>1 DEF NoFile
    <3> QED BY <1>4, <1>5, <3>1, <3>2
  <2> QED BY <2>1, <2>2
<1>6. CASE Clear
  <2>1. /\ clears > 0 /\ clears' = clears - 1
        /\ world.busy \/ \A i \in Installers : ~Working(i)
        /\ beside' = [r \in Releases |-> OfItsOwn(beside[r])]
    BY <1>6 DEF Clear
  <2>2. clears' < world.clears
    <3>1. clears \in 0 .. world.clears /\ world.clears \in Nat
      BY InstallsAssumption DEF TornInv, Shape
    <3> QED BY <2>1, <3>1
  <2>3. \A f \in Files : OfItsOwn(f).how \in {"symlink", "none"} => OfItsOwn(f) = f
    BY DEF OfItsOwn, Files
  <2>4. ASSUME NEW r \in Releases, beside'[r].how = "symlink" PROVE MaySymlink
    BY <1>2, <2>1, <2>3, <2>4 DEF PinnedInv, Symlinks
  <2>5. ASSUME NEW i \in Installers
        PROVE  AtHand(proc[i])' /\ (proc'[i].made.how = "symlink" => MaySymlink)
    <3>1. /\ proc'[i].pc = proc[i].pc /\ proc'[i].chain = proc[i].chain
          /\ proc'[i].made = OfItsOwn(proc[i].made) /\ proc[i].made \in Files
      BY <1>2, <1>6, ClearParts DEF Procs
    <3>2. proc'[i].made.how = "symlink" => MaySymlink
      BY <2>3, <3>1 DEF PinnedInv, Symlinks
    <3>3. proc'[i].pc = "rename" => proc'[i].made.how # "none"
      BY <2>3, <3>1 DEF PinnedInv, AtHand
    <3>4. proc[i].pc \in {"make", "rename"} => ClearedUnder'
      BY <1>1, <2>1, <2>2 DEF Working, ClearedUnder
    <3> QED BY <3>1, <3>2, <3>3, <3>4 DEF AtHand
  <2> QED BY <1>1, <2>4, <2>5 DEF Symlinks, MaySymlink
<1> QED BY <1>5, <1>6 DEF Next

-----------------------------------------------------------------------------
(* PinnedIsWhole: each step keeps PinnedInv.                               *)

\* The invariant in the next state, put together from its parts.
LEMMA PinnedNext ==
  ASSUME TornInv, PinnedInv, Next,
         \A p \in Projects : ClosedNext(lock'[p]),
         \A i \in Installers : /\ ClosedNext(proc'[i].entries) /\ BelowNext(proc'[i])
                               /\ AtDepsNext(proc'[i]) /\ Known(proc'[i])
  PROVE  PinnedInv'
<1>0. Symlinks' /\ \A i \in Installers : AtHand(proc[i])'
  BY LinksStay
<1>1. world' = world /\ Projects' = Projects
  BY WorldStays DEF Projects
<1>2. \A p \in Projects : Closed(lock[p])'
  BY <1>1 DEF ClosedNext, InPlaceNext, FoundNext, DanglesNext, MayDangleNext,
              Closed, InPlace, Found, Dangles, MayDangle, Entry
<1>3. ASSUME NEW i \in Installers PROVE Closed(proc[i].entries)'
  BY <1>1 DEF ClosedNext, InPlaceNext, FoundNext, DanglesNext, MayDangleNext,
              Closed, InPlace, Found, Dangles, MayDangle, Entry
<1>4. ASSUME NEW i \in Installers PROVE Below(proc[i])'
  BY <1>1 DEF BelowNext, InPlaceNext, FoundNext, DanglesNext, MayDangleNext,
              Below, InPlace, Found, Dangles, MayDangle
<1>5. ASSUME NEW i \in Installers PROVE AtDeps(proc[i])'
  BY <1>1 DEF AtDepsNext, InPlaceNext, FoundNext, DanglesNext, MayDangleNext,
              AtDeps, Placed, InPlace, Found, Dangles, MayDangle
<1>6. ASSUME NEW i \in Installers PROVE Known(proc[i])'
  BY <1>1 DEF Known, KnownAt, Entry
<1> QED BY <1>0, <1>1, <1>2, <1>3, <1>4, <1>5, <1>6 DEF PinnedInv

\* Entries that may be written still may, once nothing was taken away.
LEMMA ClosedKept ==
  ASSUME TornInv, PinnedInv, Next, NEW entries \in Seq(Pinned), Closed(entries)
  PROVE  ClosedNext(entries)
<1>1. \A k \in 1 .. Len(entries) : entries[k] \in Pinned
  BY ElementOfSeq
<1>2. \A k \in 1 .. Len(entries) : entries[k].rel \in Releases
  BY <1>1 DEF Pinned
<1> QED BY <1>2, InPlaceStays DEF Closed, ClosedNext

\* One installer's new state, and a lockfile it may have written.
LEMMA PinnedMoves ==
  ASSUME TornInv, PinnedInv, Next,
         NEW i \in Installers, NEW q \in Procs, proc' = [proc EXCEPT ![i] = q],
         \A p \in Projects : lock'[p] = lock[p] \/ lock'[p] = q.entries,
         Closed(q.entries), Below(q), Known(q), AtDepsNext(q)
  PROVE  PinnedInv'
<1>1. world' = world
  BY WorldStays
<1>2. lock \in [Projects -> Seq(Pinned)] /\ proc \in [Installers -> Procs]
  BY DEF TornInv, Shape
<1>4. q.entries \in Seq(Pinned) /\ ClosedNext(q.entries)
  BY ClosedKept DEF Procs
<1>5. ASSUME NEW p \in Projects PROVE ClosedNext(lock'[p])
  <2>1. lock[p] \in Seq(Pinned) /\ Closed(lock[p])
    BY <1>2 DEF PinnedInv
  <2> QED BY <1>4, <2>1, ClosedKept
<1>6. ASSUME NEW p \in Procs, Below(p) PROVE BelowNext(p)
  <2>1. p.chain \in Seq(Walks)
    BY DEF Procs
  <2>2. \A k \in 1 .. Len(p.chain) - 1 : p.chain[k] \in Walks
    BY <2>1, ElementOfSeq, LenProperties
  <2>3. \A k \in 1 .. Len(p.chain) - 1 : p.chain[k].rel \in Releases
    BY <2>2 DEF Walks
  <2> QED BY <1>6, <2>3, InPlaceStays DEF Below, BelowNext
<1>7. ASSUME NEW j \in Installers
      PROVE  /\ ClosedNext(proc'[j].entries) /\ BelowNext(proc'[j])
             /\ AtDepsNext(proc'[j]) /\ Known(proc'[j])
  <2>1. CASE j = i
    <3>1. proc'[j] = q
      BY <1>2, <2>1
    <3> QED BY <1>4, <1>6, <3>1
  <2>2. CASE j # i
    <3>1. proc'[j] = proc[j] /\ proc[j] \in Procs
      BY <1>2, <2>2
    <3>2. proc[j].entries \in Seq(Pinned) /\ Closed(proc[j].entries) /\ Below(proc[j])
          /\ Known(proc[j]) /\ AtDeps(proc[j])
      BY <3>1 DEF PinnedInv, Procs
    <3>3. Placed(proc[j]) => Last(proc[j].chain).rel \in Releases
      BY AtRelease DEF Placed, rel, Walked, Walking, Bringing, Placing
    <3>4. AtDepsNext(proc[j])
      BY <3>2, <3>3, InPlaceStays DEF AtDeps, AtDepsNext
    <3> QED BY <1>6, <3>1, <3>2, <3>4, ClosedKept
  <2> QED BY <2>1, <2>2
<1> QED BY <1>5, <1>7, PinnedNext

\* The same, where the installer is where it was in the walk.
LEMMA PinnedGoes ==
  ASSUME TornInv, PinnedInv, Next,
         NEW i \in Installers, NEW q \in Procs, proc' = [proc EXCEPT ![i] = q],
         lock' = lock,
         q.chain = proc[i].chain, q.entries = proc[i].entries,
         Placed(q) => InPlaceNext(rel(i))
  PROVE  PinnedInv'
<1>1. Closed(q.entries) /\ Below(q) /\ Known(q)
  <2>1. Closed(proc[i].entries) /\ Below(proc[i]) /\ Known(proc[i])
    BY DEF PinnedInv
  <2>2. Closed(q.entries)
    BY <2>1
  <2>3. Below(q)
    BY <2>1 DEF Below
  <2>4. \A k \in 1 .. Len(q.chain) : KnownAt(q, k)
    BY <2>1 DEF Known, KnownAt
  <2> QED BY <2>2, <2>3, <2>4 DEF Known
<1>2. AtDepsNext(q)
  BY DEF AtDepsNext, rel, Walked
<1> QED BY <1>1, <1>2, PinnedMoves

\* Bringing a release: its dependencies are walked once it is in place.
LEMMA BringKeepsPinned ==
  ASSUME TornInv, TornInv', PinnedInv, Next, NEW i \in Installers,
         \/ Fetch(i) \/ Unpack(i) \/ Look(i) \/ Match(i) \/ CacheModel(i) \/ FromCache(i)
         \/ Check(i) \/ Make(i) \/ Rename(i) \/ Unwritten(i)
         \/ Request(i) \/ ReadBlock(i) \/ ReadEnd(i) \/ Transient(i) \/ Refused(i)
         \/ Keep(i) \/ KeepBeside(i)
  PROVE  PinnedInv'
<1> DEFINE p == proc[i]
<1>0. p.pc \in Walking /\ lock' = lock /\ world' = world
  BY WorldStays
     DEF Fetch, Unpack, Look, Match, CacheModel, FromCache, Check, Make, Rename, Unwritten,
         Request, ReadBlock, ReadEnd, Transient, Refused, Keep, KeepBeside, At, Walking,
         Bringing, Placing, shared
<1>1. /\ p \in Procs /\ proc \in [Installers -> Procs]
      /\ rel(i) \in Releases /\ (pin(i) \in Models \/ pin(i) = Absent)
      /\ world.pins[rel(i)] = pin(i) /\ Last(p.chain).rel = rel(i)
  BY <1>0, AtRelease DEF pin, rel, Walked
<1>2. /\ kept \in [Models -> {Absent, Body}] /\ beside \in [Releases -> Files]
      /\ store \in [Releases -> {Absent, "whole"}] /\ p.temp = p.hashed
  BY DEF TornInv, Shape, HashesItsFile
<1>3. p.pc \in Bringing => store[rel(i)] = "whole"
  BY DEF TornInv, Reached
\* A release that is in place stays so; one whose whole file may give way is.
<1>4. /\ InPlace(rel(i)) => InPlaceNext(rel(i))
      /\ Placed(p) => InPlaceNext(rel(i))
  BY <1>1, InPlaceStays DEF PinnedInv, AtDeps
\* What is left to say of a step is where it leaves the installer.
<1>5. ASSUME NEW q, proc' = [proc EXCEPT ![i] = q],
             q.chain = p.chain, q.entries = p.entries, Placed(q) => InPlaceNext(rel(i))
      PROVE  PinnedInv'
  <2>1. Procs' = Procs
    BY <1>0 DEF Procs, Walks, Pinned, Releases
  <2>2. proc'[i] \in Procs /\ proc'[i] = q
    BY <1>1, <1>5, <2>1 DEF TornInv, Shape
  <2> QED BY <1>0, <1>5, <2>2, PinnedGoes
<1>6. ASSUME NEW pc, Go(i, pc), pc \notin Placing,
             pc \in {"deps", "pass"} => InPlaceNext(rel(i))
      PROVE  PinnedInv'
  <2> DEFINE q == [p EXCEPT !.pc = pc]
  <2>1. q.pc = pc /\ q.chain = p.chain /\ q.entries = p.entries /\ proc' = [proc EXCEPT ![i] = q]
    BY <1>1, <1>6 DEF Go, Procs
  <2> HIDE DEF q
  <2>2. Placed(q) => InPlaceNext(rel(i))
    BY <1>6, <2>1 DEF Placed
  <2> QED BY <1>5, <2>1, <2>2
<1>7. CASE Fetch(i) \/ Unpack(i) \/ ReadEnd(i) \/ Refused(i)
  <2>1. \E pc \in {"models", "extract", "verify", "failed"} : Go(i, pc)
    BY <1>7 DEF Fetch, Unpack, ReadEnd, Refused
  <2> QED BY <1>6, <2>1 DEF Placing
<1>8. CASE Look(i)
  <2>1. CASE Go(i, "deps") /\ (pin(i) = Absent \/ _same_file(rel(i)))
    <3>1. store[rel(i)] = "whole"
      BY <1>3, <1>8 DEF Look, At, Bringing
    <3>2. pin(i) # Absent => Found(rel(i)) = Body
      BY <1>1, <1>2, <2>1 DEF _same_file, Found, TornInv, Beside, IsWhole
    <3>3. InPlace(rel(i))
      BY <1>1, <3>1, <3>2 DEF InPlace
    <3> QED BY <1>4, <1>6, <2>1, <3>3 DEF Placing
  <2>2. CASE proc' = [proc EXCEPT ![i] = [p EXCEPT !.pc = "match", !.cached = kept[pin(i)] # Absent]]
    <3> DEFINE q == [p EXCEPT !.pc = "match", !.cached = kept[pin(i)] # Absent]
    <3>1. q.pc = "match" /\ q.chain = p.chain /\ q.entries = p.entries
      BY <1>1 DEF Procs
    <3>2. proc' = [proc EXCEPT ![i] = q]
      BY <2>2
    <3> HIDE DEF q
    <3> QED BY <1>5, <3>1, <3>2 DEF Placed, Placing
  <2> QED BY <1>8, <2>1, <2>2 DEF Look, Go
<1>9. CASE Match(i)
  <2>1. store[rel(i)] = "whole" /\ Found(rel(i)) = Body
    BY <1>3, <1>9 DEF Match, At, Bringing
  <2>2. InPlaceNext(rel(i))
    BY <1>4, <2>1 DEF InPlace
  <2>3. CASE Go(i, "pass")
    BY <1>6, <2>2, <2>3 DEF Placing
  <2>4. CASE proc' = [proc EXCEPT ![i] = [p EXCEPT !.pc = "check", !.placing = "spare"]]
    <3> DEFINE q == [p EXCEPT !.pc = "check", !.placing = "spare"]
    <3>1. q.chain = p.chain /\ q.entries = p.entries
      BY <1>1 DEF Procs
    <3>2. proc' = [proc EXCEPT ![i] = q]
      BY <2>4
    <3> HIDE DEF q
    <3> QED BY <1>5, <2>2, <3>1, <3>2
  <2> QED BY <1>9, <2>3, <2>4 DEF Match, Go
<1>10. CASE CacheModel(i)
  <2>1. Go(i, "deps") /\ Placed(p)
    BY <1>10 DEF CacheModel, At, Placed
  <2> QED BY <1>4, <1>6, <2>1 DEF Placing
<1>11. CASE FromCache(i)
  <2> DEFINE q == [p EXCEPT !.pc = "check", !.placing = "cache"]
             a == Asking(p)
  <2>1. proc' = [proc EXCEPT ![i] = q] \/ proc' = [proc EXCEPT ![i] = a]
    BY <1>11 DEF FromCache
  <2>2. q.chain = p.chain /\ q.entries = p.entries /\ ~Placed(q)
    BY <1>1 DEF Procs, Placed
  <2>3. a.chain = p.chain /\ a.entries = p.entries /\ ~Placed(a)
    BY <1>1, AskingParts DEF Placed, Placing
  <2> HIDE DEF q, a
  <2> QED BY <1>5, <2>1, <2>2, <2>3
<1>12. CASE Check(i) \/ Make(i) \/ Unwritten(i)
  <2> DEFINE u == Unplaced(p)
             a == [p EXCEPT !.pc = "make"]
             b == [p EXCEPT !.pc = "rename", !.made = _made(i)]
             c == [u EXCEPT !.made = NoFile]
  <2>1. \E q \in {u, a, b, c} : proc' = [proc EXCEPT ![i] = q]
    BY <1>12 DEF Check, Make, Unwritten
  <2>2. p.pc \in Placing
    BY <1>12 DEF Check, Make, Unwritten, At, Placing
  <2>3. p.placing = "spare" => InPlaceNext(rel(i))
    BY <1>4, <2>2 DEF Placed
  <2>4. /\ u \in Procs /\ u.chain = p.chain /\ u.entries = p.entries
        /\ u.pc \in {"deps", "request", "failed"} /\ (u.pc = "deps" => p.placing = "spare")
    BY <1>1, <1>2, UnplacedParts
  <2>5. /\ a.chain = p.chain /\ a.entries = p.entries /\ a.pc = "make" /\ a.placing = p.placing
        /\ b.chain = p.chain /\ b.entries = p.entries /\ b.pc = "rename" /\ b.placing = p.placing
    BY <1>1 DEF Procs
  <2> HIDE DEF u
  <2>6. c.chain = p.chain /\ c.entries = p.entries /\ c.pc = u.pc
    BY <2>4 DEF Procs
  <2> HIDE DEF a, b, c
  <2>7. ASSUME NEW q \in {u, a, b, c}
        PROVE  /\ q.chain = p.chain /\ q.entries = p.entries
               /\ Placed(q) => InPlaceNext(rel(i))
    BY <2>3, <2>4, <2>5, <2>6 DEF Placed, Placing
  <2> QED BY <1>5, <2>1, <2>7
<1>13. CASE Rename(i)
  <2> DEFINE q == [p EXCEPT !.pc = "deps", !.made = NoFile]
  <2>1. proc' = [proc EXCEPT ![i] = q] /\ store' = store /\ store[rel(i)] = "whole"
    BY <1>1, <1>3, <1>13 DEF Rename, At, Bringing, Placing
  <2>2. q.chain = p.chain /\ q.entries = p.entries
    BY <1>1 DEF Procs
  <2> HIDE DEF q
  <2>3. InPlaceNext(rel(i))
    BY <1>13, <2>1, RenamedInPlace DEF InPlaceNext
  <2> QED BY <1>5, <2>1, <2>2, <2>3
<1>14. CASE Request(i)
  <2> DEFINE a == [p EXCEPT !.pc = "read"]
             b == [StartOver(p) EXCEPT !.pc = "read"]
  <2>1. proc' = [proc EXCEPT ![i] = a] \/ proc' = [proc EXCEPT ![i] = b]
    BY <1>14 DEF Request
  <2>2. /\ a.pc = "read" /\ a.chain = p.chain /\ a.entries = p.entries
        /\ b.pc = "read" /\ b.chain = p.chain /\ b.entries = p.entries
    BY <1>1 DEF StartOver, Procs
  <2> HIDE DEF a, b
  <2> QED BY <1>5, <2>1, <2>2 DEF Placed, Placing
<1>15. CASE ReadBlock(i)
  <2> DEFINE block == Len(p.hashed) + 1
             q == [p EXCEPT !.temp = Append(@, block), !.hashed = Append(@, block)]
  <2>1. proc' = [proc EXCEPT ![i] = q] /\ p.pc = "read"
    BY <1>1, <1>15 DEF ReadBlock, At
  <2>2. q.pc = p.pc /\ q.chain = p.chain /\ q.entries = p.entries
    BY <1>1 DEF Procs
  <2> HIDE DEF q
  <2> QED BY <1>5, <2>1, <2>2 DEF Placed, Placing
<1>16. CASE Transient(i)
  <2> DEFINE q == Again(p)
  <2>1. proc' = [proc EXCEPT ![i] = q]
    BY <1>16 DEF Transient
  <2>2. q.pc \in {"request", "failed"} /\ q.chain = p.chain /\ q.entries = p.entries
    BY <1>1 DEF Again, Procs
  <2> HIDE DEF q
  <2> QED BY <1>5, <2>1, <2>2 DEF Placed, Placing
<1>17. CASE Keep(i)
  <2> DEFINE q == [p EXCEPT !.pc = "check", !.placing = "hub"]
  <2>1. Go(i, "failed") \/ proc' = [proc EXCEPT ![i] = q]
    BY <1>1, <1>17 DEF Keep
  <2>2. q.chain = p.chain /\ q.entries = p.entries /\ ~Placed(q)
    BY <1>1 DEF Procs, Placed
  <2> HIDE DEF q
  <2>3. CASE Go(i, "failed")
    BY <1>6, <2>3 DEF Placing
  <2> QED BY <1>5, <2>1, <2>2, <2>3
<1>18. CASE KeepBeside(i)
  <2>1. CASE Go(i, "failed")
    BY <1>6, <2>1 DEF Placing
  <2>2. CASE /\ p.hashed = Body /\ Go(i, "deps")
             /\ beside' = [beside EXCEPT ![rel(i)] = [how |-> "copy", data |-> p.temp]]
    <3>1. beside'[rel(i)].how = "copy" /\ beside'[rel(i)].data = Body
      BY <1>1, <1>2, <2>2
    <3>2. store' = store /\ store[rel(i)] = "whole"
      BY <1>3, <1>18 DEF KeepBeside, At, Bringing
    <3>3. InPlaceNext(rel(i))
      BY <3>1, <3>2 DEF FoundNext, InPlaceNext
    <3> QED BY <1>6, <2>2, <3>3 DEF Placing
  <2> QED BY <1>18, <2>1, <2>2 DEF KeepBeside
<1> QED BY <1>7, <1>8, <1>9, <1>10, <1>11, <1>12, <1>13, <1>14, <1>15, <1>16, <1>17, <1>18

\* Back from a release that has its entry, the one before it goes on.
LEMMA BackKeepsPinned ==
  ASSUME TornInv, PinnedInv, Next, NEW i \in Installers, NEW r \in Procs,
         proc' = [proc EXCEPT ![i] = Back(r)], UNCHANGED shared,
         r.chain # <<>>, r.temp = r.hashed, IsWhole(r.made), Closed(r.entries), Below(r), Known(r),
         Entry(r.entries, Last(r.chain).rel) # {}
  PROVE  PinnedInv'
<1> DEFINE q == Back(r)
           c == r.chain
<1>1. c \in Seq(Walks) /\ c # <<>>
  BY DEF Procs
<1>2. /\ Len(c) \in Nat \ {0} /\ Last(c) = c[Len(c)]
      /\ Front(c) \in Seq(Walks) /\ Len(Front(c)) = Len(c) - 1
      /\ \A k \in 1 .. Len(c) - 1 : Front(c)[k] = c[k]
  BY <1>1, ChainParts
<1>3. q \in Procs /\ q.entries = r.entries
  BY BackParts
<1>6. /\ proc' = [proc EXCEPT ![i] = q] /\ clears' = clears /\ lock' = lock
      /\ \/ q.pc = "write" /\ q.chain = <<>>
         \/ q.pc = "deps" /\ q.chain = Front(c) /\ q.chain # <<>> /\ Len(c) > 1
  BY BackParts DEF shared
<1> HIDE DEF q
<1>4. CASE q.pc = "write" /\ q.chain = <<>>
  <2>1. Below(q) /\ Known(q) /\ AtDepsNext(q)
    BY <1>4, EmptySeq DEF Below, Known, AtDepsNext, Placed, Placing
  <2> QED BY <1>3, <1>6, <2>1, PinnedMoves
<1>5. CASE q.pc = "deps" /\ q.chain = Front(c) /\ q.chain # <<>> /\ Len(c) > 1
  <2> DEFINE n == Len(c) - 1
  <2>1. /\ n \in Nat \ {0} /\ Len(q.chain) = n /\ Len(c) = n + 1
        /\ \A k \in 1 .. n : q.chain[k] = c[k]
    BY <1>2, <1>5
  <2> HIDE DEF n
  <2>2. Below(q)
    <3>1. \A k \in 1 .. n : InPlace(c[k].rel)
      BY <2>1 DEF Below
    <3> QED BY <2>1, <3>1 DEF Below
  <2>3. Known(q)
    <3> SUFFICES ASSUME NEW k \in 1 .. n PROVE KnownAt(q, k)
      BY <2>1 DEF Known
    <3>1. k \in 1 .. Len(c) /\ (k < n \/ k + 1 = Len(c)) /\ q.chain[k] = c[k]
      BY <2>1
    <3>2. KnownAt(r, k)
      BY <3>1 DEF Known
    <3>3. CASE k < n
      <4>1. k + 1 \in 1 .. n
        BY <2>1, <3>3
      <4>2. q.chain[k + 1] = c[k + 1]
        BY <2>1, <4>1
      <4> QED BY <1>3, <2>1, <3>1, <3>2, <3>3, <4>2 DEF KnownAt
    <3>4. CASE k + 1 = Len(c)
      <4>1. Entry(q.entries, c[k + 1].rel) # {}
        BY <1>2, <1>3, <3>4
      <4> QED BY <1>3, <3>1, <3>2, <4>1 DEF KnownAt
    <3> QED BY <3>1, <3>3, <3>4
  <2>4. AtDepsNext(q)
    <3>1. Last(q.chain) = c[n] /\ n \in 1 .. n
      BY <2>1 DEF Last
    <3>2. InPlace(c[n].rel) /\ c[n].rel \in Releases
      <4>1. n \in 1 .. Len(c) - 1 /\ n \in 1 .. Len(c)
        BY <2>1
      <4>2. c[n] \in Walks
        BY <1>1, <4>1, ElementOfSeq
      <4> QED BY <4>1, <4>2 DEF Below, Walks
    <3> QED BY <3>1, <3>2, InPlaceStays DEF AtDepsNext
  <2> QED BY <1>3, <1>6, <2>2, <2>3, <2>4, PinnedMoves
<1> QED BY <1>4, <1>5, <1>6

\* A step of the walk starts with everything to come, or an entry.
LEMMA StepKnown ==
  ASSUME NEW r, NEW entries
  PROVE  LET f == Step(r, entries) IN
         /\ f.rel = r
         /\ f.pinned => Entry(entries, f.rel) # {}
         /\ ~f.pinned => \A d \in Range(world.needs[f.rel]) : d \in Range(f.todo)
BY DEF Step, Depends

\* A chain with its last replaced, and one more below it.
Push(c, g, e) == Append(Front(c) \o <<g>>, e)

LEMMA PushParts ==
  ASSUME NEW S, NEW c \in Seq(S), c # <<>>, NEW g \in S, NEW e \in S
  PROVE  /\ Push(c, g, e) \in Seq(S) /\ Len(Push(c, g, e)) = Len(c) + 1
         /\ Push(c, g, e)[Len(c)] = g /\ Push(c, g, e)[Len(c) + 1] = e
         /\ \A k \in 1 .. Len(c) - 1 : Push(c, g, e)[k] = c[k]
<1> DEFINE b == Front(c)
           m == b \o <<g>>
           p == Push(c, g, e)
<1>1. /\ Len(c) \in Nat \ {0} /\ b \in Seq(S) /\ Len(b) = Len(c) - 1
      /\ \A k \in 1 .. Len(c) - 1 : b[k] = c[k]
  BY ChainParts
<1> HIDE DEF b
<1>2. /\ m \in Seq(S) /\ Len(m) = Len(b) + 1
      /\ \A k \in 1 .. Len(b) : m[k] = b[k]
      /\ m[Len(b) + 1] = g
  BY <1>1
<1>3. Len(m) = Len(c) /\ m[Len(c)] = g /\ \A k \in 1 .. Len(c) - 1 : m[k] = c[k]
  BY <1>1, <1>2
<1> HIDE DEF m
<1>4. p \in Seq(S) /\ Len(p) = Len(m) + 1 /\ p[Len(m) + 1] = e
      /\ \A k \in 1 .. Len(m) : p[k] = m[k]
  <2>1. p = Append(m, e)
    BY DEF m, b, Push
  <2>2. /\ Append(m, e) \in Seq(S) /\ Len(Append(m, e)) = Len(m) + 1
        /\ Append(m, e)[Len(m) + 1] = e
        /\ \A k \in 1 .. Len(m) : Append(m, e)[k] = m[k]
    BY <1>2, Added
  <2> QED BY <2>1, <2>2
<1>5. Len(c) \in 1 .. Len(m) /\ \A k \in 1 .. Len(c) - 1 : k \in 1 .. Len(m)
  BY <1>1, <1>3
<1> QED BY <1>3, <1>4, <1>5

\* What is in a sequence is its first or among the rest.
LEMMA FirstOrRest ==
  ASSUME NEW S, NEW s \in Seq(S), s # <<>>, NEW d \in Range(s)
  PROVE  d = Head(s) \/ d \in Range(Tail(s))
<1>1. Len(s) \in Nat \ {0}
  BY EmptySeq
<1>2. PICK k \in 1 .. Len(s) : d = s[k]
  BY DEF Range
<1>3. CASE k = 1
  BY <1>2, <1>3
<1>4. CASE k # 1
  <2>1. k - 1 \in 1 .. Len(s) - 1
    BY <1>1, <1>4
  <2>2. Len(Tail(s)) = Len(s) - 1 /\ Tail(s)[k - 1] = s[k - 1 + 1] /\ Tail(s) \in Seq(S)
    BY <1>1, <2>1, HeadTailProperties
  <2>3. DOMAIN Tail(s) = 1 .. Len(s) - 1 /\ k - 1 + 1 = k
    BY <1>1, <2>2
  <2> QED BY <1>2, <2>1, <2>2, <2>3 DEF Range
<1> QED BY <1>3, <1>4

\* The steps of the walk: a release is pinned once all it depends on is.
LEMMA WalkKeepsPinned ==
  ASSUME TornInv, TornInv', PinnedInv, Next, NEW i \in Installers,
         Install(i) \/ Ensure(i) \/ Dependencies(i) \/ WriteLock(i) \/ Return(i)
  PROVE  PinnedInv'
<1> DEFINE p == proc[i]
           q == proc'[i]
<1>1. p \in Procs /\ proc \in [Installers -> Procs] /\ world \in Worlds
  BY DEF TornInv, Shape
<1>2. q \in Procs
  <2>1. Procs' = Procs
    BY WorldStays DEF Procs, Walks, Pinned, Releases
  <2> QED BY <2>1 DEF TornInv, Shape
<1>3. Closed(p.entries) /\ Below(p) /\ Known(p) /\ AtDeps(p)
  BY DEF PinnedInv
<1>4. p.chain \in Seq(Walks) /\ p.entries \in Seq(Pinned)
  BY <1>1 DEF Procs
<1>5. CASE Install(i)
  <2> DEFINE entries == lock[world.project[i]]
             step    == Step(world.asks[i], entries)
  <2>1. Closed(entries)
    BY DEF PinnedInv, Projects
  <2>2. /\ q.pc = "ensure" /\ q.entries = entries /\ q.chain = <<step>>
        /\ proc' = [proc EXCEPT ![i] = q] /\ clears' = clears /\ lock' = lock
    BY <1>1, <1>5 DEF Install, Idle, shared
  <2>3. Len(q.chain) = 1 /\ q.chain[1] = step
    BY <2>2
  <2>4. KnownAt(q, 1)
    BY <2>2, <2>3, StepKnown DEF KnownAt
  <2> HIDE DEF q, step, entries
  <2>5. Below(q) /\ Known(q) /\ AtDepsNext(q)
    BY <2>2, <2>3, <2>4 DEF Below, Known, AtDepsNext, Placed, Placing
  <2> QED BY <1>2, <2>1, <2>2, <2>5, PinnedMoves
<1>6. CASE Ensure(i)
  <2>0. p.pc = "ensure" /\ UNCHANGED shared
    BY <1>6 DEF Ensure, At
  <2>1. p.chain # <<>> /\ Last(p.chain) = p.chain[Len(p.chain)] /\ Len(p.chain) \in 1 .. Len(p.chain)
    <3>1. p.chain # <<>>
      BY <2>0, AtRelease DEF Walking
    <3>2. Len(p.chain) \in Nat \ {0} /\ Last(p.chain) = p.chain[Len(p.chain)]
      BY <1>4, <3>1, ChainParts
    <3> QED BY <3>1, <3>2
  <2>2. CASE proc' = [proc EXCEPT ![i] = Back(p)] /\ Walked(i).pinned
    <3>1. KnownAt(p, Len(p.chain))
      BY <1>3, <2>1 DEF Known
    <3>2. Entry(p.entries, Last(p.chain).rel) # {}
      BY <2>1, <2>2, <3>1 DEF KnownAt, Walked
    <3>3. p.temp = p.hashed /\ IsWhole(p.made)
      BY DEF TornInv, HashesItsFile, MadeWhole
    <3> QED BY <1>1, <1>3, <2>0, <2>1, <2>2, <3>2, <3>3, BackKeepsPinned
  <2>3. CASE \E pc \in {"failed", Brings(i)} : proc' = [proc EXCEPT ![i] = [p EXCEPT !.pc = pc]]
    <3>1. /\ proc' = [proc EXCEPT ![i] = q] /\ q.chain = p.chain /\ q.entries = p.entries
          /\ q.pc \in {"failed", "models", "fetch"} /\ lock' = lock
      BY <1>1, <2>0, <2>3 DEF Brings, shared, Procs
    <3> HIDE DEF q
    <3>2. ~Placed(q)
      BY <3>1 DEF Placed, Placing
    <3> QED BY <1>2, <3>1, <3>2, PinnedGoes
  <2> QED BY <1>6, <2>2, <2>3 DEF Ensure
<1>7. CASE Dependencies(i)
  <2> DEFINE f == Walked(i)
             n == Len(p.chain)
             entry == [rel |-> f.rel, deps |-> world.needs[f.rel]]
  <2>0. p.pc = "deps" /\ UNCHANGED shared
    BY <1>7 DEF Dependencies, At
  <2>1. p.chain # <<>> /\ f \in Walks /\ n \in Nat \ {0} /\ f = p.chain[n]
    <3>1. p.chain # <<>>
      BY <2>0, AtRelease DEF Walking
    <3> QED BY <1>4, <3>1, ChainParts DEF Walked
  <2>2. KnownAt(p, n) /\ InPlace(f.rel)
    <3>1. n \in 1 .. n
      BY <2>1
    <3> QED BY <1>3, <2>0, <3>1 DEF Known, AtDeps, Placed, Walked
  <2>3. CASE f.todo # <<>>
    <3> DEFINE g == [f EXCEPT !.todo = Tail(@)]
               e == Step(Head(f.todo), p.entries)
    <3>1. f.todo \in Seq(Releases) /\ Head(f.todo) \in Releases /\ Tail(f.todo) \in Seq(Releases)
      BY <2>1, <2>3, HeadTailProperties DEF Walks
    <3>2. e \in Walks
      BY <1>4, <3>1, StepType
    <3>3. g \in Walks /\ g.rel = f.rel /\ g.pinned = f.pinned /\ g.todo = Tail(f.todo)
      BY <2>1, <3>1 DEF Walks
    <3>4. /\ e.rel = Head(f.todo)
          /\ e.pinned => Entry(p.entries, e.rel) # {}
          /\ ~e.pinned => \A d \in Range(world.needs[e.rel]) : d \in Range(e.todo)
      BY StepKnown
    <3>5. /\ q.pc = "ensure" /\ q.entries = p.entries
          /\ q.chain = Append(Front(p.chain) \o <<g>>, e)
          /\ proc' = [proc EXCEPT ![i] = q] /\ clears' = clears /\ lock' = lock
      BY <1>1, <1>7, <2>0, <2>3 DEF Dependencies, shared, Procs
    <3> HIDE DEF g, e, q
    <3>6. /\ Len(q.chain) = n + 1 /\ q.chain[n] = g /\ q.chain[n + 1] = e
          /\ \A k \in 1 .. n - 1 : q.chain[k] = p.chain[k]
      <4>1. Push(p.chain, g, e) = q.chain
        BY <3>5 DEF Push
      <4>2. p.chain \in Seq(Walks) /\ p.chain # <<>> /\ g \in Walks /\ e \in Walks
        BY <1>4, <2>1, <3>2, <3>3
      <4>3. \A c \in Seq(Walks), a \in Walks, b \in Walks : c # <<>> =>
              /\ Len(Push(c, a, b)) = Len(c) + 1
              /\ Push(c, a, b)[Len(c)] = a /\ Push(c, a, b)[Len(c) + 1] = b
              /\ \A k \in 1 .. Len(c) - 1 : Push(c, a, b)[k] = c[k]
        BY PushParts
      <4> QED BY <4>1, <4>2, <4>3
    <3> HIDE DEF n, f
    <3>7. Below(q)
      <4>1. ASSUME NEW k \in 1 .. n PROVE InPlace(q.chain[k].rel)
        <5>1. CASE k = n
          BY <2>2, <3>3, <3>6, <5>1
        <5>2. CASE k # n
          <6>1. k \in 1 .. n - 1
            BY <2>1, <5>2
          <6>2. InPlace(p.chain[k].rel)
            BY <1>3, <6>1 DEF Below, n
          <6> QED BY <3>6, <6>1, <6>2
        <5> QED BY <5>1, <5>2
      <4>2. Len(q.chain) - 1 = n
        BY <2>1, <3>6
      <4> QED BY <4>1, <4>2 DEF Below
    <3>8. ASSUME NEW k \in 1 .. n + 1 PROVE KnownAt(q, k)
      <4>1. CASE k = n + 1
        BY <3>4, <3>5, <3>6, <4>1 DEF KnownAt
      <4>2. CASE k = n
        <5>1. n < Len(q.chain)
          BY <2>1, <3>6
        <5>2. \A d \in Range(f.todo) : d = e.rel \/ d \in Range(g.todo)
          BY <2>3, <3>1, <3>3, <3>4, FirstOrRest
        <5>3. f.pinned => Entry(p.entries, f.rel) # {}
          BY <2>1, <2>2 DEF KnownAt
        <5>4. ~f.pinned => \A d \in Range(world.needs[f.rel]) :
                             d \in Range(f.todo) \/ Entry(p.entries, d) # {}
          BY <2>1, <2>2 DEF KnownAt, n
        <5> QED BY <3>3, <3>5, <3>6, <4>2, <5>1, <5>2, <5>3, <5>4 DEF KnownAt
      <4>3. CASE k \in 1 .. n - 1
        <5>1. KnownAt(p, k) /\ k < n /\ k < Len(q.chain)
          <6>1. k \in 1 .. n /\ k < n /\ k < n + 1
            BY <2>1, <4>3
          <6> QED BY <1>3, <3>6, <6>1 DEF Known, n
        <5>2. q.chain[k + 1].rel = p.chain[k + 1].rel
          <6>1. CASE k + 1 = n
            BY <2>1, <3>3, <3>6, <6>1
          <6>2. CASE k + 1 # n
            <7>1. k + 1 \in 1 .. n - 1
              BY <2>1, <4>3, <6>2
            <7> QED BY <3>6, <7>1
          <6> QED BY <6>1, <6>2
        <5> QED BY <3>5, <3>6, <4>3, <5>1, <5>2 DEF KnownAt, n
      <4>4. k = n + 1 \/ k = n \/ k \in 1 .. n - 1
        BY <2>1
      <4> QED BY <4>1, <4>2, <4>3, <4>4
    <3>9. Known(q) /\ AtDepsNext(q) /\ Closed(q.entries)
      BY <1>3, <3>5, <3>6, <3>8 DEF Known, AtDepsNext, Placed, Placing
    <3> QED BY <1>2, <3>5, <3>7, <3>9, PinnedMoves
  <2>4. CASE f.todo = <<>>
    <3> DEFINE e == IF f.pinned THEN p.entries ELSE Append(p.entries, entry)
               r == [p EXCEPT !.entries = e]
    <3>1. entry \in Pinned /\ entry.rel = f.rel /\ entry.deps = world.needs[f.rel]
      <4>1. f.rel \in Releases
        BY <2>1 DEF Walks
      <4>2. world.needs[f.rel] \in Seq(Releases)
        BY <1>1, <4>1, InstallsAssumption DEF Releases
      <4> QED BY <4>1, <4>2 DEF Pinned
    <3>2. proc' = [proc EXCEPT ![i] = Back(r)]
      BY <1>7, <2>4 DEF Dependencies
    <3>3. /\ f.pinned => Entry(p.entries, f.rel) # {}
          /\ ~f.pinned => \A d \in Range(world.needs[f.rel]) : Entry(p.entries, d) # {}
      <4>1. Range(f.todo) = {}
        BY <2>4 DEF Range
      <4> QED BY <2>1, <2>2, <4>1 DEF KnownAt
    <3> HIDE DEF entry, n, f, q
    <3>4. e \in Seq(Pinned) /\ Closed(e) /\ Entry(e, f.rel) # {}
          /\ \A d : Entry(p.entries, d) # {} => Entry(e, d) # {}
      <4>1. CASE f.pinned
        BY <1>3, <1>4, <3>3, <4>1
      <4>2. CASE ~f.pinned
        <5> DEFINE l == Len(p.entries)
        <5>1. /\ e \in Seq(Pinned) /\ l \in Nat /\ Len(e) = l + 1 /\ e[l + 1] = entry
              /\ \A k \in 1 .. l : e[k] = p.entries[k]
          BY <1>4, <3>1, <4>2, Added
        <5> HIDE DEF e
        <5>2. \A d : Entry(p.entries, d) # {} => Entry(e, d) # {}
          <6>1. \A k \in 1 .. l : k \in 1 .. Len(e)
            BY <5>1
          <6> QED BY <5>1, <6>1 DEF Entry
        <5>3. Entry(e, f.rel) # {}
          <6>1. l + 1 \in 1 .. Len(e)
            BY <5>1
          <6> QED BY <3>1, <5>1, <6>1 DEF Entry
        <5>4. ASSUME NEW k \in 1 .. Len(e)
              PROVE  InPlace(e[k].rel) /\ \A d \in Range(e[k].deps) : Entry(e, d) # {}
          <6>1. CASE k = l + 1
            BY <2>2, <3>1, <3>3, <4>2, <5>1, <5>2, <6>1
          <6>2. CASE k # l + 1
            <7>1. k \in 1 .. l
              BY <5>1, <6>2
            <7> QED BY <1>3, <5>1, <5>2, <7>1 DEF Closed
          <6> QED BY <6>1, <6>2
        <5> QED BY <5>1, <5>2, <5>3, <5>4 DEF Closed
      <4> QED BY <4>1, <4>2
    <3> HIDE DEF e
    <3>5. /\ r \in Procs /\ r.chain = p.chain /\ r.entries = e
          /\ r.temp = r.hashed /\ IsWhole(r.made)
      <4>1. p.temp = p.hashed /\ IsWhole(p.made)
        BY DEF TornInv, HashesItsFile, MadeWhole
      <4> QED BY <1>1, <3>4, <4>1 DEF Procs
    <3> HIDE DEF r
    <3>6. Below(r) /\ Known(r)
      <4>1. ASSUME NEW k \in 1 .. Len(p.chain) PROVE KnownAt(r, k)
        <5>1. KnownAt(p, k)
          BY <1>3 DEF Known
        <5> QED BY <3>4, <3>5, <5>1 DEF KnownAt
      <4> QED BY <1>3, <3>5, <4>1 DEF Below, Known
    <3>7. Entry(r.entries, Last(r.chain).rel) # {} /\ Closed(r.entries)
      BY <3>4, <3>5 DEF f, Walked
    <3> QED BY <2>0, <2>1, <3>2, <3>5, <3>6, <3>7, BackKeepsPinned
  <2> QED BY <2>3, <2>4
<1>8. CASE WriteLock(i)
  <2>1. /\ proc' = [proc EXCEPT ![i] = q] /\ q.chain = p.chain /\ q.entries = p.entries
        /\ q.pc = "root" /\ clears' = clears
    BY <1>1, <1>8 DEF WriteLock, Go, Procs
  <2>2. \A v \in Projects : lock'[v] = lock[v] \/ lock'[v] = q.entries
    <3>1. lock \in [Projects -> Seq(Pinned)] /\ lock' = [lock EXCEPT ![world.project[i]] = p.entries]
      BY <1>8 DEF TornInv, Shape, WriteLock
    <3> QED BY <2>1, <3>1
  <2> HIDE DEF q
  <2>3. Closed(q.entries) /\ Below(q) /\ Known(q) /\ AtDepsNext(q)
    BY <1>3, <2>1 DEF Below, Known, KnownAt, AtDepsNext, Placed, Placing
  <2> QED BY <1>2, <2>1, <2>2, <2>3, PinnedMoves
<1>9. CASE Return(i)
  <2>1. /\ proc' = [proc EXCEPT ![i] = q] /\ q.chain = p.chain /\ q.entries = p.entries
        /\ q.pc \in {"done", "failed"} /\ lock' = lock
    BY <1>1, <1>9 DEF Return, Go, shared, Procs
  <2> HIDE DEF q
  <2>2. ~Placed(q)
    BY <2>1 DEF Placed, Placing
  <2> QED BY <1>2, <2>1, <2>2, PinnedGoes
<1> QED BY <1>5, <1>6, <1>7, <1>8, <1>9

\* A crash, another run, and the cache cleared.
LEMMA UserKeepsPinned ==
  ASSUME TornInv, PinnedInv, Next,
         Clear \/ \E i \in Installers : Crash(i) \/ RunAgain(i)
  PROVE  PinnedInv'
<1>1. proc \in [Installers -> Procs] /\ lock \in [Projects -> Seq(Pinned)]
  BY DEF TornInv, Shape
<1>3. ASSUME NEW i \in Installers, Crash(i) \/ RunAgain(i) PROVE PinnedInv'
  <2>1. PICK pc \in {"idle", "crashed"} :
          proc' = [proc EXCEPT ![i] = Over(proc[i], pc, <<>>)] /\ UNCHANGED shared
    BY <1>3 DEF Crash, RunAgain
  <2> DEFINE q == Over(proc[i], pc, <<>>)
  <2>2. q \in Procs /\ q.pc = pc /\ q.chain = <<>> /\ q.entries = <<>>
    <3>1. PICK p \in Procs : p = proc[i]
      BY <1>1
    <3>2. PICK e \in Seq(Pinned) : e = <<>>
      BY EmptySeq
    <3>3. PICK r \in {"idle", "write", "crashed"} : r = pc
      OBVIOUS
    <3>4. /\ Over(p, r, e) \in Procs /\ Over(p, r, e).pc = r
          /\ Over(p, r, e).chain = <<>> /\ Over(p, r, e).entries = e
      BY OverParts
    <3>5. Over(p, r, e) = q
      BY <3>1, <3>2, <3>3
    <3> HIDE DEF q
    <3> QED BY <3>2, <3>3, <3>4, <3>5
  <2>3. proc' = [proc EXCEPT ![i] = q] /\ lock' = lock
    BY <2>1 DEF shared
  <2> HIDE DEF q
  <2>4. Closed(q.entries) /\ Below(q) /\ Known(q) /\ AtDepsNext(q)
    BY <2>2, EmptySeq DEF Closed, Below, Known, AtDepsNext, Placed, Placing
  <2> QED BY <2>2, <2>3, <2>4, PinnedMoves
<1>5. CASE Clear
  <2>1. lock' = lock
    BY <1>5 DEF Clear
  <2>3. ASSUME NEW v \in Projects PROVE ClosedNext(lock'[v])
    BY <1>1, <2>1, ClosedKept DEF PinnedInv
  <2>4. ASSUME NEW i \in Installers
        PROVE  /\ ClosedNext(proc'[i].entries) /\ BelowNext(proc'[i])
               /\ AtDepsNext(proc'[i]) /\ Known(proc'[i])
    <3>1. /\ proc[i] \in Procs /\ proc'[i].entries = proc[i].entries
          /\ proc'[i].chain = proc[i].chain /\ proc'[i].pc = proc[i].pc
          /\ proc'[i].placing = proc[i].placing
      BY <1>1, <1>5, ClearParts
    <3>2. /\ proc[i].entries \in Seq(Pinned) /\ Closed(proc[i].entries) /\ Below(proc[i])
          /\ Known(proc[i]) /\ AtDeps(proc[i]) /\ proc[i].chain \in Seq(Walks)
      BY <3>1 DEF PinnedInv, Procs
    <3>3. Placed(proc[i]) => Last(proc[i].chain).rel \in Releases
      BY AtRelease DEF Placed, rel, Walked, Walking, Bringing, Placing
    <3>4. \A k \in 1 .. Len(proc[i].chain) - 1 : proc[i].chain[k].rel \in Releases
      <4>1. \A k \in 1 .. Len(proc[i].chain) - 1 : proc[i].chain[k] \in Walks
        BY <3>2, ElementOfSeq, LenProperties
      <4> QED BY <4>1 DEF Walks
    <3>5. AtDepsNext(proc[i]) /\ BelowNext(proc[i])
      BY <3>2, <3>3, <3>4, InPlaceStays DEF AtDeps, AtDepsNext, Below, BelowNext
    <3>6. AtDepsNext(proc'[i]) /\ BelowNext(proc'[i])
      BY <3>1, <3>5 DEF AtDepsNext, Placed, BelowNext
    <3>7. Known(proc'[i])
      <4>1. \A k \in 1 .. Len(proc[i].chain) : KnownAt(proc[i], k)
        BY <3>2 DEF Known
      <4>2. \A k \in 1 .. Len(proc[i].chain) : KnownAt(proc'[i], k)
        BY <3>1, <4>1 DEF KnownAt
      <4> QED BY <3>1, <4>2 DEF Known
    <3>8. ClosedNext(proc'[i].entries)
      BY <3>1, <3>2, ClosedKept
    <3> QED BY <3>6, <3>7, <3>8
  <2> QED BY <2>3, <2>4, PinnedNext
<1> QED BY <1>3, <1>5

\* Nothing is pinned, and nothing linked, before anything is installed.
LEMMA PinnedInit == Init => PinnedInv
<1> SUFFICES ASSUME Init PROVE PinnedInv
  OBVIOUS
<1>1. Symlinks
  BY DEF Init, Symlinks, Idle, NoFile
<1>2. Closed(<<>>)
  BY EmptySeq DEF Closed
<1>3. \A p \in Projects : lock[p] = <<>>
  BY DEF Init, Projects
<1>4. \A i \in Installers : /\ proc[i].entries = <<>> /\ proc[i].chain = <<>>
                            /\ proc[i].pc = "idle"
  BY DEF Init, Idle
<1>5. \A i \in Installers : /\ Below(proc[i]) /\ AtDeps(proc[i]) /\ AtHand(proc[i])
                            /\ Known(proc[i])
  BY <1>4, EmptySeq DEF Below, AtDeps, AtHand, Placed, Placing, Known
<1> QED BY <1>1, <1>2, <1>3, <1>4, <1>5 DEF PinnedInv

\* A step of anybody keeps what is pinned.
LEMMA PinnedStep == TornInv /\ PinnedInv /\ [Next]_vars => PinnedInv'
<1> SUFFICES ASSUME TornInv, PinnedInv, [Next]_vars PROVE PinnedInv'
  OBVIOUS
<1>0. TornInv'
  BY TornStep
<1>1. CASE UNCHANGED vars
  <2>1. /\ world' = world /\ store' = store /\ kept' = kept /\ beside' = beside
        /\ lock' = lock /\ proc' = proc /\ clears' = clears
    BY <1>1 DEF vars
  <2>2. \A r : InPlace(r)' <=> InPlace(r)
    BY <2>1 DEF InPlace, Found, Dangles, MayDangle
  <2>3. Symlinks' /\ \A i \in Installers : AtHand(proc[i])'
    BY <2>1 DEF PinnedInv, Symlinks, MaySymlink, AtHand, ClearedUnder, Releases
  <2>4. ASSUME NEW p \in Projects PROVE Closed(lock[p])'
    BY <2>1, <2>2 DEF PinnedInv, Closed
  <2>5. ASSUME NEW i \in Installers
        PROVE  (Closed(proc[i].entries) /\ Below(proc[i]) /\ AtDeps(proc[i]) /\ Known(proc[i]))'
    <3>1. Closed(proc[i].entries) /\ Below(proc[i]) /\ AtDeps(proc[i]) /\ Known(proc[i])
      BY DEF PinnedInv
    <3>2. Closed(proc[i].entries)'
      BY <2>1, <2>2, <3>1 DEF Closed
    <3>3. Below(proc[i])'
      BY <2>1, <2>2, <3>1 DEF Below
    <3>4. AtDeps(proc[i])'
      BY <2>1, <2>2, <3>1 DEF AtDeps
    <3>5. Known(proc[i])'
      BY <2>1, <3>1 DEF Known, KnownAt
    <3> QED BY <3>2, <3>3, <3>4, <3>5
  <2>6. Projects' = Projects
    BY <2>1 DEF Projects
  <2> QED BY <2>3, <2>4, <2>5, <2>6 DEF PinnedInv
<1>2. CASE Next
  <2>1. ASSUME NEW i \in Installers, Goes(i) PROVE PinnedInv'
    BY <1>0, <1>2, <2>1, WalkKeepsPinned, BringKeepsPinned DEF Goes
  <2> QED BY <1>0, <1>2, <2>1, UserKeepsPinned DEF Next
<1> QED BY <1>1, <1>2

\* What a lockfile pins is there, with all it depends on and its model, at
\* every moment, whatever was refused, cut short or killed on the way, for any
\* number of installers, releases and projects: only a symlink dangles, where
\* no hard link can be made or the cache was cleared under an install.
THEOREM WhatIsPinnedIsWhole == Spec => []PinnedIsWhole
<1>1. Init => TornInv /\ PinnedInv
  BY TornInit, PinnedInit
<1>2. TornInv /\ PinnedInv /\ [Next]_vars => (TornInv /\ PinnedInv)'
  BY TornStep, PinnedStep
<1>3. TornInv /\ PinnedInv => PinnedIsWhole
  <2> SUFFICES ASSUME TornInv, PinnedInv PROVE PinnedIsWhole
    OBVIOUS
  <2>1. DOMAIN lock = Projects
    BY DEF TornInv, Shape
  <2> QED BY <2>1 DEF PinnedInv, Closed, InPlace, PinnedIsWhole
<1> QED BY <1>1, <1>2, <1>3, PTL DEF Spec
=============================================================================
