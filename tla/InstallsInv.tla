----------------------------- MODULE InstallsInv -----------------------------
(***************************************************************************)
(* The inductive invariant of module Installs, in named parts: TornInv     *)
(* makes NeverTorn inductive, and PinnedInv with it PinnedIsWhole.         *)
(***************************************************************************)
EXTENDS Installs

Projects == {world.project[i] : i \in Installers}
Pinned   == [rel : Releases, deps : Seq(Releases)]
Walks    == [rel : Releases, pinned : BOOLEAN, todo : Seq(Releases)]
Files    == [how : {"none", "hard", "symlink", "copy"}, data : {Absent, Body}]
Placing  == {"check", "make", "rename"}
Bringing == {"models", "match", "pass", "request", "read", "verify"} \cup Placing
Walking  == {"ensure", "deps", "fetch", "extract"} \cup Bringing
Procs    ==
  [pc : Walking \cup {"idle", "write", "root", "done", "failed", "crashed"},
   chain : Seq(Walks), entries : Seq(Pinned), cached : BOOLEAN,
   temp : Seq(Nat), hashed : Seq(Nat), lost : BOOLEAN, retries : Nat,
   placing : {"spare", "cache", "hub"}, made : Files, runs : Nat]

\* Every variable keeps its shape.
Shape ==
  /\ world \in Worlds /\ clears \in 0 .. world.clears
  /\ store \in [Releases -> {Absent, "whole"}]
  /\ kept \in [Models -> {Absent, Body}]
  /\ beside \in [Releases -> Files]
  /\ lock \in [Projects -> Seq(Pinned)]
  /\ proc \in [Installers -> Procs]

\* A file beside a module is whole or a link to where its model is kept; so is
\* one about to be renamed there.
IsWhole(f) == f.how \in {"hard", "copy"} => f.data = Body
Beside ==
  \A r \in Releases :
    IsWhole(beside[r]) /\ (beside[r].how = "symlink" => world.pins[r] # Absent)
MadeWhole == \A i \in Installers : IsWhole(proc[i].made)

\* What was hashed is what was written, an answer that started over included.
HashesItsFile == \A i \in Installers : proc[i].temp = proc[i].hashed

\* A release is walked to until the walk ends, stored before its model is
\* looked for, and a model is looked for where one is pinned.
Reached ==
  \A i \in Installers :
    /\ proc[i].pc \in Walking => proc[i].chain # <<>>
    /\ proc[i].pc \in Bringing => store[rel(i)] = "whole"
    /\ proc[i].pc \in Bringing \ {"models"} => pin(i) # Absent

TornInv == Shape /\ Beside /\ MadeWhole /\ HashesItsFile /\ Reached

\* Symlinks are made where hard links cannot be, or were refused because the
\* cache was cleared under somebody.
MaySymlink == world.busy \/ "hard" \notin world.links
Symlinks ==
  /\ \A r \in Releases : beside[r].how = "symlink" => MaySymlink
  /\ \A i \in Installers : proc[i].made.how = "symlink" => MaySymlink

\* A release whose content and model are there, but for a symlink that dangles.
InPlace(r) ==
  /\ store[r] = "whole"
  /\ world.pins[r] # Absent => Found(r) = Body \/ Dangles(r)

\* Entries that may be written: what they pin is there, what it depends on
\* pinned with it.
Closed(entries) ==
  \A k \in 1 .. Len(entries) :
    /\ InPlace(entries[k].rel)
    /\ \A d \in Range(entries[k].deps) : Entry(entries, d) # {}

\* A release the walk went below is in place.
Below(p) == \A k \in 1 .. Len(p.chain) - 1 : InPlace(p.chain[k].rel)

\* So is the one whose dependencies are walked, and one whose whole file is to
\* be kept or to give way to a link.
Placed(p) == p.pc \in {"deps", "pass"} \/ (p.pc \in Placing /\ p.placing = "spare")
AtDeps(p) == Placed(p) => InPlace(Last(p.chain).rel)

\* A link is made to a file that was there, and is unless it was cleared since.
ClearedUnder == clears < world.clears /\ world.busy
AtHand(p) ==
  /\ p.pc \in {"make", "rename"} =>
       kept[world.pins[Last(p.chain).rel]] # Absent \/ ClearedUnder
  /\ p.pc = "rename" => p.made.how # "none"

\* A release that is pinned has its entry; one to be pinned has each of its
\* dependencies still to come, pinned already, or next in the chain.
KnownAt(p, k) ==
  LET f == p.chain[k] IN
  IF f.pinned THEN Entry(p.entries, f.rel) # {}
  ELSE \A d \in Range(world.needs[f.rel]) :
         \/ d \in Range(f.todo)
         \/ Entry(p.entries, d) # {}
         \/ k < Len(p.chain) /\ p.chain[k + 1].rel = d
Known(p) == \A k \in 1 .. Len(p.chain) : KnownAt(p, k)

PinnedInv ==
  /\ Symlinks
  /\ \A p \in Projects : Closed(lock[p])
  /\ \A i \in Installers :
       /\ Closed(proc[i].entries)
       /\ Below(proc[i]) /\ AtDeps(proc[i]) /\ AtHand(proc[i]) /\ Known(proc[i])
=============================================================================
