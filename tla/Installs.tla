------------------------------ MODULE Installs ------------------------------
(***************************************************************************)
(* Installing packages (packages.py) into one store and model cache        *)
(* (store.py) that several processes share, each for its own project.      *)
(*                                                                         *)
(* A package's content is a directory of the store; the model a package    *)
(* pins is a file of the cache, and a link to it beside the package's      *)
(* module.  Every name is given by a rename, so what another process, or a *)
(* crash, may find under one is the question.  A file is the sequence of   *)
(* blocks in it, Body when whole and Absent when there is none.            *)
(***************************************************************************)
EXTENDS Naturals, Sequences, FiniteSets, SequencesExt

CONSTANTS
  Installers,
  Worlds,    \* each [asks, project, needs, pins, links, cache, clears, busy]:
             \* what each installer asks for and where, what a release depends
             \* on, the model it pins, which links can be made beside a
             \* module, whether the model cache can be written, how often the
             \* user may clear it, and whether while somebody installs
  Absent,    \* no file, no directory, no model
  Blocks,    \* blocks of a model
  Retries,   \* _MODEL_RETRIES
  Runs       \* bound: how often one installer is run

Body == [i \in 1 .. Blocks |-> i]

\* A file is not the absence of one.  What a world is: who asks for a release
\* there is, which needs releases there are, on a platform and a file system that
\* link or do not.
ASSUME InstallsAssumption ==
  /\ Absent # Body
  /\ \A w \in Worlds :
       /\ w.needs \in [DOMAIN w.needs -> Seq(DOMAIN w.needs)]
       /\ w.asks \in [Installers -> DOMAIN w.needs]
       /\ w.links \subseteq {"hard", "symlink"}
       /\ w.cache \in BOOLEAN /\ w.busy \in BOOLEAN
       /\ w.clears \in Nat

VARIABLES
  world,     \* the world, chosen once
  store,     \* what is under each release's name in the store
  kept,      \* the file under each model's name in the cache
  beside,    \* the file beside each release's module: [how, data]
  lock,      \* each project's lockfile, a sequence of [rel, deps]
  proc,      \* each installer
  clears     \* how often the cache may still be cleared

vars   == <<world, store, kept, beside, lock, proc, clears>>
shared == <<world, store, kept, beside, lock, clears>>

Releases   == DOMAIN world.needs
Models     == {world.pins[r] : r \in Releases} \ {Absent}

NoFile == [how |-> "none", data |-> Absent]
Idle == [pc |-> "idle", chain |-> <<>>, entries |-> <<>>, cached |-> FALSE,
         temp |-> <<>>, hashed |-> <<>>, lost |-> FALSE, retries |-> 0,
         placing |-> "hub", made |-> NoFile, runs |-> 0]

Init ==
  /\ world \in Worlds
  /\ store = [r \in Releases |-> Absent]
  /\ kept = [m \in Models |-> Absent]
  /\ beside = [r \in Releases |-> NoFile]
  /\ lock = [p \in {world.project[i] : i \in Installers} |-> <<>>]
  /\ proc = [i \in Installers |-> Idle]
  /\ clears = world.clears

At(i, pc)  == proc[i].pc = pc
Go(i, pc)  == proc' = [proc EXCEPT ![i].pc = pc]

\* The release _ensure is at, and the model it pins.
Walked(i)  == Last(proc[i].chain)
rel(i)     == Walked(i).rel
pin(i)     == world.pins[rel(i)]
stored(r)  == store[r] # Absent

Entry(entries, r) == {k \in 1 .. Len(entries) : entries[k].rel = r}
\* What _ensure walks: what the entry resolved to, else what the manifest names.
Depends(entries, r) ==
  IF Entry(entries, r) = {} THEN world.needs[r]
  ELSE entries[CHOOSE k \in Entry(entries, r) : TRUE].deps

\* The file at a release's module, through the link it may be.
Found(r) == IF beside[r].how = "symlink" THEN kept[world.pins[r]]
            ELSE beside[r].data
_same_file(r) == beside[r].how \in {"hard", "symlink"} /\ kept[world.pins[r]] # Absent

-----------------------------------------------------------------------------
(* install, and _ensure's walk of what a release depends on.               *)

Step(r, entries) ==
  [rel |-> r, pinned |-> Entry(entries, r) # {}, todo |-> Depends(entries, r)]

\* The lockfile is read here and written at the end.
Install(i) ==
  /\ At(i, "idle") /\ proc[i].runs < Runs
  /\ LET entries == lock[world.project[i]] IN
     proc' = [proc EXCEPT ![i] =
                [Idle EXCEPT !.pc = "ensure", !.runs = proc[i].runs + 1,
                             !.entries = entries,
                             !.chain = <<Step(world.asks[i], entries)>>]]
  /\ UNCHANGED shared

\* What an installer knows of a model is gone with its walk.
Over(p, pc, entries) == [Idle EXCEPT !.pc = pc, !.entries = entries, !.runs = p.runs]

\* The walk is back from the last of the chain: the release before it goes on.
Back(p) ==
  IF Len(p.chain) = 1 THEN Over(p, "write", p.entries)
  ELSE [p EXCEPT !.pc = "deps", !.chain = Front(p.chain)]

\* Where _ensure goes on with a release that is not both pinned and stored.
BringsTrusting(i) == IF stored(rel(i)) THEN "deps" ELSE "fetch"
Brings(i) == IF stored(rel(i)) THEN "models" ELSE "fetch"

Ensure(i) ==
  /\ At(i, "ensure")
  /\ proc' = [proc EXCEPT ![i] =
       IF \E k \in 1 .. Len(@.chain) - 1 : @.chain[k].rel = rel(i)
       THEN [@ EXCEPT !.pc = "failed"]
       ELSE IF Walked(i).pinned /\ stored(rel(i)) THEN Back(@)
       ELSE [@ EXCEPT !.pc = Brings(i)]]
  /\ UNCHANGED shared

Dependencies(i) ==
  /\ At(i, "deps")
  /\ LET p == proc[i]
         f == Walked(i)
         entry == [rel |-> f.rel, deps |-> world.needs[f.rel]]
     IN  proc' = [proc EXCEPT ![i] =
           IF f.todo # <<>>
           THEN [p EXCEPT !.pc = "ensure",
                          !.chain = Append(Front(@) \o <<[f EXCEPT !.todo = Tail(@)]>>,
                                           Step(Head(f.todo), p.entries))]
           ELSE Back([p EXCEPT !.entries = IF f.pinned THEN @ ELSE Append(@, entry)])]
  /\ UNCHANGED shared

WriteLock(i) ==
  /\ At(i, "write")
  /\ lock' = [lock EXCEPT ![world.project[i]] = proc[i].entries]
  /\ Go(i, "root")
  /\ UNCHANGED <<world, store, kept, beside, clears>>

\* The manifest is written, and the store looked at once more.
Return(i) ==
  /\ At(i, "root")
  /\ Go(i, IF stored(world.asks[i]) THEN "done" ELSE "failed")
  /\ UNCHANGED shared

-----------------------------------------------------------------------------
(* The store: fetch and unpack.                                            *)

\* The archive is here and hashes to its digest, or the install is refused.
Fetch(i) ==
  /\ At(i, "fetch")
  /\ \/ Go(i, IF stored(rel(i)) THEN "models" ELSE "extract")
     \/ Go(i, "failed")
  /\ UNCHANGED shared

\* Extracted into a directory of its own, then moved onto the name: where
\* another process was first, its content is taken.
Unpack(i) ==
  /\ At(i, "extract")
  /\ store' = [store EXCEPT ![rel(i)] = "whole"]
  /\ Go(i, "models")
  /\ UNCHANGED <<world, kept, beside, lock, clears>>

-----------------------------------------------------------------------------
(* _install_models: the cheapest way there is.                             *)

Look(i) ==
  /\ At(i, "models")
  /\ proc' = [proc EXCEPT ![i] =
       IF pin(i) = Absent \/ _same_file(rel(i)) THEN [@ EXCEPT !.pc = "deps"]
       ELSE [@ EXCEPT !.pc = "match", !.cached = kept[pin(i)] # Absent]]
  /\ UNCHANGED shared

\* The file that is there is hashed: a whole one is kept in the cache, or gives
\* way to a link to the cached one.
Match(i) ==
  /\ At(i, "match") /\ Found(rel(i)) = Body
  /\ proc' = [proc EXCEPT ![i] = IF @.cached THEN [@ EXCEPT !.pc = "check", !.placing = "spare"]
                                 ELSE [@ EXCEPT !.pc = "pass"]]
  /\ UNCHANGED shared

\* cache_model, which may have kept nothing.
CacheModel(i) ==
  /\ At(i, "pass")
  /\ \/ UNCHANGED <<kept, beside>>
     \/ /\ world.cache /\ kept[pin(i)] = Absent /\ Found(rel(i)) = Body
        /\ kept' = [kept EXCEPT ![pin(i)] = Body]
        /\ beside' = IF "hard" \in world.links
                     THEN [beside EXCEPT ![rel(i)].how = "hard"] ELSE beside
  /\ Go(i, "deps")
  /\ UNCHANGED <<world, store, lock, clears>>

Asking(p) == [p EXCEPT !.pc = "request", !.temp = <<>>, !.hashed = <<>>,
                       !.lost = FALSE, !.retries = 0]

\* It is not there, or not whole: from the cache, or from the hub.
FromCache(i) ==
  /\ At(i, "match") /\ Found(rel(i)) # Body
  /\ proc' = [proc EXCEPT ![i] = IF @.cached THEN [@ EXCEPT !.pc = "check", !.placing = "cache"]
                                 ELSE Asking(@)]
  /\ UNCHANGED shared

-----------------------------------------------------------------------------
(* place_model, of a whole file that a link may spare, of a cached model, or *)
(* of one just kept from the hub: the cached file is looked for, the file    *)
(* to be is made beside the module, and renamed onto its name.               *)

\* Nothing was placed: a spare is as good as before, the hub may still have it.
Unplaced(p) ==
  CASE p.placing = "spare" -> [p EXCEPT !.pc = "deps"]
    [] p.placing = "cache" -> Asking(p)
    [] p.placing = "hub"   -> [p EXCEPT !.pc = "failed"]

Check(i) ==
  /\ At(i, "check")
  /\ proc' = [proc EXCEPT ![i] = IF kept[pin(i)] = Absent THEN Unplaced(@)
                                 ELSE [@ EXCEPT !.pc = "make"]]
  /\ UNCHANGED shared

\* A hard link, which fails where the cached file is gone; then a symlink,
\* which does not; then a copy.
_made(i) ==
  LET m == kept[pin(i)] IN
  IF "hard" \in world.links /\ m # Absent THEN [how |-> "hard", data |-> m]
  ELSE IF "symlink" \in world.links THEN [how |-> "symlink", data |-> Absent]
  ELSE IF m # Absent /\ proc[i].placing # "spare" THEN [how |-> "copy", data |-> m]
  ELSE NoFile

Make(i) ==
  /\ At(i, "make")
  /\ proc' = [proc EXCEPT ![i] = IF _made(i) = NoFile THEN Unplaced(@)
                                 ELSE [@ EXCEPT !.pc = "rename", !.made = _made(i)]]
  /\ UNCHANGED shared

Rename(i) ==
  /\ At(i, "rename")
  /\ beside' = [beside EXCEPT ![rel(i)] = proc[i].made]
  /\ proc' = [proc EXCEPT ![i].pc = "deps", ![i].made = NoFile]
  /\ UNCHANGED <<world, store, kept, lock, clears>>

\* A directory that cannot be written, or a name that cannot be given.
Unwritten(i) ==
  /\ proc[i].pc \in {"check", "make", "rename"}
  /\ proc' = [proc EXCEPT ![i] = [Unplaced(@) EXCEPT !.made = NoFile]]
  /\ UNCHANGED shared

-----------------------------------------------------------------------------
(* _download_model: a model's blocks into a temporary of the cache, or      *)
(* beside the module where there is no cache, asked for again where the     *)
(* answer fails or is cut short.                                            *)

StartOverHash(p) == [p EXCEPT !.hashed = <<>>]
StartOver(p) == [p EXCEPT !.temp = <<>>, !.hashed = <<>>]

\* The rest is asked for once some has arrived; an answer that is not partial
\* starts the file and the digest over.
Request(i) ==
  /\ At(i, "request")
  /\ LET answered(p) == [p EXCEPT !.pc = "read"] IN
     proc' \in {[proc EXCEPT ![i] = answered(@)],
                [proc EXCEPT ![i] = answered(StartOver(@))]}
  /\ UNCHANGED shared

\* What the answer goes on with: the blocks after those hashed.
ReadBlock(i) ==
  /\ At(i, "read") /\ Len(proc[i].hashed) < Blocks
  /\ LET block == Len(proc[i].hashed) + 1 IN
     proc' = [proc EXCEPT ![i].temp = Append(@, block), ![i].hashed = Append(@, block)]
  /\ UNCHANGED shared

\* Its end: all of it, or less of it where no length told the two apart.
ReadEnd(i) ==
  /\ At(i, "read")
  /\ Go(i, "verify")
  /\ UNCHANGED shared

AgainUncounted(p) == [p EXCEPT !.pc = "request"]
Again(p) == IF p.retries < Retries
            THEN [p EXCEPT !.pc = "request", !.retries = @ + 1]
            ELSE [p EXCEPT !.pc = "failed"]

\* A status worth asking again, a connection that failed or was cut short.
Transient(i) ==
  /\ At(i, "request") \/ (At(i, "read") /\ Len(proc[i].hashed) < Blocks)
  /\ proc' = [proc EXCEPT ![i] = Again(@)]
  /\ UNCHANGED shared

\* Any other answer, or a disk that cannot be written.
Refused(i) ==
  /\ proc[i].pc \in {"request", "read", "verify"}
  /\ Go(i, "failed")
  /\ UNCHANGED shared

\* Verified, then given its name: one already there is success, and a
\* temporary that went with the cache is not.
Keep(i) ==
  /\ At(i, "verify") /\ world.cache
  /\ LET m == kept[pin(i)]
         p == proc[i]
     IN  IF p.hashed # Body \/ (p.lost /\ m = Absent)
         THEN Go(i, "failed") /\ UNCHANGED kept
         ELSE /\ kept' = [kept EXCEPT ![pin(i)] = IF m = Absent THEN p.temp ELSE m]
              /\ proc' = [proc EXCEPT ![i].pc = "check", ![i].placing = "hub"]
  /\ UNCHANGED <<world, store, beside, lock, clears>>

\* Where there is no cache, its name is the one beside the module.
KeepBeside(i) ==
  /\ At(i, "verify") /\ ~world.cache
  /\ IF proc[i].hashed # Body THEN Go(i, "failed") /\ UNCHANGED beside
     ELSE /\ beside' = [beside EXCEPT ![rel(i)] = [how |-> "copy", data |-> proc[i].temp]]
          /\ Go(i, "deps")
  /\ UNCHANGED <<world, store, kept, lock, clears>>

-----------------------------------------------------------------------------
(* The process is killed at any point, its temporary left under its own    *)
(* name; the command is run again; the user clears the model cache, which  *)
(* leaves a hard link a file of its own and a symlink naming nothing, and  *)
(* takes the temporaries in it.                                            *)

Working(i) == proc[i].pc \notin {"idle", "failed", "crashed", "done"}

Crash(i) ==
  /\ Working(i)
  /\ proc' = [proc EXCEPT ![i] = Over(@, "crashed", <<>>)]
  /\ UNCHANGED shared

RunAgain(i) ==
  /\ proc[i].pc \in {"failed", "crashed", "done"} /\ proc[i].runs < Runs
  /\ proc' = [proc EXCEPT ![i] = Over(@, "idle", <<>>)]
  /\ UNCHANGED shared

OfItsOwn(f) == IF f.how = "hard" THEN [f EXCEPT !.how = "copy"] ELSE f

Clear ==
  /\ clears > 0 /\ clears' = clears - 1
  /\ world.busy \/ \A i \in Installers : ~Working(i)
  /\ kept' = [m \in Models |-> Absent]
  /\ beside' = [r \in Releases |-> OfItsOwn(beside[r])]
  /\ proc' = [i \in Installers |->
                [proc[i] EXCEPT !.made = OfItsOwn(@),
                                !.lost = @ \/ proc[i].pc \in {"request", "read", "verify"}]]
  /\ UNCHANGED <<world, store, lock>>

Goes(i) ==
  \/ Install(i) \/ Ensure(i) \/ Dependencies(i) \/ WriteLock(i) \/ Return(i)
  \/ Fetch(i) \/ Unpack(i) \/ Look(i) \/ Match(i) \/ CacheModel(i) \/ FromCache(i)
  \/ Check(i) \/ Make(i) \/ Rename(i) \/ Unwritten(i)
  \/ Request(i) \/ ReadBlock(i) \/ ReadEnd(i) \/ Transient(i) \/ Refused(i)
  \/ Keep(i) \/ KeepBeside(i)

Next == (\E i \in Installers : Goes(i) \/ Crash(i) \/ RunAgain(i)) \/ Clear

Spec == Init /\ [][Next]_vars
             /\ \A i \in Installers : WF_vars(Goes(i))

-----------------------------------------------------------------------------
\* Whatever is under a name is whole: a directory of the store, a file of the
\* cache, a file beside a module, at every moment another process may look,
\* a crash included.
NeverTorn ==
  /\ \A r \in Releases : store[r] \in {Absent, "whole"}
  /\ \A m \in Models : kept[m] \in {Absent, Body}
  /\ \A r \in Releases : Found(r) \in {Absent, Body}

\* A symlink into a cache that was cleared, on a file system that makes no hard
\* links or while somebody was installing: the one way a model is missing.
MayDangle == clears < world.clears /\ (world.busy \/ "hard" \notin world.links)
Dangles(r) == beside[r].how = "symlink" /\ MayDangle

\* What a lockfile pins is there: its content, what it depends on, pinned in
\* the same file, and the model its module loads, whatever failed on the way
\* and whoever else was installing.  A clear takes a model only through a
\* symlink; where hard links can be made, only one that came between the look
\* for the cached file and the link to it.
PinnedIsWhole ==
  \A p \in DOMAIN lock : \A k \in 1 .. Len(lock[p]) :
    LET r == lock[p][k].rel IN
    /\ store[r] = "whole"
    /\ world.pins[r] # Absent => Found(r) = Body \/ Dangles(r)
    /\ \A d \in Range(lock[p][k].deps) : Entry(lock[p], d) # {}

\* An install ends, however often the hub's answers are cut short.
InstallEnds == \A i \in Installers : Working(i) ~> ~Working(i)

\* An install that returns leaves the model of what it was asked for in place,
\* the cache cleared before it included.
InstallPutsBack ==
  [][\A i \in Installers : Return(i) =>
       (world.pins[world.asks[i]] # Absent => Found(world.asks[i]) = Body)]_vars
=============================================================================
