# Verification of ffrwd

ffrwd compiles a query dialect into a plan of media processes and runs it, on
one machine or on several. Its sidecar, `ffrwd-wasm`, runs a network of nodes:
it reads streams, cuts them into ticks, calls WebAssembly modules with each tick
on several threads, and writes what they make. This directory models in TLA+
the parts of ffrwd where order, failure and concurrency decide whether it is
correct: the sidecar's scheduler and outputs, the process group of a run, a run
split over nodes, run-time laterals, the installation of packages, and the
searches that order and place a plan. TLC checks them on small instances. TLAPS
proves, for every value of the constants: that a lane keeps its promise and is a
serial lane to whatever reads it, by itself and in a network; that a network
loses no wake-up, hides no failure, writes its outputs whole and bounds what
waits in them; that an output has one order and is kept up with; what a run and
a split run may report; that a lateral's messages are told once; and what an
installation, or a stage, leaves behind.

Source paths are relative to the repository. A Rust file named without a
directory is in `sidecar/ffrwd-wasm/src/`, a Python file in `cli/ffrwd/`.

## The system

| Part | Source | State it keeps | Operations | Hard behaviour |
|---|---|---|---|---|
| Lane scheduler | `lanes.rs` | per lane a task queue, instances, results waiting, the flush point; a run-wide error and end, all under one mutex | arrive, progress, end, cut, pick, dispatch, complete, flush, feed, finish | turns overlap in every order, the last call must be alone and on the right instance, credit, two condition variables |
| Output writers | `edges.rs`, `heartbeat.rs` | per output a queue under its own mutex, a thread, what it holds of each stream, how it ended; the parked output | push, next, hold, merge, write, settle, ask about the end | callbacks into the scheduler between two locks, readers that leave, writes that fail late |
| Network run | `node_graph.rs` (`run`) | the threads | start, wire, read inputs, wait, join | start-up and end order |
| Tick assembler | `tick.rs` | per input the items held, per instance the rows it is owed | arrive, mark, next tick per clock, earlier rows | pairing streams of different pace, rows told and forgotten |
| Process group | `execute.py` (`execute_plan`, `_StageRun`) | members, when each was seen to end, a suspect, how the stage was struck | spawn, feed, poll, judge, stop, attribute, report | members end between two polls in any order, pipes break because of someone else's end, spawns that raise |
| Run-time laterals | `execute.py` (`_LateralRun`) | launches waiting, the one running, the rows said, two threads | accept, read, overlap, launch, stop, join | a stop races a reader that adds and a launcher that takes |
| Split run | `nodes.py` | per node a connection, what was heard, what was lost; per runner a stage thread | open, send a stage, hear, watch, collect, end, close; serve, spawn, feed, report | everything is known by messages; runners die, refuse, or are slower than the coordinator waits |
| Start order | `startup.py` | none: the relation of milestones of a plan | walk, reorder, check | a plan that opens its pipes in the wrong order never starts |
| Placement | `placement.py`, `placement_cost.py` | none: an assignment being improved | strategies, three searches, check | cycles between nodes, caps |
| Installing packages | `packages.py`, `store.py` | a store and a model cache shared by processes, links beside modules, a lockfile per project | resolve, fetch, unpack, download, link, pin | two installs at once, cut answers and retries, a crash between two renames, a cleared cache |
| Held inputs, port feeds | `hold.rs`, `feeds.rs` | the frame shown, its connections | connect, show, repeat, time out | reconnects and timeouts against the tick that reads |
| Leaky nodes | `leaky.rs` | lateness learned, floor and spread | judge a picture, drop | long histories, real time |
| Windows cutter, older modules | `windows.rs`, `older.rs`, `legacy.rs`, `adapters.rs` | a window's frames | cut, hand on, convert | boundaries |
| Host nodes | `host_nodes.rs`, `rowmerge.rs`, `rowfilter.rs` | rows per input | merge, filter | row order across inputs |
| Relays | `relay.rs`, the relay of `nodes.py` | per edge a bounded buffer or a spool, two threads | fill, drain, stop, shut | stops racing blocking calls |
| Dialect front end | `parser.py`, `lower.py`, `functions.py`, `processes.py` | the program being compiled | parse, type, lower, partition, emit | sequential |
| Command line, projects, publishing, remote runs | `cli.py`, `project.py`, `wasm.py` and the rest | files, requests | dispatch, format, upload | sequential, requests and answers |

How they interact. The front end compiles a program to a plan. Placement gives
each process a node; the start order arranges its pipes and refuses a plan that
cannot start. `execute_plan` then runs the stages on one machine, or
`execute_split` on several, with a runner per node. A member of a stage may be a
sidecar. In it, reader threads push what an input holds into the scheduler
(`Scheduler::feed`), waiting for room on everything that reads the stream. An
arrival cuts ticks into the queues of the lanes that read it. Workers pick a
lane whose readers have room, run its turn with the mutex released, and come
back to `complete`, which flushes results in order into other lanes and into
the outputs' queues. A writer thread takes from its queue and calls the
scheduler back, which wakes workers, readers and the main thread. The main
thread waits for the end and joins everything; its exit code is what the process
group, or a node's runner, watches for. The modules a sidecar loads, and their
models, are what an installation put in the store.

What makes each part correct:

- a lane hands on what a serial lane would: each tick once, in order, nothing
  after the node said it was finished, one last call, alone;
- an instance is run by one worker at a time and is told of every row of the
  ticks it did not process;
- queues and outputs are bounded, and nothing settled waits where nobody looks;
- no wake-up is lost, no set of threads waits on itself, and the run returns;
- an output of several streams is written in one order whatever the schedule, as
  soon as it can be;
- a clean exit hides no failure and an output written whole holds everything;
- a run reported clean was clean, on one machine or on several; nothing outlives
  it; and a failure names the member that caused it;
- each message of a lateral is told of once and its instances never overlap;
- an order of pipes that is accepted starts, and one that is refused could not;
- a placement can be carried out, whatever chose it;
- what a lockfile pins is there and whole, at every moment, whoever crashed.

`PROJECT.json` lists the hazards behind these, each at the line where it bites.

## Modules

| Module | What it is | Source |
|---|---|---|
| `LaneQueue` | a lane's task queue as the bounds of a run of ordinals; the cut and the turn in closed form, for every clock | `lanes.rs` `cut`, `dispatch` |
| `TurnForms`, `TurnLoop` | the same loops a step at a time, and that the closed forms are what they come to | `lanes.rs` `cut`, `dispatch` |
| `Lane` | one lane: arrivals, the cut, workers' dispatch and completion, instances, earlier rows, flush, claims, the last call, failures | `lanes.rs`, `EarlierRows` of `tick.rs` |
| `TurnProofs` | the invariant of `TurnLoop`; the proof that the closed forms are what the loops compute | |
| `LaneInv`, `LaneProofs` | the inductive invariant of `Lane` and the refinement mapping onto `SerialLane`; their proofs and the theorems | |
| `SerialLane` | the abstract lane: no workers, no instances, no queue | the header of `lanes.rs`, `flush` |
| `NutOutput` | one output of several streams: the flushes that feed it, the writer that holds and merges, heartbeats | `edges.rs` `write_nut`, `heartbeat.rs`, `lanes.rs` `superseded_progress_dropped` |
| `NutInv`, `NutProofs` | its inductive invariants; the proofs that its data streams never step back, that it writes in the one order and that it holds nothing back | |
| `Network` | the threads of a run: readers, workers, writers, the main thread, over lanes wired by streams | `lanes.rs`, `edges.rs`, `node_graph.rs` |
| `NetworkInv`, `NetworkProofs` | its inductive invariants and the mapping of each of its lanes onto `SerialLane`; their proofs and the theorems | |
| `Stage` | the process group of a run, stage after stage | `execute.py` `execute_plan`, `_StageRun` |
| `StageInv`, `StageProofs` | its inductive invariants; the proofs that a clean report is clean, what a stage leaves running, and that a chain is blamed on a cause | |
| `LateralPromise` | what a lateral promises, over the part of its state that says it | `execute.py` `_Launch.overlaps`, `_arrived` |
| `Lateral` | one run-time lateral: its reader, its launcher, its stop | `execute.py` `_LateralRun` |
| `LateralProofs` | each of its messages is told once and its instances never overlap, proved | |
| `Nodes` | a run split over nodes: coordinator, connections, runners | `nodes.py` |
| `NodesInv`, `NodesProofs` | its inductive invariant; the proofs that a clean report is clean, stages never share a node and a report is whole | |
| `Startup` | the milestones of a plan, the walk that orders it, the check | `startup.py` |
| `Placement` | the strategies and searches that place a plan, and the check | `placement.py`, `placement_cost.py` |
| `Installs` | installers over one store and one model cache | `packages.py`, `store.py` |
| `InstallsInv`, `InstallsProofs` | its inductive invariants; their proof and the theorems | |
| `MCLane`, `MCLanePair` | small lanes | |
| `MCNetwork` | small networks | |
| `MCNutOutput`, `MCStage`, `MCGroup`, `MCNodes`, `MCInstalls` | scripts, plans and worlds for TLC | |
| `MCAlgorithms` | `TurnLoop`, `Startup` and `Placement` over every input of a size | |

`Network` composes lanes, outputs and the main thread over `LaneQueue`, as `Lane`
does for one lane in more detail; both are checked against `SerialLane`. `Stage`
and `Nodes` model the same judgement of a stage from two sides: `Stage` has the
pipes between members and the watch poll by poll, `Nodes` the messages by which
a coordinator knows of members it cannot see.

### State and actions of `Lane`

The scheduler's mutex makes an arrival with its cut, a worker's pick with its
dispatch, and a completion with its flush each atomic, and each is one action:

| Action | Code |
|---|---|
| `Arrive(k)` | `State::arrive` or `progress`, settling k ticks, and the cut it ends in |
| `End` | the last `State::end`, and its cut |
| `Look(w)` | `worker` finds nothing; what `pick` cut stays cut |
| `Dispatch(w)` | `State::pick`, `dispatchable` and `dispatch`: the instance, the turn's ticks, the rows owed and forgotten |
| `Complete(w, stop, verdict)` | the turn's calls, then `State::complete` and `flush` |

Between `Dispatch(w)` and `Complete(w, ...)` the turn is out, as the mutex is
released. A tick is its ordinal. The queue always holds consecutive ordinals,
so `queue` is `head`, `next`, whether a tick is `withheld`, and which is the
`last`: the VecDeque, `next_ordinal`, `withheld` and `last_cut`. `stopped`,
`ended`, `finisher`, `idle`, `created`, `done` and `nextFlush` are the fields
of that name. A turn holds what its worker has outside the lock: its ticks, the
instance, whether it is newly opened, and the tick its rows begin at. `told`
and `kept` are `EarlierRows`: what each instance was told of and what has been
forgotten. `out` and `knows` are history, read by no action.

Of the room on what a lane feeds, `Lane` says nothing: a dispatch may happen
whenever the rest of the guard holds, and may be put off for ever where no
fairness is asked. `Network` has the room.

### State and actions of `Network`

Every thread has a place in its code, and a step is one critical section with
the call that follows it outside any lock. `notify_all` on both condition
variables (`Shared::notify`) is `Roused`; a thread asleep is one in `wait`, and
looks again when woken. `net` is the network itself, picked from `Nets` at the
start and never changed: what reads what, each lane's clock and width, the cap,
and who may fail, leave or finish. A writer's callback is a step of its own, since it is
made after its queue's lock is dropped and before the scheduler's is taken
(`edges.rs`, `next`); that gap is what `WorkIsSeen` is about. Items are
counted: what a property must tell apart is how many of a stream's items are
where, and the order of ends and items. So an output's `items` and `hand` name
the stream and whether it is an item of it or its end, `wrote` counts the items
written per stream, and `ends` are the streams whose end its writer has met. The
cut and the turn are those of `LaneQueue`, instantiated per lane.

| Action | Code |
|---|---|
| `WorkerStops`, `WorkerSleeps`, `Dispatch`, `Complete` | `worker` |
| `FeedStops`, `FeedSleeps`, `Feeds`, `Tears` | a reader thread, `Scheduler::feed`, `Scheduler::fail` |
| `Idles`, `Pops`, `Wakes`, `Writes` | `edges.rs` `next`, `write_all`, and `waker_of` |
| `Counts`, `Asks`, `Settles` | the end of `spawn_writer`'s thread |
| `SetsOver`, `WaitsFinished`, `JoinsWorkers`, `JoinsWriters` | `node_graph.rs` `run`, `Scheduler::finish` |

### State and actions of `NutOutput`

What each stream's lane will hand on is a script of items, marks and an end;
lanes push it flush by flush, of any number of entries, and the writer goes on
meanwhile. `queue`, `taken`, `held`, `settled`, `ended` and `last` are the
fields of `QueueState`, `Track` and `Beats`. Every write is a step, so a push
falls between any two. A mark is never behind what its stream carried; a
message may be, which `av.wit` calls late. All times are in one base, so what
`rescale` rounds is not modelled.

| Action | Code |
|---|---|
| `HandOn(s)` | `State::flush`'s last loop and `Queue::push`, less the marks left out |
| `Take`, `Idle` | `next`, and `write_nut` keeping the item by stream |
| `Write` | `writable` and `write_one` |
| `Finish`, `Break` | the end of `write_nut`, or a write that fails |

The order an output should have is defined on the scripts alone (`Before`), and
`InTimeOrder` and `KeptUp` hold the writer to it; neither speaks of what the
writer keeps.

### State and actions of `Stage`

One run of `execute_plan`. `proc` is what became of each process, `seen` is
`ended_at`, `terminated` the members told to end, `watch` the locals of `_watch`
and `struck` what struck the stage. A member is looked at in a step of its own
(`Scan`), so others end between the looks of one poll; the poll is judged in one
step (`Judge`). `clock` numbers the polls and moves only where a verdict waits
for time, since a poll that sees nothing leaves everything as it is. `ending`
is the list `_stop` goes through, first to tell and then to wait, and `cut` is where
a Ctrl-C that nothing catches broke the rest off.

| Action | Code |
|---|---|
| `Spawn`, `SpawnRaises`, `Spawned` | `_spawn_order` and `start`, one member a step |
| `FeedWriter`, `FedAll` | `feed_writers` and `_await_port`; a held writer that cannot be spawned is `SpawnRaises` again |
| `Poll`, `Scan`, `Judge`, `Sleep` | `_watch`: the stop, each member's end, `_ends_the_stage`, `_left_early` |
| `Strike` | the deadline and the stall |
| `Interrupt` | Ctrl-C where `_run_stage` catches it: up to the end of the watch, its verdict assigned or not |
| `Ended` | the end of the watch, and a feeder that was never heard |
| `_stop`, `Tell`, `Told`, `Wait`, `Kill`, `AllReaped` | `run.end()`: who still runs, `terminate` to one after another, `wait` for one after another, `kill` after the grace |
| `Abandon` | Ctrl-C during `run.end()` or later, which nothing catches |
| `Report`, `Propagate`, `NextStage` | `stage_result` with `_attribute`; what a stage raised instead; `execute_plan`'s loop |
| `Exit`, `SetStop`, `CloseWindows` | the processes and the user |

### State and actions of `Lateral`

| Action | Code |
|---|---|
| `_accept`, `ReadChunk`, `_arrived`, `ReadEnds` | the reader thread: between chunks it looks at the stop, within one it does not; the connection may fail, or never come, at any point |
| `_launch`, `Listen`, `Compile`, `Start`, `InstanceEnds`, `InstanceRaises` | the launcher thread |
| `StopSet`, `StopDrain`, `StopTell` | `stop`, from the stage's end |

### State and actions of `Nodes`

`to` and `from` are the two directions of each runner's connection, in order,
closed behind what was sent. `stage` and `node` are the coordinator's `_Stage`
and `_Node`, `thread` a runner's stage thread, `reported` what `_collect` has.
Where one lock covers several statements they are one action; `_lose` takes two,
as the code drops the lock between the node and its members.

| Action | Code |
|---|---|
| `Accept`, `NeverReached`, `Ready` | `open` |
| `BeginStage`, `SendStage`, `Chain` | `run_stage` and `execute_split` |
| `Watch`, `Deadline`, `Interrupt`, `Watched` | `_watch` as the coordinator calls it, the feeders, the stop |
| `CollectNode`, `EndStage` | `_collect`, `stage_result` |
| `Close`, `KillRunner`, `Closed` | `close` |
| `Hear`, `Lose`, `LoseMembers` | the thread that hears a node, `_lose` |
| `Answer`, `Halt`, `Serve` | a runner's serving thread, `_end_stage` |
| `Spawn`, `Feed`, `Report`, `End` | a runner's stage thread; a member or a held writer that cannot be spawned is answered with an error |
| `Exit`, `SetStop`, `Die` | the members, the user, a runner that dies |

### State and actions of `Installs`

A file is the blocks written so far; what is under a name is whole, absent or,
if the code were wrong, torn. `chain` is the recursion of `_ensure`, `entries`
the lockfile as read and to be written. Extraction and every download go to a
name of their own first, so only the rename is a step others can see.

| Action | Code |
|---|---|
| `Install`, `Ensure`, `Dependencies`, `WriteLock`, `Return` | `install`, `_ensure` |
| `Fetch`, `Unpack` | `fetch`, the extraction and its move onto the name |
| `Look`, `Match`, `FromCache`, `CacheModel` | `_install_models`, `cache_model` |
| `Check`, `Make`, `Rename`, `Unwritten` | `place_model`: is the model cached, the link or copy made under a name of its own, the rename onto the name beside the module; or a directory that cannot be written |
| `Request`, `ReadBlock`, `ReadEnd`, `Transient`, `Refused` | `_stream` and the digest; a disk that fails at any of it |
| `Keep`, `KeepBeside` | `keep_model`, and the road without a cache |
| `Crash`, `RunAgain`, `Clear` | the process killed anywhere, run again, and the user clearing the cache |

### `Startup` and `Placement`

Both are functions of a plan; the steps are the code's own passes. `Startup`
arranges (`_walk`, `arrange`) and then checks (`stalled`, `check`), which are two
formulations of one rule in the code: the walk goes forward, the check looks for
milestones that wait on each other. `Placement` places by a strategy (`place`)
or poses and searches (`_problem`, `cost_place`), and puts the result through
`check_placement`. A process weighs one and each pipe between two nodes costs one.

## Runs

| Run | Instance | What it shows |
|---|---|---|
| `lane` | 3 workers, 3 instances, cap 3, 5 ticks, an input clock; one lane opens every instance first, one lazily | the order, the lone last call, every row handed, one hand per instance, nothing stranded, nothing after a claim, and `SerialLane` implemented, liveness included |
| `lane_turns` | one tick at a time, cap 2, turns of 5, 9 ticks | the cap, and the last call leaves, through turns of several caps |
| `network` | *join*: an input, a self-clocked lane, a lane joining both two turns at a time, an output of the first two and one of the third, cap 1; *enc*: an input, a self-clocked lane, an unbuffered lane, 2 outputs, cap 2, where a call, the input and an output may fail and a reader may leave; 2 workers | no lost wake-up, outputs whole and bounded, an unbuffered lane one item ahead at most, each lane serial among the others, no failure hidden, and the run returns |
| `nut_live` | a live data stream and a picture stream, every pair of scripts of at most 2 entries before the end, times 0 to 2, heartbeats every 2 | the one order, nothing held back, heartbeats, late messages, an end that loses nothing |
| `group` | six plans: a chain of three, two stages of two, a fan of two readers, a feeder with a stop, two feeders of a live stage with a deadline, a display; and a lateral of three messages | clean means clean, what a stage leaves running, a chain's blame, every stage ends; each message told once, instances apart, threads that end |
| `nodes` | two members on two nodes with a stop; a second stage and a runner that may die; two stages on a node too slow for the coordinator; a feeder with a timeout and without | clean means clean across nodes, stages apart, whole reports, and the run ends |
| `installs` | 2 installers run twice each, packages that share a dependency and a model, or depend on each other; hard links, symlinks or neither; a cache cleared between any two steps, or between installs, or one that cannot be written; one project or two | nothing torn, what is pinned is whole but for a symlink a clear left dangling, an install ends |
| `algorithms` | turns of 7 with cap 3; every plan of up to 4 processes and 4 pipes; four processes under every strategy, every set of pipes along three ranks | the closed forms, the order that starts, the refusal with cause, placements that pass and keep their caps |

Four runs find the code doing other than its documents say.

| Run | Property | What happens |
|---|---|---|
| `lane_rows` | `HandedEveryRow` | a one-at-a-time node that finishes in the middle of a turn is never told of the rows of the ticks the turn took after it |
| `network_lastcall` | `LastCallHappens` | the run ends when every output is written whole, though a lane without an output has its last call to make |
| `nodes_timeout` | `TimeoutFails` | a split stage whose deadline passes while its first unfinished member was never started is reported with code 0 |
| `installs_cleared` | `InstallPutsBack` | a symlinked model is gone after the cache is cleared and the package installed again |

`network` checks two networks, which `net` tells apart. `group` holds two systems,
told apart by a variable that never changes (`whole`), and one of its properties
speaks of one of them.
`TypeOK` of `Stage` and `Lateral` says what their variables hold and is listed by
no run; that of `Lane` is checked and proved, those of `NutOutput` and `Network`
proved.

### Bounds, and why they are enough

- `MaxTick` is more than the cap and more than the width, so ticks are
  withheld, workers overtake each other by a whole width, and a claim leaves
  ticks behind it queued, done and out at once. In `lane_turns` one turn can
  take more than two caps and there are ticks left.
- `Width = 3` is the smallest at which a result waits while two others come
  back in either order, and at which the finisher can be neither the newest nor
  the oldest idle instance.
- `TurnMax` stands for `TURN` (1024): above the cap, so that a turn cuts again,
  and not a multiple of it; 1 for the lanes that take one tick a turn.
- `Cap`, and `cap` of a `net`, stand for twice the workers plus two. The smaller it is the sooner
  every thread waits; at 1 a dispatch always leaves its lane empty.
- `gives` and `makes` of a `net` bound `Network`'s inputs and generators; no
  stream outlives them and none of them guards a step the code would take. The
  proofs have no bound but that they are finite.
- `nut_live`'s scripts have every tie and inversion of two entries a stream,
  a mark left out for the next, and a message behind a mark; `Every` is 2 so
  that a mark can be too early for a heartbeat and one past it in time.
- `Cascade = 2` polls, so that an end falls before, within and after the time
  `_CASCADE` gives it. Three members are the smallest stage in which a failure
  has both a producer and a consumer; a second stage shows what the first leaves;
  two feeders show a deadline that passes between one and the next.
- A lateral of three messages has two that overlap and one after them, which the
  stop can find read, waiting, running and left.
- Two nodes are enough for the messages of one to overtake those of another; a
  second stage on one of them makes a late `stage-end` meet a new stage.
- A model of 2 blocks can be cut in between; `Retries = 1` is used up; `Runs = 2`
  lets an install begin over what a crash left; one clear can fall between any two
  steps of either. The proof has no such bounds.
- Four processes and four pipes hold the diamond and the two crossed pairs, on
  which the walk has to come back from a choice and the check finds its circle.

### Fairness

A worker of `Lane` that can step does: the scheduler's lock is never held
across a call, and a node's call returns. `Network` asks the same of every
thread: reads go on giving, a writer's reader reads on or goes away, `finish`
runs. Each thread is weakly fair as a whole, never an action of it: which of
its alternatives a thread takes (a failure, a claim) is never forced. `Fairness` is
`WF_vars` of each thread with its `ENABLED` written out (`WorkerGoes`,
`FeederGoes`, `WriterGoes`), which spares TLC trying every step of every thread
in every state; the two were compared in every reachable state of both networks. Nothing
is asked of arrivals in `Lane`. In `NutOutput` a lane goes on to its end, which
`Returns` of the network is about, and the writer goes on while it has
something to do; a write that fails is never forced.

The Python side is fair in the same way: the thread that runs a stage, each
thread of a lateral, the coordinator, each thread of a runner and each installer
go on, as none of them waits without a limit. Members are not fair: a live input
never ends by itself. A deadline that is set comes: in `Stage` it is strongly
fair, since every poll of the watch looks at the clock, and between two polls it
does not. No crash, death, stop or refusal is ever forced.

## Proofs

`LaneProofs` proves, for every clock, width, cap, turn length, number of ticks
and finite set of workers, that `LaneInvariant` is inductive, and from it:

| Theorem | Property |
|---|---|
| `LaneSafe` | `LaneInvariant` |
| `TypesKept` | `TypeOK` |
| `LeavesInOrder` | `InOrder` |
| `LastCallIsAlone` | `LastCallAlone` |
| `InstancesInOneHand` | `OneHandEach` |
| `CapHolds` | `QueueWithinCap` |
| `NothingIsStranded` | `NothingStranded` |
| `RowsAllHanded` | `HandedEveryRow`, for a width over 1 |
| `LaneIsSerial` | `ImplementsSerialLane`, for a clock that is not the node's own |
| `ClaimsClose` | `ClaimClosesTheLane` |

The assumptions are those the modules name: `QueueAssumption` and
`LaneAssumption`, which say that widths, caps and turns are positive, that the
workers are finitely many, that a self-clocked node and a host node run one
tick at a time, and that `None` is neither a number nor a turn.

Why an invariant stronger than the properties is needed: that what leaves is in
order says nothing of the turns still out. The argument is a partition. The
ordinals from `nextFlush` up to the front of the queue are each either a result
waiting in `done` or in exactly one turn (`DoneInv`, `TurnInv`); so a result
flushed is the next ordinal, and one that comes back later is ahead of it or,
after a claim, below `nextFlush` and dropped. Once no turn is out there is
nothing between `nextFlush` and the front, so the last call finds `done` empty
(`LastCallAlone`). That a claim leaves at most one last call is `OutInv`, that
the queue is never past the cap and never hides a settled tick is `QueueInv`,
and that an instance out on a turn was told through the turn's tick and knows
what it was told when it is back is `RowInv`. `RowInv` is claimed for a width
over 1 only: with several ticks a turn it is false, which `lane_rows` shows.

`LaneIsSerial` is the refinement, step by step: an arrival or an end maps to the
abstract one, every other action to a stutter but `Complete`, whose flush maps to
what a serial lane does at once: the abstract log grows by the ordinals from
`nextFlush`, as the invariant says they are, and a claim or a failure is the
abstract one. A self-clocked lane is left out because the theorem is false of it:
its last call may carry its last arrival. `ClaimsClose` adds one fact to the
invariant, that no two results wait for the same tick (`WaitsOnce`), so that what
stands behind a claim in `done` is past it.

The operators of the queue have lemmas of their own (`CutKeeps`, `TakenKeeps`,
`RecutKeeps`, `PickedKeeps`), the steps one each (`GrowKeeps`,
`DispatchKeeps`, `RunKeeps`, `ClaimKeeps`, `FailedKeeps`), and `NextKeeps` puts
them together.

`NutProofs` proves of `NutOutput`, for every number of streams and every set of
scripts:

| Theorem | Property | Invariant |
|---|---|---|
| `NutTypesKept` | `TypeOK` | `NutInvariant` |
| `StreamsNeverStepBack` | `NeverStepsBack` | `NutInvariant` |
| `WrittenInOrder`, under `MarksLead` | `InTimeOrder` | `OrderInvariant`, with it |
| `WaitsForNothing`, under `MarksLead` | `KeptUp` | `BeatInvariant`, with both |

`NutAssumption` says that a script is a sequence of entries with natural times
whose end is its last. `MarksLead` says that a mark is never behind what its
stream carried. The code has it where it makes a mark (`node.rs`, `progress`:
"never below the last message's pts", and `State::flush`, which marks only past
the last); a module that says its own progress has to keep it too, and an output
fed marks behind its messages has no order to promise. The scripts of `nut_live`
satisfy it, which the run checks (`ScriptsMarkLead`); their messages may still be
late.

`NeverStepsBack` relates two packets and says nothing of the next; what makes it
inductive is that each packet of a data stream is no later than `last`
(`LastIsNewest`).

`InTimeOrder` compares what is written with the scripts, and the writer knows
nothing of scripts: it has a queue, what it holds and one settled time a stream.
The invariant connects the two. Of each stream, what was handed on is gone, held
or queued, or a mark that a later mark stands for (`InTurn`, `LeftOut`,
`EndsLast`); `settled` is the time of something taken and no less than that of
anything taken (`SettledIsTaken`, `SettledCovers`). What is gone of one stream
precedes everything left of another (`AheadOfTheRest`), and the items gone are
those written (`GoneIsWritten`). So an item before the one being written is
itself not left: it precedes what is first of its own stream, and `writable` would
have held the writer back (`Behind`). Which entry of a stream comes first is
found by induction over positions, that is by a least element (`WFMin`).
`KeptUp` is the other direction. Of what every lane is past, take the stream
whose front is least, by time and then by number: it is writable, so a writer
that waits has nothing such left, and what is gone is written. Heartbeats follow
from `CloseBehind`: behind each mark gone, the stream's last packet is less than
`Every`.

`TurnProofs` proves of `TurnLoop`, under an input clock with width 1 and for any
cap, `TurnMax` and number of settled ticks:

| Theorem | Property | Invariant |
|---|---|---|
| `LoopsComputeTheForms` | `LoopsAreTheForms` | `LoopInvariant` |

`Lane` and `Network` cut and dispatch by closed forms, and their proofs are about
those; this says that the forms are what the code's loops compute. The form
divides: a turn that outruns its queue is cut as many caps' worth further as it
takes. The invariant counts the cuts so far instead (`Taking(k)`, `Recutting(k)`):
after k of them the queue ends k caps further on, or where what is settled ends,
and the turn has passed the one before. `RoundsTo` is the arithmetic that makes
the two one. The other clocks have no such loop: their lanes hold nothing back, so
one turn never cuts again.

`NetworkProofs` proves of `Network`, for any networks, any number of workers,
inputs, lanes and outputs and any cap:

| Theorem | Property | Invariant |
|---|---|---|
| `NoWakeUpIsLost` | `WorkIsSeen` | `SeenInvariant` |
| `CleanReturnsHideNothing` | `FailureSurfaces` | `SeenInvariant /\ FailureInvariant` |
| `NetworkTypes` | `TypeOK` | `LanesInvariant`, with `SeenInvariant` |
| `EachLaneIsSerial` | `EachIsSerial` | `LanesInvariant`, with `SeenInvariant` |
| `OutputsWrittenWhole` | `WrittenWhole` | `WritersInvariant`, with both |
| `CreditHolds` | `CreditBounds` | `CreditInvariant`, with all three |

`NetworkAssumption` says that lanes, inputs and outputs have names of their own
and are finitely many, as the workers are; that a network is one: no lane reads
what it makes (`topological` of `node_graph.rs`), a generator reads nothing and
every other lane the stream its ticks are cut on, a self-clocked lane and an
unbuffered one have width 1; and that `None` is neither a number nor a turn.

*Wake-ups and failures.* Every step that could make a lane startable ends in
`Roused`, or is a writer's, which then is on its way to the call; the invariant
says which places those are. The step that takes an argument is the one without a
notification: a worker that finds nothing goes to sleep, and `pick` may have cut
lanes on the way. What it leaves must be startable for nobody. That is so because
a cut leaves alone what a cut left, and it is here that the queue of a
self-clocked lane has to hold nothing back (`SelfQueue`). The others may already
have returned, but only once the run has stopped (`StaysForWork`). A clean return
hides nothing because the workers are gone before the main thread looks at their
error (`JoinedClean`), and each writer's end is read after its thread.

*Each lane is serial.* `LanesInvariant` is the partition of `Lane` again, now of
every lane at once and for lanes that feed each other. `QueueOK` says that what is
numbered was settled and what is held back is one tick; `TurnsOK` and `DoneOK`
that the ordinals from `nextFlush` to the front of the queue are each in one turn
or one result; `OutOK` that what has left is counted by `carried`, and that the
last call is alone. A step is taken apart by what it does to the lanes, the
outputs and the places of the threads (`LanesNext`, `WritersNext`,
`StandingNext`), and each lane either advances, at most by what its inputs have
settled, or the run has failed and nothing leaves (`Advances`, `Stops`). What is
new beside `Lane` is that an end must be the last of its stream: a lane has a
stream for closed only when whoever makes it has gone (`ClosedSilent`), so
what is settled only grows, except where the lane is over. The lemmas on the least
count of the open inputs (`Least`, `SettledGrows`) carry that. `EachIsSerial` is
then the refinement, with `Log(l)` the ordinals from 0 that `carried` counts and,
behind them, the end.

*Outputs whole.* `WrittenWhole` speaks of an output that is done and of counts
that no step of its writer looks at. What is inductive is a sum: of each stream
of an output that takes things, what was written and what is queued or in hand are
together what the stream carried (`OpenOK`). A writer that reaches its end has
met every stream's end, and behind a stream's end nothing of it waits, because
nothing more of it comes (`Silent`). The queue is a sequence, so the sum counts
the places of an item in it; that taking the front takes one place and pushing n
items adds n (`AtTail`, `AtPushed`) is proved by bijections of finite sets, with
no induction.

*What waits.* `CreditBounds` bounds the queue after items came, but room is asked
for when a turn is started, and the turns of other lanes come in between.
`CreditInvariant` counts what may still come: with a turn out on each of the
lanes it reads that has one, an output's queue and `TurnMax` for each of those
lanes are within the bound. A turn that starts found the queue below the cap; one
that ends brings at most what it was counted for. Of an unbuffered lane the same is
said of one item: while its turn is out its readers have nothing of it. That
needs `taken` to be true of whatever a writer holds (`WriterOK`), since that flag
is what `drained` looks at.

`InstallsProofs` proves of `Installs`, for any installers, releases, projects,
dependencies (circular ones included), numbers of blocks, retries and runs:

| Theorem | Property | Invariant |
|---|---|---|
| `NothingTorn` | `NeverTorn` | `TornInv` |
| `WhatIsPinnedIsWhole` | `PinnedIsWhole` | `TornInv /\ PinnedInv` |

`NeverTorn` looks only at what has a name, and says nothing of the temporary
file that gets one next. What is kept is whole because the file holds exactly
the blocks that were hashed (`HashesItsFile`), through every retry and every
answer that starts over, and the hash is compared before the rename; and a name,
once given, is only replaced by another whole file (`Shape`, `Beside`,
`MadeWhole`).

`PinnedIsWhole` looks at lockfiles. A lockfile is written from `entries`, so the
entries an installer holds must be such as may be written (`Closed`): all in
place, their dependencies pinned too. An entry is added when the walk comes back
to its release, which by then is in place (`AtDeps`, and `Below` for those the
walk went below), and each of whose dependencies is pinned, still to come, or
the next in the chain (`Known`). With nothing left to come and nothing below,
they are pinned. That several installers and crashes change nothing of this is
that what is in place stays in place, whoever writes (`InPlaceStays`).

A clear is what can undo it, and the property says how far. The models that are
files of their own stay; a symlink into the cache dangles (`Dangles`). Where no
hard link can be made every model is one. Where hard links can be made, the code
still makes a symlink if the cache is cleared between `place_model`'s look at the
cached file and its `os.link`, which then fails; the symlink is made to nothing
and pinned. The invariant says that this is the only way: a link is made to a
file that was there, and is unless it was cleared since (`AtHand`), so symlinks
are only where `Symlinks` says. `MayDangle` is then no weaker than the code: it
allows a missing model only after a clear, and where hard links can be made only
if the clear came while somebody installed (`busy`). That an install does not put
a dangling link right is what `installs_cleared` shows.
`InstallsAssumption` says what a world is.

`StageProofs` proves of `Stage`, for any plans:

| Theorem | Property | Invariant |
|---|---|---|
| `StageLeavesNothing` | `NothingLeftRunning` | `StageInvariant` |
| `StageReportsClean` | `CleanMeansClean` | `StageInvariant` |
| `StageBlamesACause` | `ChainBlame` | `ChainInvariant`, with it |

A clean report is read off `results`, and says nothing of what the watch saw, so
`StageInvariant` carries that to the end. What was stamped had ended by itself
and stays so (`SeenEnded`). While the watch has named nobody, every end it
stamped but a writer's was a 0; whoever it names has failed, or ended with 0
before a producer of its own did, or another has failed (`Verdict`). `Struck`
says which of these a stage was struck for. The report then either finds the
member named among its own candidates, or nothing failed at all: a named member
that is no candidate ended with 0 while nothing failed, and then nothing stopped
the rest either. `Judge` is the step that takes the work (`Suspected`, `Found`):
a suspicion left open for `Cascade` polls hides no failure of the same poll but
a writer's.

What a stage leaves running is in `Stopping`: while members are told, whoever
runs is still to be told or was; while they are waited for, whoever runs is in
`ending` and was told. So after `AllReaped` nobody runs, whatever struck the stage
and whatever a spawn raised. A Ctrl-C inside `run.end()` itself leaves some: before
all were told whoever still ran, and after that such as were told and have not
ended, a member that ignores `SIGTERM` for one (`Left`). `NothingLeftRunning` says
this much, and no more is true.

`ChainBlame` is about one poll: the watch looks at members one after another,
and stamps with one number ends that came in any order. Where every pipe is
chained, producers were started before their consumers and are looked at first
(`InOrder`); a member that broke did so because a consumer had ended, which the
same poll therefore still comes to (`BrokenByReader`). If the earliest to end
were broken, so would every end of that poll be, and the last of them in the
order of starting would have a consumer still further on.

`StageAssumption` says that pipes and feeders are between a stage's own
processes and that the pipes make no cycle, which `processes.py:34-37` argues
for; without it `_spawn_order` has no order to give, and `InOrder` is false.

`LateralProofs` proves `MessagesToldOnce` (`ToldOnce`) and `InstancesApart`
(`OneTimeline`) of `Lateral`, for every sequence of messages a writer may send
(`ASequence`) and whether or not an instance may raise. The invariant,
`LateralInvariant`, says that each message is in one hand: it waits, runs, was
told, or is among those `stop()` took (`OneHand`), and what waits came after what
runs, in order (`Queued`). `overlaps` is mutual, so a message that overlaps
nothing ahead of it overlaps nothing that later comes to be ahead with it
(`Apart`).

`NodesProofs` proves of `Nodes`, for any plan that is one (`SplitAssumption`: a
stage's members are placed on the plan's nodes, no two stages share one, feeders
are between a stage's own) and any number of nodes:

| Theorem | Property |
|---|---|
| `StagesNeverShare` | `StagesApart` |
| `SplitReportsClean` | `CleanMeansClean` |
| `SplitReportsWhole` | `ReportIsWhole` |

Its invariant, `SplitInvariant`, is about what is on the way. The stages a runner
has been ordered, the one it is in and those still in its queue, rise and end at
the run's own (`Forward`), so a runner never takes a stage twice, and what runs
is of the stage its runner is in (`OfItsStage`). What a message says of a member
is so when it is heard, however late (`Truthful`), since a member that started
stays started and one that ended stays as it ended. A stage-end is said when the
runner's thread leaves the stage, so from then on nothing of that stage starts
there (`Finished`) and what it lists is all there was (`EndIsFinal`); `_collect`
adds it up node by node (`Collecting`), and what it leaves to the coordinator's
own memory is of lost nodes only. A stage no member of which is named was heard
to have ended with 0 throughout, or was cut short by something that stays known
(`Reasoned`, `Verdict`), and a later stage begins only after a result of 0
(`Progress`). A stage that timed out may carry code 0 (`nodes_timeout`), so
`CleanMeansClean` is about runs none of whose stages did.

Only model-checked:

- liveness: `Closes`, `LaneCloses`, `Returns`, `StageEnds`, `LateralTold`,
  `LateralThreadsEnd`, `RunEnds`, `InstallEnds`, which rest on fairness and
  `ENABLED`, outside what `tlapm` proves;
- of `algorithms`, all but `LoopsAreTheForms`: what the recursive walk of
  `Startup` and the searches of `Placement` compute, over every input of a size;
  for every input it would take an induction over data, which the provers
  installed cannot do.

## What the models leave out

In the sidecar:

- Data: frames, rows and packets are not told apart beyond their tick; ports
  are a lane's one stream; a tick of `Network` hands on one item.
- `Network` has aligned inputs (tick n has item n of every open input); the
  pairing by timestamp in `tick.rs` is not modelled.
- Port feeds (`source`, `wait_room`, `held_full`), mirrors, the room exception
  for an audio backlog, and the timed waits of `next_turn`.
- A panic in a node's call, and a failure of the cut itself.
- An input that fails to read after `finish` took the run's error: the code keeps
  the failure (`lanes.rs:1600-1607`) and nobody looks at it, so `FailureSurfaces`
  says nothing of it.
- A self-clocked node with no input. A self-clocked lane's last call carries
  its last arrival, so it does not refine `SerialLane`, in which every arrival
  leaves before the last call; its safety is proved with the others.
- `EndedFeeds` of `tick.rs`, which follows `EarlierRows` step for step.
- `pick` makes room by cutting a self-clocked lane and notifies nobody; a
  reader then sleeps on until the lane's dispatch.

On the Python side:

- `Stage`: the bytes relayed between members (whether a pipe stands still is a
  choice), a run of one process, rows and logs. `Nodes`: the pipes between
  members, for which a failure may be heard at any poll; counters, rows, work,
  live and compile messages, windows. `Lateral`: what a chunk's bytes parse to,
  what an instance does, a second port; `group` runs it with instances that do
  not raise.
- `Installs`: the registry's own answers, publishing, links to a working
  directory, `install_project`, the runtime's install, which fetches fixed files
  in the way a model is fetched.
- `Placement`: how loads and bandwidths are estimated (each process weighs one,
  each pipe costs one), the balance term of the cost (250 by default), the balance
  strategy, the fallback of the exhaustive search to the refining one for plans
  past `_EXHAUSTIVE_LIMIT`, live readers, placements given by hand.
- `Startup`: `_walk`'s budget of states (`_STATES`, 20,000), past which it gives up
  and a plan that could start may be refused, and the memo of states it has seen,
  which spares it work and changes no answer; so `RefusedForCause` is about plans
  the budget is enough for. The wording of a refusal.

### Not modelled

The modelled Python is about 3,000 lines of the 89,000 of `cli/ffrwd`: the parts
that run concurrently, may fail half-way, or search. The rest is mostly the
dialect's compiler (`parser.py`, `lower.py`, `processes.py`, `functions.py`,
`wasm.py`) and the command line (`cli.py`, `project.py`): sequential code whose
input is a program of the dialect and whose correctness is in its tables, typing
rules and texts. A model of it would be the code again in another language, no
small set of values stands for its input, and its golden tests reach what a
model checker would. So a larger share of the lines is not covered here. In the
sidecar the codecs, the WebAssembly and GPU runtimes and the row formats are
left out for the same reason; the tick assembler's pairing, held inputs, leaky
nodes and the relays have state and order worth modelling, and are the first to
add. Each part, with its reason, is in `PROJECT.json`.

## Seen while modelling

Differences between the code and what is written about it, or behaviour a
maintainer may want to know of, that no run lists:

- The last call's ordinal depends on how far a lane was cut ahead of a claim
  (`lanes.rs:1225`), so it depends on the schedule.
- A short run may be over before the writers are told how to ask, and its last
  output is then closed early (`node_graph.rs:336`).
- "an output is the same bytes at every -jobs" (`sidecar/NODE-CLI.md:250`) does not
  hold of the heartbeats of a live data output: how many there are depends on
  how many ticks one flush joins.
- `_watch` has one suspect at a time, and at a deadline that finds every member
  ended since the last look `next()` has nothing to return and raises.
- A lateral's message that joins the queue after a stop emptied it is told of by
  nobody, hence the condition of `LateralTold`.
- `_collect` (`nodes.py:1256`) is documented to give a lost runner's members as
  the watch last saw them; one that was heard to end with 0 but whose runner was
  lost before it could report is given as lost (`nodes.py:1281-1292`).
- A cost strategy's node 0 is said to be the node of the plan's first process
  (`placement_cost.py:624`); the nodes are numbered in stream order, in which
  another may come first.
- `run.end()` is to "Stop everything still running" (`execute.py:2604`), and of a
  Ctrl-C `execute.py:950-951` says "every member stopped the way `_stop` always stops
  one". One that comes while `run.end()` is at it leaves `_stop` by an exception that
  `_run_stage` does not catch there (`execute.py:2424-2425`, `3336-3343`): members
  that ignored `SIGTERM` are then left, and those not told yet. `cut` marks these
  ends, and `NothingLeftRunning` says what is left.
- `place_model` "Returns ... None when there is nothing cached" and a hard link
  "survives the cache being cleared" (`store.py:917-918`), but it looks at the cached
  file (`store.py:927`) before it links it (`954`): with the cache cleared in
  between, the hard link fails, the symlink that is tried next (`958-961`) is made
  to nothing, and the release is pinned with no model, hard links or not.
- Two installs in one project at once each write the lockfile they read, so one
  may forget what the other added (`packages.py:1764`). Each lockfile written is
  whole all the same.

## Checking

`tlc -config <cfg> <module>` for each run of `PROJECT.json`, two workers; every
passing run takes a few minutes at most. `tlapm` on `LaneProofs`, `NutProofs`,
`NetworkProofs`, `TurnProofs`, `InstallsProofs`, `StageProofs`, `LateralProofs`
and `NodesProofs`; the longest, `NetworkProofs`, takes some six minutes.
