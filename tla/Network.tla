------------------------------ MODULE Network ------------------------------
(***************************************************************************)
(* The threads of one run of the sidecar's node network: lanes of module   *)
(* LaneQueue wired by streams, a reader thread per input, the scheduler's  *)
(* workers, a writer thread per output, and the main thread that waits for *)
(* the end (src/sidecar/ffrwd-wasm/src/lanes.rs, edges.rs, node_graph.rs). *)
(*                                                                         *)
(* A step is one critical section of the scheduler's mutex or of an        *)
(* output's own, and the call that follows it without a lock; notifying    *)
(* both condition variables as the lock is dropped is part of the step,    *)
(* the writers' call back into the scheduler is a step of its own.         *)
(*                                                                         *)
(* A lane's port is a stream with the lane's name.  Items are counted, not *)
(* told apart: every tick but the last hands one on, the last only ends    *)
(* the stream.  Which instance runs a turn is module Lane's.               *)
(***************************************************************************)
EXTENDS Integers, Sequences, FiniteSets, FiniteSetsExt

CONSTANTS
  Lane, Input, Writer, Worker,
  TurnMax, None,
  Nets         \* the networks a run may be of, records with the fields
               \*   reads       per lane and output, the streams it reads
               \*   stream      per lane, the stream its ticks are cut on
               \*   width       per lane, Lane.width
               \*   clock       per lane, its ClockKind
               \*   unbuffered  the lanes dispatched only once their readers
               \*               took all
               \*   cap         State.cap
               \*   gives       bound: per input, how many items it holds
               \*   makes       bound: per generator, how many ticks it makes
               \*   mayFinish   the lanes whose node may say it is finished
               \*   mayFail     the lanes whose calls may fail
               \*   mayTear     the inputs that may fail to read
               \*   mayLeave    the outputs whose reader may go away
               \*   mayBreak    the outputs that may fail to open or to write

Stream == Lane \cup Input

\* No two parts of a network have one name, no lane reads what it makes
\* (node_graph.rs, topological), and a leaky node has the one instance.
ASSUME NetworkAssumption ==
  /\ TurnMax \in Nat \ {0}
  /\ None \notin Int /\ None \notin [lane : Lane, lo : Nat, hi : Nat]
  /\ Worker # {} /\ IsFiniteSet(Worker) /\ IsFiniteSet(Stream) /\ IsFiniteSet(Writer)
  /\ Lane \cap Input = {} /\ Lane \cap Writer = {}
  /\ \A n \in Nets :
       /\ n.reads \in [Lane \cup Writer -> SUBSET Stream]
       /\ n.clock \in [Lane -> {"input", "rate", "source", "self"}]
       /\ \A l \in Lane :
            /\ IF n.clock[l] = "source" THEN n.reads[l] = {} ELSE n.stream[l] \in n.reads[l]
            /\ l \notin n.reads[l]
       /\ n.width \in [Lane -> Nat \ {0}]
       /\ \A l \in Lane : n.clock[l] = "self" => n.width[l] = 1
       /\ n.cap \in Nat \ {0}
       /\ n.unbuffered \subseteq {l \in Lane : n.width[l] = 1}
       /\ n.gives \in [Input -> Nat] /\ n.makes \in [Lane -> Nat]

VARIABLES
  net,       \* the network of this run, which never changes
  lane,      \* per lane [got, closed, queue, done, nextFlush, stopped, claimed, ended]
  turn,      \* per worker, [lane, lo, hi] of the turn it runs
  worker,    \* per worker: "awake", "asleep", "run", "gone"
  feeder,    \* per input, its reader thread: "awake", "asleep", "gone"
  fed,       \* per input, how many items have been read off it
  writer,    \* per output [pc, items, taken, hand, ends, wrote, fate, result]
  writing,   \* Ending.writing: how many writers have not finished
  parked,    \* the outputs left open for the process's exit
  main,      \* "start", "awake", "asleep", "join", "drain", "ok", "failed"
  error,     \* State.error is set
  finished,  \* State.finished
  carried    \* history: per stream, how many items have been handed on

sched == <<lane, turn, worker, feeder, fed, error, finished, carried>>
vars  == <<net, sched, writer, writing, parked, main>>

Reads       == net.reads
LaneWidth   == net.width
LaneClock   == net.clock
Unbuffered  == net.unbuffered
Cap         == net.cap

Q(l) == INSTANCE LaneQueue WITH
          Width   <- LaneWidth[l],
          Clock   <- LaneClock[l],
          TurnMax <- IF l \in Unbuffered THEN 1 ELSE TurnMax

-----------------------------------------------------------------------------
(* A lane's intake and its cut.                                            *)

\* How many ticks what has arrived settles: a generator's are all there; a
\* self-clocked node is cut a tick for each arrival of its busiest input;
\* else tick n has item n of the clock stream and of every input still open.
Settled(l, r) ==
  CASE LaneClock[l] = "source" -> net.makes[l]
    [] LaneClock[l] = "self"   -> Max({r.got[s] : s \in Reads[l]})
    [] OTHER -> Min({r.got[s] : s \in {net.stream[l]} \cup (Reads[l] \ r.closed)})

Over(l, r) == Reads[l] # {} /\ r.closed = Reads[l]

Busy(l) == {w \in Worker : turn[w] # None /\ turn[w].lane = l}

\* State::cut on the lane as it stands in r.
Cut(l, r) ==
  IF r.stopped THEN r
  ELSE [r EXCEPT !.queue = Q(l)!Cut(@, Settled(l, r), Over(l, r), Busy(l) = {})]

\* Receive, with nothing cut as a stream ends.
ReceiveEndUncut(l, r, s, n, end) ==
  IF r.stopped \/ s \notin Reads[l] THEN r
  ELSE LET more == IF n = 0 THEN r ELSE Cut(l, [r EXCEPT !.got[s] = @ + n])
       IN IF end THEN [more EXCEPT !.closed = @ \cup {s}] ELSE more

\* Reader l, in state r, takes n items of stream s and its end if one comes;
\* a lane that stopped takes nothing.
Receive(l, r, s, n, end) ==
  IF r.stopped \/ s \notin Reads[l] THEN r
  ELSE LET more == IF n = 0 THEN r ELSE Cut(l, [r EXCEPT !.got[s] = @ + n])
       IN IF end THEN Cut(l, [more EXCEPT !.closed = @ \cup {s}]) ELSE more

\* Queue::push of n items of a stream, and its end: an output that takes
\* nothing more drops them, and a writer waiting for something is woken.
Push(w, s, n, end) ==
  IF s \notin Reads[w] \/ writer[w].fate # "open" THEN writer[w]
  ELSE [writer[w] EXCEPT
          !.items = @ \o [k \in 1 .. n |-> <<s, "item">>]
                      \o (IF end THEN << <<s, "end">> >> ELSE <<>>),
          !.pc    = IF @ = "wait" THEN "pop" ELSE @]

\* Everything reading stream s is handed n items of it and its end, the
\* lanes standing as they do in from.
HandOn(from, s, n, end) ==
  /\ lane' = [l \in Lane |-> Receive(l, from[l], s, n, end)]
  /\ writer' = [w \in Writer |-> Push(w, s, n, end)]
  /\ carried' = [carried EXCEPT ![s] = @ + n]

-----------------------------------------------------------------------------
(* Credit and the condition variables.                                     *)

Running == ~error /\ ~finished

Depth(r) == r.queue.next - r.queue.head

\* State::room: everything reading s takes more of it.
Room(s, lanes) ==
  /\ \A l \in Lane : s \in Reads[l] =>
       \/ lanes[l].stopped
       \/ /\ Depth(lanes[l]) < Cap /\ ~lanes[l].queue.withheld
          /\ LaneClock[l] = "self" => lanes[l].got[s] - lanes[l].queue.next < Cap
  /\ \A w \in Writer : s \in Reads[w] => Len(writer[w].items) < Cap

\* State::drained: everything reading s has taken all it was handed.
Drained(s, lanes) ==
  /\ \A l \in Lane : s \in Reads[l] => lanes[l].stopped \/ Depth(lanes[l]) = 0
  /\ \A w \in Writer : s \in Reads[w] =>
       writer[w].fate # "open" \/ (writer[w].items = <<>> /\ ~writer[w].taken)

\* Credit, an unbuffered lane given a buffer.
CreditByRoom(l, lanes) == Room(l, lanes)

\* What a lane's next turn waits for: room, or every reader caught up.
Credit(l, lanes) == IF l \in Unbuffered THEN Drained(l, lanes) ELSE Room(l, lanes)

\* State::dispatchable.
Dispatchable(l, lanes) ==
  LET q == lanes[l].queue
  IN /\ q.head < q.next
     /\ Cardinality(Busy(l)) < LaneWidth[l]
     /\ q.head = q.last => Busy(l) = {}
     /\ Credit(l, lanes)

\* The lanes as State::pick leaves them.
Picked ==
  [l \in Lane |-> IF LaneClock[l] \in {"rate", "source", "self"}
                       \/ (lane[l].queue.withheld /\ Depth(lane[l]) < Cap)
                    THEN Cut(l, lane[l]) ELSE lane[l]]

\* A lane holding a tick back goes first, then the longest queue.
Before(l, k, lanes) ==
  IF lanes[l].queue.withheld = lanes[k].queue.withheld
    THEN Depth(lanes[l]) > Depth(lanes[k])
    ELSE lanes[l].queue.withheld

Preferred(lanes) ==
  LET ready == {l \in Lane : Dispatchable(l, lanes)}
  IN {l \in ready : ~ \E k \in ready : Before(k, l, lanes)}

Roused(who) == [t \in DOMAIN who |-> IF who[t] = "asleep" THEN "awake" ELSE who[t]]

\* Shared::notify by a thread now in the states given: every worker, reader
\* and the main thread that waits looks again.
Notify(workers, feeders, mains) ==
  /\ worker' = Roused(workers)
  /\ feeder' = Roused(feeders)
  /\ main' = IF mains = "asleep" THEN "awake" ELSE mains

\* Every output has stopped taking anything.
Unread == Writer # {} /\ \A w \in Writer : writer[w].fate # "open"

-----------------------------------------------------------------------------

Init ==
  LET fresh(l) == [got       |-> [s \in Reads[l] |-> 0],
                   closed    |-> {},
                   queue     |-> [head |-> 0, next |-> 0, withheld |-> FALSE, last |-> None],
                   done      |-> {},
                   nextFlush |-> 0,
                   stopped   |-> FALSE,
                   claimed   |-> FALSE,
                   ended     |-> FALSE]
  IN /\ net \in Nets
     /\ turn = [w \in Worker |-> None]
     /\ lane = [l \in Lane |-> IF LaneClock[l] = "source" THEN Cut(l, fresh(l))
                                                          ELSE fresh(l)]
     /\ worker = [w \in Worker |-> "awake"]
     /\ feeder = [i \in Input |-> "awake"]
     /\ fed = [i \in Input |-> 0]
     /\ writer = [w \in Writer |->
                    [pc |-> "next", items |-> <<>>, taken |-> FALSE, hand |-> None,
                     ends |-> {}, wrote |-> [s \in Reads[w] |-> 0],
                     fate |-> "open", result |-> "done"]]
     /\ writing = Cardinality(Writer)
     /\ parked = {}
     /\ main = "start"
     /\ error = FALSE
     /\ finished = FALSE
     /\ carried = [s \in Stream |-> 0]

-----------------------------------------------------------------------------
(* Worker threads.                                                         *)

\* The run has stopped: the thread returns.
WorkerStops(w) ==
  /\ worker[w] = "awake" /\ ~Running
  /\ worker' = [worker EXCEPT ![w] = "gone"]
  /\ UNCHANGED <<lane, turn, feeder, fed, error, finished, carried, writer,
                 writing, parked, main>>

\* Nothing to start: the worker sleeps on `work`; what pick cut stays cut and
\* nobody is told.
WorkerSleeps(w) ==
  /\ worker[w] = "awake" /\ Running
  /\ worker' = [worker EXCEPT ![w] = "asleep"]
  /\ Preferred(Picked) = {}
  /\ lane' = Picked
  /\ UNCHANGED <<turn, feeder, fed, error, finished, carried, writer, writing,
                 parked, main>>

\* The worker takes a turn of lane l's front.
Dispatch(w, l) ==
  /\ worker[w] = "awake" /\ Running
  /\ Notify([worker EXCEPT ![w] = "run"], feeder, main)
  /\ l \in Preferred(Picked)
  /\ LET r == Picked[l]
         n == Q(l)!Length(r.queue, Settled(l, r), Over(l, r))
     IN /\ turn' = [turn EXCEPT ![w] =
                      [lane |-> l, lo |-> r.queue.head, hi |-> r.queue.head + n - 1]]
        /\ lane' = [Picked EXCEPT ![l].queue =
                      Q(l)!Taken(@, n, Settled(l, r), Over(l, r))]
  /\ UNCHANGED <<fed, error, finished, carried, writer, writing, parked>>

\* Lane r once the results below past have left, the last tick among them or
\* not.
Left(r, gone, past) ==
  LET last == \E d \in gone : d.tick = r.queue.last
  IN [r EXCEPT !.done = @ \ gone, !.nextFlush = past,
               !.stopped = @ \/ last, !.ended = @ \/ last]

\* Claimed, the results still out not passed over.
ClaimedKeepsRest(r) ==
  [r EXCEPT !.done = {}, !.nextFlush = @ + 1, !.stopped = TRUE, !.claimed = TRUE,
            !.queue = [head |-> r.queue.next, next |-> r.queue.next + 1,
                       withheld |-> FALSE, last |-> r.queue.next]]

\* Lane r once a claim has left: what was queued or done is dropped, and one
\* last call is queued.
Claimed(r) ==
  [r EXCEPT !.done = {}, !.nextFlush = r.queue.next, !.stopped = TRUE, !.claimed = TRUE,
            !.queue = [head |-> r.queue.next, next |-> r.queue.next + 1,
                       withheld |-> FALSE, last |-> r.queue.next]]

\* State::flush of lane l in state r: the unbroken run of results from
\* nextFlush leaves, through a claim if there is one, the items of each tick
\* to the lane's readers and the end of its stream with the last.
Flush(l, r) ==
  \E past \in r.nextFlush .. r.queue.next :
    LET gone   == {d \in r.done : d.tick < past}
        claims == {d \in gone : d.fin /\ d.tick # r.queue.last /\ ~r.stopped}
        last   == \E d \in gone : d.tick = r.queue.last
    IN /\ \A n \in r.nextFlush .. past - 1 : \E d \in gone : d.tick = n
       /\ \A d \in r.done : d.tick # past
       /\ IF claims = {}
            THEN HandOn([lane EXCEPT ![l] = Left(r, gone, past)], l,
                        past - r.nextFlush - (IF last THEN 1 ELSE 0), last)
            ELSE HandOn([lane EXCEPT ![l] = Claimed(r)], l,
                        Min({d.tick : d \in claims}) - r.nextFlush + 1, FALSE)

\* Worker w hands in its turn, run up to tick stop: "ok" through its last
\* tick, "finished" or "failed" on the tick it stopped at.  A failure stops
\* the run and nothing leaves with it; the run is over once every lane ended.
Complete(w, stop, verdict) ==
  /\ worker[w] = "run"
  /\ turn' = [turn EXCEPT ![w] = None]
  /\ LET t == turn[w]
         l == t.lane
         made(hi) == {[tick |-> n, fin |-> (n = hi /\ verdict = "finished")] :
                        n \in Max({t.lo, lane[l].nextFlush}) .. hi}
     IN /\ stop \in t.lo .. t.hi
        /\ verdict = "ok" => stop = t.hi
        /\ IF LaneClock[l] = "source"
             THEN (verdict = "finished") <=> (stop = net.makes[l] - 1)
             ELSE verdict = "finished" => l \in net.mayFinish
        /\ verdict = "failed" => l \in net.mayFail
        /\ \/ /\ verdict = "failed"
              /\ error' = TRUE
              /\ lane' = [lane EXCEPT ![l].done = @ \cup made(stop - 1)]
              /\ UNCHANGED <<writer, carried, finished>>
           \/ /\ verdict # "failed"
              /\ Flush(l, [lane[l] EXCEPT !.done = @ \cup made(stop)])
              /\ finished' = (finished \/ \A k \in Lane : lane'[k].ended)
              /\ UNCHANGED error
  /\ Notify([worker EXCEPT ![w] = "awake"], feeder, main)
  /\ UNCHANGED <<fed, writing, parked>>

Work(w) ==
  \/ WorkerStops(w)
  \/ WorkerSleeps(w)
  \/ \E l \in Lane : Dispatch(w, l)
  \/ /\ worker[w] = "run"
     /\ \E stop \in turn[w].lo .. turn[w].hi, verdict \in {"ok", "finished", "failed"} :
          Complete(w, stop, verdict)

-----------------------------------------------------------------------------
(* Reader threads: Scheduler::feed of each item, then of the end.          *)

FeedStops(i) ==
  /\ feeder[i] = "awake" /\ main # "start" /\ ~Running
  /\ feeder' = [feeder EXCEPT ![i] = "gone"]
  /\ UNCHANGED <<lane, turn, worker, fed, error, finished, carried, writer,
                 writing, parked, main>>

FeedSleeps(i) ==
  /\ feeder[i] = "awake" /\ main # "start" /\ Running
  /\ feeder' = [feeder EXCEPT ![i] = "asleep"]
  /\ ~Room(i, lane)
  /\ UNCHANGED <<lane, turn, worker, fed, error, finished, carried, writer,
                 writing, parked, main>>

Feeds(i) ==
  /\ feeder[i] = "awake" /\ main # "start" /\ Running
  /\ fed' = [fed EXCEPT ![i] = @ + 1]
  /\ Room(i, lane)
  /\ IF fed[i] < net.gives[i] THEN HandOn(lane, i, 1, FALSE) ELSE HandOn(lane, i, 0, TRUE)
  /\ Notify(worker,
            [feeder EXCEPT ![i] = IF fed[i] < net.gives[i] THEN "awake" ELSE "gone"], main)
  /\ UNCHANGED <<turn, error, finished, writing, parked>>

\* The input fails to read (Scheduler::fail): the run stops. Once finish has taken
\* the run's result the code keeps the failure and nobody looks at it again, so
\* it is left out then.
Tears(i) ==
  /\ feeder[i] = "awake" /\ main # "start" /\ i \in net.mayTear
  /\ error' = (error \/ main \in {"awake", "asleep", "join"})
  /\ Notify(worker, [feeder EXCEPT ![i] = "gone"], main)
  /\ UNCHANGED <<lane, turn, fed, finished, carried, writer, writing, parked>>

Feed(i) == FeedStops(i) \/ FeedSleeps(i) \/ Feeds(i) \/ Tears(i)

-----------------------------------------------------------------------------
(* Writer threads: each holds its queue's lock, the scheduler's or none,   *)
(* never both.                                                             *)

\* Writer w moves to the record r, and nothing else changes.
Moves(w, r) ==
  /\ writer' = [writer EXCEPT ![w] = r]
  /\ UNCHANGED <<sched, writing, parked, main>>

\* next(): what it took is written and nothing more is queued, which the
\* writer says before it waits.
Idles(w) ==
  /\ writer[w].pc = "next" /\ writer[w].taken /\ writer[w].items = <<>>
  /\ Moves(w, [writer[w] EXCEPT !.taken = FALSE, !.pc = "idle"])

\* next(): the front of the queue is taken, or the writer waits for one.
Pops(w) ==
  /\ \/ writer[w].pc = "pop"
     \/ writer[w].pc = "next" /\ ~(writer[w].taken /\ writer[w].items = <<>>)
  /\ IF writer[w].items = <<>>
       THEN Moves(w, [writer[w] EXCEPT !.pc = "wait"])
       ELSE Moves(w, [writer[w] EXCEPT !.hand = Head(writer[w].items), !.taken = TRUE,
                        !.pc = "took", !.items = Tail(@)])

\* Wakes, nobody told of the item taken.
WakesQuietly(w) ==
  /\ writer[w].pc \in {"idle", "took", "closed"}
  /\ writer' = [writer EXCEPT ![w].pc = CASE @ = "idle" -> "pop"
                                          [] @ = "took" -> "write"
                                          [] @ = "closed" -> "gone"]
  /\ finished' = (finished \/ Unread)
  /\ IF writer[w].pc = "took" THEN UNCHANGED <<worker, feeder, main>>
                              ELSE Notify(worker, feeder, main)
  /\ UNCHANGED <<lane, turn, fed, error, carried, writing, parked>>

\* The writer's call back into the scheduler (waker_of): room may have
\* opened, or every output may have stopped.
Wakes(w) ==
  /\ writer[w].pc \in {"idle", "took", "closed"}
  /\ writer' = [writer EXCEPT ![w].pc = CASE @ = "idle" -> "pop"
                                          [] @ = "took" -> "write"
                                          [] @ = "closed" -> "gone"]
  /\ finished' = (finished \/ Unread)
  /\ Notify(worker, feeder, main)
  /\ UNCHANGED <<lane, turn, fed, error, carried, writing, parked>>

\* Writes, the first stream to end taken for the last.
WritesToFirstEnd(w) ==
  /\ writer[w].pc = "write"
  /\ LET s == writer[w].hand[1] IN
       IF writer[w].hand[2] = "item"
       THEN Moves(w, [writer[w] EXCEPT !.pc = "next", !.wrote[s] = @ + 1])
       ELSE Moves(w, [writer[w] EXCEPT !.ends = @ \cup {s}, !.pc = "last"])

\* The output is not open yet: nothing was taken of its queue.
Unopened(w) == writer[w].pc = "next" /\ ~writer[w].taken

\* The item is written, or the end of the output's last stream reached, or
\* the reader went away, or the write failed, or the output would not open.
Writes(w) ==
  \/ \E s \in Reads[w] :
       /\ writer[w].pc = "write" /\ writer[w].hand = <<s, "item">>
       /\ Moves(w, [writer[w] EXCEPT !.pc = "next", !.wrote[s] = @ + 1])
  \/ \E s \in Reads[w] :
       /\ writer[w].pc = "write" /\ writer[w].hand = <<s, "end">>
       /\ Moves(w, [writer[w] EXCEPT !.ends = @ \cup {s},
                      !.pc = IF writer[w].ends \cup {s} = Reads[w] THEN "last" ELSE "next"])
  \/ /\ w \in net.mayLeave /\ writer[w].pc = "write"
     /\ Moves(w, [writer[w] EXCEPT !.pc = "last", !.result = "closed"])
  \/ /\ w \in net.mayBreak
     /\ writer[w].pc = "write" \/ Unopened(w)
     /\ Moves(w, [writer[w] EXCEPT !.pc = "last", !.result = "failed"])

\* One writer fewer is writing: the last of them may be left open.
Counts(w) ==
  /\ writer[w].pc = "last"
  /\ writing' = writing - 1
  /\ writer' = [writer EXCEPT ![w].pc =
                  IF writing = 1 /\ writer[w].result = "done" THEN "ask" ELSE "settle"]
  /\ UNCHANGED <<sched, parked, main>>

\* Ending.over: set only once the main thread got to it.
Asks(w) ==
  /\ writer[w].pc = "ask"
  /\ parked' = IF main # "start" /\ ~error /\ \A l \in Lane : lane[l].ended
                 THEN parked \cup {w} ELSE parked
  /\ writer' = [writer EXCEPT ![w].pc = "settle"]
  /\ UNCHANGED <<sched, writing, main>>

\* What is left in the queue is dropped and the output takes nothing more.
Settles(w) ==
  /\ writer[w].pc = "settle"
  /\ Moves(w, [writer[w] EXCEPT !.pc = "closed", !.fate = writer[w].result, !.items = <<>>])

Write(w) == Idles(w) \/ Pops(w) \/ Wakes(w) \/ Writes(w) \/ Counts(w) \/ Asks(w) \/ Settles(w)

-----------------------------------------------------------------------------
(* The main thread: node_graph.rs run, and Scheduler::finish.              *)

Failed == error \/ \E w \in Writer : writer[w].fate = "failed"

\* The writers are told how to ask about the end, and the readers start.
SetsOver ==
  /\ main = "start"
  /\ main' = "awake"
  /\ UNCHANGED <<sched, writer, writing, parked>>

WaitsFinished ==
  /\ main = "awake"
  /\ IF Running /\ ~Unread
       THEN main' = "asleep" /\ UNCHANGED <<worker, feeder, finished>>
       ELSE /\ finished' = (finished \/ Running)
            /\ Notify(worker, feeder, "join")
  /\ UNCHANGED <<lane, turn, fed, error, carried, writer, writing, parked>>

\* The workers are joined and the first failure is the run's.
JoinsWorkers ==
  /\ main = "join"
  /\ \A w \in Worker : worker[w] = "gone"
  /\ finished' = TRUE
  /\ main' = IF Failed THEN "failed" ELSE "drain"
  /\ UNCHANGED <<lane, turn, worker, feeder, fed, error, carried, writer, writing, parked>>

\* JoinsWriters, what the writers came to not looked at.
JoinsWritersOnly ==
  /\ main = "drain"
  /\ \A w \in Writer : writer[w].pc = "gone"
  /\ main' = "ok"
  /\ UNCHANGED <<sched, writer, writing, parked>>

\* The outputs are written out, and one that failed fails the run.
JoinsWriters ==
  /\ main = "drain"
  /\ \A w \in Writer : writer[w].pc = "gone"
  /\ main' = IF \E w \in Writer : writer[w].fate = "failed" THEN "failed" ELSE "ok"
  /\ UNCHANGED <<sched, writer, writing, parked>>

Main == SetsOver \/ WaitsFinished \/ JoinsWorkers \/ JoinsWriters

Returned == main \in {"ok", "failed"}

\* The process exits.
Rest == Returned /\ UNCHANGED vars

Next ==
  \/ /\ ~Returned
     /\ \/ \E w \in Worker : Work(w)
        \/ \E i \in Input : Feed(i)
        \/ \E w \in Writer : Write(w)
        \/ Main
     /\ UNCHANGED net
  \/ Rest

\* A thread that is neither asleep nor gone has a step to take, whatever the
\* state of the others.
WorkerGoes(w) == ~Returned /\ worker[w] \in {"awake", "run"}
FeederGoes(i) == ~Returned /\ feeder[i] = "awake" /\ main # "start"
WriterGoes(w) == ~Returned /\ writer[w].pc \notin {"wait", "gone"}

\* Every thread that can go on does: the scheduler's lock is never held across
\* a call, a node's calls return, an input goes on giving, and an output's
\* reader reads on or goes away.  WF_vars of each thread, its ENABLED replaced by
\* what it is equal to in every reachable state.
Fairness ==
  /\ \A w \in Worker : []<>~WorkerGoes(w) \/ []<><<Work(w)>>_vars
  /\ \A i \in Input : []<>~FeederGoes(i) \/ []<><<Feed(i)>>_vars
  /\ \A w \in Writer : []<>~WriterGoes(w) \/ []<><<Write(w)>>_vars
  /\ WF_vars(Main /\ UNCHANGED net)

Spec == Init /\ [][Next]_vars /\ Fairness

-----------------------------------------------------------------------------
(* Properties.                                                             *)

Queues  == [head : Nat, next : Nat, withheld : BOOLEAN, last : Nat \cup {None}]
Results == [tick : Nat, fin : BOOLEAN]

LaneRecord(l) ==
  [got : [Reads[l] -> Nat], closed : SUBSET Reads[l], queue : Queues,
   done : SUBSET Results, nextFlush : Nat,
   stopped : BOOLEAN, claimed : BOOLEAN, ended : BOOLEAN]

WriterPc == {"next", "idle", "pop", "wait", "took", "write", "last", "ask", "settle",
             "closed", "gone"}
Said(w)  == Reads[w] \X {"item", "end"}

WriterRecord(w) ==
  [pc : WriterPc, items : Seq(Said(w)), taken : BOOLEAN, hand : Said(w) \cup {None},
   ends : SUBSET Reads[w], wrote : [Reads[w] -> Nat],
   fate : {"open", "done", "closed", "failed"}, result : {"done", "closed", "failed"}]

\* Every variable has the type of the field or the place in its thread's code
\* it stands for.
TypeOK ==
  /\ \A l \in Lane : lane[l] \in LaneRecord(l)
  /\ \A w \in Writer : writer[w] \in WriterRecord(w)
  /\ turn \in [Worker -> [lane : Lane, lo : Nat, hi : Nat] \cup {None}]
  /\ worker \in [Worker -> {"awake", "asleep", "run", "gone"}]
  /\ feeder \in [Input -> {"awake", "asleep", "gone"}]
  /\ fed \in [Input -> Nat]
  /\ writing \in 0 .. Cardinality(Writer)
  /\ parked \in SUBSET Writer
  /\ main \in {"start", "awake", "asleep", "join", "drain", "ok", "failed"}
  /\ error \in BOOLEAN /\ finished \in BOOLEAN
  /\ carried \in [Stream -> Nat]

\* A writer has changed what the scheduler waits on and is about to say so.
Calling == \E w \in Writer : writer[w].pc \in {"idle", "took", "closed"}

\* No wake-up for work is lost: while a lane could be dispatched a worker is
\* looking or running, or a writer is on its way to wake one, however the
\* credit came back.
WorkIsSeen ==
  (Running /\ Preferred(Picked) # {}) =>
    Calling \/ \E w \in Worker : worker[w] \in {"awake", "run"}

\* Credit bounds an output's queue: each of its streams, found room for, adds a
\* turn at most before room is looked for again, unless a lane that runs several
\* ticks at once lets results pile up behind a slow one.
OutputBounded ==
  \A w \in Writer :
    (\A l \in Reads[w] \cap Lane : LaneWidth[l] = 1) =>
      Len(writer[w].items) < Cap + TurnMax * Cardinality(Reads[w])

\* What an output has of a stream and has not written.
Behind(w, s) ==
  Cardinality({k \in DOMAIN writer[w].items : writer[w].items[k] = <<s, "item">>})
    + (IF writer[w].pc \in {"took", "write"} /\ writer[w].hand = <<s, "item">> THEN 1 ELSE 0)

\* What an unbuffered lane handed on is taken before its next turn starts: a
\* leaky node's readers are never more than one item of its behind.
OneItemBehind ==
  \A w \in Writer : \A s \in Reads[w] \cap Unbuffered : Behind(w, s) <= 1

\* So what the lanes' pace leaves waiting is bounded: in an output's queue, and
\* of an unbuffered lane in every queue it is written to.
CreditBounds == OutputBounded /\ OneItemBehind

\* An output written whole holds every item each of its streams carried.
WrittenWhole ==
  \A w \in Writer : writer[w].fate = "done" =>
    \A s \in Reads[w] : writer[w].wrote[s] = carried[s]

\* A clean return hides no failure that a call, an output or an input had while
\* the run went on, whichever thread met it, nor one an output had later. An
\* input that fails once finish has taken the run's result fails unnoticed.
FailureSurfaces == main = "ok" => ~Failed

\* A node's last call happens, in a run that nothing cut short: every output
\* is written whole and no call failed.
LastCallHappens ==
  (main = "ok" /\ \A w \in Writer : writer[w].fate = "done") => \A l \in Lane : lane[l].ended

\* The run returns: none of its threads waits for ever.
Returns == <>Returned
=============================================================================
