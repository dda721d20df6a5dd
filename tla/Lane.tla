-------------------------------- MODULE Lane --------------------------------
(***************************************************************************)
(* One node lane of the sidecar's scheduler                                *)
(* (src/sidecar/ffrwd-wasm/src/lanes.rs): its intake settles ticks, the    *)
(* cut numbers them into a bounded queue, worker threads take turns of the *)
(* queue on instances of the node, and results are put back in ordinal     *)
(* order before anything leaves.                                           *)
(*                                                                         *)
(* The scheduler's mutex makes three things atomic, and each is one action *)
(* here: an arrival with the cut it causes, a worker's pick and dispatch,  *)
(* and a worker's completion with the flush it causes.  Between dispatch   *)
(* and completion a worker runs its turn with the mutex released, so turns *)
(* of different workers overlap in every order.  Other lanes are seen only *)
(* through arrivals and through the room that lets a dispatch happen;      *)
(* module Network composes lanes.                                          *)
(*                                                                         *)
(* A tick is its ordinal, and the queue is the record of module LaneQueue. *)
(***************************************************************************)
EXTENDS LaneQueue, Sequences, FiniteSets

CONSTANTS
  Worker,      \* the worker threads
  Stateful,    \* the node has a state input: every instance opens first
  MaxTick      \* bound: the most ticks the intake settles

ASSUME LaneAssumption ==
  /\ IsFiniteSet(Worker)
  /\ MaxTick \in Nat
  /\ Clock \in {"self", "host"} => Width = 1
  /\ Stateful \in BOOLEAN
  /\ None \notin [lo : Int, hi : Int, inst : Int, fresh : BOOLEAN, from : Int]

VARIABLES
  arrived,     \* how many ticks the intake has settled
  over,        \* every input has ended
  queue,       \* [head, next, withheld, last]: the task queue and its clock
  stopped,     \* nothing arriving reaches the node again
  ended,       \* the last tick has left
  finisher,    \* the instance that said it was finished
  idle,        \* instances in hand, the next to run at the end
  created,     \* instances opened so far
  turn,        \* per worker, the turn it runs outside the lock
  done,        \* results waiting for their turn to leave
  nextFlush,   \* the ordinal that leaves next
  error,       \* a call failed: the run stops
  told,        \* per instance, the next tick whose rows it has not been told
  kept,        \* rows of ticks below this one have been forgotten
  knows,       \* history: per instance, it was handed or ran all below this
  out          \* history: the ordinals of the ticks that left, in order

intake == <<arrived, over>>
life   == <<stopped, ended, finisher>>
pool   == <<idle, created>>
rows   == <<told, kept>>
vars   == <<intake, queue, life, pool, turn, done, nextFlush, error, rows,
            knows, out>>

Instance == 0 .. (Width - 1)

-----------------------------------------------------------------------------

\* Whether the lane can still open an instance of its own (Lane.opener): a
\* lane that hands rows round has opened them all, and one of width 1 starts
\* with the one it needs.
HasOpener == ~Stateful /\ Width > 1

\* An older module's windows and a host node's events carry no state rows.
Assembled == Clock \notin {"windows", "host"}

Busy == {w \in Worker : turn[w] # None}

\* State::cut: nothing more is cut for a lane that stopped.
Recut(q, t, v) == IF stopped THEN q ELSE Cut(q, t, v, Busy = {})

-----------------------------------------------------------------------------

Init ==
  /\ arrived = IF Clock = "source" THEN MaxTick ELSE 0
  /\ over = FALSE
  /\ queue = [head     |-> 0,
              next     |-> IF Clock = "source" THEN Smaller(MaxTick, Cap) ELSE 0,
              withheld |-> FALSE,
              last     |-> None]
  /\ stopped = FALSE
  /\ ended = FALSE
  /\ finisher = None
  /\ created = IF Stateful THEN Width ELSE 1
  /\ idle = [k \in 1 .. created |-> k - 1]
  /\ turn = [w \in Worker |-> None]
  /\ done = {}
  /\ nextFlush = 0
  /\ error = FALSE
  /\ told = [i \in Instance |-> 0]
  /\ kept = 0
  /\ knows = [i \in Instance |-> 0]
  /\ out = <<>>

\* Something arrives that settles k more ticks (one packet of sound settles
\* as many as it has samples over the stride), and the lane is cut.
Arrive(k) ==
  /\ ~over /\ ~stopped /\ Clock # "source"
  /\ arrived + k <= MaxTick
  /\ arrived' = arrived + k
  /\ queue' = Recut(queue, arrived', FALSE)
  /\ UNCHANGED <<over, life, pool, turn, done, nextFlush, error, rows, knows, out>>

\* The inputs end, which settles the last tick.
End ==
  /\ ~over /\ ~stopped /\ Clock # "source"
  /\ over' = TRUE
  /\ queue' = Recut(queue, arrived, TRUE)
  /\ UNCHANGED <<arrived, life, pool, turn, done, nextFlush, error, rows, knows, out>>

-----------------------------------------------------------------------------
(* A worker looks for work.                                                *)

\* What State::pick cuts before it chooses: clocks that run as their queue
\* drains, and an input clock with a tick held back and room again.
Picked ==
  IF Clock \in {"rate", "source", "self"}
       \/ (queue.withheld /\ queue.next - queue.head < Cap)
    THEN Recut(queue, arrived, over)
    ELSE queue

\* The place in idle of the instance the front task of q runs on, 0 where
\* one is opened for it: the finisher for its last call, else the one that
\* ran most recently.
Wanted(q) ==
  IF q.head = q.last /\ finisher # None
    THEN CHOOSE k \in 1 .. Len(idle) : idle[k] = finisher
    ELSE Len(idle)

\* Dispatchable, the last call no different from the ticks before it.
DispatchableTogether(q) ==
  /\ q.head < q.next
  /\ Cardinality(Busy) < Width
  /\ IF q.head = q.last /\ finisher # None
       THEN \E k \in 1 .. Len(idle) : idle[k] = finisher
       ELSE Len(idle) > 0 \/ (created < Width /\ HasOpener)

\* State::dispatchable, but for the room on what the lane feeds.
Dispatchable(q) ==
  /\ q.head < q.next
  /\ Cardinality(Busy) < Width
  /\ q.head = q.last => Busy = {}
  /\ IF q.head = q.last /\ finisher # None
       THEN \E k \in 1 .. Len(idle) : idle[k] = finisher
       ELSE Len(idle) > 0 \/ (created < Width /\ HasOpener)

\* Forget, by the instance told of the most rows.
ForgetMost ==
  IF created' < Width THEN UNCHANGED kept
  ELSE \E i \in Instance :
         /\ \A j \in Instance : told'[i] >= told'[j]
         /\ kept' = told'[i]

\* EarlierRows::forget_told: once every instance the lane will run is open,
\* the rows every one of them has been told of go.
Forget ==
  IF created' < Width THEN UNCHANGED kept
  ELSE \E i \in Instance :
         /\ \A j \in Instance : told'[i] <= told'[j]
         /\ kept' = told'[i]

\* Without, taking the most recent instance whichever was wanted.
WithoutNewest(at) == IF at = 0 THEN idle ELSE SubSeq(idle, 1, Len(idle) - 1)

\* idle once the instance at the place given is taken off it.
Without(at) ==
  IF at = 0 THEN idle ELSE SubSeq(idle, 1, at - 1) \o SubSeq(idle, at + 1, Len(idle))

\* A worker finds nothing it may start; what pick cut stays cut.
Look(w) ==
  /\ turn[w] = None /\ ~error /\ ~ended
  /\ ~Dispatchable(Picked)
  /\ Picked # queue
  /\ queue' = Picked
  /\ UNCHANGED <<intake, life, pool, turn, done, nextFlush, error, rows, knows, out>>

\* A worker takes a turn of the front of the queue, with the rows its
\* instance is owed: those it was not told of and that are still kept.
Dispatch(w) ==
  /\ turn[w] = None /\ ~error /\ ~ended
  /\ Dispatchable(Picked)
  /\ LET q    == Picked
         at   == Wanted(q)
         inst == IF at = 0 THEN created ELSE idle[at]
         n    == Length(q, arrived, over)
         hi   == q.head + n - 1
     IN /\ idle' = Without(at)
        /\ created' = IF at = 0 THEN created + 1 ELSE created
        /\ queue' = Taken(q, n, arrived, over)
        /\ told' = IF Assembled THEN [told EXCEPT ![inst] = hi + 1] ELSE told
        /\ Forget
        /\ turn' = [turn EXCEPT ![w] =
                      [lo    |-> q.head,
                       hi    |-> hi,
                       inst  |-> inst,
                       fresh |-> at = 0,
                       from  |-> Larger(told[inst], kept)]]
  /\ UNCHANGED <<intake, life, done, nextFlush, error, knows, out>>

-----------------------------------------------------------------------------
(* A worker hands in what its turn made.                                   *)

\* The ticks of the results given, in order.
Ordered(ticks) ==
  [k \in 1 .. Cardinality(ticks) |->
     CHOOSE n \in ticks : Cardinality({m \in ticks : m < n}) = k - 1]

\* Results gone leave, every one below past, none of them a claim; with the
\* last tick every port ends.
FlushRun(d, gone, past) ==
  /\ out' = out \o Ordered({r.tick : r \in gone})
  /\ done' = d \ gone
  /\ nextFlush' = past
  /\ IF \E r \in gone : r.tick = queue.last
       THEN stopped' = TRUE /\ ended' = TRUE
       ELSE UNCHANGED <<stopped, ended>>
  /\ UNCHANGED <<queue, finisher>>

\* FlushClaim, with what was made past the claim leaving too.
FlushClaimAndPast(d, r) ==
  /\ out' = out \o Ordered({s.tick : s \in d})
  /\ done' = {}
  /\ nextFlush' = queue.next
  /\ stopped' = TRUE
  /\ finisher' = r.inst
  /\ queue' = [head |-> queue.next, next |-> queue.next + 1,
               withheld |-> FALSE, last |-> queue.next]
  /\ UNCHANGED ended

\* FlushClaim, with no last call queued behind the claim.
FlushClaimOnly(d, r) ==
  /\ out' = out \o Ordered({s.tick : s \in {s \in d : s.tick <= r.tick}})
  /\ done' = {}
  /\ nextFlush' = queue.next
  /\ stopped' = TRUE
  /\ finisher' = r.inst
  /\ queue' = [queue EXCEPT !.head = queue.next]
  /\ UNCHANGED ended

\* Of the results d those through r leave, the first on which a running lane's
\* node said it was finished: what follows it is dropped, queued or done, and
\* one last call is queued for its instance.
FlushClaim(d, r) ==
  /\ out' = out \o Ordered({s.tick : s \in {s \in d : s.tick <= r.tick}})
  /\ done' = {}
  /\ nextFlush' = queue.next
  /\ stopped' = TRUE
  /\ finisher' = r.inst
  /\ queue' = [head |-> queue.next, next |-> queue.next + 1,
               withheld |-> FALSE, last |-> queue.next]
  /\ UNCHANGED ended

\* Flush, not waiting for a turn still out.
FlushAll(d) ==
  LET past   == 1 + (CHOOSE n \in {r.tick : r \in d} : \A r \in d : r.tick <= n)
      claims == {r \in d : r.fin /\ r.tick # queue.last /\ ~stopped}
  IN IF d = {} THEN FlushRun(d, d, nextFlush)
     ELSE \/ claims = {} /\ FlushRun(d, d, past)
          \/ \E r \in claims : (\A s \in claims : r.tick <= s.tick) /\ FlushClaim(d, r)

\* State::flush of the results d: those of an unbroken run of ordinals from
\* nextFlush leave.
Flush(d) ==
  \E past \in nextFlush .. queue.next :
    LET gone   == {r \in d : r.tick < past}
        claims == {r \in gone : r.fin /\ r.tick # queue.last /\ ~stopped}
    IN /\ \A n \in nextFlush .. (past - 1) : \E r \in d : r.tick = n
       /\ \A r \in d : r.tick # past
       /\ \/ claims = {} /\ FlushRun(d, gone, past)
          \/ \E r \in claims : (\A s \in claims : r.tick <= s.tick) /\ FlushClaim(d, r)

\* Made, without the tick the node said it was finished on.
MadeBeforeClaim(t, hi, verdict) ==
  {[tick |-> n, fin |-> FALSE, inst |-> t.inst] :
     n \in Larger(t.lo, nextFlush) .. (IF verdict = "finished" THEN hi - 1 ELSE hi)}

\* What turn t made, run up to tick hi: the results still waited for.
Made(t, hi, verdict) ==
  {[tick |-> n, fin |-> (n = hi /\ verdict = "finished"), inst |-> t.inst] :
     n \in Larger(t.lo, nextFlush) .. hi}

\* A turn that made the last call keeps its instance from the idle ones.
Spent(t, verdict) == t.lo = queue.last /\ verdict # "failed"

\* Worker w ran its turn up to tick stop: "ok" through its last tick,
\* "finished" or "failed" on the tick it stopped at.  The instance goes back
\* in hand unless it made the last call, or could not be opened at all; a
\* failure stops the run and nothing leaves with it.
Complete(w, stop, verdict) ==
  /\ turn[w] # None
  /\ LET t     == turn[w]
         lost == t.fresh /\ stop = t.lo /\ verdict = "failed"
     IN /\ stop \in t.lo .. t.hi
        /\ verdict = "ok" => stop = t.hi
        /\ turn' = [turn EXCEPT ![w] = None]
        /\ \/ ~Spent(t, verdict) /\ idle' = Append(idle, t.inst)
           \/ (Spent(t, verdict) \/ lost) /\ UNCHANGED idle
        /\ knows' = IF t.from <= knows[t.inst]
                      THEN [knows EXCEPT ![t.inst] = stop + 1] ELSE knows
        /\ \/ /\ verdict = "failed"
              /\ error' = TRUE
              /\ done' = done \cup Made(t, stop - 1, verdict)
              /\ UNCHANGED <<queue, life, nextFlush, out>>
           \/ /\ verdict # "failed"
              /\ Flush(done \cup Made(t, stop, verdict))
              /\ UNCHANGED error
  /\ UNCHANGED <<intake, created, rows>>

-----------------------------------------------------------------------------

Verdicts == {"ok", "finished", "failed"}

Feed == (\E k \in 1 .. MaxTick : Arrive(k)) \/ End

Finish(w) == \E stop \in 0 .. (MaxTick + 1), verdict \in Verdicts :
               Complete(w, stop, verdict)

Work(w) == Look(w) \/ Dispatch(w) \/ Finish(w)

\* The run is over for this lane.
Rest == (ended \/ error) /\ Busy = {} /\ UNCHANGED vars

Next == Feed \/ (\E w \in Worker : Work(w)) \/ Rest

\* A worker thread that can go on does: the lock is released after every
\* step, a turn's calls return, and what wakes a sleeping worker is module
\* Network's.
Fairness == \A w \in Worker : WF_vars(Work(w))

Spec == Init /\ [][Next]_vars /\ Fairness

-----------------------------------------------------------------------------
(* Properties.                                                             *)

Tick == 0 .. (MaxTick + 1)
Result == [tick : Tick, fin : BOOLEAN, inst : Instance]
Turn == [lo : Tick, hi : Tick, inst : Instance, fresh : BOOLEAN, from : Nat]

\* Every variable has the type its field of Lane has.
TypeOK ==
  /\ arrived \in 0 .. MaxTick
  /\ over \in BOOLEAN
  /\ queue \in [head : Nat, next : 0 .. (MaxTick + 2), withheld : BOOLEAN,
                last : Tick \cup {None}]
  /\ stopped \in BOOLEAN
  /\ ended \in BOOLEAN
  /\ finisher \in Instance \cup {None}
  /\ idle \in Seq(Instance)
  /\ created \in 0 .. Width
  /\ turn \in [Worker -> Turn \cup {None}]
  /\ done \in SUBSET Result
  /\ nextFlush \in Nat
  /\ error \in BOOLEAN
  /\ told \in [Instance -> Nat]
  /\ kept \in Nat
  /\ knows \in [Instance -> Nat]
  /\ out \in Seq(Nat)

\* What leaves the lane leaves in ordinal order from 0 with no gap and no
\* repeat, however the workers' turns overlapped; only the last call, whose
\* ordinal follows what was cut, may skip numbers, and nothing follows it.
InOrder ==
  \A k \in DOMAIN out :
    \/ out[k] = k - 1
    \/ k = Len(out) /\ ended /\ out[k] = queue.last

\* The tick a running lane's node says it is finished on is the last it hands
\* on: what other workers made past it, waiting or still to come, never leaves
\* (State::flush and superseded results).
ClaimClosesTheLane ==
  [][\A r \in done, k \in (Len(out) + 1) .. Len(out') :
       (r.fin /\ ~stopped /\ out'[k] = r.tick) => k = Len(out') /\ finisher' = r.inst]_vars

\* The last call runs alone and after everything: no other turn is out, all
\* that will leave before it has left, and where an instance said it was
\* finished the call is on that instance.
LastCallAlone ==
  \A w \in Busy : turn[w].lo = queue.last =>
    /\ Busy = {w}
    /\ nextFlush = queue.last /\ done = {}
    /\ finisher # None => turn[w].inst = finisher

\* An instance is never in two hands: one turn runs it, or it is idle once.
OneHandEach ==
  /\ \A v, w \in Busy : v # w => turn[v].inst # turn[w].inst
  /\ \A w \in Busy, k \in DOMAIN idle : turn[w].inst # idle[k]
  /\ \A j, k \in DOMAIN idle : j # k => idle[j] # idle[k]

\* A clock the cap bounds never queues past it, whatever an arrival settles
\* and however many caps' worth one turn drains.
QueueWithinCap ==
  Clock \in {"input", "rate", "source"} => queue.next - queue.head <= Cap

\* Every tick an input clock has settled is numbered, or announced by the
\* tick held back: none waits where neither an arrival nor a drain finds it.
NothingStranded ==
  Clock = "input" => (queue.withheld <=> (~stopped /\ Total(arrived, over) > queue.next))

\* A frame-parallel instance is handed, turn by turn, exactly the rows of the
\* ticks it did not process since its previous call: none twice, none missing,
\* none forgotten before it asked.
HandedEveryRow ==
  Assembled => \A w \in Busy : turn[w].from = knows[turn[w].inst]

=============================================================================
