------------------------------ MODULE NutOutput ------------------------------
(***************************************************************************)
(* One output of several streams (edges.rs, write_nut): lanes hand items,  *)
(* progress marks and ends to its queue, a batch at a time and each stream *)
(* at its own pace; the writer's thread takes them one by one, holds them  *)
(* by stream and writes the one next in time once no other stream can      *)
(* still bring an earlier one.  A data stream's marks leave as heartbeats  *)
(* (heartbeat.rs).  Times of every stream are in one base here.            *)
(***************************************************************************)
EXTENDS Integers, Sequences, FiniteSets, FiniteSetsExt, SequencesExt

CONSTANTS
  Streams,   \* how many streams the output carries
  Data,      \* those that are JSON data streams
  Live,      \* whether something reads the output as it is written
  Every,     \* the programme time of heartbeat::EVERY
  Scripts    \* what the lanes may hand on: for each stream a sequence of
             \* [kind, time], kind "item" or "mark", and an "end" that closes it

ASSUME NutAssumption ==
  /\ Streams \in Nat \ {0}
  /\ Data \subseteq 1 .. Streams
  /\ Live \in BOOLEAN
  /\ Every \in Nat \ {0}
  /\ \A f \in Scripts :
       /\ f \in [1 .. Streams -> Seq([kind : {"item", "mark", "end"}, time : Nat])]
       /\ \A s \in 1 .. Streams :
            /\ f[s] # <<>>
            /\ \A n \in 1 .. Len(f[s]) : f[s][n].kind = "end" <=> n = Len(f[s])

Stream == 1 .. Streams
None == -1       \* no time yet: NUT carries no negative one

VARIABLES
  script,    \* what each stream's lane will have handed on by its end
  handed,    \* how much of it each has handed on
  until,     \* and how much of it the flush under way hands on
  queue,     \* Queue.items: <<stream, position in its script>>
  taken,     \* Queue.taken
  held,      \* Track.held of each stream, as positions
  settled,   \* Track.settled
  ended,     \* Track.ended
  last,      \* Beats.last
  written,   \* the packets written: stream, position, kind and time
  outcome    \* "writing"; "done" or "closed" (Queue.done, .closed or .failed)

vars == <<script, handed, until, queue, taken, held, settled, ended, last, written, outcome>>

At(s, n) == script[s][n]
IsItem(s, n) == At(s, n).kind = "item"
IsMark(s, n) == At(s, n).kind = "mark"

Init ==
  /\ script \in Scripts
  /\ handed = [s \in Stream |-> 0] /\ until = [s \in Stream |-> 0]
  /\ queue = <<>> /\ taken = FALSE
  /\ held = [s \in Stream |-> <<>>]
  /\ settled = [s \in Stream |-> None]
  /\ ended = [s \in Stream |-> FALSE]
  /\ last = [s \in Stream |-> None]
  /\ written = <<>> /\ outcome = "writing"

-----------------------------------------------------------------------------
(* The lanes. *)

\* Mutant: of a run of marks the last is left out, not the first.
SupersededByEarlier(s, n, to) == IsMark(s, n) /\ n > 1 /\ IsMark(s, n - 1)

\* superseded_progress_dropped: a mark is left out when the next thing its
\* stream is handed by the same flush, which goes on to entry `to`, is a mark.
Superseded(s, n, to) == IsMark(s, n) /\ n < to /\ IsMark(s, n + 1)

\* What the flush of stream s under way hands on to, or one that begins.
FlushTo(s) == IF handed[s] < until[s] THEN {until[s]}
              ELSE handed[s] + 1 .. Len(script[s])

\* A lane's flush: the ticks that are done leave together, pushed one by one
\* while the writer goes on.  Queue::push drops what an output that is over is
\* handed.
HandOn(s) ==
  \E to \in FlushTo(s) :
    LET n == handed[s] + 1 IN
    /\ until' = [until EXCEPT ![s] = to]
    /\ handed' = [handed EXCEPT ![s] = n]
    /\ queue' = IF outcome # "writing" \/ Superseded(s, n, to) THEN queue
                ELSE Append(queue, <<s, n>>)
    /\ UNCHANGED <<script, taken, held, settled, ended, last, written, outcome>>

-----------------------------------------------------------------------------
(* The writer. *)

\* In time order across streams, a tie to the lower stream.
Precedes(s, t, r, u) == t < u \/ (t = u /\ s < r)

\* time_of.
TimeOf(s, n) == At(s, n).time

FrontTime(s) == TimeOf(s, Head(held[s]))

\* The earliest a stream can still bring.
Horizon(s) == IF held[s] # <<>> THEN FrontTime(s) ELSE settled[s]

\* Mutant: a stream that said nothing yet holds nothing back.
BehindUnheard(s, t, r) == \/ ended[r] /\ held[r] = <<>>
                          \/ Horizon(r) = None
                          \/ Precedes(s, t, r, Horizon(r))

\* Nothing of stream r can still go before time t of stream s.
Behind(s, t, r) == \/ ended[r] /\ held[r] = <<>>
                   \/ Horizon(r) # None /\ Precedes(s, t, r, Horizon(r))

Writable == {s \in Stream : /\ held[s] # <<>>
                            /\ \A r \in Stream \ {s} : Behind(s, FrontTime(s), r)}

\* Mutant: the first end is taken for the last.
FinishedOnOne == \E s \in Stream : ended[s] /\ held[s] = <<>>

Finished == \A s \in Stream : ended[s] /\ held[s] = <<>>

\* The writer is in next(), asking for more.
Asking == outcome = "writing" /\ Writable = {} /\ ~Finished

Ends(s, n) == At(s, n).kind = "end"

\* next() hands the writer the oldest of the queue, and write_nut keeps it by
\* stream.
Take ==
  /\ Asking /\ queue # <<>>
  /\ LET s == Head(queue)[1]
         n == Head(queue)[2]
     IN IF Ends(s, n)
        THEN ended' = [ended EXCEPT ![s] = TRUE] /\ UNCHANGED <<settled, held>>
        ELSE /\ settled' = [settled EXCEPT ![s] = Max({@, TimeOf(s, n)})]
             /\ held' = [held EXCEPT ![s] = Append(@, n)]
             /\ UNCHANGED ended
  /\ queue' = Tail(queue)
  /\ taken' = TRUE
  /\ UNCHANGED <<script, handed, until, last, written, outcome>>

\* next() on an empty queue: what was taken last counts as written.
Idle ==
  /\ Asking /\ queue = <<>> /\ taken
  /\ taken' = FALSE
  /\ UNCHANGED <<script, handed, until, queue, held, settled, ended, last, written, outcome>>

\* Mutant: a late message is written at its own time.
PlaceOwn(s, t) == t

\* Beats::place: where a data stream's message goes.
Place(s, t) == IF s \in Data THEN Max({t, last[s]}) ELSE t

\* Beats::due: whether a mark at t leaves as a heartbeat.
Due(s, t) == /\ Live /\ s \in Data
             /\ last[s] # None => t - last[s] >= Every

\* write_one on the front of s.
WriteOne(s) ==
  LET n == Head(held[s])
      t == Place(s, FrontTime(s))
      packet == [stream |-> s, nth |-> n, kind |-> At(s, n).kind, at |-> t]
  IN IF IsItem(s, n) \/ Due(s, FrontTime(s))
     THEN /\ written' = Append(written, packet)
          /\ last' = IF s \in Data THEN [last EXCEPT ![s] = t] ELSE last
     ELSE UNCHANGED <<written, last>>

Write ==
  /\ outcome = "writing"
  /\ \E s \in Writable : /\ WriteOne(s)
                         /\ held' = [held EXCEPT ![s] = Tail(@)]
  /\ UNCHANGED <<script, handed, until, queue, taken, settled, ended, outcome>>

\* Every stream has ended and is written.
Finish ==
  /\ outcome = "writing" /\ Finished
  /\ outcome' = "done" /\ queue' = <<>>
  /\ UNCHANGED <<script, handed, until, taken, held, settled, ended, last, written>>

\* A write fails: the reader went away, or the output did.
Break ==
  /\ outcome = "writing"
  /\ \/ Finished
     \/ \E s \in Writable : IsItem(s, Head(held[s])) \/ Due(s, FrontTime(s))
  /\ outcome' = "closed" /\ queue' = <<>>
  /\ UNCHANGED <<script, handed, until, taken, held, settled, ended, last, written>>

Writer == Take \/ Idle \/ Write \/ Finish \/ Break

\* Queue::settled, and nothing more comes.
Over == /\ outcome # "writing"
        /\ \A s \in Stream : handed[s] = Len(script[s])
        /\ UNCHANGED vars

Next == (\E s \in Stream : HandOn(s)) \/ Writer \/ Over

\* A lane goes on until its last call, and the writer while it has something
\* to do.
Spec == /\ Init /\ [][Next]_vars
        /\ \A s \in Stream : WF_vars(HandOn(s))
        /\ WF_vars(Writer)

-----------------------------------------------------------------------------
(* What is asked of it. *)

\* What has been handed on and is no end.
Handed(s) == {n \in 1 .. handed[s] : ~Ends(s, n)}

\* The state has its type: what is queued and held is what was handed on.
TypeOK ==
  /\ script \in Scripts
  /\ handed \in [Stream -> Nat] /\ until \in [Stream -> Nat]
  /\ \A s \in Stream : handed[s] <= until[s] /\ until[s] <= Len(script[s])
  /\ queue \in Seq(Stream \X Nat)
  /\ \A i \in DOMAIN queue : queue[i][2] \in 1 .. handed[queue[i][1]]
  /\ taken \in BOOLEAN
  /\ held \in [Stream -> Seq(Nat)]
  /\ \A s \in Stream : \A i \in DOMAIN held[s] : held[s][i] \in Handed(s)
  /\ settled \in [Stream -> Nat \cup {None}]
  /\ ended \in [Stream -> BOOLEAN]
  /\ last \in [Stream -> Nat \cup {None}]
  /\ written \in Seq([stream : Stream, nth : Nat, kind : {"item", "mark"}, at : Nat])
  /\ outcome \in {"writing", "done", "closed"}

\* The time stream s has reached by its n-th entry: a late message does not
\* take it back.
Reached(s, n) == Max({At(s, k).time : k \in 1 .. n})

\* The order an output is defined by, whatever the schedule.
Before(s, n, r, k) ==
  IF s = r THEN n < k ELSE Precedes(s, Reached(s, n), r, Reached(r, k))

Entries == UNION {{<<s, n>> : n \in DOMAIN script[s]} : s \in Stream}
Items == {e \in Entries : IsItem(e[1], e[2])}

Wrote(s, n) == \E i \in DOMAIN written :
  written[i].stream = s /\ written[i].nth = n /\ written[i].kind = "item"

\* What is written is the output's own order, from its start and without a
\* gap or a repeat, however the lanes and the writer interleave: an item goes
\* when every item ahead of it, of every stream, has gone (write_nut).
InTimeOrder ==
  \A i \in DOMAIN written : written[i].kind = "item" =>
    /\ \A e \in Items : Before(e[1], e[2], written[i].stream, written[i].nth) =>
         \E j \in 1 .. i - 1 : written[j].stream = e[1] /\ written[j].nth = e[2]
    /\ \A j \in 1 .. i - 1 :
         <<written[j].stream, written[j].nth>> # <<written[i].stream, written[i].nth>>

\* The writer waits and nothing is on its way.
Waiting == Asking /\ queue = <<>> /\ handed = until

\* Every stream's lane is past, or done with, what the n-th of s reaches.
Clear(s, n) ==
  /\ n <= handed[s]
  /\ \A r \in Stream \ {s} :
       \/ handed[r] = Len(script[r])
       \/ handed[r] > 0 /\ Precedes(s, Reached(s, n), r, Reached(r, handed[r]))

\* While the writer waits it holds nothing every lane is past, whichever marks
\* their flushes left out: such an item is written, as no stream can still bring
\* an earlier one, and past such a mark of a live data stream its reader has had
\* a packet less than Every before it, a mark left out for a later one counting
\* only where the later one stands (write_nut, Beats::due).
KeptUp ==
  Waiting =>
    /\ \A e \in Items : Clear(e[1], e[2]) => Wrote(e[1], e[2])
    /\ Live => \A s \in Data : \A n \in 1 .. handed[s] :
         (/\ IsMark(s, n) /\ Clear(s, n)
          /\ n = until[s] \/ ~IsMark(s, n + 1)) =>
           \E i \in DOMAIN written : /\ written[i].stream = s
                                     /\ written[i].at > At(s, n).time - Every

\* A data stream never steps back, and nothing it says after a heartbeat makes
\* the heartbeat untrue, though a message may come late (Beats::place).
NeverStepsBack ==
  \A i \in DOMAIN written : \A j \in 1 .. i - 1 :
    (written[i].stream = written[j].stream /\ written[i].stream \in Data) =>
      /\ written[j].at <= written[i].at
      /\ written[i].kind = "mark" => written[j].at < written[i].at

\* Once the lanes have ended the output is over, and unless a write failed it
\* has every item (write_nut's loop ends with the last of the ends).
Whole == outcome = "done" /\ \A e \in Items : Wrote(e[1], e[2])
Closes == <>(Whole \/ outcome = "closed")

=============================================================================
