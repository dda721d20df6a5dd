------------------------------- MODULE NutInv -------------------------------
(***************************************************************************)
(* The inductive invariants of module NutOutput: what its queue, the       *)
(* streams' tracks and the packets written must say of each other, between *)
(* any two steps of the lanes and the writer, for the output to have its   *)
(* own order and to be kept up with.                                       *)
(***************************************************************************)
EXTENDS NutOutput

\* A progress mark is never behind what its stream carried (node.rs, progress:
\* "never below the last message's pts"; flush: a mark only past the last).
MarksLead ==
  \A f \in Scripts : \A s \in Stream : \A n \in 1 .. Len(f[s]) :
    f[s][n].kind = "mark" => \A k \in 1 .. n : f[s][k].time <= f[s][n].time

\* What a queue or a track holds of stream s, and that it holds it in order.
Of(q, s) == {q[i][2] : i \in {j \in DOMAIN q : q[j][1] = s}}
InOrder(q) ==
  \A i \in DOMAIN q : \A j \in 1 .. i - 1 : q[i][1] = q[j][1] => q[j][2] < q[i][2]
Rising(h) == \A i \in DOMAIN h : \A j \in 1 .. i - 1 : h[j] < h[i]

InQueue(s) == Of(queue, s)
InHand(s) == Range(held[s])
Pending(s) == InHand(s) \cup InQueue(s)

\* What of stream s the writer is done with, what it has taken, and what comes
\* next of either.
Gone(s, m)  == m \in 1 .. handed[s] /\ \A p \in Pending(s) : m < p
Taken(s, m) == m \in 1 .. handed[s] /\ \A p \in InQueue(s) : m < p
UpToNext(s, q) == q \in 1 .. Len(script[s]) /\ q <= handed[s] + 1
FirstLeft(s, q) == UpToNext(s, q) /\ \A p \in Pending(s) : q <= p
FirstQueued(s, q) == UpToNext(s, q) /\ \A p \in InQueue(s) : q <= p

\* A stream's entries keep their order through the queue and the track.
InTurn ==
  /\ InOrder(queue)
  /\ \A s \in Stream : Rising(held[s]) /\ \A p \in InHand(s), q \in InQueue(s) : p < q

\* What is neither gone nor pending is a mark that a mark superseded, or the end.
LeftOut ==
  \A s \in Stream : \A m \in 1 .. handed[s] :
    \/ Gone(s, m) \/ m \in Pending(s) \/ Superseded(s, m, until[s])
    \/ ended[s] /\ Ends(s, m)

\* A stream's end is the last thing taken of it.
EndsLast ==
  \A s \in Stream : ended[s] <=> Taken(s, Len(script[s]))

\* What a stream has settled is the time of something taken, and past all that
\* was, a left out mark counting from what comes after its run.
SettledIsTaken ==
  \A s \in Stream : settled[s] # None =>
    \E j \in 1 .. Len(script[s]) : Taken(s, j) /\ ~Ends(s, j) /\ settled[s] = TimeOf(s, j)

SettledCovers ==
  \A s \in Stream : \A m \in 1 .. Len(script[s]) : Taken(s, m) =>
    /\ Ends(s, m) \/ Superseded(s, m, until[s]) \/ TimeOf(s, m) <= settled[s]
    /\ \A q \in m + 1 .. Len(script[s]) :
         FirstQueued(s, q) /\ ~IsMark(s, q) => TimeOf(s, m) <= settled[s]

\* What is gone of a stream precedes what is left of another, a left out mark
\* counting from what comes after its run.
AheadOfTheRest ==
  \A s \in Stream : \A r \in Stream \ {s} :
    \A m \in 1 .. Len(script[s]) : \A q \in m + 1 .. Len(script[s]) :
      (Gone(s, m) /\ FirstLeft(s, q) /\ ~IsMark(s, q)) =>
        \A k \in 1 .. Len(script[r]) :
          IsItem(r, k) /\ ~Gone(r, k) => Precedes(s, TimeOf(s, m), r, Reached(r, k))

\* The items gone are the ones written.
GoneIsWritten ==
  /\ \A s \in Stream : \A m \in 1 .. Len(script[s]) : Gone(s, m) /\ IsItem(s, m) => Wrote(s, m)
  /\ \A i \in DOMAIN written : Gone(written[i].stream, written[i].nth)

\* A data stream's last packet, and that it is close behind each mark gone.
LastWritten(s) ==
  last[s] # None =>
    \E i \in DOMAIN written : written[i].stream = s /\ written[i].at = last[s]

CloseBehind ==
  \A s \in Data : \A m \in 1 .. Len(script[s]) :
    (Gone(s, m) /\ IsMark(s, m) /\ (m = until[s] \/ ~IsMark(s, m + 1))) =>
      last[s] # None /\ last[s] > TimeOf(s, m) - Every

Tracks == InTurn /\ LeftOut /\ EndsLast
Times == SettledIsTaken /\ SettledCovers

OrderInvariant ==
  /\ InTimeOrder
  /\ outcome = "writing" => Tracks /\ Times /\ AheadOfTheRest /\ GoneIsWritten

BeatInvariant ==
  outcome = "writing" => (\A s \in Data : LastWritten(s)) /\ (Live => CloseBehind)
=============================================================================
