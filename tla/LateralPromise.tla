--------------------------- MODULE LateralPromise ---------------------------
(***************************************************************************)
(* What a run-time lateral promises whoever reads its rows, over the part  *)
(* of its state that says it: the messages numbered, what waits and runs,  *)
(* and the rows said (execute.py: _LateralRun).                            *)
(***************************************************************************)
EXTENDS Naturals, Sequences, FiniteSets

CONSTANT NoTime    \* the start and end of a message that says none

VARIABLES
  stream,     \* the messages, and whether an unreadable rest follows
  count,      \* messages numbered so far
  waiting,    \* launches waiting their turn
  running,    \* the launch being run, 0 for None
  left,       \* launches stop() took, still to be told
  rows        \* the rows said: message and outcome

Message(n) == stream.messages[n]

\* A time a message does not say overlaps nothing.
overlaps(m, n) ==
  LET a == Message(m)
      b == Message(n) IN
  /\ NoTime \notin {a.start, a.end, b.start, b.end}
  /\ b.start < a.end /\ a.start < b.end

ahead == {waiting[i] : i \in 1 .. Len(waiting)} \union ({running} \ {0})

RowsOf(n) == Cardinality({i \in 1 .. Len(rows) : rows[i].row = n})

\* No message is told twice, whichever of the three threads tells it, and one
\* told is neither waiting nor running.
ToldOnce ==
  \A n \in 1 .. count :
    /\ RowsOf(n) <= 1
    /\ RowsOf(n) = 1 => n \notin ahead \union {left[i] : i \in 1 .. Len(left)}

\* One instance at a time on the programme: what runs and what waits never
\* overlaps, and the launches keep the order the messages came in.
OneTimeline ==
  /\ \A m, n \in ahead : m # n => ~overlaps(m, n)
  /\ \A i \in 1 .. Len(waiting) : /\ running < waiting[i]
                                  /\ \A j \in 1 .. i - 1 : waiting[j] < waiting[i]

=============================================================================
