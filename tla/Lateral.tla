------------------------------ MODULE Lateral ------------------------------
(***************************************************************************)
(* One run-time lateral while the stage writing its data stream runs       *)
(* (execute.py: _LateralRun).  A reader thread takes messages off the      *)
(* lateral's tap, a launcher thread runs one instance per message, one at  *)
(* a time, and the stage's end calls stop() from a third.  Each message    *)
(* is told how it ended with a row.                                        *)
(*                                                                         *)
(* A chunk of the tap completes one or more messages; the stop event is    *)
(* read between chunks and not between the messages of one.                *)
(***************************************************************************)
EXTENDS LateralPromise

CONSTANTS
  Streams,    \* the message sequences a writer may send; a message is
              \* [bound, start, end]: whether it is an object that binds the
              \* values, and the programme time it plays over, NoTime for none
  Ports,      \* connections the first instance waits for, in number
  MayRaise    \* whether running an instance may raise

VARIABLES
  reader,     \* "accept", "read" or "done"
  chunk,      \* messages of the chunk being handed on
  launcher,   \* "wait", "ports", "compile", "compiled", "run" or "done"
  ports,      \* connections still to be heard
  read_all,
  stopping    \* how far stop() is: "no", "set", "drained" or "done"

lvars == <<stream, reader, chunk, count, waiting, running, launcher, ports,
           read_all, stopping, left, rows>>

Stop == stopping # "no"

Init ==
  /\ stream \in Streams
  /\ reader = "accept" /\ chunk = 0 /\ count = 0
  /\ waiting = <<>> /\ running = 0 /\ launcher = "wait" /\ ports = Ports
  /\ read_all = FALSE /\ stopping = "no" /\ left = <<>> /\ rows = <<>>

_row(n, outcome) == rows' = Append(rows, [row |-> n, outcome |-> outcome])

-----------------------------------------------------------------------------
(* The reader.                                                             *)

\* The writer's connection, or the pipe opened; or neither, because of a stop or
\* because accepting failed.
_accept ==
  /\ reader = "accept"
  /\ \/ ~Stop /\ reader' = "read" /\ UNCHANGED read_all
     \/ reader' = "done" /\ read_all' = TRUE
  /\ UNCHANGED <<stream, chunk, count, waiting, running, launcher, ports, stopping,
                 left, rows>>

\* A chunk completes some messages.
ReadChunk ==
  /\ reader = "read" /\ chunk = 0 /\ ~Stop
  /\ chunk' \in 1 .. Len(stream.messages) - count
  /\ UNCHANGED <<stream, reader, count, waiting, running, launcher, ports, read_all,
                 stopping, left, rows>>

\* ReadEnds, at the end of the stream only.
ReadEndsAtEnd ==
  /\ reader = "read" /\ chunk = 0 /\ count = Len(stream.messages)
  /\ reader' = "done" /\ read_all' = TRUE /\ UNCHANGED <<count, rows>>
  /\ UNCHANGED <<stream, chunk, waiting, running, launcher, ports, stopping, left>>

\* The end of the stream, a stop, or the connection failing anywhere in it.  What
\* is left and makes no message is refused: the rest of a stream at its end, and
\* before it a message that came in part, or nothing.
ReadEnds ==
  /\ reader = "read" /\ chunk = 0
  /\ reader' = "done" /\ read_all' = TRUE
  /\ \/ /\ stream.rest \/ count < Len(stream.messages)
        /\ count' = count + 1 /\ _row(count + 1, "unreadable")
     \/ /\ ~stream.rest \/ count < Len(stream.messages)
        /\ UNCHANGED <<count, rows>>
  /\ UNCHANGED <<stream, chunk, waiting, running, launcher, ports, stopping, left>>

\* _arrived, looking at the queue and not at what runs.
_arrivedByQueue ==
  /\ chunk > 0 /\ chunk' = chunk - 1 /\ count' = count + 1
  /\ LET n == count + 1 IN
       IF ~Message(n).bound
       THEN _row(n, "refused") /\ UNCHANGED waiting
       ELSE IF \E i \in 1 .. Len(waiting) : overlaps(waiting[i], n)
       THEN _row(n, "overlap") /\ UNCHANGED waiting
       ELSE waiting' = Append(waiting, n) /\ UNCHANGED rows
  /\ UNCHANGED <<stream, reader, running, launcher, ports, read_all, stopping, left>>

_arrived ==
  /\ chunk > 0 /\ chunk' = chunk - 1 /\ count' = count + 1
  /\ LET n == count + 1 IN
       IF ~Message(n).bound
       THEN _row(n, "refused") /\ UNCHANGED waiting
       ELSE IF \E m \in ahead : overlaps(m, n)
       THEN _row(n, "overlap") /\ UNCHANGED waiting
       ELSE waiting' = Append(waiting, n) /\ UNCHANGED rows
  /\ UNCHANGED <<stream, reader, running, launcher, ports, read_all, stopping, left>>

-----------------------------------------------------------------------------
(* The launcher.                                                           *)

\* _launch, over once all is read.
_launchUntilRead ==
  /\ launcher = "wait" /\ (waiting # <<>> \/ Stop \/ read_all)
  /\ IF Stop \/ read_all
     THEN launcher' = "done" /\ UNCHANGED <<waiting, running>>
     ELSE /\ running' = Head(waiting) /\ waiting' = Tail(waiting)
          /\ launcher' = "ports"
  /\ UNCHANGED <<stream, reader, chunk, count, ports, read_all, stopping, left, rows>>

_launch ==
  /\ launcher = "wait" /\ (waiting # <<>> \/ Stop \/ read_all)
  /\ IF Stop \/ waiting = <<>>
     THEN launcher' = "done" /\ UNCHANGED <<waiting, running>>
     ELSE /\ running' = Head(waiting) /\ waiting' = Tail(waiting)
          /\ launcher' = "ports"
  /\ UNCHANGED <<stream, reader, chunk, count, ports, read_all, stopping, left, rows>>

Told(outcome) ==
  /\ _row(running, outcome) /\ running' = 0 /\ launcher' = "wait"

\* _unheard_port: each port accepts in time, or the instance is refused; the
\* next instance waits for them all again.
Listen ==
  /\ launcher = "ports"
  /\ \/ ports = 0 /\ launcher' = "compile" /\ UNCHANGED <<ports, running, rows>>
     \/ /\ ports > 0 /\ ~Stop /\ ports' = 0 /\ launcher' = "compile"
        /\ UNCHANGED <<running, rows>>
     \/ ports > 0 /\ Told("unheard") /\ UNCHANGED ports
  /\ UNCHANGED <<stream, reader, chunk, count, waiting, read_all, stopping, left>>

\* Compile, going on after the refusal was told.
CompileGoesOn ==
  /\ launcher = "compile" /\ launcher' = "compiled"
  /\ UNCHANGED running
  /\ rows' = rows \/ _row(running, "uncompiled")
  /\ UNCHANGED <<stream, reader, chunk, count, waiting, ports, read_all, stopping, left>>

Compile ==
  /\ launcher = "compile"
  /\ \/ launcher' = "compiled" /\ UNCHANGED <<running, rows>>
     \/ Told("uncompiled")
  /\ UNCHANGED <<stream, reader, chunk, count, waiting, ports, read_all, stopping, left>>

Start ==
  /\ launcher = "compiled"
  /\ IF Stop THEN Told("ended") ELSE launcher' = "run" /\ UNCHANGED <<running, rows>>
  /\ UNCHANGED <<stream, reader, chunk, count, waiting, ports, read_all, stopping, left>>

\* The instance ends by itself, or because its run ends at the stop.
InstanceEnds ==
  /\ launcher = "run" /\ Told("exit")
  /\ UNCHANGED <<stream, reader, chunk, count, waiting, ports, read_all, stopping, left>>

\* Running it raises: the launcher's thread ends with it.
InstanceRaises ==
  /\ MayRaise /\ launcher = "run"
  /\ running' = 0 /\ launcher' = "done"
  /\ UNCHANGED <<stream, reader, chunk, count, waiting, ports, read_all, stopping,
                 left, rows>>

-----------------------------------------------------------------------------
(* The stage's end.                                                        *)

StopSet ==
  /\ stopping = "no" /\ stopping' = "set"
  /\ UNCHANGED <<stream, reader, chunk, count, waiting, running, launcher, ports,
                 read_all, left, rows>>

StopDrain ==
  /\ stopping = "set" /\ stopping' = "drained"
  /\ left' = waiting /\ waiting' = <<>>
  /\ UNCHANGED <<stream, reader, chunk, count, running, launcher, ports, read_all, rows>>

StopTell ==
  /\ stopping = "drained"
  /\ IF left = <<>> THEN stopping' = "done" /\ UNCHANGED <<left, rows>>
     ELSE _row(Head(left), "ended") /\ left' = Tail(left) /\ UNCHANGED stopping
  /\ UNCHANGED <<stream, reader, chunk, count, waiting, running, launcher, ports,
                 read_all>>

Reader   == _accept \/ ReadChunk \/ ReadEnds \/ _arrived
Launcher == _launch \/ Listen \/ Compile \/ Start \/ InstanceEnds \/ InstanceRaises
Stopper  == StopDrain \/ StopTell

Next == Reader \/ Launcher \/ StopSet \/ Stopper

Spec == /\ Init /\ [][Next]_lvars
        /\ WF_lvars(Reader) /\ WF_lvars(Launcher) /\ WF_lvars(Stopper)

-----------------------------------------------------------------------------
(* The types; what a lateral promises is in LateralPromise.                *)

TypeOK ==
  /\ stream \in Streams /\ reader \in {"accept", "read", "done"}
  /\ chunk \in 0 .. Len(stream.messages) /\ count \in 0 .. Len(stream.messages) + 1
  /\ ahead \subseteq 1 .. Len(stream.messages)
  /\ launcher \in {"wait", "ports", "compile", "compiled", "run", "done"}
  /\ ports \in 0 .. Ports /\ read_all \in BOOLEAN
  /\ stopping \in {"no", "set", "drained", "done"}

=============================================================================
