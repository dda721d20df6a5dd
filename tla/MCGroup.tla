------------------------------ MODULE MCGroup ------------------------------
(* The process group and a lateral of it, in one run for TLC: a behaviour   *)
(* is of one or of the other, and the one it is not of is over.             *)
EXTENDS MCStage, LateralPromise

CONSTANTS Ports

VARIABLES
  whole,           \* TRUE for a plan, FALSE for a lateral
  reader, chunk, launcher, ports, read_all, stopping

At(s, e) == [bound |-> TRUE, start |-> s, end |-> e]
Bad      == [bound |-> FALSE, start |-> NoTime, end |-> NoTime]
Nothing  == [messages |-> <<>>, rest |-> FALSE]

\* Three messages: two that overlap and one after them; one that binds nothing,
\* one without a time and a rest that makes no message.
Sent ==
  { Nothing,
    [messages |-> <<At(0, 2), At(1, 3), At(2, 4)>>, rest |-> FALSE],
    [messages |-> <<At(0, 2), Bad, At(NoTime, NoTime)>>, rest |-> TRUE] }

Tap == INSTANCE Lateral WITH Streams <- Sent, MayRaise <- FALSE

tapVars == <<stream, reader, chunk, count, waiting, running, launcher, ports,
             read_all, stopping, left, rows>>
GroupVars == <<vars, tapVars, whole>>

NoTap ==
  /\ stream = Nothing /\ reader = "done" /\ launcher = "done" /\ stopping = "done"
  /\ chunk = 0 /\ count = 0 /\ waiting = <<>> /\ running = 0 /\ ports = 0
  /\ read_all = TRUE /\ left = <<>> /\ rows = <<>>

GroupInit ==
  \/ whole = TRUE /\ Init /\ NoTap
  \/ /\ whole = FALSE /\ Tap!Init /\ stream # Nothing
     /\ plan = One(<<ChainOf3>>, FALSE, FALSE) /\ at = 1 /\ phase = "done"
     /\ placed = {} /\ started = <<>> /\ fed = 0
     /\ proc = Fresh(plan, 1).proc /\ terminated = Fresh(plan, 1).off
     /\ seen = Fresh(plan, 1).nat /\ clock = 1 /\ watch = NoWatch
     /\ struck = [NotStruck EXCEPT !.raised = TRUE]
     /\ stop = FALSE /\ windows = FALSE /\ results = <<>> /\ ending = {} /\ cut = "no"

GroupNext == \/ whole /\ Next /\ UNCHANGED <<tapVars, whole>>
             \/ ~whole /\ Tap!Next /\ UNCHANGED <<vars, whole>>

GroupSpec ==
  /\ GroupInit /\ [][GroupNext]_GroupVars
  /\ WF_vars(whole /\ Runner) /\ SF_vars(whole /\ Strike(FALSE))
  /\ WF_GroupVars(Tap!Reader /\ UNCHANGED <<vars, whole>>)
  /\ WF_GroupVars(Tap!Launcher /\ UNCHANGED <<vars, whole>>)
  /\ WF_GroupVars(Tap!Stopper /\ UNCHANGED <<vars, whole>>)

-----------------------------------------------------------------------------

\* Lateral's ToldBeforeStop: a message taken while the stage runs is told.
LateralTold == \A n \in 1 .. 3 : (n <= count /\ ~Tap!Stop) ~> (RowsOf(n) = 1)

\* Lateral's ThreadsEnd: a stop ends the reader, the launcher and stop itself.
LateralThreadsEnd ==
  Tap!Stop ~> (reader = "done" /\ launcher = "done" /\ stopping = "done")
=============================================================================
