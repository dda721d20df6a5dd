---------------------------- MODULE MCNutOutput ----------------------------
(* Short scripts of a picture stream and a data stream, for TLC. *)
EXTENDS NutInv

CONSTANTS
  MaxTime,     \* bound: the latest time
  MaxFrames,   \* bound: the most a picture stream hands on before its end
  MaxData      \* bound: and a data stream

Entry == [kind : {"item", "mark"}, time : 0 .. MaxTime]
End == [kind |-> "end", time |-> 0]

Reach(e, n) == Max({0} \cup {e[k].time : k \in 1 .. n - 1})

\* A mark is never behind what its stream carried; a picture is not either,
\* a message may be.
Said(e, late) == \A n \in DOMAIN e :
  (late /\ e[n].kind = "item") \/ e[n].time >= Reach(e, n)

UpTo(n) == UNION {[1 .. k -> Entry] : k \in 0 .. n}
Pictures == {Append(e, End) : e \in {e \in UpTo(MaxFrames) : Said(e, FALSE)}}
Messages == {Append(e, End) : e \in {e \in UpTo(MaxData) : Said(e, TRUE)}}

MCScripts ==
  {f \in [1 .. Streams -> Pictures \cup Messages] :
     \A s \in 1 .. Streams : f[s] \in IF s \in Data THEN Messages ELSE Pictures}

MCFirst == {1}

\* What the proofs of the order take of the scripts, of these ones.
ASSUME ScriptsMarksLead == MarksLead
=============================================================================
