------------------------------ MODULE NutProofs ------------------------------
(***************************************************************************)
(* Three facts of an output, proved for every script its lanes may hand   *)
(* on, every number of streams and every interleaving: its data streams    *)
(* never step back, what it writes is one order that the scripts alone     *)
(* define, and while it waits it holds nothing that could have gone.       *)
(***************************************************************************)
EXTENDS NutInv, SequenceTheorems, WellFoundedInduction, TLAPS

\* A packet of a data stream is no later than the stream's timeline, which is
\* what the next one is placed at or past.
LastIsNewest == \A i \in DOMAIN written :
  written[i].stream \in Data => written[i].at <= last[written[i].stream]

NutInvariant == TypeOK /\ LastIsNewest /\ NeverStepsBack

\* The larger of two, as Place and settled take it.
LEMMA MaxOfTwo ==
  ASSUME NEW a \in Int, NEW b \in Int
  PROVE  Max({a, b}) \in {a, b} /\ Max({a, b}) >= a /\ Max({a, b}) >= b
<1>1. \E x \in {a, b} : \A y \in {a, b} : x >= y
  <2>1. CASE a >= b BY <2>1
  <2>2. CASE b >= a BY <2>2
  <2> QED BY <2>1, <2>2
<1>2. Max({a, b}) \in {a, b} /\ \A y \in {a, b} : Max({a, b}) >= y
  BY <1>1 DEF Max
<1> QED BY <1>2

\* A script's entries are in it, and its end is its last.
LEMMA ScriptEntry ==
  ASSUME script \in Scripts, NEW s \in Stream, NEW n \in 1 .. Len(script[s])
  PROVE  /\ At(s, n).time \in Nat
         /\ At(s, n).kind \in {"item", "mark", "end"}
         /\ script[s] \in Seq([kind : {"item", "mark", "end"}, time : Nat])
<1> DEFINE E == [kind : {"item", "mark", "end"}, time : Nat]
<1>1. script \in [1 .. Streams -> Seq(E)] BY NutAssumption
<1>2. script[s] \in Seq(E) BY <1>1 DEF Stream
<1>3. script[s][n] \in E
  <2> HIDE DEF E
  <2> QED BY <1>2, ElementOfSeq
<1> QED BY <1>2, <1>3 DEF At

\* What was handed on stays so.
LEMMA HandedGrows ==
  ASSUME TypeOK, NEW s \in Stream, HandOn(s)
  PROVE  /\ handed' \in [Stream -> Nat] /\ until' \in [Stream -> Nat]
         /\ \A r \in Stream : /\ handed[r] <= handed'[r]
                              /\ handed'[r] <= until'[r] /\ until'[r] <= Len(script[r])
         /\ handed'[s] = handed[s] + 1
<1>1. PICK to \in FlushTo(s) : /\ until' = [until EXCEPT ![s] = to]
                               /\ handed' = [handed EXCEPT ![s] = handed[s] + 1]
  BY DEF HandOn
<1>2. /\ handed \in [Stream -> Nat] /\ until \in [Stream -> Nat]
      /\ \A r \in Stream : handed[r] <= until[r] /\ until[r] <= Len(script[r])
  BY DEF TypeOK
<1>3. Len(script[s]) \in Nat
  BY NutAssumption DEF TypeOK, Stream
<1>4. to \in Nat /\ handed[s] + 1 <= to /\ to <= Len(script[s])
  BY <1>2, <1>3 DEF FlushTo
<1> QED BY <1>1, <1>2, <1>4

LEMMA InitHolds == Init => NutInvariant
<1> SUFFICES ASSUME Init PROVE NutInvariant OBVIOUS
<1>1. /\ script \in Scripts /\ queue = <<>> /\ taken = FALSE
      /\ handed = [s \in Stream |-> 0] /\ until = [s \in Stream |-> 0]
      /\ held = [s \in Stream |-> <<>>] /\ settled = [s \in Stream |-> None]
      /\ ended = [s \in Stream |-> FALSE] /\ last = [s \in Stream |-> None]
      /\ written = <<>> /\ outcome = "writing"
  BY DEF Init
<1>2. \A s \in Stream : handed[s] <= until[s] /\ until[s] <= Len(script[s])
  <2> SUFFICES ASSUME NEW s \in Stream PROVE 0 <= Len(script[s])
    BY <1>1
  <2>1. script[s] \in Seq([kind : {"item", "mark", "end"}, time : Nat])
    BY <1>1, NutAssumption DEF Stream
  <2> QED BY <2>1
<1>3. \A s \in Stream : held[s] \in Seq(Nat) /\ held[s] = <<>> BY <1>1
<1>4. queue \in Seq(Stream \X Nat) /\ DOMAIN queue = {} BY <1>1
<1>5. written \in Seq([stream : Stream, nth : Nat, kind : {"item", "mark"}, at : Nat])
  BY <1>1
<1>6. held \in [Stream -> Seq(Nat)] /\ \A s \in Stream : DOMAIN held[s] = {}
  BY <1>1, <1>3
<1>7. TypeOK BY <1>1, <1>2, <1>4, <1>5, <1>6 DEF TypeOK
<1>8. LastIsNewest /\ NeverStepsBack BY <1>1 DEF LastIsNewest, NeverStepsBack
<1> QED BY <1>7, <1>8 DEF NutInvariant

LEMMA HandOnKeeps ==
  ASSUME NutInvariant, NEW s \in Stream, HandOn(s)
  PROVE  NutInvariant'
<1> USE DEF NutInvariant
<1>1. /\ handed' \in [Stream -> Nat] /\ until' \in [Stream -> Nat]
      /\ \A r \in Stream : /\ handed[r] <= handed'[r]
                           /\ handed'[r] <= until'[r] /\ until'[r] <= Len(script[r])
      /\ handed'[s] = handed[s] + 1
  BY HandedGrows
<1>2. UNCHANGED <<script, taken, held, settled, ended, last, written, outcome>>
  BY DEF HandOn
<1>3. \A r \in Stream : 1 .. handed[r] \subseteq 1 .. handed'[r]
  <2> SUFFICES ASSUME NEW r \in Stream PROVE 1 .. handed[r] \subseteq 1 .. handed'[r]
    OBVIOUS
  <2>1. handed[r] \in Nat /\ handed'[r] \in Nat /\ handed[r] <= handed'[r]
    BY <1>1 DEF TypeOK
  <2> QED BY <2>1
<1>4. /\ queue' \in Seq(Stream \X Nat)
      /\ \A i \in DOMAIN queue' : queue'[i][2] \in 1 .. handed'[queue'[i][1]]
  <2>1. queue' = queue \/ queue' = Append(queue, <<s, handed[s] + 1>>)
    BY DEF HandOn
  <2>2. /\ queue \in Seq(Stream \X Nat) /\ handed \in [Stream -> Nat]
        /\ \A i \in DOMAIN queue : queue[i][2] \in 1 .. handed[queue[i][1]]
    BY DEF TypeOK
  <2>3. CASE queue' = queue
    <3> SUFFICES ASSUME NEW i \in DOMAIN queue
                 PROVE  queue[i][2] \in 1 .. handed'[queue[i][1]]
      BY <2>2, <2>3
    <3>1. queue[i][1] \in Stream BY <2>2
    <3>2. queue[i][2] \in 1 .. handed[queue[i][1]] BY <2>2
    <3> QED BY <3>1, <3>2, <1>3
  <2>4. CASE queue' = Append(queue, <<s, handed[s] + 1>>)
    <3>1. queue' \in Seq(Stream \X Nat) BY <2>2, <2>4
    <3> SUFFICES ASSUME NEW i \in DOMAIN queue'
                 PROVE  queue'[i][2] \in 1 .. handed'[queue'[i][1]]
      BY <3>1
    <3>2. CASE i = Len(queue) + 1
      <4>1. queue'[i] = <<s, handed[s] + 1>> BY <2>2, <2>4, <3>2
      <4> QED BY <4>1, <1>1, <2>2
    <3>3. CASE i \in 1 .. Len(queue)
      <4>1. queue'[i] = queue[i] BY <2>2, <2>4, <3>3
      <4>2. queue[i][1] \in Stream BY <2>2, <3>3
      <4>3. queue[i][2] \in 1 .. handed[queue[i][1]] BY <2>2, <3>3
      <4> QED BY <4>1, <4>2, <4>3, <1>3
    <3> QED BY <3>2, <3>3, <2>2, <2>4
  <2> QED BY <2>1, <2>3, <2>4
<1>5. \A r \in Stream : \A i \in DOMAIN held'[r] : held'[r][i] \in Handed(r)'
  <2> SUFFICES ASSUME NEW r \in Stream, NEW i \in DOMAIN held[r]
               PROVE  held[r][i] \in Handed(r)'
    BY <1>2
  <2>1. held[r][i] \in Handed(r) BY DEF TypeOK
  <2>2. Handed(r) \subseteq Handed(r)'
    BY <1>2, <1>3 DEF Handed, Ends, At
  <2> QED BY <2>1, <2>2
<1>6. TypeOK' BY <1>1, <1>2, <1>4, <1>5 DEF TypeOK
<1>7. LastIsNewest' /\ NeverStepsBack'
  BY <1>2 DEF LastIsNewest, NeverStepsBack
<1> QED BY <1>6, <1>7

LEMMA TakeKeeps == NutInvariant /\ Take => NutInvariant'
<1> SUFFICES ASSUME NutInvariant, Take PROVE NutInvariant' OBVIOUS
<1> USE DEF NutInvariant
<1> DEFINE s == Head(queue)[1]
           n == Head(queue)[2]
<1>1. UNCHANGED <<script, handed, until, last, written, outcome>> BY DEF Take
<1>2. /\ queue \in Seq(Stream \X Nat) /\ queue # <<>>
      /\ \A i \in DOMAIN queue : queue[i][2] \in 1 .. handed[queue[i][1]]
  BY DEF Take, TypeOK
<1>3. Head(queue) = queue[1] /\ 1 \in DOMAIN queue BY <1>2
<1>4. s \in Stream /\ n \in 1 .. handed[s] BY <1>2, <1>3
<1>5. n \in 1 .. Len(script[s])
  <2>1. script[s] \in Seq([kind : {"item", "mark", "end"}, time : Nat])
    BY <1>4, NutAssumption DEF TypeOK, Stream
  <2>2. Len(script[s]) \in Nat BY <2>1
  <2>3. /\ handed[s] \in Nat /\ until[s] \in Nat
        /\ handed[s] <= until[s] /\ until[s] <= Len(script[s])
    BY <1>4 DEF TypeOK
  <2> QED BY <1>4, <2>2, <2>3
<1>6. TimeOf(s, n) \in Nat BY <1>4, <1>5, ScriptEntry DEF TypeOK, TimeOf
<1>7. /\ queue' \in Seq(Stream \X Nat)
      /\ \A i \in DOMAIN queue' : queue'[i][2] \in 1 .. handed[queue'[i][1]]
  <2>1. queue' = Tail(queue) BY DEF Take
  <2> QED BY <1>2, <2>1
<1>8. TypeOK'
  <2>1. CASE Ends(s, n)
    <3>1. ended' = [ended EXCEPT ![s] = TRUE] /\ UNCHANGED <<settled, held>>
      BY <2>1 DEF Take
    <3>2. \A r \in Stream : \A i \in DOMAIN held'[r] : held'[r][i] \in Handed(r)'
      BY <3>1, <1>1 DEF TypeOK, Handed, Ends, At
    <3> QED BY <3>1, <3>2, <1>1, <1>7 DEF TypeOK, Take
  <2>2. CASE ~Ends(s, n)
    <3>1. /\ settled' = [settled EXCEPT ![s] = Max({settled[s], TimeOf(s, n)})]
          /\ held' = [held EXCEPT ![s] = Append(held[s], n)]
          /\ UNCHANGED ended
      BY <2>2 DEF Take
    <3>2. settled' \in [Stream -> Nat \cup {None}]
      <4>1. settled[s] \in Nat \cup {None} BY <1>4 DEF TypeOK
      <4>2. Max({settled[s], TimeOf(s, n)}) \in Nat \cup {None}
        <5>1. settled[s] \in Int /\ TimeOf(s, n) \in Int BY <4>1, <1>6 DEF None
        <5>2. Max({settled[s], TimeOf(s, n)}) \in {settled[s], TimeOf(s, n)}
          BY <5>1, MaxOfTwo
        <5> QED BY <4>1, <1>6, <5>2
      <4> QED BY <4>2, <3>1 DEF TypeOK
    <3>3. held' \in [Stream -> Seq(Nat)]
      <4>1. held[s] \in Seq(Nat) /\ n \in Nat BY <1>4 DEF TypeOK
      <4>2. Append(held[s], n) \in Seq(Nat) BY <4>1
      <4>3. held \in [Stream -> Seq(Nat)] BY DEF TypeOK
      <4> QED BY <3>1, <4>2, <4>3
    <3>4. \A r \in Stream : \A i \in DOMAIN held'[r] : held'[r][i] \in Handed(r)'
      <4> SUFFICES ASSUME NEW r \in Stream, NEW i \in DOMAIN held'[r]
                   PROVE  held'[r][i] \in Handed(r)
        BY <1>1 DEF Handed, Ends, At
      <4>1. CASE r # s BY <4>1, <3>1 DEF TypeOK
      <4>2. CASE r = s
        <5>1. held[s] \in Seq(Nat) BY <1>4 DEF TypeOK
        <5>2. held'[s] = Append(held[s], n) BY <3>1, <1>4 DEF TypeOK
        <5>3. n \in Handed(s) BY <1>4, <2>2 DEF Handed
        <5>4. \A k \in 1 .. Len(held[s]) : held[s][k] \in Handed(s)
          <6>1. \A q \in Stream : \A k \in DOMAIN held[q] : held[q][k] \in Handed(q)
            BY DEF TypeOK
          <6>2. \A k \in DOMAIN held[s] : held[s][k] \in Handed(s) BY <1>4, <6>1
          <6>3. DOMAIN held[s] = 1 .. Len(held[s]) BY <5>1
          <6> QED BY <6>2, <6>3
        <5>5. /\ Len(held'[s]) = Len(held[s]) + 1
              /\ DOMAIN held'[s] = 1 .. Len(held[s]) + 1
              /\ \A k \in 1 .. Len(held[s]) : held'[s][k] = held[s][k]
              /\ held'[s][Len(held[s]) + 1] = n
          BY <5>1, <5>2, <1>4
        <5>6. Len(held[s]) \in Nat BY <5>1
        <5> QED BY <4>2, <5>3, <5>4, <5>5, <5>6
      <4> QED BY <4>1, <4>2
    <3> QED BY <3>1, <3>2, <3>3, <3>4, <1>1, <1>7 DEF TypeOK, Take
  <2> QED BY <2>1, <2>2
<1>9. LastIsNewest' /\ NeverStepsBack' BY <1>1 DEF LastIsNewest, NeverStepsBack
<1> QED BY <1>8, <1>9

\* The front of a track is an item or a mark with a time.
LEMMA FrontHeld ==
  ASSUME TypeOK, NEW s \in Stream, held[s] # <<>>
  PROVE  /\ Head(held[s]) \in Nat
         /\ At(s, Head(held[s])).kind \in {"item", "mark"}
         /\ FrontTime(s) \in Nat
         /\ Tail(held[s]) \in Seq(Nat)
         /\ \A i \in DOMAIN Tail(held[s]) : Tail(held[s])[i] \in Handed(s)
<1>1. /\ held[s] \in Seq(Nat)
      /\ \A i \in DOMAIN held[s] : held[s][i] \in Handed(s)
  BY DEF TypeOK
<1>2. Head(held[s]) = held[s][1] /\ 1 \in DOMAIN held[s] BY <1>1
<1>3. Head(held[s]) \in Handed(s) BY <1>1, <1>2
<1>4. Head(held[s]) \in 1 .. Len(script[s])
  <2>1. script[s] \in Seq([kind : {"item", "mark", "end"}, time : Nat])
    BY NutAssumption DEF TypeOK, Stream
  <2>2. Len(script[s]) \in Nat BY <2>1
  <2>3. /\ handed[s] \in Nat /\ until[s] \in Nat
        /\ handed[s] <= until[s] /\ until[s] <= Len(script[s])
    BY DEF TypeOK
  <2> QED BY <1>3, <2>2, <2>3 DEF Handed
<1>5. /\ At(s, Head(held[s])).time \in Nat
      /\ At(s, Head(held[s])).kind \in {"item", "mark", "end"}
  BY <1>4, ScriptEntry DEF TypeOK
<1>6. At(s, Head(held[s])).kind # "end" BY <1>3 DEF Handed, Ends
<1>7. /\ Tail(held[s]) \in Seq(Nat)
      /\ \A i \in DOMAIN Tail(held[s]) : Tail(held[s])[i] \in Handed(s)
  BY <1>1
<1>8. Head(held[s]) \in Nat BY <1>1, <1>2
<1> QED BY <1>5, <1>6, <1>7, <1>8 DEF FrontTime, TimeOf

\* A packet is placed at or past its own time and its data stream's timeline.
LEMMA Placed ==
  ASSUME TypeOK, NEW s \in Stream, NEW t \in Nat
  PROVE  /\ Place(s, t) \in Nat /\ Place(s, t) >= t
         /\ s \in Data => Place(s, t) >= last[s]
<1>1. last[s] \in Nat \cup {None} /\ last[s] \in Int BY DEF TypeOK, None
<1>2. /\ Max({t, last[s]}) \in {t, last[s]}
      /\ Max({t, last[s]}) >= t /\ Max({t, last[s]}) >= last[s]
  <2>1. t \in Int /\ last[s] \in Int BY <1>1
  <2> QED BY <2>1, MaxOfTwo
<1>3. Max({t, last[s]}) \in Nat
  <2>1. \A m \in {t, last[s]} : m >= t => m \in Nat BY <1>1
  <2> QED BY <1>2, <2>1
<1> QED BY <1>2, <1>3 DEF Place

LEMMA WriteKeeps == NutInvariant /\ Write => NutInvariant'
<1> SUFFICES ASSUME NutInvariant, Write PROVE NutInvariant' OBVIOUS
<1> USE DEF NutInvariant
<1>1. PICK s \in Writable : WriteOne(s) /\ held' = [held EXCEPT ![s] = Tail(held[s])]
  BY DEF Write
<1>2. UNCHANGED <<script, handed, until, queue, taken, settled, ended, outcome>>
  BY DEF Write
<1>3. s \in Stream /\ held[s] # <<>> BY DEF Writable
<1> DEFINE n == Head(held[s])
           t == Place(s, FrontTime(s))
           packet == [stream |-> s, nth |-> n, kind |-> At(s, n).kind, at |-> t]
           Packet == [stream : Stream, nth : Nat, kind : {"item", "mark"}, at : Nat]
<1>4. /\ n \in Nat /\ At(s, n).kind \in {"item", "mark"} /\ FrontTime(s) \in Nat
      /\ Tail(held[s]) \in Seq(Nat)
      /\ \A i \in DOMAIN Tail(held[s]) : Tail(held[s])[i] \in Handed(s)
  BY <1>3, FrontHeld
<1>5. t \in Nat /\ t >= FrontTime(s) /\ (s \in Data => t >= last[s])
  BY <1>3, <1>4, Placed
<1>6. packet \in Packet BY <1>3, <1>4, <1>5
<1>7. /\ held' \in [Stream -> Seq(Nat)]
      /\ \A r \in Stream : \A i \in DOMAIN held'[r] : held'[r][i] \in Handed(r)'
  <2>1. held \in [Stream -> Seq(Nat)]
        /\ \A r \in Stream : \A i \in DOMAIN held[r] : held[r][i] \in Handed(r)
    BY DEF TypeOK
  <2>2. held' \in [Stream -> Seq(Nat)] BY <1>1, <1>4, <2>1
  <2>3. \A r \in Stream : Handed(r)' = Handed(r) BY <1>2 DEF Handed, Ends, At
  <2>4. \A r \in Stream : r # s => held'[r] = held[r] BY <1>1, <2>1
  <2>5. held'[s] = Tail(held[s]) BY <1>1, <1>3, <2>1
  <2> QED BY <1>4, <2>1, <2>2, <2>3, <2>4, <2>5
<1>8. CASE UNCHANGED <<written, last>>
  <2>1. TypeOK' BY <1>2, <1>7, <1>8 DEF TypeOK
  <2>2. LastIsNewest' /\ NeverStepsBack' BY <1>8 DEF LastIsNewest, NeverStepsBack
  <2> QED BY <2>1, <2>2
<1>9. CASE /\ written' = Append(written, packet)
           /\ last' = IF s \in Data THEN [last EXCEPT ![s] = t] ELSE last
           /\ IsItem(s, n) \/ Due(s, FrontTime(s))
  <2>1. written \in Seq(Packet) /\ last \in [Stream -> Nat \cup {None}] BY DEF TypeOK
  <2>2. last' \in [Stream -> Nat \cup {None}] BY <1>5, <1>9, <2>1
  <2>3. written' \in Seq(Packet)
    <3> HIDE DEF packet, Packet
    <3> QED BY <1>6, <1>9, <2>1
  <2>4. /\ Len(written) \in Nat
        /\ DOMAIN written = 1 .. Len(written)
        /\ DOMAIN written' = 1 .. Len(written) + 1
        /\ \A i \in 1 .. Len(written) : written'[i] = written[i]
        /\ written'[Len(written) + 1] = packet
    <3> HIDE DEF packet, Packet
    <3> QED BY <1>6, <1>9, <2>1
  <2>5. \A i \in 1 .. Len(written) : written[i] \in Packet
    <3> HIDE DEF Packet
    <3> QED BY <2>1, <2>4, ElementOfSeq
  <2>6. TypeOK' BY <1>2, <1>7, <2>2, <2>3 DEF TypeOK
  <2>7. \A r \in Stream : r \in Data => last[r] <= last'[r]
    <3> SUFFICES ASSUME NEW r \in Stream, r \in Data PROVE last[r] <= last'[r] OBVIOUS
    <3>1. last[r] \in Int BY <2>1 DEF None
    <3>2. CASE r = s BY <3>1, <3>2, <1>5, <1>9, <2>1
    <3>3. CASE r # s BY <3>1, <3>3, <1>9, <2>1
    <3> QED BY <3>2, <3>3
  <2>8. LastIsNewest'
    <3> SUFFICES ASSUME NEW i \in 1 .. Len(written) + 1, written'[i].stream \in Data
                 PROVE  written'[i].at <= last'[written'[i].stream]
      BY <2>4 DEF LastIsNewest
    <3>1. CASE i = Len(written) + 1
      <4>1. written'[i] = packet BY <2>4, <3>1
      <4>2. packet.stream = s /\ packet.at = t OBVIOUS
      <4>3. s \in Data BY <4>1, <4>2
      <4>4. last'[s] = t BY <1>3, <1>9, <2>1, <4>3
      <4> QED BY <1>5, <4>1, <4>2, <4>4
    <3>2. CASE i \in 1 .. Len(written)
      <4>1. written'[i] = written[i] /\ written[i].stream \in Stream /\ written[i].at \in Nat
        BY <2>4, <2>5, <3>2
      <4>2. written[i].at <= last[written[i].stream]
        BY <2>4, <3>2, <4>1 DEF LastIsNewest
      <4>3. last[written[i].stream] <= last'[written[i].stream] BY <2>7, <4>1
      <4>4. last[written[i].stream] \in Int /\ last'[written[i].stream] \in Int
        BY <2>1, <2>2, <4>1 DEF None
      <4> QED BY <4>1, <4>2, <4>3, <4>4
    <3> QED BY <2>4, <3>1, <3>2
  <2>9. NeverStepsBack'
    <3> SUFFICES ASSUME NEW i \in 1 .. Len(written) + 1, NEW j \in 1 .. i - 1,
                        written'[i].stream = written'[j].stream,
                        written'[i].stream \in Data
                 PROVE  /\ written'[j].at <= written'[i].at
                        /\ written'[i].kind = "mark" => written'[j].at < written'[i].at
      BY <2>4 DEF NeverStepsBack
    <3>1. j \in 1 .. Len(written) /\ written'[j] = written[j] BY <2>4
    <3>2. written[j].at \in Nat BY <2>5, <3>1
    <3>3. CASE i \in 1 .. Len(written)
      <4>1. written'[i] = written[i] BY <2>4, <3>3
      <4> QED BY <2>4, <3>1, <3>3, <4>1 DEF NeverStepsBack
    <3>4. CASE i = Len(written) + 1
      <4>1. written'[i] = packet BY <2>4, <3>4
      <4>2. /\ packet.stream = s /\ packet.at = t
            /\ packet.kind = At(s, n).kind
        OBVIOUS
      <4>3. s \in Data /\ written[j].stream = s BY <3>1, <4>1, <4>2
      <4>4. written[j].at <= last[s] BY <2>4, <3>1, <4>3 DEF LastIsNewest
      <4>5. last[s] \in Int BY <1>3, <2>1 DEF None
      <4>6. written[j].at <= t BY <1>5, <3>2, <4>3, <4>4, <4>5
      <4>7. ASSUME At(s, n).kind = "mark" PROVE written[j].at < t
        <5>1. Due(s, FrontTime(s)) BY <1>9, <4>7 DEF IsItem
        <5>2. last[s] # None BY <3>2, <4>4 DEF None
        <5>3. FrontTime(s) - last[s] >= Every /\ Every \in Nat \ {0}
          BY <5>1, <5>2, NutAssumption DEF Due
        <5>4. last[s] < FrontTime(s) BY <5>3, <1>4, <4>5
        <5> QED BY <5>4, <1>4, <1>5, <3>2, <4>4, <4>5
      <4> QED BY <3>1, <4>1, <4>2, <4>6, <4>7
    <3> QED BY <2>4, <3>3, <3>4
  <2> QED BY <2>6, <2>8, <2>9
<1> QED BY <1>1, <1>8, <1>9 DEF WriteOne

\* The steps that write nothing and hand nothing on.
LEMMA OthersKeep == NutInvariant /\ (Idle \/ Finish \/ Break \/ UNCHANGED vars) => NutInvariant'
<1> SUFFICES ASSUME NutInvariant, Idle \/ Finish \/ Break \/ UNCHANGED vars
             PROVE  NutInvariant'
  OBVIOUS
<1> USE DEF NutInvariant
<1>1. UNCHANGED <<script, handed, until, held, settled, ended, last, written>>
  BY DEF Idle, Finish, Break, vars
<1>2. /\ queue' \in {queue, <<>>}
      /\ taken' \in BOOLEAN
      /\ outcome' \in {"writing", "done", "closed"}
  BY DEF Idle, Finish, Break, vars, TypeOK
<1>3. /\ queue' \in Seq(Stream \X Nat)
      /\ \A i \in DOMAIN queue' : queue'[i][2] \in 1 .. handed[queue'[i][1]]
  <2>1. CASE queue' = queue BY <2>1 DEF TypeOK
  <2>2. CASE queue' = <<>>
    <3>1. DOMAIN queue' = {} BY <2>2
    <3> QED BY <2>2, <3>1
  <2> QED BY <1>2, <2>1, <2>2
<1>4. \A s \in Stream : Handed(s)' = Handed(s) BY <1>1 DEF Handed, Ends, At
<1>5. TypeOK' BY <1>1, <1>2, <1>3, <1>4 DEF TypeOK
<1>6. LastIsNewest' /\ NeverStepsBack' BY <1>1 DEF LastIsNewest, NeverStepsBack
<1> QED BY <1>5, <1>6

LEMMA NutNextKeeps == NutInvariant /\ [Next]_vars => NutInvariant'
<1> SUFFICES ASSUME NutInvariant, [Next]_vars PROVE NutInvariant' OBVIOUS
<1>1. CASE \E s \in Stream : HandOn(s) BY <1>1, HandOnKeeps
<1>2. CASE Take BY <1>2, TakeKeeps
<1>3. CASE Write BY <1>3, WriteKeeps
<1>4. CASE Idle \/ Finish \/ Break BY <1>4, OthersKeep
<1>5. CASE Over \/ UNCHANGED vars BY <1>5, OthersKeep DEF Over
<1> QED BY <1>1, <1>2, <1>3, <1>4, <1>5 DEF Next, Writer

\* In every reachable state of an output the invariant holds.
THEOREM NutSafe == Spec => []NutInvariant
<1>1. Init => NutInvariant BY InitHolds
<1>2. NutInvariant /\ [Next]_vars => NutInvariant' BY NutNextKeeps
<1> QED BY <1>1, <1>2, PTL DEF Spec

\* What is queued and held is what was handed on, and every packet has a
\* stream and a time (write_nut).
THEOREM NutTypesKept == Spec => []TypeOK
BY NutSafe, PTL DEF NutInvariant

\* A data stream as written never steps back, and a heartbeat is ahead of all
\* that was written before it, however late its messages come (Beats).
THEOREM StreamsNeverStepBack == Spec => []NeverStepsBack
BY NutSafe, PTL DEF NutInvariant

-----------------------------------------------------------------------------
(* Least elements and largest values: induction over positions.            *)

\* A set of naturals has a least element.
LEMMA Least ==
  ASSUME NEW T \in SUBSET Nat, T # {}
  PROVE  \E x \in T : \A y \in T : x <= y
<1> DEFINE R == OpToRel(<, Nat)
<1>1. \E x \in T : \A y \in T : ~ (<<y, x>> \in R)
  <2>1. IsWellFoundedOn(R, Nat)
    BY NatLessThanWellFounded
  <2> HIDE DEF R
  <2> QED BY <2>1, WFMin
<1>2. \A x, y \in Nat : <<y, x>> \in R <=> y < x
  BY DEF OpToRel
<1> HIDE DEF R
<1>3. PICK x \in T : \A y \in T : ~ (<<y, x>> \in R)
  BY <1>1
<1>4. \A y \in T : y \in Nat /\ x \in Nat /\ ~(y < x)
  BY <1>2, <1>3
<1> QED BY <1>4

\* The largest of finitely many values is one of them.
LEMMA MaxOf ==
  ASSUME NEW n \in Nat \ {0}, NEW f, \A k \in 1 .. n : f[k] \in Nat
  PROVE  /\ \E k \in 1 .. n : Max({f[j] : j \in 1 .. n}) = f[k]
         /\ \A k \in 1 .. n : f[k] <= Max({f[j] : j \in 1 .. n})
<1> DEFINE Bounds(m) == {b \in Nat : \A k \in 1 .. m : f[k] <= b}
           Bad == {m \in 1 .. n : Bounds(m) = {}}
<1>1. Bad = {}
  <2> SUFFICES ASSUME Bad # {} PROVE FALSE
    OBVIOUS
  <2>0. Bad \in SUBSET Nat
    OBVIOUS
  <2>1. PICK m \in Bad : \A y \in Bad : m <= y
    <3> HIDE DEF Bad
    <3> QED BY <2>0, Least
  <2>2. CASE m = 1
    <3>1. f[1] \in Bounds(1)
      OBVIOUS
    <3> QED BY <2>2, <3>1
  <2>3. CASE m # 1
    <3>0. m \in 1 .. n /\ m - 1 \in 1 .. n
      BY <2>3
    <3>1. m - 1 \in 1 .. n /\ m - 1 \notin Bad
      <4> HIDE DEF Bad
      <4> QED BY <2>1, <3>0
    <3>2. PICK b \in Nat : \A k \in 1 .. m - 1 : f[k] <= b
      BY <3>1
    <3>3. f[m] \in Nat
      OBVIOUS
    <3>4. CASE f[m] <= b
      <4>1. \A k \in 1 .. m : f[k] <= b
        BY <3>0, <3>2, <3>3, <3>4
      <4> QED BY <4>1
    <3>5. CASE ~(f[m] <= b)
      <4>1. \A k \in 1 .. m : f[k] <= f[m]
        BY <3>0, <3>2, <3>3, <3>5
      <4> QED BY <3>3, <4>1
    <3> QED BY <3>4, <3>5
  <2> QED BY <2>2, <2>3
<1>2. PICK b \in Bounds(n) : \A c \in Bounds(n) : b <= c
  <2>1. n \in 1 .. n /\ Bounds(n) # {}
    BY <1>1
  <2> HIDE DEF Bounds
  <2>2. Bounds(n) \in SUBSET Nat
    BY DEF Bounds
  <2> QED BY <2>1, <2>2, Least
<1>3. \E k \in 1 .. n : f[k] = b
  <2> SUFFICES ASSUME \A k \in 1 .. n : f[k] # b PROVE FALSE
    OBVIOUS
  <2>1. f[1] \in Nat /\ f[1] <= b /\ b \in Nat
    BY <1>2
  <2>3. \A k \in 1 .. n : f[k] \in Nat /\ f[k] <= b /\ f[k] # b
    BY <1>2
  <2>4. \A k \in 1 .. n : f[k] <= b - 1
    BY <2>1, <2>3
  <2>5. f[1] # b
    OBVIOUS
  <2>2. b - 1 \in Bounds(n)
    BY <2>1, <2>4, <2>5
  <2> QED BY <1>2, <2>1, <2>2
<1>4. Max({f[j] : j \in 1 .. n}) \in {f[j] : j \in 1 .. n}
      /\ \A y \in {f[j] : j \in 1 .. n} : Max({f[j] : j \in 1 .. n}) >= y
  <2>1. \E x \in {f[j] : j \in 1 .. n} : \A y \in {f[j] : j \in 1 .. n} : x >= y
    BY <1>2, <1>3
  <2> QED BY <2>1 DEF Max
<1> QED BY <1>4

\* What a stream has reached is the time of something it said, and no less than
\* anything it said.
LEMMA ReachedIsSaid ==
  ASSUME script \in Scripts, NEW s \in Stream, NEW n \in 1 .. Len(script[s])
  PROVE  /\ Reached(s, n) \in Nat
         /\ \E k \in 1 .. n : Reached(s, n) = TimeOf(s, k)
         /\ \A k \in 1 .. n : TimeOf(s, k) <= Reached(s, n)
<1>0. Len(script[s]) \in Nat
  BY NutAssumption DEF Stream
<1> DEFINE f == [k \in 1 .. n |-> At(s, k).time]
<1>1. \A k \in 1 .. n : k \in 1 .. Len(script[s])
  BY <1>0
<1>2. \A k \in 1 .. n : f[k] = At(s, k).time /\ f[k] \in Nat
  BY <1>1, ScriptEntry
<1>3. {f[k] : k \in 1 .. n} = {At(s, k).time : k \in 1 .. n}
  BY <1>2
<1>4. n \in Nat \ {0}
  BY <1>0
<1>5. Reached(s, n) = Max({f[k] : k \in 1 .. n})
  BY <1>3 DEF Reached
<1> HIDE DEF f
<1>6. /\ \E k \in 1 .. n : Reached(s, n) = f[k]
      /\ \A k \in 1 .. n : f[k] <= Reached(s, n)
  BY <1>2, <1>4, <1>5, MaxOf
<1> QED BY <1>2, <1>6 DEF TimeOf

-----------------------------------------------------------------------------
(* What a step does to what is queued and held, as sets.                   *)

LEMMA AppendOf ==
  ASSUME TypeOK, InOrder(queue), NEW s \in Stream, NEW n \in Nat,
         \A p \in Of(queue, s) : p < n
  PROVE  /\ Of(Append(queue, <<s, n>>), s) = Of(queue, s) \cup {n}
         /\ \A r \in Stream \ {s} : Of(Append(queue, <<s, n>>), r) = Of(queue, r)
         /\ InOrder(Append(queue, <<s, n>>))
<1> SUFFICES ASSUME NEW c, c = Append(queue, <<s, n>>)
    PROVE  /\ Of(c, s) = Of(queue, s) \cup {n}
           /\ \A r \in Stream \ {s} : Of(c, r) = Of(queue, r)
           /\ InOrder(c)
  OBVIOUS
<1>1. /\ DOMAIN c = 1 .. Len(queue) + 1 /\ DOMAIN queue = 1 .. Len(queue) /\ Len(queue) \in Nat
      /\ \A i \in 1 .. Len(queue) : c[i] = queue[i]
      /\ c[Len(queue) + 1] = <<s, n>>
  <2>1. queue \in Seq(Stream \X Nat)
    BY DEF TypeOK
  <2> QED BY <2>1
<1> DEFINE N == Len(queue)
<1> HIDE DEF N
<1>2. /\ DOMAIN c = 1 .. N + 1 /\ DOMAIN queue = 1 .. N /\ N \in Nat
      /\ \A i \in 1 .. N : c[i] = queue[i]
      /\ c[N + 1][1] = s /\ c[N + 1][2] = n
  BY <1>1 DEF N
<1>3. Of(c, s) = Of(queue, s) \cup {n} /\ \A r \in Stream \ {s} : Of(c, r) = Of(queue, r)
  BY <1>2 DEF Of
<1>4. InOrder(c)
  <2> SUFFICES ASSUME NEW i \in 1 .. N + 1, NEW j \in 1 .. i - 1, c[i][1] = c[j][1]
               PROVE  c[j][2] < c[i][2]
    BY <1>2 DEF InOrder
  <2>1. CASE i \in 1 .. N
    <3>0. j \in 1 .. N
      BY <1>2, <2>1
    <3>1. i \in DOMAIN queue /\ c[i] = queue[i] /\ c[j] = queue[j]
      BY <1>2, <2>1, <3>0
    <3> QED BY <3>1 DEF InOrder
  <2>2. CASE i = N + 1
    <3>0. j \in 1 .. N
      BY <1>2, <2>2
    <3>1. j \in 1 .. N /\ c[j] = queue[j] /\ queue[j][1] = s
      BY <1>2, <2>2, <3>0
    <3>2. queue[j][2] \in Of(queue, s)
      BY <1>2, <3>1 DEF Of
    <3>3. queue[j][2] < n
      BY <3>2
    <3>4. c[j][2] = queue[j][2] /\ c[i][2] = n
      BY <1>2, <2>2, <3>1
    <3> QED BY <3>3, <3>4
  <2>3. i \in 1 .. N \/ i = N + 1
    BY <1>2
  <2> QED BY <2>1, <2>2, <2>3
<1> QED BY <1>3, <1>4

LEMMA TailOf ==
  ASSUME TypeOK, queue # <<>>, InOrder(queue),
         NEW s, s = Head(queue)[1], NEW n, n = Head(queue)[2]
  PROVE  /\ s \in Stream /\ n \in Of(queue, s)
         /\ Of(Tail(queue), s) = Of(queue, s) \ {n}
         /\ \A p \in Of(queue, s) : n <= p
         /\ \A p \in Of(Tail(queue), s) : n < p
         /\ \A r \in Stream \ {s} : Of(Tail(queue), r) = Of(queue, r)
         /\ InOrder(Tail(queue))
<1> SUFFICES ASSUME NEW c, c = Tail(queue)
    PROVE  /\ s \in Stream /\ n \in Of(queue, s) /\ Of(c, s) = Of(queue, s) \ {n}
           /\ \A p \in Of(queue, s) : n <= p
           /\ \A p \in Of(c, s) : n < p
           /\ \A r \in Stream \ {s} : Of(c, r) = Of(queue, r)
           /\ InOrder(c)
  OBVIOUS
<1> DEFINE N == Len(queue)
<1>1. /\ DOMAIN c = 1 .. N - 1 /\ DOMAIN queue = 1 .. N /\ N \in Nat \ {0}
      /\ \A i \in 1 .. N - 1 : c[i] = queue[i + 1]
      /\ queue[1][1] = s /\ queue[1][2] = n
  <2>0. queue \in Seq(Stream \X Nat)
    BY DEF TypeOK
  <2>1. N \in Nat \ {0} /\ DOMAIN queue = 1 .. N
    BY <2>0
  <2>2. c \in Seq(Stream \X Nat) /\ Len(c) = N - 1 /\ \A i \in 1 .. Len(c) : c[i] = queue[i + 1]
    BY <2>0, HeadTailProperties
  <2> QED BY <2>1, <2>2
<1>0. s \in Stream /\ n \in Nat
  <2>1. queue \in Seq(Stream \X Nat)
    BY DEF TypeOK
  <2>2. Head(queue) \in Stream \X Nat
    BY <2>1
  <2> QED BY <2>2
<1> HIDE DEF N
<1>2. \A i \in 2 .. N : queue[i][1] = s => n < queue[i][2]
  <2> SUFFICES ASSUME NEW i \in 2 .. N, queue[i][1] = s PROVE n < queue[i][2]
    OBVIOUS
  <2>1. i \in DOMAIN queue /\ 1 \in 1 .. i - 1 /\ queue[i][1] = queue[1][1]
    BY <1>1
  <2>2. queue[1][2] < queue[i][2]
    BY <2>1 DEF InOrder
  <2> QED BY <1>1, <2>2
<1>3. n \in Of(queue, s)
  BY <1>1 DEF Of
<1>4. \A r : \A p \in Of(c, r) : \E i \in 2 .. N : queue[i][1] = r /\ p = queue[i][2]
  <2> SUFFICES ASSUME NEW r, NEW p \in Of(c, r)
               PROVE  \E i \in 2 .. N : queue[i][1] = r /\ p = queue[i][2]
    OBVIOUS
  <2>1. PICK i \in 1 .. N - 1 : c[i][1] = r /\ p = c[i][2]
    BY <1>1 DEF Of
  <2>2. i + 1 \in 2 .. N /\ c[i] = queue[i + 1]
    BY <1>1
  <2> QED BY <2>1, <2>2
<1>5. \A r : \A i \in 2 .. N : queue[i][1] = r => queue[i][2] \in Of(c, r)
  <2> SUFFICES ASSUME NEW r, NEW i \in 2 .. N, queue[i][1] = r PROVE queue[i][2] \in Of(c, r)
    OBVIOUS
  <2>1. i - 1 \in 1 .. N - 1 /\ c[i - 1] = queue[i]
    BY <1>1
  <2> QED BY <1>1, <2>1 DEF Of
<1>6. \A p \in Of(c, s) : n < p
  <2> SUFFICES ASSUME NEW p \in Of(c, s) PROVE n < p
    OBVIOUS
  <2>1. PICK i \in 2 .. N : queue[i][1] = s /\ p = queue[i][2]
    BY <1>4
  <2> QED BY <1>2, <2>1
<1>7. \A r : \A p \in Of(queue, r) : (r = s /\ p = n) \/ \E i \in 2 .. N : queue[i][1] = r /\ p = queue[i][2]
  BY <1>1 DEF Of
<1>8. \A r : Of(c, r) \subseteq Of(queue, r)
  BY <1>1, <1>4 DEF Of
<1>9. n \notin Of(c, s)
  BY <1>0, <1>6
<1>10. Of(c, s) = Of(queue, s) \ {n}
  BY <1>5, <1>7, <1>8, <1>9
<1>11. \A r \in Stream \ {s} : Of(c, r) = Of(queue, r)
  <2> SUFFICES ASSUME NEW r \in Stream \ {s}, NEW p \in Of(queue, r) PROVE p \in Of(c, r)
    BY <1>8
  <2>1. PICK i \in 2 .. N : queue[i][1] = r /\ p = queue[i][2]
    BY <1>7
  <2> QED BY <1>5, <2>1
<1>12. InOrder(c)
  <2> SUFFICES ASSUME NEW i \in 1 .. N - 1, NEW j \in 1 .. i - 1, c[i][1] = c[j][1]
               PROVE  c[j][2] < c[i][2]
    BY <1>1 DEF InOrder
  <2>1. i + 1 \in DOMAIN queue /\ j + 1 \in 1 .. (i + 1) - 1 /\ j \in 1 .. N - 1
    BY <1>1
  <2>2. c[i] = queue[i + 1] /\ c[j] = queue[j + 1]
    BY <1>1, <2>1
  <2> QED BY <2>1, <2>2 DEF InOrder
<1>13. \A p \in Of(queue, s) : n <= p
  <2> SUFFICES ASSUME NEW p \in Of(queue, s) PROVE n <= p
    OBVIOUS
  <2>1. CASE p = n
    BY <1>0, <2>1
  <2>2. ASSUME NEW i \in 2 .. N, queue[i][1] = s, p = queue[i][2] PROVE n <= p
    <3>1. queue \in Seq(Stream \X Nat) /\ i \in 1 .. N
      BY <1>1 DEF TypeOK
    <3>2. p \in Nat
      BY <1>1, <2>2, <3>1
    <3> QED BY <1>0, <1>2, <2>2, <3>2
  <2> QED BY <1>7, <2>1, <2>2
<1> QED BY <1>0, <1>3, <1>6, <1>10, <1>11, <1>12, <1>13

LEMMA AppendHand ==
  ASSUME NEW h \in Seq(Nat), NEW n \in Nat, Rising(h), \A p \in Range(h) : p < n
  PROVE  Range(Append(h, n)) = Range(h) \cup {n} /\ Rising(Append(h, n))
<1> SUFFICES ASSUME NEW c, c = Append(h, n)
             PROVE  Range(c) = Range(h) \cup {n} /\ Rising(c)
  OBVIOUS
<1> DEFINE N == Len(h)
<1>1. /\ DOMAIN c = 1 .. N + 1 /\ DOMAIN h = 1 .. N /\ N \in Nat
      /\ \A i \in 1 .. N : c[i] = h[i]
      /\ c[N + 1] = n
  OBVIOUS
<1> HIDE DEF N
<1>2. Range(c) = Range(h) \cup {n}
  BY <1>1 DEF Range
<1>3. Rising(c)
  <2> SUFFICES ASSUME NEW i \in 1 .. N + 1, NEW j \in 1 .. i - 1 PROVE c[j] < c[i]
    BY <1>1 DEF Rising
  <2>0. j \in 1 .. N /\ c[j] = h[j]
    BY <1>1
  <2>1. CASE i \in 1 .. N
    <3>1. i \in DOMAIN h /\ c[i] = h[i]
      BY <1>1, <2>1
    <3> QED BY <2>0, <3>1 DEF Rising
  <2>2. CASE i = N + 1
    <3>1. h[j] \in Range(h)
      BY <1>1, <2>0 DEF Range
    <3>2. h[j] < n
      BY <3>1
    <3> QED BY <1>1, <2>0, <2>2, <3>2
  <2>3. i \in 1 .. N \/ i = N + 1
    BY <1>1
  <2> QED BY <2>1, <2>2, <2>3
<1> QED BY <1>2, <1>3

LEMMA TailHand ==
  ASSUME NEW h \in Seq(Nat), h # <<>>, Rising(h)
  PROVE  /\ Head(h) \in Range(h) /\ \A p \in Range(h) : Head(h) <= p
         /\ Range(Tail(h)) = Range(h) \ {Head(h)} /\ \A p \in Range(Tail(h)) : Head(h) < p
         /\ Rising(Tail(h))
<1> SUFFICES ASSUME NEW n, n = Head(h), NEW c, c = Tail(h)
    PROVE  /\ n \in Range(h) /\ \A p \in Range(h) : n <= p
           /\ Range(c) = Range(h) \ {n} /\ \A p \in Range(c) : n < p
           /\ Rising(c)
  OBVIOUS
<1> DEFINE N == Len(h)
<1>1. /\ DOMAIN c = 1 .. N - 1 /\ DOMAIN h = 1 .. N /\ N \in Nat \ {0}
      /\ \A i \in 1 .. N - 1 : c[i] = h[i + 1]
      /\ h[1] = n
      /\ \A i \in 1 .. N : h[i] \in Nat
  <2>1. N \in Nat \ {0} /\ DOMAIN h = 1 .. N /\ \A i \in 1 .. N : h[i] \in Nat
    OBVIOUS
  <2>2. c \in Seq(Nat) /\ Len(c) = N - 1 /\ \A i \in 1 .. Len(c) : c[i] = h[i + 1]
    BY HeadTailProperties
  <2> QED BY <2>1, <2>2
<1> HIDE DEF N
<1>2. \A i \in 2 .. N : n < h[i]
  <2> SUFFICES ASSUME NEW i \in 2 .. N PROVE n < h[i]
    OBVIOUS
  <2>1. i \in DOMAIN h /\ 1 \in 1 .. i - 1
    BY <1>1
  <2> QED BY <1>1, <2>1 DEF Rising
<1>3. n \in Range(h) /\ n \in Nat
  BY <1>1 DEF Range
<1>4. \A p \in Range(h) : p = n \/ \E i \in 2 .. N : p = h[i]
  BY <1>1 DEF Range
<1>5. \A p \in Range(c) : \E i \in 2 .. N : p = h[i]
  <2> SUFFICES ASSUME NEW p \in Range(c) PROVE \E i \in 2 .. N : p = h[i]
    OBVIOUS
  <2>1. PICK i \in 1 .. N - 1 : p = c[i]
    BY <1>1 DEF Range
  <2>2. i + 1 \in 2 .. N /\ p = h[i + 1]
    BY <1>1, <2>1
  <2> QED BY <2>2
<1>6. \A i \in 2 .. N : h[i] \in Range(c)
  <2> SUFFICES ASSUME NEW i \in 2 .. N PROVE h[i] \in Range(c)
    OBVIOUS
  <2>1. i - 1 \in DOMAIN c /\ c[i - 1] = h[i]
    BY <1>1
  <2> QED BY <2>1 DEF Range
<1>7. \A p \in Range(h) : p \in Nat /\ n <= p
  BY <1>1, <1>2, <1>3, <1>4
<1>8. \A p \in Range(c) : p \in Nat /\ n < p
  BY <1>1, <1>2, <1>5
<1>9. \A i \in 2 .. N : h[i] \in Range(h)
  BY <1>1 DEF Range
<1>10. Range(c) = Range(h) \ {n}
  <2>1. n \notin Range(c)
    BY <1>3, <1>8
  <2>2. \A p \in Range(c) : p \in Range(h)
    BY <1>5, <1>9
  <2>3. \A p \in Range(h) : p = n \/ p \in Range(c)
    BY <1>4, <1>6
  <2> QED BY <2>1, <2>2, <2>3
<1>11. Rising(c)
  <2> SUFFICES ASSUME NEW i \in 1 .. N - 1, NEW j \in 1 .. i - 1 PROVE c[j] < c[i]
    BY <1>1 DEF Rising
  <2>1. i + 1 \in DOMAIN h /\ j + 1 \in 1 .. (i + 1) - 1 /\ j \in 1 .. N - 1
    BY <1>1
  <2>2. c[i] = h[i + 1] /\ c[j] = h[j + 1]
    BY <1>1, <2>1
  <2> QED BY <2>1, <2>2 DEF Rising
<1> QED BY <1>3, <1>7, <1>8, <1>10, <1>11

\* What is queued and held is of what was handed on.
LEMMA Typed ==
  ASSUME TypeOK, NEW s \in Stream
  PROVE  /\ s \in Nat
         /\ Len(script[s]) \in Nat /\ handed[s] \in Nat /\ until[s] \in Nat
         /\ handed[s] <= until[s] /\ until[s] <= Len(script[s])
         /\ \A p \in InQueue(s) : p \in 1 .. handed[s]
         /\ \A p \in InHand(s) : p \in 1 .. handed[s] /\ ~Ends(s, p)
         /\ \A p \in Pending(s) : p \in 1 .. handed[s]
<1>1. s \in Nat /\ Len(script[s]) \in Nat
  BY NutAssumption DEF TypeOK, Stream
<1>2. /\ handed[s] \in Nat /\ until[s] \in Nat
      /\ handed[s] <= until[s] /\ until[s] <= Len(script[s])
  BY DEF TypeOK
<1>3. \A p \in InQueue(s) : p \in 1 .. handed[s]
  <2> SUFFICES ASSUME NEW p \in InQueue(s) PROVE p \in 1 .. handed[s]
    OBVIOUS
  <2>1. PICK i \in DOMAIN queue : queue[i][1] = s /\ p = queue[i][2]
    BY DEF InQueue, Of
  <2>2. queue[i][2] \in 1 .. handed[queue[i][1]]
    BY DEF TypeOK
  <2> QED BY <2>1, <2>2
<1>4. \A p \in InHand(s) : p \in 1 .. handed[s] /\ ~Ends(s, p)
  <2> SUFFICES ASSUME NEW p \in InHand(s) PROVE p \in Handed(s)
    BY DEF Handed
  <2>1. PICK i \in DOMAIN held[s] : p = held[s][i]
    BY DEF InHand, Range
  <2>2. held[s][i] \in Handed(s)
    BY DEF TypeOK
  <2> QED BY <2>1, <2>2
<1> QED BY <1>1, <1>2, <1>3, <1>4 DEF Pending

\* An entry is an item, a mark or the end, which is the last.
LEMMA OneKind ==
  ASSUME TypeOK, NEW s \in Stream, NEW n \in 1 .. Len(script[s])
  PROVE  /\ TimeOf(s, n) \in Nat
         /\ IsItem(s, n) \/ IsMark(s, n) \/ Ends(s, n)
         /\ ~(IsItem(s, n) /\ IsMark(s, n)) /\ ~(IsItem(s, n) /\ Ends(s, n))
         /\ ~(IsMark(s, n) /\ Ends(s, n))
         /\ Ends(s, n) <=> n = Len(script[s])
<1>1. script \in Scripts
  BY DEF TypeOK
<1>2. At(s, n).time \in Nat /\ At(s, n).kind \in {"item", "mark", "end"}
  BY <1>1, ScriptEntry
<1>3. Ends(s, n) <=> n = Len(script[s])
  BY <1>1, NutAssumption DEF Stream, Ends, At
<1> QED BY <1>2, <1>3 DEF TimeOf, IsItem, IsMark, Ends

-----------------------------------------------------------------------------
(* What a step of the lanes, or of next(), leaves of what is gone.          *)

Forward ==
  \A x \in Stream : \A m \in 1 .. Len(script[x]) :
    /\ Gone(x, m) => Gone(x, m)'
    /\ \A q \in m + 1 .. Len(script[x]) :
         (Gone(x, m)' /\ FirstLeft(x, q)' /\ ~IsMark(x, q)) => Gone(x, m) /\ FirstLeft(x, q)
    /\ (Gone(x, m)' /\ IsItem(x, m)) => Gone(x, m)
    /\ (Gone(x, m)' /\ IsMark(x, m) /\ (m = until'[x] \/ ~IsMark(x, m + 1))) =>
         Gone(x, m) /\ (m = until[x] \/ ~IsMark(x, m + 1))

\* What a step that hands on does: the entry is queued, or left out as a mark
\* that a mark of the same flush supersedes.
LEMMA HandsOne ==
  ASSUME TypeOK, outcome = "writing", InTurn, NEW s \in Stream, HandOn(s),
         NEW n, n = handed[s] + 1
  PROVE  /\ n \in 1 .. Len(script[s]) /\ handed'[s] = n
         /\ until'[s] \in Nat /\ until[s] <= until'[s] /\ n <= until'[s]
         /\ \A r \in Stream \ {s} : /\ handed'[r] = handed[r] /\ until'[r] = until[r]
                                    /\ InQueue(r)' = InQueue(r)
         /\ \A r \in Stream : InHand(r)' = InHand(r) /\ held'[r] = held[r]
         /\ \/ InQueue(s)' = InQueue(s) \cup {n}
            \/ InQueue(s)' = InQueue(s) /\ Superseded(s, n, until'[s])
         /\ InOrder(queue)'
<1>1. PICK to \in FlushTo(s) :
        /\ until' = [until EXCEPT ![s] = to]
        /\ handed' = [handed EXCEPT ![s] = n]
        /\ queue' = IF Superseded(s, n, to) THEN queue ELSE Append(queue, <<s, n>>)
  BY DEF HandOn
<1>2. UNCHANGED <<script, held>>
  BY DEF HandOn
<1>3. handed \in [Stream -> Nat] /\ until \in [Stream -> Nat] /\ queue \in Seq(Stream \X Nat)
  BY DEF TypeOK
<1>4. /\ Len(script[s]) \in Nat /\ handed[s] \in Nat /\ until[s] \in Nat
      /\ handed[s] <= until[s] /\ until[s] <= Len(script[s])
      /\ \A p \in InQueue(s) : p \in 1 .. handed[s]
  BY Typed
<1>5. to \in Nat /\ n <= to /\ to <= Len(script[s]) /\ until[s] <= to
  BY <1>4 DEF FlushTo
<1>6. n \in 1 .. Len(script[s]) /\ handed'[s] = n /\ until'[s] = to
  BY <1>1, <1>3, <1>4, <1>5
<1>7. \A r \in Stream \ {s} : handed'[r] = handed[r] /\ until'[r] = until[r]
  BY <1>1, <1>3
<1>8. \A r \in Stream : InHand(r)' = InHand(r) /\ held'[r] = held[r]
  BY <1>2 DEF InHand
<1>9. CASE Superseded(s, n, to)
  <2>1. queue' = queue
    BY <1>1, <1>9
  <2>2. \A r \in Stream : InQueue(r)' = InQueue(r)
    BY <2>1 DEF InQueue
  <2>3. InOrder(queue)'
    <3>1. InOrder(queue)
      BY DEF InTurn
    <3> QED BY <2>1, <3>1
  <2>4. Superseded(s, n, until'[s])
    BY <1>6, <1>9
  <2> QED BY <1>4, <1>5, <1>6, <1>7, <1>8, <2>2, <2>3, <2>4
<1>10. CASE ~Superseded(s, n, to)
  <2>1. queue' = Append(queue, <<s, n>>) /\ n \in Nat
    BY <1>1, <1>4, <1>10
  <2>2. \A p \in Of(queue, s) : p < n
    BY <1>4 DEF InQueue
  <2>3. /\ Of(queue', s) = Of(queue, s) \cup {n}
        /\ \A r \in Stream \ {s} : Of(queue', r) = Of(queue, r)
        /\ InOrder(queue')
    <3>1. InOrder(queue)
      BY DEF InTurn
    <3>2. n \in Nat
      BY <2>1
    <3> QED BY <2>1, <2>2, <3>1, <3>2, AppendOf, Zenon
  <2>4. InQueue(s)' = InQueue(s) \cup {n} /\ \A r \in Stream \ {s} : InQueue(r)' = InQueue(r)
    BY <2>3 DEF InQueue
  <2>5. InOrder(queue)'
    BY <2>3
  <2> QED BY <1>4, <1>5, <1>6, <1>7, <1>8, <2>4, <2>5
<1> QED BY <1>9, <1>10

\* Of the stream handed on: what is gone of it, and what is left, is what was,
\* but for a mark left out.
LEMMA HandsForward ==
  ASSUME TypeOK, outcome = "writing", InTurn, NEW s \in Stream, HandOn(s)
  PROVE  /\ Forward
         /\ \A x \in Stream : \A m \in 1 .. Len(script[x]) :
              /\ Taken(x, m) => Taken(x, m)'
              /\ Taken(x, m)' => Taken(x, m) \/ (m > handed[x] /\ Superseded(x, m, until'[x]))
              /\ \A q \in m + 1 .. Len(script[x]) :
                   (Taken(x, m)' /\ FirstQueued(x, q)' /\ ~IsMark(x, q)) =>
                     Taken(x, m) /\ FirstQueued(x, q)
              /\ Superseded(x, m, until[x]) => Superseded(x, m, until'[x])
<1> DEFINE n == handed[s] + 1
<1>1. /\ n \in 1 .. Len(script[s]) /\ handed'[s] = n
      /\ until'[s] \in Nat /\ until[s] <= until'[s] /\ n <= until'[s]
      /\ \A r \in Stream \ {s} : /\ handed'[r] = handed[r] /\ until'[r] = until[r]
                                 /\ InQueue(r)' = InQueue(r)
      /\ \A r \in Stream : InHand(r)' = InHand(r)
      /\ \/ InQueue(s)' = InQueue(s) \cup {n}
         \/ InQueue(s)' = InQueue(s) /\ Superseded(s, n, until'[s])
  BY HandsOne
<1>2. script' = script
  BY DEF HandOn
<1> SUFFICES ASSUME NEW x \in Stream, NEW m \in 1 .. Len(script[x])
    PROVE  /\ Gone(x, m) => Gone(x, m)'
           /\ \A q \in m + 1 .. Len(script[x]) :
                (Gone(x, m)' /\ FirstLeft(x, q)' /\ ~IsMark(x, q)) =>
                  Gone(x, m) /\ FirstLeft(x, q)
           /\ (Gone(x, m)' /\ IsItem(x, m)) => Gone(x, m)
           /\ (Gone(x, m)' /\ IsMark(x, m) /\ (m = until'[x] \/ ~IsMark(x, m + 1))) =>
                Gone(x, m) /\ (m = until[x] \/ ~IsMark(x, m + 1))
           /\ Taken(x, m) => Taken(x, m)'
           /\ Taken(x, m)' => Taken(x, m) \/ (m > handed[x] /\ Superseded(x, m, until'[x]))
           /\ \A q \in m + 1 .. Len(script[x]) :
                (Taken(x, m)' /\ FirstQueued(x, q)' /\ ~IsMark(x, q)) =>
                  Taken(x, m) /\ FirstQueued(x, q)
           /\ Superseded(x, m, until[x]) => Superseded(x, m, until'[x])
  BY DEF Forward
<1>3. CASE x # s
  <2>1. /\ handed'[x] = handed[x] /\ until'[x] = until[x]
        /\ InQueue(x)' = InQueue(x) /\ Pending(x)' = Pending(x)
    BY <1>1, <1>3 DEF Pending
  <2>2. /\ Gone(x, m)' <=> Gone(x, m)
        /\ Taken(x, m)' <=> Taken(x, m)
        /\ \A q : FirstLeft(x, q)' <=> FirstLeft(x, q)
        /\ \A q : FirstQueued(x, q)' <=> FirstQueued(x, q)
    BY <1>2, <2>1 DEF Gone, Taken, FirstLeft, FirstQueued, UpToNext
  <2> QED BY <2>1, <2>2
<1>4. CASE x = s
  <2> DEFINE L == Len(script[s])
             h == handed[s]
             to == until'[s]
  <2>0. /\ L \in Nat /\ h \in Nat /\ n = h + 1 /\ n \in 1 .. L /\ m \in 1 .. L
        /\ \A p \in InQueue(s) : p \in 1 .. h
        /\ \A p \in Pending(s) : p \in 1 .. h
        /\ until[s] \in Nat /\ h <= until[s] /\ until[s] <= to /\ to \in Nat /\ n <= to
    BY <1>1, <1>4, Typed
  <2>1. Superseded(s, m, until[s]) => Superseded(s, m, to)
    BY <2>0 DEF Superseded
  <2>2. CASE InQueue(s)' = InQueue(s) \cup {n}
    <3>1. Pending(s)' = Pending(s) \cup {n} /\ handed'[s] = h + 1
      BY <1>1, <2>2 DEF Pending
    <3>2. /\ Gone(s, m)' <=> Gone(s, m)
          /\ Taken(s, m)' <=> Taken(s, m)
      BY <2>0, <2>2, <3>1 DEF Gone, Taken
    <3>3. \A q \in m + 1 .. L : /\ FirstLeft(s, q)' => FirstLeft(s, q)
                                /\ FirstQueued(s, q)' => FirstQueued(s, q)
      BY <1>2, <2>0, <2>2, <3>1 DEF FirstLeft, FirstQueued, UpToNext
    <3>4. Gone(s, m)' => m <= h
      BY <2>0, <3>2 DEF Gone
    <3>5. Gone(s, m)' => m # to
      BY <2>0, <3>4
    <3> QED BY <1>4, <2>1, <3>2, <3>3, <3>5
  <2>3. CASE InQueue(s)' = InQueue(s) /\ Superseded(s, n, to)
    <3>1. Pending(s)' = Pending(s) /\ handed'[s] = h + 1
      BY <1>1, <2>3 DEF Pending
    <3>2. IsMark(s, n) /\ IsMark(s, n + 1) /\ n < to
      BY <2>3 DEF Superseded
    <3>3. /\ Gone(s, m) => Gone(s, m)'
          /\ Taken(s, m) => Taken(s, m)'
          /\ Gone(s, m)' /\ m # n => Gone(s, m)
          /\ Taken(s, m)' /\ m # n => Taken(s, m)
      BY <2>0, <2>3, <3>1 DEF Gone, Taken
    <3>4. ASSUME NEW q \in m + 1 .. L, ~IsMark(s, q)
          PROVE  /\ FirstLeft(s, q)' => m # n /\ FirstLeft(s, q)
                 /\ FirstQueued(s, q)' => m # n /\ FirstQueued(s, q)
      <4>1. q # n + 1 /\ q \in Nat
        BY <2>0, <3>2, <3>4
      <4>2. UpToNext(s, q)' => UpToNext(s, q) /\ m # n
        BY <1>2, <2>0, <3>1, <4>1 DEF UpToNext
      <4> QED BY <2>3, <3>1, <4>2 DEF FirstLeft, FirstQueued
    <3>5. m # n => m # to \/ ~Gone(s, m)'
      BY <2>0, <3>1 DEF Gone
    <3>6. m = n => IsMark(s, m + 1) /\ m # to /\ ~IsItem(s, m) /\ m > h /\ Superseded(s, m, to)
      BY <2>0, <2>3, <3>2 DEF IsItem, IsMark
    <3> QED BY <1>4, <2>1, <3>3, <3>4, <3>5, <3>6
  <2> QED BY <1>1, <2>2, <2>3
<1> QED BY <1>3, <1>4

\* The streams' tracks stay in step through what the lanes hand on.
LEMMA HandOnTracks ==
  ASSUME TypeOK, outcome = "writing", Tracks, Times, NEW s \in Stream, HandOn(s)
  PROVE  Tracks' /\ Times'
<1> DEFINE n == handed[s] + 1
<1>1. /\ n \in 1 .. Len(script[s]) /\ handed'[s] = n
      /\ until'[s] \in Nat /\ until[s] <= until'[s] /\ n <= until'[s]
      /\ \A r \in Stream \ {s} : /\ handed'[r] = handed[r] /\ until'[r] = until[r]
                                 /\ InQueue(r)' = InQueue(r)
      /\ \A r \in Stream : InHand(r)' = InHand(r) /\ held'[r] = held[r]
      /\ \/ InQueue(s)' = InQueue(s) \cup {n}
         \/ InQueue(s)' = InQueue(s) /\ Superseded(s, n, until'[s])
      /\ InOrder(queue)'
  BY HandsOne DEF Tracks
<1>2. UNCHANGED <<script, settled, ended>>
  BY DEF HandOn
<1>3. \A x \in Stream : \A m \in 1 .. Len(script[x]) :
        /\ Gone(x, m) => Gone(x, m)'
        /\ Taken(x, m) => Taken(x, m)'
        /\ Taken(x, m)' => Taken(x, m) \/ (m > handed[x] /\ Superseded(x, m, until'[x]))
        /\ \A q \in m + 1 .. Len(script[x]) :
             (Taken(x, m)' /\ FirstQueued(x, q)' /\ ~IsMark(x, q)) =>
               Taken(x, m) /\ FirstQueued(x, q)
        /\ Superseded(x, m, until[x]) => Superseded(x, m, until'[x])
  BY HandsForward DEF Forward, Tracks
<1>4. /\ Len(script[s]) \in Nat /\ handed[s] \in Nat
      /\ \A p \in InHand(s) : p \in 1 .. handed[s]
  BY Typed
<1>5. InTurn'
  <2>1. ASSUME NEW r \in Stream
        PROVE  Rising(held'[r]) /\ \A p \in InHand(r)' : \A q \in InQueue(r)' : p < q
    <3>1. Rising(held[r]) /\ \A p \in InHand(r), q \in InQueue(r) : p < q
      BY DEF Tracks, InTurn
    <3>2. \A q \in InQueue(r)' : q \in InQueue(r) \/ (r = s /\ q = n)
      BY <1>1
    <3>3. r = s => \A p \in InHand(r) : p < n
      BY <1>4
    <3> QED BY <1>1, <3>1, <3>2, <3>3
  <2> QED BY <1>1, <2>1 DEF InTurn
<1>6. LeftOut'
  <2> SUFFICES ASSUME NEW x \in Stream, NEW m \in 1 .. handed'[x]
      PROVE  \/ Gone(x, m)' \/ m \in Pending(x)' \/ Superseded(x, m, until'[x])
             \/ ended[x] /\ Ends(x, m)
    BY <1>2 DEF LeftOut, Superseded, IsMark, Ends, At
  <2>1. CASE x = s /\ m = n
    BY <1>1, <2>1 DEF Pending
  <2>2. CASE ~(x = s /\ m = n)
    <3>1. m \in 1 .. handed[x] /\ m \in 1 .. Len(script[x])
      BY <1>1, <1>4, <2>2, Typed
    <3>2. \/ Gone(x, m) \/ m \in Pending(x) \/ Superseded(x, m, until[x])
          \/ ended[x] /\ Ends(x, m)
      BY <3>1 DEF Tracks, LeftOut
    <3>3. m \in Pending(x) => m \in Pending(x)'
      BY <1>1 DEF Pending
    <3> QED BY <1>3, <3>1, <3>2, <3>3
  <2> QED BY <2>1, <2>2
<1>7. EndsLast'
  <2> SUFFICES ASSUME NEW x \in Stream
               PROVE  ended'[x] <=> Taken(x, Len(script[x]))'
    BY <1>2 DEF EndsLast
  <2>1. ended[x] <=> Taken(x, Len(script[x]))
    BY DEF Tracks, EndsLast
  <2>2. CASE Len(script[x]) \in 1 .. Len(script[x])
    <3>1. ~Superseded(x, Len(script[x]), until'[x])
      BY <2>2, OneKind DEF Superseded
    <3> QED BY <1>2, <1>3, <2>1, <2>2, <3>1
  <2>3. CASE Len(script[x]) \notin 1 .. Len(script[x])
    <3>1. Len(script[x]) = 0
      BY <2>3, Typed
    <3>2. ~Taken(x, Len(script[x]))' /\ ~Taken(x, Len(script[x]))
      BY <3>1, <1>2 DEF Taken
    <3> QED BY <1>2, <2>1, <3>2
  <2> QED BY <2>2, <2>3
<1>8. SettledIsTaken'
  <2> SUFFICES ASSUME NEW x \in Stream, settled'[x] # None
      PROVE  \E j \in 1 .. Len(script[x]) :
               Taken(x, j)' /\ ~Ends(x, j)' /\ settled'[x] = TimeOf(x, j)'
    BY <1>2 DEF SettledIsTaken
  <2>1. PICK j \in 1 .. Len(script[x]) :
          Taken(x, j) /\ ~Ends(x, j) /\ settled[x] = TimeOf(x, j)
    BY <1>2 DEF Times, SettledIsTaken
  <2>2. ~Ends(x, j)' /\ settled'[x] = TimeOf(x, j)'
    BY <1>2, <2>1 DEF Ends, TimeOf, At
  <2> QED BY <1>3, <2>1, <2>2
<1>9. SettledCovers'
  <2> SUFFICES ASSUME NEW x \in Stream, NEW m \in 1 .. Len(script[x]), Taken(x, m)'
      PROVE  /\ Ends(x, m) \/ Superseded(x, m, until'[x]) \/ TimeOf(x, m) <= settled[x]
             /\ \A q \in m + 1 .. Len(script[x]) :
                  FirstQueued(x, q)' /\ ~IsMark(x, q) => TimeOf(x, m) <= settled[x]
    BY <1>2 DEF SettledCovers, Ends, Superseded, IsMark, TimeOf, At
  <2>1. Taken(x, m) =>
          /\ Ends(x, m) \/ Superseded(x, m, until[x]) \/ TimeOf(x, m) <= settled[x]
          /\ \A q \in m + 1 .. Len(script[x]) :
               FirstQueued(x, q) /\ ~IsMark(x, q) => TimeOf(x, m) <= settled[x]
    BY DEF Times, SettledCovers
  <2> QED BY <1>3, <2>1
<1> QED BY <1>5, <1>6, <1>7, <1>8, <1>9 DEF Tracks, Times

-----------------------------------------------------------------------------
(* What next() takes.                                                      *)

\* The oldest queued of a stream is the first queued of it, and all that was
\* held is before it.
LEMMA TakesFirst ==
  ASSUME TypeOK, InTurn, Take, NEW s, s = Head(queue)[1], NEW n, n = Head(queue)[2]
  PROVE  /\ s \in Stream /\ n \in 1 .. handed[s] /\ n \in InQueue(s)
         /\ \A p \in InQueue(s) : n <= p
         /\ \A p \in InHand(s) : p < n
         /\ InQueue(s)' = InQueue(s) \ {n}
         /\ \A p \in InQueue(s)' : n < p
         /\ \A r \in Stream \ {s} : /\ InQueue(r)' = InQueue(r)
                                    /\ InHand(r)' = InHand(r) /\ held'[r] = held[r]
                                    /\ settled'[r] = settled[r] /\ ended'[r] = ended[r]
         /\ InOrder(queue)'
         /\ IF Ends(s, n)
            THEN ended'[s] /\ InHand(s)' = InHand(s) /\ UNCHANGED <<settled, held>>
            ELSE /\ ended'[s] = ended[s] /\ InHand(s)' = InHand(s) \cup {n} /\ Rising(held'[s])
                 /\ settled'[s] = Max({settled[s], TimeOf(s, n)})
<1>1. queue # <<>> /\ queue' = Tail(queue)
  BY DEF Take
<1>2. InOrder(queue) /\ \A r \in Stream : \A p \in InHand(r), q \in InQueue(r) : p < q
  BY DEF InTurn
<1>3. /\ s \in Stream /\ n \in Of(queue, s)
      /\ Of(Tail(queue), s) = Of(queue, s) \ {n}
      /\ \A p \in Of(queue, s) : n <= p
      /\ \A p \in Of(Tail(queue), s) : n < p
      /\ \A r \in Stream \ {s} : Of(Tail(queue), r) = Of(queue, r)
      /\ InOrder(Tail(queue))
  BY <1>1, <1>2, TailOf, Zenon
<1>4. /\ n \in InQueue(s) /\ InQueue(s)' = InQueue(s) \ {n}
      /\ \A p \in InQueue(s) : n <= p
      /\ \A p \in InQueue(s)' : n < p
      /\ \A r \in Stream \ {s} : InQueue(r)' = InQueue(r)
      /\ InOrder(queue)'
  BY <1>1, <1>3 DEF InQueue
<1>5. n \in 1 .. handed[s] /\ \A p \in InHand(s) : p < n
  BY <1>2, <1>3, <1>4, Typed
<1>6. CASE Ends(s, n)
  <2>1. ended' = [ended EXCEPT ![s] = TRUE] /\ UNCHANGED <<settled, held>>
    BY <1>6 DEF Take
  <2>2. ended'[s] /\ \A r \in Stream \ {s} : ended'[r] = ended[r]
    BY <1>3, <2>1 DEF TypeOK
  <2>3. \A r \in Stream : InHand(r)' = InHand(r)
    BY <2>1 DEF InHand
  <2> QED BY <1>3, <1>4, <1>5, <1>6, <2>1, <2>2, <2>3
<1>7. CASE ~Ends(s, n)
  <2>1. /\ settled' = [settled EXCEPT ![s] = Max({settled[s], TimeOf(s, n)})]
        /\ held' = [held EXCEPT ![s] = Append(held[s], n)]
        /\ ended' = ended
    BY <1>7 DEF Take
  <2>2. held \in [Stream -> Seq(Nat)] /\ settled \in [Stream -> Nat \cup {None}]
    BY DEF TypeOK
  <2>3. \A r \in Stream \ {s} : held'[r] = held[r] /\ settled'[r] = settled[r]
    BY <1>3, <2>1, <2>2
  <2>4. held'[s] = Append(held[s], n) /\ settled'[s] = Max({settled[s], TimeOf(s, n)})
    BY <1>3, <2>1, <2>2
  <2>5. \A r \in Stream \ {s} : InHand(r)' = InHand(r)
    BY <2>3 DEF InHand
  <2>6. held[s] \in Seq(Nat) /\ Rising(held[s]) /\ n \in Nat
        /\ \A p \in Range(held[s]) : p < n
    <3>1. held[s] \in Seq(Nat)
      BY <1>3, <2>2
    <3>2. Rising(held[s])
      BY <1>3 DEF InTurn
    <3>3. n \in Nat
      BY <1>3, <1>5, Typed
    <3>4. \A p \in Range(held[s]) : p < n
      BY <1>5 DEF InHand
    <3> QED BY <3>1, <3>2, <3>3, <3>4
  <2>7. Range(held'[s]) = Range(held[s]) \cup {n} /\ Rising(held'[s])
    <3>1. /\ Range(Append(held[s], n)) = Range(held[s]) \cup {n}
          /\ Rising(Append(held[s], n))
      BY <2>6, AppendHand, Zenon
    <3> QED BY <2>4, <3>1
  <2>8. InHand(s)' = InHand(s) \cup {n}
    BY <2>7 DEF InHand
  <2> QED BY <1>3, <1>4, <1>5, <1>7, <2>1, <2>3, <2>4, <2>5, <2>7, <2>8
<1> QED BY <1>6, <1>7

\* Past what is taken of a stream there is nothing until the next queued but
\* marks left out, and the end.
LEMMA TakesUpToNext ==
  ASSUME TypeOK, Tracks, Take, NEW s, s = Head(queue)[1], NEW n, n = Head(queue)[2],
         NEW m \in 1 .. Len(script[s]), n < m, m <= handed[s],
         \A p \in InQueue(s)' : m < p
  PROVE  ~Ends(s, n) /\ Superseded(s, m, until[s])
<1>1. /\ s \in Stream /\ n \in 1 .. handed[s] /\ n \in InQueue(s)
      /\ \A p \in InHand(s) : p < n
      /\ InQueue(s)' = InQueue(s) \ {n}
  BY TakesFirst DEF Tracks
<1>2. /\ handed[s] \in Nat /\ Len(script[s]) \in Nat /\ handed[s] <= Len(script[s])
  BY <1>1, Typed
<1>3. m \notin Pending(s) /\ ~Gone(s, m)
  BY <1>1, <1>2 DEF Pending, Gone
<1>4. ~ended[s]
  BY <1>1, <1>2 DEF Tracks, EndsLast, Taken
<1>5. Superseded(s, m, until[s])
  BY <1>1, <1>2, <1>3, <1>4 DEF Tracks, LeftOut
<1>6. ~Ends(s, n)
  BY <1>1, <1>2, OneKind
<1> QED BY <1>5, <1>6

LEMMA TakeForward ==
  ASSUME TypeOK, Tracks, Take
  PROVE  Forward
<1> SUFFICES ASSUME NEW s, s = Head(queue)[1], NEW n, n = Head(queue)[2] PROVE Forward
  OBVIOUS
<1>1. /\ s \in Stream /\ n \in 1 .. handed[s] /\ n \in InQueue(s)
      /\ \A p \in InQueue(s) : n <= p
      /\ \A p \in InHand(s) : p < n
      /\ InQueue(s)' = InQueue(s) \ {n}
      /\ \A r \in Stream \ {s} : InQueue(r)' = InQueue(r) /\ InHand(r)' = InHand(r)
  <2>1. InTurn
    BY DEF Tracks
  <2>2. /\ s \in Stream /\ n \in 1 .. handed[s] /\ n \in InQueue(s)
        /\ \A p \in InQueue(s) : n <= p
        /\ \A p \in InHand(s) : p < n
        /\ InQueue(s)' = InQueue(s) \ {n}
    BY <2>1, TakesFirst
  <2>3. \A r \in Stream \ {s} : InQueue(r)' = InQueue(r) /\ InHand(r)' = InHand(r)
    <3> TAKE r \in Stream \ {s}
    <3>2. /\ InQueue(r)' = InQueue(r)
          /\ InHand(r)' = InHand(r) /\ held'[r] = held[r]
          /\ settled'[r] = settled[r] /\ ended'[r] = ended[r]
      BY <2>1, TakesFirst
    <3> QED BY <3>2
  <2> QED BY <2>2, <2>3
<1>0. InHand(s)' = IF Ends(s, n) THEN InHand(s) ELSE InHand(s) \cup {n}
  <2>1. InTurn
    BY DEF Tracks
  <2>2. CASE Ends(s, n)
    BY <2>1, <2>2, TakesFirst
  <2>3. CASE ~Ends(s, n)
    BY <2>1, <2>3, TakesFirst
  <2> QED BY <2>2, <2>3
<1>2. UNCHANGED <<script, handed, until>>
  BY DEF Take
<1>3. ASSUME NEW x \in Stream, Pending(x)' = Pending(x), NEW m \in 1 .. Len(script[x])
      PROVE  /\ Gone(x, m)' <=> Gone(x, m)
             /\ \A q : FirstLeft(x, q)' <=> FirstLeft(x, q)
  BY <1>2, <1>3 DEF Gone, FirstLeft, UpToNext
<1>4. CASE ~Ends(s, n)
  <2>1. \A x \in Stream : Pending(x)' = Pending(x)
    BY <1>0, <1>1, <1>4 DEF Pending
  <2> QED BY <1>2, <1>3, <2>1 DEF Forward
<1>5. CASE Ends(s, n)
  <2>1. \A x \in Stream \ {s} : Pending(x)' = Pending(x)
    BY <1>1, <1>5 DEF Pending
  <2>2. /\ handed[s] \in Nat /\ Len(script[s]) \in Nat /\ handed[s] <= Len(script[s])
        /\ \A p \in InQueue(s) : p \in 1 .. handed[s]
        /\ \A p \in InHand(s) : p \in 1 .. handed[s]
    BY <1>1, Typed
  <2>3. n = Len(script[s]) /\ handed[s] = n
    BY <1>1, <1>5, <2>2, OneKind
  <2>4. InQueue(s) = {n}
    <3>1. \A p \in InQueue(s) : p = n
      <4> TAKE p \in InQueue(s)
      <4>1. p \in 1 .. handed[s] /\ n <= p
        BY <1>1, <2>2
      <4> QED BY <2>2, <2>3, <4>1
    <3> QED BY <1>1, <3>1
  <2>5. Pending(s) = InHand(s) \cup {n} /\ Pending(s)' = InHand(s)
    BY <1>0, <1>1, <1>5, <2>4 DEF Pending
  <2>6. ASSUME NEW m \in 1 .. Len(script[s])
        PROVE  /\ Gone(s, m) => Gone(s, m)'
               /\ Gone(s, m)' /\ m # n => Gone(s, m)
               /\ \A q \in m + 1 .. Len(script[s]) : FirstLeft(s, q)' => FirstLeft(s, q) /\ m # n
    BY <1>2, <2>2, <2>3, <2>5 DEF Gone, FirstLeft, UpToNext
  <2>7. ~IsItem(s, n) /\ ~IsMark(s, n)
    BY <1>5 DEF Ends, IsItem, IsMark
  <2> QED BY <1>2, <1>3, <2>1, <2>6, <2>7 DEF Forward
<1> QED BY <1>4, <1>5

\* The streams' tracks stay in step through what next() takes.
LEMMA TakeTracks ==
  ASSUME TypeOK, Tracks, Take
  PROVE  Tracks'
<1> SUFFICES ASSUME NEW s, s = Head(queue)[1], NEW n, n = Head(queue)[2] PROVE Tracks'
  OBVIOUS
<1>0. InTurn /\ UNCHANGED <<script, handed, until>>
  BY DEF Tracks, Take
<1>1. /\ s \in Stream /\ n \in 1 .. handed[s] /\ n \in InQueue(s)
      /\ \A p \in InQueue(s) : n <= p
      /\ \A p \in InHand(s) : p < n
      /\ InQueue(s)' = InQueue(s) \ {n}
      /\ \A p \in InQueue(s)' : n < p
      /\ InOrder(queue)'
  <2>1. /\ s \in Stream /\ n \in 1 .. handed[s] /\ n \in InQueue(s)
        /\ \A p \in InQueue(s) : n <= p
        /\ \A p \in InHand(s) : p < n
        /\ InQueue(s)' = InQueue(s) \ {n}
    BY <1>0, TakesFirst
  <2>2. \A p \in InQueue(s)' : n < p
    <3> TAKE p \in InQueue(s)'
    <3> QED BY <1>0, TakesFirst
  <2>3. InOrder(queue)'
    BY <1>0, TakesFirst
  <2> QED BY <2>1, <2>2, <2>3
<1>2. ASSUME NEW r \in Stream \ {s}
      PROVE  /\ InQueue(r)' = InQueue(r)
             /\ InHand(r)' = InHand(r) /\ held'[r] = held[r]
             /\ settled'[r] = settled[r] /\ ended'[r] = ended[r]
  BY <1>0, TakesFirst
<1>3. Ends(s, n) => ended'[s] /\ InHand(s)' = InHand(s) /\ UNCHANGED <<settled, held>>
  BY <1>0, TakesFirst
<1>4. ~Ends(s, n) => /\ ended'[s] = ended[s] /\ InHand(s)' = InHand(s) \cup {n}
                     /\ Rising(held'[s])
  BY <1>0, TakesFirst
<1>5. /\ handed[s] \in Nat /\ Len(script[s]) \in Nat /\ handed[s] <= Len(script[s])
      /\ \A p \in InQueue(s) : p \in 1 .. handed[s]
      /\ \A p \in InHand(s) : p \in 1 .. handed[s] /\ ~Ends(s, p)
  BY <1>1, Typed
<1>6. Ends(s, n) <=> n = Len(script[s])
  BY <1>1, <1>5, OneKind
<1>7. Forward
  BY TakeForward
<1>8. InTurn'
  <2>1. ASSUME NEW r \in Stream
        PROVE  Rising(held'[r]) /\ \A p \in InHand(r)' : \A q \in InQueue(r)' : p < q
    <3>1. Rising(held[r]) /\ \A p \in InHand(r), q \in InQueue(r) : p < q
      BY <1>0 DEF InTurn
    <3>2. CASE r # s
      BY <1>2, <3>1, <3>2
    <3>3. CASE r = s /\ Ends(s, n)
      BY <1>1, <1>3, <3>1, <3>3
    <3>4. CASE r = s /\ ~Ends(s, n)
      <4>1. \A p \in InHand(s)' : p \in InHand(s) \/ p = n
        BY <1>4, <3>4
      <4> QED BY <1>1, <1>4, <3>1, <3>4, <4>1
    <3> QED BY <3>2, <3>3, <3>4
  <2> QED BY <1>1, <2>1 DEF InTurn
<1>9. LeftOut'
  <2> SUFFICES ASSUME NEW x \in Stream, NEW m \in 1 .. handed[x]
      PROVE  \/ Gone(x, m)' \/ m \in Pending(x)' \/ Superseded(x, m, until[x])
             \/ ended'[x] /\ Ends(x, m)
    BY <1>0 DEF LeftOut, Superseded, IsMark, Ends, At
  <2>1. \/ Gone(x, m) \/ m \in Pending(x) \/ Superseded(x, m, until[x])
        \/ ended[x] /\ Ends(x, m)
    BY DEF Tracks, LeftOut
  <2>2. Gone(x, m) => Gone(x, m)'
    <3>1. m \in 1 .. Len(script[x])
      BY Typed
    <3> QED BY <1>7, <3>1 DEF Forward
  <2>3. ended[x] => ended'[x]
    BY <1>2, <1>3, <1>4
  <2>4. m \in Pending(x) => m \in Pending(x)' \/ (ended'[x] /\ Ends(x, m))
    <3>1. CASE x # s
      BY <1>2, <3>1 DEF Pending
    <3>2. CASE x = s /\ Ends(s, n)
      BY <1>1, <1>3, <3>2 DEF Pending
    <3>3. CASE x = s /\ ~Ends(s, n)
      BY <1>1, <1>4, <3>3 DEF Pending
    <3> QED BY <3>1, <3>2, <3>3
  <2> QED BY <2>1, <2>2, <2>3, <2>4
<1>10. EndsLast'
  <2> SUFFICES ASSUME NEW x \in Stream
               PROVE  ended'[x] <=> Taken(x, Len(script[x]))'
    BY <1>0 DEF EndsLast
  <2>1. ended[x] <=> Taken(x, Len(script[x]))
    BY DEF Tracks, EndsLast
  <2>2. CASE x # s
    <3>1. Taken(x, Len(script[x]))' <=> Taken(x, Len(script[x]))
      BY <1>0, <1>2, <2>2 DEF Taken
    <3> QED BY <1>2, <2>1, <2>2, <3>1
  <2>3. CASE x = s /\ Ends(s, n)
    <3>1. n = Len(script[s]) /\ handed[s] = n /\ \A p \in InQueue(s)' : n < p
      BY <1>1, <1>5, <1>6, <2>3
    <3>2. Taken(s, n)'
      BY <1>0, <1>1, <3>1 DEF Taken
    <3> QED BY <1>0, <1>3, <2>3, <3>1, <3>2
  <2>4. CASE x = s /\ ~Ends(s, n)
    <3> DEFINE L == Len(script[s])
    <3>1. n < L
      BY <1>1, <1>5, <1>6, <2>4
    <3>2. ~Taken(s, L)
      BY <1>1, <1>5, <3>1 DEF Taken
    <3>3. ~ended'[s] /\ ~ended[s]
      BY <1>4, <2>1, <2>4, <3>2
    <3>4. ~Taken(s, L)'
      <4> SUFFICES ASSUME L \in 1 .. handed[s], \A p \in InQueue(s)' : L < p PROVE FALSE
        BY <1>0 DEF Taken
      <4>1. L \in 1 .. Len(script[s]) /\ L <= handed[s]
        BY <1>5
      <4>2. Superseded(s, L, until[s])
        BY <3>1, <4>1, TakesUpToNext
      <4> QED BY <1>1, <4>1, <4>2, OneKind DEF Superseded
    <3> QED BY <1>0, <2>4, <3>3, <3>4
  <2> QED BY <2>2, <2>3, <2>4
<1> QED BY <1>8, <1>9, <1>10 DEF Tracks

\* A mark is no earlier than what is before it in its stream.
LEMMA MarkLeads ==
  ASSUME TypeOK, MarksLead, NEW s \in Stream, NEW n \in 1 .. Len(script[s]), IsMark(s, n),
         NEW k \in 1 .. n
  PROVE  TimeOf(s, k) <= TimeOf(s, n)
BY DEF TypeOK, MarksLead, IsMark, TimeOf, At

\* What a stream has settled stays the time of the latest taken of it.
LEMMA TakeTimes ==
  ASSUME TypeOK, MarksLead, Tracks, Times, Take
  PROVE  Times'
<1> SUFFICES ASSUME NEW s, s = Head(queue)[1], NEW n, n = Head(queue)[2] PROVE Times'
  OBVIOUS
<1>0. InTurn /\ UNCHANGED <<script, handed, until>>
  BY DEF Tracks, Take
<1>1. /\ s \in Stream /\ n \in 1 .. handed[s] /\ n \in InQueue(s)
      /\ \A p \in InQueue(s) : n <= p
      /\ \A p \in InHand(s) : p < n
      /\ InQueue(s)' = InQueue(s) \ {n}
  BY <1>0, TakesFirst
<1>2. ASSUME NEW r \in Stream \ {s}
      PROVE  /\ InQueue(r)' = InQueue(r)
             /\ InHand(r)' = InHand(r) /\ held'[r] = held[r]
             /\ settled'[r] = settled[r] /\ ended'[r] = ended[r]
  BY <1>0, TakesFirst
<1>3. \A p \in InQueue(s)' : n < p
  <2> TAKE p \in InQueue(s)'
  <2> QED BY <1>0, TakesFirst
<1>4. /\ Ends(s, n) => settled'[s] = settled[s]
      /\ ~Ends(s, n) => settled'[s] = Max({settled[s], TimeOf(s, n)})
  <2>1. CASE Ends(s, n)
    <3>1. settled' = settled
      BY <1>0, <2>1, TakesFirst
    <3> QED BY <2>1, <3>1
  <2>2. CASE ~Ends(s, n)
    BY <1>0, <2>2, TakesFirst
  <2> QED BY <2>1, <2>2
<1>5. /\ handed[s] \in Nat /\ Len(script[s]) \in Nat /\ handed[s] <= Len(script[s])
      /\ \A p \in InQueue(s) : p \in 1 .. handed[s]
  BY <1>1, Typed
<1>6. /\ n \in 1 .. Len(script[s]) /\ TimeOf(s, n) \in Nat /\ settled[s] \in Int
      /\ Ends(s, n) <=> n = Len(script[s])
  <2>1. settled[s] \in Int
    BY <1>1 DEF TypeOK, None
  <2>2. n \in 1 .. Len(script[s])
    BY <1>1, <1>5
  <2> QED BY <1>1, <2>1, <2>2, OneKind
<1>7. /\ settled'[s] \in Int /\ settled[s] <= settled'[s]
      /\ ~Ends(s, n) => TimeOf(s, n) <= settled'[s] /\ settled'[s] \in {settled[s], TimeOf(s, n)}
      /\ Ends(s, n) => settled'[s] = settled[s]
  <2>1. CASE Ends(s, n)
    BY <1>4, <1>6, <2>1
  <2>2. CASE ~Ends(s, n)
    <3>1. /\ Max({settled[s], TimeOf(s, n)}) \in {settled[s], TimeOf(s, n)}
          /\ Max({settled[s], TimeOf(s, n)}) >= settled[s]
          /\ Max({settled[s], TimeOf(s, n)}) >= TimeOf(s, n)
      <4>1. TimeOf(s, n) \in Int /\ settled[s] \in Int
        BY <1>6
      <4> QED BY <4>1, MaxOfTwo, Zenon
    <3> QED BY <1>4, <1>6, <2>2, <3>1
  <2> QED BY <2>1, <2>2
<1>8. ASSUME NEW m \in 1 .. Len(script[s])
      PROVE  /\ Taken(s, m) => Taken(s, m)'
             /\ Taken(s, m)' => m <= handed[s] /\ \A p \in InQueue(s)' : m < p
             /\ Taken(s, m)' /\ m < n => Taken(s, m)
  <2>1. Taken(s, m) => Taken(s, m)'
    BY <1>0, <1>1 DEF Taken
  <2>2. Taken(s, m)' => m <= handed[s] /\ \A p \in InQueue(s)' : m < p
    BY <1>0, <1>5 DEF Taken
  <2>3. Taken(s, m)' /\ m < n => Taken(s, m)
    BY <1>0, <1>1, <1>5 DEF Taken
  <2> QED BY <2>1, <2>2, <2>3
<1>9. Taken(s, n)'
  BY <1>0, <1>1, <1>3, <1>5 DEF Taken
<1>10. ASSUME NEW x \in Stream \ {s}, NEW m
       PROVE  /\ Taken(x, m)' <=> Taken(x, m)
              /\ FirstQueued(x, m)' <=> FirstQueued(x, m)
  BY <1>0, <1>2 DEF Taken, FirstQueued, UpToNext
<1>11. SettledIsTaken'
  <2> SUFFICES ASSUME NEW x \in Stream, settled'[x] # None
      PROVE  \E j \in 1 .. Len(script[x]) :
               Taken(x, j)' /\ ~Ends(x, j) /\ settled'[x] = TimeOf(x, j)
    BY <1>0 DEF SettledIsTaken, Ends, TimeOf, At
  <2>1. CASE settled'[x] = settled[x]
    <3>1. PICK j \in 1 .. Len(script[x]) :
            Taken(x, j) /\ ~Ends(x, j) /\ settled[x] = TimeOf(x, j)
      BY <2>1 DEF Times, SettledIsTaken
    <3>2. Taken(x, j)'
      BY <1>8, <1>10, <3>1
    <3> QED BY <2>1, <3>1, <3>2
  <2>2. CASE settled'[x] # settled[x]
    <3>1. x = s /\ ~Ends(s, n) /\ settled'[s] = TimeOf(s, n)
      BY <1>2, <1>7, <2>2
    <3> QED BY <1>6, <1>9, <3>1
  <2> QED BY <2>1, <2>2
<1>12. ASSUME NEW m \in 1 .. Len(script[s]), Taken(s, m)'
       PROVE  Ends(s, m) \/ Superseded(s, m, until[s]) \/ TimeOf(s, m) <= settled'[s]
  <2>0. TimeOf(s, m) \in Nat
    BY <1>1, OneKind
  <2>1. CASE Taken(s, m)
    <3>1. Ends(s, m) \/ Superseded(s, m, until[s]) \/ TimeOf(s, m) <= settled[s]
      BY <1>1, <2>1 DEF Times, SettledCovers
    <3> QED BY <1>6, <1>7, <2>0, <3>1
  <2>2. CASE m = n
    BY <1>7, <2>2
  <2>3. CASE n < m
    <3>1. m <= handed[s] /\ \A p \in InQueue(s)' : m < p
      BY <1>8, <1>12
    <3> QED BY <2>3, <3>1, TakesUpToNext
  <2>4. m < n => Taken(s, m)
    BY <1>8, <1>12
  <2> QED BY <1>6, <2>1, <2>2, <2>3, <2>4
<1>13. ASSUME NEW m \in 1 .. Len(script[s]), Taken(s, m)',
              NEW q \in m + 1 .. Len(script[s]), FirstQueued(s, q)', ~IsMark(s, q)
       PROVE  TimeOf(s, m) <= settled'[s]
  <2>0. /\ TimeOf(s, m) \in Nat /\ q \in Nat /\ m \in Nat /\ n \in Nat /\ q <= handed[s] + 1
        /\ \A p \in InQueue(s)' : q <= p
    BY <1>0, <1>1, <1>5, <1>13, OneKind DEF FirstQueued, UpToNext
  <2>1. CASE m < n /\ q <= n
    <3>1. FirstQueued(s, q)
      BY <1>1, <1>5, <2>0, <2>1 DEF FirstQueued, UpToNext
    <3>2. Taken(s, m)
      BY <1>8, <1>13, <2>1
    <3>3. TimeOf(s, m) <= settled[s]
      BY <1>1, <1>13, <3>1, <3>2 DEF Times, SettledCovers
    <3> QED BY <1>6, <1>7, <2>0, <3>3
  <2>2. CASE m < n /\ n < q
    <3>1. Taken(s, m)
      BY <1>8, <1>13, <2>2
    <3>2. n # Len(script[s])
      BY <1>5, <2>0, <2>2
    <3>3. TimeOf(s, n) <= settled'[s]
      BY <1>6, <1>7, <3>2
    <3>4. CASE IsMark(s, n)
      <4>1. m \in 1 .. n
        BY <2>0, <2>2
      <4>2. TimeOf(s, m) <= TimeOf(s, n)
        BY <1>1, <1>6, <3>4, <4>1, MarkLeads
      <4> QED BY <1>6, <1>7, <2>0, <3>3, <4>2
    <3>5. CASE ~IsMark(s, n)
      <4>1. FirstQueued(s, n) /\ n \in m + 1 .. Len(script[s])
        BY <1>1, <1>5, <1>6, <2>0, <2>2 DEF FirstQueued, UpToNext
      <4>2. TimeOf(s, m) <= settled[s]
        BY <1>1, <3>1, <3>5, <4>1 DEF Times, SettledCovers
      <4> QED BY <1>6, <1>7, <2>0, <4>2
    <3> QED BY <3>4, <3>5
  <2>3. CASE n <= m
    <3>1. CASE m = n
      <4>1. n # Len(script[s])
        BY <1>5, <2>0, <3>1
      <4> QED BY <1>6, <1>7, <3>1, <4>1
    <3>2. CASE n < m
      <4> DEFINE j == q - 1
      <4>1. j \in 1 .. Len(script[s]) /\ n < j /\ j <= handed[s]
        BY <1>5, <2>0, <3>2
      <4>2. \A p \in InQueue(s)' : j < p
        <5> TAKE p \in InQueue(s)'
        <5>1. p \in InQueue(s)
          BY <1>1
        <5>2. p \in Nat
          BY <1>5, <5>1
        <5>3. q <= p
          BY <2>0
        <5> QED BY <2>0, <5>2, <5>3
      <4> HIDE DEF j
      <4>3. Superseded(s, j, until[s])
        BY <4>1, <4>2, TakesUpToNext
      <4>4. j + 1 = q
        BY <2>0 DEF j
      <4> QED BY <1>13, <4>3, <4>4 DEF Superseded
    <3> QED BY <2>0, <2>3, <3>1, <3>2
  <2> QED BY <2>0, <2>1, <2>2, <2>3
<1>14. SettledCovers'
  <2> SUFFICES ASSUME NEW x \in Stream, NEW m \in 1 .. Len(script[x]), Taken(x, m)'
      PROVE  /\ Ends(x, m) \/ Superseded(x, m, until[x]) \/ TimeOf(x, m) <= settled'[x]
             /\ \A q \in m + 1 .. Len(script[x]) :
                  FirstQueued(x, q)' /\ ~IsMark(x, q) => TimeOf(x, m) <= settled'[x]
    BY <1>0 DEF SettledCovers, Ends, Superseded, IsMark, TimeOf, At
  <2>1. CASE x = s
    BY <1>12, <1>13, <2>1
  <2>2. CASE x # s
    <3>1. /\ settled'[x] = settled[x] /\ Taken(x, m)
          /\ \A q : FirstQueued(x, q)' <=> FirstQueued(x, q)
      BY <1>2, <1>10, <2>2
    <3>2. /\ Ends(x, m) \/ Superseded(x, m, until[x]) \/ TimeOf(x, m) <= settled[x]
          /\ \A q \in m + 1 .. Len(script[x]) :
               FirstQueued(x, q) /\ ~IsMark(x, q) => TimeOf(x, m) <= settled[x]
      BY <3>1 DEF Times, SettledCovers
    <3> QED BY <3>1, <3>2
  <2> QED BY <2>1, <2>2
<1> QED BY <1>11, <1>14 DEF Times

-----------------------------------------------------------------------------
(* What a step that writes nothing leaves true of what is gone.            *)

LEMMA PacketTyped ==
  ASSUME TypeOK, NEW i \in DOMAIN written
  PROVE  /\ written[i].stream \in Stream /\ written[i].nth \in Nat
         /\ written[i].kind \in {"item", "mark"} /\ written[i].at \in Nat
<1> DEFINE Packet == [stream : Stream, nth : Nat, kind : {"item", "mark"}, at : Nat]
<1>1. written \in Seq(Packet)
  BY DEF TypeOK
<1>2. written[i] \in Packet
  <2> HIDE DEF Packet
  <2>1. DOMAIN written = 1 .. Len(written)
    BY <1>1
  <2> QED BY <1>1, <2>1, ElementOfSeq
<1> QED BY <1>2

LEMMA ForwardOrder ==
  ASSUME TypeOK, Forward, UNCHANGED <<script, written>>, AheadOfTheRest, GoneIsWritten
  PROVE  AheadOfTheRest' /\ GoneIsWritten'
<1>1. ASSUME NEW x \in Stream, NEW m \in 1 .. Len(script[x])
      PROVE  /\ Gone(x, m) => Gone(x, m)'
             /\ \A q \in m + 1 .. Len(script[x]) :
                  (Gone(x, m)' /\ FirstLeft(x, q)' /\ ~IsMark(x, q)) =>
                    Gone(x, m) /\ FirstLeft(x, q)
             /\ (Gone(x, m)' /\ IsItem(x, m)) => Gone(x, m)
  BY DEF Forward
<1>2. AheadOfTheRest'
  <2> SUFFICES ASSUME NEW s \in Stream, NEW r \in Stream \ {s},
        NEW m \in 1 .. Len(script[s]), NEW q \in m + 1 .. Len(script[s]),
        Gone(s, m)', FirstLeft(s, q)', ~IsMark(s, q),
        NEW k \in 1 .. Len(script[r]), IsItem(r, k), ~Gone(r, k)'
      PROVE  Precedes(s, TimeOf(s, m), r, Reached(r, k))
    BY DEF AheadOfTheRest, IsMark, IsItem, Precedes, TimeOf, Reached, At
  <2>1. Gone(s, m) /\ FirstLeft(s, q) /\ ~Gone(r, k)
    BY <1>1
  <2> QED BY <2>1 DEF AheadOfTheRest
<1>3. GoneIsWritten'
  <2>1. ASSUME NEW s \in Stream, NEW m \in 1 .. Len(script[s]), Gone(s, m)', IsItem(s, m)
        PROVE  Wrote(s, m)'
    <3>1. Wrote(s, m)
      BY <1>1, <2>1 DEF GoneIsWritten
    <3> QED BY <3>1 DEF Wrote
  <2>2. ASSUME NEW i \in DOMAIN written, NEW x, x = written[i].stream, NEW m, m = written[i].nth
        PROVE  Gone(x, m)'
    <3>1. Gone(x, m)
      BY <2>2 DEF GoneIsWritten
    <3>2. x \in Stream
      BY <2>2, PacketTyped
    <3>3. m \in 1 .. Len(script[x])
      BY <3>1, <3>2, Typed DEF Gone
    <3> QED BY <1>1, <3>1, <3>2, <3>3
  <2>3. \A i \in DOMAIN written : Gone(written[i].stream, written[i].nth)'
    BY <2>2 DEF Gone, Pending, InHand, InQueue
  <2> QED BY <2>1, <2>3 DEF GoneIsWritten, IsItem, At
<1> QED BY <1>2, <1>3

LEMMA ForwardBeat ==
  ASSUME Forward, UNCHANGED <<script, written, last>>, \A s \in Data : LastWritten(s)
  PROVE  (\A s \in Data : LastWritten(s)') /\ (CloseBehind => CloseBehind')
<1>1. \A s \in Data : LastWritten(s)'
  BY DEF LastWritten
<1>2. ASSUME CloseBehind PROVE CloseBehind'
  <2> SUFFICES ASSUME NEW s \in Data, NEW m \in 1 .. Len(script[s]),
        Gone(s, m)', IsMark(s, m), m = until'[s] \/ ~IsMark(s, m + 1)
      PROVE  last[s] # None /\ last[s] > TimeOf(s, m) - Every
    BY DEF CloseBehind, IsMark, TimeOf, At
  <2>1. s \in Stream
    BY NutAssumption DEF Stream
  <2>2. Gone(s, m) /\ (m = until[s] \/ ~IsMark(s, m + 1))
    BY <2>1 DEF Forward
  <2> QED BY <1>2, <2>2 DEF CloseBehind
<1> QED BY <1>1, <1>2

-----------------------------------------------------------------------------
(* What is written.                                                        *)

\* The front of a stream is the least of what is pending of it, and what is
\* pending after it is written is the rest.
LEMMA FrontOf ==
  ASSUME TypeOK, InTurn, NEW s \in Stream, held[s] # <<>>, NEW n, n = Head(held[s])
  PROVE  /\ n \in InHand(s) /\ n \in 1 .. handed[s] /\ n \in 1 .. Len(script[s]) /\ ~Ends(s, n)
         /\ \A p \in Pending(s) : n <= p
         /\ Range(Tail(held[s])) = InHand(s) \ {n} /\ Rising(Tail(held[s]))
         /\ n \notin InQueue(s)
         /\ FrontTime(s) = TimeOf(s, n) /\ TimeOf(s, n) \in Nat
<1>1. held[s] \in Seq(Nat) /\ Rising(held[s]) /\ \A p \in InHand(s), q \in InQueue(s) : p < q
  BY DEF TypeOK, InTurn
<1>2. /\ n \in InHand(s) /\ \A p \in InHand(s) : n <= p
      /\ Range(Tail(held[s])) = InHand(s) \ {n} /\ Rising(Tail(held[s]))
  <2>1. /\ Head(held[s]) \in Range(held[s]) /\ \A p \in Range(held[s]) : Head(held[s]) <= p
        /\ Range(Tail(held[s])) = Range(held[s]) \ {Head(held[s])} /\ Rising(Tail(held[s]))
    BY <1>1, TailHand, Zenon
  <2> QED BY <2>1 DEF InHand
<1>3. /\ Len(script[s]) \in Nat /\ handed[s] \in Nat /\ handed[s] <= Len(script[s])
      /\ \A p \in InQueue(s) : p \in 1 .. handed[s]
      /\ \A p \in InHand(s) : p \in 1 .. handed[s] /\ ~Ends(s, p)
  BY Typed
<1>4. n \in 1 .. handed[s] /\ n \in 1 .. Len(script[s]) /\ ~Ends(s, n)
  BY <1>2, <1>3
<1>5. \A p \in Pending(s) : n <= p
  <2> TAKE p \in Pending(s)
  <2>1. CASE p \in InHand(s)
    BY <1>2, <2>1
  <2>2. CASE p \in InQueue(s)
    <3>1. n < p /\ p \in Nat /\ n \in Nat
      BY <1>1, <1>2, <1>3, <1>4, <2>2
    <3> QED BY <3>1
  <2> QED BY <2>1, <2>2 DEF Pending
<1>6. n \notin InQueue(s)
  <2>1. n \in InQueue(s) => n < n
    BY <1>1, <1>2
  <2> QED BY <1>3, <1>4, <2>1
<1>7. FrontTime(s) = TimeOf(s, n) /\ TimeOf(s, n) \in Nat
  BY <1>4, OneKind DEF FrontTime
<1> QED BY <1>2, <1>4, <1>5, <1>6, <1>7

\* What may still go before time t of stream s, of a stream behind it: nothing
\* that is not gone.
LEMMA BehindIsPast ==
  ASSUME TypeOK, Tracks, Times, NEW s \in Stream, NEW r \in Stream \ {s},
         NEW t \in Nat, Behind(s, t, r),
         NEW k \in 1 .. Len(script[r]), ~Gone(r, k)
  PROVE  Precedes(s, t, r, Reached(r, k))
<1>0. /\ r \in Nat /\ s \in Nat /\ Len(script[r]) \in Nat /\ handed[r] \in Nat
      /\ handed[r] <= Len(script[r])
      /\ \A p \in Pending(r) : p \in 1 .. handed[r]
  BY Typed
<1>1. /\ Reached(r, k) \in Nat
      /\ \A j \in 1 .. k : TimeOf(r, j) <= Reached(r, k)
  BY ReachedIsSaid DEF TypeOK
<1>2. ASSUME NEW u \in Nat, Precedes(s, t, r, u), u <= Reached(r, k)
      PROVE  Precedes(s, t, r, Reached(r, k))
  BY <1>0, <1>1, <1>2 DEF Precedes
<1>3. CASE held[r] # <<>>
  <2>1. PICK n : n = Head(held[r])
    OBVIOUS
  <2>2. /\ n \in 1 .. handed[r] /\ \A p \in Pending(r) : n <= p
        /\ FrontTime(r) = TimeOf(r, n) /\ TimeOf(r, n) \in Nat
    BY <1>3, <2>1, FrontOf DEF Tracks
  <2>3. k > handed[r] \/ \E p \in Pending(r) : p <= k
    BY <1>0 DEF Gone
  <2>4. n <= k
    BY <1>0, <2>2, <2>3
  <2>5. TimeOf(r, n) <= Reached(r, k)
    BY <1>0, <1>1, <2>2, <2>4
  <2>6. Precedes(s, t, r, TimeOf(r, n))
    BY <1>3, <2>2 DEF Behind, Horizon
  <2> QED BY <1>2, <2>2, <2>5, <2>6
<1>4. CASE held[r] = <<>>
  <2>1. InHand(r) = {}
    BY <1>4 DEF InHand, Range
  <2>2. Pending(r) = InQueue(r)
    BY <2>1 DEF Pending
  <2>3. k > handed[r] \/ \E p \in InQueue(r) : p <= k
    BY <1>0, <2>2 DEF Gone
  <2>4. ~ended[r]
    <3>1. ended[r] => Taken(r, Len(script[r]))
      BY DEF Tracks, EndsLast
    <3>2. Taken(r, Len(script[r])) => handed[r] = Len(script[r])
      BY <1>0 DEF Taken
    <3>3. Taken(r, Len(script[r])) => \A p \in InQueue(r) : Len(script[r]) < p
      BY DEF Taken
    <3> QED BY <1>0, <2>2, <2>3, <3>1, <3>2, <3>3
  <2>5. settled[r] # None /\ Precedes(s, t, r, settled[r])
    BY <1>4, <2>4 DEF Behind, Horizon
  <2>6. PICK j \in 1 .. Len(script[r]) : Taken(r, j) /\ settled[r] = TimeOf(r, j)
    BY <2>5 DEF Times, SettledIsTaken
  <2>7. j <= handed[r] /\ \A p \in InQueue(r) : j < p
    BY <1>0, <2>6 DEF Taken
  <2>8. j \in 1 .. k
    BY <1>0, <2>2, <2>3, <2>7
  <2>9. TimeOf(r, j) \in Nat
    BY OneKind
  <2> QED BY <1>1, <1>2, <2>5, <2>6, <2>8, <2>9
<1> QED BY <1>3, <1>4

\* What a write takes from what is held: the front of a stream that every
\* other is behind.
Writes(s, n) ==
  /\ n = Head(held[s]) /\ n \in 1 .. handed[s] /\ ~Ends(s, n)
  /\ n \in Pending(s) /\ \A p \in Pending(s) : n <= p
  /\ InHand(s)' = InHand(s) \ {n} /\ Pending(s)' = Pending(s) \ {n}
  /\ Rising(held'[s])
  /\ \A r \in Stream \ {s} : InHand(r)' = InHand(r) /\ held'[r] = held[r]
  /\ \A r \in Stream : InQueue(r)' = InQueue(r)
  /\ FrontTime(s) = TimeOf(s, n) /\ TimeOf(s, n) \in Nat
  /\ WriteOne(s)
  /\ UNCHANGED <<script, handed, until, queue, settled, ended>>

LEMMA WriteTakes ==
  ASSUME TypeOK, Tracks, Write
  PROVE  \E s \in Writable : \E n \in 1 .. Len(script[s]) : Writes(s, n)
<1>1. PICK s \in Writable : WriteOne(s) /\ held' = [held EXCEPT ![s] = Tail(held[s])]
  BY DEF Write
<1>2. s \in Stream /\ held[s] # <<>>
  BY <1>1 DEF Writable
<1>3. PICK n : n = Head(held[s])
  OBVIOUS
<1>4. /\ n \in InHand(s) /\ n \in 1 .. handed[s] /\ n \in 1 .. Len(script[s]) /\ ~Ends(s, n)
      /\ \A p \in Pending(s) : n <= p
      /\ Range(Tail(held[s])) = InHand(s) \ {n} /\ Rising(Tail(held[s]))
      /\ n \notin InQueue(s)
      /\ FrontTime(s) = TimeOf(s, n) /\ TimeOf(s, n) \in Nat
  BY <1>2, <1>3, FrontOf DEF Tracks
<1>5. held \in [Stream -> Seq(Nat)]
  BY DEF TypeOK
<1>6. held'[s] = Tail(held[s]) /\ \A r \in Stream \ {s} : held'[r] = held[r]
  BY <1>1, <1>2, <1>5
<1>7. UNCHANGED <<script, handed, until, queue, settled, ended>>
  BY DEF Write
<1>8. InHand(s)' = InHand(s) \ {n} /\ \A r \in Stream \ {s} : InHand(r)' = InHand(r)
  BY <1>4, <1>6 DEF InHand
<1>9. \A r \in Stream : InQueue(r)' = InQueue(r)
  BY <1>7 DEF InQueue
<1>10. n \in Pending(s) /\ Pending(s)' = Pending(s) \ {n}
  BY <1>2, <1>4, <1>8, <1>9 DEF Pending
<1>11. Rising(held'[s])
  BY <1>4, <1>6
<1>12. Writes(s, n)
  BY <1>1, <1>3, <1>4, <1>6, <1>7, <1>8, <1>9, <1>10, <1>11 DEF Writes
<1> QED BY <1>1, <1>4, <1>12

LEMMA WriteGone ==
  ASSUME TypeOK, Tracks, NEW s \in Stream, NEW n \in 1 .. Len(script[s]), Writes(s, n)
  PROVE  /\ Gone(s, n)' /\ ~Gone(s, n) /\ FirstLeft(s, n)
         /\ \A m \in 1 .. Len(script[s]) :
              /\ m < n <=> Gone(s, m)
              /\ Gone(s, m) => Gone(s, m)'
              /\ Gone(s, m)' /\ n < m => Superseded(s, m, until[s]) \/ Ends(s, m)
              /\ \A q \in m + 1 .. Len(script[s]) : n < m /\ FirstLeft(s, q)' =>
                   Gone(s, q - 1)'
         /\ \A x \in Stream \ {s} : \A m : /\ Gone(x, m)' <=> Gone(x, m)
                                           /\ FirstLeft(x, m)' <=> FirstLeft(x, m)
         /\ \A x \in Stream : \A m : /\ Taken(x, m)' <=> Taken(x, m)
                                     /\ FirstQueued(x, m)' <=> FirstQueued(x, m)
<1>1. /\ n \in 1 .. handed[s] /\ ~Ends(s, n)
      /\ n \in Pending(s) /\ \A p \in Pending(s) : n <= p
      /\ Pending(s)' = Pending(s) \ {n}
      /\ \A r \in Stream \ {s} : InHand(r)' = InHand(r)
      /\ \A r \in Stream : InQueue(r)' = InQueue(r)
      /\ UNCHANGED <<script, handed, until, ended>>
  BY DEF Writes
<1>2. /\ Len(script[s]) \in Nat /\ handed[s] \in Nat /\ handed[s] <= Len(script[s])
      /\ \A p \in Pending(s) : p \in 1 .. handed[s]
  BY Typed
<1>3. \A p \in Pending(s)' : n < p
  <2> TAKE p \in Pending(s)'
  <2>1. p \in Pending(s) /\ p # n
    BY <1>1
  <2>2. n <= p /\ p \in Nat /\ n \in Nat
    BY <1>1, <1>2, <2>1
  <2> QED BY <2>1, <2>2
<1>4. Gone(s, n)'
  BY <1>1, <1>3 DEF Gone
<1>5. ~Gone(s, n)
  <2>1. Gone(s, n) => n < n
    BY <1>1 DEF Gone
  <2> QED BY <2>1
<1>6. FirstLeft(s, n)
  BY <1>1, <1>2 DEF FirstLeft, UpToNext
<1>7. ASSUME NEW m \in 1 .. Len(script[s])
      PROVE  /\ m < n <=> Gone(s, m)
             /\ Gone(s, m) => Gone(s, m)'
             /\ Gone(s, m)' /\ n < m => Superseded(s, m, until[s]) \/ Ends(s, m)
             /\ \A q \in m + 1 .. Len(script[s]) : n < m /\ FirstLeft(s, q)' =>
                  Gone(s, q - 1)'
  <2>1. Gone(s, m) => m < n
    BY <1>1 DEF Gone
  <2>2. m < n => Gone(s, m)
    <3> HAVE m < n
    <3>1. m \in 1 .. handed[s]
      BY <1>1, <1>2
    <3>2. \A p \in Pending(s) : m < p
      <4> TAKE p \in Pending(s)
      <4>1. n <= p /\ p \in Nat
        BY <1>1, <1>2
      <4> QED BY <4>1
    <3> QED BY <3>1, <3>2 DEF Gone
  <2>3. Gone(s, m) => Gone(s, m)'
    BY <1>1 DEF Gone
  <2>4. ASSUME Gone(s, m)', n < m PROVE Superseded(s, m, until[s]) \/ Ends(s, m)
    <3>1. m \in 1 .. handed[s] /\ m \notin Pending(s)'
      <4>1. m \in Pending(s)' => m < m
        BY <2>4 DEF Gone
      <4> QED BY <1>1, <2>4, <4>1 DEF Gone
    <3>2. m \notin Pending(s)
      BY <1>1, <2>4, <3>1
    <3>3. ~Gone(s, m)
      BY <2>1, <2>4
    <3> QED BY <3>1, <3>2, <3>3 DEF Tracks, LeftOut
  <2>5. ASSUME NEW q \in m + 1 .. Len(script[s]), n < m, FirstLeft(s, q)'
        PROVE  Gone(s, q - 1)'
    <3>1. q \in Nat /\ q <= handed[s] + 1 /\ \A p \in Pending(s)' : q <= p
      BY <1>1, <2>5 DEF FirstLeft, UpToNext
    <3>2. q - 1 \in 1 .. handed[s]
      BY <1>2, <3>1
    <3>3. \A p \in Pending(s)' : q - 1 < p
      <4> TAKE p \in Pending(s)'
      <4>0. p \in Pending(s)
        BY <1>1
      <4>1. p \in Nat
        BY <1>2, <4>0
      <4>2. q <= p
        BY <3>1
      <4> QED BY <3>1, <4>1, <4>2
    <3> QED BY <1>1, <3>2, <3>3 DEF Gone
  <2> QED BY <2>1, <2>2, <2>3, <2>4, <2>5
<1>8. ASSUME NEW x \in Stream \ {s}, NEW m
      PROVE  /\ Gone(x, m)' <=> Gone(x, m)
             /\ FirstLeft(x, m)' <=> FirstLeft(x, m)
  BY <1>1 DEF Gone, FirstLeft, UpToNext, Pending
<1>9. ASSUME NEW x \in Stream, NEW m
      PROVE  /\ Taken(x, m)' <=> Taken(x, m)
             /\ FirstQueued(x, m)' <=> FirstQueued(x, m)
  BY <1>1 DEF Taken, FirstQueued, UpToNext
<1> QED BY <1>4, <1>5, <1>6, <1>7, <1>8, <1>9

LEMMA WriteTracks ==
  ASSUME TypeOK, Tracks, Times, NEW s \in Stream, NEW n \in 1 .. Len(script[s]), Writes(s, n)
  PROVE  Tracks' /\ Times'
<1>1. /\ InHand(s)' = InHand(s) \ {n} /\ Pending(s)' = Pending(s) \ {n}
      /\ Rising(held'[s])
      /\ \A r \in Stream \ {s} : InHand(r)' = InHand(r) /\ held'[r] = held[r]
      /\ \A r \in Stream : InQueue(r)' = InQueue(r)
      /\ UNCHANGED <<script, handed, until, queue, settled, ended>>
  BY DEF Writes
<1>2. /\ Gone(s, n)'
      /\ \A m \in 1 .. Len(script[s]) : Gone(s, m) => Gone(s, m)'
      /\ \A x \in Stream \ {s} : \A m : Gone(x, m)' <=> Gone(x, m)
      /\ \A x \in Stream : \A m : /\ Taken(x, m)' <=> Taken(x, m)
                                  /\ FirstQueued(x, m)' <=> FirstQueued(x, m)
  BY WriteGone
<1>3. InTurn'
  <2>0. InOrder(queue) /\ queue' = queue
    BY <1>1 DEF Tracks, InTurn
  <2>1. ASSUME NEW r \in Stream
        PROVE  Rising(held'[r]) /\ \A p \in InHand(r)' : \A q \in InQueue(r)' : p < q
    <3>1. Rising(held[r]) /\ \A p \in InHand(r), q \in InQueue(r) : p < q
      BY DEF Tracks, InTurn
    <3>2. CASE r # s
      BY <1>1, <3>1, <3>2
    <3>3. CASE r = s
      BY <1>1, <3>1, <3>3
    <3> QED BY <3>2, <3>3
  <2> QED BY <2>0, <2>1 DEF InTurn
<1>4. LeftOut'
  <2> SUFFICES ASSUME NEW x \in Stream, NEW m \in 1 .. handed[x]
      PROVE  \/ Gone(x, m)' \/ m \in Pending(x)' \/ Superseded(x, m, until[x])
             \/ ended[x] /\ Ends(x, m)
    BY <1>1 DEF LeftOut, Superseded, IsMark, Ends, At
  <2>1. \/ Gone(x, m) \/ m \in Pending(x) \/ Superseded(x, m, until[x])
        \/ ended[x] /\ Ends(x, m)
    BY DEF Tracks, LeftOut
  <2>2. m \in 1 .. Len(script[x])
    BY Typed
  <2>3. CASE x = s
    BY <1>1, <1>2, <2>1, <2>2, <2>3
  <2>4. CASE x # s
    <3>1. Pending(x)' = Pending(x)
      BY <1>1, <2>4 DEF Pending
    <3> QED BY <1>2, <2>1, <2>4, <3>1
  <2> QED BY <2>3, <2>4
<1>5. EndsLast'
  BY <1>1, <1>2 DEF Tracks, EndsLast
<1>6. SettledIsTaken'
  BY <1>1, <1>2 DEF Times, SettledIsTaken, Ends, TimeOf, At
<1>7. SettledCovers'
  BY <1>1, <1>2 DEF Times, SettledCovers, Ends, Superseded, IsMark, TimeOf, At
<1> QED BY <1>3, <1>4, <1>5, <1>6, <1>7 DEF Tracks, Times

\* What is written precedes all that is not gone of the other streams.
LEMMA WritePrecedes ==
  ASSUME TypeOK, Tracks, Times, NEW s \in Writable, NEW n \in 1 .. Len(script[s]), Writes(s, n),
         NEW r \in Stream \ {s}, NEW k \in 1 .. Len(script[r]), ~Gone(r, k)
  PROVE  Precedes(s, TimeOf(s, n), r, Reached(r, k))
<1>1. s \in Stream /\ Behind(s, FrontTime(s), r)
  BY DEF Writable
<1>2. FrontTime(s) = TimeOf(s, n) /\ TimeOf(s, n) \in Nat
  BY DEF Writes
<1>3. Behind(s, TimeOf(s, n), r)
  BY <1>1, <1>2
<1> QED BY <1>1, <1>2, <1>3, BehindIsPast

LEMMA WriteAhead ==
  ASSUME TypeOK, MarksLead, Tracks, Times, AheadOfTheRest,
         NEW s \in Writable, NEW n \in 1 .. Len(script[s]), Writes(s, n)
  PROVE  AheadOfTheRest'
<1>0. s \in Stream /\ script' = script
  BY DEF Writable, Writes
<1>r. \A r, k : Reached(r, k)' = Reached(r, k)
  BY <1>0 DEF Reached, At
<1> SUFFICES ASSUME NEW x \in Stream, NEW r \in Stream \ {x},
      NEW m \in 1 .. Len(script[x]), NEW q \in m + 1 .. Len(script[x]),
      Gone(x, m)', FirstLeft(x, q)', ~IsMark(x, q),
      NEW k \in 1 .. Len(script[r]), IsItem(r, k), ~Gone(r, k)'
    PROVE  Precedes(x, TimeOf(x, m), r, Reached(r, k))
  BY <1>0, <1>r DEF AheadOfTheRest, IsMark, IsItem, Precedes, TimeOf, At
<1>1. /\ ~Gone(s, n) /\ FirstLeft(s, n)
      /\ \A j \in 1 .. Len(script[s]) :
           /\ j < n <=> Gone(s, j)
           /\ Gone(s, j) => Gone(s, j)'
           /\ Gone(s, j)' /\ n < j => Superseded(s, j, until[s]) \/ Ends(s, j)
           /\ \A i \in j + 1 .. Len(script[s]) : n < j /\ FirstLeft(s, i)' => Gone(s, i - 1)'
      /\ \A y \in Stream \ {s} : \A j : /\ Gone(y, j)' <=> Gone(y, j)
                                        /\ FirstLeft(y, j)' <=> FirstLeft(y, j)
  BY <1>0, WriteGone
<1>2. ~Gone(r, k)
  BY <1>1
<1>3. CASE x # s
  BY <1>1, <1>2, <1>3 DEF AheadOfTheRest
<1>4. CASE x = s
  <2>0. /\ Len(script[s]) \in Nat /\ r \in Nat /\ s \in Nat
        /\ TimeOf(s, n) \in Nat /\ TimeOf(s, m) \in Nat
    BY <1>0, <1>4, Typed, OneKind
  <2>1. Precedes(s, TimeOf(s, n), r, Reached(r, k))
    BY <1>2, <1>4, WritePrecedes
  <2>2. CASE m = n
    BY <1>4, <2>1, <2>2
  <2>3. CASE m < n
    <3>1. CASE IsMark(s, n)
      <4>1. TimeOf(s, m) <= TimeOf(s, n)
        BY <1>0, <1>4, <2>0, <2>3, <3>1, MarkLeads
      <4>2. Reached(r, k) \in Nat
        BY ReachedIsSaid DEF TypeOK
      <4> QED BY <1>4, <2>0, <2>1, <4>1, <4>2 DEF Precedes
    <3>2. CASE ~IsMark(s, n)
      <4>1. Gone(s, m) /\ n \in m + 1 .. Len(script[s])
        BY <1>1, <1>4, <2>0, <2>3
      <4> QED BY <1>0, <1>1, <1>2, <1>4, <3>2, <4>1 DEF AheadOfTheRest
    <3> QED BY <3>1, <3>2
  <2>4. CASE n < m
    <3>1. Gone(s, q - 1)' /\ q - 1 \in 1 .. Len(script[s]) /\ n < q - 1 /\ q - 1 # Len(script[s])
      BY <1>1, <1>4, <2>0, <2>4
    <3>2. Superseded(s, q - 1, until[s]) \/ Ends(s, q - 1)
      BY <1>1, <3>1
    <3>3. ~Ends(s, q - 1)
      BY <1>0, <3>1, OneKind
    <3>4. IsMark(s, (q - 1) + 1) /\ (q - 1) + 1 = q
      BY <1>4, <2>0, <3>2, <3>3 DEF Superseded
    <3> QED BY <1>4, <3>4
  <2> QED BY <1>4, <2>0, <2>2, <2>3, <2>4
<1> QED BY <1>3, <1>4

\* What WriteOne leaves of the packets: an item is written, a mark may be.
LEMMA WritesOne ==
  ASSUME TypeOK, NEW s \in Stream, NEW n \in 1 .. Len(script[s]), Writes(s, n),
         last \in [Stream -> Nat \cup {None}]
  PROVE  \/ /\ UNCHANGED <<written, last>>
            /\ IsMark(s, n) /\ ~Due(s, TimeOf(s, n))
         \/ /\ DOMAIN written = 1 .. Len(written) /\ Len(written) \in Nat
            /\ DOMAIN written' = 1 .. Len(written) + 1
            /\ \A i \in 1 .. Len(written) : written'[i] = written[i]
            /\ written'[Len(written) + 1].stream = s /\ written'[Len(written) + 1].nth = n
            /\ written'[Len(written) + 1].kind = At(s, n).kind
            /\ s \in Data => /\ written'[Len(written) + 1].at = last'[s]
                             /\ last'[s] \in Nat
                             /\ TimeOf(s, n) <= last'[s] /\ last[s] <= last'[s]
            /\ \A r \in Stream \ {s} : last'[r] = last[r]
<1>1. /\ n = Head(held[s]) /\ FrontTime(s) = TimeOf(s, n) /\ TimeOf(s, n) \in Nat
      /\ ~Ends(s, n) /\ WriteOne(s)
  BY DEF Writes
<1> DEFINE t == Place(s, TimeOf(s, n))
           packet == [stream |-> s, nth |-> n, kind |-> At(s, n).kind, at |-> t]
<1>2. \/ /\ UNCHANGED <<written, last>>
         /\ ~(IsItem(s, n) \/ Due(s, TimeOf(s, n)))
      \/ /\ written' = Append(written, packet)
         /\ last' = IF s \in Data THEN [last EXCEPT ![s] = t] ELSE last
  BY <1>1 DEF WriteOne
<1>3. CASE UNCHANGED <<written, last>> /\ ~(IsItem(s, n) \/ Due(s, TimeOf(s, n)))
  BY <1>1, <1>3, OneKind
<1>4. CASE /\ written' = Append(written, packet)
           /\ last' = IF s \in Data THEN [last EXCEPT ![s] = t] ELSE last
  <2>1. t \in Nat /\ (s \in Data => TimeOf(s, n) <= t /\ last[s] <= t)
    <3>1. TimeOf(s, n) \in Int /\ last[s] \in Int
      BY <1>1 DEF None
    <3>2. /\ Max({TimeOf(s, n), last[s]}) \in {TimeOf(s, n), last[s]}
          /\ Max({TimeOf(s, n), last[s]}) >= TimeOf(s, n)
          /\ Max({TimeOf(s, n), last[s]}) >= last[s]
      BY <3>1, MaxOfTwo, Zenon
    <3> QED BY <1>1, <3>1, <3>2 DEF Place
  <2>2. \E S : written \in Seq(S) /\ packet \in S
    <3> DEFINE S == [stream : Stream, nth : Nat, kind : {"item", "mark"}, at : Nat]
    <3>1. written \in Seq(S)
      BY DEF TypeOK
    <3>2. At(s, n).kind \in {"item", "mark"} /\ n \in Nat
      BY <1>1, OneKind DEF IsItem, IsMark
    <3>3. packet \in S
      BY <2>1, <3>2
    <3> QED BY <3>1, <3>3
  <2>3. /\ DOMAIN written = 1 .. Len(written) /\ Len(written) \in Nat
        /\ DOMAIN written' = 1 .. Len(written) + 1
        /\ \A i \in 1 .. Len(written) : written'[i] = written[i]
        /\ written'[Len(written) + 1] = packet
    <3> HIDE DEF packet
    <3> QED BY <1>4, <2>2
  <2>4. /\ s \in Data => last'[s] = t
        /\ \A r \in Stream \ {s} : last'[r] = last[r]
    <3> HIDE DEF t
    <3> QED BY <1>4
  <2>5. packet.stream = s /\ packet.nth = n /\ packet.kind = At(s, n).kind /\ packet.at = t
    OBVIOUS
  <2> HIDE DEF t, packet
  <2> QED BY <2>1, <2>3, <2>4, <2>5
<1> QED BY <1>2, <1>3, <1>4

\* An item that is written has all before it, of every stream, written.
LEMMA WriteAfterAll ==
  ASSUME TypeOK, Tracks, Times, AheadOfTheRest, GoneIsWritten,
         NEW s \in Writable, NEW n \in 1 .. Len(script[s]), Writes(s, n), IsItem(s, n)
  PROVE  /\ \A e \in Items : Before(e[1], e[2], s, n) => Wrote(e[1], e[2])
         /\ \A j \in DOMAIN written : ~(written[j].stream = s /\ written[j].nth = n)
<1>0. s \in Stream
  BY DEF Writable
<1>1. /\ ~Gone(s, n) /\ FirstLeft(s, n)
      /\ \A j \in 1 .. Len(script[s]) : j < n <=> Gone(s, j)
  BY <1>0, WriteGone
<1>2. ASSUME NEW r \in Stream, NEW k \in 1 .. Len(script[r]), IsItem(r, k), Before(r, k, s, n)
      PROVE  Wrote(r, k)
  <2>1. CASE r = s
    BY <1>1, <1>2, <2>1 DEF Before, GoneIsWritten
  <2>2. CASE r # s /\ Gone(r, k)
    BY <1>2, <2>2 DEF GoneIsWritten
  <2>3. CASE r # s /\ ~Gone(r, k)
    <3>0. /\ Reached(r, k) \in Nat /\ Reached(s, n) \in Nat
          /\ r \in Nat /\ s \in Nat /\ Len(script[s]) \in Nat
      BY <1>0, Typed, ReachedIsSaid DEF TypeOK
    <3>1. Precedes(r, Reached(r, k), s, Reached(s, n))
      BY <1>2, <2>3 DEF Before
    <3>2. PICK j \in 1 .. n : Reached(s, n) = TimeOf(s, j)
      BY <1>0, ReachedIsSaid DEF TypeOK
    <3>3. CASE j = n
      <4>1. Precedes(s, TimeOf(s, n), r, Reached(r, k))
        BY <2>3, WritePrecedes
      <4> QED BY <3>0, <3>1, <3>2, <3>3, <4>1 DEF Precedes
    <3>4. CASE j # n
      <4>1. j \in 1 .. Len(script[s]) /\ Gone(s, j) /\ n \in j + 1 .. Len(script[s])
        BY <1>1, <3>0, <3>2, <3>4
      <4>2. ~IsMark(s, n)
        BY DEF IsItem, IsMark
      <4>3. Precedes(s, TimeOf(s, j), r, Reached(r, k))
        BY <1>0, <1>1, <1>2, <2>3, <4>1, <4>2 DEF AheadOfTheRest
      <4> QED BY <3>0, <3>1, <3>2, <4>3 DEF Precedes
    <3> QED BY <3>3, <3>4
  <2> QED BY <2>1, <2>2, <2>3
<1>3. ASSUME NEW e \in Items, Before(e[1], e[2], s, n) PROVE Wrote(e[1], e[2])
  <2>1. PICK r \in Stream : e \in {<<r, k>> : k \in DOMAIN script[r]}
    BY DEF Items, Entries
  <2>2. PICK k \in DOMAIN script[r] : e = <<r, k>>
    BY <2>1
  <2>3. DOMAIN script[r] = 1 .. Len(script[r])
    <3>1. script[r] \in Seq([kind : {"item", "mark", "end"}, time : Nat])
      BY NutAssumption DEF TypeOK, Stream
    <3> QED BY <3>1
  <2>4. IsItem(r, k)
    BY <2>2 DEF Items
  <2> QED BY <1>2, <1>3, <2>2, <2>3, <2>4
<1>4. ASSUME NEW j \in DOMAIN written, written[j].stream = s, written[j].nth = n PROVE FALSE
  BY <1>1, <1>4 DEF GoneIsWritten
<1> QED BY <1>3, <1>4

LEMMA WriteOrder ==
  ASSUME TypeOK, Tracks, Times, AheadOfTheRest, GoneIsWritten, InTimeOrder,
         NEW s \in Writable, NEW n \in 1 .. Len(script[s]), Writes(s, n)
  PROVE  InTimeOrder'
<1>0. s \in Stream /\ script' = script /\ last \in [Stream -> Nat \cup {None}]
  BY DEF Writable, Writes, TypeOK
<1>1. InTimeOrder' <=>
        \A i \in DOMAIN written' : written'[i].kind = "item" =>
          /\ \A e \in Items : Before(e[1], e[2], written'[i].stream, written'[i].nth) =>
               \E j \in 1 .. i - 1 : written'[j].stream = e[1] /\ written'[j].nth = e[2]
          /\ \A j \in 1 .. i - 1 :
               <<written'[j].stream, written'[j].nth>> # <<written'[i].stream, written'[i].nth>>
  BY <1>0 DEF InTimeOrder, Items, Entries, IsItem, Before, Precedes, Reached, At
<1>2. CASE written' = written
  BY <1>1, <1>2 DEF InTimeOrder
<1>3. CASE written' # written
  <2> DEFINE N == Len(written)
  <2>1. /\ DOMAIN written = 1 .. N /\ N \in Nat
        /\ DOMAIN written' = 1 .. N + 1
        /\ \A i \in 1 .. N : written'[i] = written[i]
        /\ written'[N + 1].stream = s /\ written'[N + 1].nth = n
        /\ written'[N + 1].kind = At(s, n).kind
    BY <1>0, <1>3, WritesOne
  <2> HIDE DEF N
  <2>2. ASSUME NEW i \in 1 .. N, written'[i].kind = "item"
        PROVE  /\ \A e \in Items : Before(e[1], e[2], written'[i].stream, written'[i].nth) =>
                    \E j \in 1 .. i - 1 : written'[j].stream = e[1] /\ written'[j].nth = e[2]
               /\ \A j \in 1 .. i - 1 :
                    <<written'[j].stream, written'[j].nth>> # <<written'[i].stream, written'[i].nth>>
    <3>1. written'[i] = written[i] /\ \A j \in 1 .. i - 1 : written'[j] = written[j]
      BY <2>1
    <3>2. /\ \A e \in Items : Before(e[1], e[2], written[i].stream, written[i].nth) =>
               \E j \in 1 .. i - 1 : written[j].stream = e[1] /\ written[j].nth = e[2]
          /\ \A j \in 1 .. i - 1 :
               <<written[j].stream, written[j].nth>> # <<written[i].stream, written[i].nth>>
      BY <2>1, <2>2, <3>1 DEF InTimeOrder
    <3> QED BY <3>1, <3>2
  <2>3. ASSUME At(s, n).kind = "item"
        PROVE  /\ \A e \in Items : Before(e[1], e[2], s, n) =>
                    \E j \in 1 .. N : written'[j].stream = e[1] /\ written'[j].nth = e[2]
               /\ \A j \in 1 .. N : <<written'[j].stream, written'[j].nth>> # <<s, n>>
    <3>1. /\ \A e \in Items : Before(e[1], e[2], s, n) => Wrote(e[1], e[2])
          /\ \A j \in DOMAIN written : ~(written[j].stream = s /\ written[j].nth = n)
      BY <2>3, WriteAfterAll DEF IsItem
    <3>2. ASSUME NEW e \in Items, Before(e[1], e[2], s, n)
          PROVE  \E j \in 1 .. N : written'[j].stream = e[1] /\ written'[j].nth = e[2]
      <4>1. Wrote(e[1], e[2])
        BY <3>1, <3>2
      <4>2. PICK j \in DOMAIN written : written[j].stream = e[1] /\ written[j].nth = e[2]
        BY <4>1 DEF Wrote
      <4>3. j \in 1 .. N /\ written'[j] = written[j]
        BY <2>1
      <4> QED BY <4>2, <4>3
    <3>3. ASSUME NEW j \in 1 .. N
          PROVE  <<written'[j].stream, written'[j].nth>> # <<s, n>>
      <4>1. written'[j] = written[j] /\ j \in DOMAIN written
        BY <2>1
      <4> QED BY <3>1, <4>1
    <3> QED BY <3>2, <3>3
  <2>4. N + 1 - 1 = N
    BY <2>1
  <2>5. ASSUME NEW i \in DOMAIN written', written'[i].kind = "item"
        PROVE  /\ \A e \in Items : Before(e[1], e[2], written'[i].stream, written'[i].nth) =>
                    \E j \in 1 .. i - 1 : written'[j].stream = e[1] /\ written'[j].nth = e[2]
               /\ \A j \in 1 .. i - 1 :
                    <<written'[j].stream, written'[j].nth>> # <<written'[i].stream, written'[i].nth>>
    <3>1. CASE i \in 1 .. N
      BY <2>2, <2>5, <3>1
    <3>2. CASE i = N + 1
      BY <2>1, <2>3, <2>4, <2>5, <3>2
    <3>3. i \in 1 .. N \/ i = N + 1
      BY <2>1
    <3> QED BY <3>1, <3>2, <3>3
  <2> QED BY <1>1, <2>5
<1> QED BY <1>2, <1>3

LEMMA WriteGoes ==
  ASSUME TypeOK, Tracks, GoneIsWritten,
         NEW s \in Stream, NEW n \in 1 .. Len(script[s]), Writes(s, n)
  PROVE  GoneIsWritten'
<1>0. script' = script /\ last \in [Stream -> Nat \cup {None}]
  BY DEF Writes, TypeOK
<1>1. /\ Gone(s, n)'
      /\ \A m \in 1 .. Len(script[s]) :
           /\ m < n <=> Gone(s, m)
           /\ Gone(s, m) => Gone(s, m)'
           /\ Gone(s, m)' /\ n < m => Superseded(s, m, until[s]) \/ Ends(s, m)
      /\ \A x \in Stream \ {s} : \A m : Gone(x, m)' <=> Gone(x, m)
  BY WriteGone
<1>2. ASSUME NEW x \in Stream, NEW m \in 1 .. Len(script[x]), Wrote(x, m) PROVE Wrote(x, m)'
  <2>1. PICK i \in DOMAIN written :
          written[i].stream = x /\ written[i].nth = m /\ written[i].kind = "item"
    BY <1>2 DEF Wrote
  <2>2. i \in DOMAIN written' /\ written'[i] = written[i]
    <3>1. \/ written' = written
          \/ /\ DOMAIN written = 1 .. Len(written) /\ Len(written) \in Nat
             /\ DOMAIN written' = 1 .. Len(written) + 1
             /\ \A j \in 1 .. Len(written) : written'[j] = written[j]
      BY <1>0, WritesOne
    <3> QED BY <3>1
  <2> QED BY <2>1, <2>2 DEF Wrote
<1>3. ASSUME NEW x \in Stream, NEW m \in 1 .. Len(script[x]), Gone(x, m)', IsItem(x, m)
      PROVE  Wrote(x, m)'
  <2>1. CASE Gone(x, m)
    BY <1>2, <1>3, <2>1 DEF GoneIsWritten
  <2>2. CASE x = s /\ m = n
    <3>1. \E i \in DOMAIN written' :
            written'[i].stream = s /\ written'[i].nth = n /\ written'[i].kind = "item"
      <4>1. ~IsMark(s, n) /\ At(s, n).kind = "item"
        BY <1>3, <2>2 DEF IsItem, IsMark
      <4>2. /\ Len(written) + 1 \in DOMAIN written'
            /\ written'[Len(written) + 1].stream = s /\ written'[Len(written) + 1].nth = n
            /\ written'[Len(written) + 1].kind = At(s, n).kind
        BY <1>0, <4>1, WritesOne
      <4> QED BY <4>1, <4>2
    <3> QED BY <2>2, <3>1 DEF Wrote
  <2>3. CASE ~Gone(x, m) /\ ~(x = s /\ m = n)
    <3>1. x = s /\ n < m
      <4>1. m \in Nat /\ n \in Nat
        BY Typed
      <4> QED BY <1>1, <1>3, <2>3, <4>1
    <3>2. Superseded(s, m, until[s]) \/ Ends(s, m)
      BY <1>1, <1>3, <3>1
    <3> QED BY <1>3, <3>1, <3>2 DEF Superseded, IsItem, IsMark, Ends
  <2> QED BY <2>1, <2>2, <2>3
<1>4. ASSUME NEW i \in DOMAIN written', NEW x, x = written'[i].stream,
             NEW m, m = written'[i].nth
      PROVE  Gone(x, m)'
  <2>1. CASE i \in DOMAIN written /\ written'[i] = written[i]
    <3>1. Gone(x, m) /\ x \in Stream
      BY <1>4, <2>1, PacketTyped DEF GoneIsWritten
    <3>2. m \in 1 .. Len(script[x])
      BY <3>1, Typed DEF Gone
    <3> QED BY <1>1, <3>1, <3>2
  <2>2. CASE x = s /\ m = n
    BY <1>1, <2>2
  <2>3. \/ i \in DOMAIN written /\ written'[i] = written[i]
        \/ written'[i].stream = s /\ written'[i].nth = n
    BY <1>0, WritesOne
  <2> QED BY <1>4, <2>1, <2>2, <2>3
<1>5. \A i \in DOMAIN written' : Gone(written[i].stream, written[i].nth)'
  BY <1>4 DEF Gone, Pending, InHand, InQueue
<1> QED BY <1>0, <1>3, <1>5 DEF GoneIsWritten, IsItem, At

\* A data stream's last packet stays close behind what is gone of it.
LEMMA WriteBeat ==
  ASSUME TypeOK, Tracks, Live, CloseBehind,
         NEW s \in Stream, NEW n \in 1 .. Len(script[s]), Writes(s, n)
  PROVE  CloseBehind'
<1>0. script' = script /\ until' = until /\ last \in [Stream -> Nat \cup {None}]
  BY DEF Writes, TypeOK
<1>1. /\ \A m \in 1 .. Len(script[s]) :
           /\ m < n <=> Gone(s, m)
           /\ Gone(s, m)' /\ n < m => Superseded(s, m, until[s]) \/ Ends(s, m)
      /\ \A x \in Stream \ {s} : \A m : Gone(x, m)' <=> Gone(x, m)
  BY WriteGone
<1> SUFFICES ASSUME NEW x \in Data, NEW m \in 1 .. Len(script[x]),
      Gone(x, m)', IsMark(x, m), m = until[x] \/ ~IsMark(x, m + 1)
    PROVE  last'[x] # None /\ last'[x] > TimeOf(x, m) - Every
  BY <1>0 DEF CloseBehind, IsMark, TimeOf, At
<1>2. x \in Stream /\ Every \in Nat \ {0}
  BY NutAssumption DEF Stream
<1>3. TimeOf(x, m) \in Nat /\ last[x] \in Int /\ m \in Nat /\ n \in Nat
  BY <1>0, <1>2, OneKind, Typed DEF None
<1>4. \/ last'[x] = last[x]
      \/ x = s /\ last'[x] \in Nat /\ TimeOf(s, n) <= last'[x] /\ last[x] <= last'[x]
  BY <1>0, <1>2, WritesOne
<1>5. CASE Gone(x, m)
  <2>1. last[x] # None /\ last[x] > TimeOf(x, m) - Every
    BY <1>5 DEF CloseBehind
  <2>2. CASE last'[x] = last[x]
    BY <2>1, <2>2
  <2>3. CASE last'[x] \in Nat /\ last[x] <= last'[x]
    BY <1>2, <1>3, <2>1, <2>3 DEF None
  <2> QED BY <1>4, <2>2, <2>3
<1>6. CASE x = s /\ m = n
  <2>1. CASE last'[s] \in Nat /\ TimeOf(s, n) <= last'[s]
    BY <1>2, <1>3, <1>6, <2>1 DEF None
  <2>2. CASE UNCHANGED last /\ ~Due(s, TimeOf(s, n))
    <3>1. last[s] # None /\ ~(TimeOf(s, n) - last[s] >= Every)
      BY <1>6, <2>2 DEF Due
    <3> QED BY <1>2, <1>3, <1>6, <2>2, <3>1
  <2> QED BY <1>0, <1>6, <2>1, <2>2, WritesOne
<1>7. CASE ~Gone(x, m) /\ ~(x = s /\ m = n)
  <2>1. x = s /\ n < m
    BY <1>1, <1>2, <1>3, <1>7
  <2>2. Superseded(s, m, until[s]) \/ Ends(s, m)
    BY <1>1, <2>1
  <2> QED BY <1>0, <1>3, <2>1, <2>2 DEF Superseded, IsMark, Ends
<1> QED BY <1>5, <1>6, <1>7

LEMMA WriteLast ==
  ASSUME TypeOK, NEW s \in Stream, NEW n \in 1 .. Len(script[s]), Writes(s, n),
         \A d \in Data : LastWritten(d)
  PROVE  \A d \in Data : LastWritten(d)'
<1>0. last \in [Stream -> Nat \cup {None}]
  BY DEF TypeOK
<1> SUFFICES ASSUME NEW d \in Data, last'[d] # None
             PROVE  \E i \in DOMAIN written' : written'[i].stream = d /\ written'[i].at = last'[d]
  BY DEF LastWritten
<1>1. d \in Stream
  BY NutAssumption DEF Stream
<1>2. CASE UNCHANGED <<written, last>>
  BY <1>2 DEF LastWritten
<1>3. CASE /\ DOMAIN written = 1 .. Len(written) /\ Len(written) \in Nat
           /\ DOMAIN written' = 1 .. Len(written) + 1
           /\ \A i \in 1 .. Len(written) : written'[i] = written[i]
           /\ written'[Len(written) + 1].stream = s
           /\ s \in Data => written'[Len(written) + 1].at = last'[s]
           /\ \A r \in Stream \ {s} : last'[r] = last[r]
  <2>1. CASE d = s
    BY <1>3, <2>1
  <2>2. CASE d # s
    <3>1. last'[d] = last[d]
      BY <1>1, <1>3, <2>2
    <3>2. PICK i \in DOMAIN written : written[i].stream = d /\ written[i].at = last[d]
      BY <3>1 DEF LastWritten
    <3> QED BY <1>3, <3>1, <3>2
  <2> QED BY <2>1, <2>2
<1> QED BY <1>0, <1>2, <1>3, WritesOne

-----------------------------------------------------------------------------
(* The inductive step.                                                     *)

LEMMA OrderInit == Init => OrderInvariant /\ BeatInvariant
<1> SUFFICES ASSUME Init PROVE OrderInvariant /\ BeatInvariant
  OBVIOUS
<1>1. /\ queue = <<>> /\ handed = [s \in Stream |-> 0]
      /\ held = [s \in Stream |-> <<>>] /\ settled = [s \in Stream |-> None]
      /\ ended = [s \in Stream |-> FALSE] /\ last = [s \in Stream |-> None]
      /\ written = <<>>
  BY DEF Init
<1>2. DOMAIN written = {} /\ DOMAIN queue = {}
  BY <1>1
<1>3. ASSUME NEW s \in Stream
      PROVE  /\ handed[s] = 0 /\ settled[s] = None /\ ended[s] = FALSE /\ last[s] = None
             /\ held[s] = <<>> /\ DOMAIN held[s] = {}
             /\ InHand(s) = {} /\ InQueue(s) = {}
  BY <1>1, <1>2 DEF InHand, InQueue, Of, Range
<1>4. \A s \in Stream : \A m : ~Gone(s, m) /\ ~Taken(s, m)
  <2>1. \A s \in Stream : 1 .. handed[s] = {}
    <3>1. 1 .. 0 = {}
      OBVIOUS
    <3> QED BY <1>3, <3>1
  <2> QED BY <2>1 DEF Gone, Taken
<1>5. Tracks
  <2>1. InTurn
    <3>1. InOrder(queue)
      BY <1>2 DEF InOrder
    <3>2. ASSUME NEW s \in Stream
          PROVE  Rising(held[s]) /\ \A p \in InHand(s), q \in InQueue(s) : p < q
      BY <1>3, <3>2 DEF Rising
    <3> QED BY <3>1, <3>2 DEF InTurn
  <2>2. LeftOut
    <3> SUFFICES ASSUME NEW s \in Stream, NEW m \in 1 .. handed[s] PROVE FALSE
      BY DEF LeftOut
    <3>1. m \in 1 .. 0
      BY <1>3
    <3> QED BY <3>1
  <2>3. EndsLast
    BY <1>3, <1>4 DEF EndsLast
  <2> QED BY <2>1, <2>2, <2>3 DEF Tracks
<1>6. Times
  BY <1>3, <1>4 DEF Times, SettledIsTaken, SettledCovers
<1>7. AheadOfTheRest /\ GoneIsWritten
  BY <1>2, <1>4 DEF AheadOfTheRest, GoneIsWritten
<1>8. InTimeOrder
  BY <1>2 DEF InTimeOrder
<1>9. (\A s \in Data : LastWritten(s)) /\ CloseBehind
  <2>1. Data \subseteq Stream
    BY NutAssumption DEF Stream
  <2> QED BY <1>3, <1>4, <2>1 DEF LastWritten, CloseBehind
<1> QED BY <1>5, <1>6, <1>7, <1>8, <1>9 DEF OrderInvariant, BeatInvariant

LEMMA OrderKeeps ==
  ASSUME MarksLead, TypeOK, TypeOK', OrderInvariant, [Next]_vars
  PROVE  OrderInvariant'
<1>1. InTimeOrder /\ (outcome = "writing" => Tracks /\ Times /\ AheadOfTheRest /\ GoneIsWritten)
  BY DEF OrderInvariant
<1>2. UNCHANGED <<script, written>> => InTimeOrder'
  <2> HAVE UNCHANGED <<script, written>>
  <2>1. InTimeOrder' <=> InTimeOrder
    BY DEF InTimeOrder, Items, Entries, IsItem, Before, Precedes, Reached, At
  <2> QED BY <1>1, <2>1
<1>3. CASE outcome' # "writing"
  <2>1. UNCHANGED <<script, written>>
    <3>1. Write => FALSE
      BY <1>3 DEF Write
    <3> QED BY <3>1 DEF Next, Writer, HandOn, Take, Idle, Finish, Break, Over, vars
  <2> QED BY <1>2, <1>3, <2>1 DEF OrderInvariant
<1>4. CASE outcome' = "writing" /\ outcome # "writing"
  BY <1>4 DEF Next, Writer, HandOn, Take, Idle, Write, Finish, Break, Over, vars
<1>5. CASE outcome = "writing" /\ outcome' = "writing"
  <2>0. Tracks /\ Times /\ AheadOfTheRest /\ GoneIsWritten /\ InTurn
    BY <1>1, <1>5 DEF Tracks
  <2>1. ASSUME NEW s \in Stream, HandOn(s) PROVE OrderInvariant'
    <3>1. Forward
      BY <1>5, <2>0, <2>1, HandsForward
    <3>2. UNCHANGED <<script, written>>
      BY <2>1 DEF HandOn
    <3>3. Tracks' /\ Times'
      BY <1>5, <2>0, <2>1, HandOnTracks
    <3> QED BY <1>2, <2>0, <3>1, <3>2, <3>3, ForwardOrder DEF OrderInvariant
  <2>2. CASE Take
    <3>1. Forward
      BY <2>0, <2>2, TakeForward
    <3>2. UNCHANGED <<script, written>>
      BY <2>2 DEF Take
    <3>3. Tracks' /\ Times'
      BY <2>0, <2>2, TakeTracks, TakeTimes
    <3> QED BY <1>2, <2>0, <3>1, <3>2, <3>3, ForwardOrder DEF OrderInvariant
  <2>3. CASE Write
    <3>0. PICK s \in Writable : \E n \in 1 .. Len(script[s]) : Writes(s, n)
      BY <2>0, <2>3, WriteTakes
    <3>1. PICK n \in 1 .. Len(script[s]) : Writes(s, n)
      BY <3>0
    <3>2. s \in Stream
      BY DEF Writable
    <3>3. Tracks' /\ Times'
      BY <2>0, <3>1, <3>2, WriteTracks
    <3>4. AheadOfTheRest'
      BY <2>0, <3>1, WriteAhead
    <3>5. GoneIsWritten'
      BY <2>0, <3>1, <3>2, WriteGoes
    <3>6. InTimeOrder'
      BY <1>1, <2>0, <3>1, WriteOrder
    <3> QED BY <3>3, <3>4, <3>5, <3>6 DEF OrderInvariant
  <2>4. CASE UNCHANGED <<script, handed, until, queue, held, settled, ended, last, written>>
    <3>1. \A x \in Stream : \A m : /\ Gone(x, m)' <=> Gone(x, m)
                                   /\ FirstLeft(x, m)' <=> FirstLeft(x, m)
      BY <2>4 DEF Gone, FirstLeft, UpToNext, Pending, InHand, InQueue
    <3>2. Forward
      BY <2>4, <3>1 DEF Forward
    <3>3. Tracks' /\ Times'
      <4>1. /\ InTurn' <=> InTurn
            /\ LeftOut' <=> LeftOut
            /\ EndsLast' <=> EndsLast
        BY <2>4 DEF InTurn, LeftOut, EndsLast, Gone, Taken, Pending, InHand, InQueue,
                    Superseded, IsMark, Ends, At
      <4>2. Times' <=> Times
        BY <2>4 DEF Times, SettledIsTaken, SettledCovers, Taken, FirstQueued, UpToNext, InQueue,
                    Superseded, IsMark, Ends, TimeOf, At
      <4> QED BY <2>0, <4>1, <4>2 DEF Tracks
    <3> QED BY <1>2, <2>0, <2>4, <3>2, <3>3, ForwardOrder DEF OrderInvariant
  <2>5. Finish \/ Break => FALSE
    BY <1>5 DEF Finish, Break
  <2>6. Idle \/ Over \/ UNCHANGED vars =>
          UNCHANGED <<script, handed, until, queue, held, settled, ended, last, written>>
    BY DEF Idle, Over, vars
  <2> QED BY <2>1, <2>2, <2>3, <2>4, <2>5, <2>6 DEF Next, Writer
<1> QED BY <1>3, <1>4, <1>5

LEMMA BeatKeeps ==
  ASSUME TypeOK, OrderInvariant, BeatInvariant, [Next]_vars
  PROVE  BeatInvariant'
<1> SUFFICES ASSUME outcome' = "writing"
             PROVE  (\A s \in Data : LastWritten(s)') /\ (Live => CloseBehind')
  BY DEF BeatInvariant
<1>1. outcome = "writing"
  BY DEF Next, Writer, HandOn, Take, Idle, Write, Finish, Break, Over, vars
<1>2. /\ Tracks /\ InTurn
      /\ \A s \in Data : LastWritten(s)
      /\ Live => CloseBehind
  BY <1>1 DEF OrderInvariant, BeatInvariant, Tracks
<1>3. ASSUME Forward, UNCHANGED <<script, written, last>>
      PROVE  (\A s \in Data : LastWritten(s)') /\ (Live => CloseBehind')
  BY <1>2, <1>3, ForwardBeat
<1>4. ASSUME NEW s \in Stream, HandOn(s)
      PROVE  (\A r \in Data : LastWritten(r)') /\ (Live => CloseBehind')
  <2>1. Forward /\ UNCHANGED <<script, written, last>>
    <3>1. Forward
      BY <1>1, <1>2, <1>4, HandsForward
    <3> QED BY <1>4, <3>1 DEF HandOn
  <2> QED BY <1>3, <2>1
<1>5. CASE Take
  <2>1. Forward /\ UNCHANGED <<script, written, last>>
    <3>1. Forward
      BY <1>2, <1>5, TakeForward
    <3> QED BY <1>5, <3>1 DEF Take
  <2> QED BY <1>3, <2>1
<1>6. CASE Write
  <2>0. PICK s \in Writable : \E n \in 1 .. Len(script[s]) : Writes(s, n)
    BY <1>2, <1>6, WriteTakes
  <2>1. PICK n \in 1 .. Len(script[s]) : Writes(s, n)
    BY <2>0
  <2>2. s \in Stream
    BY DEF Writable
  <2>3. \A r \in Data : LastWritten(r)'
    BY <1>2, <2>1, <2>2, WriteLast
  <2>4. Live => CloseBehind'
    BY <1>2, <2>1, <2>2, WriteBeat
  <2> QED BY <2>3, <2>4
<1>7. CASE Idle \/ Over \/ UNCHANGED vars
  <2>1. UNCHANGED <<script, handed, until, queue, held, last, written>>
    BY <1>7 DEF Idle, Over, vars
  <2>2. \A x \in Stream : \A m : /\ Gone(x, m)' <=> Gone(x, m)
                                 /\ FirstLeft(x, m)' <=> FirstLeft(x, m)
    BY <2>1 DEF Gone, FirstLeft, UpToNext, Pending, InHand, InQueue
  <2>3. Forward
    BY <2>1, <2>2 DEF Forward
  <2> QED BY <1>3, <2>1, <2>3
<1>8. ~Finish /\ ~Break
  BY DEF Finish, Break
<1> QED BY <1>4, <1>5, <1>6, <1>7, <1>8 DEF Next, Writer

-----------------------------------------------------------------------------
(* What the writer does not wait for.                                      *)

\* Of the streams that hold something, one's front goes first.
LEMMA SomeFrontIsFirst ==
  ASSUME TypeOK, InTurn, NEW s0 \in Stream, held[s0] # <<>>
  PROVE  \E s \in Stream :
           /\ held[s] # <<>>
           /\ \A r \in Stream \ {s} : held[r] # <<>> => Precedes(s, FrontTime(s), r, FrontTime(r))
<1> DEFINE Holding == {s \in Stream : held[s] # <<>>}
           Fronts == {FrontTime(s) : s \in Holding}
<1>1. \A s \in Holding : FrontTime(s) \in Nat /\ s \in Nat
  <2> TAKE s \in Holding
  <2>1. PICK n : n = Head(held[s])
    OBVIOUS
  <2>2. FrontTime(s) = TimeOf(s, n) /\ TimeOf(s, n) \in Nat
    BY <2>1, FrontOf
  <2> QED BY <2>2, Typed
<1>2. PICK t \in Fronts : \A u \in Fronts : t <= u
  <2>1. Fronts \in SUBSET Nat /\ Fronts # {}
    BY <1>1
  <2> HIDE DEF Fronts
  <2> QED BY <2>1, Least
<1> DEFINE Firsts == {s \in Holding : FrontTime(s) = t}
<1>3. PICK s \in Firsts : \A r \in Firsts : s <= r
  <2>1. Firsts \in SUBSET Nat /\ Firsts # {}
    BY <1>1, <1>2
  <2> HIDE DEF Firsts
  <2> QED BY <2>1, Least
<1>4. ASSUME NEW r \in Stream \ {s}, held[r] # <<>>
      PROVE  Precedes(s, FrontTime(s), r, FrontTime(r))
  <2>1. r \in Holding /\ FrontTime(s) = t /\ t <= FrontTime(r)
    BY <1>2, <1>4
  <2>2. FrontTime(r) = t => s <= r
    BY <1>3, <2>1
  <2>3. t \in Nat /\ FrontTime(r) \in Nat /\ s \in Nat /\ r \in Nat
    BY <1>1, <2>1
  <2> QED BY <2>1, <2>2, <2>3 DEF Precedes
<1> QED BY <1>3, <1>4

\* A stream whose flush is over and taken has settled what it has reached.
LEMMA TakenIsSettled ==
  ASSUME TypeOK, MarksLead, Tracks, Times, NEW r \in Stream,
         InQueue(r) = {}, handed[r] = until[r], handed[r] > 0, handed[r] # Len(script[r])
  PROVE  settled[r] # None /\ Reached(r, handed[r]) <= settled[r]
<1> DEFINE h == handed[r]
<1>1. /\ h \in Nat /\ Len(script[r]) \in Nat /\ h \in 1 .. Len(script[r]) /\ h < Len(script[r])
  BY Typed
<1>2. settled[r] \in Int
  BY DEF TypeOK, None
<1>3. ASSUME NEW j \in 1 .. h PROVE TimeOf(r, j) <= settled[r]
  <2>0. j \in 1 .. Len(script[r]) /\ TimeOf(r, j) \in Nat
    BY <1>1, OneKind
  <2> DEFINE Kept == {x \in j .. h : ~Superseded(r, x, until[r])}
  <2>1. h \in Kept
    BY <1>1 DEF Superseded
  <2>2. PICK x \in Kept : \A y \in Kept : x <= y
    <3>1. Kept \in SUBSET Nat /\ Kept # {}
      BY <1>1, <2>1
    <3> HIDE DEF Kept
    <3> QED BY <3>1, Least
  <2>3. x \in 1 .. Len(script[r]) /\ x \in 1 .. h /\ ~Superseded(r, x, until[r]) /\ x # Len(script[r])
    BY <1>1
  <2>4. Taken(r, x) /\ ~Ends(r, x)
    BY <1>1, <2>3, OneKind DEF Taken
  <2>5. TimeOf(r, x) <= settled[r] /\ TimeOf(r, x) \in Nat
    BY <2>3, <2>4, OneKind DEF Times, SettledCovers
  <2>6. CASE x = j
    BY <2>5, <2>6
  <2>7. CASE x # j
    <3>1. x - 1 \in j .. h /\ x - 1 \notin Kept /\ j \in 1 .. x
      <4>1. x - 1 \in j .. h /\ j \in 1 .. x /\ x \in Nat
        BY <1>1, <2>7
      <4>2. x - 1 \in Kept => x <= x - 1
        BY <2>2
      <4> QED BY <4>1, <4>2
    <3>2. Superseded(r, x - 1, until[r]) /\ (x - 1) + 1 = x
      BY <1>1, <3>1
    <3>3. IsMark(r, x)
      BY <3>2 DEF Superseded
    <3>4. TimeOf(r, j) <= TimeOf(r, x)
      BY <2>3, <3>1, <3>3, MarkLeads
    <3> QED BY <1>2, <2>0, <2>5, <3>4
  <2> QED BY <2>6, <2>7
<1>4. \E k \in 1 .. h : Reached(r, h) = TimeOf(r, k)
  BY <1>1, ReachedIsSaid DEF TypeOK
<1>5. Reached(r, h) \in Nat
  BY <1>1, ReachedIsSaid DEF TypeOK
<1>6. Reached(r, h) <= settled[r]
  BY <1>3, <1>4
<1> QED BY <1>2, <1>5, <1>6 DEF None

\* A script has an end, if nothing else.
LEMMA NonEmptyScript ==
  ASSUME TypeOK, NEW s \in Stream
  PROVE  Len(script[s]) \in 1 .. Len(script[s])
<1>1. /\ script[s] \in Seq([kind : {"item", "mark", "end"}, time : Nat])
      /\ script[s] # <<>>
  BY NutAssumption DEF TypeOK, Stream
<1> QED BY <1>1

\* Waiting, the writer holds nothing that every lane is past.
LEMMA ClearIsGone ==
  ASSUME TypeOK, MarksLead, Tracks, Times, Waiting, NEW s \in Stream,
         NEW n \in 1 .. Len(script[s]), Clear(s, n), ~Superseded(s, n, until[s]), ~Ends(s, n)
  PROVE  Gone(s, n)
<1> SUFFICES ASSUME ~Gone(s, n) PROVE FALSE
  OBVIOUS
<1>1. outcome = "writing" /\ Writable = {} /\ queue = <<>> /\ handed = until /\ InTurn
  BY DEF Waiting, Asking, Tracks
<1>2. \A r \in Stream : InQueue(r) = {}
  BY <1>1 DEF InQueue, Of
<1>3. n \in InHand(s)
  <2>1. n \in 1 .. handed[s]
    BY Typed DEF Clear
  <2> QED BY <1>2, <2>1 DEF Tracks, LeftOut, Pending
<1>4. held[s] # <<>>
  BY <1>3 DEF InHand, Range
<1>5. PICK z \in Stream :
        /\ held[z] # <<>>
        /\ \A r \in Stream \ {z} : held[r] # <<>> => Precedes(z, FrontTime(z), r, FrontTime(r))
  BY <1>1, <1>4, SomeFrontIsFirst
<1>6. PICK m : m = Head(held[z])
  OBVIOUS
<1>7. FrontTime(z) \in Nat /\ z \in Nat /\ s \in Nat
  <2>1. FrontTime(z) = TimeOf(z, m) /\ TimeOf(z, m) \in Nat
    BY <1>1, <1>5, <1>6, FrontOf
  <2> QED BY <2>1, Typed
<1>8. FrontTime(z) < Reached(s, n) \/ (FrontTime(z) <= Reached(s, n) /\ z <= s)
  <2>1. PICK h : h = Head(held[s])
    OBVIOUS
  <2>2. /\ h \in 1 .. Len(script[s]) /\ h <= n
        /\ FrontTime(s) = TimeOf(s, h) /\ TimeOf(s, h) \in Nat
    BY <1>1, <1>3, <1>4, <2>1, FrontOf DEF Pending
  <2>3. FrontTime(s) <= Reached(s, n) /\ Reached(s, n) \in Nat
    <3>1. h \in 1 .. n
      BY <2>2
    <3> QED BY <2>2, <3>1, ReachedIsSaid DEF TypeOK
  <2>4. CASE z = s
    BY <1>7, <2>3, <2>4
  <2>5. CASE z # s
    <3>1. Precedes(z, FrontTime(z), s, FrontTime(s))
      BY <1>4, <1>5, <2>5
    <3> QED BY <1>7, <2>2, <2>3, <3>1 DEF Precedes
  <2> QED BY <2>4, <2>5
<1>9. ASSUME NEW r \in Stream \ {z} PROVE Behind(z, FrontTime(z), r)
  <2>1. CASE held[r] # <<>>
    <3>1. PICK h : h = Head(held[r])
      OBVIOUS
    <3>2. FrontTime(r) \in Nat
      BY <1>1, <2>1, <3>1, FrontOf
    <3>3. Precedes(z, FrontTime(z), r, FrontTime(r))
      BY <1>5, <2>1
    <3> QED BY <2>1, <3>2, <3>3 DEF Behind, Horizon, None
  <2>2. CASE held[r] = <<>> /\ handed[r] = Len(script[r])
    <3>1. Len(script[r]) \in 1 .. handed[r] => Taken(r, Len(script[r]))
      BY <1>2 DEF Taken
    <3>2. Len(script[r]) \in 1 .. Len(script[r])
      <4>1. r # s
        BY <1>4, <2>2
      <4> QED BY <2>2, NonEmptyScript
    <3>3. ended[r]
      BY <2>2, <3>1, <3>2 DEF Tracks, EndsLast
    <3> QED BY <2>2, <3>3 DEF Behind
  <2>3. CASE held[r] = <<>> /\ handed[r] # Len(script[r])
    <3>1. r \in Stream \ {s}
      BY <1>4, <2>3
    <3>2. handed[r] > 0 /\ Precedes(s, Reached(s, n), r, Reached(r, handed[r]))
      BY <2>3, <3>1 DEF Clear
    <3>3. settled[r] # None /\ Reached(r, handed[r]) <= settled[r]
      BY <1>1, <1>2, <2>3, <3>2, TakenIsSettled
    <3>4. /\ Reached(s, n) \in Nat /\ Reached(r, handed[r]) \in Nat
          /\ settled[r] \in Int /\ r \in Nat
      <4>1. handed[r] \in 1 .. Len(script[r]) /\ r \in Nat
        BY <3>2, Typed
      <4>2. settled[r] \in Int
        BY DEF TypeOK, None
      <4> QED BY <4>1, <4>2, ReachedIsSaid DEF TypeOK
    <3>5. Precedes(z, FrontTime(z), r, settled[r])
      BY <1>7, <1>8, <3>2, <3>3, <3>4 DEF Precedes
    <3> QED BY <2>3, <3>3, <3>5 DEF Behind, Horizon
  <2> QED BY <2>1, <2>2, <2>3
<1>10. z \in Writable
  BY <1>5, <1>9 DEF Writable
<1> QED BY <1>1, <1>10

LEMMA WaitingKeepsUp ==
  ASSUME TypeOK, MarksLead, OrderInvariant, BeatInvariant
  PROVE  KeptUp
<1> SUFFICES ASSUME Waiting PROVE KeptUp
  BY DEF KeptUp
<1>1. outcome = "writing"
  BY DEF Waiting, Asking
<1>2. Tracks /\ Times /\ GoneIsWritten /\ (\A s \in Data : LastWritten(s)) /\ (Live => CloseBehind)
  BY <1>1 DEF OrderInvariant, BeatInvariant
<1>3. ASSUME NEW e \in Items, Clear(e[1], e[2]) PROVE Wrote(e[1], e[2])
  <2>1. PICK s \in Stream : e \in {<<s, n>> : n \in DOMAIN script[s]}
    BY DEF Items, Entries
  <2>2. PICK n \in DOMAIN script[s] : e = <<s, n>>
    BY <2>1
  <2>3. n \in 1 .. Len(script[s])
    <3>1. script[s] \in Seq([kind : {"item", "mark", "end"}, time : Nat])
      BY NutAssumption DEF TypeOK, Stream
    <3> QED BY <3>1
  <2>4. IsItem(s, n)
    BY <2>2 DEF Items
  <2>5. ~Superseded(s, n, until[s]) /\ ~Ends(s, n)
    BY <2>4 DEF Superseded, IsItem, IsMark, Ends
  <2>6. Gone(s, n)
    BY <1>2, <1>3, <2>2, <2>3, <2>5, ClearIsGone
  <2> QED BY <1>2, <2>2, <2>3, <2>4, <2>6 DEF GoneIsWritten
<1>4. ASSUME Live, NEW s \in Data, NEW n \in 1 .. handed[s], IsMark(s, n), Clear(s, n),
             n = until[s] \/ ~IsMark(s, n + 1)
      PROVE  \E i \in DOMAIN written : /\ written[i].stream = s
                                       /\ written[i].at > At(s, n).time - Every
  <2>1. s \in Stream
    BY NutAssumption DEF Stream
  <2>2. n \in 1 .. Len(script[s]) /\ n \in Nat /\ until[s] \in Nat
    BY <2>1, Typed
  <2>3. ~Superseded(s, n, until[s]) /\ ~Ends(s, n)
    BY <1>4, <2>2 DEF Superseded, IsMark, Ends
  <2>4. Gone(s, n)
    BY <1>2, <1>4, <2>1, <2>2, <2>3, ClearIsGone
  <2>5. last[s] # None /\ last[s] > TimeOf(s, n) - Every
    BY <1>2, <1>4, <2>2, <2>4 DEF CloseBehind
  <2>6. PICK i \in DOMAIN written : written[i].stream = s /\ written[i].at = last[s]
    BY <1>2, <2>5 DEF LastWritten
  <2> QED BY <2>5, <2>6 DEF TimeOf
<1> QED BY <1>3, <1>4 DEF KeptUp

\* In every reachable state of an output whose marks lead, the invariants of
\* its order hold.
THEOREM OrderSafe ==
  ASSUME MarksLead
  PROVE  Spec => [](OrderInvariant /\ BeatInvariant)
<1>1. Init => NutInvariant /\ OrderInvariant /\ BeatInvariant
  BY InitHolds, OrderInit
<1>2. NutInvariant /\ OrderInvariant /\ BeatInvariant /\ [Next]_vars =>
        NutInvariant' /\ OrderInvariant' /\ BeatInvariant'
  <2> SUFFICES ASSUME NutInvariant, OrderInvariant, BeatInvariant, [Next]_vars
               PROVE  NutInvariant' /\ OrderInvariant' /\ BeatInvariant'
    OBVIOUS
  <2>1. NutInvariant'
    BY NutNextKeeps
  <2>2. TypeOK /\ TypeOK'
    BY <2>1 DEF NutInvariant
  <2> QED BY <2>1, <2>2, OrderKeeps, BeatKeeps
<1> QED BY <1>1, <1>2, PTL DEF Spec

\* What is written is the output's own order, from its start and without a gap
\* or a repeat, for every number of streams, every script whose marks lead and
\* every interleaving of lanes and writer (write_nut).
THEOREM WrittenInOrder ==
  ASSUME MarksLead
  PROVE  Spec => []InTimeOrder
<1>1. OrderInvariant => InTimeOrder
  BY DEF OrderInvariant
<1> QED BY <1>1, OrderSafe, PTL

\* While the writer waits it holds nothing every lane is past, and the reader of
\* a live data stream is less than Every behind the marks (write_nut, Beats::due).
THEOREM WaitsForNothing ==
  ASSUME MarksLead
  PROVE  Spec => []KeptUp
<1>1. NutInvariant /\ OrderInvariant /\ BeatInvariant => KeptUp
  BY WaitingKeepsUp DEF NutInvariant
<1> QED BY <1>1, NutSafe, OrderSafe, PTL
=============================================================================
