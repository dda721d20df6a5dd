----------------------------- MODULE TurnProofs -----------------------------
(***************************************************************************)
(* That the closed forms of module LaneQueue, by which modules Lane and    *)
(* Network cut and dispatch, compute what the loops of lanes.rs compute:   *)
(* the invariant of module TurnLoop, and its proof.                        *)
(***************************************************************************)
EXTENDS TurnLoop, TLAPS

\* What the loops are read for: a lane that runs one tick at a time under an
\* input clock.
OneAtATime == Clock = "input" /\ Width = 1 /\ MaxTick \in Nat

All == Total(settled, over)

\* The last tick of a queue numbered below m.
LastOf(m) == IF over /\ m = settled + 1 THEN settled ELSE None

\* A queue as some whole number of its cuts left it.
Whole(r) == r.withheld = (All > r.next) /\ r.last = LastOf(r.next)

\* A queue while it is being cut, from the bound m to at most Cap more.
Cutting(r, m) ==
  /\ m <= r.next /\ r.next <= Smaller(All, r.head + Cap)
  /\ r.withheld => All > r.next
  /\ r.last = LastOf(r.next)

Looping ==
  /\ settled \in Nat \ {0} /\ over \in BOOLEAN /\ n \in Nat
  /\ start \in [head : {0}, next : Nat, withheld : BOOLEAN, last : {None, settled}]
  /\ start.next <= Smaller(Cap, All)
  /\ start.withheld => All > start.next
  /\ start.last = LastOf(start.next)
  /\ q \in [head : Nat, next : Nat, withheld : BOOLEAN, last : {None, settled}]
  /\ q.head = n

\* An arrival's cut.
CutsOnce ==
  /\ start.last = None
  /\ at = "cut" => Cutting(q, start.next)
  /\ at \in {"cut", "done"}

\* What a turn took: the ticks of k cuts, each of a cap's worth, and some of it
\* past the last.
Taking(k) ==
  /\ Whole(q) /\ q.next = Smaller(All, start.next + k * Cap)
  /\ n <= q.next
  /\ k > 0 => /\ start.withheld
              /\ \/ start.next + (k - 1) * Cap < n
                 \/ start.next + (k - 1) * Cap = n /\ n < TurnMax

\* A turn after k cuts, the next one under way.
Recutting(k) ==
  /\ start.withheld /\ n < TurnMax /\ n < All
  /\ n = start.next + k * Cap
  /\ Cutting(q, n)

TakesTurn ==
  /\ start.next > 0 /\ start.withheld = (All > start.next)
  /\ n <= settled /\ n <= TurnMax
  /\ at = "take" => \E k \in Nat : Taking(k)
  /\ at = "cut" => \E k \in Nat : Recutting(k)
  /\ at \in {"take", "cut", "done"}

LoopInvariant ==
  Looping /\ LoopsAreTheForms /\ (n = 0 => CutsOnce) /\ (n # 0 => TakesTurn)

-----------------------------------------------------------------------------
(* Whole cuts.                                                             *)

LEMMA Caps ==
  ASSUME NEW c \in Nat \ {0}, NEW j \in Nat, NEW k \in Nat
  PROVE  /\ j * c \in Nat /\ (j + 1) * c = j * c + c /\ 0 * c = 0
         /\ j <= k => j * c <= k * c
<1>1. j * c \in Nat /\ (j + 1) * c = j * c + c /\ 0 * c = 0
  BY SMTT(30)
<1>2. ASSUME j <= k PROVE j * c <= k * c
  <2>1. PICK d \in Nat : k = j + d
    BY <1>2
  <2>2. (j + d) * c = j * c + d * c /\ d * c \in Nat /\ j * c \in Nat
    BY SMTT(30)
  <2> QED BY <2>1, <2>2
<1> QED BY <1>1, <1>2

\* Rounding d up to whole caps gives the whole caps it is within.
LEMMA RoundsTo ==
  ASSUME NEW c \in Nat \ {0}, NEW d \in Nat, NEW k \in Nat, d <= k * c, k * c < d + c
  PROVE  ((d + c - 1) \div c) * c = k * c
<1> DEFINE j == (d + c - 1) \div c
<1>1. j \in Nat /\ j * c <= d + c - 1 /\ d + c - 1 < (j + 1) * c
  BY SMTT(30)
<1> HIDE DEF j
<1>2. /\ j * c \in Nat /\ (j + 1) * c = j * c + c
      /\ k * c \in Nat /\ (k + 1) * c = k * c + c
  BY <1>1, Caps
<1>3. d <= j * c /\ j * c < d + c
  BY <1>1, <1>2
<1>4. ~(j < k)
  <2> SUFFICES ASSUME j < k PROVE FALSE
    OBVIOUS
  <2>1. j + 1 \in Nat /\ j + 1 <= k
    BY <1>1
  <2>2. (j + 1) * c <= k * c
    BY <2>1, Caps
  <2> QED BY <1>2, <1>3, <2>2
<1>5. ~(k < j)
  <2> SUFFICES ASSUME k < j PROVE FALSE
    OBVIOUS
  <2>1. k + 1 \in Nat /\ k + 1 <= j
    BY <1>1
  <2>2. (k + 1) * c <= j * c
    BY <1>1, <2>1, Caps
  <2> QED BY <1>2, <1>3, <2>2
<1>6. j = k
  BY <1>1, <1>4, <1>5
<1> QED BY <1>6 DEF j

-----------------------------------------------------------------------------
(* What a turn came to.                                                    *)

Formed == n = Length(start, settled, over) /\ q = Taken(start, n, settled, over)

\* What the invariant's names stand for.
LEMMA Loops ==
  ASSUME OneAtATime, Looping
  PROVE  /\ Cap \in Nat \ {0} /\ TurnMax \in Nat \ {0} /\ None \notin Int
         /\ Clock = "input" /\ Width = 1
         /\ settled \in Nat \ {0} /\ over \in BOOLEAN /\ n \in Nat
         /\ All \in Nat /\ All = (IF over THEN settled + 1 ELSE settled)
         /\ start.head = 0 /\ start.next \in Nat /\ start.withheld \in BOOLEAN
         /\ start.next <= Cap /\ start.next <= All
         /\ start.withheld => All > start.next
         /\ start.last = LastOf(start.next)
         /\ start.last # None => start.last = settled /\ over /\ start.next = All
         /\ q = [head |-> n, next |-> q.next, withheld |-> q.withheld, last |-> q.last]
         /\ q.head = n /\ q.next \in Nat /\ q.withheld \in BOOLEAN /\ q.last \in {None, settled}
  BY QueueAssumption DEF OneAtATime, Looping, All, Total, LastOf, Smaller

LEMMA LengthIs ==
  ASSUME OneAtATime, Looping, start.withheld = (All > start.next)
  PROVE  Length(start, settled, over) = Smaller(TurnMax, settled)
<1>1. start.head # start.last
  BY Loops DEF LastOf
<1>2. CASE start.withheld
  <2>1. Length(start, settled, over) = Smaller(TurnMax, All - 0 - (IF over THEN 1 ELSE 0))
    BY <1>1, <1>2, Loops DEF Length, All
  <2>2. All - 0 - (IF over THEN 1 ELSE 0) = settled
    BY Loops
  <2> QED BY <2>1, <2>2
<1>3. CASE ~start.withheld
  <2>0. ~(All > start.next)
    BY <1>3, Zenon
  <2>1. start.next = All
    BY <2>0, Loops
  <2>2. start.last # None <=> over
    BY <2>1, Loops DEF LastOf
  <2>3. Length(start, settled, over) = Smaller(TurnMax, All - 0 - (IF over THEN 1 ELSE 0))
    BY <1>1, <1>3, <2>1, <2>2, Loops DEF Length
  <2>4. All - 0 - (IF over THEN 1 ELSE 0) = settled
    BY Loops
  <2> QED BY <2>3, <2>4
<1> QED BY <1>2, <1>3, Loops

\* A turn is over when it is full, when the last tick is at the front, or when
\* it took all there is.
Over(k) ==
  /\ Taking(k)
  /\ n >= TurnMax \/ n >= q.next \/ n = q.last
  /\ n >= TurnMax \/ n < q.next \/ ~q.withheld

LEMMA TurnFormed ==
  ASSUME OneAtATime, Looping, TakesTurn, n # 0, NEW k \in Nat, Over(k)
  PROVE  Formed
<1>1. /\ q.withheld = (All > q.next) /\ q.last = LastOf(q.next)
      /\ q.next = Smaller(All, start.next + k * Cap)
      /\ n <= q.next
      /\ k > 0 => /\ start.withheld
                  /\ \/ start.next + (k - 1) * Cap < n
                     \/ start.next + (k - 1) * Cap = n /\ n < TurnMax
      /\ n >= TurnMax \/ n >= q.next \/ n = q.last
      /\ n >= TurnMax \/ n < q.next \/ ~q.withheld
  BY DEF Over, Taking, Whole
<1>2. /\ start.withheld = (All > start.next) /\ n <= settled /\ n <= TurnMax
  BY DEF TakesTurn
<1>3. k * Cap \in Nat /\ (k > 0 => (k - 1) * Cap \in Nat /\ k * Cap = (k - 1) * Cap + Cap)
  <2>1. Cap \in Nat \ {0}
    BY Loops
  <2>2. k * Cap \in Nat
    BY <2>1, Caps
  <2>3. ASSUME k > 0 PROVE (k - 1) * Cap \in Nat /\ k * Cap = (k - 1) * Cap + Cap
    <3>1. PICK j \in Nat : j = k - 1
      BY <2>3
    <3>2. j * Cap \in Nat /\ (j + 1) * Cap = j * Cap + Cap
      BY <2>1, Caps
    <3>3. j + 1 = k
      BY <3>1
    <3> QED BY <3>1, <3>2, <3>3
  <2> QED BY <2>2, <2>3
<1>4. q.next <= All /\ q.next <= start.next + k * Cap
  BY <1>1, <1>3, Loops DEF Smaller
<1>5. n < TurnMax => q.next = All /\ n = settled
  <2> SUFFICES ASSUME n < TurnMax PROVE q.next = All /\ n = settled
    OBVIOUS
  <2>1. CASE n = q.last
    <3>1. q.last = settled /\ q.next = settled + 1 /\ over
      BY <1>1, <2>1, Loops DEF LastOf
    <3> QED BY <2>1, <3>1, Loops
  <2>2. CASE n # q.last
    <3>0. ~(n >= TurnMax) /\ ~(n < q.next) /\ n = q.next
      BY <1>1, <2>2, Loops
    <3>1. ~q.withheld
      BY <1>1, <3>0, Zenon
    <3>2. ~(All > q.next)
      BY <1>1, <3>1, Zenon
    <3> QED BY <1>2, <1>4, <3>0, <3>2, Loops
  <2> QED BY <2>1, <2>2
<1>6. n = Length(start, settled, over)
  <2>1. n = Smaller(TurnMax, settled)
    BY <1>2, <1>5, Loops DEF Smaller
  <2> QED BY <1>2, <2>1, LengthIs
<1>7. CASE start.withheld /\ (n < TurnMax \/ n > start.next)
  <2> DEFINE cuts == (n - start.next + Cap - 1) \div Cap
             next == IF n < TurnMax THEN All ELSE Smaller(All, start.next + cuts * Cap)
  <2>1. start.last = None
    BY <1>7, Loops
  <2>2. q.next = next
    <3>1. CASE n < TurnMax
      BY <1>5, <3>1
    <3>2. CASE ~(n < TurnMax)
      <4>1. n > start.next
        BY <1>7, <3>2
      <4>2. k > 0
        <5>1. k = 0 => k * Cap = 0
          BY Loops, Caps
        <5> QED BY <1>1, <1>4, <4>1, <5>1, Loops
      <4>3. start.next + (k - 1) * Cap < n
        BY <1>1, <3>2, <4>2, Loops
      <4>4. PICK d \in Nat : d = n - start.next
        BY <4>1, Loops
      <4>5. d <= k * Cap /\ k * Cap < d + Cap
        BY <1>1, <1>3, <1>4, <4>2, <4>3, <4>4, Loops
      <4>6. ((d + Cap - 1) \div Cap) * Cap = k * Cap
        BY <4>5, Loops, RoundsTo
      <4>7. cuts * Cap = k * Cap
        BY <4>4, <4>6
      <4> QED BY <1>1, <3>2, <4>7
    <3> QED BY <3>1, <3>2
  <2>3. Taken(start, n, settled, over) = StartingAt(n, CutUpTo(start, next, settled, over))
    BY <1>7, Loops DEF Taken, All
  <2> HIDE DEF next
  <2>4. StartingAt(n, CutUpTo(start, next, settled, over)) =
          [head |-> n, next |-> next, withheld |-> (All > next),
           last |-> IF over /\ next = settled + 1 THEN settled ELSE None]
    BY <2>1, Loops DEF StartingAt, CutUpTo, All
  <2>5. q = [head |-> n, next |-> q.next, withheld |-> (All > q.next), last |-> LastOf(q.next)]
    BY <1>1, Loops
  <2> QED BY <1>6, <2>2, <2>3, <2>4, <2>5 DEF Formed, LastOf
<1>8. CASE ~(start.withheld /\ (n < TurnMax \/ n > start.next))
  <2>1. q.next = start.next
    <3>1. CASE ~start.withheld
      BY <1>1, <1>2, <1>3, <3>1, Loops DEF Smaller
    <3>2. CASE start.withheld
      <4>1. ~(n < TurnMax) /\ n <= start.next
        BY <1>8, <3>2, Loops
      <4>2. k = 0
        BY <1>1, <1>3, <4>1, Loops
      <4>3. k * Cap = 0
        BY <4>2, Loops, Caps
      <4> QED BY <1>1, <4>3, Loops DEF Smaller
    <3> QED BY <3>1, <3>2
  <2>2. Taken(start, n, settled, over) = StartingAt(n, start)
    BY <1>8, Loops DEF Taken
  <2>3. q = [head |-> n, next |-> start.next, withheld |-> start.withheld, last |-> start.last]
    BY <1>1, <1>2, <2>1, Loops
  <2> QED BY <1>6, <2>2, <2>3 DEF Formed, StartingAt
<1> QED BY <1>7, <1>8

-----------------------------------------------------------------------------
(* The loops, step by step.                                                *)

LEMMA InitLoops ==
  ASSUME OneAtATime, Init
  PROVE  LoopInvariant
<1>1. /\ settled \in Nat \ {0} /\ over \in BOOLEAN
      /\ start \in [head : {0}, next : Nat, withheld : BOOLEAN, last : {None, settled}]
      /\ start.next <= Smaller(Cap, All)
      /\ start.withheld => All > start.next
      /\ start.last = LastOf(start.next)
  <2>1. settled \in 1 .. MaxTick /\ over \in BOOLEAN /\ MaxTick \in Nat
    BY DEF Init, OneAtATime
  <2>2. Smaller(Cap, All) \in Nat
    BY <2>1, QueueAssumption DEF Smaller, All, Total
  <2> QED BY <2>1, <2>2 DEF Init, All, LastOf
<1>2. CASE n = 1 /\ at = "take"
  <2>1. /\ start.next > 0 /\ start.withheld = (All > start.next)
        /\ q = [start EXCEPT !.head = 1]
    BY <1>2 DEF Init, All
  <2>2. /\ q \in [head : Nat, next : Nat, withheld : BOOLEAN, last : {None, settled}]
        /\ q.head = 1 /\ q.next = start.next /\ q.withheld = start.withheld /\ q.last = start.last
    BY <1>1, <2>1
  <2>3. Looping
    BY <1>1, <1>2, <2>2 DEF Looping
  <2>4. Taking(0)
    <3>1. start.next <= All /\ start.next \in Nat /\ All \in Nat
      BY <1>1, QueueAssumption DEF Smaller, All, Total
    <3>2. 0 * Cap = 0
      BY QueueAssumption, Caps
    <3>3. q.next = Smaller(All, start.next + 0 * Cap)
      BY <2>2, <3>1, <3>2 DEF Smaller
    <3>4. n <= q.next
      BY <1>2, <2>1, <2>2, <3>1
    <3>5. Whole(q)
      BY <1>1, <2>1, <2>2, Zenon DEF Whole
    <3> QED BY <3>3, <3>4, <3>5 DEF Taking
  <2>5. TakesTurn
    BY <1>1, <1>2, <2>1, <2>4, QueueAssumption DEF TakesTurn
  <2> QED BY <1>2, <2>3, <2>5 DEF LoopInvariant, LoopsAreTheForms
<1>3. CASE n = 0 /\ at = "cut" /\ start.last = None /\ q = start
  <2>1. q.head = 0 /\ Looping
    BY <1>1, <1>3 DEF Looping
  <2>2. q.next = start.next /\ (q.withheld => All > q.next) /\ q.last = LastOf(q.next)
    BY <1>1, <1>3, Zenon
  <2>3. start.next <= q.next /\ q.next <= Smaller(All, q.head + Cap)
    BY <2>1, <2>2, Loops DEF Smaller
  <2>4. Cutting(q, start.next)
    BY <2>2, <2>3, Zenon DEF Cutting
  <2> QED BY <1>3, <2>1, <2>4 DEF LoopInvariant, LoopsAreTheForms, CutsOnce
<1> QED BY <1>2, <1>3 DEF Init

LEMMA TakeLoops ==
  ASSUME OneAtATime, LoopInvariant, Take
  PROVE  LoopInvariant'
<1>1. /\ at = "take" /\ n < TurnMax /\ q.head < q.next /\ q.head # q.last
      /\ q' = [q EXCEPT !.head = @ + 1] /\ n' = n + 1
      /\ UNCHANGED <<settled, over, start, at>>
  BY DEF Take
<1>2. Looping /\ n # 0 /\ TakesTurn
  BY <1>1 DEF LoopInvariant, CutsOnce
<1>3. PICK k \in Nat : Taking(k)
  BY <1>1, <1>2 DEF TakesTurn
<1>4. /\ q'.head = n' /\ q'.next = q.next /\ q'.withheld = q.withheld /\ q'.last = q.last
      /\ q' \in [head : Nat, next : Nat, withheld : BOOLEAN, last : {None, settled}]
  BY <1>1, <1>2 DEF Looping
<1>5. Looping'
  BY <1>1, <1>2, <1>4 DEF Looping, All, LastOf
<1>6. n <= settled - 1
  <2>1. q.next <= All
    BY <1>2, <1>3, Loops, Caps DEF Taking, Smaller
  <2>2. q.last = LastOf(q.next)
    BY <1>3 DEF Taking, Whole
  <2> QED BY <1>1, <1>2, <2>1, <2>2, Loops DEF LastOf
<1>7. Taking(k)'
  <2>1. Whole(q)'
    BY <1>1, <1>3, <1>4 DEF Taking, Whole, All, LastOf
  <2>2. q'.next = Smaller(All', start'.next + k * Cap) /\ n' <= q'.next
    BY <1>1, <1>2, <1>3, <1>4, Loops DEF Taking, All
  <2>3. k > 0 => start.withheld /\ start.next + (k - 1) * Cap < n + 1
    <3> SUFFICES ASSUME k > 0 PROVE start.withheld /\ start.next + (k - 1) * Cap < n + 1
      OBVIOUS
    <3>1. PICK j \in Nat : j = k - 1
      OBVIOUS
    <3>2. j * Cap \in Nat
      BY <1>2, Loops, Caps
    <3>3. start.withheld /\ (start.next + j * Cap < n \/ start.next + j * Cap = n)
      BY <1>3, <3>1 DEF Taking
    <3> QED BY <1>2, <3>1, <3>2, <3>3, Loops
  <2> QED BY <1>1, <2>1, <2>2, <2>3 DEF Taking
<1>8. TakesTurn'
  BY <1>1, <1>2, <1>6, <1>7, Loops DEF TakesTurn, All
<1> QED BY <1>1, <1>2, <1>5, <1>8, Loops DEF LoopInvariant, LoopsAreTheForms

LEMMA LeaveLoops ==
  ASSUME OneAtATime, LoopInvariant, Leave
  PROVE  LoopInvariant'
<1>1. /\ at = "take" /\ ~(n < TurnMax /\ q.head < q.next /\ q.head # q.last)
      /\ at' = (IF n >= TurnMax \/ q.head < q.next \/ ~q.withheld THEN "done" ELSE "cut")
      /\ UNCHANGED <<settled, over, start, q, n>>
  BY DEF Leave
<1>2. Looping /\ n # 0 /\ TakesTurn
  BY <1>1 DEF LoopInvariant, CutsOnce
<1>3. PICK k \in Nat : Taking(k)
  BY <1>1, <1>2 DEF TakesTurn
<1>4. Looping'
  BY <1>1, <1>2 DEF Looping, All, LastOf
<1>5. CASE n >= TurnMax \/ q.head < q.next \/ ~q.withheld
  <2>1. Over(k)
    BY <1>1, <1>2, <1>3, <1>5, Loops DEF Over
  <2>2. Formed
    BY <1>2, <1>3, <2>1, TurnFormed
  <2>3. LoopsAreTheForms'
    BY <1>1, <1>2, <2>2 DEF LoopsAreTheForms, Formed
  <2>4. TakesTurn'
    BY <1>1, <1>2, <1>5 DEF TakesTurn, All
  <2> QED BY <1>1, <1>2, <1>4, <2>3, <2>4 DEF LoopInvariant
<1>6. CASE ~(n >= TurnMax \/ q.head < q.next \/ ~q.withheld)
  <2>1. /\ at' = "cut" /\ n < TurnMax /\ q.withheld /\ n = q.next
    <3>1. ~(n >= TurnMax) /\ ~(q.head < q.next) /\ q.withheld
      BY <1>6, Zenon
    <3>2. at' = "cut"
      BY <1>1, <1>6, Zenon
    <3>3. n <= q.next
      BY <1>3, Zenon DEF Taking
    <3>4. n = q.next /\ n < TurnMax
      BY <1>2, <3>1, <3>3, Loops
    <3> QED BY <3>1, <3>2, <3>4
  <2>2. All > q.next /\ q.last = LastOf(q.next) /\ q.next = Smaller(All, start.next + k * Cap)
    BY <1>3, <2>1 DEF Taking, Whole
  <2>3. k * Cap \in Nat
    BY <1>2, Loops, Caps
  <2>4. n < All /\ n = start.next + k * Cap
    BY <1>2, <2>1, <2>2, <2>3, Loops DEF Smaller
  <2>5. start.withheld
    <3>1. All > start.next
      BY <1>2, <2>3, <2>4, Loops
    <3> QED BY <1>2, <3>1 DEF TakesTurn
  <2>6. Cutting(q, n)
    BY <1>2, <2>1, <2>2, Loops DEF Cutting, Smaller
  <2>7. Recutting(k)'
    BY <1>1, <2>1, <2>4, <2>5, <2>6 DEF Recutting, Cutting, All, LastOf
  <2>8. TakesTurn'
    BY <1>1, <1>2, <2>1, <2>7 DEF TakesTurn, All
  <2> QED BY <1>1, <1>2, <1>4, <2>1, <2>8 DEF LoopInvariant, LoopsAreTheForms
<1> QED BY <1>5, <1>6

\* One round of a cut, whatever it is cut for.
LEMMA CutsOn ==
  ASSUME OneAtATime, Looping, CutOne, NEW m \in Nat, Cutting(q, m)
  PROVE  Looping' /\ Cutting(q, m)'
<1>1. /\ q.last = None /\ q.next - q.head < Cap
      /\ q.withheld \/ q.next < All
      /\ q' = [q EXCEPT !.next = @ + 1, !.withheld = FALSE,
                        !.last = IF over /\ q.next = settled THEN q.next ELSE @]
      /\ UNCHANGED <<settled, over, start, n>>
  BY DEF CutOne, All
<1>2. /\ q'.head = q.head /\ q'.next = q.next + 1 /\ ~q'.withheld
      /\ q'.last = IF over /\ q.next = settled THEN q.next ELSE None
      /\ q' \in [head : Nat, next : Nat, withheld : BOOLEAN, last : {None, settled}]
  <2> DEFINE l == IF over /\ q.next = settled THEN q.next ELSE None
  <2>1. l \in {None, settled}
    OBVIOUS
  <2> DEFINE e == IF over /\ q.next = settled THEN q.next ELSE q.last
  <2>2. e = l
    BY <1>1
  <2>3. q' = [q EXCEPT !.next = @ + 1, !.withheld = FALSE, !.last = e]
    BY <1>1, Zenon
  <2> HIDE DEF e
  <2>4. q' = [q EXCEPT !.next = @ + 1, !.withheld = FALSE, !.last = l]
    BY <2>2, <2>3
  <2> HIDE DEF l
  <2>5. q \in [head : Nat, next : Nat, withheld : BOOLEAN, last : {None, settled}]
    BY DEF Looping
  <2>6. /\ q' \in [head : Nat, next : Nat, withheld : BOOLEAN, last : {None, settled}]
        /\ q'.head = q.head /\ q'.next = q.next + 1 /\ q'.withheld = FALSE /\ q'.last = l
    <3> DEFINE Queues == [head : Nat, next : Nat, withheld : BOOLEAN, last : {None, settled}]
               one == [q EXCEPT !.next = @ + 1]
               two == [one EXCEPT !.withheld = FALSE]
    <3>1. /\ one \in Queues /\ one.head = q.head /\ one.next = q.next + 1
          /\ one.last = q.last
      BY <2>5
    <3>2. q' = [two EXCEPT !.last = l]
      BY <2>4
    <3> HIDE DEF one
    <3>3. /\ two \in Queues /\ two.head = one.head /\ two.next = one.next
          /\ two.withheld = FALSE
      BY <3>1
    <3> HIDE DEF two
    <3>4. /\ q' \in Queues /\ q'.head = two.head /\ q'.next = two.next
          /\ q'.withheld = two.withheld /\ q'.last = l
      BY <2>1, <3>2, <3>3
    <3> QED BY <3>1, <3>3, <3>4
  <2> QED BY <2>6 DEF l
<1>3. Looping'
  BY <1>1, <1>2 DEF Looping, All, LastOf
<1>4. /\ m <= q.next /\ q.next <= Smaller(All, q.head + Cap)
      /\ q.withheld => All > q.next
  BY DEF Cutting
<1>5. q.next < All
  BY <1>1, <1>4
<1>6. m <= q'.next /\ q'.next <= Smaller(All, q'.head + Cap)
  BY <1>1, <1>2, <1>4, <1>5, Loops DEF Smaller
<1>7. q'.last = LastOf(q'.next)
  BY <1>2, Loops DEF LastOf
<1> QED BY <1>1, <1>2, <1>3, <1>6, <1>7 DEF Cutting, All, LastOf

\* A cut ends at its cap or with all there is, and says whether more was held
\* back.
LEMMA CutEnds ==
  ASSUME OneAtATime, Looping, CutStops, NEW m \in Nat, Cutting(q, m)
  PROVE  /\ Looping' /\ Whole(q')
         /\ q'.next = q.next /\ q'.next = Smaller(All, q.head + Cap)
<1>1. /\ q.last # None \/ q.next - q.head >= Cap \/ (~q.withheld /\ q.next = All)
      /\ q' = [q EXCEPT !.withheld = @ \/ (q.last = None /\ q.next - q.head >= Cap /\ q.next < All)]
      /\ UNCHANGED <<settled, over, start, n>>
  BY DEF CutStops, All
<1>2. /\ q.next <= Smaller(All, q.head + Cap)
      /\ q.withheld => All > q.next
      /\ q.last = LastOf(q.next)
  BY DEF Cutting
<1>3. /\ q'.head = q.head /\ q'.next = q.next /\ q'.last = q.last
      /\ q'.withheld <=> q.withheld \/ (q.last = None /\ q.next - q.head >= Cap /\ q.next < All)
      /\ q' \in [head : Nat, next : Nat, withheld : BOOLEAN, last : {None, settled}]
  BY <1>1 DEF Looping
<1>4. Looping'
  BY <1>1, <1>3 DEF Looping, All, LastOf
<1>5. q.last # None => q.next = All
  BY <1>2, Loops DEF LastOf
<1>6. q.next = Smaller(All, q.head + Cap)
  BY <1>1, <1>2, <1>5, Loops DEF Smaller
<1>7. q'.withheld <=> All > q.next
  <2>1. CASE All > q.next
    <3>1. q.last = None /\ q.next - q.head >= Cap /\ q.next < All
      BY <1>5, <1>6, <2>1, Loops DEF Smaller
    <3> QED BY <1>3, <2>1, <3>1
  <2>2. CASE ~(All > q.next)
    <3>1. ~q.withheld /\ ~(q.next < All)
      BY <1>2, <2>2, Loops
    <3> QED BY <1>3, <2>2, <3>1
  <2> QED BY <2>1, <2>2
<1>8. q'.withheld = (All > q'.next)
  BY <1>3, <1>7
<1> QED BY <1>2, <1>3, <1>4, <1>6, <1>8 DEF Whole

LEMMA CutOneLoops ==
  ASSUME OneAtATime, LoopInvariant, CutOne
  PROVE  LoopInvariant'
<1>1. at = "cut" /\ UNCHANGED <<settled, over, start, n, at>>
  BY DEF CutOne
<1>2. Looping
  BY DEF LoopInvariant
<1>3. CASE n = 0
  <2>1. CutsOnce
    BY <1>3 DEF LoopInvariant
  <2>2. PICK m \in Nat : m = start.next
    BY <1>2, Loops
  <2>3. Cutting(q, m)
    BY <1>1, <2>1, <2>2 DEF CutsOnce
  <2>4. Looping' /\ Cutting(q, m)'
    BY <1>2, <2>3, CutsOn
  <2>5. CutsOnce'
    BY <1>1, <2>1, <2>2, <2>4 DEF CutsOnce
  <2> QED BY <1>1, <1>3, <2>4, <2>5 DEF LoopInvariant, LoopsAreTheForms
<1>4. CASE n # 0
  <2>1. TakesTurn
    BY <1>4 DEF LoopInvariant
  <2>2. PICK k \in Nat : Recutting(k)
    BY <1>1, <2>1 DEF TakesTurn
  <2>3. PICK m \in Nat : m = n
    BY <1>2, Loops
  <2>4. Cutting(q, m)
    BY <2>2, <2>3 DEF Recutting
  <2>5. Looping' /\ Cutting(q, m)'
    BY <1>2, <2>4, CutsOn
  <2>6. Recutting(k)'
    BY <1>1, <2>2, <2>3, <2>5 DEF Recutting, All
  <2>7. TakesTurn'
    BY <1>1, <2>1, <2>6 DEF TakesTurn, All
  <2> QED BY <1>1, <1>4, <2>5, <2>7 DEF LoopInvariant, LoopsAreTheForms
<1> QED BY <1>3, <1>4

LEMMA CutStopsLoops ==
  ASSUME OneAtATime, LoopInvariant, CutStops
  PROVE  LoopInvariant'
<1>1. /\ at = "cut" /\ at' = (IF n = 0 THEN "done" ELSE "take")
      /\ UNCHANGED <<settled, over, start, n>>
  BY DEF CutStops
<1>2. Looping
  BY DEF LoopInvariant
<1>3. CASE n = 0
  <2>1. CutsOnce
    BY <1>3 DEF LoopInvariant
  <2>2. PICK m \in Nat : m = start.next
    BY <1>2, Loops
  <2>3. Cutting(q, m)
    BY <1>1, <2>1, <2>2 DEF CutsOnce
  <2>4. Looping' /\ Whole(q') /\ q'.next = Smaller(All, q.head + Cap)
    BY <1>2, <2>3, CutEnds
  <2>5. q'.next = Larger(start.next, Smaller(All, start.head + Cap))
    BY <1>2, <1>3, <2>4, Loops DEF Smaller, Larger
  <2>6. q' = [head |-> 0, next |-> q'.next, withheld |-> (All > q'.next),
              last |-> LastOf(q'.next)]
    BY <1>1, <1>3, <2>4 DEF Looping, Whole
  <2>7. Cut(start, settled, over, TRUE) =
          CutUpTo(start, Larger(start.next, Smaller(All, start.head + Cap)), settled, over)
    BY <1>2, <2>1, Loops DEF Cut, CutsOnce, All
  <2>8. CutUpTo(start, q'.next, settled, over) =
          [head |-> 0, next |-> q'.next, withheld |-> (All > q'.next),
           last |-> LastOf(q'.next)]
    BY <1>2, <2>1, Loops DEF CutUpTo, CutsOnce, All, LastOf
  <2>9. q' = Cut(start, settled, over, TRUE)
    BY <2>5, <2>6, <2>7, <2>8
  <2>10. LoopsAreTheForms'
    BY <1>1, <1>3, <2>9 DEF LoopsAreTheForms
  <2>11. CutsOnce'
    BY <1>1, <1>3, <2>1 DEF CutsOnce
  <2> QED BY <1>1, <1>3, <2>4, <2>10, <2>11 DEF LoopInvariant
<1>4. CASE n # 0
  <2>1. TakesTurn
    BY <1>4 DEF LoopInvariant
  <2>2. PICK k \in Nat : Recutting(k)
    BY <1>1, <2>1 DEF TakesTurn
  <2>3. PICK m \in Nat : m = n
    BY <1>2, Loops
  <2>4. Cutting(q, m)
    BY <2>2, <2>3 DEF Recutting
  <2>5. Looping' /\ Whole(q') /\ q'.next = Smaller(All, n + Cap)
    BY <1>2, <2>4, CutEnds DEF Looping
  <2>6. PICK j \in Nat : j = k + 1
    OBVIOUS
  <2>7. k * Cap \in Nat /\ j * Cap = k * Cap + Cap
    BY <1>2, <2>6, Loops, Caps
  <2>8. q'.next = Smaller(All, start.next + j * Cap)
    BY <1>2, <2>2, <2>5, <2>7, Loops DEF Recutting
  <2>9. n <= q'.next
    BY <1>2, <2>2, <2>5, Loops DEF Recutting, Smaller
  <2>10. start.withheld /\ start.next + (j - 1) * Cap = n /\ n < TurnMax
    BY <2>2, <2>6 DEF Recutting
  <2>11. Whole(q)'
    BY <1>1, <2>5 DEF Whole, All, LastOf
  <2>12. Taking(j)'
    BY <1>1, <2>8, <2>9, <2>10, <2>11 DEF Taking, All
  <2>13. TakesTurn'
    BY <1>1, <1>4, <2>1, <2>12 DEF TakesTurn, All
  <2> QED BY <1>1, <1>4, <2>5, <2>13 DEF LoopInvariant, LoopsAreTheForms
<1> QED BY <1>3, <1>4

-----------------------------------------------------------------------------
(* The theorem.                                                            *)

LEMMA StillLoops ==
  ASSUME LoopInvariant, UNCHANGED vars
  PROVE  LoopInvariant'
<1>1. Looping'
  BY DEF vars, LoopInvariant, Looping, All, LastOf
<1>2. LoopsAreTheForms'
  BY DEF vars, LoopInvariant, LoopsAreTheForms
<1>3. (n = 0 => CutsOnce)'
  BY DEF vars, LoopInvariant, CutsOnce, Cutting, All, LastOf
<1>4. ASSUME NEW k \in Nat PROVE (Taking(k) => Taking(k)') /\ (Recutting(k) => Recutting(k)')
  BY DEF vars, Taking, Recutting, Whole, Cutting, All, LastOf
<1>5. (n # 0 => TakesTurn)'
  BY <1>4 DEF vars, LoopInvariant, TakesTurn, All
<1> QED BY <1>1, <1>2, <1>3, <1>5 DEF LoopInvariant

\* What the loops of dispatch and of cut leave, a turn and a queue, is what the
\* closed forms Length, Taken and Cut say, by which modules Lane and Network
\* dispatch and cut: for every cap, every turn and every number of settled
\* ticks, of a lane that runs one tick at a time under an input clock.
THEOREM LoopsComputeTheForms == OneAtATime /\ Spec => []LoopsAreTheForms
<1>1. OneAtATime /\ Init => LoopInvariant
  BY InitLoops
<1>2. OneAtATime /\ LoopInvariant /\ [Next]_vars => LoopInvariant'
  <2> SUFFICES ASSUME OneAtATime, LoopInvariant, [Next]_vars
               PROVE  LoopInvariant'
    OBVIOUS
  <2>1. CASE Take
    BY <2>1, TakeLoops
  <2>2. CASE Leave
    BY <2>2, LeaveLoops
  <2>3. CASE CutOne
    BY <2>3, CutOneLoops
  <2>4. CASE CutStops
    BY <2>4, CutStopsLoops
  <2>5. CASE Stay \/ UNCHANGED vars
    BY <2>5, StillLoops DEF Stay
  <2> QED BY <2>1, <2>2, <2>3, <2>4, <2>5 DEF Next
<1>3. LoopInvariant => LoopsAreTheForms
  BY DEF LoopInvariant
<1>4. OneAtATime => []OneAtATime
  BY DEF OneAtATime
<1> QED BY <1>1, <1>2, <1>3, <1>4, PTL DEF Spec
=============================================================================
