---------------------------- MODULE LateralProofs ----------------------------
(***************************************************************************)
(* That a message of a lateral is told once, and that its instances never  *)
(* overlap: proved for every writer, from an invariant that says in which  *)
(* one hand each message is.                                               *)
(***************************************************************************)
EXTENDS Lateral, FiniteSetTheorems, SequenceTheorems, TLAPS

\* What a writer sends is a sequence.
ASequence == \A s \in Streams : Len(s.messages) \in Nat

Outcomes == {"unreadable", "refused", "overlap", "unheard", "uncompiled", "ended", "exit"}

\* Every message in hand has been numbered.
Numbered ==
  /\ stream \in Streams /\ count \in Nat /\ chunk \in Nat /\ running \in Nat
  /\ running <= count
  /\ waiting \in Seq(Nat) /\ left \in Seq(Nat) /\ rows \in Seq([row : Nat, outcome : Outcomes])
  /\ \A i \in 1 .. Len(waiting) : waiting[i] \in 1 .. count
  /\ \A i \in 1 .. Len(left) : left[i] \in 1 .. count
  /\ \A i \in 1 .. Len(rows) : rows[i].row \in 1 .. count

\* A queue of messages in the order they came.
Increasing(q) == \A i, j \in 1 .. Len(q) : i < j => q[i] < q[j]

\* What waits came after what runs, in order; so did what stop() took.
Queued ==
  /\ Increasing(waiting) /\ Increasing(left)
  /\ \A i \in 1 .. Len(waiting) : running < waiting[i]

\* A message is in one hand.
OneHand ==
  /\ \A i, j \in 1 .. Len(rows) : rows[i].row = rows[j].row => i = j
  /\ \A i \in 1 .. Len(left) : left[i] \notin ahead
  /\ \A i \in 1 .. Len(rows) : /\ rows[i].row \notin ahead
                               /\ \A j \in 1 .. Len(left) : left[j] # rows[i].row
  /\ stopping \in {"no", "set"} => left = <<>>

\* Whoever tells a message how it ended has it.
Holds == launcher \in {"ports", "compile", "compiled", "run"} => running # 0

\* What is ahead of a message never overlaps another.
Apart == \A m, n \in ahead : m # n => ~overlaps(m, n)

LateralInvariant == Numbered /\ Queued /\ OneHand /\ Holds /\ Apart

-----------------------------------------------------------------------------
(* Queues and rows.                                                        *)

\* What is ahead of a message is what runs and what waits.
LEMMA Ahead ==
  \A m : m \in ahead <=> (m = running /\ m # 0) \/ \E i \in 1 .. Len(waiting) : waiting[i] = m
BY DEF ahead

\* Overlapping is mutual.
LEMMA Mutual ==
  ASSUME NEW m, NEW n
  PROVE  overlaps(m, n) <=> overlaps(n, m)
BY DEF overlaps

\* The tail of a queue is in order, and after its head.
LEMMA Tailed ==
  ASSUME NEW q \in Seq(Nat), q # <<>>, Increasing(q)
  PROVE  /\ Head(q) \in Nat /\ Head(q) = q[1] /\ 1 \in 1 .. Len(q)
         /\ Tail(q) \in Seq(Nat) /\ Increasing(Tail(q))
         /\ \A i \in 1 .. Len(Tail(q)) : /\ \E j \in 1 .. Len(q) : j # 1 /\ q[j] = Tail(q)[i]
                                         /\ Head(q) < Tail(q)[i]
         /\ \A j \in 1 .. Len(q) : j # 1 => \E i \in 1 .. Len(Tail(q)) : Tail(q)[i] = q[j]
<1>1. /\ Len(q) \in Nat /\ Len(q) # 0 /\ Head(q) = q[1] /\ Tail(q) \in Seq(Nat)
      /\ Len(Tail(q)) = Len(q) - 1 /\ \A i \in 1 .. Len(q) - 1 : Tail(q)[i] = q[i + 1]
      /\ \A i \in 1 .. Len(q) : q[i] \in Nat
  BY HeadTailProperties, LenProperties, EmptySeq, ElementOfSeq
<1>2. 1 \in 1 .. Len(q)
  BY <1>1
<1>3. \A i \in 1 .. Len(q) - 1 : i + 1 \in 1 .. Len(q) /\ i + 1 # 1 /\ 1 < i + 1
  BY <1>1
<1>4. \A i, j \in 1 .. Len(q) - 1 : i < j => i + 1 < j + 1
  BY <1>1
<1>5. Increasing(Tail(q))
  BY <1>1, <1>3, <1>4 DEF Increasing
<1>6. \A i \in 1 .. Len(Tail(q)) : /\ \E j \in 1 .. Len(q) : j # 1 /\ q[j] = Tail(q)[i]
                                   /\ Head(q) < Tail(q)[i]
  BY <1>1, <1>2, <1>3 DEF Increasing
<1>7. ASSUME NEW j \in 1 .. Len(q), j # 1
      PROVE  \E i \in 1 .. Len(Tail(q)) : Tail(q)[i] = q[j]
  <2>1. j - 1 \in 1 .. Len(q) - 1 /\ (j - 1) + 1 = j
    BY <1>1, <1>7
  <2> QED BY <1>1, <2>1
<1> QED BY <1>1, <1>2, <1>5, <1>6, <1>7

\* One message more at the end of a queue.
LEMMA Longer ==
  ASSUME NEW q \in Seq(Nat), NEW n \in Nat, Increasing(q), \A i \in 1 .. Len(q) : q[i] < n
  PROVE  /\ Append(q, n) \in Seq(Nat) /\ Increasing(Append(q, n))
         /\ \A i \in 1 .. Len(Append(q, n)) :
              Append(q, n)[i] = n \/ \E j \in 1 .. Len(q) : q[j] = Append(q, n)[i]
<1> DEFINE a == Append(q, n)
<1>1. /\ a \in Seq(Nat) /\ Len(q) \in Nat /\ Len(a) = Len(q) + 1 /\ a[Len(q) + 1] = n
      /\ \A i \in 1 .. Len(q) : a[i] = q[i]
  BY AppendProperties, LenProperties
<1> HIDE DEF a
<1>2. \A i \in 1 .. Len(a) : i \in 1 .. Len(q) \/ i = Len(q) + 1
  BY <1>1
<1>3. ASSUME NEW i \in 1 .. Len(a), NEW j \in 1 .. Len(a), i < j PROVE a[i] < a[j]
  <2>1. i \in 1 .. Len(q)
    BY <1>1, <1>3
  <2>2. CASE j \in 1 .. Len(q)
    BY <1>1, <1>3, <2>1, <2>2 DEF Increasing
  <2>3. CASE j = Len(q) + 1
    BY <1>1, <2>1, <2>3
  <2> QED BY <1>2, <2>2, <2>3
<1>4. Increasing(a)
  BY <1>3 DEF Increasing
<1>5. \A i \in 1 .. Len(a) : a[i] = n \/ \E j \in 1 .. Len(q) : q[j] = a[i]
  BY <1>1, <1>2
<1> QED BY <1>1, <1>4, <1>5 DEF a

\* A row more, of a message no row is of, leaves one row a message.
LEMMA RowSaid ==
  ASSUME Numbered, OneHand, NEW n \in Nat, NEW o \in Outcomes, _row(n, o),
         \A i \in 1 .. Len(rows) : rows[i].row # n
  PROVE  /\ rows' \in Seq([row : Nat, outcome : Outcomes])
         /\ \A i, j \in 1 .. Len(rows') : rows'[i].row = rows'[j].row => i = j
         /\ \A i \in 1 .. Len(rows') :
              rows'[i].row = n \/ \E j \in 1 .. Len(rows) : rows[j].row = rows'[i].row
<1> DEFINE e == [row |-> n, outcome |-> o]
<1>1. rows \in Seq([row : Nat, outcome : Outcomes]) /\ e \in [row : Nat, outcome : Outcomes]
      /\ e.row = n /\ rows' = Append(rows, e)
  BY DEF Numbered, _row
<1> HIDE DEF e
<1>2. /\ rows' \in Seq([row : Nat, outcome : Outcomes]) /\ Len(rows) \in Nat
      /\ Len(rows') = Len(rows) + 1 /\ rows'[Len(rows) + 1] = e
      /\ \A i \in 1 .. Len(rows) : rows'[i] = rows[i]
  BY <1>1, AppendProperties, LenProperties
<1>3. \A i \in 1 .. Len(rows') : i \in 1 .. Len(rows) \/ i = Len(rows) + 1
  BY <1>2
<1>4. \A i, j \in 1 .. Len(rows') : rows'[i].row = rows'[j].row => i = j
  BY <1>1, <1>2, <1>3 DEF OneHand
<1> QED BY <1>1, <1>2, <1>3, <1>4

-----------------------------------------------------------------------------
(* One lemma for each thing a step may do with a message.                  *)

\* A step after which every message is where it was, or the one that ran is gone.
LEMMA SameHands ==
  ASSUME LateralInvariant, UNCHANGED <<stream, count, waiting, left, rows>>,
         chunk' \in Nat, running' \in {0, running},
         launcher' \in {"ports", "compile", "compiled", "run"} => running' # 0,
         stopping' \in {"no", "set"} => stopping \in {"no", "set"}
  PROVE  LateralInvariant'
<1> USE DEF LateralInvariant
<1>0. \A m : m \in ahead' => m \in ahead
  BY Ahead DEF ahead
<1>1. Numbered'
  BY DEF Numbered
<1>2. Queued'
  <2>1. \A i \in 1 .. Len(waiting) : running' < waiting[i]
    BY DEF Queued, Numbered
  <2> QED BY <2>1 DEF Queued, Increasing
<1>3. OneHand'
  BY <1>0 DEF OneHand
<1>4. Holds'
  BY DEF Holds
<1>5. Apart'
  BY <1>0 DEF Apart, overlaps, Message
<1> QED BY <1>1, <1>2, <1>3, <1>4, <1>5

\* A message that ran is told, and runs no more.
LEMMA ToldInv ==
  ASSUME LateralInvariant, NEW o \in Outcomes, Told(o),
         launcher \in {"ports", "compile", "compiled", "run"},
         UNCHANGED <<stream, count, chunk, waiting, left, stopping>>
  PROVE  LateralInvariant'
<1> USE DEF LateralInvariant
<1>0. running \in Nat /\ running # 0 /\ running \in ahead /\ running' = 0 /\ launcher' = "wait"
      /\ _row(running, o) /\ running \in 1 .. count
  BY Ahead DEF Numbered, Holds, Told
<1>1. \A i \in 1 .. Len(rows) : rows[i].row # running
  BY <1>0 DEF OneHand
<1>2. /\ rows' \in Seq([row : Nat, outcome : Outcomes])
      /\ \A i, j \in 1 .. Len(rows') : rows'[i].row = rows'[j].row => i = j
      /\ \A i \in 1 .. Len(rows') :
           rows'[i].row = running \/ \E j \in 1 .. Len(rows) : rows[j].row = rows'[i].row
  BY <1>0, <1>1, RowSaid
<1>3. \A m : m \in ahead' <=> m \in ahead /\ m # running
  <2>1. \A i \in 1 .. Len(waiting) : waiting[i] # running
    BY <1>0 DEF Queued, Numbered
  <2> QED BY <1>0, <2>1 DEF ahead
<1>4. Numbered'
  <2>1. ASSUME NEW i \in 1 .. Len(rows') PROVE rows'[i].row \in 1 .. count'
    <3>1. CASE rows'[i].row = running
      BY <1>0, <3>1
    <3>2. CASE \E j \in 1 .. Len(rows) : rows[j].row = rows'[i].row
      <4>1. PICK j \in 1 .. Len(rows) : rows[j].row = rows'[i].row
        BY <3>2
      <4> QED BY <4>1 DEF Numbered
    <3> QED BY <1>2, <3>1, <3>2
  <2> QED BY <1>0, <1>2, <2>1 DEF Numbered
<1>5. Queued'
  <2>1. \A i \in 1 .. Len(waiting) : running' < waiting[i]
    BY <1>0 DEF Numbered
  <2> QED BY <2>1 DEF Queued, Increasing
<1>6. OneHand'
  <2>1. ASSUME NEW i \in 1 .. Len(rows') PROVE rows'[i].row \notin ahead'
              /\ \A j \in 1 .. Len(left) : left[j] # rows'[i].row
    <3>1. CASE rows'[i].row = running
      BY <1>0, <1>3, <3>1 DEF OneHand
    <3>2. CASE \E j \in 1 .. Len(rows) : rows[j].row = rows'[i].row
      <4>1. PICK j \in 1 .. Len(rows) : rows[j].row = rows'[i].row
        BY <3>2
      <4> QED BY <1>3, <4>1 DEF OneHand
    <3> QED BY <1>2, <3>1, <3>2
  <2> QED BY <1>2, <1>3, <2>1 DEF OneHand
<1>7. Holds'
  BY <1>0 DEF Holds
<1>8. Apart'
  BY <1>3 DEF Apart, overlaps, Message
<1> QED BY <1>4, <1>5, <1>6, <1>7, <1>8

\* The next message is numbered, and told at once.
LEMMA RefusedInv ==
  ASSUME LateralInvariant, NEW o \in Outcomes, _row(count + 1, o), count' = count + 1,
         chunk' \in Nat, UNCHANGED <<stream, waiting, running, launcher, left, stopping>>
  PROVE  LateralInvariant'
<1> USE DEF LateralInvariant
<1>0. count \in Nat /\ count + 1 \in Nat /\ \A m \in 1 .. count : m # count + 1 /\ m \in 1 .. count'
  BY DEF Numbered
<1>1. \A i \in 1 .. Len(rows) : rows[i].row # count + 1
  BY <1>0 DEF Numbered
<1>2. /\ rows' \in Seq([row : Nat, outcome : Outcomes])
      /\ \A i, j \in 1 .. Len(rows') : rows'[i].row = rows'[j].row => i = j
      /\ \A i \in 1 .. Len(rows') :
           rows'[i].row = count + 1 \/ \E j \in 1 .. Len(rows) : rows[j].row = rows'[i].row
  BY <1>0, <1>1, RowSaid
<1>3. ahead' = ahead /\ \A m \in ahead : m # count + 1
  BY <1>0, Ahead DEF ahead, Numbered
<1>4. Numbered'
  <2>1. ASSUME NEW i \in 1 .. Len(rows') PROVE rows'[i].row \in 1 .. count'
    <3>1. CASE rows'[i].row = count + 1
      BY <1>0, <3>1
    <3>2. CASE \E j \in 1 .. Len(rows) : rows[j].row = rows'[i].row
      <4>1. PICK j \in 1 .. Len(rows) : rows[j].row = rows'[i].row
        BY <3>2
      <4> QED BY <1>0, <4>1 DEF Numbered
    <3> QED BY <1>2, <3>1, <3>2
  <2> QED BY <1>0, <1>2, <2>1 DEF Numbered
<1>5. Queued'
  BY DEF Queued, Increasing
<1>6. OneHand'
  <2>1. \A i \in 1 .. Len(left) : left[i] # count + 1
    BY <1>0 DEF Numbered
  <2>2. ASSUME NEW i \in 1 .. Len(rows') PROVE rows'[i].row \notin ahead'
              /\ \A j \in 1 .. Len(left) : left[j] # rows'[i].row
    <3>1. CASE rows'[i].row = count + 1
      BY <1>3, <2>1, <3>1
    <3>2. CASE \E j \in 1 .. Len(rows) : rows[j].row = rows'[i].row
      <4>1. PICK j \in 1 .. Len(rows) : rows[j].row = rows'[i].row
        BY <3>2
      <4> QED BY <1>3, <4>1 DEF OneHand
    <3> QED BY <1>2, <3>1, <3>2
  <2> QED BY <1>2, <1>3, <2>2 DEF OneHand
<1>7. Holds'
  BY DEF Holds
<1>8. Apart'
  BY <1>3 DEF Apart, overlaps, Message
<1> QED BY <1>4, <1>5, <1>6, <1>7, <1>8

\* The next message is numbered, and waits.
LEMMA QueuedInv ==
  ASSUME LateralInvariant, waiting' = Append(waiting, count + 1), count' = count + 1,
         ~\E m \in ahead : overlaps(m, count + 1), chunk' \in Nat,
         UNCHANGED <<stream, running, launcher, left, rows, stopping>>
  PROVE  LateralInvariant'
<1> USE DEF LateralInvariant
<1> DEFINE n == count + 1
<1>0. count \in Nat /\ n \in Nat /\ n # 0 /\ \A m \in 1 .. count : m < n /\ m \in 1 .. count'
  BY DEF Numbered
<1>1. /\ waiting' \in Seq(Nat) /\ Increasing(waiting')
      /\ \A i \in 1 .. Len(waiting') : waiting'[i] = n \/ \E j \in 1 .. Len(waiting) : waiting[j] = waiting'[i]
  <2>1. waiting \in Seq(Nat) /\ Increasing(waiting) /\ \A i \in 1 .. Len(waiting) : waiting[i] < n
    BY <1>0 DEF Numbered, Queued
  <2> QED BY <1>0, <2>1, Longer
<1>2. \A m : m \in ahead' => m \in ahead \/ m = n
  BY <1>1, Ahead DEF ahead
<1>3. Numbered'
  <2>1. \A i \in 1 .. Len(waiting') : waiting'[i] \in 1 .. count'
    BY <1>0, <1>1 DEF Numbered
  <2>2. running' <= count' /\ running' \in Nat /\ count' \in Nat /\ chunk' \in Nat
    BY <1>0 DEF Numbered
  <2>3. /\ \A i \in 1 .. Len(left') : left'[i] \in 1 .. count'
        /\ \A i \in 1 .. Len(rows') : rows'[i].row \in 1 .. count'
    BY <1>0 DEF Numbered
  <2>4. /\ stream' \in Streams /\ left' \in Seq(Nat)
        /\ rows' \in Seq([row : Nat, outcome : Outcomes])
    BY DEF Numbered
  <2> QED BY <1>1, <2>1, <2>2, <2>3, <2>4 DEF Numbered
<1>4. Queued'
  <2>1. running < n
    BY <1>0 DEF Numbered
  <2> QED BY <1>1, <2>1 DEF Queued, Increasing
<1>5. OneHand'
  <2>1. /\ \A i \in 1 .. Len(left) : left[i] # n
        /\ \A i \in 1 .. Len(rows) : rows[i].row # n
    <3>1. /\ \A i \in 1 .. Len(left) : left[i] \in 1 .. count
          /\ \A i \in 1 .. Len(rows) : rows[i].row \in 1 .. count
      BY DEF Numbered
    <3>2. \A m \in 1 .. count : m # n
      BY <1>0
    <3> HIDE DEF n
    <3> QED BY <3>1, <3>2
  <2>2. left' = left /\ rows' = rows /\ stopping' = stopping
    OBVIOUS
  <2> QED BY <1>2, <2>1, <2>2 DEF OneHand
<1>6. Holds'
  BY DEF Holds
<1>7. Apart'
  <2>1. \A m \in ahead : ~overlaps(m, n) /\ ~overlaps(n, m)
    BY Mutual
  <2>2. \A m, k \in ahead' : m # k => ~overlaps(m, k)
    BY <1>2, <2>1 DEF Apart
  <2> QED BY <2>2 DEF Apart, overlaps, Message
<1> QED BY <1>3, <1>4, <1>5, <1>6, <1>7

\* The first of those waiting runs.
LEMMA LaunchInv ==
  ASSUME LateralInvariant, waiting # <<>>, running' = Head(waiting), waiting' = Tail(waiting),
         UNCHANGED <<stream, count, chunk, left, rows, stopping>>
  PROVE  LateralInvariant'
<1> USE DEF LateralInvariant
<1>0. /\ running' \in Nat /\ running' = waiting[1] /\ 1 \in 1 .. Len(waiting)
      /\ waiting' \in Seq(Nat) /\ Increasing(waiting')
      /\ \A i \in 1 .. Len(waiting') : /\ \E j \in 1 .. Len(waiting) : j # 1 /\ waiting[j] = waiting'[i]
                                       /\ running' < waiting'[i]
  BY Tailed DEF Numbered, Queued
<1>1. running' \in 1 .. count /\ running' # 0
  BY <1>0 DEF Numbered
<1>2. \A m : m \in ahead' => m \in ahead
  BY <1>0, Ahead DEF ahead
<1>3. Numbered'
  BY <1>0, <1>1 DEF Numbered
<1>4. Queued'
  BY <1>0 DEF Queued, Increasing
<1>5. OneHand'
  BY <1>2 DEF OneHand
<1>6. Holds'
  BY <1>1 DEF Holds
<1>7. Apart'
  BY <1>2 DEF Apart, overlaps, Message
<1> QED BY <1>3, <1>4, <1>5, <1>6, <1>7

\* stop() takes what waits.
LEMMA DrainInv ==
  ASSUME LateralInvariant, StopDrain
  PROVE  LateralInvariant'
<1> USE DEF LateralInvariant, StopDrain
<1>0. waiting' = <<>> /\ left' = waiting /\ Len(waiting') = 0 /\ left = <<>>
      /\ \A m : m \in ahead' <=> m = running /\ m # 0
  BY DEF ahead, OneHand
<1>1. Numbered'
  BY <1>0 DEF Numbered
<1>2. Queued'
  BY <1>0 DEF Queued, Increasing
<1>3. OneHand'
  <2>1. \A i \in 1 .. Len(left') : left'[i] \notin ahead' /\ left'[i] \in ahead
    BY <1>0, Ahead DEF Queued, Numbered
  <2>2. \A m : m \in ahead' => m \in ahead
    BY <1>0, Ahead
  <2> QED BY <2>1, <2>2 DEF OneHand
<1>4. Holds'
  BY DEF Holds
<1>5. Apart'
  BY <1>0 DEF Apart
<1> QED BY <1>1, <1>2, <1>3, <1>4, <1>5

\* And tells each of it.
LEMMA StopTellInv ==
  ASSUME LateralInvariant, StopTell, left # <<>>
  PROVE  LateralInvariant'
<1> USE DEF LateralInvariant
<1>0. /\ _row(Head(left), "ended") /\ left' = Tail(left) /\ stopping = "drained"
      /\ UNCHANGED <<stream, chunk, count, waiting, running, launcher, stopping>>
  BY DEF StopTell
<1>1. /\ Head(left) \in Nat /\ Head(left) = left[1] /\ 1 \in 1 .. Len(left)
      /\ left' \in Seq(Nat) /\ Increasing(left')
      /\ \A i \in 1 .. Len(left') : /\ \E j \in 1 .. Len(left) : left[j] = left'[i]
                                    /\ Head(left) < left'[i]
  BY <1>0, Tailed DEF Numbered, Queued
<1>2. Head(left) \in 1 .. count /\ Head(left) \notin ahead
      /\ \A i \in 1 .. Len(rows) : rows[i].row # Head(left)
  BY <1>1 DEF Numbered, OneHand
<1>3. /\ rows' \in Seq([row : Nat, outcome : Outcomes])
      /\ \A i, j \in 1 .. Len(rows') : rows'[i].row = rows'[j].row => i = j
      /\ \A i \in 1 .. Len(rows') :
           rows'[i].row = Head(left) \/ \E j \in 1 .. Len(rows) : rows[j].row = rows'[i].row
  BY <1>0, <1>1, <1>2, RowSaid DEF Outcomes
<1>4. ahead' = ahead
  BY <1>0 DEF ahead
<1>5. Numbered'
  <2>1. ASSUME NEW i \in 1 .. Len(rows') PROVE rows'[i].row \in 1 .. count'
    <3>1. CASE rows'[i].row = Head(left)
      <4>1. Head(left) \in 1 .. count /\ count' = count
        BY <1>0, <1>1, <1>2 DEF Numbered
      <4> QED BY <3>1, <4>1
    <3>2. CASE \E j \in 1 .. Len(rows) : rows[j].row = rows'[i].row
      <4>1. PICK j \in 1 .. Len(rows) : rows[j].row = rows'[i].row
        BY <3>2
      <4> QED BY <1>0, <4>1 DEF Numbered
    <3> QED BY <1>3, <3>1, <3>2
  <2>2. \A i \in 1 .. Len(left') : left'[i] \in 1 .. count'
    BY <1>0, <1>1 DEF Numbered
  <2>3. \A i \in 1 .. Len(waiting') : waiting'[i] \in 1 .. count'
    BY <1>0 DEF Numbered
  <2>4. /\ stream' \in Streams /\ count' \in Nat /\ chunk' \in Nat /\ running' \in Nat
        /\ running' <= count' /\ waiting' \in Seq(Nat)
    BY <1>0 DEF Numbered
  <2> QED BY <1>1, <1>3, <2>1, <2>2, <2>3, <2>4 DEF Numbered
<1>6. Queued'
  BY <1>0, <1>1 DEF Queued, Increasing
<1>7. OneHand'
  <2>1. \A i \in 1 .. Len(left') : left'[i] # Head(left)
    <3>1. \A i \in 1 .. Len(left') : left'[i] \in Nat
      BY <1>5 DEF Numbered
    <3> QED BY <1>1, <3>1
  <2>2. ASSUME NEW i \in 1 .. Len(rows') PROVE rows'[i].row \notin ahead'
              /\ \A j \in 1 .. Len(left') : left'[j] # rows'[i].row
    <3>1. CASE rows'[i].row = Head(left)
      BY <1>2, <1>4, <2>1, <3>1
    <3>2. CASE \E j \in 1 .. Len(rows) : rows[j].row = rows'[i].row
      <4>1. PICK j \in 1 .. Len(rows) : rows[j].row = rows'[i].row
        BY <3>2
      <4> QED BY <1>1, <1>4, <4>1 DEF OneHand
    <3> QED BY <1>3, <3>1, <3>2
  <2> QED BY <1>0, <1>1, <1>3, <1>4, <2>2 DEF OneHand
<1>8. Holds'
  BY <1>0 DEF Holds
<1>9. Apart'
  BY <1>0, <1>4 DEF Apart, overlaps, Message
<1> QED BY <1>5, <1>6, <1>7, <1>8, <1>9

-----------------------------------------------------------------------------
(* What is proved of a lateral.                                            *)

\* A lateral begins with nothing in hand.
LEMMA LateralInit ==
  ASSUME Init
  PROVE  LateralInvariant
<1>1. waiting = <<>> /\ left = <<>> /\ rows = <<>> /\ running = 0 /\ count = 0 /\ chunk = 0
      /\ stream \in Streams /\ launcher = "wait" /\ ahead = {}
  BY DEF Init, ahead
<1>2. Numbered /\ Queued /\ OneHand
  BY <1>1 DEF Numbered, Queued, Increasing, OneHand
<1>3. Holds /\ Apart
  BY <1>1 DEF Holds, Apart
<1> QED BY <1>2, <1>3 DEF LateralInvariant

\* Every step leaves each message in one hand.
LEMMA LateralStep ==
  ASSUME ASequence, LateralInvariant, [Next]_lvars
  PROVE  LateralInvariant'
<1> USE DEF LateralInvariant
<1>1. chunk \in Nat /\ count \in Nat /\ Len(stream.messages) \in Nat
  BY DEF Numbered, ASequence
<1>2. CASE \/ UNCHANGED lvars \/ _accept \/ StopSet \/ InstanceRaises
  BY <1>1, <1>2, SameHands DEF lvars, _accept, StopSet, InstanceRaises, Holds
<1>3. CASE ReadChunk
  <2>1. chunk' \in Nat
    BY <1>1, <1>3 DEF ReadChunk
  <2> QED BY <1>3, <2>1, SameHands DEF ReadChunk, Holds
<1>4. CASE ReadEnds
  <2>1. CASE count' = count + 1 /\ _row(count + 1, "unreadable")
    BY <1>1, <1>4, <2>1, RefusedInv DEF ReadEnds, Outcomes
  <2>2. CASE UNCHANGED <<count, rows>>
    BY <1>1, <1>4, <2>2, SameHands DEF ReadEnds, Holds
  <2> QED BY <1>4, <2>1, <2>2 DEF ReadEnds
<1>5. CASE _arrived
  <2>1. chunk' \in Nat /\ count' = count + 1
        /\ UNCHANGED <<stream, running, launcher, left, stopping>>
    BY <1>1, <1>5 DEF _arrived
  <2>2. CASE _row(count + 1, "refused") /\ UNCHANGED waiting
    BY <2>1, <2>2, RefusedInv DEF Outcomes
  <2>3. CASE _row(count + 1, "overlap") /\ UNCHANGED waiting
    BY <2>1, <2>3, RefusedInv DEF Outcomes
  <2>4. CASE /\ ~\E m \in ahead : overlaps(m, count + 1)
             /\ waiting' = Append(waiting, count + 1) /\ UNCHANGED rows
    BY <2>1, <2>4, QueuedInv
  <2> QED BY <1>5, <2>2, <2>3, <2>4 DEF _arrived
<1>6. CASE _launch
  <2>1. CASE Stop \/ waiting = <<>>
    BY <1>1, <1>6, <2>1, SameHands DEF _launch
  <2>2. CASE ~Stop /\ waiting # <<>>
    BY <1>6, <2>2, LaunchInv DEF _launch
  <2> QED BY <2>1, <2>2
<1>7. CASE Listen
  <2>1. UNCHANGED <<stream, chunk, count, waiting, stopping, left>> /\ launcher = "ports"
    BY <1>7 DEF Listen
  <2>2. CASE launcher' = "compile" /\ UNCHANGED <<running, rows>>
    BY <1>1, <2>1, <2>2, SameHands DEF Holds
  <2>3. CASE Told("unheard")
    BY <2>1, <2>3, ToldInv DEF Outcomes
  <2> QED BY <1>7, <2>2, <2>3 DEF Listen
<1>8. CASE Compile
  <2>1. UNCHANGED <<stream, chunk, count, waiting, stopping, left>> /\ launcher = "compile"
    BY <1>8 DEF Compile
  <2>2. CASE launcher' = "compiled" /\ UNCHANGED <<running, rows>>
    BY <1>1, <2>1, <2>2, SameHands DEF Holds
  <2>3. CASE Told("uncompiled")
    BY <2>1, <2>3, ToldInv DEF Outcomes
  <2> QED BY <1>8, <2>2, <2>3 DEF Compile
<1>9. CASE Start
  <2>1. UNCHANGED <<stream, chunk, count, waiting, stopping, left>> /\ launcher = "compiled"
    BY <1>9 DEF Start
  <2>2. CASE launcher' = "run" /\ UNCHANGED <<running, rows>>
    BY <1>1, <2>1, <2>2, SameHands DEF Holds
  <2>3. CASE Told("ended")
    BY <2>1, <2>3, ToldInv DEF Outcomes
  <2> QED BY <1>9, <2>2, <2>3 DEF Start
<1>10. CASE InstanceEnds
  BY <1>10, ToldInv DEF InstanceEnds, Outcomes
<1>11. CASE StopDrain
  BY <1>11, DrainInv
<1>12. CASE StopTell
  <2>1. CASE left = <<>>
    BY <1>1, <1>12, <2>1, SameHands DEF StopTell, Holds
  <2> QED BY <1>12, <2>1, StopTellInv
<1> QED BY <1>2, <1>3, <1>4, <1>5, <1>6, <1>7, <1>8, <1>9, <1>10, <1>11, <1>12
        DEF Next, Reader, Launcher, Stopper

\* LateralInvariant holds throughout, for every writer.
LEMMA LateralAlways == ASSUME ASequence PROVE Spec => []LateralInvariant
<1>1. Init => LateralInvariant
  BY LateralInit
<1>2. LateralInvariant /\ [Next]_lvars => LateralInvariant'
  BY LateralStep
<1> QED BY <1>1, <1>2, PTL DEF Spec

\* ToldOnce: of the reader, the launcher and the stage's end, one tells a message
\* how it ended, once, and what was told is neither waiting nor running.
THEOREM MessagesToldOnce == ASSUME ASequence PROVE Spec => []ToldOnce
<1>1. ASSUME LateralInvariant, NEW n \in 1 .. count
      PROVE  /\ RowsOf(n) <= 1
             /\ RowsOf(n) = 1 => n \notin ahead \union {left[i] : i \in 1 .. Len(left)}
  <2> DEFINE R == {i \in 1 .. Len(rows) : rows[i].row = n}
  <2>1. CASE R = {}
    <3>1. RowsOf(n) = 0
      BY <2>1, FS_EmptySet DEF RowsOf
    <3> QED BY <3>1
  <2>2. CASE R # {}
    <3>1. PICK i \in R : TRUE
      BY <2>2
    <3>2. R = {i}
      BY <1>1, <3>1 DEF LateralInvariant, OneHand
    <3>3. RowsOf(n) = 1
      BY <3>2, FS_Singleton DEF RowsOf
    <3>4. n \notin ahead \union {left[j] : j \in 1 .. Len(left)}
      BY <1>1, <3>1 DEF LateralInvariant, OneHand
    <3> QED BY <3>3, <3>4
  <2> QED BY <2>1, <2>2
<1>2. LateralInvariant => ToldOnce
  BY <1>1 DEF ToldOnce
<1> QED BY <1>2, LateralAlways, PTL

\* OneTimeline: the instances that run and wait never overlap in programme time,
\* and run in the order their messages came.
THEOREM InstancesApart == ASSUME ASequence PROVE Spec => []OneTimeline
<1>1. ASSUME LateralInvariant PROVE OneTimeline
  <2>1. \A i \in 1 .. Len(waiting) : \A j \in 1 .. i - 1 : j \in 1 .. Len(waiting) /\ j < i
    <3>1. Len(waiting) \in Nat
      BY <1>1, LenProperties DEF LateralInvariant, Numbered
    <3> QED BY <3>1
  <2> QED BY <1>1, <2>1 DEF LateralInvariant, Queued, Increasing, Apart, OneTimeline
<1> QED BY <1>1, LateralAlways, PTL
=============================================================================
