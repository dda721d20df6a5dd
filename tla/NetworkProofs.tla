--------------------------- MODULE NetworkProofs ---------------------------
(***************************************************************************)
(* Proofs about module Network, whatever lanes are wired how and however   *)
(* the threads' steps fall: no wake-up for work is lost, a clean return    *)
(* hides no failure, each lane is a serial lane among the others, an       *)
(* output written whole holds all its streams carried, and credit bounds   *)
(* what waits.                                                             *)
(***************************************************************************)
EXTENDS NetworkInv, FiniteSetTheorems, FunctionTheorems, SequenceTheorems, WellFoundedInduction, TLAPS

LEMMA TurnMaxNat ==
  TurnMax \in Nat \ {0} /\ None \notin Int /\ None \notin [lane : Lane, lo : Nat, hi : Nat]
  BY NetworkAssumption

\* What a network is.
LEMMA NetKinds ==
  ASSUME net \in Nets
  PROVE  /\ \A x \in Lane \cup Writer :
              Reads[x] \in SUBSET Stream /\ IsFiniteSet(Reads[x])
         /\ \A l \in Lane :
              /\ LaneClock[l] \in {"input", "rate", "source", "self"}
              /\ LaneWidth[l] \in Nat \ {0}
              /\ l \notin Reads[l]
              /\ LaneClock[l] = "self" => LaneWidth[l] = 1
              /\ l \in Unbuffered => LaneWidth[l] = 1
              /\ LaneClock[l] = "source" => Reads[l] = {}
              /\ LaneClock[l] # "source" => net.stream[l] \in Reads[l]
              /\ net.makes[l] \in Nat
         /\ Cap \in Nat \ {0}
<1>1. /\ net.reads \in [Lane \cup Writer -> SUBSET Stream]
      /\ net.clock \in [Lane -> {"input", "rate", "source", "self"}]
      /\ net.width \in [Lane -> Nat \ {0}]
      /\ net.makes \in [Lane -> Nat]
      /\ net.cap \in Nat \ {0}
  BY NetworkAssumption
<1>5. \A l \in Lane :
        /\ IF net.clock[l] = "source" THEN net.reads[l] = {} ELSE net.stream[l] \in net.reads[l]
        /\ l \notin net.reads[l]
        /\ net.clock[l] = "self" => net.width[l] = 1
  BY NetworkAssumption
<1>6. \A l \in Lane : l \in net.unbuffered => net.width[l] = 1
  BY NetworkAssumption
<1>2. IsFiniteSet(Stream)
  BY NetworkAssumption
<1>3. \A x \in Lane \cup Writer : Reads[x] \in SUBSET Stream
  BY <1>1 DEF Reads
<1>4. \A x \in Lane \cup Writer : IsFiniteSet(Reads[x])
  BY <1>2, <1>3, FS_Subset
<1> QED BY <1>1, <1>3, <1>4, <1>5, <1>6 DEF Reads, LaneClock, LaneWidth, Unbuffered, Cap

LEMMA CutFields ==
  ASSUME NEW l \in Lane, NEW r, r = Record(r), ~r.stopped,
         NEW qc, qc = Q(l)!Cut(r.queue, Settled(l, r), Over(l, r), Busy(l) = {})
  PROVE  Cut(l, r) = [r EXCEPT !.queue = qc]
<1>1. Cut(l, r) = [r EXCEPT !.queue = Q(l)!Cut(r.queue, Settled(l, r), Over(l, r), Busy(l) = {})]
  BY Zenon DEF Cut
<1> QED BY <1>1, Zenon

LEMMA SelfCut ==
  ASSUME NEW l \in Lane, LaneClock[l] = "self",
         NEW q, SelfQueue(l, q), NEW t, NEW v, NEW quiet,
         NEW c, c = Q(l)!Cut(q, t, v, quiet)
  PROVE  Q(l)!Cut(c, t, v, quiet) = c /\ SelfQueue(l, c)
<1>1. CASE q.last # None
  BY <1>1 DEF Q!Cut
<1>2. CASE q.last = None /\ (q.head < q.next \/ ~quiet \/ (~v /\ t <= q.next))
  <2>1. c = q
    BY <1>2 DEF Q!Cut
  <2> QED BY <2>1, <1>2
<1>3. CASE q.last = None /\ ~(q.head < q.next \/ ~quiet \/ (~v /\ t <= q.next))
  <2>1. /\ c.head = q.head /\ c.next = q.next + 1 /\ c.withheld = q.withheld
    BY <1>3 DEF Q!Cut
  <2>2. q.head \in Int /\ q.next \in Int /\ q.head <= q.next /\ ~q.withheld
    BY DEF SelfQueue
  <2>3. c.head \in Int /\ c.next \in Int /\ c.head < c.next
    BY <2>1, <2>2
  <2>4. Q(l)!Cut(c, t, v, quiet) = c
    BY <2>3 DEF Q!Cut
  <2>5. SelfQueue(l, c)
    BY <2>1, <2>2, <2>3 DEF SelfQueue
  <2> QED BY <2>4, <2>5
<1> QED BY <1>1, <1>2, <1>3

LEMMA OtherCut ==
  ASSUME NEW l \in Lane, LaneClock[l] \in {"input", "rate", "source"},
         NEW q, NEW t, NEW v, NEW quiet,
         NEW c, c = Q(l)!Cut(q, t, v, quiet)
  PROVE  Q(l)!Cut(c, t, v, quiet) = c /\ SelfQueue(l, c)
<1>1. SelfQueue(l, c)
  BY DEF SelfQueue
<1>2. Q(l)!Cut(c, t, v, quiet) = c
  BY DEF Q!Cut, Q!CutUpTo, Q!Larger, Q!Smaller, Q!Total
<1> QED BY <1>1, <1>2

LEMMA CutTwice ==
  ASSUME net \in Nets, NEW l \in Lane, NEW r, LaneKept(l, r)
  PROVE  Cut(l, Cut(l, r)) = Cut(l, r) /\ LaneKept(l, Cut(l, r))
<1>0. r = Record(r) /\ SelfQueue(l, r.queue)
  BY DEF LaneKept
<1>1. CASE r.stopped
  BY <1>1 DEF Cut
<1>2. CASE ~r.stopped
  <2> PICK c : c = Cut(l, r)
    OBVIOUS
  <2> PICK qc : qc = Q(l)!Cut(r.queue, Settled(l, r), Over(l, r), Busy(l) = {})
    OBVIOUS
  <2>0. c = [r EXCEPT !.queue = qc]
    BY <1>0, <1>2, CutFields
  <2>1. c = [got |-> r.got, closed |-> r.closed, queue |-> qc, done |-> r.done,
             nextFlush |-> r.nextFlush, stopped |-> r.stopped, claimed |-> r.claimed,
             ended |-> r.ended]
    BY <1>0, <2>0 DEF Record
  <2>2. Settled(l, c) = Settled(l, r) /\ Over(l, c) = Over(l, r)
    BY <2>1 DEF Settled, Over
  <2>3. LaneClock[l] \in {"input", "rate", "source", "self"}
    BY NetKinds
  <2>4. Q(l)!Cut(qc, Settled(l, r), Over(l, r), Busy(l) = {}) = qc /\ SelfQueue(l, qc)
    BY <1>0, <2>3, SelfCut, OtherCut
  <2>5. Cut(l, c) = [c EXCEPT !.queue = Q(l)!Cut(@, Settled(l, c), Over(l, c), Busy(l) = {})]
    BY <1>2, <2>1 DEF Cut
  <2>6. Cut(l, c) = c
    BY <2>1, <2>2, <2>4, <2>5
  <2>7. c = Record(c)
    BY <2>1 DEF Record
  <2> QED BY <2>1, <2>4, <2>6, <2>7 DEF LaneKept
<1> QED BY <1>1, <1>2

LEMMA QueueCutPrimed ==
  ASSUME UNCHANGED net, NEW l \in Lane, LaneClock[l] \in {"input", "rate", "source", "self"},
         NEW q, NEW t, NEW v, NEW quiet
  PROVE  (Q(l)!Cut(q, t, v, quiet))' = Q(l)!Cut(q, t, v, quiet)
<1>0. LaneClock' = LaneClock /\ Cap' = Cap
  BY DEF LaneClock, Cap
<1>1. CASE LaneClock[l] = "self"
  BY <1>0, <1>1 DEF Q!Cut
<1>2. CASE LaneClock[l] \in {"input", "rate", "source"}
  BY <1>0, <1>2 DEF Q!Cut, Q!CutUpTo, Q!Larger, Q!Smaller, Q!Total
<1> QED BY <1>1, <1>2

LEMMA CutPrimed ==
  ASSUME UNCHANGED <<net, turn>>, NEW l \in Lane, NEW r, r = lane'[l],
         LaneClock[l] \in {"input", "rate", "source", "self"}
  PROVE  Cut(l, lane[l])' = Cut(l, r)
<1>1. CASE r.stopped
  BY <1>1 DEF Cut
<1>2. CASE ~r.stopped
  <2>1. Settled(l, lane[l])' = Settled(l, r)
    BY DEF Settled, LaneClock, Reads
  <2>2. Over(l, lane[l])' = Over(l, r)
    BY DEF Over, Reads
  <2>3. Busy(l)' = Busy(l)
    BY DEF Busy
  <2> QED BY <1>2, <2>1, <2>2, <2>3, QueueCutPrimed DEF Cut
<1> QED BY <1>1, <1>2

LEMMA PickedFields ==
  ASSUME Places
  PROVE  /\ Picked = [l \in Lane |-> Picked[l]]
         /\ \A l \in Lane : LaneKept(l, Picked[l]) /\ Picked[l] \in {lane[l], Cut(l, lane[l])}
<1>1. Picked = [l \in Lane |-> Picked[l]]
  BY DEF Picked
<1>2. ASSUME NEW l \in Lane
      PROVE  LaneKept(l, Picked[l]) /\ Picked[l] \in {lane[l], Cut(l, lane[l])}
  <2>1. LaneKept(l, lane[l]) /\ net \in Nets
    BY DEF Places, Lanes
  <2>2. Picked[l] \in {lane[l], Cut(l, lane[l])}
    BY DEF Picked
  <2> QED BY <2>1, <2>2, CutTwice
<1> QED BY <1>1, <1>2

LEMMA LanesSame ==
  ASSUME UNCHANGED net, NEW L, lane' = L, L = [l \in Lane |-> L[l]],
         \A l \in Lane : LaneKept(l, L[l])
  PROVE  Lanes'
<1>1. \A l \in Lane : LaneKept(l, L[l])' <=> LaneKept(l, L[l])
  BY DEF LaneKept, SelfQueue, LaneClock, Record
<1> QED BY <1>1 DEF Lanes, LaneKept, SelfQueue, Record

LEMMA PickedAgain ==
  ASSUME Places, UNCHANGED <<net, turn>>, lane' = Picked
  PROVE  Picked' = Picked /\ Lanes'
<1> PICK P : P = Picked
  OBVIOUS
<1>0. lane' = P
  OBVIOUS
<1>1. /\ P = [l \in Lane |-> P[l]]
      /\ \A l \in Lane : LaneKept(l, P[l]) /\ P[l] \in {lane[l], Cut(l, lane[l])}
  BY PickedFields
<1>2. Lanes'
  BY <1>0, <1>1, LanesSame
<1>3. ASSUME NEW l \in Lane
      PROVE  (IF LaneClock[l] \in {"rate", "source", "self"}
                   \/ (lane[l].queue.withheld /\ Depth(lane[l]) < Cap)
                THEN Cut(l, lane[l]) ELSE lane[l])' = P[l]
  <2>1. LaneKept(l, lane[l]) /\ net \in Nets
    BY DEF Places, Lanes
  <2>2. LaneClock[l] \in {"input", "rate", "source", "self"}
    BY <2>1, NetKinds
  <2>3. Cut(l, lane[l])' = Cut(l, P[l])
    BY <1>0, <2>2, CutPrimed
  <2>4. LaneClock' = LaneClock /\ Cap' = Cap
    BY DEF LaneClock, Cap
  <2>5. CASE P[l] = Cut(l, lane[l])
    <3>1. Cut(l, P[l]) = P[l]
      BY <2>1, <2>5, CutTwice
    <3>2. lane[l]' = P[l]
      BY <1>0
    <3> QED BY <2>3, <3>1, <3>2, Zenon
  <2>6. CASE P[l] # Cut(l, lane[l])
    <3>1. ~(LaneClock[l] \in {"rate", "source", "self"}
              \/ (lane[l].queue.withheld /\ Depth(lane[l]) < Cap))
          /\ P[l] = lane[l]
      BY <2>6 DEF Picked
    <3> QED BY <1>0, <2>4, <3>1 DEF Depth
  <2> QED BY <1>1, <2>5, <2>6
<1>4. Picked' = P
  <2>1. Picked' = [l \in Lane |-> P[l]]
    BY <1>3 DEF Picked
  <2> QED BY <1>1, <2>1
<1> QED BY <1>2, <1>4

\* What a lane's dispatch looks at besides the lanes.
Outputs(w) == <<writer[w].items, writer[w].taken, writer[w].fate>>

LEMMA DispatchableSame ==
  ASSUME UNCHANGED <<net, turn>>, \A w \in Writer : UNCHANGED Outputs(w),
         NEW P, NEW l \in Lane
  PROVE  Dispatchable(l, P)' <=> Dispatchable(l, P)
<1>1. Busy(l)' = Busy(l)
  BY DEF Busy
<1>2. \A w \in Writer : /\ writer'[w].items = writer[w].items
                        /\ writer'[w].taken = writer[w].taken
                        /\ writer'[w].fate = writer[w].fate
  BY DEF Outputs
<1>3. Drained(l, P)' <=> Drained(l, P)
  BY <1>2 DEF Drained, Reads, Depth
<1>4. Room(l, P)' <=> Room(l, P)
  BY <1>2 DEF Room, Reads, Depth, Cap, LaneClock
<1> QED BY <1>1, <1>3, <1>4 DEF Dispatchable, Credit, Unbuffered, LaneWidth

LEMMA PreferredSame ==
  ASSUME UNCHANGED <<net, turn>>, \A w \in Writer : UNCHANGED Outputs(w), Picked' = Picked
  PROVE  (Preferred(Picked) # {})' <=> Preferred(Picked) # {}
<1> PICK P : P = Picked
  OBVIOUS
<1>0. Picked' = P
  OBVIOUS
<1>1. ASSUME NEW l \in Lane
      PROVE  Dispatchable(l, Picked)' <=> Dispatchable(l, P)
  <2>1. Dispatchable(l, P)' <=> Dispatchable(l, P)
    BY DispatchableSame
  <2>2. Dispatchable(l, Picked)' <=> Dispatchable(l, P)'
    BY <1>0, Zenon DEF Dispatchable, Credit, Drained, Room, Depth
  <2> QED BY <2>1, <2>2
<1>2. \A l, k \in Lane : Before(k, l, Picked)' <=> Before(k, l, P)
  BY <1>0 DEF Before, Depth
<1>3. (Preferred(Picked))' = Preferred(P)
  BY <1>1, <1>2 DEF Preferred
<1> QED BY <1>0, <1>3

-----------------------------------------------------------------------------
(* What is handed on, taken or flushed leaves a lane its places.           *)

LEMMA FieldsSet ==
  ASSUME NEW l, NEW r, LaneKept(l, r), NEW s, NEW x
  PROVE  /\ LaneKept(l, [r EXCEPT !.got[s] = x])
         /\ LaneKept(l, [r EXCEPT !.closed = x])
         /\ LaneKept(l, [r EXCEPT !.done = x])
<1>1. ASSUME NEW c, c = [r EXCEPT !.closed = x] PROVE LaneKept(l, c)
  BY <1>1 DEF LaneKept, Record
<1>0. ASSUME NEW c, c = [r EXCEPT !.done = x] PROVE LaneKept(l, c)
  BY <1>0 DEF LaneKept, Record
<1> PICK g : g = [r.got EXCEPT ![s] = x]
  OBVIOUS
<1>2. ASSUME NEW c, c = [r EXCEPT !.got = g] PROVE LaneKept(l, c)
  BY <1>2 DEF LaneKept, Record
<1>3. /\ LaneKept(l, [r EXCEPT !.got = g])
      /\ LaneKept(l, [r EXCEPT !.closed = x])
      /\ LaneKept(l, [r EXCEPT !.done = x])
  BY <1>0, <1>1, <1>2, Zenon
<1> QED BY <1>3, Zenon

LEMMA QueueSet ==
  ASSUME NEW l, NEW r, LaneKept(l, r), NEW q, SelfQueue(l, q)
  PROVE  LaneKept(l, [r EXCEPT !.queue = q])
<1>1. ASSUME NEW c, c = [r EXCEPT !.queue = q] PROVE LaneKept(l, c)
  <2>1. c = Record(c) /\ c.queue = q
    BY <1>1 DEF LaneKept, Record
  <2> QED BY <2>1 DEF LaneKept
<1> QED BY <1>1, Zenon

LEMMA ReceiveKeeps ==
  ASSUME net \in Nets, NEW l \in Lane, NEW r, LaneKept(l, r),
         NEW s, NEW n, NEW end
  PROVE  LaneKept(l, Receive(l, r, s, n, end))
<1> DEFINE arrived == [r EXCEPT !.got[s] = @ + n]
           more    == IF n = 0 THEN r ELSE Cut(l, arrived)
           closed  == [more EXCEPT !.closed = @ \cup {s}]
<1>1. LaneKept(l, arrived)
  BY FieldsSet
<1> HIDE DEF arrived
<1>2. LaneKept(l, more)
  BY <1>1, CutTwice
<1> HIDE DEF more
<1>3. LaneKept(l, closed)
  BY <1>2, FieldsSet
<1> HIDE DEF closed
<1>4. LaneKept(l, Cut(l, closed))
  BY <1>3, CutTwice
<1>5. Receive(l, r, s, n, end) \in {r, more, Cut(l, closed)}
  BY Zenon DEF Receive, more, closed, arrived
<1> QED BY <1>2, <1>4, <1>5

LEMMA PushKeeps ==
  ASSUME Outs, NEW s, NEW n, NEW end, writer' = [w \in Writer |-> Push(w, s, n, end)]
  PROVE  Outs'
<1> DEFINE fields == {"pc", "items", "taken", "hand", "ends", "wrote", "fate", "result"}
<1>1. ASSUME NEW w \in Writer PROVE DOMAIN Push(w, s, n, end) = DOMAIN writer[w]
  BY DEF Push
<1> QED BY <1>1 DEF Outs

LEMMA HandOnKeeps ==
  ASSUME Places, UNCHANGED net, NEW from, NEW s, NEW n, NEW end,
         \A l \in Lane : LaneKept(l, from[l]), HandOn(from, s, n, end)
  PROVE  Lanes' /\ Outs'
<1>1. Outs'
  BY PushKeeps DEF HandOn, Places
<1> PICK L : L = [l \in Lane |-> Receive(l, from[l], s, n, end)]
  OBVIOUS
<1>2. lane' = L
  BY DEF HandOn
<1>3. \A l \in Lane : LaneKept(l, L[l])
  BY ReceiveKeeps DEF Places
<1>4. Lanes'
  BY <1>2, <1>3, LanesSame
<1> QED BY <1>1, <1>4

LEMMA TakenKeeps ==
  ASSUME net \in Nets, NEW l \in Lane, NEW q, SelfQueue(l, q),
         q.head < q.next, NEW t, NEW v, NEW n, n = Q(l)!Length(q, t, v)
  PROVE  SelfQueue(l, Q(l)!Taken(q, n, t, v))
<1> SUFFICES ASSUME LaneClock[l] = "self"
             PROVE  LET c == Q(l)!Taken(q, n, t, v)
                    IN c.head \in Int /\ c.next \in Int /\ c.head <= c.next /\ ~c.withheld
  BY DEF SelfQueue
<1>1. /\ q.head \in Int /\ q.next \in Int /\ ~q.withheld
      /\ LaneWidth[l] = 1 /\ TurnMax \in Int
  BY NetKinds, TurnMaxNat DEF SelfQueue
<1>2. n \in Int /\ q.head + n <= q.next
  BY <1>1 DEF Q!Length, Q!Smaller
<1>3. Q(l)!Taken(q, n, t, v) = [head |-> q.head + n, next |-> q.next,
                                withheld |-> q.withheld, last |-> q.last]
  BY <1>1 DEF Q!Taken, Q!StartingAt
<1> QED BY <1>1, <1>2, <1>3

LEMMA LeftKeeps ==
  ASSUME NEW l \in Lane, NEW r, LaneKept(l, r), NEW gone, NEW past
  PROVE  LaneKept(l, Left(r, gone, past))
<1> PICK done : done = r.done \ gone
  OBVIOUS
<1> PICK stopped : stopped = (r.stopped \/ \E d \in gone : d.tick = r.queue.last)
  BY Zenon
<1> PICK ended : ended = (r.ended \/ \E d \in gone : d.tick = r.queue.last)
  BY Zenon
<1>1. Left(r, gone, past) = [r EXCEPT !.done = done, !.nextFlush = past,
                                     !.stopped = stopped, !.ended = ended]
  BY Zenon DEF Left
<1>2. ASSUME NEW c, c = [r EXCEPT !.done = done, !.nextFlush = past,
                                  !.stopped = stopped, !.ended = ended]
      PROVE  LaneKept(l, c)
  BY <1>2 DEF LaneKept, Record
<1> QED BY <1>1, <1>2, Zenon

LEMMA ClaimedKeeps ==
  ASSUME NEW l \in Lane, NEW r, LaneKept(l, r)
  PROVE  LaneKept(l, Claimed(r))
<1> PICK past : past = r.queue.next
  OBVIOUS
<1> PICK q : q = [head |-> past, next |-> past + 1, withheld |-> FALSE, last |-> past]
  OBVIOUS
<1>1. Claimed(r) = [r EXCEPT !.done = {}, !.nextFlush = past, !.stopped = TRUE,
                             !.claimed = TRUE, !.queue = q]
  BY Zenon DEF Claimed
<1>2. SelfQueue(l, q)
  BY DEF SelfQueue, LaneKept
<1>3. ASSUME NEW c, NEW stopped, NEW claimed, NEW done,
             c = [r EXCEPT !.done = done, !.nextFlush = past, !.stopped = stopped,
                           !.claimed = claimed, !.queue = q]
      PROVE  LaneKept(l, c)
  <2>1. c = Record(c) /\ c.queue = q
    BY <1>3 DEF LaneKept, Record
  <2> QED BY <1>2, <2>1 DEF LaneKept
<1> QED BY <1>1, <1>3, Zenon

LEMMA FlushKeeps ==
  ASSUME Places, UNCHANGED net, NEW l \in Lane, NEW r, LaneKept(l, r),
         Flush(l, r)
  PROVE  Lanes' /\ Outs'
<1> PICK past : LET gone   == {d \in r.done : d.tick < past}
                    claims == {d \in gone : d.fin /\ d.tick # r.queue.last /\ ~r.stopped}
                    last   == \E d \in gone : d.tick = r.queue.last
                IN IF claims = {}
                     THEN HandOn([lane EXCEPT ![l] = Left(r, gone, past)], l,
                                 past - r.nextFlush - (IF last THEN 1 ELSE 0), last)
                     ELSE HandOn([lane EXCEPT ![l] = Claimed(r)], l,
                                 Min({d.tick : d \in claims}) - r.nextFlush + 1, FALSE)
  BY Zenon DEF Flush
<1>1. \E kept, n, end : LaneKept(l, kept) /\ HandOn([lane EXCEPT ![l] = kept], l, n, end)
  BY LeftKeeps, ClaimedKeeps, Zenon
<1> PICK kept, n, end : LaneKept(l, kept) /\ HandOn([lane EXCEPT ![l] = kept], l, n, end)
  BY <1>1
<1>2. \A k \in Lane : LaneKept(k, [lane EXCEPT ![l] = kept][k])
  BY DEF Places, Lanes
<1> QED BY <1>2, HandOnKeeps

LEMMA LanesStay ==
  ASSUME Places, UNCHANGED <<net, lane>>
  PROVE  Lanes'
  BY LanesSame DEF Places, Lanes

LEMMA OneOutKept ==
  ASSUME Outs, NEW w \in Writer, NEW r, DOMAIN r = DOMAIN writer[w],
         writer' = [writer EXCEPT ![w] = r]
  PROVE  Outs'
  BY DEF Outs

LEMMA TurnsRoused ==
  ASSUME Turns, NEW who \in [Worker -> {"awake", "asleep", "run", "gone"}],
         worker' = Roused(who), turn' = [w \in Worker |-> turn'[w]],
         \A w \in Worker : who[w] = "run" => turn'[w].lane \in Lane
  PROVE  Turns'
  BY DEF Turns, Roused

-----------------------------------------------------------------------------
(* No wake-up for work is lost.                                            *)

\* Whoever was asleep looks again once the scheduler notifies.
LEMMA SomeoneLooks ==
  ASSUME NEW who \in [Worker -> {"awake", "asleep", "run", "gone"}],
         worker' = Roused(who), StaysForWork'
  PROVE  WorkIsSeen'
<1> SUFFICES ASSUME Running'
             PROVE  \E w \in Worker : worker'[w] \in {"awake", "run"}
  BY DEF WorkIsSeen
<1> PICK w \in Worker : TRUE
  BY NetworkAssumption
<1>1. worker'[w] # "gone"
  BY DEF StaysForWork
<1> QED BY <1>1 DEF Roused

\* Nothing a worker looks at changed.
LEMMA SeenSame ==
  ASSUME Places, WorkIsSeen, UNCHANGED <<net, turn, lane>>,
         \A w \in Writer : UNCHANGED Outputs(w), Running' => Running, Calling => Calling',
         \A w \in Worker : worker'[w] = worker[w]
  PROVE  WorkIsSeen'
<1>1. ASSUME NEW l \in Lane
      PROVE  (IF LaneClock[l] \in {"rate", "source", "self"}
                   \/ (lane[l].queue.withheld /\ Depth(lane[l]) < Cap)
                THEN Cut(l, lane[l]) ELSE lane[l])'
             = (IF LaneClock[l] \in {"rate", "source", "self"}
                     \/ (lane[l].queue.withheld /\ Depth(lane[l]) < Cap)
                  THEN Cut(l, lane[l]) ELSE lane[l])
  <2>1. LaneClock[l] \in {"input", "rate", "source", "self"}
    BY NetKinds DEF Places
  <2>2. Cut(l, lane[l])' = Cut(l, lane[l])
    BY <2>1, CutPrimed
  <2>3. LaneClock' = LaneClock /\ Cap' = Cap
    BY DEF LaneClock, Cap
  <2> QED BY <2>2, <2>3 DEF Depth
<1>2. Picked' = Picked
  BY <1>1 DEF Picked
<1>3. (Preferred(Picked) # {})' <=> Preferred(Picked) # {}
  BY <1>2, PreferredSame
<1> QED BY <1>3 DEF WorkIsSeen

LEMMA WorkerStopsSeen ==
  ASSUME SeenInvariant, UNCHANGED net, NEW w \in Worker, WorkerStops(w)
  PROVE  SeenInvariant'
<1>1. Places'
  BY LanesStay DEF SeenInvariant, Places, Turns, Outs, WorkerStops
<1>2. ~Running'
  BY DEF WorkerStops, Running
<1> QED BY <1>1, <1>2 DEF SeenInvariant, StaysForWork, WorkIsSeen

LEMMA WorkerSleepsSeen ==
  ASSUME SeenInvariant, UNCHANGED net, NEW w \in Worker, WorkerSleeps(w)
  PROVE  SeenInvariant'
<1>1. Picked' = Picked /\ Lanes'
  BY PickedAgain DEF SeenInvariant, WorkerSleeps
<1>2. Places'
  BY <1>1 DEF SeenInvariant, Places, Turns, Outs, WorkerSleeps
<1>3. StaysForWork'
  BY DEF SeenInvariant, Places, Turns, StaysForWork, WorkerSleeps, Running
<1>4. (Preferred(Picked) # {})' <=> Preferred(Picked) # {}
  BY <1>1, PreferredSame DEF WorkerSleeps, Outputs
<1>5. WorkIsSeen'
  BY <1>4 DEF WorkIsSeen, WorkerSleeps
<1> QED BY <1>2, <1>3, <1>5 DEF SeenInvariant

LEMMA DispatchSeen ==
  ASSUME SeenInvariant, UNCHANGED net,
         NEW w \in Worker, NEW l \in Lane, Dispatch(w, l)
  PROVE  SeenInvariant'
<1> PICK P : P = Picked
  OBVIOUS
<1> PICK n : n = Q(l)!Length(P[l].queue, Settled(l, P[l]), Over(l, P[l]))
  OBVIOUS
<1> PICK q : q = Q(l)!Taken(P[l].queue, n, Settled(l, P[l]), Over(l, P[l]))
  OBVIOUS
<1> DEFINE who == [worker EXCEPT ![w] = "run"]
<1>1. /\ lane' = [P EXCEPT ![l].queue = q]
      /\ turn' = [turn EXCEPT ![w] = [lane |-> l, lo |-> P[l].queue.head,
                                      hi |-> P[l].queue.head + n - 1]]
      /\ worker' = Roused(who)
      /\ l \in Preferred(P)
      /\ UNCHANGED <<writer, error, finished>>
  BY Zenon DEF Dispatch, Notify
<1>2. P = [k \in Lane |-> P[k]] /\ \A k \in Lane : LaneKept(k, P[k])
  BY PickedFields DEF SeenInvariant
<1>3. SelfQueue(l, q)
  <2>1. P[l].queue.head < P[l].queue.next
    BY <1>1 DEF Preferred, Dispatchable
  <2> QED BY <1>2, <2>1, TakenKeeps DEF SeenInvariant, Places, LaneKept
<1>4. \A k \in Lane : LaneKept(k, lane'[k])
  <2>1. LaneKept(l, [P[l] EXCEPT !.queue = q])
    BY <1>2, <1>3, QueueSet
  <2> QED BY <1>1, <1>2, <2>1
<1>5. Lanes'
  BY <1>1, <1>2, <1>4, LanesSame
<1>6. Turns'
  <2>1. who \in [Worker -> {"awake", "asleep", "run", "gone"}]
    BY DEF SeenInvariant, Places, Turns
  <2>2. turn' = [v \in Worker |-> turn'[v]]
    BY <1>1 DEF SeenInvariant, Places, Turns
  <2>3. \A v \in Worker : who[v] = "run" => turn'[v].lane \in Lane
    BY <1>1 DEF SeenInvariant, Places, Turns
  <2> HIDE DEF who
  <2> QED BY <1>1, <2>1, <2>2, <2>3, TurnsRoused DEF SeenInvariant, Places
<1>7. Outs'
  BY <1>1 DEF SeenInvariant, Places, Outs
<1>8. StaysForWork'
  BY <1>1 DEF SeenInvariant, Places, Turns, StaysForWork, Running, Roused
<1>9. WorkIsSeen'
  BY <1>1, <1>8, SomeoneLooks DEF SeenInvariant, Places, Turns
<1> QED BY <1>5, <1>6, <1>7, <1>8, <1>9 DEF SeenInvariant, Places

LEMMA CompleteSeen ==
  ASSUME SeenInvariant, UNCHANGED net,
         NEW w \in Worker, NEW stop, NEW verdict, Complete(w, stop, verdict)
  PROVE  SeenInvariant'
<1> PICK l : l = turn[w].lane
  OBVIOUS
<1> DEFINE who == [worker EXCEPT ![w] = "awake"]
<1>1. /\ worker[w] = "run"
      /\ worker' = Roused(who)
      /\ turn' = [turn EXCEPT ![w] = None]
  BY DEF Complete, Notify
<1>2. l \in Lane
  BY <1>1 DEF SeenInvariant, Places, Turns
<1>3. \/ \E d : lane' = [lane EXCEPT ![l].done = d] /\ UNCHANGED <<writer, finished>> /\ error'
      \/ \E d : Flush(l, [lane[l] EXCEPT !.done = d]) /\ (finished => finished') /\ UNCHANGED error
  BY Zenon DEF Complete
<1>4. Lanes' /\ Outs'
  <2>1. LaneKept(l, lane[l]) /\ net \in Nets
    BY <1>2 DEF SeenInvariant, Places, Lanes
  <2>2. ASSUME NEW d, lane' = [lane EXCEPT ![l].done = d], UNCHANGED writer
        PROVE  Lanes' /\ Outs'
    <3>1. LaneKept(l, [lane[l] EXCEPT !.done = d])
      BY <2>1, FieldsSet
    <3>2. \A k \in Lane : LaneKept(k, lane'[k])
      BY <2>2, <3>1 DEF SeenInvariant, Places, Lanes
    <3>3. lane' = [k \in Lane |-> lane'[k]]
      BY <2>2 DEF SeenInvariant, Places, Lanes
    <3>4. Lanes'
      BY <3>2, <3>3, LanesSame
    <3> QED BY <2>2, <3>4 DEF SeenInvariant, Places, Outs
  <2>3. ASSUME NEW d, Flush(l, [lane[l] EXCEPT !.done = d])
        PROVE  Lanes' /\ Outs'
    <3>1. LaneKept(l, [lane[l] EXCEPT !.done = d])
      BY <2>1, FieldsSet
    <3> QED BY <1>2, <2>3, <3>1, FlushKeeps DEF SeenInvariant
  <2> QED BY <1>3, <2>2, <2>3
<1>5. Turns'
  <2>1. who \in [Worker -> {"awake", "asleep", "run", "gone"}]
    BY DEF SeenInvariant, Places, Turns
  <2>2. turn' = [v \in Worker |-> turn'[v]]
    BY <1>1 DEF SeenInvariant, Places, Turns
  <2>3. \A v \in Worker : who[v] = "run" => turn'[v].lane \in Lane
    BY <1>1 DEF SeenInvariant, Places, Turns
  <2> HIDE DEF who
  <2> QED BY <1>1, <2>1, <2>2, <2>3, TurnsRoused DEF SeenInvariant, Places
<1>6. StaysForWork'
  <2>1. Running' => Running
    BY <1>3 DEF Running
  <2>2. \A v \in Worker : worker'[v] = "gone" => worker[v] = "gone"
    BY <1>1 DEF SeenInvariant, Places, Turns, Roused
  <2> QED BY <2>1, <2>2 DEF SeenInvariant, StaysForWork
<1>7. WorkIsSeen'
  BY <1>1, <1>6, SomeoneLooks DEF SeenInvariant, Places, Turns
<1> QED BY <1>4, <1>5, <1>6, <1>7 DEF SeenInvariant, Places

\* A thread that notifies changes nothing of a turn, and stops no run that went on.
LEMMA NotifiesSeen ==
  ASSUME SeenInvariant, UNCHANGED <<net, turn>>, Lanes', Outs',
         worker' = Roused(worker), Running' => Running
  PROVE  SeenInvariant'
<1>1. worker \in [Worker -> {"awake", "asleep", "run", "gone"}]
  BY DEF SeenInvariant, Places, Turns
<1>2. Turns'
  BY <1>1, TurnsRoused DEF SeenInvariant, Places, Turns
<1>3. StaysForWork'
  BY <1>1 DEF SeenInvariant, StaysForWork, Roused
<1> QED BY <1>1, <1>2, <1>3, SomeoneLooks DEF SeenInvariant, Places

\* A thread that tells nobody changes nothing a worker looks at.
LEMMA QuietSeen ==
  ASSUME SeenInvariant, UNCHANGED <<net, turn, lane, worker>>, Outs',
         \A w \in Writer : UNCHANGED Outputs(w), Running' => Running, Calling => Calling'
  PROVE  SeenInvariant'
<1>1. WorkIsSeen'
  BY SeenSame DEF SeenInvariant
<1>2. Lanes'
  BY LanesStay DEF SeenInvariant
<1> QED BY <1>1, <1>2 DEF SeenInvariant, Places, Turns, StaysForWork

LEMMA FeedSeen ==
  ASSUME SeenInvariant, UNCHANGED net, NEW i \in Input, Feed(i)
  PROVE  SeenInvariant'
<1>1. CASE FeedStops(i) \/ FeedSleeps(i)
  <2>1. UNCHANGED <<turn, lane, worker, writer, error, finished>>
    BY <1>1 DEF FeedStops, FeedSleeps
  <2>2. Outs'
    BY <2>1 DEF SeenInvariant, Places, Outs
  <2>3. \A w \in Writer : UNCHANGED Outputs(w)
    BY <2>1 DEF Outputs
  <2>4. (Running' => Running) /\ (Calling => Calling')
    BY <2>1 DEF Running, Calling
  <2> QED BY <2>1, <2>2, <2>3, <2>4, QuietSeen
<1>2. CASE Feeds(i)
  <2>1. Lanes' /\ Outs'
    <3>1. \E n, end : HandOn(lane, i, n, end)
      BY <1>2, Zenon DEF Feeds
    <3> QED BY <3>1, HandOnKeeps DEF SeenInvariant, Places, Lanes
  <2> QED BY <1>2, <2>1, NotifiesSeen DEF Feeds, Notify, Running
<1>3. CASE Tears(i)
  <2>1. Lanes' /\ Outs'
    BY <1>3, LanesStay DEF Tears, SeenInvariant, Places, Outs
  <2> QED BY <1>3, <2>1, NotifiesSeen DEF Tears, Notify, Running
<1> QED BY <1>1, <1>2, <1>3 DEF Feed

\* A writer that moves off the three places it calls from has called.
LEMMA WriteSeen ==
  ASSUME SeenInvariant, UNCHANGED net, NEW w \in Writer, Write(w)
  PROVE  SeenInvariant'
<1>0. Outs /\ Places
  BY DEF SeenInvariant, Places
<1>1. CASE Wakes(w)
  <2> PICK pc : writer' = [writer EXCEPT ![w].pc = pc]
    BY <1>1, Zenon DEF Wakes
  <2>2. Outs'
    BY <1>0 DEF Outs
  <2>3. Lanes'
    BY <1>0, <1>1, LanesStay DEF Wakes
  <2> QED BY <1>1, <2>2, <2>3, NotifiesSeen DEF Wakes, Notify, Running
<1>2. ASSUME NEW r, Moves(w, r), DOMAIN r = DOMAIN writer[w],
             r.pc \in {"idle", "took", "closed"}
      PROVE  SeenInvariant'
  <2>1. Outs'
    BY <1>0, <1>2, OneOutKept DEF Moves
  <2>2. Calling'
    BY <1>0, <1>2 DEF Calling, Moves, Outs
  <2> QED BY <1>0, <1>2, <2>1, <2>2, LanesStay
          DEF Moves, sched, SeenInvariant, Places, Turns, StaysForWork, Running, WorkIsSeen
<1>3. ASSUME UNCHANGED <<turn, lane, worker, error, finished>>,
             NEW r, writer' = [writer EXCEPT ![w] = r], DOMAIN r = DOMAIN writer[w],
             writer[w].pc \notin {"idle", "took", "closed"},
             r.items = writer[w].items, r.taken = writer[w].taken, r.fate = writer[w].fate
      PROVE  SeenInvariant'
  <2>1. Outs'
    BY <1>0, <1>3, OneOutKept
  <2>2. \A v \in Writer : UNCHANGED Outputs(v)
    BY <1>0, <1>3 DEF Outputs, Outs
  <2>3. (Running' => Running) /\ (Calling => Calling')
    BY <1>0, <1>3 DEF Running, Calling, Outs
  <2> QED BY <1>3, <2>1, <2>2, <2>3, QuietSeen
<1>4. CASE Idles(w)
  <2> PICK r : r = [writer[w] EXCEPT !.taken = FALSE, !.pc = "idle"]
    OBVIOUS
  <2>1. Moves(w, r)
    BY <1>4 DEF Idles
  <2>2. DOMAIN r = DOMAIN writer[w] /\ r.pc = "idle"
    BY <1>0 DEF Outs
  <2> QED BY <1>2, <2>1, <2>2
<1>5. CASE Pops(w)
  <2>1. CASE writer[w].items = <<>>
    <3> PICK r : r = [writer[w] EXCEPT !.pc = "wait"]
      OBVIOUS
    <3>1. Moves(w, r) /\ writer[w].pc \notin {"idle", "took", "closed"}
      BY <1>5, <2>1 DEF Pops
    <3>2. /\ DOMAIN r = DOMAIN writer[w]
          /\ r.items = writer[w].items /\ r.taken = writer[w].taken /\ r.fate = writer[w].fate
      BY <1>0 DEF Outs
    <3> QED BY <1>3, <3>1, <3>2 DEF Moves, sched
  <2>2. CASE writer[w].items # <<>>
    <3> PICK r : r = [writer[w] EXCEPT !.hand = Head(writer[w].items), !.taken = TRUE,
                                       !.pc = "took", !.items = Tail(@)]
      OBVIOUS
    <3>1. Moves(w, r)
      BY <1>5, <2>2 DEF Pops
    <3>2. DOMAIN r = DOMAIN writer[w] /\ r.pc = "took"
      BY <1>0 DEF Outs
    <3> QED BY <1>2, <3>1, <3>2
  <2> QED BY <2>1, <2>2
<1>6. CASE Writes(w)
  <2>1. ASSUME NEW r, Moves(w, r),
               \/ \E pc, wrote : r = [writer[w] EXCEPT !.pc = pc, !.wrote = wrote]
               \/ \E pc, ends : r = [writer[w] EXCEPT !.ends = ends, !.pc = pc]
               \/ \E pc, result : r = [writer[w] EXCEPT !.pc = pc, !.result = result]
        PROVE  SeenInvariant'
    <3>1. /\ DOMAIN r = DOMAIN writer[w]
          /\ r.items = writer[w].items /\ r.taken = writer[w].taken /\ r.fate = writer[w].fate
      BY <1>0, <2>1 DEF Outs
    <3>2. writer[w].pc \notin {"idle", "took", "closed"}
      BY <1>6 DEF Writes, Unopened
    <3> QED BY <1>3, <2>1, <3>1, <3>2 DEF Moves, sched
  <2> QED BY <1>6, <2>1, Zenon DEF Writes
<1>7. CASE Counts(w) \/ Asks(w)
  <2>0. \E pc : writer' = [writer EXCEPT ![w].pc = pc]
    <3>1. CASE Counts(w)
      BY <3>1, Zenon DEF Counts
    <3>2. CASE Asks(w)
      BY <3>2, Zenon DEF Asks
    <3> QED BY <1>7, <3>1, <3>2
  <2> PICK pc : writer' = [writer EXCEPT ![w].pc = pc]
    BY <2>0
  <2> PICK r : r = [writer[w] EXCEPT !.pc = pc]
    OBVIOUS
  <2>3. writer' = [writer EXCEPT ![w] = r]
    BY Zenon
  <2>1. /\ DOMAIN r = DOMAIN writer[w]
        /\ r.items = writer[w].items /\ r.taken = writer[w].taken /\ r.fate = writer[w].fate
    BY <1>0 DEF Outs
  <2>2. writer[w].pc \notin {"idle", "took", "closed"}
        /\ UNCHANGED <<turn, lane, worker, error, finished>>
    BY <1>7 DEF Counts, Asks, sched
  <2> QED BY <1>3, <2>1, <2>2, <2>3
<1>8. CASE Settles(w)
  <2> PICK r : r = [writer[w] EXCEPT !.pc = "closed", !.fate = writer[w].result, !.items = <<>>]
    OBVIOUS
  <2>1. Moves(w, r)
    BY <1>8 DEF Settles
  <2>2. DOMAIN r = DOMAIN writer[w] /\ r.pc = "closed"
    BY <1>0 DEF Outs
  <2> QED BY <1>2, <2>1, <2>2
<1> QED BY <1>1, <1>4, <1>5, <1>6, <1>7, <1>8 DEF Write

LEMMA MainSeen ==
  ASSUME SeenInvariant, UNCHANGED net, Main
  PROVE  SeenInvariant'
<1>0. UNCHANGED <<turn, lane, writer>>
  BY DEF Main, SetsOver, WaitsFinished, JoinsWorkers, JoinsWriters, sched
<1>1. Outs' /\ Lanes' /\ (\A w \in Writer : UNCHANGED Outputs(w)) /\ (Calling => Calling')
  BY <1>0, LanesStay DEF SeenInvariant, Places, Outs, Outputs, Calling
<1>2. CASE UNCHANGED worker /\ (Running' => Running)
  BY <1>0, <1>1, <1>2, QuietSeen
<1>3. CASE worker' = Roused(worker) /\ (Running' => Running)
  BY <1>0, <1>1, <1>3, NotifiesSeen
<1>4. CASE SetsOver \/ JoinsWorkers \/ JoinsWriters
  BY <1>2, <1>4 DEF SetsOver, JoinsWorkers, JoinsWriters, sched, Running
<1>5. CASE WaitsFinished
  <2>1. Running' => Running
    BY <1>5 DEF WaitsFinished, Running
  <2>2. worker' = worker \/ worker' = Roused(worker)
    BY <1>5 DEF WaitsFinished, Notify
  <2> QED BY <1>2, <1>3, <2>1, <2>2
<1> QED BY <1>4, <1>5 DEF Main

LEMMA InitPlaces ==
  ASSUME Init
  PROVE  Places
<1>1. ASSUME NEW l \in Lane PROVE LaneKept(l, lane[l])
  <2> PICK r : r = [got       |-> [s \in Reads[l] |-> 0],
                    closed    |-> {},
                    queue     |-> [head |-> 0, next |-> 0, withheld |-> FALSE, last |-> None],
                    done      |-> {},
                    nextFlush |-> 0,
                    stopped   |-> FALSE,
                    claimed   |-> FALSE,
                    ended     |-> FALSE]
    OBVIOUS
  <2>1. LaneKept(l, r)
    BY DEF LaneKept, Record, SelfQueue
  <2>2. lane[l] \in {r, Cut(l, r)} /\ net \in Nets
    BY DEF Init
  <2> QED BY <2>1, <2>2, CutTwice
<1>2. Lanes
  <2>1. lane = [l \in Lane |-> lane[l]]
    BY DEF Init
  <2> QED BY <1>1, <2>1 DEF Lanes
<1> QED BY <1>2 DEF Init, Places, Turns, Outs

LEMMA InitSeen ==
  ASSUME Init
  PROVE  SeenInvariant
<1>1. \A w \in Worker : worker[w] = "awake"
  BY DEF Init
<1>2. \E w \in Worker : TRUE
  BY NetworkAssumption
<1> QED BY <1>1, <1>2, InitPlaces DEF SeenInvariant, StaysForWork, WorkIsSeen

LEMMA NextSeen ==
  ASSUME SeenInvariant, [Next]_vars
  PROVE  SeenInvariant'
<1>1. CASE UNCHANGED vars
  <2>1. UNCHANGED <<net, turn, lane, worker, writer, error, finished>>
    BY <1>1 DEF vars, sched
  <2>2. Outs' /\ (\A w \in Writer : UNCHANGED Outputs(w)) /\ (Calling => Calling')
    BY <2>1 DEF SeenInvariant, Places, Outs, Outputs, Calling
  <2> QED BY <2>1, <2>2, QuietSeen DEF Running
<1>2. ASSUME NEW w \in Worker, Work(w), UNCHANGED net PROVE SeenInvariant'
  BY <1>2, WorkerStopsSeen, WorkerSleepsSeen, DispatchSeen, CompleteSeen DEF Work
<1> QED BY <1>1, <1>2, FeedSeen, WriteSeen, MainSeen DEF Next, Rest

\* In every reachable state of every network the threads have their places, the
\* workers stay while there may be work, and work is seen.
THEOREM NetworkSafe == Spec => []SeenInvariant
<1>1. Init => SeenInvariant
  BY InitSeen
<1>2. SeenInvariant /\ [Next]_vars => SeenInvariant'
  BY NextSeen
<1> QED BY <1>1, <1>2, PTL DEF Spec

\* While a lane could start a turn some worker is looking or running, or a
\* writer is on its way to wake one: neither what pick cuts behind a worker
\* that goes to sleep nor an output's wake, sent without the scheduler's lock,
\* leaves work that nobody will look at (State::pick, Shared::notify,
\* waker_of).
THEOREM NoWakeUpIsLost == Spec => []WorkIsSeen
<1>1. SeenInvariant => WorkIsSeen
  BY DEF SeenInvariant
<1> QED BY <1>1, NetworkSafe, PTL

-----------------------------------------------------------------------------
(* A clean return hides no failure.                                        *)

LEMMA RousedGone ==
  ASSUME NEW who \in [Worker -> {"awake", "asleep", "run", "gone"}], worker' = Roused(who),
         \A w \in Worker : who[w] = "gone"
  PROVE  \A w \in Worker : worker'[w] = "gone"
  BY DEF Roused

\* While workers are left the main thread is not past their join.
LEMMA WorkClean ==
  ASSUME SeenInvariant, FailureInvariant, NEW w \in Worker, Work(w), ~Returned
  PROVE  FailureInvariant'
<1>1. worker[w] # "gone"
  BY DEF Work, WorkerStops, WorkerSleeps, Dispatch, Complete
<1>2. main \notin {"drain", "ok"}
  BY <1>1 DEF FailureInvariant, JoinedClean
<1>3. main' \in {main, "awake"}
  BY Zenon DEF Work, WorkerStops, WorkerSleeps, Dispatch, Complete, Notify
<1> QED BY <1>2, <1>3 DEF FailureInvariant, JoinedClean, FailureSurfaces

\* A torn input stops a run that is not joined yet, and nobody looks later.
LEMMA FeedClean ==
  ASSUME SeenInvariant, FailureInvariant, NEW i \in Input, Feed(i), ~Returned
  PROVE  FailureInvariant'
<1>0. worker \in [Worker -> {"awake", "asleep", "run", "gone"}]
  BY DEF SeenInvariant, Places, Turns
<1>1. main' \in {main, "awake"} /\ main # "ok" /\ (main' = "drain" => main = "drain")
  <2>1. main' \in {main, "awake"}
    BY Zenon DEF Feed, FeedStops, FeedSleeps, Feeds, Tears, Notify
  <2> QED BY <2>1 DEF Returned
<1>2. main = "drain" /\ error' => error
  BY DEF Feed, FeedStops, FeedSleeps, Feeds, Tears
<1>3. worker' = worker \/ worker' = Roused(worker)
  BY Zenon DEF Feed, FeedStops, FeedSleeps, Feeds, Tears, Notify
<1>4. (\A w \in Worker : worker[w] = "gone") => \A w \in Worker : worker'[w] = "gone"
  BY <1>0, <1>3, RousedGone
<1> QED BY <1>1, <1>2, <1>4 DEF FailureInvariant, JoinedClean, FailureSurfaces

LEMMA WriteClean ==
  ASSUME SeenInvariant, FailureInvariant, NEW v \in Writer, Write(v), ~Returned
  PROVE  FailureInvariant'
<1>0. worker \in [Worker -> {"awake", "asleep", "run", "gone"}]
  BY DEF SeenInvariant, Places, Turns
<1>1. main' \in {main, "awake"} /\ error' = error
      /\ (worker' = worker \/ worker' = Roused(worker))
  BY Zenon DEF Write, Idles, Pops, Wakes, Writes, Counts, Asks, Settles, Moves, Notify, sched
<1>2. main # "ok"
  BY DEF Returned
<1>3. (\A w \in Worker : worker[w] = "gone") => \A w \in Worker : worker'[w] = "gone"
  BY <1>0, <1>1, RousedGone
<1> QED BY <1>1, <1>2, <1>3 DEF FailureInvariant, JoinedClean, FailureSurfaces

LEMMA MainClean ==
  ASSUME SeenInvariant, FailureInvariant, Main, ~Returned
  PROVE  FailureInvariant'
<1>1. CASE SetsOver
  BY <1>1 DEF SetsOver, FailureInvariant, JoinedClean, FailureSurfaces
<1>2. CASE WaitsFinished
  <2>1. main' \in {"asleep", "join"}
    BY <1>2 DEF WaitsFinished, Notify
  <2> QED BY <2>1 DEF FailureInvariant, JoinedClean, FailureSurfaces
<1>3. CASE JoinsWorkers
  BY <1>3 DEF JoinsWorkers, Failed, FailureInvariant, JoinedClean, FailureSurfaces
<1>4. CASE JoinsWriters
  BY <1>4 DEF JoinsWriters, Failed, sched, FailureInvariant, JoinedClean, FailureSurfaces
<1> QED BY <1>1, <1>2, <1>3, <1>4 DEF Main

\* Whichever thread met it, a reader, a worker or a writer, and however late, a
\* failure is the run's result: the workers are joined before the first look at
\* them, the writers before the last (node_graph.rs run, Scheduler::finish).
THEOREM CleanReturnsHideNothing == Spec => []FailureSurfaces
<1>1. Init => FailureInvariant
  BY DEF Init, FailureInvariant, JoinedClean, FailureSurfaces
<1>2. SeenInvariant /\ FailureInvariant /\ [Next]_vars => FailureInvariant'
  <2> SUFFICES ASSUME SeenInvariant, FailureInvariant, [Next]_vars
               PROVE  FailureInvariant'
    OBVIOUS
  <2>1. CASE UNCHANGED vars
    BY <2>1 DEF vars, sched, FailureInvariant, JoinedClean, FailureSurfaces, Failed
  <2> QED BY <2>1, WorkClean, FeedClean, WriteClean, MainClean DEF Next, Rest
<1>3. FailureInvariant => FailureSurfaces
  BY DEF FailureInvariant
<1> QED BY <1>1, <1>2, <1>3, NetworkSafe, PTL DEF Spec

-----------------------------------------------------------------------------
(* The least and the greatest of some numbers.                             *)

LEMMA Least ==
  ASSUME NEW S \in SUBSET Nat, S # {}
  PROVE  Min(S) \in S /\ \A y \in S : Min(S) <= y
<1>1. PICK x \in S : \A y \in S : ~ (<<y, x>> \in OpToRel(<, Nat))
  BY NatLessThanWellFounded, WFMin
<1>2. \A y \in S : ~(y < x)
  BY <1>1 DEF OpToRel
<1>3. x \in Nat /\ \A y \in S : y \in Nat
  OBVIOUS
<1>4. x \in S /\ \A y \in S : x =< y
  BY <1>2, <1>3
<1>5. Min(S) = CHOOSE z \in S : \A y \in S : z =< y
  BY DEF Min
<1> QED BY <1>4, <1>5

LEMMA Greater ==
  ASSUME NEW a \in Nat, NEW b \in Nat
  PROVE  Max({a, b}) = IF a >= b THEN a ELSE b
<1> DEFINE S == {a, b}
           m == IF a >= b THEN a ELSE b
<1>1. m \in S /\ \A y \in S : m >= y
  OBVIOUS
<1>2. \A z \in S : (\A y \in S : z >= y) => z = m
  OBVIOUS
<1>3. Max(S) = CHOOSE z \in S : \A y \in S : z >= y
  BY DEF Max
<1> HIDE DEF S, m
<1>4. Max(S) = m
  BY <1>1, <1>2, <1>3
<1> QED BY <1>4 DEF S, m

-----------------------------------------------------------------------------
(* What a lane's intake settles, and what its queue's operators return.    *)

\* The streams whose items settle a lane's ticks.
Counted(l, r) == {net.stream[l]} \cup (Reads[l] \ r.closed)

LEMMA SettledLeast ==
  ASSUME net \in Nets, NEW l \in Lane, LaneClock[l] \in {"input", "rate"}, NEW r \in LaneRecord(l)
  PROVE  /\ Settled(l, r) \in Nat
         /\ \A s \in Counted(l, r) : s \in Reads[l] /\ Settled(l, r) <= r.got[s]
         /\ \E s \in Counted(l, r) : Settled(l, r) = r.got[s]
<1> DEFINE S == {r.got[s] : s \in Counted(l, r)}
<1>1. Settled(l, r) = Min(S)
  BY DEF Settled, Counted
<1>2. \A s \in Counted(l, r) : s \in Reads[l] /\ r.got[s] \in Nat
  BY NetKinds DEF Counted, LaneRecord
<1>3. S \subseteq Nat /\ S # {}
  BY <1>2 DEF Counted
<1>4. Min(S) \in S /\ \A y \in S : Min(S) <= y
  BY <1>3, Least
<1> QED BY <1>1, <1>2, <1>3, <1>4

LEMMA SettledNat ==
  ASSUME net \in Nets, NEW l \in Lane, LaneClock[l] # "self", NEW r \in LaneRecord(l)
  PROVE  Settled(l, r) \in Nat
<1>1. CASE LaneClock[l] = "source"
  BY <1>1, NetKinds DEF Settled
<1>2. CASE LaneClock[l] \in {"input", "rate"}
  BY <1>2, SettledLeast
<1> QED BY <1>1, <1>2, NetKinds

\* What arrives, or a stream's end, settles no tick less.
LEMMA SettledGrows ==
  ASSUME net \in Nets, NEW l \in Lane, LaneClock[l] # "self",
         NEW r \in LaneRecord(l), NEW c \in LaneRecord(l),
         r.closed \subseteq c.closed, \A s \in Reads[l] : r.got[s] <= c.got[s]
  PROVE  Settled(l, r) <= Settled(l, c)
<1>1. CASE LaneClock[l] = "source"
  BY <1>1, NetKinds DEF Settled
<1>2. CASE LaneClock[l] \in {"input", "rate"}
  <2>1. PICK s \in Counted(l, c) : Settled(l, c) = c.got[s]
    BY <1>2, SettledLeast
  <2>2. s \in Counted(l, r)
    BY <2>1 DEF Counted
  <2>3. s \in Reads[l] /\ Settled(l, r) <= r.got[s] /\ Settled(l, r) \in Nat
    BY <1>2, <2>2, SettledLeast
  <2>4. r.got[s] \in Nat /\ c.got[s] \in Nat /\ r.got[s] <= c.got[s]
    BY <2>3 DEF LaneRecord
  <2> QED BY <2>1, <2>3, <2>4
<1> QED BY <1>1, <1>2, NetKinds

\* How a queue may grow at its end: what the front of the lane knows of it
\* stays.
QueueMore(q, c) ==
  /\ c.head = q.head /\ q.next <= c.next
  /\ q.last # None => c = q
  /\ c.last # None => c.last = q.last \/ q.next <= c.last

\* A queue from h up to n whose last tick was not cut before.
QueueAt(l, h, n, t, v) ==
  [head     |-> h, next |-> n,
   withheld |-> (LaneClock[l] = "input" /\ Q(l)!Total(t, v) > n),
   last     |-> IF v /\ n = t + 1 THEN t ELSE None]

LEMMA Totals ==
  ASSUME NEW l, NEW t \in Nat, NEW v \in BOOLEAN
  PROVE  /\ Q(l)!Total(t, v) \in Nat
         /\ v => Q(l)!Total(t, v) = t + 1
         /\ ~v => Q(l)!Total(t, v) = t
  BY DEF Q!Total

LEMMA QueueAtFits ==
  ASSUME NEW l, LaneClock[l] # "self", NEW h \in Nat, NEW n \in Nat, NEW t \in Nat, NEW v \in BOOLEAN,
         NEW stopped, ~stopped, h <= n, n <= Q(l)!Total(t, v),
         NEW c, c = QueueAt(l, h, n, t, v)
  PROVE  c \in Queues /\ QueueFits(l, c, t, v, stopped)
<1>1. c.head = h /\ c.next = n /\ c.last = (IF v /\ n = t + 1 THEN t ELSE None)
  BY DEF QueueAt
<1>2. c.withheld = (LaneClock[l] = "input" /\ Q(l)!Total(t, v) > n)
  BY DEF QueueAt
<1>3. c \in Queues
  <2>1. (IF v /\ n = t + 1 THEN t ELSE None) \in Nat \cup {None}
    OBVIOUS
  <2>2. (LaneClock[l] = "input" /\ Q(l)!Total(t, v) > n) \in BOOLEAN
    OBVIOUS
  <2> QED BY <2>1, <2>2 DEF Queues, QueueAt
<1>4. /\ c.next <= IF c.last = None THEN t ELSE t + 1
      /\ c.last # None => v /\ c.last = t /\ c.next = c.last + 1
  BY <1>1, Totals, TurnMaxNat
<1>5. c.withheld => LaneClock[l] = "input" /\ c.next < Q(l)!Total(t, v)
  BY <1>1, <1>2, Totals
<1> QED BY <1>1, <1>3, <1>4, <1>5 DEF QueueFits

LEMMA SameFits ==
  ASSUME NEW l, NEW q \in Queues, NEW t, NEW v, NEW stopped, QueueFits(l, q, t, v, stopped),
         NEW c, c = q
  PROVE  c \in Queues /\ QueueFits(l, c, t, v, stopped) /\ QueueMore(q, c)
<1>1. QueueMore(q, c)
  BY DEF QueueMore, Queues
<1> QED BY <1>1, Zenon

\* Cutting what is settled keeps the queue in order and grows it at its end.
LEMMA QueueCuts ==
  ASSUME net \in Nets, NEW l \in Lane, NEW q \in Queues, NEW t, NEW v \in BOOLEAN,
         NEW quiet \in BOOLEAN, LaneClock[l] # "self" => t \in Nat,
         NEW stopped, ~stopped, QueueFits(l, q, t, v, stopped),
         NEW c, c = Q(l)!Cut(q, t, v, quiet)
  PROVE  c \in Queues /\ QueueFits(l, c, t, v, stopped) /\ QueueMore(q, c)
<1>0. q.head \in Nat /\ q.next \in Nat /\ q.last \in Nat \cup {None} /\ q.head <= q.next
      /\ q.withheld \in BOOLEAN
  BY DEF Queues, QueueFits
<1>1. CASE q.last # None
  <2>1. c = q
    BY <1>1 DEF Q!Cut
  <2> QED BY <1>0, <2>1, SameFits
<1>2. CASE q.last = None /\ LaneClock[l] \in {"input", "rate", "source"}
  <2> DEFINE n == Q(l)!Larger(q.next, Q(l)!Smaller(Q(l)!Total(t, v), q.head + Cap))
  <2>0. t \in Nat /\ Cap \in Nat /\ q.next <= t /\ Q(l)!Total(t, v) \in Nat /\ t <= Q(l)!Total(t, v)
    BY <1>2, NetKinds, Totals DEF QueueFits
  <2>1. c = Q(l)!CutUpTo(q, n, t, v)
    BY <1>2 DEF Q!Cut
  <2>2. n \in Nat /\ q.next <= n /\ n <= Q(l)!Total(t, v)
    BY <1>0, <2>0 DEF Q!Larger, Q!Smaller
  <2> HIDE DEF n
  <2>3. c = QueueAt(l, q.head, n, t, v)
    BY <1>2, <2>1 DEF Q!CutUpTo, QueueAt
  <2>4. c \in Queues /\ QueueFits(l, c, t, v, stopped)
    <3>1. LaneClock[l] # "self" /\ q.head \in Nat /\ q.head <= n
      BY <1>0, <1>2, <2>0, <2>2
    <3> QED BY <2>0, <2>2, <2>3, <3>1, QueueAtFits, Zenon
  <2>5. c.head = q.head /\ c.next = n /\ (c.last # None => c.last = t)
    BY <2>3 DEF QueueAt
  <2> QED BY <1>2, <2>0, <2>2, <2>4, <2>5 DEF QueueMore
<1>3. CASE q.last = None /\ LaneClock[l] = "self"
  <2>1. CASE q.head < q.next \/ ~quiet \/ (~v /\ t <= q.next)
    <3>1. c = q
      BY <1>3, <2>1 DEF Q!Cut
    <3> QED BY <1>0, <3>1, SameFits
  <2>2. CASE ~(q.head < q.next \/ ~quiet \/ (~v /\ t <= q.next))
    <3>1. c = [head |-> q.head, next |-> q.next + 1, withheld |-> q.withheld,
               last |-> IF v /\ t <= q.next + 1 THEN q.next ELSE None]
      BY <1>3, <2>2 DEF Q!Cut
    <3>2. c.head = q.head /\ c.next = q.next + 1 /\ c.withheld = q.withheld
            /\ (c.last # None => c.last = q.next)
      BY <3>1
    <3>3. c \in Queues
      BY <1>0, <3>1 DEF Queues
    <3>4. ~q.withheld
      BY <1>3 DEF QueueFits
    <3>5. QueueFits(l, c, t, v, stopped)
      BY <1>0, <1>3, <3>2, <3>4 DEF QueueFits
    <3>6. QueueMore(q, c)
      BY <1>0, <1>3, <3>2 DEF QueueMore
    <3> QED BY <3>3, <3>5, <3>6
  <2> QED BY <2>1, <2>2
<1> QED BY <1>1, <1>2, <1>3, NetKinds

\* Rounding d up to whole caps reaches d.
LEMMA Rounding ==
  ASSUME NEW d \in Nat, NEW k \in Nat \ {0}
  PROVE  ((d + k - 1) \div k) * k \in Nat /\ ((d + k - 1) \div k) * k >= d
<1> DEFINE m == (d + k - 1) \div k
<1>1. m \in Nat /\ d + k - 1 < (m + 1) * k
  BY SMTT(30)
<1>2. (m + 1) * k = m * k + k
  BY <1>1, SMTT(30)
<1>3. m * k \in Nat
  BY <1>1, SMTT(30)
<1> HIDE DEF m
<1> QED BY <1>1, <1>2, <1>3 DEF m

\* What a turn takes: at least the front tick, no more than is queued or held
\* back, and the last tick alone; what is cut for it is numbered behind it.
LEMMA QueueTaken ==
  ASSUME net \in Nets, NEW l \in Lane, NEW q \in Queues, NEW t, NEW v \in BOOLEAN,
         NEW stopped \in BOOLEAN, LaneClock[l] # "self" => t \in Nat,
         QueueFits(l, q, t, v, stopped), q.head < q.next,
         NEW n, n = Q(l)!Length(q, t, v), NEW c, c = Q(l)!Taken(q, n, t, v)
  PROVE  /\ n \in Nat /\ 1 <= n /\ n <= TurnMax
         /\ LaneWidth[l] > 1 \/ l \in Unbuffered => n = 1
         /\ c \in Queues /\ QueueFits(l, c, t, v, stopped)
         /\ c.head = q.head + n /\ q.next <= c.next
         /\ q.last # None => c.last = q.last
         /\ c.last # None => c.last = q.last \/ q.next <= c.last
         /\ c.last = q.head + n - 1 => n = 1
         /\ stopped => c.next = q.next
<1> DEFINE total == Q(l)!Total(t, v)
           most  == IF l \in Unbuffered THEN 1 ELSE TurnMax
           settled == IF q.withheld THEN total ELSE q.next
           front == q.head + n
<1>0. /\ q.head \in Nat /\ q.next \in Nat /\ q.last \in Nat \cup {None} /\ q.withheld \in BOOLEAN
      /\ LaneWidth[l] \in Nat \ {0} /\ TurnMax \in Nat \ {0} /\ Cap \in Nat \ {0} /\ None \notin Int
      /\ most \in Nat \ {0} /\ most <= TurnMax /\ (l \in Unbuffered => most = 1 /\ LaneWidth[l] = 1)
  BY NetKinds, TurnMaxNat DEF Queues
<1>1. q.last # None => q.next = q.last + 1
  BY DEF QueueFits
<1>2. q.withheld => /\ LaneClock[l] = "input" /\ ~stopped /\ t \in Nat /\ total \in Nat
                    /\ q.next < total /\ total = (IF v THEN t + 1 ELSE t)
                    /\ q.last = None /\ q.next <= t
  <2> SUFFICES ASSUME q.withheld
               PROVE  /\ LaneClock[l] = "input" /\ ~stopped /\ t \in Nat /\ total \in Nat
                      /\ q.next < total /\ total = (IF v THEN t + 1 ELSE t)
                      /\ q.last = None /\ q.next <= t
    OBVIOUS
  <2>1. LaneClock[l] = "input" /\ ~stopped /\ q.next < total /\ t \in Nat
    BY DEF QueueFits
  <2>2. total \in Nat /\ total = (IF v THEN t + 1 ELSE t)
    BY <2>1, Totals
  <2>3. /\ q.next <= IF q.last = None THEN t ELSE t + 1
        /\ q.last # None => v /\ q.last = t
    BY <2>1 DEF QueueFits
  <2> QED BY <1>0, <1>1, <2>1, <2>2, <2>3
<1>3. n = (IF LaneWidth[l] > 1 \/ q.head = q.last THEN 1
           ELSE IF most <= settled - q.head - (IF (IF q.withheld THEN v ELSE q.last # None) THEN 1 ELSE 0)
                  THEN most
                  ELSE settled - q.head - (IF (IF q.withheld THEN v ELSE q.last # None) THEN 1 ELSE 0))
  BY DEF Q!Length, Q!Smaller
<1> HIDE DEF total, most
<1>4. /\ n \in Nat /\ 1 <= n /\ n <= most
      /\ LaneWidth[l] > 1 => n = 1
      /\ q.withheld => front <= t
      /\ ~q.withheld => front <= q.next
      /\ ~q.withheld /\ q.last # None /\ front = q.next => n = 1
  <2>1. CASE q.withheld
    BY <1>0, <1>2, <1>3, <2>1
  <2>2. CASE ~q.withheld
    BY <1>0, <1>1, <1>3, <2>2
  <2> QED BY <2>1, <2>2
<1>5. n <= TurnMax /\ (LaneWidth[l] > 1 \/ l \in Unbuffered => n = 1)
  BY <1>0, <1>4
<1>6. CASE LaneWidth[l] = 1 /\ q.withheld /\ (n < most \/ front > q.next)
  <2> DEFINE more == ((front - q.next + Cap - 1) \div Cap) * Cap
             next == IF n < most THEN total ELSE Q(l)!Smaller(total, q.next + more)
  <2>1. c = Q(l)!StartingAt(front, Q(l)!CutUpTo(q, next, t, v))
    BY <1>6 DEF Q!Taken, most, total
  <2>2. next \in Nat /\ front <= next /\ q.next <= next /\ next <= total
    <3>1. CASE n < most
      BY <1>0, <1>2, <1>4, <1>6, <3>1
    <3>2. CASE ~(n < most)
      <4>1. front - q.next \in Nat
        BY <1>0, <1>4, <1>6, <3>2
      <4>2. more \in Nat /\ more >= front - q.next
        BY <1>0, <4>1, Rounding
      <4>3. next = IF total <= q.next + more THEN total ELSE q.next + more
        BY <3>2 DEF Q!Smaller
      <4> HIDE DEF more, next
      <4> QED BY <1>0, <1>2, <1>4, <1>6, <4>1, <4>2, <4>3
    <3> QED BY <3>1, <3>2
  <2> HIDE DEF next
  <2>3. c = QueueAt(l, front, next, t, v)
    <3>1. q.last = None
      BY <1>2, <1>6
    <3> QED BY <2>1, <3>1 DEF Q!StartingAt, Q!CutUpTo, QueueAt, total
  <2>4. front \in Nat /\ LaneClock[l] # "self" /\ t \in Nat /\ ~stopped
    BY <1>0, <1>2, <1>4, <1>6
  <2>5. c \in Queues /\ QueueFits(l, c, t, v, stopped)
    BY <2>2, <2>3, <2>4, QueueAtFits, Zenon DEF total
  <2>6. c.head = front /\ c.next = next /\ (c.last # None => c.last = t)
    BY <2>3 DEF QueueAt
  <2>8. q.last = None /\ q.next <= t /\ front <= t
    BY <1>2, <1>4, <1>6
  <2>9. c.last # front - 1
    BY <1>0, <2>4, <2>6, <2>8
  <2> QED BY <1>0, <1>4, <1>5, <2>2, <2>4, <2>5, <2>6, <2>8, <2>9
<1>7. CASE ~(LaneWidth[l] = 1 /\ q.withheld /\ (n < most \/ front > q.next))
  <2>1. c = [head |-> front, next |-> q.next, withheld |-> q.withheld, last |-> q.last]
    BY <1>7 DEF Q!Taken, Q!StartingAt, most, total
  <2>2. c.head = front /\ c.next = q.next /\ c.withheld = q.withheld /\ c.last = q.last
    BY <2>1
  <2>3. front \in Nat /\ front <= q.next
    BY <1>0, <1>4, <1>7
  <2>4. c \in Queues
    BY <1>0, <2>1, <2>3 DEF Queues
  <2>5. QueueFits(l, c, t, v, stopped)
    BY <2>2, <2>3 DEF QueueFits
  <2>6. c.last = q.head + n - 1 => n = 1
    <3> SUFFICES ASSUME q.last = front - 1 PROVE n = 1
      BY <1>0, <1>4, <2>2
    <3>1. q.last # None /\ q.last \in Nat
      BY <1>0, <1>4
    <3>2. ~q.withheld /\ front = q.next
      <4>1. q.next = q.last + 1 /\ ~q.withheld
        BY <1>1, <1>2, <3>1
      <4> QED BY <1>0, <2>3, <3>1, <4>1
    <3> QED BY <1>4, <3>1, <3>2
  <2> QED BY <1>0, <1>4, <1>5, <2>2, <2>3, <2>4, <2>5, <2>6
<1> QED BY <1>6, <1>7

-----------------------------------------------------------------------------
(* A lane's record as more is cut or arrives.                              *)

LaneMore(r, c) ==
  /\ QueueMore(r.queue, c.queue)
  /\ r.stopped => c.queue = r.queue
  /\ c.done = r.done /\ c.nextFlush = r.nextFlush
  /\ c.stopped = r.stopped /\ c.claimed = r.claimed /\ c.ended = r.ended

LEMMA LaneSame ==
  ASSUME NEW l, NEW r \in LaneRecord(l)
  PROVE  LaneMore(r, r)
  BY DEF LaneMore, QueueMore, LaneRecord, Queues

LEMMA LaneMoreTwice ==
  ASSUME NEW l, NEW r \in LaneRecord(l), NEW c \in LaneRecord(l), NEW d \in LaneRecord(l),
         LaneMore(r, c), LaneMore(c, d)
  PROVE  LaneMore(r, d)
<1>1. /\ r.queue.next \in Nat /\ c.queue.next \in Nat /\ d.queue.next \in Nat
      /\ r.queue.last \in Nat \cup {None} /\ c.queue.last \in Nat \cup {None}
      /\ d.queue.last \in Nat \cup {None}
  BY DEF LaneRecord, Queues
<1>2. QueueMore(r.queue, d.queue)
  BY <1>1, TurnMaxNat DEF LaneMore, QueueMore
<1> QED BY <1>2 DEF LaneMore

LEMMA CutMore ==
  ASSUME net \in Nets, NEW l \in Lane, NEW r \in LaneRecord(l), QueueOK(l, r),
         NEW c, c = Cut(l, r)
  PROVE  /\ c \in LaneRecord(l) /\ QueueOK(l, c) /\ LaneMore(r, c)
         /\ c.got = r.got /\ c.closed = r.closed
<1>1. CASE r.stopped
  <2>1. c = r
    BY <1>1 DEF Cut
  <2> QED BY <2>1, LaneSame
<1>2. CASE ~r.stopped
  <2>11. PICK q : q = Q(l)!Cut(r.queue, Settled(l, r), Over(l, r), Busy(l) = {})
    OBVIOUS
  <2>1. c = [r EXCEPT !.queue = q]
    <3>1. c = [r EXCEPT !.queue = Q(l)!Cut(r.queue, Settled(l, r), Over(l, r), Busy(l) = {})]
      BY <1>2, Zenon DEF Cut
    <3> QED BY <2>11, <3>1, Zenon
  <2>2. r.queue \in Queues /\ Over(l, r) \in BOOLEAN /\ (Busy(l) = {}) \in BOOLEAN
    BY DEF LaneRecord, Over
  <2>3. LaneClock[l] # "self" => Settled(l, r) \in Nat
    BY SettledNat
  <2>4. QueueFits(l, r.queue, Settled(l, r), Over(l, r), r.stopped)
    BY DEF QueueOK
  <2>5. /\ q \in Queues /\ QueueMore(r.queue, q)
        /\ QueueFits(l, q, Settled(l, r), Over(l, r), r.stopped)
    <3>1. PICK o : o = r.queue
      OBVIOUS
    <3>2. PICK t : t = Settled(l, r)
      OBVIOUS
    <3>3. PICK v : v = Over(l, r)
      BY Zenon
    <3>4. PICK quiet : quiet = (Busy(l) = {})
      BY Zenon
    <3>5. PICK stopped : stopped = r.stopped
      OBVIOUS
    <3>6. /\ o \in Queues /\ v \in BOOLEAN /\ quiet \in BOOLEAN
          /\ (LaneClock[l] # "self" => t \in Nat)
      BY <2>2, <2>3, <3>1, <3>2, <3>3, <3>4, Zenon
    <3>7. ~stopped /\ QueueFits(l, o, t, v, stopped) /\ q = Q(l)!Cut(o, t, v, quiet)
      BY <1>2, <2>4, <2>11, <3>1, <3>2, <3>3, <3>4, <3>5, Zenon
    <3>8. q \in Queues /\ QueueMore(o, q) /\ QueueFits(l, q, t, v, stopped)
      BY <3>6, <3>7, QueueCuts
    <3> QED BY <3>1, <3>2, <3>3, <3>5, <3>8, Zenon
  <2>6. /\ c.got = r.got /\ c.closed = r.closed /\ c.queue = q /\ c.done = r.done
        /\ c.nextFlush = r.nextFlush /\ c.stopped = r.stopped /\ c.claimed = r.claimed
        /\ c.ended = r.ended
    BY <2>1 DEF LaneRecord
  <2>7. c \in LaneRecord(l)
    BY <2>1, <2>5 DEF LaneRecord
  <2>8. Settled(l, c) = Settled(l, r) /\ Over(l, c) = Over(l, r)
    BY <2>6 DEF Settled, Over
  <2>9. QueueOK(l, c)
    BY <2>5, <2>6, <2>8, Zenon DEF QueueOK
  <2>10. LaneMore(r, c)
    BY <1>2, <2>5, <2>6 DEF LaneMore
  <2> QED BY <2>6, <2>7, <2>9, <2>10
<1> QED BY <1>1, <1>2

\* What arrives, or the end of a stream that had not ended, leaves the queue in
\* order before it is cut.
LEMMA ArrivalOK ==
  ASSUME net \in Nets, NEW l \in Lane, NEW r \in LaneRecord(l), QueueOK(l, r), ~r.stopped,
         NEW c \in LaneRecord(l), r.closed \subseteq c.closed, ~Over(l, r),
         \A s \in Reads[l] : r.got[s] <= c.got[s],
         c.queue = r.queue, c.stopped = r.stopped
  PROVE  QueueOK(l, c) /\ (LaneClock[l] # "self" => Settled(l, r) <= Settled(l, c))
<1> DEFINE q == r.queue
           t == Settled(l, r)
           u == Settled(l, c)
<1>1. LaneClock[l] # "self" => t \in Nat /\ u \in Nat /\ t <= u
  BY SettledNat, SettledGrows
<1>2. q.next \in Nat
  BY DEF LaneRecord, Queues
<1>3. QueueFits(l, q, t, Over(l, r), r.stopped)
  BY DEF QueueOK
<1>4. (LaneClock[l] # "self") => q.last = None /\ q.next <= t
  BY <1>3 DEF QueueFits
<1>5. q.withheld => LaneClock[l] = "input" /\ q.next < t
  <2>1. LaneClock[l] = "input" => Q(l)!Total(t, Over(l, r)) = t
    BY <1>1 DEF Q!Total
  <2> QED BY <1>3, <2>1 DEF QueueFits
<1>6. LaneClock[l] = "input" => Q(l)!Total(u, Over(l, c)) \in Nat /\ u <= Q(l)!Total(u, Over(l, c))
  <2>1. Over(l, c) \in BOOLEAN
    BY DEF Over
  <2> QED BY <1>1, <2>1, Totals
<1> HIDE DEF t, u
<1>7. QueueFits(l, q, u, Over(l, c), r.stopped)
  BY <1>1, <1>2, <1>3, <1>4, <1>5, <1>6 DEF QueueFits
<1> QED BY <1>1, <1>7 DEF QueueOK, t, u

\* What a lane is handed, cut as it comes.
LEMMA ReceiveMore ==
  ASSUME net \in Nets, NEW l \in Lane, NEW r \in LaneRecord(l), QueueOK(l, r),
         NEW s, NEW n \in Nat, NEW end \in BOOLEAN, n # 0 \/ end => s \notin r.closed,
         NEW c, c = Receive(l, r, s, n, end)
  PROVE  /\ c \in LaneRecord(l) /\ QueueOK(l, c) /\ LaneMore(r, c)
         /\ c.closed \subseteq r.closed \cup (IF end THEN {s} ELSE {})
         /\ Over(l, r) => c = r
         /\ LaneClock[l] # "self" => Settled(l, r) <= Settled(l, c)
<1>1. CASE c = r
  <2>1. LaneClock[l] # "self" => Settled(l, r) <= Settled(l, c)
    BY <1>1, SettledNat
  <2>2. c \in LaneRecord(l) /\ QueueOK(l, c) /\ LaneMore(r, c) /\ c.closed = r.closed
    BY <1>1, LaneSame
  <2> QED BY <1>1, <2>1, <2>2
<1>2. CASE c # r
  <2>1. ~r.stopped /\ s \in Reads[l]
    BY <1>2, Zenon DEF Receive
  <2>2. PICK a : a = [r EXCEPT !.got[s] = @ + n]
    OBVIOUS
  <2>3. PICK m : m = IF n = 0 THEN r ELSE Cut(l, a)
    OBVIOUS
  <2>4. PICK d : d = [m EXCEPT !.closed = @ \cup {s}]
    OBVIOUS
  <2>5. c = IF end THEN Cut(l, d) ELSE m
    BY <2>1, <2>2, <2>3, <2>4, Zenon DEF Receive
  <2>6. s \notin r.closed /\ ~Over(l, r)
    <3>1. n # 0 \/ end
      BY <1>2, <2>3, <2>5
    <3> QED BY <2>1, <3>1 DEF Over
  <2>7. /\ a \in LaneRecord(l) /\ a.queue = r.queue /\ a.stopped = r.stopped
        /\ a.closed = r.closed /\ \A x \in Reads[l] : r.got[x] <= a.got[x]
        /\ a.done = r.done /\ a.nextFlush = r.nextFlush /\ a.claimed = r.claimed
        /\ a.ended = r.ended
    <3>1. PICK g : g = [r.got EXCEPT ![s] = @ + n]
      OBVIOUS
    <3>2. a = [r EXCEPT !.got = g]
      BY <2>2, <3>1
    <3>3. g \in [Reads[l] -> Nat] /\ \A x \in Reads[l] : r.got[x] <= g[x]
      BY <2>1, <3>1 DEF LaneRecord
    <3> QED BY <3>2, <3>3 DEF LaneRecord
  <2>8. QueueOK(l, a)
    BY <2>1, <2>6, <2>7, ArrivalOK
  <2>9. /\ m \in LaneRecord(l) /\ QueueOK(l, m) /\ LaneMore(r, m) /\ m.closed = r.closed
        /\ \A x \in Reads[l] : r.got[x] <= m.got[x]
    <3>1. CASE n = 0
      <4>1. m = r
        BY <2>3, <3>1
      <4>2. \A x \in Reads[l] : r.got[x] <= r.got[x]
        BY DEF LaneRecord
      <4> QED BY <4>1, <4>2, LaneSame
    <3>2. CASE n # 0
      <4>1. m = Cut(l, a)
        BY <2>3, <3>2
      <4>2. /\ m \in LaneRecord(l) /\ QueueOK(l, m) /\ LaneMore(a, m)
            /\ m.got = a.got /\ m.closed = a.closed
        BY <2>7, <2>8, <4>1, CutMore
      <4>3. LaneMore(r, m)
        BY <2>7, <4>2 DEF LaneMore
      <4> QED BY <2>7, <4>2, <4>3
    <3> QED BY <3>1, <3>2
  <2>10. m.stopped = r.stopped
    BY <2>9 DEF LaneMore
  <2>11. CASE ~end
    <3>1. c = m
      BY <2>5, <2>11
    <3>2. LaneClock[l] # "self" => Settled(l, r) <= Settled(l, m)
      BY <2>9, SettledGrows
    <3> QED BY <2>6, <2>9, <3>1, <3>2
  <2>12. CASE end
    <3>1. /\ d \in LaneRecord(l) /\ d.queue = m.queue /\ d.stopped = m.stopped
          /\ d.closed = r.closed \cup {s} /\ d.got = m.got
          /\ d.done = m.done /\ d.nextFlush = m.nextFlush /\ d.claimed = m.claimed
          /\ d.ended = m.ended
      BY <2>1, <2>4, <2>9 DEF LaneRecord
    <3>2. ~Over(l, m) /\ m.closed \subseteq d.closed
      BY <2>6, <2>9, <3>1 DEF Over
    <3>3. \A x \in Reads[l] : m.got[x] <= d.got[x]
      BY <2>9, <3>1 DEF LaneRecord
    <3>4. QueueOK(l, d)
      BY <2>1, <2>9, <2>10, <3>1, <3>2, <3>3, ArrivalOK
    <3>5. /\ c \in LaneRecord(l) /\ QueueOK(l, c) /\ LaneMore(d, c)
          /\ c.got = d.got /\ c.closed = d.closed
      BY <2>5, <2>12, <3>1, <3>4, CutMore
    <3>6. LaneMore(m, c)
      BY <3>1, <3>5 DEF LaneMore
    <3>7. LaneMore(r, c)
      BY <2>9, <3>5, <3>6, LaneMoreTwice
    <3>8. LaneClock[l] # "self" => Settled(l, r) <= Settled(l, c)
      BY <2>9, <3>1, <3>5, SettledGrows
    <3> QED BY <2>6, <2>12, <3>1, <3>5, <3>7, <3>8
  <2> QED BY <2>11, <2>12
<1> QED BY <1>1, <1>2

-----------------------------------------------------------------------------
(* A lane's turns and results, through the steps of its workers.           *)

Tours == [Worker -> [lane : Lane, lo : Nat, hi : Nat] \cup {None}]

LEMMA OutTypes ==
  ASSUME NEW l \in Lane, NEW tu \in Tours
  PROVE  \A w \in Out(l, tu) : /\ w \in Worker /\ tu[w] # None /\ tu[w].lane = l
                               /\ tu[w].lo \in Nat /\ tu[w].hi \in Nat
  BY DEF Out, Tours

LEMMA RecordTypes ==
  ASSUME NEW l \in Lane, NEW r \in LaneRecord(l)
  PROVE  /\ r.queue.head \in Nat /\ r.queue.next \in Nat /\ r.queue.last \in Nat \cup {None}
         /\ r.queue.withheld \in BOOLEAN /\ r.nextFlush \in Nat
         /\ r.stopped \in BOOLEAN /\ r.claimed \in BOOLEAN /\ r.ended \in BOOLEAN
         /\ r.queue \in Queues
         /\ r.done \in SUBSET Results
         /\ \A d \in r.done : d.tick \in Nat
  BY DEF LaneRecord, Queues, Results

\* What a queue's end is, in a lane as it should be.
LEMMA QueueEnd ==
  ASSUME NEW l \in Lane, NEW r \in LaneRecord(l), QueueOK(l, r)
  PROVE  /\ r.queue.head <= r.queue.next
         /\ r.queue.last # None => r.queue.next = r.queue.last + 1
         /\ r.stopped => r.queue.last # None
  BY DEF QueueOK, QueueFits

\* What is cut or arrives leaves a lane's turns and results as they should be.
LEMMA MoreFits ==
  ASSUME NEW l \in Lane, NEW r \in LaneRecord(l), NEW c \in LaneRecord(l),
         NEW tu \in Tours, NEW e \in BOOLEAN, NEW sent,
         LaneFits(l, r, tu, e, sent), QueueOK(l, c), LaneMore(r, c)
  PROVE  LaneFits(l, c, tu, e, sent)
<1>0. QueueOK(l, r) /\ TurnsOK(l, r, tu) /\ DoneOK(l, r, tu, e) /\ OutOK(l, r, tu, sent)
  BY DEF LaneFits
<1>1. /\ c.queue.head = r.queue.head /\ r.queue.next <= c.queue.next
      /\ r.queue.last # None => c.queue = r.queue
      /\ c.queue.last # None => c.queue.last = r.queue.last \/ r.queue.next <= c.queue.last
      /\ r.stopped => c.queue = r.queue
      /\ c.done = r.done /\ c.nextFlush = r.nextFlush
      /\ c.stopped = r.stopped /\ c.claimed = r.claimed /\ c.ended = r.ended
  BY <1>0 DEF LaneMore, QueueMore
<1>2. /\ r.queue.head \in Nat /\ r.queue.next \in Nat /\ r.queue.last \in Nat \cup {None}
      /\ c.queue.last \in Nat \cup {None} /\ r.queue.head <= r.queue.next
      /\ \A d \in r.done : d.tick \in Nat
  BY <1>0, RecordTypes, QueueEnd
\* Below the front of the queue no tick has become the last.
<1>3. \A n \in Nat : n < r.queue.head => (n = c.queue.last <=> n = r.queue.last)
  BY <1>1, <1>2, TurnMaxNat
<1>4. \A w \in Out(l, tu) : tu[w].lo \in Nat /\ tu[w].hi \in Nat
  BY OutTypes
<1>5. \A w \in Out(l, tu) : tu[w].hi < r.queue.head /\ tu[w].lo <= tu[w].hi
  BY <1>0 DEF TurnsOK
<1>6. \A w \in Out(l, tu) : /\ tu[w].lo = c.queue.last <=> tu[w].lo = r.queue.last
                            /\ tu[w].hi = c.queue.last <=> tu[w].hi = r.queue.last
  BY <1>2, <1>3, <1>4, <1>5
<1>7. TurnsOK(l, c, tu)
  BY <1>0, <1>1, <1>6 DEF TurnsOK
<1>8. DoneOK(l, c, tu, e)
  <2>1. \A d \in r.done : d.tick < r.queue.head /\ d.tick # r.queue.last
    BY <1>0 DEF DoneOK
  <2>2. \A d \in r.done : d.tick # c.queue.last
    BY <1>2, <1>3, <2>1
  <2> QED BY <1>0, <1>1, <2>2 DEF DoneOK
<1>9. OutOK(l, c, tu, sent)
  <2>1. r.ended => c.queue.head = c.queue.next
    BY <1>0, <1>1 DEF OutOK
  <2>2. (r.stopped /\ ~r.ended) => c.nextFlush = c.queue.last /\ c.claimed
    BY <1>0, <1>1 DEF OutOK
  <2>3. \A w \in Out(l, tu) : tu[w].lo = c.queue.last =>
          Out(l, tu) = {w} /\ c.done = {} /\ c.nextFlush = c.queue.last
    BY <1>0, <1>1, <1>6 DEF OutOK
  <2> QED BY <1>0, <1>1, <2>1, <2>2, <2>3 DEF OutOK
<1> QED BY <1>7, <1>8, <1>9 DEF LaneFits

\* With nothing out and no failure, all that was queued before the front has
\* left.
LEMMA AllLeft ==
  ASSUME NEW l \in Lane, NEW r \in LaneRecord(l), NEW tu \in Tours,
         DoneOK(l, r, tu, FALSE), Out(l, tu) = {}
  PROVE  r.done = {} /\ r.nextFlush = r.queue.head
<1>1. /\ r.nextFlush \in Nat /\ r.queue.head \in Nat /\ r.nextFlush <= r.queue.head
      /\ \A d \in r.done : d.tick \in Nat /\ r.nextFlush <= d.tick /\ d.tick < r.queue.head
                           /\ d.tick # r.nextFlush
      /\ \A n \in r.nextFlush .. r.queue.head - 1 : \E d \in r.done : d.tick = n
  BY RecordTypes DEF DoneOK
<1>2. r.nextFlush = r.queue.head
  BY <1>1
<1> QED BY <1>1, <1>2

LEMMA DoneUnfailed ==
  ASSUME NEW l, NEW r, NEW tu, NEW e, ~e, DoneOK(l, r, tu, e)
  PROVE  DoneOK(l, r, tu, FALSE)
  BY DEF DoneOK

TurnLength(l, r) == Q(l)!Length(r.queue, Settled(l, r), Over(l, r))

TakenOff(l, r, n) == [r EXCEPT !.queue = Q(l)!Taken(@, n, Settled(l, r), Over(l, r))]

Given(tu, w, l, r, n) ==
  [tu EXCEPT ![w] = [lane |-> l, lo |-> r.queue.head, hi |-> r.queue.head + n - 1]]

\* A worker taking a turn of a lane's front.
LEMMA TurnStarts ==
  ASSUME net \in Nets, NEW l \in Lane, NEW r \in LaneRecord(l), NEW tu \in Tours,
         NEW e \in BOOLEAN, ~e, NEW sent, LaneFits(l, r, tu, e, sent),
         NEW w \in Worker, tu[w] = None,
         r.queue.head < r.queue.next,
         Out(l, tu) # {} => LaneWidth[l] > 1,
         r.queue.head = r.queue.last => Out(l, tu) = {},
         NEW n, n = TurnLength(l, r),
         NEW c, c = TakenOff(l, r, n), NEW tv, tv = Given(tu, w, l, r, n)
  PROVE  /\ c \in LaneRecord(l) /\ tv \in Tours
         /\ LaneFits(l, c, tv, e, sent)
         /\ c.closed = r.closed /\ c.got = r.got /\ c.ended = r.ended /\ c.claimed = r.claimed
         /\ n \in Nat \ {0} /\ n <= TurnMax /\ (l \in Unbuffered => n = 1)
<1>0. QueueOK(l, r) /\ TurnsOK(l, r, tu) /\ DoneOK(l, r, tu, FALSE) /\ OutOK(l, r, tu, sent)
  BY DoneUnfailed DEF LaneFits
<1>1. /\ r.queue.head \in Nat /\ r.queue.next \in Nat /\ r.queue.last \in Nat \cup {None}
      /\ r.nextFlush \in Nat /\ r.queue \in Queues /\ r.stopped \in BOOLEAN
      /\ \A d \in r.done : d.tick \in Nat
  BY RecordTypes
<1>2. PICK q : q = Q(l)!Taken(r.queue, n, Settled(l, r), Over(l, r))
  OBVIOUS
<1>3. c = [r EXCEPT !.queue = q]
  BY <1>2, Zenon DEF TakenOff
<1>4. /\ n \in Nat /\ 1 <= n /\ n <= TurnMax
      /\ LaneWidth[l] > 1 \/ l \in Unbuffered => n = 1
      /\ q \in Queues /\ q.head = r.queue.head + n /\ r.queue.next <= q.next
      /\ r.queue.last # None => q.last = r.queue.last
      /\ q.last # None => q.last = r.queue.last \/ r.queue.next <= q.last
      /\ q.last = r.queue.head + n - 1 => n = 1
      /\ r.stopped => q.next = r.queue.next
      /\ QueueFits(l, q, Settled(l, r), Over(l, r), r.stopped)
  <2>1. PICK o : o = r.queue
    OBVIOUS
  <2>2. PICK t : t = Settled(l, r)
    OBVIOUS
  <2>3. PICK v : v = Over(l, r)
    BY Zenon
  <2>4. PICK stopped : stopped = r.stopped
    OBVIOUS
  <2>5. Over(l, r) \in BOOLEAN /\ (LaneClock[l] # "self" => Settled(l, r) \in Nat)
    BY SettledNat DEF Over
  <2>6. /\ o \in Queues /\ v \in BOOLEAN /\ stopped \in BOOLEAN
        /\ (LaneClock[l] # "self" => t \in Nat)
    BY <1>1, <2>1, <2>2, <2>3, <2>4, <2>5, Zenon
  <2>7. /\ QueueFits(l, o, t, v, stopped) /\ o.head < o.next
        /\ n = Q(l)!Length(o, t, v) /\ q = Q(l)!Taken(o, n, t, v)
    BY <1>0, <1>2, <2>1, <2>2, <2>3, <2>4, Zenon DEF QueueOK, TurnLength
  <2>8. /\ n \in Nat /\ 1 <= n /\ n <= TurnMax
        /\ LaneWidth[l] > 1 \/ l \in Unbuffered => n = 1
        /\ q \in Queues /\ QueueFits(l, q, t, v, stopped)
        /\ q.head = o.head + n /\ o.next <= q.next
        /\ o.last # None => q.last = o.last
        /\ q.last # None => q.last = o.last \/ o.next <= q.last
        /\ q.last = o.head + n - 1 => n = 1
        /\ stopped => q.next = o.next
    BY <2>6, <2>7, QueueTaken
  <2> QED BY <2>1, <2>2, <2>3, <2>4, <2>8, Zenon
<1>5. /\ c.queue = q /\ c.done = r.done /\ c.nextFlush = r.nextFlush
      /\ c.stopped = r.stopped /\ c.claimed = r.claimed /\ c.ended = r.ended
      /\ c.got = r.got /\ c.closed = r.closed /\ c \in LaneRecord(l)
  BY <1>3, <1>4 DEF LaneRecord
<1>6. QueueOK(l, c)
  <2>1. Settled(l, c) = Settled(l, r) /\ Over(l, c) = Over(l, r)
    BY <1>5 DEF Settled, Over
  <2> QED BY <1>4, <1>5, <2>1, Zenon DEF QueueOK
<1> DEFINE t == [lane |-> l, lo |-> r.queue.head, hi |-> r.queue.head + n - 1]
<1>7. /\ tv \in Tours /\ tv[w] = t /\ w \notin Out(l, tu) /\ Out(l, tv) = Out(l, tu) \cup {w}
      /\ \A v \in Out(l, tu) : tv[v] = tu[v]
  <2>1. t \in [lane : Lane, lo : Nat, hi : Nat]
    BY <1>1, <1>4
  <2>2. t # None /\ t.lane = l
    BY <2>1, TurnMaxNat
  <2>3. tv \in Tours
    <3>1. tv = [tu EXCEPT ![w] = t]
      BY Zenon DEF Given
    <3> HIDE DEF t
    <3> QED BY <2>1, <3>1 DEF Tours
  <2>4. tv = [tu EXCEPT ![w] = t]
    BY DEF Given
  <2> HIDE DEF t
  <2> QED BY <2>2, <2>3, <2>4 DEF Out, Tours
<1>8. t.lo = r.queue.head /\ t.hi = r.queue.head + n - 1
  OBVIOUS
<1> HIDE DEF t
<1>9. /\ r.queue.last # None => r.queue.next = r.queue.last + 1
      /\ r.stopped => r.queue.last # None
  BY <1>0, QueueEnd
<1>10. \A v \in Out(l, tu) : /\ tu[v].lo \in Nat /\ tu[v].hi \in Nat
                            /\ tu[v].lo <= tu[v].hi /\ tu[v].hi < r.queue.head
  BY <1>0, OutTypes DEF TurnsOK
\* A tick below the front was no last tick, and is none now.
<1>11. \A k \in Nat : k < r.queue.head => k # q.last /\ k # r.queue.last
  BY <1>1, <1>4, <1>9, TurnMaxNat
<1>12. Out(l, tu) = {} => r.done = {} /\ r.nextFlush = r.queue.head
  BY <1>0, AllLeft
<1>13. r.nextFlush <= r.queue.head
  BY <1>0 DEF DoneOK
<1>14. LaneWidth[l] \in Nat \ {0}
  BY NetKinds
<1>15. TurnsOK(l, c, tv)
  <2>1. /\ t.lo <= t.hi /\ t.hi < q.head
        /\ LaneWidth[l] > 1 => t.lo = t.hi
        /\ LaneWidth[l] = 1 => r.done = {} /\ r.nextFlush = t.lo
        /\ r.nextFlush <= t.lo
        /\ t.hi = q.last => t.lo = q.last
    BY <1>1, <1>4, <1>8, <1>12, <1>13, <1>14
  <2>2. \A v \in Out(l, tu) : LaneWidth[l] > 1 /\ Apart(t, tu[v]) /\ Apart(tu[v], t)
    BY <1>8, <1>10 DEF Apart
  <2>3. \A v \in Out(l, tu) :
          /\ tu[v].lo <= tu[v].hi /\ tu[v].hi < q.head
          /\ LaneWidth[l] > 1 => tu[v].lo = tu[v].hi
          /\ LaneWidth[l] = 1 => r.done = {} /\ r.nextFlush = tu[v].lo
          /\ ~r.stopped => r.nextFlush <= tu[v].lo
          /\ tu[v].hi # q.last
          /\ \A u \in Out(l, tu) \ {v} : LaneWidth[l] > 1 /\ Apart(tu[v], tu[u])
    <3>1. \A v \in Out(l, tu) : tu[v].hi < q.head /\ tu[v].hi # q.last
      BY <1>1, <1>4, <1>10, <1>11
    <3> QED BY <1>0, <3>1 DEF TurnsOK
  <2>4. /\ \A v \in Out(l, tv) : v = w \/ v \in Out(l, tu)
        /\ tv[w] = t /\ w \notin Out(l, tu) /\ \A v \in Out(l, tu) : tv[v] = tu[v]
    BY <1>7
  <2>5. /\ c.queue = q /\ c.done = r.done /\ c.nextFlush = r.nextFlush /\ c.stopped = r.stopped
    BY <1>5
  <2>6. ASSUME NEW u \in Out(l, tv)
        PROVE  /\ tv[u].lo <= tv[u].hi /\ tv[u].hi < c.queue.head
               /\ LaneWidth[l] > 1 => tv[u].lo = tv[u].hi
               /\ LaneWidth[l] = 1 => c.done = {} /\ c.nextFlush = tv[u].lo
               /\ ~c.stopped => c.nextFlush <= tv[u].lo
               /\ tv[u].hi = c.queue.last => tv[u].lo = c.queue.last
               /\ \A v \in Out(l, tv) \ {u} : LaneWidth[l] > 1 /\ Apart(tv[u], tv[v])
    <3>1. CASE u = w
      <4>1. \A v \in Out(l, tv) \ {u} : LaneWidth[l] > 1 /\ Apart(t, tv[v])
        BY <2>2, <2>4, <3>1
      <4>2. tv[u] = t
        BY <2>4, <3>1
      <4> QED BY <2>1, <2>5, <4>1, <4>2
    <3>2. CASE u \in Out(l, tu)
      BY <2>2, <2>3, <2>4, <2>5, <3>2
    <3> QED BY <2>4, <3>1, <3>2
  <2> QED BY <2>6 DEF TurnsOK
<1>16. DoneOK(l, c, tv, e)
  <2>1. r.nextFlush <= q.head
    BY <1>1, <1>4, <1>13
  <2>2. \A d \in r.done : /\ r.nextFlush <= d.tick /\ d.tick < q.head
                          /\ d.tick # q.last /\ d.tick < t.lo
                          /\ d.tick # r.nextFlush
                          /\ \A v \in Out(l, tu) : d.tick < tu[v].lo \/ tu[v].hi < d.tick
    <3>1. \A d \in r.done : d.tick < r.queue.head /\ d.tick \in Nat
      BY <1>0, <1>1 DEF DoneOK
    <3>2. \A d \in r.done : d.tick < q.head /\ d.tick # q.last /\ d.tick < t.lo
      BY <1>1, <1>4, <1>8, <1>11, <3>1
    <3> QED BY <1>0, <3>2 DEF DoneOK
  <2>3. ASSUME NEW k \in r.nextFlush .. q.head - 1
        PROVE  \/ \E d \in r.done : d.tick = k
               \/ \E v \in Out(l, tu) : tu[v].lo <= k /\ k <= tu[v].hi
               \/ t.lo <= k /\ k <= t.hi
    <3>1. CASE k < r.queue.head
      <4>1. k \in r.nextFlush .. r.queue.head - 1
        BY <1>1, <1>4, <3>1
      <4> QED BY <1>0, <4>1 DEF DoneOK
    <3>2. CASE ~(k < r.queue.head)
      BY <1>1, <1>4, <1>8, <3>2
    <3> QED BY <3>1, <3>2
  <2> QED BY <1>5, <1>7, <2>1, <2>2, <2>3 DEF DoneOK
<1>17. OutOK(l, c, tv, sent)
  <2>1. ~r.ended
    BY <1>0, <1>1 DEF OutOK
  <2>2. (r.stopped /\ ~r.ended) => r.nextFlush = q.last /\ r.claimed
    BY <1>0, <1>4, <1>9 DEF OutOK
  <2>3. \A v \in Out(l, tu) : tu[v].lo # q.last
    BY <1>1, <1>10, <1>11
  <2>4. t.lo = q.last => Out(l, tu) = {} /\ r.done = {} /\ r.nextFlush = q.last
    <3> SUFFICES ASSUME t.lo = q.last
                 PROVE  Out(l, tu) = {} /\ r.done = {} /\ r.nextFlush = q.last
      OBVIOUS
    <3>1. r.queue.head = r.queue.last
      BY <1>1, <1>4, <1>8, TurnMaxNat
    <3> QED BY <1>8, <1>12, <3>1
  <2> QED BY <1>0, <1>5, <1>7, <2>1, <2>2, <2>3, <2>4 DEF OutOK
<1>18. LaneFits(l, c, tv, e, sent)
  BY <1>6, <1>15, <1>16, <1>17, Zenon DEF LaneFits
<1>19. n \in Nat \ {0} /\ n <= TurnMax /\ (l \in Unbuffered => n = 1)
  BY <1>4
<1>20. tv \in Tours
  BY <1>7
<1> QED BY <1>5, <1>18, <1>19, <1>20, Zenon

LEMMA TurnHandedIn ==
  ASSUME NEW l \in Lane, NEW tu \in Tours, NEW w \in Out(l, tu),
         NEW tv \in Tours, tv[w] = None, \A v \in Worker \ {w} : tv[v] = tu[v]
  PROVE  /\ Out(l, tv) = Out(l, tu) \ {w}
         /\ \A v \in Out(l, tu) \ {w} : tv[v] = tu[v]
  BY DEF Out, Tours

LEMMA OtherTurnsStay ==
  ASSUME NEW l \in Lane, NEW tu \in Tours, NEW w \in Out(l, tu),
         NEW tv \in Tours, tv[w] = None, \A v \in Worker \ {w} : tv[v] = tu[v],
         NEW k \in Lane, k # l
  PROVE  Out(k, tv) = Out(k, tu) /\ \A v \in Out(k, tu) : tv[v] = tu[v]
  BY DEF Out, Tours

\* A lane none of whose turns changes.
LEMMA OthersFit ==
  ASSUME NEW l \in Lane, NEW r, NEW tu, NEW tv, NEW e, NEW sent, LaneFits(l, r, tu, e, sent),
         Out(l, tv) = Out(l, tu), \A v \in Out(l, tu) : tv[v] = tu[v]
  PROVE  LaneFits(l, r, tv, e, sent)
<1>1. QueueOK(l, r) /\ TurnsOK(l, r, tu) /\ DoneOK(l, r, tu, e) /\ OutOK(l, r, tu, sent)
  BY DEF LaneFits
<1>2. TurnsOK(l, r, tv)
  BY <1>1 DEF TurnsOK
<1>3. DoneOK(l, r, tv, e)
  BY <1>1 DEF DoneOK
<1>4. OutOK(l, r, tv, sent)
  BY <1>1 DEF OutOK
<1> QED BY <1>1, <1>2, <1>3, <1>4 DEF LaneFits

\* A failure elsewhere asks less of a lane.
LEMMA FailedFits ==
  ASSUME NEW l \in Lane, NEW r, NEW tu, NEW e, NEW sent, LaneFits(l, r, tu, e, sent)
  PROVE  LaneFits(l, r, tu, TRUE, sent)
<1>1. QueueOK(l, r) /\ TurnsOK(l, r, tu) /\ DoneOK(l, r, tu, e) /\ OutOK(l, r, tu, sent)
  BY DEF LaneFits
<1>2. DoneOK(l, r, tu, TRUE)
  BY <1>1 DEF DoneOK
<1> QED BY <1>1, <1>2 DEF LaneFits

\* A turn that is out, among the others.
LEMMA TurnOut ==
  ASSUME NEW l \in Lane, NEW r \in LaneRecord(l), NEW tu \in Tours, NEW e, NEW sent,
         LaneFits(l, r, tu, e, sent), NEW w \in Out(l, tu)
  PROVE  /\ tu[w].lo \in Nat /\ tu[w].hi \in Nat
         /\ tu[w].lo <= tu[w].hi /\ tu[w].hi < r.queue.head /\ tu[w].hi < r.queue.next
         /\ ~r.ended
         /\ r.stopped => r.done = {} /\ r.claimed /\ r.nextFlush = r.queue.last
         /\ ~r.stopped => r.nextFlush <= tu[w].lo /\ sent = r.nextFlush
         /\ r.queue.last # None => r.queue.next = r.queue.last + 1
         /\ \A n \in tu[w].lo .. tu[w].hi : n = r.queue.last =>
              /\ tu[w].lo = n /\ tu[w].hi = n
              /\ Out(l, tu) = {w} /\ r.done = {} /\ r.nextFlush = n
<1>0. QueueOK(l, r) /\ TurnsOK(l, r, tu) /\ DoneOK(l, r, tu, e) /\ OutOK(l, r, tu, sent)
  BY DEF LaneFits
<1>1. /\ r.queue.head \in Nat /\ r.queue.next \in Nat /\ r.queue.last \in Nat \cup {None}
      /\ r.queue.head <= r.queue.next
      /\ r.queue.last # None => r.queue.next = r.queue.last + 1
  BY <1>0, RecordTypes, QueueEnd
<1>2. tu[w].lo \in Nat /\ tu[w].hi \in Nat
  BY OutTypes
<1>3. tu[w].lo <= tu[w].hi /\ tu[w].hi < r.queue.head
  BY <1>0 DEF TurnsOK
<1>4. ~r.ended
  BY <1>0 DEF OutOK
<1>5. r.stopped => r.done = {} /\ r.claimed /\ r.nextFlush = r.queue.last
  BY <1>0, <1>4 DEF OutOK
<1>6. ~r.stopped => r.nextFlush <= tu[w].lo /\ sent = r.nextFlush
  BY <1>0 DEF TurnsOK, OutOK
<1>7. ASSUME NEW n \in tu[w].lo .. tu[w].hi, n = r.queue.last
      PROVE  /\ tu[w].lo = n /\ tu[w].hi = n
             /\ Out(l, tu) = {w} /\ r.done = {} /\ r.nextFlush = n
  <2>1. tu[w].hi = n
    BY <1>1, <1>2, <1>3, <1>7, TurnMaxNat
  <2>2. tu[w].lo = n
    BY <1>0, <1>7, <2>1 DEF TurnsOK
  <2> QED BY <1>0, <1>7, <2>1, <2>2 DEF OutOK
<1> QED BY <1>1, <1>2, <1>3, <1>4, <1>5, <1>6, <1>7

\* Record a is r but for its results, which are all.
With(r, all, a) ==
  /\ a.got = r.got /\ a.closed = r.closed /\ a.queue = r.queue /\ a.done = all
  /\ a.nextFlush = r.nextFlush /\ a.claimed = r.claimed /\ a.stopped = r.stopped
  /\ a.ended = r.ended

LEMMA WithFields ==
  ASSUME NEW l \in Lane, NEW r \in LaneRecord(l), NEW all \in SUBSET Results,
         NEW a, a = [r EXCEPT !.done = all]
  PROVE  a \in LaneRecord(l) /\ With(r, all, a)
  BY DEF LaneRecord, With

\* A call that fails leaves the results before it waiting, for ever.
LEMMA TurnFails ==
  ASSUME NEW l \in Lane, NEW r \in LaneRecord(l), NEW tu \in Tours, NEW e, NEW sent,
         LaneFits(l, r, tu, e, sent), NEW w \in Out(l, tu),
         NEW stop \in tu[w].lo .. tu[w].hi, NEW b \in SUBSET Results,
         \A d \in b : tu[w].lo <= d.tick /\ r.nextFlush <= d.tick /\ d.tick <= stop - 1,
         NEW c \in LaneRecord(l), With(r, r.done \cup b, c),
         NEW tv \in Tours, tv[w] = None, \A v \in Worker \ {w} : tv[v] = tu[v]
  PROVE  LaneFits(l, c, tv, TRUE, sent)
<1>0. QueueOK(l, r) /\ TurnsOK(l, r, tu) /\ DoneOK(l, r, tu, e) /\ OutOK(l, r, tu, sent)
  BY DEF LaneFits
<1>1. /\ c.queue = r.queue /\ c.done = r.done \cup b /\ c.nextFlush = r.nextFlush
      /\ c.stopped = r.stopped /\ c.claimed = r.claimed /\ c.ended = r.ended
      /\ c.got = r.got /\ c.closed = r.closed
  BY DEF With
<1>2. /\ tu[w].lo \in Nat /\ tu[w].hi \in Nat /\ stop \in Nat /\ tu[w].lo <= stop /\ stop <= tu[w].hi
      /\ tu[w].hi < r.queue.head /\ tu[w].hi < r.queue.next
      /\ r.stopped => r.done = {} /\ r.nextFlush = r.queue.last
      /\ r.queue.head \in Nat /\ r.queue.next \in Nat
      /\ r.queue.last # None => r.queue.next = r.queue.last + 1
  BY TurnOut, RecordTypes
<1>3. \A d \in b : d.tick \in Nat
  BY DEF Results
<1>4. Out(l, tv) = Out(l, tu) \ {w} /\ \A v \in Out(l, tu) \ {w} : tv[v] = tu[v]
  BY TurnHandedIn
<1>5. \A d \in b : d.tick < r.queue.head /\ d.tick # r.queue.last
  <2> SUFFICES ASSUME NEW d \in b PROVE d.tick < r.queue.head /\ d.tick # r.queue.last
    OBVIOUS
  <2>1. d.tick \in Nat /\ tu[w].lo <= d.tick /\ d.tick < tu[w].hi
    BY <1>2, <1>3
  <2>2. d.tick \in tu[w].lo .. tu[w].hi
    BY <1>2, <2>1
  <2>3. d.tick = r.queue.last => tu[w].hi = d.tick
    BY <2>2, TurnOut
  <2> QED BY <1>2, <2>1, <2>3
<1>6. r.stopped => b = {}
  <2> SUFFICES ASSUME r.stopped, NEW d \in b PROVE FALSE
    OBVIOUS
  <2>1. r.queue.last \in Nat
    BY <1>0, QueueEnd, RecordTypes
  <2>2. d.tick \in Nat /\ r.nextFlush <= d.tick /\ d.tick < tu[w].hi
    BY <1>2, <1>3
  <2>3. r.nextFlush = r.queue.last /\ r.queue.next = r.queue.last + 1
    BY <1>2, <2>1, TurnMaxNat
  <2> QED BY <1>2, <2>1, <2>2, <2>3
<1>7. TurnsOK(l, c, tv)
  <2>1. \A v \in Out(l, tv) : v \in Out(l, tu) /\ v # w /\ tv[v] = tu[v]
    BY <1>4
  <2>2. \A v \in Out(l, tv) : w \in Out(l, tu) \ {v} /\ v \in Out(l, tu)
    BY <2>1
  <2>3. \A v \in Out(l, tv) : LaneWidth[l] > 1
    BY <1>0, <2>2 DEF TurnsOK
  <2>4. ASSUME NEW v \in Out(l, tv)
        PROVE  /\ tv[v].lo <= tv[v].hi /\ tv[v].hi < c.queue.head
               /\ LaneWidth[l] > 1 => tv[v].lo = tv[v].hi
               /\ LaneWidth[l] = 1 => c.done = {} /\ c.nextFlush = tv[v].lo
               /\ ~c.stopped => c.nextFlush <= tv[v].lo
               /\ tv[v].hi = c.queue.last => tv[v].lo = c.queue.last
               /\ \A u \in Out(l, tv) \ {v} : LaneWidth[l] > 1 /\ Apart(tv[v], tv[u])
    <3>1. v \in Out(l, tu) /\ tv[v] = tu[v] /\ ~(LaneWidth[l] = 1)
      BY <2>1, <2>3
    <3>2. /\ tu[v].lo <= tu[v].hi /\ tu[v].hi < r.queue.head
          /\ LaneWidth[l] > 1 => tu[v].lo = tu[v].hi
          /\ ~r.stopped => r.nextFlush <= tu[v].lo
          /\ tu[v].hi = r.queue.last => tu[v].lo = r.queue.last
          /\ \A u \in Out(l, tu) \ {v} : LaneWidth[l] > 1 /\ Apart(tu[v], tu[u])
      BY <1>0, <3>1 DEF TurnsOK
    <3>3. \A u \in Out(l, tv) \ {v} : LaneWidth[l] > 1 /\ Apart(tv[v], tv[u])
      BY <2>1, <3>1, <3>2
    <3> QED BY <1>1, <3>1, <3>2, <3>3
  <2> QED BY <2>4 DEF TurnsOK
<1>8. DoneOK(l, c, tv, TRUE)
  <2>1. \A d \in b : \A v \in Out(l, tu) \ {w} : d.tick < tu[v].lo \/ tu[v].hi < d.tick
    <3> SUFFICES ASSUME NEW d \in b, NEW v \in Out(l, tu) \ {w}
                 PROVE  d.tick < tu[v].lo \/ tu[v].hi < d.tick
      OBVIOUS
    <3>1. Apart(tu[w], tu[v])
      BY <1>0 DEF TurnsOK
    <3>2. tu[v].lo \in Nat /\ tu[v].hi \in Nat
      BY OutTypes
    <3> QED BY <1>2, <1>3, <3>1, <3>2 DEF Apart
  <2> QED BY <1>0, <1>1, <1>4, <1>5, <2>1 DEF DoneOK
<1>9. OutOK(l, c, tv, sent)
  <2>1. \A v \in Out(l, tu) : tu[v].lo = r.queue.last => v = w
    BY <1>0 DEF OutOK
  <2> QED BY <1>0, <1>1, <1>4, <1>6, <2>1 DEF OutOK
<1>10. QueueOK(l, c)
  <2>1. Settled(l, c) = Settled(l, r) /\ Over(l, c) = Over(l, r)
    BY <1>1 DEF Settled, Over
  <2> QED BY <1>0, <1>1, <2>1, Zenon DEF QueueOK
<1> QED BY <1>1, <1>7, <1>8, <1>9, <1>10 DEF LaneFits

\* Worker w hands in its turn of lane l, run up to tick stop: b holds the results
\* of its ticks that have not left, and a turn cut short ends with a claim.
HandsIn(l, r, tu, tv, w, stop, b) ==
  /\ w \in Out(l, tu)
  /\ tv \in Tours /\ tv[w] = None /\ \A v \in Worker \ {w} : tv[v] = tu[v]
  /\ stop \in tu[w].lo .. tu[w].hi
  /\ b \in SUBSET Results
  /\ \A d \in b : tu[w].lo <= d.tick /\ r.nextFlush <= d.tick /\ d.tick <= stop
  /\ \A n \in tu[w].lo .. stop : r.nextFlush <= n =>
       \E d \in b : d.tick = n /\ (n = stop /\ stop < tu[w].hi => d.fin)

\* Of all the results, the unbroken run that leaves.
Unbroken(r, all, gone, past) ==
  /\ past \in r.nextFlush .. r.queue.next
  /\ gone = {d \in all : d.tick < past}
  /\ \A n \in r.nextFlush .. past - 1 : \E d \in gone : d.tick = n
  /\ \A d \in all : d.tick # past

\* What leaves was before the front of the queue and before every turn still
\* out; the last tick leaves alone.
LEMMA FlushKnows ==
  ASSUME net \in Nets, NEW l \in Lane, NEW r \in LaneRecord(l), NEW tu \in Tours, NEW e, NEW sent,
         LaneFits(l, r, tu, e, sent), NEW tv, NEW w, NEW stop, NEW b, NEW all, NEW gone, NEW past,
         HandsIn(l, r, tu, tv, w, stop, b), all = r.done \cup b, Unbroken(r, all, gone, past)
  PROVE  /\ all \in SUBSET Results
         /\ \A d \in all : /\ d.tick \in Nat /\ r.nextFlush <= d.tick /\ d.tick < r.queue.head
                           /\ d.tick = r.queue.last =>
                                /\ Out(l, tu) = {w} /\ r.done = {} /\ all = b
                                /\ r.nextFlush = d.tick /\ past = d.tick + 1 /\ d \in gone
                                /\ tu[w].lo = d.tick /\ tu[w].hi = d.tick
         /\ past \in Nat /\ past <= r.queue.head
         /\ ~r.stopped => \A v \in Out(l, tu) \ {w} : past <= tu[v].lo
         /\ ~r.stopped => \A v \in Out(l, tu) \ {w} : \A d \in all :
                            d.tick < tu[v].lo \/ tu[v].hi < d.tick
         /\ LaneWidth[l] = 1 => Out(l, tu) = {w} /\ all = b /\ tu[w].lo = r.nextFlush
<1>0. QueueOK(l, r) /\ TurnsOK(l, r, tu) /\ DoneOK(l, r, tu, e) /\ OutOK(l, r, tu, sent)
  BY DEF LaneFits
<1>1. /\ w \in Out(l, tu) /\ stop \in tu[w].lo .. tu[w].hi /\ b \in SUBSET Results
      /\ \A d \in b : tu[w].lo <= d.tick /\ r.nextFlush <= d.tick /\ d.tick <= stop
  BY DEF HandsIn
<1>2. /\ r.queue.head \in Nat /\ r.queue.next \in Nat /\ r.nextFlush \in Nat
      /\ r.done \in SUBSET Results
  BY RecordTypes
<1>3. /\ tu[w].lo \in Nat /\ tu[w].hi \in Nat /\ tu[w].hi < r.queue.head
      /\ stop \in Nat /\ tu[w].lo <= stop /\ stop <= tu[w].hi
      /\ \A n \in tu[w].lo .. tu[w].hi : n = r.queue.last =>
              /\ tu[w].lo = n /\ tu[w].hi = n
              /\ Out(l, tu) = {w} /\ r.done = {} /\ r.nextFlush = n
  BY <1>1, TurnOut
<1>4. /\ past \in Nat /\ r.nextFlush <= past
      /\ gone = {d \in all : d.tick < past}
      /\ \A n \in r.nextFlush .. past - 1 : \E d \in gone : d.tick = n
      /\ \A d \in all : d.tick # past
  BY <1>2 DEF Unbroken
<1>5. all \in SUBSET Results /\ \A d \in all : d.tick \in Nat
  BY <1>1, <1>2 DEF Results
<1>6. \A d \in b : d.tick \in tu[w].lo .. tu[w].hi
  BY <1>1, <1>3, <1>5
<1>7. \A d \in all : r.nextFlush <= d.tick /\ d.tick < r.queue.head
  <2>1. \A d \in r.done : r.nextFlush <= d.tick /\ d.tick < r.queue.head
    BY <1>0 DEF DoneOK
  <2>2. \A d \in b : r.nextFlush <= d.tick /\ d.tick < r.queue.head
    BY <1>1, <1>2, <1>3, <1>6
  <2> QED BY <2>1, <2>2
<1>8. ASSUME NEW d \in all, d.tick = r.queue.last
      PROVE  /\ Out(l, tu) = {w} /\ r.done = {} /\ all = b
             /\ r.nextFlush = d.tick /\ past = d.tick + 1 /\ d \in gone
             /\ tu[w].lo = d.tick /\ tu[w].hi = d.tick
  <2>1. d \in b
    BY <1>0, <1>8 DEF DoneOK
  <2>2. /\ tu[w].lo = d.tick /\ tu[w].hi = d.tick
        /\ Out(l, tu) = {w} /\ r.done = {} /\ r.nextFlush = d.tick
    BY <1>3, <1>6, <1>8, <2>1
  <2>3. \A f \in all : f.tick = d.tick
    BY <1>3, <1>5, <1>6, <2>2
  <2>4. past # d.tick /\ d.tick \in Nat
    BY <1>4, <1>5, <1>8
  <2>5. past <= d.tick + 1
    <3> SUFFICES ASSUME past > d.tick + 1 PROVE FALSE
      BY <1>4, <2>4
    <3>1. d.tick + 1 \in r.nextFlush .. past - 1
      BY <1>4, <2>2, <2>4
    <3>2. PICK f \in gone : f.tick = d.tick + 1
      BY <1>4, <3>1
    <3> QED BY <1>4, <2>3, <2>4, <3>2
  <2> QED BY <1>4, <2>2, <2>4, <2>5
<1>9. past <= r.queue.head
  <2>1. CASE past = r.nextFlush
    BY <1>0, <2>1 DEF DoneOK
  <2>2. CASE past > r.nextFlush
    <3>1. past - 1 \in r.nextFlush .. past - 1
      BY <1>2, <1>4, <2>2
    <3>2. PICK f \in gone : f.tick = past - 1
      BY <1>4, <3>1
    <3>3. f.tick < r.queue.head
      BY <1>4, <1>7, <3>2
    <3> QED BY <1>2, <1>4, <3>2, <3>3
  <2> QED BY <1>2, <1>4, <2>1, <2>2
<1>10. \A v \in Out(l, tu) \ {w} : \A d \in all : d.tick < tu[v].lo \/ tu[v].hi < d.tick
  <2> SUFFICES ASSUME NEW v \in Out(l, tu) \ {w}, NEW d \in all
               PROVE  d.tick < tu[v].lo \/ tu[v].hi < d.tick
    OBVIOUS
  <2>1. tu[v].lo \in Nat /\ tu[v].hi \in Nat
    BY OutTypes
  <2>2. CASE d \in r.done
    BY <1>0, <2>2 DEF DoneOK
  <2>3. CASE d \in b
    <3>1. Apart(tu[w], tu[v])
      BY <1>0, <1>1 DEF TurnsOK
    <3>2. d.tick \in Nat /\ tu[w].lo <= d.tick /\ d.tick <= tu[w].hi
      BY <1>3, <1>6, <2>3
    <3> QED BY <1>3, <2>1, <3>1, <3>2 DEF Apart
  <2> QED BY <2>2, <2>3
<1>11. ASSUME ~r.stopped, NEW v \in Out(l, tu) \ {w}
       PROVE  past <= tu[v].lo
  <2>1. tu[v].lo \in Nat /\ tu[v].hi \in Nat /\ tu[v].lo <= tu[v].hi /\ r.nextFlush <= tu[v].lo
    BY <1>0, <1>11, OutTypes DEF TurnsOK
  <2> SUFFICES ASSUME past > tu[v].lo PROVE FALSE
    BY <1>4, <2>1
  <2>2. tu[v].lo \in r.nextFlush .. past - 1
    BY <1>2, <1>4, <2>1
  <2>3. PICK f \in gone : f.tick = tu[v].lo
    BY <1>4, <2>2
  <2>4. f \in all
    BY <1>4, <2>3
  <2> QED BY <1>10, <2>1, <2>3, <2>4
<1>12. LaneWidth[l] = 1 => Out(l, tu) = {w} /\ all = b /\ tu[w].lo = r.nextFlush
  <2> SUFFICES ASSUME LaneWidth[l] = 1
               PROVE  Out(l, tu) = {w} /\ r.done = {} /\ tu[w].lo = r.nextFlush
    OBVIOUS
  <2>1. ~(LaneWidth[l] > 1)
    OBVIOUS
  <2>2. \A v \in Out(l, tu) \ {w} : LaneWidth[l] > 1
    BY <1>0, <1>1 DEF TurnsOK
  <2>3. r.done = {} /\ r.nextFlush = tu[w].lo
    BY <1>0, <1>1 DEF TurnsOK
  <2> QED BY <1>1, <2>1, <2>2, <2>3
<1> QED BY <1>4, <1>5, <1>7, <1>8, <1>9, <1>10, <1>11, <1>12

LEMMA IntakeSame ==
  ASSUME NEW l, NEW r, NEW c, c.got = r.got, c.closed = r.closed
  PROVE  Settled(l, c) = Settled(l, r) /\ Over(l, c) = Over(l, r)
  BY DEF Settled, Over

LEMMA LeftFields ==
  ASSUME NEW l \in Lane, NEW a \in LaneRecord(l), NEW gone, NEW past \in Nat,
         NEW c, c = Left(a, gone, past)
  PROVE  /\ c \in LaneRecord(l) /\ c.got = a.got /\ c.closed = a.closed /\ c.queue = a.queue
         /\ c.done = a.done \ gone /\ c.nextFlush = past /\ c.claimed = a.claimed
         /\ (\E d \in gone : d.tick = a.queue.last) => c.stopped /\ c.ended
         /\ (\A d \in gone : d.tick # a.queue.last) => c.stopped = a.stopped /\ c.ended = a.ended
<1>2. PICK last : last = (\E d \in gone : d.tick = a.queue.last)
  BY Zenon
<1>3. PICK stopped : stopped = (a.stopped \/ last)
  BY Zenon
<1>4. PICK ended : ended = (a.ended \/ last)
  BY Zenon
<1>5. PICK done : done = a.done \ gone
  OBVIOUS
<1>6. stopped \in BOOLEAN /\ ended \in BOOLEAN
  BY <1>3, <1>4, Zenon
<1>7. done \in SUBSET Results
  BY <1>5, RecordTypes
<1>8. c = [a EXCEPT !.done = done, !.nextFlush = past, !.stopped = stopped, !.ended = ended]
  BY <1>2, <1>3, <1>4, <1>5, Zenon DEF Left
<1>9. /\ c.got = a.got /\ c.closed = a.closed /\ c.queue = a.queue
      /\ c.done = done /\ c.nextFlush = past /\ c.claimed = a.claimed
      /\ c.stopped = stopped /\ c.ended = ended /\ c \in LaneRecord(l)
  BY <1>6, <1>7, <1>8 DEF LaneRecord
<1>10. a.stopped \in BOOLEAN /\ a.ended \in BOOLEAN
  BY RecordTypes
<1>11. (\E d \in gone : d.tick = a.queue.last) => stopped = TRUE /\ ended = TRUE
  BY <1>2, <1>3, <1>4, Zenon
<1>12. (\A d \in gone : d.tick # a.queue.last) => stopped = a.stopped /\ ended = a.ended
  <2> SUFFICES ASSUME \A d \in gone : d.tick # a.queue.last
               PROVE  stopped = a.stopped /\ ended = a.ended
    OBVIOUS
  <2>1. ~last
    BY <1>2, Zenon
  <2>2. stopped <=> a.stopped
    BY <1>3, <2>1, Zenon
  <2>3. ended <=> a.ended
    BY <1>4, <2>1, Zenon
  <2> QED BY <1>6, <1>10, <2>2, <2>3
<1> QED BY <1>5, <1>9, <1>11, <1>12, Zenon

LEMMA ClaimedFields ==
  ASSUME NEW l \in Lane, NEW a \in LaneRecord(l), NEW c, c = Claimed(a)
  PROVE  /\ c \in LaneRecord(l) /\ c.got = a.got /\ c.closed = a.closed
         /\ c.queue.head = a.queue.next /\ c.queue.next = a.queue.next + 1
         /\ c.queue.last = a.queue.next /\ ~c.queue.withheld
         /\ c.done = {} /\ c.nextFlush = a.queue.next
         /\ c.stopped /\ c.claimed /\ c.ended = a.ended
<1>2. a.queue.next \in Nat
  BY RecordTypes
<1>3. PICK q : q = [head |-> a.queue.next, next |-> a.queue.next + 1, withheld |-> FALSE,
                    last |-> a.queue.next]
  OBVIOUS
<1>4. q \in Queues /\ ~q.withheld
  BY <1>2, <1>3 DEF Queues
<1>5. c = [a EXCEPT !.done = {}, !.nextFlush = a.queue.next, !.stopped = TRUE,
                    !.claimed = TRUE, !.queue = q]
  BY <1>3, Zenon DEF Claimed
<1>6. /\ c.got = a.got /\ c.closed = a.closed /\ c.queue = q /\ c.done = {}
      /\ c.nextFlush = a.queue.next /\ c.stopped = TRUE /\ c.claimed = TRUE
      /\ c.ended = a.ended /\ c \in LaneRecord(l)
  BY <1>2, <1>4, <1>5 DEF LaneRecord
<1>7. /\ q.head = a.queue.next /\ q.next = a.queue.next + 1 /\ q.last = a.queue.next
  BY <1>3
<1>8. c.queue.head = q.head /\ c.queue.next = q.next /\ c.queue.last = q.last /\ ~c.queue.withheld
  BY <1>4, <1>6, Zenon
<1> QED BY <1>6, <1>7, <1>8

\* Lane l, its record going from r to c, hands on n more items than the sent
\* ones, most at most, and its stream's end if it ended.
Hands(l, r, c, sent, n, most) ==
  /\ c.got = r.got /\ c.closed = r.closed /\ ~r.ended
  /\ n \in Nat
  /\ LaneWidth[l] = 1 => n + (IF c.ended THEN 1 ELSE 0) <= most
  /\ c.ended => /\ n = 0 /\ c.claimed = r.claimed
                /\ (LaneClock[l] # "self" /\ ~r.claimed) => Over(l, r) /\ sent = Settled(l, r)
  /\ (~c.ended /\ n = 0) => c.claimed = r.claimed
  /\ n > 0 => ~r.claimed /\ (LaneClock[l] # "self" => sent + n <= Settled(l, r))

\* The last tick leaves: it was numbered after all that was settled.
LEMMA LastLeaves ==
  ASSUME net \in Nets, NEW l \in Lane, NEW r \in LaneRecord(l), NEW tu \in Tours, NEW e,
         NEW sent \in Nat,
         LaneFits(l, r, tu, e, sent), NEW tv, NEW w, NEW stop, NEW b, NEW all, NEW gone, NEW past,
         HandsIn(l, r, tu, tv, w, stop, b), all = r.done \cup b, Unbroken(r, all, gone, past),
         NEW d \in gone, d.tick = r.queue.last,
         NEW a \in LaneRecord(l), With(r, all, a), NEW c, c = Left(a, gone, past)
  PROVE  /\ c \in LaneRecord(l) /\ c.ended /\ past - r.nextFlush - 1 = 0
         /\ LaneFits(l, c, tv, e, sent)
         /\ Hands(l, r, c, sent, 0, tu[w].hi - tu[w].lo + 1)
<1>0. QueueOK(l, r) /\ TurnsOK(l, r, tu) /\ DoneOK(l, r, tu, e) /\ OutOK(l, r, tu, sent)
  BY DEF LaneFits
<1>1. /\ w \in Out(l, tu) /\ tv \in Tours /\ tv[w] = None
      /\ \A v \in Worker \ {w} : tv[v] = tu[v]
      /\ gone = {f \in all : f.tick < past}
  BY DEF HandsIn, Unbroken
<1>2. all \in SUBSET Results /\ past \in Nat /\ past <= r.queue.head
  BY FlushKnows
<1>3. /\ d \in all /\ d.tick \in Nat /\ Out(l, tu) = {w} /\ r.done = {} /\ all = b
      /\ r.nextFlush = d.tick /\ past = d.tick + 1
      /\ tu[w].lo = d.tick /\ tu[w].hi = d.tick
  <2>1. d \in all
    BY <1>1
  <2> QED BY <2>1, FlushKnows
<1>4. /\ r.queue.head \in Nat /\ r.queue.next \in Nat /\ r.queue.last \in Nat \cup {None}
      /\ r.queue.withheld \in BOOLEAN
      /\ r.queue.head <= r.queue.next
      /\ r.queue.last # None => r.queue.next = r.queue.last + 1
  BY <1>0, RecordTypes, QueueEnd
<1>5. /\ ~r.ended /\ tu[w].hi < r.queue.head
      /\ r.stopped => r.claimed
      /\ ~r.stopped => sent = r.nextFlush
  BY <1>1, TurnOut
<1>6. r.queue.last # None /\ r.queue.head = r.queue.next /\ r.queue.head = past
  BY <1>2, <1>3, <1>4, <1>5, TurnMaxNat
<1>7. /\ c \in LaneRecord(l) /\ c.got = r.got /\ c.closed = r.closed /\ c.queue = r.queue
      /\ c.done = all \ gone /\ c.nextFlush = past /\ c.claimed = r.claimed
      /\ c.stopped /\ c.ended
  <2>1. /\ a.queue = r.queue /\ a.got = r.got /\ a.closed = r.closed /\ a.done = all
        /\ a.claimed = r.claimed
    BY DEF With
  <2>2. \E f \in gone : f.tick = a.queue.last
    BY <2>1
  <2>3. past \in Nat
    BY <1>2
  <2> QED BY <2>1, <2>2, <2>3, LeftFields
<1>8. Out(l, tv) = {}
  BY <1>1, <1>3, TurnHandedIn
<1>9. c.done = {}
  <2>1. \A f \in all : f.tick <= tu[w].hi /\ f.tick \in Nat
    <3>1. \A f \in b : f.tick <= stop
      BY DEF HandsIn
    <3>2. stop <= tu[w].hi /\ stop \in Int
      BY <1>3 DEF HandsIn
    <3>3. \A f \in all : f.tick \in Nat
      BY FlushKnows
    <3> QED BY <1>3, <3>1, <3>2, <3>3
  <2> QED BY <1>1, <1>3, <1>7, <2>1
<1>10. (LaneClock[l] # "self" /\ ~r.stopped) => Over(l, r) /\ r.queue.last = Settled(l, r)
  BY <1>0, <1>6 DEF QueueOK, QueueFits
<1>11. QueueOK(l, c)
  <2>2. ~r.queue.withheld
    <3> SUFFICES ASSUME r.queue.withheld PROVE FALSE
      BY <1>4
    <3>1. /\ LaneClock[l] = "input" /\ ~r.stopped
          /\ r.queue.next < Q(l)!Total(Settled(l, r), Over(l, r))
      BY <1>0 DEF QueueOK, QueueFits
    <3>2. Over(l, r) /\ r.queue.last = Settled(l, r)
      BY <1>10, <3>1
    <3>3. Q(l)!Total(Settled(l, r), Over(l, r)) = Settled(l, r) + 1
      BY <3>2, Zenon DEF Q!Total
    <3>4. r.queue.next < r.queue.last + 1
      BY <3>1, <3>2, <3>3, Zenon
    <3> QED BY <1>4, <1>6, <3>4
  <2>3. PICK t : t = Settled(l, c)
    OBVIOUS
  <2>4. PICK v : v = Over(l, c)
    BY Zenon
  <2>5. PICK stopped : stopped = c.stopped
    OBVIOUS
  <2>6. stopped
    BY <1>7, <2>5, Zenon
  <2>7. QueueFits(l, r.queue, t, v, stopped)
    BY <1>4, <1>6, <2>2, <2>6 DEF QueueFits
  <2> QED BY <1>7, <2>3, <2>4, <2>5, <2>7, Zenon DEF QueueOK
<1>12. LaneFits(l, c, tv, e, sent)
  <2>1. TurnsOK(l, c, tv)
    BY <1>8 DEF TurnsOK
  <2>2. DoneOK(l, c, tv, e)
    <3>1. c.done = {} /\ c.nextFlush = past /\ c.queue.head = past /\ past \in Nat
      BY <1>2, <1>6, <1>7, <1>9
    <3>2. \A n \in past .. past - 1 : FALSE
      BY <1>2
    <3> QED BY <3>1, <3>2 DEF DoneOK
  <2>3. OutOK(l, c, tv, sent)
    BY <1>6, <1>7, <1>8, <1>9 DEF OutOK
  <2> QED BY <1>11, <2>1, <2>2, <2>3 DEF LaneFits
<1>13. (LaneClock[l] # "self" /\ ~r.claimed) => Over(l, r) /\ sent = Settled(l, r)
  BY <1>3, <1>5, <1>10
<1>14. Hands(l, r, c, sent, 0, tu[w].hi - tu[w].lo + 1)
  BY <1>3, <1>5, <1>7, <1>13 DEF Hands
<1> QED BY <1>3, <1>7, <1>12, <1>14

\* The lane goes on, or is at rest after its claim: the results before past have
\* left, no last tick or claim among them.
LEMMA TicksLeave ==
  ASSUME net \in Nets, NEW l \in Lane, NEW r \in LaneRecord(l), NEW tu \in Tours, NEW e \in BOOLEAN,
         NEW sent \in Nat,
         LaneFits(l, r, tu, e, sent), NEW tv, NEW w, NEW stop, NEW b, NEW all, NEW gone, NEW past,
         HandsIn(l, r, tu, tv, w, stop, b), all = r.done \cup b, Unbroken(r, all, gone, past),
         \A d \in gone : d.tick # r.queue.last /\ (r.stopped \/ ~d.fin),
         NEW a \in LaneRecord(l), With(r, all, a), NEW c, c = Left(a, gone, past),
         NEW n, n = past - r.nextFlush
  PROVE  /\ c \in LaneRecord(l) /\ ~c.ended
         /\ LaneFits(l, c, tv, e, sent + n)
         /\ Hands(l, r, c, sent, n, tu[w].hi - tu[w].lo + 1)
<1>0. QueueOK(l, r) /\ TurnsOK(l, r, tu) /\ DoneOK(l, r, tu, e) /\ OutOK(l, r, tu, sent)
  BY DEF LaneFits
<1>1. /\ w \in Out(l, tu) /\ tv \in Tours /\ tv[w] = None
      /\ \A v \in Worker \ {w} : tv[v] = tu[v]
      /\ gone = {f \in all : f.tick < past}
      /\ stop \in tu[w].lo .. tu[w].hi
      /\ \A d \in b : tu[w].lo <= d.tick /\ r.nextFlush <= d.tick /\ d.tick <= stop
      /\ \A k \in tu[w].lo .. stop : r.nextFlush <= k =>
           \E d \in b : d.tick = k /\ (k = stop /\ stop < tu[w].hi => d.fin)
      /\ past \in r.nextFlush .. r.queue.next
      /\ \A k \in r.nextFlush .. past - 1 : \E d \in gone : d.tick = k
      /\ \A d \in all : d.tick # past
  BY DEF HandsIn, Unbroken
<1>2. /\ all \in SUBSET Results /\ past \in Nat /\ past <= r.queue.head
      /\ \A d \in all : /\ d.tick \in Nat /\ r.nextFlush <= d.tick /\ d.tick < r.queue.head
                        /\ d.tick = r.queue.last => d \in gone
  BY FlushKnows
<1>3. LaneWidth[l] = 1 => Out(l, tu) = {w} /\ all = b /\ tu[w].lo = r.nextFlush
  BY FlushKnows
<1>4. ~r.stopped => \A v \in Out(l, tu) \ {w} : past <= tu[v].lo
  BY FlushKnows
<1>5. ~r.stopped => \A v \in Out(l, tu) \ {w} : \A d \in all :
                      d.tick < tu[v].lo \/ tu[v].hi < d.tick
  BY FlushKnows
<1>6. /\ r.queue.head \in Nat /\ r.queue.next \in Nat /\ r.queue.last \in Nat \cup {None}
      /\ r.queue.head <= r.queue.next /\ r.nextFlush \in Nat
      /\ r.stopped \in BOOLEAN /\ r.ended \in BOOLEAN /\ r.claimed \in BOOLEAN
      /\ r.queue.last # None => r.queue.next = r.queue.last + 1
      /\ r.stopped => r.queue.last \in Nat
  BY <1>0, RecordTypes, QueueEnd
<1>7. /\ tu[w].lo \in Nat /\ tu[w].hi \in Nat /\ tu[w].lo <= tu[w].hi
      /\ tu[w].hi < r.queue.head /\ ~r.ended
      /\ r.stopped => r.done = {} /\ r.claimed /\ r.nextFlush = r.queue.last
      /\ ~r.stopped => r.nextFlush <= tu[w].lo /\ sent = r.nextFlush
  BY <1>1, TurnOut
<1>8. stop \in Nat /\ tu[w].lo <= stop /\ stop <= tu[w].hi
  BY <1>1, <1>7
<1>9. /\ c \in LaneRecord(l) /\ c.got = r.got /\ c.closed = r.closed /\ c.queue = r.queue
      /\ c.done = all \ gone /\ c.nextFlush = past /\ c.claimed = r.claimed
      /\ c.stopped = r.stopped /\ ~c.ended
  <2>1. /\ a.queue = r.queue /\ a.got = r.got /\ a.closed = r.closed /\ a.done = all
        /\ a.claimed = r.claimed /\ a.stopped = r.stopped /\ a.ended = r.ended
    BY DEF With
  <2>2. \A f \in gone : f.tick # a.queue.last
    BY <2>1
  <2>3. past \in Nat
    BY <1>2
  <2>4. /\ c \in LaneRecord(l) /\ c.got = a.got /\ c.closed = a.closed /\ c.queue = a.queue
        /\ c.done = a.done \ gone /\ c.nextFlush = past /\ c.claimed = a.claimed
        /\ c.stopped = a.stopped /\ c.ended = a.ended
    BY <2>2, <2>3, LeftFields
  <2> QED BY <1>7, <2>1, <2>4, Zenon
<1>10. Out(l, tv) = Out(l, tu) \ {w} /\ \A v \in Out(l, tu) \ {w} : tv[v] = tu[v]
  BY <1>1, TurnHandedIn
<1>11. \A d \in all : d.tick # r.queue.last
  BY <1>2
\* After a claim nothing is left to leave but the last call, still to run.
<1>12. r.stopped => all = {} /\ past = r.nextFlush
  <2> SUFFICES ASSUME r.stopped PROVE all = {} /\ past = r.nextFlush
    OBVIOUS
  <2>0. r.nextFlush = r.queue.last /\ r.queue.next = r.nextFlush + 1 /\ r.done = {} /\ all = b
    BY <1>6, <1>7, TurnMaxNat
  <2>1. all = {}
    <3> SUFFICES ASSUME NEW d \in all PROVE FALSE
      OBVIOUS
    <3>1. d.tick \in Nat /\ r.nextFlush <= d.tick /\ d.tick < r.queue.head
      BY <1>2
    <3>2. d.tick = r.nextFlush
      BY <1>6, <2>0, <3>1
    <3> QED BY <1>11, <2>0, <3>2
  <2>2. past = r.nextFlush
    <3> SUFFICES ASSUME past > r.nextFlush PROVE FALSE
      BY <1>1, <1>2, <1>6
    <3>1. r.nextFlush \in r.nextFlush .. past - 1
      BY <1>2, <1>6
    <3> QED BY <1>1, <2>1, <3>1
  <2> QED BY <2>1, <2>2
\* A turn cut short ends in a claim, which leaves with what is before it.
<1>13. ~r.stopped => stop = tu[w].hi
  <2> SUFFICES ASSUME ~r.stopped, stop < tu[w].hi PROVE FALSE
    BY <1>7, <1>8
  <2>1. LaneWidth[l] = 1
    <3>1. LaneWidth[l] \in Nat \ {0}
      BY NetKinds
    <3>2. LaneWidth[l] > 1 => tu[w].lo = tu[w].hi
      BY <1>0, <1>1 DEF TurnsOK
    <3> QED BY <1>7, <1>8, <3>1, <3>2
  <2>2. all = b /\ tu[w].lo = r.nextFlush
    BY <1>3, <2>1
  <2>3. stop \in tu[w].lo .. stop /\ r.nextFlush <= stop
    BY <1>7, <1>8, <2>2
  <2>4. PICK d \in b : d.tick = stop /\ d.fin
    BY <1>1, <2>3
  <2>5. past > stop
    <3> SUFFICES ASSUME past <= stop PROVE FALSE
      BY <1>2, <1>8
    <3>1. past \in tu[w].lo .. stop /\ r.nextFlush <= past
      BY <1>1, <1>2, <1>7, <1>8, <2>2
    <3>2. PICK f \in b : f.tick = past
      BY <1>1, <3>1
    <3> QED BY <1>1, <2>2, <3>2
  <2>6. d \in gone
    BY <1>1, <1>2, <1>8, <2>2, <2>4, <2>5
  <2> QED BY <2>4, <2>6
<1>14. n \in Nat /\ past = r.nextFlush + n
  BY <1>1, <1>2, <1>6
<1>15. QueueOK(l, c)
  <2>1. Settled(l, c) = Settled(l, r) /\ Over(l, c) = Over(l, r)
    BY <1>9, IntakeSame
  <2> QED BY <1>0, <1>9, <2>1, Zenon DEF QueueOK
<1>16. TurnsOK(l, c, tv)
  <2> SUFFICES ASSUME NEW v \in Out(l, tv)
               PROVE  /\ tv[v].lo <= tv[v].hi /\ tv[v].hi < c.queue.head
                      /\ LaneWidth[l] > 1 => tv[v].lo = tv[v].hi
                      /\ LaneWidth[l] = 1 => c.done = {} /\ c.nextFlush = tv[v].lo
                      /\ ~c.stopped => c.nextFlush <= tv[v].lo
                      /\ tv[v].hi = c.queue.last => tv[v].lo = c.queue.last
                      /\ \A u \in Out(l, tv) \ {v} : LaneWidth[l] > 1 /\ Apart(tv[v], tv[u])
    BY DEF TurnsOK
  <2>1. v \in Out(l, tu) \ {w} /\ tv[v] = tu[v]
    BY <1>10
  <2>2. ~(LaneWidth[l] = 1)
    BY <1>3, <2>1
  <2>3. /\ tu[v].lo <= tu[v].hi /\ tu[v].hi < r.queue.head
        /\ LaneWidth[l] > 1 => tu[v].lo = tu[v].hi
        /\ tu[v].hi = r.queue.last => tu[v].lo = r.queue.last
        /\ \A u \in Out(l, tu) \ {v} : LaneWidth[l] > 1 /\ Apart(tu[v], tu[u])
    BY <1>0, <2>1 DEF TurnsOK
  <2>4. \A u \in Out(l, tv) \ {v} : LaneWidth[l] > 1 /\ Apart(tv[v], tv[u])
    BY <1>10, <2>1, <2>3
  <2>5. ~c.stopped => c.nextFlush <= tv[v].lo
    BY <1>4, <1>9, <2>1
  <2> QED BY <1>9, <2>1, <2>2, <2>3, <2>4, <2>5
<1>17. DoneOK(l, c, tv, e)
  <2>1. past <= c.queue.head
    BY <1>2, <1>9
  <2>2. \A d \in c.done : /\ past <= d.tick /\ d.tick < c.queue.head
                          /\ d.tick # c.queue.last /\ d.tick # past
                          /\ \A v \in Out(l, tv) : d.tick < tv[v].lo \/ tv[v].hi < d.tick
    <3> SUFFICES ASSUME NEW d \in c.done
                 PROVE  /\ past <= d.tick /\ d.tick < c.queue.head
                        /\ d.tick # c.queue.last /\ d.tick # past
                        /\ \A v \in Out(l, tv) : d.tick < tv[v].lo \/ tv[v].hi < d.tick
      OBVIOUS
    <3>1. d \in all /\ d \notin gone /\ ~r.stopped
      BY <1>9, <1>12
    <3>2. past <= d.tick
      BY <1>1, <1>2, <3>1
    <3>3. d.tick < c.queue.head /\ d.tick # c.queue.last /\ d.tick # past
      BY <1>1, <1>2, <1>9, <1>11, <3>1
    <3>4. \A v \in Out(l, tv) : d.tick < tv[v].lo \/ tv[v].hi < d.tick
      BY <1>5, <1>10, <3>1
    <3> QED BY <3>2, <3>3, <3>4
  <2>3. ASSUME ~e, NEW k \in past .. c.queue.head - 1
        PROVE  \/ \E d \in c.done : d.tick = k
               \/ \E v \in Out(l, tv) : tv[v].lo <= k /\ k <= tv[v].hi
    <3>1. k \in r.nextFlush .. r.queue.head - 1 /\ k \in Nat /\ past <= k
      BY <1>2, <1>6, <1>9, <1>14
    <3>2. \/ \E d \in r.done : d.tick = k
          \/ \E v \in Out(l, tu) : tu[v].lo <= k /\ k <= tu[v].hi
      BY <1>0, <2>3, <3>1 DEF DoneOK
    <3>3. CASE \E d \in r.done : d.tick = k
      <4>1. PICK d \in r.done : d.tick = k
        BY <3>3
      <4>2. d \in all /\ d \notin gone
        BY <1>1, <1>2, <3>1, <4>1
      <4> QED BY <1>9, <4>1, <4>2
    <3>4. CASE tu[w].lo <= k /\ k <= tu[w].hi
      <4>1. CASE r.stopped
        <5>1. r.nextFlush = r.queue.last /\ r.queue.next = r.queue.last + 1 /\ r.queue.last \in Nat
          BY <1>6, <1>7, <4>1, TurnMaxNat
        <5>2. k = r.queue.last
          BY <1>6, <1>7, <3>1, <3>4, <5>1
        <5>3. k \in tu[w].lo .. stop /\ r.nextFlush <= k
          <6>1. k \in tu[w].lo .. tu[w].hi
            BY <1>7, <3>1, <3>4
          <6>2. tu[w].lo = k /\ tu[w].hi = k
            BY <1>1, <5>2, <6>1, TurnOut
          <6> QED BY <1>8, <3>1, <5>1, <5>2, <6>2
        <5>4. PICK d \in b : d.tick = k
          BY <1>1, <5>3
        <5> QED BY <1>11, <5>2, <5>4
      <4>2. CASE ~r.stopped
        <5>1. k \in tu[w].lo .. stop /\ r.nextFlush <= k
          BY <1>7, <1>8, <1>13, <3>1, <3>4, <4>2
        <5>2. PICK d \in b : d.tick = k
          BY <1>1, <5>1
        <5>3. d \in all /\ d \notin gone
          BY <1>1, <1>2, <3>1, <5>2
        <5> QED BY <1>9, <5>2, <5>3
      <4> QED BY <1>6, <4>1, <4>2
    <3>5. CASE \E v \in Out(l, tu) \ {w} : tu[v].lo <= k /\ k <= tu[v].hi
      BY <1>10, <3>5
    <3> QED BY <3>2, <3>3, <3>4, <3>5
  <2> QED BY <1>9, <2>1, <2>2, <2>3 DEF DoneOK
<1>18. OutOK(l, c, tv, sent + n)
  <2>1. ~c.stopped => sent + n = past
    BY <1>7, <1>9, <1>14
  <2>2. c.stopped => c.done = {} /\ c.nextFlush = c.queue.last /\ c.claimed
    BY <1>7, <1>9, <1>12
  <2>3. c.claimed => c.stopped
    BY <1>0, <1>9 DEF OutOK
  <2>4. \A v \in Out(l, tv) : tv[v].lo # c.queue.last
    <3>1. \A v \in Out(l, tu) : tu[v].lo = r.queue.last => Out(l, tu) = {v}
      BY <1>0 DEF OutOK
    <3> QED BY <1>1, <1>9, <1>10, <3>1
  <2> QED BY <1>9, <2>1, <2>2, <2>3, <2>4 DEF OutOK
<1>19. LaneFits(l, c, tv, e, sent + n)
  BY <1>15, <1>16, <1>17, <1>18 DEF LaneFits
<1>20. LaneWidth[l] = 1 => n <= tu[w].hi - tu[w].lo + 1
  <2> SUFFICES ASSUME LaneWidth[l] = 1, n > 0 PROVE n <= tu[w].hi - tu[w].lo + 1
    BY <1>7, <1>14
  <2>1. past - 1 \in r.nextFlush .. past - 1
    BY <1>6, <1>14
  <2>2. PICK d \in gone : d.tick = past - 1
    BY <1>1, <2>1
  <2>3. d \in b /\ tu[w].lo = r.nextFlush
    BY <1>1, <1>3, <2>2
  <2> QED BY <1>1, <1>6, <1>7, <1>8, <1>14, <2>2, <2>3
<1>21. n > 0 => ~r.claimed /\ (LaneClock[l] # "self" => sent + n <= Settled(l, r))
  <2> SUFFICES ASSUME n > 0
               PROVE  ~r.claimed /\ (LaneClock[l] # "self" => sent + n <= Settled(l, r))
    OBVIOUS
  <2>1. ~r.stopped
    BY <1>6, <1>12, <1>14
  <2>2. ~r.claimed /\ sent + n = past
    BY <1>0, <1>7, <1>14, <2>1 DEF OutOK
  <2>3. ASSUME LaneClock[l] # "self" PROVE past <= Settled(l, r)
    <3>1. /\ r.queue.next <= IF r.queue.last = None THEN Settled(l, r) ELSE Settled(l, r) + 1
          /\ r.queue.last # None => r.queue.last = Settled(l, r)
      BY <1>0, <2>1, <2>3 DEF QueueOK, QueueFits
    <3>2. Settled(l, r) \in Nat
      BY <2>3, SettledNat
    <3>3. past - 1 \in r.nextFlush .. past - 1
      BY <1>6, <1>14
    <3>4. PICK d \in gone : d.tick = past - 1
      BY <1>1, <3>3
    <3>5. past - 1 # r.queue.last
      BY <3>4
    <3> QED BY <1>2, <1>6, <3>1, <3>2, <3>5
  <2> QED BY <2>2, <2>3
<1>22. Hands(l, r, c, sent, n, tu[w].hi - tu[w].lo + 1)
  BY <1>7, <1>9, <1>14, <1>20, <1>21 DEF Hands
<1> QED BY <1>9, <1>19, <1>22

\* A claim leaves: what is queued or waits behind it is dropped, and the last
\* call is queued by itself.
LEMMA ClaimLeaves ==
  ASSUME net \in Nets, NEW l \in Lane, NEW r \in LaneRecord(l), NEW tu \in Tours, NEW e \in BOOLEAN,
         NEW sent \in Nat,
         LaneFits(l, r, tu, e, sent), NEW tv, NEW w, NEW stop, NEW b, NEW all, NEW gone, NEW past,
         HandsIn(l, r, tu, tv, w, stop, b), all = r.done \cup b, Unbroken(r, all, gone, past),
         NEW d \in gone, d.tick # r.queue.last, ~r.stopped,
         NEW a \in LaneRecord(l), With(r, all, a), NEW c, c = Claimed(a),
         NEW n, n = d.tick - r.nextFlush + 1
  PROVE  /\ c \in LaneRecord(l) /\ ~c.ended
         /\ LaneFits(l, c, tv, e, sent + n)
         /\ Hands(l, r, c, sent, n, tu[w].hi - tu[w].lo + 1)
<1>0. QueueOK(l, r) /\ TurnsOK(l, r, tu) /\ DoneOK(l, r, tu, e) /\ OutOK(l, r, tu, sent)
  BY DEF LaneFits
<1>1. /\ w \in Out(l, tu) /\ tv \in Tours /\ tv[w] = None
      /\ \A v \in Worker \ {w} : tv[v] = tu[v]
      /\ stop \in tu[w].lo .. tu[w].hi
      /\ \A f \in b : f.tick <= stop
      /\ d \in all
  BY DEF HandsIn, Unbroken
<1>2. /\ all \in SUBSET Results
      /\ d.tick \in Nat /\ r.nextFlush <= d.tick /\ d.tick < r.queue.head
  BY <1>1, FlushKnows
<1>3. LaneWidth[l] = 1 => Out(l, tu) = {w} /\ all = b /\ tu[w].lo = r.nextFlush
  BY FlushKnows
<1>4. /\ r.queue.head \in Nat /\ r.queue.next \in Nat /\ r.queue.last \in Nat \cup {None}
      /\ r.queue.head <= r.queue.next /\ r.nextFlush \in Nat
      /\ r.queue.last # None => r.queue.next = r.queue.last + 1
  BY <1>0, RecordTypes, QueueEnd
<1>5. /\ tu[w].lo \in Nat /\ tu[w].hi \in Nat /\ tu[w].lo <= tu[w].hi
      /\ ~r.ended /\ sent = r.nextFlush
  BY <1>1, TurnOut
<1>6. /\ c \in LaneRecord(l) /\ c.got = r.got /\ c.closed = r.closed
      /\ c.queue.head = r.queue.next /\ c.queue.next = r.queue.next + 1
      /\ c.queue.last = r.queue.next /\ ~c.queue.withheld
      /\ c.done = {} /\ c.nextFlush = r.queue.next
      /\ c.stopped /\ c.claimed /\ ~c.ended
  <2>1. /\ c \in LaneRecord(l) /\ c.got = r.got /\ c.closed = r.closed
        /\ c.queue.head = r.queue.next /\ c.queue.next = r.queue.next + 1
        /\ c.queue.last = r.queue.next /\ ~c.queue.withheld
        /\ c.done = {} /\ c.nextFlush = r.queue.next
        /\ c.stopped /\ c.claimed /\ c.ended = a.ended
    <3>1. a.queue = r.queue /\ a.got = r.got /\ a.closed = r.closed
      BY DEF With
    <3>2. /\ c \in LaneRecord(l) /\ c.got = a.got /\ c.closed = a.closed
          /\ c.queue.head = a.queue.next /\ c.queue.next = a.queue.next + 1
          /\ c.queue.last = a.queue.next /\ ~c.queue.withheld
          /\ c.done = {} /\ c.nextFlush = a.queue.next
          /\ c.stopped /\ c.claimed /\ c.ended = a.ended
      BY ClaimedFields
    <3> QED BY <3>1, <3>2, Zenon
  <2>2. a.ended = r.ended
    BY DEF With
  <2> QED BY <1>5, <2>1, <2>2, Zenon
<1>7. Out(l, tv) = Out(l, tu) \ {w} /\ \A v \in Out(l, tu) \ {w} : tv[v] = tu[v]
  BY <1>1, TurnHandedIn
<1>8. n \in Nat /\ n > 0
  BY <1>2, <1>4
<1>9. QueueOK(l, c)
  <2>1. PICK t : t = Settled(l, c)
    OBVIOUS
  <2>2. PICK v : v = Over(l, c)
    BY Zenon
  <2>3. PICK stopped : stopped = c.stopped
    OBVIOUS
  <2>4. stopped
    BY <1>6, <2>3, Zenon
  <2>5. PICK q : q = c.queue
    OBVIOUS
  <2>6. /\ q.head <= q.next /\ q.next = q.last + 1 /\ q.last # None /\ ~q.withheld
    <3>1. q.head = r.queue.next /\ q.next = r.queue.next + 1 /\ q.last = r.queue.next
      BY <1>6, <2>5
    <3>2. ~q.withheld
      BY <1>6, <2>5, Zenon
    <3> QED BY <1>4, <3>1, <3>2, TurnMaxNat
  <2>7. QueueFits(l, q, t, v, stopped)
    BY <2>4, <2>6 DEF QueueFits
  <2> QED BY <2>1, <2>2, <2>3, <2>5, <2>7, Zenon DEF QueueOK
<1>10. TurnsOK(l, c, tv)
  <2> SUFFICES ASSUME NEW v \in Out(l, tv)
               PROVE  /\ tv[v].lo <= tv[v].hi /\ tv[v].hi < c.queue.head
                      /\ LaneWidth[l] > 1 => tv[v].lo = tv[v].hi
                      /\ LaneWidth[l] = 1 => c.done = {} /\ c.nextFlush = tv[v].lo
                      /\ ~c.stopped => c.nextFlush <= tv[v].lo
                      /\ tv[v].hi = c.queue.last => tv[v].lo = c.queue.last
                      /\ \A u \in Out(l, tv) \ {v} : LaneWidth[l] > 1 /\ Apart(tv[v], tv[u])
    BY DEF TurnsOK
  <2>1. v \in Out(l, tu) \ {w} /\ tv[v] = tu[v]
    BY <1>7
  <2>2. ~(LaneWidth[l] = 1)
    BY <1>3, <2>1
  <2>3. /\ tu[v].lo <= tu[v].hi /\ tu[v].hi < r.queue.head
        /\ LaneWidth[l] > 1 => tu[v].lo = tu[v].hi
        /\ \A u \in Out(l, tu) \ {v} : LaneWidth[l] > 1 /\ Apart(tu[v], tu[u])
    BY <1>0, <2>1 DEF TurnsOK
  <2>4. \A u \in Out(l, tv) \ {v} : LaneWidth[l] > 1 /\ Apart(tv[v], tv[u])
    BY <1>7, <2>1, <2>3
  <2>5. tu[v].hi \in Nat /\ tu[v].hi < r.queue.next
    BY <1>4, <2>1, <2>3, OutTypes
  <2> QED BY <1>4, <1>6, <2>1, <2>2, <2>3, <2>4, <2>5
<1>11. DoneOK(l, c, tv, e)
  <2>1. \A k \in r.queue.next .. r.queue.next - 1 : FALSE
    BY <1>4
  <2>2. r.queue.next <= r.queue.next
    BY <1>4
  <2> QED BY <1>6, <2>1, <2>2 DEF DoneOK
<1>12. OutOK(l, c, tv, sent + n)
  <2>1. \A v \in Out(l, tv) : tv[v].lo # c.queue.last
    <3> SUFFICES ASSUME NEW v \in Out(l, tv) PROVE tv[v].lo # c.queue.last
      OBVIOUS
    <3>1. v \in Out(l, tu) /\ tv[v] = tu[v]
      BY <1>7
    <3>2. tu[v].lo \in Nat /\ tu[v].hi \in Nat /\ tu[v].lo <= tu[v].hi /\ tu[v].hi < r.queue.head
      BY <1>0, <3>1, OutTypes DEF TurnsOK
    <3> QED BY <1>4, <1>6, <3>1, <3>2
  <2> QED BY <1>6, <2>1 DEF OutOK
<1>13. LaneFits(l, c, tv, e, sent + n)
  BY <1>9, <1>10, <1>11, <1>12 DEF LaneFits
<1>14. LaneWidth[l] = 1 => n <= tu[w].hi - tu[w].lo + 1
  <2> SUFFICES ASSUME LaneWidth[l] = 1 PROVE n <= tu[w].hi - tu[w].lo + 1
    OBVIOUS
  <2>1. d.tick <= stop /\ tu[w].lo = r.nextFlush
    BY <1>1, <1>3
  <2>2. stop \in Nat /\ stop <= tu[w].hi
    BY <1>1, <1>5
  <2> QED BY <1>2, <1>4, <1>5, <2>1, <2>2
<1>15. ~r.claimed
  BY <1>0 DEF OutOK
<1>16. LaneClock[l] # "self" => sent + n <= Settled(l, r)
  <2> SUFFICES ASSUME LaneClock[l] # "self" PROVE sent + n <= Settled(l, r)
    OBVIOUS
  <2>1. /\ r.queue.next <= IF r.queue.last = None THEN Settled(l, r) ELSE Settled(l, r) + 1
        /\ r.queue.last # None => r.queue.last = Settled(l, r)
    BY <1>0 DEF QueueOK, QueueFits
  <2>2. Settled(l, r) \in Nat
    BY SettledNat
  <2> QED BY <1>2, <1>4, <1>5, <2>1, <2>2
<1>17. Hands(l, r, c, sent, n, tu[w].hi - tu[w].lo + 1)
  <2>1. n + (IF c.ended THEN 1 ELSE 0) = n
    BY <1>6, <1>8
  <2>2. ~c.ended /\ c.got = r.got /\ c.closed = r.closed /\ ~r.ended
    BY <1>5, <1>6
  <2> QED BY <1>8, <1>14, <1>15, <1>16, <2>1, <2>2 DEF Hands
<1> QED BY <1>6, <1>13, <1>17

\* What completing a turn does to its lane, and hands on.
LEMMA FlushFits ==
  ASSUME net \in Nets, NEW l \in Lane, lane[l] \in LaneRecord(l), NEW tu \in Tours,
         NEW e \in BOOLEAN, NEW sent \in Nat,
         LaneFits(l, lane[l], tu, e, sent), NEW tv, NEW w, NEW stop, NEW b,
         HandsIn(l, lane[l], tu, tv, w, stop, b),
         NEW a \in LaneRecord(l), With(lane[l], lane[l].done \cup b, a), Flush(l, a)
  PROVE  \E c \in LaneRecord(l), n \in Nat :
           /\ LaneFits(l, c, tv, e, sent + n)
           /\ Hands(l, lane[l], c, sent, n, tu[w].hi - tu[w].lo + 1)
           /\ HandOn([lane EXCEPT ![l] = c], l, n, c.ended)
<1> DEFINE r == lane[l]
           all == r.done \cup b
<1>0. /\ a.queue = r.queue /\ a.done = all /\ a.nextFlush = r.nextFlush
      /\ a.stopped = r.stopped /\ a.ended = r.ended
  BY DEF With
<1>1. PICK past \in a.nextFlush .. a.queue.next :
        LET gone   == {d \in a.done : d.tick < past}
            claims == {d \in gone : d.fin /\ d.tick # a.queue.last /\ ~a.stopped}
            last   == \E d \in gone : d.tick = a.queue.last
        IN /\ \A n \in a.nextFlush .. past - 1 : \E d \in gone : d.tick = n
           /\ \A d \in a.done : d.tick # past
           /\ IF claims = {}
                THEN HandOn([lane EXCEPT ![l] = Left(a, gone, past)], l,
                            past - a.nextFlush - (IF last THEN 1 ELSE 0), last)
                ELSE HandOn([lane EXCEPT ![l] = Claimed(a)], l,
                            Min({d.tick : d \in claims}) - a.nextFlush + 1, FALSE)
  BY Zenon DEF Flush
<1> DEFINE gone == {d \in a.done : d.tick < past}
           claims == {d \in gone : d.fin /\ d.tick # a.queue.last /\ ~a.stopped}
           last == \E d \in gone : d.tick = a.queue.last
<1>2. /\ \A n \in a.nextFlush .. past - 1 : \E d \in gone : d.tick = n
      /\ \A d \in a.done : d.tick # past
      /\ claims = {} => HandOn([lane EXCEPT ![l] = Left(a, gone, past)], l,
                               past - a.nextFlush - (IF last THEN 1 ELSE 0), last)
      /\ claims # {} => HandOn([lane EXCEPT ![l] = Claimed(a)], l,
                               Min({d.tick : d \in claims}) - a.nextFlush + 1, FALSE)
  BY <1>1, Zenon
<1>3. PICK g : g = gone
  OBVIOUS
<1>4. Unbroken(r, all, g, past)
  BY <1>0, <1>1, <1>2, <1>3 DEF Unbroken
<1>5. all \in SUBSET Results /\ \A d \in all : d.tick \in Nat
  BY <1>4, FlushKnows
<1>6. PICK al : al = all
  OBVIOUS
<1>7. With(r, al, a) /\ Unbroken(r, al, g, past) /\ HandsIn(l, r, tu, tv, w, stop, b)
  BY <1>4, <1>6, Zenon
<1> HIDE DEF all
<1>8. CASE claims = {} /\ last
  <2>1. PICK c : c = Left(a, g, past)
    OBVIOUS
  <2>2. PICK d \in g : d.tick = r.queue.last
    BY <1>0, <1>3, <1>8
  <2>3. /\ c \in LaneRecord(l) /\ c.ended /\ past - r.nextFlush - 1 = 0
        /\ LaneFits(l, c, tv, e, sent)
        /\ Hands(l, r, c, sent, 0, tu[w].hi - tu[w].lo + 1)
    BY <1>6, <1>7, <2>1, <2>2, LastLeaves DEF all
  <2>4. c.ended \in BOOLEAN
    BY <2>3, RecordTypes
  <2>5. last = c.ended
    BY <1>8, <2>3, <2>4
  <2>6. past - a.nextFlush - (IF last THEN 1 ELSE 0) = 0
    BY <1>0, <1>8, <2>3
  <2>7. HandOn([lane EXCEPT ![l] = c], l, 0, c.ended)
    BY <1>2, <1>3, <1>8, <2>1, <2>5, <2>6, Zenon
  <2>8. sent + 0 = sent
    OBVIOUS
  <2> QED BY <2>3, <2>7, <2>8
<1>9. CASE claims = {} /\ ~last
  <2>1. PICK c : c = Left(a, g, past)
    OBVIOUS
  <2>2. \A d \in g : d.tick # r.queue.last /\ (r.stopped \/ ~d.fin)
    BY <1>0, <1>3, <1>9
  <2>3. PICK n : n = past - r.nextFlush
    OBVIOUS
  <2>4. /\ c \in LaneRecord(l) /\ ~c.ended
        /\ LaneFits(l, c, tv, e, sent + n)
        /\ Hands(l, r, c, sent, n, tu[w].hi - tu[w].lo + 1)
    BY <1>6, <1>7, <2>1, <2>2, <2>3, TicksLeave DEF all
  <2>5. c.ended \in BOOLEAN
    BY <2>4, RecordTypes
  <2>6. last = c.ended
    BY <1>9, <2>4, <2>5
  <2>7. past - a.nextFlush - (IF last THEN 1 ELSE 0) = n
    <3>1. n \in Nat
      BY <2>4 DEF Hands
    <3> QED BY <1>0, <1>9, <2>3, <3>1
  <2>8. HandOn([lane EXCEPT ![l] = c], l, n, c.ended)
    BY <1>2, <1>3, <1>9, <2>1, <2>6, <2>7, Zenon
  <2>9. n \in Nat
    BY <2>4 DEF Hands
  <2> QED BY <2>4, <2>8, <2>9
<1>10. CASE claims # {}
  <2>1. PICK c : c = Claimed(a)
    OBVIOUS
  <2> DEFINE S == {d.tick : d \in claims}
  <2>2. S # {} /\ S \in SUBSET Nat
    BY <1>0, <1>5, <1>10
  <2>3. Min(S) \in S
    BY <2>2, Least
  <2>4. PICK d \in claims : d.tick = Min(S)
    BY <2>3
  <2>5. d \in g /\ d.tick # r.queue.last /\ ~r.stopped
    BY <1>0, <1>3, <2>4
  <2>6. PICK n : n = d.tick - r.nextFlush + 1
    OBVIOUS
  <2>7. /\ c \in LaneRecord(l) /\ ~c.ended
        /\ LaneFits(l, c, tv, e, sent + n)
        /\ Hands(l, r, c, sent, n, tu[w].hi - tu[w].lo + 1)
    BY <1>6, <1>7, <2>1, <2>5, <2>6, ClaimLeaves DEF all
  <2>8. c.ended \in BOOLEAN
    BY <2>7, RecordTypes
  <2>9. c.ended = FALSE
    BY <2>7, <2>8
  <2>10. Min({f.tick : f \in claims}) - a.nextFlush + 1 = n
    BY <1>0, <2>4, <2>6
  <2>11. HandOn([lane EXCEPT ![l] = c], l, n, c.ended)
    BY <1>2, <1>10, <2>1, <2>9, <2>10, Zenon
  <2>12. n \in Nat
    BY <2>7 DEF Hands
  <2> QED BY <2>7, <2>11, <2>12
<1> QED BY <1>8, <1>9, <1>10

-----------------------------------------------------------------------------
(* The lanes of a network, step by step.                                   *)

LEMMA FieldsPrimed ==
  ASSUME UNCHANGED net
  PROVE  /\ Reads' = Reads /\ LaneWidth' = LaneWidth /\ LaneClock' = LaneClock
         /\ Unbuffered' = Unbuffered /\ Cap' = Cap
  BY DEF Reads, LaneWidth, LaneClock, Unbuffered, Cap

\* An operator of the network is the same a step later.
LEMMA FitsPrimed ==
  ASSUME UNCHANGED net, NEW l \in Lane, LaneFits(l, lane'[l], turn', error', carried'[l])
  PROVE  (LaneOK(l))'
<1>0. /\ QueueOK(l, lane'[l]) /\ TurnsOK(l, lane'[l], turn')
      /\ DoneOK(l, lane'[l], turn', error') /\ OutOK(l, lane'[l], turn', carried'[l])
  BY DEF LaneFits
<1>1. (Settled(l, lane[l]))' = Settled(l, lane'[l]) /\ (Over(l, lane[l]))' = Over(l, lane'[l])
  BY FieldsPrimed DEF Settled, Over
<1>2. ASSUME NEW t, NEW v
      PROVE  (Q(l)!Total(t, v))' = Q(l)!Total(t, v)
  BY DEF Q!Total
<1>3. QueueOK(l, lane[l])'
  <2>1. PICK t : t = Settled(l, lane'[l])
    OBVIOUS
  <2>2. PICK v : v = Over(l, lane'[l])
    BY Zenon
  <2>3. PICK stopped : stopped = lane'[l].stopped
    OBVIOUS
  <2>4. PICK q : q = lane'[l].queue
    OBVIOUS
  <2>5. QueueFits(l, q, t, v, stopped)
    BY <1>0, <2>1, <2>2, <2>3, <2>4, Zenon DEF QueueOK
  <2>6. QueueFits(l, q, t, v, stopped)'
    BY <1>2, <2>5, FieldsPrimed DEF QueueFits
  <2>7. QueueFits(l, q, t, v, stopped)' =
          QueueFits(l, lane[l].queue, Settled(l, lane[l]), Over(l, lane[l]), lane[l].stopped)'
    BY <1>1, <2>1, <2>2, <2>3, <2>4, Zenon
  <2> QED BY <2>6, <2>7, Zenon DEF QueueOK
<1>4. TurnsOK(l, lane[l], turn)'
  BY <1>0, FieldsPrimed DEF TurnsOK, Out, Apart
<1>5. DoneOK(l, lane[l], turn, error)'
  BY <1>0 DEF DoneOK, Out
<1>6. OutOK(l, lane[l], turn, carried[l])'
  BY <1>0 DEF OutOK, Out
<1> QED BY <1>3, <1>4, <1>5, <1>6, Zenon DEF LaneOK, LaneFits

LEMMA ReceiveFits ==
  ASSUME net \in Nets, NEW l \in Lane, NEW r \in LaneRecord(l), NEW tu \in Tours,
         NEW e \in BOOLEAN, NEW sent, LaneFits(l, r, tu, e, sent),
         NEW s, NEW n \in Nat, NEW end \in BOOLEAN, n # 0 \/ end => s \notin r.closed,
         NEW c, c = Receive(l, r, s, n, end)
  PROVE  /\ c \in LaneRecord(l) /\ LaneFits(l, c, tu, e, sent)
         /\ c.claimed = r.claimed /\ c.ended = r.ended
         /\ c.closed \subseteq r.closed \cup (IF end THEN {s} ELSE {})
         /\ Over(l, r) => c = r
         /\ LaneClock[l] # "self" => Settled(l, r) <= Settled(l, c)
<1>1. QueueOK(l, r)
  BY DEF LaneFits
<1>2. /\ c \in LaneRecord(l) /\ QueueOK(l, c) /\ LaneMore(r, c)
      /\ c.closed \subseteq r.closed \cup (IF end THEN {s} ELSE {})
      /\ Over(l, r) => c = r
      /\ LaneClock[l] # "self" => Settled(l, r) <= Settled(l, c)
  BY <1>1, ReceiveMore
<1>3. LaneFits(l, c, tu, e, sent)
  BY <1>2, MoreFits
<1> QED BY <1>2, <1>3 DEF LaneMore

\* A lane through a step of the network: it takes what arrives, or it hands on,
\* or a failure stops everything.
Advances(l) ==
  /\ error' = error
  /\ \/ /\ lane'[l].claimed = lane[l].claimed /\ lane'[l].ended = lane[l].ended
        /\ carried'[l] = carried[l]
        /\ Over(l, lane[l]) =>
             lane'[l].got = lane[l].got /\ lane'[l].closed = lane[l].closed
        /\ LaneClock[l] # "self" => Settled(l, lane[l]) <= Settled(l, lane'[l])
     \/ \E n \in Nat, most \in Int : /\ Hands(l, lane[l], lane'[l], carried[l], n, most)
                                     /\ carried'[l] = carried[l] + n

Stops(l) ==
  /\ error'
  /\ lane'[l].got = lane[l].got /\ lane'[l].closed = lane[l].closed
  /\ lane'[l].claimed = lane[l].claimed /\ lane'[l].ended = lane[l].ended
  /\ carried'[l] = carried[l]

LanesNext ==
  /\ \A l \in Lane :
       /\ lane'[l] \in LaneRecord(l)
       /\ LaneFits(l, lane'[l], turn', error', carried'[l])
       /\ Advances(l) \/ Stops(l)
       /\ \A s \in lane'[l].closed : s \in lane[l].closed \/ Silent(s)'
       /\ lane[l].ended => lane'[l].ended
  /\ turn' \in Tours
  /\ carried' \in [Stream -> Nat]
  /\ error' \in BOOLEAN
  /\ RunsTurn'

LEMMA LanesFacts ==
  ASSUME LanesInvariant, net \in Nets
  PROVE  /\ \A l \in Lane : lane[l] \in LaneRecord(l) /\ LaneFits(l, lane[l], turn, error, carried[l])
         /\ turn \in Tours /\ error \in BOOLEAN /\ carried \in [Stream -> Nat]
         /\ worker \in [Worker -> {"awake", "asleep", "run", "gone"}]
         /\ \A l \in Lane : carried[l] \in Nat
         /\ \A w \in Worker : worker[w] = "run" <=> turn[w] # None
<1>1. turn \in Tours /\ error \in BOOLEAN /\ carried \in [Stream -> Nat]
      /\ worker \in [Worker -> {"awake", "asleep", "run", "gone"}]
  BY DEF LanesInvariant, TypeOK, Tours
<1>2. \A l \in Lane : lane[l] \in LaneRecord(l) /\ LaneFits(l, lane[l], turn, error, carried[l])
  BY DEF LanesInvariant, TypeOK, LaneOK
<1>3. \A l \in Lane : carried[l] \in Nat
  BY <1>1 DEF Stream
<1> QED BY <1>1, <1>2, <1>3 DEF LanesInvariant, RunsTurn

LEMMA RunsRoused ==
  ASSUME NEW who \in [Worker -> {"awake", "asleep", "run", "gone"}], worker' = Roused(who)
  PROVE  \A w \in Worker : worker'[w] = "run" <=> who[w] = "run"
  BY DEF Roused

\* Where no lane changes.
LEMMA LanesRest ==
  ASSUME LanesInvariant, net \in Nets, UNCHANGED <<lane, turn, carried>>,
         error' = error \/ error' = TRUE,
         \A w \in Worker : worker'[w] = "run" <=> worker[w] = "run"
  PROVE  LanesNext
<1>1. ASSUME NEW l \in Lane
      PROVE  /\ lane'[l] \in LaneRecord(l)
             /\ LaneFits(l, lane'[l], turn', error', carried'[l])
             /\ Advances(l) \/ Stops(l)
  <2>1. lane[l] \in LaneRecord(l) /\ LaneFits(l, lane[l], turn, error, carried[l])
    BY LanesFacts
  <2>2. CASE error' = error
    <3>1. LaneClock[l] # "self" => Settled(l, lane[l]) <= Settled(l, lane'[l])
      <4>1. LaneClock[l] # "self" => Settled(l, lane[l]) \in Nat
        BY <2>1, SettledNat
      <4> QED BY <4>1
    <3>2. LaneFits(l, lane'[l], turn', error', carried'[l])
      BY <2>1, <2>2, Zenon
    <3> QED BY <2>1, <2>2, <3>1, <3>2 DEF Advances
  <2>3. CASE error' = TRUE
    <3>1. LaneFits(l, lane[l], turn, TRUE, carried[l])
      BY <2>1, FailedFits, Zenon
    <3>2. LaneFits(l, lane'[l], turn', error', carried'[l])
      BY <2>3, <3>1, Zenon
    <3> QED BY <2>1, <2>3, <3>2 DEF Stops
  <2> QED BY <2>2, <2>3
<1>2. turn' \in Tours /\ carried' \in [Stream -> Nat] /\ error' \in BOOLEAN
  BY LanesFacts
<1>3. RunsTurn'
  BY LanesFacts DEF RunsTurn
<1>4. \A l \in Lane : /\ \A s \in lane'[l].closed : s \in lane[l].closed \/ Silent(s)'
                      /\ lane[l].ended => lane'[l].ended
  OBVIOUS
<1> QED BY <1>1, <1>2, <1>3, <1>4 DEF LanesNext

\* The lanes as pick leaves them.
LEMMA PickedFits ==
  ASSUME LanesInvariant, net \in Nets, NEW l \in Lane
  PROVE  /\ Picked[l] \in LaneRecord(l) /\ LaneFits(l, Picked[l], turn, error, carried[l])
         /\ Picked[l].got = lane[l].got /\ Picked[l].closed = lane[l].closed
         /\ Picked[l].claimed = lane[l].claimed /\ Picked[l].ended = lane[l].ended
<1>1. lane[l] \in LaneRecord(l) /\ LaneFits(l, lane[l], turn, error, carried[l])
      /\ turn \in Tours /\ error \in BOOLEAN
  BY LanesFacts
<1>2. CASE Picked[l] = lane[l]
  BY <1>1, <1>2, Zenon
<1>3. CASE Picked[l] = Cut(l, lane[l])
  <2>1. PICK r : r = lane[l]
    OBVIOUS
  <2>2. PICK c : c = Picked[l]
    OBVIOUS
  <2>3. PICK m : m = carried[l]
    OBVIOUS
  <2>4. r \in LaneRecord(l) /\ LaneFits(l, r, turn, error, m) /\ c = Cut(l, r)
    BY <1>1, <1>3, <2>1, <2>2, <2>3, Zenon
  <2>5. QueueOK(l, r)
    BY <2>4 DEF LaneFits
  <2>6. /\ c \in LaneRecord(l) /\ QueueOK(l, c) /\ LaneMore(r, c)
        /\ c.got = r.got /\ c.closed = r.closed
    BY <2>4, <2>5, CutMore
  <2>7. LaneFits(l, c, turn, error, m)
    BY <1>1, <2>4, <2>6, MoreFits
  <2>8. c.claimed = r.claimed /\ c.ended = r.ended
    BY <2>6 DEF LaneMore
  <2> QED BY <2>1, <2>2, <2>3, <2>6, <2>7, <2>8, Zenon
<1> QED BY <1>2, <1>3, Zenon DEF Picked

LEMMA WorkerSleepsLanes ==
  ASSUME LanesInvariant, net \in Nets, NEW w \in Worker, WorkerSleeps(w)
  PROVE  LanesNext
<1>1. /\ lane' = Picked /\ UNCHANGED <<turn, error, carried>>
      /\ worker[w] = "awake" /\ worker' = [worker EXCEPT ![w] = "asleep"]
  BY DEF WorkerSleeps
<1>2. ASSUME NEW l \in Lane
      PROVE  /\ lane'[l] \in LaneRecord(l)
             /\ LaneFits(l, lane'[l], turn', error', carried'[l])
             /\ Advances(l)
             /\ lane'[l].closed = lane[l].closed /\ lane'[l].ended = lane[l].ended
  <2>1. /\ Picked[l] \in LaneRecord(l) /\ LaneFits(l, Picked[l], turn, error, carried[l])
        /\ Picked[l].got = lane[l].got /\ Picked[l].closed = lane[l].closed
        /\ Picked[l].claimed = lane[l].claimed /\ Picked[l].ended = lane[l].ended
    BY PickedFits
  <2>2. /\ lane'[l] \in LaneRecord(l) /\ LaneFits(l, lane'[l], turn', error', carried'[l])
        /\ lane'[l].got = lane[l].got /\ lane'[l].closed = lane[l].closed
        /\ lane'[l].claimed = lane[l].claimed /\ lane'[l].ended = lane[l].ended
    BY <1>1, <2>1, Zenon
  <2>3. LaneClock[l] # "self" => Settled(l, lane[l]) <= Settled(l, lane'[l])
    <3>1. LaneClock[l] # "self" => Settled(l, lane[l]) \in Nat
      BY SettledNat, LanesFacts
    <3>2. Settled(l, lane'[l]) = Settled(l, lane[l])
      BY <2>2, IntakeSame
    <3> QED BY <3>1, <3>2
  <2> QED BY <1>1, <2>2, <2>3 DEF Advances
<1>3. turn' \in Tours /\ carried' \in [Stream -> Nat] /\ error' \in BOOLEAN
  BY <1>1, LanesFacts
<1>4. RunsTurn'
  BY <1>1, LanesFacts DEF RunsTurn
<1> QED BY <1>2, <1>3, <1>4 DEF LanesNext

\* A lane whose inputs stay as they were only takes, or is cut.
LEMMA Unmoved ==
  ASSUME net \in Nets, NEW l \in Lane, lane[l] \in LaneRecord(l),
         error' = error, carried'[l] = carried[l],
         lane'[l].got = lane[l].got, lane'[l].closed = lane[l].closed,
         lane'[l].claimed = lane[l].claimed, lane'[l].ended = lane[l].ended
  PROVE  Advances(l)
<1>1. LaneClock[l] # "self" => Settled(l, lane[l]) \in Nat
  BY SettledNat
<1>2. Settled(l, lane'[l]) = Settled(l, lane[l])
  BY IntakeSame
<1> QED BY <1>1, <1>2 DEF Advances

LEMMA DispatchLanes ==
  ASSUME LanesInvariant, net \in Nets, NEW w \in Worker, NEW l \in Lane, Dispatch(w, l)
  PROVE  /\ LanesNext
         /\ turn'[w] # None /\ turn'[w].hi - turn'[w].lo < TurnMax
         /\ turn'[w].lo \in Nat /\ turn'[w].hi \in Nat /\ turn'[w].lo <= turn'[w].hi
         /\ turn'[w].lane = l /\ (l \in Unbuffered => turn'[w].hi = turn'[w].lo)
         /\ \A v \in Worker \ {w} : turn'[v] = turn[v]
         /\ turn[w] = None
         /\ LaneWidth[l] = 1 => Busy(l) = {}
         /\ Credit(l, Picked)
<1> DEFINE r == Picked[l]
           n == Q(l)!Length(r.queue, Settled(l, r), Over(l, r))
           t == [lane |-> l, lo |-> r.queue.head, hi |-> r.queue.head + n - 1]
<1>1. /\ turn' = [turn EXCEPT ![w] = t]
      /\ lane' = [Picked EXCEPT ![l].queue = Q(l)!Taken(@, n, Settled(l, r), Over(l, r))]
  BY Zenon DEF Dispatch
<1>2. /\ worker[w] = "awake" /\ ~error /\ l \in Preferred(Picked)
      /\ UNCHANGED <<error, carried>>
      /\ worker' = Roused([worker EXCEPT ![w] = "run"])
  BY Zenon DEF Dispatch, Notify, Running
<1>3. /\ turn \in Tours /\ error \in BOOLEAN /\ ~error /\ carried \in [Stream -> Nat]
      /\ worker \in [Worker -> {"awake", "asleep", "run", "gone"}]
      /\ \A v \in Worker : worker[v] = "run" <=> turn[v] # None
      /\ carried[l] \in Nat
  BY <1>2, LanesFacts
<1>4. /\ r \in LaneRecord(l) /\ LaneFits(l, r, turn, error, carried[l])
      /\ r.got = lane[l].got /\ r.closed = lane[l].closed
      /\ r.claimed = lane[l].claimed /\ r.ended = lane[l].ended
  <2>1. /\ r \in LaneRecord(l) /\ LaneFits(l, r, turn, error, carried[l])
        /\ r.got = lane[l].got /\ r.closed = lane[l].closed
        /\ r.claimed = lane[l].claimed /\ r.ended = lane[l].ended
    BY PickedFits
  <2> QED BY <1>3, <2>1, Zenon
<1>5. Dispatchable(l, Picked)
  BY <1>2 DEF Preferred
<1>6. Busy(l) = Out(l, turn)
  BY DEF Busy, Out
<1>7. /\ r.queue.head < r.queue.next /\ Cardinality(Out(l, turn)) < LaneWidth[l]
      /\ r.queue.head = r.queue.last => Out(l, turn) = {}
      /\ Credit(l, Picked)
  BY <1>5, <1>6 DEF Dispatchable
<1>8. LaneWidth[l] = 1 => Out(l, turn) = {}
  <2>1. IsFiniteSet(Out(l, turn))
    BY NetworkAssumption, FS_Subset DEF Out
  <2>2. Cardinality(Out(l, turn)) \in Nat
    BY <2>1, FS_CardinalityType
  <2>3. Cardinality(Out(l, turn)) = 0 <=> Out(l, turn) = {}
    BY <2>1, FS_EmptySet
  <2> QED BY <1>7, <2>2, <2>3
<1>9. Out(l, turn) # {} => LaneWidth[l] > 1
  BY <1>8, NetKinds
<1>10. turn[w] = None
  BY <1>2, <1>3
<1>11. PICK q : q = r
  OBVIOUS
<1>12. PICK c : c = TakenOff(l, q, n)
  OBVIOUS
<1>13. PICK m : m = n
  OBVIOUS
<1>14. PICK tv : tv = Given(turn, w, l, r, n)
  OBVIOUS
<1>15. PICK tu : tu = turn
  OBVIOUS
<1>16. PICK sent : sent = carried[l]
  OBVIOUS
<1>17. /\ c \in LaneRecord(l) /\ tv \in Tours
       /\ LaneFits(l, c, tv, error, sent)
       /\ c.closed = q.closed /\ c.got = q.got /\ c.ended = q.ended /\ c.claimed = q.claimed
       /\ m \in Nat \ {0} /\ m <= TurnMax /\ (l \in Unbuffered => m = 1)
  <2>1. /\ q \in LaneRecord(l) /\ tu \in Tours /\ LaneFits(l, q, tu, error, sent)
        /\ error \in BOOLEAN /\ ~error /\ tu[w] = None /\ q.queue.head < q.queue.next
        /\ (Out(l, tu) # {} => LaneWidth[l] > 1)
        /\ (q.queue.head = q.queue.last => Out(l, tu) = {})
        /\ m = TurnLength(l, q)
        /\ c = TakenOff(l, q, m) /\ tv = Given(tu, w, l, q, m)
    BY <1>3, <1>4, <1>7, <1>9, <1>10, <1>11, <1>12, <1>13, <1>14, <1>15, <1>16, Zenon
       DEF TurnLength, TakenOff, Given
  <2> QED BY <2>1, TurnStarts
<1>18. lane'[l] = c /\ turn' = tv /\ \A k \in Lane \ {l} : lane'[k] = Picked[k]
  <2>1. PICK x : x = Q(l)!Taken(q.queue, n, Settled(l, r), Over(l, r))
    OBVIOUS
  <2>2. lane' = [Picked EXCEPT ![l].queue = x]
    BY <1>1, <1>11, <2>1, Zenon
  <2>3. c = [q EXCEPT !.queue = x]
    BY <1>11, <1>12, <2>1, Zenon DEF TakenOff
  <2>4. Picked = [k \in Lane |-> Picked[k]]
    BY DEF Picked
  <2>5. lane'[l] = [q EXCEPT !.queue = x] /\ \A k \in Lane \ {l} : lane'[k] = Picked[k]
    BY <1>11, <2>2, <2>4
  <2> QED BY <1>1, <1>14, <2>3, <2>5, Zenon DEF Given
<1>19. /\ turn'[w] = t /\ turn'[w].lane = l /\ turn'[w].lo = r.queue.head
       /\ turn'[w].hi = r.queue.head + m - 1 /\ \A v \in Worker \ {w} : turn'[v] = turn[v]
  <2>1. turn'[w] = t /\ \A v \in Worker \ {w} : turn'[v] = turn[v]
    BY <1>1, <1>3 DEF Tours
  <2>2. t.lane = l /\ t.lo = r.queue.head /\ t.hi = r.queue.head + m - 1
    BY <1>13
  <2> QED BY <2>1, <2>2, Zenon
<1> HIDE DEF n, t
<1>20. r.queue.head \in Nat
  BY <1>4, RecordTypes
<1>21. turn'[w] # None
  <2>1. turn'[w] \in [lane : Lane, lo : Nat, hi : Nat]
    BY <1>17, <1>19, <1>20 DEF t, n
  <2> QED BY <2>1, TurnMaxNat
<1>22. /\ lane'[l] \in LaneRecord(l) /\ LaneFits(l, lane'[l], turn', error', carried'[l])
       /\ Advances(l)
       /\ lane'[l].closed = lane[l].closed /\ lane'[l].ended = lane[l].ended
  <2>1. LaneFits(l, lane'[l], turn', error', carried'[l])
    BY <1>2, <1>3, <1>16, <1>17, <1>18, Zenon
  <2>2. /\ lane'[l].got = lane[l].got /\ lane'[l].closed = lane[l].closed
        /\ lane'[l].claimed = lane[l].claimed /\ lane'[l].ended = lane[l].ended
        /\ lane'[l] \in LaneRecord(l)
    BY <1>4, <1>11, <1>17, <1>18, Zenon
  <2>3. lane[l] \in LaneRecord(l) /\ error' = error /\ carried'[l] = carried[l]
    BY <1>2, LanesFacts
  <2> QED BY <2>1, <2>2, <2>3, Unmoved
<1>23. ASSUME NEW k \in Lane, k # l
       PROVE  /\ lane'[k] \in LaneRecord(k) /\ LaneFits(k, lane'[k], turn', error', carried'[k])
              /\ Advances(k)
              /\ lane'[k].closed = lane[k].closed /\ lane'[k].ended = lane[k].ended
  <2>1. /\ Picked[k] \in LaneRecord(k) /\ LaneFits(k, Picked[k], turn, error, carried[k])
        /\ Picked[k].got = lane[k].got /\ Picked[k].closed = lane[k].closed
        /\ Picked[k].claimed = lane[k].claimed /\ Picked[k].ended = lane[k].ended
    BY PickedFits
  <2>2. lane'[k] = Picked[k]
    BY <1>18, <1>23
  <2>3. Out(k, turn') = Out(k, turn) /\ \A v \in Out(k, turn) : turn'[v] = turn[v]
    BY <1>10, <1>19, <1>21, <1>23 DEF Out
  <2>4. LaneFits(k, Picked[k], turn', error, carried[k])
    BY <2>1, <2>3, OthersFit
  <2>5. LaneFits(k, lane'[k], turn', error', carried'[k])
    BY <1>2, <2>2, <2>4, Zenon
  <2>6. lane[k] \in LaneRecord(k) /\ error' = error /\ carried'[k] = carried[k]
    BY <1>2, LanesFacts
  <2>7. /\ lane'[k].got = lane[k].got /\ lane'[k].closed = lane[k].closed
        /\ lane'[k].claimed = lane[k].claimed /\ lane'[k].ended = lane[k].ended
        /\ lane'[k] \in LaneRecord(k)
    BY <2>1, <2>2, Zenon
  <2> QED BY <2>5, <2>6, <2>7, Unmoved
<1>24. RunsTurn'
  <2>1. \A v \in Worker : worker'[v] = "run" <=> [worker EXCEPT ![w] = "run"][v] = "run"
    BY <1>2, <1>3, RunsRoused
  <2>2. \A v \in Worker : worker'[v] = "run" <=> (v = w \/ worker[v] = "run")
    BY <1>3, <2>1
  <2> QED BY <1>3, <1>19, <1>21, <2>2 DEF RunsTurn
<1>25. LanesNext
  <2>1. turn' \in Tours /\ carried' \in [Stream -> Nat] /\ error' \in BOOLEAN
    BY <1>2, <1>3, <1>17, <1>18
  <2> QED BY <1>22, <1>23, <1>24, <2>1 DEF LanesNext
<1>26. /\ turn'[w].hi - turn'[w].lo < TurnMax /\ turn'[w].lo \in Nat /\ turn'[w].hi \in Nat
       /\ turn'[w].lo <= turn'[w].hi /\ (l \in Unbuffered => turn'[w].hi = turn'[w].lo)
  BY <1>17, <1>19, <1>20, TurnMaxNat
<1> QED BY <1>6, <1>7, <1>8, <1>10, <1>19, <1>21, <1>25, <1>26

\* The results of the ticks of a turn from lo that have not left, up to hi.
Made(lo, from, hi, verdict) ==
  {[tick |-> n, fin |-> (n = hi /\ verdict = "finished")] : n \in Max({lo, from}) .. hi}

LEMMA MadeOf ==
  ASSUME NEW lo \in Nat, NEW from \in Nat, NEW hi \in Int, NEW verdict,
         NEW b, b = Made(lo, from, hi, verdict)
  PROVE  /\ b \in SUBSET Results
         /\ \A d \in b : lo <= d.tick /\ from <= d.tick /\ d.tick <= hi
         /\ \A n \in lo .. hi : from <= n =>
              \E d \in b : d.tick = n /\ (n = hi /\ verdict = "finished" => d.fin)
<1> DEFINE top == Max({lo, from})
<1>1. top \in Nat /\ lo <= top /\ from <= top /\ (top = lo \/ top = from)
  BY Greater
<1>2. b = {[tick |-> n, fin |-> (n = hi /\ verdict = "finished")] : n \in top .. hi}
  BY DEF Made
<1> HIDE DEF top
<1>3. ASSUME NEW n \in top .. hi, NEW d, d = [tick |-> n, fin |-> (n = hi /\ verdict = "finished")]
      PROVE  /\ d \in Results /\ d.tick = n /\ lo <= n /\ from <= n /\ n <= hi
             /\ n = hi /\ verdict = "finished" => d.fin
  <2>1. n \in Nat /\ lo <= n /\ from <= n /\ n <= hi
    BY <1>1
  <2>2. (n = hi /\ verdict = "finished") \in BOOLEAN
    OBVIOUS
  <2>3. d \in Results /\ d.tick = n /\ d.fin = (n = hi /\ verdict = "finished")
    BY <1>3, <2>1, <2>2 DEF Results
  <2> QED BY <2>1, <2>3
<1>4. \A d \in b : d \in Results /\ lo <= d.tick /\ from <= d.tick /\ d.tick <= hi
  <2> SUFFICES ASSUME NEW d \in b
               PROVE  d \in Results /\ lo <= d.tick /\ from <= d.tick /\ d.tick <= hi
    OBVIOUS
  <2>1. PICK n \in top .. hi : d = [tick |-> n, fin |-> (n = hi /\ verdict = "finished")]
    BY <1>2
  <2> QED BY <1>3, <2>1
<1>5. \A n \in lo .. hi : from <= n =>
        \E d \in b : d.tick = n /\ (n = hi /\ verdict = "finished" => d.fin)
  <2> SUFFICES ASSUME NEW n \in lo .. hi, from <= n
               PROVE  \E d \in b : d.tick = n /\ (n = hi /\ verdict = "finished" => d.fin)
    OBVIOUS
  <2>1. n \in top .. hi
    BY <1>1
  <2>2. PICK d : d = [tick |-> n, fin |-> (n = hi /\ verdict = "finished")]
    OBVIOUS
  <2>3. d \in b
    BY <1>2, <2>1, <2>2
  <2> QED BY <1>3, <2>1, <2>2, <2>3
<1> QED BY <1>4, <1>5

\* A worker whose turn ends had one.
LEMMA TurnEnds ==
  ASSUME LanesInvariant, net \in Nets, NEW w \in Worker, worker[w] = "run",
         turn' = [turn EXCEPT ![w] = None], worker' = Roused([worker EXCEPT ![w] = "awake"])
  PROVE  /\ turn[w] # None /\ turn[w].lane \in Lane /\ turn[w].lo \in Nat /\ turn[w].hi \in Nat
         /\ w \in Out(turn[w].lane, turn)
         /\ turn' \in Tours /\ turn'[w] = None /\ \A v \in Worker \ {w} : turn'[v] = turn[v]
         /\ RunsTurn'
<1>1. /\ turn \in Tours /\ worker \in [Worker -> {"awake", "asleep", "run", "gone"}]
      /\ \A v \in Worker : worker[v] = "run" <=> turn[v] # None
  BY LanesFacts
<1>2. turn[w] # None /\ turn[w] \in [lane : Lane, lo : Nat, hi : Nat]
  BY <1>1 DEF Tours
<1>3. turn' \in Tours /\ turn'[w] = None /\ \A v \in Worker \ {w} : turn'[v] = turn[v]
  BY <1>1 DEF Tours
<1>4. \A v \in Worker : worker'[v] = "run" <=> (v # w /\ worker[v] = "run")
  <2>1. \A v \in Worker : worker'[v] = "run" <=> [worker EXCEPT ![w] = "awake"][v] = "run"
    BY <1>1, RunsRoused
  <2> QED BY <1>1, <2>1
<1>5. RunsTurn'
  BY <1>1, <1>3, <1>4 DEF RunsTurn
<1> QED BY <1>2, <1>3, <1>5 DEF Out

\* A turn that fails: its lane keeps what was done before the failure.
LEMMA FailsLanes ==
  ASSUME LanesInvariant, net \in Nets, Lanes, NEW w \in Worker, NEW stop,
         Complete(w, stop, "failed")
  PROVE  LanesNext
<1> DEFINE l == turn[w].lane
           b == Made(turn[w].lo, lane[l].nextFlush, stop - 1, "failed")
<1>1. /\ worker[w] = "run" /\ turn' = [turn EXCEPT ![w] = None]
      /\ worker' = Roused([worker EXCEPT ![w] = "awake"])
      /\ stop \in turn[w].lo .. turn[w].hi
      /\ error' = TRUE /\ UNCHANGED carried
      /\ lane' = [lane EXCEPT ![l].done = @ \cup b]
  BY Zenon DEF Complete, Notify, Made
<1>2. /\ l \in Lane /\ turn[w].lo \in Nat /\ turn[w].hi \in Nat /\ w \in Out(l, turn)
      /\ turn' \in Tours /\ turn'[w] = None /\ \A v \in Worker \ {w} : turn'[v] = turn[v]
      /\ RunsTurn'
  BY <1>1, TurnEnds
<1>3. /\ \A k \in Lane : lane[k] \in LaneRecord(k) /\ LaneFits(k, lane[k], turn, error, carried[k])
      /\ turn \in Tours /\ carried \in [Stream -> Nat] /\ error \in BOOLEAN
  BY LanesFacts
<1> HIDE DEF l
<1>4. PICK r : r = lane[l]
  OBVIOUS
<1>5. PICK m : m = carried[l]
  OBVIOUS
<1>6. PICK x : x = Made(turn[w].lo, r.nextFlush, stop - 1, "failed")
  OBVIOUS
<1>7. PICK c : c = [r EXCEPT !.done = @ \cup x]
  OBVIOUS
<1>8. r \in LaneRecord(l) /\ LaneFits(l, r, turn, error, m) /\ r.nextFlush \in Nat
      /\ r.done \in SUBSET Results
  <2>1. r \in LaneRecord(l) /\ LaneFits(l, r, turn, error, m)
    BY <1>2, <1>3, <1>4, <1>5, Zenon
  <2> QED BY <1>2, <2>1, RecordTypes
<1>9. x \in SUBSET Results
      /\ \A d \in x : turn[w].lo <= d.tick /\ r.nextFlush <= d.tick /\ d.tick <= stop - 1
  <2>1. stop - 1 \in Int
    BY <1>1, <1>2
  <2> QED BY <1>2, <1>6, <1>8, <2>1, MadeOf
<1>10. PICK tv : tv = turn'
  OBVIOUS
<1>11. PICK tu : tu = turn
  OBVIOUS
<1>12. c \in LaneRecord(l) /\ LaneFits(l, c, tv, TRUE, m)
  <2>1. /\ tv \in Tours /\ tv[w] = None /\ \A v \in Worker \ {w} : tv[v] = tu[v]
        /\ tu \in Tours /\ w \in Out(l, tu) /\ LaneFits(l, r, tu, error, m)
        /\ stop \in tu[w].lo .. tu[w].hi
        /\ \A d \in x : tu[w].lo <= d.tick /\ r.nextFlush <= d.tick /\ d.tick <= stop - 1
    BY <1>1, <1>2, <1>3, <1>8, <1>9, <1>10, <1>11, Zenon
  <2>2. r.done \cup x \in SUBSET Results
    BY <1>8, <1>9
  <2>3. c \in LaneRecord(l) /\ With(r, r.done \cup x, c)
    BY <1>2, <1>7, <1>8, <2>2, WithFields
  <2>4. LaneFits(l, c, tv, TRUE, m)
    BY <1>2, <1>8, <1>9, <2>1, <2>3, TurnFails
  <2> QED BY <2>3, <2>4
<1>13. lane'[l] = c /\ \A k \in Lane \ {l} : lane'[k] = lane[k]
  <2>1. b = x
    BY <1>4, <1>6, Zenon
  <2> HIDE DEF b
  <2>2. PICK f : f = lane
    OBVIOUS
  <2>3. f = [k \in Lane |-> f[k]]
    BY <2>2, Zenon DEF Lanes
  <2>4. lane' = [f EXCEPT ![l].done = @ \cup x]
    BY <1>1, <2>1, <2>2, Zenon
  <2>5. c = [f[l] EXCEPT !.done = @ \cup x]
    BY <1>4, <1>7, <2>2, Zenon
  <2>6. lane'[l] = c /\ \A k \in Lane \ {l} : lane'[k] = f[k]
    <3>1. PICK g : g = c
      OBVIOUS
    <3>2. lane' = [f EXCEPT ![l] = g]
      BY <2>4, <2>5, <3>1, Zenon
    <3> QED BY <1>2, <2>3, <3>1, <3>2
  <2> QED BY <2>2, <2>6, Zenon
<1>14. c.got = r.got /\ c.closed = r.closed /\ c.claimed = r.claimed /\ c.ended = r.ended
  BY <1>7, <1>8 DEF LaneRecord
<1>15. /\ lane'[l] \in LaneRecord(l) /\ LaneFits(l, lane'[l], turn', error', carried'[l])
       /\ Stops(l) /\ lane'[l].closed = lane[l].closed /\ lane'[l].ended = lane[l].ended
  <2>1. lane'[l] \in LaneRecord(l) /\ LaneFits(l, lane'[l], turn', error', carried'[l])
    BY <1>1, <1>5, <1>10, <1>12, <1>13, Zenon
  <2>2. /\ lane'[l].got = lane[l].got /\ lane'[l].closed = lane[l].closed
        /\ lane'[l].claimed = lane[l].claimed /\ lane'[l].ended = lane[l].ended
    BY <1>4, <1>13, <1>14, Zenon
  <2> QED BY <1>1, <2>1, <2>2 DEF Stops
<1>16. ASSUME NEW k \in Lane, k # l
       PROVE  /\ lane'[k] \in LaneRecord(k) /\ LaneFits(k, lane'[k], turn', error', carried'[k])
              /\ Stops(k) /\ lane'[k].closed = lane[k].closed /\ lane'[k].ended = lane[k].ended
  <2>1. lane'[k] = lane[k]
    BY <1>13, <1>16
  <2>2. Out(k, tv) = Out(k, tu) /\ \A v \in Out(k, tu) : tv[v] = tu[v]
    BY <1>2, <1>3, <1>10, <1>11, <1>16, OtherTurnsStay
  <2>3. LaneFits(k, lane[k], tu, error, carried[k])
    BY <1>3, <1>11, Zenon
  <2>4. PICK n : n = carried[k]
    OBVIOUS
  <2>5. LaneFits(k, lane[k], tu, error, n)
    BY <2>3, <2>4, Zenon
  <2>6. LaneFits(k, lane[k], tv, error, n)
    BY <2>2, <2>5, OthersFit
  <2>7. LaneFits(k, lane[k], tv, TRUE, n)
    BY <2>6, FailedFits
  <2>8. LaneFits(k, lane'[k], turn', error', carried'[k])
    BY <1>1, <1>10, <2>1, <2>4, <2>7, Zenon
  <2> QED BY <1>1, <1>3, <2>1, <2>8 DEF Stops
<1> QED BY <1>1, <1>2, <1>3, <1>15, <1>16 DEF LanesNext

\* What completing a turn hands on reaches the lanes that read it.
LEMMA FlushLanes ==
  ASSUME LanesInvariant, net \in Nets, Lanes, UNCHANGED error,
         NEW l \in Lane, NEW w \in Out(l, turn), NEW tv \in Tours, tv = turn', tv[w] = None,
         \A v \in Worker \ {w} : tv[v] = turn[v], RunsTurn',
         NEW c \in LaneRecord(l), NEW n \in Nat, NEW most \in Int,
         LaneFits(l, c, tv, error, carried[l] + n),
         Hands(l, lane[l], c, carried[l], n, most),
         NEW from, from = [lane EXCEPT ![l] = c], HandOn(from, l, n, c.ended)
  PROVE  LanesNext
<1>1. /\ \A k \in Lane : lane[k] \in LaneRecord(k) /\ LaneFits(k, lane[k], turn, error, carried[k])
      /\ turn \in Tours /\ carried \in [Stream -> Nat] /\ error \in BOOLEAN
      /\ \A k \in Lane : carried[k] \in Nat
  BY LanesFacts
<1>2. from[l] = c /\ \A k \in Lane \ {l} : from[k] = lane[k]
  <2>1. PICK f : f = lane
    OBVIOUS
  <2>2. f = [k \in Lane |-> f[k]]
    BY <2>1, Zenon DEF Lanes
  <2>3. from = [f EXCEPT ![l] = c]
    BY <2>1, Zenon
  <2>4. from[l] = c /\ \A k \in Lane \ {l} : from[k] = f[k]
    BY <2>2, <2>3
  <2> QED BY <2>1, <2>4, Zenon
<1>3. carried' = [carried EXCEPT ![l] = @ + n]
  BY Zenon DEF HandOn
<1>4. /\ l \in Stream /\ carried' \in [Stream -> Nat] /\ carried'[l] = carried[l] + n
      /\ \A k \in Lane \ {l} : carried'[k] = carried[k]
  BY <1>1, <1>3 DEF Stream
<1>5. PICK sent : sent = carried'
  OBVIOUS
<1>6. ASSUME NEW k \in Lane
      PROVE  from[k] \in LaneRecord(k) /\ LaneFits(k, from[k], tv, error, sent[k])
  <2>1. CASE k = l
    BY <1>2, <1>4, <1>5, <2>1, Zenon
  <2>2. CASE k # l
    <3>1. Out(k, tv) = Out(k, turn) /\ \A v \in Out(k, turn) : tv[v] = turn[v]
      BY <1>1, <2>2, OtherTurnsStay
    <3>2. PICK m : m = carried[k]
      OBVIOUS
    <3>3. LaneFits(k, lane[k], turn, error, m)
      BY <1>1, <3>2, Zenon
    <3>4. LaneFits(k, lane[k], tv, error, m)
      BY <3>1, <3>3, OthersFit
    <3>5. sent[k] = m /\ from[k] = lane[k]
      BY <1>2, <1>4, <1>5, <2>2, <3>2
    <3> QED BY <1>1, <3>4, <3>5, Zenon
  <2> QED BY <2>1, <2>2
\* The lane had a turn out, so its stream had not ended.
<1>7. ~lane[l].ended
  BY DEF Hands
<1>8. \A k \in Lane : l \notin from[k].closed
  <2>1. ~Silent(l)
    BY <1>7, NetworkAssumption DEF Silent
  <2>2. \A k \in Lane : l \notin lane[k].closed
    BY <2>1, Zenon DEF LanesInvariant, ClosedSilent
  <2>3. c.closed = lane[l].closed
    BY DEF Hands
  <2> QED BY <1>2, <2>2, <2>3
<1>9. PICK end \in BOOLEAN : end = c.ended
  BY RecordTypes
<1>10. ASSUME NEW k \in Lane
       PROVE  /\ lane'[k] \in LaneRecord(k) /\ LaneFits(k, lane'[k], tv, error, sent[k])
              /\ lane'[k].claimed = from[k].claimed /\ lane'[k].ended = from[k].ended
              /\ lane'[k].closed \subseteq from[k].closed \cup (IF end THEN {l} ELSE {})
              /\ Over(k, from[k]) => lane'[k] = from[k]
              /\ LaneClock[k] # "self" => Settled(k, from[k]) <= Settled(k, lane'[k])
              /\ l \notin Reads[k] => lane'[k] = from[k]
  <2>1. lane'[k] = Receive(k, from[k], l, n, end)
    BY <1>9, Zenon DEF HandOn
  <2>2. l \notin Reads[k] => lane'[k] = from[k]
    BY <2>1, Zenon DEF Receive
  <2>3. PICK d : d = lane'[k]
    OBVIOUS
  <2>4. PICK r : r = from[k]
    OBVIOUS
  <2>5. PICK m : m = sent[k]
    OBVIOUS
  <2>6. PICK e \in BOOLEAN : e = error
    BY <1>1
  <2>7. /\ r \in LaneRecord(k) /\ LaneFits(k, r, tv, e, m)
        /\ (n # 0 \/ end => l \notin r.closed) /\ d = Receive(k, r, l, n, end)
    BY <1>1, <1>6, <1>8, <2>1, <2>3, <2>4, <2>5, <2>6, Zenon
  <2>8. /\ d \in LaneRecord(k) /\ LaneFits(k, d, tv, e, m)
        /\ d.claimed = r.claimed /\ d.ended = r.ended
        /\ d.closed \subseteq r.closed \cup (IF end THEN {l} ELSE {})
        /\ Over(k, r) => d = r
        /\ LaneClock[k] # "self" => Settled(k, r) <= Settled(k, d)
    BY <2>7, ReceiveFits
  <2> QED BY <2>2, <2>3, <2>4, <2>5, <2>6, <2>8, Zenon
<1>11. lane'[l] = c
  BY <1>2, <1>10, NetKinds
<1>12. Advances(l)
  BY <1>4, <1>11 DEF Advances
<1>13. \A k \in Lane \ {l} : Advances(k)
  <2> SUFFICES ASSUME NEW k \in Lane \ {l} PROVE Advances(k)
    OBVIOUS
  <2>1. from[k] = lane[k] /\ carried'[k] = carried[k]
    BY <1>2, <1>4
  <2>2. /\ lane'[k].claimed = lane[k].claimed /\ lane'[k].ended = lane[k].ended
        /\ Over(k, lane[k]) => lane'[k] = lane[k]
        /\ LaneClock[k] # "self" => Settled(k, lane[k]) <= Settled(k, lane'[k])
    BY <1>10, <2>1, Zenon
  <2> QED BY <2>1, <2>2 DEF Advances
<1>14. c.ended => Silent(l)'
  BY <1>11, NetworkAssumption DEF Silent
<1>15. ASSUME NEW k \in Lane, NEW s \in lane'[k].closed
       PROVE  s \in lane[k].closed \/ Silent(s)'
  <2>1. s \in from[k].closed \/ (s = l /\ end)
    BY <1>10
  <2>2. from[k].closed = lane[k].closed
    BY <1>2 DEF Hands
  <2> QED BY <1>9, <1>14, <2>1, <2>2
<1>16. \A k \in Lane : lane[k].ended => lane'[k].ended
  BY <1>2, <1>7, <1>10
<1>17. \A k \in Lane : lane'[k] \in LaneRecord(k) /\ LaneFits(k, lane'[k], turn', error', carried'[k])
  BY <1>5, <1>10, Zenon
<1> QED BY <1>1, <1>4, <1>12, <1>13, <1>15, <1>16, <1>17 DEF LanesNext

\* A turn that ends without a failure.
LEMMA CompletesLanes ==
  ASSUME LanesInvariant, net \in Nets, Lanes, NEW w \in Worker, NEW stop,
         NEW verdict \in {"ok", "finished"}, Complete(w, stop, verdict)
  PROVE  /\ LanesNext
         /\ \E c \in LaneRecord(turn[w].lane), n \in Nat :
              LET l == turn[w].lane IN
              /\ Hands(l, lane[l], c, carried[l], n, turn[w].hi - turn[w].lo + 1)
              /\ HandOn([lane EXCEPT ![l] = c], l, n, c.ended)
              /\ lane'[l].ended = c.ended
<1> DEFINE l == turn[w].lane
           b == Made(turn[w].lo, lane[l].nextFlush, stop, verdict)
<1>1. /\ worker[w] = "run" /\ turn' = [turn EXCEPT ![w] = None]
      /\ worker' = Roused([worker EXCEPT ![w] = "awake"])
      /\ stop \in turn[w].lo .. turn[w].hi
      /\ verdict = "ok" => stop = turn[w].hi
      /\ UNCHANGED error
      /\ Flush(l, [lane[l] EXCEPT !.done = @ \cup b])
  BY Zenon DEF Complete, Notify, Made
<1>2. /\ l \in Lane /\ turn[w].lo \in Nat /\ turn[w].hi \in Nat /\ w \in Out(l, turn)
      /\ turn' \in Tours /\ turn'[w] = None /\ \A v \in Worker \ {w} : turn'[v] = turn[v]
      /\ RunsTurn'
  BY <1>1, TurnEnds
<1>3. /\ \A k \in Lane : lane[k] \in LaneRecord(k) /\ LaneFits(k, lane[k], turn, error, carried[k])
      /\ turn \in Tours /\ carried \in [Stream -> Nat] /\ error \in BOOLEAN
      /\ \A k \in Lane : carried[k] \in Nat
  BY LanesFacts
<1> HIDE DEF l
<1>5. PICK m : m = carried[l]
  OBVIOUS
<1>10. PICK tv : tv = turn'
  OBVIOUS
<1>11. PICK tu : tu = turn
  OBVIOUS
<1>12. PICK e \in BOOLEAN : e = error
  BY <1>3
<1>6. PICK x : x = b
  OBVIOUS
<1>7. PICK a : a = [lane[l] EXCEPT !.done = @ \cup x]
  OBVIOUS
<1>8. lane[l] \in LaneRecord(l) /\ LaneFits(l, lane[l], tu, e, m) /\ lane[l].nextFlush \in Nat
      /\ lane[l].done \in SUBSET Results /\ m \in Nat
  <2>1. lane[l] \in LaneRecord(l) /\ LaneFits(l, lane[l], tu, e, m) /\ m \in Nat
    BY <1>2, <1>3, <1>5, <1>11, <1>12, Zenon
  <2> QED BY <1>2, <2>1, RecordTypes
<1>9. /\ x \in SUBSET Results
      /\ \A d \in x : turn[w].lo <= d.tick /\ lane[l].nextFlush <= d.tick /\ d.tick <= stop
      /\ \A n \in turn[w].lo .. stop : lane[l].nextFlush <= n =>
           \E d \in x : d.tick = n /\ (n = stop /\ verdict = "finished" => d.fin)
  <2>1. stop \in Int
    BY <1>1, <1>2
  <2> QED BY <1>2, <1>6, <1>8, <2>1, MadeOf
<1>13. HandsIn(l, lane[l], tu, tv, w, stop, x)
  <2>1. /\ w \in Out(l, tu) /\ tv \in Tours /\ tv[w] = None
        /\ \A v \in Worker \ {w} : tv[v] = tu[v]
        /\ stop \in tu[w].lo .. tu[w].hi
        /\ \A d \in x : tu[w].lo <= d.tick /\ lane[l].nextFlush <= d.tick /\ d.tick <= stop
    BY <1>1, <1>2, <1>9, <1>10, <1>11, Zenon
  <2>2. stop < tu[w].hi => verdict = "finished"
    BY <1>1, <1>2, <1>11
  <2>3. \A n \in tu[w].lo .. stop : lane[l].nextFlush <= n =>
          \E d \in x : d.tick = n /\ (n = stop /\ stop < tu[w].hi => d.fin)
    BY <1>9, <1>11, <2>2
  <2> QED BY <1>9, <2>1, <2>3 DEF HandsIn
<1>14. a \in LaneRecord(l) /\ With(lane[l], lane[l].done \cup x, a)
  <2>1. PICK r : r = lane[l]
    OBVIOUS
  <2>2. r \in LaneRecord(l) /\ r.done \cup x \in SUBSET Results
    BY <1>8, <1>9, <2>1
  <2>3. a = [r EXCEPT !.done = r.done \cup x]
    BY <1>7, <2>1, Zenon
  <2>4. a \in LaneRecord(l) /\ With(r, r.done \cup x, a)
    BY <1>2, <2>2, <2>3, WithFields
  <2> QED BY <2>1, <2>4, Zenon
<1>15. Flush(l, a)
  BY <1>1, <1>6, <1>7, Zenon
<1>16. PICK c \in LaneRecord(l), n \in Nat :
         /\ LaneFits(l, c, tv, e, m + n)
         /\ Hands(l, lane[l], c, m, n, tu[w].hi - tu[w].lo + 1)
         /\ HandOn([lane EXCEPT ![l] = c], l, n, c.ended)
  BY <1>2, <1>3, <1>8, <1>11, <1>13, <1>14, <1>15, FlushFits
<1>17. PICK most \in Int : most = turn[w].hi - turn[w].lo + 1
  BY <1>2
<1>18. PICK from : from = [lane EXCEPT ![l] = c]
  OBVIOUS
<1>19. /\ LaneFits(l, c, tv, error, carried[l] + n)
       /\ Hands(l, lane[l], c, carried[l], n, most)
       /\ HandOn(from, l, n, c.ended)
       /\ tv \in Tours /\ tv[w] = None /\ \A v \in Worker \ {w} : tv[v] = turn[v]
  BY <1>2, <1>5, <1>10, <1>11, <1>12, <1>16, <1>17, <1>18, Zenon
<1>20. LanesNext
  BY <1>1, <1>2, <1>10, <1>16, <1>17, <1>18, <1>19, FlushLanes
<1>21. lane'[l].ended = c.ended
  <2>1. from[l] = c
    <3>1. PICK f : f = lane
      OBVIOUS
    <3>2. f = [k \in Lane |-> f[k]]
      BY <3>1, Zenon DEF Lanes
    <3>3. from = [f EXCEPT ![l] = c]
      BY <1>18, <3>1, Zenon
    <3> QED BY <1>2, <3>2, <3>3
  <2>2. lane'[l] = Receive(l, from[l], l, n, c.ended)
    BY <1>2, <1>19, Zenon DEF HandOn
  <2>3. l \notin Reads[l]
    BY <1>2, NetKinds
  <2>4. lane'[l] = c
    BY <2>1, <2>2, <2>3, Zenon DEF Receive
  <2> QED BY <2>4
<1>22. /\ Hands(l, lane[l], c, carried[l], n, turn[w].hi - turn[w].lo + 1)
       /\ HandOn([lane EXCEPT ![l] = c], l, n, c.ended)
       /\ lane'[l].ended = c.ended
  BY <1>17, <1>18, <1>19, <1>21, Zenon
<1> QED BY <1>16, <1>20, <1>22, Zenon DEF l

\* An item of an input, or its end, reaches the lanes that read it.
LEMMA FeedsLanes ==
  ASSUME LanesInvariant, net \in Nets, NEW i \in Input, Feeds(i)
  PROVE  LanesNext
<1> DEFINE more == fed[i] < net.gives[i]
<1>1. PICK n \in Nat, end \in BOOLEAN :
        HandOn(lane, i, n, end) /\ (end => ~more)
  <2>1. CASE more
    <3>1. HandOn(lane, i, 1, FALSE)
      BY <2>1, Zenon DEF Feeds
    <3> QED BY <2>1, <3>1
  <2>2. CASE ~more
    <3>1. HandOn(lane, i, 0, TRUE)
      BY <2>2, Zenon DEF Feeds
    <3> QED BY <2>2, <3>1
  <2> QED BY <2>1, <2>2
<1>2. /\ feeder[i] = "awake" /\ UNCHANGED <<turn, error>>
      /\ worker' = Roused(worker)
      /\ feeder' = Roused([feeder EXCEPT ![i] = IF more THEN "awake" ELSE "gone"])
  BY Zenon DEF Feeds, Notify
<1> HIDE DEF more
<1>3. /\ \A k \in Lane : lane[k] \in LaneRecord(k) /\ LaneFits(k, lane[k], turn, error, carried[k])
      /\ turn \in Tours /\ carried \in [Stream -> Nat]
      /\ worker \in [Worker -> {"awake", "asleep", "run", "gone"}]
      /\ \A v \in Worker : worker[v] = "run" <=> turn[v] # None
      /\ error \in BOOLEAN
  BY LanesFacts
<1>4. feeder \in [Input -> {"awake", "asleep", "gone"}]
  BY DEF LanesInvariant, TypeOK
<1>5. i \notin Lane
  BY NetworkAssumption
<1>6. \A k \in Lane : i \notin lane[k].closed
  <2>1. ~Silent(i)
    BY <1>2 DEF Silent
  <2> QED BY <2>1, Zenon DEF LanesInvariant, ClosedSilent
<1>7. carried' \in [Stream -> Nat] /\ \A k \in Lane : carried'[k] = carried[k]
  <2>1. carried' = [carried EXCEPT ![i] = @ + n]
    BY <1>1, Zenon DEF HandOn
  <2> QED BY <1>3, <1>5, <2>1 DEF Stream
<1>8. end => Silent(i)'
  <2>1. end => feeder'[i] = "gone"
    BY <1>1, <1>2, <1>4 DEF Roused
  <2> QED BY <2>1 DEF Silent
<1>9. ASSUME NEW k \in Lane
      PROVE  /\ lane'[k] \in LaneRecord(k) /\ LaneFits(k, lane'[k], turn', error', carried'[k])
             /\ Advances(k)
             /\ \A s \in lane'[k].closed : s \in lane[k].closed \/ Silent(s)'
             /\ lane[k].ended => lane'[k].ended
  <2>1. lane'[k] = Receive(k, lane[k], i, n, end)
    BY <1>1, Zenon DEF HandOn
  <2>3. PICK d : d = lane'[k]
    OBVIOUS
  <2>4. PICK r : r = lane[k]
    OBVIOUS
  <2>5. PICK m : m = carried[k]
    OBVIOUS
  <2>6. PICK e \in BOOLEAN : e = error
    BY <1>3
  <2>7. PICK tu \in Tours : tu = turn
    BY <1>3
  <2>8. /\ r \in LaneRecord(k) /\ LaneFits(k, r, tu, e, m)
        /\ (n # 0 \/ end => i \notin r.closed) /\ d = Receive(k, r, i, n, end)
    BY <1>3, <1>6, <2>1, <2>3, <2>4, <2>5, <2>6, <2>7, Zenon
  <2>9. /\ d \in LaneRecord(k) /\ LaneFits(k, d, tu, e, m)
        /\ d.claimed = r.claimed /\ d.ended = r.ended
        /\ d.closed \subseteq r.closed \cup (IF end THEN {i} ELSE {})
        /\ Over(k, r) => d = r
        /\ LaneClock[k] # "self" => Settled(k, r) <= Settled(k, d)
    BY <2>8, ReceiveFits
  <2>10. /\ lane'[k].claimed = lane[k].claimed /\ lane'[k].ended = lane[k].ended
         /\ Over(k, lane[k]) => lane'[k] = lane[k]
         /\ LaneClock[k] # "self" => Settled(k, lane[k]) <= Settled(k, lane'[k])
    BY <2>3, <2>4, <2>9, Zenon
  <2>11. Advances(k)
    BY <1>2, <1>7, <2>10 DEF Advances
  <2>12. \A s \in lane'[k].closed : s \in lane[k].closed \/ Silent(s)'
    <3>1. \A s \in d.closed : s \in r.closed \/ (s = i /\ end)
      BY <2>9
    <3> QED BY <1>8, <2>3, <2>4, <3>1
  <2>13. lane'[k] \in LaneRecord(k) /\ LaneFits(k, lane'[k], turn', error', carried'[k])
    BY <1>2, <1>7, <2>3, <2>5, <2>6, <2>7, <2>9, Zenon
  <2> QED BY <2>10, <2>11, <2>12, <2>13
<1>10. RunsTurn'
  <2>1. \A v \in Worker : worker'[v] = "run" <=> worker[v] = "run"
    BY <1>2, <1>3, RunsRoused
  <2> QED BY <1>2, <1>3, <2>1 DEF RunsTurn
<1>11. turn' \in Tours /\ error' \in BOOLEAN
  BY <1>2, <1>3
<1> QED BY <1>7, <1>9, <1>10, <1>11 DEF LanesNext

\* Every step of the network is one of its lanes.
LEMMA NextLanes ==
  ASSUME LanesInvariant, net \in Nets, Lanes, Next
  PROVE  LanesNext /\ net' = net
<1>0. net' = net
  BY Zenon DEF Next, Rest, vars
<1>1. /\ worker \in [Worker -> {"awake", "asleep", "run", "gone"}] /\ error \in BOOLEAN
      /\ worker' = Roused(worker) => \A v \in Worker : worker'[v] = "run" <=> worker[v] = "run"
  BY LanesFacts, RunsRoused
<1>2. ASSUME NEW w \in Worker, Work(w) PROVE LanesNext
  <2>1. CASE WorkerStops(w)
    <3>1. /\ UNCHANGED <<lane, turn, carried, error>>
          /\ worker[w] = "awake" /\ worker' = [worker EXCEPT ![w] = "gone"]
      BY <2>1 DEF WorkerStops
    <3>2. \A v \in Worker : worker'[v] = "run" <=> worker[v] = "run"
      BY <1>1, <3>1
    <3> QED BY <3>1, <3>2, LanesRest
  <2>2. CASE WorkerSleeps(w)
    BY <2>2, WorkerSleepsLanes
  <2>3. CASE \E l \in Lane : Dispatch(w, l)
    BY <2>3, DispatchLanes
  <2>4. ASSUME NEW stop, NEW verdict \in {"ok", "finished", "failed"}, Complete(w, stop, verdict)
        PROVE  LanesNext
    <3>1. CASE verdict = "failed"
      BY <2>4, <3>1, FailsLanes
    <3>2. CASE verdict # "failed"
      <4>1. verdict \in {"ok", "finished"}
        BY <3>2
      <4> QED BY <2>4, <4>1, CompletesLanes
    <3> QED BY <3>1, <3>2
  <2> QED BY <1>2, <2>1, <2>2, <2>3, <2>4 DEF Work
<1>3. ASSUME NEW i \in Input, Feed(i) PROVE LanesNext
  <2>1. CASE FeedStops(i) \/ FeedSleeps(i)
    <3>1. UNCHANGED <<lane, turn, carried, error, worker>>
      BY <2>1 DEF FeedStops, FeedSleeps
    <3> QED BY <3>1, LanesRest
  <2>2. CASE Feeds(i)
    BY <2>2, FeedsLanes
  <2>3. CASE Tears(i)
    <3>1. /\ UNCHANGED <<lane, turn, carried>> /\ worker' = Roused(worker)
          /\ error' = (error \/ main \in {"awake", "asleep", "join"})
      BY <2>3, Zenon DEF Tears, Notify
    <3>2. error' = error \/ error' = TRUE
      BY <1>1, <3>1
    <3> QED BY <1>1, <3>1, <3>2, LanesRest
  <2> QED BY <1>3, <2>1, <2>2, <2>3 DEF Feed
<1>4. ASSUME NEW w \in Writer, Write(w) PROVE LanesNext
  <2>1. UNCHANGED <<lane, turn, carried, error>> /\ (worker' = worker \/ worker' = Roused(worker))
    BY <1>4 DEF Write, Idles, Pops, Wakes, Writes, Counts, Asks, Settles, Moves, Notify, sched
  <2> QED BY <1>1, <2>1, LanesRest
<1>5. ASSUME Main PROVE LanesNext
  <2>1. UNCHANGED <<lane, turn, carried, error>> /\ (worker' = worker \/ worker' = Roused(worker))
    BY <1>5, Zenon DEF Main, SetsOver, WaitsFinished, JoinsWorkers, JoinsWriters, Notify, sched
  <2> QED BY <1>1, <2>1, LanesRest
<1>6. ASSUME Rest PROVE LanesNext
  <2>1. UNCHANGED <<lane, turn, carried, error, worker>>
    BY <1>6 DEF Rest, vars, sched
  <2> QED BY <2>1, LanesRest
<1> QED BY <1>0, <1>2, <1>3, <1>4, <1>5, <1>6, Zenon DEF Next

-----------------------------------------------------------------------------
(* The writers, step by step.                                              *)

\* What one step of its own thread does to an output, its record going from o
\* to c.
Quiet(o, c) ==
  /\ c.items = o.items /\ c.hand = o.hand /\ c.ends = o.ends /\ c.wrote = o.wrote
  /\ c.fate = o.fate /\ c.result = o.result
  /\ \/ o.pc = "next" /\ c.pc = "idle" /\ ~c.taken
     \/ o.pc \in {"next", "pop"} /\ c.pc = "wait" /\ c.taken = o.taken /\ o.items = <<>>
     \/ o.pc = "idle" /\ c.pc = "pop" /\ c.taken = o.taken
     \/ o.pc = "took" /\ c.pc = "write" /\ c.taken = o.taken
     \/ o.pc = "closed" /\ c.pc = "gone" /\ c.taken = o.taken
     \/ o.pc = "last" /\ c.pc \in {"ask", "settle"} /\ c.taken = o.taken
     \/ o.pc = "ask" /\ c.pc = "settle" /\ c.taken = o.taken

Takes(o, c) ==
  /\ o.pc \in {"next", "pop"} /\ c.pc = "took" /\ o.items # <<>>
  /\ c.hand = Head(o.items) /\ c.items = Tail(o.items) /\ c.taken
  /\ c.ends = o.ends /\ c.wrote = o.wrote /\ c.fate = o.fate /\ c.result = o.result

Puts(w, o, c) ==
  /\ o.pc = "write" /\ c.pc = "next"
  /\ \E s \in Reads[w] : o.hand = <<s, "item">> /\ c.wrote = [o.wrote EXCEPT ![s] = @ + 1]
  /\ c.items = o.items /\ c.hand = o.hand /\ c.taken = o.taken /\ c.ends = o.ends
  /\ c.fate = o.fate /\ c.result = o.result

Ends(w, o, c) ==
  /\ o.pc = "write"
  /\ \E s \in Reads[w] : o.hand = <<s, "end">> /\ c.ends = o.ends \cup {s}
  /\ c.pc = IF c.ends = Reads[w] THEN "last" ELSE "next"
  /\ c.items = o.items /\ c.hand = o.hand /\ c.taken = o.taken /\ c.wrote = o.wrote
  /\ c.fate = o.fate /\ c.result = o.result

Breaks(o, c) ==
  /\ o.pc \in {"write", "next"} /\ c.pc = "last" /\ c.result \in {"closed", "failed"}
  /\ c.items = o.items /\ c.hand = o.hand /\ c.taken = o.taken /\ c.ends = o.ends
  /\ c.wrote = o.wrote /\ c.fate = o.fate

Closes(o, c) ==
  /\ o.pc = "settle" /\ c.pc = "closed" /\ c.fate = o.result /\ c.items = <<>>
  /\ c.hand = o.hand /\ c.taken = o.taken /\ c.ends = o.ends
  /\ c.wrote = o.wrote /\ c.result = o.result

WriterStep(w, o, c) ==
  Quiet(o, c) \/ Takes(o, c) \/ Puts(w, o, c) \/ Ends(w, o, c) \/ Breaks(o, c) \/ Closes(o, c)

LEMMA WriterFields ==
  ASSUME NEW w \in Writer, NEW o \in WriterRecord(w)
  PROVE  /\ o.pc \in WriterPc /\ o.items \in Seq(Said(w)) /\ o.taken \in BOOLEAN
         /\ o.hand \in Said(w) \cup {None} /\ o.ends \in SUBSET Reads[w]
         /\ o.wrote \in [Reads[w] -> Nat]
         /\ o.fate \in {"open", "done", "closed", "failed"}
         /\ o.result \in {"done", "closed", "failed"}
  BY DEF WriterRecord

\* The record of the output alone changes.
LEMMA OneWriter ==
  ASSUME Outs, NEW w \in Writer, NEW c, writer' = [writer EXCEPT ![w] = c]
  PROVE  writer'[w] = c /\ \A v \in Writer \ {w} : writer'[v] = writer[v]
<1>1. PICK f : f = writer
  OBVIOUS
<1>2. f = [v \in Writer |-> f[v]]
  BY <1>1, Zenon DEF Outs
<1>3. writer' = [f EXCEPT ![w] = c]
  BY <1>1, Zenon
<1>4. writer'[w] = c /\ \A v \in Writer \ {w} : writer'[v] = f[v]
  BY <1>2, <1>3
<1> QED BY <1>1, <1>4, Zenon

LEMMA WriteSteps ==
  ASSUME net \in Nets, Outs, NEW w \in Writer, NEW o \in WriterRecord(w), o = writer[w], Write(w)
  PROVE  \E c \in WriterRecord(w) :
           /\ writer' = [writer EXCEPT ![w] = c]
           /\ WriterStep(w, o, c)
           /\ o.pc = "last" <=> Counts(w)
<1>0. /\ o.pc \in WriterPc /\ o.items \in Seq(Said(w)) /\ o.taken \in BOOLEAN
      /\ o.hand \in Said(w) \cup {None} /\ o.ends \in SUBSET Reads[w]
      /\ o.wrote \in [Reads[w] -> Nat]
      /\ o.fate \in {"open", "done", "closed", "failed"}
      /\ o.result \in {"done", "closed", "failed"}
  BY WriterFields
<1>1. CASE Idles(w)
  <2>1. PICK c : c = [o EXCEPT !.taken = FALSE, !.pc = "idle"]
    OBVIOUS
  <2>2. o.pc = "next" /\ writer' = [writer EXCEPT ![w] = c]
    BY <1>1, <2>1, Zenon DEF Idles, Moves
  <2>3. c \in WriterRecord(w) /\ Quiet(o, c)
    BY <1>0, <2>1, <2>2 DEF WriterRecord, WriterPc, Quiet
  <2> QED BY <2>2, <2>3 DEF WriterStep, Counts
<1>2. CASE Pops(w)
  <2>1. CASE o.items = <<>>
    <3>1. PICK c : c = [o EXCEPT !.pc = "wait"]
      OBVIOUS
    <3>2. o.pc \in {"pop", "next"} /\ writer' = [writer EXCEPT ![w] = c]
      BY <1>2, <2>1, <3>1 DEF Pops, Moves
    <3>3. c \in WriterRecord(w) /\ Quiet(o, c)
      BY <1>0, <2>1, <3>1, <3>2 DEF WriterRecord, WriterPc, Quiet
    <3> QED BY <3>2, <3>3 DEF WriterStep, Counts
  <2>2. CASE o.items # <<>>
    <3>1. PICK head : head = Head(o.items)
      OBVIOUS
    <3>2. PICK tail : tail = Tail(o.items)
      OBVIOUS
    <3>3. PICK c : c = [o EXCEPT !.hand = head, !.taken = TRUE, !.pc = "took", !.items = tail]
      OBVIOUS
    <3>4. head \in Said(w) /\ tail \in Seq(Said(w))
      BY <1>0, <2>2, <3>1, <3>2
    <3>5. o.pc \in {"pop", "next"} /\ writer' = [writer EXCEPT ![w] = c]
      BY <1>2, <2>2, <3>1, <3>2, <3>3 DEF Pops, Moves
    <3>6. c \in WriterRecord(w) /\ Takes(o, c)
      BY <1>0, <2>2, <3>1, <3>2, <3>3, <3>4, <3>5 DEF WriterRecord, WriterPc, Takes
    <3> QED BY <3>5, <3>6 DEF WriterStep, Counts
  <2> QED BY <2>1, <2>2
<1>3. CASE Wakes(w)
  <2>1. PICK pc : pc = CASE o.pc = "idle" -> "pop" [] o.pc = "took" -> "write"
                         [] o.pc = "closed" -> "gone"
    OBVIOUS
  <2>2. PICK c : c = [o EXCEPT !.pc = pc]
    OBVIOUS
  <2>3. o.pc \in {"idle", "took", "closed"} /\ writer' = [writer EXCEPT ![w] = c]
    BY <1>3, <2>1, <2>2, Zenon DEF Wakes
  <2>4. c \in WriterRecord(w) /\ Quiet(o, c)
    BY <1>0, <2>1, <2>2, <2>3 DEF WriterRecord, WriterPc, Quiet
  <2> QED BY <2>3, <2>4 DEF WriterStep, Counts
<1>4. CASE Writes(w)
  <2>0. o.pc \in {"write", "next"}
    BY <1>4 DEF Writes, Unopened
  <2>1. ASSUME NEW s \in Reads[w], o.pc = "write", o.hand = <<s, "item">>,
               Moves(w, [o EXCEPT !.pc = "next", !.wrote[s] = @ + 1])
        PROVE  \E c \in WriterRecord(w) : writer' = [writer EXCEPT ![w] = c] /\ Puts(w, o, c)
    <3>1. PICK wrote : wrote = [o.wrote EXCEPT ![s] = @ + 1]
      OBVIOUS
    <3>2. PICK c : c = [o EXCEPT !.pc = "next", !.wrote = wrote]
      OBVIOUS
    <3>3. writer' = [writer EXCEPT ![w] = c]
      BY <2>1, <3>1, <3>2, Zenon DEF Moves
    <3>4. wrote \in [Reads[w] -> Nat]
      BY <1>0, <3>1
    <3>5. c \in WriterRecord(w)
      BY <1>0, <3>2, <3>4 DEF WriterRecord, WriterPc
    <3>6. Puts(w, o, c)
      BY <2>1, <3>1, <3>2 DEF Puts, WriterRecord
    <3> QED BY <3>3, <3>5, <3>6
  <2>2. ASSUME NEW s \in Reads[w], o.pc = "write", o.hand = <<s, "end">>,
               Moves(w, [o EXCEPT !.ends = @ \cup {s},
                           !.pc = IF o.ends \cup {s} = Reads[w] THEN "last" ELSE "next"])
        PROVE  \E c \in WriterRecord(w) : writer' = [writer EXCEPT ![w] = c] /\ Ends(w, o, c)
    <3>1. PICK ends : ends = o.ends \cup {s}
      OBVIOUS
    <3>2. PICK pc : pc = IF ends = Reads[w] THEN "last" ELSE "next"
      OBVIOUS
    <3>3. PICK c : c = [o EXCEPT !.ends = ends, !.pc = pc]
      OBVIOUS
    <3>4. writer' = [writer EXCEPT ![w] = c]
      BY <2>2, <3>1, <3>2, <3>3, Zenon DEF Moves
    <3>5. ends \in SUBSET Reads[w] /\ pc \in {"last", "next"}
      BY <1>0, <3>1, <3>2
    <3>6. c \in WriterRecord(w)
      BY <1>0, <3>3, <3>5 DEF WriterRecord, WriterPc
    <3>7. Ends(w, o, c)
      BY <2>2, <3>1, <3>2, <3>3 DEF Ends, WriterRecord
    <3> QED BY <3>4, <3>6, <3>7
  <2>3. ASSUME NEW result \in {"closed", "failed"},
               Moves(w, [o EXCEPT !.pc = "last", !.result = result])
        PROVE  \E c \in WriterRecord(w) : writer' = [writer EXCEPT ![w] = c] /\ Breaks(o, c)
    <3>1. PICK c : c = [o EXCEPT !.pc = "last", !.result = result]
      OBVIOUS
    <3>2. writer' = [writer EXCEPT ![w] = c]
      BY <2>3, <3>1, Zenon DEF Moves
    <3>3. c \in WriterRecord(w) /\ Breaks(o, c)
      BY <1>0, <2>0, <3>1 DEF WriterRecord, WriterPc, Breaks
    <3> QED BY <3>2, <3>3
  <2>4. \/ \E s \in Reads[w] : o.pc = "write" /\ o.hand = <<s, "item">>
             /\ Moves(w, [o EXCEPT !.pc = "next", !.wrote[s] = @ + 1])
        \/ \E s \in Reads[w] : o.pc = "write" /\ o.hand = <<s, "end">>
             /\ Moves(w, [o EXCEPT !.ends = @ \cup {s},
                            !.pc = IF o.ends \cup {s} = Reads[w] THEN "last" ELSE "next"])
        \/ Moves(w, [o EXCEPT !.pc = "last", !.result = "closed"])
        \/ Moves(w, [o EXCEPT !.pc = "last", !.result = "failed"])
    BY <1>4, Zenon DEF Writes
  <2>5. \E c \in WriterRecord(w) :
          writer' = [writer EXCEPT ![w] = c] /\ (Puts(w, o, c) \/ Ends(w, o, c) \/ Breaks(o, c))
    BY <2>1, <2>2, <2>3, <2>4
  <2> QED BY <2>0, <2>5 DEF WriterStep, Counts
<1>5. CASE Counts(w)
  <2>1. PICK pc : pc = IF writing = 1 /\ o.result = "done" THEN "ask" ELSE "settle"
    OBVIOUS
  <2>2. PICK c : c = [o EXCEPT !.pc = pc]
    OBVIOUS
  <2>3. o.pc = "last" /\ writer' = [writer EXCEPT ![w] = c]
    BY <1>5, <2>1, <2>2, Zenon DEF Counts
  <2>4. pc \in {"ask", "settle"}
    BY <2>1
  <2>5. c \in WriterRecord(w) /\ Quiet(o, c)
    BY <1>0, <2>2, <2>3, <2>4 DEF WriterRecord, WriterPc, Quiet
  <2> QED BY <1>5, <2>3, <2>5 DEF WriterStep
<1>6. CASE Asks(w)
  <2>1. PICK c : c = [o EXCEPT !.pc = "settle"]
    OBVIOUS
  <2>2. o.pc = "ask" /\ writer' = [writer EXCEPT ![w] = c]
    BY <1>6, <2>1, Zenon DEF Asks
  <2>3. c \in WriterRecord(w) /\ Quiet(o, c)
    BY <1>0, <2>1, <2>2 DEF WriterRecord, WriterPc, Quiet
  <2> QED BY <2>2, <2>3 DEF WriterStep, Counts
<1>7. CASE Settles(w)
  <2>0. PICK none \in Seq(Said(w)) : none = <<>>
    BY EmptySeq, Zenon
  <2>1. PICK c : c = [o EXCEPT !.pc = "closed", !.fate = o.result, !.items = none]
    OBVIOUS
  <2>2. o.pc = "settle" /\ writer' = [writer EXCEPT ![w] = c]
    BY <1>7, <2>0, <2>1, Zenon DEF Settles, Moves
  <2>3. c \in WriterRecord(w)
    BY <1>0, <2>1, <2>2 DEF WriterRecord, WriterPc
  <2>4. /\ c.pc = "closed" /\ c.fate = o.result /\ c.items = none /\ c.hand = o.hand
        /\ c.taken = o.taken /\ c.ends = o.ends /\ c.wrote = o.wrote /\ c.result = o.result
    BY <2>1 DEF WriterRecord
  <2>5. Closes(o, c)
    BY <2>0, <2>2, <2>4, Zenon DEF Closes
  <2> QED BY <2>2, <2>3, <2>5 DEF WriterStep, Counts
<1> QED BY <1>1, <1>2, <1>3, <1>4, <1>5, <1>6, <1>7 DEF Write

\* An open output is handed n items of stream s and its end: they queue behind
\* what it has.
Pushed(o, s, n, end, c) ==
  /\ c.pc = (IF o.pc = "wait" THEN "pop" ELSE o.pc)
  /\ c.taken = o.taken /\ c.hand = o.hand /\ c.ends = o.ends /\ c.wrote = o.wrote
  /\ c.fate = o.fate /\ c.result = o.result
  /\ Len(c.items) = Len(o.items) + n + (IF end THEN 1 ELSE 0)
  /\ \A k \in 1 .. Len(o.items) : c.items[k] = o.items[k]
  /\ \A k \in Len(o.items) + 1 .. Len(o.items) + n : c.items[k] = <<s, "item">>
  /\ end => c.items[Len(o.items) + n + 1] = <<s, "end">>

LEMMA Same ==
  ASSUME NEW S, NEW x \in S, NEW n \in Nat, NEW s, s = [k \in 1 .. n |-> x]
  PROVE  s \in Seq(S) /\ Len(s) = n /\ \A k \in 1 .. n : s[k] = x
<1>1. s \in [1 .. n -> S]
  OBVIOUS
<1>2. s \in Seq(S)
  BY <1>1, SeqDef
<1>3. DOMAIN s = 1 .. n
  OBVIOUS
<1>4. Len(s) = n
  <2>1. Len(s) \in Nat /\ DOMAIN s = 1 .. Len(s)
    BY <1>2, LenProperties
  <2> QED BY <1>3, <2>1
<1> QED BY <1>2, <1>4

LEMMA PushFields ==
  ASSUME net \in Nets, NEW w \in Writer, NEW o \in WriterRecord(w), o = writer[w],
         NEW s, NEW n \in Nat, NEW end \in BOOLEAN, NEW c, c = Push(w, s, n, end)
  PROVE  /\ c \in WriterRecord(w)
         /\ s \notin Reads[w] \/ o.fate # "open" => c = o
         /\ s \in Reads[w] /\ o.fate = "open" => Pushed(o, s, n, end, c)
<1>0. /\ o.pc \in WriterPc /\ o.items \in Seq(Said(w)) /\ o.taken \in BOOLEAN
      /\ o.hand \in Said(w) \cup {None} /\ o.ends \in SUBSET Reads[w]
      /\ o.wrote \in [Reads[w] -> Nat]
      /\ o.fate \in {"open", "done", "closed", "failed"}
      /\ o.result \in {"done", "closed", "failed"}
  BY WriterFields
<1>1. CASE s \notin Reads[w] \/ o.fate # "open"
  BY <1>1 DEF Push
<1>2. CASE s \in Reads[w] /\ o.fate = "open"
  <2>1. PICK x : x = <<s, "item">>
    OBVIOUS
  <2>2. PICK y : y = <<s, "end">>
    OBVIOUS
  <2>3. PICK run : run = [k \in 1 .. n |-> x]
    OBVIOUS
  <2>4. PICK tail : tail = IF end THEN <<y>> ELSE <<>>
    OBVIOUS
  <2>5. PICK more : more = o.items \o run
    OBVIOUS
  <2>6. PICK all : all = more \o tail
    OBVIOUS
  <2>7. PICK pc : pc = IF o.pc = "wait" THEN "pop" ELSE o.pc
    OBVIOUS
  <2>8. c = [o EXCEPT !.items = all, !.pc = pc]
    <3>1. c = [o EXCEPT !.items = o.items \o [k \in 1 .. n |-> <<s, "item">>]
                                    \o (IF end THEN << <<s, "end">> >> ELSE <<>>),
                        !.pc = IF o.pc = "wait" THEN "pop" ELSE o.pc]
      BY <1>2, Zenon DEF Push
    <3>2. run = [k \in 1 .. n |-> <<s, "item">>]
      BY <2>1, <2>3, Zenon
    <3>3. tail = IF end THEN << <<s, "end">> >> ELSE <<>>
      BY <2>2, <2>4, Zenon
    <3>4. all = o.items \o [k \in 1 .. n |-> <<s, "item">>]
                  \o (IF end THEN << <<s, "end">> >> ELSE <<>>)
      BY <2>5, <2>6, <3>2, <3>3, Zenon
    <3> QED BY <2>7, <3>1, <3>4, Zenon
  <2>9. x \in Said(w) /\ y \in Said(w)
    BY <1>2, <2>1, <2>2 DEF Said
  <2>10. run \in Seq(Said(w)) /\ Len(run) = n /\ \A k \in 1 .. n : run[k] = x
    BY <2>3, <2>9, Same
  <2>11. /\ tail \in Seq(Said(w)) /\ Len(tail) = (IF end THEN 1 ELSE 0) /\ Len(tail) \in Nat
         /\ end => tail[1] = y
    <3>1. CASE end
      BY <2>4, <2>9, <3>1
    <3>2. CASE ~end
      BY <2>4, <3>2, EmptySeq
    <3> QED BY <3>1, <3>2
  <2>12. Len(o.items) \in Nat
    BY <1>0, LenProperties
  <2>13. /\ more \in Seq(Said(w)) /\ Len(more) = Len(o.items) + n
         /\ \A k \in 1 .. Len(o.items) + n : more[k] =
              IF k <= Len(o.items) THEN o.items[k] ELSE run[k - Len(o.items)]
    <3>1. /\ more \in Seq(Said(w)) /\ Len(more) = Len(o.items) + Len(run)
          /\ \A k \in 1 .. Len(o.items) + Len(run) : more[k] =
               IF k <= Len(o.items) THEN o.items[k] ELSE run[k - Len(o.items)]
      <4>1. o.items \in Seq(Said(w)) /\ run \in Seq(Said(w))
        BY <1>0, <2>10
      <4> QED BY <2>5, <4>1, ConcatProperties
    <3>2. Len(run) = n
      BY <2>10
    <3>3. Len(more) = Len(o.items) + n
      BY <2>12, <3>1, <3>2
    <3>4. ASSUME NEW k \in 1 .. Len(o.items) + n
          PROVE  more[k] = IF k <= Len(o.items) THEN o.items[k] ELSE run[k - Len(o.items)]
      <4>1. k \in 1 .. Len(o.items) + Len(run)
        BY <2>12, <3>2
      <4> QED BY <3>1, <4>1
    <3> QED BY <3>1, <3>3, <3>4
  <2>14. /\ all \in Seq(Said(w)) /\ Len(all) = Len(more) + Len(tail)
         /\ \A k \in 1 .. Len(more) + Len(tail) : all[k] =
              IF k <= Len(more) THEN more[k] ELSE tail[k - Len(more)]
    BY <2>6, <2>11, <2>13, ConcatProperties
  <2>23. Len(more) = Len(o.items) + n /\ Len(more) \in Nat /\ Len(tail) \in Nat
    <3>1. Len(more) = Len(o.items) + n
      BY <2>13, Zenon
    <3>2. Len(tail) \in Nat
      BY <2>11, Zenon
    <3> QED BY <2>12, <3>1, <3>2
  <2>15. pc \in WriterPc
    BY <1>0, <2>7 DEF WriterPc
  <2>16. c \in WriterRecord(w)
    BY <1>0, <2>8, <2>14, <2>15 DEF WriterRecord
  <2>17. /\ c.pc = pc /\ c.items = all
         /\ c.taken = o.taken /\ c.hand = o.hand /\ c.ends = o.ends /\ c.wrote = o.wrote
         /\ c.fate = o.fate /\ c.result = o.result
    BY <1>0, <2>8 DEF WriterRecord
  <2>18. Len(all) = Len(o.items) + n + (IF end THEN 1 ELSE 0)
    BY <2>11, <2>12, <2>13, <2>14
  <2>19. \A k \in 1 .. Len(o.items) : all[k] = o.items[k]
    <3> SUFFICES ASSUME NEW k \in 1 .. Len(o.items) PROVE all[k] = o.items[k]
      OBVIOUS
    <3>1. k \in 1 .. Len(o.items) + n /\ k <= Len(o.items)
      BY <2>12
    <3>2. k \in 1 .. Len(more) + Len(tail) /\ k <= Len(more)
      BY <2>12, <2>23, <3>1
    <3> QED BY <2>13, <2>14, <3>1, <3>2
  <2>20. \A k \in Len(o.items) + 1 .. Len(o.items) + n : all[k] = x
    <3> SUFFICES ASSUME NEW k \in Len(o.items) + 1 .. Len(o.items) + n
                 PROVE  all[k] = x
      OBVIOUS
    <3>1. k \in 1 .. Len(o.items) + n /\ ~(k <= Len(o.items)) /\ k - Len(o.items) \in 1 .. n
      BY <2>12
    <3>2. k \in 1 .. Len(more) + Len(tail) /\ k <= Len(more)
      BY <2>12, <2>23, <3>1
    <3> QED BY <2>10, <2>13, <2>14, <3>1, <3>2
  <2>21. end => all[Len(o.items) + n + 1] = y
    <3> SUFFICES ASSUME end PROVE all[Len(o.items) + n + 1] = y
      OBVIOUS
    <3> DEFINE k == Len(o.items) + n + 1
    <3>1. k \in 1 .. Len(more) + Len(tail) /\ ~(k <= Len(more)) /\ k - Len(more) = 1
      BY <2>11, <2>12, <2>13
    <3> QED BY <2>11, <2>14, <3>1
  <2>22. Pushed(o, s, n, end, c)
    BY <2>1, <2>2, <2>7, <2>17, <2>18, <2>19, <2>20, <2>21 DEF Pushed
  <2> QED BY <1>2, <2>16, <2>22
<1> QED BY <1>1, <1>2

\* An output moves by itself, or all are handed something of a stream that had
\* not ended.
Gives(s, n, end) ==
  /\ ~Silent(s) /\ (end => Silent(s)')
  /\ carried' = [carried EXCEPT ![s] = @ + n]
  /\ writer' = [w \in Writer |-> Push(w, s, n, end)]

WritersNext ==
  \/ UNCHANGED <<carried, writer, writing>>
  \/ /\ UNCHANGED carried
     /\ \E w \in Writer : \E c \in WriterRecord(w) :
          /\ writer' = [writer EXCEPT ![w] = c] /\ WriterStep(w, writer[w], c)
          /\ writing' = IF writer[w].pc = "last" THEN writing - 1 ELSE writing
  \/ /\ UNCHANGED writing
     /\ \E s \in Stream, n \in Nat, end \in BOOLEAN : Gives(s, n, end)

LEMMA CompletesGives ==
  ASSUME LanesInvariant, net \in Nets, Lanes, NEW w \in Worker, worker[w] = "run",
         NEW stop, NEW verdict \in {"ok", "finished"}, Complete(w, stop, verdict)
  PROVE  \E s \in Stream, n \in Nat, end \in BOOLEAN : Gives(s, n, end)
<1>1. turn[w].lane \in Lane
  BY LanesFacts DEF Tours
<1>2. PICK l \in Lane : l = turn[w].lane
  BY <1>1
<1>3. PICK c \in LaneRecord(l), n \in Nat :
        /\ Hands(l, lane[l], c, carried[l], n, turn[w].hi - turn[w].lo + 1)
        /\ HandOn([lane EXCEPT ![l] = c], l, n, c.ended)
        /\ lane'[l].ended = c.ended
  BY <1>2, CompletesLanes, Zenon
<1>4. l \in Stream /\ l \notin Input
  BY NetworkAssumption DEF Stream
<1>5. PICK end \in BOOLEAN : end = c.ended
  BY RecordTypes
<1>6. ~Silent(l)
  BY <1>3, <1>4 DEF Hands, Silent
<1>7. end => Silent(l)'
  BY <1>3, <1>4, <1>5 DEF Silent
<1>8. /\ carried' = [carried EXCEPT ![l] = @ + n]
      /\ writer' = [v \in Writer |-> Push(v, l, n, end)]
  BY <1>3, <1>5, Zenon DEF HandOn
<1>9. Gives(l, n, end)
  BY <1>6, <1>7, <1>8, Zenon DEF Gives
<1> QED BY <1>4, <1>9

LEMMA FeedsGives ==
  ASSUME LanesInvariant, net \in Nets, NEW i \in Input, Feeds(i)
  PROVE  \E s \in Stream, n \in Nat, end \in BOOLEAN : Gives(s, n, end)
<1>1. PICK n \in Nat, end \in BOOLEAN :
        HandOn(lane, i, n, end) /\ (end => ~(fed[i] < net.gives[i]))
  <2>1. CASE fed[i] < net.gives[i]
    <3>1. HandOn(lane, i, 1, FALSE)
      BY <2>1, Zenon DEF Feeds
    <3> QED BY <2>1, <3>1
  <2>2. CASE ~(fed[i] < net.gives[i])
    <3>1. HandOn(lane, i, 0, TRUE)
      BY <2>2, Zenon DEF Feeds
    <3> QED BY <2>2, <3>1
  <2> QED BY <2>1, <2>2
<1>2. /\ feeder[i] = "awake"
      /\ feeder' = Roused([feeder EXCEPT ![i] = IF fed[i] < net.gives[i] THEN "awake" ELSE "gone"])
  BY Zenon DEF Feeds, Notify
<1>3. feeder \in [Input -> {"awake", "asleep", "gone"}]
  BY DEF LanesInvariant, TypeOK
<1>4. ~Silent(i)
  BY <1>2 DEF Silent
<1>5. end => Silent(i)'
  <2>1. end => feeder'[i] = "gone"
    BY <1>1, <1>2, <1>3 DEF Roused
  <2> QED BY <2>1 DEF Silent
<1>6. /\ carried' = [carried EXCEPT ![i] = @ + n]
      /\ writer' = [w \in Writer |-> Push(w, i, n, end)]
  BY <1>1, Zenon DEF HandOn
<1>7. Gives(i, n, end)
  BY <1>4, <1>5, <1>6, Zenon DEF Gives
<1> QED BY <1>7 DEF Stream

LEMMA NextWriters ==
  ASSUME LanesInvariant, net \in Nets, Lanes, Outs, Next
  PROVE  WritersNext
<1>1. ASSUME NEW w \in Worker, Work(w) PROVE WritersNext
  <2>1. CASE WorkerStops(w)
    BY <2>1 DEF WorkerStops, WritersNext
  <2>2. CASE WorkerSleeps(w)
    BY <2>2 DEF WorkerSleeps, WritersNext
  <2>3. CASE \E l \in Lane : Dispatch(w, l)
    <3>1. UNCHANGED <<carried, writer, writing>>
      BY <2>3, Zenon DEF Dispatch
    <3> QED BY <3>1 DEF WritersNext
  <2>4. ASSUME NEW stop, NEW verdict \in {"ok", "finished", "failed"}, Complete(w, stop, verdict)
        PROVE  WritersNext
    <3>1. UNCHANGED writing /\ worker[w] = "run"
      BY <2>4, Zenon DEF Complete
    <3>2. CASE verdict = "failed"
      <4>1. UNCHANGED <<carried, writer>>
        BY <2>4, <3>2, Zenon DEF Complete
      <4> QED BY <3>1, <4>1 DEF WritersNext
    <3>3. CASE verdict # "failed"
      <4>1. verdict \in {"ok", "finished"}
        BY <3>3
      <4> QED BY <2>4, <3>1, <4>1, CompletesGives DEF WritersNext
    <3> QED BY <3>2, <3>3
  <2> QED BY <1>1, <2>1, <2>2, <2>3, <2>4 DEF Work
<1>2. ASSUME NEW i \in Input, Feed(i) PROVE WritersNext
  <2>1. CASE FeedStops(i) \/ FeedSleeps(i) \/ Tears(i)
    BY <2>1 DEF FeedStops, FeedSleeps, Tears, WritersNext
  <2>2. CASE Feeds(i)
    <3>1. UNCHANGED writing
      BY <2>2, Zenon DEF Feeds
    <3> QED BY <2>2, <3>1, FeedsGives DEF WritersNext
  <2> QED BY <1>2, <2>1, <2>2 DEF Feed
<1>3. ASSUME NEW w \in Writer, Write(w) PROVE WritersNext
  <2>1. PICK o \in WriterRecord(w) : o = writer[w]
    BY DEF LanesInvariant, TypeOK
  <2>2. PICK c \in WriterRecord(w) :
          writer' = [writer EXCEPT ![w] = c] /\ WriterStep(w, o, c) /\ (o.pc = "last" <=> Counts(w))
    BY <1>3, <2>1, WriteSteps
  <2>3. UNCHANGED carried
    BY <1>3 DEF Write, Idles, Pops, Wakes, Writes, Counts, Asks, Settles, Moves, sched
  <2>4. writing' = IF o.pc = "last" THEN writing - 1 ELSE writing
    <3>1. CASE Counts(w)
      BY <2>2, <3>1 DEF Counts
    <3>2. CASE ~Counts(w)
      BY <1>3, <2>2, <3>2 DEF Write, Idles, Pops, Wakes, Writes, Asks, Settles, Moves
    <3> QED BY <3>1, <3>2
  <2> QED BY <2>1, <2>2, <2>3, <2>4, Zenon DEF WritersNext
<1>4. ASSUME Main PROVE WritersNext
  <2>1. UNCHANGED <<carried, writer, writing>>
    BY <1>4, Zenon DEF Main, SetsOver, WaitsFinished, JoinsWorkers, JoinsWriters, Notify, sched
  <2> QED BY <2>1 DEF WritersNext
<1>5. ASSUME Rest PROVE WritersNext
  BY <1>5 DEF Rest, vars, sched, WritersNext
<1> QED BY <1>1, <1>2, <1>3, <1>4, <1>5, Zenon DEF Next

\* The threads' places, whatever step is taken; a reader that returned stays
\* gone.
Standing ==
  /\ worker \in [Worker -> {"awake", "asleep", "run", "gone"}]
  /\ feeder \in [Input -> {"awake", "asleep", "gone"}]
  /\ fed \in [Input -> Nat]
  /\ parked \in SUBSET Writer
  /\ main \in {"start", "awake", "asleep", "join", "drain", "ok", "failed"}
  /\ finished \in BOOLEAN /\ error \in BOOLEAN

StandingNext ==
  /\ worker' \in [Worker -> {"awake", "asleep", "run", "gone"}]
  /\ feeder' \in [Input -> {"awake", "asleep", "gone"}]
  /\ fed' \in [Input -> Nat]
  /\ parked' \in SUBSET Writer
  /\ main' \in {"start", "awake", "asleep", "join", "drain", "ok", "failed"}
  /\ finished' \in BOOLEAN
  /\ \A i \in Input : feeder[i] = "gone" => feeder'[i] = "gone"

LEMMA NextStanding ==
  ASSUME Standing, Next
  PROVE  StandingNext
<1> USE DEF StandingNext
<1>1. ASSUME NEW s \in {"awake", "run", "asleep", "gone"}, NEW w \in Worker
      PROVE  /\ [worker EXCEPT ![w] = s] \in [Worker -> {"awake", "asleep", "run", "gone"}]
             /\ Roused([worker EXCEPT ![w] = s]) \in [Worker -> {"awake", "asleep", "run", "gone"}]
  BY DEF Standing, Roused
<1>2. Roused(worker) \in [Worker -> {"awake", "asleep", "run", "gone"}]
  BY DEF Standing, Roused
<1>3. /\ Roused(feeder) \in [Input -> {"awake", "asleep", "gone"}]
      /\ \A i \in Input : feeder[i] = "gone" => Roused(feeder)[i] = "gone"
  BY DEF Standing, Roused
<1>4. ASSUME NEW w \in Worker, Work(w) PROVE StandingNext
  <2>1. CASE WorkerStops(w) \/ WorkerSleeps(w)
    BY <1>1, <2>1 DEF WorkerStops, WorkerSleeps, Standing
  <2>2. CASE \E l \in Lane : Dispatch(w, l)
    <3>1. /\ UNCHANGED <<fed, finished, parked>>
          /\ worker' = Roused([worker EXCEPT ![w] = "run"])
          /\ feeder' = Roused(feeder) /\ main' = IF main = "asleep" THEN "awake" ELSE main
      BY <2>2, Zenon DEF Dispatch, Notify
    <3> QED BY <1>1, <1>3, <3>1 DEF Standing
  <2>3. ASSUME NEW stop, NEW verdict, Complete(w, stop, verdict) PROVE StandingNext
    <3>1. /\ UNCHANGED <<fed, parked>>
          /\ worker' = Roused([worker EXCEPT ![w] = "awake"])
          /\ feeder' = Roused(feeder) /\ main' = IF main = "asleep" THEN "awake" ELSE main
          /\ finished' = finished \/ finished' = (finished \/ \A k \in Lane : lane'[k].ended)
      BY <2>3, Zenon DEF Complete, Notify
    <3>2. finished' \in BOOLEAN
      BY <3>1 DEF Standing
    <3> QED BY <1>1, <1>3, <3>1, <3>2 DEF Standing
  <2> QED BY <1>4, <2>1, <2>2, <2>3 DEF Work
<1>5. ASSUME NEW i \in Input, Feed(i) PROVE StandingNext
  <2>1. ASSUME NEW s \in {"awake", "asleep", "gone"}, feeder[i] = "awake"
        PROVE  /\ [feeder EXCEPT ![i] = s] \in [Input -> {"awake", "asleep", "gone"}]
               /\ Roused([feeder EXCEPT ![i] = s]) \in [Input -> {"awake", "asleep", "gone"}]
               /\ \A j \in Input : feeder[j] = "gone" =>
                    [feeder EXCEPT ![i] = s][j] = "gone" /\ Roused([feeder EXCEPT ![i] = s])[j] = "gone"
    BY <2>1 DEF Standing, Roused
  <2>2. CASE FeedStops(i) \/ FeedSleeps(i)
    BY <2>1, <2>2 DEF FeedStops, FeedSleeps, Standing
  <2>3. CASE Feeds(i)
    <3>1. PICK s \in {"awake", "gone"} : s = IF fed[i] < net.gives[i] THEN "awake" ELSE "gone"
      OBVIOUS
    <3>2. /\ UNCHANGED <<finished, parked>> /\ fed' = [fed EXCEPT ![i] = @ + 1]
          /\ worker' = Roused(worker) /\ feeder[i] = "awake"
          /\ feeder' = Roused([feeder EXCEPT ![i] = s])
          /\ main' = IF main = "asleep" THEN "awake" ELSE main
      BY <2>3, <3>1, Zenon DEF Feeds, Notify
    <3>3. fed' \in [Input -> Nat]
      BY <3>2 DEF Standing
    <3> QED BY <1>2, <2>1, <3>2, <3>3 DEF Standing
  <2>4. CASE Tears(i)
    <3>1. /\ UNCHANGED <<finished, parked, fed>>
          /\ worker' = Roused(worker) /\ feeder[i] = "awake"
          /\ feeder' = Roused([feeder EXCEPT ![i] = "gone"])
          /\ main' = IF main = "asleep" THEN "awake" ELSE main
      BY <2>4, Zenon DEF Tears, Notify
    <3> QED BY <1>2, <2>1, <3>1 DEF Standing
  <2> QED BY <1>5, <2>2, <2>3, <2>4 DEF Feed
<1>6. ASSUME NEW w \in Writer, Write(w) PROVE StandingNext
  <2>1. CASE Wakes(w)
    <3>1. /\ UNCHANGED <<fed, parked>> /\ finished' = (finished \/ Unread)
          /\ worker' = Roused(worker) /\ feeder' = Roused(feeder)
          /\ main' = IF main = "asleep" THEN "awake" ELSE main
      BY <2>1, Zenon DEF Wakes, Notify
    <3>2. finished' \in BOOLEAN
      BY <3>1 DEF Standing
    <3> QED BY <1>2, <1>3, <3>1, <3>2 DEF Standing
  <2>2. CASE ~Wakes(w)
    <3>1. UNCHANGED <<worker, feeder, fed, main, finished>>
      BY <1>6, <2>2 DEF Write, Idles, Pops, Writes, Counts, Asks, Settles, Moves, sched
    <3>2. parked' = parked \/ parked' = parked \cup {w}
      BY <1>6, <2>2 DEF Write, Idles, Pops, Writes, Counts, Asks, Settles, Moves
    <3> QED BY <3>1, <3>2 DEF Standing
  <2> QED BY <2>1, <2>2
<1>7. ASSUME Main PROVE StandingNext
  <2>1. CASE SetsOver \/ JoinsWriters \/ JoinsWorkers
    BY <2>1 DEF SetsOver, JoinsWriters, JoinsWorkers, sched, Standing
  <2>2. CASE WaitsFinished
    <3>1. finished' \in BOOLEAN
      BY <2>2 DEF WaitsFinished, Standing
    <3>2. \/ UNCHANGED <<worker, feeder>> /\ main' = "asleep"
          \/ worker' = Roused(worker) /\ feeder' = Roused(feeder) /\ main' = "join"
      BY <2>2 DEF WaitsFinished, Notify
    <3>3. UNCHANGED <<fed, parked>>
      BY <2>2 DEF WaitsFinished
    <3> QED BY <1>2, <1>3, <3>1, <3>2, <3>3 DEF Standing
  <2> QED BY <1>7, <2>1, <2>2 DEF Main
<1>8. ASSUME Rest PROVE StandingNext
  BY <1>8 DEF Rest, vars, sched, Standing
<1> HIDE DEF StandingNext
<1> QED BY <1>4, <1>5, <1>6, <1>7, <1>8, Zenon DEF Next

\* Any step, a stutter too, as its parts are told apart here.
Moved == net' = net /\ LanesNext /\ WritersNext /\ StandingNext

LEMMA StepMoves ==
  ASSUME LanesInvariant, net \in Nets, Lanes, Outs, [Next]_vars
  PROVE  Moved
<1>1. CASE Next
  <2>1. Standing
    BY DEF LanesInvariant, TypeOK, Standing
  <2> QED BY <1>1, <2>1, NextLanes, NextWriters, NextStanding DEF Moved
<1>2. CASE UNCHANGED vars
  <2>1. UNCHANGED <<net, lane, turn, carried, error, worker, feeder, fed, finished,
                    writer, writing, parked, main>>
    BY <1>2 DEF vars, sched
  <2>2. LanesNext
    BY <2>1, LanesRest
  <2>3. StandingNext
    BY <2>1 DEF StandingNext, LanesInvariant, TypeOK
  <2> QED BY <2>1, <2>2, <2>3 DEF Moved, WritersNext
<1> QED BY <1>1, <1>2

LEMMA SilentStays ==
  ASSUME Moved, NEW s \in Stream, Silent(s)
  PROVE  Silent(s)'
<1>1. CASE s \in Input
  BY <1>1 DEF Silent, Moved, StandingNext
<1>2. CASE s \notin Input
  <2>1. s \in Lane
    BY <1>2 DEF Stream
  <2> QED BY <1>2, <2>1 DEF Silent, Moved, LanesNext
<1> QED BY <1>1, <1>2

\* The outputs that have not got to their end.
StillWriting == {w \in Writer : writer[w].pc \notin {"ask", "settle", "closed", "gone"}}

LEMMA WritersTyped ==
  ASSUME LanesInvariant, net \in Nets, Outs, WritersNext
  PROVE  /\ \A w \in Writer : writer'[w] \in WriterRecord(w)
         /\ writing' = Cardinality(StillWriting')
<1>1. /\ \A w \in Writer : writer[w] \in WriterRecord(w)
      /\ writing = Cardinality(StillWriting)
  BY DEF LanesInvariant, TypeOK, WritingCounts, StillWriting
<1>2. CASE UNCHANGED <<carried, writer, writing>>
  BY <1>1, <1>2 DEF StillWriting
<1>3. ASSUME NEW w \in Writer, NEW c \in WriterRecord(w),
             writer' = [writer EXCEPT ![w] = c], WriterStep(w, writer[w], c),
             writing' = IF writer[w].pc = "last" THEN writing - 1 ELSE writing
      PROVE  /\ \A v \in Writer : writer'[v] \in WriterRecord(v)
             /\ writing' = Cardinality(StillWriting')
  <2>1. writer'[w] = c /\ \A v \in Writer \ {w} : writer'[v] = writer[v]
    BY <1>3, OneWriter
  <2>2. \A v \in Writer : writer'[v] \in WriterRecord(v)
    BY <1>1, <2>1
  <2>3. CASE writer[w].pc = "last"
    <3>1. c.pc \in {"ask", "settle"}
      BY <1>3, <2>3 DEF WriterStep, Quiet, Takes, Puts, Ends, Breaks, Closes
    <3>2. StillWriting' = StillWriting \ {w} /\ w \in StillWriting
      BY <2>1, <2>3, <3>1 DEF StillWriting
    <3>3. IsFiniteSet(StillWriting)
      BY NetworkAssumption, FS_Subset DEF StillWriting
    <3>4. Cardinality(StillWriting \ {w}) = Cardinality(StillWriting) - 1
      BY <3>2, <3>3, FS_RemoveElement
    <3> QED BY <1>1, <1>3, <2>2, <2>3, <3>2, <3>4
  <2>4. CASE writer[w].pc # "last"
    <3>1. c.pc \in {"ask", "settle", "closed", "gone"} <=>
            writer[w].pc \in {"ask", "settle", "closed", "gone"}
      BY <1>3, <2>4 DEF WriterStep, Quiet, Takes, Puts, Ends, Breaks, Closes
    <3>2. StillWriting' = StillWriting
      BY <2>1, <3>1 DEF StillWriting
    <3> QED BY <1>1, <1>3, <2>2, <2>4, <3>2
  <2> QED BY <2>3, <2>4
<1>4. ASSUME UNCHANGED writing, NEW s \in Stream, NEW n \in Nat, NEW end \in BOOLEAN, Gives(s, n, end)
      PROVE  /\ \A v \in Writer : writer'[v] \in WriterRecord(v)
             /\ writing' = Cardinality(StillWriting')
  <2>1. ASSUME NEW v \in Writer
        PROVE  /\ writer'[v] \in WriterRecord(v)
               /\ writer'[v].pc \in {"ask", "settle", "closed", "gone"} <=>
                    writer[v].pc \in {"ask", "settle", "closed", "gone"}
    <3>1. writer'[v] = Push(v, s, n, end)
      BY <1>4, Zenon DEF Gives
    <3>2. PICK o \in WriterRecord(v) : o = writer[v]
      BY <1>1
    <3>3. PICK c : c = Push(v, s, n, end)
      OBVIOUS
    <3>4. /\ c \in WriterRecord(v)
          /\ s \notin Reads[v] \/ o.fate # "open" => c = o
          /\ s \in Reads[v] /\ o.fate = "open" => Pushed(o, s, n, end, c)
      BY <3>2, <3>3, PushFields
    <3>5. c.pc \in {"ask", "settle", "closed", "gone"} <=> o.pc \in {"ask", "settle", "closed", "gone"}
      BY <3>4 DEF Pushed
    <3> QED BY <3>1, <3>2, <3>3, <3>4, <3>5
  <2>2. StillWriting' = StillWriting
    BY <2>1 DEF StillWriting
  <2> QED BY <1>1, <1>4, <2>1, <2>2
<1> QED BY <1>2, <1>3, <1>4 DEF WritersNext

LEMMA NextLanesInvariant ==
  ASSUME LanesInvariant, net \in Nets, Outs, Moved
  PROVE  LanesInvariant'
<1>1. LanesNext /\ net' = net
  BY DEF Moved
<1>2. WritersNext
  BY DEF Moved
<1>4. StandingNext
  BY DEF Moved
<1>5. /\ \A w \in Writer : writer'[w] \in WriterRecord(w)
      /\ writing' = Cardinality(StillWriting')
  BY <1>2, WritersTyped
<1>6. Reads' = Reads
  BY <1>1, FieldsPrimed
<1>7. \A l \in Lane : (lane[l] \in LaneRecord(l))'
  BY <1>1, <1>6 DEF LanesNext, LaneRecord
<1>8. \A w \in Writer : (writer[w] \in WriterRecord(w))'
  BY <1>5, <1>6 DEF WriterRecord, Said
<1>9. writing' \in 0 .. Cardinality(Writer)
  <2>1. IsFiniteSet(Writer) /\ StillWriting' \subseteq Writer
    BY NetworkAssumption DEF StillWriting
  <2>2. IsFiniteSet(StillWriting') /\ Cardinality(StillWriting') <= Cardinality(Writer)
    BY <2>1, FS_Subset
  <2>3. Cardinality(StillWriting') \in Nat /\ Cardinality(Writer) \in Nat
    BY <2>1, <2>2, FS_CardinalityType
  <2> QED BY <1>5, <2>2, <2>3
<1>10. /\ (turn \in [Worker -> [lane : Lane, lo : Nat, hi : Nat] \cup {None}])'
       /\ error' \in BOOLEAN /\ carried' \in [Stream -> Nat] /\ RunsTurn'
  BY <1>1 DEF LanesNext, Tours
<1>11. TypeOK'
  BY <1>4, <1>7, <1>8, <1>9, <1>10 DEF TypeOK, StandingNext
<1>12. WritingCounts'
  BY <1>5 DEF WritingCounts, StillWriting
<1>13. ClosedSilent'
  <2> SUFFICES ASSUME NEW l \in Lane, NEW s \in lane'[l].closed
               PROVE  Silent(s)'
    BY DEF ClosedSilent
  <2>1. CASE s \in lane[l].closed
    <3>1. Silent(s)
      BY <2>1 DEF LanesInvariant, ClosedSilent
    <3>2. lane[l].closed \subseteq Reads[l] /\ Reads[l] \subseteq Stream
      BY NetKinds DEF LanesInvariant, TypeOK, LaneRecord
    <3>3. s \in Stream
      BY <2>1, <3>2
    <3> QED BY <1>1, <3>1, <3>3, SilentStays
  <2> QED BY <1>1, <2>1 DEF LanesNext
<1>14. \A l \in Lane : LaneOK(l)'
  BY <1>1, FitsPrimed DEF LanesNext
<1> QED BY <1>10, <1>11, <1>12, <1>13, <1>14 DEF LanesInvariant

LEMMA InitLanesInvariant ==
  ASSUME Init
  PROVE  /\ LanesInvariant
         /\ \A l \in Lane : lane[l].closed = {} /\ ~lane[l].ended /\ ~lane[l].claimed
<1>0. net \in Nets /\ turn = [w \in Worker |-> None] /\ error = FALSE
      /\ carried = [s \in Stream |-> 0]
  BY DEF Init
<1>1. \A l \in Lane : Out(l, turn) = {} /\ Busy(l) = {}
  BY <1>0 DEF Out, Busy
<1>2. ASSUME NEW l \in Lane
      PROVE  /\ lane[l] \in LaneRecord(l) /\ LaneOK(l) /\ lane[l].closed = {}
             /\ ~lane[l].ended /\ ~lane[l].claimed
  <2>1. PICK r : r = [got       |-> [s \in Reads[l] |-> 0],
                      closed    |-> {},
                      queue     |-> [head |-> 0, next |-> 0, withheld |-> FALSE, last |-> None],
                      done      |-> {},
                      nextFlush |-> 0,
                      stopped   |-> FALSE,
                      claimed   |-> FALSE,
                      ended     |-> FALSE]
    OBVIOUS
  <2>2. lane[l] = IF LaneClock[l] = "source" THEN Cut(l, r) ELSE r
    BY <2>1, Zenon DEF Init
  <2>3. /\ r.queue.head = 0 /\ r.queue.next = 0 /\ r.queue.last = None /\ ~r.queue.withheld
        /\ r.done = {} /\ r.nextFlush = 0 /\ ~r.stopped /\ ~r.claimed /\ ~r.ended
        /\ r.closed = {} /\ r \in LaneRecord(l)
    BY <2>1 DEF LaneRecord, Queues
  <2>4. carried[l] = 0
    BY <1>0 DEF Stream
  <2>5. LaneFits(l, r, turn, error, carried[l])
    <3>1. LaneClock[l] # "self" => Settled(l, r) \in Nat
      BY <1>0, <2>3, SettledNat
    <3>2. QueueOK(l, r)
      BY <2>3, <3>1 DEF QueueOK, QueueFits
    <3>3. TurnsOK(l, r, turn)
      BY <1>1 DEF TurnsOK
    <3>4. DoneOK(l, r, turn, error)
      BY <1>1, <2>3 DEF DoneOK
    <3>5. OutOK(l, r, turn, carried[l])
      BY <1>1, <2>3, <2>4 DEF OutOK
    <3> QED BY <3>2, <3>3, <3>4, <3>5 DEF LaneFits
  <2>6. CASE LaneClock[l] # "source"
    BY <2>2, <2>3, <2>5, <2>6 DEF LaneOK
  <2>7. CASE LaneClock[l] = "source"
    <3>1. PICK c : c = Cut(l, r)
      OBVIOUS
    <3>2. QueueOK(l, r)
      BY <2>5 DEF LaneFits
    <3>3. c \in LaneRecord(l) /\ QueueOK(l, c) /\ LaneMore(r, c) /\ c.closed = r.closed
      BY <1>0, <2>3, <3>1, <3>2, CutMore
    <3>4. PICK tu \in Tours : tu = turn
      BY <1>0 DEF Tours
    <3>5. PICK e \in BOOLEAN : e = error
      BY <1>0
    <3>6. PICK sent : sent = carried[l]
      OBVIOUS
    <3>7. LaneFits(l, r, tu, e, sent)
      BY <2>5, <3>4, <3>5, <3>6, Zenon
    <3>8. LaneFits(l, c, tu, e, sent)
      BY <2>3, <3>3, <3>7, MoreFits
    <3>9. lane[l] = c
      BY <2>2, <2>7, <3>1
    <3>10. LaneFits(l, lane[l], turn, error, carried[l])
      BY <3>4, <3>5, <3>6, <3>8, <3>9, Zenon
    <3>11. ~c.ended /\ ~c.claimed
      BY <2>3, <3>3 DEF LaneMore
    <3> QED BY <2>3, <3>3, <3>9, <3>10, <3>11 DEF LaneOK
  <2> QED BY <2>6, <2>7
<1>3. ASSUME NEW w \in Writer PROVE writer[w] \in WriterRecord(w)
  <2>1. PICK none \in Seq(Said(w)) : none = <<>>
    BY EmptySeq, Zenon
  <2>2. writer[w] = [pc |-> "next", items |-> none, taken |-> FALSE, hand |-> None,
                     ends |-> {}, wrote |-> [s \in Reads[w] |-> 0],
                     fate |-> "open", result |-> "done"]
    BY <2>1, Zenon DEF Init
  <2> QED BY <2>2 DEF WriterRecord, WriterPc
<1>4. WritingCounts /\ writing \in 0 .. Cardinality(Writer)
  <2>1. \A w \in Writer : writer[w].pc = "next"
    BY DEF Init
  <2>2. {w \in Writer : writer[w].pc \notin {"ask", "settle", "closed", "gone"}} = Writer
    BY <2>1
  <2>3. writing = Cardinality(Writer)
    BY DEF Init
  <2>4. Cardinality(Writer) \in Nat
    BY NetworkAssumption, FS_CardinalityType
  <2> QED BY <2>2, <2>3, <2>4 DEF WritingCounts
<1>5. TypeOK
  <2>1. turn \in [Worker -> [lane : Lane, lo : Nat, hi : Nat] \cup {None}]
        /\ error \in BOOLEAN /\ carried \in [Stream -> Nat]
    BY <1>0
  <2>2. worker = [w \in Worker |-> "awake"] /\ feeder = [i \in Input |-> "awake"]
        /\ fed = [i \in Input |-> 0] /\ parked = {} /\ main = "start" /\ finished = FALSE
    BY Zenon DEF Init
  <2>3. /\ worker \in [Worker -> {"awake", "asleep", "run", "gone"}]
        /\ feeder \in [Input -> {"awake", "asleep", "gone"}]
        /\ fed \in [Input -> Nat] /\ parked \in SUBSET Writer
        /\ main \in {"start", "awake", "asleep", "join", "drain", "ok", "failed"}
        /\ finished \in BOOLEAN
    BY <2>2
  <2> QED BY <1>2, <1>3, <1>4, <2>1, <2>3 DEF TypeOK
<1>6. ClosedSilent
  BY <1>2 DEF ClosedSilent
<1>7. RunsTurn
  BY DEF Init, RunsTurn
<1> QED BY <1>2, <1>4, <1>5, <1>6, <1>7 DEF LanesInvariant

\* In every reachable state of every network each lane's queue, turns and
\* results fit together, and an output's end is counted once.
THEOREM LanesSafe == Spec => []LanesInvariant
<1>1. Init => LanesInvariant
  BY InitLanesInvariant
<1>2. SeenInvariant /\ LanesInvariant /\ [Next]_vars => LanesInvariant'
  <2> SUFFICES ASSUME SeenInvariant, LanesInvariant, [Next]_vars PROVE LanesInvariant'
    OBVIOUS
  <2>1. net \in Nets /\ Lanes /\ Outs
    BY DEF SeenInvariant, Places
  <2>2. Moved
    BY <2>1, StepMoves
  <2> QED BY <2>1, <2>2, NextLanesInvariant
<1> QED BY <1>1, <1>2, NetworkSafe, PTL DEF Spec

\* Every lane and every output stays a thing of its type.
THEOREM NetworkTypes == Spec => []TypeOK
<1>1. LanesInvariant => TypeOK
  BY DEF LanesInvariant
<1> QED BY <1>1, LanesSafe, PTL

-----------------------------------------------------------------------------
(* A lane among others is a serial lane.                                   *)

\* The ticks that have left, in order.
Sent(n) == [k \in 1 .. n |-> k - 1]

LEMMA SentFields ==
  ASSUME NEW n \in Nat
  PROVE  /\ Sent(n) \in Seq(Int) /\ Len(Sent(n)) = n
         /\ \A k \in 1 .. n : Sent(n)[k] = k - 1
         /\ Sent(n) \o <<>> = Sent(n)
<1>1. PICK s : s = Sent(n)
  OBVIOUS
<1>2. s \in [1 .. n -> Int] /\ \A k \in 1 .. n : s[k] = k - 1
  BY <1>1 DEF Sent
<1>3. s \in Seq(Int)
  BY <1>2, SeqDef
<1>4. Len(s) = n
  BY <1>2, <1>3, LenProperties
<1>5. s \o <<>> = s
  BY <1>3, ConcatEmptySeq
<1> QED BY <1>1, <1>2, <1>3, <1>4, <1>5

LEMMA LogOpen ==
  ASSUME NEW l, carried[l] \in Nat, ~lane[l].ended
  PROVE  Log(l) = Sent(carried[l]) /\ Len(Log(l)) = carried[l] /\ ~Serial(l)!Closed
<1>1. Log(l) = Sent(carried[l])
  <2>1. Log(l) = Sent(carried[l]) \o <<>>
    BY DEF Log, Sent
  <2> QED BY <2>1, SentFields
<1>2. Len(Log(l)) = carried[l] /\ \A k \in 1 .. carried[l] : Log(l)[k] = k - 1
  BY <1>1, SentFields
<1>3. ~Serial(l)!Closed
  BY <1>2 DEF Serial!Closed, Last
<1> QED BY <1>1, <1>2, <1>3

\* While the lane goes on, what leaves is a run of ticks.
LEMMA LogGrows ==
  ASSUME NEW l, NEW n \in Nat, carried[l] \in Nat, ~lane[l].ended, ~lane'[l].ended,
         carried'[l] = carried[l] + n
  PROVE  Log(l)' = Log(l) \o Serial(l)!Run(n)
<1>1. PICK m \in Nat : m = carried[l]
  OBVIOUS
<1>2. Log(l) = Sent(m) /\ Len(Log(l)) = m
  BY <1>1, LogOpen
<1>3. PICK run : run = [k \in 1 .. n |-> m + k - 1]
  OBVIOUS
<1>4. Serial(l)!Run(n) = run
  BY <1>2, <1>3 DEF Serial!Run
<1>5. Log(l)' = Sent(m + n)
  <2>1. Log(l)' = Sent(m + n) \o <<>>
    BY <1>1 DEF Log, Sent
  <2>2. PICK k \in Nat : k = m + n
    OBVIOUS
  <2>3. Sent(k) \o <<>> = Sent(k)
    BY SentFields
  <2> QED BY <2>1, <2>2, <2>3
<1>6. run \in [1 .. n -> Int] /\ \A k \in 1 .. n : run[k] = m + k - 1
  BY <1>3
<1>7. run \in Seq(Int)
  BY <1>6, SeqDef
<1>8. Len(run) = n
  BY <1>6, <1>7, LenProperties
<1>9. PICK s \in Seq(Int) : s = Sent(m)
  BY SentFields
<1>10. PICK t \in Seq(Int) : t = Sent(m + n)
  <2>1. PICK k \in Nat : k = m + n
    OBVIOUS
  <2>2. Sent(k) \in Seq(Int)
    BY SentFields
  <2> QED BY <2>1, <2>2
<1>11. /\ s \o run \in Seq(Int) /\ Len(s \o run) = m + n
       /\ \A k \in 1 .. m + n : (s \o run)[k] = IF k <= m THEN s[k] ELSE run[k - m]
  <2>1. Len(s) = m
    BY <1>9, SentFields
  <2> QED BY <1>7, <1>8, <2>1, ConcatProperties
<1>12. Len(t) = m + n
  <2>1. PICK j \in Nat : j = m + n
    OBVIOUS
  <2>2. Len(Sent(j)) = j
    BY SentFields
  <2> QED BY <1>10, <2>1, <2>2
<1>13. \A k \in 1 .. m + n : (s \o run)[k] = t[k]
  <2>1. \A k \in 1 .. m : s[k] = k - 1
    BY <1>9, SentFields
  <2>2. \A k \in 1 .. m + n : t[k] = k - 1
    <3>1. PICK j \in Nat : j = m + n
      OBVIOUS
    <3>2. \A k \in 1 .. j : Sent(j)[k] = k - 1
      BY SentFields
    <3> QED BY <1>10, <3>1, <3>2
  <2>3. ASSUME NEW k \in 1 .. m + n PROVE (s \o run)[k] = k - 1
    <3>1. (s \o run)[k] = IF k <= m THEN s[k] ELSE run[k - m]
      BY <1>11
    <3>2. k > m => k - m \in 1 .. n /\ run[k - m] = m + (k - m) - 1
      BY <1>6
    <3> QED BY <2>1, <3>1, <3>2
  <2> QED BY <2>2, <2>3
<1>14. PICK u \in Seq(Int) : u = s \o run
  BY <1>11
<1>15. u = t
  BY <1>11, <1>12, <1>13, <1>14, SeqEqual
<1> QED BY <1>2, <1>4, <1>5, <1>9, <1>10, <1>14, <1>15

\* The last call closes the log behind the ticks that left.
LEMMA LogCloses ==
  ASSUME NEW l, carried[l] \in Nat, ~lane[l].ended, lane'[l].ended, carried'[l] = carried[l]
  PROVE  Log(l)' = Append(Log(l) \o Serial(l)!Run(0), Last)
<1>1. PICK m \in Nat : m = carried[l]
  OBVIOUS
<1>2. Log(l) = Sent(m)
  BY <1>1, LogOpen
<1>3. Serial(l)!Run(0) = <<>>
  BY DEF Serial!Run
<1>4. Log(l) \o Serial(l)!Run(0) = Sent(m)
  BY <1>2, <1>3, SentFields
<1>5. Log(l)' = Sent(m) \o <<Last>>
  BY <1>1 DEF Log, Sent
<1>6. Append(Sent(m), Last) = Sent(m) \o <<Last>>
  <2>1. PICK s \in Seq(Int) : s = Sent(m)
    BY SentFields
  <2>2. Last \in Int
    BY DEF Last
  <2>3. Append(s, Last) = s \o <<Last>>
    BY <2>1, <2>2, AppendIsConcat
  <2> QED BY <2>1, <2>3
<1> QED BY <1>4, <1>5, <1>6

LEMMA IntakePrimed ==
  ASSUME UNCHANGED net, NEW l
  PROVE  /\ (Settled(l, lane[l]))' = Settled(l, lane'[l])
         /\ (Over(l, lane[l]))' = Over(l, lane'[l])
  BY FieldsPrimed DEF Settled, Over

LEMMA LaneSerial ==
  ASSUME LanesInvariant, net \in Nets, Moved, NEW l \in Lane, LaneClock[l] # "self"
  PROVE  [Serial(l)!Next]_(Serial(l)!vars)
<1>1. /\ lane[l] \in LaneRecord(l) /\ carried[l] \in Nat /\ error \in BOOLEAN
      /\ LaneFits(l, lane[l], turn, error, carried[l])
  BY LanesFacts
<1>2. /\ net' = net /\ lane'[l] \in LaneRecord(l) /\ error' \in BOOLEAN
      /\ Advances(l) \/ Stops(l)
  BY DEF Moved, LanesNext
<1>3. (Settled(l, lane[l]))' = Settled(l, lane'[l]) /\ (Over(l, lane[l]))' = Over(l, lane'[l])
  BY <1>2, IntakePrimed
<1>4. Settled(l, lane[l]) \in Nat /\ Settled(l, lane'[l]) \in Nat
  BY <1>1, <1>2, SettledNat
<1>5. Over(l, lane'[l]) \in BOOLEAN /\ lane[l].claimed \in BOOLEAN /\ lane'[l].claimed \in BOOLEAN
  BY <1>1, <1>2 DEF Over, LaneRecord
<1>6. CASE lane'[l].got = lane[l].got /\ lane'[l].closed = lane[l].closed
           /\ lane'[l].claimed = lane[l].claimed /\ lane'[l].ended = lane[l].ended
           /\ carried'[l] = carried[l]
  <2>1. Settled(l, lane'[l]) = Settled(l, lane[l]) /\ Over(l, lane'[l]) = Over(l, lane[l])
    BY <1>6, IntakeSame
  <2>2. Log(l)' = Log(l)
    BY <1>6 DEF Log
  <2>3. CASE error' = error
    BY <1>3, <1>6, <2>1, <2>2, <2>3, Zenon DEF Serial!vars
  <2>4. CASE error' = TRUE
    <3>1. Serial(l)!Fail
      BY <1>3, <1>6, <2>1, <2>2, <2>4, Zenon DEF Serial!Fail
    <3> QED BY <3>1, Zenon DEF Serial!Next
  <2>5. error' = error \/ error' = TRUE
    BY <1>2 DEF Advances, Stops
  <2> QED BY <2>3, <2>4, <2>5
<1>7. ASSUME error' = error, ~Over(l, lane[l]), Settled(l, lane[l]) <= Settled(l, lane'[l]),
             lane'[l].claimed = lane[l].claimed, lane'[l].ended = lane[l].ended,
             carried'[l] = carried[l]
      PROVE  Serial(l)!Next
  <2>1. Log(l)' = Log(l)
    BY <1>7 DEF Log
  <2>2. Settled(l, lane'[l]) >= Settled(l, lane[l])
    BY <1>4, <1>7
  <2>3. Serial(l)!Settle
    BY <1>3, <1>4, <1>5, <1>7, <2>1, <2>2, Zenon DEF Serial!Settle
  <2> QED BY <2>3, Zenon DEF Serial!Next
<1>8. ASSUME error' = error, NEW n \in Nat, NEW most, Hands(l, lane[l], lane'[l], carried[l], n, most),
             carried'[l] = carried[l] + n
      PROVE  [Serial(l)!Next]_(Serial(l)!vars)
  <2>1. /\ lane'[l].got = lane[l].got /\ lane'[l].closed = lane[l].closed /\ ~lane[l].ended
        /\ lane'[l].ended => /\ n = 0 /\ lane'[l].claimed = lane[l].claimed
                             /\ ~lane[l].claimed =>
                                  Over(l, lane[l]) /\ carried[l] = Settled(l, lane[l])
        /\ (~lane'[l].ended /\ n = 0) => lane'[l].claimed = lane[l].claimed
        /\ n > 0 => ~lane[l].claimed /\ carried[l] + n <= Settled(l, lane[l])
    BY <1>8 DEF Hands
  <2>2. Settled(l, lane'[l]) = Settled(l, lane[l]) /\ Over(l, lane'[l]) = Over(l, lane[l])
    BY <2>1, IntakeSame
  <2>3. Len(Log(l)) = carried[l] /\ ~Serial(l)!Closed
    BY <1>1, <2>1, LogOpen
  <2>4. UNCHANGED <<error>> /\ (Settled(l, lane[l]))' = Settled(l, lane[l])
        /\ (Over(l, lane[l]))' = Over(l, lane[l])
    BY <1>3, <1>8, <2>2
  <2>5. CASE lane'[l].ended
    <3>1. Log(l)' = Append(Log(l) \o Serial(l)!Run(0), Last)
      BY <1>1, <1>8, <2>1, <2>5, LogCloses
    <3>2. IF lane[l].claimed THEN 0 = 0
                             ELSE Over(l, lane[l]) /\ Len(Log(l)) + 0 = Settled(l, lane[l])
      BY <1>1, <2>1, <2>3, <2>5
    <3>3. lane'[l].claimed = lane[l].claimed
      BY <2>1, <2>5
    <3>4. Serial(l)!Close(0)
      BY <2>3, <2>4, <3>1, <3>2, <3>3, Zenon DEF Serial!Close
    <3>5. 0 \in 0 .. Settled(l, lane[l])
      BY <1>4
    <3> QED BY <3>4, <3>5, Zenon DEF Serial!Next
  <2>6. CASE ~lane'[l].ended /\ n = 0
    <3>1. lane'[l].claimed = lane[l].claimed /\ carried'[l] = carried[l]
      BY <1>1, <1>8, <2>1, <2>6
    <3>2. lane'[l].ended = lane[l].ended
      BY <1>1, <1>2, <2>1, <2>6 DEF LaneRecord
    <3> QED BY <1>6, <2>1, <3>1, <3>2
  <2>7. CASE ~lane'[l].ended /\ n > 0
    <3>1. Log(l)' = Log(l) \o Serial(l)!Run(n)
      BY <1>1, <1>8, <2>1, <2>7, LogGrows
    <3>2. ~lane[l].claimed /\ Len(Log(l)) + n <= Settled(l, lane[l])
      BY <2>1, <2>3, <2>7
    <3>3. Serial(l)!Leave(n)
      BY <1>5, <2>3, <2>4, <3>1, <3>2, Zenon DEF Serial!Leave
    <3>4. n \in 1 .. Settled(l, lane[l])
      BY <1>1, <1>4, <2>1, <2>7
    <3> QED BY <3>3, <3>4, Zenon DEF Serial!Next
  <2> QED BY <2>5, <2>6, <2>7
<1>9. CASE Over(l, lane[l])
  BY <1>2, <1>6, <1>8, <1>9 DEF Advances, Stops
<1>10. CASE ~Over(l, lane[l])
  BY <1>2, <1>6, <1>7, <1>8, <1>10 DEF Advances, Stops
<1> QED BY <1>9, <1>10

LEMMA SerialStarts ==
  ASSUME Init, LanesInvariant, NEW l \in Lane, LaneClock[l] # "self"
  PROVE  Serial(l)!Init
<1>1. net \in Nets /\ error = FALSE /\ carried = [s \in Stream |-> 0]
  BY DEF Init
<1>2. lane[l] \in LaneRecord(l) /\ carried[l] = 0
  BY <1>1, LanesFacts DEF Stream
<1>3. lane[l].closed = {} /\ lane[l].ended = FALSE /\ lane[l].claimed = FALSE
  BY <1>2, InitLanesInvariant DEF LaneRecord
<1>4. Settled(l, lane[l]) \in Nat
  BY <1>1, <1>2, SettledNat
<1>5. Over(l, lane[l]) = FALSE
  BY <1>3 DEF Over
<1>6. Log(l) = <<>>
  <2>1. Log(l) = Sent(0)
    BY <1>2, <1>3, LogOpen
  <2> QED BY <2>1 DEF Sent
<1> QED BY <1>1, <1>3, <1>4, <1>5, <1>6, Zenon DEF Serial!Init

\* Each lane that is not self-clocked is a serial lane, in every network: what
\* it waits for credit, and what the other lanes, the readers and the outputs
\* do meanwhile, never makes a tick leave twice, out of order, after the end or
\* not at all before it.
THEOREM EachLaneIsSerial == Spec => EachIsSerial
<1>1. Init => \A l \in Lane : LaneClock[l] # "self" => Serial(l)!Init
  BY InitLanesInvariant, SerialStarts
<1>2. SeenInvariant /\ LanesInvariant /\ [Next]_vars =>
        [\A l \in Lane : LaneClock[l] # "self" => [Serial(l)!Next]_(Serial(l)!vars)]_vars
  <2> SUFFICES ASSUME SeenInvariant, LanesInvariant, [Next]_vars,
                      NEW l \in Lane, LaneClock[l] # "self"
               PROVE  [Serial(l)!Next]_(Serial(l)!vars)
    OBVIOUS
  <2>1. net \in Nets /\ Lanes /\ Outs
    BY DEF SeenInvariant, Places
  <2>2. Moved
    BY <2>1, StepMoves
  <2> QED BY <2>1, <2>2, LaneSerial
<1> QED BY <1>1, <1>2, NetworkSafe, LanesSafe, PTL DEF Spec, EachIsSerial

-----------------------------------------------------------------------------
(* An output written whole holds all its streams carried.                  *)

\* Where item x is in the queue q.
At(q, x) == {k \in 1 .. Len(q) : q[k] = x}

LEMMA AtFinite ==
  ASSUME NEW S, NEW q \in Seq(S), NEW x
  PROVE  /\ IsFiniteSet(At(q, x)) /\ Cardinality(At(q, x)) \in Nat
         /\ (\A k \in 1 .. Len(q) : q[k] # x) => Cardinality(At(q, x)) = 0
<1>1. Len(q) \in Nat
  BY LenProperties
<1>2. IsFiniteSet(1 .. Len(q))
  BY <1>1, FS_Interval
<1>3. At(q, x) \subseteq 1 .. Len(q)
  BY DEF At
<1>4. IsFiniteSet(At(q, x))
  BY <1>2, <1>3, FS_Subset
<1>5. (\A k \in 1 .. Len(q) : q[k] # x) => At(q, x) = {}
  BY DEF At
<1> QED BY <1>4, <1>5, FS_CardinalityType, FS_EmptySet

\* The front is one of them or not.
LEMMA AtTail ==
  ASSUME NEW S, NEW q \in Seq(S), q # <<>>, NEW x
  PROVE  Cardinality(At(q, x)) = Cardinality(At(Tail(q), x)) + (IF Head(q) = x THEN 1 ELSE 0)
<1>1. PICK t \in Seq(S) : t = Tail(q)
  BY HeadTailProperties
<1>2. /\ Len(q) \in Nat /\ Len(t) \in Nat /\ Len(t) = Len(q) - 1
      /\ \A k \in 1 .. Len(t) : t[k] = q[k + 1]
  BY <1>1, LenProperties, HeadTailProperties
<1>3. Head(q) = q[1] /\ 1 \in 1 .. Len(q)
  BY <1>2
<1> DEFINE rest == At(q, x) \ {1}
           f == [k \in At(t, x) |-> k + 1]
<1>4. \A k \in At(t, x) : k \in 1 .. Len(t) /\ k + 1 \in rest
  BY <1>2 DEF At
<1>5. \A j \in rest : j - 1 \in At(t, x) /\ j \in Int
  <2> SUFFICES ASSUME NEW j \in rest PROVE j - 1 \in At(t, x) /\ j \in Int
    OBVIOUS
  <2>1. j \in 2 .. Len(q) /\ q[j] = x
    BY <1>2 DEF At
  <2>2. j - 1 \in 1 .. Len(t) /\ (j - 1) + 1 = j
    BY <1>2, <2>1
  <2>3. t[j - 1] = q[(j - 1) + 1]
    BY <1>2, <2>2
  <2> QED BY <2>1, <2>2, <2>3 DEF At
<1>6. f \in [At(t, x) -> rest]
  BY <1>4
<1>7. \A j, k \in At(t, x) : f[j] = f[k] => j = k
  BY <1>2 DEF At
<1>8. \A j \in rest : \E k \in At(t, x) : f[k] = j
  <2> SUFFICES ASSUME NEW j \in rest PROVE \E k \in At(t, x) : f[k] = j
    OBVIOUS
  <2>1. j - 1 \in At(t, x) /\ f[j - 1] = j
    BY <1>5
  <2> QED BY <2>1
<1>9. f \in Bijection(At(t, x), rest)
  BY <1>6, <1>7, <1>8, Fun_IsBij
<1> HIDE DEF f, rest
<1>10. ExistsBijection(At(t, x), rest)
  BY <1>9 DEF ExistsBijection
<1>11. Cardinality(rest) = Cardinality(At(t, x))
  BY <1>10, AtFinite, FS_Bijection
<1>12. IsFiniteSet(At(q, x)) /\ Cardinality(At(q, x)) \in Nat
  BY AtFinite
<1>13. Cardinality(rest) = IF 1 \in At(q, x) THEN Cardinality(At(q, x)) - 1
                                             ELSE Cardinality(At(q, x))
  BY <1>12, FS_RemoveElement DEF rest
<1>14. 1 \in At(q, x) <=> Head(q) = x
  BY <1>3 DEF At
<1>15. Cardinality(At(t, x)) \in Nat
  BY AtFinite
<1> QED BY <1>1, <1>11, <1>12, <1>13, <1>14, <1>15

\* Sequence c is q, of length m, followed by n times y and then by no x.
Follows(q, c, m, n, x, y) ==
  /\ m = Len(q) /\ m + n <= Len(c)
  /\ \A k \in 1 .. m : c[k] = q[k]
  /\ \A k \in m + 1 .. m + n : c[k] = y
  /\ \A k \in m + n + 1 .. Len(c) : c[k] # x

\* Pushed items are each at one more place.
LEMMA AtPushed ==
  ASSUME NEW S, NEW q \in Seq(S), NEW c \in Seq(S), NEW n \in Nat, NEW x,
         NEW y \in S, NEW m \in Nat, Follows(q, c, m, n, x, y)
  PROVE  /\ x = y => Cardinality(At(c, x)) = Cardinality(At(q, x)) + n
         /\ x # y => Cardinality(At(c, x)) = Cardinality(At(q, x))
<1>1. /\ m \in Nat /\ Len(c) \in Nat
      /\ m = Len(q) /\ m + n <= Len(c)
      /\ \A k \in 1 .. m : c[k] = q[k]
      /\ \A k \in m + 1 .. m + n : c[k] = y
      /\ \A k \in m + n + 1 .. Len(c) : c[k] # x
  BY LenProperties DEF Follows
<1>2. IsFiniteSet(At(q, x)) /\ Cardinality(At(q, x)) \in Nat
  BY AtFinite
<1>3. PICK b \in Nat : b = Len(c)
  BY <1>1
<1>4. /\ At(q, x) = {k \in 1 .. m : q[k] = x} /\ At(c, x) = {k \in 1 .. b : c[k] = x}
      /\ \A k \in m + n + 1 .. b : c[k] # x
      /\ m + n <= b
  BY <1>1, <1>3 DEF At
<1>5. /\ \A k \in 1 .. b : k \in 1 .. m \/ k \in m + 1 .. m + n \/ k \in m + n + 1 .. b
      /\ 1 .. m \subseteq 1 .. b /\ m + 1 .. m + n \subseteq 1 .. b
  <2>1. m + n <= b
    BY <1>4
  <2> QED BY <2>1
<1>6. \A k \in 1 .. m : c[k] = q[k]
  BY <1>1
<1>7. \A k \in m + 1 .. m + n : c[k] = y
  BY <1>1
<1>8. CASE x # y
  <2>1. At(c, x) = At(q, x)
    BY <1>8, <1>4, <1>5, <1>6, <1>7
  <2> QED BY <1>2, <1>8, <2>1
<1>9. CASE x = y
  <2>1. At(c, x) = At(q, x) \cup (m + 1 .. m + n)
    <3>1. At(c, x) \subseteq At(q, x) \cup (m + 1 .. m + n)
      <4> SUFFICES ASSUME NEW k \in 1 .. b, c[k] = x
                   PROVE  k \in m + 1 .. m + n \/ (k \in 1 .. m /\ q[k] = x)
        BY <1>4
      <4>1. k \in 1 .. m => c[k] = q[k]
        BY <1>6
      <4>2. k \notin m + n + 1 .. b
        BY <1>4
      <4> QED BY <1>5, <4>1, <4>2
    <3>2. At(q, x) \subseteq At(c, x)
      BY <1>4, <1>5, <1>6
    <3>3. m + 1 .. m + n \subseteq At(c, x)
      BY <1>9, <1>4, <1>5, <1>7
    <3> QED BY <3>1, <3>2, <3>3
  <2>2. At(q, x) \cap (m + 1 .. m + n) = {}
    BY <1>4
  <2>3. IsFiniteSet(m + 1 .. m + n) /\ Cardinality(m + 1 .. m + n) = n
    <3>1. PICK lo \in Int, hi \in Int : lo = m + 1 /\ hi = m + n
      BY <1>1
    <3>2. IsFiniteSet(lo .. hi) /\ Cardinality(lo .. hi) = IF lo > hi THEN 0 ELSE hi - lo + 1
      BY FS_Interval
    <3> QED BY <1>1, <3>1, <3>2
  <2>4. Cardinality(At(q, x) \cup (m + 1 .. m + n)) =
          Cardinality(At(q, x)) + Cardinality(m + 1 .. m + n)
            - Cardinality(At(q, x) \cap (m + 1 .. m + n))
    BY <1>2, <2>3, FS_Union
  <2>5. Cardinality(At(q, x) \cap (m + 1 .. m + n)) = 0
    BY <2>2, FS_EmptySet
  <2> QED BY <1>2, <1>9, <2>1, <2>3, <2>4, <2>5
<1> QED BY <1>8, <1>9

\* The record of an output, against what its streams carried and the streams
\* that are silent: WriterOK of a record.
Holding(o) == o.pc \in {"took", "write"}

InHand(o, s) == IF Holding(o) /\ o.hand = Item(s) THEN 1 ELSE 0

CountsFit(w, o, sent) ==
  \A s \in Reads[w] : o.wrote[s] + (Cardinality(At(o.items, Item(s))) + InHand(o, s)) = sent[s]

EndsFit(w, o, quiet) ==
  \A s \in Reads[w] :
    /\ \A k \in 1 .. Len(o.items) : o.items[k] = End(s) =>
         s \in quiet /\ \A j \in 1 .. Len(o.items) : j > k => o.items[j] # Item(s)
    /\ (s \in o.ends \/ (Holding(o) /\ o.hand = End(s))) =>
         s \in quiet /\ \A j \in 1 .. Len(o.items) : o.items[j] # Item(s)
    /\ (s \in o.ends /\ Holding(o)) => o.hand # Item(s)

OpenFits(w, o, sent, quiet) ==
  /\ CountsFit(w, o, sent)
  /\ EndsFit(w, o, quiet)
  /\ o.pc \in {"last", "ask", "settle"} => o.ends = Reads[w]

OutputFits(w, o, sent, quiet) ==
  /\ Holding(o) => o.taken
  /\ o.fate = "open" <=> o.pc \notin {"closed", "gone"}
  /\ o.fate # "open" => o.items = <<>> /\ o.fate = o.result
  /\ o.result # "done" => o.pc \in {"last", "ask", "settle", "closed", "gone"}
  /\ (o.fate = "open" /\ o.result = "done") => OpenFits(w, o, sent, quiet)
  /\ o.fate = "done" => \A s \in Reads[w] : s \in quiet /\ o.wrote[s] = sent[s]

LEMMA Words ==
  /\ \A s, t : Item(s) # End(t)
  /\ \A s, t : Item(s) = Item(t) => s = t
  /\ \A s, t : End(s) = End(t) => s = t
<1>1. "item" # "end"
  OBVIOUS
<1> QED BY <1>1 DEF Item, End

LEMMA HeldNat ==
  ASSUME NEW w \in Writer, NEW o \in WriterRecord(w), NEW s
  PROVE  Cardinality(At(o.items, Item(s))) \in Nat /\ InHand(o, s) \in {0, 1}
<1>1. o.items \in Seq(Said(w))
  BY WriterFields
<1> QED BY <1>1, AtFinite DEF InHand

LEMMA QuietFits ==
  ASSUME NEW w \in Writer, NEW o \in WriterRecord(w), NEW c \in WriterRecord(w), NEW sent,
         NEW quiet, NEW more, quiet \subseteq more, OutputFits(w, o, sent, quiet), Quiet(o, c)
  PROVE  OutputFits(w, c, sent, more)
<1>1. /\ c.items = o.items /\ c.hand = o.hand /\ c.ends = o.ends /\ c.wrote = o.wrote
      /\ c.fate = o.fate /\ c.result = o.result
      /\ Holding(c) <=> Holding(o)
      /\ Holding(o) => c.taken = o.taken
      /\ c.pc \in {"closed", "gone"} <=> o.pc \in {"closed", "gone"}
      /\ c.pc \in {"last", "ask", "settle"} <=> o.pc \in {"last", "ask", "settle"}
  BY DEF Quiet, Holding
<1>2. ASSUME OpenFits(w, o, sent, quiet) PROVE OpenFits(w, c, sent, more)
  <2>1. CountsFit(w, c, sent)
    BY <1>1, <1>2 DEF OpenFits, CountsFit, InHand
  <2>2. EndsFit(w, c, more)
    BY <1>1, <1>2 DEF OpenFits, EndsFit
  <2> QED BY <1>1, <1>2, <2>1, <2>2 DEF OpenFits
<1> QED BY <1>1, <1>2 DEF OutputFits

LEMMA TakesFits ==
  ASSUME NEW w \in Writer, NEW o \in WriterRecord(w), NEW c \in WriterRecord(w), NEW sent,
         NEW quiet, NEW more, quiet \subseteq more, OutputFits(w, o, sent, quiet), Takes(o, c)
  PROVE  OutputFits(w, c, sent, more)
<1>1. /\ o.pc \in {"next", "pop"} /\ c.pc = "took" /\ o.items # <<>>
      /\ c.hand = Head(o.items) /\ c.items = Tail(o.items) /\ c.taken
      /\ c.ends = o.ends /\ c.wrote = o.wrote /\ c.fate = o.fate /\ c.result = o.result
      /\ o.items \in Seq(Said(w)) /\ o.fate = "open" /\ o.result = "done"
      /\ ~Holding(o) /\ Holding(c)
  BY WriterFields DEF Takes, Holding, OutputFits
<1>2. OpenFits(w, o, sent, quiet)
  BY <1>1 DEF OutputFits
<1>3. PICK q \in Seq(Said(w)) : q = o.items
  BY <1>1
<1>4. PICK t \in Seq(Said(w)) : t = Tail(q)
  BY <1>1, <1>3, HeadTailProperties
<1>5. /\ Len(q) \in Nat /\ Len(t) \in Nat /\ Len(t) = Len(q) - 1 /\ q # <<>>
      /\ \A k \in 1 .. Len(t) : t[k] = q[k + 1]
      /\ Head(q) \in Said(w)
  BY <1>1, <1>3, <1>4, LenProperties, HeadTailProperties
<1>6. c.hand = q[1] /\ 1 \in 1 .. Len(q) /\ c.items = t
  BY <1>1, <1>3, <1>4, <1>5
<1>7. CountsFit(w, c, sent)
  <2> SUFFICES ASSUME NEW s \in Reads[w]
               PROVE  c.wrote[s] + (Cardinality(At(c.items, Item(s))) + InHand(c, s)) = sent[s]
    BY DEF CountsFit
  <2>1. o.wrote[s] + (Cardinality(At(q, Item(s))) + InHand(o, s)) = sent[s]
    BY <1>2, <1>3 DEF OpenFits, CountsFit
  <2>2. Cardinality(At(q, Item(s))) =
          Cardinality(At(t, Item(s))) + (IF Head(q) = Item(s) THEN 1 ELSE 0)
    BY <1>4, <1>5, AtTail
  <2>3. InHand(o, s) = 0 /\ InHand(c, s) = IF Head(q) = Item(s) THEN 1 ELSE 0
    BY <1>1, <1>3 DEF InHand
  <2>4. Cardinality(At(t, Item(s))) \in Nat
    BY AtFinite
  <2> QED BY <1>1, <1>6, <2>1, <2>2, <2>3, <2>4
<1>8. EndsFit(w, c, more)
  <2> SUFFICES ASSUME NEW s \in Reads[w]
               PROVE  /\ \A k \in 1 .. Len(t) : t[k] = End(s) =>
                           s \in more /\ \A j \in 1 .. Len(t) : j > k => t[j] # Item(s)
                      /\ (s \in o.ends \/ q[1] = End(s)) =>
                           s \in more /\ \A j \in 1 .. Len(t) : t[j] # Item(s)
                      /\ s \in o.ends => q[1] # Item(s)
    BY <1>1, <1>6 DEF EndsFit
  <2>1. /\ \A k \in 1 .. Len(q) : q[k] = End(s) =>
             s \in quiet /\ \A j \in 1 .. Len(q) : j > k => q[j] # Item(s)
        /\ s \in o.ends => s \in quiet /\ \A j \in 1 .. Len(q) : q[j] # Item(s)
    BY <1>2, <1>3 DEF OpenFits, EndsFit
  <2>2. \A k \in 1 .. Len(t) : k + 1 \in 1 .. Len(q) /\ k + 1 > 1
    BY <1>5
  <2>3. ASSUME NEW k \in 1 .. Len(t), t[k] = End(s)
        PROVE  s \in more /\ \A j \in 1 .. Len(t) : j > k => t[j] # Item(s)
    <3>1. q[k + 1] = End(s) /\ k + 1 \in 1 .. Len(q)
      BY <1>5, <2>2, <2>3
    <3>2. s \in quiet /\ \A j \in 1 .. Len(q) : j > k + 1 => q[j] # Item(s)
      BY <2>1, <3>1
    <3>3. ASSUME NEW j \in 1 .. Len(t), j > k PROVE t[j] # Item(s)
      <4>1. j + 1 \in 1 .. Len(q) /\ j + 1 > k + 1 /\ t[j] = q[j + 1]
        BY <1>5, <2>2, <3>3
      <4> QED BY <3>2, <4>1
    <3> QED BY <3>2, <3>3
  <2>4. ASSUME s \in o.ends \/ q[1] = End(s)
        PROVE  s \in more /\ \A j \in 1 .. Len(t) : t[j] # Item(s)
    <3>1. s \in quiet /\ \A j \in 1 .. Len(q) : j > 1 => q[j] # Item(s)
      BY <1>6, <2>1, <2>4
    <3>2. ASSUME NEW j \in 1 .. Len(t) PROVE t[j] # Item(s)
      <4>1. j + 1 \in 1 .. Len(q) /\ j + 1 > 1 /\ t[j] = q[j + 1]
        BY <1>5, <2>2
      <4> QED BY <3>1, <4>1
    <3> QED BY <3>1, <3>2
  <2>5. s \in o.ends => q[1] # Item(s)
    BY <1>6, <2>1
  <2> QED BY <2>3, <2>4, <2>5
<1>9. OpenFits(w, c, sent, more)
  BY <1>1, <1>7, <1>8 DEF OpenFits
<1> QED BY <1>1, <1>9 DEF OutputFits

LEMMA PutsFits ==
  ASSUME NEW w \in Writer, NEW o \in WriterRecord(w), NEW c \in WriterRecord(w), NEW sent,
         NEW quiet, NEW more, quiet \subseteq more, OutputFits(w, o, sent, quiet), Puts(w, o, c)
  PROVE  OutputFits(w, c, sent, more)
<1>1. PICK s \in Reads[w] : o.hand = Item(s) /\ c.wrote = [o.wrote EXCEPT ![s] = @ + 1]
  BY DEF Puts, Item
<1>2. /\ o.pc = "write" /\ c.pc = "next" /\ c.items = o.items /\ c.taken = o.taken /\ c.ends = o.ends
      /\ c.fate = o.fate /\ c.result = o.result
      /\ Holding(o) /\ ~Holding(c) /\ o.fate = "open" /\ o.result = "done"
      /\ o.wrote \in [Reads[w] -> Nat]
  BY WriterFields DEF Puts, Holding, OutputFits
<1>3. OpenFits(w, o, sent, quiet)
  BY <1>2 DEF OutputFits
<1>4. CountsFit(w, c, sent)
  <2> SUFFICES ASSUME NEW t \in Reads[w]
               PROVE  c.wrote[t] + (Cardinality(At(c.items, Item(t))) + InHand(c, t)) = sent[t]
    BY DEF CountsFit
  <2>1. o.wrote[t] + (Cardinality(At(o.items, Item(t))) + InHand(o, t)) = sent[t]
    BY <1>3 DEF OpenFits, CountsFit
  <2>2. InHand(c, t) = 0 /\ InHand(o, t) = IF t = s THEN 1 ELSE 0
    BY <1>1, <1>2, Words DEF InHand
  <2>3. o.wrote[t] \in Nat /\ c.wrote[t] = IF t = s THEN o.wrote[t] + 1 ELSE o.wrote[t]
    BY <1>1, <1>2
  <2>4. Cardinality(At(o.items, Item(t))) \in Nat
    BY HeldNat
  <2> QED BY <1>2, <2>1, <2>2, <2>3, <2>4
<1>5. EndsFit(w, c, more)
  BY <1>2, <1>3 DEF OpenFits, EndsFit
<1> QED BY <1>2, <1>4, <1>5 DEF OutputFits, OpenFits

LEMMA EndsFits ==
  ASSUME NEW w \in Writer, NEW o \in WriterRecord(w), NEW c \in WriterRecord(w), NEW sent,
         NEW quiet, NEW more, quiet \subseteq more, OutputFits(w, o, sent, quiet), Ends(w, o, c)
  PROVE  OutputFits(w, c, sent, more)
<1>1. PICK s \in Reads[w] : o.hand = End(s) /\ c.ends = o.ends \cup {s}
  BY DEF Ends, End
<1>2. /\ o.pc = "write" /\ c.pc = (IF c.ends = Reads[w] THEN "last" ELSE "next")
      /\ c.items = o.items /\ c.taken = o.taken /\ c.wrote = o.wrote
      /\ c.fate = o.fate /\ c.result = o.result
      /\ Holding(o) /\ ~Holding(c) /\ o.fate = "open" /\ o.result = "done"
  BY DEF Ends, Holding, OutputFits
<1>3. OpenFits(w, o, sent, quiet)
  BY <1>2 DEF OutputFits
<1>4. CountsFit(w, c, sent)
  <2>1. \A t \in Reads[w] : InHand(c, t) = InHand(o, t)
    BY <1>1, <1>2, Words DEF InHand
  <2> QED BY <1>2, <1>3, <2>1 DEF OpenFits, CountsFit
<1>5. EndsFit(w, c, more)
  BY <1>1, <1>2, <1>3 DEF OpenFits, EndsFit
<1> QED BY <1>2, <1>4, <1>5 DEF OutputFits, OpenFits

LEMMA ClosesFits ==
  ASSUME NEW w \in Writer, NEW o \in WriterRecord(w), NEW c \in WriterRecord(w), NEW sent,
         NEW quiet, NEW more, quiet \subseteq more, OutputFits(w, o, sent, quiet), Closes(o, c)
  PROVE  OutputFits(w, c, sent, more)
<1>1. /\ o.pc = "settle" /\ c.pc = "closed" /\ c.fate = o.result /\ c.items = <<>>
      /\ c.wrote = o.wrote /\ c.result = o.result /\ o.fate = "open"
      /\ o.wrote \in [Reads[w] -> Nat] /\ o.result \in {"done", "closed", "failed"}
      /\ ~Holding(o) /\ ~Holding(c)
  BY WriterFields DEF Closes, Holding, OutputFits
<1>2. ASSUME o.result = "done", NEW s \in Reads[w]
      PROVE  s \in more /\ c.wrote[s] = sent[s]
  <2>1. OpenFits(w, o, sent, quiet)
    BY <1>1, <1>2 DEF OutputFits
  <2>2. o.ends = Reads[w]
    BY <1>1, <2>1 DEF OpenFits
  <2>3. s \in quiet /\ \A j \in 1 .. Len(o.items) : o.items[j] # Item(s)
    BY <2>1, <2>2 DEF OpenFits, EndsFit
  <2>4. Cardinality(At(o.items, Item(s))) = 0
    <3>1. PICK q \in Seq(Said(w)) : q = o.items
      BY WriterFields
    <3>2. PICK x : x = Item(s)
      OBVIOUS
    <3>3. \A k \in 1 .. Len(q) : q[k] # x
      BY <2>3, <3>1, <3>2
    <3>4. Cardinality(At(q, x)) = 0
      BY <3>3, AtFinite
    <3> QED BY <3>1, <3>2, <3>4
  <2>5. InHand(o, s) = 0
    BY <1>1 DEF InHand
  <2>6. o.wrote[s] + (Cardinality(At(o.items, Item(s))) + InHand(o, s)) = sent[s]
    BY <2>1 DEF OpenFits, CountsFit
  <2> QED BY <1>1, <2>3, <2>4, <2>5, <2>6
<1> QED BY <1>1, <1>2 DEF OutputFits

\* An output's own step: what it wrote, has in hand and has queued is still all
\* that its streams carried.
LEMMA StepFits ==
  ASSUME NEW w \in Writer, NEW o \in WriterRecord(w), NEW c \in WriterRecord(w), NEW sent,
         NEW quiet, NEW more, quiet \subseteq more, OutputFits(w, o, sent, quiet),
         WriterStep(w, o, c)
  PROVE  OutputFits(w, c, sent, more)
<1>1. CASE Breaks(o, c)
  BY <1>1 DEF Breaks, OutputFits, Holding
<1> QED BY <1>1, QuietFits, TakesFits, PutsFits, EndsFits, ClosesFits DEF WriterStep

\* Output w is handed n items of stream s, and perhaps its end, if it reads it
\* and is open.
Handed(w, o, s, n, more, c) ==
  \/ (s \notin Reads[w] \/ o.fate # "open") /\ c = o
  \/ /\ s \in Reads[w] /\ o.fate = "open"
     /\ \E end \in BOOLEAN : Pushed(o, s, n, end, c) /\ (end => s \in more)

\* Stream s carried n more.
Sums(sent, s, n, sum) ==
  sum[s] = sent[s] + n /\ \A t \in Stream \ {s} : sum[t] = sent[t]

\* An open output is handed n items of stream s, and perhaps its end.
Grown(o, s, n, c) == \E end \in BOOLEAN : Pushed(o, s, n, end, c)

\* What it waits to write grows by as much.
LEMMA PushedWaits ==
  ASSUME NEW w \in Writer, NEW o \in WriterRecord(w), NEW c \in WriterRecord(w),
         NEW s \in Reads[w], NEW n \in Nat, Grown(o, s, n, c), NEW t \in Reads[w]
  PROVE  Cardinality(At(c.items, Item(t))) + InHand(c, t)
           = Cardinality(At(o.items, Item(t))) + InHand(o, t) + (IF t = s THEN n ELSE 0)
<1>1. PICK q \in Seq(Said(w)) : q = o.items
  BY WriterFields
<1>2. PICK d \in Seq(Said(w)) : d = c.items
  BY WriterFields
<1>3. PICK end \in BOOLEAN : Pushed(o, s, n, end, c)
  BY DEF Grown
<1>4. /\ Len(d) = Len(q) + n + (IF end THEN 1 ELSE 0)
      /\ \A k \in 1 .. Len(q) : d[k] = q[k]
      /\ \A k \in Len(q) + 1 .. Len(q) + n : d[k] = Item(s)
      /\ end => d[Len(q) + n + 1] = End(s)
      /\ Len(q) \in Nat /\ Len(d) \in Nat
  BY <1>1, <1>2, <1>3, LenProperties DEF Pushed, Item, End
<1>5. c.hand = o.hand /\ (Holding(c) <=> Holding(o))
  BY <1>3 DEF Pushed, Holding
<1>6. PICK x : x = Item(t)
  OBVIOUS
<1>7. PICK y \in Said(w) : y = Item(s)
  BY DEF Said, Item
<1>8. PICK a \in Nat : a = Len(q)
  BY <1>4
<1>9. /\ a + n <= Len(d)
      /\ \A k \in 1 .. a : d[k] = q[k]
      /\ \A k \in a + 1 .. a + n : d[k] = y
      /\ \A k \in a + n + 1 .. Len(d) : d[k] # x
  <2>1. PICK b \in Nat : b = Len(d)
    BY <1>4
  <2>2. b = a + n + (IF end THEN 1 ELSE 0)
    BY <1>4, <1>8, <2>1
  <2>3. a + n <= b /\ \A k \in a + n + 1 .. b : end /\ k = a + n + 1
    BY <2>2
  <2>4. end => d[a + n + 1] # x
    BY <1>4, <1>6, <1>8, Words
  <2>5. /\ \A k \in 1 .. a : d[k] = q[k]
        /\ \A k \in a + 1 .. a + n : d[k] = y
    BY <1>4, <1>7, <1>8
  <2> QED BY <2>1, <2>3, <2>4, <2>5
<1>10. /\ x = y => Cardinality(At(d, x)) = Cardinality(At(q, x)) + n
       /\ x # y => Cardinality(At(d, x)) = Cardinality(At(q, x))
  <2>1. Follows(q, d, a, n, x, y)
    BY <1>8, <1>9 DEF Follows
  <2> QED BY <2>1, AtPushed
<1>11. x = y <=> t = s
  BY <1>6, <1>7, Words
<1>12. InHand(c, t) = InHand(o, t) /\ InHand(o, t) \in {0, 1}
  BY <1>5 DEF InHand
<1>13. Cardinality(At(q, x)) \in Nat
  BY AtFinite
<1>14. Cardinality(At(d, x)) + InHand(c, t)
         = Cardinality(At(q, x)) + InHand(o, t) + (IF t = s THEN n ELSE 0)
  <2>1. PICK i \in {0, 1} : i = InHand(o, t) /\ i = InHand(c, t)
    BY <1>12
  <2>2. PICK m \in Nat : m = Cardinality(At(q, x))
    BY <1>13
  <2>3. Cardinality(At(d, x)) = IF t = s THEN m + n ELSE m
    BY <1>10, <1>11, <2>2
  <2> QED BY <2>1, <2>2, <2>3
<1> QED BY <1>1, <1>2, <1>6, <1>14

\* What a stream that had not ended hands on queues behind the rest.
LEMMA GivesFits ==
  ASSUME NEW w \in Writer, NEW o \in WriterRecord(w), NEW c \in WriterRecord(w),
         NEW s \in Stream, NEW n \in Nat, Reads[w] \subseteq Stream,
         NEW sent \in [Stream -> Nat], NEW sum \in [Stream -> Nat], Sums(sent, s, n, sum),
         NEW more, NEW quiet, quiet \subseteq more, s \notin quiet,
         OutputFits(w, o, sent, quiet), Handed(w, o, s, n, more, c)
  PROVE  OutputFits(w, c, sum, more)
<1>1. \A t \in Stream : t # s => sum[t] = sent[t]
  BY DEF Sums
<1>2. sum[s] = sent[s] + n /\ sent[s] \in Nat
  BY DEF Sums
<1>3. CASE s \notin Reads[w]
  <2>1. \A t \in Reads[w] : sum[t] = sent[t]
    BY <1>1, <1>3
  <2>2. ASSUME OpenFits(w, o, sent, quiet) PROVE OpenFits(w, o, sum, more)
    <3>1. CountsFit(w, o, sum)
      BY <2>1, <2>2 DEF OpenFits, CountsFit
    <3>2. EndsFit(w, o, more)
      BY <2>2 DEF OpenFits, EndsFit
    <3> QED BY <2>2, <3>1, <3>2 DEF OpenFits
  <2>3. OutputFits(w, o, sum, more)
    BY <2>1, <2>2 DEF OutputFits
  <2> QED BY <1>3, <2>3 DEF Handed
<1>4. CASE s \in Reads[w] /\ o.fate # "open"
  <2>1. o.fate # "done"
    BY <1>4 DEF OutputFits
  <2>2. OutputFits(w, o, sum, more)
    BY <1>4, <2>1 DEF OutputFits
  <2> QED BY <1>4, <2>2 DEF Handed
<1>5. CASE s \in Reads[w] /\ o.fate = "open"
  <2>1. PICK end \in BOOLEAN : Pushed(o, s, n, end, c) /\ (end => s \in more)
    BY <1>5 DEF Handed
  <2>2. PICK q \in Seq(Said(w)) : q = o.items
    BY WriterFields
  <2>3. PICK d \in Seq(Said(w)) : d = c.items
    BY WriterFields
  <2>4. /\ Len(d) = Len(q) + n + (IF end THEN 1 ELSE 0)
        /\ \A k \in 1 .. Len(q) : d[k] = q[k]
        /\ \A k \in Len(q) + 1 .. Len(q) + n : d[k] = Item(s)
        /\ end => d[Len(q) + n + 1] = End(s)
        /\ Len(q) \in Nat /\ Len(d) \in Nat
    BY <2>1, <2>2, <2>3, LenProperties DEF Pushed, Item, End
  <2>5. /\ c.taken = o.taken /\ c.hand = o.hand /\ c.ends = o.ends /\ c.wrote = o.wrote
        /\ c.fate = o.fate /\ c.result = o.result
        /\ Holding(c) <=> Holding(o)
        /\ c.pc \in {"closed", "gone"} <=> o.pc \in {"closed", "gone"}
        /\ c.pc \in {"last", "ask", "settle"} <=> o.pc \in {"last", "ask", "settle"}
    BY <2>1 DEF Pushed, Holding
  <2>6. ASSUME OpenFits(w, o, sent, quiet) PROVE OpenFits(w, c, sum, more)
    <3>1. CountsFit(w, c, sum)
      <4> SUFFICES ASSUME NEW t \in Reads[w]
                   PROVE  c.wrote[t] + (Cardinality(At(d, Item(t))) + InHand(c, t)) = sum[t]
        BY <2>3 DEF CountsFit
      <4>1. o.wrote[t] + (Cardinality(At(q, Item(t))) + InHand(o, t)) = sent[t]
        BY <2>2, <2>6 DEF OpenFits, CountsFit
      <4>2. Cardinality(At(d, Item(t))) + InHand(c, t)
              = Cardinality(At(q, Item(t))) + InHand(o, t) + (IF t = s THEN n ELSE 0)
        <5>1. Grown(o, s, n, c)
          BY <2>1 DEF Grown
        <5> QED BY <1>5, <2>2, <2>3, <5>1, PushedWaits
      <4>3. Cardinality(At(q, Item(t))) \in Nat /\ Cardinality(At(d, Item(t))) \in Nat
            /\ InHand(c, t) \in {0, 1} /\ InHand(o, t) \in {0, 1}
        BY <2>2, <2>3, HeldNat
      <4>4. o.wrote[t] \in Nat /\ c.wrote[t] = o.wrote[t]
        BY <2>5, WriterFields
      <4>5. t \in Stream /\ sum[t] = IF t = s THEN sent[t] + n ELSE sent[t]
        BY <1>1, <1>2
      <4> QED BY <4>1, <4>2, <4>3, <4>4, <4>5
    <3>2. EndsFit(w, c, more)
      <4> SUFFICES ASSUME NEW t \in Reads[w]
                   PROVE  /\ \A k \in 1 .. Len(d) : d[k] = End(t) =>
                               t \in more /\ \A j \in 1 .. Len(d) : j > k => d[j] # Item(t)
                          /\ (t \in o.ends \/ (Holding(o) /\ o.hand = End(t))) =>
                               t \in more /\ \A j \in 1 .. Len(d) : d[j] # Item(t)
                          /\ (t \in o.ends /\ Holding(o)) => o.hand # Item(t)
        BY <2>3, <2>5 DEF EndsFit
      <4>1. /\ \A k \in 1 .. Len(q) : q[k] = End(t) =>
                 t \in quiet /\ \A j \in 1 .. Len(q) : j > k => q[j] # Item(t)
            /\ (t \in o.ends \/ (Holding(o) /\ o.hand = End(t))) =>
                 t \in quiet /\ \A j \in 1 .. Len(q) : q[j] # Item(t)
            /\ (t \in o.ends /\ Holding(o)) => o.hand # Item(t)
        BY <2>2, <2>6 DEF OpenFits, EndsFit
      <4>2. \A k \in 1 .. Len(d) : k \in 1 .. Len(q) \/ k \in Len(q) + 1 .. Len(q) + n
                                   \/ (end /\ k = Len(q) + n + 1)
        <5>1. PICK a \in Nat : a = Len(q)
          BY <2>4
        <5>2. PICK b \in Nat : b = Len(d)
          BY <2>4
        <5>3. b = a + n + (IF end THEN 1 ELSE 0)
          BY <2>4, <5>1, <5>2
        <5>4. \A k \in 1 .. b : k \in 1 .. a \/ k \in a + 1 .. a + n \/ (end /\ k = a + n + 1)
          BY <5>3
        <5> QED BY <5>1, <5>2, <5>4
      <4>3. t \in quiet => \A j \in 1 .. Len(d) : j \notin 1 .. Len(q) => d[j] # Item(t)
        BY <2>4, <4>2, Words
      <4>4. ASSUME NEW k \in 1 .. Len(d), d[k] = End(t)
            PROVE  t \in more /\ \A j \in 1 .. Len(d) : j > k => d[j] # Item(t)
        <5>1. CASE k \in 1 .. Len(q)
          <6>1. q[k] = End(t)
            BY <2>4, <4>4, <5>1
          <6>2. t \in quiet /\ \A j \in 1 .. Len(q) : j > k => q[j] # Item(t)
            BY <4>1, <5>1, <6>1
          <6> QED BY <2>4, <4>3, <6>2
        <5>2. CASE k \in Len(q) + 1 .. Len(q) + n
          <6>1. d[k] = Item(s)
            BY <2>4, <5>2
          <6> QED BY <4>4, <6>1, Words
        <5>3. CASE end /\ k = Len(q) + n + 1
          <6>1. t = s
            BY <2>4, <4>4, <5>3, Words
          <6>2. \A j \in 1 .. Len(d) : ~(j > k)
            BY <2>4, <5>3
          <6> QED BY <2>1, <5>3, <6>1, <6>2
        <5> QED BY <4>2, <5>1, <5>2, <5>3
      <4>5. ASSUME t \in o.ends \/ (Holding(o) /\ o.hand = End(t))
            PROVE  t \in more /\ \A j \in 1 .. Len(d) : d[j] # Item(t)
        <5>1. t \in quiet /\ \A j \in 1 .. Len(q) : q[j] # Item(t)
          BY <4>1, <4>5
        <5> QED BY <2>4, <4>3, <5>1
      <4> QED BY <4>1, <4>4, <4>5
    <3> QED BY <2>5, <2>6, <3>1, <3>2 DEF OpenFits
  <2> QED BY <1>5, <2>5, <2>6 DEF OutputFits
<1> QED BY <1>3, <1>4, <1>5

Quieted == {s \in Stream : Silent(s)}

\* WriterOK is OutputFits of the output's record, in this state and the next.
LEMMA FitsOutput ==
  ASSUME NEW w \in Writer, Reads[w] \subseteq Stream, writer[w] \in WriterRecord(w)
  PROVE  WriterOK(w) <=> OutputFits(w, writer[w], carried, Quieted)
<1>1. DOMAIN writer[w].items = 1 .. Len(writer[w].items)
  BY WriterFields, LenProperties
<1>2. Held(w) <=> Holding(writer[w])
  BY DEF Held, Holding
<1>3. \A s \in Reads[w] : Behind(w, s) = Cardinality(At(writer[w].items, Item(s))) + InHand(writer[w], s)
  BY <1>1, Zenon DEF Behind, At, InHand, Holding, Item
<1>4. \A s \in Reads[w] : s \in Quieted <=> Silent(s)
  BY DEF Quieted
<1>5. OpenOK(w) <=> OpenFits(w, writer[w], carried, Quieted)
  BY <1>1, <1>2, <1>3, <1>4 DEF OpenOK, OpenFits, CountsFit, EndsFit
<1> QED BY <1>2, <1>4, <1>5 DEF WriterOK, OutputFits

LEMMA FitsOutputPrimed ==
  ASSUME UNCHANGED net, NEW w \in Writer, Reads[w] \subseteq Stream, writer'[w] \in WriterRecord(w),
         OutputFits(w, writer'[w], carried', Quieted')
  PROVE  WriterOK(w)'
<1>1. DOMAIN writer'[w].items = 1 .. Len(writer'[w].items)
  BY WriterFields, LenProperties
<1>2. Held(w)' <=> Holding(writer'[w])
  BY DEF Held, Holding
<1>3. \A s \in Reads[w] :
        Behind(w, s)' = Cardinality(At(writer'[w].items, Item(s))) + InHand(writer'[w], s)
  BY <1>1, Zenon DEF Behind, At, InHand, Holding, Item
<1>4. \A s \in Reads[w] : s \in Quieted' <=> Silent(s)'
  BY DEF Quieted
<1>5. Reads' = Reads
  BY FieldsPrimed
<1>6. OpenFits(w, writer'[w], carried', Quieted') => OpenOK(w)'
  BY <1>1, <1>2, <1>3, <1>4, <1>5 DEF OpenOK, OpenFits, CountsFit, EndsFit, Item, End
<1> QED BY <1>2, <1>4, <1>5, <1>6 DEF WriterOK, OutputFits

LEMMA NextWritersInvariant ==
  ASSUME LanesInvariant, net \in Nets, Outs, Moved, WritersInvariant
  PROVE  WritersInvariant'
<1>1. WritersNext /\ net' = net /\ carried' \in [Stream -> Nat]
  BY DEF Moved, LanesNext
<1>2. /\ \A w \in Writer : writer[w] \in WriterRecord(w) /\ writer'[w] \in WriterRecord(w)
      /\ carried \in [Stream -> Nat]
  BY <1>1, WritersTyped DEF LanesInvariant, TypeOK
<1>3. \A w \in Writer : Reads[w] \subseteq Stream
  BY NetKinds
<1>4. Quieted \subseteq Quieted'
  BY SilentStays DEF Quieted
<1> SUFFICES ASSUME NEW w \in Writer PROVE WriterOK(w)'
  BY DEF WritersInvariant
<1>5. PICK o \in WriterRecord(w) : o = writer[w]
  BY <1>2
<1>6. PICK c \in WriterRecord(w) : c = writer'[w]
  BY <1>2
<1>7. OutputFits(w, o, carried, Quieted)
  BY <1>2, <1>3, <1>5, FitsOutput DEF WritersInvariant
<1>8. PICK sent \in [Stream -> Nat] : sent = carried
  BY <1>2
<1>9. OutputFits(w, o, sent, Quieted)
  BY <1>7, <1>8
<1>10. OutputFits(w, c, carried', Quieted')
  <2>1. CASE UNCHANGED carried /\ c = o
    <3>1. OutputFits(w, o, sent, Quieted')
      BY <1>4, <1>9 DEF OutputFits, OpenFits, EndsFit
    <3> QED BY <1>8, <2>1, <3>1
  <2>2. ASSUME UNCHANGED carried, NEW v \in Writer, NEW d \in WriterRecord(v),
               writer' = [writer EXCEPT ![v] = d], WriterStep(v, writer[v], d)
        PROVE  OutputFits(w, c, carried', Quieted')
    <3>1. writer'[v] = d /\ \A u \in Writer \ {v} : writer'[u] = writer[u]
      BY <2>2, OneWriter
    <3>2. CASE w = v
      <4>1. WriterStep(w, o, c)
        BY <1>5, <1>6, <2>2, <3>1, <3>2
      <4>2. OutputFits(w, c, sent, Quieted')
        BY <1>4, <1>9, <4>1, StepFits
      <4> QED BY <1>8, <2>2, <4>2
    <3>3. CASE w # v
      BY <1>5, <1>6, <2>1, <2>2, <3>1, <3>3
    <3> QED BY <3>2, <3>3
  <2>3. ASSUME NEW s \in Stream, NEW n \in Nat, NEW end \in BOOLEAN, Gives(s, n, end)
        PROVE  OutputFits(w, c, carried', Quieted')
    <3>1. /\ ~Silent(s) /\ (end => Silent(s)')
          /\ carried' = [carried EXCEPT ![s] = @ + n]
          /\ writer'[w] = Push(w, s, n, end)
      BY <2>3, Zenon DEF Gives
    <3>2. s \notin Quieted /\ (end => s \in Quieted')
      BY <3>1 DEF Quieted
    <3>3. /\ s \notin Reads[w] \/ o.fate # "open" => c = o
          /\ s \in Reads[w] /\ o.fate = "open" => Pushed(o, s, n, end, c)
      BY <1>5, <1>6, <3>1, PushFields
    <3>4. PICK sum \in [Stream -> Nat] : sum = [sent EXCEPT ![s] = @ + n]
      <4>1. [sent EXCEPT ![s] = @ + n] \in [Stream -> Nat]
        OBVIOUS
      <4> QED BY <4>1
    <3>5. OutputFits(w, c, sum, Quieted')
      <4>1. Reads[w] \subseteq Stream
        BY <1>3
      <4>2. Sums(sent, s, n, sum)
        BY <3>4 DEF Sums
      <4>3. PICK quiet : quiet = Quieted
        OBVIOUS
      <4>4. PICK more : more = Quieted'
        OBVIOUS
      <4>5. quiet \subseteq more /\ s \notin quiet /\ OutputFits(w, o, sent, quiet)
        BY <1>4, <1>9, <3>2, <4>3, <4>4
      <4>6. Handed(w, o, s, n, more, c)
        BY <3>2, <3>3, <4>4 DEF Handed
      <4>7. OutputFits(w, c, sum, more)
        BY <4>1, <4>2, <4>5, <4>6, GivesFits
      <4> QED BY <4>4, <4>7
    <3> QED BY <1>8, <3>1, <3>4, <3>5
  <2> QED BY <1>1, <1>5, <1>6, <2>1, <2>2, <2>3 DEF WritersNext
<1> QED BY <1>1, <1>2, <1>3, <1>6, <1>10, FitsOutputPrimed

LEMMA InitWriters ==
  ASSUME Init, LanesInvariant
  PROVE  WritersInvariant
<1> SUFFICES ASSUME NEW w \in Writer PROVE WriterOK(w)
  BY DEF WritersInvariant
<1>1. net \in Nets /\ carried = [s \in Stream |-> 0]
  BY DEF Init
<1>2. Reads[w] \subseteq Stream
  BY <1>1, NetKinds
<1>3. writer[w] = [pc |-> "next", items |-> <<>>, taken |-> FALSE, hand |-> None,
                   ends |-> {}, wrote |-> [s \in Reads[w] |-> 0],
                   fate |-> "open", result |-> "done"]
  BY Zenon DEF Init
<1>4. \A s \in Reads[w] : Behind(w, s) = 0
  <2>1. \A s \in Reads[w] : {k \in DOMAIN writer[w].items : writer[w].items[k] = <<s, "item">>} = {}
    BY <1>3
  <2>2. writer[w].pc = "next"
    BY <1>3
  <2> QED BY <2>1, <2>2, FS_EmptySet DEF Behind
<1>5. OpenOK(w)
  <2>1. \A s \in Reads[w] : writer[w].wrote[s] + Behind(w, s) = carried[s]
    <3>1. \A s \in Reads[w] : writer[w].wrote[s] = 0 /\ carried[s] = 0
      BY <1>1, <1>2, <1>3
    <3> QED BY <1>4, <3>1
  <2>2. /\ writer[w].pc = "next" /\ writer[w].ends = {}
        /\ \A k \in DOMAIN writer[w].items : FALSE
    BY <1>3
  <2> QED BY <2>1, <2>2 DEF OpenOK, Held
<1> QED BY <1>3, <1>5 DEF WriterOK, Held

LEMMA WritersSafe == Spec => []WritersInvariant
<1>1. Init /\ LanesInvariant => WritersInvariant
  BY InitWriters
<1>2. SeenInvariant /\ LanesInvariant /\ WritersInvariant /\ [Next]_vars => WritersInvariant'
  <2> SUFFICES ASSUME SeenInvariant, LanesInvariant, WritersInvariant, [Next]_vars
               PROVE  WritersInvariant'
    OBVIOUS
  <2>1. net \in Nets /\ Lanes /\ Outs
    BY DEF SeenInvariant, Places
  <2>2. Moved
    BY <2>1, StepMoves
  <2> QED BY <2>1, <2>2, NextWritersInvariant
<1> QED BY <1>1, <1>2, NetworkSafe, LanesSafe, PTL DEF Spec

\* An output written whole holds every item each of its streams carried, in
\* every network: what an output was given is written, queued or in its writer's
\* hand until its last stream's end, and nothing follows a stream's end.
THEOREM OutputsWrittenWhole == Spec => []WrittenWhole
<1>1. WritersInvariant => WrittenWhole
  BY DEF WritersInvariant, WriterOK, WrittenWhole
<1> QED BY <1>1, WritersSafe, PTL

-----------------------------------------------------------------------------
(* Credit bounds what waits.                                               *)

\* Behind, of a record.
Waits(o, s) == Cardinality(At(o.items, Item(s))) + InHand(o, s)

\* The lanes output w reads that have a turn out, the turns being tu.
Lively(w, tu) == {l \in Reads[w] \cap Lane : Out(l, tu) # {}}

\* A turn of each of them may still come; and what fits in all.
Load(w, tu) == TurnMax * Cardinality(Lively(w, tu))
Limit(w) == Cap + TurnMax * Cardinality(Reads[w])

TurnsSmall(tu) ==
  \A u \in Worker : tu[u] # None =>
    /\ tu[u].hi - tu[u].lo < TurnMax
    /\ tu[u].lane \in Unbuffered => tu[u].hi = tu[u].lo

OneAtATime(w) == \A l \in Reads[w] \cap Lane : LaneWidth[l] = 1

CreditFits(w, o, tu) ==
  /\ OneAtATime(w) => Len(o.items) + Load(w, tu) < Limit(w)
  /\ \A s \in Reads[w] \cap Unbuffered : Waits(o, s) <= IF Out(s, tu) = {} THEN 1 ELSE 0

LEMMA Product ==
  ASSUME NEW t \in Nat, NEW j \in Nat, NEW k \in Nat
  PROVE  /\ t * j \in Nat /\ t * (j + 1) = t * j + t
         /\ j <= k => t * j <= t * k
<1>1. t * j \in Nat /\ t * (j + 1) = t * j + t
  OBVIOUS
<1>2. ASSUME j <= k PROVE t * j <= t * k
  <2>1. PICK d \in Nat : k = j + d
    BY <1>2
  <2>2. t * (j + d) = t * j + t * d
    OBVIOUS
  <2>3. t * d \in Nat /\ t * j \in Nat
    OBVIOUS
  <2> QED BY <2>1, <2>2, <2>3
<1> QED BY <1>1, <1>2

LEMMA Loads ==
  ASSUME net \in Nets, NEW w \in Writer, NEW tu
  PROVE  /\ IsFiniteSet(Lively(w, tu)) /\ Load(w, tu) \in Nat /\ Limit(w) \in Nat
         /\ Load(w, tu) + Cap <= Limit(w)
         /\ \A s \in Reads[w] : s \notin Lively(w, tu) => Load(w, tu) + TurnMax + Cap <= Limit(w)
<1>1. /\ IsFiniteSet(Reads[w]) /\ Lively(w, tu) \subseteq Reads[w]
      /\ Cap \in Nat /\ TurnMax \in Nat
  BY NetKinds, TurnMaxNat DEF Lively
<1>2. PICK m \in Nat : m = Cardinality(Reads[w])
  BY <1>1, FS_CardinalityType
<1>3. /\ IsFiniteSet(Lively(w, tu)) /\ Cardinality(Lively(w, tu)) <= m
  BY <1>1, <1>2, FS_Subset
<1>4. PICK j \in Nat : j = Cardinality(Lively(w, tu))
  BY <1>3, FS_CardinalityType
<1>5. TurnMax * j \in Nat /\ TurnMax * m \in Nat /\ TurnMax * j <= TurnMax * m
  BY <1>1, <1>3, <1>4, Product
<1>6. ASSUME NEW s \in Reads[w], s \notin Lively(w, tu)
      PROVE  TurnMax * j + TurnMax <= TurnMax * m
  <2>1. Lively(w, tu) # Reads[w]
    BY <1>6
  <2>2. j # m
    BY <1>1, <1>2, <1>4, <2>1, FS_Subset
  <2>3. j + 1 <= m /\ j + 1 \in Nat
    BY <1>3, <1>4, <2>2
  <2>4. TurnMax * (j + 1) <= TurnMax * m
    BY <1>1, <2>3, Product
  <2>5. TurnMax * (j + 1) = TurnMax * j + TurnMax
    BY <1>1, Product
  <2> QED BY <2>4, <2>5
<1> QED BY <1>1, <1>2, <1>3, <1>4, <1>5, <1>6 DEF Load, Limit

\* The turns of one lane change.
LEMMA LoadMoves ==
  ASSUME net \in Nets, NEW w \in Writer, NEW tu, NEW tv, NEW l \in Lane,
         \A k \in Lane \ {l} : Out(k, tv) = Out(k, tu)
  PROVE  /\ l \notin Reads[w] => Load(w, tv) = Load(w, tu)
         /\ (l \in Reads[w] /\ Out(l, tu) # {} /\ Out(l, tv) = {}) => Load(w, tv) + TurnMax = Load(w, tu)
<1>1. ASSUME l \notin Reads[w] PROVE Load(w, tv) = Load(w, tu)
  <2>1. Lively(w, tv) = Lively(w, tu)
    BY <1>1 DEF Lively
  <2> QED BY <2>1 DEF Load
<1>2. ASSUME l \in Reads[w], Out(l, tu) # {}, Out(l, tv) = {}
      PROVE  Load(w, tv) + TurnMax = Load(w, tu)
  <2>1. Lively(w, tv) = Lively(w, tu) \ {l} /\ l \in Lively(w, tu)
    BY <1>2 DEF Lively
  <2>2. IsFiniteSet(Lively(w, tu)) /\ IsFiniteSet(Lively(w, tv))
    BY Loads
  <2>3. Cardinality(Lively(w, tv)) = Cardinality(Lively(w, tu)) - 1
    BY <2>1, <2>2, FS_RemoveElement
  <2>4. PICK j \in Nat : j = Cardinality(Lively(w, tv))
    BY <2>2, FS_CardinalityType
  <2>5. Cardinality(Lively(w, tu)) \in Nat
    BY <2>2, FS_CardinalityType
  <2>6. Cardinality(Lively(w, tu)) = j + 1
    BY <2>3, <2>4, <2>5
  <2>7. TurnMax * (j + 1) = TurnMax * j + TurnMax
    BY TurnMaxNat, Product
  <2> QED BY <2>4, <2>6, <2>7 DEF Load
<1> QED BY <1>1, <1>2

LEMMA WaitsNat ==
  ASSUME NEW w \in Writer, NEW o \in WriterRecord(w), NEW s
  PROVE  Waits(o, s) \in Nat /\ Len(o.items) \in Nat
<1>1. Len(o.items) \in Nat
  BY WriterFields, LenProperties
<1> QED BY <1>1, HeldNat DEF Waits

\* An output's own step leaves it no further behind.
LEMMA StepWaits ==
  ASSUME NEW w \in Writer, NEW o \in WriterRecord(w), NEW c \in WriterRecord(w), WriterStep(w, o, c)
  PROVE  /\ Len(c.items) <= Len(o.items)
         /\ \A s \in Reads[w] : Waits(c, s) <= Waits(o, s)
<1>0. /\ \A s : Cardinality(At(o.items, Item(s))) \in Nat /\ InHand(o, s) \in {0, 1}
      /\ \A s : Cardinality(At(c.items, Item(s))) \in Nat /\ InHand(c, s) \in {0, 1}
      /\ Len(o.items) \in Nat /\ Len(c.items) \in Nat
  BY HeldNat, WaitsNat
<1>1. CASE Quiet(o, c)
  <2>1. c.items = o.items /\ c.hand = o.hand /\ (Holding(c) <=> Holding(o))
    BY <1>1 DEF Quiet, Holding
  <2> QED BY <1>0, <2>1 DEF Waits, InHand
<1>2. CASE Takes(o, c)
  <2>1. /\ o.items # <<>> /\ c.hand = Head(o.items) /\ c.items = Tail(o.items)
        /\ ~Holding(o) /\ o.items \in Seq(Said(w))
    BY <1>2, WriterFields DEF Takes, Holding
  <2>2. PICK q \in Seq(Said(w)) : q = o.items
    BY <2>1
  <2>3. Len(Tail(q)) = Len(q) - 1
    BY <2>1, <2>2, HeadTailProperties
  <2>4. ASSUME NEW s \in Reads[w] PROVE Waits(c, s) <= Waits(o, s)
    <3>1. Cardinality(At(q, Item(s))) =
            Cardinality(At(Tail(q), Item(s))) + (IF Head(q) = Item(s) THEN 1 ELSE 0)
      BY <2>1, <2>2, AtTail
    <3>2. InHand(o, s) = 0 /\ InHand(c, s) <= IF Head(q) = Item(s) THEN 1 ELSE 0
      BY <2>1, <2>2 DEF InHand
    <3> QED BY <1>0, <2>1, <2>2, <3>1, <3>2 DEF Waits
  <2> QED BY <1>0, <2>1, <2>2, <2>3, <2>4
<1>3. CASE Puts(w, o, c) \/ Ends(w, o, c) \/ Breaks(o, c)
  <2>1. c.items = o.items /\ ~Holding(c)
    BY <1>3 DEF Puts, Ends, Breaks, Holding
  <2>2. \A s : InHand(c, s) = 0
    BY <2>1 DEF InHand
  <2> QED BY <1>0, <2>1, <2>2 DEF Waits
<1>4. CASE Closes(o, c)
  <2>1. c.items = <<>> /\ ~Holding(c)
    BY <1>4 DEF Closes, Holding
  <2>2. \A s : InHand(c, s) = 0
    BY <2>1 DEF InHand
  <2>3. Len(c.items) = 0
    BY <2>1
  <2>4. ASSUME NEW s \in Reads[w] PROVE Waits(c, s) = 0
    <3>1. At(c.items, Item(s)) = {}
      BY <2>1 DEF At
    <3>2. Cardinality(At(c.items, Item(s))) = 0
      BY <3>1, FS_EmptySet
    <3> QED BY <2>2, <3>2 DEF Waits
  <2>5. \A s \in Reads[w] : Waits(o, s) \in Nat
    BY WaitsNat
  <2> QED BY <1>0, <2>3, <2>4, <2>5
<1> QED BY <1>1, <1>2, <1>3, <1>4 DEF WriterStep

\* What a push adds: at most gain, items of stream s at most n.
Gains(w, o, s, n, gain, c) ==
  /\ s \notin Reads[w] => c = o
  /\ Len(c.items) <= Len(o.items) + gain
  /\ \A t \in Reads[w] : Waits(c, t) <= Waits(o, t) + (IF t = s THEN n ELSE 0)

LEMMA PushGains ==
  ASSUME net \in Nets, NEW w \in Writer, NEW o \in WriterRecord(w), o = writer[w],
         NEW s, NEW n \in Nat, NEW end \in BOOLEAN, NEW c \in WriterRecord(w), c = Push(w, s, n, end),
         NEW gain \in Nat, n <= gain, end => n + 1 <= gain
  PROVE  Gains(w, o, s, n, gain, c)
<1>1. /\ s \notin Reads[w] \/ o.fate # "open" => c = o
      /\ s \in Reads[w] /\ o.fate = "open" => Pushed(o, s, n, end, c)
  BY PushFields
<1>3. /\ \A t : Waits(o, t) \in Nat
      /\ Len(o.items) \in Nat
  BY WaitsNat
<1>4. CASE c = o
  BY <1>3, <1>4 DEF Gains
<1>5. CASE s \in Reads[w] /\ Pushed(o, s, n, end, c)
  <2>1. Len(c.items) <= Len(o.items) + gain
    <3>1. Len(c.items) = Len(o.items) + n + (IF end THEN 1 ELSE 0)
      BY <1>5 DEF Pushed
    <3>2. PICK m \in Nat : m = Len(o.items)
      BY <1>3
    <3>3. CASE end
      <4>0. (IF end THEN 1 ELSE 0) = 1
        BY <3>3, Zenon
      <4>1. Len(c.items) = m + n + 1
        BY <3>1, <3>2, <4>0
      <4>2. n + 1 <= gain
        BY <3>3, Zenon
      <4> QED BY <3>2, <4>1, <4>2
    <3>4. CASE ~end
      <4>1. Len(c.items) = m + n
        BY <3>1, <3>2, <3>4
      <4> QED BY <3>2, <4>1
    <3> QED BY <3>3, <3>4
  <2>2. ASSUME NEW t \in Reads[w] PROVE Waits(c, t) = Waits(o, t) + (IF t = s THEN n ELSE 0)
    <3>1. Grown(o, s, n, c)
      BY <1>5 DEF Grown
    <3> QED BY <1>5, <3>1, PushedWaits DEF Waits
  <2>3. \A t \in Reads[w] : Waits(c, t) <= Waits(o, t) + (IF t = s THEN n ELSE 0)
    BY <1>3, <2>2
  <2> QED BY <1>5, <2>1, <2>3 DEF Gains
<1> QED BY <1>1, <1>4, <1>5

\* A step of its own leaves an output within its bounds.
LEMMA OwnCredit ==
  ASSUME net \in Nets, NEW w \in Writer, NEW o \in WriterRecord(w), NEW c \in WriterRecord(w), NEW tu,
         CreditFits(w, o, tu), WriterStep(w, o, c)
  PROVE  CreditFits(w, c, tu)
<1>1. /\ Len(c.items) <= Len(o.items)
      /\ \A s \in Reads[w] : Waits(c, s) <= Waits(o, s)
  BY StepWaits
<1>2. /\ Len(o.items) \in Nat /\ Len(c.items) \in Nat
      /\ \A s : Waits(o, s) \in Nat /\ Waits(c, s) \in Nat
  BY WaitsNat
<1>3. Load(w, tu) \in Nat /\ Limit(w) \in Nat
  BY Loads
<1>4. OneAtATime(w) => Len(c.items) + Load(w, tu) < Limit(w)
  BY <1>1, <1>2, <1>3 DEF CreditFits
<1>5. ASSUME NEW s \in Reads[w] \cap Unbuffered
      PROVE  Waits(c, s) <= IF Out(s, tu) = {} THEN 1 ELSE 0
  BY <1>1, <1>2 DEF CreditFits
<1> QED BY <1>4, <1>5 DEF CreditFits

\* Worker u's turns alone differ, and they are of lane l.
OneTurn(u, l, tu, tv) ==
  /\ \A v \in Worker \ {u} : tv[v] = tu[v]
  /\ tu[u] # None => tu[u].lane = l
  /\ tv[u] # None => tv[u].lane = l

LEMMA OtherLanes ==
  ASSUME NEW u \in Worker, NEW l \in Lane, NEW tu, NEW tv, OneTurn(u, l, tu, tv)
  PROVE  \A k \in Lane \ {l} : Out(k, tv) = Out(k, tu)
  BY DEF OneTurn, Out

\* A turn of lane l starts: its readers had room, or had taken all it made.
LEMMA StartCredit ==
  ASSUME net \in Nets, NEW w \in Writer, NEW o \in WriterRecord(w), o = writer[w],
         Holding(o) => o.taken, o.fate # "open" => o.items = <<>> /\ ~Holding(o),
         NEW u \in Worker, NEW l \in Lane, NEW tu, NEW tv, OneTurn(u, l, tu, tv),
         tv[u] # None, Credit(l, Picked), CreditFits(w, o, tu)
  PROVE  CreditFits(w, o, tv)
<1>1. \A k \in Lane \ {l} : Out(k, tv) = Out(k, tu)
  BY OtherLanes
<1>2. Unbuffered \subseteq Lane
  BY NetworkAssumption DEF Unbuffered
<1>3. CASE l \notin Reads[w]
  <2>1. Load(w, tv) = Load(w, tu)
    BY <1>1, <1>3, LoadMoves
  <2>2. \A s \in Reads[w] \cap Unbuffered : Out(s, tv) = Out(s, tu)
    BY <1>1, <1>2, <1>3
  <2> QED BY <2>1, <2>2 DEF CreditFits
<1>4. CASE l \in Reads[w]
  <2>1. CASE l \notin Unbuffered
    <3>1. Len(o.items) < Cap
      BY <1>4, <2>1 DEF Credit, Room
    <3>2. Len(o.items) \in Nat /\ Cap \in Nat
      BY WaitsNat, NetKinds
    <3>3. Load(w, tv) \in Nat /\ Limit(w) \in Nat /\ Load(w, tv) + Cap <= Limit(w)
      BY Loads
    <3>4. Len(o.items) + Load(w, tv) < Limit(w)
      BY <3>1, <3>2, <3>3
    <3>5. \A s \in Reads[w] \cap Unbuffered : Out(s, tv) = Out(s, tu)
      BY <1>1, <1>2, <2>1
    <3> QED BY <3>4, <3>5 DEF CreditFits
  <2>2. CASE l \in Unbuffered
    <3>1. o.fate # "open" \/ (o.items = <<>> /\ ~o.taken)
      BY <1>4, <2>2 DEF Credit, Drained
    <3>2. o.items = <<>> /\ ~Holding(o)
      BY <3>1
    <3>3. Len(o.items) = 0
      BY <3>2
    <3>4. Load(w, tv) \in Nat /\ Limit(w) \in Nat /\ Load(w, tv) + Cap <= Limit(w) /\ Cap \in Nat \ {0}
      BY Loads, NetKinds
    <3>5. Len(o.items) + Load(w, tv) < Limit(w)
      BY <3>3, <3>4
    <3>6. Waits(o, l) = 0
      <4>1. At(o.items, Item(l)) = {}
        BY <3>2 DEF At
      <4>2. Cardinality(At(o.items, Item(l))) = 0
        BY <4>1, FS_EmptySet
      <4>3. InHand(o, l) = 0
        BY <3>2 DEF InHand
      <4> QED BY <4>2, <4>3 DEF Waits
    <3>7. ASSUME NEW s \in Reads[w] \cap Unbuffered
          PROVE  Waits(o, s) <= IF Out(s, tv) = {} THEN 1 ELSE 0
      <4>1. CASE s = l
        BY <3>6, <4>1
      <4>2. CASE s # l
        <5>1. Out(s, tv) = Out(s, tu)
          BY <1>1, <1>2, <4>2
        <5> QED BY <5>1 DEF CreditFits
      <4> QED BY <4>1, <4>2
    <3> QED BY <3>5, <3>7 DEF CreditFits
  <2> QED BY <2>1, <2>2
<1> QED BY <1>3, <1>4

\* The turn of lane l ends: it is what its readers were found room for.
LEMMA EndCredit ==
  ASSUME net \in Nets, NEW w \in Writer, NEW o \in WriterRecord(w), NEW c \in WriterRecord(w),
         NEW u \in Worker, NEW l \in Lane, NEW tu, NEW tv, OneTurn(u, l, tu, tv),
         tu[u] # None, tv[u] = None, LaneWidth[l] = 1 => Out(l, tu) = {u},
         NEW n \in Nat, NEW gain \in Nat, LaneWidth[l] = 1 => gain <= TurnMax,
         l \in Unbuffered => n <= 1, Gains(w, o, l, n, gain, c), CreditFits(w, o, tu)
  PROVE  CreditFits(w, c, tv)
<1>1. \A k \in Lane \ {l} : Out(k, tv) = Out(k, tu)
  BY OtherLanes
<1>2. Unbuffered \subseteq Lane /\ (l \in Unbuffered => LaneWidth[l] = 1)
  BY NetKinds, NetworkAssumption DEF Unbuffered
<1>3. LaneWidth[l] = 1 => Out(l, tu) # {} /\ Out(l, tv) = {}
  BY DEF OneTurn, Out
<1>4. /\ Len(o.items) \in Nat /\ Len(c.items) \in Nat
      /\ \A s : Waits(o, s) \in Nat /\ Waits(c, s) \in Nat
  BY WaitsNat
<1>5. CASE l \notin Reads[w]
  <2>1. Load(w, tv) = Load(w, tu)
    BY <1>1, <1>5, LoadMoves
  <2>2. \A s \in Reads[w] \cap Unbuffered : Out(s, tv) = Out(s, tu)
    BY <1>1, <1>2, <1>5
  <2>3. c = o
    BY <1>5 DEF Gains
  <2> QED BY <2>1, <2>2, <2>3 DEF CreditFits
<1>6. CASE l \in Reads[w]
  <2>1. OneAtATime(w) => Len(c.items) + Load(w, tv) < Limit(w)
    <3> SUFFICES ASSUME OneAtATime(w) PROVE Len(c.items) + Load(w, tv) < Limit(w)
      OBVIOUS
    <3>1. LaneWidth[l] = 1
      BY <1>6 DEF OneAtATime
    <3>2. Load(w, tv) + TurnMax = Load(w, tu)
      BY <1>1, <1>3, <1>6, <3>1, LoadMoves
    <3>3. Len(c.items) <= Len(o.items) + gain /\ gain <= TurnMax
      BY <3>1 DEF Gains
    <3>4. Load(w, tv) \in Nat /\ Load(w, tu) \in Nat /\ Limit(w) \in Nat /\ TurnMax \in Nat
      BY Loads, TurnMaxNat
    <3>5. Len(o.items) + Load(w, tu) < Limit(w)
      BY DEF CreditFits
    <3> QED BY <1>4, <3>2, <3>3, <3>4, <3>5
  <2>2. ASSUME NEW s \in Reads[w] \cap Unbuffered
        PROVE  Waits(c, s) <= IF Out(s, tv) = {} THEN 1 ELSE 0
    <3>1. Waits(o, s) <= IF Out(s, tu) = {} THEN 1 ELSE 0
      BY DEF CreditFits
    <3>2. Waits(c, s) <= Waits(o, s) + (IF s = l THEN n ELSE 0)
      BY DEF Gains
    <3>3. CASE s = l
      <4>1. Waits(o, s) <= 0 /\ n <= 1 /\ Out(s, tv) = {}
        BY <1>2, <1>3, <3>1, <3>3
      <4>2. Waits(c, s) <= Waits(o, s) + n
        BY <3>2, <3>3
      <4>3. Waits(c, s) <= 1
        BY <1>4, <4>1, <4>2
      <4> QED BY <4>1, <4>3
    <3>4. CASE s # l
      <4>1. Waits(c, s) <= Waits(o, s) /\ Out(s, tv) = Out(s, tu)
        BY <1>1, <1>2, <1>4, <3>2, <3>4
      <4> QED BY <1>4, <3>1, <4>1
    <3> QED BY <3>3, <3>4
  <2> QED BY <2>1, <2>2 DEF CreditFits
<1> QED BY <1>5, <1>6

\* An input feeds what its readers had room for.
LEMMA FeedCredit ==
  ASSUME net \in Nets, NEW w \in Writer, NEW o \in WriterRecord(w), NEW c \in WriterRecord(w),
         NEW tu, NEW i \in Input, i \in Reads[w] => Len(o.items) < Cap,
         NEW n \in Nat, Gains(w, o, i, n, 1, c), CreditFits(w, o, tu)
  PROVE  CreditFits(w, c, tu)
<1>1. i \notin Lane /\ Unbuffered \subseteq Lane
  BY NetworkAssumption DEF Unbuffered
<1>2. /\ Len(o.items) \in Nat /\ Len(c.items) \in Nat
      /\ \A s : Waits(o, s) \in Nat /\ Waits(c, s) \in Nat
  BY WaitsNat
<1>3. CASE i \notin Reads[w]
  BY <1>3 DEF Gains
<1>4. CASE i \in Reads[w]
  <2>1. Len(c.items) <= Len(o.items) + 1 /\ Len(o.items) < Cap
    BY <1>4 DEF Gains
  <2>2. i \notin Lively(w, tu)
    BY <1>1 DEF Lively
  <2>3. Load(w, tu) \in Nat /\ Limit(w) \in Nat /\ Load(w, tu) + TurnMax + Cap <= Limit(w)
    BY <1>4, <2>2, Loads
  <2>4. TurnMax \in Nat \ {0} /\ Cap \in Nat
    BY TurnMaxNat, NetKinds
  <2>5. Len(c.items) + Load(w, tu) < Limit(w)
    BY <1>2, <2>1, <2>3, <2>4
  <2>6. ASSUME NEW s \in Reads[w] \cap Unbuffered
        PROVE  Waits(c, s) <= IF Out(s, tu) = {} THEN 1 ELSE 0
    <3>1. Waits(o, s) <= IF Out(s, tu) = {} THEN 1 ELSE 0
      BY DEF CreditFits
    <3>2. Waits(c, s) <= Waits(o, s) + (IF s = i THEN n ELSE 0)
      BY DEF Gains
    <3>3. Waits(c, s) <= Waits(o, s)
      BY <1>1, <1>2, <3>2
    <3> QED BY <1>2, <3>1, <3>3
  <2> QED BY <2>5, <2>6 DEF CreditFits
<1> QED BY <1>3, <1>4

-----------------------------------------------------------------------------

\* CreditInvariant, of the outputs' records, in this state and the next.
LEMMA FitsCredit ==
  ASSUME CreditInvariant, NEW w \in Writer, writer[w] \in WriterRecord(w)
  PROVE  TurnsSmall(turn) /\ CreditFits(w, writer[w], turn)
<1>1. DOMAIN writer[w].items = 1 .. Len(writer[w].items)
  BY WriterFields, LenProperties
<1>2. \A s : Behind(w, s) = Waits(writer[w], s)
  BY <1>1, Zenon DEF Behind, Waits, At, InHand, Holding, Item
<1>3. \A l : Busy(l) = Out(l, turn)
  BY DEF Busy, Out
<1>4. Working(w) = Lively(w, turn)
  BY <1>3 DEF Working, Lively
<1> QED BY <1>2, <1>3, <1>4
        DEF CreditInvariant, TurnsSmall, CreditFits, OneAtATime, Load, Limit

LEMMA FitsCreditPrimed ==
  ASSUME UNCHANGED net, TurnsSmall(turn'),
         \A w \in Writer : writer'[w] \in WriterRecord(w) /\ CreditFits(w, writer'[w], turn')
  PROVE  CreditInvariant'
<1>1. ASSUME NEW w \in Writer
      PROVE  /\ (\A l \in Reads[w] \cap Lane : LaneWidth[l] = 1) =>
                  Len(writer'[w].items) + TurnMax * Cardinality(Working(w)')
                    < Cap + TurnMax * Cardinality(Reads[w])
             /\ \A s \in Reads[w] \cap Unbuffered :
                  Behind(w, s)' <= IF Busy(s)' = {} THEN 1 ELSE 0
  <2>1. DOMAIN writer'[w].items = 1 .. Len(writer'[w].items)
    BY WriterFields, LenProperties
  <2>2. \A s : Behind(w, s)' = Waits(writer'[w], s)
    BY <2>1, Zenon DEF Behind, Waits, At, InHand, Holding, Item
  <2>3. \A l : Busy(l)' = Out(l, turn')
    BY DEF Busy, Out
  <2>4. Reads' = Reads
    BY FieldsPrimed
  <2>5. Working(w)' = Lively(w, turn')
    BY <2>3, <2>4 DEF Working, Lively
  <2> QED BY <2>2, <2>3, <2>5 DEF CreditFits, OneAtATime, Load, Limit
<1>2. \A u \in Worker : turn'[u] # None =>
        /\ turn'[u].hi - turn'[u].lo < TurnMax
        /\ turn'[u].lane \in Unbuffered => turn'[u].hi = turn'[u].lo
  BY DEF TurnsSmall
<1>3. Reads' = Reads /\ LaneWidth' = LaneWidth /\ Unbuffered' = Unbuffered /\ Cap' = Cap
  BY FieldsPrimed
<1> QED BY <1>1, <1>2, <1>3 DEF CreditInvariant

\* All that a state's credit rests on, and what it gives of each output.
Within ==
  LanesInvariant /\ WritersInvariant /\ CreditInvariant /\ net \in Nets /\ Lanes /\ Outs

LEMMA WithinFacts ==
  ASSUME Within, NEW w \in Writer
  PROVE  /\ writer[w] \in WriterRecord(w) /\ CreditFits(w, writer[w], turn)
         /\ Holding(writer[w]) => writer[w].taken
         /\ writer[w].fate # "open" => writer[w].items = <<>> /\ ~Holding(writer[w])
<1>1. writer[w] \in WriterRecord(w)
  BY DEF Within, LanesInvariant, TypeOK
<1>2. CreditFits(w, writer[w], turn)
  BY <1>1, FitsCredit DEF Within
<1>3. WriterOK(w)
  BY DEF Within, WritersInvariant
<1>4. Holding(writer[w]) => writer[w].taken
  BY <1>3 DEF WriterOK, Held, Holding
<1>5. writer[w].fate # "open" => writer[w].items = <<>> /\ ~Holding(writer[w])
  BY <1>3 DEF WriterOK, Holding
<1> QED BY <1>1, <1>2, <1>4, <1>5

LEMMA WithinTurns ==
  ASSUME Within
  PROVE  TurnsSmall(turn) /\ turn \in Tours
  BY LanesFacts DEF Within, CreditInvariant, TurnsSmall

CreditNext == TurnsSmall(turn') /\ \A w \in Writer : CreditFits(w, writer'[w], turn')

LEMMA DispatchCredit ==
  ASSUME Within, NEW u \in Worker, NEW l \in Lane, Dispatch(u, l)
  PROVE  CreditNext
<1>1. /\ turn'[u] # None /\ turn'[u].hi - turn'[u].lo < TurnMax
      /\ turn'[u].lane = l /\ (l \in Unbuffered => turn'[u].hi = turn'[u].lo)
      /\ \A v \in Worker \ {u} : turn'[v] = turn[v]
      /\ turn[u] = None /\ Credit(l, Picked)
  BY DispatchLanes DEF Within
<1>2. UNCHANGED writer
  BY Zenon DEF Dispatch
<1>3. TurnsSmall(turn')
  BY <1>1, WithinTurns DEF TurnsSmall
<1>4. OneTurn(u, l, turn, turn')
  BY <1>1 DEF OneTurn
<1>5. ASSUME NEW w \in Writer PROVE CreditFits(w, writer[w], turn')
  BY <1>1, <1>4, WithinFacts, StartCredit DEF Within
<1> QED BY <1>2, <1>3, <1>5 DEF CreditNext

LEMMA TurnDone ==
  ASSUME Within, NEW u \in Worker, NEW l \in Lane, l = turn[u].lane, worker[u] = "run",
         turn' = [turn EXCEPT ![u] = None], worker' = Roused([worker EXCEPT ![u] = "awake"])
  PROVE  /\ turn[u] # None /\ turn'[u] = None /\ OneTurn(u, l, turn, turn') /\ TurnsSmall(turn')
         /\ turn[u].lo \in Nat /\ turn[u].hi \in Nat /\ turn[u].hi - turn[u].lo < TurnMax
         /\ l \in Unbuffered => turn[u].hi = turn[u].lo
         /\ LaneWidth[l] = 1 => Out(l, turn) = {u}
<1>1. /\ turn[u] # None /\ turn[u].lo \in Nat /\ turn[u].hi \in Nat /\ u \in Out(l, turn)
      /\ turn'[u] = None /\ \A v \in Worker \ {u} : turn'[v] = turn[v]
  BY TurnEnds DEF Within
<1>2. OneTurn(u, l, turn, turn')
  BY <1>1 DEF OneTurn
<1>3. TurnsSmall(turn') /\ turn[u].hi - turn[u].lo < TurnMax
      /\ (l \in Unbuffered => turn[u].hi = turn[u].lo)
  BY <1>1, WithinTurns DEF TurnsSmall
<1>4. LaneWidth[l] = 1 => Out(l, turn) = {u}
  <2>1. TurnsOK(l, lane[l], turn)
    BY LanesFacts DEF Within, LaneFits
  <2>2. \A v \in Out(l, turn) \ {u} : LaneWidth[l] > 1
    BY <1>1, <2>1 DEF TurnsOK
  <2> QED BY <1>1, <2>2
<1> QED BY <1>1, <1>2, <1>3, <1>4

LEMMA FailsCredit ==
  ASSUME Within, NEW u \in Worker, NEW stop, Complete(u, stop, "failed")
  PROVE  CreditNext
<1>1. /\ worker[u] = "run" /\ turn' = [turn EXCEPT ![u] = None]
      /\ worker' = Roused([worker EXCEPT ![u] = "awake"]) /\ UNCHANGED writer
  BY Zenon DEF Complete, Notify
<1>2. PICK l \in Lane : l = turn[u].lane
  BY <1>1, TurnEnds DEF Within
<1>3. /\ turn[u] # None /\ turn'[u] = None /\ OneTurn(u, l, turn, turn') /\ TurnsSmall(turn')
      /\ LaneWidth[l] = 1 => Out(l, turn) = {u}
  BY <1>1, <1>2, TurnDone
<1>4. ASSUME NEW w \in Writer PROVE CreditFits(w, writer[w], turn')
  <2>1. PICK o \in WriterRecord(w) : o = writer[w]
    BY WithinFacts
  <2>2. Len(o.items) \in Nat /\ \A t : Waits(o, t) \in Nat
    BY WaitsNat
  <2>3. Gains(w, o, l, 0, 0, o)
    BY <2>2 DEF Gains
  <2>4. CreditFits(w, o, turn)
    BY <2>1, WithinFacts
  <2>5. 0 \in Nat /\ 0 <= TurnMax /\ 0 <= 1
    BY TurnMaxNat
  <2>6. net \in Nets
    BY DEF Within
  <2>7. CreditFits(w, o, turn')
    BY <1>3, <2>3, <2>4, <2>5, <2>6, EndCredit
  <2> QED BY <2>1, <2>7
<1> QED BY <1>1, <1>3, <1>4 DEF CreditNext

LEMMA CompletesCredit ==
  ASSUME Within, NEW u \in Worker, NEW stop, NEW verdict \in {"ok", "finished"},
         Complete(u, stop, verdict)
  PROVE  CreditNext
<1>1. /\ worker[u] = "run" /\ turn' = [turn EXCEPT ![u] = None]
      /\ worker' = Roused([worker EXCEPT ![u] = "awake"])
  BY Zenon DEF Complete, Notify
<1>2. PICK l \in Lane : l = turn[u].lane
  BY <1>1, TurnEnds DEF Within
<1>3. /\ turn[u] # None /\ turn'[u] = None /\ OneTurn(u, l, turn, turn') /\ TurnsSmall(turn')
      /\ turn[u].lo \in Nat /\ turn[u].hi \in Nat /\ turn[u].hi - turn[u].lo < TurnMax
      /\ l \in Unbuffered => turn[u].hi = turn[u].lo
      /\ LaneWidth[l] = 1 => Out(l, turn) = {u}
  BY <1>1, <1>2, TurnDone
<1>4. PICK a \in LaneRecord(l), n \in Nat :
        /\ Hands(l, lane[l], a, carried[l], n, turn[u].hi - turn[u].lo + 1)
        /\ HandOn([lane EXCEPT ![l] = a], l, n, a.ended)
  <2>1. LanesInvariant /\ net \in Nets /\ Lanes
    BY DEF Within
  <2> QED BY <1>2, <2>1, CompletesLanes, Zenon
<1>5. PICK end \in BOOLEAN : end = a.ended
  BY RecordTypes
<1>6. PICK gain \in Nat : gain = n + (IF a.ended THEN 1 ELSE 0)
  OBVIOUS
<1>7. n <= gain /\ (end => n + 1 <= gain)
  <2>1. CASE a.ended
    <3>1. (IF a.ended THEN 1 ELSE 0) = 1
      BY <2>1, Zenon
    <3>2. n <= gain /\ n + 1 <= gain
      BY <1>6, <3>1
    <3> QED BY <3>2, Zenon
  <2>2. CASE ~a.ended
    <3>1. (IF a.ended THEN 1 ELSE 0) = 0
      BY <2>2, Zenon
    <3>2. n <= gain
      BY <1>6, <3>1
    <3> QED BY <1>5, <2>2, <3>2, Zenon
  <2> QED BY <2>1, <2>2
<1>8. LaneWidth[l] = 1 => gain <= turn[u].hi - turn[u].lo + 1
  BY <1>4, <1>6, Zenon DEF Hands
<1>9. /\ LaneWidth[l] = 1 => gain <= TurnMax
      /\ l \in Unbuffered => n <= 1
  <2>1. l \in Unbuffered => LaneWidth[l] = 1
    BY NetKinds DEF Within
  <2> QED BY <1>3, <1>7, <1>8, <2>1, TurnMaxNat
<1>10. writer' = [w \in Writer |-> Push(w, l, n, end)]
  BY <1>4, <1>5, Zenon DEF HandOn
<1>11. ASSUME NEW w \in Writer PROVE CreditFits(w, writer'[w], turn')
  <2>1. PICK o \in WriterRecord(w) : o = writer[w]
    BY WithinFacts
  <2>2. net \in Nets
    BY DEF Within
  <2>3. PICK c \in WriterRecord(w) : c = Push(w, l, n, end)
    BY <2>1, <2>2, PushFields
  <2>4. Gains(w, o, l, n, gain, c)
    BY <1>7, <2>1, <2>2, <2>3, PushGains
  <2>5. CreditFits(w, o, turn)
    BY <2>1, WithinFacts
  <2>6. CreditFits(w, c, turn')
    BY <1>3, <1>9, <2>2, <2>4, <2>5, EndCredit
  <2> QED BY <1>10, <2>3, <2>6
<1> QED BY <1>3, <1>11 DEF CreditNext

LEMMA FeedsCredit ==
  ASSUME Within, NEW i \in Input, Feeds(i)
  PROVE  CreditNext
<1>1. PICK n \in Nat, end \in BOOLEAN : HandOn(lane, i, n, end) /\ n <= 1 /\ (end => n + 1 <= 1)
  <2>1. CASE fed[i] < net.gives[i]
    <3>1. HandOn(lane, i, 1, FALSE)
      BY <2>1, Zenon DEF Feeds
    <3>2. 1 \in Nat /\ 1 <= 1
      OBVIOUS
    <3> QED BY <3>1, <3>2, Zenon
  <2>2. CASE ~(fed[i] < net.gives[i])
    <3>1. HandOn(lane, i, 0, TRUE)
      BY <2>2, Zenon DEF Feeds
    <3>2. 0 \in Nat /\ 0 <= 1 /\ 0 + 1 <= 1
      OBVIOUS
    <3> QED BY <3>1, <3>2, Zenon
  <2> QED BY <2>1, <2>2
<1>2. UNCHANGED turn /\ Room(i, lane)
  BY Zenon DEF Feeds
<1>3. writer' = [w \in Writer |-> Push(w, i, n, end)]
  BY <1>1, Zenon DEF HandOn
<1>4. ASSUME NEW w \in Writer PROVE CreditFits(w, writer'[w], turn)
  <2>1. PICK o \in WriterRecord(w) : o = writer[w]
    BY WithinFacts
  <2>2. net \in Nets
    BY DEF Within
  <2>3. PICK c \in WriterRecord(w) : c = Push(w, i, n, end)
    BY <2>1, <2>2, PushFields
  <2>4. PICK gain \in Nat : gain = 1
    OBVIOUS
  <2>5. n <= gain /\ (end => n + 1 <= gain)
    BY <1>1, <2>4
  <2>6. Gains(w, o, i, n, gain, c)
    BY <2>1, <2>2, <2>3, <2>5, PushGains
  <2>7. i \in Reads[w] => Len(o.items) < Cap
    BY <1>2, <2>1 DEF Room
  <2>8. CreditFits(w, o, turn)
    BY <2>1, WithinFacts
  <2>9. CreditFits(w, c, turn)
    BY <2>2, <2>4, <2>6, <2>7, <2>8, FeedCredit
  <2> QED BY <1>3, <2>3, <2>9
<1> QED BY <1>2, <1>4, WithinTurns DEF CreditNext

\* Where neither a turn nor an output changes.
LEMMA CreditRests ==
  ASSUME Within, UNCHANGED <<turn, writer>>
  PROVE  CreditNext
<1>1. \A w \in Writer : CreditFits(w, writer'[w], turn')
  BY WithinFacts
<1> QED BY <1>1, WithinTurns DEF CreditNext

LEMMA WriteCredit ==
  ASSUME Within, NEW v \in Writer, Write(v)
  PROVE  CreditNext
<1>1. PICK o \in WriterRecord(v) : o = writer[v]
  BY WithinFacts
<1>2. PICK c \in WriterRecord(v) : writer' = [writer EXCEPT ![v] = c] /\ WriterStep(v, o, c)
  BY <1>1, WriteSteps DEF Within
<1>3. writer'[v] = c /\ \A w \in Writer \ {v} : writer'[w] = writer[w]
  BY <1>2, OneWriter DEF Within
<1>4. UNCHANGED turn
  BY DEF Write, Idles, Pops, Wakes, Writes, Counts, Asks, Settles, Moves, sched
<1>5. CreditFits(v, c, turn)
  BY <1>1, <1>2, WithinFacts, OwnCredit DEF Within
<1>6. \A w \in Writer : CreditFits(w, writer'[w], turn)
  BY <1>3, <1>5, WithinFacts
<1> QED BY <1>4, <1>6, WithinTurns DEF CreditNext

LEMMA NextCredit ==
  ASSUME Within, [Next]_vars
  PROVE  CreditNext
<1>1. ASSUME NEW u \in Worker, Work(u) PROVE CreditNext
  <2>1. CASE WorkerStops(u) \/ WorkerSleeps(u)
    BY <2>1, CreditRests DEF WorkerStops, WorkerSleeps
  <2>2. CASE \E l \in Lane : Dispatch(u, l)
    BY <2>2, DispatchCredit
  <2>3. ASSUME NEW stop, NEW verdict \in {"ok", "finished", "failed"}, Complete(u, stop, verdict)
        PROVE  CreditNext
    <3>1. CASE verdict = "failed"
      BY <2>3, <3>1, FailsCredit
    <3>2. CASE verdict # "failed"
      <4>1. verdict \in {"ok", "finished"}
        BY <3>2
      <4> QED BY <2>3, <4>1, CompletesCredit
    <3> QED BY <3>1, <3>2
  <2> QED BY <1>1, <2>1, <2>2, <2>3 DEF Work
<1>2. ASSUME NEW i \in Input, Feed(i) PROVE CreditNext
  <2>1. CASE FeedStops(i) \/ FeedSleeps(i) \/ Tears(i)
    BY <2>1, CreditRests DEF FeedStops, FeedSleeps, Tears
  <2>2. CASE Feeds(i)
    BY <2>2, FeedsCredit
  <2> QED BY <1>2, <2>1, <2>2 DEF Feed
<1>3. ASSUME Main PROVE CreditNext
  <2>1. UNCHANGED <<turn, writer>>
    BY <1>3, Zenon DEF Main, SetsOver, WaitsFinished, JoinsWorkers, JoinsWriters, Notify, sched
  <2> QED BY <2>1, CreditRests
<1>4. ASSUME Rest \/ UNCHANGED vars PROVE CreditNext
  <2>1. UNCHANGED <<turn, writer>>
    BY <1>4 DEF Rest, vars, sched
  <2> QED BY <2>1, CreditRests
<1> QED BY <1>1, <1>2, <1>3, <1>4, WriteCredit, Zenon DEF Next

LEMMA InitCredit ==
  ASSUME Init, LanesInvariant
  PROVE  CreditInvariant
<1>1. net \in Nets /\ \A u \in Worker : turn[u] = None
  BY DEF Init
<1>2. ASSUME NEW w \in Writer
      PROVE  /\ Len(writer[w].items) + TurnMax * Cardinality(Working(w))
                  < Cap + TurnMax * Cardinality(Reads[w])
             /\ \A s \in Reads[w] : Behind(w, s) = 0
  <2>1. writer[w] = [pc |-> "next", items |-> <<>>, taken |-> FALSE, hand |-> None,
                     ends |-> {}, wrote |-> [s \in Reads[w] |-> 0],
                     fate |-> "open", result |-> "done"]
    BY Zenon DEF Init
  <2>2. writer[w].items = <<>> /\ writer[w].pc = "next" /\ Len(writer[w].items) = 0
    BY <2>1
  <2>3. \A s \in Reads[w] : {k \in DOMAIN writer[w].items : writer[w].items[k] = <<s, "item">>} = {}
    BY <2>2
  <2>4. \A s \in Reads[w] : Behind(w, s) = 0
    BY <2>2, <2>3, FS_EmptySet DEF Behind
  <2>5. Working(w) = {}
    BY <1>1 DEF Working, Busy
  <2>6. TurnMax * Cardinality(Working(w)) = 0
    BY <2>5, FS_EmptySet, TurnMaxNat
  <2>7. Limit(w) \in Nat /\ Load(w, turn) \in Nat /\ Load(w, turn) + Cap <= Limit(w)
        /\ Cap \in Nat \ {0}
    BY <1>1, Loads, NetKinds
  <2> QED BY <2>2, <2>4, <2>6, <2>7 DEF Limit
<1>3. \A s : Busy(s) = {}
  BY <1>1 DEF Busy
<1> QED BY <1>1, <1>2, <1>3 DEF CreditInvariant

\* While a turn of its lane may still come an output has room left for it, and
\* with none to come it is within its bound.
LEMMA CreditEnough ==
  ASSUME Within
  PROVE  CreditBounds
<1>1. OutputBounded
  <2> SUFFICES ASSUME NEW w \in Writer, OneAtATime(w)
               PROVE  Len(writer[w].items) < Cap + TurnMax * Cardinality(Reads[w])
    BY DEF OutputBounded, OneAtATime
  <2>1. Len(writer[w].items) + Load(w, turn) < Limit(w)
    BY WithinFacts DEF CreditFits
  <2>2. Load(w, turn) \in Nat /\ Limit(w) \in Nat
    BY Loads DEF Within
  <2>3. Len(writer[w].items) \in Nat
    BY WithinFacts, WaitsNat
  <2> QED BY <2>1, <2>2, <2>3 DEF Limit
<1>2. OneItemBehind
  <2> SUFFICES ASSUME NEW w \in Writer, NEW s \in Reads[w] \cap Unbuffered PROVE Behind(w, s) <= 1
    BY DEF OneItemBehind
  <2>1. PICK b : b = Behind(w, s)
    OBVIOUS
  <2>2. writer[w] \in WriterRecord(w)
    BY WithinFacts
  <2>3. DOMAIN writer[w].items = 1 .. Len(writer[w].items)
    BY <2>2, WriterFields, LenProperties
  <2>4. Behind(w, s) = Waits(writer[w], s)
    BY <2>3, Zenon DEF Behind, Waits, At, InHand, Holding, Item
  <2>5. b \in Nat
    BY <2>1, <2>2, <2>4, WaitsNat
  <2>6. b <= IF Busy(s) = {} THEN 1 ELSE 0
    BY <2>1 DEF Within, CreditInvariant
  <2> QED BY <2>1, <2>5, <2>6
<1> QED BY <1>1, <1>2 DEF CreditBounds

\* What the credit found room for bounds what waits, in every network: an
\* output's queue by the network's depth and a turn of each of its streams, and
\* a leaky node's readers by one item.
THEOREM CreditHolds == Spec => []CreditBounds
<1>1. Init /\ LanesInvariant => CreditInvariant
  BY InitCredit
<1>2. SeenInvariant /\ LanesInvariant /\ WritersInvariant /\ CreditInvariant /\ [Next]_vars
        => CreditInvariant'
  <2> SUFFICES ASSUME SeenInvariant, LanesInvariant, WritersInvariant, CreditInvariant, [Next]_vars
               PROVE  CreditInvariant'
    OBVIOUS
  <2>1. Within
    BY DEF SeenInvariant, Places, Within
  <2>2. CreditNext
    BY <2>1, NextCredit
  <2>3. Moved
    BY <2>1, StepMoves DEF Within
  <2>4. net' = net /\ \A w \in Writer : writer'[w] \in WriterRecord(w)
    BY <2>1, <2>3, WritersTyped DEF Moved, Within
  <2> QED BY <2>2, <2>4, FitsCreditPrimed DEF CreditNext
<1>3. SeenInvariant /\ LanesInvariant /\ WritersInvariant /\ CreditInvariant => CreditBounds
  BY CreditEnough DEF SeenInvariant, Places, Within
<1> QED BY <1>1, <1>2, <1>3, NetworkSafe, LanesSafe, WritersSafe, PTL DEF Spec
=============================================================================
