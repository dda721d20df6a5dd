----------------------------- MODULE NodesProofs -----------------------------
(***************************************************************************)
(* That a split run reported clean was clean, that its stages never share  *)
(* a node, and that its report is whole: the proofs of NodesInv's          *)
(* invariant, for every plan.                                              *)
(***************************************************************************)
EXTENDS NodesInv, WellFoundedInduction, SequenceTheorems, TLAPS

-----------------------------------------------------------------------------
(* Plans, queues and the first of some members.                            *)

\* What a plan says of its stages.
LEMMA Planned ==
  ASSUME plan \in Plans
  PROVE  /\ plan.nodes \in Nat \ {0} /\ Nobody \notin Everyone
         /\ \A m \in Everyone : plan.home[m] \in Nodes
         /\ Len(plan.stages) \in Nat \ {0}
         /\ \A i \in 1 .. Len(plan.stages) :
              /\ Len(plan.stages[i].ids) \in Nat /\ Ids(i) \subseteq Everyone
              /\ writers(i) \subseteq Ids(i)
              /\ \A w \in writers(i) : readers(w, i) # {} /\ readers(w, i) \subseteq Ids(i)
              /\ \A j \in 1 .. i - 1 : Ids(i) \cap Ids(j) = {}
         /\ Nodes \subseteq Nat
<1>1. ASplit(plan)
  BY SplitAssumption
<1>2. ASSUME NEW i \in 1 .. Len(plan.stages)
      PROVE  /\ Len(plan.stages[i].ids) \in Nat /\ Ids(i) \subseteq Everyone
             /\ \A f \in plan.stages[i].feeders : f[1] \in Ids(i) /\ f[2] \in Ids(i)
             /\ \A j \in 1 .. i - 1 : \A k \in 1 .. Len(plan.stages[j].ids) :
                  plan.stages[j].ids[k] \notin Ids(i)
  BY <1>1 DEF ASplit, Ids, Everyone
<1>3. ASSUME NEW i \in 1 .. Len(plan.stages)
      PROVE  /\ writers(i) \subseteq Ids(i)
             /\ \A w \in writers(i) : readers(w, i) # {} /\ readers(w, i) \subseteq Ids(i)
  BY <1>2 DEF writers, readers
<1>4. ASSUME NEW i \in 1 .. Len(plan.stages), NEW j \in 1 .. i - 1
      PROVE  Ids(i) \cap Ids(j) = {}
  BY <1>2 DEF Ids
<1>5. /\ plan.nodes \in Nat \ {0} /\ Nobody \notin Everyone
      /\ \A m \in Everyone : plan.home[m] \in Nodes
      /\ Len(plan.stages) \in Nat \ {0} /\ Nodes \subseteq Nat
  BY <1>1 DEF ASplit, Everyone, Nodes
<1> QED BY <1>2, <1>3, <1>4, <1>5

\* While the plan stays, what it says stays.
LEMMA SamePlan ==
  ASSUME plan' = plan
  PROVE  /\ Nodes' = Nodes /\ Everyone' = Everyone /\ Orders' = Orders
         /\ \A i : Ids(i)' = Ids(i) /\ writers(i)' = writers(i)
         /\ \A n, i : Here(n, i)' = Here(n, i)
         /\ Someone' = Someone /\ Reports' = Reports /\ Endings' = Endings
         /\ Messages' = Messages /\ Results' = Results
         /\ NodeStates' = NodeStates
<1>1. Nodes' = Nodes /\ Everyone' = Everyone /\ Orders' = Orders
  BY DEF Nodes, Everyone, Orders
<1>2. \A i : Ids(i)' = Ids(i) /\ writers(i)' = writers(i)
  BY DEF Ids, writers
<1>3. \A n, i : Here(n, i)' = Here(n, i)
  BY <1>2 DEF Here
<1>4. Someone' = Someone /\ Reports' = Reports
  BY <1>1 DEF Someone, Reports, Codes
<1>5. Endings' = Endings /\ Messages' = Messages /\ Results' = Results
  BY <1>1, <1>4 DEF Endings, Messages, Results, Codes
<1>6. NodeStates' = NodeStates
  BY <1>5 DEF NodeStates
<1> QED BY <1>1, <1>2, <1>3, <1>4, <1>5, <1>6

\* A queue with a message more, and with one less.
LEMMA Queues ==
  ASSUME NEW S, NEW q \in Seq(S)
  PROVE  /\ Len(q) \in Nat
         /\ \A k \in 1 .. Len(q) : q[k] \in S
         /\ \A e \in S : /\ Append(q, e) \in Seq(S) /\ Len(Append(q, e)) = Len(q) + 1
                         /\ \A k \in 1 .. Len(q) : Append(q, e)[k] = q[k]
                         /\ Append(q, e)[Len(q) + 1] = e
         /\ q # <<>> => /\ Len(q) \in Nat \ {0} /\ Head(q) = q[1]
                        /\ Tail(q) \in Seq(S) /\ Len(Tail(q)) = Len(q) - 1
                        /\ \A k \in 1 .. Len(q) - 1 : Tail(q)[k] = q[k + 1]
BY LenProperties, ElementOfSeq, AppendProperties, HeadTailProperties, EmptySeq

\* The types that are asked for again and again.
LEMMA Typed ==
  ASSUME SplitTypes
  PROVE  /\ plan \in Plans /\ at \in 1 .. Len(plan.stages) /\ at \in Nat \ {0}
         /\ turn \in Nodes /\ turn \in Nat /\ \A n \in 1 .. turn - 1 : n \in Nodes
         /\ Len(results) \in Nat /\ Len(plan.stages) \in Nat /\ at <= Len(plan.stages)
         /\ \A i \in 1 .. Len(results) : results[i] \in Results
         /\ reported \subseteq Reports
         /\ \A n \in Nodes :
              /\ thread[n].index \in Nat /\ to[n] \in Seq(Orders) /\ from[n] \in Seq(Messages)
              /\ Len(to[n]) \in Nat /\ \A k \in 1 .. Len(to[n]) : to[n][k] \in Orders
              /\ Len(from[n]) \in Nat /\ \A k \in 1 .. Len(from[n]) : from[n][k] \in Messages
              /\ node[n].ended \subseteq Endings
<1>1. plan \in Plans /\ at \in 1 .. Len(plan.stages) /\ turn \in Nodes
  BY DEF SplitTypes, CoordinatorTypes, HeardTypes, RunnerTypes, QueueTypes
<1>2. Len(plan.stages) \in Nat /\ Nodes \subseteq Nat /\ plan.nodes \in Nat
  BY <1>1, Planned
<1>3. at \in Nat \ {0} /\ at <= Len(plan.stages) /\ turn \in Nat /\ turn <= plan.nodes
  BY <1>1, <1>2 DEF Nodes
<1>4. \A n \in 1 .. turn - 1 : n \in Nodes
  BY <1>2, <1>3 DEF Nodes
<1>5. results \in Seq(Results) /\ reported \subseteq Reports
  BY DEF SplitTypes, CoordinatorTypes, HeardTypes, RunnerTypes, QueueTypes
<1>6. Len(results) \in Nat /\ \A i \in 1 .. Len(results) : results[i] \in Results
  BY <1>5, LenProperties, ElementOfSeq
<1>7. \A n \in Nodes : thread[n].index \in Nat /\ node[n].ended \subseteq Endings
  BY DEF SplitTypes, CoordinatorTypes, HeardTypes, RunnerTypes, QueueTypes, NodeStates
<1>8. \A n \in Nodes : to[n] \in Seq(Orders) /\ from[n] \in Seq(Messages)
  BY DEF SplitTypes, CoordinatorTypes, HeardTypes, RunnerTypes, QueueTypes
<1>9. \A n \in Nodes : /\ Len(to[n]) \in Nat /\ \A k \in 1 .. Len(to[n]) : to[n][k] \in Orders
                       /\ Len(from[n]) \in Nat
                       /\ \A k \in 1 .. Len(from[n]) : from[n][k] \in Messages
  BY <1>8, LenProperties, ElementOfSeq
<1> QED BY <1>1, <1>2, <1>3, <1>4, <1>5, <1>6, <1>7, <1>8, <1>9

\* The first of some members is one of them.
LEMMA FirstIsOne ==
  ASSUME NEW s, Len(s) \in Nat, NEW S, S \subseteq {s[k] : k \in 1 .. Len(s)}
  PROVE  /\ S # {} => First(s, S) \in S
         /\ S = {} => First(s, S) = Nobody
<1> DEFINE P == {k \in 1 .. Len(s) : s[k] \in S}
<1>1. ASSUME S # {} PROVE First(s, S) \in S
  <2>1. P \in SUBSET Nat /\ P # {}
    BY <1>1
  <2>2. PICK k \in P : \A j \in P : ~ (<<j, k>> \in OpToRel(<, Nat))
    BY <2>1, NatLessThanWellFounded, WFMin
  <2>3. \A j \in P : ~(j < k)
    BY <2>1, <2>2 DEF OpToRel
  <2>4. k \in 1 .. Len(s) /\ s[k] \in S /\ \A j \in 1 .. k - 1 : s[j] \notin S
    BY <2>3
  <2> QED BY <1>1, <2>4 DEF First
<1> QED BY <1>1 DEF First

-----------------------------------------------------------------------------
(* What a step keeps, whoever takes it.                                    *)

\* A member that was started stays so, and how it ended stays.
Lives == \A m \in Everyone : /\ proc[m] # "none" => proc'[m] # "none"
                             /\ proc[m] \in {"zero", "fail"} => proc'[m] = proc[m]

\* A node that is lost stays so.
Losses == \A n \in Nodes : node[n].lost => node'[n].lost

\* A stage that is over at a node stays so, and starts nothing there.
Onward ==
  \A n \in Nodes, i \in Nat \ {0} : Finished(n, i) =>
    /\ Finished(n, i)'
    /\ \A m \in Everyone : m \in Here(n, i) => (proc'[m] = "none" <=> proc[m] = "none")

\* Nothing starts, and no runner or order moves.
LEMMA OnwardStill ==
  ASSUME UNCHANGED <<plan, to>>, thread' = thread,
         \A m \in Everyone : proc'[m] = "none" <=> proc[m] = "none"
  PROVE  Onward
<1>1. \A n, i : Finished(n, i) => Finished(n, i)'
  BY DEF Finished
<1> QED BY <1>1 DEF Onward

LEMMA OnwardSame ==
  ASSUME UNCHANGED <<plan, to, thread, proc>>
  PROVE  Onward /\ Lives
BY OnwardStill DEF Lives

\* The members of a stage at a node are the plan's.
LEMMA HereIsKnown ==
  ASSUME plan \in Plans, NEW n, NEW i \in 1 .. Len(plan.stages)
  PROVE  Here(n, i) \subseteq Everyone
BY Planned DEF Here

\* What is complete of a stage stays so.
LEMMA CompleteStays ==
  ASSUME plan' = plan, Onward, Losses, NEW n \in Nodes, NEW i \in Nat \ {0}, NEW M,
         Here(n, i) \subseteq Everyone, Complete(n, i, M)
  PROVE  Complete(n, i, M)'
BY SamePlan DEF Complete, Onward, Losses

\* What was reported stays complete and started.
LEMMA CollectingStays ==
  ASSUME SplitTypes, Progress, Collecting, Onward, Losses, Lives,
         UNCHANGED <<plan, at, phase, turn, reported, results>>
  PROVE  Collecting'
<1>1. PICK i, M : i = at /\ M = IdsIn(reported)
  OBVIOUS
<1>2. i' = i /\ M' = M /\ i \in Nat \ {0} /\ at' = i /\ IdsIn(reported)' = M
  BY <1>1, Typed DEF IdsIn
<1>3. \A m \in M : m \in Everyone /\ proc'[m] # "none"
  BY <1>1, Typed DEF Collecting, Lives, IdsIn, Reports
<1>4. ASSUME NEW n \in Nodes, Complete(n, i, M) PROVE Complete(n, at, IdsIn(reported))'
  <2>1. Here(n, i) \subseteq Everyone
    BY <1>1, Typed, HereIsKnown
  <2>2. Complete(n, i, M)'
    BY <1>2, <1>4, <2>1, CompleteStays
  <2> QED BY <1>2, <2>2 DEF Complete, Finished, Here, Ids
<1>5. phase' = "collect" => \A n \in 1 .. turn' - 1 : Complete(n, at, IdsIn(reported))'
  BY <1>1, <1>4, Typed DEF Collecting
<1>6. phase' = "collected" => \A n \in Nodes : Complete(n, at, IdsIn(reported))'
  BY <1>1, <1>4, Typed DEF Collecting
<1>7. ASSUME NEW j \in 1 .. Len(results), NEW n \in Nodes
      PROVE  Complete(n, j, IdsIn(results[j].members))'
  <2>1. j \in Nat \ {0} /\ j \in 1 .. Len(plan.stages) /\ Complete(n, j, IdsIn(results[j].members))
    BY Typed DEF Collecting, Progress
  <2>2. Here(n, j) \subseteq Everyone
    BY <2>1, Typed, HereIsKnown
  <2> QED BY <2>1, <2>2, SamePlan DEF Complete, Onward, Losses, Finished, IdsIn
<1>8. \A m \in IdsIn(reported)' : proc'[m] # "none"
  BY <1>2, <1>3
<1> QED BY <1>5, <1>6, <1>7, <1>8, SamePlan DEF Collecting

\* What is final stays so.
LEMMA FinalStays ==
  ASSUME plan' = plan, Onward, NEW n \in Nodes, NEW i \in Nat \ {0}, NEW M, Final(n, i, M)
  PROVE  Final(n, i, M)'
BY SamePlan DEF Final, WholeOf, Onward, IdsIn

\* A runner's last word of a stage stays final.
LEMMA EndsStay ==
  ASSUME SplitTypes, EndIsFinal, Onward, plan' = plan,
         \A n \in Nodes : \A k \in 1 .. Len(from'[n]) : from'[n][k].type = "stage-end" =>
           \/ \E j \in 1 .. Len(from[n]) : from'[n][k] = from[n][j]
           \/ \E x \in Messages : x = from'[n][k] /\ Final(n, x.index, x.members)',
         \A n \in Nodes : \A e \in node'[n].ended :
           e \in node[n].ended \/ Final(n, e.index, e.members)'
  PROVE  EndIsFinal'
<1>1. ASSUME NEW n \in Nodes, NEW x \in Messages, x.type = "stage-end",
             Final(n, x.index, x.members)
      PROVE  Final(n, x.index, x.members)'
  BY <1>1, FinalStays DEF Messages
<1>2. ASSUME NEW n \in Nodes, NEW e \in Endings, Final(n, e.index, e.members)
      PROVE  Final(n, e.index, e.members)'
  BY <1>2, FinalStays DEF Endings
<1>3. ASSUME NEW n \in Nodes, NEW k \in 1 .. Len(from'[n]), from'[n][k].type = "stage-end"
      PROVE  \E x \in Messages : x = from'[n][k] /\ Final(n, x.index, x.members)'
  <2> SUFFICES ASSUME NEW j \in 1 .. Len(from[n]), from'[n][k] = from[n][j]
               PROVE  \E x \in Messages : x = from'[n][k] /\ Final(n, x.index, x.members)'
    BY <1>3
  <2>2. PICK x : x = from[n][j]
    OBVIOUS
  <2>3. x \in Messages /\ x.type = "stage-end" /\ Final(n, x.index, x.members)
    BY <1>3, <2>2, Typed DEF EndIsFinal
  <2> QED BY <1>1, <2>2, <2>3
<1>4. ASSUME NEW n \in Nodes, NEW e \in node'[n].ended
      PROVE  Final(n, e.index, e.members)'
  <2>1. CASE e \in node[n].ended
    BY <1>2, <2>1, Typed DEF EndIsFinal
  <2> QED BY <1>4, <2>1
<1>5. ASSUME NEW n \in Nodes', NEW k \in (1 .. Len(from[n]))', (from[n][k].type = "stage-end")'
      PROVE  Final(n, from[n][k].index, from[n][k].members)'
  <2>1. PICK x \in Messages : x = from'[n][k] /\ Final(n, x.index, x.members)'
    BY <1>3, <1>5, SamePlan
  <2> QED BY <2>1 DEF Final, Finished, WholeOf, IdsIn
<1> QED BY <1>4, <1>5, SamePlan DEF EndIsFinal

\* What is known of a verdict stays known.
LEMMA VerdictStays ==
  ASSUME SplitTypes, Verdict, Lives, UNCHANGED <<plan, at, phase, struck>>, stop => stop',
         stage.error => stage'.error, stage.unheard # Nobody => stage'.unheard # Nobody
  PROVE  Verdict'
<1>1. Ran(at) => Ran(at)'
  <2>1. Ids(at) \subseteq Everyone
    BY Typed, Planned
  <2> QED BY <2>1, SamePlan DEF Ran, Lives, Ids, writers
<1> QED BY <1>1 DEF Verdict

\* So does what results there are.
LEMMA ProgressStays ==
  ASSUME SplitTypes, Progress, Lives, stop => stop',
         UNCHANGED <<plan, at, phase, raised, results, struck>>
  PROVE  Progress'
<1>1. \A i \in 1 .. Len(results) : i \in 1 .. Len(plan.stages)
  BY Typed DEF Progress
<1>2. ASSUME NEW i \in 1 .. Len(results), Ran(i) PROVE Ran(i)'
  <2>1. Ids(i) \subseteq Everyone
    BY <1>1, Typed, Planned
  <2> QED BY <1>2, <2>1, SamePlan DEF Ran, Lives
<1> QED BY <1>1, <1>2 DEF Progress

\* A step no thread of the coordinator's takes part in the run with.
LEMMA Aside ==
  ASSUME SplitInvariant, UNCHANGED coordinator, Lives, Losses, Onward, stop => stop',
         stage.error => stage'.error, stage.unheard # Nobody => stage'.unheard # Nobody,
         stage'.abort => stage.abort \/ stop' \/ stage'.error \/ stage'.unheard # Nobody
  PROVE  InTurn' /\ Collecting' /\ Reasoned' /\ Verdict' /\ Progress'
<1> USE DEF SplitInvariant, coordinator
<1>1. InTurn'
  BY DEF InTurn, Closing
<1>2. Collecting'
  BY CollectingStays
<1>3. Reasoned'
  BY DEF Reasoned, NotStruck
<1>4. Verdict'
  BY VerdictStays
<1>5. Progress'
  BY ProgressStays
<1> QED BY <1>1, <1>2, <1>3, <1>4, <1>5

\* The orders stay in order.
LEMMA ForwardStays ==
  ASSUME Forward, UNCHANGED <<plan, at, phase, turn, to>>,
         \A n \in Nodes : thread'[n].index = thread[n].index
  PROVE  Forward'
<1>1. \A n : Unsent(n)' = Unsent(n)
  BY DEF Unsent, Opening
<1> QED BY <1>1, SamePlan DEF Forward

\* What runs stays of its stage.
LEMMA OfItsStageStays ==
  ASSUME SplitTypes, OfItsStage, plan' = plan,
         \A m \in Everyone : Running(m)' => Running(m),
         \A n \in Nodes : /\ thread'[n].index = thread[n].index
                          /\ thread[n].do # "none" => thread'[n].do # "none"
  PROVE  OfItsStage'
<1>1. \A m \in Everyone : plan.home[m] \in Nodes
  BY Typed, Planned
<1>2. ASSUME NEW m \in Everyone, Running(m)'
      PROVE  /\ thread'[plan.home[m]].do # "none"
             /\ m \in Here(plan.home[m], thread'[plan.home[m]].index)
  <2>1. plan.home[m] \in Nodes /\ Running(m)
    BY <1>1, <1>2
  <2>2. thread[plan.home[m]].do # "none" /\ m \in Here(plan.home[m], thread[plan.home[m]].index)
    BY <2>1 DEF OfItsStage
  <2> QED BY <2>1, <2>2
<1>3. Everyone' = Everyone
  BY SamePlan
<1>4. ASSUME NEW m \in Everyone, Running(m)'
      PROVE  /\ thread'[plan'.home[m]].do # "none"
             /\ m \in Here(plan.home[m], thread[plan.home[m]].index)'
  <2>1. PICK i : i = thread'[plan.home[m]].index
    OBVIOUS
  <2>2. m \in Ids(i) /\ Ids(i)' = Ids(i)
    BY <1>2, <1>4, <2>1, SamePlan DEF Here
  <2>3. plan'.home[m] = plan.home[m] /\ thread'[plan.home[m]].do # "none"
    BY <1>2, <1>4
  <2> QED BY <2>1, <2>2, <2>3 DEF Here, Ids
<1> QED BY <1>3, <1>4 DEF OfItsStage

\* What was said stays so.
LEMMA TruthStays ==
  ASSUME SplitTypes, Truthful, Lives, Losses, plan' = plan,
         \A m \in stage'.started : m \in stage.started \/ proc'[m] # "none",
         \A m \in Everyone : stage'.code[m] = "zero" => stage.code[m] = "zero" \/ proc'[m] = "zero",
         \A m \in stage'.lost : m \in stage.lost \/ (m \in Everyone /\ node'[plan.home[m]].lost),
         \A n \in Nodes : \A k \in 1 .. Len(from'[n]) :
           \/ \E x \in Messages : x = from'[n][k] /\ True(x)'
           \/ \E j \in 1 .. Len(from[n]) : from'[n][k] = from[n][j]
  PROVE  Truthful'
<1>1. ASSUME NEW x \in Messages, True(x) PROVE True(x)'
  BY <1>1 DEF True, Messages, Lives
<1>2. ASSUME NEW n \in Nodes, NEW k \in 1 .. Len(from'[n])
      PROVE  \E x : x = from'[n][k] /\ True(x)'
  <2>2. CASE \E j \in 1 .. Len(from[n]) : from'[n][k] = from[n][j]
    <3>1. PICK j \in 1 .. Len(from[n]) : from'[n][k] = from[n][j]
      BY <2>2
    <3>2. PICK x : x = from[n][j]
      OBVIOUS
    <3>3. x \in Messages /\ True(x)
      BY <3>1, <3>2, Typed DEF Truthful
    <3> QED BY <1>1, <3>1, <3>2, <3>3
  <2> QED BY <2>2
<1>3. ASSUME NEW n \in Nodes', NEW k \in (1 .. Len(from[n]))' PROVE True(from[n][k])'
  <2>1. PICK x : x = from'[n][k] /\ True(x)'
    BY <1>2, SamePlan
  <2> QED BY <2>1 DEF True
<1>4. stage.started \subseteq Everyone /\ stage.lost \subseteq Everyone
  BY DEF SplitTypes, HeardTypes
<1>5. \A m \in Everyone : plan.home[m] \in Nodes
  BY Typed, Planned
<1> QED BY <1>3, <1>4, <1>5, SamePlan DEF Truthful, Lives, Losses

\* All the above, where no member starts, no stage begins or ends, and what is said
\* is so.
LEMMA Aloud ==
  ASSUME SplitInvariant, SplitTypes', UNCHANGED <<coordinator, to>>, Losses,
         \A n \in Nodes : /\ thread'[n].index = thread[n].index
                          /\ thread'[n].do = "none" <=> thread[n].do = "none"
                          /\ node'[n].ended \subseteq node[n].ended,
         \A n \in Nodes : \A k \in 1 .. Len(from'[n]) :
           \/ \E x \in Messages : x = from'[n][k] /\ x.type # "stage-end" /\ True(x)'
           \/ \E j \in 1 .. Len(from[n]) : from'[n][k] = from[n][j],
         \A m \in Everyone : \/ proc'[m] = proc[m]
                             \/ Running(m) /\ proc'[m] \in Codes \ {"none", "run"},
         UNCHANGED <<stage.started, stage.code, stage.lost>>, stop => stop',
         stage.error => stage'.error, stage.unheard # Nobody => stage'.unheard # Nobody,
         stage'.abort => stage.abort \/ stop' \/ stage'.error \/ stage'.unheard # Nobody
  PROVE  SplitInvariant'
<1> USE DEF SplitInvariant
<1>1. UNCHANGED <<plan, at, phase, turn>>
  BY DEF coordinator
<1>2. Lives
  BY DEF Lives, Running
<1>3. Onward
  <2>1. \A n \in Nodes : \A i : Finished(n, i) => Finished(n, i)'
    BY DEF Finished
  <2> QED BY <2>1 DEF Onward, Running, Codes
<1>4. InTurn' /\ Collecting' /\ Reasoned' /\ Verdict' /\ Progress'
  BY <1>2, <1>3, Aside
<1>5. Forward'
  BY <1>1, ForwardStays
<1>6. OfItsStage'
  BY <1>1, OfItsStageStays DEF Running, Codes
<1>7. Truthful'
  BY <1>1, <1>2, TruthStays
<1>8. EndIsFinal'
  BY <1>1, <1>3, EndsStay
<1> QED BY <1>4, <1>5, <1>6, <1>7, <1>8

\* And nothing is said.
LEMMA Still ==
  ASSUME SplitInvariant, SplitTypes', UNCHANGED <<coordinator, to, from>>, Losses,
         \A n \in Nodes : /\ thread'[n].index = thread[n].index
                          /\ thread'[n].do = "none" <=> thread[n].do = "none"
                          /\ node'[n].ended \subseteq node[n].ended,
         \A m \in Everyone : \/ proc'[m] = proc[m]
                             \/ Running(m) /\ proc'[m] \in Codes \ {"none", "run"},
         UNCHANGED <<stage.started, stage.code, stage.lost>>, stop => stop',
         stage.error => stage'.error, stage.unheard # Nobody => stage'.unheard # Nobody,
         stage'.abort => stage.abort \/ stop' \/ stage'.error \/ stage'.unheard # Nobody
  PROVE  SplitInvariant'
<1>1. \A n \in Nodes : \A k \in 1 .. Len(from'[n]) :
        \E j \in 1 .. Len(from[n]) : from'[n][k] = from[n][j]
  OBVIOUS
<1> QED BY <1>1, Aloud

-----------------------------------------------------------------------------
(* The world, and what moves no stage.                                     *)

\* Types of what a step leaves as it is.
LEMMA TypesStay ==
  ASSUME SplitTypes, plan' = plan
  PROVE  /\ UNCHANGED coordinator => CoordinatorTypes'
         /\ UNCHANGED <<stage, node, stop>> => HeardTypes'
         /\ UNCHANGED <<runner, thread, proc>> => RunnerTypes'
         /\ UNCHANGED <<to, from>> => QueueTypes'
<1> USE SamePlan DEF SplitTypes
<1>1. UNCHANGED coordinator => CoordinatorTypes'
  <2> SUFFICES ASSUME UNCHANGED coordinator PROVE CoordinatorTypes'
    OBVIOUS
  <2>1. UNCHANGED <<at, phase, turn, struck, reported, results, raised>>
    BY DEF coordinator
  <2>2. struck' \in [failed : Someone', timedOut : BOOLEAN, wedge : BOOLEAN,
                     interrupted : BOOLEAN]
    BY <2>1 DEF CoordinatorTypes
  <2>3. reported' \subseteq Reports' /\ results' \in Seq(Results')
    BY <2>1 DEF CoordinatorTypes
  <2> QED BY <2>1, <2>2, <2>3 DEF CoordinatorTypes, Opening, Closing
<1>2. UNCHANGED <<stage, node, stop>> => HeardTypes'
  BY DEF HeardTypes
<1>3. UNCHANGED <<runner, thread, proc>> => RunnerTypes'
  BY DEF RunnerTypes
<1>4. UNCHANGED <<to, from>> => QueueTypes'
  BY DEF QueueTypes
<1> QED BY <1>1, <1>2, <1>3, <1>4

LEMMA ExitStep ==
  ASSUME SplitInvariant, NEW m \in Everyone, Exit(m)
  PROVE  SplitInvariant'
<1>1. SplitTypes /\ RunnerTypes
  BY DEF SplitInvariant, SplitTypes
<1>2. /\ UNCHANGED <<coordinator, stage, node, runner, thread, to, from, stop>>
      /\ plan' = plan
      /\ \A k \in Everyone : \/ proc'[k] = proc[k]
                             \/ Running(k) /\ proc'[k] \in Codes \ {"none", "run"}
  BY <1>1 DEF RunnerTypes, Exit, Codes, coordinator
<1>3. RunnerTypes'
  BY <1>1, <1>2, SamePlan DEF RunnerTypes, Exit, Codes
<1>4. SplitTypes'
  BY <1>1, <1>2, <1>3, TypesStay DEF SplitTypes
<1> QED BY <1>2, <1>4, Still DEF Losses

LEMMA RunnerDies ==
  ASSUME SplitInvariant, NEW n \in Nodes, Die(n) \/ KillRunner(n)
  PROVE  SplitInvariant'
<1>1. SplitTypes /\ RunnerTypes
  BY DEF SplitInvariant, SplitTypes
<1>2. /\ UNCHANGED <<coordinator, stage, node, thread, proc, to, from, stop>>
      /\ plan' = plan /\ runner' = [runner EXCEPT ![n] = "dead"]
  BY DEF Die, KillRunner, coordinator
<1>3. RunnerTypes'
  BY <1>1, <1>2, SamePlan DEF RunnerTypes
<1>4. SplitTypes'
  BY <1>1, <1>2, <1>3, TypesStay DEF SplitTypes
<1> QED BY <1>2, <1>4, Still DEF Losses

LEMMA StopSet ==
  ASSUME SplitInvariant, SetStop \/ Chain
  PROVE  SplitInvariant'
<1>1. SplitTypes /\ HeardTypes
  BY DEF SplitInvariant, SplitTypes
<1>2. /\ UNCHANGED <<coordinator, to, from, node, runner, thread, proc>> /\ (stop => stop')
      /\ plan' = plan
  BY DEF SetStop, Chain, coordinator, runners
<1>3. /\ UNCHANGED <<stage.started, stage.code, stage.lost, stage.error, stage.unheard>>
      /\ stage'.abort => stage.abort \/ stop'
  BY <1>1 DEF HeardTypes, SetStop, Chain
<1>4. HeardTypes'
  BY <1>1, <1>2, SamePlan DEF HeardTypes, SetStop, Chain
<1>5. SplitTypes'
  BY <1>1, <1>2, <1>4, TypesStay DEF SplitTypes
<1> QED BY <1>2, <1>3, <1>5, Still DEF Losses

LEMMA HaltStep ==
  ASSUME SplitInvariant, NEW n \in Nodes, Halt(n)
  PROVE  SplitInvariant'
<1>1. SplitTypes /\ RunnerTypes
  BY DEF SplitInvariant, SplitTypes
<1>2. /\ UNCHANGED <<coordinator, stage, node, runner, proc, to, from, stop>>
      /\ plan' = plan /\ thread' = [thread EXCEPT ![n].stop = TRUE]
  BY DEF Halt, coordinator
<1>3. RunnerTypes'
  BY <1>1, <1>2, SamePlan DEF RunnerTypes
<1>4. SplitTypes'
  BY <1>1, <1>2, <1>3, TypesStay DEF SplitTypes
<1>5. \A k \in Nodes : thread'[k].index = thread[k].index /\ thread'[k].do = thread[k].do
  BY <1>1, <1>2 DEF RunnerTypes
<1> QED BY <1>2, <1>4, <1>5, Still DEF Losses

LEMMA LoseStep ==
  ASSUME SplitInvariant, NEW n \in Nodes, Lose(n)
  PROVE  SplitInvariant'
<1>1. SplitTypes /\ HeardTypes
  BY DEF SplitInvariant, SplitTypes
<1>2. /\ UNCHANGED <<coordinator, stage, runner, thread, proc, to, from, stop>>
      /\ plan' = plan
      /\ node' = [node EXCEPT ![n].lost = TRUE, ![n].ready = TRUE, ![n].losing = TRUE]
  BY DEF Lose, coordinator, runners
<1>3. HeardTypes'
  <2> DEFINE r == [node[n] EXCEPT !.lost = TRUE, !.ready = TRUE, !.losing = TRUE]
  <2>1. r \in NodeStates /\ r.lost /\ r.losing
    BY <1>1 DEF HeardTypes, NodeStates
  <2>2. node' = [node EXCEPT ![n] = r]
    BY <1>2
  <2> HIDE DEF r
  <2>3. node' \in [Nodes -> NodeStates] /\ \A k \in Nodes : node'[k].losing => node'[k].lost
    BY <1>1, <2>1, <2>2 DEF HeardTypes
  <2> QED BY <1>1, <1>2, <2>3, SamePlan DEF HeardTypes
<1>4. SplitTypes'
  BY <1>1, <1>2, <1>3, TypesStay DEF SplitTypes
<1>5. \A k \in Nodes : /\ node[k].lost => node'[k].lost
                       /\ node'[k].ended = node[k].ended
  BY <1>1, <1>2 DEF HeardTypes, NodeStates
<1> QED BY <1>2, <1>4, <1>5, Still DEF Losses

-----------------------------------------------------------------------------
(* The runners.                                                            *)

\* What a runner says is the last message to the coordinator.
LEMMA Said ==
  ASSUME SplitTypes, plan' = plan, to' = to, NEW n \in Nodes, NEW x \in Messages, Say(n, x)
  PROVE  /\ QueueTypes'
         /\ \A k \in Nodes : \A i \in 1 .. Len(from'[k]) :
              \/ k = n /\ from'[k][i] = x
              \/ \E j \in 1 .. Len(from[k]) : from'[k][i] = from[k][j]
<1>1. from \in [Nodes -> Seq(Messages)] /\ from[n] \in Seq(Messages)
  BY DEF SplitTypes, QueueTypes
<1>2. from' = [from EXCEPT ![n] = Append(@, x)]
  BY DEF Say
<1>3. from'[n] = Append(from[n], x) /\ \A k \in Nodes : k # n => from'[k] = from[k]
  BY <1>1, <1>2
<1>4. /\ Append(from[n], x) \in Seq(Messages)
      /\ Len(Append(from[n], x)) = Len(from[n]) + 1 /\ Len(from[n]) \in Nat
      /\ \A k \in 1 .. Len(from[n]) : Append(from[n], x)[k] = from[n][k]
      /\ Append(from[n], x)[Len(from[n]) + 1] = x
  BY <1>1, Queues
<1>5. QueueTypes'
  BY <1>1, <1>2, <1>4, SamePlan DEF SplitTypes, QueueTypes
<1>6. \A i \in 1 .. Len(from[n]) + 1 : i \in 1 .. Len(from[n]) \/ i = Len(from[n]) + 1
  BY <1>4
<1> QED BY <1>3, <1>4, <1>5, <1>6

\* And is so, when it is.
LEMMA SaidSo ==
  ASSUME SplitTypes, plan' = plan, to' = to, NEW n \in Nodes, NEW x \in Messages, Say(n, x),
         x.type # "stage-end", True(x)'
  PROVE  \A k \in Nodes : \A i \in 1 .. Len(from'[k]) :
           \/ \E y \in Messages : y = from'[k][i] /\ y.type # "stage-end" /\ True(y)'
           \/ \E j \in 1 .. Len(from[k]) : from'[k][i] = from[k][j]
BY Said

LEMMA AnswerStep ==
  ASSUME SplitInvariant, NEW n \in Nodes, Answer(n)
  PROVE  SplitInvariant'
<1>1. SplitTypes /\ RunnerTypes
  BY DEF SplitInvariant, SplitTypes
<1>2. /\ UNCHANGED <<coordinator, stage, node, thread, proc, to, stop>> /\ plan' = plan
      /\ \E x \in [type : {"ready", "refused"}] : Say(n, x)
      /\ runner' \in [Nodes -> {"start", "dialled", "serving", "gone", "dead"}]
  BY <1>1 DEF Answer, coordinator, RunnerTypes
<1>3. PICK x \in [type : {"ready", "refused"}] : Say(n, x)
  BY <1>2
<1>4. x \in Messages /\ x.type # "stage-end" /\ True(x)'
  BY DEF Messages, True
<1>5. RunnerTypes'
  BY <1>1, <1>2, SamePlan DEF RunnerTypes
<1>6. SplitTypes'
  BY <1>1, <1>2, <1>3, <1>4, <1>5, Said, TypesStay DEF SplitTypes
<1>7. \A k \in Nodes : \A i \in 1 .. Len(from'[k]) :
        \/ \E y \in Messages : y = from'[k][i] /\ y.type # "stage-end" /\ True(y)'
        \/ \E j \in 1 .. Len(from[k]) : from'[k][i] = from[k][j]
  BY <1>1, <1>2, <1>3, <1>4, SaidSo
<1> QED BY <1>2, <1>6, <1>7, Aloud DEF Losses

\* A stage thread goes on, and says what is so.
LEMMA ThreadSays ==
  ASSUME SplitInvariant, NEW n \in Nodes, plan' = plan,
         UNCHANGED <<coordinator, stage, node, runner, proc, to, stop>>,
         thread' = thread \/ \E told \in SUBSET Everyone, do \in {"feed", "wait", "broken"} :
           thread' = [thread EXCEPT ![n] = [thread[n] EXCEPT !.told = told, !.do = do]],
         thread[n].do # "none",
         \/ from' = from
         \/ \E x \in Messages : x.type # "stage-end" /\ True(x)' /\ Say(n, x)
  PROVE  SplitInvariant'
<1>1. SplitTypes /\ RunnerTypes
  BY DEF SplitInvariant, SplitTypes
<1>2. RunnerTypes' /\ \A k \in Nodes : /\ thread'[k].index = thread[k].index
                                       /\ thread'[k].do = "none" <=> thread[k].do = "none"
  <2>1. CASE thread' = thread
    BY <1>1, <2>1, SamePlan DEF RunnerTypes
  <2>2. CASE thread' # thread
    <3>1. PICK told \in SUBSET Everyone, do \in {"feed", "wait", "broken"} :
            thread' = [thread EXCEPT ![n] = [thread[n] EXCEPT !.told = told, !.do = do]]
      BY <2>2
    <3> DEFINE r == [thread[n] EXCEPT !.told = told, !.do = do]
    <3>2. /\ r \in [do : {"none", "spawn", "feed", "wait", "broken"}, index : Nat,
                    stop : BOOLEAN, told : SUBSET Everyone]
          /\ r.do # "none" /\ r.index = thread[n].index /\ r.index # 0
      <4>1. PICK t \in [do : {"none", "spawn", "feed", "wait", "broken"}, index : Nat,
                        stop : BOOLEAN, told : SUBSET Everyone] : t = thread[n]
        BY <1>1 DEF RunnerTypes
      <4>2. t.index # 0
        BY <1>1, <4>1 DEF RunnerTypes
      <4> QED BY <3>1, <4>1, <4>2
    <3>3. thread' = [thread EXCEPT ![n] = r]
      BY <3>1
    <3> HIDE DEF r
    <3>4. /\ thread' \in [Nodes -> [do : {"none", "spawn", "feed", "wait", "broken"},
                                    index : Nat, stop : BOOLEAN, told : SUBSET Everyone]]
          /\ \A k \in Nodes : thread'[k].do # "none" => thread'[k].index # 0
          /\ \A k \in Nodes : /\ thread'[k].index = thread[k].index
                              /\ thread'[k].do = "none" <=> thread[k].do = "none"
      BY <1>1, <3>2, <3>3 DEF RunnerTypes
    <3> QED BY <1>1, <3>4, SamePlan DEF RunnerTypes
  <2> QED BY <2>1, <2>2
<1>3. CASE from' = from
  <2>1. SplitTypes'
    BY <1>1, <1>2, <1>3, TypesStay DEF SplitTypes
  <2> QED BY <1>2, <1>3, <2>1, Still DEF Losses
<1>4. CASE \E x \in Messages : x.type # "stage-end" /\ True(x)' /\ Say(n, x)
  <2>1. PICK x \in Messages : x.type # "stage-end" /\ True(x)' /\ Say(n, x)
    BY <1>4
  <2>2. SplitTypes'
    BY <1>1, <1>2, <2>1, Said, TypesStay DEF SplitTypes
  <2>3. \A k \in Nodes : \A i \in 1 .. Len(from'[k]) :
          \/ \E y \in Messages : y = from'[k][i] /\ y.type # "stage-end" /\ True(y)'
          \/ \E j \in 1 .. Len(from[k]) : from'[k][i] = from[k][j]
    BY <1>1, <2>1, SaidSo
  <2> QED BY <1>2, <2>2, <2>3, Aloud DEF Losses
<1> QED BY <1>3, <1>4

LEMMA ReportStep ==
  ASSUME SplitInvariant, NEW n \in Nodes, NEW m \in Everyone, Report(n, m)
  PROVE  SplitInvariant'
<1>1. SplitTypes /\ RunnerTypes
  BY DEF SplitInvariant, SplitTypes
<1> DEFINE x == [type |-> "exited", process |-> m, code |-> proc[m]]
<1>2. /\ UNCHANGED <<coordinator, stage, node, runner, proc, to, stop>> /\ plan' = plan
      /\ thread[n].do \in {"feed", "wait"} /\ proc[m] \in {"zero", "fail"} /\ Say(n, x)
      /\ thread' = [thread EXCEPT ![n].told = @ \union {m}]
  BY DEF Report, coordinator
<1>3. thread' = [thread EXCEPT ![n] = [thread[n] EXCEPT !.told = thread[n].told \union {m},
                                                        !.do = thread[n].do]]
  BY <1>1, <1>2 DEF RunnerTypes
<1>4. thread[n].told \union {m} \in SUBSET Everyone
  BY <1>1 DEF RunnerTypes
<1>5. x \in Messages /\ x.type = "exited" /\ x.process = m /\ x.code = proc[m]
  BY <1>2 DEF Messages
<1> HIDE DEF x
<1>6. \E y \in Messages : y.type # "stage-end" /\ True(y)' /\ Say(n, y)
  <2>1. PICK y : y = x
    OBVIOUS
  <2>2. y \in Messages /\ y.type = "exited" /\ y.process = m /\ y.code = proc[m] /\ Say(n, y)
    BY <1>2, <1>5, <2>1
  <2>3. True(y)'
    BY <1>2, <2>2 DEF True
  <2> QED BY <2>2, <2>3
<1> QED BY <1>2, <1>3, <1>4, <1>6, ThreadSays

\* A stage thread starts a member of its stage.
LEMMA Starts ==
  ASSUME SplitInvariant, NEW n \in Nodes, plan' = plan,
         UNCHANGED <<coordinator, stage, node, runner, thread, to, stop>>,
         thread[n].do # "none", NEW m \in Here(n, thread[n].index), proc[m] = "none",
         proc' = [proc EXCEPT ![m] = "run"], Say(n, [type |-> "started", process |-> m])
  PROVE  SplitInvariant'
<1>1. SplitTypes /\ RunnerTypes /\ Forward /\ OfItsStage
  BY DEF SplitInvariant, SplitTypes
<1>2. UNCHANGED <<plan, at, phase, turn>>
  BY DEF coordinator
<1>3. thread[n].index \in 1 .. Len(plan.stages) /\ thread[n].index \in Nat \ {0}
  BY <1>1, Typed DEF RunnerTypes, Forward
<1>4. m \in Everyone /\ plan.home[m] = n /\ m \in Ids(thread[n].index)
  BY <1>1, <1>3, Typed, HereIsKnown DEF Here
<1>5. RunnerTypes'
  BY <1>1, <1>2, SamePlan DEF RunnerTypes, Codes
<1>6. /\ proc'[m] = "run" /\ \A k \in Everyone : k # m => proc'[k] = proc[k]
      /\ Lives
  BY <1>1, <1>4 DEF RunnerTypes, Lives
<1>7. PICK x : x = [type |-> "started", process |-> m]
  OBVIOUS
<1>8. x \in Messages /\ x.type = "started" /\ x.process = m /\ Say(n, x)
  BY <1>4, <1>7 DEF Messages
<1>9. True(x)' /\ x.type # "stage-end"
  BY <1>6, <1>8 DEF True
<1>10. SplitTypes'
  BY <1>1, <1>2, <1>5, <1>8, Said, TypesStay DEF SplitTypes
<1>11. \A k \in Nodes : \A i \in 1 .. Len(from'[k]) :
         \/ \E y \in Messages : y = from'[k][i] /\ y.type # "stage-end" /\ True(y)'
         \/ \E j \in 1 .. Len(from[k]) : from'[k][i] = from[k][j]
  BY <1>1, <1>2, <1>8, <1>9, SaidSo
<1>12. Onward
  <2>1. \A k \in Nodes : \A i : Finished(k, i) => Finished(k, i)'
    BY DEF Finished
  <2>2. ASSUME NEW k \in Nodes, NEW i \in Nat \ {0}, Finished(k, i), m \in Here(k, i)
        PROVE  FALSE
    <3>1. k = n /\ m \in Ids(i)
      BY <1>4, <2>2 DEF Here
    <3>2. i < thread[n].index
      BY <1>3, <2>2, <3>1 DEF Finished
    <3>3. i \in 1 .. thread[n].index - 1
      BY <1>3, <3>2
    <3>4. Ids(thread[n].index) \cap Ids(i) = {} /\ m \in Ids(thread[n].index)
      BY <1>1, <1>3, <1>4, <3>3, Typed, Planned DEF Here
    <3> QED BY <3>1, <3>4
  <2> QED BY <1>6, <2>1, <2>2 DEF Onward
<1>13. InTurn' /\ Collecting' /\ Reasoned' /\ Verdict' /\ Progress'
  BY <1>6, <1>12, Aside DEF Losses
<1>14. Forward'
  BY <1>1, <1>2, ForwardStays
<1>15. OfItsStage'
  <2>1. ASSUME NEW k \in Everyone, Running(k)'
        PROVE  /\ thread[plan.home[k]].do # "none"
               /\ k \in Here(plan.home[k], thread[plan.home[k]].index)
    BY <1>1, <1>4, <1>6, <2>1 DEF OfItsStage, Running
  <2>2. Everyone' = Everyone
    BY <1>2, SamePlan
  <2>3. ASSUME NEW k \in Everyone, Running(k)'
        PROVE  /\ thread'[plan'.home[k]].do # "none"
               /\ k \in Here(plan.home[k], thread[plan.home[k]].index)'
    <3>1. PICK j : j = thread[plan.home[k]].index
      OBVIOUS
    <3>2. k \in Ids(j) /\ Ids(j)' = Ids(j)
      BY <1>2, <2>1, <2>3, <3>1, SamePlan DEF Here
    <3>3. thread' = thread /\ plan' = plan
      BY <1>2
    <3> QED BY <2>1, <2>3, <3>1, <3>2, <3>3 DEF Here, Ids
  <2> QED BY <2>2, <2>3 DEF OfItsStage
<1>16. Truthful'
  BY <1>1, <1>2, <1>6, <1>11, TruthStays DEF SplitInvariant, Losses
<1>17. EndIsFinal'
  BY <1>1, <1>2, <1>11, <1>12, EndsStay DEF SplitInvariant
<1> QED BY <1>10, <1>13, <1>14, <1>15, <1>16, <1>17 DEF SplitInvariant

LEMMA SpawnStep ==
  ASSUME SplitInvariant, NEW n \in Nodes, Spawn(n)
  PROVE  SplitInvariant'
<1>1. SplitTypes /\ RunnerTypes /\ Forward
  BY DEF SplitInvariant, SplitTypes
<1>2. /\ UNCHANGED <<coordinator, stage, node, runner, to, stop>> /\ plan' = plan
      /\ thread[n].do = "spawn"
  BY DEF Spawn, coordinator
<1>3. thread[n].index \in 1 .. Len(plan.stages)
  BY <1>1, <1>2, Typed DEF RunnerTypes, Forward
<1> DEFINE i == thread[n].index
           m == First(plan.stages[i].ids, Unspawned(n))
<1>4. /\ Len(plan.stages[i].ids) \in Nat
      /\ Unspawned(n) \subseteq {plan.stages[i].ids[k] : k \in 1 .. Len(plan.stages[i].ids)}
  BY <1>1, <1>3, Typed, Planned DEF Unspawned, Here, Ids
<1>5. m # Nobody => m \in Here(n, i) /\ proc[m] = "none"
  BY <1>4, FirstIsOne DEF Unspawned
<1> HIDE DEF m, i
<1>6. \/ thread' = [thread EXCEPT ![n].do = "feed"] /\ UNCHANGED <<proc, from>>
      \/ /\ m # Nobody /\ proc' = [proc EXCEPT ![m] = "run"]
         /\ Say(n, [type |-> "started", process |-> m]) /\ UNCHANGED thread
      \/ /\ Say(n, [type |-> "error"]) /\ thread' = [thread EXCEPT ![n].do = "broken"]
         /\ UNCHANGED proc
  BY DEF Spawn, m, i
<1>7. ASSUME NEW do \in {"feed", "broken"}, thread' = [thread EXCEPT ![n].do = do]
      PROVE  \E told \in SUBSET Everyone, d \in {"feed", "wait", "broken"} :
               thread' = [thread EXCEPT ![n] = [thread[n] EXCEPT !.told = told, !.do = d]]
  <2>1. thread' = [thread EXCEPT ![n] = [thread[n] EXCEPT !.told = thread[n].told, !.do = do]]
    BY <1>1, <1>7 DEF RunnerTypes
  <2>2. thread[n].told \in SUBSET Everyone
    BY <1>1 DEF RunnerTypes
  <2> QED BY <2>1, <2>2
<1>8. CASE thread' = [thread EXCEPT ![n].do = "feed"] /\ UNCHANGED <<proc, from>>
  BY <1>2, <1>7, <1>8, ThreadSays
<1>9. CASE /\ m # Nobody /\ proc' = [proc EXCEPT ![m] = "run"]
           /\ Say(n, [type |-> "started", process |-> m]) /\ UNCHANGED thread
  BY <1>2, <1>5, <1>9, Starts DEF i
<1>10. CASE /\ Say(n, [type |-> "error"]) /\ thread' = [thread EXCEPT ![n].do = "broken"]
            /\ UNCHANGED proc
  <2>1. \E x \in Messages : x.type # "stage-end" /\ True(x)' /\ Say(n, x)
    <3>1. PICK x : x = [type |-> "error"]
      OBVIOUS
    <3>2. x \in Messages /\ x.type = "error" /\ Say(n, x)
      BY <1>10, <3>1 DEF Messages
    <3> QED BY <3>2 DEF True
  <2> QED BY <1>2, <1>7, <1>10, <2>1, ThreadSays
<1> QED BY <1>6, <1>8, <1>9, <1>10

LEMMA FeedStep ==
  ASSUME SplitInvariant, NEW n \in Nodes, Feed(n)
  PROVE  SplitInvariant'
<1>1. SplitTypes /\ RunnerTypes /\ Forward
  BY DEF SplitInvariant, SplitTypes
<1>2. /\ UNCHANGED <<coordinator, stage, node, runner, to, stop>> /\ plan' = plan
      /\ thread[n].do = "feed"
  BY DEF Feed, coordinator
<1> DEFINE i == thread[n].index
           W == {m \in Here(n, i) \cap writers(i) : proc[m] = "none"} \ thread[n].told
           w == First(plan.stages[i].ids, W)
           r == CHOOSE k \in readers(w, i) : TRUE
<1>3. i \in 1 .. Len(plan.stages)
  BY <1>1, <1>2, Typed DEF RunnerTypes, Forward
<1>4. /\ Len(plan.stages[i].ids) \in Nat
      /\ W \subseteq {plan.stages[i].ids[k] : k \in 1 .. Len(plan.stages[i].ids)}
  BY <1>1, <1>3, Typed, Planned DEF Here, Ids
<1>5. w # Nobody => w \in W
  BY <1>4, FirstIsOne
<1>6. w # Nobody => /\ w \in Here(n, i) /\ proc[w] = "none" /\ w \in Everyone
                    /\ r \in Everyone
  <2>1. ASSUME w \in W PROVE r \in readers(w, i) /\ readers(w, i) \subseteq Everyone
    <3>1. w \in writers(i) /\ plan \in Plans
      BY <1>1, <2>1, Typed
    <3> HIDE DEF w, i
    <3>2. readers(w, i) # {} /\ readers(w, i) \subseteq Ids(i) /\ Ids(i) \subseteq Everyone
      BY <1>3, <3>1, Planned
    <3> QED BY <3>2
  <2>2. Here(n, i) \subseteq Everyone
    BY <1>1, <1>3, Typed, HereIsKnown
  <2> QED BY <1>5, <2>1, <2>2
<1> HIDE DEF w, r, W, i
<1>7. \/ thread' = [thread EXCEPT ![n].do = "wait"] /\ UNCHANGED <<proc, from>>
      \/ /\ w # Nobody /\ thread' = [thread EXCEPT ![n].told = @ \union {w}]
         /\ UNCHANGED <<proc, from>>
      \/ /\ w # Nobody /\ proc' = [proc EXCEPT ![w] = "run"]
         /\ Say(n, [type |-> "started", process |-> w]) /\ UNCHANGED thread
      \/ /\ w # Nobody /\ Say(n, [type |-> "unheard", process |-> r])
         /\ thread' = [thread EXCEPT ![n].do = "wait"] /\ UNCHANGED proc
      \/ /\ Say(n, [type |-> "error"])
         /\ thread' = [thread EXCEPT ![n].do = "wait"] /\ UNCHANGED proc
  BY DEF Feed, w, r, W, i
<1>8. thread[n].told \in SUBSET Everyone
  BY <1>1 DEF RunnerTypes
<1>9. ASSUME thread' = [thread EXCEPT ![n].do = "wait"]
      PROVE  \E told \in SUBSET Everyone, d \in {"feed", "wait", "broken"} :
               thread' = [thread EXCEPT ![n] = [thread[n] EXCEPT !.told = told, !.do = d]]
  <2>1. thread' = [thread EXCEPT ![n] = [thread[n] EXCEPT !.told = thread[n].told, !.do = "wait"]]
    BY <1>1, <1>9 DEF RunnerTypes
  <2> QED BY <1>8, <2>1
<1>10. CASE thread' = [thread EXCEPT ![n].do = "wait"] /\ UNCHANGED <<proc, from>>
  BY <1>2, <1>9, <1>10, ThreadSays
<1>11. CASE /\ w # Nobody /\ thread' = [thread EXCEPT ![n].told = @ \union {w}]
            /\ UNCHANGED <<proc, from>>
  <2>1. thread' = [thread EXCEPT ![n] = [thread[n] EXCEPT !.told = thread[n].told \union {w},
                                                          !.do = "feed"]]
    BY <1>1, <1>2, <1>11 DEF RunnerTypes
  <2>2. thread[n].told \union {w} \in SUBSET Everyone
    BY <1>6, <1>8, <1>11
  <2> QED BY <1>2, <1>11, <2>1, <2>2, ThreadSays
<1>12. CASE /\ w # Nobody /\ proc' = [proc EXCEPT ![w] = "run"]
            /\ Say(n, [type |-> "started", process |-> w]) /\ UNCHANGED thread
  BY <1>2, <1>6, <1>12, Starts DEF i
<1>13. CASE /\ w # Nobody /\ Say(n, [type |-> "unheard", process |-> r])
            /\ thread' = [thread EXCEPT ![n].do = "wait"] /\ UNCHANGED proc
  <2>1. \E x \in Messages : x.type # "stage-end" /\ True(x)' /\ Say(n, x)
    <3>1. PICK x : x = [type |-> "unheard", process |-> r]
      OBVIOUS
    <3>2. x \in Messages /\ x.type = "unheard" /\ Say(n, x)
      BY <1>6, <1>13, <3>1 DEF Messages
    <3> QED BY <3>2 DEF True
  <2> QED BY <1>2, <1>9, <1>13, <2>1, ThreadSays
<1>14. CASE /\ Say(n, [type |-> "error"])
            /\ thread' = [thread EXCEPT ![n].do = "wait"] /\ UNCHANGED proc
  <2>1. \E x \in Messages : x.type # "stage-end" /\ True(x)' /\ Say(n, x)
    <3>1. PICK x : x = [type |-> "error"]
      OBVIOUS
    <3>2. x \in Messages /\ x.type = "error" /\ Say(n, x)
      BY <1>14, <3>1 DEF Messages
    <3> QED BY <3>2 DEF True
  <2> QED BY <1>2, <1>9, <1>14, <2>1, ThreadSays
<1> QED BY <1>7, <1>10, <1>11, <1>12, <1>13, <1>14

\* The ids of what a runner reports.
LEMMA IdsOf ==
  ASSUME NEW S, NEW f
  PROVE  IdsIn({[id |-> m, code |-> f[m]] : m \in S}) = S
<1> DEFINE M == {[id |-> m, code |-> f[m]] : m \in S}
<1>1. \A m \in S : m \in IdsIn(M)
  <2> TAKE m \in S
  <2>1. [id |-> m, code |-> f[m]] \in M /\ [id |-> m, code |-> f[m]].id = m
    OBVIOUS
  <2> QED BY <2>1 DEF IdsIn
<1>2. \A r \in M : r.id \in S
  OBVIOUS
<1> QED BY <1>1, <1>2 DEF IdsIn

LEMMA EndStep ==
  ASSUME SplitInvariant, NEW n \in Nodes, End(n)
  PROVE  SplitInvariant'
<1>1. SplitTypes /\ RunnerTypes /\ Forward /\ OfItsStage
  BY DEF SplitInvariant, SplitTypes
<1> DEFINE i     == thread[n].index
           mine  == {m \in Here(n, i) : proc[m] # "none"}
           ended == [m \in Everyone |-> IF m \in mine /\ Running(m) THEN "killed" ELSE proc[m]]
           M     == {[id |-> m, code |-> ended[m]] : m \in mine}
           x     == [type |-> "stage-end", index |-> i, members |-> M]
<1>2. /\ UNCHANGED <<coordinator, stage, node, runner, to, stop>> /\ plan' = plan
      /\ UNCHANGED <<at, phase, turn>>
      /\ thread[n].do # "none" /\ thread' = [thread EXCEPT ![n].do = "none"]
      /\ proc' = ended /\ Say(n, x)
  BY DEF End, coordinator, Live
<1>3. i \in 1 .. Len(plan.stages) /\ i \in Nat \ {0}
  BY <1>1, <1>2, Typed DEF RunnerTypes, Forward
<1>4. Here(n, i) \subseteq Everyone /\ mine \subseteq Everyone
  BY <1>1, <1>3, Typed, HereIsKnown
<1>5. /\ ended \in [Everyone -> Codes]
      /\ \A m \in Everyone : \/ ended[m] = proc[m] /\ ~(m \in mine /\ Running(m))
                             \/ Running(m) /\ m \in mine /\ ended[m] = "killed"
  BY <1>1 DEF RunnerTypes, Codes
<1>6. x \in Messages /\ x.type = "stage-end" /\ x.index = i /\ IdsIn(x.members) = mine
  <2>1. M \in SUBSET Reports
    <3> HIDE DEF ended, mine
    <3>1. \A m \in mine : [id |-> m, code |-> ended[m]] \in Reports
      BY <1>4, <1>5 DEF Reports
    <3> QED BY <3>1
  <2>2. IdsIn(M) = mine
    <3> HIDE DEF ended, mine
    <3> QED BY IdsOf
  <2> HIDE DEF M, i
  <2> QED BY <1>3, <2>1, <2>2 DEF Messages
<1> HIDE DEF x, M, ended
<1>7. PICK y : y = x
  OBVIOUS
<1>8. /\ thread' \in [Nodes -> [do : {"none", "spawn", "feed", "wait", "broken"},
                                index : Nat, stop : BOOLEAN, told : SUBSET Everyone]]
      /\ \A k \in Nodes : /\ thread'[k].index = thread[k].index
                          /\ k # n => thread'[k].do = thread[k].do
                          /\ k = n => thread'[k].do = "none"
  BY <1>1, <1>2 DEF RunnerTypes
<1>9. RunnerTypes'
  BY <1>1, <1>2, <1>5, <1>8, SamePlan DEF RunnerTypes
<1>10. SplitTypes'
  BY <1>1, <1>2, <1>6, <1>9, Said, TypesStay DEF SplitTypes
<1>11. \A k \in Nodes : \A j \in 1 .. Len(from'[k]) :
         \/ k = n /\ from'[k][j] = y
         \/ \E l \in 1 .. Len(from[k]) : from'[k][j] = from[k][l]
  BY <1>1, <1>2, <1>6, <1>7, Said
<1>12. \A m \in Everyone : /\ proc'[m] = "none" <=> proc[m] = "none"
                           /\ proc[m] \in {"zero", "fail"} => proc'[m] = proc[m]
                           /\ proc'[m] = "run" => proc[m] = "run" /\ m \notin mine
  BY <1>2, <1>5 DEF Running
<1>13. Lives
  BY <1>12 DEF Lives
<1>14. Onward
  <2>1. \A k \in Nodes : \A j : Finished(k, j) => Finished(k, j)'
    BY <1>2, <1>8 DEF Finished
  <2> QED BY <1>12, <2>1 DEF Onward
<1>15. InTurn' /\ Collecting' /\ Reasoned' /\ Verdict' /\ Progress'
  BY <1>2, <1>13, <1>14, Aside DEF Losses
<1>16. Forward'
  BY <1>1, <1>2, <1>8, ForwardStays
<1>17. OfItsStage'
  <2>1. ASSUME NEW m \in Everyone, Running(m)'
        PROVE  /\ thread'[plan.home[m]].do # "none"
               /\ m \in Here(plan.home[m], thread'[plan.home[m]].index)
    <3>1. proc[m] = "run" /\ m \notin mine /\ plan.home[m] \in Nodes
      BY <1>1, <1>12, <2>1, Typed, Planned DEF Running
    <3>2. /\ thread[plan.home[m]].do # "none"
          /\ m \in Here(plan.home[m], thread[plan.home[m]].index)
      BY <1>1, <3>1 DEF OfItsStage, Running
    <3>3. plan.home[m] # n
      BY <3>1, <3>2
    <3> QED BY <1>8, <3>1, <3>2, <3>3
  <2>2. ASSUME NEW m \in Everyone', Running(m)'
        PROVE  /\ thread'[plan'.home[m]].do # "none"
               /\ m \in Here(plan.home[m], thread[plan.home[m]].index)'
    <3>1. /\ thread'[plan.home[m]].do # "none"
          /\ m \in Here(plan.home[m], thread'[plan.home[m]].index)
      BY <1>2, <2>1, <2>2, SamePlan
    <3> QED BY <1>2, <3>1 DEF Here, Ids
  <2> QED BY <2>2 DEF OfItsStage
<1>18. Truthful'
  <2>1. True(y)'
    BY <1>6, <1>7 DEF True
  <2>2. \A k \in Nodes : \A j \in 1 .. Len(from'[k]) :
          \/ \E z \in Messages : z = from'[k][j] /\ True(z)'
          \/ \E l \in 1 .. Len(from[k]) : from'[k][j] = from[k][l]
    BY <1>6, <1>7, <1>11, <2>1
  <2> QED BY <1>1, <1>2, <1>13, <2>2, TruthStays DEF SplitInvariant, Losses
<1>19. EndIsFinal'
  <2>1. Final(n, y.index, y.members)'
    <3>1. \A m \in Everyone : m \in mine <=> m \in Here(n, i) /\ proc'[m] # "none"
      BY <1>12
    <3>2. y.index = i /\ IdsIn(y.members) = mine
      BY <1>6, <1>7
    <3>3. PICK j : j = i
      OBVIOUS
    <3>4. \A m \in Everyone : m \in IdsIn(y.members) <=> m \in Here(n, j) /\ proc'[m] # "none"
      BY <3>1, <3>2, <3>3
    <3>5. WholeOf(n, j, IdsIn(y.members))'
      BY <1>2, <3>4, SamePlan DEF WholeOf, IdsIn
    <3>6. \A k \in 1 .. Len(to[n]) : to[n][k].type = "stage" => i < to[n][k].index
      BY <1>1 DEF Forward
    <3>7. Finished(n, j)'
      BY <1>2, <1>3, <1>8, <3>3, <3>6 DEF Finished
    <3>8. y.index = j
      BY <3>2, <3>3
    <3> QED BY <3>5, <3>7, <3>8 DEF Final
  <2> QED BY <1>1, <1>2, <1>6, <1>7, <1>11, <1>14, <2>1, EndsStay DEF SplitInvariant
<1> QED BY <1>10, <1>15, <1>16, <1>17, <1>18, <1>19 DEF SplitInvariant

LEMMA ServeStep ==
  ASSUME SplitInvariant, NEW n \in Nodes, Serve(n)
  PROVE  SplitInvariant'
<1>1. SplitTypes /\ RunnerTypes /\ QueueTypes /\ Forward /\ OfItsStage
  BY DEF SplitInvariant, SplitTypes
<1> DEFINE h == Head(to[n])
           T == Tail(to[n])
           Threads == [do : {"none", "spawn", "feed", "wait", "broken"}, index : Nat,
                       stop : BOOLEAN, told : SUBSET Everyone]
           fresh == [NewThread EXCEPT !.do = "spawn", !.index = h.index]
<1>2. /\ UNCHANGED <<coordinator, stage, node, proc, from, stop>> /\ plan' = plan
      /\ UNCHANGED <<at, phase, turn>>
      /\ to[n] # <<>> /\ to' = [to EXCEPT ![n] = T]
      /\ h.type = "stage" => thread[n].do = "none"
      /\ thread' = IF h.type = "stage" THEN [thread EXCEPT ![n] = fresh] ELSE thread
      /\ runner' = IF h.type = "exit" THEN [runner EXCEPT ![n] = "gone"] ELSE runner
  BY DEF Serve, coordinator
<1>3. /\ to[n] \in Seq(Orders) /\ Len(to[n]) \in Nat \ {0} /\ h = to[n][1]
      /\ T \in Seq(Orders) /\ Len(T) = Len(to[n]) - 1
      /\ \A k \in 1 .. Len(T) : T[k] = to[n][k + 1] /\ k + 1 \in 2 .. Len(to[n])
      /\ 1 \in 1 .. Len(to[n]) /\ h \in Orders
  <2>1. to[n] \in Seq(Orders)
    BY <1>1 DEF QueueTypes
  <2> HIDE DEF T, h
  <2>2. /\ Len(to[n]) \in Nat \ {0} /\ h = to[n][1] /\ T \in Seq(Orders)
        /\ Len(T) = Len(to[n]) - 1 /\ \A k \in 1 .. Len(to[n]) - 1 : T[k] = to[n][k + 1]
        /\ \A k \in 1 .. Len(to[n]) : to[n][k] \in Orders
    BY <1>2, <2>1, Queues DEF T, h
  <2> QED BY <2>1, <2>2
<1> HIDE DEF h, T
<1>4. h.type = "stage" =>
        /\ fresh \in Threads /\ fresh.do = "spawn" /\ fresh.index = h.index
        /\ h.index \in Nat \ {0} /\ thread[n].index < h.index /\ h.index <= at
        /\ Unsent(n) => h.index < at
  <2>1. ASSUME h.type = "stage" PROVE h.index \in Nat \ {0}
    BY <1>3, <2>1 DEF Orders
  <2>2. ASSUME h.type = "stage" PROVE /\ thread[n].index < h.index /\ h.index <= at
                                      /\ Unsent(n) => h.index < at
    BY <1>1, <1>3, <2>2 DEF Forward
  <2> QED BY <2>1, <2>2 DEF NewThread
<1> HIDE DEF fresh
<1>5. /\ thread' \in [Nodes -> Threads]
      /\ \A k \in Nodes : /\ k # n => thread'[k] = thread[k]
                          /\ thread'[k].do # "none" => thread'[k].index # 0
      /\ thread'[n].index = IF h.type = "stage" THEN h.index ELSE thread[n].index
      /\ h.type # "stage" => thread'[n] = thread[n]
  BY <1>1, <1>2, <1>4 DEF RunnerTypes
<1>6. /\ to' \in [Nodes -> Seq(Orders)] /\ to'[n] = T
      /\ \A k \in Nodes : k # n => to'[k] = to[k]
  BY <1>1, <1>2, <1>3 DEF QueueTypes
<1>7. SplitTypes'
  <2>1. RunnerTypes'
    BY <1>1, <1>2, <1>5, SamePlan DEF RunnerTypes
  <2>2. QueueTypes'
    BY <1>1, <1>2, <1>6, SamePlan DEF QueueTypes
  <2> QED BY <1>1, <1>2, <2>1, <2>2, TypesStay DEF SplitTypes
<1>8. \A k \in 1 .. Len(T) : T[k].type = "stage" =>
        /\ thread'[n].index < T[k].index /\ T[k].index <= at
        /\ Unsent(n) => T[k].index < at
        /\ \A j \in 1 .. k - 1 : T[j].type = "stage" => T[j].index < T[k].index
  <2> TAKE k \in 1 .. Len(T)
  <2>1. k \in Nat /\ k + 1 \in 1 .. Len(to[n]) /\ T[k] = to[n][k + 1] /\ 1 \in 1 .. (k + 1) - 1
    BY <1>3
  <2>2. ASSUME NEW j \in 1 .. k - 1 PROVE T[j] = to[n][j + 1] /\ j + 1 \in 1 .. (k + 1) - 1
    BY <1>3, <2>1
  <2>3. ASSUME T[k].type = "stage"
        PROVE  /\ thread[n].index < T[k].index /\ T[k].index <= at
               /\ Unsent(n) => T[k].index < at
               /\ \A j \in 1 .. (k + 1) - 1 : to[n][j].type = "stage" => to[n][j].index < T[k].index
    BY <1>1, <2>1, <2>3 DEF Forward
  <2> QED BY <1>3, <1>5, <2>1, <2>2, <2>3
<1>9. Forward'
  <2>1. \A k : Unsent(k)' = Unsent(k)
    BY <1>2 DEF Unsent, Opening
  <2>2. ASSUME NEW k \in Nodes, k # n
        PROVE  /\ thread'[k].index <= at /\ (Unsent(k) => thread'[k].index < at)
               /\ \A l \in 1 .. Len(to'[k]) : to'[k][l].type = "stage" =>
                    /\ thread'[k].index < to'[k][l].index /\ to'[k][l].index <= at
                    /\ Unsent(k) => to'[k][l].index < at
                    /\ \A j \in 1 .. l - 1 : to'[k][j].type = "stage" => to'[k][j].index < to'[k][l].index
    BY <1>1, <1>5, <1>6, <2>2 DEF Forward
  <2>3. thread'[n].index <= at /\ (Unsent(n) => thread'[n].index < at)
    BY <1>1, <1>4, <1>5 DEF Forward
  <2> QED BY <1>2, <1>6, <1>8, <2>1, <2>2, <2>3, SamePlan DEF Forward
<1>10. Onward
  <2>1. ASSUME NEW k \in Nodes, NEW i \in Nat \ {0}, Finished(k, i) PROVE Finished(k, i)'
    <3>1. CASE k # n
      BY <1>5, <1>6, <2>1, <3>1 DEF Finished
    <3>2. CASE k = n
      <4>1. /\ i <= thread[n].index /\ (thread[n].index = i => thread[n].do = "none")
            /\ \A l \in 1 .. Len(T) : T[l].type = "stage" => i < T[l].index
            /\ h.type = "stage" => i < h.index
        <5>1. \A l \in 1 .. Len(T) : l + 1 \in 1 .. Len(to[n]) /\ T[l] = to[n][l + 1]
          BY <1>3
        <5> QED BY <1>3, <2>1, <3>2, <5>1 DEF Finished
      <4>2. i <= thread'[n].index /\ (thread'[n].index = i => thread'[n].do = "none")
        BY <1>4, <1>5, <4>1, <1>1 DEF RunnerTypes
      <4> QED BY <1>6, <3>2, <4>1, <4>2 DEF Finished
    <3> QED BY <3>1, <3>2
  <2> QED BY <1>2, <2>1 DEF Onward
<1>11. Lives /\ Losses
  BY <1>2 DEF Lives, Losses
<1>12. InTurn' /\ Collecting' /\ Reasoned' /\ Verdict' /\ Progress'
  BY <1>2, <1>10, <1>11, Aside
<1>13. OfItsStage'
  <2>1. ASSUME NEW m \in Everyone, Running(m)
        PROVE  thread'[plan.home[m]] = thread[plan.home[m]]
    <3>1. plan.home[m] \in Nodes /\ thread[plan.home[m]].do # "none"
      BY <1>1, <2>1, Typed, Planned DEF OfItsStage
    <3> QED BY <1>2, <1>5, <3>1
  <2>2. ASSUME NEW m \in Everyone', Running(m)'
        PROVE  /\ thread'[plan'.home[m]].do # "none"
               /\ m \in Here(plan.home[m], thread[plan.home[m]].index)'
    <3>1. m \in Everyone /\ Running(m)
      BY <1>2, <2>2, SamePlan DEF Running
    <3>2. /\ thread'[plan.home[m]].do # "none"
          /\ m \in Here(plan.home[m], thread'[plan.home[m]].index)
      BY <1>1, <2>1, <3>1 DEF OfItsStage
    <3> QED BY <1>2, <3>2 DEF Here, Ids
  <2> QED BY <2>2 DEF OfItsStage
<1>14. Truthful'
  <2>1. \A k \in Nodes : \A j \in 1 .. Len(from'[k]) :
          \E l \in 1 .. Len(from[k]) : from'[k][j] = from[k][l]
    BY <1>2
  <2> QED BY <1>1, <1>2, <1>11, <2>1, TruthStays DEF SplitInvariant
<1>15. EndIsFinal'
  <2>1. \A k \in Nodes : \A j \in 1 .. Len(from'[k]) :
          \E l \in 1 .. Len(from[k]) : from'[k][j] = from[k][l]
    BY <1>2
  <2> QED BY <1>1, <1>2, <1>10, <2>1, EndsStay DEF SplitInvariant
<1> QED BY <1>7, <1>9, <1>12, <1>13, <1>14, <1>15 DEF SplitInvariant

-----------------------------------------------------------------------------
(* What the coordinator hears.                                             *)

\* A message taken off a connection leaves those behind it.
LEMMA Taken ==
  ASSUME SplitTypes, plan' = plan, to' = to, NEW n \in Nodes, from[n] # <<>>,
         from' = [from EXCEPT ![n] = Tail(@)]
  PROVE  /\ QueueTypes' /\ Head(from[n]) \in Messages
         /\ 1 \in 1 .. Len(from[n]) /\ Head(from[n]) = from[n][1]
         /\ \A k \in Nodes : \A i \in 1 .. Len(from'[k]) :
              \E j \in 1 .. Len(from[k]) : from'[k][i] = from[k][j]
<1>1. from \in [Nodes -> Seq(Messages)] /\ from[n] \in Seq(Messages)
  BY DEF SplitTypes, QueueTypes
<1>2. /\ Len(from[n]) \in Nat \ {0} /\ Head(from[n]) = from[n][1]
      /\ Tail(from[n]) \in Seq(Messages) /\ Len(Tail(from[n])) = Len(from[n]) - 1
      /\ \A k \in 1 .. Len(from[n]) - 1 : Tail(from[n])[k] = from[n][k + 1]
      /\ \A k \in 1 .. Len(from[n]) : from[n][k] \in Messages
  BY <1>1, Queues
<1>3. 1 \in 1 .. Len(from[n])
  BY <1>2
<1>4. from'[n] = Tail(from[n]) /\ \A k \in Nodes : k # n => from'[k] = from[k]
  BY <1>1
<1>5. QueueTypes'
  BY <1>1, <1>2, SamePlan DEF SplitTypes, QueueTypes
<1>6. \A i \in 1 .. Len(from[n]) - 1 : i + 1 \in 1 .. Len(from[n])
  BY <1>2
<1> QED BY <1>2, <1>3, <1>4, <1>5, <1>6

\* What hearing a message does, were it so.
LEMMA HearsWhatIsSo ==
  ASSUME SplitTypes, UNCHANGED <<plan, at, stop, proc>>, NEW n \in Nodes, NEW x \in Messages,
         True(x), Heard(n, x)
  PROVE  /\ HeardTypes' /\ Losses
         /\ \A k \in Nodes : \A e \in node'[k].ended :
              \/ e \in node[k].ended
              \/ k = n /\ x.type = "stage-end" /\ e.index = x.index /\ e.members = x.members
         /\ \A m \in stage'.started : m \in stage.started \/ proc'[m] # "none"
         /\ \A m \in Everyone : stage'.code[m] = "zero" => stage.code[m] = "zero" \/ proc'[m] = "zero"
         /\ stage'.lost = stage.lost
         /\ stage.error => stage'.error
         /\ stage.unheard # Nobody => stage'.unheard # Nobody
         /\ stage'.abort => stage.abort \/ stage'.error \/ stage'.unheard # Nobody
<1>1. HeardTypes /\ plan \in Plans /\ Nobody \notin Everyone
  BY Typed, Planned DEF SplitTypes
<1>2. CASE x.type \in {"ready", "refused"}
  <2>1. PICK r \in NodeStates : /\ node' = [node EXCEPT ![n] = r]
                                /\ r.lost = node[n].lost /\ r.ended = node[n].ended
                                /\ r.losing = node[n].losing
    <3>1. CASE x.type = "ready"
      <4> DEFINE r == [node[n] EXCEPT !.ready = TRUE]
      <4>1. node' = [node EXCEPT ![n] = r]
        BY <1>1, <3>1 DEF Heard, HeardTypes
      <4>2. r \in NodeStates /\ r.lost = node[n].lost /\ r.ended = node[n].ended
            /\ r.losing = node[n].losing
        BY <1>1 DEF HeardTypes, NodeStates
      <4> QED BY <4>1, <4>2
    <3>2. CASE x.type = "refused"
      <4> DEFINE r == [node[n] EXCEPT !.ready = TRUE, !.refusal = TRUE]
      <4>1. node' = [node EXCEPT ![n] = r]
        BY <1>1, <3>2 DEF Heard, HeardTypes
      <4>2. r \in NodeStates /\ r.lost = node[n].lost /\ r.ended = node[n].ended
            /\ r.losing = node[n].losing
        BY <1>1 DEF HeardTypes, NodeStates
      <4> QED BY <4>1, <4>2
    <3> QED BY <1>2, <3>1, <3>2
  <2>2. stage' = stage
    BY <1>2 DEF Heard
  <2>3. /\ node' \in [Nodes -> NodeStates]
        /\ \A k \in Nodes : /\ node'[k].lost = node[k].lost /\ node'[k].ended = node[k].ended
                            /\ node'[k].losing = node[k].losing
    BY <1>1, <2>1 DEF HeardTypes
  <2>4. HeardTypes'
    BY <1>1, <2>2, <2>3, SamePlan DEF HeardTypes
  <2> QED BY <2>2, <2>3, <2>4 DEF Losses
<1>3. CASE x.type = "stage-end"
  <2> DEFINE E == {e \in node[n].ended : e.index # x.index} \union
                  {[index |-> x.index, members |-> x.members]}
             r == [node[n] EXCEPT !.ended = E]
  <2>1. node' = [node EXCEPT ![n] = r] /\ stage' = stage
    BY <1>1, <1>3 DEF Heard, HeardTypes
  <2>2. x.index \in Nat \ {0} /\ x.members \in SUBSET Reports
    BY <1>3 DEF Messages
  <2>3. [index |-> x.index, members |-> x.members] \in Endings
    BY <2>2 DEF Endings
  <2>4. E \in SUBSET Endings
    <3>1. node[n].ended \subseteq Endings
      BY Typed
    <3> QED BY <2>3, <3>1
  <2>5. /\ r \in NodeStates /\ r.lost = node[n].lost /\ r.ended = E
        /\ r.losing = node[n].losing
    <3> HIDE DEF E
    <3> QED BY <1>1, <2>4 DEF HeardTypes, NodeStates
  <2>6. \A e \in E : e \in node[n].ended \/ (e.index = x.index /\ e.members = x.members)
    OBVIOUS
  <2> HIDE DEF r, E
  <2>7. /\ node' \in [Nodes -> NodeStates]
        /\ \A k \in Nodes : /\ node'[k].lost = node[k].lost
                            /\ k # n => node'[k].ended = node[k].ended
                            /\ k = n => node'[k].ended = E
                            /\ node'[k].losing = node[k].losing
    BY <1>1, <2>1, <2>5 DEF HeardTypes
  <2>8. HeardTypes'
    BY <1>1, <2>1, <2>7, SamePlan DEF HeardTypes
  <2> QED BY <1>3, <2>1, <2>6, <2>7, <2>8 DEF Losses
<1>4. CASE x.type \notin {"ready", "refused", "stage-end"}
  <2>1. node' = node
    BY <1>4 DEF Heard
  <2>2. \/ stage' = stage
        \/ x.type = "error" /\ stage' = [stage EXCEPT !.error = TRUE, !.abort = TRUE]
        \/ x.type = "unheard" /\ stage' = [stage EXCEPT !.unheard = x.process, !.abort = TRUE]
        \/ x.type = "started" /\ stage' = [stage EXCEPT !.started = @ \union {x.process}]
        \/ /\ x.type = "exited"
           /\ stage' = [stage EXCEPT !.code[x.process] = IF @ = "none" THEN x.code ELSE @]
    <3>1. x.type \in {"error", "unheard", "started", "exited"}
      BY <1>4 DEF Messages
    <3> QED BY <1>4, <3>1 DEF Heard
  <2>3. /\ x.type \in {"unheard", "started", "exited"} => x.process \in Everyone
        /\ x.type = "exited" => x.code \in {"zero", "fail"}
    BY DEF Messages
  <2> DEFINE Stages == [open : BOOLEAN, code : [Everyone -> {"none", "zero", "fail"}],
                started : SUBSET Everyone, lost : SUBSET Everyone, abort : BOOLEAN,
                unheard : Someone, error : BOOLEAN]
  <2>4. stage \in Stages
    BY <1>1 DEF HeardTypes
  <2>5. /\ stage' \in Stages
        /\ \A m \in stage'.started : m \in stage.started \/ proc'[m] # "none"
        /\ \A m \in Everyone : stage'.code[m] = "zero" => stage.code[m] = "zero" \/ proc'[m] = "zero"
        /\ stage'.lost = stage.lost
        /\ stage.error => stage'.error
        /\ stage.unheard # Nobody => stage'.unheard # Nobody
        /\ stage'.abort => stage.abort \/ stage'.error \/ stage'.unheard # Nobody
    <3>1. CASE stage' = stage
      BY <2>4, <3>1
    <3>2. CASE x.type = "error" /\ stage' = [stage EXCEPT !.error = TRUE, !.abort = TRUE]
      BY <2>4, <3>2
    <3>3. CASE x.type = "unheard" /\ stage' = [stage EXCEPT !.unheard = x.process, !.abort = TRUE]
      BY <1>1, <2>3, <2>4, <3>3 DEF Someone
    <3>4. CASE x.type = "started" /\ stage' = [stage EXCEPT !.started = @ \union {x.process}]
      BY <2>3, <2>4, <3>4 DEF True
    <3>5. CASE /\ x.type = "exited"
               /\ stage' = [stage EXCEPT !.code[x.process] = IF @ = "none" THEN x.code ELSE @]
      BY <2>3, <2>4, <3>5 DEF True
    <3> QED BY <2>2, <3>1, <3>2, <3>3, <3>4, <3>5
  <2>6. HeardTypes'
    BY <1>1, <2>1, <2>5, SamePlan DEF HeardTypes
  <2> QED BY <2>1, <2>5, <2>6 DEF Losses
<1> QED BY <1>2, <1>3, <1>4

LEMMA HearStep ==
  ASSUME SplitInvariant, NEW n \in Nodes, Hear(n)
  PROVE  SplitInvariant'
<1>1. SplitTypes /\ QueueTypes
  BY DEF SplitInvariant, SplitTypes
<1>2. /\ UNCHANGED <<coordinator, runner, thread, proc, to, stop>> /\ plan' = plan
      /\ UNCHANGED <<at, phase, turn>>
      /\ from[n] # <<>> /\ from' = [from EXCEPT ![n] = Tail(@)]
      /\ Heard(n, Head(from[n]))
  BY DEF Hear, coordinator, runners
<1>3. /\ QueueTypes' /\ Head(from[n]) \in Messages
      /\ 1 \in 1 .. Len(from[n]) /\ Head(from[n]) = from[n][1]
      /\ \A k \in Nodes : \A i \in 1 .. Len(from'[k]) :
           \E j \in 1 .. Len(from[k]) : from'[k][i] = from[k][j]
  BY <1>1, <1>2, Taken
<1>4. PICK x \in Messages : x = Head(from[n])
  BY <1>3
<1>5. True(x) /\ (x.type = "stage-end" => Final(n, x.index, x.members))
  BY <1>3, <1>4 DEF SplitInvariant, Truthful, EndIsFinal
<1>6. /\ HeardTypes' /\ Losses
      /\ \A k \in Nodes : \A e \in node'[k].ended :
           \/ e \in node[k].ended
           \/ k = n /\ x.type = "stage-end" /\ e.index = x.index /\ e.members = x.members
      /\ \A m \in stage'.started : m \in stage.started \/ proc'[m] # "none"
      /\ \A m \in Everyone : stage'.code[m] = "zero" => stage.code[m] = "zero" \/ proc'[m] = "zero"
      /\ stage'.lost = stage.lost
      /\ stage.error => stage'.error
      /\ stage.unheard # Nobody => stage'.unheard # Nobody
      /\ stage'.abort => stage.abort \/ stage'.error \/ stage'.unheard # Nobody
  BY <1>1, <1>2, <1>4, <1>5, HearsWhatIsSo
<1>7. SplitTypes'
  BY <1>1, <1>2, <1>3, <1>6, TypesStay DEF SplitTypes
<1>8. Onward /\ Lives
  BY <1>2, OnwardSame
<1>9. InTurn' /\ Collecting' /\ Reasoned' /\ Verdict' /\ Progress'
  BY <1>2, <1>6, <1>8, Aside
<1>10. Forward'
  BY <1>2, ForwardStays DEF SplitInvariant
<1>11. OfItsStage'
  BY <1>1, <1>2, OfItsStageStays DEF SplitInvariant, Running
<1>12. Truthful'
  BY <1>1, <1>2, <1>3, <1>6, <1>8, TruthStays DEF SplitInvariant
<1>13. EndIsFinal'
  <2>1. ASSUME x.type = "stage-end" PROVE Final(n, x.index, x.members)'
    <3>1. x.index \in Nat \ {0}
      BY <2>1 DEF Messages
    <3> QED BY <1>2, <1>5, <1>8, <2>1, <3>1, FinalStays
  <2>2. \A k \in Nodes : \A e \in node'[k].ended :
          e \in node[k].ended \/ Final(k, e.index, e.members)'
    <3>1. ASSUME NEW k \in Nodes, NEW e \in node'[k].ended, e \notin node[k].ended
          PROVE  Final(k, e.index, e.members)'
      BY <1>6, <2>1, <3>1
    <3> QED BY <3>1
  <2> QED BY <1>1, <1>2, <1>3, <1>8, <2>2, EndsStay DEF SplitInvariant
<1> QED BY <1>7, <1>9, <1>10, <1>11, <1>12, <1>13 DEF SplitInvariant

\* The members of a lost node are lost with it, those that had ended aside.
LEMMA Losing ==
  ASSUME SplitTypes, UNCHANGED <<plan, at>>, NEW n \in Nodes, stage' = Lost(n)
  PROVE  /\ stage' \in [open : BOOLEAN, code : [Everyone -> {"none", "zero", "fail"}],
                        started : SUBSET Everyone, lost : SUBSET Everyone, abort : BOOLEAN,
                        unheard : Someone, error : BOOLEAN]
         /\ UNCHANGED <<stage.started, stage.error, stage.unheard, stage.abort>>
         /\ \A m \in Everyone : stage'.code[m] = "zero" => stage.code[m] = "zero"
         /\ \A m \in stage'.lost : m \in stage.lost \/ (m \in Everyone /\ plan.home[m] = n)
<1>1. Unsettled(n) \subseteq Everyone /\ \A m \in Unsettled(n) : plan.home[m] = n
  <2>1. Here(n, at) \subseteq Everyone
    BY Typed, HereIsKnown
  <2> QED BY <2>1 DEF Unsettled, Here
<1>2. HeardTypes
  BY DEF SplitTypes
<1> QED BY <1>1, <1>2 DEF Lost, HeardTypes

LEMMA LoseMembersStep ==
  ASSUME SplitInvariant, NEW n \in Nodes, LoseMembers(n)
  PROVE  SplitInvariant'
<1>1. SplitTypes /\ HeardTypes
  BY DEF SplitInvariant, SplitTypes
<1>2. /\ UNCHANGED <<coordinator, runner, thread, proc, to, from, stop>> /\ plan' = plan
      /\ UNCHANGED <<at, phase, turn>>
      /\ node[n].losing /\ node' = [node EXCEPT ![n].losing = FALSE]
      /\ stage' = stage \/ stage' = Lost(n)
  BY DEF LoseMembers, coordinator, runners
<1>3. /\ stage' \in [open : BOOLEAN, code : [Everyone -> {"none", "zero", "fail"}],
                     started : SUBSET Everyone, lost : SUBSET Everyone, abort : BOOLEAN,
                     unheard : Someone, error : BOOLEAN]
      /\ UNCHANGED <<stage.started, stage.error, stage.unheard, stage.abort>>
      /\ \A m \in Everyone : stage'.code[m] = "zero" => stage.code[m] = "zero"
      /\ \A m \in stage'.lost : m \in stage.lost \/ (m \in Everyone /\ plan.home[m] = n)
  BY <1>1, <1>2, Losing DEF HeardTypes
<1>4. /\ node' \in [Nodes -> NodeStates]
      /\ \A k \in Nodes : /\ node'[k].lost = node[k].lost /\ node'[k].ended = node[k].ended
                          /\ node'[k].losing => node[k].losing
  BY <1>1, <1>2 DEF HeardTypes, NodeStates
<1>5. HeardTypes'
  BY <1>1, <1>2, <1>3, <1>4, SamePlan DEF HeardTypes
<1>6. SplitTypes'
  BY <1>1, <1>2, <1>5, TypesStay DEF SplitTypes
<1>7. Onward /\ Lives /\ Losses /\ node'[n].lost
  BY <1>1, <1>2, <1>4, OnwardSame DEF Losses, HeardTypes
<1>8. InTurn' /\ Collecting' /\ Reasoned' /\ Verdict' /\ Progress'
  BY <1>2, <1>3, <1>7, Aside
<1>9. Forward'
  BY <1>2, ForwardStays DEF SplitInvariant
<1>10. OfItsStage'
  BY <1>1, <1>2, OfItsStageStays DEF SplitInvariant, Running
<1>11. \A k \in Nodes : \A i \in 1 .. Len(from'[k]) :
         \E j \in 1 .. Len(from[k]) : from'[k][i] = from[k][j]
  BY <1>2
<1>12. Truthful'
  BY <1>1, <1>2, <1>3, <1>7, <1>11, TruthStays DEF SplitInvariant
<1>13. EndIsFinal'
  BY <1>1, <1>2, <1>4, <1>7, <1>11, EndsStay DEF SplitInvariant
<1> QED BY <1>6, <1>8, <1>9, <1>10, <1>12, <1>13 DEF SplitInvariant

-----------------------------------------------------------------------------
(* The coordinator's own steps.                                            *)

\* Nothing ordered is a stage, and what was stays.
NoStageSent ==
  \A n \in Nodes : \A k \in 1 .. Len(to'[n]) :
    to'[n][k].type # "stage" \/ (k \in 1 .. Len(to[n]) /\ to'[n][k] = to[n][k])

\* An order to some of the nodes.
LEMMA Ordered ==
  ASSUME SplitTypes, UNCHANGED <<plan, from>>, NEW o \in [type : {"peers", "stop", "exit"}],
         NEW S, to' = [n \in Nodes |-> IF n \in S THEN Append(to[n], o) ELSE to[n]]
  PROVE  QueueTypes' /\ NoStageSent
<1>1. o \in Orders /\ o.type # "stage" /\ QueueTypes
  BY DEF Orders, SplitTypes
<1>2. ASSUME NEW n \in Nodes
      PROVE  /\ to[n] \in Seq(Orders) /\ Append(to[n], o) \in Seq(Orders) /\ Len(to[n]) \in Nat
             /\ Len(Append(to[n], o)) = Len(to[n]) + 1
             /\ \A k \in 1 .. Len(to[n]) : Append(to[n], o)[k] = to[n][k]
             /\ Append(to[n], o)[Len(to[n]) + 1] = o
  <2>1. to[n] \in Seq(Orders)
    BY <1>1 DEF QueueTypes
  <2> QED BY <1>1, <2>1, Queues
<1>3. QueueTypes'
  BY <1>1, <1>2, SamePlan DEF QueueTypes
<1>4. ASSUME NEW n \in Nodes, NEW k \in 1 .. Len(to'[n])
      PROVE  to'[n][k].type # "stage" \/ (k \in 1 .. Len(to[n]) /\ to'[n][k] = to[n][k])
  <2>1. CASE n \in S
    <3>1. to'[n] = Append(to[n], o)
      BY <2>1
    <3>2. k \in 1 .. Len(to[n]) \/ k = Len(to[n]) + 1
      BY <1>2, <1>4, <3>1
    <3> QED BY <1>1, <1>2, <3>1, <3>2
  <2>2. CASE n \notin S
    BY <1>4, <2>2
  <2> QED BY <2>1, <2>2
<1> QED BY <1>3, <1>4 DEF NoStageSent

\* What holds of runners and messages holds still, whatever the coordinator does but
\* to send a stage.
LEMMA Coordinated ==
  ASSUME SplitInvariant, UNCHANGED <<plan, thread, proc, from>>, NoStageSent, Losses,
         \A n \in Nodes : node'[n].ended \subseteq node[n].ended,
         \A m \in stage'.started : m \in stage.started,
         \A m \in Everyone : stage'.code[m] = "zero" => stage.code[m] = "zero",
         \A m \in stage'.lost : m \in stage.lost,
         \/ at' = at /\ \A n \in Nodes : Unsent(n)' => Unsent(n)
         \/ at' = at + 1
  PROVE  Forward' /\ OfItsStage' /\ Truthful' /\ EndIsFinal' /\ Onward /\ Lives
<1> USE DEF SplitInvariant
<1>1. Onward /\ Lives
  <2>1. ASSUME NEW n \in Nodes, NEW i \in Nat \ {0}, Finished(n, i) PROVE Finished(n, i)'
    BY <2>1 DEF Finished, NoStageSent
  <2> QED BY <2>1 DEF Onward, Lives
<1>2. Forward'
  <2>1. ASSUME NEW n \in Nodes
        PROVE  /\ thread'[n].index <= at' /\ (Unsent(n)' => thread'[n].index < at')
               /\ \A k \in 1 .. Len(to'[n]) : to'[n][k].type = "stage" =>
                    /\ thread'[n].index < to'[n][k].index /\ to'[n][k].index <= at'
                    /\ Unsent(n)' => to'[n][k].index < at'
                    /\ \A j \in 1 .. k - 1 : to'[n][j].type = "stage" =>
                         to'[n][j].index < to'[n][k].index
    <3>1. at \in Nat /\ thread[n].index \in Nat
      BY Typed
    <3>2. thread'[n].index <= at' /\ (Unsent(n)' => thread'[n].index < at')
      BY <3>1 DEF Forward
    <3>3. ASSUME NEW k \in 1 .. Len(to'[n]), to'[n][k].type = "stage"
          PROVE  /\ thread'[n].index < to'[n][k].index /\ to'[n][k].index <= at'
                 /\ Unsent(n)' => to'[n][k].index < at'
                 /\ \A j \in 1 .. k - 1 : to'[n][j].type = "stage" =>
                      to'[n][j].index < to'[n][k].index
      <4>1. k \in 1 .. Len(to[n]) /\ to'[n][k] = to[n][k] /\ Len(to[n]) \in Nat
        BY <3>3, Typed DEF NoStageSent
      <4>2. to[n][k].index \in Nat
        BY <3>3, <4>1, Typed DEF Orders
      <4>3. /\ thread[n].index < to[n][k].index /\ to[n][k].index <= at
            /\ Unsent(n) => to[n][k].index < at
            /\ \A j \in 1 .. k - 1 : to[n][j].type = "stage" => to[n][j].index < to[n][k].index
        BY <3>3, <4>1 DEF Forward
      <4>4. \A j \in 1 .. k - 1 : to'[n][j].type = "stage" => to'[n][j] = to[n][j]
        <5>1. k \in Nat /\ k <= Len(to'[n])
          BY <4>1, <3>3
        <5>2. \A j \in 1 .. k - 1 : j \in 1 .. Len(to'[n])
          BY <5>1, <3>3
        <5> QED BY <5>2 DEF NoStageSent
      <4> QED BY <3>1, <4>1, <4>2, <4>3, <4>4
    <3> QED BY <3>2, <3>3
  <2> QED BY <2>1, SamePlan DEF Forward
<1>3. OfItsStage'
  BY OfItsStageStays DEF Running
<1>4. \A n \in Nodes : \A k \in 1 .. Len(from'[n]) :
        \E j \in 1 .. Len(from[n]) : from'[n][k] = from[n][j]
  OBVIOUS
<1>5. Truthful'
  BY <1>1, <1>4, TruthStays
<1>6. EndIsFinal'
  BY <1>1, <1>4, EndsStay
<1> QED BY <1>1, <1>2, <1>3, <1>5, <1>6

\* What was collected stays so in the phases that collect nothing.
LEMMA CollectedElsewhere ==
  ASSUME SplitTypes, Progress, Collecting, Onward, Losses, Lives,
         plan' = plan, results' = results, reported' \subseteq reported,
         phase' \notin {"collect", "collected"} \/ (phase' = "collect" /\ turn' = 1)
  PROVE  Collecting'
<1>1. \A m \in IdsIn(reported)' : proc'[m] # "none"
  BY Typed DEF Collecting, Lives, IdsIn, Reports
<1>2. ASSUME NEW j \in 1 .. Len(results), NEW n \in Nodes
      PROVE  Complete(n, j, IdsIn(results[j].members))'
  <2>1. j \in Nat \ {0} /\ j \in 1 .. Len(plan.stages) /\ Complete(n, j, IdsIn(results[j].members))
    BY Typed DEF Collecting, Progress
  <2>2. Here(n, j) \subseteq Everyone
    BY <2>1, Typed, HereIsKnown
  <2> QED BY <2>1, <2>2, SamePlan DEF Complete, Onward, Losses, Finished, IdsIn
<1> QED BY <1>1, <1>2, SamePlan DEF Collecting

\* No result is added, and the run does not begin to close.
LEMMA ProgressOn ==
  ASSUME SplitTypes, Progress, Lives, UNCHANGED <<plan, at, raised, results>>,
         phase' \in Closing <=> phase \in Closing, stop => stop',
         phase \in Closing => struck' = struck
  PROVE  Progress'
<1>1. \A i \in 1 .. Len(results) : i \in 1 .. Len(plan.stages)
  BY Typed DEF Progress
<1>2. ASSUME NEW i \in 1 .. Len(results), Ran(i) PROVE Ran(i)'
  BY <1>1, <1>2, Typed, Planned, SamePlan DEF Ran, Lives
<1> QED BY <1>1, <1>2 DEF Progress

\* The run begins to close, with an error or stopped.
LEMMA ProgressEnds ==
  ASSUME SplitTypes, Progress, Lives, UNCHANGED <<plan, at, results>>, stop' = stop,
         phase \notin Closing, phase' \in Closing, raised' # "no" \/ stop
  PROVE  Progress'
<1>1. \A i \in 1 .. Len(results) : i \in 1 .. Len(plan.stages)
  BY Typed DEF Progress
<1>2. ASSUME NEW i \in 1 .. Len(results), Ran(i) PROVE Ran(i)'
  BY <1>1, <1>2, Typed, Planned, SamePlan DEF Ran, Lives
<1>3. Len(results) = at - 1 /\ at \in Nat
  BY Typed DEF Progress
<1> QED BY <1>1, <1>2, <1>3 DEF Progress

LEMMA AcceptStep ==
  ASSUME SplitInvariant, NEW n \in Nodes, Accept(n)
  PROVE  SplitInvariant'
<1>1. SplitTypes /\ CoordinatorTypes /\ HeardTypes /\ RunnerTypes
  BY DEF SplitInvariant, SplitTypes
<1>2. /\ UNCHANGED <<plan, at, turn, struck, reported, results, raised, stage, thread,
                     proc, to, from, stop>>
      /\ phase = "accept" /\ phase' \in {"accept", "ready"}
      /\ node' = [node EXCEPT ![n].conn = TRUE] /\ runner' = [runner EXCEPT ![n] = "dialled"]
  BY DEF Accept
<1>3. /\ node' \in [Nodes -> NodeStates]
      /\ \A k \in Nodes : /\ node'[k].lost = node[k].lost /\ node'[k].ended = node[k].ended
                          /\ node'[k].losing = node[k].losing
  BY <1>1, <1>2 DEF HeardTypes, NodeStates
<1>4. HeardTypes'
  BY <1>1, <1>2, <1>3, SamePlan DEF HeardTypes
<1>5. RunnerTypes'
  BY <1>1, <1>2, SamePlan DEF RunnerTypes
<1>6. CoordinatorTypes'
  BY <1>1, <1>2, SamePlan DEF CoordinatorTypes, Opening
<1>7. SplitTypes'
  BY <1>1, <1>2, <1>4, <1>5, <1>6, TypesStay DEF SplitTypes
<1>8. NoStageSent /\ Losses /\ \A k \in Nodes : Unsent(k)' => Unsent(k)
  BY <1>2, <1>3 DEF NoStageSent, Losses, Unsent, Opening
<1>9. Forward' /\ OfItsStage' /\ Truthful' /\ EndIsFinal' /\ Onward /\ Lives
  BY <1>2, <1>3, <1>8, Coordinated
<1>10. Collecting'
  BY <1>1, <1>2, <1>8, <1>9, CollectedElsewhere DEF SplitInvariant
<1>11. Progress'
  BY <1>1, <1>2, <1>9, ProgressOn DEF SplitInvariant, Closing
<1>12. InTurn' /\ Reasoned' /\ Verdict'
  BY <1>2 DEF SplitInvariant, InTurn, Reasoned, Verdict, Closing
<1> QED BY <1>7, <1>9, <1>10, <1>11, <1>12 DEF SplitInvariant

\* A step of the coordinator's own thread alone, that changes no phase but by these.
LEMMA OwnStep ==
  ASSUME SplitInvariant, CoordinatorTypes', QueueTypes', NoStageSent,
         UNCHANGED <<plan, at, reported, results, node, runner, thread, proc, from, stop>>,
         HeardTypes', UNCHANGED <<stage.started, stage.code, stage.lost>>,
         \A n \in Nodes : Unsent(n)' => Unsent(n),
         phase' \notin {"collect", "collected"} \/ (phase' = "collect" /\ turn' = 1)
  PROVE  /\ SplitTypes' /\ Forward' /\ OfItsStage' /\ Truthful' /\ EndIsFinal'
         /\ Collecting' /\ Lives
<1>1. SplitTypes
  BY DEF SplitInvariant
<1>2. SplitTypes'
  BY <1>1, TypesStay DEF SplitTypes
<1>3. Forward' /\ OfItsStage' /\ Truthful' /\ EndIsFinal' /\ Onward /\ Lives
  BY Coordinated DEF Losses
<1>4. Collecting'
  BY <1>1, <1>3, CollectedElsewhere DEF SplitInvariant, Losses
<1> QED BY <1>2, <1>3, <1>4

LEMMA NeverReachedStep ==
  ASSUME SplitInvariant, NeverReached
  PROVE  SplitInvariant'
<1>1. SplitTypes /\ CoordinatorTypes
  BY DEF SplitInvariant, SplitTypes
<1>2. /\ UNCHANGED <<plan, at, turn, struck, reported, results, stage, node, runner, thread,
                     proc, to, from, stop>>
      /\ phase = "accept" /\ phase' = "close" /\ raised' = "unreached"
  BY DEF NeverReached, Raise, runners
<1>3. CoordinatorTypes'
  BY <1>1, <1>2, SamePlan DEF CoordinatorTypes, Closing
<1>4. HeardTypes' /\ QueueTypes'
  BY <1>1, <1>2, TypesStay
<1>5. NoStageSent /\ \A k \in Nodes : Unsent(k)' => Unsent(k)
  BY <1>2 DEF NoStageSent, Unsent, Opening
<1>6. /\ SplitTypes' /\ Forward' /\ OfItsStage' /\ Truthful' /\ EndIsFinal'
      /\ Collecting' /\ Lives
  BY <1>2, <1>3, <1>4, <1>5, OwnStep
<1>7. Progress'
  BY <1>1, <1>2, <1>6, ProgressEnds DEF SplitInvariant, Closing
<1>8. InTurn' /\ Reasoned' /\ Verdict'
  BY <1>2 DEF SplitInvariant, InTurn, Reasoned, Verdict, Closing
<1> QED BY <1>6, <1>7, <1>8 DEF SplitInvariant

\* There is a first node, and a next one before the last.
LEMMA Turns ==
  ASSUME SplitTypes
  PROVE  /\ plan.nodes \in Nat \ {0} /\ 1 \in Nodes /\ turn \in Nat
         /\ turn < plan.nodes => turn + 1 \in Nodes
         /\ ~(turn < plan.nodes) => \A n \in Nodes : n \in Nat /\ n <= turn
<1>1. plan.nodes \in Nat \ {0} /\ turn \in Nodes /\ turn \in Nat
  BY Typed, Planned
<1>2. turn \in 1 .. plan.nodes /\ Nodes = 1 .. plan.nodes
  BY <1>1 DEF Nodes
<1> QED BY <1>1, <1>2

LEMMA ReadyStep ==
  ASSUME SplitInvariant, Ready
  PROVE  SplitInvariant'
<1>1. SplitTypes /\ CoordinatorTypes
  BY DEF SplitInvariant, SplitTypes
<1>2. /\ UNCHANGED <<plan, at, struck, reported, results, stage, node, runner, thread,
                     proc, from, stop>>
      /\ phase = "ready"
      /\ \/ phase' = "close" /\ raised' \in {"refused", "unready"} /\ UNCHANGED <<turn, to>>
         \/ turn < plan.nodes /\ turn' = turn + 1 /\ UNCHANGED <<phase, raised, to>>
         \/ /\ turn' = 1 /\ phase' = "next" /\ UNCHANGED raised
            /\ to' = [n \in Nodes |-> IF n \in {k \in Nodes : Reach(k)}
                                      THEN Append(to[n], [type |-> "peers"]) ELSE to[n]]
  BY DEF Ready, Raise, runners
<1>4. 1 \in Nodes /\ (turn < plan.nodes => turn + 1 \in Nodes)
  BY <1>1, Turns
<1>5. CoordinatorTypes'
  BY <1>1, <1>2, <1>4, SamePlan DEF CoordinatorTypes, Closing, Opening
<1>6. QueueTypes' /\ NoStageSent
  <2>1. CASE to' = to
    BY <1>1, <1>2, <2>1, TypesStay DEF NoStageSent
  <2>2. CASE to' # to
    <3>1. PICK o \in [type : {"peers", "stop", "exit"}] : o = [type |-> "peers"]
      OBVIOUS
    <3> QED BY <1>1, <1>2, <2>2, <3>1, Ordered
  <2> QED BY <2>1, <2>2
<1>7. HeardTypes' /\ \A k \in Nodes : Unsent(k)' => Unsent(k)
  BY <1>1, <1>2, TypesStay DEF Unsent, Opening
<1>8. phase' \in {"close", "ready", "next"}
  BY <1>2
<1>9. /\ SplitTypes' /\ Forward' /\ OfItsStage' /\ Truthful' /\ EndIsFinal'
      /\ Collecting' /\ Lives
  BY <1>2, <1>5, <1>6, <1>7, <1>8, OwnStep
<1>10. Progress'
  <2>1. CASE phase' = "close"
    BY <1>1, <1>2, <1>9, <2>1, ProgressEnds DEF SplitInvariant, Closing
  <2>2. CASE phase' # "close"
    BY <1>1, <1>2, <1>9, <2>2, ProgressOn DEF SplitInvariant, Closing
  <2> QED BY <2>1, <2>2
<1>11. InTurn' /\ Reasoned' /\ Verdict'
  BY <1>2 DEF SplitInvariant, InTurn, Reasoned, Verdict, Closing
<1> QED BY <1>9, <1>10, <1>11 DEF SplitInvariant

LEMMA BeginStageStep ==
  ASSUME SplitInvariant, BeginStage
  PROVE  SplitInvariant'
<1>1. SplitTypes /\ CoordinatorTypes /\ HeardTypes
  BY DEF SplitInvariant, SplitTypes
<1>2. /\ UNCHANGED <<plan, at, turn, results, raised, node, runner, thread, proc, to, from, stop>>
      /\ phase = "next"
  BY DEF BeginStage, runners
<1>3. NoStageSent
  BY <1>2 DEF NoStageSent
<1>4. turn = 1
  BY <1>2 DEF SplitInvariant, InTurn, Closing
<1>5. CASE stop
  <2>1. phase' = "close" /\ UNCHANGED <<stage, struck, reported>>
    BY <1>5 DEF BeginStage
  <2>2. CoordinatorTypes'
    BY <1>1, <1>2, <2>1, SamePlan DEF CoordinatorTypes, Closing
  <2>3. HeardTypes' /\ QueueTypes'
    BY <1>1, <1>2, <2>1, TypesStay
  <2>4. \A k \in Nodes : Unsent(k)' => Unsent(k)
    BY <1>2, <2>1 DEF Unsent, Opening
  <2>5. /\ SplitTypes' /\ Forward' /\ OfItsStage' /\ Truthful' /\ EndIsFinal'
        /\ Collecting' /\ Lives
    BY <1>2, <1>3, <2>1, <2>2, <2>3, <2>4, OwnStep
  <2>6. Progress'
    BY <1>1, <1>2, <1>5, <2>1, <2>5, ProgressEnds DEF SplitInvariant, Closing
  <2>7. InTurn' /\ Reasoned' /\ Verdict'
    BY <1>2, <2>1 DEF SplitInvariant, InTurn, Reasoned, Verdict, Closing
  <2> QED BY <2>5, <2>6, <2>7 DEF SplitInvariant
<1>6. CASE ~stop
  <2>1. /\ phase' = "begin" /\ struck' = NotStruck /\ reported' = {}
        /\ stage' = [NewStage EXCEPT !.open = TRUE]
    BY <1>6 DEF BeginStage
  <2>2. CoordinatorTypes'
    BY <1>1, <1>2, <2>1, SamePlan DEF CoordinatorTypes, NotStruck, Someone
  <2>3. /\ stage' \in [open : BOOLEAN, code : [Everyone -> {"none", "zero", "fail"}],
                       started : SUBSET Everyone, lost : SUBSET Everyone, abort : BOOLEAN,
                       unheard : Someone, error : BOOLEAN]
        /\ stage'.started = {} /\ stage'.lost = {} /\ ~stage'.abort
        /\ \A m \in Everyone : stage'.code[m] = "none"
    BY <2>1 DEF NewStage, Everyone, Someone
  <2>4. HeardTypes'
    BY <1>1, <1>2, <2>3, SamePlan DEF HeardTypes
  <2>5. SplitTypes'
    BY <1>1, <1>2, <2>2, <2>4, TypesStay DEF SplitTypes
  <2>6. \A k \in Nodes : Unsent(k)' => Unsent(k)
    BY <1>2, <2>1 DEF Unsent, Opening
  <2>7. Forward' /\ OfItsStage' /\ Truthful' /\ EndIsFinal' /\ Onward /\ Lives
    BY <1>2, <1>3, <2>3, <2>6, Coordinated DEF Losses
  <2>8. Collecting'
    BY <1>1, <1>2, <2>1, <2>7, CollectedElsewhere DEF SplitInvariant, Losses
  <2>9. Progress'
    BY <1>1, <1>2, <2>1, <2>7, ProgressOn DEF SplitInvariant, Closing
  <2>10. InTurn' /\ Reasoned' /\ Verdict'
    BY <1>2, <1>4, <2>1, <2>3 DEF InTurn, Reasoned, Verdict, Closing
  <2> QED BY <2>5, <2>7, <2>8, <2>9, <2>10 DEF SplitInvariant
<1> QED BY <1>5, <1>6

\* The stage is sent to the node whose turn it is, or to none.
LEMMA StageSent ==
  ASSUME SplitInvariant, UNCHANGED <<plan, at, thread, proc, from>>, phase = "begin",
         \/ phase' = "begin" /\ turn' = turn + 1
         \/ phase' = "watch",
         to' = to \/ to' = [to EXCEPT ![turn] = Append(@, [type |-> "stage", index |-> at])]
  PROVE  QueueTypes' /\ Forward' /\ Onward /\ Lives
<1>1. SplitTypes /\ QueueTypes /\ Forward
  BY DEF SplitInvariant, SplitTypes
<1>2. at \in Nat \ {0} /\ turn \in Nodes /\ turn \in Nat /\ Nodes \subseteq Nat
  BY <1>1, Typed, Planned
<1>3. \A n \in Nodes : Unsent(n)' => Unsent(n) /\ n # turn
  BY <1>2 DEF Unsent, Opening
<1>4. Unsent(turn)
  BY <1>2 DEF Unsent
<1>5. ASSUME NEW n \in Nodes, NEW q \in Seq(Orders), q = to'[n],
             \A k \in 1 .. Len(q) : \/ k \in 1 .. Len(to[n]) /\ q[k] = to[n][k]
                                    \/ n = turn /\ k = Len(to[n]) + 1 /\ q[k].index = at
      PROVE  /\ \A k \in 1 .. Len(q) : q[k].type = "stage" =>
                  /\ thread[n].index < q[k].index /\ q[k].index <= at
                  /\ Unsent(n)' => q[k].index < at
                  /\ \A j \in 1 .. k - 1 : q[j].type = "stage" => q[j].index < q[k].index
             /\ \A i \in Nat \ {0} : Finished(n, i) =>
                  \A k \in 1 .. Len(q) : q[k].type = "stage" => i < q[k].index
  <2>1. Len(to[n]) \in Nat /\ Len(q) \in Nat /\ thread[n].index \in Nat
    BY <1>1, <1>5, Typed, LenProperties
  <2>2. ASSUME NEW k \in 1 .. Len(to[n]), to[n][k].type = "stage"
        PROVE  /\ thread[n].index < to[n][k].index /\ to[n][k].index <= at
               /\ Unsent(n) => to[n][k].index < at
               /\ \A j \in 1 .. k - 1 : to[n][j].type = "stage" => to[n][j].index < to[n][k].index
    BY <1>1, <2>2 DEF Forward
  <2>3. Unsent(n) => thread[n].index < at
    BY <1>1 DEF Forward
  <2>4. ASSUME NEW k \in 1 .. Len(q), q[k].type = "stage"
        PROVE  /\ thread[n].index < q[k].index /\ q[k].index <= at
               /\ Unsent(n)' => q[k].index < at
               /\ \A j \in 1 .. k - 1 : q[j].type = "stage" => q[j].index < q[k].index
    <3>1. \A j \in 1 .. k - 1 : j \in 1 .. Len(q) /\ j \in Nat /\ j < k
      BY <2>1
    <3>2. CASE k \in 1 .. Len(to[n]) /\ q[k] = to[n][k]
      <4>1. \A j \in 1 .. k - 1 : q[j] = to[n][j]
        BY <1>5, <2>1, <3>1, <3>2
      <4> QED BY <1>3, <2>2, <2>4, <3>2, <4>1
    <3>3. CASE n = turn /\ k = Len(to[n]) + 1 /\ q[k].index = at
      <4>1. \A j \in 1 .. k - 1 : j \in 1 .. Len(to[n]) /\ q[j] = to[n][j]
        BY <1>5, <2>1, <3>1, <3>3
      <4> QED BY <1>2, <1>3, <1>4, <2>2, <2>3, <3>3, <4>1
    <3> QED BY <1>5, <3>2, <3>3
  <2>5. ASSUME NEW i \in Nat \ {0}, Finished(n, i), NEW k \in 1 .. Len(q), q[k].type = "stage"
        PROVE  i < q[k].index
    <3>1. CASE k \in 1 .. Len(to[n]) /\ q[k] = to[n][k]
      BY <2>5, <3>1 DEF Finished
    <3>2. CASE n = turn /\ k = Len(to[n]) + 1 /\ q[k].index = at
      BY <1>2, <1>4, <2>1, <2>3, <2>5, <3>2 DEF Finished
    <3> QED BY <1>5, <3>1, <3>2
  <2> QED BY <2>4, <2>5
<1>6. \A n \in Nodes :
        /\ to'[n] \in Seq(Orders)
        /\ \A k \in 1 .. Len(to'[n]) :
             \/ k \in 1 .. Len(to[n]) /\ to'[n][k] = to[n][k]
             \/ n = turn /\ k = Len(to[n]) + 1 /\ to'[n][k].index = at
  <2>1. CASE to' = to
    BY <1>1, <2>1 DEF QueueTypes
  <2>2. CASE to' = [to EXCEPT ![turn] = Append(@, [type |-> "stage", index |-> at])]
    <3> DEFINE o == [type |-> "stage", index |-> at]
               a == Append(to[turn], o)
    <3>1. o \in Orders /\ o.index = at /\ to[turn] \in Seq(Orders)
      BY <1>1, <1>2, Typed DEF Orders
    <3> HIDE DEF o
    <3>2. /\ a \in Seq(Orders) /\ Len(to[turn]) \in Nat /\ Len(a) = Len(to[turn]) + 1
          /\ \A k \in 1 .. Len(to[turn]) : a[k] = to[turn][k]
          /\ a[Len(to[turn]) + 1] = o
      BY <3>1, Queues
    <3> HIDE DEF a
    <3>3. \A n \in Nodes : to'[n] = IF n = turn THEN a ELSE to[n]
      BY <1>1, <2>2 DEF QueueTypes, a, o
    <3>4. \A k \in 1 .. Len(a) : k \in 1 .. Len(to[turn]) \/ k = Len(to[turn]) + 1
      BY <3>2
    <3> QED BY <1>1, <3>1, <3>2, <3>3, <3>4 DEF QueueTypes
  <2> QED BY <2>1, <2>2
<1>7. QueueTypes'
  <2>1. to' \in [Nodes -> Seq(Orders)]
    <3>1. to' = [n \in Nodes |-> to'[n]]
      BY <1>1 DEF QueueTypes
    <3> QED BY <1>6, <3>1
  <2> QED BY <1>1, <2>1, SamePlan DEF QueueTypes
<1>8. Forward'
  <2>1. ASSUME NEW n \in Nodes
        PROVE  /\ thread'[n].index <= at' /\ (Unsent(n)' => thread'[n].index < at')
               /\ \A k \in 1 .. Len(to'[n]) : to'[n][k].type = "stage" =>
                    /\ thread'[n].index < to'[n][k].index /\ to'[n][k].index <= at'
                    /\ Unsent(n)' => to'[n][k].index < at'
                    /\ \A j \in 1 .. k - 1 : to'[n][j].type = "stage" =>
                         to'[n][j].index < to'[n][k].index
    <3>1. thread[n].index <= at /\ (Unsent(n)' => thread[n].index < at)
      BY <1>1, <1>3 DEF Forward
    <3>2. PICK q : q = to'[n]
      OBVIOUS
    <3> QED BY <1>5, <1>6, <3>1, <3>2
  <2> QED BY <2>1, SamePlan DEF Forward
<1>9. Onward
  <2>1. ASSUME NEW n \in Nodes, NEW i \in Nat \ {0}, Finished(n, i) PROVE Finished(n, i)'
    <3>1. PICK q : q = to'[n]
      OBVIOUS
    <3>2. \A k \in 1 .. Len(q) : q[k].type = "stage" => i < q[k].index
      BY <1>5, <1>6, <2>1, <3>1
    <3> QED BY <2>1, <3>1, <3>2 DEF Finished
  <2> QED BY <2>1 DEF Onward
<1> QED BY <1>7, <1>8, <1>9 DEF Lives

LEMMA SendStageStep ==
  ASSUME SplitInvariant, SendStage
  PROVE  SplitInvariant'
<1>1. SplitTypes /\ CoordinatorTypes /\ HeardTypes
  BY DEF SplitInvariant, SplitTypes
<1>2. /\ UNCHANGED <<plan, at, struck, reported, results, raised, node, runner, thread,
                     proc, from, stop>>
      /\ phase = "begin"
  BY DEF SendStage, runners
<1>3. \/ phase' = "begin" /\ turn' = turn + 1 /\ turn < plan.nodes
      \/ phase' = "watch" /\ turn' = 1
  BY <1>2 DEF SendStage, NextTurn
<1>4. to' = to \/ to' = [to EXCEPT ![turn] = Append(@, [type |-> "stage", index |-> at])]
  BY DEF SendStage, Send
<1>5. QueueTypes' /\ Forward' /\ Onward /\ Lives
  BY <1>2, <1>3, <1>4, StageSent
<1>6. turn \in Nodes /\ turn' \in Nodes
  BY <1>1, <1>3, Typed, Turns
<1>7. CoordinatorTypes'
  BY <1>1, <1>2, <1>3, <1>6, SamePlan DEF CoordinatorTypes
<1>8. stage' = stage \/ (stage' = Lost(turn) /\ node[turn].lost)
  BY DEF SendStage
<1>9. /\ stage' \in [open : BOOLEAN, code : [Everyone -> {"none", "zero", "fail"}],
                     started : SUBSET Everyone, lost : SUBSET Everyone, abort : BOOLEAN,
                     unheard : Someone, error : BOOLEAN]
      /\ UNCHANGED <<stage.started, stage.error, stage.unheard, stage.abort>>
      /\ \A m \in Everyone : stage'.code[m] = "zero" => stage.code[m] = "zero"
      /\ \A m \in stage'.lost :
           m \in stage.lost \/ (m \in Everyone /\ plan.home[m] = turn /\ node[turn].lost)
  BY <1>1, <1>2, <1>6, <1>8, Losing DEF HeardTypes
<1>10. HeardTypes'
  BY <1>1, <1>2, <1>9, SamePlan DEF HeardTypes
<1>11. SplitTypes'
  BY <1>1, <1>2, <1>5, <1>7, <1>10, TypesStay DEF SplitTypes
<1>12. Losses /\ \A k \in Nodes : \A i \in 1 .. Len(from'[k]) :
                   \E j \in 1 .. Len(from[k]) : from'[k][i] = from[k][j]
  BY <1>2 DEF Losses
<1>13. OfItsStage'
  BY <1>1, <1>2, OfItsStageStays DEF SplitInvariant, Running
<1>14. Truthful'
  BY <1>1, <1>2, <1>5, <1>9, <1>12, TruthStays DEF SplitInvariant
<1>15. EndIsFinal'
  BY <1>1, <1>2, <1>5, <1>12, EndsStay DEF SplitInvariant
<1>16. Collecting'
  BY <1>1, <1>2, <1>3, <1>5, <1>12, CollectedElsewhere DEF SplitInvariant
<1>17. Progress'
  BY <1>1, <1>2, <1>3, <1>5, ProgressOn DEF SplitInvariant, Closing
<1>18. InTurn' /\ Reasoned' /\ Verdict'
  BY <1>2, <1>3, <1>9 DEF SplitInvariant, InTurn, Reasoned, Verdict, Closing, NotStruck
<1> QED BY <1>5, <1>11, <1>13, <1>14, <1>15, <1>16, <1>17, <1>18 DEF SplitInvariant

\* The watch is over, for a reason.
LEMMA WatchEnds ==
  ASSUME SplitInvariant, phase = "watch", phase' = "watched",
         UNCHANGED <<plan, at, turn, reported, results, raised, stage, node, runner, thread,
                     proc, to, from, stop>>,
         struck' \in [failed : Someone, timedOut : BOOLEAN, wedge : BOOLEAN,
                      interrupted : BOOLEAN],
         struck'.failed = Nobody =>
           stop \/ stage.error \/ stage.unheard # Nobody \/ struck'.interrupted \/ Ran(at)
  PROVE  SplitInvariant'
<1>1. SplitTypes /\ CoordinatorTypes
  BY DEF SplitInvariant, SplitTypes
<1>2. CoordinatorTypes'
  BY <1>1, SamePlan DEF CoordinatorTypes
<1>3. HeardTypes' /\ QueueTypes'
  BY <1>1, TypesStay
<1>4. NoStageSent /\ \A k \in Nodes : Unsent(k)' => Unsent(k)
  BY DEF NoStageSent, Unsent, Opening
<1>5. /\ SplitTypes' /\ Forward' /\ OfItsStage' /\ Truthful' /\ EndIsFinal'
      /\ Collecting' /\ Lives
  BY <1>2, <1>3, <1>4, OwnStep
<1>6. Progress'
  BY <1>1, <1>5, ProgressOn DEF SplitInvariant, Closing
<1>7. InTurn' /\ Reasoned'
  BY DEF SplitInvariant, InTurn, Reasoned, Closing
<1>8. Ran(at)' <=> Ran(at)
  BY SamePlan DEF Ran, Ids, writers
<1>9. Verdict'
  BY <1>8 DEF Verdict
<1> QED BY <1>5, <1>6, <1>7, <1>9 DEF SplitInvariant

LEMMA WatchStep ==
  ASSUME SplitInvariant, Watch
  PROVE  SplitInvariant'
<1>1. SplitTypes /\ CoordinatorTypes /\ HeardTypes
  BY DEF SplitInvariant, SplitTypes
<1>2. /\ UNCHANGED <<plan, at, turn, reported, results, raised, stage, node, runner, thread,
                     proc, to, from, stop>>
      /\ phase = "watch" /\ phase' = "watched"
  BY DEF Watch, runners
<1>3. Ids(at) \subseteq Everyone
  BY <1>1, Typed, Planned
<1>4. stage.abort => stop \/ stage.error \/ stage.unheard # Nobody
  BY <1>2 DEF SplitInvariant, Reasoned
<1>5. AllEnded /\ Failing = {} => Ran(at)
  <2>1. ASSUME AllEnded, Failing = {}, NEW m \in Ids(at) \ writers(at) PROVE proc[m] = "zero"
    <3>1. m \in Everyone /\ m \in Coded /\ stage.code[m] # "fail" /\ stage.code[m] # "none"
      BY <1>3, <2>1 DEF AllEnded, Failing, Coded
    <3>2. stage.code[m] = "zero"
      BY <1>1, <3>1 DEF HeardTypes
    <3> QED BY <3>1, <3>2 DEF SplitInvariant, Truthful
  <2> QED BY <2>1 DEF Ran
<1>6. \/ UNCHANGED struck /\ (stage.abort \/ (AllEnded /\ Failing = {}))
      \/ \E m \in Failing : struck' = [struck EXCEPT !.failed = m]
  BY DEF Watch
<1>7. /\ struck' \in [failed : Someone, timedOut : BOOLEAN, wedge : BOOLEAN,
                      interrupted : BOOLEAN]
      /\ struck'.failed = Nobody =>
           stop \/ stage.error \/ stage.unheard # Nobody \/ struck'.interrupted \/ Ran(at)
  <2>1. CASE UNCHANGED struck /\ (stage.abort \/ (AllEnded /\ Failing = {}))
    BY <1>1, <1>4, <1>5, <2>1 DEF CoordinatorTypes
  <2>2. ASSUME NEW m \in Failing, struck' = [struck EXCEPT !.failed = m]
        PROVE  /\ struck' \in [failed : Someone, timedOut : BOOLEAN, wedge : BOOLEAN,
                               interrupted : BOOLEAN]
               /\ struck'.failed # Nobody
    <3>1. m \in Everyone /\ m # Nobody
      BY <1>1, <1>3, <2>2, Typed, Planned DEF Failing, Coded
    <3> QED BY <1>1, <2>2, <3>1 DEF CoordinatorTypes, Someone
  <2> QED BY <1>6, <2>1, <2>2
<1> QED BY <1>2, <1>7, WatchEnds

LEMMA DeadlineStep ==
  ASSUME SplitInvariant, Deadline
  PROVE  SplitInvariant'
<1>1. SplitTypes /\ CoordinatorTypes
  BY DEF SplitInvariant, SplitTypes
<1>2. /\ UNCHANGED <<plan, at, turn, reported, results, raised, stage, node, runner, thread,
                     proc, to, from, stop>>
      /\ phase = "watch" /\ phase' = "watched" /\ ~AllEnded
      /\ struck' = [struck EXCEPT !.timedOut = TRUE,
                                  !.failed = First(plan.stages[at].ids, Ids(at) \ Coded)]
  BY DEF Deadline, runners
<1>3. PICK m : m = First(plan.stages[at].ids, Ids(at) \ Coded)
  OBVIOUS
<1>4. m \in Everyone /\ m # Nobody
  <2>1. /\ Ids(at) \subseteq Everyone /\ Len(plan.stages[at].ids) \in Nat
        /\ Nobody \notin Everyone
    BY <1>1, Typed, Planned
  <2>2. Ids(at) \ Coded # {} /\ Ids(at) \ Coded \subseteq {plan.stages[at].ids[k] : k \in 1 .. Len(plan.stages[at].ids)}
    BY <1>2 DEF AllEnded, Ids
  <2>3. m \in Ids(at) \ Coded
    BY <1>3, <2>1, <2>2, FirstIsOne
  <2> QED BY <2>1, <2>3
<1>5. /\ struck' \in [failed : Someone, timedOut : BOOLEAN, wedge : BOOLEAN,
                      interrupted : BOOLEAN]
      /\ struck'.failed # Nobody
  BY <1>1, <1>2, <1>3, <1>4 DEF CoordinatorTypes, Someone
<1> QED BY <1>2, <1>5, WatchEnds

LEMMA InterruptStep ==
  ASSUME SplitInvariant, Interrupt
  PROVE  SplitInvariant'
<1>1. SplitTypes /\ CoordinatorTypes
  BY DEF SplitInvariant, SplitTypes
<1>2. /\ UNCHANGED <<plan, at, turn, reported, results, raised, stage, node, runner, thread,
                     proc, to, from, stop>>
      /\ phase = "watch" /\ phase' = "watched"
      /\ struck' = [struck EXCEPT !.interrupted = TRUE]
  BY DEF Interrupt, runners
<1>3. /\ struck' \in [failed : Someone, timedOut : BOOLEAN, wedge : BOOLEAN,
                      interrupted : BOOLEAN]
      /\ struck'.interrupted
  BY <1>1, <1>2 DEF CoordinatorTypes
<1> QED BY <1>2, <1>3, WatchEnds

LEMMA WatchedStep ==
  ASSUME SplitInvariant, Watched
  PROVE  SplitInvariant'
<1>1. SplitTypes /\ CoordinatorTypes /\ HeardTypes
  BY DEF SplitInvariant, SplitTypes
<1>2. /\ UNCHANGED <<plan, at, turn, reported, results, raised, node, runner, thread,
                     proc, from, stop>>
      /\ phase = "watched" /\ phase' = "collect"
      /\ stage' = [stage EXCEPT !.abort = TRUE]
      /\ to' = [n \in Nodes |-> IF n \in {k \in Nodes : involved(k) /\ Reach(k)}
                                THEN Append(to[n], [type |-> "stop"]) ELSE to[n]]
  BY DEF Watched, runners
<1>3. turn = 1
  BY <1>2 DEF SplitInvariant, InTurn, Closing
<1>4. QueueTypes' /\ NoStageSent
  <2>1. PICK o \in [type : {"peers", "stop", "exit"}] : o = [type |-> "stop"]
    OBVIOUS
  <2> QED BY <1>1, <1>2, <2>1, Ordered
<1>5. PICK missing \in Someone :
        struck' = IF struck.interrupted THEN struck
                  ELSE IF stage.unheard # Nobody THEN Wedged(stage.unheard)
                  ELSE IF struck.failed = Nobody /\ ~stop /\ missing # Nobody
                  THEN Wedged(missing) ELSE struck
  <2>1. PICK m : m = First(plan.stages[at].ids, writers(at) \ stage.started)
    OBVIOUS
  <2>2. /\ Ids(at) \subseteq Everyone /\ Len(plan.stages[at].ids) \in Nat
        /\ writers(at) \subseteq Ids(at)
    BY <1>1, Typed, Planned
  <2>3. writers(at) \ stage.started
          \subseteq {plan.stages[at].ids[k] : k \in 1 .. Len(plan.stages[at].ids)}
    BY <2>2 DEF Ids
  <2>4. m \in writers(at) \/ m = Nobody
    BY <2>1, <2>2, <2>3, FirstIsOne
  <2>5. m \in Someone
    BY <2>2, <2>4 DEF Someone
  <2> QED BY <2>1, <2>5 DEF Watched
<1>6. /\ struck' \in [failed : Someone, timedOut : BOOLEAN, wedge : BOOLEAN,
                      interrupted : BOOLEAN]
      /\ \/ struck'.timedOut
         \/ struck' = struck /\ (struck.interrupted \/ stage.unheard = Nobody)
  BY <1>1, <1>5 DEF CoordinatorTypes, HeardTypes, Wedged
<1>7. CoordinatorTypes'
  BY <1>1, <1>2, <1>6, SamePlan DEF CoordinatorTypes
<1>8. /\ stage' \in [open : BOOLEAN, code : [Everyone -> {"none", "zero", "fail"}],
                     started : SUBSET Everyone, lost : SUBSET Everyone, abort : BOOLEAN,
                     unheard : Someone, error : BOOLEAN]
      /\ UNCHANGED <<stage.started, stage.code, stage.lost, stage.error, stage.unheard>>
  BY <1>1, <1>2 DEF HeardTypes
<1>9. HeardTypes'
  BY <1>1, <1>2, <1>8, SamePlan DEF HeardTypes
<1>10. \A k \in Nodes : Unsent(k)' => Unsent(k)
  BY <1>2 DEF Unsent, Opening
<1>11. /\ SplitTypes' /\ Forward' /\ OfItsStage' /\ Truthful' /\ EndIsFinal'
       /\ Collecting' /\ Lives
  BY <1>2, <1>3, <1>4, <1>7, <1>8, <1>9, <1>10, OwnStep
<1>12. Progress'
  BY <1>1, <1>2, <1>11, ProgressOn DEF SplitInvariant, Closing
<1>13. InTurn' /\ Reasoned'
  BY <1>2 DEF InTurn, Reasoned
<1>14. Ran(at)' <=> Ran(at)
  BY <1>2, SamePlan DEF Ran, Ids, writers
<1>15. Verdict'
  BY <1>2, <1>6, <1>8, <1>14 DEF SplitInvariant, Verdict
<1> QED BY <1>11, <1>12, <1>13, <1>15 DEF SplitInvariant

\* What a node said of the stage's end makes the report complete of it, and leaves it
\* complete of the nodes before.
LEMMA Gathered ==
  ASSUME SplitInvariant, CollectNode
  PROVE  /\ \A m \in IdsIn(reported') : proc[m] # "none"
         /\ \A n \in 1 .. turn : Complete(n, at, IdsIn(reported'))
<1>1. SplitTypes /\ EndIsFinal /\ Collecting
  BY DEF SplitInvariant
<1>2. /\ phase = "collect"
      /\ reported' = reported \union
                       UNION {e.members : e \in {f \in node[turn].ended : f.index = at}}
      /\ involved(turn) /\ ~node[turn].lost /\ ~plan.late => Told(turn)
  BY DEF CollectNode
<1>3. \A e \in node[turn].ended : e \in Endings /\ Final(turn, e.index, e.members)
  BY <1>1, Typed DEF EndIsFinal
<1>4. ASSUME NEW m \in IdsIn(reported') PROVE proc[m] # "none"
  <2>1. PICK r \in reported' : m = r.id
    BY <1>4 DEF IdsIn
  <2>2. CASE r \in reported
    BY <1>1, <2>1, <2>2 DEF Collecting, IdsIn
  <2>3. ASSUME NEW e \in node[turn].ended, r \in e.members PROVE proc[m] # "none"
    <3>1. m \in IdsIn(e.members) /\ m \in Everyone
      BY <1>3, <2>1, <2>3 DEF IdsIn, Endings, Reports
    <3> QED BY <1>3, <2>3, <3>1 DEF Final, WholeOf
  <2> QED BY <1>2, <2>1, <2>2, <2>3
<1>5. IdsIn(reported) \subseteq IdsIn(reported')
  BY <1>2 DEF IdsIn
<1>6. ASSUME NEW n \in 1 .. turn, Here(n, at) # {} /\ ~node[n].lost /\ ~plan.late
      PROVE  /\ Finished(n, at)
             /\ \A m \in Here(n, at) : proc[m] # "none" => m \in IdsIn(reported')
  <2>1. CASE n \in 1 .. turn - 1
    BY <1>1, <1>2, <1>5, <1>6, <2>1 DEF Collecting, Complete
  <2>2. CASE n = turn
    <3>1. PICK e \in node[turn].ended : e.index = at
      BY <1>2, <1>6, <2>2 DEF Told, involved
    <3>2. Final(n, at, e.members)
      BY <1>3, <2>2, <3>1
    <3>3. IdsIn(e.members) \subseteq IdsIn(reported')
      BY <1>2, <3>1 DEF IdsIn
    <3>4. Here(n, at) \subseteq Everyone
      BY <1>1, Typed, HereIsKnown
    <3> QED BY <3>2, <3>3, <3>4 DEF Final, WholeOf
  <2>3. n = turn \/ n \in 1 .. turn - 1
    BY <1>1, Typed
  <2> QED BY <2>1, <2>2, <2>3
<1> QED BY <1>4, <1>6 DEF Complete

LEMMA CollectNodeStep ==
  ASSUME SplitInvariant, CollectNode
  PROVE  SplitInvariant'
<1>1. SplitTypes /\ CoordinatorTypes /\ HeardTypes
  BY DEF SplitInvariant, SplitTypes
<1>2. /\ UNCHANGED <<plan, at, struck, results, raised, stage, runner, thread, proc, to,
                     from, stop>>
      /\ phase = "collect"
      /\ reported' = reported \union
                       UNION {e.members : e \in {f \in node[turn].ended : f.index = at}}
      /\ node' = [node EXCEPT ![turn].ended = {e \in @ : e.index # at}]
  BY DEF CollectNode, runners
<1>3. \/ phase' = "collect" /\ turn' = turn + 1 /\ turn < plan.nodes
      \/ phase' = "collected" /\ turn' = 1 /\ ~(turn < plan.nodes)
  BY <1>2 DEF CollectNode, NextTurn
<1>4. turn \in Nodes /\ turn' \in Nodes /\ turn \in Nat
  BY <1>1, <1>3, Typed, Turns
<1>5. reported' \subseteq Reports
  <2>1. \A e \in node[turn].ended : e.members \subseteq Reports
    BY <1>1, <1>4, Typed DEF Endings
  <2> QED BY <1>1, <1>2, <2>1, Typed
<1>6. CoordinatorTypes'
  <2>1. phase' \in {"collect", "collected"}
    BY <1>3
  <2>2. /\ plan' \in Plans /\ at' \in 1 .. Len(plan'.stages)
        /\ struck' \in [failed : Someone, timedOut : BOOLEAN, wedge : BOOLEAN,
                        interrupted : BOOLEAN]
        /\ results' \in Seq(Results)
        /\ raised' \in {"no", "unreached", "unready", "refused", "error"}
    BY <1>1, <1>2 DEF CoordinatorTypes
  <2>3. /\ Nodes' = Nodes /\ Someone' = Someone /\ Reports' = Reports
        /\ Seq(Results)' = Seq(Results) /\ Plans' = Plans
    BY <1>2, SamePlan
  <2> QED BY <1>4, <1>5, <2>1, <2>2, <2>3 DEF CoordinatorTypes
<1>7. /\ node' \in [Nodes -> NodeStates]
      /\ \A n \in Nodes : /\ node'[n].lost = node[n].lost /\ node'[n].losing = node[n].losing
                          /\ node'[n].ended \subseteq node[n].ended
  <2>1. PICK r : r = [node[turn] EXCEPT !.ended = {e \in @ : e.index # at}]
    OBVIOUS
  <2>2. node \in [Nodes -> NodeStates] /\ node[turn] \in NodeStates
    BY <1>1, <1>4 DEF HeardTypes
  <2>3. /\ r \in NodeStates /\ r.lost = node[turn].lost /\ r.losing = node[turn].losing
        /\ r.ended \subseteq node[turn].ended
    BY <2>1, <2>2 DEF NodeStates
  <2>4. node' = [node EXCEPT ![turn] = r]
    BY <1>2, <2>1
  <2> QED BY <1>4, <2>2, <2>3, <2>4
<1>8. HeardTypes'
  <2>1. Nodes' = Nodes /\ NodeStates' = NodeStates /\ Everyone' = Everyone /\ Someone' = Someone
    BY <1>2, SamePlan
  <2>2. node' \in [Nodes -> NodeStates] /\ \A n \in Nodes : node'[n].losing => node'[n].lost
    BY <1>1, <1>7 DEF HeardTypes
  <2>3. stage' = stage /\ stop' = stop
    BY <1>2
  <2> QED BY <1>1, <2>1, <2>2, <2>3 DEF HeardTypes
<1>9. SplitTypes'
  BY <1>1, <1>2, <1>6, <1>8, TypesStay DEF SplitTypes
<1>10. NoStageSent /\ Losses /\ \A k \in Nodes : Unsent(k)' => Unsent(k)
  BY <1>2, <1>3, <1>7 DEF NoStageSent, Losses, Unsent, Opening
<1>11. Forward' /\ OfItsStage' /\ Truthful' /\ EndIsFinal' /\ Onward /\ Lives
  BY <1>2, <1>7, <1>10, Coordinated
<1>12. PICK M : M = IdsIn(reported')
  OBVIOUS
<1>13. (\A m \in M : proc[m] # "none") /\ \A n \in 1 .. turn : Complete(n, at, M)
  BY <1>12, Gathered
<1>14. ASSUME NEW n \in 1 .. turn, n \in Nodes PROVE Complete(n, at, IdsIn(reported))'
  <2>1. Complete(n, at, M)
    BY <1>13
  <2> QED BY <1>2, <1>7, <1>12, <1>14, <2>1, SamePlan DEF Complete, Finished, Here, Ids, IdsIn
<1>15. ASSUME NEW j \in 1 .. Len(results), NEW n \in Nodes
       PROVE  Complete(n, j, IdsIn(results[j].members))'
  <2>1. Complete(n, j, IdsIn(results[j].members))
    BY DEF SplitInvariant, Collecting
  <2> QED BY <1>2, <1>7, <2>1, SamePlan DEF Complete, Finished, Here, Ids, IdsIn
<1>16. Collecting'
  <2>1. \A m \in IdsIn(reported)' : proc'[m] # "none"
    BY <1>2, <1>12, <1>13 DEF IdsIn
  <2>2. phase' = "collect" => \A n \in 1 .. turn' - 1 : n \in 1 .. turn /\ n \in Nodes
    BY <1>1, <1>3, <1>4, Typed
  <2>3. phase' = "collected" => \A n \in Nodes : n \in 1 .. turn
    BY <1>1, <1>3, Turns DEF Nodes
  <2> QED BY <1>2, <1>3, <1>14, <1>15, <2>1, <2>2, <2>3, SamePlan DEF Collecting
<1>17. Progress'
  BY <1>1, <1>2, <1>3, <1>11, ProgressOn DEF SplitInvariant, Closing
<1>18. InTurn' /\ Reasoned'
  BY <1>2, <1>3 DEF InTurn, Reasoned
<1>19. Ran(at)' <=> Ran(at)
  BY <1>2, SamePlan DEF Ran, Ids, writers
<1>20. Verdict'
  BY <1>2, <1>3, <1>19 DEF SplitInvariant, Verdict
<1> QED BY <1>9, <1>11, <1>16, <1>17, <1>18, <1>20 DEF SplitInvariant

\* The report of a stage is of members, and whole where what was collected is.
LEMMA ReportOfStage ==
  ASSUME SplitInvariant, phase = "collected"
  PROVE  /\ stage_result \in Results /\ stage_result.members = Collected
         /\ stage_result.timedOut = struck.timedOut
         /\ stage_result.code = 0 /\ ~struck.timedOut => struck.failed = Nobody
         /\ \A n \in Nodes : Complete(n, at, IdsIn(Collected))
<1>1. SplitTypes /\ CoordinatorTypes /\ HeardTypes /\ Truthful
  BY DEF SplitInvariant, SplitTypes
<1>2. Ids(at) \subseteq Everyone /\ reported \subseteq Reports
  BY <1>1, Typed, Planned
<1>3. LostHere \subseteq Ids(at)
  BY DEF LostHere
<1>4. Collected \in SUBSET [id : Everyone, code : Codes, lost : BOOLEAN]
  <2>1. \A r \in reported : r.id \in Everyone /\ r.code \in Codes
    BY <1>2 DEF Reports
  <2>2. "fail" \in Codes
    BY DEF Codes
  <2>3. \A m \in LostHere : [id |-> m, code |-> "fail", lost |-> TRUE]
                               \in [id : Everyone, code : Codes, lost : BOOLEAN]
    BY <1>2, <1>3, <2>2
  <2>4. \A q \in reported : [id |-> q.id, code |-> q.code, lost |-> FALSE]
                               \in [id : Everyone, code : Codes, lost : BOOLEAN]
    BY <2>1
  <2> QED BY <2>3, <2>4 DEF Collected
<1>5. /\ stage_result \in Results /\ stage_result.members = Collected
      /\ stage_result.timedOut = struck.timedOut
      /\ stage_result.code = 0 /\ ~struck.timedOut => struck.failed = Nobody
  <2>1. PICK c \in {0, 1} :
          /\ stage_result = [members |-> Collected, failed |-> struck.failed,
                             timedOut |-> struck.timedOut, code |-> c]
          /\ c = 0 /\ ~struck.timedOut => struck.failed = Nobody
    BY <1>1 DEF stage_result, CoordinatorTypes
  <2>2. struck.failed \in Someone /\ struck.timedOut \in BOOLEAN
    BY <1>1 DEF CoordinatorTypes
  <2> QED BY <1>4, <2>1, <2>2 DEF Results
<1>6. IdsIn(Collected) = LostHere \union (IdsIn(reported) \cap Ids(at))
  <2>1. ASSUME NEW m \in LostHere PROVE m \in IdsIn(Collected)
    <3>1. PICK q : q = [id |-> m, code |-> "fail", lost |-> TRUE]
      OBVIOUS
    <3>2. q \in Collected
      BY <3>1 DEF Collected
    <3> QED BY <3>1, <3>2 DEF IdsIn
  <2>2. ASSUME NEW m \in IdsIn(reported) \cap Ids(at), m \notin LostHere
        PROVE  m \in IdsIn(Collected)
    <3>1. PICK r \in reported : r.id = m
      BY DEF IdsIn
    <3>2. PICK q : q = [id |-> r.id, code |-> r.code, lost |-> FALSE]
      OBVIOUS
    <3>3. q \in Collected
      BY <2>2, <3>1, <3>2 DEF Collected
    <3> QED BY <3>1, <3>2, <3>3 DEF IdsIn
  <2>3. \A q \in Collected : \/ q.id \in LostHere
                             \/ q.id \in Ids(at) /\ \E r \in reported : r.id = q.id
    BY DEF Collected
  <2>4. ASSUME NEW m \in IdsIn(Collected)
        PROVE  m \in LostHere \/ (m \in Ids(at) /\ m \in IdsIn(reported))
    BY <2>3 DEF IdsIn
  <2> QED BY <2>1, <2>2, <2>4
<1>7. ASSUME NEW n \in Nodes, Here(n, at) # {}, ~node[n].lost, ~plan.late
      PROVE  /\ Finished(n, at)
             /\ \A m \in Here(n, at) : m \in IdsIn(Collected) <=> proc[m] # "none"
  <2>1. Complete(n, at, IdsIn(reported))
    BY DEF SplitInvariant, Collecting
  <2>2. ASSUME NEW m \in Here(n, at) PROVE m \in IdsIn(Collected) <=> proc[m] # "none"
    <3>1. m \in Ids(at) /\ plan.home[m] = n
      BY DEF Here
    <3>2. m \in IdsIn(reported) <=> proc[m] # "none"
      BY <1>7, <2>1 DEF Complete
    <3>3. m \notin stage.lost /\ (m \in stage.started => proc[m] # "none")
      BY <1>1, <1>7, <3>1 DEF Truthful
    <3>4. m \notin LostHere
      BY <3>2, <3>3 DEF LostHere, Reporters, IdsIn
    <3> QED BY <1>6, <3>1, <3>2, <3>4
  <2> QED BY <1>7, <2>1, <2>2 DEF Complete
<1> QED BY <1>5, <1>7 DEF Complete

LEMMA EndStageStep ==
  ASSUME SplitInvariant, EndStage
  PROVE  SplitInvariant'
<1>1. SplitTypes /\ CoordinatorTypes /\ HeardTypes /\ Progress
  BY DEF SplitInvariant, SplitTypes
<1>2. /\ UNCHANGED <<plan, turn, struck, reported, node, runner, thread, proc, to, from, stop>>
      /\ phase = "collected" /\ stage' = [stage EXCEPT !.open = FALSE]
  BY DEF EndStage, runners
<1>3. PICK r \in Results : r = stage_result
  BY <1>2, ReportOfStage
<1>4. \/ /\ phase' = "close" /\ raised' = "error" /\ at' = at /\ results' = results
      \/ /\ results' = Append(results, r) /\ raised' = raised
         /\ stage.error => struck.interrupted
         /\ \/ phase' = "close" /\ at' = at
               /\ (struck.interrupted \/ r.code # 0 \/ at = Len(plan.stages))
            \/ phase' = "next" /\ at' = at + 1 /\ r.code = 0 /\ at # Len(plan.stages)
               /\ ~struck.interrupted
  BY <1>3 DEF EndStage, Raise
<1>5. at \in Nat /\ Len(plan.stages) \in Nat /\ at' \in 1 .. Len(plan.stages)
  BY <1>1, <1>4, Typed
<1>6. results \in Seq(Results) /\ Len(results) = at - 1 /\ Len(results) \in Nat
  BY <1>1, <1>2, Typed DEF CoordinatorTypes, Progress, Closing
<1>7. /\ Append(results, r) \in Seq(Results) /\ Len(Append(results, r)) = at
      /\ Append(results, r)[at] = r
      /\ \A i \in 1 .. Len(results) : Append(results, r)[i] = results[i]
  BY <1>5, <1>6, Queues
<1>8. turn = 1
  BY <1>2 DEF SplitInvariant, InTurn, Closing
<1>9. CoordinatorTypes'
  BY <1>1, <1>2, <1>4, <1>5, <1>7, SamePlan DEF CoordinatorTypes, Closing, Opening
<1>10. /\ stage' \in [open : BOOLEAN, code : [Everyone -> {"none", "zero", "fail"}],
                      started : SUBSET Everyone, lost : SUBSET Everyone, abort : BOOLEAN,
                      unheard : Someone, error : BOOLEAN]
       /\ UNCHANGED <<stage.started, stage.code, stage.lost, stage.error, stage.unheard>>
  BY <1>1, <1>2 DEF HeardTypes
<1>11. HeardTypes'
  BY <1>1, <1>2, <1>10, SamePlan DEF HeardTypes
<1>12. SplitTypes'
  BY <1>1, <1>2, <1>9, <1>11, TypesStay DEF SplitTypes
<1>13. NoStageSent /\ Losses /\ (at' = at => \A k \in Nodes : Unsent(k)' => Unsent(k))
  BY <1>2, <1>4, <1>5 DEF NoStageSent, Losses, Unsent, Opening
<1>14. Forward' /\ OfItsStage' /\ Truthful' /\ EndIsFinal' /\ Onward /\ Lives
  BY <1>2, <1>4, <1>10, <1>13, Coordinated
<1>15. CASE results' = results
  <2>1. Collecting'
    BY <1>1, <1>2, <1>4, <1>13, <1>14, <1>15, CollectedElsewhere DEF SplitInvariant
  <2>2. phase' = "close" /\ raised' = "error" /\ at' = at
    <3>1. Append(results, r) # results
      BY <1>5, <1>6, <1>7
    <3> QED BY <1>4, <1>15, <3>1
  <2>3. Progress'
    BY <1>1, <1>2, <1>14, <1>15, <2>2, ProgressEnds DEF Closing
  <2>4. InTurn' /\ Reasoned' /\ Verdict'
    BY <2>2 DEF InTurn, Reasoned, Verdict, Closing
  <2> QED BY <1>12, <1>14, <2>1, <2>3, <2>4 DEF SplitInvariant
<1>16. CASE results' = Append(results, r)
  <2>1. \A i \in 1 .. Len(results') : (i \in 1 .. Len(results) /\ results'[i] = results[i])
                                      \/ (i = at /\ results'[i] = r)
    BY <1>5, <1>6, <1>7, <1>16
  <2>2. Len(results') = at /\ results'[at] = r
    BY <1>7, <1>16
  <2>3. /\ r.code = 0 /\ ~r.timedOut => struck.failed = Nobody /\ ~struck.timedOut
        /\ \A n \in Nodes : Complete(n, at, IdsIn(r.members))
    BY <1>2, <1>3, ReportOfStage
  <2>4. ASSUME NEW i \in 1 .. Len(results'), NEW n \in Nodes
        PROVE  Complete(n, i, IdsIn(results[i].members))'
    <3>1. PICK q : q = results'[i]
      OBVIOUS
    <3>2. Complete(n, i, IdsIn(q.members))
      BY <2>1, <2>3, <3>1 DEF SplitInvariant, Collecting
    <3> QED BY <1>2, <3>1, <3>2, SamePlan DEF Complete, Finished, Here, Ids, IdsIn
  <2>5. Collecting'
    <3>1. \A m \in IdsIn(reported)' : proc'[m] # "none"
      BY <1>2 DEF SplitInvariant, Collecting, IdsIn
    <3>2. phase' \notin {"collect", "collected"}
      BY <1>2, <1>4
    <3> QED BY <2>4, <3>1, <3>2, SamePlan, <1>2 DEF Collecting
  <2>6. \A i \in 1 .. Len(plan.stages) : Ran(i)' <=> Ran(i)
    BY <1>2, SamePlan DEF Ran
  <2>7. ASSUME NEW i \in 1 .. Len(results'), results'[i].code = 0, ~results'[i].timedOut
        PROVE  Ran(i)' \/ stop' \/ (struck'.interrupted /\ phase' \in Closing)
    <3>1. i \in 1 .. Len(plan.stages)
      BY <1>1, <2>2, Typed
    <3>2. CASE i \in 1 .. Len(results) /\ results'[i] = results[i]
      BY <1>1, <1>2, <2>6, <2>7, <3>1, <3>2 DEF Progress, Closing
    <3>3. CASE i = at /\ results'[i] = r
      <4>1. stop \/ stage.error \/ struck.interrupted \/ Ran(at)
        BY <1>2, <2>3, <2>7, <3>3 DEF SplitInvariant, Verdict
      <4>2. stage.error \/ struck.interrupted => struck.interrupted /\ phase' = "close"
        BY <1>4, <1>16, <1>6, <1>7
      <4> QED BY <1>2, <2>6, <3>1, <3>3, <4>1, <4>2 DEF Closing
    <3> QED BY <2>1, <3>2, <3>3
  <2>8. /\ raised = "no" /\ \A i \in 1 .. Len(results) : results[i].code = 0
    BY <1>1, <1>2 DEF Progress, Closing
  <2>9. /\ raised' = raised
        /\ \/ phase' = "close" /\ at' = at
              /\ (struck.interrupted \/ r.code # 0 \/ at = Len(plan.stages))
           \/ phase' = "next" /\ at' = at + 1 /\ r.code = 0
    <3>1. Append(results, r) # results
      BY <1>5, <1>6, <1>7
    <3> QED BY <1>4, <1>16, <3>1
  <2>10. \A i \in 1 .. Len(results') - 1 : results'[i].code = 0
    BY <1>5, <1>6, <2>1, <2>2, <2>8
  <2>11. phase' \notin Closing => \A i \in 1 .. Len(results') : results'[i].code = 0
    BY <2>1, <2>8, <2>9 DEF Closing
  <2>12. Progress'
    BY <1>2, <1>5, <2>2, <2>7, <2>8, <2>9, <2>10, <2>11 DEF Progress, Closing
  <2>13. InTurn' /\ Reasoned' /\ Verdict'
    BY <1>2, <1>8, <2>9 DEF InTurn, Reasoned, Verdict, Closing
  <2> QED BY <1>12, <1>14, <2>5, <2>12, <2>13 DEF SplitInvariant
<1> QED BY <1>4, <1>15, <1>16

LEMMA CloseStep ==
  ASSUME SplitInvariant, Close \/ Closed
  PROVE  SplitInvariant'
<1>1. SplitTypes /\ CoordinatorTypes
  BY DEF SplitInvariant, SplitTypes
<1>2. /\ UNCHANGED <<plan, at, turn, struck, reported, results, raised, stage, node,
                     runner, thread, proc, from, stop>>
      /\ phase \in {"close", "reap"} /\ phase' \in {"reap", "done"}
      /\ \/ UNCHANGED to
         \/ to' = [n \in Nodes |-> IF n \in {k \in Nodes : Reach(k)}
                                   THEN Append(to[n], [type |-> "exit"]) ELSE to[n]]
  BY DEF Close, Closed, runners
<1>3. CoordinatorTypes'
  BY <1>1, <1>2, SamePlan DEF CoordinatorTypes, Closing
<1>4. QueueTypes' /\ NoStageSent
  <2>1. CASE to' = to
    BY <1>1, <1>2, <2>1, TypesStay DEF NoStageSent
  <2>2. CASE to' # to
    <3>1. PICK o \in [type : {"peers", "stop", "exit"}] : o = [type |-> "exit"]
      OBVIOUS
    <3> QED BY <1>1, <1>2, <2>2, <3>1, Ordered
  <2> QED BY <2>1, <2>2
<1>5. HeardTypes' /\ \A k \in Nodes : Unsent(k)' => Unsent(k)
  BY <1>1, <1>2, TypesStay DEF Unsent, Opening
<1>6. phase' \notin {"collect", "collected"}
  BY <1>2
<1>7. /\ SplitTypes' /\ Forward' /\ OfItsStage' /\ Truthful' /\ EndIsFinal'
      /\ Collecting' /\ Lives
  BY <1>2, <1>3, <1>4, <1>5, <1>6, OwnStep
<1>8. Progress'
  BY <1>1, <1>2, <1>7, ProgressOn DEF SplitInvariant, Closing
<1>9. InTurn' /\ Reasoned' /\ Verdict'
  BY <1>2 DEF InTurn, Reasoned, Verdict, Closing
<1> QED BY <1>7, <1>8, <1>9 DEF SplitInvariant

-----------------------------------------------------------------------------
(* The invariant, and what it says.                                        *)

LEMMA SplitInit == Init => SplitInvariant
<1> SUFFICES ASSUME Init PROVE SplitInvariant
  OBVIOUS
<1>1. /\ plan.nodes \in Nat \ {0} /\ 1 \in Nodes /\ 1 \in 1 .. Len(plan.stages)
      /\ \A m \in Everyone : plan.home[m] \in Nodes
  BY Planned DEF Init, Nodes
<1>2. CoordinatorTypes
  BY <1>1 DEF Init, CoordinatorTypes, NotStruck, Someone, Opening
<1>3. HeardTypes
  BY DEF Init, HeardTypes, NewStage, NewNode, NodeStates, Someone, Everyone
<1>4. RunnerTypes
  BY DEF Init, RunnerTypes, NewThread, Codes
<1>5. QueueTypes
  BY DEF Init, QueueTypes
<1>6. /\ \A n \in Nodes : /\ Len(to[n]) = 0 /\ Len(from[n]) = 0 /\ thread[n].index = 0
                          /\ node[n].ended = {}
      /\ at = 1 /\ Len(results) = 0 /\ reported = {}
  BY DEF Init, NewThread, NewNode
<1>7. InTurn /\ Forward
  BY <1>6 DEF Init, InTurn, Forward
<1>8. OfItsStage
  BY DEF Init, OfItsStage, Running
<1>9. Truthful
  BY <1>6 DEF Init, Truthful, NewStage, Everyone
<1>10. EndIsFinal
  BY <1>6 DEF EndIsFinal
<1>11. Collecting
  BY <1>6 DEF Init, Collecting, IdsIn
<1>12. Reasoned /\ Verdict
  BY DEF Init, Reasoned, Verdict
<1>13. Progress
  BY <1>6 DEF Init, Progress, Closing
<1> QED BY <1>2, <1>3, <1>4, <1>5, <1>7, <1>8, <1>9, <1>10, <1>11, <1>12, <1>13
        DEF SplitInvariant, SplitTypes

LEMMA SplitStep == SplitInvariant /\ [Next]_vars => SplitInvariant'
<1> SUFFICES ASSUME SplitInvariant, [Next]_vars PROVE SplitInvariant'
  OBVIOUS
<1>1. CASE Coordinator
  BY <1>1, NeverReachedStep, ReadyStep, BeginStageStep, SendStageStep, WatchStep, WatchedStep,
     CollectNodeStep, EndStageStep, CloseStep, StopSet, AcceptStep, RunnerDies DEF Coordinator
<1>2. CASE Deadline \/ Interrupt \/ SetStop
  BY <1>2, DeadlineStep, InterruptStep, StopSet
<1>3. ASSUME NEW n \in Nodes, Listener(n) \/ StageThread(n)
      PROVE  SplitInvariant'
  BY <1>3, HearStep, LoseStep, LoseMembersStep, SpawnStep, FeedStep, EndStep
     DEF Listener, StageThread
<1>4. ASSUME NEW n \in Nodes, Answer(n) \/ Halt(n) \/ Serve(n) \/ Die(n)
      PROVE  SplitInvariant'
  BY <1>4, AnswerStep, HaltStep, ServeStep, RunnerDies
<1>5. ASSUME NEW n \in Nodes, NEW m \in Everyone, Report(n, m) PROVE SplitInvariant'
  BY <1>5, ReportStep
<1>6. ASSUME NEW m \in Everyone, Exit(m) PROVE SplitInvariant'
  BY <1>6, ExitStep
<1>7. CASE UNCHANGED vars
  <2>1. /\ UNCHANGED <<coordinator, to, from>> /\ stage' = stage /\ node' = node
        /\ thread' = thread /\ proc' = proc /\ runner' = runner /\ stop' = stop /\ plan' = plan
    BY <1>7 DEF vars, coordinator
  <2>2. SplitTypes
    BY DEF SplitInvariant
  <2>3. SplitTypes'
    BY <2>1, <2>2, TypesStay DEF SplitTypes
  <2> QED BY <2>1, <2>3, Still DEF Losses
<1> QED BY <1>1, <1>2, <1>3, <1>4, <1>5, <1>6, <1>7 DEF Next

LEMMA SplitAlways == Spec => []SplitInvariant
BY SplitInit, SplitStep, PTL DEF Spec

\* While a runner is in a stage, nothing it started for an earlier one runs, though the
\* coordinator may have tired of waiting for its end: nodes.py serves orders in turn,
\* and _end_stage joins the stage's thread before the next.
THEOREM StagesNeverShare == Spec => []StagesApart
<1>1. SplitInvariant => StagesApart
  <2> SUFFICES ASSUME SplitInvariant, NEW n \in Nodes, Live(n),
                      NEW i \in 1 .. thread[n].index - 1, NEW m \in Here(n, i), Running(m)
               PROVE  FALSE
    BY DEF StagesApart
  <2>1. SplitTypes /\ thread[n].index <= at
    BY DEF SplitInvariant, Forward
  <2>2. thread[n].index \in 1 .. Len(plan.stages) /\ i \in 1 .. Len(plan.stages)
    <3>1. thread[n].index \in Nat /\ at \in Nat /\ Len(plan.stages) \in Nat
          /\ at <= Len(plan.stages)
      BY <2>1, Typed
    <3> QED BY <2>1, <3>1
  <2>3. m \in Everyone /\ m \in Ids(i) /\ plan.home[m] = n
    BY <2>1, <2>2, Typed, HereIsKnown DEF Here
  <2>4. m \in Ids(thread[n].index)
    BY <2>3 DEF SplitInvariant, OfItsStage, Here
  <2> QED BY <2>1, <2>2, <2>3, <2>4, Typed, Planned
<1> QED BY <1>1, SplitAlways, PTL

\* A split run reported clean ran every stage, and every member but the feeders' writers
\* to its own end with 0: execute_split goes on after a result of 0, and a result no one is
\* named in comes of exits the runners saw.
THEOREM SplitReportsClean == Spec => []CleanMeansClean
<1>1. SplitInvariant => CleanMeansClean
  <2> SUFFICES ASSUME SplitInvariant, phase = "done", Quiet, results[Len(results)].code = 0
               PROVE  /\ Len(results) = Len(plan.stages)
                      /\ \A i \in 1 .. Len(plan.stages) :
                           \A m \in Ids(i) \ writers(i) : proc[m] = "zero"
    BY DEF CleanMeansClean
  <2>1. raised = "no" /\ ~stop /\ ~struck.interrupted
    BY DEF Quiet
  <2>2. Len(results) = Len(plan.stages) /\ Len(results) \in Nat
    BY <2>1, Typed DEF SplitInvariant, Progress, Closing
  <2>3. ASSUME NEW i \in 1 .. Len(plan.stages) PROVE Ran(i)
    <3>1. results[i].code = 0 /\ ~results[i].timedOut
      BY <2>2 DEF SplitInvariant, Progress, Quiet
    <3> QED BY <2>1, <2>2, <3>1 DEF SplitInvariant, Progress
  <2> QED BY <2>2, <2>3 DEF Ran
<1> QED BY <1>1, SplitAlways, PTL

\* A stage's report has exactly the members that were started at the nodes not lost, where
\* _collect waited as long as it took: what a runner says of a stage's end is final.
THEOREM SplitReportsWhole == Spec => []ReportIsWhole
<1>1. SplitInvariant => ReportIsWhole
  <2> SUFFICES ASSUME SplitInvariant, NEW i \in 1 .. Len(results), ~plan.late,
                      NEW m \in Ids(i), ~node[plan.home[m]].lost
               PROVE  proc[m] # "none" <=> m \in {r.id : r \in results[i].members}
    BY DEF ReportIsWhole
  <2>1. i \in 1 .. Len(plan.stages)
    BY Typed DEF SplitInvariant, Progress
  <2>2. plan.home[m] \in Nodes /\ m \in Here(plan.home[m], i)
    BY <2>1, Typed, Planned DEF SplitInvariant, Here
  <2>3. Complete(plan.home[m], i, IdsIn(results[i].members))
    BY <2>2 DEF SplitInvariant, Collecting
  <2> QED BY <2>2, <2>3 DEF Complete, IdsIn
<1> QED BY <1>1, SplitAlways, PTL

=============================================================================
