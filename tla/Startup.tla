------------------------------ MODULE Startup ------------------------------
(***************************************************************************)
(* Whether every process of a plan can reach its first frame (startup.py). *)
(*                                                                         *)
(* ffmpeg opens its inputs one at a time and writes its outputs            *)
(* interleaved, so which pipe a process opens or writes first decides      *)
(* whether a plan starts.  arrange() searches for an order by walking the  *)
(* plan forward; check() refuses a plan whose milestones wait on each      *)
(* other.  The two are separate formulations of one rule, and the          *)
(* properties are that they agree.                                         *)
(*                                                                         *)
(* A plan is [kinds, edges]: the kind of each process, and the pipe edges, *)
(* each [key, source, target, rows], in the order the plan lists them.     *)
(***************************************************************************)
EXTENDS Naturals, Sequences, FiniteSets, SequencesExt

CONSTANT Plans      \* the plans the partition may hand over

VARIABLES plan,     \* the plan as partitioned, then as arranged
          given,    \* the plan as partitioned
          stage     \* "partitioned", "arranged", "accepted" or "refused"

svars == <<plan, given, stage>>

Pids(p) == 1 .. Len(p.kinds)
sidecar(p, pid) == p.kinds[pid] # "ffmpeg"
network(p, pid) == p.kinds[pid] = "network"

\* What a process opens, rows tracks first; what it writes, rows last.
_pipe_inputs(p, pid) ==
  SelectSeq(p.edges, LAMBDA e : e.target = pid /\ e.rows)
  \o SelectSeq(p.edges, LAMBDA e : e.target = pid /\ ~e.rows)
_pipe_outputs(p, pid) ==
  SelectSeq(p.edges, LAMBDA e : e.source = pid /\ ~e.rows)
  \o SelectSeq(p.edges, LAMBDA e : e.source = pid /\ e.rows)

\* Only a sidecar takes every pipe at once, so only its producer writes past it.
_carried(p, e) == sidecar(p, e.target)

-----------------------------------------------------------------------------
(* The relation: each milestone and what must come first.                  *)

Milestones(p) ==
  UNION {   {<<"run", pid, 0>>}
     \union {<<"open", pid, i>> : i \in 1 .. Len(_pipe_inputs(p, pid))}
     \union {<<k, pid, j>> : k \in {"head", "write"},
                             j \in 1 .. Len(_pipe_outputs(p, pid))} : pid \in Pids(p)}

\* The milestone of kind k at which e leaves its producer.
Left(p, e, k) ==
  LET out == _pipe_outputs(p, e.source)
  IN  <<k, e.source, CHOOSE j \in 1 .. Len(out) : out[j].key = e.key>>

relation(p, m) ==
  LET pid == m[2]
      in  == _pipe_inputs(p, pid)
      out == _pipe_outputs(p, pid)
      free(j) == _carried(p, out[j]) \/ network(p, pid) IN
  CASE m[1] = "open" ->
         {Left(p, in[m[3]], "head")}
         \union (IF sidecar(p, pid) THEN {}
                 ELSE {<<"open", pid, i>> : i \in 1 .. m[3] - 1})
    [] m[1] = "run" -> {<<"open", pid, i>> : i \in 1 .. Len(in)}
    [] m[1] = "head" -> {<<"run", pid, 0>>}
                        \union {Left(p, in[i], "write") : i \in 1 .. Len(in)}
    [] m[1] = "write" ->
         {<<"head", pid, m[3]>>}
         \union (IF m[3] > 1 /\ ~network(p, pid) THEN {<<"write", pid, m[3] - 1>>} ELSE {})
         \union (IF m[3] > 1 /\ ~free(m[3] - 1)
                 THEN {<<"run", out[m[3] - 1].target, 0>>} ELSE {})

\* A cycle is left where no milestone of the rest can come next.
stalled(p) ==
  LET all    == Milestones(p)
      before == [m \in all |-> relation(p, m)]
      left[n \in 0 .. Cardinality(all)] ==
        IF n = 0 THEN all
        ELSE LET rest == left[n - 1] IN {m \in rest : before[m] \cap rest # {}}
  IN  left[Cardinality(all)] # {}

-----------------------------------------------------------------------------
(* The walk.  `done` are the keys whose frames flow, held[pid] the output  *)
(* the process last wrote and may not be past, 0 for none.                 *)

flowing(p, done, pid) == \A i \in 1 .. Len(_pipe_inputs(p, pid)) :
                            _pipe_inputs(p, pid)[i].key \in done
\* reading, without waiting for what the consumer's other inputs wait for.
readingSoon(p, done, pid) == TRUE

reading(p, done, pid) == \A i \in 1 .. Len(_pipe_inputs(p, pid)) :
                            flowing(p, done, _pipe_inputs(p, pid)[i].source)
EdgeOf(p, key) == CHOOSE e \in {p.edges[i] : i \in 1 .. Len(p.edges)} : e.key = key

\* NextOutputs, every process's in the order the plan lists them.
NextOutputsAsPlanned(p, done, held, pid) ==
  LET remaining == SelectSeq(_pipe_outputs(p, pid), LAMBDA e : e.key \notin done) IN
  IF \/ ~flowing(p, done, pid) \/ remaining = <<>>
     \/ held[pid] # 0 /\ ~reading(p, done, EdgeOf(p, held[pid]).target)
  THEN <<>> ELSE <<Head(remaining)>>

\* The outputs of pid the walk may choose next, in the order it tries them.
NextOutputs(p, done, held, pid) ==
  LET remaining == SelectSeq(_pipe_outputs(p, pid), LAMBDA e : e.key \notin done)
      earliest  == SelectSeq(remaining, LAMBDA e :
                     \A i \in 1 .. Len(remaining) :
                       remaining[i].target = e.target =>
                         \E j \in 1 .. i : remaining[j].key = e.key) IN
  IF \/ ~flowing(p, done, pid) \/ remaining = <<>>
     \/ held[pid] # 0 /\ ~reading(p, done, EdgeOf(p, held[pid]).target)
  THEN <<>>
  ELSE IF sidecar(p, pid) THEN <<Head(remaining)>> ELSE earliest

RECURSIVE descend(_, _, _), FirstThat(_, _, _, _)
FirstThat(p, done, held, choices) ==
  IF choices = <<>> THEN <<FALSE, <<>>>>
  ELSE LET e == Head(choices)
           onward == descend(p, done \union {e.key},
                       [held EXCEPT ![e.source] = IF _carried(p, e) THEN 0 ELSE e.key])
       IN  IF onward[1] THEN <<TRUE, <<e.key>> \o onward[2]>>
                        ELSE FirstThat(p, done, held, Tail(choices))
descend(p, done, held) ==
  IF Cardinality(done) = Len(p.edges) THEN <<TRUE, <<>>>>
  ELSE FirstThat(p, done, held,
         FlattenSeq([pid \in Pids(p) |-> NextOutputs(p, done, held, pid)]))

_walk(p) == descend(p, {}, [pid \in Pids(p) |-> 0])

-----------------------------------------------------------------------------
(* The order, put back in the plan.                                        *)

\* The stream edges take the slots streams hold, in the walk's order; rows stay.
_reordered(p, order) ==
  LET streams == SelectSeq(order, LAMBDA k : ~EdgeOf(p, k).rows)
      nth(i)  == Cardinality({j \in 1 .. i : ~p.edges[j].rows}) IN
  [p EXCEPT !.edges = [i \in 1 .. Len(p.edges) |->
     IF p.edges[i].rows THEN p.edges[i] ELSE EdgeOf(p, streams[nth(i)])]]

arrange(p) == LET w == _walk(p) IN IF w[1] THEN _reordered(p, w[2]) ELSE p

Init == given \in Plans /\ plan = given /\ stage = "partitioned"

Arrange ==
  /\ stage = "partitioned" /\ stage' = "arranged"
  /\ plan' = arrange(plan) /\ UNCHANGED given

check ==
  /\ stage = "arranged"
  /\ stage' = IF stalled(plan) THEN "refused" ELSE "accepted"
  /\ UNCHANGED <<plan, given>>

Next == Arrange \/ check
Spec == Init /\ [][Next]_svars

-----------------------------------------------------------------------------
(* Properties.                                                             *)

\* What the walk found starts: an order it puts in a plan leaves no milestones
\* waiting on each other, so no plan is refused for the order it was given; and it
\* leaves the outputs a sidecar's module writes in their own order.
WalkStarts ==
  stage = "arranged" /\ _walk(given)[1] =>
    /\ ~stalled(plan)
    /\ \A pid \in Pids(plan) : sidecar(plan, pid) =>
         _pipe_outputs(plan, pid) = _pipe_outputs(given, pid)

\* A plan is refused only where no order of its pipes starts, of those that
\* leave a sidecar's outputs in the order its module writes them.
Orders(p) ==
  {q \in {[p EXCEPT !.edges = [i \in DOMAIN p.edges |-> p.edges[f[i]]]] :
            f \in {g \in [DOMAIN p.edges -> DOMAIN p.edges] : IsInjective(g)}} :
     \A pid \in Pids(p) : sidecar(p, pid) => _pipe_outputs(q, pid) = _pipe_outputs(p, pid)}
RefusedForCause == stage = "refused" => \A q \in Orders(given) : stalled(q)
=============================================================================
