----------------------------- MODULE Placement ------------------------------
(***************************************************************************)
(* Which node each process of a plan runs on: the strategies of            *)
(* placement.py, which join processes and number what is left in stream    *)
(* order, those of placement_cost.py, which search, and check_placement,   *)
(* which refuses what the runners cannot carry out.                        *)
(*                                                                         *)
(* A plan is [kinds, arcs, feeders, files, cores, gpu_jobs]: what each     *)
(* process is, in plan order; the pairs the stream runs along, a sequence; *)
(* those of them that are feeder connections; who hands whom a file; and   *)
(* the processes and the models a node of the cost strategies has room     *)
(* for.                                                                    *)
(***************************************************************************)
EXTENDS Integers, Sequences, FiniteSets, FiniteSetsExt, SequencesExt, Functions

CONSTANTS
  Laid,        \* the plans to place
  Strategies   \* the strategies to place them by

VARIABLES laid,      \* the plan
          strategy,  \* what places it
          found      \* the units, the search's assignment, the placement, the outcome

Ids        == 1 .. Len(laid.kinds)
gpu(p)     == laid.kinds[p] = "model"
ffmpeg(p)  == laid.kinds[p] = "ffmpeg"
flow_edges == Range(laid.arcs)

-----------------------------------------------------------------------------
(* Sets of processes joined, and cycles between them.                      *)

\* One more pair joined: a set of processes goes by its first.
Join(labels, pair) ==
  LET a == labels[pair[1]]
      b == labels[pair[2]]
  IN  [p \in DOMAIN labels |-> IF labels[p] \in {a, b} THEN Min({a, b}) ELSE labels[p]]

Joined(labels, pairs) == FoldSet(LAMBDA pair, l : Join(l, pair), labels, pairs)
Alone == [p \in Ids |-> p]

\* What each label sends to, however indirectly.
Downstream(labels, links) ==
  LET next(S) == S \union {labels[e[2]] : e \in {f \in links : labels[f[1]] \in S}}
      first(l) == {labels[e[2]] : e \in {f \in links : labels[f[1]] = l /\ labels[f[2]] # l}}
  IN  [l \in Range(labels) |-> FoldSet(LAMBDA i, S : next(S), first(l), 1 .. Len(laid.kinds))]

\* Pairs of labels on one cycle.
_components(labels, links) ==
  LET down == Downstream(labels, links)
  IN  {e \in Range(labels) \X Range(labels) :
         e[1] # e[2] /\ e[2] \in down[e[1]] /\ e[1] \in down[e[2]]}

_merge_none(labels) == labels
_merge_cycles(labels) == Joined(labels, _components(labels, flow_edges))

\* Nodes numbered producers first, ties by the plan's order.
stream_order(labels) ==
  LET feeds(l) == {labels[e[1]] : e \in {f \in flow_edges : labels[f[2]] = l}} \ {l}
      first(l) == Min({p \in Ids : labels[p] = l})
      next(done) ==
        LET ready == {l \in Range(labels) \ Range(done) : feeds(l) \subseteq Range(done)}
            rest  == IF ready = {} THEN Range(labels) \ Range(done) ELSE ready
        IN  IF rest = {} THEN done
            ELSE Append(done, CHOOSE l \in rest : \A k \in rest : first(l) <= first(k))
      order == FoldSet(LAMBDA i, done : next(done), <<>>, Ids)
  IN  [p \in Ids |-> (CHOOSE i \in 1 .. Len(order) : order[i] = labels[p]) - 1]

-----------------------------------------------------------------------------
(* place: the strategies that join.                                        *)

\* Whom p is wired to by the pipes that pass the test, in the plan's order.
Ends(p, test(_)) ==
  LET es == SelectSeq(laid.arcs, LAMBDA e : p \in {e[1], e[2]} /\ test(e))
  IN  [i \in 1 .. Len(es) |-> IF es[i][1] = p THEN es[i][2] ELSE es[i][1]]
feeds(p) == Ends(p, LAMBDA e : e[1] = p /\ ~ffmpeg(e[2]))
fed(p)   == Ends(p, LAMBDA e : e[2] = p /\ ~ffmpeg(e[1]))
wired(p) == Ends(p, LAMBDA e : TRUE)

\* Each ffmpeg with a region it feeds, else one feeding it, else an ffmpeg.
_attach_ffmpeg ==
  {<<Head(feeds(p) \o fed(p) \o wired(p)), p>> :
     p \in {q \in Ids : ffmpeg(q) /\ wired(q) # <<>>}}

Joins(s) ==
  CASE s = "one"         -> {<<1, p>> : p \in Ids}
    [] s = "per-module"  -> _attach_ffmpeg
    [] s = "by-hardware" -> {e \in flow_edges : gpu(e[1]) = gpu(e[2])}
    [] OTHER             -> {}

\* What no placement may part, and what no strategy does.
colocation_groups == laid.feeders
file_handoffs     == laid.files

Labels(s) == _merge_cycles(Joined(Alone, Joins(s) \union colocation_groups \union file_handoffs))

-----------------------------------------------------------------------------
(* The search: units, the cost of an assignment, and what one must keep.   *)

\* The units the search moves, each by its first process.
groups  == Labels("per-process")
unit(p) == found.unit[p]
Units   == Range(found.unit)
Of(u)   == {p \in Ids : unit(p) = u}

producers(u) == {unit(e[1]) : e \in {f \in flow_edges : unit(f[2]) = u}} \ {u}
consumers(u) == {unit(e[2]) : e \in {f \in flow_edges : unit(f[1]) = u}} \ {u}
weight(u, v) == Cardinality({e \in flow_edges : {unit(e[1]), unit(e[2])} = {u, v}})

_fits(ps) == Cardinality(ps) <= laid.cores /\ Cardinality({p \in ps : gpu(p)}) <= laid.gpu_jobs
On(assign, node) == UNION {Of(u) : u \in {v \in DOMAIN assign : assign[v] = node}}

cost(assign) == Cardinality({e \in flow_edges : assign[unit(e[1])] # assign[unit(e[2])]})
\* By process, as stream_order and check_placement read an assignment.
ByProcess(assign) == [p \in Ids |-> assign[unit(p)]]
cyclic(assign)    == _components(ByProcess(assign), flow_edges) # {}

feasibleByFlow(assign) == ~cyclic(assign)
feasible(assign) ==
  /\ \A node \in Range(assign) : _fits(On(assign, node))
  /\ ~cyclic(assign)

low(u, assign) ==
  LET set == {assign[v] : v \in producers(u) \cap DOMAIN assign} IN
  IF set = {} THEN 0 ELSE Max(set)
high(u, assign) ==
  LET set == {assign[v] : v \in consumers(u) \cap DOMAIN assign} IN
  IF set = {} THEN Len(laid.kinds) ELSE Min(set)

\* The units in stream order.
Order == LET numbered == stream_order([p \in Ids |-> unit(p)])
         IN  SortSeq(SetToSeq(Units), LAMBDA u, v : numbered[u] < numbered[v])

\* Each unit onto the node with room it is most tied to, or a new one.
Onto(assign, u) ==
  LET open == Range(assign)
      room == {n \in open : n >= low(u, assign) /\ _fits(On(assign, n) \union Of(u))}
      tied(n) == FoldSet(LAMBDA v, sum : sum + weight(u, v), 0,
                         {v \in DOMAIN assign : assign[v] = n})
      best == IF room = {} THEN Cardinality(open)
              ELSE CHOOSE n \in room : \A k \in room :
                     tied(n) > tied(k) \/ (tied(n) = tied(k) /\ n <= k)
  IN  [v \in DOMAIN assign \union {u} |-> IF v = u THEN best ELSE assign[v]]

_greedy == IF _fits(Ids) THEN [u \in Units |-> 0]
           ELSE FoldLeft(Onto, <<>>, Order)

\* A unit and what it reaches on its own node, one way.
_closure(u, assign, links(_)) ==
  LET more(S) == S \union {v \in UNION {links(w) : w \in S} : assign[v] = assign[u]}
  IN  FoldSet(LAMBDA i, S : more(S), {u}, Units)

\* The moves tried of a unit, worked out before any of them is made.
Moves(u, assign) ==
  LET nodes == SetToSortSeq(Range(assign), <)
      sel(S, test(_)) == LET ns == SelectSeq(nodes, test) IN [i \in 1 .. Len(ns) |-> <<S, ns[i]>>]
  IN     sel({u}, LAMBDA n : low(u, assign) <= n /\ n <= high(u, assign))
      \o sel(_closure(u, assign, consumers), LAMBDA n : n > assign[u])
      \o sel(_closure(u, assign, producers), LAMBDA n : n < assign[u])

Tried(u, assign, move) ==
  LET trial == [v \in DOMAIN assign |-> IF v \in move[1] THEN move[2] ELSE assign[v]]
  IN  IF move[2] # assign[u] /\ feasible(trial) /\ cost(trial) < cost(assign)
      THEN trial ELSE assign

\* Passes until one improves nothing: the cost falls with each that does.
Pass(assign) ==
  FoldLeft(LAMBDA a, u : FoldLeft(LAMBDA b, move : Tried(u, b, move), a, Moves(u, a)),
           assign, SetToSortSeq(Units, <))
_refine(assign) == FoldSet(LAMBDA i, a : Pass(a), assign, 0 .. Cardinality(flow_edges))

\* Every partition of the units, the cheapest that fits, fewest nodes first.
Partitions ==
  LET us == SetToSortSeq(Units, <) IN
  {a \in [Units -> 0 .. Cardinality(Units) - 1] :
     \A i \in 1 .. Len(us) :
       a[us[i]] <= Cardinality({a[us[j]] : j \in 1 .. i - 1})}
_exhaustive ==
  LET S == {a \in Partitions : feasible(a)}
      better(a, b) == \/ cost(a) < cost(b)
                      \/ cost(a) = cost(b) /\ Cardinality(Range(a)) <= Cardinality(Range(b))
  IN  CHOOSE a \in S : \A b \in S : better(a, b)

Searched(s) ==
  CASE s = "greedy"     -> _greedy
    [] s = "refine"     -> _refine(_greedy)
    [] s = "exhaustive" -> IF \E a \in Partitions : feasible(a)
                           THEN _exhaustive ELSE _refine(_greedy)

-----------------------------------------------------------------------------
(* check_placement, and one placement as the behaviour.                    *)

check_placement(nodes) ==
  /\ \A e \in colocation_groups \union file_handoffs : nodes[e[1]] = nodes[e[2]]
  /\ _components(nodes, flow_edges) = {}

Searches == {"greedy", "refine", "exhaustive"}

Pending == [unit |-> <<>>, assign |-> <<>>, nodes |-> <<>>, outcome |-> "pending"]
Init == laid \in Laid /\ strategy \in Strategies /\ found = Pending

\* _problem: units no node holds are refused before the search.
Pose ==
  /\ found.outcome = "pending" /\ strategy \in Searches
  /\ LET unit_of == groups
         parts == {{p \in Ids : unit_of[p] = u} : u \in Range(unit_of)} IN
     found' = [found EXCEPT !.unit = unit_of,
                 !.outcome = IF \A ps \in parts : _fits(ps) THEN "posed" ELSE "refused"]
  /\ UNCHANGED <<laid, strategy>>

Outcome(nodes) == IF check_placement(nodes) THEN "placed" ELSE "bad"

cost_place ==
  /\ found.outcome = "posed"
  /\ LET assign == Searched(strategy)
         nodes  == stream_order(ByProcess(assign))
     IN  found' = [found EXCEPT !.assign = assign, !.nodes = nodes, !.outcome = Outcome(nodes)]
  /\ UNCHANGED <<laid, strategy>>

place ==
  /\ found.outcome = "pending" /\ strategy \notin Searches
  /\ LET nodes == stream_order(Labels(strategy))
     IN  found' = [found EXCEPT !.nodes = nodes, !.outcome = Outcome(nodes)]
  /\ UNCHANGED <<laid, strategy>>

Next == Pose \/ cost_place \/ place

-----------------------------------------------------------------------------
\* No strategy makes a placement check_placement would refuse; its nodes are
\* numbered from 0, none left empty, and every cut edge is dialled by a node
\* before the one that listens.
EveryStrategyPasses ==
  found.outcome \in {"placed", "bad"} =>
    /\ found.outcome = "placed"
    /\ Range(found.nodes) = 0 .. Cardinality(Range(found.nodes)) - 1
    /\ \A e \in flow_edges : found.nodes[e[1]] <= found.nodes[e[2]]

\* The search keeps every node within its caps, puts on one node what one node
\* holds, and trying every partition costs no more than moving units about,
\* nor that more than placing them in order.
SearchKeepsItsCaps ==
  found.outcome = "placed" /\ strategy \in Searches =>
    /\ \A n \in Range(found.nodes) : _fits({p \in Ids : found.nodes[p] = n})
    /\ _fits(Ids) => Range(found.nodes) = {0}
    /\ cost(found.assign) <= cost(_greedy)
    /\ strategy = "exhaustive" => cost(found.assign) <= cost(_refine(_greedy))

=============================================================================
