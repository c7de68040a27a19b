------------------------------- MODULE Explore -------------------------------
(***************************************************************************)
(* The breadth-first search of modelcheck (modelcheck/explore.go,          *)
(* replay.go): levels, chunks, the two bounds, the properties evaluated on *)
(* discovery, traps and the replay of traces.                              *)
(*                                                                         *)
(* The model explored is an input, chosen by Init from a family of         *)
(* small models.  A chunk is expanded by parallelFor, which calls each item*)
(* once and lets it write its own slot only (module ParallelFor), so the   *)
(* expansion of a chunk is one step.  A state stands for its Key.          *)
(***************************************************************************)
EXTENDS Integers, Sequences, FiniteSets, SequencesExt

CONSTANTS
  State, Actor,  \* ranges 1..n; actors in registration order
  MoveLists,     \* what Moves may yield: sequences of [move, to]
  Initials,      \* sequences of initial states
  Bads, Goals,   \* sets of states: where an invariant fails, where a goal holds
  Allowed,       \* the actors that count towards the goal
  StateBounds, DepthBounds,  \* Options.MaxStates, Options.MaxDepth (0: none)
  Chunks         \* nodes expanded between two merges

ASSUME ExploreAssumption ==
  /\ IsFiniteSet(State) /\ State = 1 .. Cardinality(State)
  /\ IsFiniteSet(Actor) /\ Actor = 1 .. Cardinality(Actor)
  /\ MoveLists \subseteq Seq([move : STRING, to : State])
  /\ Initials \subseteq Seq(State)
  /\ UNION Bads \subseteq State /\ UNION Goals \subseteq State /\ Allowed \subseteq Actor
  /\ StateBounds \subseteq Nat \ {0} /\ DepthBounds \subseteq Nat /\ Chunks \subseteq Nat \ {0}

VARIABLES
  moves, initial, bad, goal, maxStates, maxDepth, chunk,  \* inputs
  node,       \* per node, in discovery order: [key, parent, actor, move, ordinal]
  edges,      \* sequence of [from, actor, to]
  unknown,    \* nodes with a successor that was not explored
  truncated,
  invViol,    \* first node that fails the invariant, 0 for none
  level,      \* explorer.run: first and last node of the level, next node to expand
  depth, pc

inputs == <<moves, initial, bad, goal, maxStates, maxDepth, chunk>>
graph  == <<node, edges, unknown, truncated, invViol>>
vars   == <<inputs, graph, level, depth, pc>>

Init ==
  /\ moves \in [State -> [Actor -> MoveLists]]
  /\ initial \in Initials
  /\ bad \in Bads /\ goal \in Goals
  /\ maxStates \in StateBounds /\ maxDepth \in DepthBounds /\ chunk \in Chunks
  /\ node = <<>> /\ edges = <<>> /\ unknown = {} /\ truncated = FALSE /\ invViol = 0
  /\ level = [first |-> 1, last |-> 0, at |-> 1]
  /\ depth = 0 /\ pc = "roots"

TypeOK ==
  /\ \A i \in DOMAIN node : node[i].key \in State /\ node[i].parent \in 0 .. i - 1
  /\ Len(node) <= maxStates
  /\ edges \in Seq([from : DOMAIN node, actor : Actor, to : DOMAIN node])
  /\ unknown \subseteq DOMAIN node /\ truncated \in BOOLEAN
  /\ invViol \in 0 .. Len(node)
  /\ level.at \in level.first .. level.last + 1 /\ level.last <= Len(node)
  /\ depth \in Nat /\ pc \in {"roots", "level", "expand", "done"}
------------------------------------------------------------------------------
(* The graph under construction, as a value a chunk's merge folds over. *)

G == [node |-> node, edges |-> edges, unknown |-> unknown, truncated |-> truncated]

lookup(g, key) == {i \in DOMAIN g.node : g.node[i].key = key}

(* addNode *)
Added(g, key, parent, actor, move, ordinal) ==
  [g EXCEPT !.node = Append(@, [key |-> key, parent |-> parent, actor |-> actor,
                                move |-> move, ordinal |-> ordinal])]

Full(g) == Len(g.node) >= maxStates

Root_Silent(g, key) ==  \* slip: a refused initial state is not a truncation
  IF lookup(g, key) # {} \/ Full(g) THEN g ELSE Added(g, key, 0, 0, "", 0)

Root(g, key) ==
  IF lookup(g, key) # {} THEN g
  ELSE IF Full(g) THEN [g EXCEPT !.truncated = TRUE]
  ELSE Added(g, key, 0, 0, "", 0)

Refused_Forgets(g, from) == [g EXCEPT !.truncated = TRUE]  \* slip: the future counts as known

(* A successor refused by MaxStates leaves its node's future unknown. *)
Refused(g, from) ==
  [node |-> g.node, edges |-> g.edges, unknown |-> g.unknown \cup {from}, truncated |-> TRUE]

(* merge, for one successor. *)
Merged(g, sc) ==
  LET seen == lookup(g, sc.to) IN
    IF seen = {} /\ Full(g) THEN Refused(g, sc.from)
    ELSE LET h == IF seen = {} THEN Added(g, sc.to, sc.from, sc.actor, sc.move, sc.ordinal) ELSE g
             to == CHOOSE i \in lookup(h, sc.to) : TRUE
         IN [h EXCEPT !.edges = Append(@, [from |-> sc.from, actor |-> sc.actor, to |-> to])]

ordinalOf_Position(list, i) == i - 1  \* slip: numbers all the moves of the actor

(* seenN: which of the actor's same-named moves from this node it is. *)
ordinalOf(list, i) == Cardinality({j \in 1 .. i - 1 : list[j].move = list[i].move})

Yielded(n, a) ==
  LET list == moves[node[n].key][a]
  IN [i \in DOMAIN list |-> [from |-> n, actor |-> a, move |-> list[i].move,
                             to |-> list[i].to, ordinal |-> ordinalOf(list, i)]]

(* expand: the successors of node n, by actor, in the order yielded. *)
expand(n) == FlattenSeq([a \in Actor |-> Yielded(n, a)])

InChunk_ByActor(lo, hi) ==  \* slip: merged in actor, node, move order
  FlattenSeq([a \in Actor |-> FlattenSeq([k \in 1 .. hi - lo + 1 |-> Yielded(lo + k - 1, a)])])

(* The order in which a chunk is merged: node, actor, move. *)
InChunk(lo, hi) == FlattenSeq([k \in 1 .. hi - lo + 1 |-> expand(lo + k - 1)])

evaluate_Last(g) ==  \* slip: a later violation replaces the first
  LET new == {i \in DOMAIN g.node : i > Len(node) /\ g.node[i].key \in bad}
  IN IF new = {} THEN invViol ELSE CHOOSE i \in new : \A j \in new : j <= i

(* evaluate, over the nodes added since: the first violation is kept. *)
evaluate(g) ==
  LET new == {i \in DOMAIN g.node : i > Len(node) /\ g.node[i].key \in bad}
  IN IF invViol # 0 \/ new = {} THEN invViol ELSE CHOOSE i \in new : \A j \in new : i <= j

Becomes(g) ==
  /\ node' = g.node /\ edges' = g.edges /\ unknown' = g.unknown /\ truncated' = g.truncated
  /\ invViol' = evaluate(g)
------------------------------------------------------------------------------
(* explorer.run *)

(* The initial states, in the order they were given. *)
rooted ==
  LET upTo[k \in 0 .. Len(initial)] == IF k = 0 THEN G ELSE Root(upTo[k - 1], initial[k])
  IN upTo[Len(initial)]

(* merge, for the successors of a chunk in turn. *)
merge(found) ==
  LET upTo[k \in 0 .. Len(found)] == IF k = 0 THEN G ELSE Merged(upTo[k - 1], found[k])
  IN upTo[Len(found)]

Roots ==
  /\ pc = "roots"
  /\ Becomes(rooted)
  /\ level' = [first |-> 1, last |-> Len(rooted.node), at |-> 1]
  /\ pc' = "level"
  /\ UNCHANGED <<inputs, depth>>

(* MaxDepth: the level is not expanded. *)
DepthReached ==
  /\ pc = "level" /\ level.first <= level.last
  /\ maxDepth > 0 /\ depth >= maxDepth
  /\ unknown' = unknown \cup (level.first .. level.last)
  /\ truncated' = TRUE
  /\ pc' = "done"
  /\ UNCHANGED <<inputs, node, edges, invViol, level, depth>>

StartLevel ==
  /\ pc = "level" /\ level.first <= level.last
  /\ ~(maxDepth > 0 /\ depth >= maxDepth)
  /\ pc' = "expand"
  /\ UNCHANGED <<inputs, graph, level, depth>>

Exhausted ==
  /\ pc = "level" /\ level.first > level.last
  /\ pc' = "done"
  /\ UNCHANGED <<inputs, graph, level, depth>>

(* expandChunk: expand, then merge in node, actor, move order. *)
expandChunk ==
  /\ pc = "expand" /\ level.at <= level.last
  /\ LET hi == IF level.at + chunk - 1 <= level.last THEN level.at + chunk - 1 ELSE level.last
     IN /\ Becomes(merge(InChunk(level.at, hi)))
        /\ level' = [level EXCEPT !.at = hi + 1]
  /\ UNCHANGED <<inputs, depth, pc>>

NextLevel ==
  /\ pc = "expand" /\ level.at > level.last
  /\ level' = [first |-> level.last + 1, last |-> Len(node), at |-> level.last + 1]
  /\ depth' = depth + 1
  /\ pc' = "level"
  /\ UNCHANGED <<inputs, graph>>

Finished == pc = "done" /\ UNCHANGED vars

Next == Roots \/ DepthReached \/ StartLevel \/ Exhausted \/ expandChunk \/ NextLevel \/ Finished

Spec == Init /\ [][Next]_vars
------------------------------------------------------------------------------
(* findTrap and the replayer. *)

(* The nodes with a path of allowed moves to R: the least set with R in it *)
(* that every allowed edge into it starts from.                            *)
Backwards(R) ==
  {i \in DOMAIN node : \A B \in SUBSET DOMAIN node :
     (/\ R \subseteq B
      /\ \A k \in DOMAIN edges : edges[k].actor \in Allowed /\ edges[k].to \in B => edges[k].from \in B)
     => i \in B}

(* The first node that cannot reach the goal or an unknown future. *)
findTrap ==
  LET ok == Backwards(unknown \cup {i \in DOMAIN node : node[i].key \in goal})
      traps == DOMAIN node \ ok
  IN IF traps = {} THEN 0 ELSE CHOOSE i \in traps : \A j \in traps : i <= j

(* The moves of that name that are the n-th of it, counting from 0. *)
Occurrence(list, move, n) ==
  {k \in DOMAIN list : list[k].move = move /\ Cardinality({j \in 1 .. k : list[j].move = move}) = n + 1}

(* step: run Moves on the parent again and take the recorded occurrence. *)
replayed[i \in DOMAIN node] ==
  IF node[i].parent = 0 THEN node[i].key
  ELSE LET list == moves[replayed[node[i].parent]][node[i].actor]
           same == Occurrence(list, node[i].move, node[i].ordinal)
       IN IF same = {} THEN 0 ELSE list[CHOOSE k \in same : TRUE].to

traceLength[i \in DOMAIN node] ==
  IF node[i].parent = 0 THEN 0 ELSE 1 + traceLength[node[i].parent]
------------------------------------------------------------------------------
(* The model explored, independently of the search. *)

Succ(s, as) == UNION {{moves[s][a][i].to : i \in DOMAIN moves[s][a]} : a \in as}

(* The states at most d moves away from an initial one. *)
Ball[d \in Nat] ==
  IF d = 0 THEN Range(initial)
  ELSE LET nearer == Ball[d - 1] IN nearer \cup UNION {Succ(s, Actor) : s \in nearer}
Radius == 0 .. Cardinality(State)

Reachable ==
  {s \in State : \A R \in SUBSET State :
     (Range(initial) \subseteq R /\ \A r \in R : Succ(r, Actor) \subseteq R) => s \in R}

CanReachGoal ==
  {s \in State : \A R \in SUBSET State :
     (goal \subseteq R /\ \A r \in State : Succ(r, Allowed) \cap R # {} => r \in R) => s \in R}
Trap(s) == s \notin CanReachGoal

(* A search with one queue, no levels and no chunks: the queue once its    *)
(* first i states have been taken.                                         *)
Enqueue(q, s) == IF s \in Range(q) \/ Len(q) >= maxStates THEN q ELSE Append(q, s)

EnqueueAll(q, found) ==
  LET upTo[k \in 0 .. Len(found)] == IF k = 0 THEN q ELSE Enqueue(upTo[k - 1], found[k])
  IN upTo[Len(found)]

Found(s) == FlattenSeq([a \in Actor |-> [k \in DOMAIN moves[s][a] |-> moves[s][a][k].to]])

Queue[i \in Nat] ==
  IF i = 0 THEN EnqueueAll(<<>>, initial)
  ELSE LET q == Queue[i - 1] IN IF i > Len(q) THEN q ELSE EnqueueAll(q, Found(q[i]))
------------------------------------------------------------------------------
(* Properties. *)

Done == pc = "done"
Keys == {node[i].key : i \in DOMAIN node}

(* Unless the result says Truncated, the search has visited every          *)
(* reachable state and every edge (run, merge).                            *)
UntruncatedIsComplete ==
  Done /\ ~truncated =>
    /\ Keys = Reachable
    /\ \A i \in DOMAIN node : \A a \in Actor :
         {node[edges[k].to].key : k \in {j \in DOMAIN edges : edges[j].from = i /\ edges[j].actor = a}}
           = Succ(node[i].key, {a})

(* A trace is a shortest path, under either bound, and replays to the      *)
(* state that was explored (addNode, replayer.step).                       *)
TracesAreShortest ==
  \A i \in DOMAIN node :
    /\ \A d \in 0 .. traceLength[i] : node[i].key \in Ball[d] <=> d = traceLength[i]
    /\ replayed[i] = node[i].key

(* Results do not depend on Workers: nodes come in the order of a search   *)
(* with one queue, whatever the chunk.                                     *)
OrderIsSequential ==
  Done /\ maxDepth = 0 => [i \in DOMAIN node |-> node[i].key] = Queue[maxStates]

(* The invariant violation reported is a shallowest one: no violating      *)
(* state of the whole model is nearer, explored or not, and one is         *)
(* reported whenever one was explored (evaluate).                          *)
ShallowestViolation ==
  Done => IF invViol = 0 THEN Keys \cap bad = {}
          ELSE /\ node[invViol].key \in bad
               /\ \A d \in Radius : Ball[d] \cap bad # {} => node[invViol].key \in Ball[d]

(* A bound never produces a recoverable violation by itself: a trap        *)
(* reported is a trap of the whole model.  Without a bound the shallowest  *)
(* trap is found (findTrap).                                               *)
TrapsAreReal ==
  Done => IF findTrap = 0 THEN truncated \/ \A s \in Reachable : ~Trap(s)
          ELSE /\ Trap(node[findTrap].key)
               /\ ~truncated => \A d \in Radius :
                    (\E s \in Ball[d] : Trap(s)) => node[findTrap].key \in Ball[d]
==============================================================================
