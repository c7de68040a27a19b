------------------------------ MODULE MCExplore ------------------------------
(* The search, or the loop that spreads one of its chunks, in one run.      *)
(*                                                                          *)
(* The search: a family of models over four states, in which from each      *)
(* state each actor has no move, one move, or three of which two share a    *)
(* name.  Two roots make a level of two nodes, from which two new states    *)
(* can be reached.  The loop: every way three items can fail.               *)
EXTENDS Explore, ParallelFor

CONSTANTS w1, w2, w3

To(m, s)   == [move |-> m, to |-> s]
MoveChoice == {<<>>, <<To("a", 3)>>, <<To("b", 2), To("a", 4), To("a", 1)>>}

TwoRoots == {<<1>>, <<2, 2, 1>>}

(* A search without initial states, which is over at once. *)
SearchOver ==
  /\ moves = [s \in State |-> [a \in Actor |-> <<>>]] /\ initial = <<>>
  /\ bad = {} /\ goal = {} /\ maxStates = 1 /\ maxDepth = 0 /\ chunk = 1
  /\ node = <<>> /\ edges = <<>> /\ unknown = {} /\ truncated = FALSE /\ invViol = 0
  /\ level = [first |-> 1, last |-> 0, at |-> 1]
  /\ depth = 0 /\ pc = "done"

(* A loop whose workers have handled every item. *)
LoopOver ==
  /\ Panics = {} /\ Exits = {} /\ next = N + Cardinality(Worker) /\ lowest = N /\ fail = N
  /\ wpc = [w \in Worker |-> "done"]
  /\ item = [w \in Worker |-> N]
  /\ calls = [i \in Item |-> 1]

Either ==
  /\ (Init /\ LoopOver) \/ (SearchOver /\ LoopInit)
  /\ [][(Next /\ UNCHANGED loopVars) \/ (LoopNext /\ UNCHANGED vars)]_<<vars, loopVars>>
  /\ \A w \in Worker : WF_loopVars(Step(w))
==============================================================================
