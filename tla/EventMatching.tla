---------------------------- MODULE EventMatching ----------------------------
(***************************************************************************)
(* The declaration language of a script step (Allow) and the search that   *)
(* decides whether the events seen so far fit it: ctrltest/script.go,      *)
(* flattenAllows to orderHolds.                                            *)
(*                                                                         *)
(* An event is [typ, obj, changed]: its type, the object (kind and name    *)
(* together) and the projected paths it touched.  A leaf has the same      *)
(* fields, changed being the paths the event must cover.  Indices start at *)
(* 1 and an unassigned leaf holds 0 where the code has 0 and -1.           *)
(***************************************************************************)
EXTENDS Integers, Sequences, FiniteSets

CONSTANTS Allows,            \* every Allow a step may be declared with
          Empty,             \* an empty kind or name
          NoFit,             \* the nil assignment
          orderSearchBudget

(* The zero value of an Allow has form "invalid". *)
ASSUME AllowsClosed ==
  \A a \in Allows :
    /\ a.form \in {"invalid", "leaf", "seq", "quiet"}
    /\ a.form = "seq" => a.parts \in Allows \X Allows

(* An Allow is a finite tree: Before is given two that exist already.      *)
ASSUME AllowsAreTrees ==
  \A S \in SUBSET Allows :
    (\A a \in Allows : (a.form = "seq" => a.parts \in S \X S) => a \in S) => S = Allows

ASSUME BudgetIsNat == orderSearchBudget \in Nat
ASSUME NilIsNoAssignment == NoFit \notin Seq(Nat)

Changed(o, paths) == [form |-> "leaf", leaf |-> [typ |-> "modified", obj |-> o, changed |-> paths]]
Added(o) == [form |-> "leaf", leaf |-> [typ |-> "added", obj |-> o, changed |-> {}]]
Deleted(o) == [form |-> "leaf", leaf |-> [typ |-> "deleted", obj |-> o, changed |-> {}]]
Quiet == [form |-> "quiet"]
Before(a, b) == [form |-> "seq", parts |-> <<a, b>>]
Zero == [form |-> "invalid"]

matches(l, ev) == l.obj = ev.obj /\ l.typ = ev.typ /\ l.changed \subseteq ev.changed
------------------------------------------------------------------------------
(* Validation and flattening. *)

validateAllow[a \in Allows, nested \in BOOLEAN] ==
  CASE a.form = "leaf"    -> a.leaf.obj # Empty
    [] a.form = "quiet"   -> ~nested
    [] a.form = "seq"     -> \A i \in DOMAIN a.parts : validateAllow[a.parts[i], TRUE]
    [] a.form = "invalid" -> FALSE

validateAllows(allow) ==
  /\ allow # <<>>
  /\ \A i \in DOMAIN allow :
       /\ allow[i].form = "quiet" => Len(allow) = 1
       /\ validateAllow[allow[i], FALSE]

(* Two flattened declarations side by side, the second renumbered. *)
Beside(x, y) ==
  LET n == Len(x.leaves) IN
  [leaves |-> x.leaves \o y.leaves,
   order  |-> x.order \cup {<<p[1] + n, p[2] + n>> : p \in y.order}]

(* The same with every leaf of x before every leaf of y. *)
InOrder(x, y) ==
  LET n == Len(x.leaves)  both == Beside(x, y) IN
  [both EXCEPT !.order = @ \cup ((1..n) \X ((n + 1)..Len(both.leaves)))]

Nothing == [leaves |-> <<>>, order |-> {}]

walk[a \in Allows] ==
  CASE a.form = "leaf" -> [Nothing EXCEPT !.leaves = <<a.leaf>>]
    [] a.form = "seq"  -> InOrder(walk[a.parts[1]], walk[a.parts[2]])
    [] OTHER           -> Nothing

flattenAllows(allow) ==
  LET upTo[i \in 0..Len(allow)] ==
        IF i = 0 THEN Nothing ELSE Beside(upTo[i - 1], walk[allow[i]])
  IN upTo[Len(allow)]
------------------------------------------------------------------------------
(* The search. *)

noAssignment(leaves) == [l \in DOMAIN leaves |-> 0]

orderHolds(order, at) ==
  \A p \in order : (at[p[1]] # 0 /\ at[p[2]] # 0) => at[p[1]] <= at[p[2]]

(* Mutant: the first free leaf that matches, without re-homing.            *)
augment_Greedy(seen, leaves, first, at0) ==
  LET free == {l \in DOMAIN leaves : at0[l] = 0 /\ matches(leaves[l], seen[first])} IN
  IF free = {} THEN [ok |-> FALSE, at |-> at0, visited |-> {}]
  ELSE [ok |-> TRUE, visited |-> {},
        at |-> [at0 EXCEPT ![CHOOSE l \in free : \A m \in free : l <= m] = first]]

(* augment for an event from a leaf on: whether it was placed, the         *)
(* assignment, and the leaves this search has visited.                     *)
augment(seen, leaves, first, at0) ==
  LET Search == [event : Nat, leaf : Nat \ {0}, at : [DOMAIN leaves -> Nat],
                 visited : SUBSET DOMAIN leaves]
      from[s \in Search] ==
        IF s.leaf > Len(leaves) THEN [ok |-> FALSE, at |-> s.at, visited |-> s.visited]
        ELSE IF s.leaf \in s.visited \/ ~matches(leaves[s.leaf], seen[s.event])
        THEN from[[s EXCEPT !.leaf = @ + 1]]
        ELSE LET marked == s.visited \cup {s.leaf}
                 rehomed == from[[event |-> s.at[s.leaf], leaf |-> 1, at |-> s.at, visited |-> marked]] IN
             IF s.at[s.leaf] = 0
             THEN [ok |-> TRUE, at |-> [s.at EXCEPT ![s.leaf] = s.event], visited |-> marked]
             ELSE IF rehomed.ok
             THEN [rehomed EXCEPT !.at = [@ EXCEPT ![s.leaf] = s.event]]
             ELSE from[[event |-> s.event, leaf |-> s.leaf + 1, at |-> rehomed.at,
                        visited |-> rehomed.visited]]
  IN from[[event |-> first, leaf |-> 1, at |-> at0, visited |-> {}]]

matchAll(seen, leaves) ==
  LET upTo[e \in 0..Len(seen)] ==
        IF e = 0 THEN noAssignment(leaves)
        ELSE IF upTo[e - 1] = NoFit THEN NoFit
        ELSE LET a == augment(seen, leaves, e, upTo[e - 1]) IN IF a.ok THEN a.at ELSE NoFit
  IN IF Len(seen) > Len(leaves) THEN NoFit ELSE upTo[Len(seen)]

(* fit(i) of orderedFit, entered at a leaf, with the budget left. *)
orderedFit(seen, leaves, order) ==
  LET Search == [event : Nat, leaf : Nat \ {0}, at : [DOMAIN leaves -> Nat], budget : Nat]
      NextLeaf(s, budget) == [event |-> s.event, leaf |-> s.leaf + 1, at |-> s.at, budget |-> budget]
      fit[s \in Search] ==
        IF s.event > Len(seen) THEN [ok |-> TRUE, at |-> s.at, budget |-> s.budget]
        ELSE IF s.leaf > Len(leaves) \/ s.budget = 0
        THEN [ok |-> FALSE, at |-> s.at, budget |-> s.budget]
        ELSE LET placed == [s.at EXCEPT ![s.leaf] = s.event]
                 deeper == IF orderHolds(order, placed)
                           THEN fit[[event |-> s.event + 1, leaf |-> 1, at |-> placed,
                                     budget |-> s.budget - 1]]
                           ELSE [ok |-> FALSE, at |-> s.at, budget |-> s.budget - 1] IN
             IF s.at[s.leaf] # 0 \/ ~matches(leaves[s.leaf], seen[s.event])
             THEN fit[NextLeaf(s, s.budget - 1)]
             ELSE IF deeper.ok THEN deeper
             ELSE fit[NextLeaf(s, deeper.budget)]
      result == fit[[event |-> 1, leaf |-> 1, at |-> noAssignment(leaves), budget |-> orderSearchBudget]]
  IN [at |-> IF result.ok THEN result.at ELSE NoFit, decided |-> result.ok \/ result.budget > 0]

assignEvents(seen, leaves, order) ==
  LET free == matchAll(seen, leaves) IN
  IF free = NoFit \/ order = {} \/ orderHolds(order, free)
  THEN [at |-> free, decided |-> TRUE]
  ELSE orderedFit(seen, leaves, order)
==============================================================================
