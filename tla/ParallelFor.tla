----------------------------- MODULE ParallelFor -----------------------------
(***************************************************************************)
(* parallelFor (modelcheck/index.go): the loop that spreads the items      *)
(* 0 .. N-1 of a level over exploration workers.  `next' and `lowest' are  *)
(* atomics, loaded at different moments; record runs under a mutex.        *)
(***************************************************************************)
EXTENDS Integers, FiniteSets

CONSTANTS
  Worker,  \* goroutines started: min(workers, n)
  N        \* items

ASSUME ParallelForAssumption == N \in Nat /\ Worker # {}

Item == 0 .. N - 1

VARIABLES
  Panics,  \* items on which fn panics
  Exits,   \* items on which fn ends its goroutine with runtime.Goexit
  next, lowest,
  fail,    \* item of the recorded workerPanic, N for none
  wpc, item,  \* of each worker: where it is, and the item in its hands
  calls    \* history: how often fn was called on each item

loopVars == <<Panics, Exits, next, lowest, fail, wpc, item, calls>>
Bad == Panics \cup Exits

LoopInit ==
  /\ Panics \in SUBSET Item /\ Exits \in SUBSET Item /\ Panics \cap Exits = {}
  /\ next = 0 /\ lowest = N /\ fail = N
  /\ wpc = [w \in Worker |-> "take"]
  /\ item = [w \in Worker |-> 0]
  /\ calls = [i \in Item |-> 0]

Goto(w, loc) == wpc' = [wpc EXCEPT ![w] = loc]

Take_Racy(w) ==  \* slip: a plain counter, whose increments may be lost
  /\ wpc[w] = "take"
  /\ item' = [item EXCEPT ![w] = next]
  /\ next' \in {next, next + 1}
  /\ Goto(w, "check")
  /\ UNCHANGED <<Panics, Exits, lowest, fail, calls>>

(* i := next.Add(1) - 1 *)
Take(w) ==
  /\ wpc[w] = "take"
  /\ item' = [item EXCEPT ![w] = next]
  /\ next' = next + 1
  /\ Goto(w, "check")
  /\ UNCHANGED <<Panics, Exits, lowest, fail, calls>>

Beyond_Stops(w) == item[w] >= N \/ lowest < N  \* slip: any failure stops every worker

(* i >= lowest.Load() *)
Beyond(w) == item[w] >= lowest

Check_Waits(w) ==  \* slip: a worker without items waits for more
  /\ wpc[w] = "check"
  /\ Goto(w, IF Beyond(w) THEN "check" ELSE "call")
  /\ UNCHANGED <<Panics, Exits, next, lowest, fail, item, calls>>

Check(w) ==
  /\ wpc[w] = "check"
  /\ Goto(w, IF Beyond(w) THEN "done" ELSE "call")
  /\ UNCHANGED <<Panics, Exits, next, lowest, fail, item, calls>>

(* fn(w, i): returns, or unwinds into the deferred function. *)
Call(w) ==
  /\ wpc[w] = "call"
  /\ calls' = [calls EXCEPT ![item[w]] = @ + 1]
  /\ Goto(w, IF item[w] \in Bad THEN "record" ELSE "take")
  /\ UNCHANGED <<Panics, Exits, next, lowest, fail, item>>

record(w) ==
  IF item[w] < fail THEN fail' = item[w] /\ lowest' = item[w] ELSE UNCHANGED <<fail, lowest>>

(* A recovered panic lets the worker go on; a Goexit ends its goroutine. *)
Record(w) ==
  /\ wpc[w] = "record"
  /\ record(w)
  /\ Goto(w, IF item[w] \in Exits THEN "done" ELSE "take")
  /\ UNCHANGED <<Panics, Exits, next, item, calls>>

Step(w) == Take(w) \/ Check(w) \/ Call(w) \/ Record(w)

Returned == \A w \in Worker : wpc[w] = "done"  \* wg.Wait returns

LoopNext == (\E w \in Worker : Step(w)) \/ (Returned /\ UNCHANGED loopVars)

LoopSpec == LoopInit /\ [][LoopNext]_loopVars

(* The scheduler runs every worker; fn always comes back. *)
FairSpec == LoopSpec /\ \A w \in Worker : WF_loopVars(Step(w))
------------------------------------------------------------------------------
(* Properties. *)

LoopTypeOK ==
  /\ Panics \subseteq Item /\ Exits \subseteq Item /\ Panics \cap Exits = {}
  /\ next \in Nat
  /\ lowest \in 0 .. N /\ fail \in 0 .. N
  /\ wpc \in [Worker -> {"take", "check", "call", "record", "done"}]
  /\ item \in [Worker -> Nat]
  /\ calls \in [Item -> Nat]

(* fn writes to slots owned by its item: no item is ever handed out twice, *)
(* whatever the workers interleave.                                        *)
CalledOnce == \A i \in Item : calls[i] <= 1

(* The failure re-raised on the caller is the lowest-numbered one whatever *)
(* the scheduling, and no item below it was skipped.  Without a failure,   *)
(* every item was handled.                                                 *)
LowestFailureReported ==
  Returned => /\ fail \in Bad \cup {N}
              /\ \A i \in Item : i < fail => i \notin Bad /\ calls[i] = 1

(* parallelFor returns, also when a Goexit takes workers away. *)
Terminates == <>Returned
------------------------------------------------------------------------------
(* The inductive invariant. *)

InHand == {"check", "call", "record"}
Holds(w, i) == wpc[w] \in InHand /\ item[w] = i

(* An item handed out is with a worker, or handled, or at or above a       *)
(* failure; a worker only ends above a failure or above N.                 *)
LoopInv ==
  /\ fail = lowest /\ lowest \in Bad \cup {N}
  /\ \A w \in Worker : wpc[w] # "take" => item[w] < next
  /\ \A w \in Worker : wpc[w] \in {"call", "record"} => item[w] < N
  /\ \A w \in Worker : wpc[w] = "record" => item[w] \in Bad
  /\ \A w \in Worker : wpc[w] = "done" => lowest < next
  /\ \A w, v \in Worker :
       (wpc[w] \in InHand /\ wpc[v] \in InHand /\ item[w] = item[v]) => w = v
  /\ \A i \in Item : calls[i] \in {0, 1}
  /\ \A i \in Item : next <= i => calls[i] = 0
  /\ \A w \in Worker : (wpc[w] \in {"check", "call"} /\ item[w] < N) => calls[item[w]] = 0
  /\ \A i \in Item : (i < next /\ i < lowest) =>
       \/ \E w \in Worker : Holds(w, i)
       \/ calls[i] = 1 /\ i \notin Bad
==============================================================================
