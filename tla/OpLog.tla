-------------------------------- MODULE OpLog --------------------------------
(***************************************************************************)
(* The recorder's op log (ctrltest/recorder.go, ctrltest/matchers.go): an  *)
(* append-only sequence of the writes made through recording clients, and  *)
(* the scans every reader of it is built from.  The scans run in one       *)
(* critical section of Recorder.mu, so each is an operator on a snapshot.  *)
(*                                                                         *)
(* Go's log indices start at 0 and a scan position is "the first index not *)
(* examined yet"; here a position p stands for the same number, so the op  *)
(* at Go index i is ops[i + 1] and the ops at or after p are               *)
(* ops[p + 1], ops[p + 2], ...                                             *)
(***************************************************************************)
EXTENDS Integers, Sequences, FiniteSetsExt

CONSTANT AnyController   \* the empty controller name: every controller

(* The cursor scope predicate. *)
inScope(op, ns, controller, attempts) ==
  /\ attempts \/ op.accepted
  /\ op.ns = ns
  /\ controller = AnyController \/ op.controller = controller

(* Positions at or after from that hold an op in scope. *)
ScopedFrom(ops, from, ns, controller, attempts) ==
  {i \in from .. Len(ops) - 1 : inScope(ops[i + 1], ns, controller, attempts)}

(* The first in-scope position at or after from, or the log's length, which *)
(* a cursor may be parked on because everything below it is ruled out.      *)
firstMatchFrom(ops, from, ns, controller, attempts) ==
  LET hits == ScopedFrom(ops, from, ns, controller, attempts)
  IN  IF hits = {} THEN Len(ops) ELSE Min(hits)

opsBetween_AnyName(ops, from, to, controller) ==  \* slip: no filter by name
  {i \in from .. (IF to < Len(ops) THEN to ELSE Len(ops)) - 1 : ops[i + 1].accepted}

(* The positions of one controller's accepted ops in the range [from, to).  *)
opsBetween(ops, from, to, controller) ==
  {i \in from .. (IF to < Len(ops) THEN to ELSE Len(ops)) - 1 :
      ops[i + 1].accepted /\ ops[i + 1].controller = controller}
==============================================================================
