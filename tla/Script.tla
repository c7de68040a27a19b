------------------------------- MODULE Script -------------------------------
(***************************************************************************)
(* The scenario runner of ctrltest/script.go and the pins of               *)
(* ctrltest/knowndefect.go: a test declares steps, reads the event stream  *)
(* one event at a time and judges every event against the step in flight.  *)
(*                                                                         *)
(* The stream is the one EventStream models, seen from its reader: Next    *)
(* refuses a stream that is terminal when it is called, then waits for the *)
(* first of an event, a failure and its timer.  The timer is started with  *)
(* the wait, so it never competes with an event that is already there.     *)
(*                                                                         *)
(* A call is made plainly (Step, Finish: an error is fatal), inside a      *)
(* KnownDefect body, or as a TryStep or TryFinish whose error the test     *)
(* throws away.                                                            *)
(***************************************************************************)
EXTENDS EventMatching

CONSTANTS Events,        \* what the system under test may do to the watched objects
          Declarations,  \* sequences of Allow a step may be called with
          Uses,          \* subset of {"plain", "pinned", "dropped"}
          Forbidden,     \* the events the registered invariant rejects
          MaxEvents, MaxCalls

ASSUME DeclarationsAreAllows == Declarations \subseteq Seq(Allows)

VARIABLES
  queue,       \* events the stream holds for its reader
  lost,        \* the stream is terminal
  pc,          \* "test": between calls; "step", "settle", "finish": in one; "cleanup"; "over"
  waiting,     \* inside the select of Stream.Next
  use,         \* how the call in progress is made
  leaves, order, seen, at,   \* the locals of TryStep
  invariants,  \* whether Invariant was called
  finished,    \* Script.finished
  failed,      \* t.Failed()
  verdict,     \* the last judgement: what was concluded and what it was about
  accepted,    \* events permitted by a step that passed
  swallowed,   \* an error was pinned or thrown away
  arrived,     \* events sent so far, and when Finish found silence
  closedAt,
  calls

stream == <<queue, lost, arrived>>
locals == <<leaves, order, seen, at>>
vars == <<queue, lost, pc, waiting, use, leaves, order, seen, at, invariants, finished, failed,
          verdict, accepted, swallowed, arrived, closedAt, calls>>

NoVerdict == [what |-> "none"]

Init ==
  /\ queue = <<>> /\ lost = FALSE /\ arrived = 0 /\ closedAt = 0
  /\ pc = "test" /\ waiting = FALSE /\ use = "plain"
  /\ leaves = <<>> /\ order = {} /\ seen = <<>> /\ at = <<>>
  /\ invariants = FALSE /\ finished = FALSE /\ failed = FALSE
  /\ verdict = NoVerdict /\ accepted = 0 /\ swallowed = FALSE /\ calls = 0
------------------------------------------------------------------------------
(* The system under test, and the watch that carries its changes. *)

Emit ==
  /\ pc # "over" /\ arrived < MaxEvents
  /\ \E ev \in Events : queue' = Append(queue, ev)
  /\ arrived' = arrived + 1
  /\ UNCHANGED <<lost, pc, waiting, use, locals, invariants, finished, failed, verdict, accepted,
                 swallowed, closedAt, calls>>

StreamFails ==
  /\ pc # "over" /\ ~lost
  /\ lost' = TRUE
  /\ UNCHANGED <<queue, arrived, pc, waiting, use, locals, invariants, finished, failed, verdict,
                 accepted, swallowed, closedAt, calls>>
------------------------------------------------------------------------------
(* How a call ends. *)

Concluded(what) == [what |-> what, use |-> use, seen |-> seen', leaves |-> leaves', order |-> order',
                    at |-> at', lost |-> lost]

(* Fatalf ends the test: Goexit runs the cleanups. *)
fatalf(what) ==
  /\ verdict' = Concluded(what)
  /\ failed' = TRUE /\ pc' = "cleanup" /\ waiting' = FALSE
  /\ UNCHANGED <<accepted, swallowed, closedAt>>

(* An error returned: Step and Finish make it fatal, KnownDefect reads it  *)
(* as the defect it pins and passes, a TryStep may be ignored.             *)
ReturnError(what) ==
  IF use = "plain" THEN fatalf(what)
  ELSE /\ verdict' = Concluded(what)
       /\ swallowed' = TRUE
       /\ pc' = "test" /\ waiting' = FALSE
       /\ UNCHANGED <<failed, accepted, closedAt>>

(* nil returned: a KnownDefect body that no longer fails is fatal. *)
ReturnNil(n) ==
  /\ verdict' = Concluded("ok")
  /\ waiting' = FALSE
  /\ accepted' = accepted + n
  /\ IF use = "pinned" THEN failed' = TRUE /\ pc' = "cleanup" ELSE pc' = "test" /\ UNCHANGED failed
  /\ UNCHANGED swallowed
------------------------------------------------------------------------------
(* The test's calls. *)

Idle == pc = "test" /\ calls < MaxCalls

Invariant ==
  /\ Idle /\ ~invariants
  /\ invariants' = TRUE
  /\ UNCHANGED <<stream, pc, waiting, use, locals, finished, failed, verdict, accepted, swallowed,
                 closedAt, calls>>

(* TryStep up to its loop.  do fails or not as it pleases. *)
TryStep(decl, u, doFails) ==
  LET flat == flattenAllows(decl)  valid == validateAllows(decl) IN
  /\ Idle
  /\ calls' = calls + 1 /\ use' = u
  /\ seen' = <<>>
  /\ leaves' = IF valid THEN flat.leaves ELSE <<>>
  /\ order' = IF valid THEN flat.order ELSE {}
  /\ at' = noAssignment(leaves')
  /\ IF ~valid THEN fatalf("malformed")
     ELSE IF doFails THEN fatalf("doFailed")
     ELSE /\ pc' = IF leaves' = <<>> THEN "settle" ELSE "step"
          /\ verdict' = NoVerdict
          /\ UNCHANGED <<waiting, failed, accepted, swallowed, closedAt>>
  /\ UNCHANGED <<stream, invariants, finished>>

TryFinish(u) ==
  /\ Idle
  /\ calls' = calls + 1 /\ use' = u
  /\ finished' = TRUE
  /\ pc' = "finish"
  /\ leaves' = <<>> /\ order' = {} /\ seen' = <<>> /\ at' = <<>>
  /\ verdict' = NoVerdict
  /\ UNCHANGED <<stream, waiting, invariants, failed, accepted, swallowed, closedAt>>

(* The test function returns. *)
Return ==
  /\ pc = "test" /\ pc' = "cleanup"
  /\ UNCHANGED <<stream, waiting, use, locals, invariants, finished, failed, verdict, accepted,
                 swallowed, closedAt, calls>>
------------------------------------------------------------------------------
(* Script.next, over Stream.Next. *)

Reading == pc \in {"step", "settle", "finish"}

NextWaits ==
  /\ Reading /\ ~waiting /\ ~lost
  /\ waiting' = TRUE
  /\ UNCHANGED <<stream, pc, use, locals, invariants, finished, failed, verdict, accepted, swallowed,
                 closedAt, calls>>

(* Mutant: the lost stream is returned like a timeout. *)
next_Lost_Returned ==
  /\ Reading /\ lost
  /\ UNCHANGED locals /\ ReturnError("timeout")
  /\ UNCHANGED <<stream, use, invariants, finished, calls>>

next_Lost ==
  /\ Reading /\ lost
  /\ UNCHANGED locals /\ fatalf("lost")
  /\ UNCHANGED <<stream, use, invariants, finished, calls>>

unexpectedEvent == ReturnError("unexpected")

(* Judge seen' against the step. *)
Fitted ==
  LET fit == assignEvents(seen', leaves, order)
      free == assignEvents(seen', leaves, {}) IN
  IF ~fit.decided THEN at' = at /\ fatalf("undecided")
  ELSE IF fit.at = NoFit
  THEN at' = at /\ IF free.at # NoFit THEN ReturnError("order") ELSE unexpectedEvent
  ELSE /\ at' = fit.at
       /\ pc' = IF Len(seen') < Len(leaves) THEN "step" ELSE "settle"
       /\ waiting' = FALSE
       /\ UNCHANGED <<failed, verdict, accepted, swallowed, closedAt>>

(* An event arrives in a step, its settle window or Finish's. *)
next_Event ==
  /\ Reading /\ waiting /\ queue # <<>>
  /\ queue' = Tail(queue)
  /\ seen' = Append(seen, Head(queue))
  /\ UNCHANGED <<leaves, order>>
  /\ IF invariants /\ Head(queue) \in Forbidden THEN at' = at /\ ReturnError("invariant")
     ELSE IF pc = "step" THEN Fitted
     ELSE at' = at /\ unexpectedEvent
  /\ UNCHANGED <<lost, arrived, use, invariants, finished, calls>>

(* The timer of a step fires first: what at leaves unassigned is missing.  *)
(* In the settle window and in Finish silence is what was asked for.       *)
next_Timeout ==
  /\ Reading /\ waiting /\ queue = <<>> /\ ~lost
  /\ UNCHANGED locals
  /\ CASE pc = "step"   -> ReturnError("timeout")
       [] pc = "settle" -> ReturnNil(Len(leaves)) /\ UNCHANGED closedAt
       [] pc = "finish" -> ReturnNil(0) /\ closedAt' = arrived
  /\ UNCHANGED <<stream, use, invariants, finished, calls>>
------------------------------------------------------------------------------
(* Mutant: a step that returned an error is reason enough to stay quiet. *)
unfinished_QuietAfterError ==
  /\ pc = "cleanup" /\ pc' = "over"
  /\ failed' = (failed \/ ~(finished \/ swallowed))
  /\ UNCHANGED <<stream, waiting, use, locals, invariants, finished, verdict, accepted, swallowed,
                 closedAt, calls>>

(* The backstop registered by NewScript.  It runs before the stream is shut *)
(* down, reads it once for its message, and reports in every case.          *)
unfinished ==
  /\ pc = "cleanup" /\ pc' = "over"
  /\ failed' = (failed \/ ~finished)
  /\ UNCHANGED <<stream, waiting, use, locals, invariants, finished, verdict, accepted, swallowed,
                 closedAt, calls>>

Next ==
  \/ Emit \/ StreamFails \/ Invariant \/ Return
  \/ \E d \in Declarations, u \in Uses, doFails \in BOOLEAN : TryStep(d, u, doFails)
  \/ \E u \in Uses : TryFinish(u)
  \/ NextWaits \/ next_Lost \/ next_Event \/ next_Timeout \/ unfinished

Spec == Init /\ [][Next]_vars
------------------------------------------------------------------------------
(* Properties. *)

(* Some assignment of the events to distinct leaves that match them, in an *)
(* order o allows: the meaning of a declaration, by enumeration.           *)
Fits(events, ls, o) ==
  \E f \in [DOMAIN events -> DOMAIN ls] :
    /\ \A e \in DOMAIN events : matches(ls[f[e]], events[e])
    /\ \A e1, e2 \in DOMAIN events :
         e1 < e2 => f[e1] # f[e2] /\ <<f[e2], f[e1]>> \notin o

(* Every judgement of a step is right: it passes on exactly the events the *)
(* declaration asks for, an event is unexpected only if no assignment at   *)
(* all has room for it, an ordering is called violated only if it is what  *)
(* stands in the way, and a timeout names as missing exactly the leaves    *)
(* that the events seen leave open (TryStep, assignEvents, matchAll,       *)
(* orderedFit).                                                            *)
VerdictsAreRight ==
  LET v == verdict IN
  CASE v.what = "ok"         -> Len(v.seen) = Len(v.leaves) /\ Fits(v.seen, v.leaves, v.order)
    [] v.what = "unexpected" -> ~Fits(v.seen, v.leaves, {})
    [] v.what = "order"      -> Fits(v.seen, v.leaves, {}) /\ ~Fits(v.seen, v.leaves, v.order)
    [] v.what = "undecided"  -> Fits(v.seen, v.leaves, {})
    [] v.what = "timeout"    ->
         /\ Fits(v.seen, v.leaves, v.order)
         /\ \A e \in DOMAIN v.seen :
              \E l \in DOMAIN v.leaves : v.at[l] = e /\ matches(v.leaves[l], v.seen[e])
         /\ Cardinality({l \in DOMAIN v.leaves : v.at[l] = 0}) = Len(v.leaves) - Len(v.seen)
    [] OTHER                 -> TRUE

(* A test that passes has closed its world: Finish was called, whatever    *)
(* was pinned or ignored on the way, and unless an error was pinned or     *)
(* ignored every event that arrived until Finish found silence was         *)
(* permitted by a step (settle window, TryFinish, unfinished).             *)
ClosedWorld ==
  (pc = "over" /\ ~failed) =>
    /\ finished
    /\ ~swallowed => accepted >= closedAt

(* A pin is confirmed only by an observation of the system under test: a   *)
(* malformed declaration, a failing action, a search that gave up and a    *)
(* stream that lost history are never returned to a KnownDefect body       *)
(* (TryStep, next, knownDefect).                                           *)
PinsAreEvidence ==
  (verdict.what # "none" /\ swallowed /\ verdict.use # "plain" /\ ~failed) =>
    /\ verdict.what \in {"ok", "unexpected", "order", "timeout", "invariant"}
    /\ verdict.what = "timeout" => ~verdict.lost
==============================================================================
