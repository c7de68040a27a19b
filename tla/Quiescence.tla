----------------------------- MODULE Quiescence -----------------------------
(***************************************************************************)
(* TryQuiescent (quiescence.go): a loop that waits a slice at a time on    *)
(* the event stream, drains the op log, and decides when nothing has       *)
(* happened for Quiet, or Timeout has passed.  Around it, reconcile passes *)
(* and the data plane fakes do what they do.  What a watch delivers serves *)
(* the reorder hold before Next can hand it over: the stream is reduced to *)
(* that hold, whose length EventStream shows, and to what has left it.  The*)
(* op log and the gate are those of Interceptor.                           *)
(***************************************************************************)
EXTENDS Integers, Sequences, FiniteSets

CONSTANTS
  Pair,        \* a controller and an object it reconciles
  Quiet,
  Timeout,
  quiescenceSlice,
  reorderWindow,   \* the least an event is held
  visibilityLag,   \* the most it is held, goroutines running promptly
  MaxTime,     \* bound on the clock
  MaxActs      \* bound on the writes and passes of a measurement, together

(* Durations are signed; the caller gives the first two. *)
ASSUME DurationsAreIntegers ==
  /\ Quiet \in Int /\ Timeout \in Int /\ MaxTime \in Int /\ MaxActs \in Int
  /\ quiescenceSlice \in Nat /\ reorderWindow \in Nat /\ visibilityLag \in Nat

VARIABLES
  now,
  pass,      \* pair -> [pc, write: the answer not filed yet, last: the outcome of its last pass]
  gate,      \* the namespace is admitted
  ops,       \* the attempts filed and not taken by the cursor
  hold,      \* when each event in the reorder hold arrived, oldest first
  events,    \* how many events have left it and were not handed over
  lost,      \* the stream is lost
  q,         \* the measurement; the counts of its report are left out
  acts,      \* activity so far, counted
  \* History:
  arrived,   \* when events arrived
  lastOp,    \* when an attempt was last filed
  seenOp     \* lastOp as of the last drain

stream == <<hold, events, lost, arrived>>
qvars == <<now, pass, gate, ops, stream, q, acts, lastOp, seenOp>>
envVars == <<pass, gate, ops, stream, acts, lastOp>>

(* since is quietSince; at is when Next was called and, once it is back,   *)
(* when it came back.                                                      *)
QIdle == [pc |-> "off", deadline |-> 0, since |-> 0, at |-> 0, verdict |-> "none"]

QInit ==
  /\ now = 0
  /\ pass = [p \in Pair |-> [pc |-> "idle", write |-> "none", last |-> "none"]]
  /\ gate = FALSE /\ ops = <<>> /\ hold = <<>> /\ events = 0 /\ lost = FALSE
  /\ q = QIdle /\ acts = 0
  /\ arrived = {} /\ lastOp = 0 /\ seenOp = 0
------------------------------------------------------------------------------
(* Reconcile passes and the fakes. *)

Measuring == q.pc \notin {"off", "done"}
Acts == IF Measuring THEN acts < MaxActs /\ acts' = acts + 1 ELSE UNCHANGED acts

(* The stream and the cursor are there only during a measurement. *)
Arrives ==
  /\ IF Measuring THEN hold' = Append(hold, now) /\ arrived' = arrived \cup {now}
     ELSE UNCHANGED <<hold, arrived>>
  /\ UNCHANGED <<events, lost>>
Files(op) ==
  IF Measuring THEN ops' = Append(ops, op) /\ lastOp' = now ELSE UNCHANGED <<ops, lastOp>>

(* A pass begins.  A request the gate refuses leaves a record that neither *)
(* Unconverged nor vacuous counts.                                         *)
Admit(p) ==
  /\ pass[p].pc = "idle" /\ gate /\ Acts
  /\ pass' = [pass EXCEPT ![p].pc = "running"]
  /\ UNCHANGED <<now, gate, ops, stream, q, lastOp, seenOp>>

(* A write is answered; only one that changed something is seen by the     *)
(* watch.  The recorder files it after that.                               *)
Answered(p) ==
  /\ pass[p].pc = "running" /\ pass[p].write = "none" /\ Acts
  /\ \E answer \in {"changed", "same", "rejected"} :
       /\ pass' = [pass EXCEPT ![p].write = IF answer = "rejected" THEN "rejected" ELSE "accepted"]
       /\ IF answer = "changed" THEN Arrives ELSE UNCHANGED stream
  /\ UNCHANGED <<now, gate, ops, q, lastOp, seenOp>>

Filed(p) ==
  /\ pass[p].write # "none"
  /\ Files(pass[p].write)
  /\ pass' = [pass EXCEPT ![p].write = "none"]
  /\ UNCHANGED <<now, gate, stream, q, acts, seenOp>>

Returns(p) ==
  /\ pass[p].pc = "running" /\ pass[p].write = "none"
  /\ \E outcome \in {"ok", "err"} : pass' = [pass EXCEPT ![p].pc = "idle", ![p].last = outcome]
  /\ UNCHANGED <<now, gate, ops, stream, q, acts, lastOp, seenOp>>

(* A fake writes through a client the recorder does not wrap. *)
FakeWrites ==
  /\ Acts /\ Arrives
  /\ UNCHANGED <<now, pass, gate, ops, q, lastOp, seenOp>>

(* The merge lets go of the oldest event. *)
Ripens ==
  /\ hold # <<>> /\ now - Head(hold) >= reorderWindow
  /\ hold' = Tail(hold) /\ events' = events + 1
  /\ UNCHANGED <<now, pass, gate, ops, lost, arrived, q, acts, lastOp, seenOp>>

(* It does so before the event has been held for longer than the lag. *)
HoldsInTime == \A i \in DOMAIN hold : now - hold[i] < visibilityLag

StreamLost ==
  /\ Measuring /\ ~lost /\ lost' = TRUE
  /\ UNCHANGED <<now, pass, gate, ops, hold, events, arrived, q, acts, lastOp, seenOp>>
------------------------------------------------------------------------------
(* Unconverged: the pairs whose last pass that was not gated failed. *)
Unconverged == {p \in Pair : pass[p].last = "err"}

Verdict(v) == q' = [QIdle EXCEPT !.pc = "done", !.verdict = v]

quiescenceError(churn) == IF Unconverged # {} THEN "unconverged" ELSE IF churn THEN "churn" ELSE "nil"

(* The cursor starts at the end of the log; the watch replays what is      *)
(* there as adds.                                                          *)
TryQuiescent ==
  /\ q.pc = "off"
  /\ q' = [q EXCEPT !.pc = "top", !.deadline = now + Timeout, !.since = now, !.at = now]
  /\ ops' = <<>> /\ events' = 0 /\ hold' \in {<<>>, <<now>>}
  /\ arrived' = {now} /\ lastOp' = now /\ seenOp' = now
  /\ UNCHANGED <<now, pass, gate, lost, acts>>

(* Next looks at Terminal before anything else; a lost stream voids the    *)
(* measurement, whatever it still holds.                                   *)
Top ==
  /\ q.pc = "top"
  /\ IF now >= q.deadline THEN Verdict(quiescenceError(TRUE))
     ELSE IF lost THEN Verdict("void")
     ELSE q' = [q EXCEPT !.pc = "next", !.at = now]
  /\ UNCHANGED <<now, envVars, seenOp>>

(* Next hands over an event.  If the stream is lost as well, its select    *)
(* may still choose the event.                                             *)
observeEvent ==
  /\ q.pc = "next" /\ events > 0
  /\ events' = events - 1
  /\ q' = [q EXCEPT !.pc = "drain", !.since = now, !.at = now]
  /\ UNCHANGED <<now, pass, gate, ops, hold, lost, arrived, acts, lastOp, seenOp>>

(* Next fails: the stream is lost, which voids the measurement, or the     *)
(* slice and the lag are over and nothing has left the hold.  What is in   *)
(* the hold stays there.                                                   *)
NextFails ==
  /\ q.pc = "next"
  /\ \/ lost /\ Verdict("void")
     \/ /\ ~lost /\ events = 0 /\ now >= q.at + quiescenceSlice + visibilityLag
        /\ q' = [q EXCEPT !.pc = "drain", !.at = now]
  /\ UNCHANGED <<now, envVars, seenOp>>

Rejected == Cardinality({i \in DOMAIN ops : ops[i] = "rejected"})

(* Mutant: rejected writes are counted and do not restart the window. *)
observeWrites_Accepted ==
  /\ q.pc = "drain"
  /\ ops' = <<>>
  /\ q' = [q EXCEPT !.pc = "judge", !.since = IF Len(ops) > Rejected THEN now ELSE @]
  /\ seenOp' = lastOp
  /\ UNCHANGED <<now, pass, gate, stream, acts, lastOp>>

(* Every attempt counts, rejected ones too. *)
observeWrites ==
  /\ q.pc = "drain"
  /\ ops' = <<>>
  /\ q' = [q EXCEPT !.pc = "judge", !.since = IF ops # <<>> THEN now ELSE @]
  /\ seenOp' = lastOp
  /\ UNCHANGED <<now, pass, gate, stream, acts, lastOp>>

(* A window that went quiet is asked whether it converged, and then        *)
(* whether anything ever ran.                                              *)
Judge ==
  /\ q.pc = "judge"
  /\ IF now - q.since < Quiet THEN q' = [q EXCEPT !.pc = "top"]
     ELSE IF quiescenceError(FALSE) = "nil" THEN q' = [q EXCEPT !.pc = "vacuous"]
     ELSE Verdict(quiescenceError(FALSE))
  /\ UNCHANGED <<now, envVars, seenOp>>

vacuous ==
  /\ q.pc = "vacuous"
  /\ Verdict(IF \E p \in Pair : pass[p].last # "none" THEN "nil" ELSE "vacuous")
  /\ UNCHANGED <<now, envVars, seenOp>>

Measure == TryQuiescent \/ Top \/ observeEvent \/ NextFails \/ observeWrites \/ Judge \/ vacuous
------------------------------------------------------------------------------
(* A quiet verdict is earned: no event had arrived for Quiet before it, no *)
(* attempt, accepted or rejected, had been filed for Quiet by the last     *)
(* drain, and a pass has run (TryQuiescent's loop and floor).  Two seams   *)
(* are left: what is filed after the last drain, which the documentation   *)
(* of RequireQuiescent names, and what arrived less than visibilityLag     *)
(* before the last read and was still held, which it does not.             *)
QuietIsEarned ==
  [][ q'.verdict = "nil" /\ q.verdict = "none" =>
        /\ \A t \in arrived : now - t >= Quiet \/ t >= q.at - visibilityLag
        /\ now - seenOp >= Quiet
        /\ \E p \in Pair : pass[p].last # "none" ]_qvars
==============================================================================
