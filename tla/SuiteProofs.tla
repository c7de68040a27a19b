----------------------------- MODULE SuiteProofs -----------------------------
(***************************************************************************)
(* A quiet verdict is earned, and envtest is stopped last, for any number  *)
(* of managers, any durations and however long the test runs.              *)
(***************************************************************************)
EXTENDS Suite, TLAPS

QPc == {"off", "top", "next", "drain", "judge", "vacuous", "done"}
SuPc == {"boot", "managers", "start", "sync", "failWait", "failed", "up", "create", "case",
         "cleanup", "cleaned", "stopping", "stopEnv", "down"}
Pass == [pc : {"idle", "running"}, write : {"none", "accepted", "rejected"},
         last : {"none", "ok", "err"}]
Verdicts == {"none", "nil", "void", "churn", "unconverged", "vacuous"}
Measurement == [pc : QPc, deadline : Int, since : Int, at : Int, verdict : Verdicts]

QTypeOK ==
  /\ now \in Nat /\ pass \in [Pair -> Pass] /\ gate \in BOOLEAN
  /\ ops \in Seq({"accepted", "rejected"})
  /\ hold \in Seq(Int) /\ events \in Nat /\ lost \in BOOLEAN /\ arrived \in SUBSET Int
  /\ q \in Measurement
  /\ acts \in Int /\ lastOp \in Int /\ seenOp \in Int

Join == 1..(NManagers + 1)
Errors == SUBSET (-1..NManagers)
Course == [pc : SuPc, i : Join, until : Int, cancelledAt : Int, errs : Errors]

SuTypeOK ==
  /\ su \in Course
  /\ mgr \in [Manager -> {"absent", "built", "running", "stopped", "failed"}]
  /\ sim \in {"off", "running", "stopped"} /\ env \in {"off", "up", "stopped"}
  /\ ns \in {"none", "live", "deleted"}

TypeOK == QTypeOK /\ SuTypeOK

Held(t) == \E i \in DOMAIN hold : hold[i] = t

(* What a measurement knows: q.since is no earlier than the last attempt   *)
(* it has taken, nor than the last one filed when there is none to take.   *)
(* An event that arrived after q.since is in the hold, and young, or has   *)
(* left it and waits to be handed over; once Next is back it arrived less  *)
(* than the lag before that.  A window about to be called quiet is Quiet   *)
(* long.                                                                   *)
WindowInv ==
  /\ q.pc # "done" => q.verdict = "none"
  /\ Measuring =>
       /\ q.since <= now /\ q.at <= now /\ lastOp <= now
       /\ \A t \in arrived : t <= now
       /\ \A i \in DOMAIN hold : now - hold[i] <= visibilityLag
       /\ events = 0 => \A t \in arrived : t <= q.since \/ Held(t)
       /\ q.pc \in {"drain", "judge", "vacuous"} =>
            \A t \in arrived : t <= q.since \/ t >= q.at - visibilityLag
       /\ seenOp <= q.since
       /\ ops = <<>> => lastOp <= q.since
       /\ q.pc = "vacuous" => now - q.since >= Quiet

Overdue(m) == mgr[m] = "running" => now >= su.until
Reported(x) == now >= su.until /\ x \in su.errs

(* Joining: the clock stops at the one deadline; everything behind the     *)
(* loop has ended, or is overdue and, in teardown, reported.               *)
JoinInv ==
  /\ Measuring => At("case")
  /\ Cancelled => su.until = su.cancelledAt + StopTimeout /\ now <= su.until
  /\ Cancelled <=> su.pc \in {"failWait", "stopping", "stopEnv", "down"}
                   \/ (At("failed") /\ env # "off")
  /\ At("boot") => env = "off"
  /\ su.pc \notin {"boot", "failed"} => env # "off"
  /\ su.pc \in {"failWait", "failed"} =>
       /\ sim = "off"
       /\ (\A m \in Manager : Started(m)) \/ (\A m \in Manager : ~Started(m))
       /\ \A m \in Manager : m < su.i \/ At("failed") => Overdue(m)
  /\ su.pc \in {"boot", "managers", "start"} => \A m \in Manager : ~Started(m)
  /\ At("sync") => \A m \in Manager : Started(m)
  /\ su.pc \in {"boot", "managers", "start", "sync"} => sim = "off"
  /\ At("stopping") => \A m \in Manager : m < su.i /\ mgr[m] = "running" => Reported(m)
  /\ su.pc \in {"stopEnv", "down"} =>
       /\ \A m \in Manager : mgr[m] = "running" => Reported(m)
       /\ sim = "running" => Reported(Sim)
  /\ env = "stopped" => su.pc \in {"failed", "down"}

SuiteInv == TypeOK /\ WindowInv /\ JoinInv
------------------------------------------------------------------------------
(* Every step of the loop leaves a measurement in q. *)
LEMMA Remeasured ==
  ASSUME NEW m \in Measurement, NEW pc \in QPc
  PROVE  /\ [m EXCEPT !.pc = pc] \in Measurement
         /\ \A t \in Int : /\ [m EXCEPT !.pc = pc, !.since = t] \in Measurement
                           /\ [m EXCEPT !.pc = pc, !.at = t] \in Measurement
                           /\ [m EXCEPT !.pc = pc, !.since = t, !.at = t] \in Measurement
         /\ \A t, u \in Int :
              [m EXCEPT !.pc = pc, !.deadline = u, !.since = t, !.at = t] \in Measurement
         /\ \A v \in Verdicts : [m EXCEPT !.pc = pc, !.verdict = v] \in Measurement
BY DEF Measurement

(* No measurement is under way with the first value of q. *)
LEMMA IdleMeasurement == QIdle \in Measurement
<1>1. "off" \in QPc /\ "none" \in Verdicts
  BY DEF QPc, Verdicts
<1> QED
  BY <1>1 DEF QIdle, Measurement

(* A cursor with nothing to take. *)
LEMMA EmptyOps == <<>> \in Seq({"accepted", "rejected"})
OBVIOUS

(* A verdict ends the measurement. *)
LEMMA VerdictReached ==
  ASSUME NEW v \in Verdicts, Verdict(v)
  PROVE  q' \in Measurement /\ ~Measuring' /\ q'.pc = "done"
<1>1. "done" \in QPc
  BY DEF QPc
<1>2. q' \in Measurement
  BY <1>1, IdleMeasurement, Remeasured DEF Verdict
<1>3. q'.pc = "done"
  BY DEF Verdict, QIdle
<1> QED
  BY <1>2, <1>3 DEF Measuring

------------------------------------------------------------------------------
(* An event that arrives is in the hold, and as young as can be. *)
LEMMA ArrivalKeeps ==
  ASSUME TypeOK, WindowInv, Arrives \/ UNCHANGED stream, UNCHANGED <<q, now, ops, lastOp, seenOp>>
  PROVE  /\ hold' \in Seq(Int) /\ events' \in Nat /\ lost' \in BOOLEAN /\ arrived' \in SUBSET Int
         /\ WindowInv'
<1>t. /\ hold \in Seq(Int) /\ now \in Int /\ q.since \in Int /\ q.at \in Int /\ arrived \subseteq Int
      /\ visibilityLag \in Nat
  BY DurationsAreIntegers DEF TypeOK, QTypeOK, Measurement
<1>1. CASE UNCHANGED stream
  BY <1>1 DEF stream, TypeOK, QTypeOK, WindowInv, Measuring, Held
<1>2. CASE Arrives /\ ~Measuring
  BY <1>2 DEF Arrives, TypeOK, QTypeOK, WindowInv, Measuring
<1>3. CASE Arrives /\ Measuring
  <2>1. /\ hold' = Append(hold, now) /\ arrived' = arrived \cup {now} /\ UNCHANGED <<events, lost>>
    BY <1>3 DEF Arrives
  <2>2. /\ hold' \in Seq(Int) /\ DOMAIN hold' = 1 .. Len(hold) + 1 /\ DOMAIN hold = 1 .. Len(hold)
        /\ Len(hold) \in Nat
        /\ hold'[Len(hold) + 1] = now
        /\ \A i \in 1 .. Len(hold) : hold'[i] = hold[i]
    BY <1>t, <2>1
  <2>3. \A t : Held(t) \/ t = now => Held(t)'
    BY <2>2 DEF Held
  <2>4. \A i \in DOMAIN hold' : now' - hold'[i] <= visibilityLag
    <3>1. now' = now /\ now - now <= visibilityLag
      BY <1>t
    <3>2. \A i \in 1 .. Len(hold) : now - hold[i] <= visibilityLag
      BY <1>3, <2>2 DEF WindowInv
    <3>3. \A i \in 1 .. Len(hold) + 1 : i \in 1 .. Len(hold) \/ i = Len(hold) + 1
      BY <2>2
    <3> QED
      BY <2>2, <3>1, <3>2, <3>3
  <2>5. events' = 0 => \A t \in arrived' : t <= q'.since \/ Held(t)'
    BY <1>3, <2>1, <2>3 DEF WindowInv
  <2>6. q'.pc \in {"drain", "judge", "vacuous"} =>
          \A t \in arrived' : t <= q'.since \/ t >= q'.at - visibilityLag
    BY <1>t, <1>3, <2>1 DEF WindowInv
  <2>7. \A t \in arrived' : t <= now'
    BY <1>t, <1>3, <2>1 DEF WindowInv
  <2>8. WindowInv'
    BY <1>3, <2>4, <2>5, <2>6, <2>7 DEF WindowInv, Measuring
  <2> QED
    BY <1>t, <2>1, <2>2, <2>8 DEF TypeOK, QTypeOK
<1> QED
  BY <1>1, <1>2, <1>3

(* What the reconciles and the fakes do keeps the types and the window: an *)
(* event or an attempt that arrives during a measurement is one the        *)
(* measurement has not taken.                                              *)
LEMMA ActivityKeeps ==
  ASSUME TypeOK, WindowInv, Activity
  PROVE  QTypeOK' /\ WindowInv' /\ UNCHANGED <<q, now>>
<1> DEFINE P == QTypeOK' /\ WindowInv' /\ UNCHANGED <<q, now>>
<1>1. ASSUME NEW p \in Pair, Admit(p) PROVE P
  <2>1. pass' \in [Pair -> Pass]
    BY <1>1 DEF Admit, TypeOK, QTypeOK, Pass
  <2>2. QTypeOK'
    BY <1>1, <2>1, DurationsAreIntegers DEF Admit, Acts, stream, TypeOK, QTypeOK
  <2>3. WindowInv'
    BY <1>1 DEF Admit, stream, Measuring, WindowInv, Held
  <2> QED
    BY <1>1, <2>2, <2>3 DEF Admit
<1>2. ASSUME NEW p \in Pair, Answered(p) PROVE P
  <2>1. pass' \in [Pair -> Pass]
    BY <1>2 DEF Answered, TypeOK, QTypeOK, Pass
  <2>2. /\ Arrives \/ UNCHANGED stream
        /\ UNCHANGED <<now, gate, ops, q, lastOp, seenOp>> /\ Acts
    BY <1>2 DEF Answered
  <2>3. acts' \in Int
    BY <2>2, DurationsAreIntegers DEF Acts, TypeOK, QTypeOK
  <2> QED
    BY <2>1, <2>2, <2>3, ArrivalKeeps DEF TypeOK, QTypeOK
<1>3. ASSUME NEW p \in Pair, Filed(p) PROVE P
  <2>1. pass[p].write \in {"accepted", "rejected"}
    BY <1>3 DEF Filed, TypeOK, QTypeOK, Pass
  <2>2. pass' \in [Pair -> Pass]
    BY <1>3 DEF Filed, TypeOK, QTypeOK, Pass
  <2>3. ops' \in Seq({"accepted", "rejected"}) /\ (Measuring => ops' # <<>>)
    <3>1. \A o \in {"accepted", "rejected"} :
            Append(ops, o) \in Seq({"accepted", "rejected"}) /\ Len(Append(ops, o)) = Len(ops) + 1
      BY DEF TypeOK, QTypeOK
    <3>2. Len(ops) \in Nat /\ Len(<<>>) = 0
      BY DEF TypeOK, QTypeOK
    <3>3. CASE Measuring
      <4>1. ops' = Append(ops, pass[p].write)
        BY <1>3, <3>3 DEF Filed, Files
      <4> QED
        BY <2>1, <3>1, <3>2, <4>1
    <3>4. CASE ~Measuring
      BY <1>3, <3>4 DEF Filed, Files, TypeOK, QTypeOK
    <3> QED
      BY <3>3, <3>4
  <2>4. QTypeOK'
    BY <1>3, <2>2, <2>3 DEF Filed, Files, stream, TypeOK, QTypeOK
  <2>5. WindowInv'
    BY <1>3, <2>3 DEF Filed, Files, stream, Measuring, WindowInv, Held, TypeOK, QTypeOK
  <2> QED
    BY <1>3, <2>4, <2>5 DEF Filed
<1>4. ASSUME NEW p \in Pair, Returns(p) PROVE P
  <2>1. pass' \in [Pair -> Pass]
    BY <1>4 DEF Returns, TypeOK, QTypeOK, Pass
  <2> QED
    BY <1>4, <2>1 DEF Returns, stream, Measuring, WindowInv, Held, TypeOK, QTypeOK
<1>5. ASSUME FakeWrites PROVE P
  <2>1. acts' \in Int
    BY <1>5, DurationsAreIntegers DEF FakeWrites, Acts, TypeOK, QTypeOK
  <2> QED
    BY <1>5, <2>1, ArrivalKeeps DEF FakeWrites, TypeOK, QTypeOK
<1>6. ASSUME StreamLost PROVE P
  BY <1>6 DEF StreamLost, Measuring, WindowInv, Held, TypeOK, QTypeOK
<1>7. ASSUME Ripens PROVE P
  <2>1. /\ hold \in Seq(Int) /\ hold # <<>> /\ hold' = Tail(hold) /\ events \in Nat /\ events' = events + 1
        /\ UNCHANGED <<now, pass, gate, ops, lost, arrived, q, acts, lastOp, seenOp>>
    BY <1>7 DEF Ripens, TypeOK, QTypeOK
  <2>2. hold' \in Seq(Int) /\ \A i \in DOMAIN hold' : i + 1 \in DOMAIN hold /\ hold'[i] = hold[i + 1]
    BY <2>1
  <2>3. QTypeOK'
    BY <2>1, <2>2 DEF TypeOK, QTypeOK
  <2>4. WindowInv'
    BY <2>1, <2>2 DEF WindowInv, Measuring
  <2> QED
    BY <2>1, <2>3, <2>4
<1> QED
  BY <1>1, <1>2, <1>3, <1>4, <1>5, <1>6, <1>7 DEF Activity

(* Every step of TryQuiescent keeps the types and the window. *)
LEMMA MeasureKeeps ==
  ASSUME TypeOK, WindowInv, Measure
  PROVE  QTypeOK' /\ WindowInv' /\ now' = now
<1> DEFINE P == QTypeOK' /\ WindowInv' /\ now' = now
<1>p. /\ \A pc \in {"top", "next", "drain", "judge", "vacuous"} : pc \in QPc
      /\ now \in Int /\ q \in Measurement /\ q.since \in Int
      /\ "none" \in Verdicts /\ 0 \in Int
  BY DEF QPc, TypeOK, QTypeOK, Measurement, Verdicts
<1>v. "void" \in Verdicts /\ "nil" \in Verdicts /\ "vacuous" \in Verdicts
      /\ \A b \in BOOLEAN : quiescenceError(b) \in Verdicts
  BY DEF Verdicts, quiescenceError
<1>1. ASSUME TryQuiescent PROVE P
  <2>1. q' \in Measurement
    <3>1. now + Timeout \in Int
      BY <1>p, DurationsAreIntegers
    <3> QED
      BY <1>1, <1>p, <3>1, Remeasured DEF TryQuiescent
  <2>2. hold' \in Seq(Int) /\ \A i \in DOMAIN hold' : hold'[i] = now
    <3>1. /\ <<>> \in Seq(Int) /\ DOMAIN <<>> = {}
          /\ <<now>> \in Seq(Int) /\ \A i \in DOMAIN <<now>> : <<now>>[i] = now
      BY <1>p
    <3>2. hold' = <<>> \/ hold' = <<now>>
      BY <1>1 DEF TryQuiescent
    <3> QED
      BY <3>1, <3>2
  <2>3. q'.since = now /\ q'.at = now /\ q'.pc = "top" /\ q'.verdict = "none"
    BY <1>1, <1>p DEF TryQuiescent, Measurement, WindowInv
  <2>4. QTypeOK'
    BY <1>1, <1>p, <2>1, <2>2 DEF TryQuiescent, TypeOK, QTypeOK
  <2>5. \A i \in DOMAIN hold' : now' - hold'[i] <= visibilityLag
    BY <1>1, <1>p, <2>2, DurationsAreIntegers DEF TryQuiescent
  <2> QED
    BY <1>1, <1>p, <2>3, <2>4, <2>5 DEF TryQuiescent, WindowInv
<1>2. ASSUME Top PROVE P
  <2>1. CASE ~(now >= q.deadline) /\ ~lost
    <3>1. q' = [q EXCEPT !.pc = "next", !.at = now]
      BY <1>2, <2>1 DEF Top
    <3>2. q' \in Measurement
      BY <3>1, <1>p, Remeasured
    <3> QED
      BY <1>2, <3>1, <3>2 DEF Top, envVars, stream, TypeOK, QTypeOK, Measurement, WindowInv,
         Measuring, Held
  <2>2. CASE now >= q.deadline \/ lost
    <3>1. q' \in Measurement /\ ~Measuring' /\ q'.pc = "done"
      BY <1>2, <2>2, <1>v, VerdictReached DEF Top
    <3> QED
      BY <1>2, <3>1 DEF Top, envVars, stream, TypeOK, QTypeOK, WindowInv
  <2> QED
    BY <2>1, <2>2
<1>3. ASSUME observeEvent PROVE P
  <2>1. q' \in Measurement
    BY <1>3, <1>p, Remeasured DEF observeEvent
  <2>2. QTypeOK'
    BY <1>3, <2>1 DEF observeEvent, TypeOK, QTypeOK
  <2>3. q'.since = now /\ q'.at = now /\ q'.pc = "drain" /\ q'.verdict = q.verdict /\ Measuring
    BY <1>3, <1>p DEF observeEvent, Measurement, Measuring
  <2>4. WindowInv'
    BY <1>3, <1>p, <2>3 DEF observeEvent, TypeOK, QTypeOK, WindowInv, Held
  <2> QED
    BY <1>3, <2>2, <2>4 DEF observeEvent
<1>4. ASSUME NextFails PROVE P
  <2>2. CASE Verdict("void")
    BY <1>4, <2>2, <1>v, VerdictReached DEF NextFails, envVars, stream, TypeOK, QTypeOK, WindowInv
  <2>3. CASE events = 0 /\ q' = [q EXCEPT !.pc = "drain", !.at = now]
    <3>1. q' \in Measurement
      BY <2>3, <1>p, Remeasured
    <3>2. q'.pc = "drain" /\ q'.at = now /\ q'.since = q.since /\ q'.verdict = q.verdict /\ Measuring
      BY <1>4, <2>3, <1>p DEF NextFails, Measurement, Measuring
    <3>3. \A t \in arrived : t <= q.since \/ t >= now - visibilityLag
      BY <2>3, <3>2, <1>p, DurationsAreIntegers DEF WindowInv, Held, TypeOK, QTypeOK
    <3> QED
      BY <1>4, <2>3, <3>1, <3>2, <3>3
      DEF NextFails, envVars, stream, TypeOK, QTypeOK, WindowInv, Held
  <2> QED
    BY <1>4, <2>2, <2>3 DEF NextFails
<1>5. ASSUME observeWrites PROVE P
  <2>1. q' \in Measurement
    BY <1>5, <1>p, Remeasured DEF observeWrites
  <2>2. /\ q'.pc = "judge" /\ q'.at = q.at /\ q'.verdict = q.verdict /\ Measuring
        /\ q'.since = IF ops # <<>> THEN now ELSE q.since
    BY <1>5, <1>p DEF observeWrites, Measurement, Measuring
  <2>3. QTypeOK'
    BY <1>5, <2>1, EmptyOps DEF observeWrites, stream, TypeOK, QTypeOK
  <2>4. WindowInv'
    BY <1>5, <1>p, <2>2
    DEF observeWrites, stream, TypeOK, QTypeOK, WindowInv, Measuring, Held
  <2> QED
    BY <1>5, <2>3, <2>4 DEF observeWrites
<1>6. ASSUME Judge PROVE P
  <2>1. CASE now - q.since < Quiet
    <3>1. q' \in Measurement
      BY <1>6, <2>1, <1>p, Remeasured DEF Judge
    <3> QED
      BY <1>6, <2>1, <3>1 DEF Judge, envVars, stream, TypeOK, QTypeOK, Measurement, WindowInv,
         Measuring, Held
  <2>2. CASE ~(now - q.since < Quiet) /\ quiescenceError(FALSE) = "nil"
    <3>1. q' \in Measurement
      BY <1>6, <2>2, <1>p, Remeasured DEF Judge
    <3> QED
      <4>1. now - q.since >= Quiet
        BY <2>2, <1>p, DurationsAreIntegers
      <4> QED
        BY <1>6, <2>2, <3>1, <4>1 DEF Judge, envVars, stream, TypeOK, QTypeOK, Measurement,
           WindowInv, Measuring, Held
  <2>3. CASE ~(now - q.since < Quiet) /\ quiescenceError(FALSE) # "nil"
    <3>1. q' \in Measurement /\ ~Measuring' /\ q'.pc = "done"
      BY <1>6, <2>3, <1>v, VerdictReached DEF Judge
    <3> QED
      BY <1>6, <3>1 DEF Judge, envVars, stream, TypeOK, QTypeOK, WindowInv
  <2> QED
    BY <2>1, <2>2, <2>3
<1>7. ASSUME vacuous PROVE P
  <2>1. q' \in Measurement /\ ~Measuring' /\ q'.pc = "done"
    BY <1>7, <1>v, VerdictReached DEF vacuous
  <2> QED
    BY <1>7, <2>1 DEF vacuous, envVars, stream, TypeOK, QTypeOK, WindowInv
<1> QED
  BY <1>1, <1>2, <1>3, <1>4, <1>5, <1>6, <1>7 DEF Measure
------------------------------------------------------------------------------
(* su keeps its type wherever the suite goes next. *)
LEMMA Gone ==
  ASSUME su \in Course, NEW pc \in SuPc, Go(pc)
  PROVE  su' \in Course
<1>1. 1 \in Join
  BY SuiteAssumption DEF Join
<1> QED
  BY <1>1 DEF Go, Course

(* The deadline of a cancellation is an instant. *)
LEMMA CancelledTypes ==
  ASSUME su \in Course, now \in Nat, NEW pc \in SuPc, Cancel(pc)
  PROVE  su' \in Course
<1>1. 1 \in Join /\ now \in Int /\ now + StopTimeout \in Int
  BY SuiteAssumption DEF Join
<1> QED
  BY <1>1 DEF Cancel, Course

(* Joining counts up to one past the managers and reports only those and   *)
(* the simulator.                                                          *)
LEMMA Joined ==
  ASSUME su \in Course, su.i <= NManagers
  PROVE  /\ su.i \in Manager
         /\ su' = [su EXCEPT !.i = @ + 1] => su' \in Course
         /\ Report(su.i) => su' \in Course
<1>1. su.i \in Manager /\ su.i + 1 \in Join
  BY SuiteAssumption DEF Course, Join, Manager
<1>2. su.errs \cup {su.i} \in Errors
  BY <1>1, SuiteAssumption DEF Course, Errors, Manager
<1> QED
  BY <1>1, <1>2 DEF Report, Course

(* Steps of the suite leave the measurement alone, except that the end of  *)
(* a case forgets it and that the clock goes on; they keep the types.      *)
LEMMA SuiteKeeps ==
  ASSUME TypeOK, WindowInv, Boot \/ Case \/ Teardown \/ managerStops \/ simStops \/ Tick
  PROVE  TypeOK' /\ WindowInv'
<1> USE SuiteAssumption DEF TypeOK, SuTypeOK
<1> DEFINE P == SuTypeOK' /\ UNCHANGED qvars
<1>0. ASSUME P PROVE TypeOK' /\ WindowInv'
  BY <1>0 DEF qvars, stream, QTypeOK, WindowInv, Measuring, Held
<1>g. \A pc \in SuPc : Go(pc) => su' \in Course
  BY Gone
<1>c. \A pc \in SuPc : Cancel(pc) => su' \in Course
  BY CancelledTypes DEF QTypeOK
<1>p. SuPc = {"boot", "managers", "start", "sync", "failWait", "failed", "up", "create", "case",
              "cleanup", "cleaned", "stopping", "stopEnv", "down"}
  BY DEF SuPc
<1>1. CASE envStart
  BY <1>1, <1>0, <1>g, <1>p DEF envStart
<1>2. CASE newManagers
  BY <1>2, <1>0, <1>g, <1>c, <1>p DEF newManagers
<1>3. CASE startManagers
  BY <1>3, <1>0, <1>g, <1>p DEF startManagers
<1>4. CASE bootEnds
  BY <1>4, <1>0, <1>g, <1>c, <1>p DEF bootEnds
<1>5. CASE bootFails
  <2>1. su' \in Course
    BY <1>5, <1>g, <1>p, Joined DEF bootFails
  <2> QED
    BY <1>5, <2>1, <1>0 DEF bootFails
<1>6. CASE Namespace
  BY <1>6, <1>g, <1>p DEF Namespace, stream, QTypeOK, WindowInv, Measuring, Held
<1>7. CASE createNamespace
  <2>1. SuTypeOK'
    BY <1>7, <1>g, <1>p DEF createNamespace
  <2>2. gate' \in BOOLEAN
    BY <1>7 DEF createNamespace, QTypeOK
  <2> QED
    BY <1>7, <2>1, <2>2 DEF createNamespace, stream, QTypeOK, WindowInv, Measuring, Held
<1>8. CASE caseEnds
  <2>1. SuTypeOK'
    BY <1>8, <1>g, <1>p DEF caseEnds
  <2>2. q' \in Measurement
    BY <1>8, IdleMeasurement DEF caseEnds
  <2>3. /\ ops' \in Seq({"accepted", "rejected"}) /\ events' \in Nat /\ lost' \in BOOLEAN
        /\ hold' \in Seq(Int) /\ arrived' \in SUBSET Int /\ lastOp' \in Int /\ seenOp' \in Int
        /\ now' \in Nat /\ acts' \in Int
    <3>1. /\ ops' = <<>> /\ events' = 0 /\ now' = 0 /\ acts' = 0
          /\ hold' = <<>> /\ arrived' = {} /\ lastOp' = 0 /\ seenOp' = 0
      BY <1>8 DEF caseEnds
    <3>2. lost' \in BOOLEAN
      BY <1>8, Zenon DEF caseEnds
    <3> QED
      BY <3>1, <3>2, EmptyOps
  <2>4. QTypeOK'
    BY <1>8, <2>2, <2>3 DEF caseEnds, QTypeOK
  <2>5. WindowInv'
    BY <1>8 DEF caseEnds, QIdle, WindowInv, Measuring
  <2> QED
    BY <2>1, <2>4, <2>5
<1>9. CASE Deactivate
  BY <1>9 DEF Deactivate, stream, suiteVars, QTypeOK, WindowInv, Measuring, Held
<1>10. CASE deleteNamespace
  BY <1>10, <1>0, <1>g, <1>p DEF deleteNamespace
<1>11. CASE teardown
  BY <1>11, <1>0, <1>c, <1>p DEF teardown
<1>12. CASE joinManager
  <2>1. su' \in Course
    BY <1>12, Joined DEF joinManager
  <2> QED
    BY <1>12, <2>1, <1>0 DEF joinManager
<1>13. CASE joinSim
  <2>1. su' \in Course
    <3>1. su.errs \cup {Sim} \in Errors /\ "stopEnv" \in SuPc
      BY <1>p DEF Sim, Errors, Course
    <3> QED
      BY <1>13, <3>1 DEF joinSim, Course
  <2> QED
    BY <1>13, <2>1, <1>0 DEF joinSim
<1>14. CASE envStop
  <2>1. su.errs \cup {Env} \in Errors /\ "down" \in SuPc /\ 1 \in Join
    BY <1>p DEF Env, Errors, Course, Join
  <2>2. su' \in Course
    BY <1>14, <2>1, <1>g DEF envStop, Course
  <2> QED
    BY <1>14, <2>2, <1>0 DEF envStop
<1>15. CASE managerStops
  BY <1>15, <1>0 DEF managerStops
<1>16. CASE simStops
  BY <1>16, <1>0 DEF simStops
<1>17. CASE Tick
  <2>1. \A i \in DOMAIN hold : now' - hold[i] <= visibilityLag
    BY <1>17, DurationsAreIntegers DEF Tick, HoldsInTime, QTypeOK
  <2> QED
    BY <1>17, <2>1, DurationsAreIntegers
    DEF Tick, envVars, stream, suiteVars, QTypeOK, WindowInv, Measuring, Measurement, Held
<1> QED
  BY <1>1, <1>2, <1>3, <1>4, <1>5, <1>6, <1>7, <1>8, <1>9, <1>10, <1>11, <1>12, <1>13, <1>14,
     <1>15, <1>16, <1>17 DEF Boot, Case, Teardown

(* Every variable of the suite and of a measurement keeps its type, and    *)
(* the window is as long as it is said to be, in every reachable state.    *)
THEOREM TypeCorrect == Spec => [](TypeOK /\ WindowInv)
<1>1. Init => TypeOK /\ WindowInv
  <2> SUFFICES ASSUME Init PROVE TypeOK /\ WindowInv
    OBVIOUS
  <2> USE SuiteAssumption
  <2>1. QTypeOK
    <3>1. pass \in [Pair -> Pass]
      BY DEF Init, QInit, Pass
    <3>2. hold \in Seq(Int) /\ arrived \in SUBSET Int /\ lastOp \in Int /\ seenOp \in Int
      BY DEF Init, QInit
    <3>3. ops \in Seq({"accepted", "rejected"})
      BY EmptyOps DEF Init, QInit
    <3>4. gate \in BOOLEAN /\ lost \in BOOLEAN
      BY Zenon DEF Init, QInit
    <3> QED
      BY <3>1, <3>2, <3>3, <3>4, IdleMeasurement DEF Init, QInit, QTypeOK
  <2>2. SuTypeOK
    <3>1. "boot" \in SuPc /\ 1 \in Join /\ {} \in Errors
      BY DEF SuPc, Join, Errors
    <3>2. su \in Course
      BY <3>1 DEF Init, Course
    <3> QED
      BY <3>2 DEF Init, SuTypeOK
  <2>3. WindowInv
    BY DEF Init, QInit, QIdle, WindowInv, Measuring
  <2> QED
    BY <2>1, <2>2, <2>3 DEF TypeOK
<1>2. TypeOK /\ WindowInv /\ [Next]_vars => (TypeOK /\ WindowInv)'
  <2> SUFFICES ASSUME TypeOK, WindowInv, [Next]_vars PROVE (TypeOK /\ WindowInv)'
    OBVIOUS
  <2>1. CASE Boot \/ Case \/ Teardown \/ managerStops \/ simStops \/ Tick
    BY <2>1, SuiteKeeps
  <2>2. CASE Measure /\ UNCHANGED suiteVars
    BY <2>2, MeasureKeeps DEF TypeOK, SuTypeOK, suiteVars
  <2>3. CASE Activity /\ UNCHANGED suiteVars
    BY <2>3, ActivityKeeps DEF TypeOK, SuTypeOK, suiteVars
  <2>4. CASE UNCHANGED vars
    BY <2>4 DEF vars, qvars, stream, suiteVars, TypeOK, QTypeOK, SuTypeOK, WindowInv, Measuring, Held
  <2> QED
    BY <2>1, <2>2, <2>3, <2>4 DEF Next
<1> QED
  BY <1>1, <1>2, PTL DEF Spec

(* A quiet verdict is earned, whatever Quiet and Timeout are and whatever  *)
(* arrives while TryQuiescent waits (TryQuiescent's loop and floor).       *)
THEOREM QuietEarned == Spec => QuietIsEarned
<1> DEFINE Step == q'.verdict = "nil" /\ q.verdict = "none" =>
                     /\ \A t \in arrived : now - t >= Quiet \/ t >= q.at - visibilityLag
                     /\ now - seenOp >= Quiet
                     /\ \E p \in Pair : pass[p].last # "none"
<1>1. TypeOK /\ WindowInv /\ [Next]_vars => [Step]_qvars
  <2> SUFFICES ASSUME TypeOK, WindowInv, [Next]_vars, q'.verdict = "nil", q.verdict = "none"
               PROVE  /\ \A t \in arrived : now - t >= Quiet \/ t >= q.at - visibilityLag
                      /\ now - seenOp >= Quiet
                      /\ \E p \in Pair : pass[p].last # "none"
    OBVIOUS
  <2>1. q' # q
    OBVIOUS
  <2>2. vacuous
    <3>1. CASE Boot \/ Case \/ Teardown \/ managerStops \/ simStops \/ Tick
      <4>1. q' = q \/ q' = QIdle
        BY <3>1 DEF Boot, envStart, newManagers, startManagers, bootEnds, bootFails, Case,
           Namespace,
          createNamespace, caseEnds, Deactivate, deleteNamespace, Teardown, teardown, joinManager,
          joinSim, envStop, managerStops, simStops, Tick, qvars
      <4> QED
        BY <2>1, <4>1 DEF QIdle
    <3>2. CASE Activity
      BY <2>1, <3>2, ActivityKeeps
    <3>3. CASE Measure
      <4>1. \A v \in Verdicts : Verdict(v) => q'.verdict = v
        BY DEF Verdict, QIdle
      <4>2. "void" \in Verdicts /\ \A b \in BOOLEAN : quiescenceError(b) \in Verdicts
        BY DEF Verdicts, quiescenceError
      <4>3. quiescenceError(TRUE) # "nil"
        BY DEF quiescenceError
      <4> QED
        BY <3>3, <4>1, <4>2, <4>3
        DEF Measure, TryQuiescent, Top, observeEvent, NextFails, observeWrites, Judge, TypeOK, QTypeOK, Measurement
    <3> QED
      BY <2>1, <3>1, <3>2, <3>3 DEF Next, vars, qvars
  <2>3. \E p \in Pair : pass[p].last # "none"
    BY <2>2 DEF vacuous, Verdict, QIdle
  <2>4. /\ now - q.since >= Quiet /\ seenOp <= q.since
        /\ \A t \in arrived : t <= q.since \/ t >= q.at - visibilityLag
        /\ now \in Int /\ q.since \in Int /\ seenOp \in Int /\ arrived \subseteq Int
    BY <2>2 DEF vacuous, WindowInv, Measuring, TypeOK, QTypeOK, Measurement
  <2> QED
    BY <2>3, <2>4, DurationsAreIntegers
<1> QED
  BY <1>1, TypeCorrect, PTL DEF Spec, QuietIsEarned
------------------------------------------------------------------------------
(* Time, the managers and the simulator move on as the joins expect. *)
LEMMA JoinInvInductive ==
  ASSUME TypeOK, TypeOK', JoinInv, [Next]_vars
  PROVE  JoinInv'
<1> USE SuiteAssumption
<1>t. /\ now \in Nat /\ now' \in Nat /\ su.cancelledAt \in Int /\ su.until \in Int /\ su.i \in 1..(NManagers + 1)
      /\ su \in Course /\ mgr \in [Manager -> {"absent", "built", "running", "stopped", "failed"}]
  BY DEF TypeOK, QTypeOK, SuTypeOK, Course, Join
<1>1. CASE envStart
  BY <1>1, <1>t DEF envStart, Go, At, JoinInv, Cancelled, Measuring, qvars, Started, Overdue,
     Reported, Course
<1>c. ASSUME NEW pc, Cancel(pc)
      PROVE  /\ su'.pc = pc /\ su'.i = 1 /\ su'.cancelledAt = now /\ su'.until = now + StopTimeout
             /\ now >= 0 /\ now <= now + StopTimeout
  BY <1>c, <1>t DEF Cancel, Course
<1>2. CASE newManagers
  <2>1. CASE Go("start")
    BY <1>2, <1>t, <2>1 DEF newManagers, Go, At, JoinInv, Cancelled, Measuring, qvars, Started,
       Overdue, Reported, Course
  <2>2. CASE Cancel("failWait")
    BY <1>2, <1>c, <2>2 DEF newManagers, At, JoinInv, Cancelled, Measuring, qvars, Started,
       Overdue, Manager
  <2> QED
    BY <1>2, <2>1, <2>2 DEF newManagers
<1>3. CASE startManagers
  BY <1>3, <1>t DEF startManagers, Go, At, JoinInv, Cancelled, Measuring, qvars, Started, Overdue,
     Reported, Course
<1>4. CASE bootEnds
  <2>1. CASE Go("up")
    BY <1>4, <1>t, <2>1 DEF bootEnds, Go, At, JoinInv, Cancelled, Measuring, qvars, Course
  <2>2. CASE Cancel("failWait")
    <3>1. /\ su'.pc = "failWait" /\ su'.i = 1 /\ su'.cancelledAt = now /\ su'.until = now + StopTimeout
          /\ now >= 0 /\ now <= now + StopTimeout
      BY <1>c, <2>2
    <3>2. sim' = "off" /\ \A m \in Manager : Started(m) /\ ~(m < 1)
      <4>1. ~Go("up")
        BY <1>t, <3>1 DEF Go, Course
      <4>2. \A m \in Manager : ~(m < 1)
        BY DEF Manager
      <4> QED
        BY <1>4, <4>1, <4>2 DEF bootEnds, At, JoinInv
    <3> QED
      BY <1>4, <3>1, <3>2 DEF bootEnds, At, JoinInv, Cancelled, Measuring, qvars, Started, Overdue
  <2> QED
    BY <1>4, <2>1, <2>2 DEF bootEnds
<1>5. CASE bootFails
  <2>1. CASE su.i <= NManagers /\ Started(su.i)
    <3>1. su'.pc = "failWait" /\ su'.i = su.i + 1 /\ su'.cancelledAt = su.cancelledAt /\ su'.until = su.until
      BY <1>5, <1>t, <2>1 DEF bootFails, At, Course
    <3>2. \A m \in Manager : m < su.i + 1 => m < su.i \/ m = su.i
      BY <1>t DEF Manager
    <3>3. Overdue(su.i)
      BY <1>5, <2>1 DEF bootFails, Overdue
    <3> QED
      BY <1>5, <2>1, <3>1, <3>2, <3>3 DEF bootFails, At, JoinInv, Cancelled, Measuring, qvars,
         Started, Overdue
  <2>2. CASE ~(su.i <= NManagers /\ Started(su.i))
    <3>1. su'.pc = "failed" /\ su'.cancelledAt = su.cancelledAt /\ su'.until = su.until /\ env' # "off"
      BY <1>5, <1>t, <2>2 DEF bootFails, Go, Course, At, JoinInv
    <3>2. ASSUME NEW m \in Manager PROVE Overdue(m)
      <4>1. CASE \A n \in Manager : Started(n)
        <5>1. m < su.i
          BY <1>t, <2>2, <4>1 DEF Manager
        <5> QED
          BY <1>5, <5>1 DEF bootFails, At, JoinInv
      <4>2. CASE \A n \in Manager : ~Started(n)
        BY <4>2 DEF Started, Overdue
      <4> QED
        BY <1>5, <4>1, <4>2 DEF bootFails, At, JoinInv
    <3> QED
      BY <1>5, <3>1, <3>2 DEF bootFails, At, JoinInv, Cancelled, Measuring, qvars, Started, Overdue
  <2> QED
    BY <2>1, <2>2
<1>6. CASE Namespace
  BY <1>6, <1>t DEF Namespace, Go, At, JoinInv, Cancelled, Measuring, Started, Overdue, Reported,
     Course
<1>7. CASE createNamespace
  BY <1>7, <1>t DEF createNamespace, Go, At, JoinInv, Cancelled, Measuring, Started, Overdue,
     Reported, Course
<1>8. CASE caseEnds
  BY <1>8, <1>t DEF caseEnds, QIdle, Go, At, JoinInv, Cancelled, Measuring, Started, Overdue,
     Reported, Course
<1>9. CASE Deactivate
  BY <1>9, <1>t DEF Deactivate, suiteVars, At, JoinInv, Cancelled, Measuring, Started, Overdue,
     Reported
<1>10. CASE deleteNamespace
  BY <1>10, <1>t DEF deleteNamespace, Go, At, JoinInv, Cancelled, Measuring, qvars, Started,
     Overdue, Reported, Course
<1>11. CASE teardown
  BY <1>11, <1>t DEF teardown, Cancel, At, JoinInv, Cancelled, Measuring, qvars, Started, Overdue,
     Reported, Course, Manager
<1>12. CASE joinManager
  <2>1. /\ su'.pc = "stopping" /\ su'.i = su.i + 1 /\ su'.cancelledAt = su.cancelledAt
        /\ su'.until = su.until /\ su.errs \subseteq su'.errs
    <3>1. CASE su' = [su EXCEPT !.i = @ + 1]
      BY <1>12, <1>t, <3>1 DEF joinManager, At, Course
    <3>2. CASE Report(su.i)
      BY <1>12, <1>t, <3>2 DEF joinManager, Report, At, Course
    <3> QED
      BY <1>12, <3>1, <3>2 DEF joinManager
  <2>2. \A m \in Manager : m < su.i + 1 => m < su.i \/ m = su.i
    BY <1>t DEF Manager
  <2>3. mgr[su.i] = "running" => now >= su.until /\ su.i \in su'.errs
    BY <1>12, <1>t, ZenonT(60) DEF joinManager, Report, Course
  <2> QED
    BY <1>12, <2>1, <2>2, <2>3 DEF joinManager, At, JoinInv, Cancelled, Measuring, qvars, Reported
<1>13. CASE joinSim
  <2>1. /\ su'.pc = "stopEnv" /\ su'.cancelledAt = su.cancelledAt
        /\ su'.until = su.until /\ su.errs \subseteq su'.errs
    <3>1. CASE su' = [su EXCEPT !.pc = "stopEnv"]
      BY <1>t, <3>1 DEF Course
    <3>2. CASE su' = [su EXCEPT !.pc = "stopEnv", !.errs = @ \cup {Sim}]
      BY <1>t, <3>2 DEF Course
    <3> QED
      BY <1>13, <3>1, <3>2 DEF joinSim
  <2>2. \A m \in Manager : m < su.i
    BY <1>13, <1>t DEF joinSim, Manager
  <2>3. sim = "running" => now >= su.until /\ Sim \in su'.errs
    BY <1>13, <1>t DEF joinSim, Course
  <2> QED
    BY <1>13, <2>1, <2>2, <2>3 DEF joinSim, At, JoinInv, Cancelled, Measuring, qvars, Reported
<1>14. CASE envStop
  BY <1>14, <1>t DEF envStop, Env, Go, At, JoinInv, Cancelled, Measuring, qvars, Started, Overdue,
     Reported, Course
<1>15. CASE managerStops
  BY <1>15, <1>t DEF managerStops, At, JoinInv, Cancelled, Measuring, qvars, Started, Overdue,
     Reported
<1>16. CASE simStops
  BY <1>16, <1>t DEF simStops, At, JoinInv, Cancelled, Measuring, qvars, Started, Overdue, Reported
<1>17. CASE Tick
  BY <1>17, <1>t DEF Tick, Blocked, suiteVars, At, JoinInv, Cancelled, Measuring, Started, Overdue,
     Reported
<1>18. CASE At("case") /\ Measure /\ UNCHANGED suiteVars
  <2>1. now' = now
    BY <1>18 DEF Measure, TryQuiescent, Top, observeEvent, NextFails, observeWrites, Judge, vacuous
  <2> QED
    BY <1>18, <2>1 DEF suiteVars, At, JoinInv, Cancelled, Started, Overdue, Reported
<1>19. CASE Activity /\ UNCHANGED suiteVars
  <2>1. UNCHANGED <<q, now>>
    BY <1>19 DEF Activity, Admit, Answered, Filed, Returns, FakeWrites, Ripens, StreamLost
  <2> QED
    BY <1>19, <2>1 DEF suiteVars, At, JoinInv, Cancelled, Measuring, Started, Overdue, Reported
<1>20. CASE UNCHANGED vars
  BY <1>20 DEF vars, qvars, suiteVars, At, JoinInv, Cancelled, Measuring, Started, Overdue, Reported
<1> QED
  BY <1>1, <1>2, <1>3, <1>4, <1>5, <1>6, <1>7, <1>8, <1>9, <1>10, <1>11, <1>12, <1>13, <1>14,
     <1>15, <1>16, <1>17, <1>18, <1>19, <1>20 DEF Next, Boot, Case, Teardown

(* envtest is stopped last, and everything under it was given the one      *)
(* deadline, for any number of managers (teardown, Boot's failure path).   *)
THEOREM EnvtestStopsLast == Spec => []EnvStopsLast
<1>1. Init => JoinInv
  BY SuiteAssumption DEF Init, QInit, QIdle, JoinInv, Measuring, At, Cancelled, Started
<1>2. TypeOK /\ TypeOK' /\ JoinInv /\ [Next]_vars => JoinInv'
  BY JoinInvInductive
<1>3. TypeOK /\ JoinInv => EnvStopsLast
  <2> SUFFICES ASSUME TypeOK, JoinInv PROVE EnvStopsLast
    OBVIOUS
  <2>1. Cancelled => now <= su.cancelledAt + StopTimeout
    BY DEF JoinInv
  <2>2. ASSUME env = "stopped", Running # {}
        PROVE  now >= su.cancelledAt + StopTimeout /\ (su.pc = "down" => Running \subseteq su.errs)
    <3>1. su.until = su.cancelledAt + StopTimeout
      BY <2>2 DEF JoinInv, At
    <3>2. CASE su.pc = "failed"
      BY <2>2, <3>1, <3>2 DEF JoinInv, At, Running, Overdue
    <3>3. CASE su.pc = "down"
      BY <2>2, <3>1, <3>3 DEF JoinInv, At, Running, Reported
    <3> QED
      BY <2>2, <3>2, <3>3 DEF JoinInv
  <2> QED
    BY <2>1, <2>2 DEF EnvStopsLast
<1> QED
  BY <1>1, <1>2, <1>3, TypeCorrect, PTL DEF Spec
==============================================================================
