-------------------------- MODULE InterceptorProofs --------------------------
(* What TLAPS proves of Interceptor, for every set of controllers, workers,  *)
(* requests and namespaces and every value of the bounds.                    *)
EXTENDS Interceptor, TLAPS

(* The types of the constants, apart so that no leaf sees more than it needs. *)
LEMMA ConstType ==
  /\ PauseRetry \in Nat /\ AnyController \notin Controller
  /\ \A asked \in Asked : asked \in Nat /\ Clamped(asked) \in Nat
  BY InterceptorAssumption DEF Clamped

(* The locals of a fresh call are well typed. *)
LEMMA CallType ==
  /\ NoCall \in Pass
  /\ \A r \in Request, b \in BOOLEAN : Call(r, b) \in Pass
  BY InterceptorAssumption DEF NoCall, Call, Pass

(* Activate keeps the locals of every worker well typed. *)
LEMMA PassOpened ==
  ASSUME NEW p \in Pass, NEW b \in BOOLEAN
  PROVE  [p EXCEPT !.opened = b] \in Pass
  BY DEF Pass

(* So does the refusal of a paused request. *)
LEMMA PassRefused ==
  ASSUME NEW p \in Pass, NEW m \in Nat, NEW n \in Nat
  PROVE  LET q == [p EXCEPT !.after = m, !.pause = n]
         IN  /\ q \in Pass
             /\ q.req = p.req /\ q.opened = p.opened
             /\ q.after = m /\ q.pause = n
  BY DEF Pass

(* So does the start of a pass. *)
LEMMA PassStarted ==
  ASSUME NEW p \in Pass, NEW m \in Nat, NEW n \in Nat
  PROVE  LET q == [p EXCEPT !.from = m, !.start = n]
         IN  /\ q \in Pass
             /\ q.req = p.req /\ q.opened = p.opened
             /\ q.from = m /\ q.start = n
  BY DEF Pass

(* So does the return of the delegate. *)
LEMMA PassReturned ==
  ASSUME NEW p \in Pass, NEW m \in Nat, NEW n \in Nat, NEW k \in Nat, NEW b \in BOOLEAN
  PROVE  LET q == [p EXCEPT !.to = m, !.err = b, !.asked = n, !.after = k]
         IN  /\ q \in Pass
             /\ q.req = p.req /\ q.opened = p.opened
             /\ q.from = p.from /\ q.start = p.start
             /\ q.to = m
  BY DEF Pass

(* A worker's controller and namespace are in their sets. *)
LEMMA CtrlNsType ==
  ASSUME TypeOK, NEW w \in Worker
  PROVE  Ctrl(w) \in Controller /\ Ns(w) \in Namespace /\ pass[w].req \in Request
  BY InterceptorAssumption DEF TypeOK, Ctrl, Ns, Pass

(* append keeps the log and the sequence numbers well typed. *)
LEMMA RecordType ==
  ASSUME TypeOK, NEW w \in Worker, NEW gated \in BOOLEAN, append(w, gated)
  PROVE  log' \in Seq(Record) /\ seq' \in [Controller -> Nat]
<1> DEFINE n == IF gated THEN 0 ELSE seq[Ctrl(w)] + 1
           rec == [controller |-> Ctrl(w), req |-> pass[w].req, gated |-> gated, seq |-> n,
                   after |-> pass[w].after, asked |-> pass[w].asked, err |-> pass[w].err,
                   from |-> pass[w].from, to |-> pass[w].to,
                   start |-> IF gated THEN started[Ctrl(w)] ELSE pass[w].start,
                   pause |-> pass[w].pause]
<1>1. Ctrl(w) \in Controller /\ n \in Nat
  BY CtrlNsType DEF TypeOK
<1>2. rec \in Record
  BY <1>1, CtrlNsType DEF TypeOK, Pass, Record
<1>3. log' = Append(log, rec)
  BY DEF append
<1>4. log' \in Seq(Record)
  BY <1>2, <1>3 DEF TypeOK
<1>5. seq' \in [Controller -> Nat]
  BY <1>1 DEF append, TypeOK
<1>6. QED
  BY <1>4, <1>5

(* Requeue keeps the workqueue and the locals well typed. *)
LEMMA RequeueType ==
  ASSUME TypeOK, NEW w \in Worker, NEW after \in Nat, NEW err \in BOOLEAN,
         Requeue(w, after, err)
  PROVE  /\ delayed' \in [Controller -> SUBSET Request]
         /\ queue' \in [Controller -> SUBSET Request]
         /\ pc' \in [Worker -> Locations]
         /\ pass' \in [Worker -> Pass]
<1>1. delayed' \in [Controller -> SUBSET Request] /\ queue' \in [Controller -> SUBSET Request]
  BY CtrlNsType DEF TypeOK, Requeue
<1>2. pc' \in [Worker -> Locations]
  BY DEF TypeOK, Requeue, Locations
<1>3. pass' \in [Worker -> Pass]
  BY CallType DEF TypeOK, Requeue
<1>4. QED
  BY <1>1, <1>2, <1>3

(* Type correctness of every variable of the interceptor model. *)
THEOREM TypeCorrect == Spec => []TypeOK
<1>1. Init => TypeOK
  BY CallType DEF Init, TypeOK, Locations, Key
<1>2. ASSUME TypeOK, [Next]_vars
      PROVE  TypeOK'
  <2> USE <1>2 DEF gateVars, logVars, wqVars
  <2>1. ASSUME NEW ns \in Namespace, Activate(ns)
        PROVE  TypeOK'
    <3>1. pass' \in [Worker -> Pass]
      <4>1. ASSUME NEW w \in Worker
            PROVE  [pass[w] EXCEPT !.opened = @ \/ (pc[w] # "idle" /\ Ns(w) = ns)] \in Pass
        BY PassOpened DEF TypeOK
      <4>2. QED
        BY <2>1, <4>1 DEF Activate, TypeOK
    <3>2. QED
      BY <2>1, <3>1 DEF Activate, clearPauseLocked, TypeOK
  <2>2. ASSUME NEW ns \in Namespace, Deactivate(ns)
        PROVE  TypeOK'
    BY <2>2 DEF Deactivate, clearPauseLocked, TypeOK
  <2>3. ASSUME NEW ns \in Namespace, Pause(ns)
        PROVE  TypeOK'
    BY <2>3 DEF Pause, clearPauseLocked, TypeOK
  <2>4. ASSUME NEW c \in Controller, NEW r \in Request, Enqueue(c, r)
        PROVE  TypeOK'
    BY <2>4 DEF Enqueue, TypeOK
  <2>5. ASSUME NEW c \in Controller, NEW r \in Request, DelayElapsed(c, r)
        PROVE  TypeOK'
    BY <2>5 DEF DelayElapsed, TypeOK
  <2>6. ASSUME NEW w \in Worker, NEW r \in Request, Dequeue(w, r)
        PROVE  TypeOK'
    <3>1. pass' \in [Worker -> Pass]
      BY <2>6, CallType DEF Dequeue, TypeOK
    <3>2. QED
      BY <2>6, <3>1, CtrlNsType DEF Dequeue, Locations, TypeOK
  <2>7. ASSUME NEW w \in Worker, Check(w)
        PROVE  TypeOK'
    BY <2>7 DEF Check, Locations, TypeOK
  <2>8. ASSUME NEW w \in Worker, refuse(w)
        PROVE  TypeOK'
    <3>1. CASE RefuseAdmits(w)
      BY <2>8, <3>1 DEF refuse, RefuseAdmits, Locations, TypeOK
    <3>2. CASE RefuseDrops(w)
      BY <2>8, <3>2 DEF refuse, RefuseDrops, Locations, TypeOK
    <3>3. CASE RefuseRetries(w) /\ Requeue(w, PauseRetry, FALSE)
      <4>1. /\ delayed' \in [Controller -> SUBSET Request]
            /\ queue' \in [Controller -> SUBSET Request]
            /\ pc' \in [Worker -> Locations] /\ pass' \in [Worker -> Pass]
        BY <3>3, ConstType, RequeueType
      <4>2. gatedOnce' \subseteq Key
        BY <3>3, CtrlNsType DEF RefuseRetries, Key, TypeOK
      <4>3. QED
        BY <2>8, <4>1, <4>2 DEF refuse, logVars, TypeOK
    <3>4. CASE RefuseRetries(w) /\ ~Requeue(w, PauseRetry, FALSE)
      <4>1. pass' \in [Worker -> Pass]
        <5>1. [pass[w] EXCEPT !.after = PauseRetry, !.pause = pauses[Ns(w)]] \in Pass
          BY ConstType, CtrlNsType, PassRefused DEF TypeOK
        <5>2. pass \in [Worker -> Pass]
          BY DEF TypeOK
        <5>3. pass' = [pass EXCEPT ![w] = [@ EXCEPT !.after = PauseRetry,
                                                   !.pause = pauses[Ns(w)]]]
          BY <3>4 DEF RefuseRetries
        <5>4. pass'[w] = [pass[w] EXCEPT !.after = PauseRetry, !.pause = pauses[Ns(w)]]
          BY <5>2, <5>3
        <5>5. pass'[w] \in Pass
          BY <5>1, <5>4
        <5>6. DOMAIN pass' = Worker /\ \A v \in Worker : v # w => pass'[v] = pass[v]
          BY <5>2, <5>3
        <5>7. pass' = [v \in Worker |-> pass'[v]]
          BY <5>2, <5>3
        <5>8. QED
          BY <5>2, <5>5, <5>6, <5>7
      <4>2. gatedOnce' \subseteq Key
        BY <3>4, CtrlNsType DEF RefuseRetries, Key, TypeOK
      <4>3. pc' = [pc EXCEPT ![w] = "gated"] /\ UNCHANGED <<queue, delayed>>
        BY <3>4 DEF RefuseRetries, wqVars
      <4>4. pc' \in [Worker -> Locations]
        BY <4>3 DEF Locations, TypeOK
      <4>5. QED
        BY <2>8, <4>1, <4>2, <4>3, <4>4 DEF refuse, logVars, TypeOK
    <3>5. QED
      BY <2>8, <3>1, <3>2, <3>3, <3>4 DEF refuse, TypeOK
  <2>9. ASSUME NEW w \in Worker, AppendGated(w)
        PROVE  TypeOK'
    <3>1. pass[w].after \in Nat
      BY DEF Pass, TypeOK
    <3>2. QED
      BY <2>9, <3>1, RequeueType, RecordType DEF AppendGated, TypeOK
  <2>10. ASSUME NEW w \in Worker, StartPass(w)
         PROVE  TypeOK'
    <3>1. pass' \in [Worker -> Pass]
      <4>1. Len(ops) \in Nat /\ started[Ctrl(w)] + 1 \in Nat /\ pass[w] \in Pass
        BY CtrlNsType DEF TypeOK
      <4>2. [pass[w] EXCEPT !.from = Len(ops), !.start = started[Ctrl(w)] + 1] \in Pass
        BY <4>1, PassStarted
      <4>3. QED
        BY <2>10, <4>2 DEF StartPass, TypeOK
    <3>2. QED
      <4>1. pc' \in [Worker -> Locations]
        BY <2>10 DEF StartPass, Locations, TypeOK
      <4>2. started' \in [Controller -> Nat]
        <5>1. started' = [started EXCEPT ![Ctrl(w)] = @ + 1]
          BY <2>10 DEF StartPass
        <5>2. Ctrl(w) \in Controller
          BY CtrlNsType
        <5>3. QED
          BY <5>1, <5>2 DEF TypeOK
      <4>3. UNCHANGED <<active, paused, gatedOnce, gate, pauses, seq, log, ops, queue,
                        delayed, events, outcome>>
        BY <2>10 DEF StartPass
      <4>4. QED
        BY <3>1, <4>1, <4>2, <4>3 DEF TypeOK
  <2>11. ASSUME NEW w \in Worker, NEW asked \in Asked, NEW err \in BOOLEAN,
                DelegateReturn(w, asked, err)
         PROVE  TypeOK'
    <3>1. Clamped(asked) \in Nat /\ asked \in Nat
      BY ConstType
    <3>2. pass' \in [Worker -> Pass]
      <4>1. [pass[w] EXCEPT !.to = Len(ops), !.err = err, !.asked = asked,
                            !.after = Clamped(asked)] \in Pass
        <5>1. Len(ops) \in Nat /\ pass[w] \in Pass
          BY DEF TypeOK
        <5>2. QED
          BY <3>1, <5>1, PassReturned
      <4>2. QED
        BY <2>11, <4>1 DEF DelegateReturn, TypeOK
    <3>3. <<Ctrl(w), pass[w].req>> \in Key
      BY CtrlNsType DEF Key, TypeOK
    <3>4. QED
      BY <2>11, <3>2, <3>3 DEF DelegateReturn, Locations, TypeOK
  <2>12. ASSUME NEW w \in Worker, FilePass(w)
         PROVE  TypeOK'
    <3>1. pass[w].after \in Nat /\ pass[w].err \in BOOLEAN
      BY DEF Pass, TypeOK
    <3>2. QED
      <4>1. Requeue(w, pass[w].after, pass[w].err) /\ append(w, FALSE)
        BY <2>12 DEF FilePass
      <4>2. /\ delayed' \in [Controller -> SUBSET Request]
            /\ queue' \in [Controller -> SUBSET Request]
            /\ pc' \in [Worker -> Locations]
            /\ pass' \in [Worker -> Pass]
        BY <3>1, <4>1, RequeueType
      <4>3. log' \in Seq(Record) /\ seq' \in [Controller -> Nat]
        BY <4>1, RecordType
      <4>4. QED
        BY <2>12, <4>2, <4>3 DEF FilePass, TypeOK
  <2>13. ASSUME NEW w \in Worker, DelegatePanic(w)
         PROVE  TypeOK'
    <3>1. <<Ctrl(w), pass[w].req>> \in Key
      BY CtrlNsType DEF Key, TypeOK
    <3>2. QED
      BY <2>13, <3>1, RequeueType DEF DelegatePanic, TypeOK
  <2>14. ASSUME NEW w \in Worker, NEW accepted \in BOOLEAN, DelegateWrite(w, accepted)
         PROVE  TypeOK'
    <3>1. [controller |-> Ctrl(w), accepted |-> accepted, by |-> pass[w].start] \in Op
      BY CtrlNsType DEF Op, Pass, TypeOK
    <3>2. QED
      BY <2>14, <3>1 DEF DelegateWrite, TypeOK
  <2>15. CASE OutsideWrite
    <3>1. [controller |-> AnyController, accepted |-> TRUE, by |-> 0] \in Op
      BY DEF Op, TypeOK
    <3>2. QED
      BY <2>15, <3>1 DEF OutsideWrite, TypeOK
  <2>16. CASE UNCHANGED vars
    BY <2>16 DEF vars, TypeOK
  <2>17. QED
    BY <1>2, <2>1, <2>2, <2>3, <2>4, <2>5, <2>6, <2>7, <2>8, <2>9, <2>10, <2>11, <2>12,
       <2>13, <2>14, <2>15, <2>16 DEF Next, WorkerStep
<1>3. QED
  BY <1>1, <1>2, PTL DEF Spec
------------------------------------------------------------------------------
(* The gate.  The active and paused sets say what the test last asked for,   *)
(* and a call in progress remembers every opening of its namespace.          *)

GateInv ==
  /\ \A ns \in Namespace : /\ ns \in active <=> gate[ns] = "open"
                           /\ ns \in paused <=> gate[ns] = "paused"
  /\ \A w \in Worker : pc[w] # "idle" /\ gate[Ns(w)] = "open" => pass[w].opened
  /\ NoAdmissionAfterPause

(* A step that keeps the request and the opened flag of the call it updates. *)
LEMMA SameRequest ==
  ASSUME TypeOK, NEW w \in Worker, NEW q,
         q.req = pass[w].req, q.opened = pass[w].opened, pass' = [pass EXCEPT ![w] = q]
  PROVE  \A v \in Worker : /\ pass'[v].req = pass[v].req
                           /\ pass'[v].opened = pass[v].opened
                           /\ Ns(v)' = Ns(v)
  BY DEF TypeOK, Ns

(* GateInv is inductive, one case per action. *)
LEMMA GateInvInductive ==
  ASSUME TypeOK, GateInv, [Next]_vars
  PROVE  GateInv'
<1> USE DEF GateInv, NoAdmissionAfterPause, Running
<1>1. ASSUME NEW ns \in Namespace, Activate(ns)
      PROVE  GateInv'
  <2>1. \A w \in Worker : /\ pass'[w].req = pass[w].req
                          /\ pass[w].opened => pass'[w].opened
                          /\ pc[w] # "idle" /\ Ns(w) = ns => pass'[w].opened
    <3> SUFFICES ASSUME NEW w \in Worker
                 PROVE  /\ pass'[w].req = pass[w].req
                        /\ pass[w].opened => pass'[w].opened
                        /\ pc[w] # "idle" /\ Ns(w) = ns => pass'[w].opened
      OBVIOUS
    <3>1. pass'[w] = [pass[w] EXCEPT !.opened = @ \/ (pc[w] # "idle" /\ Ns(w) = ns)]
      BY <1>1 DEF Activate
    <3>2. pass[w] \in Pass
      BY DEF TypeOK
    <3>3. QED
      BY <3>1, <3>2 DEF Pass
  <2>2. \A w \in Worker : Ns(w)' = Ns(w) /\ Ns(w) \in Namespace
    BY <2>1, CtrlNsType DEF Ns
  <2>3. /\ active' = active \cup {ns} /\ paused' = paused \ {ns}
        /\ gate' = [gate EXCEPT ![ns] = "open"] /\ pc' = pc
    BY <1>1 DEF Activate
  <2>4. gate \in [Namespace -> {"open", "closed", "paused"}]
    BY DEF TypeOK
  <2>5. \A m \in Namespace : /\ m \in active' <=> gate'[m] = "open"
                             /\ m \in paused' <=> gate'[m] = "paused"
    BY <2>3, <2>4
  <2>6. \A w \in Worker : pc'[w] # "idle" /\ gate'[Ns(w)] = "open" => pass'[w].opened
    BY <2>1, <2>2, <2>3, <2>4
  <2>7. QED
    BY <2>1, <2>2, <2>3, <2>5, <2>6
<1>2. ASSUME NEW ns \in Namespace, Deactivate(ns)
      PROVE  GateInv'
  BY <1>2, CtrlNsType DEF Deactivate, TypeOK, Ns
<1>3. ASSUME NEW ns \in Namespace, Pause(ns)
      PROVE  GateInv'
  BY <1>3, CtrlNsType DEF Pause, TypeOK, Ns
<1>4. ASSUME NEW w \in Worker, NEW r \in Request, Dequeue(w, r)
      PROVE  GateInv'
  <2>1. pass'[w].req = r /\ pass'[w].opened = (gate[NamespaceOf[r]] = "open")
    BY <1>4 DEF Dequeue, Call, TypeOK
  <2>2. \A v \in Worker \ {w} : pass'[v] = pass[v] /\ pc'[v] = pc[v] /\ Ns(v)' = Ns(v)
    BY <1>4 DEF Dequeue, TypeOK, Ns
  <2>3. pc'[w] = "check" /\ Ns(w)' = NamespaceOf[r]
    BY <1>4, <2>1 DEF Dequeue, TypeOK, Ns
  <2>4. QED
    BY <1>4, <2>1, <2>2, <2>3 DEF Dequeue, gateVars
<1>5. ASSUME NEW w \in Worker, Check(w)
      PROVE  GateInv'
  BY <1>5, CtrlNsType DEF Check, gateVars, TypeOK, Ns
<1>6. ASSUME NEW w \in Worker, NEW after, NEW err, Requeue(w, after, err), UNCHANGED <<active, paused, gate>>
      PROVE  GateInv'
  <2>1. pc'[w] = "idle"
    BY <1>6 DEF Requeue, TypeOK
  <2>2. \A v \in Worker \ {w} : pass'[v] = pass[v] /\ pc'[v] = pc[v] /\ Ns(v)' = Ns(v)
    BY <1>6 DEF Requeue, TypeOK, Ns
  <2>3. QED
    BY <1>6, <2>1, <2>2
<1>7. ASSUME NEW w \in Worker, refuse(w)
      PROVE  GateInv'
  <2>1. CASE RefuseAdmits(w)
    BY <1>7, <2>1, CtrlNsType DEF refuse, RefuseAdmits, TypeOK, Ns
  <2>2. CASE RefuseDrops(w)
    BY <1>7, <2>2, CtrlNsType DEF refuse, RefuseDrops, TypeOK, Ns
  <2>3. CASE RefuseRetries(w) /\ <<Ctrl(w), pass[w].req>> \in gatedOnce
    BY <1>6, <1>7, <2>3 DEF refuse, RefuseRetries
  <2>4. CASE RefuseRetries(w) /\ <<Ctrl(w), pass[w].req>> \notin gatedOnce
    <3>1. /\ \A v \in Worker : /\ pass'[v].req = pass[v].req
                               /\ pass'[v].opened = pass[v].opened
                               /\ Ns(v)' = Ns(v)
          /\ pc' = [pc EXCEPT ![w] = "gated"]
      <4> DEFINE q == [pass[w] EXCEPT !.after = PauseRetry, !.pause = pauses[Ns(w)]]
      <4>1. PauseRetry \in Nat /\ pauses[Ns(w)] \in Nat /\ pass[w] \in Pass
        BY ConstType, CtrlNsType DEF TypeOK
      <4>2. q.req = pass[w].req /\ q.opened = pass[w].opened
        BY <4>1 DEF Pass
      <4>3. pass' = [pass EXCEPT ![w] = q] /\ pc' = [pc EXCEPT ![w] = "gated"]
        BY <2>4 DEF RefuseRetries
      <4> HIDE DEF q
      <4>4. QED
        BY <4>2, <4>3, SameRequest
    <3>2. QED
      BY <1>7, <2>4, <3>1 DEF refuse, TypeOK
  <2>5. QED
    BY <1>7, <2>1, <2>2, <2>3, <2>4 DEF refuse
<1>8. ASSUME NEW w \in Worker, AppendGated(w)
      PROVE  GateInv'
  BY <1>6, <1>8 DEF AppendGated, gateVars
<1>9. ASSUME NEW w \in Worker, StartPass(w)
      PROVE  GateInv'
  <2>1. /\ \A v \in Worker : /\ pass'[v].req = pass[v].req
                             /\ pass'[v].opened = pass[v].opened
                             /\ Ns(v)' = Ns(v)
        /\ pc' = [pc EXCEPT ![w] = "delegate"]
        /\ pc[w] = "start"
    <3>1. Len(ops) \in Nat /\ started[Ctrl(w)] + 1 \in Nat /\ pass[w] \in Pass
      BY CtrlNsType DEF TypeOK
    <3> DEFINE q == [pass[w] EXCEPT !.from = Len(ops), !.start = started[Ctrl(w)] + 1]
    <3>2. q.req = pass[w].req /\ q.opened = pass[w].opened
      BY <3>1 DEF Pass
    <3>3. pass' = [pass EXCEPT ![w] = q] /\ pc' = [pc EXCEPT ![w] = "delegate"] /\ pc[w] = "start"
      BY <1>9 DEF StartPass
    <3> HIDE DEF q
    <3>4. QED
      BY <3>2, <3>3, SameRequest
  <2>2. QED
    BY <1>9, <2>1 DEF StartPass, gateVars, TypeOK
<1>10. ASSUME NEW w \in Worker, NEW asked \in Asked, NEW err \in BOOLEAN,
              DelegateReturn(w, asked, err)
       PROVE  GateInv'
  <2>1. /\ \A v \in Worker : /\ pass'[v].req = pass[v].req
                             /\ pass'[v].opened = pass[v].opened
                             /\ Ns(v)' = Ns(v)
        /\ pc' = [pc EXCEPT ![w] = "file"]
        /\ pc[w] = "delegate"
    <3>1. Len(ops) \in Nat /\ asked \in Nat /\ Clamped(asked) \in Nat /\ pass[w] \in Pass
      BY ConstType DEF TypeOK
    <3> DEFINE q == [pass[w] EXCEPT !.to = Len(ops), !.err = err, !.asked = asked,
                                    !.after = Clamped(asked)]
    <3>2. q.req = pass[w].req /\ q.opened = pass[w].opened
      BY <3>1 DEF Pass
    <3>3. pass' = [pass EXCEPT ![w] = q] /\ pc' = [pc EXCEPT ![w] = "file"] /\ pc[w] = "delegate"
      BY <1>10 DEF DelegateReturn
    <3> HIDE DEF q
    <3>4. QED
      BY <3>2, <3>3, SameRequest
  <2>2. QED
    BY <1>10, <2>1 DEF DelegateReturn, gateVars, TypeOK
<1>11. ASSUME NEW w \in Worker, FilePass(w)
       PROVE  GateInv'
  BY <1>6, <1>11 DEF FilePass, gateVars
<1>12. ASSUME NEW w \in Worker, DelegatePanic(w)
       PROVE  GateInv'
  BY <1>6, <1>12 DEF DelegatePanic, gateVars
<1>13. CASE UNCHANGED <<active, paused, gate, pc, pass>>
  BY <1>13 DEF Ns
<1>14. QED
  BY <1>1, <1>2, <1>3, <1>4, <1>5, <1>7, <1>8, <1>9, <1>10, <1>11, <1>12, <1>13
     DEF Next, WorkerStep, vars, gateVars, Enqueue, DelayElapsed, DelegateWrite, OutsideWrite

(* No request handed out after Pause or Deactivate, without an Activate      *)
(* since, reaches its reconciler (the promise of Interceptor.Pause).         *)
THEOREM PauseAdmitsNothing == Spec => []NoAdmissionAfterPause
<1>1. Init => GateInv
  BY DEF Init, GateInv, NoAdmissionAfterPause, Running
<1>2. GateInv => NoAdmissionAfterPause
  BY DEF GateInv
<1>3. QED
  BY <1>1, <1>2, TypeCorrect, GateInvInductive, PTL DEF Spec
------------------------------------------------------------------------------
(* Attribution.  OpsOf(c, from, to, n) says that the ops of pass n of        *)
(* controller c are exactly its ops in positions from + 1 .. to.  It is kept *)
(* because a controller's passes do not overlap, so an op is made by the     *)
(* latest pass its controller started.                                       *)

OpsOf(c, from, to, n) ==
  \A x \in DOMAIN ops : ops[x].controller = c =>
    (from < x /\ x <= to <=> ops[x].by = n)

InPass(w) == pc[w] \in {"delegate", "file"}

OpsByStarted ==
  \A x \in DOMAIN ops : ops[x].controller \in Controller =>
    ops[x].by <= started[ops[x].controller]

PassIsLatest == \A w \in Worker : InPass(w) => pass[w].start = started[Ctrl(w)]

DelegateOwns ==
  \A w \in Worker : pc[w] = "delegate" =>
    pass[w].from <= Len(ops) /\ OpsOf(Ctrl(w), pass[w].from, Len(ops), pass[w].start)

ReturnedOwns ==
  \A w \in Worker : pc[w] = "file" =>
    pass[w].to <= Len(ops) /\ OpsOf(Ctrl(w), pass[w].from, pass[w].to, pass[w].start)

RecordOwns(rec) ==
  /\ rec.to <= Len(ops)
  /\ rec.start <= started[rec.controller]
  /\ \A w \in Worker : InPass(w) /\ Ctrl(w) = rec.controller => rec.start < pass[w].start
  /\ OpsOf(rec.controller, rec.from, rec.to, rec.start)

AttrInv ==
  /\ OpsByStarted /\ PassIsLatest /\ DelegateOwns /\ ReturnedOwns
  /\ \A i \in DOMAIN log : ~log[i].gated => RecordOwns(log[i])

(* The types of the op log, the pass log and the locals alone. *)
LEMMA LogTypes ==
  ASSUME TypeOK
  PROVE  /\ \A i \in DOMAIN log : /\ log[i].from \in Nat /\ log[i].to \in Nat
                                  /\ log[i].start \in Nat /\ log[i].controller \in Controller
         /\ \A x \in DOMAIN ops : ops[x].by \in Nat /\ x \in 1 .. Len(ops)
         /\ Len(ops) \in Nat
<1>1. ASSUME NEW i \in DOMAIN log
      PROVE  log[i] \in Record
  BY DEF TypeOK
<1>2. ASSUME NEW x \in DOMAIN ops
      PROVE  ops[x] \in Op /\ x \in 1 .. Len(ops)
  BY DEF TypeOK
<1>3. Len(ops) \in Nat
  BY DEF TypeOK
<1>4. \A rec \in Record : /\ rec.from \in Nat /\ rec.to \in Nat
                          /\ rec.start \in Nat /\ rec.controller \in Controller
  BY DEF Record
<1>5. \A op \in Op : op.by \in Nat
  BY DEF Op
<1>6. QED
  BY <1>1, <1>2, <1>3, <1>4, <1>5

(* Steps that leave the op log and the passes in progress as they are, and   *)
(* append at most a gated record to the log.                                 *)
LEMMA AttrFrame ==
  ASSUME TypeOK, AttrInv, UNCHANGED <<ops, started>>,
         \A i \in DOMAIN log' : ~log'[i].gated => i \in DOMAIN log /\ log'[i] = log[i],
         \A w \in Worker : InPass(w)' =>
           /\ pc'[w] = pc[w]
           /\ pass'[w].from = pass[w].from /\ pass'[w].to = pass[w].to
           /\ pass'[w].start = pass[w].start
  PROVE  AttrInv'
<1>1. OpsByStarted' /\ PassIsLatest' /\ DelegateOwns' /\ ReturnedOwns'
  BY DEF AttrInv, OpsByStarted, PassIsLatest, DelegateOwns, ReturnedOwns, OpsOf, InPass, Ctrl
<1>2. ASSUME NEW i \in DOMAIN log', ~log'[i].gated
      PROVE  RecordOwns(log[i])'
  BY <1>2 DEF AttrInv, RecordOwns, OpsOf, InPass, Ctrl
<1>3. QED
  BY <1>1, <1>2 DEF AttrInv

(* AttrInv is inductive, one case per action. *)
LEMMA AttrInvInductive ==
  ASSUME TypeOK, OneWorkerPerController, AttrInv, [Next]_vars
  PROVE  AttrInv'
<1> USE DEF gateVars, logVars, wqVars
<1>1. ASSUME NEW ns \in Namespace, Activate(ns)
      PROVE  AttrInv'
  <2>1. \A w \in Worker : /\ pass'[w].from = pass[w].from /\ pass'[w].to = pass[w].to
                          /\ pass'[w].start = pass[w].start
    <3> TAKE w \in Worker
    <3>1. pass[w] \in Pass
      BY DEF TypeOK
    <3>2. pass'[w] = [pass[w] EXCEPT !.opened = @ \/ (pc[w] # "idle" /\ Ns(w) = ns)]
      BY <1>1 DEF Activate
    <3>3. QED
      BY <3>1, <3>2 DEF Pass
  <2>2. QED
    BY <1>1, <2>1, AttrFrame DEF Activate
<1>2. ASSUME NEW w \in Worker, NEW r \in Request, Dequeue(w, r)
      PROVE  AttrInv'
  BY <1>2, AttrFrame DEF Dequeue, TypeOK, InPass
<1>3. ASSUME NEW w \in Worker, Check(w)
      PROVE  AttrInv'
  BY <1>3, AttrFrame DEF Check, TypeOK, InPass
<1>4. ASSUME NEW w \in Worker, NEW after, NEW err, Requeue(w, after, err), UNCHANGED <<ops, started>>,
             \A i \in DOMAIN log' : ~log'[i].gated => i \in DOMAIN log /\ log'[i] = log[i]
      PROVE  AttrInv'
  <2>1. \A v \in Worker : InPass(v)' => pc'[v] = pc[v] /\ pass'[v] = pass[v]
    BY <1>4 DEF Requeue, TypeOK, InPass
  <2>2. QED
    BY <1>4, <2>1, AttrFrame
<1>5. ASSUME NEW w \in Worker, refuse(w)
      PROVE  AttrInv'
  <2>1. CASE RefuseAdmits(w) \/ RefuseDrops(w)
    BY <1>5, <2>1, AttrFrame DEF refuse, RefuseAdmits, RefuseDrops, TypeOK, InPass
  <2>2. CASE RefuseRetries(w) /\ <<Ctrl(w), pass[w].req>> \in gatedOnce
    BY <1>4, <1>5, <2>2 DEF refuse, RefuseRetries
  <2>3. CASE RefuseRetries(w) /\ <<Ctrl(w), pass[w].req>> \notin gatedOnce
    <3>1. \A v \in Worker : InPass(v)' => pc'[v] = pc[v] /\ pass'[v] = pass[v]
      BY <2>3 DEF RefuseRetries, TypeOK, InPass
    <3>2. QED
      BY <1>5, <3>1, AttrFrame DEF refuse
  <2>4. QED
    BY <1>5, <2>1, <2>2, <2>3 DEF refuse
<1>6. ASSUME NEW w \in Worker, AppendGated(w)
      PROVE  AttrInv'
  <2>1. \A i \in DOMAIN log' : ~log'[i].gated => i \in DOMAIN log /\ log'[i] = log[i]
    BY <1>6 DEF AppendGated, append, TypeOK
  <2>2. QED
    BY <1>4, <1>6, <2>1 DEF AppendGated
<1>7. ASSUME NEW w \in Worker, DelegatePanic(w)
      PROVE  AttrInv'
  BY <1>4, <1>7 DEF DelegatePanic
<1>8. ASSUME NEW w \in Worker, StartPass(w)
      PROVE  AttrInv'
  <2> DEFINE c == Ctrl(w)
             q == [pass[w] EXCEPT !.from = Len(ops), !.start = started[c] + 1]
  <2>1. /\ c \in Controller /\ Len(ops) \in Nat /\ started[c] \in Nat /\ pass[w] \in Pass
        /\ \A x \in DOMAIN ops : ops[x].by \in Nat /\ x \in 1 .. Len(ops)
        /\ \A i \in DOMAIN log : log[i].start \in Nat /\ log[i].controller \in Controller
    BY CtrlNsType, LogTypes DEF TypeOK
  <2>2. q.from = Len(ops) /\ q.start = started[c] + 1
    BY <2>1 DEF Pass
  <2>3. /\ pass' = [pass EXCEPT ![w] = q] /\ pc' = [pc EXCEPT ![w] = "delegate"]
        /\ started' = [started EXCEPT ![c] = @ + 1]
        /\ UNCHANGED <<ops, log>> /\ pc[w] = "start"
    BY <1>8 DEF StartPass
  <2> HIDE DEF q
  <2>4. /\ pc'[w] = "delegate" /\ pass'[w].from = Len(ops) /\ pass'[w].start = started[c] + 1
        /\ \A v \in Worker \ {w} : pc'[v] = pc[v] /\ pass'[v] = pass[v] /\ Ctrl(v) # c
        /\ started'[c] = started[c] + 1
        /\ \A d \in Controller : started[d] \in Nat /\ started'[d] \in Nat /\ started[d] <= started'[d]
        /\ \A d \in Controller \ {c} : started'[d] = started[d]
    BY <2>1, <2>2, <2>3 DEF TypeOK, OneWorkerPerController
  <2> HIDE DEF c
  <2>5. OpsByStarted' /\ PassIsLatest' /\ DelegateOwns' /\ ReturnedOwns'
    <3>1. OpsByStarted'
      BY <2>1, <2>3, <2>4 DEF AttrInv, OpsByStarted
    <3>2. PassIsLatest'
      BY <2>1, <2>3, <2>4, CtrlNsType DEF AttrInv, PassIsLatest, InPass, c, Ctrl
    <3>3. OpsOf(c, Len(ops), Len(ops), started[c] + 1)
      BY <2>1 DEF AttrInv, OpsByStarted, OpsOf
    <3>4. DelegateOwns'
      BY <2>1, <2>3, <2>4, <3>3 DEF AttrInv, DelegateOwns, OpsOf, c, Ctrl
    <3>5. ReturnedOwns'
      BY <2>1, <2>3, <2>4 DEF AttrInv, ReturnedOwns, OpsOf, c, Ctrl
    <3>6. QED
      BY <3>1, <3>2, <3>4, <3>5
  <2>6. ASSUME NEW i \in DOMAIN log, ~log[i].gated
        PROVE  RecordOwns(log[i])'
    <3>1. RecordOwns(log[i])
      BY <2>6 DEF AttrInv
    <3>2. log[i].start <= started'[log[i].controller]
      BY <2>1, <2>4, <3>1 DEF RecordOwns
    <3>3. ASSUME NEW v \in Worker, InPass(v)', Ctrl(v) = log[i].controller
          PROVE  log[i].start < pass'[v].start
      <4>1. CASE v = w
        BY <2>1, <2>4, <3>1, <3>3, <4>1 DEF RecordOwns, c
      <4>2. CASE v # w
        BY <2>4, <3>1, <3>3, <4>2 DEF RecordOwns, InPass
      <4>3. QED
        BY <4>1, <4>2
    <3>4. QED
      BY <2>3, <3>1, <3>2, <3>3 DEF RecordOwns, OpsOf, Ctrl
  <2>7. QED
    BY <2>3, <2>5, <2>6 DEF AttrInv
<1>9. ASSUME NEW w \in Worker, NEW asked \in Asked, NEW err \in BOOLEAN,
             DelegateReturn(w, asked, err)
      PROVE  AttrInv'
  <2> DEFINE q == [pass[w] EXCEPT !.to = Len(ops), !.err = err, !.asked = asked,
                                  !.after = Clamped(asked)]
  <2>1. Len(ops) \in Nat /\ pass[w] \in Pass
    BY DEF TypeOK
  <2>2. q.from = pass[w].from /\ q.start = pass[w].start /\ q.to = Len(ops)
    BY <2>1 DEF Pass
  <2>3. /\ pass' = [pass EXCEPT ![w] = q] /\ pc' = [pc EXCEPT ![w] = "file"]
        /\ UNCHANGED <<ops, log, started>> /\ pc[w] = "delegate"
    BY <1>9 DEF DelegateReturn
  <2> HIDE DEF q
  <2>4. /\ pc'[w] = "file" /\ pass'[w].from = pass[w].from /\ pass'[w].start = pass[w].start
        /\ pass'[w].to = Len(ops)
        /\ \A v \in Worker \ {w} : pc'[v] = pc[v] /\ pass'[v] = pass[v]
    BY <2>2, <2>3 DEF TypeOK
  <2>5. OpsByStarted' /\ PassIsLatest' /\ DelegateOwns' /\ ReturnedOwns'
    BY <2>1, <2>3, <2>4 DEF AttrInv, OpsByStarted, PassIsLatest, DelegateOwns, ReturnedOwns,
                            OpsOf, InPass, Ctrl
  <2>6. ASSUME NEW i \in DOMAIN log, ~log[i].gated
        PROVE  RecordOwns(log[i])'
    BY <2>3, <2>4, <2>6 DEF AttrInv, RecordOwns, OpsOf, InPass, Ctrl
  <2>7. QED
    BY <2>3, <2>5, <2>6 DEF AttrInv
<1>10. ASSUME NEW op \in Op, ops' = Append(ops, op), UNCHANGED <<log, pc, pass, started>>,
              \/ op.controller \notin Controller
              \/ \E w \in Worker : /\ pc[w] = "delegate" /\ op.controller = Ctrl(w)
                                   /\ op.by = pass[w].start
       PROVE  AttrInv'
  <2>1. /\ Len(ops') = Len(ops) + 1 /\ Len(ops) \in Nat
        /\ \A x \in DOMAIN ops' : \/ x \in DOMAIN ops /\ ops'[x] = ops[x]
                                  \/ x = Len(ops) + 1 /\ ops'[x] = op
        /\ \A v \in Worker : /\ pass[v].from \in Nat /\ pass[v].to \in Nat
                             /\ pass[v].start \in Nat /\ Ctrl(v) \in Controller
        /\ \A i \in DOMAIN log : log[i].to \in Nat /\ log[i].controller \in Controller
    <3>1. \A x \in DOMAIN ops' : \/ x \in DOMAIN ops /\ ops'[x] = ops[x]
                                 \/ x = Len(ops) + 1 /\ ops'[x] = op
      BY <1>10 DEF TypeOK
    <3>2. Len(ops') = Len(ops) + 1
      BY <1>10 DEF TypeOK
    <3>3. \A v \in Worker : /\ pass[v].from \in Nat /\ pass[v].to \in Nat
                            /\ pass[v].start \in Nat /\ Ctrl(v) \in Controller
      BY CtrlNsType DEF TypeOK, Pass
    <3>4. QED
      BY <3>1, <3>2, <3>3, LogTypes
  <2>2. OpsByStarted' /\ PassIsLatest'
    BY <1>10, <2>1 DEF AttrInv, OpsByStarted, PassIsLatest, InPass, Ctrl, TypeOK
  <2>3. DelegateOwns'
    BY <1>10, <2>1 DEF AttrInv, DelegateOwns, OpsOf, OneWorkerPerController, Ctrl, TypeOK
  <2>4. ReturnedOwns'
    BY <1>10, <2>1 DEF AttrInv, ReturnedOwns, OpsOf, OneWorkerPerController, Ctrl, TypeOK
  <2>5. ASSUME NEW i \in DOMAIN log, ~log[i].gated
        PROVE  RecordOwns(log[i])'
    <3>1. RecordOwns(log[i])
      BY <2>5 DEF AttrInv
    <3>2. OpsOf(log[i].controller, log[i].from, log[i].to, log[i].start)'
      <4> SUFFICES ASSUME NEW x \in DOMAIN ops', ops'[x].controller = log[i].controller
                   PROVE  log[i].from < x /\ x <= log[i].to <=> ops'[x].by = log[i].start
        BY <1>10 DEF OpsOf
      <4>1. CASE x \in DOMAIN ops /\ ops'[x] = ops[x]
        BY <3>1, <4>1 DEF RecordOwns, OpsOf
      <4>2. CASE x = Len(ops) + 1 /\ ops'[x] = op
        <5>1. op.controller \in Controller
          BY <2>1, <4>2
        <5>2. PICK w \in Worker : /\ pc[w] = "delegate" /\ op.controller = Ctrl(w)
                                  /\ op.by = pass[w].start
          BY <1>10, <5>1
        <5>3. log[i].start < op.by
          BY <3>1, <4>2, <5>2 DEF RecordOwns, InPass
        <5>4. ~(x <= log[i].to)
          BY <2>1, <3>1, <4>2 DEF RecordOwns
        <5>5. log[i].start \in Nat /\ op.by \in Nat
          BY LogTypes, <2>1, <5>2
        <5>6. QED
          BY <4>2, <5>3, <5>4, <5>5
      <4>3. QED
        BY <2>1, <4>1, <4>2
    <3>3. log[i].to <= Len(ops')
      BY <2>1, <3>1 DEF RecordOwns
    <3>4. QED
      BY <1>10, <3>1, <3>2, <3>3 DEF RecordOwns, InPass, Ctrl
  <2>6. QED
    BY <1>10, <2>2, <2>3, <2>4, <2>5 DEF AttrInv
<1>11. ASSUME NEW w \in Worker, NEW accepted \in BOOLEAN, DelegateWrite(w, accepted)
       PROVE  AttrInv'
  <2>1. [controller |-> Ctrl(w), accepted |-> accepted, by |-> pass[w].start] \in Op
    BY CtrlNsType DEF Op, Pass, TypeOK
  <2>2. QED
    BY <1>10, <1>11, <2>1 DEF DelegateWrite
<1>12. CASE OutsideWrite
  <2>1. [controller |-> AnyController, accepted |-> TRUE, by |-> 0] \in Op
    BY DEF Op
  <2>2. QED
    BY <1>10, <1>12, <2>1, ConstType DEF OutsideWrite
<1>13. ASSUME NEW w \in Worker, FilePass(w)
       PROVE  AttrInv'
  <2> DEFINE rec == [controller |-> Ctrl(w), req |-> pass[w].req, gated |-> FALSE,
                     seq |-> seq[Ctrl(w)] + 1, after |-> pass[w].after,
                     asked |-> pass[w].asked, err |-> pass[w].err,
                     from |-> pass[w].from, to |-> pass[w].to,
                     start |-> pass[w].start, pause |-> pass[w].pause]
  <2>1. /\ log' = Append(log, rec) /\ pc[w] = "file" /\ UNCHANGED <<ops, started>>
    BY <1>13 DEF FilePass, append
  <2>2. /\ pc'[w] = "idle"
        /\ \A v \in Worker \ {w} : pc'[v] = pc[v] /\ pass'[v] = pass[v] /\ Ctrl(v) # Ctrl(w)
    BY <1>13 DEF FilePass, Requeue, TypeOK, OneWorkerPerController
  <2>3. OpsByStarted' /\ PassIsLatest' /\ DelegateOwns' /\ ReturnedOwns'
    <3> HIDE DEF rec
    <3>1. OpsByStarted' /\ PassIsLatest'
      BY <2>1, <2>2 DEF AttrInv, OpsByStarted, PassIsLatest, InPass, Ctrl
    <3>2. DelegateOwns'
      BY <2>1, <2>2 DEF AttrInv, DelegateOwns, OpsOf, Ctrl
    <3>3. ReturnedOwns'
      BY <2>1, <2>2 DEF AttrInv, ReturnedOwns, OpsOf, Ctrl
    <3>4. QED
      BY <3>1, <3>2, <3>3
  <2>4. ASSUME NEW r, r = rec
        PROVE  RecordOwns(r)'
    <3>1. /\ r.controller = Ctrl(w) /\ r.from = pass[w].from /\ r.to = pass[w].to
          /\ r.start = pass[w].start
      BY <2>4
    <3> HIDE DEF rec
    <3>2. pass[w].start \in Nat /\ pass[w].start = started[Ctrl(w)]
      BY <2>1 DEF AttrInv, PassIsLatest, InPass, TypeOK, Pass
    <3>3. pass[w].to <= Len(ops) /\ OpsOf(Ctrl(w), pass[w].from, pass[w].to, pass[w].start)
      BY <2>1 DEF AttrInv, ReturnedOwns
    <3>4. QED
      BY <2>1, <2>2, <3>1, <3>2, <3>3 DEF RecordOwns, OpsOf, InPass, Ctrl
  <2>5. ASSUME NEW i \in DOMAIN log, ~log[i].gated, NEW r, r = log[i]
        PROVE  RecordOwns(r)'
    BY <2>1, <2>2, <2>5 DEF AttrInv, RecordOwns, OpsOf, InPass, Ctrl
  <2> HIDE DEF rec
  <2>6. \A i \in DOMAIN log' : (i \in DOMAIN log /\ log'[i] = log[i]) \/ log'[i] = rec
    BY <2>1 DEF TypeOK
  <2>7. QED
    <3>1. ASSUME NEW i \in DOMAIN log', ~log'[i].gated
          PROVE  RecordOwns(log[i])'
      <4>1. CASE i \in DOMAIN log /\ log'[i] = log[i]
        BY <2>5, <3>1, <4>1 DEF RecordOwns, OpsOf, InPass, Ctrl
      <4>2. CASE log'[i] = rec
        BY <2>4, <4>2 DEF RecordOwns, OpsOf, InPass, Ctrl
      <4>3. QED
        BY <2>6, <4>1, <4>2
    <3>2. QED
      BY <2>3, <3>1 DEF AttrInv
<1>14. CASE UNCHANGED <<ops, log, pc, pass, started>>
  BY <1>14, AttrFrame
<1>15. QED
  BY <1>1, <1>2, <1>3, <1>5, <1>6, <1>7, <1>8, <1>9, <1>11, <1>12, <1>13, <1>14
     DEF Next, WorkerStep, vars, Deactivate, Pause, Enqueue, DelayElapsed

(* With one worker per controller, Interceptor.Ops and reconcileOf attribute *)
(* to every filed pass exactly the accepted writes it made.                  *)
THEOREM AttributionExact == Spec => []OpsAttributedExactly
<1>1. Init => AttrInv
  BY DEF Init, AttrInv, OpsByStarted, PassIsLatest, DelegateOwns, ReturnedOwns, InPass
<1>2. ASSUME TypeOK, AttrInv
      PROVE  OpsAttributedExactly
  <2> SUFFICES ASSUME NEW i \in DOMAIN log, ~log[i].gated
               PROVE  /\ Ops(log[i]) = {x \in 0 .. Len(ops) - 1 :
                            /\ ops[x + 1].accepted
                            /\ ops[x + 1].controller = log[i].controller
                            /\ ops[x + 1].by = log[i].start}
                      /\ \A x \in 0 .. Len(ops) - 1 :
                           i \in reconcileOf(ops[x + 1].controller, x) =>
                             ops[x + 1].by = log[i].start
    BY DEF OpsAttributedExactly
  <2>1. log[i].from \in Nat /\ log[i].to \in Nat /\ Len(ops) \in Nat
    BY <1>2, LogTypes
  <2>2. log[i].to <= Len(ops) /\ OpsOf(log[i].controller, log[i].from, log[i].to, log[i].start)
    BY <1>2 DEF AttrInv, RecordOwns
  <2>3. \A x \in 0 .. Len(ops) - 1 : x + 1 \in DOMAIN ops
    BY <1>2 DEF TypeOK
  <2>4. \A x \in 0 .. Len(ops) - 1 : ops[x + 1].controller = log[i].controller =>
          (log[i].from <= x /\ x < log[i].to <=> ops[x + 1].by = log[i].start)
    BY <2>1, <2>2, <2>3 DEF OpsOf
  <2>5. Ops(log[i]) = {x \in log[i].from .. log[i].to - 1 :
                         ops[x + 1].accepted /\ ops[x + 1].controller = log[i].controller}
    BY <2>1, <2>2 DEF Ops, opsBetween
  <2>6. \A x \in log[i].from .. log[i].to - 1 :
          x \in 0 .. Len(ops) - 1 /\ log[i].from <= x /\ x < log[i].to
    BY <2>1, <2>2
  <2>7. \A x \in 0 .. Len(ops) - 1 : log[i].from <= x /\ x < log[i].to =>
          x \in log[i].from .. log[i].to - 1
    BY <2>1
  <2>8. Ops(log[i]) = {x \in 0 .. Len(ops) - 1 :
                         /\ ops[x + 1].accepted
                         /\ ops[x + 1].controller = log[i].controller
                         /\ ops[x + 1].by = log[i].start}
    BY <2>4, <2>5, <2>6, <2>7
  <2>9. \A x \in 0 .. Len(ops) - 1 : i \in reconcileOf(ops[x + 1].controller, x) =>
          ops[x + 1].by = log[i].start
    BY <2>1, <2>4 DEF reconcileOf
  <2>10. QED
    BY <2>8, <2>9
<1>3. ASSUME OneWorkerPerController
      PROVE  Spec => []OpsAttributedExactly
  <2>1. TypeOK /\ AttrInv /\ [Next]_vars => AttrInv'
    BY <1>3, AttrInvInductive
  <2>2. TypeOK /\ AttrInv => OpsAttributedExactly
    BY <1>2
  <2>3. QED
    BY <1>1, <2>1, <2>2, TypeCorrect, PTL DEF Spec
<1>4. ASSUME ~OneWorkerPerController
      PROVE  Spec => []OpsAttributedExactly
  <2>1. OpsAttributedExactly
    BY <1>4 DEF OpsAttributedExactly
  <2>2. QED
    BY <2>1, PTL
<1>5. QED
  BY <1>3, <1>4
------------------------------------------------------------------------------
(* Wakeups.  A worker that holds a request it has not passed on yet keeps    *)
(* it, hands it to the delegate or puts it back with a delay.                *)

Waiting(w) == pc[w] \in {"check", "refuse", "start"} \/ (pc[w] = "gated" /\ pass[w].after > 0)

Keeps(w) ==
  \/ pass'[w].req = pass[w].req /\ (Waiting(w)' \/ pc'[w] = "delegate")
  \/ pass[w].req \in delayed'[Ctrl(w)]

(* Requeue with a delay puts the request back. *)
LEMMA RequeueKeeps ==
  ASSUME TypeOK, NEW w \in Worker, NEW after, NEW err, Requeue(w, after, err)
  PROVE  /\ err \/ after > 0 => pass[w].req \in delayed'[Ctrl(w)]
         /\ \A c \in Controller : queue'[c] = queue[c] /\ delayed[c] \subseteq delayed'[c]
         /\ \A v \in Worker : v # w => pc'[v] = pc[v] /\ pass'[v] = pass[v]
         /\ pc'[w] = "idle"
  BY CtrlNsType DEF Requeue, TypeOK

LEMMA WorkerKeeps ==
  ASSUME TypeOK, GateInv, NEW w \in Worker, WorkerStep(w) \/ DelegatePanic(w)
  PROVE  /\ \A c \in Controller : queue'[c] = queue[c] /\ delayed[c] \subseteq delayed'[c]
         /\ \A v \in Worker : v # w => pc'[v] = pc[v] /\ pass'[v] = pass[v]
         /\ Waiting(w) /\ gate[Ns(w)] # "closed" => Keeps(w)
<1> USE DEF wqVars
<1>0. Ns(w) \in Namespace /\ gate[Ns(w)] \in {"open", "closed", "paused"} /\ pass[w] \in Pass
  BY CtrlNsType DEF TypeOK
<1>1. CASE Check(w)
  BY <1>1 DEF Check, TypeOK, Waiting, Keeps
<1>2. CASE refuse(w)
  <2>1. pc[w] = "refuse"
    BY <1>2 DEF refuse
  <2>2. CASE RefuseAdmits(w)
    BY <2>1, <2>2 DEF RefuseAdmits, TypeOK, Waiting, Keeps
  <2>3. CASE RefuseDrops(w)
    <3>1. gate[Ns(w)] = "closed"
      BY <1>0, <2>3 DEF RefuseDrops, GateInv
    <3> QED
      BY <2>3, <3>1 DEF RefuseDrops, TypeOK
  <2>4. CASE RefuseRetries(w) /\ Requeue(w, PauseRetry, FALSE)
    <3>1. PauseRetry > 0
      BY InterceptorAssumption
    <3> QED
      BY <2>4, <3>1, RequeueKeeps DEF Keeps
  <2>5. CASE RefuseRetries(w) /\ ~Requeue(w, PauseRetry, FALSE)
    <3> DEFINE q == [pass[w] EXCEPT !.after = PauseRetry, !.pause = pauses[Ns(w)]]
    <3>1. pc' = [pc EXCEPT ![w] = "gated"] /\ pass' = [pass EXCEPT ![w] = q] /\ UNCHANGED wqVars
      BY <2>5 DEF RefuseRetries
    <3>2. q.after = PauseRetry /\ q.req = pass[w].req /\ PauseRetry > 0
      BY <1>0, InterceptorAssumption DEF Pass
    <3> HIDE DEF q
    <3>3. pc'[w] = "gated" /\ pass'[w] = q
      BY <3>1 DEF TypeOK
    <3> QED
      BY <3>1, <3>2, <3>3 DEF TypeOK, Waiting, Keeps
  <2> QED
    BY <1>2, <2>2, <2>3, <2>4, <2>5 DEF refuse
<1>3. CASE AppendGated(w)
  BY <1>3, RequeueKeeps DEF AppendGated, Waiting, Keeps
<1>4. CASE StartPass(w)
  <2> DEFINE q == [pass[w] EXCEPT !.from = Len(ops), !.start = started[Ctrl(w)] + 1]
  <2>1. pc' = [pc EXCEPT ![w] = "delegate"] /\ pass' = [pass EXCEPT ![w] = q] /\ UNCHANGED wqVars
    BY <1>4 DEF StartPass
  <2>2. q.req = pass[w].req
    BY <1>0 DEF Pass
  <2> HIDE DEF q
  <2>3. pc'[w] = "delegate" /\ pass'[w] = q
    BY <2>1 DEF TypeOK
  <2> QED
    BY <2>1, <2>2, <2>3 DEF TypeOK, Keeps
<1>5. ASSUME NEW asked \in Asked, NEW err \in BOOLEAN, DelegateReturn(w, asked, err)
      PROVE  /\ \A c \in Controller : queue'[c] = queue[c] /\ delayed[c] \subseteq delayed'[c]
             /\ \A v \in Worker : v # w => pc'[v] = pc[v] /\ pass'[v] = pass[v]
             /\ ~Waiting(w)
  BY <1>5 DEF DelegateReturn, TypeOK, Waiting
<1>6. CASE FilePass(w)
  BY <1>6, RequeueKeeps DEF FilePass, Waiting
<1>7. CASE DelegatePanic(w)
  BY <1>7, RequeueKeeps DEF DelegatePanic, Waiting
<1> QED
  BY <1>1, <1>2, <1>3, <1>4, <1>5, <1>6, <1>7 DEF WorkerStep

(* While a namespace is open or paused, a pending request leaves the queue   *)
(* only for its reconciler, whatever gate calls race with its refusal        *)
(* (intercepted.Reconcile, refuse).                                          *)
THEOREM WakeupsKept == Spec => WakeupKept
<1> DEFINE Step == \A c \in Controller, r \in Request :
       Pending(c, r) /\ gate[NamespaceOf[r]] # "closed" =>
         Pending(c, r)' \/ InDelegate(c, r)'
<1>1. TypeOK /\ GateInv /\ [Next]_vars => [Step]_vars
  <2> SUFFICES ASSUME TypeOK, GateInv, Next, NEW c \in Controller, NEW r \in Request,
                      Pending(c, r), gate[NamespaceOf[r]] # "closed"
               PROVE  Pending(c, r)' \/ InDelegate(c, r)'
    OBVIOUS
  <2> USE DEF gateVars, wqVars
  <2>0. \/ r \in queue[c] \/ r \in delayed[c]
        \/ \E w \in Worker : Ctrl(w) = c /\ pass[w].req = r /\ Waiting(w)
    BY DEF Pending, Waiting
  <2>1. ASSUME \/ r \in queue'[c] \/ r \in delayed'[c]
               \/ \E w \in Worker : /\ Ctrl(w) = c /\ pass'[w].req = r
                                    /\ Waiting(w)' \/ pc'[w] = "delegate"
        PROVE  Pending(c, r)' \/ InDelegate(c, r)'
    BY <2>1 DEF Pending, InDelegate, Waiting, Ctrl
  <2>2. ASSUME queue[c] \subseteq queue'[c], delayed[c] \subseteq delayed'[c],
               \A w \in Worker : Waiting(w) /\ gate[Ns(w)] # "closed" => Keeps(w)
        PROVE  Pending(c, r)' \/ InDelegate(c, r)'
    BY <2>0, <2>1, <2>2 DEF Keeps, Ns
  <2>3. ASSUME NEW ns \in Namespace, Activate(ns)
        PROVE  Pending(c, r)' \/ InDelegate(c, r)'
    <3>1. UNCHANGED <<queue, delayed, pc>>
      BY <2>3 DEF Activate
    <3>2. \A w \in Worker : pass'[w].req = pass[w].req /\ pass'[w].after = pass[w].after
      <4> SUFFICES ASSUME NEW w \in Worker
                   PROVE  pass'[w].req = pass[w].req /\ pass'[w].after = pass[w].after
        OBVIOUS
      <4>1. pass'[w] = [pass[w] EXCEPT !.opened = @ \/ (pc[w] # "idle" /\ Ns(w) = ns)]
        BY <2>3 DEF Activate
      <4>2. pass[w] \in Pass
        BY DEF TypeOK
      <4> QED
        BY <4>1, <4>2 DEF Pass
    <3> QED
      BY <2>2, <3>1, <3>2 DEF Keeps, Waiting
  <2>4. CASE UNCHANGED <<queue, delayed, pc, pass>>
    BY <2>2, <2>4 DEF Keeps, Waiting
  <2>5. ASSUME NEW d \in Controller, NEW s \in Request, Enqueue(d, s)
        PROVE  Pending(c, r)' \/ InDelegate(c, r)'
    BY <2>2, <2>5 DEF Enqueue, TypeOK, Keeps, Waiting
  <2>6. ASSUME NEW d \in Controller, NEW s \in Request, DelayElapsed(d, s)
        PROVE  Pending(c, r)' \/ InDelegate(c, r)'
    <3>1. UNCHANGED <<pc, pass>> /\ queue[c] \subseteq queue'[c]
          /\ (r \in delayed[c] => r \in delayed'[c] \/ r \in queue'[c])
      BY <2>6 DEF DelayElapsed, TypeOK
    <3> QED
      BY <2>0, <2>1, <3>1 DEF Waiting
  <2>7. ASSUME NEW w \in Worker, NEW s \in Request, Dequeue(w, s)
        PROVE  Pending(c, r)' \/ InDelegate(c, r)'
    <3>1. pc[w] = "idle" /\ pc'[w] = "check" /\ delayed' = delayed
          /\ \A v \in Worker : v # w => pc'[v] = pc[v] /\ pass'[v] = pass[v]
      BY <2>7 DEF Dequeue, TypeOK
    <3>2. pass'[w].req = s
      BY <2>7 DEF Dequeue, TypeOK, Call
    <3>3. r \in queue[c] => r \in queue'[c] \/ (s = r /\ Ctrl(w) = c)
      BY <2>7, CtrlNsType DEF Dequeue, TypeOK
    <3> QED
      BY <2>0, <2>1, <3>1, <3>2, <3>3 DEF Waiting
  <2>8. ASSUME NEW w \in Worker, WorkerStep(w) \/ DelegatePanic(w)
        PROVE  Pending(c, r)' \/ InDelegate(c, r)'
    <3>1. /\ queue'[c] = queue[c] /\ delayed[c] \subseteq delayed'[c]
          /\ \A v \in Worker : v # w => pc'[v] = pc[v] /\ pass'[v] = pass[v]
          /\ Waiting(w) /\ gate[Ns(w)] # "closed" => Keeps(w)
      BY <2>8, WorkerKeeps
    <3>2. \A v \in Worker : v # w /\ Waiting(v) => Keeps(v)
      BY <3>1 DEF Keeps, Waiting
    <3> QED
      BY <2>2, <3>1, <3>2
  <2> QED
    BY <2>3, <2>4, <2>5, <2>6, <2>7, <2>8
       DEF Next, Deactivate, Pause, DelegateWrite, OutsideWrite
<1>2. TypeOK /\ GateInv /\ [Next]_vars => GateInv'
  BY GateInvInductive
<1>3. Init => GateInv
  BY DEF Init, GateInv, NoAdmissionAfterPause, Running
<1> QED
  BY <1>1, <1>2, <1>3, TypeCorrect, PTL DEF Spec, WakeupKept
------------------------------------------------------------------------------
(* Refusals.  A request is refused anew only when no refusal of the current  *)
(* pause is recorded, because the once-set of a paused namespace lists       *)
(* exactly the requests that have one.                                       *)

LogGated(i, c, r, p) ==
  /\ i \in DOMAIN log /\ log[i].gated
  /\ log[i].controller = c /\ log[i].req = r /\ log[i].pause = p

PcGated(w, c, r, p) == pc[w] = "gated" /\ Ctrl(w) = c /\ pass[w].req = r /\ pass[w].pause = p

HasGated(c, r, p) ==
  (\E i \in DOMAIN log : LogGated(i, c, r, p)) \/ (\E w \in Worker : PcGated(w, c, r, p))

OneGated(c, r, p) ==
  /\ \A i, j \in DOMAIN log : LogGated(i, c, r, p) /\ LogGated(j, c, r, p) => i = j
  /\ \A v, w \in Worker : PcGated(v, c, r, p) /\ PcGated(w, c, r, p) => v = w
  /\ \A i \in DOMAIN log, w \in Worker : ~(LogGated(i, c, r, p) /\ PcGated(w, c, r, p))

OnceAt(c, r) ==
  /\ \A p \in Nat : HasGated(c, r, p) => p <= pauses[NamespaceOf[r]]
  /\ \A p \in Nat \ {0} : OneGated(c, r, p)
  /\ <<c, r>> \in gatedOnce => HasGated(c, r, pauses[NamespaceOf[r]])
  /\ NamespaceOf[r] \in paused /\ HasGated(c, r, pauses[NamespaceOf[r]]) => <<c, r>> \in gatedOnce

OnceInv ==
  /\ \A c \in Controller, r \in Request : OnceAt(c, r)
  /\ \A ns \in paused : pauses[ns] > 0
  /\ \A w \in Worker : pc[w] \in {"check", "refuse"} => pass[w].pause = 0

(* The same refusals, recorded or about to be. *)
SameGated(c, r, p) ==
  /\ \A i : LogGated(i, c, r, p)' <=> LogGated(i, c, r, p)
  /\ \A w \in Worker : PcGated(w, c, r, p)' <=> PcGated(w, c, r, p)

LEMMA SameGatedMeans ==
  ASSUME NEW c, NEW r, NEW p, SameGated(c, r, p)
  PROVE  /\ HasGated(c, r, p)' <=> HasGated(c, r, p)
         /\ OneGated(c, r, p) => OneGated(c, r, p)'
<1>1. \A i : LogGated(i, c, r, p) => i \in DOMAIN log
  BY DEF LogGated
<1>2. \A i : LogGated(i, c, r, p)' => i \in DOMAIN log'
  BY DEF LogGated
<1>3. \A i : LogGated(i, c, r, p)' <=> LogGated(i, c, r, p)
  BY DEF SameGated
<1>4. \A w \in Worker : PcGated(w, c, r, p)' <=> PcGated(w, c, r, p)
  BY DEF SameGated
<1>5. HasGated(c, r, p)' <=> HasGated(c, r, p)
  BY <1>1, <1>2, <1>3, <1>4 DEF HasGated
<1>6. OneGated(c, r, p) => OneGated(c, r, p)'
  BY <1>1, <1>2, <1>3, <1>4 DEF OneGated
<1> QED
  BY <1>5, <1>6

(* A worker that is, or stays, outside "gated", and one that does not move. *)
LEMMA NotGated ==
  ASSUME NEW w \in Worker, (pc[w] # "gated" /\ pc'[w] # "gated")
                           \/ (pc'[w] = pc[w] /\ pass'[w].req = pass[w].req
                               /\ pass'[w].pause = pass[w].pause)
  PROVE  \A c, r, p : PcGated(w, c, r, p)' <=> PcGated(w, c, r, p)
  BY DEF PcGated, Ctrl

LEMMA OnceFrame ==
  ASSUME TypeOK, OnceInv, UNCHANGED <<paused, pauses, gatedOnce>>,
         \A c, r, p : SameGated(c, r, p),
         \A w \in Worker : pc'[w] \in {"check", "refuse"} => pass'[w].pause = 0
  PROVE  OnceInv'
<1>1. ASSUME NEW c \in Controller, NEW r \in Request PROVE OnceAt(c, r)'
  <2>1. OnceAt(c, r)
    BY DEF OnceInv
  <2>2. \A p : (HasGated(c, r, p)' <=> HasGated(c, r, p)) /\ (OneGated(c, r, p) => OneGated(c, r, p)')
    BY SameGatedMeans
  <2>3. HasGated(c, r, pauses[NamespaceOf[r]])' <=> HasGated(c, r, pauses[NamespaceOf[r]])
    <3> DEFINE p == pauses[NamespaceOf[r]]
    <3>1. PICK n : n = p
      OBVIOUS
    <3>2. HasGated(c, r, n)' <=> HasGated(c, r, n)
      BY <2>2
    <3>3. n = p'
      BY <3>1
    <3> QED
      BY <3>1, <3>2, <3>3
  <2> QED
    BY <2>1, <2>2, <2>3 DEF OnceAt
<1> QED
  BY <1>1 DEF OnceInv

(* OnceAt after a step, with the number of the pause named. *)
LEMMA OnceAtNext ==
  ASSUME NEW c, NEW r, NEW m, m = pauses'[NamespaceOf[r]],
         \A p \in Nat : HasGated(c, r, p)' => p <= m,
         \A p \in Nat \ {0} : OneGated(c, r, p)',
         <<c, r>> \in gatedOnce' => HasGated(c, r, m)',
         NamespaceOf[r] \in paused' /\ HasGated(c, r, m)' => <<c, r>> \in gatedOnce'
  PROVE  OnceAt(c, r)'
  BY DEF OnceAt

(* Opening, closing or pausing the gate empties the once-set of the          *)
(* namespace; a pause starts a number no refusal has used.                   *)
LEMMA OnceGateCall ==
  ASSUME TypeOK, OnceInv, NEW ns \in Namespace,
         clearPauseLocked(ns), \A c, r, p : SameGated(c, r, p),
         \/ paused' = paused \ {ns} /\ pauses' = pauses
         \/ paused' = (paused \ {ns}) \cup {ns} /\ pauses' = [pauses EXCEPT ![ns] = @ + 1],
         \A w \in Worker : pc'[w] = pc[w] /\ pass'[w].pause = pass[w].pause
  PROVE  OnceInv'
<1>1. ASSUME NEW c \in Controller, NEW r \in Request PROVE OnceAt(c, r)'
  <2>1. OnceAt(c, r)
    BY DEF OnceInv
  <2>2. \A p : (HasGated(c, r, p)' <=> HasGated(c, r, p)) /\ (OneGated(c, r, p) => OneGated(c, r, p)')
    BY SameGatedMeans
  <2>3. NamespaceOf[r] \in Namespace /\ pauses \in [Namespace -> Nat]
    BY InterceptorAssumption DEF TypeOK
  <2>4. PICK n \in Nat : n = pauses[NamespaceOf[r]]
    BY <2>3
  <2>5. PICK m \in Nat : m = pauses'[NamespaceOf[r]]
    BY <2>3
  <2>6. /\ \A p \in Nat : HasGated(c, r, p) => p <= n
        /\ \A p \in Nat \ {0} : OneGated(c, r, p)
        /\ <<c, r>> \in gatedOnce => HasGated(c, r, n)
        /\ NamespaceOf[r] \in paused /\ HasGated(c, r, n) => <<c, r>> \in gatedOnce
    BY <2>1, <2>4 DEF OnceAt
  <2>7. <<c, r>>[2] = r
    OBVIOUS
  <2>8. <<c, r>> \in gatedOnce' <=> <<c, r>> \in gatedOnce /\ NamespaceOf[r] # ns
    BY <2>7 DEF clearPauseLocked
  <2>9. CASE NamespaceOf[r] # ns
    <3>1. m = n /\ (NamespaceOf[r] \in paused' <=> NamespaceOf[r] \in paused)
      BY <2>3, <2>4, <2>5, <2>9
    <3> QED
      BY <2>2, <2>5, <2>6, <2>8, <2>9, <3>1, OnceAtNext
  <2>10. CASE NamespaceOf[r] = ns /\ pauses' = pauses /\ paused' = paused \ {ns}
    <3>1. m = n /\ NamespaceOf[r] \notin paused'
      BY <2>4, <2>5, <2>10
    <3> QED
      BY <2>2, <2>5, <2>6, <2>8, <2>10, <3>1, OnceAtNext
  <2>11. CASE NamespaceOf[r] = ns /\ pauses' = [pauses EXCEPT ![ns] = @ + 1]
    <3>1. m = n + 1
      BY <2>3, <2>4, <2>5, <2>11
    <3>2. ~HasGated(c, r, m) /\ \A p \in Nat : HasGated(c, r, p) => p <= m
      BY <2>6, <3>1
    <3> QED
      BY <2>2, <2>5, <2>6, <2>8, <2>11, <3>2, OnceAtNext
  <2> QED
    BY <2>9, <2>10, <2>11
<1>2. \A m \in paused' : pauses'[m] > 0
  BY DEF TypeOK, OnceInv
<1> QED
  BY <1>1, <1>2 DEF OnceInv

(* A worker that enters "gated" adds one refusal, about to be recorded. *)
LEMMA GatedEnters ==
  ASSUME TypeOK, NEW w \in Worker, NEW q, pc[w] # "gated", log' = log,
         pc' = [pc EXCEPT ![w] = "gated"], pass' = [pass EXCEPT ![w] = q],
         q.req = pass[w].req
  PROVE  \A c, r, p :
           /\ ~(c = Ctrl(w) /\ r = pass[w].req /\ p = q.pause) => SameGated(c, r, p)
           /\ HasGated(c, r, p) => HasGated(c, r, p)'
           /\ c = Ctrl(w) /\ r = pass[w].req /\ p = q.pause =>
                /\ HasGated(c, r, p)'
                /\ ~HasGated(c, r, p) => OneGated(c, r, p)'
<1> SUFFICES ASSUME NEW c, NEW r, NEW p
             PROVE  /\ ~(c = Ctrl(w) /\ r = pass[w].req /\ p = q.pause) => SameGated(c, r, p)
                    /\ HasGated(c, r, p) => HasGated(c, r, p)'
                    /\ c = Ctrl(w) /\ r = pass[w].req /\ p = q.pause =>
                         /\ HasGated(c, r, p)'
                         /\ ~HasGated(c, r, p) => OneGated(c, r, p)'
  OBVIOUS
<1>1. \A i : LogGated(i, c, r, p)' <=> LogGated(i, c, r, p)
  BY DEF LogGated
<1>2. \A v \in Worker : v # w => (PcGated(v, c, r, p)' <=> PcGated(v, c, r, p))
  BY DEF PcGated, Ctrl, TypeOK
<1>3. PcGated(w, c, r, p)' <=> c = Ctrl(w) /\ r = pass[w].req /\ p = q.pause
  BY DEF PcGated, Ctrl, TypeOK
<1>4. ~PcGated(w, c, r, p)
  BY DEF PcGated
<1>5. DOMAIN log' = DOMAIN log
  OBVIOUS
<1>6. ~(c = Ctrl(w) /\ r = pass[w].req /\ p = q.pause) => SameGated(c, r, p)
  BY <1>1, <1>2, <1>3, <1>4 DEF SameGated
<1>7. HasGated(c, r, p) => HasGated(c, r, p)'
  BY <1>1, <1>2, <1>4, <1>5 DEF HasGated
<1>8. c = Ctrl(w) /\ r = pass[w].req /\ p = q.pause => HasGated(c, r, p)'
  BY <1>3 DEF HasGated
<1>9. ~HasGated(c, r, p) => OneGated(c, r, p)'
  BY <1>1, <1>2, <1>5 DEF HasGated, OneGated
<1> QED
  BY <1>6, <1>7, <1>8, <1>9

(* Refusing a request: dropped, recorded for the first time in this pause,   *)
(* or put back without a record.                                             *)
LEMMA OnceRefuse ==
  ASSUME TypeOK, OnceInv, NEW w \in Worker, refuse(w)
  PROVE  OnceInv'
<1>0. pc[w] = "refuse" /\ pass[w].pause = 0 /\ UNCHANGED <<paused, pauses, log>>
  BY DEF refuse, OnceInv, logVars
<1> DEFINE c0 == Ctrl(w)
           r0 == pass[w].req
           ns == NamespaceOf[r0]
<1>1. c0 \in Controller /\ r0 \in Request /\ ns \in Namespace /\ pauses[ns] \in Nat /\ pass[w] \in Pass
  BY CtrlNsType DEF TypeOK, Ns
<1>2. CASE RefuseAdmits(w)
  <2>1. UNCHANGED <<gatedOnce, pass>> /\ pc' = [pc EXCEPT ![w] = "start"]
    BY <1>2 DEF RefuseAdmits
  <2>2. pc'[w] = "start" /\ \A v \in Worker : v # w => pc'[v] = pc[v]
    BY <2>1 DEF TypeOK
  <2>3. \A c, r, p : SameGated(c, r, p)
    BY <1>0, <2>1, <2>2, NotGated DEF SameGated, LogGated
  <2> QED
    BY <1>0, <2>1, <2>2, <2>3, OnceFrame DEF OnceInv
<1>3. CASE RefuseDrops(w)
  <2> DEFINE q == pass[w]
  <2>1. UNCHANGED <<gatedOnce, pass>> /\ pc' = [pc EXCEPT ![w] = "gated"]
    BY <1>3 DEF RefuseDrops
  <2>2. pass' = [pass EXCEPT ![w] = q]
    BY <2>1 DEF TypeOK
  <2>3. \A c, r, p : /\ p # 0 => SameGated(c, r, p)
                     /\ HasGated(c, r, p) => HasGated(c, r, p)'
    BY <1>0, <2>1, <2>2, GatedEnters
  <2>4. ASSUME NEW c \in Controller, NEW r \in Request PROVE OnceAt(c, r)'
    <3>1. OnceAt(c, r) /\ NamespaceOf[r] \in Namespace
      BY InterceptorAssumption DEF OnceInv
    <3>2. PICK n \in Nat : n = pauses[NamespaceOf[r]]
      BY <3>1 DEF TypeOK
    <3>3. /\ \A p \in Nat : HasGated(c, r, p) => p <= n
          /\ \A p \in Nat \ {0} : OneGated(c, r, p)
          /\ <<c, r>> \in gatedOnce => HasGated(c, r, n)
          /\ NamespaceOf[r] \in paused /\ HasGated(c, r, n) => <<c, r>> \in gatedOnce
      BY <3>1, <3>2 DEF OnceAt
    <3>4. \A p : p # 0 => (HasGated(c, r, p)' <=> HasGated(c, r, p)) /\ (OneGated(c, r, p) => OneGated(c, r, p)')
      BY <2>3, SameGatedMeans
    <3>5. NamespaceOf[r] \in paused => n # 0
      BY <3>2 DEF OnceInv
    <3>6. \A p \in Nat : HasGated(c, r, p)' => p <= n
      BY <3>3, <3>4
    <3> QED
      BY <1>0, <2>1, <2>3, <3>2, <3>3, <3>4, <3>5, <3>6, OnceAtNext
  <2>5. \A v \in Worker : pc'[v] \in {"check", "refuse"} => pass'[v].pause = 0
    BY <2>1 DEF OnceInv, TypeOK
  <2> QED
    BY <1>0, <2>4, <2>5 DEF OnceInv
<1>4. CASE RefuseRetries(w) /\ <<c0, r0>> \in gatedOnce
  <2>1. gatedOnce' = gatedOnce /\ Requeue(w, PauseRetry, FALSE)
    BY <1>4 DEF RefuseRetries
  <2>2. pc'[w] = "idle" /\ \A v \in Worker : v # w => pc'[v] = pc[v] /\ pass'[v] = pass[v]
    BY <2>1, RequeueKeeps
  <2>3. \A c, r, p : SameGated(c, r, p)
    BY <1>0, <2>2, NotGated DEF SameGated, LogGated
  <2> QED
    BY <1>0, <2>1, <2>2, <2>3, OnceFrame DEF OnceInv
<1>5. CASE RefuseRetries(w) /\ <<c0, r0>> \notin gatedOnce
  <2> DEFINE q == [pass[w] EXCEPT !.after = PauseRetry, !.pause = pauses[Ns(w)]]
  <2>1. /\ pc' = [pc EXCEPT ![w] = "gated"] /\ pass' = [pass EXCEPT ![w] = q]
        /\ gatedOnce' = gatedOnce \cup {<<c0, r0>>} /\ ns \in paused
    BY <1>5 DEF RefuseRetries, Ns
  <2>2. q.req = r0 /\ q.pause = pauses[ns]
    BY <1>1 DEF Pass, Ns
  <2> HIDE DEF q
  <2>3. PICK n0 \in Nat : n0 = pauses[ns]
    BY <1>1
  <2>4. \A c, r, p : /\ ~(c = c0 /\ r = r0 /\ p = n0) => SameGated(c, r, p)
                     /\ HasGated(c, r, p) => HasGated(c, r, p)'
                     /\ c = c0 /\ r = r0 /\ p = n0 =>
                          /\ HasGated(c, r, p)'
                          /\ ~HasGated(c, r, p) => OneGated(c, r, p)'
    BY <1>0, <2>1, <2>2, <2>3, GatedEnters
  <2>5. ASSUME NEW c \in Controller, NEW r \in Request PROVE OnceAt(c, r)'
    <3>1. OnceAt(c, r) /\ NamespaceOf[r] \in Namespace
      BY InterceptorAssumption DEF OnceInv
    <3>2. PICK n \in Nat : n = pauses[NamespaceOf[r]]
      BY <3>1 DEF TypeOK
    <3>3. /\ \A p \in Nat : HasGated(c, r, p) => p <= n
          /\ \A p \in Nat \ {0} : OneGated(c, r, p)
          /\ <<c, r>> \in gatedOnce => HasGated(c, r, n)
          /\ NamespaceOf[r] \in paused /\ HasGated(c, r, n) => <<c, r>> \in gatedOnce
      BY <3>1, <3>2 DEF OnceAt
    <3>4. \A p : SameGated(c, r, p) =>
            (HasGated(c, r, p)' <=> HasGated(c, r, p)) /\ (OneGated(c, r, p) => OneGated(c, r, p)')
      BY SameGatedMeans
    <3>5. CASE c = c0 /\ r = r0
      <4>1. n = n0 /\ ~HasGated(c, r, n0)
        BY <1>5, <2>1, <2>3, <3>2, <3>3, <3>5
      <4>2. <<c, r>> \in gatedOnce' /\ HasGated(c, r, n)' /\ OneGated(c, r, n0)'
        BY <2>1, <2>4, <3>5, <4>1
      <4>3. \A p : p # n0 => SameGated(c, r, p)
        BY <2>4
      <4>4. \A p \in Nat : HasGated(c, r, p)' => p <= n
        BY <3>3, <3>4, <4>1, <4>3
      <4>5. \A p \in Nat \ {0} : OneGated(c, r, p)'
        BY <3>3, <3>4, <4>2, <4>3
      <4> QED
        BY <1>0, <3>2, <4>2, <4>4, <4>5, OnceAtNext
    <3>6. CASE ~(c = c0 /\ r = r0)
      <4>1. \A p : SameGated(c, r, p)
        BY <2>4, <3>6
      <4>2. <<c, r>> \in gatedOnce' <=> <<c, r>> \in gatedOnce
        BY <2>1, <3>6
      <4> QED
        BY <1>0, <3>2, <3>3, <3>4, <4>1, <4>2, OnceAtNext
    <3> QED
      BY <3>5, <3>6
  <2>6. \A v \in Worker : pc'[v] \in {"check", "refuse"} => pass'[v].pause = 0
    BY <2>1 DEF OnceInv, TypeOK
  <2> QED
    BY <1>0, <2>5, <2>6 DEF OnceInv
<1> QED
  BY <1>2, <1>3, <1>4, <1>5 DEF refuse

(* What append adds to the log, as far as the invariants look at it. *)
LEMMA AppendAdds ==
  ASSUME TypeOK, NEW w \in Worker, NEW gated \in BOOLEAN, append(w, gated)
  PROVE  /\ Len(log) \in Nat
         /\ DOMAIN log = 1 .. Len(log)
         /\ DOMAIN log' = 1 .. Len(log) + 1
         /\ \A i \in 1 .. Len(log) : log'[i] = log[i]
         /\ log'[Len(log) + 1].gated = gated
         /\ log'[Len(log) + 1].controller = Ctrl(w)
         /\ log'[Len(log) + 1].req = pass[w].req
         /\ log'[Len(log) + 1].pause = pass[w].pause
         /\ log'[Len(log) + 1].err = pass[w].err
         /\ ~gated => log'[Len(log) + 1].start = pass[w].start
<1> DEFINE n == IF gated THEN 0 ELSE seq[Ctrl(w)] + 1
           st == IF gated THEN started[Ctrl(w)] ELSE pass[w].start
<1>1. PICK rec : /\ rec = [controller |-> Ctrl(w), req |-> pass[w].req, gated |-> gated, seq |-> n,
                   after |-> pass[w].after, asked |-> pass[w].asked, err |-> pass[w].err,
                   from |-> pass[w].from, to |-> pass[w].to,
                   start |-> st, pause |-> pass[w].pause]
                 /\ log' = Append(log, rec)
  BY DEF append
<1>2. /\ rec.gated = gated /\ rec.controller = Ctrl(w) /\ rec.req = pass[w].req
      /\ rec.pause = pass[w].pause /\ rec.err = pass[w].err /\ rec.start = st
  BY <1>1
<1>3. log \in Seq(Record)
  BY DEF TypeOK
<1>4. PICK l \in Nat : l = Len(log)
  BY <1>3
<1>5. DOMAIN log = 1 .. l /\ log' = [i \in 1 .. l + 1 |-> IF i = l + 1 THEN rec ELSE log[i]]
  BY <1>1, <1>3, <1>4
<1>6. DOMAIN log' = 1 .. l + 1 /\ log'[l + 1] = rec /\ \A i \in 1 .. l : log'[i] = log[i]
  BY <1>5
<1> QED
  BY <1>2, <1>4, <1>5, <1>6

(* Recording a refusal moves it from the worker to the log. *)
LEMMA OnceAppendGated ==
  ASSUME TypeOK, OnceInv, NEW w \in Worker, AppendGated(w)
  PROVE  OnceInv'
<1> DEFINE c0 == Ctrl(w)
           r0 == pass[w].req
           p0 == pass[w].pause
<1>0. pc[w] = "gated" /\ append(w, TRUE) /\ UNCHANGED <<paused, pauses, gatedOnce>>
  BY DEF AppendGated, gateVars
<1>1. pc'[w] = "idle" /\ \A v \in Worker : v # w => pc'[v] = pc[v] /\ pass'[v] = pass[v]
  BY RequeueKeeps DEF AppendGated
<1>2. PICK l \in Nat : l = Len(log)
  BY DEF TypeOK
<1> DEFINE n == l + 1
<1>3. /\ DOMAIN log = 1 .. l /\ DOMAIN log' = 1 .. n
      /\ \A i \in 1 .. l : log'[i] = log[i]
      /\ log'[n].gated /\ log'[n].controller = c0 /\ log'[n].req = r0 /\ log'[n].pause = p0
  BY <1>0, <1>2, AppendAdds
<1> HIDE DEF c0, r0, p0
<1>4. ASSUME NEW c, NEW r, NEW p
      PROVE  /\ HasGated(c, r, p)' <=> HasGated(c, r, p)
             /\ OneGated(c, r, p) => OneGated(c, r, p)'
  <2>1. n \notin DOMAIN log /\ n \in DOMAIN log'
        /\ \A i : i \in DOMAIN log' <=> i \in DOMAIN log \/ i = n
    BY <1>2, <1>3
  <2>2. \A i : i # n => (LogGated(i, c, r, p)' <=> LogGated(i, c, r, p))
    BY <1>3, <2>1 DEF LogGated
  <2>3. LogGated(n, c, r, p)' <=> PcGated(w, c, r, p)
    <3>1. PcGated(w, c, r, p) <=> c0 = c /\ r0 = r /\ p0 = p
      BY <1>0 DEF PcGated, c0, r0, p0
    <3> QED
      BY <1>3, <2>1, <3>1 DEF LogGated
  <2>4. ~LogGated(n, c, r, p) /\ ~PcGated(w, c, r, p)'
    BY <1>1, <2>1 DEF LogGated, PcGated
  <2>5. \A v \in Worker : v # w => (PcGated(v, c, r, p)' <=> PcGated(v, c, r, p))
    BY <1>1 DEF PcGated, Ctrl
  <2>6. HasGated(c, r, p)' <=> HasGated(c, r, p)
    BY <2>1, <2>2, <2>3, <2>4, <2>5 DEF HasGated
  <2>7. OneGated(c, r, p) => OneGated(c, r, p)'
    BY <2>1, <2>2, <2>3, <2>4, <2>5 DEF OneGated
  <2> QED
    BY <2>6, <2>7
<1>5. ASSUME NEW c \in Controller, NEW r \in Request PROVE OnceAt(c, r)'
  <2>1. OnceAt(c, r) /\ NamespaceOf[r] \in Namespace
    BY InterceptorAssumption DEF OnceInv
  <2>2. PICK m \in Nat : m = pauses[NamespaceOf[r]]
    BY <2>1 DEF TypeOK
  <2> QED
    BY <1>0, <1>4, <2>1, <2>2, OnceAtNext DEF OnceAt
<1>6. \A v \in Worker : pc'[v] \in {"check", "refuse"} => pass'[v].pause = 0
  BY <1>1 DEF OnceInv
<1> QED
  BY <1>0, <1>5, <1>6 DEF OnceInv

(* Filing a pass adds no refusal to the log. *)
LEMMA FileAddsNoGated ==
  ASSUME TypeOK, NEW w \in Worker, append(w, FALSE)
  PROVE  \A i, c, r, p : LogGated(i, c, r, p)' <=> LogGated(i, c, r, p)
<1>1. PICK l \in Nat : l = Len(log)
  BY DEF TypeOK
<1>2. /\ DOMAIN log = 1 .. l /\ DOMAIN log' = 1 .. l + 1
      /\ \A i \in 1 .. l : log'[i] = log[i]
      /\ ~log'[l + 1].gated
  BY <1>1, AppendAdds
<1>3. \A i : i \in DOMAIN log' <=> i \in DOMAIN log \/ i = l + 1
  BY <1>2
<1>4. l + 1 \notin DOMAIN log
  BY <1>2
<1> QED
  BY <1>2, <1>3, <1>4 DEF LogGated

(* OnceInv is inductive. *)
LEMMA OnceInvInductive ==
  ASSUME TypeOK, OnceInv, [Next]_vars
  PROVE  OnceInv'
<1> USE DEF gateVars, logVars
<1>1. ASSUME NEW w \in Worker, pc[w] # "gated", pc'[w] # "gated",
             \A v \in Worker : v # w => pc'[v] = pc[v] /\ pass'[v] = pass[v],
             \A i, c, r, p : LogGated(i, c, r, p)' <=> LogGated(i, c, r, p),
             UNCHANGED <<paused, pauses, gatedOnce>>,
             pc'[w] \in {"check", "refuse"} => pass'[w].pause = 0
      PROVE  OnceInv'
  <2>1. \A c, r, p : SameGated(c, r, p)
    BY <1>1, NotGated DEF SameGated
  <2>2. \A v \in Worker : pc'[v] \in {"check", "refuse"} => pass'[v].pause = 0
    BY <1>1 DEF OnceInv
  <2> QED
    BY <1>1, <2>1, <2>2, OnceFrame
<1>2. ASSUME log' = log PROVE \A i, c, r, p : LogGated(i, c, r, p)' <=> LogGated(i, c, r, p)
  BY <1>2 DEF LogGated
<1>3. ASSUME UNCHANGED <<log, pc>>,
             \A w \in Worker : pass'[w].req = pass[w].req /\ pass'[w].pause = pass[w].pause
      PROVE  \A c, r, p : SameGated(c, r, p)
  BY <1>2, <1>3, NotGated DEF SameGated
<1>4. ASSUME NEW ns \in Namespace, Activate(ns) PROVE OnceInv'
  <2>1. \A w \in Worker : pass'[w].req = pass[w].req /\ pass'[w].pause = pass[w].pause
    <3> SUFFICES ASSUME NEW w \in Worker
                 PROVE  pass'[w].req = pass[w].req /\ pass'[w].pause = pass[w].pause
      OBVIOUS
    <3>1. pass'[w] = [pass[w] EXCEPT !.opened = @ \/ (pc[w] # "idle" /\ Ns(w) = ns)]
      BY <1>4 DEF Activate
    <3>2. pass[w] \in Pass
      BY DEF TypeOK
    <3> QED
      BY <3>1, <3>2 DEF Pass
  <2>2. UNCHANGED <<log, pc>> /\ clearPauseLocked(ns) /\ paused' = paused \ {ns} /\ pauses' = pauses
    BY <1>4 DEF Activate
  <2>3. \A c, r, p : SameGated(c, r, p)
    BY <1>3, <2>1, <2>2
  <2> QED
    BY <2>1, <2>2, <2>3, OnceGateCall
<1>5. ASSUME NEW ns \in Namespace, Deactivate(ns) PROVE OnceInv'
  <2>1. UNCHANGED <<log, pc, pass>> /\ clearPauseLocked(ns) /\ paused' = paused \ {ns} /\ pauses' = pauses
    BY <1>5 DEF Deactivate
  <2>2. \A c, r, p : SameGated(c, r, p)
    BY <1>3, <2>1
  <2> QED
    BY <2>1, <2>2, OnceGateCall
<1>6. ASSUME NEW ns \in Namespace, Pause(ns) PROVE OnceInv'
  <2>1. UNCHANGED <<log, pc, pass>> /\ clearPauseLocked(ns)
        /\ paused' = (paused \ {ns}) \cup {ns} /\ pauses' = [pauses EXCEPT ![ns] = @ + 1]
    BY <1>6 DEF Pause
  <2>2. \A c, r, p : SameGated(c, r, p)
    BY <1>3, <2>1
  <2> QED
    BY <2>1, <2>2, OnceGateCall
<1>7. CASE UNCHANGED <<paused, pauses, gatedOnce, log, pc, pass>>
  <2>1. \A c, r, p : SameGated(c, r, p)
    BY <1>3, <1>7
  <2> QED
    BY <1>7, <2>1, OnceFrame DEF OnceInv
<1>8. ASSUME NEW w \in Worker, NEW r \in Request, Dequeue(w, r) PROVE OnceInv'
  <2>1. /\ pc[w] = "idle" /\ pc'[w] = "check"
        /\ \A v \in Worker : v # w => pc'[v] = pc[v] /\ pass'[v] = pass[v]
        /\ UNCHANGED <<paused, pauses, gatedOnce, log>>
    BY <1>8 DEF Dequeue, TypeOK
  <2>2. pass'[w].pause = 0
    BY <1>8 DEF Dequeue, TypeOK, Call
  <2> QED
    BY <1>1, <1>2, <2>1, <2>2
<1>9. ASSUME NEW w \in Worker, Check(w) PROVE OnceInv'
  <2>1. /\ pc[w] = "check" /\ pc'[w] \in {"start", "refuse"} /\ pass' = pass
        /\ \A v \in Worker : v # w => pc'[v] = pc[v]
        /\ UNCHANGED <<paused, pauses, gatedOnce, log>>
    BY <1>9 DEF Check, TypeOK
  <2>2. pass'[w].pause = 0
    BY <2>1 DEF OnceInv
  <2> QED
    BY <1>1, <1>2, <2>1, <2>2
<1>10. ASSUME NEW w \in Worker, StartPass(w) PROVE OnceInv'
  <2>1. /\ pc[w] = "start" /\ pc'[w] = "delegate"
        /\ \A v \in Worker : v # w => pc'[v] = pc[v] /\ pass'[v] = pass[v]
        /\ UNCHANGED <<paused, pauses, gatedOnce, log>>
    BY <1>10 DEF StartPass, TypeOK
  <2> QED
    BY <1>1, <1>2, <2>1
<1>11. ASSUME NEW w \in Worker, NEW asked \in Asked, NEW err \in BOOLEAN,
              DelegateReturn(w, asked, err)
       PROVE  OnceInv'
  <2>1. /\ pc[w] = "delegate" /\ pc'[w] = "file"
        /\ \A v \in Worker : v # w => pc'[v] = pc[v] /\ pass'[v] = pass[v]
        /\ UNCHANGED <<paused, pauses, gatedOnce, log>>
    BY <1>11 DEF DelegateReturn, TypeOK
  <2> QED
    BY <1>1, <1>2, <2>1
<1>12. ASSUME NEW w \in Worker, FilePass(w) PROVE OnceInv'
  <2>1. pc'[w] = "idle" /\ \A v \in Worker : v # w => pc'[v] = pc[v] /\ pass'[v] = pass[v]
    BY <1>12, RequeueKeeps DEF FilePass
  <2>2. pc[w] = "file" /\ append(w, FALSE) /\ UNCHANGED <<paused, pauses, gatedOnce>>
    BY <1>12 DEF FilePass
  <2> QED
    BY <1>1, <2>1, <2>2, FileAddsNoGated
<1>13. ASSUME NEW w \in Worker, DelegatePanic(w) PROVE OnceInv'
  <2>1. pc'[w] = "idle" /\ \A v \in Worker : v # w => pc'[v] = pc[v] /\ pass'[v] = pass[v]
    BY <1>13, RequeueKeeps DEF DelegatePanic
  <2>2. pc[w] = "delegate" /\ UNCHANGED <<paused, pauses, gatedOnce, log>>
    BY <1>13 DEF DelegatePanic
  <2> QED
    BY <1>1, <1>2, <2>1, <2>2
<1>14. ASSUME NEW w \in Worker, WorkerStep(w) PROVE OnceInv'
  BY <1>9, <1>10, <1>11, <1>12, <1>14, OnceRefuse, OnceAppendGated DEF WorkerStep
<1> QED
  BY <1>4, <1>5, <1>6, <1>7, <1>8, <1>13, <1>14
     DEF Next, vars, Enqueue, DelayElapsed, DelegateWrite, OutsideWrite

(* Each request of each controller is recorded as refused at most once per   *)
(* pause, and every refusal of the current pause is recorded or about to be  *)
(* (refuse, clearPauseLocked), whatever gate calls come between the once-set *)
(* update and the append.                                                    *)
THEOREM RefusedOncePerPause == Spec => []GatedOncePerPause
<1>1. Init => OnceInv
  <2> SUFFICES ASSUME Init PROVE OnceInv
    OBVIOUS
  <2>1. DOMAIN log = {} /\ paused = {} /\ gatedOnce = {} /\ \A w \in Worker : pc[w] = "idle"
    BY DEF Init
  <2>2. \A c, r, p : ~HasGated(c, r, p) /\ OneGated(c, r, p)
    BY <2>1 DEF HasGated, OneGated, LogGated, PcGated
  <2> QED
    BY <2>1, <2>2 DEF OnceInv, OnceAt
<1>2. TypeOK /\ OnceInv /\ [Next]_vars => OnceInv'
  BY OnceInvInductive
<1>3. ASSUME TypeOK, OnceInv PROVE GatedOncePerPause
  <2> SUFFICES ASSUME NEW c \in Controller, NEW r \in Request
               PROVE  /\ \A p \in 1 .. MaxPauses : \A x, y \in GatedIn(c, r, p) : x = y
                      /\ <<c, r>> \in gatedOnce => GatedIn(c, r, pauses[NamespaceOf[r]]) # {}
    BY DEF GatedOncePerPause
  <2>1. OnceAt(c, r)
    BY <1>3 DEF OnceInv
  <2>2. ASSUME NEW p
        PROVE  /\ \A i \in DOMAIN log : LogGated(i, c, r, p) => <<"log", i>> \in GatedIn(c, r, p)
               /\ \A w \in Worker : PcGated(w, c, r, p) => <<"pc", w>> \in GatedIn(c, r, p)
               /\ \A x \in GatedIn(c, r, p) :
                    \/ \E i \in DOMAIN log : x = <<"log", i>> /\ LogGated(i, c, r, p)
                    \/ \E w \in Worker : x = <<"pc", w>> /\ PcGated(w, c, r, p)
    BY DEF GatedIn, LogGated, PcGated
  <2>3. ASSUME NEW p \in 1 .. MaxPauses, NEW x \in GatedIn(c, r, p), NEW y \in GatedIn(c, r, p)
        PROVE  x = y
    <3>1. OneGated(c, r, p)
      BY <2>1, InterceptorAssumption DEF OnceAt
    <3> QED
      BY <2>2, <3>1 DEF OneGated
  <2>4. <<c, r>> \in gatedOnce => GatedIn(c, r, pauses[NamespaceOf[r]]) # {}
    BY <2>1, <2>2 DEF OnceAt, HasGated
  <2> QED
    BY <2>3, <2>4
<1> QED
  BY <1>1, <1>2, <1>3, TypeCorrect, PTL DEF Spec
------------------------------------------------------------------------------
(* Outcomes.  The passes over one key do not overlap, so they are filed in   *)
(* the order of their starts, and the last one filed is the last to return.  *)

Holds(w, k) == pc[w] # "idle" /\ <<Ctrl(w), pass[w].req>> = k

Verdict(err) == IF err THEN "err" ELSE "ok"

StartsOrdered(k) ==
  /\ \A i, j \in Filed(k) : i < j => log[i].start < log[j].start
  /\ \A i \in Filed(k) : log[i].start <= started[k[1]]

PassOver(w, k) ==
  /\ pass[w].start <= started[k[1]]
  /\ \A i \in Filed(k) : log[i].start < pass[w].start
  /\ pc[w] = "file" => outcome[k] = Verdict(pass[w].err)

LastFiled(k) ==
  /\ outcome[k] = "none" => Filed(k) = {}
  /\ outcome[k] \in {"ok", "err"} =>
       \/ \E w \in Worker : Holds(w, k) /\ pc[w] = "file"
       \/ \E i \in Filed(k) : (\A j \in Filed(k) : j <= i) /\ outcome[k] = Verdict(log[i].err)

OutcomeAt(k) ==
  /\ \A v, w \in Worker : Holds(v, k) /\ Holds(w, k) => v = w
  /\ StartsOrdered(k)
  /\ \A w \in Worker : Holds(w, k) /\ InPass(w) => PassOver(w, k)
  /\ LastFiled(k)

OutcomeInv == \A k \in Key : OutcomeAt(k)

(* What OutcomeAt reads of a worker: whether it holds the key, and the pass  *)
(* it runs over it.                                                          *)
SamePass(w, k) ==
  /\ Holds(w, k)' => Holds(w, k)
  /\ (Holds(w, k) /\ InPass(w)) \/ (Holds(w, k) /\ InPass(w))' =>
       /\ Holds(w, k) /\ Holds(w, k)' /\ pc'[w] = pc[w]
       /\ pass'[w].start = pass[w].start /\ pass'[w].err = pass[w].err

SameFiled(k) == Filed(k)' = Filed(k) /\ \A i \in Filed(k) : log'[i] = log[i]

(* The numbers OutcomeAt compares. *)
LEMMA StartTypes ==
  ASSUME TypeOK
  PROVE  /\ \A k \in Key : started[k[1]] \in Nat
         /\ \A k : \A i \in Filed(k) : /\ i \in DOMAIN log /\ i \in Nat
                                       /\ log[i].start \in Nat /\ log[i].err \in BOOLEAN
         /\ \A w \in Worker : pass[w].start \in Nat
<1>1. ASSUME NEW k \in Key PROVE started[k[1]] \in Nat
  BY DEF TypeOK, Key
<1>2. ASSUME NEW k, NEW i \in Filed(k)
      PROVE  i \in DOMAIN log /\ i \in Nat /\ log[i].start \in Nat /\ log[i].err \in BOOLEAN
  <2>1. i \in DOMAIN log
    BY DEF Filed
  <2>2. log[i] \in Record /\ i \in Nat
    BY <2>1 DEF TypeOK
  <2> QED
    BY <2>1, <2>2 DEF Record
<1>3. ASSUME NEW w \in Worker PROVE pass[w].start \in Nat
  BY DEF TypeOK, Pass
<1> QED
  BY <1>1, <1>2, <1>3

(* A step that no worker of the key takes keeps OutcomeAt. *)
LEMMA OutcomeFrame ==
  ASSUME TypeOK, NEW k \in Key, OutcomeAt(k), SameFiled(k),
         started'[k[1]] \in Nat, started[k[1]] <= started'[k[1]], outcome'[k] = outcome[k],
         \A w \in Worker : SamePass(w, k)
  PROVE  OutcomeAt(k)'
<1>1. /\ Filed(k)' = Filed(k)
      /\ \A i \in Filed(k) : log'[i].start = log[i].start /\ log'[i].err = log[i].err
  BY DEF SameFiled
<1>2. \A v, w \in Worker : Holds(v, k)' /\ Holds(w, k)' => v = w
  BY DEF OutcomeAt, SamePass
<1>3. StartsOrdered(k)'
  BY <1>1, StartTypes DEF OutcomeAt, StartsOrdered
<1>4. ASSUME NEW w \in Worker, Holds(w, k)', InPass(w)'
      PROVE  PassOver(w, k)'
  <2>1. /\ Holds(w, k) /\ pc'[w] = pc[w]
        /\ pass'[w].start = pass[w].start /\ pass'[w].err = pass[w].err
    BY <1>4 DEF SamePass
  <2>2. PassOver(w, k)
    BY <1>4, <2>1 DEF OutcomeAt, InPass
  <2> QED
    BY <1>1, <2>1, <2>2, StartTypes DEF PassOver
<1>5. LastFiled(k)'
  <2>1. \A w \in Worker : Holds(w, k) /\ pc[w] = "file" => Holds(w, k)' /\ pc'[w] = "file"
    BY DEF SamePass, InPass
  <2> QED
    BY <1>1, <2>1 DEF OutcomeAt, LastFiled
<1> QED
  BY <1>2, <1>3, <1>4, <1>5 DEF OutcomeAt

(* What append does to the filed passes of each key. *)
LEMMA AppendFiles ==
  ASSUME TypeOK, NEW w \in Worker, NEW gated \in BOOLEAN, append(w, gated), NEW k
  PROVE  /\ gated \/ k # <<Ctrl(w), pass[w].req>> => SameFiled(k)
         /\ ~gated /\ k = <<Ctrl(w), pass[w].req>> =>
              \E n \in Nat : /\ Filed(k)' = Filed(k) \cup {n}
                             /\ \A i \in Filed(k) : i < n /\ log'[i] = log[i]
                             /\ log'[n].start = pass[w].start /\ log'[n].err = pass[w].err
<1>1. PICK l \in Nat : l = Len(log)
  BY DEF TypeOK
<1> DEFINE n == l + 1
<1>2. /\ DOMAIN log = 1 .. l /\ DOMAIN log' = 1 .. n
      /\ \A i \in 1 .. l : log'[i] = log[i]
      /\ log'[n].gated = gated /\ log'[n].controller = Ctrl(w) /\ log'[n].req = pass[w].req
      /\ log'[n].err = pass[w].err /\ (~gated => log'[n].start = pass[w].start)
  BY <1>1, AppendAdds
<1>3. n \in Nat /\ \A i : i \in DOMAIN log' <=> i \in DOMAIN log \/ i = n
  BY <1>2
<1>4. n \notin DOMAIN log /\ \A i \in DOMAIN log : log'[i] = log[i] /\ i < n
  BY <1>2
<1>5. \A i : i # n => (i \in Filed(k)' <=> i \in Filed(k))
  BY <1>3, <1>4 DEF Filed
<1>6. n \in Filed(k)' <=> ~gated /\ k = <<Ctrl(w), pass[w].req>>
  BY <1>2, <1>3 DEF Filed
<1>7. \A i \in Filed(k) : i \in DOMAIN log
  BY DEF Filed
<1> HIDE DEF n
<1>8. gated \/ k # <<Ctrl(w), pass[w].req>> => Filed(k)' = Filed(k)
  BY <1>4, <1>5, <1>6, <1>7
<1>9. ~gated /\ k = <<Ctrl(w), pass[w].req>> => Filed(k)' = Filed(k) \cup {n}
  BY <1>4, <1>5, <1>6, <1>7
<1> QED
  BY <1>2, <1>3, <1>4, <1>7, <1>8, <1>9 DEF SameFiled

(* A step of one worker, seen from a key it does not hold. *)
LEMMA OtherKey ==
  ASSUME NEW w \in Worker, NEW k, ~Holds(w, k), ~Holds(w, k)',
         \A v \in Worker : v # w => pc'[v] = pc[v] /\ pass'[v] = pass[v]
  PROVE  \A v \in Worker : SamePass(v, k)
  BY DEF SamePass, Holds, InPass, Ctrl

(* A step of one worker outside its pass. *)
LEMMA OutsidePass ==
  ASSUME NEW w \in Worker, NEW k, ~InPass(w), ~InPass(w)', pc[w] # "idle",
         pc'[w] = "idle" \/ pass'[w].req = pass[w].req,
         \A v \in Worker : v # w => pc'[v] = pc[v] /\ pass'[v] = pass[v]
  PROVE  \A v \in Worker : SamePass(v, k)
  BY DEF SamePass, Holds, InPass, Ctrl

(* A request is handed to no second worker while one holds it. *)
LEMMA OutcomeDequeue ==
  ASSUME TypeOK, OutcomeInv, NEW w \in Worker, NEW r \in Request, Dequeue(w, r)
  PROVE  OutcomeInv'
<1>1. /\ pc[w] = "idle" /\ pc'[w] = "check" /\ ~Processing(Ctrl(w), r)
      /\ \A v \in Worker : v # w => pc'[v] = pc[v] /\ pass'[v] = pass[v]
      /\ UNCHANGED <<log, started, outcome>>
  BY DEF Dequeue, TypeOK, logVars
<1>2. pass'[w].req = r
  BY DEF Dequeue, TypeOK, Call
<1> SUFFICES ASSUME NEW k \in Key PROVE OutcomeAt(k)'
  BY DEF OutcomeInv
<1>3. OutcomeAt(k) /\ SameFiled(k) /\ started[k[1]] \in Nat
  BY <1>1, StartTypes DEF OutcomeInv, SameFiled, Filed
<1>4. ~Holds(w, k) /\ (Holds(w, k)' <=> k = <<Ctrl(w), r>>)
  BY <1>1, <1>2 DEF Holds, Ctrl
<1>5. CASE k # <<Ctrl(w), r>>
  BY <1>1, <1>3, <1>4, <1>5, OtherKey, OutcomeFrame
<1>6. CASE k = <<Ctrl(w), r>>
  <2>1. \A v \in Worker : ~Holds(v, k)
    BY <1>1, <1>6 DEF Holds, Processing
  <2>2. \A v \in Worker : Holds(v, k)' => v = w
    BY <1>1, <2>1 DEF Holds, Ctrl
  <2>3. StartsOrdered(k)' /\ LastFiled(k)'
    BY <1>1, <1>3, <2>1 DEF OutcomeAt, StartsOrdered, LastFiled, SameFiled
  <2>4. ~InPass(w)'
    BY <1>1 DEF InPass
  <2> QED
    BY <2>2, <2>3, <2>4 DEF OutcomeAt
<1> QED
  BY <1>5, <1>6

(* A pass starts after every pass filed so far. *)
LEMMA OutcomeStart ==
  ASSUME TypeOK, OutcomeInv, NEW w \in Worker, StartPass(w)
  PROVE  OutcomeInv'
<1> DEFINE q == [pass[w] EXCEPT !.from = Len(ops), !.start = started[Ctrl(w)] + 1]
<1>1. /\ pc[w] = "start" /\ pc' = [pc EXCEPT ![w] = "delegate"] /\ pass' = [pass EXCEPT ![w] = q]
      /\ started' = [started EXCEPT ![Ctrl(w)] = @ + 1] /\ UNCHANGED <<log, outcome>>
  BY DEF StartPass, logVars
<1>2. q.req = pass[w].req /\ q.start = started[Ctrl(w)] + 1
  BY DEF TypeOK, Pass
<1> HIDE DEF q
<1>3. /\ pc'[w] = "delegate" /\ pass'[w] = q
      /\ \A v \in Worker : v # w => pc'[v] = pc[v] /\ pass'[v] = pass[v]
  BY <1>1 DEF TypeOK
<1> SUFFICES ASSUME NEW k \in Key PROVE OutcomeAt(k)'
  BY DEF OutcomeInv
<1>4. OutcomeAt(k) /\ SameFiled(k) /\ k[1] \in Controller /\ Ctrl(w) \in Controller
  BY <1>1, CtrlNsType DEF OutcomeInv, SameFiled, Filed, Key
<1>5. /\ started[k[1]] \in Nat /\ started'[k[1]] \in Nat /\ started[k[1]] <= started'[k[1]]
      /\ (k[1] = Ctrl(w) => started'[k[1]] = started[k[1]] + 1)
  BY <1>1, <1>4 DEF TypeOK
<1>6. \A v \in Worker : Holds(v, k)' <=> Holds(v, k)
  BY <1>1, <1>2, <1>3 DEF Holds, Ctrl
<1>7. CASE ~Holds(w, k)
  BY <1>1, <1>3, <1>4, <1>5, <1>6, <1>7, OtherKey, OutcomeFrame
<1>8. CASE Holds(w, k)
  <2>1. k[1] = Ctrl(w)
    BY <1>8 DEF Holds
  <2>2. \A v \in Worker : Holds(v, k)' => v = w
    BY <1>4, <1>6, <1>8 DEF OutcomeAt
  <2>3. StartsOrdered(k)'
    BY <1>4, <1>5, StartTypes DEF OutcomeAt, StartsOrdered, SameFiled
  <2>4. LastFiled(k)'
    <3>1. ~(\E v \in Worker : Holds(v, k) /\ pc[v] = "file")
      BY <1>1, <1>4, <1>8 DEF OutcomeAt
    <3> QED
      BY <1>1, <1>4, <3>1 DEF OutcomeAt, LastFiled, SameFiled
  <2>5. PassOver(w, k)'
    BY <1>2, <1>3, <1>4, <1>5, <2>1, StartTypes DEF OutcomeAt, StartsOrdered, SameFiled, PassOver
  <2> QED
    BY <2>2, <2>3, <2>4, <2>5 DEF OutcomeAt
<1> QED
  BY <1>7, <1>8

(* The delegate's return, or its panic, is the outcome of its key. *)
LEMMA OutcomeReturn ==
  ASSUME TypeOK, OutcomeInv, NEW w \in Worker, NEW asked \in Asked, NEW err \in BOOLEAN,
         DelegateReturn(w, asked, err)
  PROVE  OutcomeInv'
<1> DEFINE q == [pass[w] EXCEPT !.to = Len(ops), !.err = err, !.asked = asked,
                                !.after = Clamped(asked)]
           k0 == <<Ctrl(w), pass[w].req>>
<1>1. /\ pc[w] = "delegate" /\ pc' = [pc EXCEPT ![w] = "file"] /\ pass' = [pass EXCEPT ![w] = q]
      /\ outcome' = [outcome EXCEPT ![k0] = Verdict(err)] /\ UNCHANGED <<log, started>>
  BY DEF DelegateReturn, logVars, Verdict
<1>2. q.req = pass[w].req /\ q.start = pass[w].start /\ q.err = err
  BY DEF TypeOK, Pass
<1> HIDE DEF q
<1>3. /\ pc'[w] = "file" /\ pass'[w] = q
      /\ \A v \in Worker : v # w => pc'[v] = pc[v] /\ pass'[v] = pass[v]
  BY <1>1 DEF TypeOK
<1> SUFFICES ASSUME NEW k \in Key PROVE OutcomeAt(k)'
  BY DEF OutcomeInv
<1>4. OutcomeAt(k) /\ SameFiled(k) /\ started[k[1]] \in Nat
  BY <1>1, StartTypes DEF OutcomeInv, SameFiled, Filed
<1>5. outcome'[k] = IF k = k0 THEN Verdict(err) ELSE outcome[k]
  BY <1>1 DEF TypeOK
<1>6. \A v \in Worker : Holds(v, k)' <=> Holds(v, k)
  BY <1>1, <1>2, <1>3 DEF Holds, Ctrl
<1>7. Holds(w, k) <=> k = k0
  BY <1>1 DEF Holds
<1>8. CASE k # k0
  BY <1>1, <1>3, <1>4, <1>5, <1>6, <1>7, <1>8, OtherKey, OutcomeFrame
<1>9. CASE k = k0
  <2>1. \A v \in Worker : Holds(v, k)' => v = w
    BY <1>4, <1>6, <1>7, <1>9 DEF OutcomeAt
  <2>2. StartsOrdered(k)'
    BY <1>1, <1>4 DEF OutcomeAt, StartsOrdered, SameFiled
  <2>3. LastFiled(k)'
    <3>1. Holds(w, k)' /\ pc'[w] = "file" /\ outcome'[k] # "none"
      BY <1>3, <1>5, <1>6, <1>7, <1>9 DEF Verdict
    <3> QED
      BY <3>1 DEF LastFiled
  <2>4. PassOver(w, k)'
    <3>1. PassOver(w, k)
      BY <1>1, <1>4, <1>7, <1>9 DEF OutcomeAt, InPass
    <3> QED
      BY <1>1, <1>2, <1>3, <1>4, <1>5, <1>9, <3>1 DEF PassOver, SameFiled
  <2> QED
    BY <2>1, <2>2, <2>3, <2>4 DEF OutcomeAt
<1> QED
  BY <1>8, <1>9

LEMMA OutcomePanic ==
  ASSUME TypeOK, OutcomeInv, NEW w \in Worker, DelegatePanic(w)
  PROVE  OutcomeInv'
<1> DEFINE k0 == <<Ctrl(w), pass[w].req>>
<1>1. pc'[w] = "idle" /\ \A v \in Worker : v # w => pc'[v] = pc[v] /\ pass'[v] = pass[v]
  BY RequeueKeeps DEF DelegatePanic
<1>2. pc[w] = "delegate" /\ outcome' = [outcome EXCEPT ![k0] = "panic"] /\ UNCHANGED <<log, started>>
  BY DEF DelegatePanic, logVars
<1> SUFFICES ASSUME NEW k \in Key PROVE OutcomeAt(k)'
  BY DEF OutcomeInv
<1>3. OutcomeAt(k) /\ SameFiled(k) /\ started[k[1]] \in Nat
  BY <1>2, StartTypes DEF OutcomeInv, SameFiled, Filed
<1>4. outcome'[k] = IF k = k0 THEN "panic" ELSE outcome[k]
  BY <1>2 DEF TypeOK
<1>5. ~Holds(w, k)' /\ (Holds(w, k) <=> k = k0)
  BY <1>1, <1>2 DEF Holds
<1>6. CASE k # k0
  BY <1>1, <1>2, <1>3, <1>4, <1>5, <1>6, OtherKey, OutcomeFrame
<1>7. CASE k = k0
  <2>1. \A v \in Worker : ~Holds(v, k)'
    <3>1. \A v \in Worker : v # w => ~Holds(v, k)
      BY <1>3, <1>5, <1>7 DEF OutcomeAt
    <3> QED
      BY <1>1, <1>5, <3>1 DEF Holds, Ctrl
  <2>2. StartsOrdered(k)'
    BY <1>2, <1>3 DEF OutcomeAt, StartsOrdered, SameFiled
  <2>3. LastFiled(k)'
    BY <1>4, <1>7 DEF LastFiled
  <2> QED
    BY <2>1, <2>2, <2>3 DEF OutcomeAt
<1> QED
  BY <1>6, <1>7

(* The pass that is filed becomes the last of its key, with its verdict. *)
LEMMA OutcomeFile ==
  ASSUME TypeOK, OutcomeInv, NEW w \in Worker, FilePass(w)
  PROVE  OutcomeInv'
<1> DEFINE k0 == <<Ctrl(w), pass[w].req>>
<1>1. pc'[w] = "idle" /\ \A v \in Worker : v # w => pc'[v] = pc[v] /\ pass'[v] = pass[v]
  BY RequeueKeeps DEF FilePass
<1>2. pc[w] = "file" /\ append(w, FALSE) /\ UNCHANGED <<started, outcome>>
  BY DEF FilePass
<1> SUFFICES ASSUME NEW k \in Key PROVE OutcomeAt(k)'
  BY DEF OutcomeInv
<1>3. OutcomeAt(k) /\ started[k[1]] \in Nat
  BY StartTypes DEF OutcomeInv
<1>4. ~Holds(w, k)' /\ (Holds(w, k) <=> k = k0)
  BY <1>1, <1>2 DEF Holds
<1>5. CASE k # k0
  <2>1. SameFiled(k)
    BY <1>2, <1>5, AppendFiles
  <2> QED
    BY <1>1, <1>2, <1>3, <1>4, <1>5, <2>1, OtherKey, OutcomeFrame
<1>6. CASE k = k0
  <2>1. PICK n \in Nat : /\ Filed(k)' = Filed(k) \cup {n}
                         /\ \A i \in Filed(k) : i < n /\ log'[i] = log[i]
                         /\ log'[n].start = pass[w].start /\ log'[n].err = pass[w].err
    BY <1>2, <1>6, AppendFiles
  <2>2. PassOver(w, k)
    BY <1>2, <1>3, <1>4, <1>6 DEF OutcomeAt, InPass
  <2>3. \A v \in Worker : ~Holds(v, k)'
    <3>1. \A v \in Worker : v # w => ~Holds(v, k)
      BY <1>3, <1>4, <1>6 DEF OutcomeAt
    <3> QED
      BY <1>1, <1>4, <3>1 DEF Holds, Ctrl
  <2>4. StartsOrdered(k)'
    <3>1. ASSUME NEW i \in Filed(k)', NEW j \in Filed(k)', i < j
          PROVE  log'[i].start < log'[j].start
      <4>1. i \in Filed(k)
        BY <2>1, <3>1, StartTypes
      <4> QED
        BY <1>3, <2>1, <2>2, <3>1, <4>1 DEF OutcomeAt, StartsOrdered, PassOver
    <3>2. \A i \in Filed(k)' : log'[i].start <= started'[k[1]]
      BY <1>2, <1>3, <2>1, <2>2 DEF OutcomeAt, StartsOrdered, PassOver
    <3> QED
      BY <3>1, <3>2 DEF StartsOrdered
  <2>5. LastFiled(k)'
    <3>1. n \in Filed(k)' /\ \A j \in Filed(k)' : j <= n
      BY <2>1, StartTypes
    <3>2. outcome'[k] = Verdict(log'[n].err) /\ outcome'[k] # "none"
      BY <1>2, <2>1, <2>2 DEF PassOver, Verdict
    <3> QED
      BY <3>1, <3>2 DEF LastFiled, Verdict
  <2> QED
    BY <2>3, <2>4, <2>5 DEF OutcomeAt
<1> QED
  BY <1>5, <1>6

(* OutcomeInv is inductive. *)
LEMMA OutcomeInvInductive ==
  ASSUME TypeOK, OutcomeInv, [Next]_vars
  PROVE  OutcomeInv'
<1> USE DEF gateVars, logVars
<1>1. ASSUME UNCHANGED <<started, outcome>>,
             \A k \in Key : SameFiled(k) /\ \A w \in Worker : SamePass(w, k)
      PROVE  OutcomeInv'
  BY <1>1, OutcomeFrame, StartTypes DEF OutcomeInv
<1>2. ASSUME log' = log PROVE \A k \in Key : SameFiled(k)
  BY <1>2 DEF SameFiled, Filed
<1>3. ASSUME NEW ns \in Namespace, Activate(ns) PROVE OutcomeInv'
  <2>1. \A w \in Worker : /\ pass'[w].req = pass[w].req /\ pass'[w].start = pass[w].start
                          /\ pass'[w].err = pass[w].err
    <3> SUFFICES ASSUME NEW w \in Worker
                 PROVE  /\ pass'[w].req = pass[w].req /\ pass'[w].start = pass[w].start
                        /\ pass'[w].err = pass[w].err
      OBVIOUS
    <3>1. pass'[w] = [pass[w] EXCEPT !.opened = @ \/ (pc[w] # "idle" /\ Ns(w) = ns)]
      BY <1>3 DEF Activate
    <3>2. pass[w] \in Pass
      BY DEF TypeOK
    <3> QED
      BY <3>1, <3>2 DEF Pass
  <2>2. UNCHANGED <<log, pc, started, outcome>>
    BY <1>3 DEF Activate
  <2>3. \A k \in Key, w \in Worker : SamePass(w, k)
    BY <2>1, <2>2 DEF SamePass, Holds, InPass, Ctrl
  <2> QED
    BY <1>1, <1>2, <2>2, <2>3
<1>4. CASE UNCHANGED <<log, pc, pass, started, outcome>>
  <2>1. \A k \in Key, w \in Worker : SamePass(w, k)
    BY <1>4 DEF SamePass, Holds, InPass, Ctrl
  <2> QED
    BY <1>1, <1>2, <1>4, <2>1
<1>5. ASSUME NEW w \in Worker, Check(w) PROVE OutcomeInv'
  <2>1. /\ pc[w] = "check" /\ pc'[w] \in {"start", "refuse"} /\ pass' = pass
        /\ \A v \in Worker : v # w => pc'[v] = pc[v]
        /\ UNCHANGED <<log, started, outcome>>
    BY <1>5 DEF Check, TypeOK
  <2> QED
    BY <1>1, <1>2, <2>1, OutsidePass DEF InPass
<1>6. ASSUME NEW w \in Worker, refuse(w) PROVE OutcomeInv'
  <2>1. pc[w] = "refuse" /\ UNCHANGED <<log, started, outcome>>
    BY <1>6 DEF refuse
  <2>2. /\ pc'[w] \in {"start", "gated", "idle"}
        /\ pc'[w] = "idle" \/ pass'[w].req = pass[w].req
        /\ \A v \in Worker : v # w => pc'[v] = pc[v] /\ pass'[v] = pass[v]
    <3>1. CASE RefuseAdmits(w) \/ RefuseDrops(w)
      BY <3>1 DEF RefuseAdmits, RefuseDrops, TypeOK
    <3>2. CASE RefuseRetries(w) /\ Requeue(w, PauseRetry, FALSE)
      BY <3>2, RequeueKeeps
    <3>3. CASE RefuseRetries(w) /\ ~Requeue(w, PauseRetry, FALSE)
      <4> DEFINE q == [pass[w] EXCEPT !.after = PauseRetry, !.pause = pauses[Ns(w)]]
      <4>1. pc' = [pc EXCEPT ![w] = "gated"] /\ pass' = [pass EXCEPT ![w] = q]
        BY <3>3 DEF RefuseRetries
      <4>2. q.req = pass[w].req
        BY DEF TypeOK, Pass
      <4> HIDE DEF q
      <4> QED
        BY <4>1, <4>2 DEF TypeOK
    <3> QED
      BY <1>6, <3>1, <3>2, <3>3 DEF refuse
  <2> QED
    BY <1>1, <1>2, <2>1, <2>2, OutsidePass DEF InPass
<1>7. ASSUME NEW w \in Worker, AppendGated(w) PROVE OutcomeInv'
  <2>1. pc'[w] = "idle" /\ \A v \in Worker : v # w => pc'[v] = pc[v] /\ pass'[v] = pass[v]
    BY <1>7, RequeueKeeps DEF AppendGated
  <2>2. pc[w] = "gated" /\ append(w, TRUE) /\ UNCHANGED <<started, outcome>>
    BY <1>7 DEF AppendGated
  <2>3. \A k \in Key : SameFiled(k)
    BY <2>2, AppendFiles
  <2> QED
    BY <1>1, <2>1, <2>2, <2>3, OutsidePass DEF InPass
<1>8. ASSUME NEW w \in Worker, WorkerStep(w) PROVE OutcomeInv'
  BY <1>5, <1>6, <1>7, <1>8, OutcomeStart, OutcomeReturn, OutcomeFile DEF WorkerStep
<1> QED
  BY <1>3, <1>4, <1>8, OutcomeDequeue, OutcomePanic
     DEF Next, vars, Deactivate, Pause, Enqueue, DelayElapsed, DelegateWrite, OutsideWrite

(* Suite.Unconverged lists a key exactly when the last pass over it that     *)
(* returned did so with an error, once that pass is filed, for any number of *)
(* workers per controller.                                                   *)
THEOREM UnconvergedIsRight == Spec => []UnconvergedIsLastReturn
<1>1. Init => OutcomeInv
  <2> SUFFICES ASSUME Init, NEW k \in Key PROVE OutcomeAt(k)
    BY DEF OutcomeInv
  <2>1. DOMAIN log = {} /\ outcome[k] = "none" /\ \A w \in Worker : pc[w] = "idle"
    BY DEF Init
  <2>2. Filed(k) = {} /\ \A w \in Worker : ~Holds(w, k)
    BY <2>1 DEF Filed, Holds
  <2> QED
    BY <2>1, <2>2 DEF OutcomeAt, StartsOrdered, LastFiled
<1>2. TypeOK /\ OutcomeInv /\ [Next]_vars => OutcomeInv'
  BY OutcomeInvInductive
<1>3. ASSUME TypeOK, OutcomeInv PROVE UnconvergedIsLastReturn
  <2> SUFFICES ASSUME NEW k \in Key, outcome[k] # "panic",
                      ~\E w \in Worker : pc[w] = "file" /\ <<Ctrl(w), pass[w].req>> = k
               PROVE  k \in Unconverged <=> outcome[k] = "err"
    BY DEF UnconvergedIsLastReturn
  <2>1. OutcomeAt(k) /\ outcome[k] \in {"none", "ok", "err"}
    BY <1>3 DEF OutcomeInv, TypeOK
  <2>2. CASE outcome[k] = "none"
    BY <2>1, <2>2 DEF OutcomeAt, LastFiled, Unconverged
  <2>3. CASE outcome[k] # "none"
    <3>1. PICK i \in Filed(k) : (\A j \in Filed(k) : j <= i) /\ outcome[k] = Verdict(log[i].err)
      BY <2>1, <2>3 DEF OutcomeAt, LastFiled, Holds
    <3>2. \A j \in Filed(k) : j # i => log[j].start < log[i].start /\ j < i
      BY <1>3, <2>1, <3>1, StartTypes DEF OutcomeAt, StartsOrdered
    <3>3. log[i].err \in BOOLEAN /\ (outcome[k] = "err" <=> log[i].err)
      BY <1>3, <3>1, StartTypes DEF Verdict
    <3>4. log[i].err => k \in Unconverged
      BY <1>3, <3>2, StartTypes DEF Unconverged
    <3>5. k \in Unconverged => log[i].err
      <4> SUFFICES ASSUME NEW j \in Filed(k), log[j].err,
                          log[i].start < log[j].start \/ (log[i].start = log[j].start /\ i <= j)
                   PROVE  j = i
        BY DEF Unconverged
      <4> QED
        BY <1>3, <3>2, StartTypes
    <3> QED
      BY <3>3, <3>4, <3>5
  <2> QED
    BY <2>2, <2>3
<1> QED
  BY <1>1, <1>2, <1>3, TypeCorrect, PTL DEF Spec
==============================================================================
