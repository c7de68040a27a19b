----------------------------- MODULE Interceptor -----------------------------
(***************************************************************************)
(* The reconcile interceptor (ctrltest/interceptor.go) between             *)
(* controller-runtime and the reconcilers of a suite: the namespace gate   *)
(* with its pause, the requeue clamp, and the log of reconcile passes that *)
(* brackets the recorder's op log.                                         *)
(*                                                                         *)
(* Worker goroutines of the controllers run intercepted.Reconcile          *)
(* concurrently with each other and with a test that calls Activate,       *)
(* Deactivate and Pause.  No lock is held across the steps of one          *)
(* Reconcile call, so each critical section is an action of its own.       *)
(***************************************************************************)
EXTENDS OpLog

CONSTANTS
  Controller,    \* names the reconcilers are wrapped under
  Request,       \* reconcile requests (object keys)
  Namespace,
  NamespaceOf,   \* the namespace of each request
  Worker,        \* reconcile goroutines
  ControllerOf,  \* the controller each goroutine serves
  Asked,         \* RequeueAfter values a reconciler may return
  Clamp,         \* Interceptor.clamp; 0 disables compression
  PauseRetry,    \* requeue a paused namespace's refused request gets
  MaxEvents,     \* bound: requests enqueued by watches, per controller
  MaxPauses,     \* bound: Pause calls per namespace
  MaxOps,        \* bound: length of the op log
  MaxPasses      \* bound, per controller: after this many passes it returns
                 \* no error and stops asking to be requeued

ASSUME InterceptorAssumption ==
  /\ Request # {}
  /\ NamespaceOf \in [Request -> Namespace]
  /\ ControllerOf \in [Worker -> Controller]
  /\ Asked \subseteq Nat
  /\ Clamp \in Nat
  /\ PauseRetry \in Nat \ {0}
  /\ MaxEvents \in Nat /\ MaxPauses \in Nat /\ MaxOps \in Nat
  /\ MaxPasses \in [Controller -> Nat]
  /\ AnyController \notin Controller

VARIABLES
  active,     \* Interceptor.active
  paused,     \* Interceptor.paused
  gatedOnce,  \* Interceptor.gatedOnce: <<controller, request>> pairs
  seq,        \* Interceptor.seq
  log,        \* Interceptor.log
  ops,        \* Recorder.ops
  queue,      \* external: the ready part of each controller's workqueue
  delayed,    \* external: requests added to it with a delay
  pc,         \* where each worker is in intercepted.Reconcile
  pass,       \* the locals of its current call
  events,     \* requests enqueued so far, per controller
  \* History, read by the properties only:
  gate,       \* what the test last asked of each namespace
  pauses,     \* Pause calls so far, per namespace
  started,    \* passes that reached the delegate, per controller
  outcome     \* how the last pass of a <<controller, request>> ended

gateVars == <<active, paused, gatedOnce, gate, pauses>>
logVars  == <<seq, log>>
wqVars   == <<queue, delayed>>
vars     == <<gateVars, logVars, ops, wqVars, pc, pass, events, started, outcome>>

Key == Controller \X Request

(* The locals of intercepted.Reconcile.  start orders a controller's passes  *)
(* by rec.Start and names the pass; opened says that the gate was open at    *)
(* some moment since the request was dequeued; pause is the pause during     *)
(* which the request was refused, 0 when it was not refused by one.          *)
Pass == [req : Request, from : Nat, to : Nat, after : Nat, asked : Nat,
         err : BOOLEAN, start : Nat, opened : BOOLEAN, pause : Nat]

Record == [controller : Controller, req : Request, gated : BOOLEAN, seq : Nat,
           after : Nat, asked : Nat, err : BOOLEAN, from : Nat, to : Nat,
           start : Nat, pause : Nat]

Op == [controller : Controller \cup {AnyController}, accepted : BOOLEAN, by : Nat]

Locations == {"idle", "check", "refuse", "gated", "start", "delegate", "file"}

TypeOK ==
  /\ active \subseteq Namespace
  /\ paused \subseteq Namespace
  /\ gatedOnce \subseteq Key
  /\ seq \in [Controller -> Nat]
  /\ log \in Seq(Record)
  /\ ops \in Seq(Op)
  /\ queue \in [Controller -> SUBSET Request]
  /\ delayed \in [Controller -> SUBSET Request]
  /\ pc \in [Worker -> Locations]
  /\ pass \in [Worker -> Pass]
  /\ events \in [Controller -> Nat]
  /\ gate \in [Namespace -> {"open", "closed", "paused"}]
  /\ pauses \in [Namespace -> Nat]
  /\ started \in [Controller -> Nat]
  /\ outcome \in [Key -> {"none", "ok", "err", "panic"}]

Call(r, opened) == [req |-> r, from |-> 0, to |-> 0, after |-> 0, asked |-> 0,
                    err |-> FALSE, start |-> 0, opened |-> opened, pause |-> 0]

NoCall == Call(CHOOSE r \in Request : TRUE, FALSE)

(* NewInterceptor: no namespace is active, nothing is recorded. *)
Init ==
  /\ active = {} /\ paused = {} /\ gatedOnce = {}
  /\ seq = [c \in Controller |-> 0]
  /\ log = <<>> /\ ops = <<>>
  /\ queue = [c \in Controller |-> {}]
  /\ delayed = [c \in Controller |-> {}]
  /\ gate = [n \in Namespace |-> "closed"]
  /\ pauses = [n \in Namespace |-> 0]
  /\ started = [c \in Controller |-> 0]
  /\ events = [c \in Controller |-> 0]
  /\ outcome = [k \in Key |-> "none"]
  /\ pc = [w \in Worker |-> "idle"]
  /\ pass = [w \in Worker |-> NoCall]

Ns(w)   == NamespaceOf[pass[w].req]
Ctrl(w) == ControllerOf[w]
------------------------------------------------------------------------------
(* The gate, called by the test.  Each call is one critical section of      *)
(* gateMu.                                                                  *)

clearPauseLocked_KeepsOnce(ns) ==  \* slip: the once-set outlives its pause
  gatedOnce' = gatedOnce

clearPauseLocked(ns) ==
  gatedOnce' = {k \in gatedOnce : NamespaceOf[k[2]] # ns}

Activate(ns) ==
  /\ active' = active \cup {ns}
  /\ paused' = paused \ {ns}
  /\ clearPauseLocked(ns)
  /\ gate' = [gate EXCEPT ![ns] = "open"]
  /\ pass' = [w \in Worker |-> 
              [pass[w] EXCEPT !.opened = @ \/ (pc[w] # "idle" /\ Ns(w) = ns)]]
  /\ UNCHANGED <<pauses, logVars, ops, wqVars, pc, events, started, outcome>>

Deactivate(ns) ==
  /\ active' = active \ {ns}
  /\ paused' = paused \ {ns}
  /\ clearPauseLocked(ns)
  /\ gate' = [gate EXCEPT ![ns] = "closed"]
  /\ UNCHANGED <<pauses, logVars, ops, wqVars, pc, pass, events, started, outcome>>

Pause_KeepsActive(ns) ==  \* slip: the namespace stays in the active set
  /\ pauses[ns] < MaxPauses
  /\ clearPauseLocked(ns)
  /\ paused' = paused \cup {ns}
  /\ gate' = [gate EXCEPT ![ns] = "paused"]
  /\ pauses' = [pauses EXCEPT ![ns] = @ + 1]
  /\ UNCHANGED <<active, logVars, ops, wqVars, pc, pass, events, started, outcome>>

Pause(ns) ==
  /\ pauses[ns] < MaxPauses
  /\ active' = active \ {ns}
  /\ clearPauseLocked(ns)
  /\ paused' = (paused \ {ns}) \cup {ns}
  /\ gate' = [gate EXCEPT ![ns] = "paused"]
  /\ pauses' = [pauses EXCEPT ![ns] = @ + 1]
  /\ UNCHANGED <<logVars, ops, wqVars, pc, pass, events, started, outcome>>
------------------------------------------------------------------------------
(* The workqueue of controller-runtime (external): it hands no request to   *)
(* two workers of one controller at once, keeps a request added meanwhile   *)
(* until the first call is done, and brings a delayed one back.             *)

Processing(c, r) == \E w \in Worker : Ctrl(w) = c /\ pc[w] # "idle" /\ pass[w].req = r

Enqueue(c, r) ==
  /\ events[c] < MaxEvents
  /\ events' = [events EXCEPT ![c] = @ + 1]
  /\ queue' = [queue EXCEPT ![c] = @ \cup {r}]
  /\ UNCHANGED <<gateVars, logVars, ops, delayed, pc, pass, started, outcome>>

DelayElapsed(c, r) ==
  /\ r \in delayed[c]
  /\ delayed' = [delayed EXCEPT ![c] = @ \ {r}]
  /\ queue' = [queue EXCEPT ![c] = @ \cup {r}]
  /\ UNCHANGED <<gateVars, logVars, ops, pc, pass, events, started, outcome>>

Dequeue(w, r) ==
  /\ pc[w] = "idle"
  /\ r \in queue[Ctrl(w)]
  /\ ~Processing(Ctrl(w), r)
  /\ queue' = [queue EXCEPT ![Ctrl(w)] = @ \ {r}]
  /\ pc' = [pc EXCEPT ![w] = "check"]
  /\ pass' = [pass EXCEPT ![w] = Call(r, gate[NamespaceOf[r]] = "open")]
  /\ UNCHANGED <<gateVars, logVars, ops, delayed, events, started, outcome>>

(* The controller is told after or an error, and calls Done. *)
Requeue(w, after, err) ==
  /\ delayed' = [delayed EXCEPT ![Ctrl(w)] =
                   IF err \/ after > 0 THEN @ \cup {pass[w].req} ELSE @]
  /\ pc' = [pc EXCEPT ![w] = "idle"]
  /\ pass' = [pass EXCEPT ![w] = NoCall]
  /\ UNCHANGED queue
------------------------------------------------------------------------------
(* intercepted.Reconcile *)

(* The Active check, under the read lock. *)
Check(w) ==
  /\ pc[w] = "check"
  /\ pc' = [pc EXCEPT ![w] = IF Ns(w) \in active THEN "start" ELSE "refuse"]
  /\ UNCHANGED <<gateVars, logVars, ops, wqVars, pass, events, started, outcome>>

(* refuse: the re-check and the once-set update in one critical section.     *)
RefuseAdmits(w) ==
  /\ Ns(w) \in active
  /\ pc' = [pc EXCEPT ![w] = "start"]
  /\ UNCHANGED <<gatedOnce, pass, wqVars>>

RefuseDrops_NoRecheck(w) ==  \* slip: answers from the caller's stale check
  /\ Ns(w) \notin paused
  /\ pc' = [pc EXCEPT ![w] = "gated"]
  /\ UNCHANGED <<gatedOnce, pass, wqVars>>

RefuseDrops(w) ==
  /\ Ns(w) \notin active
  /\ Ns(w) \notin paused
  /\ pc' = [pc EXCEPT ![w] = "gated"]
  /\ UNCHANGED <<gatedOnce, pass, wqVars>>

RefuseRetries(w) ==
  /\ Ns(w) \notin active
  /\ Ns(w) \in paused
  /\ gatedOnce' = gatedOnce \cup {<<Ctrl(w), pass[w].req>>}
  /\ IF <<Ctrl(w), pass[w].req>> \in gatedOnce
     THEN Requeue(w, PauseRetry, FALSE)
     ELSE /\ pc' = [pc EXCEPT ![w] = "gated"]
          /\ pass' = [pass EXCEPT ![w] = [@ EXCEPT !.after = PauseRetry,
                                                !.pause = pauses[Ns(w)]]]
          /\ UNCHANGED wqVars

refuse(w) ==
  /\ pc[w] = "refuse"
  /\ RefuseAdmits(w) \/ RefuseDrops(w) \/ RefuseRetries(w)
  /\ UNCHANGED <<active, paused, gate, pauses, logVars, ops, events, started, outcome>>

(* append: under Interceptor.mu, a sequence number for an admitted pass only. *)
(* A gated record starts now, not before any pass its controller has started. *)
append(w, gated) ==
  LET c == Ctrl(w)
      n == IF gated THEN 0 ELSE seq[c] + 1
  IN  /\ seq' = IF gated THEN seq ELSE [seq EXCEPT ![c] = n]
      /\ log' = Append(log,
           [controller |-> c, req |-> pass[w].req, gated |-> gated, seq |-> n,
            after |-> pass[w].after, asked |-> pass[w].asked, err |-> pass[w].err,
            from |-> pass[w].from, to |-> pass[w].to,
            start |-> IF gated THEN started[c] ELSE pass[w].start, pause |-> pass[w].pause])

AppendGated(w) ==
  /\ pc[w] = "gated"
  /\ append(w, TRUE)
  /\ Requeue(w, pass[w].after, FALSE)
  /\ UNCHANGED <<gateVars, ops, events, started, outcome>>

(* opFrom and Start are read, then the delegate is called. *)
StartPass(w) ==
  /\ pc[w] = "start"
  /\ pc' = [pc EXCEPT ![w] = "delegate"]
  /\ pass' = [pass EXCEPT ![w] = [@ EXCEPT !.from = Len(ops),
                                           !.start = started[Ctrl(w)] + 1]]
  /\ started' = [started EXCEPT ![Ctrl(w)] = @ + 1]
  /\ UNCHANGED <<gateVars, logVars, ops, wqVars, events, outcome>>

(* The delegate writes through its recording client, which files the op      *)
(* before the delegate goes on, accepted or rejected by the API server.      *)
DelegateWrite(w, accepted) ==
  /\ pc[w] = "delegate"
  /\ Len(ops) < MaxOps
  /\ ops' = Append(ops, [controller |-> Ctrl(w), accepted |-> accepted,
                         by |-> pass[w].start])
  /\ UNCHANGED <<gateVars, logVars, wqVars, pc, pass, events, started, outcome>>

Clamped(asked) == IF Clamp > 0 /\ asked > Clamp THEN Clamp ELSE asked

(* The delegate returns; opTo, RequestedAfter and the clamped result. *)
DelegateReturn(w, asked, err) ==
  /\ pc[w] = "delegate"
  /\ started[Ctrl(w)] >= MaxPasses[Ctrl(w)] => asked = 0 /\ ~err
  /\ pc' = [pc EXCEPT ![w] = "file"]
  /\ pass' = [pass EXCEPT ![w] = [@ EXCEPT !.to = Len(ops), !.err = err, !.asked = asked,
                                           !.after = Clamped(asked)]]
  /\ outcome' = [outcome EXCEPT ![<<Ctrl(w), pass[w].req>>] = IF err THEN "err" ELSE "ok"]
  /\ UNCHANGED <<gateVars, logVars, ops, wqVars, events, started>>

FilePass(w) ==
  /\ pc[w] = "file"
  /\ append(w, FALSE)
  /\ Requeue(w, pass[w].after, pass[w].err)
  /\ UNCHANGED <<gateVars, ops, events, started, outcome>>

(* The delegate panics: the frame unwinds past the append, controller-       *)
(* runtime recovers the panic as an error and retries the request.           *)
DelegatePanic(w) ==
  /\ pc[w] = "delegate"
  /\ started[Ctrl(w)] < MaxPasses[Ctrl(w)]
  /\ Requeue(w, 0, TRUE)
  /\ outcome' = [outcome EXCEPT ![<<Ctrl(w), pass[w].req>>] = "panic"]
  /\ UNCHANGED <<gateVars, logVars, ops, events, started>>

(* A write through the same recorder outside any pass: the test's own.       *)
OutsideWrite ==
  /\ Len(ops) < MaxOps
  /\ ops' = Append(ops, [controller |-> AnyController, accepted |-> TRUE, by |-> 0])
  /\ UNCHANGED <<gateVars, logVars, wqVars, pc, pass, events, started, outcome>>

WorkerStep(w) ==
  \/ Check(w)
  \/ refuse(w)
  \/ AppendGated(w)
  \/ StartPass(w)
  \/ \E asked \in Asked, err \in BOOLEAN : DelegateReturn(w, asked, err)
  \/ FilePass(w)

Next ==
  \/ \E ns \in Namespace : Activate(ns) \/ Deactivate(ns) \/ Pause(ns)
  \/ \E c \in Controller, r \in Request : Enqueue(c, r) \/ DelayElapsed(c, r)
  \/ \E w \in Worker, r \in Request : Dequeue(w, r)
  \/ \E w \in Worker : WorkerStep(w) \/ DelegatePanic(w)
  \/ \E w \in Worker, accepted \in BOOLEAN : DelegateWrite(w, accepted)
  \/ OutsideWrite

Spec == Init /\ [][Next]_vars
------------------------------------------------------------------------------
(* Readers of the log. *)

(* Interceptor.Ops: the writes of a filed pass, as positions of the op log.  *)
Ops(rec) == IF rec.gated THEN {} ELSE opsBetween(ops, rec.from, rec.to, rec.controller)

(* Interceptor.reconcileOf: the filed passes that claim the op at position   *)
(* idx; the code returns the first of them, or none.                         *)
reconcileOf(controller, idx) ==
  {i \in DOMAIN log : /\ ~log[i].gated /\ log[i].controller = controller
                      /\ idx >= log[i].from /\ idx < log[i].to}

(* Suite.Unconverged: the keys whose latest filed pass errored.  Gated       *)
(* records are skipped; passes are ordered by Start, ties to the later entry. *)
Filed_CountsGated(k) ==  \* slip: a refused retry counts as a pass
  {i \in DOMAIN log : <<log[i].controller, log[i].req>> = k}

Filed(k) == {i \in DOMAIN log : ~log[i].gated /\ <<log[i].controller, log[i].req>> = k}

Unconverged ==
  {k \in Key : \E i \in Filed(k) :
      /\ log[i].err
      /\ \A j \in Filed(k) : log[j].start < log[i].start \/ (log[j].start = log[i].start /\ j <= i)}
------------------------------------------------------------------------------
(* Properties *)

Running(w) == pc[w] \in {"start", "delegate", "file"}

(* "A test can rely on no request being admitted after Pause": a request     *)
(* handed to a worker after Pause or Deactivate, with no Activate since, is  *)
(* never passed to its reconciler, whatever the gate calls that race with    *)
(* the Active check and the re-check in refuse.                              *)
NoAdmissionAfterPause == \A w \in Worker : Running(w) => pass[w].opened

(* "Each (controller, request) is recorded as a gated Reconcile once per     *)
(* pause": at most one gated record per pause, counting the one a worker is  *)
(* about to append, and no refusal of the current pause goes unrecorded.     *)
GatedIn(c, r, p) ==
  {<<"log", i>> : i \in {i \in DOMAIN log : /\ log[i].gated /\ log[i].controller = c
                                            /\ log[i].req = r /\ log[i].pause = p}}
  \cup
  {<<"pc", w>> : w \in {w \in Worker : /\ pc[w] = "gated" /\ Ctrl(w) = c
                                       /\ pass[w].req = r /\ pass[w].pause = p}}

GatedOncePerPause ==
  \A c \in Controller, r \in Request :
    /\ \A p \in 1 .. MaxPauses : \A x, y \in GatedIn(c, r, p) : x = y
    /\ <<c, r>> \in gatedOnce => GatedIn(c, r, pauses[NamespaceOf[r]]) # {}

(* Each controller runs one pass at a time: MaxConcurrentReconciles 1.       *)
OneWorkerPerController ==
  \A v, w \in Worker : Ctrl(v) = Ctrl(w) => v = w

(* Interceptor.Ops: "One in-flight reconcile per controller means this       *)
(* controller's ops inside [opFrom, opTo) can only have come from this       *)
(* pass".  A filed pass owns exactly the accepted ops its delegate made,     *)
(* though other controllers write into the same range, and no op is claimed  *)
(* by a pass that did not make it.                                           *)
OpsAttributedExactly ==
  OneWorkerPerController =>
    \A i \in DOMAIN log : ~log[i].gated =>
      /\ Ops(log[i]) = {x \in 0 .. Len(ops) - 1 :
                          /\ ops[x + 1].accepted
                          /\ ops[x + 1].controller = log[i].controller
                          /\ ops[x + 1].by = log[i].start}
      /\ \A x \in 0 .. Len(ops) - 1 : i \in reconcileOf(ops[x + 1].controller, x) =>
           ops[x + 1].by = log[i].start

(* Suite.Unconverged lists a key exactly when the last pass over it that     *)
(* returned did so with an error, once that pass is filed, at any number of  *)
(* workers per controller and however often the gate refused it since.       *)
UnconvergedIsLastReturn ==
  \A k \in Key :
    \/ outcome[k] = "panic"
    \/ \E w \in Worker : pc[w] = "file" /\ <<Ctrl(w), pass[w].req>> = k
    \/ k \in Unconverged <=> outcome[k] = "err"

(* A request that a pause or an open gate covers is not lost: while the      *)
(* namespace is not closed, it leaves the queue only for its reconciler.     *)
(* This is what lets Activate wake the requests of a pause "with no object   *)
(* write needed".                                                            *)
Pending(c, r) ==
  \/ r \in queue[c] \cup delayed[c]
  \/ \E w \in Worker : /\ Ctrl(w) = c /\ pass[w].req = r
                       /\ pc[w] \in {"check", "refuse", "start"}
  \/ \E w \in Worker : /\ Ctrl(w) = c /\ pass[w].req = r
                       /\ pc[w] = "gated" /\ pass[w].after > 0

InDelegate(c, r) == \E w \in Worker : Ctrl(w) = c /\ pass[w].req = r /\ pc[w] = "delegate"

WakeupKept ==
  [][\A c \in Controller, r \in Request :
       Pending(c, r) /\ gate[NamespaceOf[r]] # "closed" =>
         Pending(c, r)' \/ InDelegate(c, r)']_vars
==============================================================================
