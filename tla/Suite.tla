-------------------------------- MODULE Suite --------------------------------
(***************************************************************************)
(* The life of a suite (suite.go): Boot and its failure path, one case     *)
(* with its namespace and a measurement of quiescence, and teardown, over  *)
(* managers that stop when they like, or never.                            *)
(***************************************************************************)
EXTENDS Quiescence

CONSTANTS
  NManagers,
  StopTimeout   \* managerStopTimeout

VARIABLES
  su,       \* Boot, the case and teardown: [pc, i, until, cancelled, errs]
  mgr,      \* manager -> "absent", "built", "running", "stopped", "failed"
  sim,      \* the data plane simulator: "off", "running", "stopped"
  env,      \* envtest: "off", "up", "stopped"
  ns        \* the case's namespace: "none", "live", "deleted"

suiteVars == <<su, mgr, sim, env, ns>>
vars == <<qvars, suiteVars>>

Manager == 1..NManagers
ASSUME PairsHaveManagers == Pair \subseteq Manager
ASSUME SuiteAssumption == NManagers \in Nat /\ StopTimeout \in Nat

Init ==
  /\ QInit
  /\ su = [pc |-> "boot", i |-> 1, until |-> 0, cancelledAt |-> -1, errs |-> {}]
  /\ mgr = [m \in Manager |-> "absent"] /\ sim = "off" /\ env = "off" /\ ns = "none"

At(pc) == su.pc = pc
Go(pc) == su' = [su EXCEPT !.pc = pc, !.i = 1]
Sim == 0   \* the simulator among the errors
Env == -1  \* envtest among them
Cancelled == su.cancelledAt >= 0
------------------------------------------------------------------------------
(* Boot. *)

(* cancel, and an instant until which everything together is waited for. *)
Cancel(pc) == su' = [su EXCEPT !.pc = pc, !.i = 1, !.cancelledAt = now, !.until = now + StopTimeout]

(* envtest may not start, in which case there is nothing to undo. *)
envStart ==
  /\ At("boot")
  /\ \/ env' = "up" /\ Go("managers")
     \/ env' = env /\ Go("failed")
  /\ UNCHANGED <<qvars, mgr, sim, ns>>

(* Managers are built, and then registered, in order; either may fail. *)
newManagers ==
  /\ At("managers")
  /\ \/ mgr' = [m \in Manager |-> "built"] /\ Go("start")
     \/ \E n \in 0..NManagers :
          mgr' = [m \in Manager |-> IF m <= n THEN "built" ELSE "absent"] /\ Cancel("failWait")
  /\ UNCHANGED <<qvars, sim, env, ns>>

startManagers ==
  /\ At("start") /\ mgr' = [m \in Manager |-> "running"] /\ Go("sync")
  /\ UNCHANGED <<qvars, sim, env, ns>>

(* WaitForCacheSync and the operators' namespaces, either of which may     *)
(* fail, and then the simulator, if there is to be one.                    *)
bootEnds ==
  /\ At("sync")
  /\ \/ Cancel("failWait") /\ UNCHANGED sim
     \/ Go("up") /\ sim' \in {"off", "running"}
  /\ UNCHANGED <<qvars, mgr, env, ns>>

Started(m) == mgr[m] \in {"running", "stopped", "failed"}

(* The failure path: a stop signal of every manager that was started, or   *)
(* the deadline; then envtest, whose failure to stop is ignored.           *)
bootFails ==
  /\ At("failWait")
  /\ IF su.i <= NManagers /\ Started(su.i)
     THEN /\ mgr[su.i] # "running" \/ now >= su.until
          /\ su' = [su EXCEPT !.i = @ + 1] /\ UNCHANGED env
     ELSE env' \in {"stopped", env} /\ Go("failed")
  /\ UNCHANGED <<qvars, mgr, sim, ns>>
------------------------------------------------------------------------------
(* The case. *)

(* Activate, then create; a failed create closes the gate again and ends   *)
(* the test.                                                               *)
Namespace ==
  /\ At("up") /\ ns = "none" /\ ~gate
  /\ gate' = TRUE /\ Go("create")
  /\ UNCHANGED <<now, pass, ops, stream, q, acts, lastOp, seenOp, mgr, sim, env, ns>>

createNamespace ==
  /\ At("create")
  /\ \/ ns' = "live" /\ Go("case") /\ UNCHANGED gate
     \/ gate' = FALSE /\ Go("cleaned") /\ UNCHANGED ns
  /\ UNCHANGED <<now, pass, ops, stream, q, acts, lastOp, seenOp, mgr, sim, env>>

(* The test measures quiescence, or ends without; the stream and the       *)
(* cursor go.  The clock starts again, since only differences are read.    *)
caseEnds ==
  /\ At("case") /\ ~Measuring
  /\ ops' = <<>> /\ hold' = <<>> /\ events' = 0 /\ lost' = FALSE
  /\ arrived' = {} /\ lastOp' = 0 /\ seenOp' = 0
  /\ now' = 0 /\ q' = QIdle /\ acts' = 0
  /\ Go("cleanup") /\ UNCHANGED <<pass, gate, mgr, sim, env, ns>>

(* Cleanups run last in, first out: the gate closes, then the namespace    *)
(* goes.                                                                   *)
Deactivate ==
  /\ At("cleanup") /\ gate
  /\ gate' = FALSE
  /\ UNCHANGED <<now, pass, ops, stream, q, acts, lastOp, seenOp, suiteVars>>

deleteNamespace ==
  /\ At("cleanup") /\ ~gate
  /\ ns' = "deleted" /\ Go("cleaned")
  /\ UNCHANGED <<qvars, mgr, sim, env>>
------------------------------------------------------------------------------
(* teardown. *)

teardown ==
  /\ At("cleaned") /\ Cancel("stopping")
  /\ UNCHANGED <<qvars, mgr, sim, env, ns>>

Report(x) == su' = [su EXCEPT !.i = @ + 1, !.errs = @ \cup {x}]

(* Mutant: each manager gets a deadline of its own. *)
joinManager_Each ==
  /\ At("stopping") /\ su.i <= NManagers
  /\ \/ mgr[su.i] = "stopped" /\ su' = [su EXCEPT !.i = @ + 1, !.until = now + StopTimeout]
     \/ mgr[su.i] = "failed" /\ Report(su.i)
     \/ now >= su.until /\ su' = [su EXCEPT !.i = @ + 1, !.errs = @ \cup {su.i},
                                            !.until = now + StopTimeout]
  /\ UNCHANGED <<qvars, mgr, sim, env, ns>>

(* A manager's answer or the deadline, whichever the select picks; a late  *)
(* manager and one that failed are reported.                               *)
joinManager ==
  /\ At("stopping") /\ su.i <= NManagers
  /\ \/ mgr[su.i] = "stopped" /\ su' = [su EXCEPT !.i = @ + 1]
     \/ mgr[su.i] = "failed" /\ Report(su.i)
     \/ now >= su.until /\ Report(su.i)
  /\ UNCHANGED <<qvars, mgr, sim, env, ns>>

joinSim ==
  /\ At("stopping") /\ su.i = NManagers + 1
  /\ \/ sim # "running" /\ su' = [su EXCEPT !.pc = "stopEnv"]
     \/ sim # "off" /\ now >= su.until
        /\ su' = [su EXCEPT !.pc = "stopEnv", !.errs = @ \cup {Sim}]
  /\ UNCHANGED <<qvars, mgr, sim, env, ns>>

(* envtest may fail to stop, which teardown reports. *)
envStop ==
  /\ At("stopEnv")
  /\ \/ env' = "stopped" /\ Go("down")
     \/ env' = env /\ su' = [su EXCEPT !.pc = "down", !.i = 1, !.errs = @ \cup {Env}]
  /\ UNCHANGED <<qvars, mgr, sim, ns>>
------------------------------------------------------------------------------
(* A manager's Start returns once cancelled and idle, cleanly or not; or   *)
(* it dies of itself, outside a measurement.  stopped has room, so its     *)
(* goroutine never waits.                                                  *)
managerStops ==
  /\ \E m \in Manager : /\ mgr[m] = "running"
                        /\ \/ Cancelled /\ (m \in Pair => pass[m].pc = "idle") /\ mgr' = [mgr EXCEPT ![m] = "stopped"]
                           \/ ~Measuring /\ mgr' = [mgr EXCEPT ![m] = "failed"]
  /\ UNCHANGED <<qvars, su, sim, env, ns>>

simStops ==
  /\ sim = "running" /\ Cancelled /\ sim' = "stopped"
  /\ UNCHANGED <<qvars, su, mgr, env, ns>>

Blocked ==
  \/ At("failWait") /\ su.i <= NManagers /\ mgr[su.i] = "running" /\ now < su.until
  \/ At("stopping") /\ su.i <= NManagers /\ mgr[su.i] = "running" /\ now < su.until
  \/ At("stopping") /\ su.i > NManagers /\ sim = "running" /\ now < su.until

(* Time passes in the test, whatever it is doing, and while the joins have *)
(* to wait.  The merge of a stream keeps up with it.                       *)
Tick ==
  /\ now < MaxTime /\ (Measuring \/ Blocked) /\ HoldsInTime
  /\ now' = now + 1
  /\ UNCHANGED <<envVars, q, seenOp, suiteVars>>

Activity ==
  \/ \E p \in Pair : mgr[p] = "running" /\ (Admit(p) \/ Answered(p) \/ Filed(p) \/ Returns(p))
  \/ sim = "running" /\ FakeWrites
  \/ Ripens \/ StreamLost

Boot == envStart \/ newManagers \/ startManagers \/ bootEnds \/ bootFails
Case == Namespace \/ createNamespace \/ caseEnds \/ Deactivate \/ deleteNamespace
Teardown == teardown \/ joinManager \/ joinSim \/ envStop

Next == \/ Boot \/ Case \/ Teardown \/ managerStops \/ simStops \/ Tick
        \/ At("case") /\ Measure /\ UNCHANGED suiteVars
        \/ Activity /\ UNCHANGED suiteVars

Spec == Init /\ [][Next]_vars
------------------------------------------------------------------------------
Running == {m \in Manager : mgr[m] = "running"} \cup (IF sim = "running" THEN {Sim} ELSE {})

(* envtest is never stopped under something that still talks to it, unless *)
(* that was given managerStopTimeout to end, and after a case is named in  *)
(* teardown's error; and all of them together are given that time once,    *)
(* however many there are (teardown, Boot's failure path).                 *)
EnvStopsLast ==
  /\ env = "stopped" /\ Running # {} =>
       /\ now >= su.cancelledAt + StopTimeout
       /\ su.pc = "down" => Running \subseteq su.errs
  /\ Cancelled => now <= su.cancelledAt + StopTimeout
==============================================================================
