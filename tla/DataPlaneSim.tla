----------------------------- MODULE DataPlaneSim -----------------------------
(***************************************************************************)
(* A sweep of DataPlaneSim (datasim.go) over one workload of either kind:  *)
(* workload pods and claims, pod status, workload status, claim binding,   *)
(* in that order.  The sweep is one goroutine that acts on what it listed; *)
(* the others act between any two of its calls.  Garbage collection has a  *)
(* module of its own.                                                      *)
(***************************************************************************)
EXTENDS StatefulSetSim, DeploymentSim

Idle == [pc |-> "idle", wl |-> None, pods |-> <<>>, plan |-> <<>>, born |-> {}, todo |-> {},
         rule |-> None]

Init ==
  /\ wl \in Workloads
  /\ status = None /\ pods = <<>> /\ claims = <<>> /\ refused = {}
  /\ rule = None /\ reported = {}
  /\ sim = Idle
  /\ edits = 0 /\ disturbed = FALSE

IsSet(w) == w.kind = "StatefulSet"
------------------------------------------------------------------------------
(* A tick of Run: born is reset and the workloads are listed.  With        *)
(* Workloads off the sweep starts at the pods.                             *)
sweep ==
  /\ sim.pc = "idle"
  /\ sim' = IF wl.simulated THEN [sim EXCEPT !.pc = "listPods", !.wl = wl]
            ELSE [sim EXCEPT !.pc = "act"]
  /\ UNCHANGED <<wl, status, pods, claims, refused, rule, reported, ghosts>>

(* The second List, and the calls it makes the sweep plan.  A workload     *)
(* under deletion is skipped.                                              *)
tickWorkloadPods ==
  /\ sim.pc = "listPods"
  /\ sim' = IF sim.wl.deleting THEN [sim EXCEPT !.pc = "act"]
            ELSE IF IsSet(sim.wl) THEN [sim EXCEPT !.pc = "claims", !.pods = pods]
            ELSE [sim EXCEPT !.pc = "act", !.plan = reconcileDeploymentPods(sim.wl, pods)]
  /\ UNCHANGED <<wl, status, pods, claims, refused, rule, reported, ghosts>>

(* A StatefulSet's claims come before its pods, which are made whatever    *)
(* became of the claims.  Nobody else writes claims.                       *)
ReconcileClaims(failed) ==
  /\ sim.pc = "claims"
  /\ claims' = reconcileStatefulSetClaims(sim.wl, sim.pods, claims, failed)
  /\ refused' = (refused \cup failed) \ DOMAIN claims'
  /\ sim' = [sim EXCEPT !.pc = "act", !.pods = <<>>,
                        !.plan = reconcileStatefulSetPods(sim.wl, sim.pods)]
  /\ UNCHANGED <<wl, status, pods, rule, reported>>

tickClaims == ReconcileClaims({}) /\ UNCHANGED ghosts

(* The status half lists the workloads again, and then the pods.  With     *)
(* Workloads off it needs none.                                            *)
tickWorkloadStatus ==
  /\ sim.pc = "pods" /\ sim.todo = {}
  /\ sim' = [sim EXCEPT !.pc = IF wl.simulated THEN "status" ELSE "write",
                        !.wl = wl, !.pods = <<>>]
  /\ UNCHANGED <<wl, status, pods, claims, refused, rule, reported, ghosts>>

listStatusPods ==
  /\ sim.pc = "status"
  /\ sim' = [sim EXCEPT !.pc = "write", !.pods = pods]
  /\ UNCHANGED <<wl, status, pods, claims, refused, rule, reported, ghosts>>

(* The status is computed from what was listed, and patched. *)
updateStatus ==
  /\ sim.pc = "write"
  /\ LET w == sim.wl IN
       status' = CASE ~w.simulated /\ IsSet(w) -> tickStatefulSets(w)
                   [] ~w.simulated /\ ~IsSet(w) -> tickDeployments(w)
                   [] w.simulated /\ IsSet(w) -> updateStatefulSetStatus(w, status, sim.pods)
                   [] OTHER -> updateDeploymentStatus(w, sim.pods)
  /\ pods' = [n \in DOMAIN pods |->
               [pods[n] EXCEPT !.shown = IF n \in Active(sim.pods) THEN "counted" ELSE @]]
  /\ sim' = [sim EXCEPT !.pc = "pvcs", !.wl = None, !.pods = <<>>]
  /\ UNCHANGED <<wl, claims, refused, rule, reported, ghosts>>

BindClaims(failed) ==
  /\ sim.pc = "pvcs"
  /\ claims' = [o \in DOMAIN claims |-> [claims[o] EXCEPT !.bound = @ \/ o \notin failed]]
  /\ sim' = Idle
  /\ UNCHANGED <<wl, status, pods, refused, rule, reported>>

tickPVCs == BindClaims({}) /\ UNCHANGED ghosts

Sweep == \/ sweep \/ tickWorkloadPods \/ tickClaims \/ Act \/ TickPods \/ PodTick \/ podFault \/ PodPatch
         \/ tickWorkloadStatus \/ listStatusPods \/ updateStatus \/ tickPVCs
------------------------------------------------------------------------------
(* Calls that fail. *)

(* One of the Lists of the workload's pods half: no pod or claim is        *)
(* touched in this sweep.                                                  *)
WorkloadPodsFail ==
  /\ sim.pc \in {"idle", "listPods", "claims"} /\ (sim.pc = "idle" => wl.simulated) /\ Fails
  /\ sim' = [sim EXCEPT !.pc = "act", !.pods = <<>>]
  /\ UNCHANGED <<pods, claims, refused>>

(* Creates or Deletes of claims. *)
ClaimsFail ==
  /\ sim.pc = "claims" /\ Edit(FALSE)
  /\ \E failed \in SUBSET (DOMAIN claims \cup 0..(sim.wl.replicas - 1)) :
       failed # {} /\ ReconcileClaims(failed)

(* A List of the status half, or its Patch: the status of this sweep is    *)
(* not written, and a pod born in it goes uncounted.                       *)
WorkloadStatusFails ==
  /\ sim.pc \in {"pods", "status", "write"} /\ sim.todo = {} /\ Fails
  /\ pods' = [n \in DOMAIN pods |->
               [pods[n] EXCEPT !.shown = IF @ = "no" THEN "skipped" ELSE @]]
  /\ sim' = [sim EXCEPT !.pc = "pvcs", !.wl = None, !.pods = <<>>]
  /\ UNCHANGED <<claims, refused>>

(* Patches of claims; their List fails them all. *)
PVCsFail ==
  /\ Edit(FALSE)
  /\ \E failed \in SUBSET DOMAIN claims : failed # {} /\ BindClaims(failed)

CallFails == \/ WorkloadPodsFail \/ ClaimsFail \/ ActFails \/ TickPodsFails \/ PodPatchFails
             \/ WorkloadStatusFails \/ PVCsFail

Next == Sweep \/ CallFails \/ Others

(* Run sweeps once per interval until it is cancelled; finalizers are      *)
(* removed and gate conditions set by controllers that keep running.       *)
Spec == Init /\ [][Next]_vars /\ WF_vars(Sweep) /\ WF_vars(Terminated) /\ WF_vars(SetGate)
------------------------------------------------------------------------------
(* Properties. *)

(* A StatefulSet's pod finds its claim, unless the Create of that claim    *)
(* was refused and has not succeeded since: claims are created before      *)
(* pods, the error of a refused Create is ignored and its pod created all  *)
(* the same (statefulset_sim.go:326), and a claim goes only after its pod  *)
(* has gone, however the set is scaled and whichever calls fail while a    *)
(* sweep acts on what it listed (reconcileStatefulSetClaims).              *)
PodHasClaim == IsSet(wl) => \A n \in DOMAIN pods : n[2] \in DOMAIN claims \cup refused

(* A pod is Ready only after the workload's status has counted it while it *)
(* was not (the sweep doc, born, the order of the ticks), whatever others  *)
(* do and whichever calls fail.  The exceptions are a pod whose sweep lost *)
(* its status write, because a List or the Patch failed                    *)
(* (statefulset_sim.go:357-363, deployment_sim.go:161-167), and one whose  *)
(* Create was answered by an error and happened: such a pod may turn Ready *)
(* uncounted, although "the intermediate state is always observed"         *)
(* (datasim.go:150).                                                       *)
IntermediateIsSeen == \A n \in DOMAIN pods : isPodReady(pods[n]) => pods[n].shown # "no"

Rolls(w) == w.simulated /\ (IF IsSet(w) THEN ~w.parallel ELSE ~w.recreate)
ReadyPods(ps) == {n \in Active(ps) : isPodReady(ps[n])}

(* An update takes one pod away at a time: while the test only changes the *)
(* template, as often as it likes, no call of the sweep leaves more than   *)
(* one replica not Ready that was (rollStatefulSetPod,                     *)
(* reconcileDeploymentPods).  OrderedReady sets and RollingUpdate only.    *)
RollKeepsAvailability ==
  [][ Rolls(wl) /\ ~disturbed' /\ ~(ReadyPods(pods) \subseteq ReadyPods(pods'))
      => Cardinality(ReadyPods(pods')) >= wl.replicas - 1 ]_vars

(* Once SetPodFaults has returned, the rule it replaced is not reported    *)
(* through again, whatever the sweep was doing (SetPodFaults, podFault).   *)
NoLateReport ==
  [][ \A x \in reported' \ reported : rule # None /\ rule.id = x[1] ]_vars

Settled ==
  IF wl.simulated
  THEN /\ Active(pods) = DOMAIN pods /\ ReadyPods(pods) = DOMAIN pods
       /\ Cardinality(DOMAIN pods) = wl.replicas
       /\ status # None /\ status.gen = wl.gen /\ status.ready = wl.replicas
       /\ IF IsSet(wl)
          THEN /\ \A o \in 0..(wl.replicas - 1) : PodName(o) \in DOMAIN pods
                                                   /\ o \in DOMAIN claims /\ claims[o].bound
               /\ ~wl.onDelete => \A n \in DOMAIN pods : n[2] >= wl.partition => pods[n].rev = wl.rev
          ELSE status.available /\ status.complete
  ELSE status # None /\ status.gen = wl.gen /\ status.ready = wl.replicas

(* A workload reaches what its spec asks for and stays there, unless it is *)
(* being deleted or its pods are kept broken: scaling, rolls, pods deleted *)
(* by others, faults that healed and calls that failed leave it stuck      *)
(* nowhere.                                                                *)
Converges == <>[](wl.deleting \/ rule # None \/ Settled)
==============================================================================
