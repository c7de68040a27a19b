----------------------------- MODULE DeploymentSim -----------------------------
(***************************************************************************)
(* What deployment_sim.go computes from a listed Deployment w and the      *)
(* listed pods ps: the calls of one sweep, and the status.                 *)
(***************************************************************************)
EXTENDS DataPlane

(* Names at the current hash, at the smallest indices that no pod of it    *)
(* holds, terminating ones included.                                       *)
createDeploymentPods(w, ps, n) ==
  LET used == {m[2] : m \in {x \in DOMAIN ps : ps[x].rev = w.rev}}
      idx == nextOrdinals(used, n)
  IN [i \in DOMAIN idx |-> <<w.rev, idx[i]>>]

(* One step: a scale down, a scale up, or an update. *)
reconcileDeploymentPods(w, ps) ==
  LET active == Active(ps)
      total == Cardinality(active)
      old == {n \in active : ps[n].rev # w.rev} IN
  IF total > w.replicas
  THEN Call("delete", SubSeq(deletionPriority(ps, active, w.rev), 1, total - w.replicas))
  ELSE IF total < w.replicas
  THEN Call("create", createDeploymentPods(w, ps, w.replicas - total))
  ELSE IF w.recreate THEN Call("delete", Ascending(old))
  ELSE IF old = {} \/ ~everyPodReady(ps, active) THEN <<>>
  ELSE Call("delete", <<Head(deletionPriority(ps, old, w.rev))>>)
------------------------------------------------------------------------------
(* GetScaledValueFromIntOrPercent, rounded down; none under Recreate. *)
maxUnavailable(w) == IF w.recreate THEN 0
                     ELSE IF w.maxUnavailable.percent THEN (w.maxUnavailable.value * w.replicas) \div 100
                     ELSE w.maxUnavailable.value

(* The counts, the Available condition and the reason of Progressing. *)
updateDeploymentStatus(w, ps) ==
  LET active == Active(ps)
      updated == Cardinality({n \in active : ps[n].rev = w.rev})
      ready == Cardinality({n \in active : isPodReady(ps[n])})
  IN [gen |-> w.gen, replicas |-> Cardinality(active), updated |-> updated, ready |-> ready,
      unavailable |-> IF w.replicas > ready THEN w.replicas - ready ELSE 0,
      available |-> ready >= w.replicas - maxUnavailable(w),
      complete |-> updated = w.replicas /\ ready >= w.replicas]

(* Workloads off: the Deployment is reported as asked for. *)
tickDeployments(w) ==
  [gen |-> w.gen, replicas |-> w.replicas, updated |-> w.replicas, ready |-> w.replicas,
   unavailable |-> 0, available |-> TRUE, complete |-> TRUE]
==============================================================================
