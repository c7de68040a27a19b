---------------------------- MODULE StatefulSetSim ----------------------------
(***************************************************************************)
(* What statefulset_sim.go computes from a listed StatefulSet w, the       *)
(* listed pods ps and the claims: the calls of one sweep, and the status.  *)
(* One volume claim template.                                              *)
(***************************************************************************)
EXTENDS DataPlane

PodName(o) == <<0, o>>
Descending(names) == SortedBy(names, Higher)
------------------------------------------------------------------------------
scaleDownStatefulSet(w, ps) ==
  LET extras == Descending({n \in Active(ps) : n[2] >= w.replicas}) IN
  IF w.parallel \/ extras = <<>> THEN extras ELSE <<Head(extras)>>

(* Parallel fills every gap.  OrderedReady stops at the first ordinal that *)
(* is missing, terminating or not Ready, and fills it if it is missing.    *)
Missing(w, ps) == {PodName(o) : o \in 0..(w.replicas - 1)} \ DOMAIN ps
InTheWay(w, ps) ==
  Missing(w, ps) \cup {n \in DOMAIN ps : /\ n[2] < w.replicas
                                         /\ ps[n].deleting \/ ~isPodReady(ps[n])}

createStatefulSetPods(w, ps) ==
  LET missing == Ascending(Missing(w, ps)) IN
  IF w.parallel \/ missing = <<>> THEN missing
  ELSE IF Head(Ascending(InTheWay(w, ps))) = Head(missing) THEN <<Head(missing)>> ELSE <<>>

createStops(w, ps) == IF w.parallel THEN Missing(w, ps) # {} ELSE InTheWay(w, ps) # {}

(* Mutant: the partition itself is left out. *)
rollStatefulSetPod_AbovePartition(w, ps) ==
  LET wanted == {n \in DOMAIN ps : n[2] < w.replicas}
      old == Descending({n \in wanted : n[2] > w.partition /\ ps[n].rev # w.rev}) IN
  IF w.onDelete \/ ~everyPodReady(ps, wanted) \/ old = <<>> THEN <<>> ELSE <<Head(old)>>

(* The highest ordinal at an old revision, from the partition up, once     *)
(* every pod that is there is Ready.                                       *)
rollStatefulSetPod(w, ps) ==
  LET wanted == {n \in DOMAIN ps : n[2] < w.replicas}
      old == Descending({n \in wanted : n[2] >= w.partition /\ ps[n].rev # w.rev}) IN
  IF w.onDelete \/ ~everyPodReady(ps, wanted) \/ old = <<>> THEN <<>> ELSE <<Head(old)>>

(* One step: scale down, or else create (or wait), or else roll. *)
reconcileStatefulSetPods(w, ps) ==
  LET extras == scaleDownStatefulSet(w, ps) IN
  IF extras # <<>> THEN Call("delete", extras)
  ELSE IF createStops(w, ps) THEN Call("create", createStatefulSetPods(w, ps))
  ELSE Call("delete", rollStatefulSetPod(w, ps))

(* Mutant: the claim of an ordinal scaled away does not wait for its pod. *)
reconcileStatefulSetClaims_Early(w, ps, cs, failed) ==
  LET kept == IF w.whenScaled = "Delete" THEN {o \in DOMAIN cs : o < w.replicas} ELSE DOMAIN cs
  IN [o \in kept \cup ((0..(w.replicas - 1)) \ failed) |->
        IF o \in kept THEN cs[o] ELSE [bound |-> FALSE, owned |-> w.whenDeleted = "Delete"]]

(* The claims after the sweep's calls: one for every wanted ordinal, and   *)
(* under whenScaled: Delete none for an ordinal scaled away whose pod is   *)
(* gone.  owned: whenDeleted: Delete, read at creation.  The errors of the *)
(* Creates and Deletes of the ordinals that failed are ignored.            *)
reconcileStatefulSetClaims(w, ps, cs, failed) ==
  LET scaledAway == {o \in DOMAIN cs \ failed : o >= w.replicas /\ PodName(o) \notin DOMAIN ps}
      kept == IF w.whenScaled = "Delete" THEN DOMAIN cs \ scaledAway ELSE DOMAIN cs
  IN [o \in kept \cup ((0..(w.replicas - 1)) \ failed) |->
        IF o \in kept THEN cs[o] ELSE [bound |-> FALSE, owned |-> w.whenDeleted = "Delete"]]
------------------------------------------------------------------------------
updateStatefulSetStatus(w, st, ps) ==
  LET active == Active(ps)
      At(r) == Cardinality({n \in active : ps[n].rev = r})
      ready == Cardinality({n \in active : isPodReady(ps[n])})
      current == IF (\A n \in active : ps[n].rev = w.rev) \/ st = None THEN w.rev
                 ELSE st.currentRevision
  IN [gen |-> w.gen, replicas |-> Cardinality(active), ready |-> ready,
      updated |-> At(w.rev), current |-> At(current),
      currentRevision |-> current, updateRevision |-> w.rev]

(* Workloads off: the set is reported as asked for.  There is one revision *)
(* name.                                                                   *)
tickStatefulSets(w) ==
  [gen |-> w.gen, replicas |-> w.replicas, ready |-> w.replicas, updated |-> w.replicas,
   current |-> w.replicas, currentRevision |-> 0, updateRevision |-> 0]
==============================================================================
