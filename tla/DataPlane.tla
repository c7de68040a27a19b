------------------------------ MODULE DataPlane ------------------------------
(***************************************************************************)
(* What the two workload simulators of ctrltest share (datasim.go,         *)
(* workload.go, podfault.go): the pods and claims of one workload, pod     *)
(* status, pod faults, and the others that act between the API calls of a  *)
(* sweep.                                                                  *)
(*                                                                         *)
(* A pod's name is <<hash, index>>; a StatefulSet's has hash 0, and the    *)
(* index is the ordinal.  A revision stands for the hash of its template.  *)
(* List, Create, Delete and Patch are atomic; between any two of them the  *)
(* test, its controllers or the API server may act.  Any of them may fail: *)
(* a tick whose List fails returns, and the error of a write is ignored.   *)
(***************************************************************************)
EXTENDS Integers, Sequences, FiniteSets

CONSTANTS
  Revision,       \* 1..n
  TemplateOf,     \* revision -> [inits, mains, gate]
  Workloads,      \* the workloads the test may have created
  Replicas,       \* the replica counts it may ask for
  Rules,          \* pod fault rules: [on: revisions, fault: PodFault]
  None,           \* no pod fault, no rule, no status
  MaxEdits        \* what others do, and the calls that fail, together

StatefulSets ==
  [kind : {"StatefulSet"}, replicas : Nat, rev : Revision, gen : Nat, partition : Nat,
   simulated : BOOLEAN, deleting : BOOLEAN, parallel : BOOLEAN, onDelete : BOOLEAN,
   whenScaled : {"Retain", "Delete"}, whenDeleted : {"Retain", "Delete"}]
Deployments ==
  [kind : {"Deployment"}, replicas : Nat, rev : Revision, gen : Nat,
   simulated : BOOLEAN, deleting : BOOLEAN, recreate : BOOLEAN,
   maxUnavailable : [percent : BOOLEAN, value : Nat]]

ASSUME DataPlaneAssumption ==
  /\ Revision \subseteq Nat /\ DOMAIN TemplateOf = Revision
  /\ Workloads \subseteq StatefulSets \cup Deployments
  /\ Replicas \subseteq Nat /\ MaxEdits \in Nat

VARIABLES
  wl,        \* the workload's spec and generation
  status,    \* its status
  pods,      \* function from the names in use to pods
  claims,    \* function from the ordinals with a claim to "pending" or "bound"
  refused,   \* history: ordinals whose claim was refused, and not created since
  rule,      \* the namespace's podFaultRule, numbered, or None
  reported,  \* rule.reported: <<rule number, pod name>> of pods still there
  sim,       \* the sweep's place (pc), its snapshots (wl, pods), its locals
  edits,     \* what others have done and calls that have failed, counted
  disturbed  \* others did more than change the template

vars == <<wl, status, pods, claims, refused, rule, reported, sim, edits, disturbed>>
ghosts == <<edits, disturbed>>
------------------------------------------------------------------------------
(* Pod status (podfault.go). *)

Health(f, c) == IF f = None THEN "healthy"
                ELSE IF c \in f.crashLoop THEN "crashLoop"
                ELSE IF c \in f.notReady THEN "notReady" ELSE "healthy"

(* An init container that does not complete, or a sidecar that does not    *)
(* start, holds back everything after it.                                  *)
Holds(f, c) == Health(f, c.name) \in (IF c.sidecar THEN {"crashLoop"} ELSE {"crashLoop", "notReady"})

(* The conditions podStatus sets.  Ready also takes every readiness gate,  *)
(* read from the pod as listed.                                            *)
podStatus(p, f) ==
  LET t == TemplateOf[p.rev]
      inits == {t.inits[i] : i \in DOMAIN t.inits}
      blocked == \E c \in inits : Holds(f, c)
      allReady == /\ \A c \in inits : c.sidecar => Health(f, c.name) = "healthy"
                  /\ \A c \in t.mains : Health(f, c) = "healthy"
      containersReady == allReady /\ ~blocked IN
  IF f # None /\ f.unscheduled
  THEN [scheduled |-> FALSE, initialized |-> FALSE, containersReady |-> FALSE, ready |-> FALSE]
  ELSE [scheduled |-> TRUE, initialized |-> ~blocked, containersReady |-> containersReady,
        ready |-> containersReady /\ (t.gate => p.gate)]

podHasContainer(p, c) ==
  LET t == TemplateOf[p.rev] IN c \in t.mains \/ \E i \in DOMAIN t.inits : t.inits[i].name = c

(* rule.fn: a predicate on what the pod runs. *)
FaultFor(r, p) == IF r = None \/ p.rev \notin r.on THEN None ELSE r.fault
Unknown(f, p) == IF f = None THEN {} ELSE {c \in f.notReady \cup f.crashLoop : ~podHasContainer(p, c)}
------------------------------------------------------------------------------
(* Helpers over a listed set of pods (workload.go). *)

isPodReady(p) == p.st # None /\ p.st.ready
Active(ps) == {n \in DOMAIN ps : ~ps[n].deleting}
(* Mutant: terminating or not, it is enough that there are pods. *)
everyPodReady_Some(ps, names) == names # {}

everyPodReady(ps, names) == names # {} /\ \A n \in names : isPodReady(ps[n])
Higher(m, n) == m[1] > n[1] \/ (m[1] = n[1] /\ m[2] > n[2])

(* names in the order Sooner: the i-th is the one that i - 1 come before.  *)
SortedBy(names, Sooner(_, _)) ==
  [i \in 1..Cardinality(names) |->
     CHOOSE n \in names : Cardinality({m \in names : Sooner(m, n)}) = i - 1]

(* By name, which is how pods are listed. *)
Lower(m, n) == Higher(n, m)
Ascending(names) == SortedBy(names, Lower)

(* The order of deletion: old template first, then not Ready, then the     *)
(* higher name.                                                            *)
deletionPriority(ps, names, rev) ==
  LET Old(n) == ps[n].rev # rev
      Sooner(m, n) ==
        IF Old(m) # Old(n) THEN Old(m)
        ELSE IF isPodReady(ps[m]) # isPodReady(ps[n]) THEN ~isPodReady(ps[m])
        ELSE Higher(m, n)
  IN SortedBy(names, Sooner)

(* The n smallest indices that are not used, ascending. *)
nextOrdinals(used, n) ==
  LET free == (0..(Cardinality(used) + n)) \ used
      smallest == {i \in free : Cardinality({j \in free : j < i}) < n}
  IN SortedBy(smallest, <)

(* Calls to issue, in order. *)
Call(op, names) == [i \in DOMAIN names |-> <<op, names[i]>>]
------------------------------------------------------------------------------
(* The sweep's calls on the store. *)

(* shown: whether a status of the workload has counted the pod, or was to  *)
(* and a call failed.                                                      *)
NewPod == [rev |-> sim.wl.rev, deleting |-> FALSE, st |-> None, gate |-> FALSE, shown |-> "no"]
Create(n, p) == pods' = [m \in DOMAIN pods \cup {n} |-> IF m = n THEN p ELSE pods[m]]

(* createPod: a name in use is refused, and only a pod created is born. *)
createPod(n) ==
  IF n \in DOMAIN pods THEN UNCHANGED pods /\ sim' = [sim EXCEPT !.plan = Tail(@)]
  ELSE /\ Create(n, NewPod)
       /\ sim' = [sim EXCEPT !.plan = Tail(@), !.born = @ \cup {n}]

(* Delete starts a deletion; the pod goes when nothing holds it any more,  *)
(* which may be at once.                                                   *)
deletePod(n) ==
  /\ pods' = IF n \in DOMAIN pods THEN [pods EXCEPT ![n].deleting = TRUE] ELSE pods
  /\ sim' = [sim EXCEPT !.plan = Tail(@)]

Act ==
  /\ sim.pc = "act" /\ sim.plan # <<>>
  /\ LET call == Head(sim.plan) IN
       \/ call[1] = "create" /\ createPod(call[2])
       \/ call[1] = "delete" /\ deletePod(call[2])
  /\ UNCHANGED <<wl, status, claims, refused, rule, reported, ghosts>>
------------------------------------------------------------------------------
(* tickPods. *)

(* Mutant: pods born in this sweep are not left out. *)
TickPods_Newborn ==
  /\ sim.pc = "act" /\ sim.plan = <<>>
  /\ sim' = [sim EXCEPT !.pc = "pods", !.pods = pods, !.wl = None,
                         !.todo = Active(pods), !.born = {}]
  /\ UNCHANGED <<wl, status, pods, claims, refused, rule, reported, edits, disturbed>>

TickPods ==
  /\ sim.pc = "act" /\ sim.plan = <<>>
  /\ sim' = [sim EXCEPT !.pc = "pods", !.pods = pods, !.wl = None,
                         !.todo = Active(pods) \ sim.born, !.born = {}]
  /\ UNCHANGED <<wl, status, pods, claims, refused, rule, reported, edits, disturbed>>

Least(names) == CHOOSE n \in names : \A m \in names : m = n \/ Higher(m, n)

(* Status().Patch of the listed pod: the merge leaves conditions of other  *)
(* writers alone, an unchanged status writes nothing, a missing pod is an  *)
(* ignored error.                                                          *)
PatchPod(n, f) ==
  LET want == podStatus(sim.pods[n], f) IN
  pods' = IF n \in DOMAIN pods /\ want # sim.pods[n].st
          THEN [pods EXCEPT ![n].st = want] ELSE pods

(* The first half of podFault reads the rule, and runs its fn outside the  *)
(* lock.  A fault that names an unknown container goes on to the report.   *)
FaultOf(n) == IF sim.rule = None THEN None ELSE FaultFor(sim.rule.rule, sim.pods[n])

PodTick ==
  /\ sim.pc = "pods" /\ sim.todo # {}
  /\ LET n == Least(sim.todo)
         f == IF rule = None THEN None ELSE FaultFor(rule.rule, sim.pods[n]) IN
       sim' = [sim EXCEPT !.pc = IF Unknown(f, sim.pods[n]) # {} THEN "report" ELSE "patch",
                          !.rule = rule]
  /\ UNCHANGED <<wl, status, pods, claims, refused, rule, reported, ghosts>>

(* Mutant: the rule is not looked up again. *)
podFault_Late ==
  /\ sim.pc = "report"
  /\ reported' = reported \cup {<<sim.rule.id, Least(sim.todo)>>}
  /\ sim' = [sim EXCEPT !.pc = "patch"]
  /\ UNCHANGED <<wl, status, pods, claims, refused, rule, ghosts>>

(* The second half of podFault, under the lock again. *)
podFault ==
  /\ sim.pc = "report"
  /\ reported' = IF rule = sim.rule THEN reported \cup {<<rule.id, Least(sim.todo)>>} ELSE reported
  /\ sim' = [sim EXCEPT !.pc = "patch"]
  /\ UNCHANGED <<wl, status, pods, claims, refused, rule, ghosts>>

(* The pod is done with, patched or not. *)
PodDone == sim' = [sim EXCEPT !.pc = "pods", !.todo = @ \ {Least(sim.todo)}, !.rule = None]

PodPatch ==
  /\ sim.pc = "patch"
  /\ PatchPod(Least(sim.todo), FaultOf(Least(sim.todo)))
  /\ PodDone
  /\ UNCHANGED <<wl, status, claims, refused, rule, reported, ghosts>>
------------------------------------------------------------------------------
(* Calls of the sweep that fail. *)

Edit(disturbs) ==
  /\ edits < MaxEdits /\ edits' = edits + 1
  /\ disturbed' = (disturbed \/ disturbs)

(* A call of the sweep fails. *)
Fails == Edit(FALSE) /\ UNCHANGED <<wl, status, rule, reported>>

(* A List returns an error. *)
TickPodsFails ==
  /\ sim.pc = "act" /\ sim.plan = <<>> /\ Fails
  /\ sim' = [sim EXCEPT !.pc = "pods", !.wl = None, !.born = {}]
  /\ UNCHANGED <<pods, claims, refused>>

(* A write returns an error.  A Create may have gone through and only its  *)
(* answer been lost; the pod is not born then, as far as the sweep knows.  *)
ActFails ==
  /\ sim.pc = "act" /\ sim.plan # <<>> /\ Fails
  /\ LET call == Head(sim.plan) IN
       \/ UNCHANGED pods
       \/ /\ call[1] = "create" /\ call[2] \notin DOMAIN pods
          /\ Create(call[2], [NewPod EXCEPT !.shown = "skipped"])
  /\ sim' = [sim EXCEPT !.plan = Tail(@)]
  /\ UNCHANGED <<claims, refused>>

PodPatchFails ==
  /\ sim.pc = "patch" /\ Fails
  /\ PodDone
  /\ UNCHANGED <<pods, claims, refused>>
------------------------------------------------------------------------------
(* The others: the test, its controllers and the API server. *)

Scale ==
  /\ Edit(TRUE)
  /\ \E r \in Replicas \ {wl.replicas} : wl' = [wl EXCEPT !.replicas = r, !.gen = @ + 1]
  /\ UNCHANGED <<status, pods, claims, refused, rule, reported, sim>>

NewTemplate ==
  /\ Edit(FALSE)
  /\ \E r \in Revision \ {wl.rev} : wl' = [wl EXCEPT !.rev = r, !.gen = @ + 1]
  /\ UNCHANGED <<status, pods, claims, refused, rule, reported, sim>>

(* A foreground deletion begins. *)
DeleteWorkload ==
  /\ Edit(TRUE) /\ ~wl.deleting
  /\ wl' = [wl EXCEPT !.deleting = TRUE, !.gen = @ + 1]
  /\ UNCHANGED <<status, pods, claims, refused, rule, reported, sim>>

DeletePod ==
  /\ Edit(TRUE)
  /\ \E n \in Active(pods) : pods' = [pods EXCEPT ![n].deleting = TRUE]
  /\ UNCHANGED <<wl, status, claims, refused, rule, reported, sim>>

(* A controller sets the condition of the pod's readiness gate. *)
SetGate ==
  /\ \E n \in DOMAIN pods : TemplateOf[pods[n].rev].gate /\ ~pods[n].gate
       /\ pods' = [pods EXCEPT ![n].gate = TRUE]
  /\ UNCHANGED <<wl, status, claims, refused, rule, reported, sim, edits, disturbed>>

(* The last finalizer goes, and the pod with it. *)
Terminated ==
  /\ \E n \in DOMAIN pods \ Active(pods) :
       /\ pods' = [m \in DOMAIN pods \ {n} |-> pods[m]]
       /\ reported' = {x \in reported : x[2] # n}
  /\ UNCHANGED <<wl, status, claims, refused, rule, sim, edits, disturbed>>

(* SetPodFaults and FaultPods, the cleanup of the latter included: a new   *)
(* rule, or none.                                                          *)
SetPodFaults ==
  /\ Edit(TRUE)
  /\ \E r \in Rules \cup {None} :
       /\ r # None \/ rule # None
       /\ rule' = IF r = None THEN None ELSE [id |-> edits, rule |-> r]
  /\ UNCHANGED <<wl, status, pods, claims, refused, reported, sim>>

Others == Scale \/ NewTemplate \/ DeleteWorkload \/ DeletePod \/ SetGate \/ Terminated \/ SetPodFaults
==============================================================================
