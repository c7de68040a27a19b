--------------------------- MODULE DataPlaneProofs ---------------------------
(***************************************************************************)
(* What TLAPS proves of DataPlaneSim, for every workload, template, fault  *)
(* rule and number of edits; and, at the end, of EtcdSim, the other        *)
(* simulator.                                                              *)
(***************************************************************************)
EXTENDS DataPlaneSim, EtcdSim, FiniteSetTheorems, FunctionTheorems, SequenceTheorems, WellFoundedInduction, TLAPS

(* The pairs of R order S, strictly and totally. *)
TotalOrder(S, R) ==
  /\ \A x \in S : <<x, x>> \notin R
  /\ \A x, y, z \in S : <<x, y>> \in R /\ <<y, z>> \in R => <<x, z>> \in R
  /\ \A x, y \in S : x # y => <<x, y>> \in R \/ <<y, x>> \in R

(* In a finite set with a strict total order R, some element has exactly i *)
(* before it: what SortedBy and Least choose is there to be chosen.        *)
LEMMA EveryRankTaken ==
  ASSUME NEW S, IsFiniteSet(S), NEW R,
         TotalOrder(S, R),
         NEW i \in 0 .. Cardinality(S) - 1
  PROVE  \E n \in S : Cardinality({m \in S : <<m, n>> \in R}) = i
<1> DEFINE Below(n) == {m \in S : <<m, n>> \in R}
           T == 0 .. Cardinality(S) - 1
           f == [n \in S |-> Cardinality(Below(n))]
<1>1. Cardinality(S) \in Nat
  BY FS_CardinalityType
<1>2. ASSUME NEW n \in S PROVE Below(n) \in SUBSET S /\ n \notin Below(n) /\ IsFiniteSet(Below(n))
                               /\ Cardinality(Below(n)) \in T
  <2>1. Below(n) \in SUBSET S /\ n \notin Below(n)
    BY DEF TotalOrder
  <2>2. IsFiniteSet(Below(n)) /\ Cardinality(Below(n)) <= Cardinality(S)
        /\ Cardinality(Below(n)) # Cardinality(S)
    BY <2>1, FS_Subset
  <2>3. Cardinality(Below(n)) \in Nat
    BY <2>2, FS_CardinalityType
  <2> HIDE DEF Below
  <2> QED
    BY <1>1, <2>1, <2>2, <2>3
<1>3. ASSUME NEW x \in S, NEW y \in S, <<x, y>> \in R
      PROVE  Cardinality(Below(x)) # Cardinality(Below(y))
  <2>1. Below(x) \in SUBSET Below(y) /\ x \in Below(y) /\ x \notin Below(x)
    BY <1>3 DEF TotalOrder
  <2> HIDE DEF Below
  <2> QED
    BY <1>2, <2>1, FS_Subset
<1>4. f \in Injection(S, T)
  <2>1. f \in [S -> T]
    BY <1>2
  <2>2. ASSUME NEW x \in S, NEW y \in S, x # y PROVE f[x] # f[y]
    BY <1>3, <2>2, ZenonT(60) DEF TotalOrder
  <2> QED
    BY <2>1, <2>2 DEF Injection, IsInjective
<1>5. IsFiniteSet(T) /\ Cardinality(T) = Cardinality(S)
  BY <1>1, FS_Interval
<1>6. f \in Surjection(S, T)
  <2> HIDE DEF f, T
  <2> QED
    BY <1>4, <1>5, FS_Injection
<1> QED
  BY <1>6 DEF Surjection

(* Lower, Higher and < are strict total orders on names and on numbers. *)
Name == Nat \X Nat

LEMMA NamesOrdered ==
  ASSUME NEW x \in Name, NEW y \in Name, NEW z \in Name
  PROVE  /\ ~Higher(x, x)
         /\ Higher(x, y) /\ Higher(y, z) => Higher(x, z)
         /\ x # y => Higher(x, y) \/ Higher(y, x)
         /\ ~(Higher(x, y) /\ Higher(y, x))
<1>1. PICK a \in Nat, b \in Nat : x = <<a, b>>
  BY DEF Name
<1>2. PICK c \in Nat, d \in Nat : y = <<c, d>>
  BY DEF Name
<1>3. PICK e \in Nat, f \in Nat : z = <<e, f>>
  BY DEF Name
<1> QED
  BY <1>1, <1>2, <1>3 DEF Higher

(* Sorting names by name keeps them: Ascending and Descending list exactly *)
(* the names they are given, one at a time.                                *)
LEMMA AscendingNames ==
  ASSUME NEW names \in SUBSET Name, IsFiniteSet(names)
  PROVE  Ascending(names) \in [1 .. Cardinality(names) -> names]
<1> DEFINE R == {p \in names \X names : Lower(p[1], p[2])}
<1>1. \A x, y \in names : <<x, y>> \in R <=> Lower(x, y)
  OBVIOUS
<1>2. \A i \in 1 .. Cardinality(names) : \E n \in names : Cardinality({m \in names : Lower(m, n)}) = i - 1
  <2> SUFFICES ASSUME NEW i \in 1 .. Cardinality(names)
               PROVE  \E n \in names : Cardinality({m \in names : Lower(m, n)}) = i - 1
    OBVIOUS
  <2>1. Cardinality(names) \in Nat
    BY FS_CardinalityType
  <2>2. i - 1 \in 0 .. Cardinality(names) - 1
    BY <2>1
  <2>3. TotalOrder(names, R)
    <3> HIDE DEF R
    <3> QED
      BY <1>1, NamesOrdered DEF Lower, TotalOrder
  <2>4. PICK n \in names : Cardinality({m \in names : <<m, n>> \in R}) = i - 1
    <3> HIDE DEF R
    <3> QED
      BY <2>2, <2>3, EveryRankTaken
  <2>5. {m \in names : <<m, n>> \in R} = {m \in names : Lower(m, n)}
    BY <1>1
  <2> QED
    BY <2>4, <2>5
<1> QED
  BY <1>2 DEF Ascending, SortedBy

LEMMA DescendingNames ==
  ASSUME NEW names \in SUBSET Name, IsFiniteSet(names)
  PROVE  Descending(names) \in [1 .. Cardinality(names) -> names]
<1> DEFINE R == {p \in names \X names : Higher(p[1], p[2])}
<1>1. \A x, y \in names : <<x, y>> \in R <=> Higher(x, y)
  OBVIOUS
<1>2. \A i \in 1 .. Cardinality(names) : \E n \in names : Cardinality({m \in names : Higher(m, n)}) = i - 1
  <2> SUFFICES ASSUME NEW i \in 1 .. Cardinality(names)
               PROVE  \E n \in names : Cardinality({m \in names : Higher(m, n)}) = i - 1
    OBVIOUS
  <2>1. Cardinality(names) \in Nat
    BY FS_CardinalityType
  <2>2. i - 1 \in 0 .. Cardinality(names) - 1
    BY <2>1
  <2>3. TotalOrder(names, R)
    <3> HIDE DEF R
    <3> QED
      BY <1>1, NamesOrdered DEF TotalOrder
  <2>4. PICK n \in names : Cardinality({m \in names : <<m, n>> \in R}) = i - 1
    <3> HIDE DEF R
    <3> QED
      BY <2>2, <2>3, EveryRankTaken
  <2>5. {m \in names : <<m, n>> \in R} = {m \in names : Higher(m, n)}
    BY <1>1
  <2> QED
    BY <2>4, <2>5
<1> QED
  BY <1>2 DEF Descending, SortedBy

(* The next pod a sweep acts on is one of those it has to do. *)
LEMMA LeastIsOneOf ==
  ASSUME NEW names \in SUBSET Name, IsFiniteSet(names), names # {}
  PROVE  Least(names) \in names
<1> DEFINE R == {p \in names \X names : Lower(p[1], p[2])}
<1>1. \A x, y \in names : <<x, y>> \in R <=> Lower(x, y)
  OBVIOUS
<1>2. Cardinality(names) \in Nat /\ Cardinality(names) # 0
  BY FS_CardinalityType, FS_EmptySet
<1>3. 0 \in 0 .. Cardinality(names) - 1
  BY <1>2
<1>4. TotalOrder(names, R)
  <2> HIDE DEF R
  <2> QED
    BY <1>1, NamesOrdered DEF Lower, TotalOrder
<1>5. PICK n \in names : Cardinality({m \in names : <<m, n>> \in R}) = 0
  <2> HIDE DEF R
  <2> QED
    BY <1>3, <1>4, EveryRankTaken
<1>6. {m \in names : <<m, n>> \in R} = {}
  <2> DEFINE B == {m \in names : <<m, n>> \in R}
  <2>1. B \in SUBSET names
    OBVIOUS
  <2>2. IsFiniteSet(B)
    BY <2>1, FS_Subset
  <2> QED
    BY <1>5, <2>2, FS_EmptySet
<1>7. \A m \in names : m = n \/ Higher(m, n)
  <2> HIDE DEF R
  <2> QED
    BY <1>1, <1>4, <1>6 DEF Lower, TotalOrder
<1> QED
  BY <1>7 DEF Least

(* deletionPriority lists the pods it is given, each at its rank. *)
LEMMA DeletionPriorityNames ==
  ASSUME NEW ps, NEW names \in SUBSET Name, IsFiniteSet(names), NEW rev
  PROVE  deletionPriority(ps, names, rev) \in [1 .. Cardinality(names) -> names]
<1> DEFINE Old(n) == ps[n].rev # rev
           Sooner(m, n) ==
             IF Old(m) # Old(n) THEN Old(m)
             ELSE IF isPodReady(ps[m]) # isPodReady(ps[n]) THEN ~isPodReady(ps[m])
             ELSE Higher(m, n)
           R == {p \in names \X names : Sooner(p[1], p[2])}
           key(n) == IF Old(n) THEN IF isPodReady(ps[n]) THEN 1 ELSE 0
                     ELSE IF isPodReady(ps[n]) THEN 3 ELSE 2
<1>1. \A x, y \in names : <<x, y>> \in R <=> Sooner(x, y)
  OBVIOUS
<1>2. \A x, y \in names : Sooner(x, y) <=> key(x) < key(y) \/ (key(x) = key(y) /\ Higher(x, y))
  <2> TAKE x, y \in names
  <2>1. CASE Old(x) /\ Old(y)
    BY <2>1 DEF isPodReady
  <2>2. CASE Old(x) /\ ~Old(y)
    BY <2>2
  <2>3. CASE ~Old(x) /\ Old(y)
    BY <2>3
  <2>4. CASE ~Old(x) /\ ~Old(y)
    BY <2>4 DEF isPodReady
  <2> QED
    BY <2>1, <2>2, <2>3, <2>4
<1>3. \A x \in names : key(x) \in Nat
  OBVIOUS
<1>4. TotalOrder(names, R)
  <2> HIDE DEF R, key, Sooner
  <2> QED
    BY <1>1, <1>2, <1>3, NamesOrdered DEF TotalOrder
<1>5. \A i \in 1 .. Cardinality(names) : \E n \in names : Cardinality({m \in names : Sooner(m, n)}) = i - 1
  <2> SUFFICES ASSUME NEW i \in 1 .. Cardinality(names)
               PROVE  \E n \in names : Cardinality({m \in names : Sooner(m, n)}) = i - 1
    OBVIOUS
  <2>1. Cardinality(names) \in Nat
    BY FS_CardinalityType
  <2>2. i - 1 \in 0 .. Cardinality(names) - 1
    BY <2>1
  <2>3. PICK n \in names : Cardinality({m \in names : <<m, n>> \in R}) = i - 1
    <3> HIDE DEF R
    <3> QED
      BY <1>4, <2>2, EveryRankTaken
  <2>4. {m \in names : <<m, n>> \in R} = {m \in names : Sooner(m, n)}
    <3> HIDE DEF R, Sooner
    <3> QED
      BY <1>1
  <2> QED
    BY <2>3, <2>4
<1>6. deletionPriority(ps, names, rev) =
        [i \in 1 .. Cardinality(names) |->
           CHOOSE n \in names : Cardinality({m \in names : Sooner(m, n)}) = i - 1]
  BY DEF deletionPriority, SortedBy
<1> HIDE DEF Sooner
<1> QED
  BY <1>5, <1>6

(* nextOrdinals returns at most as many indices as it is asked for. *)
LEMMA NextOrdinals ==
  ASSUME NEW used \in SUBSET Nat, IsFiniteSet(used), NEW n \in Nat
  PROVE  \E k \in 0 .. n : nextOrdinals(used, n) \in [1 .. k -> Nat]
<1> DEFINE free == (0 .. (Cardinality(used) + n)) \ used
           Below(i) == {j \in free : j < i}
           smallest == {i \in free : Cardinality(Below(i)) < n}
           f == [i \in smallest |-> Cardinality(Below(i))]
           R == {p \in smallest \X smallest : p[1] < p[2]}
<1>1. Cardinality(used) \in Nat
  BY FS_CardinalityType
<1>2. IsFiniteSet(0 .. (Cardinality(used) + n))
  BY <1>1, FS_Interval
<1>3. IsFiniteSet(free) /\ free \subseteq Nat
  <2>1. IsFiniteSet(free)
    BY <1>2, FS_Difference
  <2>2. free \subseteq Nat
    BY <1>1
  <2> QED
    BY <2>1, <2>2
<1>4. IsFiniteSet(smallest) /\ smallest \subseteq Nat
  <2>1. smallest \in SUBSET free
    OBVIOUS
  <2> QED
    BY <1>3, <2>1, FS_Subset
<1>5. \A i \in smallest : IsFiniteSet(Below(i)) /\ Cardinality(Below(i)) \in 0 .. n - 1
  <2> SUFFICES ASSUME NEW i \in smallest
               PROVE  IsFiniteSet(Below(i)) /\ Cardinality(Below(i)) \in 0 .. n - 1
    OBVIOUS
  <2>1. Below(i) \in SUBSET free /\ Cardinality(Below(i)) < n
    OBVIOUS
  <2> HIDE DEF Below, free
  <2>2. IsFiniteSet(Below(i))
    BY <1>3, <2>1, FS_Subset
  <2>3. Cardinality(Below(i)) \in Nat
    BY <2>2, FS_CardinalityType
  <2> QED
    BY <2>1, <2>2, <2>3
<1>6. ASSUME NEW i \in smallest, NEW j \in smallest, i < j
      PROVE  Cardinality(Below(i)) # Cardinality(Below(j))
  <2>1. Below(i) \in SUBSET Below(j) /\ i \in Below(j) /\ i \notin Below(i)
    BY <1>3, <1>4, <1>6
  <2> HIDE DEF Below, smallest
  <2> QED
    BY <1>5, <2>1, FS_Subset
<1>7. Cardinality(smallest) \in 0 .. n
  <2>1. f \in Injection(smallest, 0 .. n - 1)
    <3> HIDE DEF Below, smallest
    <3>1. f \in [smallest -> 0 .. n - 1]
      BY <1>5
    <3>2. ASSUME NEW i \in smallest, NEW j \in smallest, i # j PROVE f[i] # f[j]
      BY <1>4, <1>6, <3>2
    <3> QED
      BY <3>1, <3>2 DEF Injection, IsInjective
  <2>2. IsFiniteSet(0 .. n - 1) /\ Cardinality(0 .. n - 1) = n
    BY FS_Interval
  <2>3. Cardinality(smallest) <= Cardinality(0 .. n - 1)
    <3> HIDE DEF f, smallest
    <3> QED
      BY <2>1, <2>2, FS_Injection
  <2>4. Cardinality(smallest) \in Nat
    BY <1>4, FS_CardinalityType
  <2> HIDE DEF smallest
  <2> QED
    BY <2>2, <2>3, <2>4
<1>8. \A i \in 1 .. Cardinality(smallest) :
        \E m \in smallest : Cardinality({j \in smallest : j < m}) = i - 1
  <2> HIDE DEF smallest
  <2> SUFFICES ASSUME NEW i \in 1 .. Cardinality(smallest)
               PROVE  \E m \in smallest : Cardinality({j \in smallest : j < m}) = i - 1
    OBVIOUS
  <2>1. \A x, y \in smallest : <<x, y>> \in R <=> x < y
    OBVIOUS
  <2>2. i - 1 \in 0 .. Cardinality(smallest) - 1
    BY <1>7
  <2> HIDE DEF R
  <2>3. TotalOrder(smallest, R)
    BY <1>4, <2>1 DEF TotalOrder
  <2>4. PICK m \in smallest : Cardinality({j \in smallest : <<j, m>> \in R}) = i - 1
    <3>1. IsFiniteSet(smallest)
      BY <1>4
    <3> DEFINE k == i - 1
    <3>2. k \in 0 .. Cardinality(smallest) - 1
      BY <2>2
    <3> HIDE DEF k
    <3>3. \E m \in smallest : Cardinality({j \in smallest : <<j, m>> \in R}) = k
      BY <2>3, <3>1, <3>2, EveryRankTaken
    <3> QED
      BY <3>3 DEF k
  <2>5. {j \in smallest : <<j, m>> \in R} = {j \in smallest : j < m}
    BY <2>1
  <2> QED
    BY <2>4, <2>5
<1>9. nextOrdinals(used, n) =
        [i \in 1 .. Cardinality(smallest) |->
           CHOOSE m \in smallest : Cardinality({j \in smallest : j < m}) = i - 1]
  BY DEF nextOrdinals, SortedBy
<1> HIDE DEF smallest
<1>10. nextOrdinals(used, n) \in [1 .. Cardinality(smallest) -> smallest]
  BY <1>8, <1>9
<1> QED
  BY <1>4, <1>7, <1>10
------------------------------------------------------------------------------
(* The types. *)

Workload == StatefulSets \cup Deployments
PodStatus == [scheduled : BOOLEAN, initialized : BOOLEAN, containersReady : BOOLEAN,
              ready : BOOLEAN]
Shows == {"no", "counted", "skipped"}
Pod == [rev : Revision, deleting : BOOLEAN, st : PodStatus \cup {None}, gate : BOOLEAN,
        shown : Shows]
Claim == [bound : BOOLEAN, owned : BOOLEAN]
PodCalls == {"create", "delete"} \X Name
SetStatus == [gen : Nat, replicas : Nat, ready : Nat, updated : Nat, current : Nat,
              currentRevision : Nat, updateRevision : Nat]
DeploymentStatus == [gen : Nat, replicas : Nat, updated : Nat, ready : Nat, unavailable : Nat,
                     available : BOOLEAN, complete : BOOLEAN]

(* The pods of a workload, as stored or as listed. *)
PodsOK(ps) == ps \in [DOMAIN ps -> Pod] /\ DOMAIN ps \subseteq Name /\ IsFiniteSet(DOMAIN ps)

(* The record a sweep keeps, field by field. *)
IsSim(s) == s = [pc |-> s.pc, wl |-> s.wl, pods |-> s.pods, plan |-> s.plan, born |-> s.born,
                 todo |-> s.todo, rule |-> s.rule]

SimOK ==
  /\ IsSim(sim)
  /\ sim.pc \in {"idle", "listPods", "claims", "act", "pods", "report", "patch", "status", "write", "pvcs"}
  /\ sim.wl \in Workload \cup {None}
  /\ PodsOK(sim.pods)
  /\ sim.plan \in Seq(PodCalls)
  /\ sim.born \subseteq Name /\ sim.todo \subseteq Name /\ IsFiniteSet(sim.todo)
  /\ sim.rule = None \/ sim.rule \in [id : Nat, rule : Rules]

TypeOK ==
  /\ wl \in Workload
  /\ status = None \/ status \in IF IsSet(wl) THEN SetStatus ELSE DeploymentStatus
  /\ PodsOK(pods)
  /\ claims \in [DOMAIN claims -> Claim] /\ DOMAIN claims \subseteq Nat /\ refused \subseteq Nat
  /\ rule = None \/ rule \in [id : Nat, rule : Rules]
  /\ reported \subseteq Nat \X Name
  /\ SimOK
  /\ edits \in 0 .. MaxEdits
  /\ disturbed \in BOOLEAN

(* What the sweep has listed fits the place it is at. *)
PlaceInv ==
  /\ sim.pc \in {"listPods", "claims", "status", "write"} \/ sim.plan # <<>> =>
       sim.wl \in Workload /\ sim.wl.kind = wl.kind /\ sim.wl.simulated = wl.simulated
  /\ sim.plan # <<>> => sim.pc = "act"
  /\ sim.pc = "claims" => IsSet(sim.wl)
  /\ sim.pc # "act" => sim.born = {}
  /\ sim.pc \notin {"pods", "report", "patch"} => sim.todo = {}
  /\ sim.pc \in {"pods", "report", "patch"} => sim.todo \subseteq DOMAIN sim.pods
  /\ sim.pc \in {"report", "patch"} => sim.todo # {}
  /\ sim.pc = "report" => sim.rule # None

(* A workload has the fields of its kind. *)
LEMMA WorkloadFields ==
  ASSUME NEW w \in Workload
  PROVE  /\ w.kind \in {"StatefulSet", "Deployment"}
         /\ w.replicas \in Nat /\ w.gen \in Nat /\ w.rev \in Revision
         /\ w.simulated \in BOOLEAN /\ w.deleting \in BOOLEAN
         /\ IsSet(w) => w \in StatefulSets
         /\ ~IsSet(w) => w \in Deployments
BY DEF Workload, StatefulSets, Deployments, IsSet

(* An edit of the spec leaves every other field alone. *)
LEMMA Scaled ==
  ASSUME NEW w \in Workload, NEW r \in Nat, NEW v,
         v = [w EXCEPT !.replicas = r, !.gen = @ + 1]
  PROVE  /\ v \in Workload
         /\ v.kind = w.kind /\ v.simulated = w.simulated /\ v.rev = w.rev
<1>1. CASE w \in StatefulSets
  <2>0. w.gen + 1 \in Nat /\ v = [w EXCEPT !.replicas = r, !.gen = w.gen + 1]
    BY <1>1 DEF StatefulSets
  <2>1. v \in StatefulSets
    BY <1>1, <2>0, ZenonT(30) DEF StatefulSets
  <2>2. v.kind = w.kind /\ v.simulated = w.simulated /\ v.rev = w.rev
    BY <1>1 DEF StatefulSets
  <2> QED
    BY <2>1, <2>2 DEF Workload
<1>2. CASE w \in Deployments
  <2>0. w.gen + 1 \in Nat /\ v = [w EXCEPT !.replicas = r, !.gen = w.gen + 1]
    BY <1>2 DEF Deployments
  <2>1. v \in Deployments
    BY <1>2, <2>0, ZenonT(30) DEF Deployments
  <2>2. v.kind = w.kind /\ v.simulated = w.simulated /\ v.rev = w.rev
    BY <1>2 DEF Deployments
  <2> QED
    BY <2>1, <2>2 DEF Workload
<1> QED
  BY <1>1, <1>2 DEF Workload

LEMMA Retemplated ==
  ASSUME wl \in Workload, NEW r \in Revision,
         wl' = [wl EXCEPT !.rev = r, !.gen = @ + 1]
  PROVE  /\ wl' \in Workload
         /\ wl'.kind = wl.kind /\ wl'.simulated = wl.simulated /\ wl'.replicas = wl.replicas
         /\ Rolls(wl') <=> Rolls(wl)
<1>1. CASE wl \in StatefulSets
  <2>0. wl.gen + 1 \in Nat /\ wl' = [wl EXCEPT !.rev = r, !.gen = wl.gen + 1]
    BY <1>1 DEF StatefulSets
  <2>1. wl' \in StatefulSets
    BY <1>1, <2>0, ZenonT(30) DEF StatefulSets
  <2>2. wl'.kind = wl.kind /\ wl'.simulated = wl.simulated /\ wl'.replicas = wl.replicas
        /\ wl'.parallel = wl.parallel
    BY <1>1 DEF StatefulSets
  <2>3. IsSet(wl') /\ IsSet(wl)
    BY <1>1, <2>2 DEF StatefulSets, IsSet
  <2> QED
    BY <2>1, <2>2, <2>3 DEF Workload, Rolls
<1>2. CASE wl \in Deployments
  <2>0. wl.gen + 1 \in Nat /\ wl' = [wl EXCEPT !.rev = r, !.gen = wl.gen + 1]
    BY <1>2 DEF Deployments
  <2>1. wl' \in Deployments
    BY <1>2, <2>0, ZenonT(30) DEF Deployments
  <2>2. wl'.kind = wl.kind /\ wl'.simulated = wl.simulated /\ wl'.replicas = wl.replicas
        /\ wl'.recreate = wl.recreate
    BY <1>2 DEF Deployments
  <2>3. ~IsSet(wl') /\ ~IsSet(wl)
    BY <1>2, <2>2 DEF Deployments, IsSet
  <2> QED
    BY <2>1, <2>2, <2>3 DEF Workload, Rolls
<1> QED
  BY <1>1, <1>2 DEF Workload

LEMMA DeletionBegun ==
  ASSUME NEW w \in Workload, NEW v, v = [w EXCEPT !.deleting = TRUE, !.gen = @ + 1]
  PROVE  /\ v \in Workload
         /\ v.kind = w.kind /\ v.simulated = w.simulated /\ v.rev = w.rev
<1>1. CASE w \in StatefulSets
  <2>0. w.gen + 1 \in Nat /\ v = [w EXCEPT !.deleting = TRUE, !.gen = w.gen + 1]
    BY <1>1 DEF StatefulSets
  <2>1. v \in StatefulSets
    BY <1>1, <2>0, ZenonT(30) DEF StatefulSets
  <2>2. v.kind = w.kind /\ v.simulated = w.simulated /\ v.rev = w.rev
    BY <1>1 DEF StatefulSets
  <2> QED
    BY <2>1, <2>2 DEF Workload
<1>2. CASE w \in Deployments
  <2>0. w.gen + 1 \in Nat /\ v = [w EXCEPT !.deleting = TRUE, !.gen = w.gen + 1]
    BY <1>2 DEF Deployments
  <2>1. v \in Deployments
    BY <1>2, <2>0, ZenonT(30) DEF Deployments
  <2>2. v.kind = w.kind /\ v.simulated = w.simulated /\ v.rev = w.rev
    BY <1>2 DEF Deployments
  <2> QED
    BY <2>1, <2>2 DEF Workload
<1> QED
  BY <1>1, <1>2 DEF Workload

------------------------------------------------------------------------------
(* What the sweep computes has its type. *)

LEMMA PodStatusType ==
  ASSUME NEW p, NEW f
  PROVE  podStatus(p, f) \in PodStatus
BY DEF podStatus, PodStatus

(* The calls a list of names is turned into. *)
LEMMA CallType ==
  ASSUME NEW op \in {"create", "delete"}, NEW k \in Nat, NEW S \in SUBSET Name,
         NEW names \in [1 .. k -> S]
  PROVE  /\ Call(op, names) \in Seq(PodCalls) /\ Len(Call(op, names)) = k
         /\ \A i \in 1 .. k : Call(op, names)[i] = <<op, names[i]>> /\ names[i] \in S
<1>1. Call(op, names) = [i \in 1 .. k |-> <<op, names[i]>>]
  BY DEF Call
<1>2. \A i \in 1 .. k : names[i] \in S /\ <<op, names[i]>> \in PodCalls
  BY DEF PodCalls
<1>3. Call(op, names) \in [1 .. k -> PodCalls]
  BY <1>1, <1>2
<1>4. Call(op, names) \in Seq(PodCalls)
  BY <1>3
<1>5. Len(Call(op, names)) = k
  BY <1>3, <1>4
<1> QED
  BY <1>1, <1>2, <1>4, <1>5

(* The pods that are listed, and those of them that are active, are        *)
(* finitely many names.                                                    *)
LEMMA SubsetsOfPods ==
  ASSUME NEW ps, PodsOK(ps), NEW names \in SUBSET DOMAIN ps
  PROVE  names \in SUBSET Name /\ IsFiniteSet(names) /\ Cardinality(names) \in Nat
<1>1. names \in SUBSET Name /\ IsFiniteSet(names)
  BY FS_Subset DEF PodsOK
<1> QED
  BY <1>1, FS_CardinalityType

(* The ordinals a StatefulSet still needs a pod for. *)
LEMMA MissingType ==
  ASSUME NEW w \in StatefulSets, NEW ps, PodsOK(ps)
  PROVE  /\ Missing(w, ps) \in SUBSET Name /\ IsFiniteSet(Missing(w, ps))
         /\ InTheWay(w, ps) \in SUBSET Name /\ IsFiniteSet(InTheWay(w, ps))
         /\ \A n \in Missing(w, ps) : \E o \in 0 .. w.replicas - 1 : n = PodName(o)
<1> DEFINE Wanted == {PodName(o) : o \in 0 .. w.replicas - 1}
           Stuck == {n \in DOMAIN ps : /\ n[2] < w.replicas
                                       /\ ps[n].deleting \/ ~isPodReady(ps[n])}
<1>1. w.replicas \in Nat
  BY DEF StatefulSets
<1>2. \A o \in 0 .. w.replicas - 1 : PodName(o) \in Name
  BY <1>1 DEF PodName, Name
<1>3. IsFiniteSet(Wanted)
  <2>1. IsFiniteSet(0 .. w.replicas - 1)
    BY <1>1, FS_Interval
  <2> DEFINE f == [o \in 0 .. w.replicas - 1 |-> PodName(o)]
  <2>2. f \in Surjection(0 .. w.replicas - 1, Wanted)
    BY DEF Surjection
  <2> HIDE DEF f, Wanted
  <2> QED
    BY <2>1, <2>2, FS_Surjection
<1>4. Missing(w, ps) = Wanted \ DOMAIN ps
  BY DEF Missing
<1>5. IsFiniteSet(Missing(w, ps))
  <2> HIDE DEF Wanted
  <2> QED
    BY <1>3, <1>4, FS_Difference
<1>6. Stuck \in SUBSET Name /\ IsFiniteSet(Stuck)
  <2>1. Stuck \in SUBSET DOMAIN ps
    OBVIOUS
  <2> HIDE DEF Stuck
  <2> QED
    BY <2>1, SubsetsOfPods
<1>7. InTheWay(w, ps) = Missing(w, ps) \cup Stuck
  BY DEF InTheWay
<1>8. Missing(w, ps) \in SUBSET Name
      /\ \A n \in Missing(w, ps) : \E o \in 0 .. w.replicas - 1 : n = PodName(o)
  BY <1>2, <1>4
<1>9. InTheWay(w, ps) \in SUBSET Name /\ IsFiniteSet(InTheWay(w, ps))
  <2> HIDE DEF Stuck
  <2>1. IsFiniteSet(Missing(w, ps) \cup Stuck)
    BY <1>5, <1>6, FS_Union
  <2> QED
    BY <1>6, <1>7, <1>8, <2>1
<1> QED
  BY <1>5, <1>8, <1>9

(* The first of a list of names, by itself, and none at all. *)
LEMMA OneOrNone ==
  ASSUME NEW S, NEW k \in Nat, NEW names \in [1 .. k -> S]
  PROVE  /\ <<>> \in [1 .. 0 -> S]
         /\ names # <<>> => k >= 1 /\ <<Head(names)>> \in [1 .. 1 -> S]
         /\ k = 0 => names = <<>>
<1>1. names \in Seq(S) /\ Len(names) = k
  BY LenProperties
<1>2. ASSUME names # <<>> PROVE k >= 1 /\ <<Head(names)>> \in [1 .. 1 -> S]
  <2>1. Len(names) \in Nat \ {0}
    BY <1>1, <1>2, EmptySeq
  <2>2. k >= 1 /\ Head(names) = names[1] /\ names[1] \in S
    BY <1>1, <2>1
  <2> QED
    BY <2>2
<1>3. k = 0 => names = <<>>
  BY <1>1
<1> QED
  BY <1>2, <1>3

(* The plan for a StatefulSet: calls on proper names, and a pod is created *)
(* only for an ordinal that had none.                                      *)
LEMMA SetPlanType ==
  ASSUME NEW w \in StatefulSets, NEW ps, PodsOK(ps), NEW plan,
         plan = reconcileStatefulSetPods(w, ps)
  PROVE  /\ plan \in Seq(PodCalls)
         /\ \A i \in DOMAIN plan : plan[i][1] = "create" => plan[i][2] \in Missing(w, ps)
<1> DEFINE extra == {n \in Active(ps) : n[2] >= w.replicas}
           wanted == {n \in DOMAIN ps : n[2] < w.replicas}
           late == {n \in wanted : n[2] >= w.partition /\ ps[n].rev # w.rev}
<1>1. extra \in SUBSET DOMAIN ps /\ late \in SUBSET DOMAIN ps
  BY DEF Active
<1> HIDE DEF extra, late
<1>2. \E k \in Nat : scaleDownStatefulSet(w, ps) \in [1 .. k -> Name]
  <2>1. Cardinality(extra) \in Nat /\ Descending(extra) \in [1 .. Cardinality(extra) -> Name]
    BY <1>1, SubsetsOfPods, DescendingNames
  <2>2. Descending(extra) # <<>> => <<Head(Descending(extra))>> \in [1 .. 1 -> Name]
    BY <2>1, OneOrNone
  <2>3. scaleDownStatefulSet(w, ps) = IF w.parallel \/ Descending(extra) = <<>> THEN Descending(extra)
                                      ELSE <<Head(Descending(extra))>>
    BY DEF scaleDownStatefulSet, extra
  <2>4. CASE w.parallel \/ Descending(extra) = <<>>
    BY <2>1, <2>3, <2>4
  <2>5. CASE ~(w.parallel \/ Descending(extra) = <<>>)
    BY <2>2, <2>3, <2>5
  <2> QED
    BY <2>4, <2>5
<1>3. \E k \in Nat : createStatefulSetPods(w, ps) \in [1 .. k -> Missing(w, ps)]
  <2> DEFINE missing == Ascending(Missing(w, ps))
             k == Cardinality(Missing(w, ps))
  <2>1. k \in Nat /\ missing \in [1 .. k -> Missing(w, ps)]
    BY MissingType, AscendingNames, FS_CardinalityType
  <2>2. /\ <<>> \in [1 .. 0 -> Missing(w, ps)]
        /\ missing # <<>> => <<Head(missing)>> \in [1 .. 1 -> Missing(w, ps)]
    <3> HIDE DEF missing, k
    <3> QED
      BY <2>1, OneOrNone
  <2>3. createStatefulSetPods(w, ps) \in {missing, <<Head(missing)>>, <<>>}
        /\ (createStatefulSetPods(w, ps) = missing \/ missing # <<>>)
    BY DEF createStatefulSetPods
  <2> HIDE DEF missing, k
  <2> QED
    BY <2>1, <2>2, <2>3
<1>4. \E k \in Nat : rollStatefulSetPod(w, ps) \in [1 .. k -> Name]
  <2>1. Cardinality(late) \in Nat /\ Descending(late) \in [1 .. Cardinality(late) -> Name]
    BY <1>1, SubsetsOfPods, DescendingNames
  <2>2. /\ <<>> \in [1 .. 0 -> Name]
        /\ Descending(late) # <<>> => <<Head(Descending(late))>> \in [1 .. 1 -> Name]
    BY <2>1, OneOrNone
  <2>3. \/ rollStatefulSetPod(w, ps) = <<>>
        \/ Descending(late) # <<>> /\ rollStatefulSetPod(w, ps) = <<Head(Descending(late))>>
    BY DEF rollStatefulSetPod, late, wanted
  <2> QED
    BY <2>2, <2>3
<1>5. CASE scaleDownStatefulSet(w, ps) # <<>>
  <2>1. plan = Call("delete", scaleDownStatefulSet(w, ps))
    BY <1>5 DEF reconcileStatefulSetPods
  <2>2. PICK k \in Nat : scaleDownStatefulSet(w, ps) \in [1 .. k -> Name]
    BY <1>2
  <2>3. plan \in Seq(PodCalls) /\ Len(plan) = k /\ \A i \in 1 .. k : plan[i][1] = "delete"
    <3> DEFINE names == scaleDownStatefulSet(w, ps)
               S == Name
    <3>1. S \in SUBSET Name /\ names \in [1 .. k -> S] /\ "delete" \in {"create", "delete"}
      BY <2>2
    <3> HIDE DEF names, S
    <3>2. /\ Call("delete", names) \in Seq(PodCalls) /\ Len(Call("delete", names)) = k
          /\ \A i \in 1 .. k : Call("delete", names)[i] = <<"delete", names[i]>> /\ names[i] \in S
      BY <3>1, CallType
    <3> QED
      BY <2>1, <3>2 DEF names, S
  <2> QED
    BY <2>3
<1>6. CASE scaleDownStatefulSet(w, ps) = <<>> /\ createStops(w, ps)
  <2>1. plan = Call("create", createStatefulSetPods(w, ps))
    BY <1>6 DEF reconcileStatefulSetPods
  <2>2. PICK k \in Nat : createStatefulSetPods(w, ps) \in [1 .. k -> Missing(w, ps)]
    BY <1>3
  <2>3. plan \in Seq(PodCalls) /\ Len(plan) = k /\ \A i \in 1 .. k : plan[i][2] \in Missing(w, ps)
    <3> DEFINE names == createStatefulSetPods(w, ps)
               S == Missing(w, ps)
    <3>1. S \in SUBSET Name /\ names \in [1 .. k -> S] /\ "create" \in {"create", "delete"}
      BY <2>2, MissingType
    <3> HIDE DEF names, S
    <3>2. /\ Call("create", names) \in Seq(PodCalls) /\ Len(Call("create", names)) = k
          /\ \A i \in 1 .. k : Call("create", names)[i] = <<"create", names[i]>> /\ names[i] \in S
      BY <3>1, CallType
    <3> QED
      BY <2>1, <3>2 DEF names, S
  <2> QED
    BY <2>3
<1>7. CASE scaleDownStatefulSet(w, ps) = <<>> /\ ~createStops(w, ps)
  <2>1. plan = Call("delete", rollStatefulSetPod(w, ps))
    BY <1>7 DEF reconcileStatefulSetPods
  <2>2. PICK k \in Nat : rollStatefulSetPod(w, ps) \in [1 .. k -> Name]
    BY <1>4
  <2>3. plan \in Seq(PodCalls) /\ Len(plan) = k /\ \A i \in 1 .. k : plan[i][1] = "delete"
    <3> DEFINE names == rollStatefulSetPod(w, ps)
               S == Name
    <3>1. S \in SUBSET Name /\ names \in [1 .. k -> S] /\ "delete" \in {"create", "delete"}
      BY <2>2
    <3> HIDE DEF names, S
    <3>2. /\ Call("delete", names) \in Seq(PodCalls) /\ Len(Call("delete", names)) = k
          /\ \A i \in 1 .. k : Call("delete", names)[i] = <<"delete", names[i]>> /\ names[i] \in S
      BY <3>1, CallType
    <3> QED
      BY <2>1, <3>2 DEF names, S
  <2> QED
    BY <2>3
<1> QED
  BY <1>5, <1>6, <1>7

(* The plan of an OrderedReady set that has no pod too many: it only       *)
(* creates, or it takes one pod away while every ordinal has a pod that is *)
(* Ready and stays.                                                        *)
LEMMA SetPlanRolls ==
  ASSUME NEW w \in StatefulSets, ~w.parallel, NEW ps, PodsOK(ps), NEW plan,
         plan = reconcileStatefulSetPods(w, ps),
         \A n \in DOMAIN ps : n[2] < w.replicas
  PROVE  \/ \A i \in DOMAIN plan : plan[i][1] = "create"
         \/ /\ Len(plan) = 1 /\ plan[1][1] = "delete"
            /\ \A o \in 0 .. w.replicas - 1 : PodName(o) \in ReadyPods(ps)
<1>1. w.replicas \in Nat
  BY DEF StatefulSets
<1>2. scaleDownStatefulSet(w, ps) = <<>>
  <2> DEFINE extra == {n \in Active(ps) : n[2] >= w.replicas}
  <2>1. extra = {}
    <3> SUFFICES ASSUME NEW n \in extra PROVE FALSE
      OBVIOUS
    <3>1. n \in DOMAIN ps /\ n[2] >= w.replicas /\ n[2] \in Nat
      BY DEF Active, PodsOK, Name
    <3> QED
      BY <1>1, <3>1
  <2>2. Descending(extra) \in [1 .. 0 -> extra]
    BY <2>1, DescendingNames, FS_EmptySet
  <2>3. Descending(extra) = <<>>
    <3> HIDE DEF extra
    <3> QED
      BY <2>2, OneOrNone
  <2> QED
    BY <2>3 DEF scaleDownStatefulSet
<1>3. CASE createStops(w, ps)
  <2>1. plan = Call("create", createStatefulSetPods(w, ps))
    BY <1>2, <1>3 DEF reconcileStatefulSetPods
  <2>2. \A i \in DOMAIN plan : plan[i] = <<"create", createStatefulSetPods(w, ps)[i]>>
    BY <2>1 DEF Call
  <2> QED
    BY <2>2
<1>4. CASE ~createStops(w, ps)
  <2>1. plan = Call("delete", rollStatefulSetPod(w, ps))
    BY <1>2, <1>4 DEF reconcileStatefulSetPods
  <2>2. InTheWay(w, ps) = {}
    BY <1>4 DEF createStops
  <2>3. \A o \in 0 .. w.replicas - 1 : PodName(o) \in ReadyPods(ps)
    <3> SUFFICES ASSUME NEW o \in 0 .. w.replicas - 1 PROVE PodName(o) \in ReadyPods(ps)
      OBVIOUS
    <3>1. PodName(o) \in DOMAIN ps
      BY <2>2 DEF InTheWay, Missing
    <3>2. PodName(o)[2] < w.replicas
      BY <3>1
    <3>3. ~ps[PodName(o)].deleting /\ isPodReady(ps[PodName(o)])
      BY <2>2, <3>1, <3>2 DEF InTheWay
    <3> QED
      BY <3>1, <3>3 DEF ReadyPods, Active
  <2>4. CASE rollStatefulSetPod(w, ps) = <<>>
    <3>1. DOMAIN plan = {}
      BY <2>1, <2>4 DEF Call
    <3> QED
      BY <3>1
  <2>5. CASE rollStatefulSetPod(w, ps) # <<>>
    <3>1. \E n : rollStatefulSetPod(w, ps) = <<n>>
      BY <2>5 DEF rollStatefulSetPod
    <3>2. PICK n : rollStatefulSetPod(w, ps) = <<n>>
      BY <3>1
    <3>3. plan = <<<<"delete", n>>>>
      BY <2>1, <3>2 DEF Call
    <3> QED
      BY <2>3, <3>3
  <2> QED
    BY <2>4, <2>5
<1> QED
  BY <1>3, <1>4

(* The pods a Deployment asks for: as many as it is short of, or fewer. *)
LEMMA CreateDeploymentPodsType ==
  ASSUME NEW w \in Deployments, NEW ps, PodsOK(ps), NEW n \in Nat
  PROVE  \E k \in 0 .. n : createDeploymentPods(w, ps, n) \in [1 .. k -> Name]
<1> DEFINE mine == {x \in DOMAIN ps : ps[x].rev = w.rev}
           used == {m[2] : m \in mine}
           f == [m \in mine |-> m[2]]
<1>1. mine \in SUBSET Name /\ IsFiniteSet(mine)
  <2>1. mine \in SUBSET DOMAIN ps
    OBVIOUS
  <2> HIDE DEF mine
  <2> QED
    BY <2>1, SubsetsOfPods
<1>2. used \in SUBSET Nat
  <2> HIDE DEF mine
  <2> QED
    BY <1>1 DEF Name
<1>3. IsFiniteSet(used)
  <2>1. f \in Surjection(mine, used)
    <3> HIDE DEF mine
    <3> QED
      BY DEF Surjection
  <2> HIDE DEF f, used, mine
  <2> QED
    BY <1>1, <2>1, FS_Surjection
<1>4. PICK k \in 0 .. n : nextOrdinals(used, n) \in [1 .. k -> Nat]
  <2> HIDE DEF used
  <2> QED
    BY <1>2, <1>3, NextOrdinals
<1>5. createDeploymentPods(w, ps, n) =
        [i \in DOMAIN nextOrdinals(used, n) |-> <<w.rev, nextOrdinals(used, n)[i]>>]
  BY DEF createDeploymentPods
<1>6. w.rev \in Nat
  BY DataPlaneAssumption DEF Deployments
<1> HIDE DEF used
<1>7. DOMAIN nextOrdinals(used, n) = 1 .. k
      /\ \A i \in 1 .. k : <<w.rev, nextOrdinals(used, n)[i]>> \in Name
  BY <1>4, <1>6 DEF Name
<1> QED
  BY <1>5, <1>7

(* The plan for a Deployment: calls on proper names.  One that rolls and   *)
(* has no pod too many is only given pods, and no more than it is short    *)
(* of, or it has all its replicas Ready and loses one.                     *)
LEMMA DeploymentPlan ==
  ASSUME NEW w \in Deployments, NEW ps, PodsOK(ps), NEW plan,
         plan = reconcileDeploymentPods(w, ps)
  PROVE  /\ plan \in Seq(PodCalls)
         /\ ~w.recreate /\ Cardinality(Active(ps)) <= w.replicas =>
              \/ /\ \A i \in DOMAIN plan : plan[i][1] = "create"
                 /\ Cardinality(Active(ps)) + Len(plan) <= w.replicas
              \/ /\ Len(plan) = 1 /\ plan[1][1] = "delete"
                 /\ Cardinality(ReadyPods(ps)) >= w.replicas
<1> DEFINE active == Active(ps)
           total == Cardinality(active)
           old == {n \in active : ps[n].rev # w.rev}
<1>1. w.replicas \in Nat
  BY DEF Deployments
<1>2. active \in SUBSET DOMAIN ps /\ old \in SUBSET DOMAIN ps
  BY DEF Active
<1> HIDE DEF active, old
<1>3. /\ active \in SUBSET Name /\ IsFiniteSet(active) /\ total \in Nat
      /\ old \in SUBSET Name /\ IsFiniteSet(old) /\ Cardinality(old) \in Nat
  BY <1>2, SubsetsOfPods
<1>4. plan = IF total > w.replicas
             THEN Call("delete", SubSeq(deletionPriority(ps, active, w.rev), 1, total - w.replicas))
             ELSE IF total < w.replicas
             THEN Call("create", createDeploymentPods(w, ps, w.replicas - total))
             ELSE IF w.recreate THEN Call("delete", Ascending(old))
             ELSE IF old = {} \/ ~everyPodReady(ps, active) THEN <<>>
             ELSE Call("delete", <<Head(deletionPriority(ps, old, w.rev))>>)
  BY DEF reconcileDeploymentPods, active, old
<1> HIDE DEF total
<1>5. CASE total > w.replicas
  <2> DEFINE victims == deletionPriority(ps, active, w.rev)
             k == total - w.replicas
             names == SubSeq(victims, 1, k)
  <2>1. victims \in [1 .. total -> Name]
    BY <1>3, DeletionPriorityNames DEF total
  <2>2. k \in Nat /\ k <= total
    BY <1>1, <1>3, <1>5
  <2>3. names \in [1 .. k -> Name]
    <3> HIDE DEF victims, k
    <3>1. \A i \in 1 .. k : victims[i] \in Name
      BY <1>3, <2>1, <2>2
    <3>2. names \in Seq(Name) /\ Len(names) = IF 1 <= k THEN k - 1 + 1 ELSE 0
      BY <2>2, <3>1, SubSeqProperties
    <3>3. Len(names) = k
      BY <2>2, <3>2
    <3> HIDE DEF names
    <3> QED
      BY <3>2, <3>3
  <2> HIDE DEF names, k
  <2>4. Call("delete", names) \in Seq(PodCalls)
    BY <2>2, <2>3, CallType
  <2> QED
    BY <1>1, <1>3, <1>4, <1>5, <2>4 DEF names, k, total, active
<1>6. CASE total < w.replicas
  <2> DEFINE short == w.replicas - total
             names == createDeploymentPods(w, ps, short)
  <2>1. short \in Nat
    BY <1>1, <1>3, <1>6
  <2>2. PICK k \in 0 .. short : names \in [1 .. k -> Name]
    <3> HIDE DEF short
    <3> QED
      BY <2>1, CreateDeploymentPodsType
  <2>3. plan = Call("create", names)
    BY <1>1, <1>3, <1>4, <1>6
  <2> HIDE DEF names
  <2>4. k \in Nat /\ k <= short
    BY <2>1, <2>2
  <2>5. Call("create", names) \in Seq(PodCalls) /\ Len(Call("create", names)) = k
        /\ \A i \in 1 .. k : Call("create", names)[i] = <<"create", names[i]>>
    <3>1. Name \in SUBSET Name /\ "create" \in {"create", "delete"} /\ k \in Nat
      BY <2>4
    <3>2. names \in [1 .. k -> Name]
      BY <2>2
    <3> QED
      BY <3>1, <3>2, CallType
  <2>6. total + k <= w.replicas
    BY <1>1, <1>3, <2>4
  <2>7. \A i \in DOMAIN plan : plan[i][1] = "create"
    BY <2>3, <2>5
  <2> QED
    BY <2>3, <2>5, <2>6, <2>7 DEF total, active
<1>7. CASE total = w.replicas /\ w.recreate
  <2>1. plan = Call("delete", Ascending(old))
    BY <1>1, <1>4, <1>7
  <2>2. Ascending(old) \in [1 .. Cardinality(old) -> Name]
    BY <1>3, AscendingNames
  <2>3. Call("delete", Ascending(old)) \in Seq(PodCalls)
    BY <1>3, <2>2, CallType
  <2> QED
    BY <1>7, <2>1, <2>3
<1>8. CASE total = w.replicas /\ ~w.recreate /\ (old = {} \/ ~everyPodReady(ps, active))
  <2>1. plan = <<>>
    BY <1>1, <1>4, <1>8
  <2> QED
    BY <1>1, <1>8, <2>1 DEF total, active
<1>9. CASE total = w.replicas /\ ~w.recreate /\ ~(old = {} \/ ~everyPodReady(ps, active))
  <2> DEFINE victims == deletionPriority(ps, old, w.rev)
  <2>1. plan = Call("delete", <<Head(victims)>>)
    BY <1>1, <1>4, <1>9
  <2>2. victims \in [1 .. Cardinality(old) -> Name]
    BY <1>3, DeletionPriorityNames
  <2>3. Cardinality(old) # 0
    BY <1>3, <1>9, FS_EmptySet
  <2> HIDE DEF victims
  <2>4. victims # <<>>
    <3>1. 1 \in DOMAIN victims
      BY <1>3, <2>2, <2>3
    <3> QED
      BY <3>1
  <2>5. <<Head(victims)>> \in [1 .. 1 -> Name]
    BY <1>3, <2>2, <2>4, OneOrNone
  <2>6. Call("delete", <<Head(victims)>>) \in Seq(PodCalls)
        /\ Len(Call("delete", <<Head(victims)>>)) = 1
    BY <2>5, CallType
  <2>10. plan[1][1] = "delete"
    BY <2>1 DEF Call
  <2>7. ReadyPods(ps) = active
    BY <1>9 DEF everyPodReady, ReadyPods, active
  <2>8. Cardinality(ReadyPods(ps)) >= w.replicas
    BY <1>1, <1>9, <2>7 DEF total
  <2> QED
    BY <2>1, <2>6, <2>8, <2>10
<1> QED
  BY <1>1, <1>3, <1>5, <1>6, <1>7, <1>8, <1>9

(* The pods after a change to one of them, and the change. *)
WithPod(ps, n, p) == [ps EXCEPT ![n] = p]
PlusPod(ps, n, p) == [m \in DOMAIN ps \cup {n} |-> IF m = n THEN p ELSE ps[m]]
LessPod(ps, n) == [m \in DOMAIN ps \ {n} |-> ps[m]]
Deleting(p) == [p EXCEPT !.deleting = TRUE]
Patched(p, s) == [p EXCEPT !.st = s]
Gated(p) == [p EXCEPT !.gate = TRUE]
Reshown(p, a) == [p EXCEPT !.shown = a]
Shown(ps, ls) == [n \in DOMAIN ps |->
                   Reshown(ps[n], IF n \in Active(ls) THEN "counted" ELSE ps[n].shown)]
Skipped(ps) == [n \in DOMAIN ps |->
                 Reshown(ps[n], IF ps[n].shown = "no" THEN "skipped" ELSE ps[n].shown)]
Unseen == [NewPod EXCEPT !.shown = "skipped"]

------------------------------------------------------------------------------
(* What each step of the sweep changes of its record. *)

LEMMA SweepMoves ==
  ASSUME IsSim(sim), sweep
  PROVE  /\ IsSim(sim') /\ sim.pc = "idle"
         /\ IF wl.simulated THEN sim'.pc = "listPods" /\ sim'.wl = wl
            ELSE sim'.pc = "act" /\ sim'.wl = sim.wl
         /\ sim'.pods = sim.pods /\ sim'.plan = sim.plan /\ sim'.born = sim.born
         /\ sim'.todo = sim.todo /\ sim'.rule = sim.rule
BY DEF sweep, IsSim

LEMMA ListMoves ==
  ASSUME IsSim(sim), tickWorkloadPods
  PROVE  /\ IsSim(sim') /\ sim.pc = "listPods"
         /\ sim'.wl = sim.wl /\ sim'.born = sim.born /\ sim'.todo = sim.todo /\ sim'.rule = sim.rule
         /\ \/ sim.wl.deleting /\ sim'.pc = "act" /\ sim'.pods = sim.pods /\ sim'.plan = sim.plan
            \/ IsSet(sim.wl) /\ sim'.pc = "claims" /\ sim'.pods = pods /\ sim'.plan = sim.plan
            \/ /\ ~IsSet(sim.wl) /\ sim'.pc = "act" /\ sim'.pods = sim.pods
               /\ sim'.plan = reconcileDeploymentPods(sim.wl, pods)
BY DEF tickWorkloadPods, IsSim

LEMMA ClaimsMoves ==
  ASSUME IsSim(sim), NEW failed, ReconcileClaims(failed)
  PROVE  /\ IsSim(sim') /\ sim.pc = "claims" /\ sim'.pc = "act"
         /\ sim'.wl = sim.wl /\ sim'.born = sim.born /\ sim'.todo = sim.todo /\ sim'.rule = sim.rule
         /\ sim'.pods = <<>> /\ sim'.plan = reconcileStatefulSetPods(sim.wl, sim.pods)
BY DEF ReconcileClaims, IsSim

(* A List of the pods half fails. *)
LEMMA PodsHalfFails ==
  ASSUME IsSim(sim), WorkloadPodsFail
  PROVE  /\ IsSim(sim') /\ sim.pc \in {"idle", "listPods", "claims"} /\ sim'.pc = "act"
         /\ sim'.wl = sim.wl /\ sim'.born = sim.born /\ sim'.todo = sim.todo /\ sim'.rule = sim.rule
         /\ sim'.pods = <<>> /\ sim'.plan = sim.plan
<1>1. sim' = [sim EXCEPT !.pc = "act", !.pods = <<>>] /\ sim.pc \in {"idle", "listPods", "claims"}
  BY DEF WorkloadPodsFail
<1> QED
  BY <1>1 DEF IsSim

(* A name is in use and nothing happens, a pod is created, or a pod's      *)
(* deletion begins, if it is there.                                        *)
LEMMA ActMoves ==
  ASSUME IsSim(sim), Act, NEW podCall, podCall = Head(sim.plan)
  PROVE  /\ IsSim(sim') /\ sim.pc = "act" /\ sim'.pc = "act" /\ sim.plan # <<>>
         /\ sim'.wl = sim.wl /\ sim'.pods = sim.pods /\ sim'.plan = Tail(sim.plan)
         /\ sim'.todo = sim.todo /\ sim'.rule = sim.rule
         /\ \/ UNCHANGED pods /\ sim'.born = sim.born
            \/ /\ podCall[1] = "create" /\ podCall[2] \notin DOMAIN pods
               /\ pods' = PlusPod(pods, podCall[2], NewPod)
               /\ sim'.born = sim.born \cup {podCall[2]}
            \/ /\ podCall[1] = "delete" /\ podCall[2] \in DOMAIN pods
               /\ pods' = WithPod(pods, podCall[2], Deleting(pods[podCall[2]]))
               /\ sim'.born = sim.born
<1>1. sim.pc = "act" /\ sim.plan # <<>>
  BY DEF Act
<1>2. CASE podCall[1] = "create" /\ createPod(podCall[2])
  <2>1. CASE podCall[2] \in DOMAIN pods
    BY <1>1, <1>2, <2>1 DEF createPod, IsSim
  <2>2. CASE podCall[2] \notin DOMAIN pods
    BY <1>1, <1>2, <2>2 DEF createPod, Create, IsSim, PlusPod
  <2> QED
    BY <2>1, <2>2
<1>3. CASE podCall[1] = "delete" /\ deletePod(podCall[2])
  BY <1>1, <1>3 DEF deletePod, IsSim, WithPod, Deleting
<1> QED
  BY <1>2, <1>3 DEF Act

LEMMA TickPodsMoves ==
  ASSUME IsSim(sim), TickPods
  PROVE  /\ IsSim(sim') /\ sim.pc = "act" /\ sim'.pc = "pods" /\ sim.plan = <<>>
         /\ sim'.wl = None /\ sim'.pods = pods /\ sim'.plan = sim.plan /\ sim'.born = {}
         /\ sim'.todo = Active(pods) \ sim.born /\ sim'.rule = sim.rule
BY DEF TickPods, IsSim

(* A call fails, and a pod may have been created all the same. *)
LEMMA FailedActMoves ==
  ASSUME IsSim(sim), ActFails, NEW podCall, podCall = Head(sim.plan)
  PROVE  /\ IsSim(sim') /\ sim.pc = "act" /\ sim'.pc = "act" /\ sim.plan # <<>>
         /\ sim'.wl = sim.wl /\ sim'.pods = sim.pods /\ sim'.plan = Tail(sim.plan)
         /\ sim'.todo = sim.todo /\ sim'.rule = sim.rule /\ sim'.born = sim.born
         /\ \/ UNCHANGED pods
            \/ /\ podCall[1] = "create" /\ podCall[2] \notin DOMAIN pods
               /\ pods' = PlusPod(pods, podCall[2], Unseen)
<1>1. /\ sim.pc = "act" /\ sim.plan # <<>> /\ sim' = [sim EXCEPT !.plan = Tail(@)]
      /\ \/ UNCHANGED pods
         \/ /\ podCall[1] = "create" /\ podCall[2] \notin DOMAIN pods
            /\ pods' = PlusPod(pods, podCall[2], Unseen)
  BY DEF ActFails, Create, PlusPod, Unseen
<1> QED
  BY <1>1 DEF IsSim

LEMMA FailedTickMoves ==
  ASSUME IsSim(sim), TickPodsFails
  PROVE  /\ IsSim(sim') /\ sim.pc = "act" /\ sim'.pc = "pods" /\ sim.plan = <<>>
         /\ sim'.wl = None /\ sim'.pods = sim.pods /\ sim'.plan = sim.plan /\ sim'.born = {}
         /\ sim'.todo = sim.todo /\ sim'.rule = sim.rule
<1>1. sim' = [sim EXCEPT !.pc = "pods", !.wl = None, !.born = {}] /\ sim.pc = "act" /\ sim.plan = <<>>
  BY DEF TickPodsFails
<1> QED
  BY <1>1 DEF IsSim

(* The rule is read, and found to name an unknown container or not. *)
LEMMA PodTickMoves ==
  ASSUME IsSim(sim), PodTick
  PROVE  /\ IsSim(sim') /\ sim.pc = "pods" /\ sim.todo # {}
         /\ sim'.wl = sim.wl /\ sim'.pods = sim.pods /\ sim'.plan = sim.plan /\ sim'.born = sim.born
         /\ sim'.rule = rule /\ sim'.todo = sim.todo /\ UNCHANGED pods
         /\ sim'.pc \in {"report", "patch"} /\ (sim'.pc = "report" => rule # None)
<1> DEFINE n == Least(sim.todo)
           f == IF rule = None THEN None ELSE FaultFor(rule.rule, sim.pods[n])
           next == IF Unknown(f, sim.pods[n]) # {} THEN "report" ELSE "patch"
<1>1. sim.pc = "pods" /\ sim.todo # {} /\ UNCHANGED pods
      /\ sim' = [sim EXCEPT !.pc = next, !.rule = rule]
  BY DEF PodTick
<1>2. next \in {"report", "patch"} /\ (next = "report" => rule # None)
  BY DEF Unknown
<1> HIDE DEF next
<1> QED
  BY <1>1, <1>2 DEF IsSim

LEMMA PodFaultMoves ==
  ASSUME IsSim(sim), podFault
  PROVE  /\ IsSim(sim') /\ sim.pc = "report" /\ sim'.pc = "patch"
         /\ sim'.wl = sim.wl /\ sim'.pods = sim.pods /\ sim'.plan = sim.plan /\ sim'.born = sim.born
         /\ sim'.rule = sim.rule /\ sim'.todo = sim.todo /\ UNCHANGED pods
         /\ reported' = IF rule = sim.rule THEN reported \cup {<<rule.id, Least(sim.todo)>>}
                        ELSE reported
<1>1. sim' = [sim EXCEPT !.pc = "patch"] /\ sim.pc = "report" /\ UNCHANGED pods
      /\ reported' = IF rule = sim.rule THEN reported \cup {<<rule.id, Least(sim.todo)>>}
                     ELSE reported
  BY DEF podFault
<1>2. IsSim(sim') /\ sim'.pc = "patch"
      /\ sim'.wl = sim.wl /\ sim'.pods = sim.pods /\ sim'.plan = sim.plan /\ sim'.born = sim.born
      /\ sim'.rule = sim.rule /\ sim'.todo = sim.todo
  BY <1>1 DEF IsSim
<1> QED
  BY <1>1, <1>2

(* A pod is patched, or its patch fails. *)
LEMMA PodPatchMoves ==
  ASSUME IsSim(sim), NEW n, n = Least(sim.todo), PodPatch \/ PodPatchFails
  PROVE  /\ IsSim(sim') /\ sim.pc = "patch" /\ sim'.pc = "pods"
         /\ sim'.wl = sim.wl /\ sim'.pods = sim.pods /\ sim'.plan = sim.plan /\ sim'.born = sim.born
         /\ sim'.rule = None /\ sim'.todo = sim.todo \ {n}
         /\ PatchPod(n, FaultOf(n)) \/ UNCHANGED pods
<1>1. sim' = [sim EXCEPT !.pc = "pods", !.todo = @ \ {n}, !.rule = None] /\ sim.pc = "patch"
      /\ (PatchPod(n, FaultOf(n)) \/ UNCHANGED pods)
  BY DEF PodPatch, PodPatchFails, PodDone
<1>2. IsSim(sim') /\ sim'.pc = "pods"
      /\ sim'.wl = sim.wl /\ sim'.pods = sim.pods /\ sim'.plan = sim.plan /\ sim'.born = sim.born
      /\ sim'.rule = None /\ sim'.todo = sim.todo \ {n}
  BY <1>1 DEF IsSim
<1> QED
  BY <1>1, <1>2

LEMMA StatusListMoves ==
  ASSUME IsSim(sim), tickWorkloadStatus
  PROVE  /\ IsSim(sim') /\ sim.pc = "pods" /\ sim.todo = {}
         /\ sim'.pc = IF wl.simulated THEN "status" ELSE "write"
         /\ sim'.wl = wl /\ sim'.pods = <<>> /\ sim'.plan = sim.plan /\ sim'.born = sim.born
         /\ sim'.todo = sim.todo /\ sim'.rule = sim.rule
BY DEF tickWorkloadStatus, IsSim

LEMMA StatusPodsMoves ==
  ASSUME IsSim(sim), listStatusPods
  PROVE  /\ IsSim(sim') /\ sim.pc = "status" /\ sim'.pc = "write"
         /\ sim'.wl = sim.wl /\ sim'.pods = pods /\ sim'.plan = sim.plan /\ sim'.born = sim.born
         /\ sim'.todo = sim.todo /\ sim'.rule = sim.rule
BY DEF listStatusPods, IsSim

LEMMA UpdateStatusMoves ==
  ASSUME IsSim(sim), updateStatus
  PROVE  /\ IsSim(sim') /\ sim.pc = "write" /\ sim'.pc = "pvcs"
         /\ sim'.wl = None /\ sim'.pods = <<>> /\ sim'.plan = sim.plan /\ sim'.born = sim.born
         /\ sim'.todo = sim.todo /\ sim'.rule = sim.rule
<1>1. sim' = [sim EXCEPT !.pc = "pvcs", !.wl = None, !.pods = <<>>] /\ sim.pc = "write"
  BY DEF updateStatus
<1> QED
  BY <1>1 DEF IsSim

LEMMA StatusFailsMoves ==
  ASSUME IsSim(sim), WorkloadStatusFails
  PROVE  /\ IsSim(sim') /\ sim.pc \in {"pods", "status", "write"} /\ sim.todo = {}
         /\ sim'.pc = "pvcs" /\ pods' = Skipped(pods)
         /\ sim'.wl = None /\ sim'.pods = <<>> /\ sim'.plan = sim.plan /\ sim'.born = sim.born
         /\ sim'.todo = sim.todo /\ sim'.rule = sim.rule
<1>1. /\ sim' = [sim EXCEPT !.pc = "pvcs", !.wl = None, !.pods = <<>>]
      /\ sim.pc \in {"pods", "status", "write"} /\ sim.todo = {} /\ pods' = Skipped(pods)
  BY DEF WorkloadStatusFails, Skipped, Reshown
<1> QED
  BY <1>1 DEF IsSim

LEMMA PVCsMoves ==
  ASSUME NEW failed, BindClaims(failed)
  PROVE  /\ IsSim(sim') /\ sim.pc = "pvcs" /\ sim'.pc = "idle"
         /\ sim'.wl = None /\ sim'.pods = <<>> /\ sim'.plan = <<>> /\ sim'.born = {}
         /\ sim'.todo = {} /\ sim'.rule = None
BY DEF BindClaims, IsSim, Idle

------------------------------------------------------------------------------
(* What the changes to the pods do to them. *)

LEMMA PodFields ==
  ASSUME NEW p \in Pod
  PROVE  /\ p.rev \in Revision /\ p.deleting \in BOOLEAN /\ p.gate \in BOOLEAN
         /\ p.shown \in Shows /\ p.st \in PodStatus \cup {None}
BY DEF Pod

LEMMA PodReplaced ==
  ASSUME NEW ps, PodsOK(ps), NEW n \in DOMAIN ps, NEW p \in Pod
  PROVE  /\ PodsOK(WithPod(ps, n, p)) /\ DOMAIN WithPod(ps, n, p) = DOMAIN ps
         /\ \A m \in DOMAIN ps : m # n => WithPod(ps, n, p)[m] = ps[m]
         /\ WithPod(ps, n, p)[n] = p
BY DEF PodsOK, WithPod

LEMMA PodDeleting ==
  ASSUME NEW p \in Pod
  PROVE  /\ Deleting(p) \in Pod /\ Deleting(p).deleting = TRUE
         /\ Deleting(p).rev = p.rev /\ Deleting(p).st = p.st
         /\ Deleting(p).gate = p.gate /\ Deleting(p).shown = p.shown
<1>1. Deleting(p) \in Pod
  BY Zenon DEF Pod, Deleting
<1> QED
  BY <1>1 DEF Pod, Deleting

LEMMA PodPatched ==
  ASSUME NEW p \in Pod, NEW s \in PodStatus
  PROVE  /\ Patched(p, s) \in Pod /\ Patched(p, s).st = s
         /\ Patched(p, s).rev = p.rev /\ Patched(p, s).deleting = p.deleting
         /\ Patched(p, s).gate = p.gate /\ Patched(p, s).shown = p.shown
<1>1. Patched(p, s) \in Pod
  BY Zenon DEF Pod, Patched
<1> QED
  BY <1>1 DEF Pod, Patched

LEMMA PodGated ==
  ASSUME NEW p \in Pod
  PROVE  /\ Gated(p) \in Pod /\ Gated(p).gate = TRUE
         /\ Gated(p).rev = p.rev /\ Gated(p).deleting = p.deleting
         /\ Gated(p).st = p.st /\ Gated(p).shown = p.shown
<1>1. Gated(p) \in Pod
  BY Zenon DEF Pod, Gated
<1> QED
  BY <1>1 DEF Pod, Gated

(* A pod whose deletion begins, and a pod whose gate opens. *)
LEMMA PodMarked ==
  ASSUME PodsOK(pods), NEW n \in DOMAIN pods, pods' = WithPod(pods, n, Deleting(pods[n]))
  PROVE  /\ DOMAIN pods' = DOMAIN pods
         /\ \A m \in DOMAIN pods : m # n => pods'[m] = pods[m]
         /\ pods'[n].rev = pods[n].rev /\ pods'[n].st = pods[n].st /\ pods'[n].gate = pods[n].gate
         /\ pods'[n].shown = pods[n].shown /\ pods'[n].deleting = TRUE
<1>1. pods[n] \in Pod
  BY DEF PodsOK
<1>2. DOMAIN pods' = DOMAIN pods /\ \A m \in DOMAIN pods : m # n => pods'[m] = pods[m]
  BY DEF WithPod
<1>3. pods'[n] = Deleting(pods[n])
  BY DEF WithPod
<1> QED
  BY <1>1, <1>2, <1>3, PodDeleting

LEMMA PodOpened ==
  ASSUME PodsOK(pods), NEW n \in DOMAIN pods, pods' = WithPod(pods, n, Gated(pods[n]))
  PROVE  /\ DOMAIN pods' = DOMAIN pods
         /\ \A m \in DOMAIN pods : m # n => pods'[m] = pods[m]
         /\ pods'[n].rev = pods[n].rev /\ pods'[n].st = pods[n].st /\ pods'[n].gate = TRUE
         /\ pods'[n].shown = pods[n].shown /\ pods'[n].deleting = pods[n].deleting
<1>1. pods[n] \in Pod
  BY DEF PodsOK
<1>2. DOMAIN pods' = DOMAIN pods /\ \A m \in DOMAIN pods : m # n => pods'[m] = pods[m]
  BY DEF WithPod
<1>3. pods'[n] = Gated(pods[n])
  BY DEF WithPod
<1> QED
  BY <1>1, <1>2, <1>3, PodGated

LEMMA PodReshown ==
  ASSUME NEW p \in Pod, NEW a \in Shows
  PROVE  /\ Reshown(p, a) \in Pod /\ Reshown(p, a).shown = a
         /\ Reshown(p, a).rev = p.rev /\ Reshown(p, a).deleting = p.deleting
         /\ Reshown(p, a).gate = p.gate /\ Reshown(p, a).st = p.st
<1>1. Reshown(p, a) \in Pod
  BY Zenon DEF Pod, Reshown
<1> QED
  BY <1>1 DEF Pod, Reshown

(* A status counts the active pods that were listed; one that is lost      *)
(* skips the pods no status has counted.                                   *)
LEMMA PodsShown ==
  ASSUME NEW ps, PodsOK(ps), NEW ls, NEW qs, qs = Shown(ps, ls)
  PROVE  /\ PodsOK(qs) /\ DOMAIN qs = DOMAIN ps
         /\ \A n \in DOMAIN ps :
              /\ n \in Active(ls) \/ ps[n].shown # "no" => qs[n].shown # "no"
              /\ qs[n].rev = ps[n].rev /\ qs[n].st = ps[n].st
              /\ qs[n].deleting = ps[n].deleting /\ qs[n].gate = ps[n].gate
<1> DEFINE A(n) == IF n \in Active(ls) THEN "counted" ELSE ps[n].shown
<1>1. \A n \in DOMAIN ps : ps[n] \in Pod /\ A(n) \in Shows
  BY PodFields DEF PodsOK, Shows
<1>2. \A n \in DOMAIN ps : n \in Active(ls) \/ ps[n].shown # "no" => A(n) # "no"
  OBVIOUS
<1>3. qs = [n \in DOMAIN ps |-> Reshown(ps[n], A(n))]
  BY DEF Shown
<1> HIDE DEF A
<1>4. \A n \in DOMAIN ps :
        /\ qs[n] \in Pod /\ qs[n].shown = A(n)
        /\ qs[n].rev = ps[n].rev /\ qs[n].st = ps[n].st
        /\ qs[n].deleting = ps[n].deleting /\ qs[n].gate = ps[n].gate
  BY <1>1, <1>3, PodReshown
<1>5. DOMAIN qs = DOMAIN ps /\ qs \in [DOMAIN ps -> Pod]
  BY <1>3, <1>4
<1> QED
  BY <1>2, <1>4, <1>5 DEF PodsOK

LEMMA PodsSkipped ==
  ASSUME NEW ps, PodsOK(ps), NEW qs, qs = Skipped(ps)
  PROVE  /\ PodsOK(qs) /\ DOMAIN qs = DOMAIN ps
         /\ \A n \in DOMAIN ps :
              /\ qs[n].shown # "no"
              /\ qs[n].rev = ps[n].rev /\ qs[n].st = ps[n].st
              /\ qs[n].deleting = ps[n].deleting /\ qs[n].gate = ps[n].gate
<1> DEFINE A(n) == IF ps[n].shown = "no" THEN "skipped" ELSE ps[n].shown
<1>1. \A n \in DOMAIN ps : ps[n] \in Pod /\ A(n) \in Shows /\ A(n) # "no"
  BY PodFields DEF PodsOK, Shows
<1>2. qs = [n \in DOMAIN ps |-> Reshown(ps[n], A(n))]
  BY DEF Skipped
<1> HIDE DEF A
<1>3. \A n \in DOMAIN ps :
        /\ qs[n] \in Pod /\ qs[n].shown = A(n)
        /\ qs[n].rev = ps[n].rev /\ qs[n].st = ps[n].st
        /\ qs[n].deleting = ps[n].deleting /\ qs[n].gate = ps[n].gate
  BY <1>1, <1>2, PodReshown
<1>4. DOMAIN qs = DOMAIN ps /\ qs \in [DOMAIN ps -> Pod]
  BY <1>2, <1>3
<1> QED
  BY <1>1, <1>3, <1>4 DEF PodsOK

LEMMA PodCreated ==
  ASSUME NEW ps, PodsOK(ps), NEW n \in Name, n \notin DOMAIN ps, NEW p \in Pod, NEW qs,
         qs = PlusPod(ps, n, p)
  PROVE  /\ PodsOK(qs) /\ DOMAIN qs = DOMAIN ps \cup {n}
         /\ \A m \in DOMAIN ps : qs[m] = ps[m]
         /\ qs[n] = p
<1>1. IsFiniteSet(DOMAIN ps \cup {n})
  BY FS_AddElement DEF PodsOK
<1>2. DOMAIN qs = DOMAIN ps \cup {n}
  BY DEF PlusPod
<1>3. \A m \in DOMAIN ps \cup {n} : qs[m] \in Pod
  BY DEF PodsOK, PlusPod
<1> QED
  BY <1>1, <1>2, <1>3 DEF PodsOK, PlusPod

LEMMA PodGone ==
  ASSUME NEW ps, PodsOK(ps), NEW n \in DOMAIN ps, NEW qs, qs = LessPod(ps, n)
  PROVE  /\ PodsOK(qs) /\ DOMAIN qs = DOMAIN ps \ {n}
         /\ \A m \in DOMAIN qs : qs[m] = ps[m]
<1>1. IsFiniteSet(DOMAIN ps \ {n})
  BY FS_RemoveElement DEF PodsOK
<1>2. DOMAIN qs = DOMAIN ps \ {n}
  BY DEF LessPod
<1>3. \A m \in DOMAIN ps \ {n} : qs[m] \in Pod
  BY DEF PodsOK, LessPod
<1> QED
  BY <1>1, <1>2, <1>3 DEF PodsOK, LessPod

(* A patch changes at most the status of its pod, to what podStatus says   *)
(* of the pod as listed.                                                   *)
LEMMA PatchPodMoves ==
  ASSUME PodsOK(pods), NEW n, NEW f, PatchPod(n, f)
  PROVE  /\ PodsOK(pods') /\ DOMAIN pods' = DOMAIN pods
         /\ \A m \in DOMAIN pods :
              /\ m # n => pods'[m] = pods[m]
              /\ pods'[m].rev = pods[m].rev /\ pods'[m].deleting = pods[m].deleting
              /\ pods'[m].gate = pods[m].gate /\ pods'[m].shown = pods[m].shown
              /\ \/ pods'[m].st = pods[m].st
                 \/ pods'[m].st = podStatus(sim.pods[n], f) /\ podStatus(sim.pods[n], f) # sim.pods[n].st
<1> DEFINE want == podStatus(sim.pods[n], f)
<1>1. want \in PodStatus
  BY PodStatusType
<1>2. CASE n \in DOMAIN pods /\ want # sim.pods[n].st
  <2>1. pods' = WithPod(pods, n, Patched(pods[n], want))
    BY <1>2 DEF PatchPod, WithPod, Patched
  <2> HIDE DEF want
  <2>2. /\ PodsOK(pods') /\ DOMAIN pods' = DOMAIN pods
        /\ \A m \in DOMAIN pods : m # n => pods'[m] = pods[m]
        /\ pods'[n].st = want /\ pods'[n].rev = pods[n].rev /\ pods'[n].deleting = pods[n].deleting
        /\ pods'[n].gate = pods[n].gate /\ pods'[n].shown = pods[n].shown
    <3>1. n \in DOMAIN pods /\ pods[n] \in Pod
      BY <1>2 DEF PodsOK
    <3> QED
      BY <1>1, <2>1, <3>1, PodPatched, PodReplaced
  <2> QED
    BY <1>2, <2>2 DEF want
<1>3. CASE ~(n \in DOMAIN pods /\ want # sim.pods[n].st)
  <2>1. pods' = pods
    BY <1>3 DEF PatchPod
  <2> QED
    BY <2>1
<1> QED
  BY <1>2, <1>3

------------------------------------------------------------------------------
(* The status the sweep writes. *)

LEMMA CountType ==
  ASSUME NEW ps, PodsOK(ps), NEW S \in SUBSET Active(ps)
  PROVE  Cardinality(S) \in Nat
BY SubsetsOfPods DEF Active

LEMMA SetStatusType ==
  ASSUME NEW w \in StatefulSets, NEW st, st = None \/ st \in SetStatus, NEW ps, PodsOK(ps)
  PROVE  updateStatefulSetStatus(w, st, ps) \in SetStatus /\ tickStatefulSets(w) \in SetStatus
<1> DEFINE At(r) == Cardinality({n \in Active(ps) : ps[n].rev = r})
           ready == Cardinality({n \in Active(ps) : isPodReady(ps[n])})
           current == IF (\A n \in Active(ps) : ps[n].rev = w.rev) \/ st = None THEN w.rev
                      ELSE st.currentRevision
<1>1. w.gen \in Nat /\ w.replicas \in Nat /\ w.rev \in Nat
  BY DataPlaneAssumption DEF StatefulSets
<1>2. \A r : At(r) \in Nat
  BY CountType
<1>3. ready \in Nat /\ Cardinality(Active(ps)) \in Nat
  BY CountType
<1>4. current \in Nat
  BY <1>1 DEF SetStatus
<1>5. updateStatefulSetStatus(w, st, ps) =
        [gen |-> w.gen, replicas |-> Cardinality(Active(ps)), ready |-> ready,
         updated |-> At(w.rev), current |-> At(current),
         currentRevision |-> current, updateRevision |-> w.rev]
  BY DEF updateStatefulSetStatus
<1>6. updateStatefulSetStatus(w, st, ps) \in SetStatus
  <2> HIDE DEF At, ready, current
  <2> QED
    BY <1>1, <1>2, <1>3, <1>4, <1>5 DEF SetStatus
<1> QED
  BY <1>1, <1>6 DEF tickStatefulSets, SetStatus

LEMMA DeploymentStatusType ==
  ASSUME NEW w \in Deployments, NEW ps, PodsOK(ps)
  PROVE  updateDeploymentStatus(w, ps) \in DeploymentStatus /\ tickDeployments(w) \in DeploymentStatus
<1> DEFINE updated == Cardinality({n \in Active(ps) : ps[n].rev = w.rev})
           ready == Cardinality({n \in Active(ps) : isPodReady(ps[n])})
           unavailable == IF w.replicas > ready THEN w.replicas - ready ELSE 0
<1>1. w.gen \in Nat /\ w.replicas \in Nat
  BY DEF Deployments
<1>2. updated \in Nat /\ ready \in Nat /\ Cardinality(Active(ps)) \in Nat
  BY CountType
<1>3. unavailable \in Nat
  <2> HIDE DEF ready
  <2> QED
    BY <1>1, <1>2
<1>4. updateDeploymentStatus(w, ps) =
        [gen |-> w.gen, replicas |-> Cardinality(Active(ps)), updated |-> updated, ready |-> ready,
         unavailable |-> unavailable, available |-> ready >= w.replicas - maxUnavailable(w),
         complete |-> updated = w.replicas /\ ready >= w.replicas]
  BY DEF updateDeploymentStatus
<1>5. updateDeploymentStatus(w, ps) \in DeploymentStatus
  <2> HIDE DEF updated, ready, unavailable
  <2> QED
    BY <1>1, <1>2, <1>3, <1>4 DEF DeploymentStatus
<1> QED
  BY <1>1, <1>5 DEF tickDeployments, DeploymentStatus

(* The claims after a sweep's calls. *)
LEMMA ClaimsType ==
  ASSUME sim.wl \in StatefulSets, claims \in [DOMAIN claims -> Claim], DOMAIN claims \subseteq Nat,
         NEW failed, claims' = reconcileStatefulSetClaims(sim.wl, sim.pods, claims, failed)
  PROVE  /\ claims' \in [DOMAIN claims' -> Claim] /\ DOMAIN claims' \subseteq Nat
         /\ 0 .. sim.wl.replicas - 1 \subseteq DOMAIN claims' \cup failed
         /\ \A o \in DOMAIN claims : PodName(o) \in DOMAIN sim.pods => o \in DOMAIN claims'
<1> DEFINE scaledAway == {o \in DOMAIN claims \ failed : o >= sim.wl.replicas /\ PodName(o) \notin DOMAIN sim.pods}
           kept == IF sim.wl.whenScaled = "Delete" THEN DOMAIN claims \ scaledAway ELSE DOMAIN claims
           new == [bound |-> FALSE, owned |-> sim.wl.whenDeleted = "Delete"]
           made == (0 .. (sim.wl.replicas - 1)) \ failed
<1>1. sim.wl.replicas \in Nat
  BY DEF StatefulSets
<1>2. new \in Claim
  BY DEF Claim
<1>3. claims' = [o \in kept \cup made |-> IF o \in kept THEN claims[o] ELSE new]
  BY DEF reconcileStatefulSetClaims
<1>4. kept \subseteq DOMAIN claims /\ \A o \in DOMAIN claims : PodName(o) \in DOMAIN sim.pods => o \in kept
  OBVIOUS
<1>5. made \subseteq Nat /\ 0 .. sim.wl.replicas - 1 \subseteq made \cup failed
  BY <1>1
<1> HIDE DEF kept, new, made
<1>6. DOMAIN claims' = kept \cup made
  BY <1>3
<1>7. \A o \in DOMAIN claims' : claims'[o] \in Claim
  BY <1>2, <1>3, <1>4
<1>8. claims' \in [DOMAIN claims' -> Claim]
  BY <1>3, <1>6, <1>7
<1> QED
  BY <1>4, <1>5, <1>6, <1>8

------------------------------------------------------------------------------
(* The types, and the places of the sweep, are inductive. *)

LEMMA NoPods == PodsOK(<<>>) /\ <<>> \in Seq(PodCalls) /\ {} \subseteq Name /\ IsFiniteSet({})
BY FS_EmptySet DEF PodsOK

LEMMA NewPodType ==
  ASSUME sim.wl \in Workload
  PROVE  /\ NewPod \in Pod /\ NewPod.shown = "no" /\ NewPod.deleting = FALSE
         /\ NewPod.st = None /\ NewPod.rev = sim.wl.rev
         /\ Unseen \in Pod /\ Unseen.shown = "skipped" /\ Unseen.deleting = FALSE
         /\ Unseen.st = None /\ Unseen.rev = sim.wl.rev
BY WorkloadFields DEF NewPod, Unseen, Pod, Shows

LEMMA DataInit ==
  ASSUME Init
  PROVE  TypeOK /\ PlaceInv
<1>1. sim.pc = "idle" /\ sim.wl = None /\ sim.pods = <<>> /\ sim.plan = <<>> /\ sim.born = {}
      /\ sim.todo = {} /\ sim.rule = None /\ IsSim(sim)
  BY DEF Init, Idle, IsSim
<1>2. SimOK
  BY <1>1, NoPods DEF SimOK
<1>3. wl \in Workload
  BY DataPlaneAssumption DEF Init, Workload
<1>4. /\ PodsOK(pods) /\ claims \in [DOMAIN claims -> Claim] /\ DOMAIN claims \subseteq Nat
      /\ refused \subseteq Nat
  BY NoPods DEF Init
<1>5. disturbed \in BOOLEAN
  BY DEF Init
<1>6. edits \in 0 .. MaxEdits
  BY DataPlaneAssumption DEF Init
<1>7. TypeOK
  BY <1>2, <1>3, <1>4, <1>5, <1>6 DEF Init, TypeOK
<1> QED
  BY <1>1, <1>7 DEF PlaceInv

(* What the others do keeps the types. *)
LEMMA OthersType ==
  ASSUME TypeOK, Others
  PROVE  /\ TypeOK' /\ UNCHANGED sim
         /\ wl'.kind = wl.kind /\ wl'.simulated = wl.simulated
<1> USE DEF TypeOK
<1>1. UNCHANGED sim
  BY DEF Others, Scale, NewTemplate, DeleteWorkload, DeletePod, SetGate, Terminated, SetPodFaults
<1>2. SimOK'
  BY <1>1 DEF SimOK, IsSim, PodsOK
<1>3. edits' \in 0 .. MaxEdits
  <2>1. edits' = edits \/ (edits < MaxEdits /\ edits' = edits + 1)
    BY Zenon
       DEF Others, Scale, NewTemplate, DeleteWorkload, DeletePod, SetGate, Terminated, SetPodFaults, Edit
  <2> QED
    BY <2>1, DataPlaneAssumption
<1>4. disturbed' \in BOOLEAN
  BY Zenon
     DEF Others, Scale, NewTemplate, DeleteWorkload, DeletePod, SetGate, Terminated, SetPodFaults, Edit
<1>5. UNCHANGED <<claims, refused>>
  BY DEF Others, Scale, NewTemplate, DeleteWorkload, DeletePod, SetGate, Terminated, SetPodFaults
<1>6. claims' \in [DOMAIN claims' -> Claim] /\ DOMAIN claims' \subseteq Nat /\ refused' \subseteq Nat
  BY <1>5
<1>7. wl' \in Workload /\ wl'.kind = wl.kind /\ wl'.simulated = wl.simulated
  <2>1. CASE Scale
    <3>1. PICK r \in Replicas : wl' = [wl EXCEPT !.replicas = r, !.gen = @ + 1]
      BY <2>1 DEF Scale
    <3> QED
      BY <3>1, DataPlaneAssumption, Scaled
  <2>2. CASE NewTemplate
    <3>1. PICK r \in Revision : wl' = [wl EXCEPT !.rev = r, !.gen = @ + 1]
      BY <2>2 DEF NewTemplate
    <3> QED
      BY <3>1, Retemplated
  <2>3. CASE DeleteWorkload
    <3>1. wl' = [wl EXCEPT !.deleting = TRUE, !.gen = @ + 1]
      BY <2>3 DEF DeleteWorkload
    <3> QED
      BY <3>1, DeletionBegun
  <2>4. CASE DeletePod \/ SetGate \/ Terminated \/ SetPodFaults
    BY <2>4 DEF DeletePod, SetGate, Terminated, SetPodFaults
  <2> QED
    BY <2>1, <2>2, <2>3, <2>4 DEF Others
<1>8. UNCHANGED status /\ (IsSet(wl') <=> IsSet(wl))
  BY <1>7 DEF IsSet, Others, Scale, NewTemplate, DeleteWorkload, DeletePod, SetGate, Terminated,
     SetPodFaults
<1>9. rule' = None \/ rule' \in [id : Nat, rule : Rules]
  <2>1. CASE SetPodFaults
    BY <2>1, DataPlaneAssumption DEF SetPodFaults
  <2>2. CASE ~SetPodFaults
    BY <2>2 DEF Others, Scale, NewTemplate, DeleteWorkload, DeletePod, SetGate, Terminated
  <2> QED
    BY <2>1, <2>2
<1>10. PodsOK(pods') /\ reported' \subseteq Nat \X Name
  <2>1. CASE DeletePod
    <3>1. PICK n \in Active(pods) : pods' = [pods EXCEPT ![n].deleting = TRUE]
      BY <2>1 DEF DeletePod
    <3>2. pods' = WithPod(pods, n, Deleting(pods[n])) /\ n \in DOMAIN pods /\ pods[n] \in Pod
      BY <3>1 DEF WithPod, Deleting, Active, PodsOK
    <3> QED
      BY <2>1, <3>2, PodDeleting, PodReplaced DEF DeletePod
  <2>2. CASE SetGate
    <3>1. PICK n \in DOMAIN pods : pods' = [pods EXCEPT ![n].gate = TRUE]
      BY <2>2 DEF SetGate
    <3>2. pods' = WithPod(pods, n, Gated(pods[n])) /\ pods[n] \in Pod
      BY <3>1 DEF WithPod, Gated, PodsOK
    <3> QED
      BY <2>2, <3>2, PodGated, PodReplaced DEF SetGate
  <2>3. CASE Terminated
    <3>1. PICK n \in DOMAIN pods : /\ pods' = [m \in DOMAIN pods \ {n} |-> pods[m]]
                                   /\ reported' = {x \in reported : x[2] # n}
      BY <2>3 DEF Terminated
    <3>2. pods' = LessPod(pods, n)
      BY <3>1 DEF LessPod
    <3> QED
      BY <3>1, <3>2, PodGone
  <2>4. CASE Scale \/ NewTemplate \/ DeleteWorkload \/ SetPodFaults
    BY <2>4 DEF Scale, NewTemplate, DeleteWorkload, SetPodFaults
  <2> QED
    BY <2>1, <2>2, <2>3, <2>4 DEF Others
<1> QED
  BY <1>1, <1>2, <1>3, <1>4, <1>6, <1>7, <1>8, <1>9, <1>10

(* What a step of the sweep, or a call of it that fails, leaves alone. *)
LEMMA SweepLeaves ==
  ASSUME Sweep \/ CallFails
  PROVE  /\ UNCHANGED <<wl, rule>>
         /\ edits' = edits \/ (edits < MaxEdits /\ edits' = edits + 1)
         /\ UNCHANGED disturbed \/ disturbed' = (disturbed \/ FALSE)
<1>1. CASE Sweep
  BY <1>1 DEF Sweep, sweep, tickWorkloadPods, tickClaims, ReconcileClaims, Act, TickPods, PodTick,
     podFault, PodPatch, tickWorkloadStatus, listStatusPods, updateStatus, tickPVCs, BindClaims, ghosts
<1>2. CASE CallFails
  BY <1>2, Zenon DEF CallFails, WorkloadPodsFail, ClaimsFail, ReconcileClaims, ActFails, TickPodsFails,
     PodPatchFails, WorkloadStatusFails, PVCsFail, BindClaims, Fails, Edit
<1> QED
  BY <1>1, <1>2

(* A step of the sweep keeps the types, and stays at a place it knows. *)
LEMMA SweepType ==
  ASSUME TypeOK, PlaceInv, Sweep \/ CallFails
  PROVE  TypeOK' /\ PlaceInv' /\ UNCHANGED wl
<1>1. IsSim(sim) /\ PodsOK(pods) /\ wl \in Workload
  BY DEF TypeOK, SimOK
<1>2. UNCHANGED <<wl, rule>>
  BY SweepLeaves
<1>3. edits' \in 0 .. MaxEdits
  <2>1. edits' = edits \/ (edits < MaxEdits /\ edits' = edits + 1)
    BY SweepLeaves
  <2> QED
    BY <2>1, DataPlaneAssumption DEF TypeOK
<1>4. disturbed' \in BOOLEAN
  BY SweepLeaves, Zenon DEF TypeOK
<1>5. ASSUME SimOK', PodsOK(pods'), claims' \in [DOMAIN claims' -> Claim], DOMAIN claims' \subseteq Nat,
             refused' \subseteq Nat,
             status' = None \/ status' \in IF IsSet(wl) THEN SetStatus ELSE DeploymentStatus,
             reported' \subseteq Nat \X Name
      PROVE  TypeOK'
  <2>1. IsSet(wl') <=> IsSet(wl)
    BY <1>2
  <2> QED
    BY <1>2, <1>3, <1>4, <1>5, <2>1 DEF TypeOK
<1>6. ASSUME SimOK', UNCHANGED <<pods, claims, refused, status, reported>> PROVE TypeOK'
  BY <1>5, <1>6 DEF TypeOK
<1> USE <1>1
<1>7. CASE sweep
  <2>1. /\ IsSim(sim') /\ sim.pc = "idle"
        /\ IF wl.simulated THEN sim'.pc = "listPods" /\ sim'.wl = wl
           ELSE sim'.pc = "act" /\ sim'.wl = sim.wl
        /\ sim'.pods = sim.pods /\ sim'.plan = sim.plan /\ sim'.born = sim.born
        /\ sim'.todo = sim.todo /\ sim'.rule = sim.rule
    BY <1>7, SweepMoves
  <2>2. SimOK'
    BY <2>1 DEF TypeOK, SimOK
  <2>3. PlaceInv'
    BY <1>2, <2>1 DEF PlaceInv, TypeOK, SimOK
  <2> QED
    BY <1>2, <1>6, <1>7, <2>2, <2>3 DEF sweep
<1>8. CASE tickWorkloadPods
  <2>1. /\ IsSim(sim') /\ sim.pc = "listPods"
        /\ sim'.wl = sim.wl /\ sim'.born = sim.born /\ sim'.todo = sim.todo /\ sim'.rule = sim.rule
        /\ \/ sim.wl.deleting /\ sim'.pc = "act" /\ sim'.pods = sim.pods /\ sim'.plan = sim.plan
           \/ IsSet(sim.wl) /\ sim'.pc = "claims" /\ sim'.pods = pods /\ sim'.plan = sim.plan
           \/ /\ ~IsSet(sim.wl) /\ sim'.pc = "act" /\ sim'.pods = sim.pods
              /\ sim'.plan = reconcileDeploymentPods(sim.wl, pods)
    BY <1>8, ListMoves
  <2>2. sim.wl \in Workload /\ sim.wl.kind = wl.kind /\ sim.wl.simulated = wl.simulated
    BY <2>1 DEF PlaceInv
  <2>3. ~IsSet(sim.wl) => sim.wl \in Deployments
    BY <2>2, WorkloadFields
  <2>4. sim'.plan \in Seq(PodCalls)
    BY <2>1, <2>3, DeploymentPlan DEF TypeOK, SimOK
  <2>5. SimOK'
    BY <2>1, <2>4 DEF TypeOK, SimOK
  <2>6. PlaceInv'
    BY <1>2, <2>1, <2>2 DEF PlaceInv
  <2> QED
    BY <1>2, <1>6, <1>8, <2>5, <2>6 DEF tickWorkloadPods
<1>9. CASE tickClaims \/ ClaimsFail
  <2>1. PICK failed \in SUBSET (DOMAIN claims \cup 0 .. (sim.wl.replicas - 1)) : ReconcileClaims(failed)
    BY <1>9 DEF tickClaims, ClaimsFail
  <2>2. /\ IsSim(sim') /\ sim.pc = "claims" /\ sim'.pc = "act"
        /\ sim'.wl = sim.wl /\ sim'.born = sim.born /\ sim'.todo = sim.todo /\ sim'.rule = sim.rule
        /\ sim'.pods = <<>> /\ sim'.plan = reconcileStatefulSetPods(sim.wl, sim.pods)
    BY <2>1, ClaimsMoves
  <2>3. sim.wl \in Workload /\ sim.wl.kind = wl.kind /\ sim.wl.simulated = wl.simulated
    BY <2>2 DEF PlaceInv
  <2>4. sim.wl \in StatefulSets
    <3>1. IsSet(sim.wl)
      BY <2>2 DEF PlaceInv
    <3> QED
      BY <2>3, <3>1, WorkloadFields
  <2>5. sim'.plan \in Seq(PodCalls)
    BY <2>2, <2>4, SetPlanType DEF TypeOK, SimOK
  <2>6. SimOK'
    BY <2>2, <2>5, NoPods DEF TypeOK, SimOK
  <2>7. PlaceInv'
    BY <1>2, <2>2, <2>3 DEF PlaceInv
  <2>8. /\ claims' = reconcileStatefulSetClaims(sim.wl, sim.pods, claims, failed)
        /\ refused' = (refused \cup failed) \ DOMAIN claims'
        /\ UNCHANGED <<status, pods, reported>>
    BY <2>1 DEF ReconcileClaims
  <2>9. claims' \in [DOMAIN claims' -> Claim] /\ DOMAIN claims' \subseteq Nat
    <3>1. claims \in [DOMAIN claims -> Claim] /\ DOMAIN claims \subseteq Nat
      BY DEF TypeOK
    <3>2. claims' = reconcileStatefulSetClaims(sim.wl, sim.pods, claims, failed)
      BY <2>8
    <3> QED
      BY <2>4, <3>1, <3>2, ClaimsType
  <2>10. refused' \subseteq Nat
    <3>1. sim.wl.replicas \in Nat
      BY <2>3, WorkloadFields
    <3>2. 0 .. (sim.wl.replicas - 1) \subseteq Nat
      BY <3>1
    <3> QED
      BY <2>8, <3>2 DEF TypeOK
  <2> QED
    BY <1>2, <1>5, <2>6, <2>7, <2>8, <2>9, <2>10 DEF TypeOK
<1>10. CASE Act \/ ActFails
  <2> DEFINE podCall == Head(sim.plan)
  <2>1. /\ IsSim(sim') /\ sim.pc = "act" /\ sim'.pc = "act" /\ sim.plan # <<>>
        /\ sim'.wl = sim.wl /\ sim'.pods = sim.pods /\ sim'.plan = Tail(sim.plan)
        /\ sim'.todo = sim.todo /\ sim'.rule = sim.rule
        /\ sim'.born = sim.born \/ sim'.born = sim.born \cup {podCall[2]}
        /\ \/ UNCHANGED pods
           \/ /\ podCall[1] = "create" /\ podCall[2] \notin DOMAIN pods
              /\ \E p \in {NewPod, Unseen} : pods' = PlusPod(pods, podCall[2], p)
           \/ /\ podCall[1] = "delete" /\ podCall[2] \in DOMAIN pods
              /\ pods' = WithPod(pods, podCall[2], Deleting(pods[podCall[2]]))
    <3> HIDE DEF podCall
    <3>1. podCall = Head(sim.plan)
      BY DEF podCall
    <3> QED
      BY <1>10, <3>1, ActMoves, FailedActMoves
  <2>2. podCall \in PodCalls /\ Tail(sim.plan) \in Seq(PodCalls)
    BY <2>1 DEF TypeOK, SimOK
  <2>3. podCall[2] \in Name
    BY <2>2 DEF PodCalls
  <2>4. sim.wl \in Workload /\ sim.wl.kind = wl.kind /\ sim.wl.simulated = wl.simulated
    BY <2>1 DEF PlaceInv
  <2>5. NewPod \in Pod /\ Unseen \in Pod
    BY <2>4, NewPodType
  <2>6. PodsOK(pods')
    <3>1. CASE UNCHANGED pods
      BY <3>1
    <3>2. CASE podCall[2] \notin DOMAIN pods
               /\ \E p \in {NewPod, Unseen} : pods' = PlusPod(pods, podCall[2], p)
      <4>1. PICK p \in {NewPod, Unseen} : pods' = PlusPod(pods, podCall[2], p)
        BY <3>2
      <4> HIDE DEF podCall
      <4>2. p \in Pod
        BY <2>5
      <4> QED
        BY <2>3, <3>2, <4>1, <4>2, PodCreated, Zenon
    <3>3. CASE podCall[2] \in DOMAIN pods /\ pods' = WithPod(pods, podCall[2], Deleting(pods[podCall[2]]))
      <4> HIDE DEF podCall
      <4>1. pods[podCall[2]] \in Pod
        BY <3>3 DEF PodsOK
      <4> QED
        BY <3>3, <4>1, PodDeleting, PodReplaced
    <3> QED
      BY <2>1, <3>1, <3>2, <3>3
  <2> HIDE DEF podCall
  <2>7. SimOK'
    BY <2>1, <2>2, <2>3 DEF TypeOK, SimOK
  <2>8. PlaceInv'
    BY <1>2, <2>1, <2>4 DEF PlaceInv
  <2>9. UNCHANGED <<claims, refused, status, reported>>
    BY <1>10 DEF Act, ActFails, Fails
  <2> QED
    BY <1>2, <1>5, <2>6, <2>7, <2>8, <2>9 DEF TypeOK
<1>11. CASE TickPods
  <2>1. /\ IsSim(sim') /\ sim.pc = "act" /\ sim'.pc = "pods" /\ sim.plan = <<>>
        /\ sim'.wl = None /\ sim'.pods = pods /\ sim'.plan = sim.plan /\ sim'.born = {}
        /\ sim'.todo = Active(pods) \ sim.born /\ sim'.rule = sim.rule
    BY <1>11, TickPodsMoves
  <2>2. sim'.todo \in SUBSET DOMAIN pods
    BY <2>1 DEF Active
  <2>3. sim'.todo \subseteq Name /\ IsFiniteSet(sim'.todo)
    BY <2>2, SubsetsOfPods
  <2>4. SimOK'
    BY <2>1, <2>3 DEF TypeOK, SimOK
  <2>5. PlaceInv'
    BY <2>1, <2>2 DEF PlaceInv
  <2> QED
    BY <1>2, <1>6, <1>11, <2>4, <2>5 DEF TickPods
<1>12. CASE PodTick
  <2>1. /\ IsSim(sim') /\ sim.pc = "pods" /\ sim.todo # {}
        /\ sim'.wl = sim.wl /\ sim'.pods = sim.pods /\ sim'.plan = sim.plan /\ sim'.born = sim.born
        /\ sim'.rule = rule /\ sim'.todo = sim.todo /\ UNCHANGED pods
        /\ sim'.pc \in {"report", "patch"} /\ (sim'.pc = "report" => rule # None)
    BY <1>12, PodTickMoves
  <2>2. SimOK'
    BY <2>1 DEF TypeOK, SimOK
  <2>3. PlaceInv'
    BY <1>2, <2>1 DEF PlaceInv
  <2> QED
    BY <1>2, <1>6, <1>12, <2>2, <2>3 DEF PodTick
<1>13. CASE podFault
  <2>1. /\ IsSim(sim') /\ sim.pc = "report" /\ sim'.pc = "patch"
        /\ sim'.wl = sim.wl /\ sim'.pods = sim.pods /\ sim'.plan = sim.plan /\ sim'.born = sim.born
        /\ sim'.rule = sim.rule /\ sim'.todo = sim.todo /\ UNCHANGED pods
        /\ reported' = IF rule = sim.rule THEN reported \cup {<<rule.id, Least(sim.todo)>>}
                       ELSE reported
    BY <1>13, PodFaultMoves
  <2>2. Least(sim.todo) \in Name
    BY <2>1, LeastIsOneOf DEF PlaceInv, TypeOK, SimOK
  <2>3. SimOK'
    BY <2>1 DEF TypeOK, SimOK
  <2>4. PlaceInv'
    BY <1>2, <2>1 DEF PlaceInv
  <2>5. reported' \subseteq Nat \X Name
    <3>1. CASE rule = sim.rule
      <4>1. rule \in [id : Nat, rule : Rules]
        BY <2>1, <3>1 DEF PlaceInv, TypeOK, SimOK
      <4> QED
        BY <2>1, <2>2, <3>1, <4>1 DEF TypeOK
    <3>2. CASE rule # sim.rule
      BY <2>1, <3>2 DEF TypeOK
    <3> QED
      BY <3>1, <3>2
  <2> QED
    BY <1>2, <1>5, <1>13, <2>3, <2>4, <2>5 DEF podFault, TypeOK
<1>14. CASE tickWorkloadStatus
  <2>1. /\ IsSim(sim') /\ sim.pc = "pods" /\ sim.todo = {}
        /\ sim'.pc = IF wl.simulated THEN "status" ELSE "write"
        /\ sim'.wl = wl /\ sim'.pods = <<>> /\ sim'.plan = sim.plan /\ sim'.born = sim.born
        /\ sim'.todo = sim.todo /\ sim'.rule = sim.rule
    BY <1>14, StatusListMoves
  <2>2. SimOK'
    BY <2>1, NoPods DEF TypeOK, SimOK
  <2>3. sim.born = {}
    BY <2>1 DEF PlaceInv
  <2>4. PlaceInv'
    BY <1>2, <2>1, <2>3 DEF PlaceInv
  <2> QED
    BY <1>2, <1>6, <1>14, <2>2, <2>4 DEF tickWorkloadStatus
<1>15. CASE updateStatus
  <2>1. /\ IsSim(sim') /\ sim.pc = "write" /\ sim'.pc = "pvcs"
        /\ sim'.wl = None /\ sim'.pods = <<>> /\ sim'.plan = sim.plan /\ sim'.born = sim.born
        /\ sim'.todo = sim.todo /\ sim'.rule = sim.rule
    BY <1>15, UpdateStatusMoves
  <2>2. SimOK'
    BY <2>1, NoPods DEF TypeOK, SimOK
  <2>3. PlaceInv'
    BY <1>2, <2>1 DEF PlaceInv
  <2>4. pods' = Shown(pods, sim.pods) /\ UNCHANGED <<claims, refused, reported>>
    BY <1>15 DEF updateStatus, Shown, Reshown
  <2>5. PodsOK(pods') /\ PodsOK(sim.pods)
    BY <2>4, PodsShown DEF TypeOK, SimOK
  <2>6. sim.wl \in Workload /\ sim.wl.kind = wl.kind
    BY <2>1 DEF PlaceInv
  <2>7. CASE IsSet(sim.wl)
    <3>1. IsSet(wl) /\ sim.wl \in StatefulSets
      BY <2>6, <2>7, WorkloadFields DEF IsSet
    <3>2. status' \in {tickStatefulSets(sim.wl), updateStatefulSetStatus(sim.wl, status, sim.pods)}
      BY <1>15, <2>7 DEF updateStatus
    <3>3. status' \in SetStatus
      BY <2>5, <3>1, <3>2, SetStatusType DEF TypeOK
    <3> QED
      BY <1>2, <1>5, <2>2, <2>3, <2>4, <2>5, <3>1, <3>3 DEF TypeOK
  <2>8. CASE ~IsSet(sim.wl)
    <3>1. ~IsSet(wl) /\ sim.wl \in Deployments
      BY <2>6, <2>8, WorkloadFields DEF IsSet
    <3>2. status' \in {tickDeployments(sim.wl), updateDeploymentStatus(sim.wl, sim.pods)}
      BY <1>15, <2>8 DEF updateStatus
    <3>3. status' \in DeploymentStatus
      BY <2>5, <3>1, <3>2, DeploymentStatusType
    <3> QED
      BY <1>2, <1>5, <2>2, <2>3, <2>4, <2>5, <3>1, <3>3 DEF TypeOK
  <2> QED
    BY <2>7, <2>8
<1>16. CASE tickPVCs \/ PVCsFail
  <2>1. PICK failed : BindClaims(failed)
    BY <1>16 DEF tickPVCs, PVCsFail
  <2>2. /\ IsSim(sim') /\ sim.pc = "pvcs" /\ sim'.pc = "idle"
        /\ sim'.wl = None /\ sim'.pods = <<>> /\ sim'.plan = <<>> /\ sim'.born = {}
        /\ sim'.todo = {} /\ sim'.rule = None
    BY <2>1, PVCsMoves
  <2>3. SimOK'
    BY <2>2, NoPods DEF SimOK
  <2>4. PlaceInv'
    BY <2>2 DEF PlaceInv
  <2>5. claims' = [o \in DOMAIN claims |-> [claims[o] EXCEPT !.bound = claims[o].bound \/ o \notin failed]]
    BY <2>1 DEF BindClaims
  <2>6. ASSUME NEW o \in DOMAIN claims
        PROVE  [claims[o] EXCEPT !.bound = claims[o].bound \/ o \notin failed] \in Claim
    <3>1. claims[o] \in Claim
      BY DEF TypeOK
    <3> DEFINE b == claims[o].bound \/ o \notin failed
    <3>2. b \in BOOLEAN
      OBVIOUS
    <3> HIDE DEF b
    <3>3. [claims[o] EXCEPT !.bound = b] \in Claim
      BY <3>1, <3>2, Zenon DEF Claim
    <3> QED
      BY <3>3 DEF b
  <2>7. DOMAIN claims' = DOMAIN claims /\ claims' \in [DOMAIN claims' -> Claim]
    BY <2>5, <2>6
  <2> QED
    BY <1>2, <1>5, <2>1, <2>3, <2>4, <2>7 DEF BindClaims, TypeOK
<1>17. CASE PodPatch \/ PodPatchFails
  <2> DEFINE n == Least(sim.todo)
  <2>1. /\ IsSim(sim') /\ sim.pc = "patch" /\ sim'.pc = "pods"
        /\ sim'.wl = sim.wl /\ sim'.pods = sim.pods /\ sim'.plan = sim.plan /\ sim'.born = sim.born
        /\ sim'.rule = None /\ sim'.todo = sim.todo \ {n}
        /\ PatchPod(n, FaultOf(n)) \/ UNCHANGED pods
    BY <1>17, PodPatchMoves
  <2> HIDE DEF n
  <2>2. PodsOK(pods')
    BY <2>1, PatchPodMoves
  <2>3. sim'.todo \subseteq Name /\ IsFiniteSet(sim'.todo) /\ sim'.todo \subseteq sim.todo
    <3>1. sim.todo \subseteq Name /\ IsFiniteSet(sim.todo)
      BY DEF TypeOK, SimOK
    <3>2. IsFiniteSet(sim.todo \ {n})
      BY <3>1, FS_RemoveElement
    <3> QED
      BY <2>1, <3>1, <3>2
  <2>4. SimOK'
    BY <2>1, <2>3 DEF TypeOK, SimOK
  <2>5. PlaceInv'
    BY <1>2, <2>1, <2>3 DEF PlaceInv
  <2>6. UNCHANGED <<claims, refused, status, reported>>
    BY <1>17 DEF PodPatch, PodPatchFails, Fails
  <2> QED
    BY <1>2, <1>5, <2>2, <2>4, <2>5, <2>6 DEF TypeOK
<1>18. CASE listStatusPods
  <2>1. /\ IsSim(sim') /\ sim.pc = "status" /\ sim'.pc = "write"
        /\ sim'.wl = sim.wl /\ sim'.pods = pods /\ sim'.plan = sim.plan /\ sim'.born = sim.born
        /\ sim'.todo = sim.todo /\ sim'.rule = sim.rule
    BY <1>18, StatusPodsMoves
  <2>2. SimOK'
    BY <2>1 DEF TypeOK, SimOK
  <2>3. PlaceInv'
    BY <1>2, <2>1 DEF PlaceInv
  <2> QED
    BY <1>2, <1>6, <1>18, <2>2, <2>3 DEF listStatusPods
<1>19. CASE WorkloadPodsFail
  <2>1. /\ IsSim(sim') /\ sim.pc \in {"idle", "listPods", "claims"} /\ sim'.pc = "act"
        /\ sim'.wl = sim.wl /\ sim'.born = sim.born /\ sim'.todo = sim.todo /\ sim'.rule = sim.rule
        /\ sim'.pods = <<>> /\ sim'.plan = sim.plan
    BY <1>19, PodsHalfFails
  <2>2. SimOK'
    BY <2>1, NoPods DEF TypeOK, SimOK
  <2>3. PlaceInv'
    BY <1>2, <2>1 DEF PlaceInv
  <2> QED
    BY <1>2, <1>6, <1>19, <2>2, <2>3 DEF WorkloadPodsFail, Fails
<1>20. CASE TickPodsFails
  <2>1. /\ IsSim(sim') /\ sim.pc = "act" /\ sim'.pc = "pods" /\ sim.plan = <<>>
        /\ sim'.wl = None /\ sim'.pods = sim.pods /\ sim'.plan = sim.plan /\ sim'.born = {}
        /\ sim'.todo = sim.todo /\ sim'.rule = sim.rule
    BY <1>20, FailedTickMoves
  <2>2. SimOK'
    BY <2>1 DEF TypeOK, SimOK
  <2>3. PlaceInv'
    BY <1>2, <2>1 DEF PlaceInv
  <2> QED
    BY <1>2, <1>6, <1>20, <2>2, <2>3 DEF TickPodsFails, Fails
<1>21. CASE WorkloadStatusFails
  <2>1. /\ IsSim(sim') /\ sim.pc \in {"pods", "status", "write"} /\ sim.todo = {}
        /\ sim'.pc = "pvcs" /\ pods' = Skipped(pods)
        /\ sim'.wl = None /\ sim'.pods = <<>> /\ sim'.plan = sim.plan /\ sim'.born = sim.born
        /\ sim'.todo = sim.todo /\ sim'.rule = sim.rule
    BY <1>21, StatusFailsMoves
  <2>2. SimOK'
    BY <2>1, NoPods DEF TypeOK, SimOK
  <2>3. PlaceInv'
    BY <1>2, <2>1 DEF PlaceInv
  <2>4. PodsOK(pods')
    BY <2>1, PodsSkipped
  <2> QED
    BY <1>2, <1>5, <1>21, <2>2, <2>3, <2>4 DEF WorkloadStatusFails, Fails, TypeOK
<1> QED
  BY <1>2, <1>7, <1>8, <1>9, <1>10, <1>11, <1>12, <1>13, <1>14, <1>15, <1>16, <1>17, <1>18, <1>19,
     <1>20, <1>21 DEF Sweep, CallFails

------------------------------------------------------------------------------
(* The types of the whole. *)

LEMMA StepType ==
  ASSUME TypeOK, PlaceInv, [Next]_vars
  PROVE  TypeOK' /\ PlaceInv'
<1>1. CASE Sweep \/ CallFails
  BY <1>1, SweepType
<1>2. CASE Others
  <2>1. TypeOK' /\ UNCHANGED sim /\ wl'.kind = wl.kind /\ wl'.simulated = wl.simulated
    BY <1>2, OthersType
  <2> QED
    BY <2>1 DEF PlaceInv
<1>3. CASE UNCHANGED vars
  <2>1. TypeOK'
    <3>1. disturbed' \in BOOLEAN
      BY <1>3, Zenon DEF vars, TypeOK
    <3>2. SimOK' /\ PodsOK(pods') /\ (IsSet(wl') <=> IsSet(wl))
      BY <1>3 DEF vars, TypeOK, SimOK, IsSim, PodsOK
    <3> QED
      BY <1>3, <3>1, <3>2 DEF vars, TypeOK
  <2>2. PlaceInv'
    BY <1>3 DEF vars, PlaceInv
  <2> QED
    BY <2>1, <2>2
<1> QED
  BY <1>1, <1>2, <1>3 DEF Next

(* Every variable has its type, and the sweep acts only on what it listed: *)
(* the calls it plans are on proper pod names, the pods it still has to do *)
(* are among those it listed, and what it listed is of the kind there is   *)
(* (sweep and all it calls, against every edit of the others).             *)
THEOREM TypeCorrect == Spec => []TypeOK
<1>1. Init => TypeOK /\ PlaceInv
  BY DataInit
<1>2. TypeOK /\ PlaceInv /\ [Next]_vars => (TypeOK /\ PlaceInv)'
  BY StepType
<1> QED
  BY <1>1, <1>2, PTL DEF Spec

(* A report is made under the lock, and only if the rule is still the one  *)
(* that was evaluated: once SetPodFaults has returned, the rule it         *)
(* replaced is not reported through again (SetPodFaults, podFault).        *)
THEOREM ReportsAreCurrent == Spec => NoLateReport
<1> DEFINE Step == \A x \in reported' \ reported : rule # None /\ rule.id = x[1]
<1>1. Init => TypeOK /\ PlaceInv
  BY DataInit
<1>2. TypeOK /\ PlaceInv /\ [Next]_vars => (TypeOK /\ PlaceInv)'
  BY StepType
<1>3. TypeOK /\ PlaceInv /\ [Next]_vars => [Step]_vars
  <2> SUFFICES ASSUME TypeOK, PlaceInv, [Next]_vars PROVE Step
    OBVIOUS
  <2>1. CASE podFault
    <3>1. /\ sim.pc = "report"
          /\ reported' = IF rule = sim.rule THEN reported \cup {<<rule.id, Least(sim.todo)>>} ELSE reported
      BY <2>1 DEF podFault
    <3>2. sim.rule # None
      BY <3>1 DEF PlaceInv
    <3> QED
      BY <3>1, <3>2
  <2>2. CASE ~podFault
    <3>1. reported' \subseteq reported
      BY <2>2
         DEF Next, Sweep, sweep, tickWorkloadPods, tickClaims, ReconcileClaims, Act, TickPods, PodTick,
             PodPatch, tickWorkloadStatus, listStatusPods, updateStatus, tickPVCs, BindClaims,
             CallFails, WorkloadPodsFail, ClaimsFail, ActFails, TickPodsFails, PodPatchFails,
             WorkloadStatusFails, PVCsFail, Fails, Others, Scale, NewTemplate, DeleteWorkload,
             DeletePod, SetGate, Terminated, SetPodFaults, vars
    <3> QED
      BY <3>1
  <2> QED
    BY <2>1, <2>2
<1>4. Spec => [][Step]_vars
  BY <1>1, <1>2, <1>3, PTL DEF Spec
<1> QED
  BY <1>4 DEF NoLateReport

------------------------------------------------------------------------------
(* IntermediateIsSeen: what the order of the ticks keeps true.  Until pods *)
(* are listed for their status, a pod that no status has counted or        *)
(* skipped was born in this sweep; a pod the sweep still has to patch has  *)
(* been; and the pods that have not are among those listed for the status. *)
SeenInv ==
  /\ IntermediateIsSeen
  /\ sim.pc \in {"idle", "listPods", "claims", "act", "pvcs"} =>
       \A n \in Active(pods) : pods[n].shown # "no" \/ n \in sim.born
  /\ sim.pc \in {"pods", "report", "patch"} =>
       \A n \in sim.todo \cap DOMAIN pods : pods[n].shown # "no"
  /\ sim.pc = "write" => \A n \in Active(pods) : pods[n].shown # "no" \/ n \in Active(sim.pods)

(* With Workloads off the sweep makes no pods. *)
OffInv ==
  ~wl.simulated => /\ DOMAIN pods = {} /\ sim.plan = <<>>
                   /\ sim.pc \notin {"listPods", "claims", "status"}

(* PodHasClaim: the pods of a set are named by ordinals that have a claim  *)
(* or were refused it, the sweep creates a pod only where it has just      *)
(* tried for one, and while it looks at the claims no pod is there that it *)
(* did not list.                                                           *)
Claimed == DOMAIN claims \cup refused
ClaimInv ==
  IsSet(wl) =>
    /\ \A n \in DOMAIN pods : \E o \in Claimed : n = PodName(o)
    /\ sim.pc = "claims" => DOMAIN pods \subseteq DOMAIN sim.pods
    /\ \A i \in DOMAIN sim.plan : sim.plan[i][1] = "create" =>
         \E o \in Claimed : sim.plan[i][2] = PodName(o)

(* RollKeepsAvailability.  The status of a pod without faults. *)
AllReady == [scheduled |-> TRUE, initialized |-> TRUE, containersReady |-> TRUE, ready |-> TRUE]
GateOpen(p) == TemplateOf[p.rev].gate => p.gate

(* While the test only changes the template: no rule is in force, and a    *)
(* pod that is Ready stays one when it is patched from what was listed.    *)
QuietReady ==
  /\ rule = None /\ sim.pc # "report" /\ (sim.pc = "patch" => sim.rule = None)
  /\ \A n \in DOMAIN pods : isPodReady(pods[n]) => pods[n].st = AllReady /\ GateOpen(pods[n])
  /\ sim.pc \in {"pods", "patch"} => \A n \in sim.todo \cap DOMAIN pods :
       /\ isPodReady(pods[n]) => sim.pods[n].st = AllReady /\ GateOpen(sim.pods[n])
       /\ GateOpen(sim.pods[n]) => GateOpen(pods[n])

(* What was listed is current but for the template, and Ready pods stay.   *)
QuietListed ==
  /\ sim.pc \in {"listPods", "claims"} => Rolls(sim.wl) /\ sim.wl.replicas = wl.replicas
  /\ sim.pc = "claims" => ReadyPods(sim.pods) \subseteq ReadyPods(pods)

(* No pod of a set is one too many, and none is created.                   *)
QuietNames ==
  IsSet(wl) =>
    /\ \A n \in DOMAIN pods : n[2] < wl.replicas
    /\ sim.pc = "claims" => \A n \in DOMAIN sim.pods : n[2] < wl.replicas
    /\ \A i \in DOMAIN sim.plan : sim.plan[i][1] = "create" => sim.plan[i][2][2] < wl.replicas

(* Pods are created, a Deployment's up to the replicas it has, or one pod  *)
(* is taken away while all the replicas are Ready.                         *)
QuietPlan ==
  /\ ~IsSet(wl) => Cardinality(Active(pods)) <= wl.replicas
  /\ \/ /\ \A i \in DOMAIN sim.plan : sim.plan[i][1] = "create"
        /\ ~IsSet(wl) => Cardinality(Active(pods)) + Len(sim.plan) <= wl.replicas
     \/ /\ Len(sim.plan) = 1 /\ sim.plan[1][1] = "delete"
        /\ Cardinality(ReadyPods(pods)) >= wl.replicas

QuietInv == QuietReady /\ QuietListed /\ QuietNames /\ QuietPlan

RollInv == Rolls(wl) /\ ~disturbed => QuietInv

------------------------------------------------------------------------------
(* What the others do to the pods: they come to be deleted, they go, and   *)
(* their gates open.  A test that has only changed the template has left   *)
(* every pod in its place.                                                 *)
LEMMA OthersPods ==
  ASSUME TypeOK, Others
  PROVE  /\ DOMAIN pods' \subseteq DOMAIN pods
         /\ \A n \in DOMAIN pods' :
              /\ pods'[n].st = pods[n].st /\ pods'[n].rev = pods[n].rev
              /\ pods'[n].shown = pods[n].shown
              /\ ~pods'[n].deleting => ~pods[n].deleting
              /\ pods[n].gate => pods'[n].gate
         /\ DeletePod \/ (/\ Active(pods) \subseteq DOMAIN pods'
                          /\ \A n \in DOMAIN pods' : pods'[n].deleting = pods[n].deleting)
<1>1. PodsOK(pods)
  BY DEF TypeOK
<1>2. CASE DeletePod
  <2>1. PICK n \in Active(pods) : pods' = [pods EXCEPT ![n].deleting = TRUE]
    BY <1>2 DEF DeletePod
  <2>2. pods' = WithPod(pods, n, Deleting(pods[n])) /\ n \in DOMAIN pods /\ pods[n] \in Pod
    BY <1>1, <2>1 DEF WithPod, Deleting, Active, PodsOK
  <2>3. /\ DOMAIN pods' = DOMAIN pods
        /\ \A m \in DOMAIN pods : m # n => pods'[m] = pods[m]
        /\ pods'[n].rev = pods[n].rev /\ pods'[n].st = pods[n].st /\ pods'[n].gate = pods[n].gate
        /\ pods'[n].shown = pods[n].shown /\ pods'[n].deleting = TRUE
    BY <1>1, <2>2, PodMarked
  <2> QED
    BY <1>2, <2>3
<1>3. CASE SetGate
  <2>1. PICK n \in DOMAIN pods : pods' = [pods EXCEPT ![n].gate = TRUE]
    BY <1>3 DEF SetGate
  <2>2. pods' = WithPod(pods, n, Gated(pods[n])) /\ pods[n] \in Pod
    BY <1>1, <2>1 DEF WithPod, Gated, PodsOK
  <2>3. /\ DOMAIN pods' = DOMAIN pods
        /\ \A m \in DOMAIN pods : m # n => pods'[m] = pods[m]
        /\ pods'[n].rev = pods[n].rev /\ pods'[n].st = pods[n].st /\ pods'[n].gate = TRUE
        /\ pods'[n].shown = pods[n].shown /\ pods'[n].deleting = pods[n].deleting
    BY <1>1, <2>2, PodOpened
  <2> QED
    BY <2>3 DEF Active
<1>4. CASE Terminated
  <2>1. PICK n \in DOMAIN pods \ Active(pods) : pods' = [m \in DOMAIN pods \ {n} |-> pods[m]]
    BY <1>4 DEF Terminated
  <2>2. pods' = LessPod(pods, n) /\ n \in DOMAIN pods
    BY <2>1 DEF LessPod
  <2>3. DOMAIN pods' = DOMAIN pods \ {n} /\ \A m \in DOMAIN pods' : pods'[m] = pods[m]
    BY <2>2 DEF LessPod
  <2> QED
    BY <2>1, <2>3 DEF Active
<1>5. CASE Scale \/ NewTemplate \/ DeleteWorkload \/ SetPodFaults
  <2>1. UNCHANGED pods
    BY <1>5 DEF Scale, NewTemplate, DeleteWorkload, SetPodFaults
  <2> QED
    BY <2>1 DEF Active
<1> QED
  BY <1>2, <1>3, <1>4, <1>5 DEF Others

(* What the steps of the sweep, and the calls of it that fail, do to the   *)
(* plan and to the names in use, but for the calls on pods themselves.     *)
LEMMA NoPodMade ==
  ASSUME IsSim(sim), PodsOK(pods), Sweep \/ CallFails, ~Act, ~ActFails
  PROVE  /\ DOMAIN pods' = DOMAIN pods
         /\ tickWorkloadPods \/ tickClaims \/ ClaimsFail \/ sim'.plan = sim.plan \/ sim'.plan = <<>>
         /\ sim'.pc = "claims" => tickWorkloadPods
         /\ sim'.pc = "listPods" => sweep
         /\ sim'.pc = "status" => tickWorkloadStatus
<1>1. CASE sweep
  BY <1>1, SweepMoves DEF sweep
<1>2. CASE tickWorkloadPods
  BY <1>2, ListMoves DEF tickWorkloadPods
<1>3. CASE tickClaims \/ ClaimsFail
  <2>1. PICK failed : ReconcileClaims(failed)
    BY <1>3 DEF tickClaims, ClaimsFail
  <2>2. UNCHANGED pods
    BY <2>1 DEF ReconcileClaims
  <2> QED
    BY <1>3, <2>1, <2>2, ClaimsMoves
<1>4. CASE TickPods
  BY <1>4, TickPodsMoves DEF TickPods
<1>5. CASE PodTick \/ podFault
  BY <1>5, PodTickMoves, PodFaultMoves
<1>6. CASE PodPatch \/ PodPatchFails
  <2> DEFINE n == Least(sim.todo)
  <2>1. sim'.pc = "pods" /\ sim'.plan = sim.plan /\ (PatchPod(n, FaultOf(n)) \/ UNCHANGED pods)
    BY <1>6, PodPatchMoves
  <2> HIDE DEF n
  <2> QED
    BY <2>1, PatchPodMoves
<1>7. CASE tickWorkloadStatus
  BY <1>7, StatusListMoves DEF tickWorkloadStatus
<1>8. CASE listStatusPods
  BY <1>8, StatusPodsMoves DEF listStatusPods
<1>9. CASE updateStatus
  BY <1>9, UpdateStatusMoves DEF updateStatus
<1>10. CASE tickPVCs \/ PVCsFail
  <2>1. PICK failed : BindClaims(failed)
    BY <1>10 DEF tickPVCs, PVCsFail
  <2>2. UNCHANGED pods
    BY <2>1 DEF BindClaims
  <2> QED
    BY <2>1, <2>2, PVCsMoves
<1>11. CASE WorkloadPodsFail
  BY <1>11, PodsHalfFails DEF WorkloadPodsFail
<1>12. CASE TickPodsFails
  BY <1>12, FailedTickMoves DEF TickPodsFails
<1>13. CASE WorkloadStatusFails
  BY <1>13, StatusFailsMoves DEF Skipped
<1> QED
  BY <1>1, <1>2, <1>3, <1>4, <1>5, <1>6, <1>7, <1>8, <1>9, <1>10, <1>11, <1>12, <1>13 DEF Sweep, CallFails

LEMMA OffInductive ==
  ASSUME TypeOK, PlaceInv, OffInv, [Next]_vars
  PROVE  OffInv'
<1>1. IsSim(sim) /\ PodsOK(pods) /\ wl \in Workload
  BY DEF TypeOK, SimOK
<1>2. CASE Others
  <2>1. UNCHANGED sim /\ wl'.simulated = wl.simulated
    BY <1>2, OthersType
  <2>2. DOMAIN pods' \subseteq DOMAIN pods
    BY <1>2, OthersPods
  <2> QED
    BY <2>1, <2>2 DEF OffInv
<1>3. CASE UNCHANGED vars
  BY <1>3 DEF vars, OffInv
<1>4. CASE Sweep \/ CallFails
  <2>1. UNCHANGED wl
    BY <1>4, SweepLeaves
  <2> SUFFICES ASSUME ~wl.simulated
               PROVE  /\ DOMAIN pods' = {} /\ sim'.plan = <<>>
                      /\ sim'.pc \notin {"listPods", "claims", "status"}
    BY <2>1 DEF OffInv
  <2>2. DOMAIN pods = {} /\ sim.plan = <<>> /\ sim.pc \notin {"listPods", "claims", "status"}
    BY DEF OffInv
  <2>3. ~Act /\ ~ActFails /\ ~tickWorkloadPods /\ ~tickClaims /\ ~ClaimsFail
    BY <2>2 DEF Act, ActFails, tickWorkloadPods, tickClaims, ReconcileClaims, ClaimsFail
  <2>4. sim'.pc = "listPods" => FALSE
    BY <1>1, <1>4, <2>3, NoPodMade, SweepMoves
  <2>5. sim'.pc = "status" => FALSE
    BY <1>1, <1>4, <2>3, NoPodMade, StatusListMoves
  <2> QED
    BY <1>1, <1>4, <2>2, <2>3, <2>4, <2>5, NoPodMade
<1> QED
  BY <1>2, <1>3, <1>4 DEF Next

LEMMA SeenInductive ==
  ASSUME TypeOK, PlaceInv, OffInv, SeenInv, [Next]_vars
  PROVE  SeenInv'
<1>1. IsSim(sim) /\ PodsOK(pods) /\ wl \in Workload
  BY DEF TypeOK, SimOK
<1> USE <1>1
<1>2. CASE Others
  <2>1. UNCHANGED sim
    BY <1>2, OthersType
  <2>2. /\ DOMAIN pods' \subseteq DOMAIN pods
        /\ \A n \in DOMAIN pods' :
              /\ pods'[n].st = pods[n].st /\ pods'[n].shown = pods[n].shown
              /\ ~pods'[n].deleting => ~pods[n].deleting
    BY <1>2, OthersPods
  <2>3. IntermediateIsSeen'
    BY <2>2 DEF SeenInv, IntermediateIsSeen, isPodReady
  <2>4. \A n \in Active(pods)' : n \in Active(pods) /\ pods'[n].shown = pods[n].shown
    BY <2>2 DEF Active
  <2> QED
    BY <2>1, <2>2, <2>3, <2>4 DEF SeenInv
<1>3. ASSUME UNCHANGED pods
      PROVE  Active(pods)' = Active(pods) /\ (IntermediateIsSeen' <=> IntermediateIsSeen)
  BY <1>3 DEF Active, IntermediateIsSeen
<1>4. CASE UNCHANGED vars
  BY <1>3, <1>4 DEF vars, SeenInv
<1>5. CASE sweep
  <2>1. UNCHANGED pods
    BY <1>5 DEF sweep
  <2>2. sim.pc = "idle" /\ sim'.pc \in {"listPods", "act"} /\ sim'.born = sim.born
    BY <1>5, SweepMoves
  <2> QED
    BY <1>3, <2>1, <2>2 DEF SeenInv
<1>6. CASE tickWorkloadPods
  <2>1. UNCHANGED pods
    BY <1>6 DEF tickWorkloadPods
  <2>2. sim.pc = "listPods" /\ sim'.pc \in {"claims", "act"} /\ sim'.born = sim.born
    BY <1>6, ListMoves
  <2> QED
    BY <1>3, <2>1, <2>2 DEF SeenInv
<1>7. CASE tickClaims \/ ClaimsFail
  <2>1. PICK failed : ReconcileClaims(failed)
    BY <1>7 DEF tickClaims, ClaimsFail
  <2>2. UNCHANGED pods
    BY <2>1 DEF ReconcileClaims
  <2>3. sim.pc = "claims" /\ sim'.pc = "act" /\ sim'.born = sim.born
    BY <2>1, ClaimsMoves
  <2> QED
    BY <1>3, <2>2, <2>3 DEF SeenInv
<1>8. CASE Act \/ ActFails
  <2> DEFINE podCall == Head(sim.plan)
  <2>1. /\ sim.pc = "act" /\ sim'.pc = "act" /\ sim.plan # <<>>
        /\ \/ UNCHANGED pods /\ sim'.born = sim.born
           \/ /\ podCall[1] = "create" /\ podCall[2] \notin DOMAIN pods
              /\ pods' = PlusPod(pods, podCall[2], NewPod)
              /\ sim'.born = sim.born \cup {podCall[2]}
           \/ /\ podCall[1] = "delete" /\ podCall[2] \in DOMAIN pods
              /\ pods' = WithPod(pods, podCall[2], Deleting(pods[podCall[2]]))
              /\ sim'.born = sim.born
           \/ /\ podCall[1] = "create" /\ podCall[2] \notin DOMAIN pods
              /\ pods' = PlusPod(pods, podCall[2], Unseen) /\ sim'.born = sim.born
    <3> HIDE DEF podCall
    <3>1. podCall = Head(sim.plan)
      BY DEF podCall
    <3> QED
      BY <1>8, <3>1, ActMoves, FailedActMoves
  <2>2. podCall \in PodCalls
    BY <2>1 DEF TypeOK, SimOK
  <2>3. podCall[2] \in Name
    BY <2>2 DEF PodCalls
  <2>4. /\ NewPod \in Pod /\ NewPod.st = None
        /\ Unseen \in Pod /\ Unseen.st = None /\ Unseen.shown # "no"
    <3>1. sim.wl \in Workload
      BY <2>1 DEF PlaceInv
    <3> QED
      BY <3>1, NewPodType
  <2> HIDE DEF podCall
  <2>5. CASE UNCHANGED pods /\ sim'.born = sim.born
    BY <1>3, <2>1, <2>5 DEF SeenInv
  <2>6. CASE /\ podCall[2] \notin DOMAIN pods /\ pods' = PlusPod(pods, podCall[2], NewPod)
             /\ sim'.born = sim.born \cup {podCall[2]}
    <3>1. /\ DOMAIN pods' = DOMAIN pods \cup {podCall[2]}
          /\ \A m \in DOMAIN pods : pods'[m] = pods[m]
          /\ pods'[podCall[2]] = NewPod
      <4>1. NewPod \in Pod /\ podCall[2] \in Name /\ PodsOK(pods)
        BY <2>3, <2>4
      <4>2. podCall[2] \notin DOMAIN pods /\ pods' = PlusPod(pods, podCall[2], NewPod)
        BY <2>6
      <4> QED
        BY ONLY <4>1, <4>2, PodCreated
    <3>2. IntermediateIsSeen'
      BY <2>4, <3>1 DEF SeenInv, IntermediateIsSeen, isPodReady
    <3>3. \A n \in Active(pods)' : pods'[n].shown # "no" \/ n \in sim'.born
      BY <2>1, <2>6, <3>1 DEF SeenInv, Active
    <3> QED
      BY <2>1, <3>2, <3>3 DEF SeenInv
  <2>7. CASE /\ podCall[2] \in DOMAIN pods /\ pods' = WithPod(pods, podCall[2], Deleting(pods[podCall[2]]))
             /\ sim'.born = sim.born
    <3>1. /\ DOMAIN pods' = DOMAIN pods
          /\ \A m \in DOMAIN pods : m # podCall[2] => pods'[m] = pods[m]
          /\ pods'[podCall[2]].st = pods[podCall[2]].st /\ pods'[podCall[2]].deleting = TRUE
          /\ pods'[podCall[2]].shown = pods[podCall[2]].shown
      BY <2>7, PodMarked
    <3>2. IntermediateIsSeen'
      BY <3>1 DEF SeenInv, IntermediateIsSeen, isPodReady
    <3>3. \A n \in Active(pods)' : pods'[n].shown # "no" \/ n \in sim'.born
      BY <2>1, <2>7, <3>1 DEF SeenInv, Active
    <3> QED
      BY <2>1, <3>2, <3>3 DEF SeenInv
  <2>8. CASE /\ podCall[2] \notin DOMAIN pods /\ pods' = PlusPod(pods, podCall[2], Unseen)
             /\ sim'.born = sim.born
    <3>1. /\ DOMAIN pods' = DOMAIN pods \cup {podCall[2]}
          /\ \A m \in DOMAIN pods : pods'[m] = pods[m]
          /\ pods'[podCall[2]] = Unseen
      BY <2>3, <2>4, <2>8, PodCreated
    <3>2. IntermediateIsSeen'
      BY <2>4, <3>1 DEF SeenInv, IntermediateIsSeen, isPodReady
    <3>3. \A n \in Active(pods)' : pods'[n].shown # "no" \/ n \in sim'.born
      BY <2>1, <2>4, <2>8, <3>1 DEF SeenInv, Active
    <3> QED
      BY <2>1, <3>2, <3>3 DEF SeenInv
  <2> QED
    BY <2>1, <2>5, <2>6, <2>7, <2>8
<1>9. CASE TickPods
  <2>1. UNCHANGED pods
    BY <1>9 DEF TickPods
  <2>2. sim.pc = "act" /\ sim'.pc = "pods" /\ sim'.todo = Active(pods) \ sim.born
    BY <1>9, TickPodsMoves
  <2> QED
    BY <1>3, <2>1, <2>2 DEF SeenInv
<1>10. CASE PodTick \/ podFault
  <2>1. /\ UNCHANGED pods /\ sim'.todo = sim.todo
        /\ sim.pc \in {"pods", "report"} /\ sim'.pc \in {"report", "patch"}
    BY <1>10, PodTickMoves, PodFaultMoves
  <2> QED
    BY <1>3, <2>1 DEF SeenInv
<1>11. CASE PodPatch \/ PodPatchFails
  <2> DEFINE n == Least(sim.todo)
  <2>1. /\ sim.pc = "patch" /\ sim'.pc = "pods" /\ sim'.todo = sim.todo \ {n}
        /\ PatchPod(n, FaultOf(n)) \/ UNCHANGED pods
    BY <1>11, PodPatchMoves
  <2>2. n \in sim.todo
    BY <2>1, LeastIsOneOf DEF PlaceInv, TypeOK, SimOK
  <2> HIDE DEF n
  <2>3. /\ DOMAIN pods' = DOMAIN pods
        /\ \A m \in DOMAIN pods : (m # n => pods'[m] = pods[m]) /\ pods'[m].shown = pods[m].shown
    BY <2>1, PatchPodMoves
  <2>4. n \in DOMAIN pods => pods[n].shown # "no"
    BY <2>1, <2>2 DEF SeenInv
  <2>5. IntermediateIsSeen'
    BY <2>3, <2>4 DEF SeenInv, IntermediateIsSeen, isPodReady
  <2> QED
    BY <2>1, <2>3, <2>5 DEF SeenInv
<1>12. CASE tickWorkloadStatus
  <2>1. UNCHANGED <<wl, pods>>
    BY <1>12 DEF tickWorkloadStatus
  <2>2. sim'.pc = IF wl.simulated THEN "status" ELSE "write"
    BY <1>12, StatusListMoves
  <2>3. ~wl.simulated => Active(pods) = {}
    BY DEF OffInv, Active
  <2> QED
    BY <1>3, <2>1, <2>2, <2>3 DEF SeenInv
<1>13. CASE listStatusPods
  <2>1. UNCHANGED pods
    BY <1>13 DEF listStatusPods
  <2>2. sim'.pc = "write" /\ sim'.pods = pods
    BY <1>13, StatusPodsMoves
  <2>3. Active(sim.pods)' = Active(pods)
    BY <2>2 DEF Active
  <2> QED
    BY <1>3, <2>1, <2>2, <2>3 DEF SeenInv
<1>14. CASE updateStatus
  <2>1. pods' = Shown(pods, sim.pods)
    BY <1>14 DEF updateStatus, Shown, Reshown
  <2>2. /\ DOMAIN pods' = DOMAIN pods
        /\ \A n \in DOMAIN pods :
             /\ n \in Active(sim.pods) \/ pods[n].shown # "no" => pods'[n].shown # "no"
             /\ pods'[n].st = pods[n].st /\ pods'[n].deleting = pods[n].deleting
    BY <2>1, PodsShown
  <2>3. sim.pc = "write" /\ sim'.pc = "pvcs"
    BY <1>14, UpdateStatusMoves
  <2>4. IntermediateIsSeen'
    BY <2>2 DEF SeenInv, IntermediateIsSeen, isPodReady
  <2>5. Active(pods)' = Active(pods)
    BY <2>2 DEF Active
  <2>6. \A n \in Active(pods) : n \in DOMAIN pods /\ (pods[n].shown # "no" \/ n \in Active(sim.pods))
    BY <2>3 DEF SeenInv, Active
  <2>7. \A n \in Active(pods)' : pods'[n].shown # "no"
    BY <2>2, <2>5, <2>6
  <2> QED
    BY <2>3, <2>4, <2>7 DEF SeenInv
<1>15. CASE WorkloadStatusFails
  <2>1. pods' = Skipped(pods) /\ sim'.pc = "pvcs"
    BY <1>15, StatusFailsMoves
  <2>2. DOMAIN pods' = DOMAIN pods /\ \A n \in DOMAIN pods : pods'[n].shown # "no"
    BY <2>1, PodsSkipped
  <2> QED
    BY <2>1, <2>2 DEF SeenInv, IntermediateIsSeen, Active
<1>16. CASE tickPVCs \/ PVCsFail
  <2>1. PICK failed : BindClaims(failed)
    BY <1>16 DEF tickPVCs, PVCsFail
  <2>2. UNCHANGED pods
    BY <2>1 DEF BindClaims
  <2>3. sim.pc = "pvcs" /\ sim'.pc = "idle"
    BY <2>1, PVCsMoves
  <2>4. sim.born = {}
    BY <2>3 DEF PlaceInv
  <2> QED
    BY <1>3, <2>2, <2>3, <2>4 DEF SeenInv
<1>17. CASE WorkloadPodsFail
  <2>1. UNCHANGED pods
    BY <1>17 DEF WorkloadPodsFail
  <2>2. sim.pc \in {"idle", "listPods", "claims"} /\ sim'.pc = "act" /\ sim'.born = sim.born
    BY <1>17, PodsHalfFails
  <2> QED
    BY <1>3, <2>1, <2>2 DEF SeenInv
<1>18. CASE TickPodsFails
  <2>1. UNCHANGED pods
    BY <1>18 DEF TickPodsFails
  <2>2. sim.pc = "act" /\ sim'.pc = "pods" /\ sim'.todo = sim.todo
    BY <1>18, FailedTickMoves
  <2>3. sim.todo = {}
    BY <2>2 DEF PlaceInv
  <2> QED
    BY <1>3, <2>1, <2>2, <2>3 DEF SeenInv
<1> QED
  BY <1>2, <1>4, <1>5, <1>6, <1>7, <1>8, <1>9, <1>10, <1>11, <1>12, <1>13, <1>14, <1>15, <1>16, <1>17,
     <1>18 DEF Next, Sweep, CallFails

(* The state in which a pod is not yet Ready is published before it is: no *)
(* sweep makes a pod Ready that no status of the workload has counted,     *)
(* however pods are deleted, replaced under the same name or listed late   *)
(* and whichever Lists, Creates, Deletes and Patches fail, unless the      *)
(* status write of a sweep the pod was there for was lost to a failure, or *)
(* the pod's own Create was answered by one (the sweep doc, born, the      *)
(* order of the ticks, the early returns of tickStatefulSetStatus and      *)
(* tickDeploymentStatus).                                                  *)
THEOREM IntermediateSeen == Spec => []IntermediateIsSeen
<1> DEFINE Inv == TypeOK /\ PlaceInv /\ OffInv /\ SeenInv
<1>1. Init => Inv
  <2> SUFFICES ASSUME Init PROVE Inv
    OBVIOUS
  <2>1. TypeOK /\ PlaceInv
    BY DataInit
  <2>2. DOMAIN pods = {} /\ sim.pc = "idle" /\ sim.plan = <<>>
    BY DEF Init, Idle
  <2>3. SeenInv /\ OffInv
    BY <2>2 DEF SeenInv, OffInv, IntermediateIsSeen, Active
  <2> QED
    BY <2>1, <2>3
<1>2. Inv /\ [Next]_vars => Inv'
  BY StepType, OffInductive, SeenInductive
<1>3. Inv => IntermediateIsSeen
  BY DEF SeenInv
<1> QED
  BY <1>1, <1>2, <1>3, PTL DEF Spec
------------------------------------------------------------------------------
LEMMA ClaimInductive ==
  ASSUME TypeOK, PlaceInv, ClaimInv, [Next]_vars
  PROVE  ClaimInv'
<1>1. IsSim(sim) /\ PodsOK(pods) /\ PodsOK(sim.pods) /\ sim.plan \in Seq(PodCalls)
  BY DEF TypeOK, SimOK
<1>2. IsSet(wl') <=> IsSet(wl)
  <2>1. CASE Others
    BY <2>1, OthersType DEF IsSet
  <2>2. CASE Sweep \/ CallFails
    BY <2>2, SweepType
  <2> QED
    BY <2>1, <2>2 DEF Next, vars
<1> SUFFICES ASSUME IsSet(wl)
             PROVE  /\ \A n \in DOMAIN pods' : \E o \in Claimed' : n = PodName(o)
                    /\ sim'.pc = "claims" => DOMAIN pods' \subseteq DOMAIN sim'.pods
                    /\ \A i \in DOMAIN sim'.plan : sim'.plan[i][1] = "create" =>
                         \E o \in Claimed' : sim'.plan[i][2] = PodName(o)
  BY <1>2 DEF ClaimInv
<1>3. /\ \A n \in DOMAIN pods : \E o \in Claimed : n = PodName(o)
      /\ sim.pc = "claims" => DOMAIN pods \subseteq DOMAIN sim.pods
      /\ \A i \in DOMAIN sim.plan : sim.plan[i][1] = "create" =>
           \E o \in Claimed : sim.plan[i][2] = PodName(o)
  BY DEF ClaimInv
(* The steps that leave the plan and the claims, and add no pod. *)
<1>4. ASSUME DOMAIN pods' \subseteq DOMAIN pods, Claimed' = Claimed,
             sim'.plan = sim.plan,
             sim'.pc = "claims" => sim.pc = "claims" /\ sim'.pods = sim.pods
      PROVE  /\ \A n \in DOMAIN pods' : \E o \in Claimed' : n = PodName(o)
             /\ sim'.pc = "claims" => DOMAIN pods' \subseteq DOMAIN sim'.pods
             /\ \A i \in DOMAIN sim'.plan : sim'.plan[i][1] = "create" =>
                  \E o \in Claimed' : sim'.plan[i][2] = PodName(o)
  BY <1>3, <1>4
<1>5. CASE Others
  <2>1. UNCHANGED sim
    BY <1>5, OthersType
  <2>2. Claimed' = Claimed
    BY <1>5 DEF Claimed, Others, Scale, NewTemplate, DeleteWorkload, DeletePod, SetGate, Terminated,
       SetPodFaults
  <2>3. DOMAIN pods' \subseteq DOMAIN pods
    BY <1>5, OthersPods
  <2> QED
    BY <1>4, <2>1, <2>2, <2>3
<1>6. CASE UNCHANGED vars
  BY <1>4, <1>6 DEF vars, Claimed
<1>7. CASE (Sweep \/ CallFails) /\ ~(Act \/ ActFails \/ tickWorkloadPods \/ tickClaims \/ ClaimsFail)
  <2>1. Claimed' = Claimed
    BY <1>7 DEF Sweep, sweep, TickPods, PodTick, podFault, PodPatch, tickWorkloadStatus, listStatusPods,
       updateStatus, tickPVCs, BindClaims, CallFails, WorkloadPodsFail, TickPodsFails, PodPatchFails,
       WorkloadStatusFails, PVCsFail, Claimed
  <2>2. /\ DOMAIN pods' = DOMAIN pods /\ sim'.pc # "claims"
        /\ sim'.plan = sim.plan \/ sim'.plan = <<>>
    BY <1>1, <1>7, NoPodMade
  <2>3. CASE sim'.plan = sim.plan
    BY <1>4, <2>1, <2>2, <2>3
  <2>4. CASE sim'.plan = <<>>
    BY <1>3, <2>1, <2>2, <2>4
  <2> QED
    BY <2>2, <2>3, <2>4
<1>8. CASE tickWorkloadPods
  <2>1. UNCHANGED pods /\ Claimed' = Claimed
    BY <1>8 DEF tickWorkloadPods, Claimed
  <2>2. IsSet(sim.wl)
    BY <1>8 DEF tickWorkloadPods, PlaceInv, IsSet
  <2>3. sim'.plan = sim.plan /\ (sim'.pc = "claims" => sim'.pods = pods)
    BY <1>1, <1>8, <2>2, ListMoves
  <2> QED
    BY <1>3, <2>1, <2>3
<1>9. CASE tickClaims \/ ClaimsFail
  <2>0. PICK failed : ReconcileClaims(failed)
    BY <1>9 DEF tickClaims, ClaimsFail
  <2>1. /\ UNCHANGED pods /\ claims' = reconcileStatefulSetClaims(sim.wl, sim.pods, claims, failed)
        /\ Claimed' = DOMAIN claims' \cup refused \cup failed
    BY <2>0 DEF ReconcileClaims, Claimed
  <2>2. sim.pc = "claims" /\ sim'.pc = "act" /\ sim'.plan = reconcileStatefulSetPods(sim.wl, sim.pods)
    BY <1>1, <2>0, ClaimsMoves
  <2>3. sim.wl \in StatefulSets
    BY <2>2, WorkloadFields DEF PlaceInv
  <2>4. claims \in [DOMAIN claims -> Claim] /\ DOMAIN claims \subseteq Nat
    BY DEF TypeOK
  <2>5. /\ 0 .. sim.wl.replicas - 1 \subseteq DOMAIN claims' \cup failed
        /\ \A o \in DOMAIN claims : PodName(o) \in DOMAIN sim.pods => o \in DOMAIN claims'
    BY <2>1, <2>3, <2>4, ClaimsType
  <2>6. \A i \in DOMAIN sim'.plan : sim'.plan[i][1] = "create" =>
          sim'.plan[i][2] \in Missing(sim.wl, sim.pods)
    BY <1>1, <2>2, <2>3, SetPlanType
  <2>7. \A n \in Missing(sim.wl, sim.pods) : \E o \in Claimed' : n = PodName(o)
    BY <1>1, <2>1, <2>3, <2>5, MissingType
  <2>8. \A n \in DOMAIN pods' : \E o \in Claimed' : n = PodName(o)
    <3>1. \A o \in Claimed : PodName(o) \in DOMAIN sim.pods => o \in Claimed'
      BY <2>1, <2>5 DEF Claimed
    <3> QED
      BY <1>3, <2>1, <2>2, <3>1
  <2> QED
    BY <2>2, <2>6, <2>7, <2>8
<1>10. CASE Act \/ ActFails
  <2> DEFINE podCall == Head(sim.plan)
  <2>1. /\ sim'.pc = "act" /\ sim.plan # <<>> /\ sim'.plan = Tail(sim.plan)
        /\ \/ UNCHANGED pods
           \/ podCall[1] = "create" /\ \E p : pods' = PlusPod(pods, podCall[2], p)
           \/ podCall[2] \in DOMAIN pods /\ pods' = WithPod(pods, podCall[2], Deleting(pods[podCall[2]]))
    <3> HIDE DEF podCall
    <3>1. podCall = Head(sim.plan)
      BY DEF podCall
    <3> QED
      BY <1>1, <1>10, <3>1, ActMoves, FailedActMoves
  <2>2. Claimed' = Claimed
    BY <1>10 DEF Act, ActFails, Claimed
  <2>3. 1 \in DOMAIN sim.plan /\ podCall = sim.plan[1]
    BY <1>1, <2>1
  <2>4. \A i \in DOMAIN sim'.plan : i + 1 \in DOMAIN sim.plan /\ sim'.plan[i] = sim.plan[i + 1]
    BY <1>1, <2>1
  <2> HIDE DEF podCall
  <2>5. DOMAIN pods' \subseteq DOMAIN pods
          \/ (podCall[1] = "create" /\ DOMAIN pods' = DOMAIN pods \cup {podCall[2]})
    BY <2>1 DEF PlusPod, WithPod
  <2>6. podCall[1] = "create" => \E o \in Claimed : podCall[2] = PodName(o)
    BY <1>3, <2>3
  <2>7. \A n \in DOMAIN pods' : \E o \in Claimed : n = PodName(o)
    BY <1>3, <2>5, <2>6
  <2>8. \A i \in DOMAIN sim'.plan : sim'.plan[i][1] = "create" =>
          \E o \in Claimed : sim'.plan[i][2] = PodName(o)
    BY <1>3, <2>4
  <2> QED
    BY <2>1, <2>2, <2>7, <2>8
<1> QED
  BY <1>5, <1>6, <1>7, <1>8, <1>9, <1>10 DEF Next

(* A StatefulSet's pod finds its claim, unless that claim was refused and  *)
(* has not been created since: the sweep tries for the claims before it    *)
(* creates pods, and drops a claim only when the pod was gone from what it *)
(* listed, which no one but the sweep brings back, whichever of its calls  *)
(* fail (reconcileStatefulSetClaims).                                      *)
THEOREM PodsHaveClaims == Spec => []PodHasClaim
<1> DEFINE Inv == TypeOK /\ PlaceInv /\ ClaimInv
<1>1. Init => Inv
  <2> SUFFICES ASSUME Init PROVE Inv
    OBVIOUS
  <2>1. TypeOK /\ PlaceInv
    BY DataInit
  <2>2. DOMAIN pods = {} /\ sim.pc = "idle" /\ DOMAIN sim.plan = {}
    BY DEF Init, Idle
  <2>3. ClaimInv
    BY <2>2 DEF ClaimInv
  <2> QED
    BY <2>1, <2>3
<1>2. Inv /\ [Next]_vars => Inv'
  BY StepType, ClaimInductive
<1>3. Inv => PodHasClaim
  <2> SUFFICES ASSUME ClaimInv, IsSet(wl), NEW n \in DOMAIN pods PROVE n[2] \in Claimed
    BY DEF PodHasClaim, Claimed
  <2>1. PICK o \in Claimed : n = PodName(o)
    BY DEF ClaimInv
  <2> QED
    BY <2>1 DEF PodName
<1> QED
  BY <1>1, <1>2, <1>3, PTL DEF Spec

------------------------------------------------------------------------------
(* No pod comes, and the ones that stay are as they were, but that a gate  *)
(* may have opened and a status may have counted them.                     *)
SamePods ==
  /\ DOMAIN pods' \subseteq DOMAIN pods /\ Active(pods) \subseteq DOMAIN pods'
  /\ \A n \in DOMAIN pods' :
       /\ pods'[n].st = pods[n].st /\ pods'[n].rev = pods[n].rev
       /\ pods'[n].deleting = pods[n].deleting /\ (pods[n].gate => pods'[n].gate)

LEMMA SameReady ==
  ASSUME SamePods
  PROVE  /\ Active(pods') = Active(pods) /\ ReadyPods(pods') = ReadyPods(pods)
         /\ \A n \in DOMAIN pods' : /\ isPodReady(pods'[n]) <=> isPodReady(pods[n])
                                    /\ GateOpen(pods[n]) => GateOpen(pods'[n])
<1>1. Active(pods') = Active(pods)
  BY DEF SamePods, Active
<1>2. \A n \in DOMAIN pods' : /\ isPodReady(pods'[n]) <=> isPodReady(pods[n])
                              /\ GateOpen(pods[n]) => GateOpen(pods'[n])
  BY DEF SamePods, isPodReady, GateOpen
<1>3. Active(pods) \subseteq DOMAIN pods'
  BY DEF SamePods
<1> QED
  BY <1>1, <1>2, <1>3 DEF ReadyPods

(* A step of the others that is not a disturbance. *)
LEMMA QuietOthers ==
  ASSUME TypeOK, Others, ~disturbed'
  PROVE  /\ ~disturbed /\ SamePods /\ UNCHANGED rule
         /\ (Rolls(wl') <=> Rolls(wl)) /\ wl'.replicas = wl.replicas
<1>1. ASSUME Edit(TRUE) PROVE FALSE
  BY <1>1, Zenon DEF Edit
<1>2. NewTemplate \/ SetGate \/ Terminated
  BY <1>1, Zenon DEF Others, Scale, DeleteWorkload, DeletePod, SetPodFaults
<1>3. ~disturbed
  <2>1. disturbed' = disturbed \/ Edit(FALSE)
    BY <1>2, Zenon DEF NewTemplate, SetGate, Terminated
  <2> QED
    BY <2>1, Zenon DEF Edit
<1>4. UNCHANGED rule /\ ~DeletePod
  <2>1. ~DeletePod
    BY <1>1, Zenon DEF DeletePod
  <2> QED
    BY <1>2, <2>1 DEF NewTemplate, SetGate, Terminated
<1>5. SamePods
  BY <1>4, OthersPods DEF SamePods
<1>6. (Rolls(wl') <=> Rolls(wl)) /\ wl'.replicas = wl.replicas
  <2>1. CASE NewTemplate
    <3>1. PICK r \in Revision : wl' = [wl EXCEPT !.rev = r, !.gen = @ + 1]
      BY <2>1 DEF NewTemplate
    <3>2. wl \in Workload
      BY DEF TypeOK
    <3> QED
      BY <3>1, <3>2, Retemplated
  <2>2. CASE SetGate \/ Terminated
    <3>1. wl' = wl
      BY <2>2 DEF SetGate, Terminated
    <3> QED
      BY <3>1
  <2> QED
    BY <1>2, <2>1, <2>2
<1> QED
  BY <1>3, <1>4, <1>5, <1>6

(* Without a fault a pod is Ready as soon as its gate is open. *)
LEMMA HealthyStatus ==
  ASSUME NEW p
  PROVE  /\ podStatus(p, None).ready <=> GateOpen(p)
         /\ GateOpen(p) => podStatus(p, None) = AllReady
<1> DEFINE t == TemplateOf[p.rev]
           inits == {t.inits[i] : i \in DOMAIN t.inits}
           blocked == \E c \in inits : Holds(None, c)
           allReady == /\ \A c \in inits : c.sidecar => Health(None, c.name) = "healthy"
                       /\ \A c \in t.mains : Health(None, c) = "healthy"
           containersReady == allReady /\ ~blocked
           open == t.gate => p.gate
<1>1. \A c : Health(None, c) = "healthy"
  BY DEF Health
<1>2. \A c : ~Holds(None, c)
  BY <1>1 DEF Holds
<1>3. podStatus(p, None) =
        [scheduled |-> TRUE, initialized |-> ~blocked, containersReady |-> containersReady,
         ready |-> containersReady /\ open]
  BY Zenon DEF podStatus
<1>4. ~blocked /\ allReady
  BY <1>1, <1>2, Zenon
<1>5. open <=> GateOpen(p)
  BY DEF GateOpen
<1> HIDE DEF blocked, allReady, open
<1>6. podStatus(p, None).ready <=> GateOpen(p)
  <2>1. podStatus(p, None).ready = (containersReady /\ open)
    BY <1>3
  <2> QED
    BY <1>4, <1>5, <2>1, Zenon
<1>7. ASSUME GateOpen(p) PROVE podStatus(p, None) = AllReady
  BY <1>3, <1>4, <1>5, <1>7 DEF AllReady
<1> QED
  BY <1>6, <1>7

(* A step after which the test has still only changed the template began   *)
(* in a state of which that was true.                                      *)
LEMMA QuietStep ==
  ASSUME TypeOK, PlaceInv, RollInv, [Next]_vars, ~disturbed', Rolls(wl) \/ Rolls(wl')
  PROVE  /\ QuietInv /\ Rolls(wl) /\ UNCHANGED rule
         /\ wl'.replicas = wl.replicas /\ (IsSet(wl') <=> IsSet(wl))
         /\ Others => SamePods
<1>1. CASE Others
  <2>1. wl'.kind = wl.kind
    BY <1>1, OthersType
  <2>2. ~disturbed /\ SamePods /\ UNCHANGED rule
        /\ (Rolls(wl') <=> Rolls(wl)) /\ wl'.replicas = wl.replicas
    BY <1>1, QuietOthers
  <2> QED
    BY <2>1, <2>2 DEF RollInv, IsSet
<1>2. CASE (Sweep \/ CallFails) /\ ~Others
  <2>1. UNCHANGED <<wl, rule>> /\ (UNCHANGED disturbed \/ disturbed' = (disturbed \/ FALSE))
    BY <1>2, SweepLeaves
  <2>2. ~disturbed
    BY <2>1, Zenon
  <2>3. wl' = wl /\ rule' = rule
    BY <2>1
  <2> QED
    BY <1>2, <2>2, <2>3 DEF RollInv
<1>3. CASE UNCHANGED vars /\ ~Others
  BY <1>3 DEF vars, RollInv
<1> QED
  BY <1>1, <1>2, <1>3 DEF Next

(* The pods that are Ready are finitely many, and counted. *)
LEMMA ReadyCount ==
  ASSUME NEW ps, PodsOK(ps)
  PROVE  /\ IsFiniteSet(Active(ps)) /\ Cardinality(Active(ps)) \in Nat
         /\ IsFiniteSet(ReadyPods(ps)) /\ Cardinality(ReadyPods(ps)) \in Nat
<1>1. Active(ps) \in SUBSET DOMAIN ps /\ ReadyPods(ps) \in SUBSET DOMAIN ps
  BY DEF Active, ReadyPods
<1> QED
  BY <1>1, SubsetsOfPods

(* Ready pods that stay keep what a plan rests on, and a plan that is      *)
(* carried out or not there asks for nothing.                              *)
LEMMA PlanKept ==
  ASSUME PodsOK(pods), PodsOK(pods'), wl.replicas \in Nat, wl'.replicas = wl.replicas,
         IsSet(wl') <=> IsSet(wl), QuietPlan,
         Active(pods') = Active(pods), ReadyPods(pods) \subseteq ReadyPods(pods'),
         sim'.plan = sim.plan \/ sim'.plan = <<>>
  PROVE  QuietPlan'
<1>1. /\ Cardinality(Active(pods)) \in Nat
      /\ Cardinality(ReadyPods(pods)) \in Nat /\ Cardinality(ReadyPods(pods')) \in Nat
      /\ Cardinality(ReadyPods(pods)) <= Cardinality(ReadyPods(pods'))
  BY ReadyCount, FS_Subset
<1>2. CASE sim'.plan = sim.plan
  <2>1. Cardinality(ReadyPods(pods)) >= wl.replicas => Cardinality(ReadyPods(pods')) >= wl.replicas
    BY <1>1
  <2> QED
    BY <1>2, <2>1 DEF QuietPlan
<1>3. CASE sim'.plan = <<>>
  <2>1. DOMAIN sim'.plan = {} /\ Len(sim'.plan) = 0
    BY <1>3
  <2>2. ~IsSet(wl) => /\ Cardinality(Active(pods')) <= wl'.replicas
                      /\ Cardinality(Active(pods')) + 0 <= wl'.replicas
    BY <1>1 DEF QuietPlan
  <2> QED
    BY <2>1, <2>2 DEF QuietPlan
<1> QED
  BY <1>2, <1>3

LEMMA NamesKept ==
  ASSUME wl'.replicas = wl.replicas, IsSet(wl') <=> IsSet(wl), QuietNames,
         DOMAIN pods' \subseteq DOMAIN pods, sim'.plan = sim.plan \/ sim'.plan = <<>>,
         sim'.pc = "claims" => sim'.pods = pods \/ (sim.pc = "claims" /\ sim'.pods = sim.pods)
  PROVE  QuietNames'
<1>1. sim'.plan = <<>> => DOMAIN sim'.plan = {}
  OBVIOUS
<1> QED
  BY <1>1 DEF QuietNames

LEMMA ReadyKept ==
  ASSUME QuietReady, SamePods, UNCHANGED rule, sim'.pc # "report",
         sim'.pc = "patch" => sim'.rule = None,
         sim'.pc \in {"pods", "patch"} => sim'.todo = {} \/
           (/\ sim.pc \in {"pods", "patch"}
            /\ sim'.todo \subseteq sim.todo /\ sim'.pods = sim.pods)
  PROVE  QuietReady'
<1>1. DOMAIN pods' \subseteq DOMAIN pods /\ \A n \in DOMAIN pods' : pods'[n].st = pods[n].st
  BY DEF SamePods
<1>2. \A n \in DOMAIN pods' : /\ isPodReady(pods'[n]) <=> isPodReady(pods[n])
                              /\ GateOpen(pods[n]) => GateOpen(pods'[n])
  BY SameReady
<1>3. \A n \in DOMAIN pods' : isPodReady(pods'[n]) => pods'[n].st = AllReady /\ GateOpen(pods'[n])
  BY <1>1, <1>2 DEF QuietReady
<1>4. ASSUME sim'.pc \in {"pods", "patch"}, NEW n \in sim'.todo \cap DOMAIN pods'
      PROVE  /\ isPodReady(pods'[n]) => sim'.pods[n].st = AllReady /\ GateOpen(sim'.pods[n])
             /\ GateOpen(sim'.pods[n]) => GateOpen(pods'[n])
  BY <1>1, <1>2, <1>4 DEF QuietReady
<1> QED
  BY <1>3, <1>4 DEF QuietReady

(* While the test only changes the template a patch leaves Ready pods as   *)
(* they are, and makes Ready only pods whose gate is open.                 *)
LEMMA QuietPatch ==
  ASSUME TypeOK, QuietReady, sim.pc = "patch", NEW n \in sim.todo, PatchPod(n, None),
         sim'.pc = "pods", sim'.todo = sim.todo \ {n}, sim'.pods = sim.pods, UNCHANGED rule
  PROVE  /\ QuietReady' /\ Active(pods') = Active(pods)
         /\ ReadyPods(pods) \subseteq ReadyPods(pods')
<1> DEFINE want == podStatus(sim.pods[n], None)
<1>1. PodsOK(pods)
  BY DEF TypeOK
<1>2. /\ DOMAIN pods' = DOMAIN pods
      /\ \A m \in DOMAIN pods :
           /\ m # n => pods'[m] = pods[m]
           /\ pods'[m].rev = pods[m].rev /\ pods'[m].deleting = pods[m].deleting
           /\ pods'[m].gate = pods[m].gate
           /\ \/ pods'[m].st = pods[m].st
              \/ pods'[m].st = want /\ want # sim.pods[n].st
  BY <1>1, PatchPodMoves
<1>3. (want.ready <=> GateOpen(sim.pods[n])) /\ (GateOpen(sim.pods[n]) => want = AllReady)
  BY HealthyStatus
<1> HIDE DEF want
<1>4. Active(pods') = Active(pods)
  BY <1>2 DEF Active
<1>5. \A m \in DOMAIN pods : GateOpen(pods'[m]) <=> GateOpen(pods[m])
  BY <1>2 DEF GateOpen
<1>6. ASSUME n \in DOMAIN pods, isPodReady(pods[n]) PROVE pods'[n].st = pods[n].st
  <2>1. sim.pods[n].st = AllReady /\ GateOpen(sim.pods[n])
    BY <1>6 DEF QuietReady
  <2> QED
    BY <1>2, <1>3, <1>6, <2>1
<1>7. \A m \in DOMAIN pods : isPodReady(pods[m]) => isPodReady(pods'[m])
  BY <1>2, <1>6 DEF isPodReady
<1>8. ReadyPods(pods) \subseteq ReadyPods(pods')
  <2>1. Active(pods) \subseteq DOMAIN pods
    BY DEF Active
  <2> QED
    BY <1>4, <1>7, <2>1 DEF ReadyPods
<1>9. ASSUME NEW m \in DOMAIN pods', isPodReady(pods'[m])
      PROVE  pods'[m].st = AllReady /\ GateOpen(pods'[m])
  <2>1. CASE pods'[m].st = pods[m].st
    <3>1. isPodReady(pods[m]) /\ m \in DOMAIN pods
      BY <1>2, <1>9, <2>1 DEF isPodReady
    <3>2. pods[m].st = AllReady /\ GateOpen(pods[m])
      BY <3>1 DEF QuietReady
    <3> QED
      BY <1>5, <2>1, <3>1, <3>2
  <2>2. CASE pods'[m].st # pods[m].st
    <3>1. m = n /\ pods'[m].st = want /\ m \in DOMAIN pods
      BY <1>2, <2>2
    <3>2. want.ready
      BY <1>9, <3>1 DEF isPodReady
    <3>3. GateOpen(sim.pods[n]) /\ want = AllReady
      BY <1>3, <3>2
    <3>4. GateOpen(pods[n])
      BY <3>1, <3>3 DEF QuietReady
    <3> QED
      BY <1>5, <3>1, <3>3, <3>4
  <2> QED
    BY <2>1, <2>2
<1>10. ASSUME NEW m \in sim'.todo \cap DOMAIN pods'
       PROVE  /\ isPodReady(pods'[m]) => sim'.pods[m].st = AllReady /\ GateOpen(sim'.pods[m])
              /\ GateOpen(sim'.pods[m]) => GateOpen(pods'[m])
  <2>1. m \in sim.todo \cap DOMAIN pods /\ pods'[m] = pods[m]
    BY <1>2
  <2> QED
    BY <2>1 DEF QuietReady
<1>11. QuietReady'
  BY <1>9, <1>10 DEF QuietReady
<1> QED
  BY <1>4, <1>8, <1>11

(* A call of the plan: a pod is created, up to the replicas there are to   *)
(* be, or one is taken away while all of them are Ready.                   *)
LEMMA QuietAct ==
  ASSUME TypeOK, PlaceInv, QuietReady, QuietNames, QuietPlan, Act \/ ActFails
  PROVE  /\ QuietReady' /\ QuietListed' /\ QuietNames' /\ QuietPlan'
         /\ \/ ReadyPods(pods) \subseteq ReadyPods(pods')
            \/ Cardinality(ReadyPods(pods')) >= wl.replicas - 1
<1> DEFINE podCall == Head(sim.plan)
           n == podCall[2]
           creates == \A i \in DOMAIN sim.plan : sim.plan[i][1] = "create"
<1>1. IsSim(sim) /\ PodsOK(pods) /\ wl \in Workload /\ sim.plan \in Seq(PodCalls)
  BY DEF TypeOK, SimOK
<1>2. wl.replicas \in Nat
  BY <1>1, WorkloadFields
<1>3. /\ sim.pc = "act" /\ sim'.pc = "act" /\ sim.plan # <<>> /\ sim'.plan = Tail(sim.plan)
      /\ \/ UNCHANGED pods
         \/ /\ podCall[1] = "create" /\ n \notin DOMAIN pods
            /\ \E p \in {NewPod, Unseen} : pods' = PlusPod(pods, n, p)
         \/ podCall[1] = "delete" /\ n \in DOMAIN pods /\ pods' = WithPod(pods, n, Deleting(pods[n]))
  <2> HIDE DEF podCall
  <2>1. podCall = Head(sim.plan)
    BY DEF podCall
  <2> QED
    BY <1>1, <2>1, ActMoves, FailedActMoves
<1>4. UNCHANGED wl /\ UNCHANGED rule
  BY DEF Act, ActFails, Fails
<1>5. 1 \in DOMAIN sim.plan /\ podCall = sim.plan[1] /\ Len(sim.plan) \in Nat \ {0}
  BY <1>1, <1>3
<1>6. /\ \A i \in DOMAIN sim'.plan : i + 1 \in DOMAIN sim.plan /\ sim'.plan[i] = sim.plan[i + 1]
      /\ Len(sim'.plan) = Len(sim.plan) - 1
  BY <1>1, <1>3
<1>7. podCall \in PodCalls
  BY <1>1, <1>3
<1>8. n \in Name
  BY <1>7 DEF PodCalls
<1>9. \A p \in {NewPod, Unseen} : p.st = None /\ p.deleting = FALSE
  <2>1. sim.wl \in Workload
    BY <1>3 DEF PlaceInv
  <2> QED
    BY <2>1, NewPodType
<1>10. /\ IsFiniteSet(Active(pods)) /\ Cardinality(Active(pods)) \in Nat
       /\ IsFiniteSet(ReadyPods(pods)) /\ Cardinality(ReadyPods(pods)) \in Nat
  BY <1>1, ReadyCount
<1> HIDE DEF podCall, n
<1>11. QuietListed'
  BY <1>3 DEF QuietListed
(* The plan that is left. *)
<1>12. creates => podCall[1] = "create" /\ \A i \in DOMAIN sim'.plan : sim'.plan[i][1] = "create"
  BY <1>5, <1>6
<1>13. ~creates => /\ Len(sim'.plan) = 0 /\ DOMAIN sim'.plan = {} /\ podCall[1] = "delete"
                   /\ Cardinality(ReadyPods(pods)) >= wl.replicas
  <2> SUFFICES ASSUME ~creates
               PROVE  /\ Len(sim'.plan) = 0 /\ DOMAIN sim'.plan = {} /\ podCall[1] = "delete"
                      /\ Cardinality(ReadyPods(pods)) >= wl.replicas
    OBVIOUS
  <2>1. Len(sim.plan) = 1 /\ sim.plan[1][1] = "delete" /\ Cardinality(ReadyPods(pods)) >= wl.replicas
    BY DEF QuietPlan
  <2>2. Len(sim'.plan) = 0
    BY <1>6, <2>1
  <2>3. sim'.plan \in Seq(PodCalls)
    BY <1>1, <1>3
  <2> QED
    BY <1>5, <2>1, <2>2, <2>3
<1>14. ASSUME NEW a \in Nat, a = Cardinality(Active(pods')),
              a <= Cardinality(Active(pods)) \/ (creates /\ a = Cardinality(Active(pods)) + 1)
       PROVE  QuietPlan'
  <2>1. CASE creates
    <3>1. ~IsSet(wl) => Cardinality(Active(pods)) + Len(sim.plan) <= wl.replicas
      <4>1. sim.plan[1][1] = "create"
        BY <1>5, <2>1
      <4> QED
        BY <4>1 DEF QuietPlan
    <3>2. ~IsSet(wl) => a + Len(sim'.plan) <= wl.replicas /\ a <= wl.replicas
      BY <1>2, <1>5, <1>6, <1>10, <1>14, <3>1
    <3> QED
      BY <1>4, <1>12, <1>14, <2>1, <3>2 DEF QuietPlan
  <2>2. CASE ~creates
    <3>1. ~IsSet(wl) => a <= wl.replicas /\ a + 0 <= wl.replicas
      BY <1>2, <1>10, <1>14, <2>2 DEF QuietPlan
    <3> QED
      BY <1>4, <1>13, <1>14, <2>2, <3>1 DEF QuietPlan
  <2> QED
    BY <2>1, <2>2
<1>15. ASSUME DOMAIN pods' \subseteq DOMAIN pods \/ (podCall[1] = "create" /\ DOMAIN pods' = DOMAIN pods \cup {n})
       PROVE  QuietNames'
  <2> SUFFICES ASSUME IsSet(wl)
               PROVE  /\ \A m \in DOMAIN pods' : m[2] < wl.replicas
                      /\ \A i \in DOMAIN sim'.plan : sim'.plan[i][1] = "create" =>
                           sim'.plan[i][2][2] < wl.replicas
    BY <1>3, <1>4 DEF QuietNames
  <2>1. /\ \A m \in DOMAIN pods : m[2] < wl.replicas
        /\ \A i \in DOMAIN sim.plan : sim.plan[i][1] = "create" => sim.plan[i][2][2] < wl.replicas
    BY DEF QuietNames
  <2>2. podCall[1] = "create" => n[2] < wl.replicas
    BY <1>5, <2>1 DEF n
  <2> QED
    BY <1>6, <1>15, <2>1, <2>2
<1>16. CASE UNCHANGED pods
  <2>1. QuietNames'
    BY <1>15, <1>16
  <2>2. QuietPlan'
    BY <1>10, <1>14, <1>16
  <2>3. QuietReady'
    BY <1>3, <1>4, <1>16 DEF QuietReady
  <2> QED
    BY <1>11, <1>16, <2>1, <2>2, <2>3
<1>17. CASE /\ podCall[1] = "create" /\ n \notin DOMAIN pods
            /\ \E p \in {NewPod, Unseen} : pods' = PlusPod(pods, n, p)
  <2>0. PICK p \in {NewPod, Unseen} : pods' = PlusPod(pods, n, p)
    BY <1>17
  <2>1. /\ DOMAIN pods' = DOMAIN pods \cup {n}
        /\ \A m \in DOMAIN pods : pods'[m] = pods[m]
        /\ pods'[n].st = None /\ pods'[n].deleting = FALSE
    BY <1>9, <1>17, <2>0 DEF PlusPod
  <2>2. QuietNames'
    BY <1>15, <1>17, <2>1
  <2>3. QuietReady'
    <3>1. ~isPodReady(pods'[n])
      BY <2>1 DEF isPodReady
    <3> QED
      BY <1>3, <1>4, <2>1, <3>1 DEF QuietReady
  <2>4. Active(pods') = Active(pods) \cup {n} /\ n \notin Active(pods)
    BY <1>17, <2>1 DEF Active
  <2>5. Cardinality(Active(pods')) = Cardinality(Active(pods)) + 1
    BY <1>10, <2>4, FS_AddElement
  <2>6. creates
    BY <1>13, <1>17
  <2>7. QuietPlan'
    BY <1>10, <1>14, <2>5, <2>6
  <2>8. ReadyPods(pods) \subseteq ReadyPods(pods')
    BY <2>1, <2>4 DEF ReadyPods, Active
  <2> QED
    BY <1>11, <2>2, <2>3, <2>7, <2>8
<1>18. CASE podCall[1] = "delete" /\ n \in DOMAIN pods /\ pods' = WithPod(pods, n, Deleting(pods[n]))
  <2>1. /\ DOMAIN pods' = DOMAIN pods
        /\ \A m \in DOMAIN pods : m # n => pods'[m] = pods[m]
        /\ pods'[n].rev = pods[n].rev /\ pods'[n].st = pods[n].st /\ pods'[n].gate = pods[n].gate
        /\ pods'[n].deleting = TRUE
    BY <1>1, <1>18, PodMarked
  <2>2. QuietNames'
    BY <1>15, <2>1
  <2>3. QuietReady'
    <3>1. \A m \in DOMAIN pods : /\ isPodReady(pods'[m]) <=> isPodReady(pods[m])
                                 /\ GateOpen(pods'[m]) <=> GateOpen(pods[m])
                                 /\ pods'[m].st = pods[m].st
      BY <2>1 DEF isPodReady, GateOpen
    <3> QED
      BY <1>3, <1>4, <2>1, <3>1 DEF QuietReady
  <2>4. Active(pods') = Active(pods) \ {n}
    BY <2>1 DEF Active
  <2>5. ReadyPods(pods') = ReadyPods(pods) \ {n}
    BY <2>1, <2>4 DEF ReadyPods, Active
  <2>6. Cardinality(Active(pods')) \in Nat /\ Cardinality(Active(pods')) <= Cardinality(Active(pods))
    <3>1. Active(pods') \subseteq Active(pods)
      BY <2>4
    <3> QED
      BY <1>10, <3>1, FS_Subset, FS_CardinalityType
  <2>7. QuietPlan'
    BY <1>14, <2>6
  <2>8. ~creates
    BY <1>12, <1>18
  <2>9. /\ IsFiniteSet(ReadyPods(pods) \ {n})
        /\ Cardinality(ReadyPods(pods) \ {n}) =
             IF n \in ReadyPods(pods) THEN Cardinality(ReadyPods(pods)) - 1
             ELSE Cardinality(ReadyPods(pods))
    BY <1>10, FS_RemoveElement
  <2>10. /\ Cardinality(ReadyPods(pods')) \in Nat
         /\ Cardinality(ReadyPods(pods')) >= Cardinality(ReadyPods(pods)) - 1
    BY <1>10, <2>5, <2>9, FS_CardinalityType
  <2>11. Cardinality(ReadyPods(pods')) >= wl.replicas - 1
    BY <1>2, <1>10, <1>13, <2>8, <2>10
  <2> QED
    BY <1>11, <2>2, <2>3, <2>7, <2>11
<1> QED
  BY <1>3, <1>16, <1>17, <1>18

(* As many pods as replicas, once every ordinal has one. *)
LEMMA EveryOrdinal ==
  ASSUME NEW S, IsFiniteSet(S), NEW r \in Nat, \A o \in 0 .. r - 1 : PodName(o) \in S
  PROVE  Cardinality(S) >= r
<1> DEFINE D == 0 .. r - 1
           f == [o \in D |-> PodName(o)]
<1>1. IsFiniteSet(D) /\ Cardinality(D) = r
  <2>1. IsFiniteSet(0 .. r - 1) /\ Cardinality(0 .. r - 1) = IF 0 > r - 1 THEN 0 ELSE (r - 1) - 0 + 1
    BY FS_Interval
  <2> QED
    BY <2>1
<1>2. f \in Injection(D, S)
  <2>1. f \in [D -> S]
    OBVIOUS
  <2>2. \A a, b \in D : f[a] = f[b] => a = b
    BY DEF PodName
  <2> QED
    BY <2>1, <2>2 DEF Injection, IsInjective
<1> HIDE DEF D, f
<1>3. Cardinality(D) <= Cardinality(S)
  BY <1>2, FS_Injection
<1> QED
  BY <1>1, <1>3, FS_CardinalityType

LEMMA RollInductive ==
  ASSUME TypeOK, PlaceInv, RollInv, [Next]_vars, ~disturbed', Rolls(wl) \/ Rolls(wl')
  PROVE  /\ QuietInv'
         /\ \/ ReadyPods(pods) \subseteq ReadyPods(pods')
            \/ Cardinality(ReadyPods(pods')) >= wl.replicas - 1
<1>1. /\ QuietReady /\ QuietListed /\ QuietNames /\ QuietPlan /\ Rolls(wl) /\ UNCHANGED rule
      /\ wl'.replicas = wl.replicas /\ (IsSet(wl') <=> IsSet(wl)) /\ (Others => SamePods)
  BY QuietStep DEF QuietInv
<1>2. IsSim(sim) /\ PodsOK(pods) /\ PodsOK(sim.pods) /\ wl \in Workload
  BY DEF TypeOK, SimOK
<1>3. wl.replicas \in Nat
  BY <1>2, WorkloadFields
<1>4. PodsOK(pods')
  BY StepType DEF TypeOK
(* The steps that change neither the pods' readiness nor the plan. *)
<1>5. ASSUME SamePods, sim'.plan = sim.plan \/ sim'.plan = <<>>, sim'.pc # "report",
             sim'.pc = "patch" => sim'.rule = None,
             sim'.pc \in {"pods", "patch"} => sim'.todo = {} \/
               (/\ sim.pc \in {"pods", "patch"}
                /\ sim'.todo \subseteq sim.todo /\ sim'.pods = sim.pods),
             sim'.pc = "claims" => sim'.pods = pods \/ (sim.pc = "claims" /\ sim'.pods = sim.pods)
      PROVE  /\ QuietReady' /\ QuietNames' /\ QuietPlan'
             /\ ReadyPods(pods') = ReadyPods(pods)
  <2>1. Active(pods') = Active(pods) /\ ReadyPods(pods') = ReadyPods(pods)
    BY <1>5, SameReady
  <2>2. DOMAIN pods' \subseteq DOMAIN pods
    BY <1>5 DEF SamePods
  <2>3. QuietReady'
    BY <1>1, <1>5, ReadyKept
  <2>4. QuietNames'
    BY <1>1, <1>5, <2>2, NamesKept
  <2>5. QuietPlan'
    <3>1. ReadyPods(pods) \subseteq ReadyPods(pods')
      BY <2>1
    <3> QED
      BY <1>1, <1>2, <1>3, <1>4, <1>5, <2>1, <3>1, PlanKept
  <2> QED
    BY <2>1, <2>3, <2>4, <2>5
<1>6. ASSUME UNCHANGED pods PROVE SamePods
  BY <1>6 DEF SamePods, Active
<1>7. rule = None /\ sim.pc # "report" /\ (sim.pc = "patch" => sim.rule = None)
  BY <1>1 DEF QuietReady
<1>8. CASE Others \/ UNCHANGED vars
  <2>1. UNCHANGED sim
    BY <1>8, OthersType DEF vars
  <2>2. SamePods
    BY <1>1, <1>6, <1>8 DEF vars
  <2>3. /\ QuietReady' /\ QuietNames' /\ QuietPlan' /\ ReadyPods(pods') = ReadyPods(pods)
    BY <1>5, <1>7, <2>1, <2>2
  <2>4. QuietListed'
    BY <1>1, <2>1, <2>3 DEF QuietListed
  <2> QED
    BY <2>3, <2>4 DEF QuietInv
<1>9. CASE sweep
  <2>1. UNCHANGED pods
    BY <1>9 DEF sweep
  <2>2. /\ sim'.pc \in {"listPods", "act"} /\ (sim'.pc = "listPods" => sim'.wl = wl)
        /\ sim'.plan = sim.plan
    BY <1>2, <1>9, SweepMoves
  <2>3. /\ QuietReady' /\ QuietNames' /\ QuietPlan' /\ ReadyPods(pods') = ReadyPods(pods)
    BY <1>5, <1>6, <2>1, <2>2
  <2>4. QuietListed'
    BY <1>1, <2>2 DEF QuietListed
  <2> QED
    BY <2>3, <2>4 DEF QuietInv
<1>10. CASE tickWorkloadPods
  <2>1. UNCHANGED pods
    BY <1>10 DEF tickWorkloadPods
  <2>2. sim.pc = "listPods" /\ sim'.wl = sim.wl
        /\ \/ sim'.pc = "act" /\ sim'.plan = sim.plan
           \/ sim'.pc = "claims" /\ sim'.pods = pods /\ sim'.plan = sim.plan
           \/ ~IsSet(sim.wl) /\ sim'.pc = "act" /\ sim'.plan = reconcileDeploymentPods(sim.wl, pods)
    BY <1>2, <1>10, ListMoves
  <2>3. /\ sim.wl \in Workload /\ (IsSet(sim.wl) <=> IsSet(wl))
        /\ Rolls(sim.wl) /\ sim.wl.replicas = wl.replicas
    BY <1>1, <2>2 DEF PlaceInv, QuietListed, IsSet
  <2>4. QuietListed'
    BY <1>1, <2>1, <2>2, <2>3 DEF QuietListed
  <2>5. CASE sim'.plan = sim.plan
    <3>1. /\ QuietReady' /\ QuietNames' /\ QuietPlan' /\ ReadyPods(pods') = ReadyPods(pods)
      BY <1>5, <1>6, <2>1, <2>2, <2>5
    <3> QED
      BY <2>4, <3>1 DEF QuietInv
  <2>6. CASE ~IsSet(sim.wl) /\ sim'.pc = "act" /\ sim'.plan = reconcileDeploymentPods(sim.wl, pods)
    <3>1. sim.wl \in Deployments /\ ~sim.wl.recreate
      BY <2>3, <2>6, WorkloadFields DEF Rolls
    <3>2. Cardinality(Active(pods)) <= sim.wl.replicas
      BY <1>1, <2>3, <2>6 DEF QuietPlan
    <3>3. \/ /\ \A i \in DOMAIN sim'.plan : sim'.plan[i][1] = "create"
             /\ Cardinality(Active(pods)) + Len(sim'.plan) <= sim.wl.replicas
          \/ /\ Len(sim'.plan) = 1 /\ sim'.plan[1][1] = "delete"
             /\ Cardinality(ReadyPods(pods)) >= sim.wl.replicas
      BY <1>2, <2>6, <3>1, <3>2, DeploymentPlan
    <3>4. QuietPlan'
      BY <1>1, <2>1, <2>3, <3>2, <3>3 DEF QuietPlan
    <3>5. QuietNames'
      BY <1>1, <2>3, <2>6 DEF QuietNames
    <3>6. QuietReady'
      BY <1>1, <2>1, <2>6 DEF QuietReady
    <3> QED
      BY <2>1, <2>4, <3>4, <3>5, <3>6 DEF QuietInv
  <2> QED
    BY <2>2, <2>5, <2>6
<1>11. CASE tickClaims \/ ClaimsFail
  <2>0. PICK failed : ReconcileClaims(failed)
    BY <1>11 DEF tickClaims, ClaimsFail
  <2>1. UNCHANGED pods
    BY <2>0 DEF ReconcileClaims
  <2>2. sim.pc = "claims" /\ sim'.pc = "act" /\ sim'.plan = reconcileStatefulSetPods(sim.wl, sim.pods)
    BY <1>2, <2>0, ClaimsMoves
  <2>3. /\ sim.wl \in Workload /\ IsSet(sim.wl) /\ IsSet(wl)
        /\ Rolls(sim.wl) /\ sim.wl.replicas = wl.replicas
        /\ ReadyPods(sim.pods) \subseteq ReadyPods(pods)
    BY <1>1, <2>2 DEF PlaceInv, QuietListed, IsSet
  <2>4. sim.wl \in StatefulSets /\ ~sim.wl.parallel
    BY <2>3, WorkloadFields DEF Rolls
  <2>5. \A m \in DOMAIN sim.pods : m[2] < sim.wl.replicas
    BY <1>1, <2>2, <2>3 DEF QuietNames
  <2>6. \/ \A i \in DOMAIN sim'.plan : sim'.plan[i][1] = "create"
        \/ /\ Len(sim'.plan) = 1 /\ sim'.plan[1][1] = "delete"
           /\ \A o \in 0 .. sim.wl.replicas - 1 : PodName(o) \in ReadyPods(sim.pods)
    BY <1>2, <2>2, <2>4, <2>5, SetPlanRolls
  <2>7. (\A o \in 0 .. sim.wl.replicas - 1 : PodName(o) \in ReadyPods(sim.pods)) =>
          Cardinality(ReadyPods(pods)) >= wl.replicas
    <3> SUFFICES ASSUME \A o \in 0 .. sim.wl.replicas - 1 : PodName(o) \in ReadyPods(sim.pods)
                 PROVE  Cardinality(ReadyPods(pods)) >= wl.replicas
      OBVIOUS
    <3>1. \A o \in 0 .. wl.replicas - 1 : PodName(o) \in ReadyPods(pods)
      BY <2>3
    <3>2. IsFiniteSet(ReadyPods(pods))
      BY <1>2, ReadyCount
    <3> QED
      BY <1>3, <3>1, <3>2, EveryOrdinal
  <2>8. QuietPlan'
    BY <1>1, <2>1, <2>3, <2>6, <2>7 DEF QuietPlan
  <2>9. QuietNames'
    <3>1. \A i \in DOMAIN sim'.plan : sim'.plan[i][1] = "create" =>
            sim'.plan[i][2] \in Missing(sim.wl, sim.pods)
      BY <1>2, <2>2, <2>4, SetPlanType
    <3>2. \A m \in Missing(sim.wl, sim.pods) : \E o \in 0 .. sim.wl.replicas - 1 : m = PodName(o)
      BY <1>2, <2>4, MissingType
    <3>3. \A m \in Missing(sim.wl, sim.pods) : m[2] < wl.replicas
      BY <1>3, <2>3, <3>2 DEF PodName
    <3> QED
      BY <1>1, <2>1, <2>2, <3>1, <3>3 DEF QuietNames
  <2>10. QuietReady' /\ QuietListed'
    BY <1>1, <2>1, <2>2 DEF QuietReady, QuietListed
  <2> QED
    BY <2>1, <2>8, <2>9, <2>10 DEF QuietInv
<1>12. CASE Act \/ ActFails
  BY <1>1, <1>12, QuietAct DEF QuietInv
<1>13. CASE TickPods
  <2>1. UNCHANGED pods
    BY <1>13 DEF TickPods
  <2>2. sim'.pc = "pods" /\ sim'.plan = sim.plan /\ sim'.pods = pods
    BY <1>2, <1>13, TickPodsMoves
  <2>3. QuietReady'
    BY <1>1, <2>1, <2>2 DEF QuietReady
  <2>4. QuietNames'
    BY <1>1, <2>1, <2>2, NamesKept
  <2>5. QuietPlan'
    BY <1>1, <1>2, <1>3, <1>4, <2>1, <2>2, PlanKept
  <2>6. QuietListed'
    BY <2>2 DEF QuietListed
  <2> QED
    BY <2>1, <2>3, <2>4, <2>5, <2>6 DEF QuietInv
<1>14. CASE PodTick \/ TickPodsFails
  <2>1. UNCHANGED pods
    BY <1>14 DEF PodTick, TickPodsFails
  <2>2. /\ sim'.pc \in {"pods", "patch"} /\ sim'.plan = sim.plan
        /\ sim'.pc = "patch" => sim'.rule = None
        /\ sim'.todo = {} \/ (/\ sim.pc \in {"pods", "patch"}
                              /\ sim'.todo \subseteq sim.todo /\ sim'.pods = sim.pods)
    <3>1. CASE PodTick
      BY <1>2, <1>7, <3>1, PodTickMoves
    <3>2. CASE TickPodsFails
      BY <1>2, <3>2, FailedTickMoves DEF PlaceInv
    <3> QED
      BY <1>14, <3>1, <3>2
  <2>3. /\ QuietReady' /\ QuietNames' /\ QuietPlan' /\ ReadyPods(pods') = ReadyPods(pods)
    BY <1>5, <1>6, <2>1, <2>2
  <2>4. QuietListed'
    BY <2>2 DEF QuietListed
  <2> QED
    BY <2>3, <2>4 DEF QuietInv
<1>15. CASE podFault
  BY <1>7, <1>15 DEF podFault
<1>16. CASE PodPatch \/ PodPatchFails
  <2> DEFINE n == Least(sim.todo)
  <2>1. /\ sim.pc = "patch" /\ sim'.pods = sim.pods /\ sim'.plan = sim.plan
        /\ sim'.pc = "pods" /\ sim'.todo = sim.todo \ {n}
        /\ PatchPod(n, FaultOf(n)) \/ UNCHANGED pods
    BY <1>2, <1>16, PodPatchMoves
  <2>2. FaultOf(n) = None
    BY <1>7, <2>1 DEF FaultOf
  <2>3. n \in sim.todo
    BY <2>1, LeastIsOneOf DEF PlaceInv, TypeOK, SimOK
  <2> HIDE DEF n
  <2>4. QuietListed'
    BY <2>1 DEF QuietListed
  <2>5. CASE PatchPod(n, None)
    <3>1. /\ QuietReady' /\ Active(pods') = Active(pods) /\ ReadyPods(pods) \subseteq ReadyPods(pods')
      BY <1>1, <2>1, <2>3, <2>5, QuietPatch
    <3>2. DOMAIN pods' = DOMAIN pods
      BY <1>2, <2>5, PatchPodMoves
    <3>3. QuietNames'
      BY <1>1, <2>1, <3>2, NamesKept
    <3>4. QuietPlan'
      BY <1>1, <1>2, <1>3, <1>4, <2>1, <3>1, PlanKept
    <3> QED
      BY <2>4, <3>1, <3>3, <3>4 DEF QuietInv
  <2>6. CASE UNCHANGED pods
    <3>1. /\ QuietReady' /\ QuietNames' /\ QuietPlan' /\ ReadyPods(pods') = ReadyPods(pods)
      BY <1>5, <1>6, <2>1, <2>6
    <3> QED
      BY <2>4, <3>1 DEF QuietInv
  <2> QED
    BY <2>1, <2>2, <2>5, <2>6
(* The steps of the status and claim halves, and the Lists that fail. *)
<1>17. ASSUME SamePods, sim'.pc \in {"act", "status", "write", "pvcs", "idle"},
              sim'.plan = sim.plan \/ sim'.plan = <<>>
       PROVE  /\ QuietInv'
              /\ ReadyPods(pods) \subseteq ReadyPods(pods')
  <2>1. /\ QuietReady' /\ QuietNames' /\ QuietPlan' /\ ReadyPods(pods') = ReadyPods(pods)
    BY <1>5, <1>17
  <2>2. QuietListed'
    BY <1>17 DEF QuietListed
  <2> QED
    BY <2>1, <2>2 DEF QuietInv
<1>18. CASE tickWorkloadStatus \/ listStatusPods
  <2>1. UNCHANGED pods
    BY <1>18 DEF tickWorkloadStatus, listStatusPods
  <2>2. sim'.pc \in {"status", "write"} /\ sim'.plan = sim.plan
    BY <1>2, <1>18, StatusListMoves, StatusPodsMoves
  <2> QED
    BY <1>6, <1>17, <2>1, <2>2
<1>19. CASE updateStatus
  <2>1. pods' = Shown(pods, sim.pods)
    BY <1>19 DEF updateStatus, Shown, Reshown
  <2>2. SamePods
    BY <1>2, <2>1, PodsShown DEF SamePods, Active
  <2> QED
    BY <1>2, <1>17, <1>19, <2>2, UpdateStatusMoves
<1>20. CASE WorkloadStatusFails
  <2>1. pods' = Skipped(pods) /\ sim'.pc = "pvcs" /\ sim'.plan = sim.plan
    BY <1>2, <1>20, StatusFailsMoves
  <2>2. SamePods
    BY <1>2, <2>1, PodsSkipped DEF SamePods, Active
  <2> QED
    BY <1>17, <2>1, <2>2
<1>21. CASE WorkloadPodsFail
  <2>1. UNCHANGED pods /\ sim'.pc = "act" /\ sim'.plan = sim.plan
    BY <1>2, <1>21, PodsHalfFails DEF WorkloadPodsFail
  <2> QED
    BY <1>6, <1>17, <2>1
<1>22. CASE tickPVCs \/ PVCsFail
  <2>1. PICK failed : BindClaims(failed)
    BY <1>22 DEF tickPVCs, PVCsFail
  <2>2. UNCHANGED pods
    BY <2>1 DEF BindClaims
  <2> QED
    BY <1>6, <1>17, <2>1, <2>2, PVCsMoves
<1> QED
  BY <1>8, <1>9, <1>10, <1>11, <1>12, <1>13, <1>14, <1>15, <1>16, <1>18, <1>19, <1>20, <1>21, <1>22
     DEF Next, Sweep, CallFails

(* An update takes one pod away at a time: while the test only changes the *)
(* template, as often as it likes and whenever it likes, no call of the    *)
(* sweep leaves more than one replica not Ready that was, though the sweep *)
(* acts on what it listed before (rollStatefulSetPod,                      *)
(* reconcileDeploymentPods).                                               *)
THEOREM RollsKeepAvailability == Spec => RollKeepsAvailability
<1> DEFINE Inv == TypeOK /\ PlaceInv /\ RollInv
           Step == Rolls(wl) /\ ~disturbed' /\ ~(ReadyPods(pods) \subseteq ReadyPods(pods'))
                     => Cardinality(ReadyPods(pods')) >= wl.replicas - 1
<1>1. Init => Inv
  <2> SUFFICES ASSUME Init PROVE Inv
    OBVIOUS
  <2>1. TypeOK /\ PlaceInv
    BY DataInit
  <2>2. DOMAIN pods = {} /\ sim.pc = "idle" /\ sim.plan = <<>> /\ rule = None
    BY DEF Init, Idle
  <2>3. wl.replicas \in Nat
    BY <2>1, WorkloadFields DEF TypeOK
  <2>4. Cardinality(Active(pods)) = 0
    <3>1. Active(pods) = {}
      BY <2>2 DEF Active
    <3> QED
      BY <3>1, FS_EmptySet
  <2>5. QuietPlan
    <3>1. DOMAIN sim.plan = {} /\ Len(sim.plan) = 0 /\ 0 <= wl.replicas /\ 0 + 0 <= wl.replicas
      BY <2>2, <2>3
    <3> QED
      BY <2>4, <3>1 DEF QuietPlan
  <2>6. QuietReady /\ QuietListed /\ QuietNames
    BY <2>2 DEF QuietReady, QuietListed, QuietNames
  <2> QED
    BY <2>1, <2>5, <2>6 DEF RollInv, QuietInv
<1>2. Inv /\ [Next]_vars => Inv'
  <2> SUFFICES ASSUME Inv, [Next]_vars PROVE Inv'
    OBVIOUS
  <2>1. TypeOK' /\ PlaceInv'
    BY StepType
  <2>2. RollInv'
    BY RollInductive, Zenon DEF RollInv
  <2> QED
    BY <2>1, <2>2
<1>3. Inv /\ [Next]_vars => [Step]_vars
  <2> SUFFICES ASSUME Inv, [Next]_vars, Rolls(wl), ~disturbed',
                      ~(ReadyPods(pods) \subseteq ReadyPods(pods'))
               PROVE  Cardinality(ReadyPods(pods')) >= wl.replicas - 1
    OBVIOUS
  <2> QED
    BY RollInductive
<1>4. Spec => [][Step]_vars
  BY <1>1, <1>2, <1>3, PTL DEF Spec
<1> QED
  BY <1>4 DEF RollKeepsAvailability

------------------------------------------------------------------------------
(* The other simulator, etcdsim: for any members, callers and faults the   *)
(* leader votes, and live data fits the database that holds it.            *)

(* The lowest ID of a non-empty set is one of its members (sorted). *)
LEMMA LowestIsMember ==
  ASSUME NEW S \in SUBSET Nat, S # {}
  PROVE  Lowest(S) \in S
<1>1. \E i \in S : \A j \in S : <<j, i>> \notin OpToRel(<, Nat)
  BY NatLessThanWellFounded, WFMin
<1>2. \E i \in S : \A j \in S : i <= j
  <2>1. PICK i \in S : \A j \in S : <<j, i>> \notin OpToRel(<, Nat)
    BY <1>1
  <2>2. ASSUME NEW j \in S PROVE ~(j < i)
    <3>1. <<j, i>> \notin {ss \in Nat \X Nat : ss[1] < ss[2]}
      BY <2>1 DEF OpToRel
    <3> QED
      BY <3>1
  <2> QED
    BY <2>2
<1> QED
  BY <1>2 DEF Lowest

(* What the proofs use of the constants. *)
LEMMA Constants ==
  /\ \A i \in ID : i \in Nat /\ i # 0
  /\ \A n \in Size : n \in Nat
  /\ Learner \subseteq ID
BY EtcdSimAssumption

(* An update of a member that is there gives a member. *)
LEMMA MemberUpdated ==
  ASSUME ClusterTypeOK, NEW i \in ID, members[i] # Gone
  PROVE  members[i] \in Member
BY DEF ClusterTypeOK

(* Every fault method keeps the types of the state it changes. *)
LEMMA FaultTypes ==
  ASSUME ClusterTypeOK, Fault
  PROVE  /\ members' \in [ID -> Member \cup {Gone}]
         /\ leader' \in ID \cup {0} /\ stall' \in BOOLEAN
         /\ failNext' \in [Method -> Nat] /\ hooks' \in [Method -> Nat]
         /\ faults' \in Nat /\ UNCHANGED <<defragLog, moveLeaderLog>>
<1> USE Constants DEF ClusterTypeOK
<1>0. faults' \in Nat /\ UNCHANGED <<defragLog, moveLeaderLog>>
  BY DEF Fault, logs
<1>1. ASSUME NEW i \in ID, NEW size \in Size, NEW inUse \in Size, SetDBSize(i, size, inUse)
      PROVE  members' \in [ID -> Member \cup {Gone}]
  <2>1. members[i] \in Member
    BY <1>1, MemberUpdated DEF SetDBSize
  <2>2. [members[i] EXCEPT !.size = size, !.inUse = inUse] \in Member
    BY <2>1 DEF Member
  <2> QED
    BY <1>1, <2>2 DEF SetDBSize, Set
<1>2. ASSUME NEW i \in ID, NEW b \in BOOLEAN, SetHealthy(i, b)
      PROVE  members' \in [ID -> Member \cup {Gone}]
  <2>1. members[i] \in Member
    BY <1>2, MemberUpdated DEF SetHealthy
  <2>2. [members[i] EXCEPT !.healthy = b] \in Member
    BY <2>1 DEF Member
  <2> QED
    BY <1>2, <2>2 DEF SetHealthy, Set
<1>3. ASSUME NEW i \in ID, NEW a \in Alarm, SetAlarm(i, a)
      PROVE  members' \in [ID -> Member \cup {Gone}]
  <2>1. members[i] \in Member
    BY <1>3, MemberUpdated DEF SetAlarm
  <2>2. [members[i] EXCEPT !.alarms = a] \in Member
    BY <2>1 DEF Member
  <2> QED
    BY <1>3, <2>2 DEF SetAlarm, Set
<1>4. ASSUME NEW i \in ID, NEW v \in ID \cup {0}, SplitLeaderView(i, v)
      PROVE  members' \in [ID -> Member \cup {Gone}]
  <2>1. members[i] \in Member
    BY <1>4, MemberUpdated DEF SplitLeaderView
  <2>2. [members[i] EXCEPT !.view = v] \in Member
    BY <2>1 DEF Member
  <2> QED
    BY <1>4, <2>2 DEF SplitLeaderView, Set
<1>5. ASSUME NEW i \in ID, RemoveMember(i)
      PROVE  members' \in [ID -> Member \cup {Gone}] /\ leader' \in ID \cup {0}
  <2>1. members' \in [ID -> Member \cup {Gone}]
    BY <1>5 DEF RemoveMember, Set
  <2>2. Voters \ {i} # {} => Lowest(Voters \ {i}) \in ID
    <3> DEFINE S == Voters \ {i}
    <3>1. S \in SUBSET ID /\ S \in SUBSET Nat
      BY DEF Voters, Present
    <3> HIDE DEF S
    <3> QED
      BY <3>1, LowestIsMember DEF S
  <2> QED
    BY <1>5, <2>1, <2>2 DEF RemoveMember, Successor
<1>6. ASSUME NEW b \in BOOLEAN, StallLeaderMove(b) PROVE stall' \in BOOLEAN
  BY <1>6 DEF StallLeaderMove
<1>7. ASSUME NEW m \in Method, FailNext(m) \/ Hook(m)
      PROVE  failNext' \in [Method -> Nat] /\ hooks' \in [Method -> Nat]
  <2>1. CASE FailNext(m)
    BY <2>1 DEF FailNext
  <2>2. CASE Hook(m)
    BY <2>2 DEF Hook
  <2> QED
    BY <1>7, <2>1, <2>2
<1> QED
  BY <1>0, <1>1, <1>2, <1>3, <1>4, <1>5, <1>6, <1>7
  DEF Fault, SetDBSize, SetHealthy, SetAlarm, SplitLeaderView, RemoveMember, StallLeaderMove,
      FailNext, Hook

(* Returning from a call keeps the types of the caller's state. *)
LEMMA ReturnTypes ==
  ASSUME ClusterTypeOK, NEW c \in Caller, NEW a \in {"ok", "refused", "injected"}, Return(c, a)
  PROVE  /\ call' \in [Caller -> Calls \cup {NoMethod}] /\ left' \in [Caller -> Int]
         /\ answer' \in [Caller -> {"none", "ok", "refused", "injected", "closed"}]
         /\ UNCHANGED <<hooks, closed, faults>>
BY DEF Return, ClusterTypeOK

(* Every variable of the cluster and its clients keeps its type. *)
THEOREM ClusterTypeCorrect == ClusterSpec => []ClusterTypeOK
<1>1. ClusterInit => ClusterTypeOK
  <2> SUFFICES ASSUME ClusterInit PROVE ClusterTypeOK
    OBVIOUS
  <2>1. members \in [ID -> Member \cup {Gone}]
    <3>1. \A n \in Nat : n \div 2 \in Nat
      OBVIOUS
    <3>2. PICK size \in [ID -> Size] :
            members = [i \in ID |-> [healthy |-> TRUE, size |-> size[i], inUse |-> size[i] \div 2,
                                     alarms |-> {}, view |-> 0]]
      BY DEF ClusterInit
    <3>3. ASSUME NEW i \in ID
          PROVE  [healthy |-> TRUE, size |-> size[i], inUse |-> size[i] \div 2,
                  alarms |-> {}, view |-> 0] \in Member
      <4>1. size[i] \in Nat /\ size[i] \div 2 \in Nat /\ {} \in Alarm
        BY <3>1, Constants, EtcdSimAssumption
      <4> QED
        BY <4>1 DEF Member
    <3> QED
      BY <3>2, <3>3
  <2>2. leader \in ID /\ stall \in BOOLEAN
    BY DEF ClusterInit
  <2>3. defragLog \in Seq(ID) /\ moveLeaderLog \in Seq(ID)
    BY DEF ClusterInit
  <2>4. call \in [Caller -> Calls \cup {NoMethod}] /\ left \in [Caller -> Int]
    BY DEF ClusterInit
  <2>5. answer \in [Caller -> {"none", "ok", "refused", "injected", "closed"}]
    BY DEF ClusterInit
  <2> QED
    BY <2>1, <2>2, <2>3, <2>4, <2>5 DEF ClusterInit, ClusterTypeOK
<1>2. ClusterTypeOK /\ [ClusterNext]_clusterVars => ClusterTypeOK'
  <2> SUFFICES ASSUME ClusterTypeOK, [ClusterNext]_clusterVars PROVE ClusterTypeOK'
    OBVIOUS
  <2> USE Constants
  <2>1. CASE TestFault
    BY <2>1, FaultTypes DEF TestFault, ClusterTypeOK, logs, calls
  <2>2. ASSUME NEW c \in Caller, Close(c) PROVE ClusterTypeOK'
    BY <2>2 DEF Close, ClusterTypeOK, cluster, calls
  <2>3. ASSUME NEW c \in Caller, NEW k \in Calls, Begin(c, k) PROVE ClusterTypeOK'
    <3>1. /\ call' \in [Caller -> Calls \cup {NoMethod}] /\ left' \in [Caller -> Int]
          /\ answer' \in [Caller -> {"none", "ok", "refused", "injected", "closed"}]
      <4>1. CASE c \in closed
        BY <2>3, <4>1 DEF Begin, ClusterTypeOK
      <4>2. CASE c \notin closed
        <5>1. /\ call' = [call EXCEPT ![c] = k] /\ left' = [left EXCEPT ![c] = -1]
              /\ answer' = [answer EXCEPT ![c] = "none"]
          BY <2>3, <4>2 DEF Begin
        <5>2. -1 \in Int
          OBVIOUS
        <5> QED
          BY <5>1, <5>2 DEF ClusterTypeOK
      <4> QED
        BY <4>1, <4>2
    <3> QED
      BY <2>3, <3>1 DEF Begin, ClusterTypeOK, cluster
  <2>4. ASSUME NEW c \in Caller, ReadHooks(c) PROVE ClusterTypeOK'
    <3>1. call[c] \in Calls
      BY <2>4 DEF ReadHooks, ClusterTypeOK
    <3>2. hooks[call[c].method] \in Int
      BY <3>1 DEF Calls, ClusterTypeOK
    <3> QED
      BY <2>4, <3>2 DEF ReadHooks, ClusterTypeOK, cluster
  <2>5. ASSUME NEW c \in Caller, RunHook(c) PROVE ClusterTypeOK'
    <3>1. left' \in [Caller -> Int]
      BY <2>5 DEF RunHook, ClusterTypeOK
    <3> QED
      BY <2>5, <3>1, FaultTypes DEF RunHook, Fault, ClusterTypeOK, logs
  <2>6. ASSUME NEW c \in Caller, RunIdleHook(c) PROVE ClusterTypeOK'
    BY <2>6 DEF RunIdleHook, ClusterTypeOK, cluster
  <2>7. ASSUME NEW c \in Caller, Injected(c) PROVE ClusterTypeOK'
    <3>1. call[c] \in Calls
      BY <2>7 DEF Injected, Ready, ClusterTypeOK
    <3>2. failNext' \in [Method -> Nat]
      BY <2>7, <3>1 DEF Injected, Calls, ClusterTypeOK
    <3> QED
      BY <2>7, <3>2 DEF Injected, Return, ClusterTypeOK, cluster, NoMethod
  <2>8. ASSUME NEW c \in Caller, Query(c) PROVE ClusterTypeOK'
    BY <2>8 DEF Query, Return, ClusterTypeOK, cluster, NoMethod
  <2>9. ASSUME NEW c \in Caller, MoveLeader(c) PROVE ClusterTypeOK'
    <3>1. call[c] \in Calls /\ call[c].target \in ID
      BY <2>9 DEF MoveLeader, Ready, ClusterTypeOK, Calls
    <3>2. CASE Movable(call[c])
      <4>1. moveLeaderLog' = Append(moveLeaderLog, call[c].target)
        BY <2>9, <3>2 DEF MoveLeader
      <4>2. moveLeaderLog' \in Seq(ID)
        BY <3>1, <4>1 DEF ClusterTypeOK
      <4>3. leader' \in ID \cup {0}
        BY <2>9, <3>1, <3>2 DEF MoveLeader, ClusterTypeOK
      <4>4. Return(c, "ok")
        BY <2>9, <3>2 DEF MoveLeader
      <4> QED
        BY <2>9, <4>2, <4>3, <4>4, ReturnTypes DEF MoveLeader, ClusterTypeOK
    <3>3. CASE ~Movable(call[c])
      <4>1. Return(c, "refused") /\ UNCHANGED <<moveLeaderLog, leader>>
        BY <2>9, <3>3 DEF MoveLeader
      <4> QED
        BY <2>9, <4>1, ReturnTypes DEF MoveLeader, ClusterTypeOK
    <3> QED
      BY <3>2, <3>3
  <2>10. ASSUME NEW c \in Caller, Defragment(c) PROVE ClusterTypeOK'
    <3> DEFINE i == call[c].endpoint
    <3>1. i \in ID
      BY <2>10 DEF Defragment, Ready, ClusterTypeOK, Calls
    <3>2. i \in Present => Defragmented(members[i]) \in Member
      BY <3>1, MemberUpdated DEF Present, Defragmented, Member
    <3>3. CASE i \in Present /\ members[i].healthy
      <4>1. defragLog' = Append(defragLog, i)
        BY <2>10, <3>3 DEF Defragment
      <4>2. defragLog' \in Seq(ID)
        BY <3>1, <4>1 DEF ClusterTypeOK
      <4>3. members' \in [ID -> Member \cup {Gone}]
        BY <2>10, <3>1, <3>2, <3>3 DEF Defragment, Set, ClusterTypeOK
      <4>4. Return(c, "ok")
        BY <2>10, <3>3 DEF Defragment
      <4> QED
        BY <2>10, <4>2, <4>3, <4>4, ReturnTypes DEF Defragment, ClusterTypeOK
    <3>4. CASE ~(i \in Present /\ members[i].healthy)
      <4>1. Return(c, "refused") /\ UNCHANGED <<members, defragLog>>
        BY <2>10, <3>4 DEF Defragment
      <4> QED
        BY <2>10, <4>1, ReturnTypes DEF Defragment, ClusterTypeOK
    <3> QED
      BY <3>3, <3>4
  <2>11. CASE UNCHANGED clusterVars
    BY <2>11 DEF clusterVars, cluster, calls, ClusterTypeOK
  <2> QED
    BY <2>1, <2>2, <2>3, <2>4, <2>5, <2>6, <2>7, <2>8, <2>9, <2>10, <2>11 DEF ClusterNext, CallStep
<1> QED
  BY <1>1, <1>2, PTL DEF ClusterSpec

(* A member that is there is not the mark of a removed one. *)
LEMMA GoneIsNoMember == Gone \notin Member
BY EtcdSimAssumption DEF Member

(* Replacing a member by a member changes neither who is there nor, with   *)
(* room for its live data, that live data fits.                            *)
LEMMA ReplacedMember ==
  ASSUME ClusterTypeOK, NEW i \in ID, members[i] # Gone, NEW m \in Member, Set(i, m)
  PROVE  /\ Present' = Present /\ Voters' = Voters
         /\ LiveDataFits /\ m.inUse <= m.size => LiveDataFits'
<1>1. members' = [members EXCEPT ![i] = m]
  BY DEF Set
<1>2. Present' = Present
  BY <1>1, GoneIsNoMember DEF Present, ClusterTypeOK
<1> QED
  BY <1>1, <1>2 DEF Voters, LiveDataFits, ClusterTypeOK, Present

ClusterInv == LeaderVotes /\ LiveDataFits

(* Every fault method keeps the leader a voter and the sizes in order.     *)
LEMMA FaultKeeps ==
  ASSUME ClusterTypeOK, ClusterInv, Fault
  PROVE  ClusterInv'
<1> USE Constants
<1>1. ASSUME NEW i \in ID, NEW m \in Member, members[i] # Gone, Set(i, m),
             m.inUse <= m.size, UNCHANGED leader
      PROVE  ClusterInv'
  BY <1>1, ReplacedMember DEF ClusterInv, LeaderVotes
<1>2. ASSUME UNCHANGED <<members, leader>> PROVE ClusterInv'
  BY <1>2 DEF ClusterInv, LeaderVotes, LiveDataFits, Voters, Present
<1>3. ASSUME NEW i \in ID, members[i] # Gone
      PROVE  members[i] \in Member /\ members[i].inUse <= members[i].size
  BY <1>3, MemberUpdated DEF ClusterInv, LiveDataFits, Present
<1>4. ASSUME NEW i \in ID, NEW size \in Size, NEW inUse \in Size, SetDBSize(i, size, inUse)
      PROVE  ClusterInv'
  <2> DEFINE m == [members[i] EXCEPT !.size = size, !.inUse = inUse]
  <2>1. m \in Member /\ m.inUse <= m.size /\ members[i] # Gone
    BY <1>3, <1>4 DEF SetDBSize, Member
  <2>2. Set(i, m) /\ UNCHANGED leader
    BY <1>4 DEF SetDBSize
  <2> HIDE DEF m
  <2> QED
    BY <1>1, <2>1, <2>2
<1>5. ASSUME NEW i \in ID, NEW b \in BOOLEAN, SetHealthy(i, b) PROVE ClusterInv'
  <2> DEFINE m == [members[i] EXCEPT !.healthy = b]
  <2>1. m \in Member /\ m.inUse <= m.size /\ members[i] # Gone
    BY <1>3, <1>5 DEF SetHealthy, Member
  <2>2. Set(i, m) /\ UNCHANGED leader
    BY <1>5 DEF SetHealthy
  <2> HIDE DEF m
  <2> QED
    BY <1>1, <2>1, <2>2
<1>6. ASSUME NEW i \in ID, NEW a \in Alarm, SetAlarm(i, a) PROVE ClusterInv'
  <2> DEFINE m == [members[i] EXCEPT !.alarms = a]
  <2>1. m \in Member /\ m.inUse <= m.size /\ members[i] # Gone
    BY <1>3, <1>6 DEF SetAlarm, Member
  <2>2. Set(i, m) /\ UNCHANGED leader
    BY <1>6 DEF SetAlarm
  <2> HIDE DEF m
  <2> QED
    BY <1>1, <2>1, <2>2
<1>7. ASSUME NEW i \in ID, NEW v \in ID \cup {0}, SplitLeaderView(i, v) PROVE ClusterInv'
  <2> DEFINE m == [members[i] EXCEPT !.view = v]
  <2>1. m \in Member /\ m.inUse <= m.size /\ members[i] # Gone
    BY <1>3, <1>7 DEF SplitLeaderView, Member
  <2>2. Set(i, m) /\ UNCHANGED leader
    BY <1>7 DEF SplitLeaderView
  <2> HIDE DEF m
  <2> QED
    BY <1>1, <2>1, <2>2
<1>8. ASSUME NEW i \in ID, RemoveMember(i) PROVE ClusterInv'
  <2> DEFINE S == Voters \ {i}
  <2>1. members' = [members EXCEPT ![i] = Gone] /\ leader' = Successor(i)
    BY <1>8 DEF RemoveMember, Set
  <2>2. Present' = Present \ {i}
    BY <2>1 DEF Present, ClusterTypeOK
  <2>3. Voters' = S
    BY <2>2 DEF Voters
  <2>4. LiveDataFits'
    BY <2>1, <2>2 DEF ClusterInv, LiveDataFits, ClusterTypeOK, Present
  <2>5. S \in SUBSET Nat /\ 0 \notin S
    BY DEF Voters, Present
  <2>6. leader' = IF leader # i THEN leader ELSE IF S = {} THEN 0 ELSE Lowest(S)
    BY <2>1 DEF Successor
  <2>7. leader # i /\ leader # 0 => leader \in S
    BY DEF ClusterInv, LeaderVotes
  <2>8. leader = 0 => S = {}
    BY DEF ClusterInv, LeaderVotes
  <2> HIDE DEF S
  <2>9. S # {} => Lowest(S) \in S
    BY <2>5, LowestIsMember
  <2>10. IF leader' = 0 THEN S = {} ELSE leader' \in S
    BY <2>5, <2>6, <2>7, <2>8, <2>9
  <2> QED
    BY <2>3, <2>4, <2>10 DEF ClusterInv, LeaderVotes
<1> QED
  BY <1>2, <1>4, <1>5, <1>6, <1>7, <1>8 DEF Fault, StallLeaderMove, FailNext, Hook

(* ClusterInv holds of every state of every execution. *)
LEMMA ClusterInvariant == ClusterSpec => []ClusterInv
<1>1. ClusterInit => ClusterInv
  <2> SUFFICES ASSUME ClusterInit PROVE ClusterInv
    OBVIOUS
  <2>1. PICK size \in [ID -> Size] :
          members = [i \in ID |-> [healthy |-> TRUE, size |-> size[i], inUse |-> size[i] \div 2,
                                   alarms |-> {}, view |-> 0]]
    BY DEF ClusterInit
  <2>2. \A n \in Nat : n \div 2 \in Nat /\ n \div 2 <= n
    OBVIOUS
  <2>3. \A i \in ID : members[i] \in Member /\ members[i].inUse <= members[i].size
    <3> SUFFICES ASSUME NEW i \in ID
                 PROVE  members[i] \in Member /\ members[i].inUse <= members[i].size
      OBVIOUS
    <3>1. size[i] \in Nat /\ size[i] \div 2 \in Nat /\ {} \in Alarm
      BY <2>2, Constants, EtcdSimAssumption
    <3> QED
      BY <2>1, <2>2, <3>1 DEF Member
  <2>4. Present = ID
    BY <2>3, GoneIsNoMember DEF Present
  <2> QED
    BY <2>3, <2>4, Constants DEF ClusterInit, ClusterInv, LeaderVotes, LiveDataFits, Voters
<1>2. ClusterTypeOK /\ ClusterInv /\ [ClusterNext]_clusterVars => ClusterInv'
  <2> SUFFICES ASSUME ClusterTypeOK, ClusterInv, [ClusterNext]_clusterVars PROVE ClusterInv'
    OBVIOUS
  <2>1. CASE TestFault
    BY <2>1, FaultKeeps DEF TestFault
  <2>2. ASSUME NEW c \in Caller, RunHook(c) PROVE ClusterInv'
    BY <2>2, FaultKeeps DEF RunHook
  <2>3. CASE UNCHANGED <<members, leader>>
    BY <2>3 DEF ClusterInv, LeaderVotes, LiveDataFits, Voters, Present
  <2>4. ASSUME NEW c \in Caller, MoveLeader(c) PROVE ClusterInv'
    <3>1. UNCHANGED members
      BY <2>4 DEF MoveLeader
    <3>2. leader' = leader \/ (Movable(call[c]) /\ leader' = call[c].target)
      BY <2>4 DEF MoveLeader
    <3>3. Voters' = Voters /\ LiveDataFits'
      BY <3>1 DEF ClusterInv, LiveDataFits, Voters, Present
    <3>4. 0 \notin Voters
      BY Constants DEF Voters, Present
    <3> QED
      BY <3>2, <3>3, <3>4 DEF ClusterInv, LeaderVotes, Movable
  <2>5. ASSUME NEW c \in Caller, Defragment(c) PROVE ClusterInv'
    <3> DEFINE i == call[c].endpoint
               m == Defragmented(members[i])
    <3>1. i \in ID /\ UNCHANGED leader
      BY <2>5 DEF Defragment, Ready, ClusterTypeOK, Calls
    <3>2. CASE i \in Present /\ members[i].healthy
      <4>1. members[i] # Gone /\ members[i] \in Member
        BY <3>1, <3>2, MemberUpdated DEF Present
      <4>2. m \in Member /\ m.inUse <= m.size
        BY <4>1 DEF Defragmented, Member
      <4>3. Set(i, m)
        BY <2>5, <3>2 DEF Defragment
      <4> HIDE DEF m, i
      <4> QED
        BY <3>1, <4>1, <4>2, <4>3, ReplacedMember DEF ClusterInv, LeaderVotes
    <3>3. CASE ~(i \in Present /\ members[i].healthy)
      BY <2>3, <2>5, <3>3 DEF Defragment
    <3> QED
      BY <3>2, <3>3
  <2> QED
    BY <2>1, <2>2, <2>3, <2>4, <2>5
    DEF ClusterNext, CallStep, Close, Begin, ReadHooks, RunIdleHook, Injected, Query, clusterVars, cluster
<1> QED
  BY <1>1, <1>2, ClusterTypeCorrect, PTL DEF ClusterSpec

(* The leader is a voting member as long as there is one, for any cluster, *)
(* any number of callers and any faults.                                   *)
THEOREM LeaderAlwaysVotes == ClusterSpec => []LeaderVotes
<1>1. ClusterInv => LeaderVotes
  BY DEF ClusterInv
<1> QED
  BY <1>1, ClusterInvariant, PTL

(* Live data fits its database after any sequence of resizes and           *)
(* defragmentations.                                                       *)
THEOREM LiveDataAlwaysFits == ClusterSpec => []LiveDataFits
<1>1. ClusterInv => LiveDataFits
  BY DEF ClusterInv
<1> QED
  BY <1>1, ClusterInvariant, PTL
==============================================================================
