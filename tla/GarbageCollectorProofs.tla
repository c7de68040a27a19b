------------------------ MODULE GarbageCollectorProofs ------------------------
(***************************************************************************)
(* The collector takes no dependent from a live owner, releases an owner   *)
(* only when nothing names it and keeps orphans, for any owners and        *)
(* dependents and however many writes interleave with its calls.           *)
(***************************************************************************)
EXTENDS GarbageCollector, TLAPS

(* A UID that was given out and whose owner no longer holds on to its      *)
(* dependents; and one that can be adopted no more.                        *)
Known(uid) == uid[2] <= incs[uid[1]]
Dead(uid) == Known(uid) /\ ~Solid(uid)
Frozen(uid) == Known(uid) /\ uid \notin Adoptable
Refs(uid) == {d \in Dependent : store[d] # Gone /\ uid \in store[d].refs}

(* An owner that is being deleted waits for one of the two finalizers. *)
WellFormed(obj) ==
  \/ ~obj.deleting /\ obj.finalizers = {}
  \/ obj.deleting /\ \E f \in Finalizer : obj.finalizers = {f}

(* The API server's objects. *)
WorldInv ==
  /\ \A n \in Name : store[n] # Gone => store[n].inc = incs[n]
  /\ \A d \in Dependent : store[d] # Gone =>
       store[d].finalizers = {} /\ ~store[d].deleting /\ \A uid \in store[d].refs : Known(uid)
  /\ \A o \in Owner : store[o] # Gone => WellFormed(store[o])

ListedDeleting(o) == objs[o] # Gone /\ objs[o].deleting

(* What the Lists showed of owners. *)
ListInv == \A o \in Owner : objs[o] # Gone => WellFormed(objs[o])

Collecting == gc.pc \in {"getLive", "resolve", "decide", "again", "retry"} \/ (gc.pc = "strip" /\ ~Orphaning)

(* Which loop the sweep is in. *)
LoopInv ==
  /\ gc.owner # Gone => ListedDeleting(gc.owner)
  /\ gc.pc \in {"list", "finalizers", "background", "dangling"} => gc.owner = Gone
  /\ gc.pc \in {"foreground", "orphan", "readOwner", "unfinalize"} => gc.owner # Gone
  /\ gc.pc = "orphan" => Orphaning
  /\ Collecting \/ gc.pc = "foreground" => ~Orphaning
  /\ gc.pc \in {"readOwner", "unfinalize"} => gc.item = gc.owner
  /\ gc.pc = "finalizers" \/ gc.owner # Gone => \A o \in gc.todo : o \in Owner /\ ListedDeleting(o)
  /\ gc.pc \in {"background", "dangling"} \/ (Collecting /\ gc.owner = Gone) =>
       \A d \in gc.todo : d \in Dependent /\ objs[d] # Gone

(* What the collector knows of the object in hand. *)
HandInv ==
  /\ gc.pc \in {"list", "finalizers", "foreground", "orphan", "background", "dangling", "getLive"} =>
       gc.live = Gone /\ ~gc.solid /\ gc.drop = {}
  /\ gc.pc \in {"dangling", "getLive", "resolve", "decide", "again", "retry", "strip"} => gc.item \in Dependent
  /\ gc.pc \in {"resolve", "decide", "again", "retry", "strip", "unfinalize"} => gc.live # Gone
  /\ gc.live # Gone /\ ~stale => store[gc.item] = gc.live
  /\ Collecting /\ gc.pc # "getLive" =>
       /\ \A uid \in gc.drop : Dead(uid)
       /\ ~gc.solid => gc.live.refs \subseteq gc.refs \cup gc.drop
       /\ gc.refs \subseteq gc.live.refs /\ \A uid \in gc.refs : Known(uid)
  /\ gc.pc \in {"decide", "again", "retry"} => ~gc.solid /\ gc.refs = {}
  /\ gc.pc = "strip" /\ Orphaning => gc.drop = {OwnerUID}
  /\ gc.pc = "unfinalize" =>
       /\ gc.live.inc = objs[gc.owner].inc /\ gc.live.deleting
       /\ gc.live.finalizers = objs[gc.owner].finalizers

CollectorInv == WorldInv /\ ListInv /\ LoopInv /\ HandInv

Shown(d) == gc.pc # "list" \/ \E i \in DOMAIN WatchedKinds : i < gc.kind /\ d \in WatchedKinds[i]

ListedUID(o) == <<o, objs[o].inc>>

(* A deleting owner that was listed gets no new dependents, and those it   *)
(* still has were listed as such, if the Lists show them no sooner than it.*)
SnapshotInv ==
  \A o \in Owner : ListedDeleting(o) =>
    /\ Frozen(ListedUID(o))
    /\ \A d \in Refs(ListedUID(o)) : Shown(d) /\ ListedNoSooner(d, o) => d \in Listed(ListedUID(o))

(* Of the owner at hand, the dependents still to be visited and those the  *)
(* sweep cannot know of.                                                   *)
ReleaseInv ==
  /\ gc.owner # Gone /\ gc.clear =>
       Refs(OwnerUID) \subseteq gc.deps \cup Missable(OwnerUID)
                              \cup (IF gc.pc = "strip" THEN {gc.item} ELSE {})
  /\ gc.owner # Gone /\ Collecting => ~gc.clear
  /\ gc.pc \in {"readOwner", "unfinalize"} => Refs(OwnerUID) \subseteq Missable(OwnerUID)

OrphanInv ==
  \A uid \in orphaned :
    \/ Exists(uid) /\ store[uid[1]].finalizers = {"orphan"}
    \/ Frozen(uid) /\ \A d \in Refs(uid) : <<d, uid>> \in missed

DeletionInv == SnapshotInv /\ ReleaseInv /\ OrphanInv
------------------------------------------------------------------------------
GcPc == {"list", "finalizers", "foreground", "orphan", "background", "dangling", "getLive",
         "resolve", "decide", "again", "retry", "strip", "readOwner", "unfinalize"}
Held == Object \cup {Gone}
GcState ==
  [pc : GcPc, kind : 1 .. Len(WatchedKinds), todo : SUBSET Name, owner : Owner \cup {Gone},
   deps : SUBSET Dependent, clear : BOOLEAN, item : Name \cup {Gone}, live : Held,
   refs : SUBSET UID, solid : BOOLEAN, drop : SUBSET UID, tries : 0 .. Retries]

(* TypeOK, its parts named. *)
Types ==
  /\ store \in [Name -> Held] /\ objs \in [Name -> Held] /\ incs \in [Name -> 0 .. MaxInc]
  /\ stale \in BOOLEAN
  /\ cache \in [Owner -> Resolution \cup {Gone}]
  /\ gc \in GcState
  /\ writes \in 0 .. MaxDisturbances /\ faults \in 0 .. MaxFaults
  /\ orphaned \subseteq UID /\ missed \subseteq Dependent \X UID

LEMMA TypesAre == TypeOK <=> Types
  BY DEF TypeOK, Types, GcState, GcPc, Held

LEMMA StartTyped == Start \in GcState
<1>1. Len(WatchedKinds) \in Nat /\ Len(WatchedKinds) >= 1
  BY GarbageCollectorAssumption
<1>2. 0 \in 0 .. Retries
  BY GarbageCollectorAssumption
<1>3. 1 \in 1 .. Len(WatchedKinds)
  BY <1>1
<1>4. "list" \in GcPc /\ Gone \in Held
  BY DEF GcPc, Held
<1>5. FALSE \in BOOLEAN /\ TRUE \in BOOLEAN
  BY Zenon
<1> QED
  BY <1>2, <1>3, <1>4, <1>5 DEF Start, GcState

LEMMA IdleTyped ==
  ASSUME gc \in GcState
  PROVE  /\ Idle \in GcState
         /\ \A loc \in GcPc : [Idle EXCEPT !.pc = loc] \in GcState
<1>2. 0 \in 0 .. Retries
  BY GarbageCollectorAssumption
<1> QED
  BY <1>2 DEF Idle, GcState, Held

LEMMA LoopTyped == Loop \in GcPc
  BY DEF Loop, GcPc

(* A sweep's control state keeps its type. *)
LEMMA SweepTyped ==
  ASSUME Types, LoopInv, HandInv, Sweep \/ ApiFails
  PROVE  gc' \in GcState
<1> USE DEF Types
<1>0. "list" \in GcPc /\ "finalizers" \in GcPc /\ "foreground" \in GcPc /\ "orphan" \in GcPc
      /\ "background" \in GcPc /\ "dangling" \in GcPc /\ "getLive" \in GcPc /\ "resolve" \in GcPc
      /\ "decide" \in GcPc /\ "again" \in GcPc /\ "retry" \in GcPc /\ "strip" \in GcPc
      /\ "readOwner" \in GcPc /\ "unfinalize" \in GcPc
  BY DEF GcPc
<1>a. ASSUME NEW loc \in GcPc, Done(loc) PROVE gc' \in GcState
  BY <1>a, IdleTyped DEF Done
<1>b. ASSUME NEW loc \in GcPc, Goto(loc) PROVE gc' \in GcState
  BY <1>b DEF Goto, GcState
<1>c. NextOwner => gc' \in GcState
  BY <1>0, IdleTyped DEF NextOwner, GcState
<1>1. CASE listWatched
  <2>1. CASE gc.kind < Len(WatchedKinds)
    <3>1. gc.kind + 1 \in 1 .. Len(WatchedKinds)
      BY <2>1, GarbageCollectorAssumption DEF GcState
    <3> QED
      BY <1>1, <2>1, <3>1 DEF listWatched, GcState
  <2>2. CASE ~(gc.kind < Len(WatchedKinds))
    <3> DEFINE todo == {n \in Owner : objs'[n] # Gone /\ objs'[n].deleting}
    <3>1. gc' = [Start EXCEPT !.pc = "finalizers", !.todo = todo]
      BY <1>1, <2>2 DEF listWatched
    <3>2. todo \subseteq Name
      BY DEF Name
    <3> HIDE DEF todo
    <3> QED
      BY <1>0, <3>1, <3>2, StartTyped DEF GcState
  <2> QED
    BY <2>1, <2>2
<1>2. CASE PickOwner
  <2>1. gc.pc = "finalizers"
    BY <1>2 DEF PickOwner
  <2>2. PICK o \in gc.todo :
          gc' = [gc EXCEPT !.todo = @ \ {o},
                        !.pc = IF "foreground" \in objs[o].finalizers THEN "foreground" ELSE "orphan",
                        !.owner = o, !.deps = Listed(<<o, objs[o].inc>>), !.clear = TRUE]
    BY <1>2 DEF PickOwner
  <2>3. o \in Owner
    BY <2>1, <2>2 DEF LoopInv
  <2>4. Listed(<<o, objs[o].inc>>) \in SUBSET Dependent
    BY DEF Listed
  <2>5. TRUE \in BOOLEAN
    BY Zenon
  <2> QED
    BY <1>0, <2>2, <2>3, <2>4, <2>5 DEF GcState
<1>3. CASE FinalizersDone
  <2> DEFINE todo == {d \in Dependent : objs[d] # Gone /\ objs[d].refs # {}}
  <2>1. gc' = [Start EXCEPT !.pc = "background", !.todo = todo]
    BY <1>3 DEF FinalizersDone
  <2>2. todo \subseteq Name
    BY DEF Name
  <2> HIDE DEF todo
  <2> QED
    BY <1>0, <2>1, <2>2, StartTyped DEF GcState
<1>4. CASE PickDependent
  <2>1. PICK d \in gc.todo : gc' = [gc EXCEPT !.todo = @ \ {d}, !.pc = "dangling", !.item = d, !.refs = objs[d].refs]
    BY <1>4 DEF PickDependent
  <2>2. objs[d] \in Object /\ d \in Name
    BY <1>4 DEF PickDependent, LoopInv, Held, GcState, Name
  <2>3. objs[d].refs \in SUBSET UID
    BY <2>2 DEF Object
  <2> QED
    BY <1>0, <2>1, <2>2, <2>3 DEF GcState
<1>5. CASE ownerDangling
  <2>1. PICK uid \in gc.refs : gc' = [gc EXCEPT !.refs = @ \ {uid}] \/ Done("background")
    BY <1>5 DEF ownerDangling
  <2> QED
    BY <1>0, <1>a, <2>1 DEF GcState
<1>6. CASE AllDangling
  BY <1>0, <1>6, <1>b DEF AllDangling
<1>7. CASE SweepDone
  BY <1>7, StartTyped DEF SweepDone
<1>8. CASE GetLive
  <2>1. CASE Done(Loop)
    BY <1>a, <2>1, LoopTyped
  <2>2. CASE ~Done(Loop)
    <3>1. store[gc.item] # Gone /\ gc.pc = "getLive"
          /\ gc' = [gc EXCEPT !.pc = "resolve", !.live = store[gc.item], !.refs = store[gc.item].refs]
      BY <1>8, <2>2 DEF GetLive
    <3>2. store[gc.item] \in Object /\ store[gc.item] \in Held
      BY <3>1 DEF HandInv, Held, Name
    <3>3. store[gc.item].refs \in SUBSET UID
      BY <3>2 DEF Object
    <3> QED
      BY <1>0, <3>1, <3>2, <3>3 DEF GcState
  <2> QED
    BY <2>1, <2>2
<1>9. CASE resolveOwner
  <2>1. PICK uid \in gc.refs : Classify(uid, Lookup(uid))
    BY <1>9 DEF resolveOwner
  <2>2. TRUE \in BOOLEAN
    BY Zenon
  <2>3. uid \in UID
    BY DEF GcState
  <2>4. \/ gc' = [gc EXCEPT !.refs = @ \ {uid}, !.drop = @ \cup {uid}]
        \/ gc' = [gc EXCEPT !.refs = @ \ {uid}, !.solid = TRUE]
    BY <2>1 DEF Classify
  <2>5. gc.refs \ {uid} \in SUBSET UID /\ gc.drop \cup {uid} \in SUBSET UID
    BY <2>3 DEF GcState
  <2> QED
    BY <2>2, <2>4, <2>5, ZenonT(60) DEF GcState
<1>10. CASE Resolved
  <2>1. Done(Loop) \/ Goto("strip") \/ Goto("decide")
    BY <1>10 DEF Resolved
  <2> QED
    BY <1>0, <1>a, <1>b, <2>1, LoopTyped
<1>11. CASE deleteLive
  BY <1>0, <1>a, <1>b, <1>11, LoopTyped DEF deleteLive
<1>12. CASE ReadAgain
  BY <1>0, <1>a, <1>b, <1>12, LoopTyped DEF ReadAgain
<1>13. CASE RetryDelete
  BY <1>a, <1>13, LoopTyped DEF RetryDelete
<1>14. CASE Strip
  BY <1>a, <1>14, LoopTyped DEF Strip
<1>15. CASE CollectNext
  <2>1. PICK d \in gc.deps : gc' = [gc EXCEPT !.deps = @ \ {d}, !.pc = "getLive", !.item = d, !.clear = FALSE]
    BY <1>15 DEF CollectNext
  <2>2. FALSE \in BOOLEAN
    BY Zenon
  <2> QED
    BY <1>0, <2>1, <2>2 DEF GcState, Name
<1>16. CASE ReadDependent
  <2>0. gc.pc = "orphan"
    BY <1>16 DEF ReadDependent
  <2>1. PICK d \in gc.deps :
          LET next == [gc EXCEPT !.deps = @ \ {d}]
          IN \/ gc' = next
             \/ store[d] # Gone
                /\ gc' = [next EXCEPT !.pc = "strip", !.item = d, !.live = store[d], !.drop = {OwnerUID}]
    BY <1>16 DEF ReadDependent
  <2>2. d \in Name
    BY DEF GcState, Name
  <2>3. store[d] \in Held
    BY <2>2
  <2>4. gc.owner \in Owner /\ objs[gc.owner] # Gone
    BY <2>0 DEF GcState, LoopInv, ListedDeleting
  <2>5. objs[gc.owner] \in Object
    BY <2>4 DEF Held, Name
  <2>6. OwnerUID \in UID
    BY <2>4, <2>5 DEF OwnerUID, UID, Object
  <2>7. [gc EXCEPT !.deps = @ \ {d}] \in GcState
    BY DEF GcState
  <2> HIDE DEF Types
  <2> DEFINE next == [gc EXCEPT !.deps = @ \ {d}]
  <2>8. \/ gc' = next
        \/ gc' = [next EXCEPT !.pc = "strip", !.item = d, !.live = store[d], !.drop = {OwnerUID}]
    BY <2>1
  <2>9. {OwnerUID} \in SUBSET UID
    BY <2>6
  <2> HIDE DEF next
  <2>10. next \in GcState
    BY <2>7 DEF next
  <2> QED
    BY <1>0, <2>2, <2>3, <2>8, <2>9, <2>10 DEF GcState
<1>17. CASE OrphanStrip
  <2>1. gc' = [Idle EXCEPT !.pc = "orphan", !.clear = Unclear]
    BY <1>17 DEF OrphanStrip
  <2>2. Unclear \in BOOLEAN
    BY Zenon DEF Unclear
  <2> QED
    BY <1>0, <2>1, <2>2, IdleTyped DEF GcState
<1>18. CASE DependentsDone
  <2>1. Retries \in 0 .. Retries
    BY GarbageCollectorAssumption
  <2>2. gc.owner \in Owner
    BY <1>18 DEF DependentsDone, LoopInv, GcState
  <2>3. TRUE \in BOOLEAN
    BY Zenon
  <2>4. \/ gc' = [gc EXCEPT !.pc = "readOwner", !.item = gc.owner, !.tries = Retries]
        \/ gc' = [gc EXCEPT !.pc = "finalizers", !.owner = Gone, !.clear = TRUE]
    BY <1>18 DEF DependentsDone
  <2>5. gc.owner \in Name
    BY <2>2 DEF Name
  <2> QED
    BY <1>0, <2>1, <2>3, <2>4, <2>5, ZenonT(60) DEF GcState
<1>19. CASE ReadOwner
  <2>1. CASE NextOwner
    BY <1>c, <2>1
  <2>2. CASE ~NextOwner
    <3>1. gc' = [gc EXCEPT !.pc = "unfinalize", !.live = store[gc.owner]] /\ gc.pc = "readOwner"
      BY <1>19, <2>2 DEF ReadOwner
    <3>2. store[gc.owner] \in Held
      BY <3>1 DEF LoopInv, GcState, Name
    <3> QED
      BY <1>0, <3>1, <3>2 DEF GcState
  <2> QED
    BY <2>1, <2>2
<1>20. CASE removeFinalizer
  <2>1. CASE NextOwner
    BY <1>c, <2>1
  <2>2. CASE ~NextOwner
    <3>1. gc.tries > 1 /\ gc' = [gc EXCEPT !.pc = "readOwner", !.tries = @ - 1]
      BY <1>20, <2>2 DEF removeFinalizer, MoreTries
    <3>2. gc.tries - 1 \in 0 .. Retries
      BY <3>1, GarbageCollectorAssumption DEF GcState
    <3> QED
      BY <1>0, <3>1, <3>2 DEF GcState
  <2> QED
    BY <2>1, <2>2
<1>21. CASE ApiFails
  <2>1. CASE gc' = Start
    BY <2>1, StartTyped
  <2>2. CASE Done("background") \/ Done(Loop)
    BY <1>0, <1>a, <2>2, LoopTyped
  <2>3. CASE NextOwner
    BY <1>c, <2>3
  <2>4. CASE \E d \in gc.deps : gc' = [gc EXCEPT !.deps = @ \ {d}, !.clear = FALSE]
    <3>1. FALSE \in BOOLEAN
      BY Zenon
    <3> QED
      BY <2>4, <3>1 DEF GcState
  <2>5. CASE gc' = [Idle EXCEPT !.pc = "orphan", !.clear = FALSE]
    <3>1. FALSE \in BOOLEAN
      BY Zenon
    <3> QED
      BY <1>0, <2>5, <3>1, IdleTyped DEF GcState
  <2> QED
    BY <1>21, <2>1, <2>2, <2>3, <2>4, <2>5 DEF ApiFails
<1> QED
  BY <1>1, <1>2, <1>3, <1>4, <1>5, <1>6, <1>7, <1>8, <1>9, <1>10, <1>11, <1>12, <1>13, <1>14,
     <1>15, <1>16, <1>17, <1>18, <1>19, <1>20, <1>21 DEF Sweep
------------------------------------------------------------------------------
(* The three writes of a sweep. *)
Collects ==
  /\ gc.pc \in {"decide", "retry"} /\ (gc.pc = "decide" => ~stale)
  /\ gc.item \in Dependent /\ store[gc.item] # Gone
  /\ store' = [store EXCEPT ![gc.item] = Gone]

Strips ==
  /\ gc.pc = "strip" /\ ~stale
  /\ gc.item \in Dependent /\ store[gc.item] # Gone /\ store[gc.item] = gc.live
  /\ store' = [store EXCEPT ![gc.item] = [store[gc.item] EXCEPT !.refs = gc.live.refs \ gc.drop]]

Releases ==
  /\ gc.pc = "unfinalize"
  /\ gc.owner \in Owner /\ store[gc.owner] # Gone /\ store[gc.owner] = gc.live
  /\ store' = [store EXCEPT ![gc.owner] = Gone]

LEMMA SweepWrites ==
  ASSUME Types, WorldInv, LoopInv, HandInv, ListInv, Sweep \/ ApiFails
  PROVE  /\ store' = store \/ Collects \/ Strips \/ Releases
         /\ UNCHANGED <<incs, writes, orphaned>>
<1> USE DEF Types, quiet
<1>0. UNCHANGED <<incs, writes, orphaned>>
  BY DEF Sweep, ApiFails, listWatched, PickOwner, FinalizersDone, PickDependent, ownerDangling,
    AllDangling, SweepDone, GetLive, resolveOwner, Resolved, deleteLive, ReadAgain, RetryDelete,
    Strip, CollectNext, ReadDependent, OrphanStrip, DependentsDone, ReadOwner, removeFinalizer
<1>1. CASE UNCHANGED store
  BY <1>0, <1>1
<1>2. ASSUME deleteLive \/ RetryDelete, store' # store PROVE Collects
  <2>1. gc.pc \in {"decide", "retry"} /\ gc.item \in Dependent
    BY <1>2 DEF deleteLive, RetryDelete, HandInv
  <2>2. store[gc.item] # Gone /\ (gc.pc = "decide" => ~stale)
        /\ store' = [store EXCEPT ![gc.item] = Deleted(gc.item)]
    BY <1>2 DEF deleteLive, RetryDelete, SameObject
  <2>3. store[gc.item].finalizers = {}
    BY <2>1, <2>2 DEF WorldInv
  <2> QED
    BY <2>1, <2>2, <2>3 DEF Collects, Deleted
<1>3. ASSUME Strip \/ OrphanStrip, store' # store PROVE Strips
  <2>1. gc.pc = "strip" /\ gc.item \in Dependent /\ gc.live # Gone
    BY <1>3 DEF Strip, OrphanStrip, HandInv
  <2>2. ~stale /\ store[gc.item] # Gone
        /\ store' = [store EXCEPT ![gc.item].refs = gc.live.refs \ gc.drop]
    BY <1>3 DEF Strip, OrphanStrip, stripOwnerRefs
  <2>3. store[gc.item] = gc.live
    BY <2>1, <2>2 DEF HandInv
  <2> QED
    BY <2>1, <2>2, <2>3 DEF Strips
<1>4. ASSUME removeFinalizer, store' # store PROVE Releases
  <2>1. gc.pc = "unfinalize" /\ gc.item = gc.owner /\ gc.live # Gone
    BY <1>4 DEF removeFinalizer, LoopInv, HandInv
  <2>2. ~stale /\ store[gc.owner] # Gone
        /\ store' = [store EXCEPT ![gc.owner] =
             IF gc.live.finalizers \ objs[gc.owner].finalizers = {} /\ @.deleting THEN Gone
             ELSE [@ EXCEPT !.finalizers = gc.live.finalizers \ objs[gc.owner].finalizers]]
    BY <1>4 DEF removeFinalizer
  <2>3. gc.owner \in Owner
    BY <2>1 DEF LoopInv, GcState
  <2>4. store[gc.owner] = gc.live
    BY <2>1, <2>2 DEF HandInv
  <2>5. gc.live.finalizers \ objs[gc.owner].finalizers = {} /\ gc.live.deleting
    BY <2>1 DEF HandInv
  <2> QED
    BY <2>1, <2>2, <2>3, <2>4, <2>5 DEF Releases
<1>5. \/ UNCHANGED store
      \/ deleteLive \/ RetryDelete \/ Strip \/ OrphanStrip \/ removeFinalizer
  BY DEF Sweep, ApiFails, listWatched, PickOwner, FinalizersDone, PickDependent, ownerDangling,
    AllDangling, SweepDone, GetLive, resolveOwner, Resolved, ReadAgain,
    CollectNext, ReadDependent, DependentsDone, ReadOwner
<1> QED
  BY <1>0, <1>1, <1>2, <1>3, <1>4, <1>5

(* What a step does to one owner and to one dependent, whoever takes it. *)
OwnerStep(o) ==
  \/ store'[o] = store[o] /\ incs'[o] = incs[o]
  \/ store'[o] = Gone /\ incs'[o] = incs[o]
  \/ /\ store[o] = Gone /\ store'[o] = Fresh(incs[o] + 1, {}) /\ incs'[o] = incs[o] + 1
  \/ /\ store[o] # Gone /\ ~store[o].deleting /\ incs'[o] = incs[o]
     /\ \E f \in Finalizer :
          store'[o] = [store[o] EXCEPT !.deleting = TRUE, !.finalizers = {f}]

DependentStep(d) ==
  \/ store'[d] = store[d] /\ incs'[d] = incs[d]
  \/ store'[d] = Gone /\ incs'[d] = incs[d]
  \/ /\ store[d] = Gone /\ incs'[d] = incs[d] + 1
     /\ \E refs \in SUBSET Adoptable : store'[d] = Fresh(incs[d] + 1, refs)
  \/ /\ store[d] # Gone /\ incs'[d] = incs[d]
     /\ \E refs \in SUBSET (store[d].refs \cup Adoptable) :
          store'[d] = [store[d] EXCEPT !.refs = refs]

WorldStep == (\A o \in Owner : OwnerStep(o)) /\ (\A d \in Dependent : DependentStep(d))

LEMMA OthersStep ==
  ASSUME Types, Others
  PROVE  WorldStep /\ store' \in [Name -> Held] /\ incs' \in [Name -> 0 .. MaxInc]
         /\ orphaned' \subseteq UID
<1> USE DEF Types
<1>0. Name = Owner \cup Dependent /\ Owner \cap Dependent = {} /\ MaxInc \in Nat
  BY GarbageCollectorAssumption DEF Name
<1>1. ASSUME NEW n \in Name, NEW obj \in Held, OthersWrite(n, obj)
      PROVE  store' \in [Name -> Held] /\ store' = [store EXCEPT ![n] = obj]
  BY <1>1 DEF OthersWrite
<1>2. ASSUME NEW n \in Name, NEW refs \in SUBSET Adoptable, Create(n, refs)
      PROVE  WorldStep /\ store' \in [Name -> Held] /\ incs' \in [Name -> 0 .. MaxInc]
             /\ orphaned' \subseteq UID
  <2>1. refs \subseteq UID
    BY DEF Adoptable
  <2>2. store[n] = Gone /\ incs[n] < MaxInc /\ OthersWrite(n, Fresh(incs[n] + 1, refs))
        /\ incs' = [incs EXCEPT ![n] = @ + 1] /\ (n \in Owner => refs = {}) /\ orphaned' = orphaned
    BY <1>2 DEF Create
  <2>3. incs[n] + 1 \in 1 .. MaxInc
    BY <1>0, <2>2
  <2>4. Fresh(incs[n] + 1, refs) \in Held
    <3>1. {} \in SUBSET Finalizer /\ FALSE \in BOOLEAN
      BY Zenon
    <3> QED
      BY <2>1, <2>3, <3>1 DEF Fresh, Object, Held
  <2>5. store' = [store EXCEPT ![n] = Fresh(incs[n] + 1, refs)] /\ store' \in [Name -> Held]
    BY <1>1, <2>2, <2>4
  <2>6. \A m \in Name : m # n => store'[m] = store[m] /\ incs'[m] = incs[m]
    BY <2>2, <2>5
  <2>7. store'[n] = Fresh(incs[n] + 1, refs) /\ incs'[n] = incs[n] + 1
    BY <2>2, <2>5
  <2>8. incs' \in [Name -> 0 .. MaxInc]
    BY <2>2, <2>3
  <2>9. \A o \in Owner : OwnerStep(o)
    BY <1>0, <2>2, <2>6, <2>7 DEF OwnerStep
  <2>10. \A d \in Dependent : DependentStep(d)
    BY <1>0, <2>2, <2>6, <2>7 DEF DependentStep
  <2> QED
    BY <2>2, <2>5, <2>8, <2>9, <2>10 DEF WorldStep
<1>3. ASSUME NEW d \in Dependent, NEW uid \in Adoptable, Adopt(d, uid)
      PROVE  WorldStep /\ store' \in [Name -> Held] /\ incs' = incs /\ orphaned' = orphaned
  <2> DEFINE obj == [store[d] EXCEPT !.refs = @ \cup {uid}]
  <2>1. store[d] \in Object /\ uid \in UID
    BY <1>0, <1>3 DEF Adopt, Held, Adoptable
  <2>2. obj \in Held
    BY <2>1 DEF Object, Held
  <2>3. store' = [store EXCEPT ![d] = obj] /\ store' \in [Name -> Held] /\ UNCHANGED <<incs, orphaned>>
    BY <1>0, <1>1, <1>3, <2>2 DEF Adopt
  <2>4. \A m \in Name : m # d => store'[m] = store[m] /\ incs'[m] = incs[m]
    BY <2>3
  <2>5. store'[d] = [store[d] EXCEPT !.refs = store[d].refs \cup {uid}] /\ incs'[d] = incs[d]
    BY <1>0, <2>1, <2>3 DEF Object
  <2>6. DependentStep(d)
    <3>1. store[d].refs \cup {uid} \in SUBSET (store[d].refs \cup Adoptable)
      OBVIOUS
    <3>2. store[d] # Gone
      BY <1>3 DEF Adopt
    <3> QED
      BY <2>5, <3>1, <3>2 DEF DependentStep
  <2> QED
    BY <1>0, <2>3, <2>4, <2>6, ZenonT(60) DEF WorldStep, OwnerStep, DependentStep
<1>4. ASSUME NEW n \in Name, Touch(n)
      PROVE  WorldStep /\ store' \in [Name -> Held] /\ incs' = incs /\ orphaned' = orphaned
  <2>1. OthersWrite(n, store[n]) /\ UNCHANGED <<incs, orphaned>> /\ store[n] \in Held
    BY <1>4 DEF Touch
  <2>2. store' = [store EXCEPT ![n] = store[n]] /\ store' \in [Name -> Held]
    BY <1>1, <2>1
  <2>3. \A m \in Name : store'[m] = store[m] /\ incs'[m] = incs[m]
    BY <2>1, <2>2
  <2> QED
    BY <1>0, <2>1, <2>2, <2>3 DEF WorldStep, OwnerStep, DependentStep
<1>5. ASSUME NEW o \in Owner, Release(o)
      PROVE  WorldStep /\ store' \in [Name -> Held] /\ incs' = incs /\ orphaned' \subseteq UID
  <2>1. Gone \in Held
    BY DEF Held
  <2>2. OthersWrite(o, Gone) /\ incs' = incs /\ orphaned' \subseteq UID
    BY <1>5 DEF Release
  <2>3. store' = [store EXCEPT ![o] = Gone] /\ store' \in [Name -> Held]
    BY <1>0, <1>1, <2>1, <2>2
  <2> QED
    BY <1>0, <2>2, <2>3 DEF WorldStep, OwnerStep, DependentStep
<1>6. ASSUME NEW n \in Name, NEW policy \in {{}, {"foreground"}, {"orphan"}}, Delete(n, policy)
      PROVE  WorldStep /\ store' \in [Name -> Held] /\ incs' = incs /\ orphaned' \subseteq UID
  <2>1. store[n] \in Object /\ ~store[n].deleting /\ incs' = incs
    BY <1>6 DEF Delete, Held
  <2>2. CASE policy = {}
    <3>1. Gone \in Held
      BY DEF Held
    <3>2. store' = [store EXCEPT ![n] = Gone] /\ store' \in [Name -> Held]
      BY <1>1, <1>6, <2>2, <3>1 DEF Delete
    <3>3. orphaned' = orphaned
      BY <1>6, <2>2 DEF Delete
    <3> QED
      BY <1>0, <2>1, <3>2, <3>3 DEF WorldStep, OwnerStep, DependentStep
  <2>3. CASE policy # {}
    <3> DEFINE obj == [store[n] EXCEPT !.deleting = TRUE, !.finalizers = policy]
    <3>1. n \in Owner
      BY <1>0, <1>6, <2>3 DEF Delete
    <3>2. PICK f \in Finalizer : policy = {f}
      BY <2>3 DEF Finalizer
    <3>3. obj \in Held
      <4>1. TRUE \in BOOLEAN
        BY Zenon
      <4> QED
        BY <2>1, <3>2, <4>1 DEF Object, Held
    <3>4. store' = [store EXCEPT ![n] = obj] /\ store' \in [Name -> Held]
      BY <1>1, <1>6, <2>3, <3>3 DEF Delete
    <3>5. store'[n] = obj /\ \A m \in Name : m # n => store'[m] = store[m]
      BY <3>4
    <3>6. OwnerStep(n)
      BY <1>6, <2>1, <3>2, <3>5 DEF OwnerStep, Delete
    <3>7. <<n, store[n].inc>> \in UID
      BY <2>1, <3>1 DEF Object, UID
    <3>8. orphaned' \subseteq UID
      BY <1>6, <3>7 DEF Delete
    <3> QED
      BY <1>0, <2>1, <3>1, <3>4, <3>5, <3>6, <3>8, ZenonT(60) DEF WorldStep, OwnerStep, DependentStep
  <2> QED
    BY <2>2, <2>3
<1> QED
  BY <1>2, <1>3, <1>4, <1>5, <1>6 DEF Others

LEMMA SweepStepsWorld ==
  ASSUME Types, store' = store \/ Collects \/ Strips \/ Releases, incs' = incs
  PROVE  WorldStep /\ store' \in [Name -> Held]
<1> USE DEF Types
<1>0. Name = Owner \cup Dependent /\ Owner \cap Dependent = {} /\ Gone \in Held
  BY GarbageCollectorAssumption DEF Name, Held
<1>1. CASE store' = store
  BY <1>0, <1>1 DEF WorldStep, OwnerStep, DependentStep
<1>2. CASE Collects
  BY <1>0, <1>2 DEF Collects, WorldStep, OwnerStep, DependentStep
<1>3. CASE Strips
  <2> DEFINE refs == gc.live.refs \ gc.drop
             obj == [store[gc.item] EXCEPT !.refs = refs]
  <2>1. gc.item \in Dependent /\ store' = [store EXCEPT ![gc.item] = obj]
        /\ store[gc.item] = gc.live /\ store[gc.item] # Gone
    BY <1>3 DEF Strips
  <2>2. store[gc.item] \in Object /\ refs \in SUBSET store[gc.item].refs
    BY <1>0, <2>1 DEF Held
  <2>3. obj \in Held
    BY <2>2 DEF Object, Held
  <2>4. store'[gc.item] = obj /\ \A m \in Name : m # gc.item => store'[m] = store[m]
    BY <1>0, <2>1
  <2>5. DependentStep(gc.item)
    BY <2>1, <2>2, <2>4 DEF DependentStep
  <2>6. store' \in [Name -> Held]
    BY <1>0, <2>1, <2>3
  <2>7. \A m \in Name : m # gc.item => store'[m] = store[m] /\ incs'[m] = incs[m]
    BY <2>4
  <2>8. \A o \in Owner : OwnerStep(o)
    BY <1>0, <2>1, <2>7 DEF OwnerStep
  <2>9. \A d \in Dependent : d # gc.item => DependentStep(d)
    BY <1>0, <2>7 DEF DependentStep
  <2> QED
    BY <2>5, <2>6, <2>8, <2>9 DEF WorldStep
<1>4. CASE Releases
  BY <1>0, <1>4 DEF Releases, WorldStep, OwnerStep, DependentStep
<1> QED
  BY <1>1, <1>2, <1>3, <1>4

LEMMA UidParts ==
  ASSUME NEW uid \in UID
  PROVE  uid[1] \in Owner /\ uid[1] \in Name /\ uid[2] \in 1 .. MaxInc /\ uid[2] \in Nat
  BY GarbageCollectorAssumption DEF UID, Name

(* A UID that was given out stays so; once no owner stands behind it, none *)
(* ever will; and once it can be adopted no more, its referrers only go.   *)
LEMMA UidStep ==
  ASSUME Types, Types', WorldInv, WorldStep, NEW uid \in UID, Known(uid)
  PROVE  /\ Known(uid)'
         /\ Dead(uid) => Dead(uid)'
         /\ Frozen(uid) => Frozen(uid)'
<1> DEFINE o == uid[1]
<1>0. o \in Owner /\ o \in Name /\ uid[2] \in Nat /\ incs[o] \in Nat /\ incs'[o] \in Nat
  BY UidParts, GarbageCollectorAssumption DEF Types
<1>1. OwnerStep(o)
  BY <1>0 DEF WorldStep
<1>2. uid[2] <= incs[o]
  BY DEF Known
<1>3. (store[o] # Gone => store[o] \in Object) /\ (store'[o] # Gone => store'[o] \in Object)
  BY <1>0 DEF Types, Held
<1>4. Solid(uid) <=> /\ store[o] # Gone /\ store[o].inc = uid[2]
                     /\ ~(store[o].deleting /\ "foreground" \in store[o].finalizers)
  BY DEF Solid, Exists
<1>5. Solid(uid)' <=> /\ store'[o] # Gone /\ store'[o].inc = uid[2]
                      /\ ~(store'[o].deleting /\ "foreground" \in store'[o].finalizers)
  BY DEF Solid, Exists
<1>6. uid \in Adoptable <=> store[o] # Gone /\ store[o].inc = uid[2] /\ ~store[o].deleting
  BY DEF Adoptable, Exists
<1>7. (uid \in Adoptable)' <=> store'[o] # Gone /\ store'[o].inc = uid[2] /\ ~store'[o].deleting
  BY DEF Adoptable, Exists
<1> HIDE DEF o
<1>8. CASE store'[o] = store[o] /\ incs'[o] = incs[o]
  BY <1>0, <1>2, <1>4, <1>5, <1>6, <1>7, <1>8 DEF o, Known, Dead, Frozen
<1>9. CASE store'[o] = Gone /\ incs'[o] = incs[o]
  BY <1>0, <1>2, <1>5, <1>7, <1>9 DEF o, Known, Dead, Frozen
<1>10. CASE store[o] = Gone /\ store'[o] = Fresh(incs[o] + 1, {}) /\ incs'[o] = incs[o] + 1
  <2>1. store'[o].inc = incs[o] + 1
    BY <1>10 DEF Fresh
  <2> QED
    BY <1>0, <1>2, <1>5, <1>7, <1>10, <2>1 DEF o, Known, Dead, Frozen
<1>11. CASE /\ store[o] # Gone /\ ~store[o].deleting /\ incs'[o] = incs[o]
            /\ \E f \in Finalizer :
                 store'[o] = [store[o] EXCEPT !.deleting = TRUE, !.finalizers = {f}]
  <2>1. store'[o].inc = store[o].inc /\ store'[o].deleting
    BY <1>3, <1>11 DEF Object
  <2> QED
    BY <1>0, <1>2, <1>4, <1>5, <1>6, <1>7, <1>11, <2>1 DEF o, Known, Dead, Frozen
<1> QED
  BY <1>1, <1>8, <1>9, <1>10, <1>11 DEF OwnerStep

LEMMA ReferrersShrink ==
  ASSUME Types, Types', WorldStep, NEW uid \in UID, Frozen(uid)
  PROVE  \A d \in Refs(uid)' : d \in Refs(uid)
<1> SUFFICES ASSUME NEW d \in Dependent, store'[d] # Gone, uid \in store'[d].refs
             PROVE  store[d] # Gone /\ uid \in store[d].refs
  BY DEF Refs
<1>0. uid \notin Adoptable
  BY DEF Frozen
<1>1. DependentStep(d) /\ d \in Name
  BY DEF WorldStep, Name
<1>2. CASE store'[d] = store[d]
  BY <1>2
<1>3. CASE \E refs \in SUBSET Adoptable : store'[d] = Fresh(incs[d] + 1, refs)
  BY <1>0, <1>3 DEF Fresh
<1>4. CASE /\ store[d] # Gone
           /\ \E refs \in SUBSET (store[d].refs \cup Adoptable) :
                store'[d] = [store[d] EXCEPT !.refs = refs]
  <2>1. store[d] \in Object
    BY <1>1, <1>4 DEF Types, Held
  <2> QED
    BY <1>0, <1>4, <2>1 DEF Object
<1> QED
  BY <1>1, <1>2, <1>3, <1>4 DEF DependentStep

LEMMA WorldInvKept ==
  ASSUME Types, Types', WorldInv, WorldStep
  PROVE  WorldInv'
<1>0. Name = Owner \cup Dependent /\ Owner \cap Dependent = {}
  BY GarbageCollectorAssumption DEF Name
<1>1. ASSUME NEW o \in Owner, store'[o] # Gone
      PROVE  /\ store'[o].inc = incs'[o]
             /\ WellFormed(store'[o])
  <2>1. OwnerStep(o) /\ (store[o] # Gone => store[o] \in Object)
    BY <1>0 DEF WorldStep, Types, Held
  <2>2. CASE store[o] = Gone
    BY <1>1, <2>1, <2>2 DEF OwnerStep, Fresh, WellFormed
  <2>3. CASE store[o] # Gone
    <3>1. /\ store[o].inc = incs[o]
          /\ WellFormed(store[o])
      BY <1>0, <2>3 DEF WorldInv
    <3>2. CASE store'[o] = store[o] /\ incs'[o] = incs[o]
      BY <3>1, <3>2
    <3>3. CASE store'[o] # store[o]
      <4>1. PICK f \in Finalizer : /\ store'[o] = [store[o] EXCEPT !.deleting = TRUE, !.finalizers = {f}]
                                   /\ incs'[o] = incs[o]
        BY <1>1, <2>1, <2>3, <3>3 DEF OwnerStep
      <4> QED
        BY <2>1, <2>3, <3>1, <4>1 DEF Object, WellFormed
    <3> QED
      BY <1>1, <2>1, <2>3, <3>2, <3>3 DEF OwnerStep
  <2> QED
    BY <2>2, <2>3
<1>2. ASSUME NEW d \in Dependent, store'[d] # Gone
      PROVE  /\ store'[d].inc = incs'[d]
             /\ store'[d].finalizers = {} /\ ~store'[d].deleting
             /\ \A uid \in store'[d].refs : Known(uid)'
  <2>1. DependentStep(d) /\ (store[d] # Gone => store[d] \in Object)
    BY <1>0 DEF WorldStep, Types, Held
  <2>2. \A uid \in Adoptable : Known(uid)
    <3> SUFFICES ASSUME NEW uid \in Adoptable PROVE Known(uid)
      OBVIOUS
    <3>1. store[uid[1]] # Gone /\ store[uid[1]].inc = uid[2] /\ uid[1] \in Name /\ uid[2] \in Nat
      BY UidParts DEF Adoptable, Exists
    <3>2. incs[uid[1]] = uid[2]
      BY <3>1 DEF WorldInv
    <3> QED
      BY <3>1, <3>2 DEF Known
  <2>3. Adoptable \subseteq UID /\ (store[d] # Gone => store[d].refs \subseteq UID)
    BY <2>1 DEF Adoptable, Object
  <2>4. ASSUME store[d] # Gone
        PROVE  /\ store[d].inc = incs[d]
               /\ store[d].finalizers = {} /\ ~store[d].deleting
               /\ \A uid \in store[d].refs : Known(uid)
    BY <1>0, <2>4 DEF WorldInv
  <2>5. CASE store'[d] = store[d] /\ incs'[d] = incs[d]
    <3>1. \A uid \in store'[d].refs : uid \in UID /\ Known(uid)
      BY <1>2, <2>3, <2>4, <2>5
    <3>2. \A uid \in store'[d].refs : Known(uid)'
      BY <3>1, UidStep
    <3> QED
      BY <1>2, <2>4, <2>5, <3>2
  <2>6. CASE store[d] = Gone
    <3>1. PICK refs \in SUBSET Adoptable : store'[d] = Fresh(incs[d] + 1, refs) /\ incs'[d] = incs[d] + 1
      BY <1>2, <2>1, <2>6 DEF DependentStep
    <3>2. store'[d].inc = incs'[d] /\ store'[d].finalizers = {} /\ ~store'[d].deleting
          /\ store'[d].refs = refs
      BY <3>1 DEF Fresh
    <3>3. \A uid \in store'[d].refs : uid \in UID /\ Known(uid)
      BY <2>2, <2>3, <3>2
    <3>4. \A uid \in store'[d].refs : Known(uid)'
      BY <3>3, UidStep
    <3> QED
      BY <3>2, <3>4
  <2>7. CASE store[d] # Gone /\ store'[d] # store[d]
    <3>1. PICK refs \in SUBSET (store[d].refs \cup Adoptable) :
            store'[d] = [store[d] EXCEPT !.refs = refs] /\ incs'[d] = incs[d]
      BY <1>2, <2>1, <2>7 DEF DependentStep
    <3>2. store'[d].inc = store[d].inc /\ store'[d].finalizers = store[d].finalizers
          /\ store'[d].deleting = store[d].deleting /\ store'[d].refs = refs
      BY <2>1, <2>7, <3>1 DEF Object
    <3>3. \A uid \in store'[d].refs : uid \in UID /\ Known(uid)
      BY <2>2, <2>3, <2>4, <2>7, <3>1, <3>2
    <3>4. \A uid \in store'[d].refs : Known(uid)'
      BY <3>3, UidStep
    <3> QED
      BY <2>4, <2>7, <3>1, <3>2, <3>4
  <2> QED
    BY <1>2, <2>1, <2>5, <2>6, <2>7 DEF DependentStep
<1> QED
  BY <1>0, <1>1, <1>2 DEF WorldInv

LEMMA TypesKept ==
  ASSUME Types, CollectorInv, [Next]_vars
  PROVE  Types' /\ WorldStep
<1> USE DEF CollectorInv
<1>1. CASE UNCHANGED vars
  BY <1>1 DEF vars, Types, WorldStep, OwnerStep, DependentStep
<1>2. CASE Others
  <2>1. WorldStep /\ store' \in [Name -> Held] /\ incs' \in [Name -> 0 .. MaxInc]
        /\ orphaned' \subseteq UID
    BY <1>2, OthersStep
  <2>2. PICK n, obj : n \in Name /\ OthersWrite(n, obj)
    BY <1>2 DEF Others, Create, Adopt, Touch, Release, Delete, Name
  <2>3. stale' \in BOOLEAN
    BY <2>2, Zenon DEF OthersWrite
  <2>4. writes' \in 0 .. MaxDisturbances
    BY <2>2, GarbageCollectorAssumption DEF OthersWrite, Types
  <2> QED
    BY <2>1, <2>2, <2>3, <2>4 DEF OthersWrite, Types
<1>3. CASE Sweep \/ ApiFails
  <2>1. gc' \in GcState
    BY <1>3, SweepTyped
  <2>2. WorldStep /\ store' \in [Name -> Held] /\ UNCHANGED <<incs, writes, orphaned>>
    BY <1>3, SweepWrites, SweepStepsWorld
  <2>3. stale' \in BOOLEAN
    <3>1. stale' = stale \/ stale' = FALSE
      BY <1>3 DEF Sweep, ApiFails, listWatched, PickOwner, FinalizersDone, PickDependent,
        ownerDangling, AllDangling, SweepDone, GetLive, resolveOwner, Resolved, deleteLive,
        ReadAgain, RetryDelete, Strip, CollectNext, ReadDependent, OrphanStrip, DependentsDone,
        ReadOwner, removeFinalizer, Done, NextOwner
    <3> QED
      BY <3>1, Zenon DEF Types
  <2>4. faults' \in 0 .. MaxFaults
    <3>1. faults' = faults \/ (faults < MaxFaults /\ faults' = faults + 1)
      BY <1>3 DEF quiet, Sweep, ApiFails, listWatched, PickOwner, FinalizersDone, PickDependent,
        ownerDangling, AllDangling, SweepDone, GetLive, resolveOwner, Resolved, deleteLive,
        ReadAgain, RetryDelete, Strip, CollectNext, ReadDependent, OrphanStrip, DependentsDone,
        ReadOwner, removeFinalizer
    <3> QED
      BY <3>1, GarbageCollectorAssumption DEF Types
  <2>m. missed' \subseteq Dependent \X UID
    <3>1. CASE removeFinalizer
      <4>1. gc.pc = "unfinalize"
        BY <3>1 DEF removeFinalizer
      <4>2. gc.owner \in Owner /\ objs[gc.owner] # Gone
        BY <4>1 DEF Types, GcState, LoopInv, ListedDeleting
      <4>3. OwnerUID \in UID
        BY <4>2 DEF OwnerUID, UID, Types, Held, Object, Name
      <4>4. Missable(OwnerUID) \subseteq Dependent
        BY DEF Missable
      <4>5. \/ missed' = missed
            \/ missed' = missed \cup {<<d, OwnerUID>> : d \in {x \in Missable(OwnerUID) :
                            store[x] # Gone /\ referencesUID(store[x], OwnerUID)}}
        BY <3>1 DEF removeFinalizer
      <4> QED
        BY <4>3, <4>4, <4>5 DEF Types
    <3>2. CASE ~removeFinalizer
      BY <1>3, <3>2 DEF Types, quiet, Sweep, ApiFails, listWatched, PickOwner, FinalizersDone,
        PickDependent, ownerDangling, AllDangling, SweepDone, GetLive, resolveOwner, Resolved,
        deleteLive, ReadAgain, RetryDelete, Strip, CollectNext, ReadDependent, OrphanStrip,
        DependentsDone, ReadOwner
    <3> QED
      BY <3>1, <3>2
  <2>5. objs' \in [Name -> Held]
    <3>1. CASE listWatched
      BY <3>1 DEF listWatched, Types
    <3>2. CASE SweepDone
      BY <3>2 DEF SweepDone, Held
    <3>3. CASE objs' = objs
      BY <3>3 DEF Types
    <3> QED
      BY <1>3, <3>1, <3>2, <3>3 DEF Sweep, ApiFails, PickOwner, FinalizersDone, PickDependent,
        ownerDangling, AllDangling, GetLive, resolveOwner, Resolved, deleteLive,
        ReadAgain, RetryDelete, Strip, CollectNext, ReadDependent, OrphanStrip, DependentsDone,
        ReadOwner, removeFinalizer
  <2>6. cache' \in [Owner -> Resolution \cup {Gone}]
    <3>1. CASE SweepDone \/ FinalizersDone
      BY <3>1 DEF SweepDone, FinalizersDone
    <3>2. CASE ownerDangling
      <4>1. PICK uid \in gc.refs : cache' = [cache EXCEPT ![uid[1]] =
              IF cache[uid[1]] = Gone THEN Lookup(uid) ELSE cache[uid[1]]]
        BY <3>2 DEF ownerDangling
      <4>2. uid[1] \in Owner /\ uid[1] \in Name
        BY UidParts DEF Types, GcState
      <4>3. Lookup(uid) \in Resolution
        <5>1. FALSE \in BOOLEAN /\ TRUE \in BOOLEAN
          BY Zenon
        <5>2. MaxInc \in Nat
          BY GarbageCollectorAssumption
        <5>3. CASE store[uid[1]] = Gone
          BY <5>1, <5>2, <5>3 DEF Lookup, Resolution
        <5>4. CASE store[uid[1]] # Gone
          <6>1. store[uid[1]].inc \in 0 .. MaxInc
            BY <4>2, <5>2, <5>4 DEF Types, Held, Object
          <6> DEFINE waits == store[uid[1]].deleting /\ "foreground" \in store[uid[1]].finalizers
          <6>2. waits \in BOOLEAN
            BY Zenon
          <6>3. Lookup(uid) = [found |-> TRUE, inc |-> store[uid[1]].inc, waiting |-> waits]
            BY <5>4 DEF Lookup
          <6> HIDE DEF waits
          <6> QED
            BY <5>1, <6>1, <6>2, <6>3 DEF Resolution
        <5> QED
          BY <5>3, <5>4
      <4> QED
        BY <4>1, <4>2, <4>3 DEF Types
    <3>3. CASE cache' = cache
      BY <3>3 DEF Types
    <3> QED
      BY <1>3, <3>1, <3>2, <3>3 DEF Sweep, ApiFails, listWatched, PickOwner, PickDependent,
        AllDangling, GetLive, resolveOwner, Resolved, deleteLive,
        ReadAgain, RetryDelete, Strip, CollectNext, ReadDependent, OrphanStrip, DependentsDone,
        ReadOwner, removeFinalizer
  <2> QED
    BY <2>1, <2>2, <2>3, <2>4, <2>5, <2>6, <2>m DEF Types
<1> QED
  BY <1>1, <1>2, <1>3 DEF Next
------------------------------------------------------------------------------
(* Leaving a collect, and leaving an owner. *)
LEMMA DoneKeeps ==
  ASSUME Types, LoopInv, objs' = objs, Collecting \/ gc.pc = "dangling", Done(Loop)
  PROVE  LoopInv' /\ HandInv'
<1>1. /\ gc'.pc = Loop /\ gc'.owner = gc.owner /\ gc'.todo = gc.todo
      /\ gc'.live = Gone /\ gc'.solid = FALSE /\ gc'.drop = {}
  BY DEF Types, GcState, Done, Idle
<1>2. gc'.pc = IF gc'.owner = Gone THEN "background" ELSE "foreground"
  BY <1>1 DEF Loop
<1>3. ~Orphaning /\ (gc.owner # Gone => ListedDeleting(gc.owner) /\ Collecting)
  BY DEF LoopInv, Orphaning
<1>4. ~Orphaning' /\ (gc'.owner # Gone => ListedDeleting(gc.owner)')
  BY <1>1, <1>3 DEF Orphaning, ListedDeleting
<1>5. gc.owner # Gone => \A o \in gc.todo : o \in Owner /\ ListedDeleting(o)
  BY DEF LoopInv
<1>6. gc.owner = Gone => \A d \in gc.todo : d \in Dependent /\ objs[d] # Gone
  BY DEF LoopInv
<1>7. LoopInv'
  BY <1>1, <1>2, <1>4, <1>5, <1>6 DEF LoopInv, Collecting, ListedDeleting
<1>8. HandInv'
  BY <1>1, <1>2, <1>4 DEF HandInv, Collecting
<1> QED
  BY <1>7, <1>8

LEMMA NextOwnerKeeps ==
  ASSUME Types, LoopInv, objs' = objs, gc.owner # Gone, NextOwner
  PROVE  LoopInv' /\ HandInv'
<1>1. /\ gc'.pc = "finalizers" /\ gc'.owner = Gone /\ gc'.todo = gc.todo
      /\ gc'.live = Gone /\ gc'.solid = FALSE /\ gc'.drop = {}
  BY DEF Types, GcState, NextOwner, Idle
<1>2. \A o \in gc.todo : o \in Owner /\ ListedDeleting(o)
  BY DEF LoopInv
<1>3. LoopInv'
  BY <1>1, <1>2 DEF LoopInv, Collecting, ListedDeleting
<1>4. HandInv'
  BY <1>1 DEF HandInv, Collecting
<1> QED
  BY <1>3, <1>4

LEMMA StartKeeps ==
  ASSUME gc' = Start
  PROVE  LoopInv' /\ HandInv'
<1>1. gc'.pc = "list" /\ gc'.owner = Gone /\ gc'.live = Gone /\ gc'.solid = FALSE /\ gc'.drop = {}
  BY DEF Start
<1> QED
  BY <1>1 DEF LoopInv, HandInv, Collecting

LEMMA ListKept ==
  ASSUME Types, WorldInv, ListInv, Sweep \/ ApiFails
  PROVE  ListInv'
<1>1. CASE listWatched
  <2> SUFFICES ASSUME NEW o \in Owner, objs'[o] # Gone PROVE WellFormed(objs'[o])
    BY DEF ListInv
  <2>1. objs'[o] = store[o] \/ objs'[o] = objs[o]
    BY <1>1 DEF listWatched, Name
  <2> QED
    BY <2>1 DEF WorldInv, ListInv
<1>2. CASE SweepDone
  BY <1>2 DEF SweepDone, ListInv, Name
<1>3. CASE objs' = objs
  BY <1>3 DEF ListInv
<1> QED
  BY <1>1, <1>2, <1>3 DEF Sweep, ApiFails, PickOwner, FinalizersDone, PickDependent,
    ownerDangling, AllDangling, GetLive, resolveOwner, Resolved, deleteLive, ReadAgain,
    RetryDelete, Strip, CollectNext, ReadDependent, OrphanStrip, DependentsDone, ReadOwner,
    removeFinalizer

(* Every step of a sweep keeps what the collector knows. *)
LEMMA SweepKeeps ==
  ASSUME Types, CollectorInv, Sweep \/ ApiFails
  PROVE  LoopInv' /\ HandInv'
<1> USE DEF CollectorInv
<1>0. incs' = incs
  BY SweepWrites
<1>s. store' = store => \A uid : (Dead(uid)' <=> Dead(uid)) /\ (Known(uid)' <=> Known(uid))
  BY <1>0 DEF Dead, Known, Solid, Exists
<1>d. gc \in GcState /\ gc.owner \in Owner \cup {Gone}
  BY DEF Types, GcState
<1>o. objs' = objs /\ gc'.owner = gc.owner => (Orphaning' <=> Orphaning)
  BY DEF Orphaning
<1>1. CASE listWatched
  <2>1. gc.pc = "list" /\ gc.owner = Gone /\ gc.live = Gone /\ gc.solid = FALSE /\ gc.drop = {}
    BY <1>1, <1>d DEF listWatched, LoopInv, HandInv, GcState
  <2>2. CASE gc' = [gc EXCEPT !.kind = @ + 1]
    <3>1. gc'.pc = "list" /\ gc'.owner = Gone /\ gc'.live = Gone /\ gc'.solid = FALSE /\ gc'.drop = {}
      BY <1>d, <2>1, <2>2 DEF GcState
    <3> QED
      BY <3>1 DEF LoopInv, HandInv, Collecting
  <2>3. CASE gc' # [gc EXCEPT !.kind = @ + 1]
    <3> DEFINE todo == {n \in Owner : objs'[n] # Gone /\ objs'[n].deleting}
    <3>1. gc' = [Start EXCEPT !.pc = "finalizers", !.todo = todo]
      BY <1>1, <2>3 DEF listWatched
    <3>2. gc'.pc = "finalizers" /\ gc'.owner = Gone /\ gc'.live = Gone /\ gc'.solid = FALSE
          /\ gc'.drop = {} /\ gc'.todo = todo
      BY <3>1 DEF Start
    <3>3. \A o \in todo : o \in Owner /\ ListedDeleting(o)'
      BY DEF ListedDeleting
    <3> HIDE DEF todo
    <3>4. LoopInv'
      BY <3>2, <3>3 DEF LoopInv, Collecting
    <3> QED
      BY <3>2, <3>4 DEF HandInv, Collecting
  <2> QED
    BY <2>2, <2>3
<1>2. CASE PickOwner
  <2>1. gc.pc = "finalizers" /\ objs' = objs /\ gc.live = Gone /\ gc.solid = FALSE /\ gc.drop = {}
    BY <1>2, <1>d DEF PickOwner, HandInv, GcState
  <2>2. PICK o \in gc.todo :
          gc' = [gc EXCEPT !.todo = @ \ {o},
                        !.pc = IF "foreground" \in objs[o].finalizers THEN "foreground" ELSE "orphan",
                        !.owner = o, !.deps = Listed(<<o, objs[o].inc>>), !.clear = TRUE]
    BY <1>2 DEF PickOwner
  <2>3. o \in Owner /\ ListedDeleting(o) /\ \A n \in gc.todo : n \in Owner /\ ListedDeleting(n)
    BY <2>1, <2>2 DEF LoopInv
  <2>4. /\ gc'.pc = IF "foreground" \in objs[o].finalizers THEN "foreground" ELSE "orphan"
        /\ gc'.owner = o /\ gc'.live = Gone /\ gc'.solid = FALSE /\ gc'.drop = {}
        /\ gc'.todo \subseteq gc.todo
    BY <1>d, <2>1, <2>2 DEF GcState
  <2>5. PICK f \in Finalizer : objs[o].finalizers = {f}
    BY <2>3 DEF ListInv, WellFormed, ListedDeleting
  <2>6. o # Gone
    BY <2>3, GarbageCollectorAssumption DEF Name
  <2>7. Orphaning' <=> f = "orphan"
    BY <2>1, <2>4, <2>5, <2>6 DEF Orphaning
  <2>8. ListedDeleting(gc.owner)' /\ \A n \in gc'.todo : n \in Owner /\ ListedDeleting(n)'
    BY <2>1, <2>3, <2>4 DEF ListedDeleting
  <2>9. (gc'.pc = "foreground" /\ f = "foreground") \/ (gc'.pc = "orphan" /\ f = "orphan")
    BY <2>4, <2>5 DEF Finalizer
  <2>10. LoopInv'
    BY <2>4, <2>6, <2>7, <2>8, <2>9 DEF LoopInv, Collecting
  <2> QED
    BY <2>4, <2>7, <2>9, <2>10 DEF HandInv, Collecting
<1>3. CASE FinalizersDone
  <2> DEFINE todo == {d \in Dependent : objs[d] # Gone /\ objs[d].refs # {}}
  <2>1. gc' = [Start EXCEPT !.pc = "background", !.todo = todo] /\ objs' = objs
    BY <1>3 DEF FinalizersDone
  <2>2. gc'.pc = "background" /\ gc'.owner = Gone /\ gc'.live = Gone /\ gc'.solid = FALSE
        /\ gc'.drop = {} /\ gc'.todo = todo
    BY <2>1 DEF Start
  <2>3. \A d \in todo : d \in Dependent /\ objs'[d] # Gone
    BY <2>1
  <2> HIDE DEF todo
  <2>4. LoopInv'
    BY <2>2, <2>3 DEF LoopInv, Collecting
  <2> QED
    BY <2>2, <2>4 DEF HandInv, Collecting
<1>4. CASE PickDependent
  <2>1. gc.pc = "background" /\ objs' = objs /\ gc.owner = Gone /\ gc.live = Gone
        /\ gc.solid = FALSE /\ gc.drop = {} /\ \A d \in gc.todo : d \in Dependent /\ objs[d] # Gone
    BY <1>4, <1>d DEF PickDependent, HandInv, LoopInv, GcState
  <2>2. PICK d \in gc.todo :
          gc' = [gc EXCEPT !.todo = @ \ {d}, !.pc = "dangling", !.item = d, !.refs = objs[d].refs]
    BY <1>4 DEF PickDependent
  <2>3. gc'.pc = "dangling" /\ gc'.owner = Gone /\ gc'.live = Gone /\ gc'.solid = FALSE
        /\ gc'.drop = {} /\ gc'.todo \subseteq gc.todo /\ gc'.item = d
    BY <1>d, <2>1, <2>2 DEF GcState
  <2>4. LoopInv'
    BY <2>1, <2>3 DEF LoopInv, Collecting
  <2> QED
    BY <2>1, <2>2, <2>3, <2>4 DEF HandInv, Collecting
<1>5. CASE ownerDangling
  <2>1. gc.pc = "dangling" /\ objs' = objs /\ gc.owner = Gone
    BY <1>5 DEF ownerDangling, LoopInv
  <2>2. CASE Done("background")
    BY <2>1, <2>2, DoneKeeps DEF Loop
  <2>3. CASE ~Done("background")
    <3>1. PICK uid \in gc.refs : gc' = [gc EXCEPT !.refs = @ \ {uid}]
      BY <1>5, <2>3 DEF ownerDangling
    <3>2. gc'.pc = "dangling" /\ gc'.owner = Gone /\ gc'.live = gc.live /\ gc'.solid = gc.solid
          /\ gc'.drop = gc.drop /\ gc'.todo = gc.todo /\ gc'.item = gc.item
      BY <1>d, <2>1, <3>1 DEF GcState
    <3>3. LoopInv'
      BY <2>1, <3>2 DEF LoopInv, Collecting
    <3> QED
      BY <2>1, <3>2, <3>3 DEF HandInv, Collecting
  <2> QED
    BY <2>2, <2>3
<1>6. CASE AllDangling
  <2>1. gc.pc = "dangling" /\ objs' = objs /\ gc.owner = Gone /\ gc' = [gc EXCEPT !.pc = "getLive"]
    BY <1>6 DEF AllDangling, LoopInv, Goto
  <2>2. gc'.pc = "getLive" /\ gc'.owner = Gone /\ gc'.live = gc.live /\ gc'.solid = gc.solid
        /\ gc'.drop = gc.drop /\ gc'.todo = gc.todo /\ gc'.item = gc.item
    BY <1>d, <2>1 DEF GcState
  <2>3. LoopInv'
    BY <2>1, <2>2 DEF LoopInv, Collecting, Orphaning
  <2> QED
    BY <2>1, <2>2, <2>3 DEF HandInv, Collecting
<1>7. CASE SweepDone
  BY <1>7, StartKeeps DEF SweepDone
<1>8. CASE GetLive
  <2>1. gc.pc = "getLive" /\ objs' = objs /\ store' = store /\ gc.item \in Dependent
    BY <1>8 DEF GetLive, HandInv
  <2>2. CASE Done(Loop)
    BY <2>1, <2>2, DoneKeeps DEF Collecting
  <2>3. CASE ~Done(Loop)
    <3> DEFINE live == store[gc.item]
    <3>1. live # Gone /\ gc' = [gc EXCEPT !.pc = "resolve", !.live = live, !.refs = live.refs]
      BY <1>8, <2>3 DEF GetLive
    <3>2. gc'.pc = "resolve" /\ gc'.owner = gc.owner /\ gc'.live = live /\ gc'.solid = gc.solid
          /\ gc'.drop = {} /\ gc'.todo = gc.todo /\ gc'.item = gc.item /\ gc'.refs = live.refs
      BY <1>d, <2>1, <3>1 DEF GcState, HandInv
    <3>3. ~Orphaning'
      BY <1>o, <2>1, <3>2 DEF LoopInv, Collecting
    <3>4. LoopInv'
      BY <2>1, <3>2, <3>3 DEF LoopInv, Collecting, ListedDeleting
    <3>5. \A uid \in live.refs : Known(uid)'
      BY <1>s, <2>1, <3>1 DEF WorldInv
    <3> QED
      BY <2>1, <3>1, <3>2, <3>3, <3>4, <3>5 DEF HandInv, Collecting
  <2> QED
    BY <2>2, <2>3
<1>9. CASE resolveOwner
  <2>1. gc.pc = "resolve" /\ objs' = objs /\ store' = store /\ stale' = stale /\ Collecting
    BY <1>9 DEF resolveOwner, Collecting
  <2>2. PICK uid \in gc.refs : Classify(uid, Lookup(uid))
    BY <1>9 DEF resolveOwner
  <2>3. gc'.pc = "resolve" /\ gc'.owner = gc.owner /\ gc'.live = gc.live /\ gc'.todo = gc.todo
        /\ gc'.item = gc.item /\ gc'.refs = gc.refs \ {uid}
    BY <1>d, <2>1, <2>2 DEF Classify, GcState
  <2>4. \/ gc'.drop = gc.drop \cup {uid} /\ gc'.solid = gc.solid /\ Dead(uid)
        \/ gc'.drop = gc.drop /\ gc'.solid = TRUE
    <3>1. CASE Solid(uid)
      BY <1>d, <2>2, <3>1 DEF Classify, GcState, Lookup, Solid, Exists
    <3>2. CASE ~Solid(uid)
      <4>1. Dead(uid)
        BY <2>1, <2>2, <3>2 DEF HandInv, Dead
      <4>2. gc' = [gc EXCEPT !.refs = @ \ {uid}, !.drop = @ \cup {uid}]
        BY <2>2, <3>2 DEF Classify, Lookup, Solid, Exists
      <4> QED
        BY <1>d, <4>1, <4>2 DEF GcState
    <3> QED
      BY <3>1, <3>2
  <2>5. ~Orphaning'
    BY <1>o, <2>1, <2>3 DEF LoopInv
  <2>6. LoopInv'
    BY <2>1, <2>3, <2>5 DEF LoopInv, Collecting, ListedDeleting
  <2>7. /\ \A u \in gc'.drop : Dead(u)'
        /\ ~gc'.solid => gc'.live.refs \subseteq gc'.refs \cup gc'.drop
        /\ gc'.refs \subseteq gc'.live.refs /\ \A u \in gc'.refs : Known(u)'
    BY <1>s, <2>1, <2>2, <2>3, <2>4 DEF HandInv
  <2> QED
    BY <2>1, <2>3, <2>5, <2>6, <2>7 DEF HandInv, Collecting
<1>10. CASE Resolved
  <2>1. gc.pc = "resolve" /\ objs' = objs /\ store' = store /\ Collecting /\ gc.refs = {}
    BY <1>10 DEF Resolved, Collecting
  <2>2. CASE Done(Loop)
    BY <2>1, <2>2, DoneKeeps
  <2>3. CASE ~Done(Loop)
    <3>1. /\ gc' = [gc EXCEPT !.pc = IF gc.solid THEN "strip" ELSE "decide"] /\ stale' = stale
      BY <1>10, <2>3 DEF Resolved, Goto
    <3>2. gc'.owner = gc.owner /\ gc'.live = gc.live /\ gc'.todo = gc.todo /\ gc'.solid = gc.solid
          /\ gc'.item = gc.item /\ gc'.refs = {} /\ gc'.drop = gc.drop
          /\ gc'.pc = IF gc.solid THEN "strip" ELSE "decide"
      BY <1>d, <2>1, <3>1 DEF GcState
    <3>3. ~Orphaning'
      BY <1>o, <2>1, <3>2 DEF LoopInv
    <3>4. LoopInv'
      BY <2>1, <3>2, <3>3 DEF LoopInv, Collecting, ListedDeleting
    <3>5. /\ \A u \in gc'.drop : Dead(u)'
          /\ ~gc'.solid => gc'.live.refs \subseteq gc'.refs \cup gc'.drop
      BY <1>s, <2>1, <3>2 DEF HandInv
    <3> QED
      BY <2>1, <3>1, <3>2, <3>3, <3>4, <3>5 DEF HandInv, Collecting
  <2> QED
    BY <2>2, <2>3
<1>11. CASE deleteLive \/ ReadAgain
  <2>1. gc.pc \in {"decide", "again"} /\ objs' = objs /\ Collecting
    BY <1>11 DEF deleteLive, ReadAgain, Collecting
  <2>2. CASE Done(Loop)
    BY <2>1, <2>2, DoneKeeps
  <2>3. CASE ~Done(Loop)
    <3>1. PICK loc \in {"again", "retry"} : gc' = [gc EXCEPT !.pc = loc] /\ stale' = stale /\ store' = store
      BY <1>11, <2>3 DEF deleteLive, ReadAgain, Goto
    <3>2. gc'.owner = gc.owner /\ gc'.live = gc.live /\ gc'.todo = gc.todo /\ gc'.solid = gc.solid
          /\ gc'.item = gc.item /\ gc'.refs = gc.refs /\ gc'.drop = gc.drop /\ gc'.pc = loc
      BY <1>d, <2>1, <3>1 DEF GcState
    <3>3. ~Orphaning'
      BY <1>o, <2>1, <3>2 DEF LoopInv
    <3>4. LoopInv'
      BY <2>1, <3>1, <3>2, <3>3 DEF LoopInv, Collecting, ListedDeleting
    <3>5. /\ \A u \in gc'.drop : Dead(u)'
          /\ ~gc'.solid => gc'.live.refs \subseteq gc'.refs \cup gc'.drop
          /\ gc'.refs = {} /\ ~gc'.solid
      BY <1>s, <2>1, <3>1, <3>2 DEF HandInv
    <3> QED
      BY <2>1, <3>1, <3>2, <3>3, <3>4, <3>5 DEF HandInv, Collecting
  <2> QED
    BY <2>2, <2>3
<1>13. CASE RetryDelete \/ Strip
  <2>1. objs' = objs /\ Collecting /\ Done(Loop)
    BY <1>13 DEF RetryDelete, Strip, Collecting
  <2> QED
    BY <2>1, DoneKeeps
<1>15. CASE CollectNext
  <2>1. gc.pc = "foreground" /\ objs' = objs /\ store' = store /\ gc.owner # Gone
    BY <1>15 DEF CollectNext, LoopInv
  <2>2. PICK d \in gc.deps :
          gc' = [gc EXCEPT !.deps = @ \ {d}, !.pc = "getLive", !.item = d, !.clear = FALSE]
    BY <1>15 DEF CollectNext
  <2>3. gc'.owner = gc.owner /\ gc'.live = gc.live /\ gc'.todo = gc.todo /\ gc'.solid = gc.solid
        /\ gc'.item = d /\ gc'.drop = gc.drop /\ gc'.pc = "getLive" /\ d \in Dependent
    BY <1>d, <2>1, <2>2 DEF GcState
  <2>4. ~Orphaning'
    BY <1>o, <2>1, <2>3 DEF LoopInv
  <2>5. LoopInv'
    BY <2>1, <2>3, <2>4 DEF LoopInv, Collecting, ListedDeleting
  <2> QED
    BY <2>1, <2>3, <2>4, <2>5 DEF HandInv, Collecting
<1>16. CASE ReadDependent
  <2>1. gc.pc = "orphan" /\ objs' = objs /\ store' = store /\ stale' = FALSE /\ gc.owner # Gone
        /\ Orphaning
    BY <1>16 DEF ReadDependent, LoopInv
  <2>2. PICK d \in gc.deps :
          \/ gc' = [gc EXCEPT !.deps = @ \ {d}]
          \/ store[d] # Gone
             /\ gc' = [[gc EXCEPT !.deps = @ \ {d}]
                         EXCEPT !.pc = "strip", !.item = d, !.live = store[d], !.drop = {OwnerUID}]
    BY <1>16 DEF ReadDependent
  <2>3. gc'.owner = gc.owner /\ gc'.todo = gc.todo
        /\ \/ gc'.pc = "orphan" /\ gc'.live = gc.live /\ gc'.drop = gc.drop /\ gc'.solid = gc.solid
           \/ /\ gc'.pc = "strip" /\ store[d] # Gone /\ gc'.item = d /\ gc'.live = store[d]
              /\ gc'.drop = {OwnerUID}
    <3>1. CASE gc' = [gc EXCEPT !.deps = @ \ {d}]
      BY <1>d, <2>1, <3>1 DEF GcState
    <3>2. CASE gc' # [gc EXCEPT !.deps = @ \ {d}]
      <4> DEFINE next == [gc EXCEPT !.deps = @ \ {d}]
      <4>1. next \in GcState /\ next.owner = gc.owner /\ next.todo = gc.todo
        BY <1>d DEF GcState
      <4>2. gc' = [next EXCEPT !.pc = "strip", !.item = d, !.live = store[d], !.drop = {OwnerUID}]
            /\ store[d] # Gone
        BY <2>2, <3>2
      <4> HIDE DEF next
      <4> QED
        BY <4>1, <4>2 DEF GcState
    <3> QED
      BY <3>1, <3>2
  <2>4. Orphaning' /\ OwnerUID' = OwnerUID
    BY <1>o, <2>1, <2>3 DEF OwnerUID
  <2>5. LoopInv'
    BY <2>1, <2>3, <2>4 DEF LoopInv, Collecting, ListedDeleting
  <2>6. d \in Dependent
    BY <1>d, <2>2 DEF GcState
  <2> QED
    BY <2>1, <2>3, <2>4, <2>5, <2>6 DEF HandInv, Collecting
<1>17. CASE OrphanStrip \/ (ApiFails /\ gc' = [Idle EXCEPT !.pc = "orphan", !.clear = FALSE]
                           /\ gc.pc = "strip" /\ Orphaning)
  <2>1. Orphaning /\ objs' = objs /\ \E c : gc' = [Idle EXCEPT !.pc = "orphan", !.clear = c]
    BY <1>17 DEF OrphanStrip, ApiFails
  <2>2. gc'.owner = gc.owner /\ gc'.todo = gc.todo /\ gc'.pc = "orphan" /\ gc'.live = Gone
        /\ gc'.solid = FALSE /\ gc'.drop = {}
    BY <1>d, <2>1 DEF GcState, Idle
  <2>3. Orphaning' /\ gc.owner # Gone
    BY <1>o, <2>1, <2>2 DEF Orphaning
  <2>4. LoopInv'
    BY <2>1, <2>2, <2>3 DEF LoopInv, Collecting, ListedDeleting
  <2> QED
    BY <2>2, <2>3, <2>4 DEF HandInv, Collecting
<1>18. CASE DependentsDone
  <2>1. gc.pc \in {"foreground", "orphan"} /\ objs' = objs /\ gc.owner # Gone /\ gc.live = Gone
        /\ gc.solid = FALSE /\ gc.drop = {}
    BY <1>18, <1>d DEF DependentsDone, LoopInv, HandInv, GcState
  <2>2. \/ gc' = [gc EXCEPT !.pc = "readOwner", !.item = gc.owner, !.tries = Retries]
        \/ gc' = [gc EXCEPT !.pc = "finalizers", !.owner = Gone, !.clear = TRUE]
    BY <1>18 DEF DependentsDone
  <2>3. /\ gc'.live = Gone /\ gc'.solid = FALSE /\ gc'.drop = {} /\ gc'.todo = gc.todo
        /\ \/ gc'.pc = "readOwner" /\ gc'.item = gc.owner /\ gc'.owner = gc.owner
           \/ gc'.pc = "finalizers" /\ gc'.owner = Gone
    BY <1>d, <2>1, <2>2 DEF GcState
  <2>4. \A o \in gc.todo : o \in Owner /\ ListedDeleting(o)
    BY <2>1 DEF LoopInv
  <2>5. LoopInv'
    BY <2>1, <2>3, <2>4 DEF LoopInv, Collecting, ListedDeleting
  <2> QED
    BY <2>3, <2>5 DEF HandInv, Collecting
<1>19. CASE ReadOwner
  <2>1. gc.pc = "readOwner" /\ objs' = objs /\ store' = store /\ gc.owner # Gone /\ gc.item = gc.owner
    BY <1>19 DEF ReadOwner, LoopInv
  <2>2. CASE NextOwner
    BY <2>1, <2>2, NextOwnerKeeps
  <2>3. CASE ~NextOwner
    <3>1. Removable /\ gc' = [gc EXCEPT !.pc = "unfinalize", !.live = store[gc.owner]] /\ stale' = FALSE
      BY <1>19, <2>3 DEF ReadOwner
    <3>2. gc'.owner = gc.owner /\ gc'.todo = gc.todo /\ gc'.pc = "unfinalize"
          /\ gc'.live = store[gc.owner] /\ gc'.item = gc.item
      BY <1>d, <2>1, <3>1 DEF GcState
    <3>3. LoopInv'
      BY <2>1, <3>2 DEF LoopInv, Collecting, ListedDeleting
    <3>4. WellFormed(store[gc.owner]) /\ WellFormed(objs[gc.owner])
      BY <1>d, <2>1, <3>1 DEF Removable, WorldInv, ListInv, LoopInv, ListedDeleting
    <3>5. store[gc.owner].deleting /\ store[gc.owner].finalizers = objs[gc.owner].finalizers
      BY <3>1, <3>4 DEF Removable, WellFormed
    <3> QED
      BY <2>1, <3>1, <3>2, <3>3, <3>5 DEF HandInv, Collecting, Removable
  <2> QED
    BY <2>2, <2>3
<1>20. CASE removeFinalizer
  <2>1. gc.pc = "unfinalize" /\ objs' = objs /\ gc.owner # Gone /\ gc.item = gc.owner
    BY <1>20 DEF removeFinalizer, LoopInv
  <2>2. CASE NextOwner
    BY <2>1, <2>2, NextOwnerKeeps
  <2>3. CASE ~NextOwner
    <3>1. gc' = [gc EXCEPT !.pc = "readOwner", !.tries = @ - 1] /\ stale' = stale /\ store' = store
      BY <1>20, <2>3 DEF removeFinalizer
    <3>2. gc'.owner = gc.owner /\ gc'.todo = gc.todo /\ gc'.pc = "readOwner"
          /\ gc'.live = gc.live /\ gc'.item = gc.item
      BY <1>d, <2>1, <3>1 DEF GcState
    <3>3. LoopInv'
      BY <2>1, <3>2 DEF LoopInv, Collecting, ListedDeleting
    <3> QED
      BY <2>1, <3>1, <3>2, <3>3 DEF HandInv, Collecting
  <2> QED
    BY <2>2, <2>3
<1>21. CASE ApiFails
  <2>1. objs' = objs
    BY <1>21 DEF ApiFails
  <2>2. CASE gc' = Start
    BY <2>2, StartKeeps
  <2>3. CASE gc.pc = "dangling" /\ Done("background")
    BY <2>1, <2>3, DoneKeeps DEF Loop, LoopInv
  <2>4. CASE Collecting /\ Done(Loop)
    BY <2>1, <2>4, DoneKeeps
  <2>5. CASE gc.pc \in {"readOwner", "unfinalize"} /\ NextOwner
    BY <2>1, <2>5, NextOwnerKeeps DEF LoopInv
  <2>6. CASE gc.pc = "orphan" /\ \E d \in gc.deps : gc' = [gc EXCEPT !.deps = @ \ {d}, !.clear = FALSE]
    <3>1. gc'.owner = gc.owner /\ gc'.todo = gc.todo /\ gc'.pc = "orphan" /\ gc'.live = gc.live
          /\ gc'.solid = gc.solid /\ gc'.drop = gc.drop
      BY <1>d, <2>6 DEF GcState
    <3>2. Orphaning'
      BY <1>o, <2>1, <2>6, <3>1 DEF LoopInv
    <3>3. LoopInv'
      BY <2>1, <2>6, <3>1, <3>2 DEF LoopInv, Collecting, ListedDeleting
    <3> QED
      BY <2>6, <3>1, <3>2, <3>3 DEF HandInv, Collecting
  <2> QED
    BY <1>17, <1>21, <2>2, <2>3, <2>4, <2>5, <2>6 DEF ApiFails, Collecting
<1> QED
  BY <1>1, <1>2, <1>3, <1>4, <1>5, <1>6, <1>7, <1>8, <1>9, <1>10, <1>11, <1>13,
     <1>15, <1>16, <1>17, <1>18, <1>19, <1>20, <1>21 DEF Sweep

LEMMA OthersKeep ==
  ASSUME Types, Types', CollectorInv, Others
  PROVE  LoopInv' /\ HandInv' /\ ListInv'
<1> USE DEF CollectorInv
<1>1. WorldStep
  BY OthersStep
<1>2. PICK n, obj : n \in Name /\ OthersWrite(n, obj)
  BY DEF Others, Create, Adopt, Touch, Release, Delete, Name
<1>3. UNCHANGED <<objs, gc>> /\ store' = [store EXCEPT ![n] = obj]
      /\ stale' = (stale \/ (gc.live # Gone /\ gc.item = n))
  BY <1>2 DEF OthersWrite
<1>4. (Orphaning' <=> Orphaning) /\ (Collecting' <=> Collecting) /\ OwnerUID' = OwnerUID
  BY <1>3 DEF Orphaning, Collecting, OwnerUID
<1>5. LoopInv' /\ ListInv'
  BY <1>3, <1>4 DEF LoopInv, ListInv, ListedDeleting
<1>6. gc.live # Gone /\ ~stale' => store'[gc.item] = gc.live
  <2> SUFFICES ASSUME gc.live # Gone, ~stale' PROVE store'[gc.item] = gc.live
    OBVIOUS
  <2>1. ~stale /\ gc.item # n
    BY <1>3
  <2>2. gc.pc \in GcPc /\ gc.owner \in Owner \cup {Gone}
    BY DEF Types, GcState
  <2>3. gc.item \in Name
    BY <2>2 DEF HandInv, LoopInv, GcPc, Name
  <2>4. store'[gc.item] = store[gc.item]
    BY <1>3, <2>1, <2>3 DEF Types
  <2> QED
    BY <2>1, <2>4 DEF HandInv
<1>7. Collecting /\ gc.pc # "getLive" =>
       /\ \A uid \in gc.drop : Dead(uid)'
       /\ \A uid \in gc.refs : Known(uid)'
  <2>1. gc.drop \subseteq UID /\ gc.refs \subseteq UID
    BY DEF Types, GcState
  <2> QED
    BY <1>1, <2>1, UidStep DEF HandInv, Dead
<1>8. HandInv'
  BY <1>3, <1>4, <1>6, <1>7 DEF HandInv
<1> QED
  BY <1>5, <1>8

(* What a sweep knows of the world survives every step. *)
LEMMA CollectorInvInductive ==
  ASSUME Types, CollectorInv, [Next]_vars
  PROVE  Types' /\ CollectorInv'
<1>1. Types' /\ WorldStep
  BY TypesKept
<1>2. WorldInv'
  BY <1>1, WorldInvKept DEF CollectorInv
<1>3. CASE Others
  BY <1>1, <1>2, <1>3, OthersKeep DEF CollectorInv
<1>4. CASE Sweep \/ ApiFails
  <2>1. ListInv'
    BY <1>4, ListKept DEF CollectorInv
  <2>2. LoopInv' /\ HandInv'
    BY <1>4, SweepKeeps
  <2> QED
    BY <1>1, <1>2, <2>1, <2>2 DEF CollectorInv
<1>5. CASE UNCHANGED vars
  BY <1>1, <1>2, <1>5 DEF vars, CollectorInv, ListInv, LoopInv, HandInv, ListedDeleting, Collecting,
    Orphaning, OwnerUID, Dead, Known, Solid, Exists, WellFormed
<1> QED
  BY <1>3, <1>4, <1>5 DEF Next

LEMMA CollectorInvInitially == Init => Types /\ CollectorInv /\ OrphanInv
<1> SUFFICES ASSUME Init PROVE Types /\ CollectorInv /\ OrphanInv
  OBVIOUS
<1>0. Name = Owner \cup Dependent /\ Owner \cap Dependent = {} /\ MaxInc \in Nat \ {0}
      /\ MaxDisturbances \in Nat /\ MaxFaults \in Nat
  BY GarbageCollectorAssumption DEF Name
<1>a. PICK live \in SUBSET Name, policy \in [Owner -> {{}, {"foreground"}, {"orphan"}}] :
       \E refs \in [Dependent -> SUBSET {<<o, 1>> : o \in Owner \cap live}] :
         /\ \A o \in Owner \ live : policy[o] = {}
         /\ store = [n \in Name |->
              IF n \notin live THEN Gone
              ELSE IF n \in Dependent THEN Fresh(1, refs[n])
              ELSE [Fresh(1, {}) EXCEPT !.finalizers = policy[n], !.deleting = policy[n] # {}]]
         /\ orphaned = {<<o, 1>> : o \in {n \in Owner : policy[n] = {"orphan"}}}
  BY DEF Init
<1>1. PICK refs \in [Dependent -> SUBSET {<<o, 1>> : o \in Owner \cap live}] :
         /\ \A o \in Owner \ live : policy[o] = {}
         /\ store = [n \in Name |->
              IF n \notin live THEN Gone
              ELSE IF n \in Dependent THEN Fresh(1, refs[n])
              ELSE [Fresh(1, {}) EXCEPT !.finalizers = policy[n], !.deleting = policy[n] # {}]]
         /\ orphaned = {<<o, 1>> : o \in {n \in Owner : policy[n] = {"orphan"}}}
  BY <1>a
<1>2. /\ incs = [n \in Name |-> IF store[n] = Gone THEN 0 ELSE 1] /\ stale = FALSE
      /\ objs = [n \in Name |-> Gone] /\ cache = [o \in Owner |-> Gone] /\ gc = Start
      /\ writes = 0 /\ faults = 0
  BY DEF Init
<1>3. ASSUME NEW d \in Dependent, store[d] # Gone
      PROVE  /\ store[d] \in Object /\ store[d].inc = 1 /\ store[d].finalizers = {}
             /\ ~store[d].deleting
             /\ \A uid \in store[d].refs : \E o \in Owner \cap live : uid = <<o, 1>>
  <2>1. store[d] = Fresh(1, refs[d]) /\ refs[d] \in SUBSET {<<o, 1>> : o \in Owner \cap live}
    BY <1>0, <1>1, <1>3
  <2>2. 1 \in 1 .. MaxInc
    BY <1>0
  <2>3. refs[d] \subseteq UID
    BY <2>1, <2>2 DEF UID
  <2>4. FALSE \in BOOLEAN
    BY Zenon
  <2>5. store[d] \in Object
    BY <2>1, <2>2, <2>3, <2>4 DEF Fresh, Object
  <2> QED
    BY <2>1, <2>5 DEF Fresh
<1>4. ASSUME NEW o \in Owner, o \in live
      PROVE  store[o] \in Object /\ store[o].inc = 1 /\ WellFormed(store[o])
             /\ store[o].finalizers = policy[o]
  <2>1. store[o] = [Fresh(1, {}) EXCEPT !.finalizers = policy[o], !.deleting = policy[o] # {}]
    BY <1>0, <1>1, <1>4
  <2>2. store[o] = [inc |-> 1, refs |-> {}, finalizers |-> policy[o], deleting |-> policy[o] # {}]
    BY <2>1 DEF Fresh
  <2>3. 1 \in 1 .. MaxInc /\ {} \in SUBSET UID
    BY <1>0
  <2>4. (policy[o] # {}) \in BOOLEAN
    BY Zenon
  <2>5. policy[o] \in {{}, {"foreground"}, {"orphan"}}
    BY <1>1
  <2>6. policy[o] \in SUBSET Finalizer
    BY <2>5 DEF Finalizer
  <2>7. store[o] \in Object
    BY <2>2, <2>3, <2>4, <2>6 DEF Object
  <2>8. WellFormed(store[o])
    <3>1. (store[o].deleting <=> policy[o] # {}) /\ store[o].finalizers = policy[o]
      <4> DEFINE waits == policy[o] # {}
      <4>1. store[o] = [inc |-> 1, refs |-> {}, finalizers |-> policy[o], deleting |-> waits]
        BY <2>2
      <4> HIDE DEF waits
      <4>2. store[o].deleting = waits /\ store[o].finalizers = policy[o]
        BY <4>1
      <4> QED
        BY <4>2, Zenon DEF waits
    <3> QED
      BY <2>5, <3>1 DEF WellFormed, Finalizer
  <2> QED
    BY <2>2, <2>7, <2>8
<1>b. \A o \in Owner : store[o] # Gone => o \in live
  BY <1>0, <1>1
<1>5. store \in [Name -> Held]
  BY <1>b, <1>0, <1>1, <1>3, <1>4 DEF Held
<1>6. incs \in [Name -> 0 .. MaxInc]
  BY <1>0, <1>2
<1>7. orphaned \subseteq UID
  <2>1. 1 \in 1 .. MaxInc
    BY <1>0
  <2> QED
    <3> SUFFICES ASSUME NEW uid \in orphaned PROVE uid \in UID
      OBVIOUS
    <3>1. PICK o \in {n \in Owner : policy[n] = {"orphan"}} : uid = <<o, 1>>
      BY <1>1
    <3> QED
      BY <2>1, <3>1 DEF UID
<1>8. stale \in BOOLEAN
  BY <1>2, Zenon
<1>m. missed = {}
  BY DEF Init
<1>9. Types
  BY <1>0, <1>2, <1>5, <1>6, <1>7, <1>8, <1>m, StartTyped DEF Types, Held
<1>10. WorldInv
  <2>1. \A n \in Name : store[n] # Gone => store[n].inc = incs[n]
    BY <1>0, <1>2, <1>3, <1>4, <1>b
  <2>2. ASSUME NEW d \in Dependent, store[d] # Gone, NEW uid \in store[d].refs PROVE Known(uid)
    <3>1. PICK o \in Owner \cap live : uid = <<o, 1>>
      BY <1>3, <2>2
    <3>2. store[o] # Gone
      BY <1>4, <3>1, GarbageCollectorAssumption
    <3> QED
      BY <1>0, <1>2, <3>1, <3>2 DEF Known
  <2> QED
    BY <1>3, <1>4, <1>b, <2>1, <2>2 DEF WorldInv
<1>11. ListInv
  BY <1>0, <1>2 DEF ListInv
<1>12. gc.pc = "list" /\ gc.owner = Gone /\ gc.live = Gone /\ gc.solid = FALSE /\ gc.drop = {}
  BY <1>2 DEF Start
<1>13. LoopInv /\ HandInv
  BY <1>12 DEF LoopInv, HandInv, Collecting
<1>14. OrphanInv
  <2> SUFFICES ASSUME NEW uid \in orphaned
               PROVE  Exists(uid) /\ store[uid[1]].finalizers = {"orphan"}
    BY DEF OrphanInv
  <2>1. PICK o \in {n \in Owner : policy[n] = {"orphan"}} : uid = <<o, 1>>
    BY <1>1
  <2>2. o \in live
    BY <1>1, <2>1
  <2>3. store[o] # Gone /\ store[o].inc = 1 /\ store[o].finalizers = {"orphan"}
    BY <1>4, <2>1, <2>2, GarbageCollectorAssumption
  <2> QED
    BY <2>1, <2>3 DEF Exists
<1> QED
  BY <1>9, <1>10, <1>11, <1>13, <1>14 DEF CollectorInv

(* Types, together with what a sweep knows: whatever is written between    *)
(* its calls, the references it is about to drop have no owner behind      *)
(* them, and what it holds unchanged is what the API server has (sweepGC,  *)
(* collect, stripOwnerRefs, removeFinalizer).                              *)
THEOREM TypeCorrect == Spec => [](TypeOK /\ CollectorInv)
<1>1. Types /\ CollectorInv /\ [Next]_vars => Types' /\ CollectorInv'
  BY CollectorInvInductive
<1>2. Spec => [](Types /\ CollectorInv)
  BY <1>1, CollectorInvInitially, PTL DEF Spec
<1>3. Types => TypeOK
  BY TypesAre
<1> QED
  BY <1>2, <1>3, PTL

LEMMA StepOfSweep ==
  ASSUME Types, CollectorInv, [Next]_vars, SweepStep
  PROVE  /\ store' = store \/ Collects \/ Strips \/ Releases
         /\ UNCHANGED vars \/ Sweep \/ ApiFails
<1>1. ~Others
  <2> SUFFICES ASSUME Others PROVE FALSE
    OBVIOUS
  <2>1. writes' = writes + 1
    BY DEF Others, Create, Adopt, Touch, Release, Delete, OthersWrite
  <2> QED
    BY <2>1, GarbageCollectorAssumption DEF SweepStep, Types
<1>2. UNCHANGED vars \/ Sweep \/ ApiFails
  BY <1>1 DEF Next
<1> QED
  BY <1>2, SweepWrites DEF vars, CollectorInv

(* No dependent is taken from an owner that exists and is not waiting for  *)
(* its dependents to go, however the collector's reads and its writes are  *)
(* interleaved with others (collect, stripOwnerRefs, deleteLive).          *)
THEOREM LiveOwnersKeepDependents == Spec => LiveOwnerKeepsDependent
<1> DEFINE Step == (SweepStep /\ gc.pc # "retry") =>
       \A d \in Dependent : store[d] # Gone =>
         \A uid \in store[d].refs :
           (Solid(uid) /\ ~(Orphaning /\ uid = OwnerUID)) => Keeps(d, uid)
<1>1. Types /\ CollectorInv /\ [Next]_vars => [Step]_vars
  <2> SUFFICES ASSUME Types, CollectorInv, [Next]_vars, SweepStep, gc.pc # "retry",
                      NEW d \in Dependent, store[d] # Gone, NEW uid \in store[d].refs,
                      Solid(uid), ~(Orphaning /\ uid = OwnerUID)
               PROVE  Keeps(d, uid)
    OBVIOUS
  <2> USE DEF CollectorInv
  <2>1. store' = store \/ Collects \/ Strips \/ Releases
    BY StepOfSweep
  <2>2. d \in Name /\ store[d] \in Object /\ ~store[d].deleting /\ Owner \cap Dependent = {}
    BY GarbageCollectorAssumption DEF Name, Types, Held, WorldInv
  <2>3. CASE store'[d] = store[d]
    BY <2>2, <2>3 DEF Keeps
  <2>4. CASE Collects /\ gc.item = d
    <3>1. gc.pc = "decide" /\ ~stale /\ gc.live # Gone
      BY <2>4 DEF Collects, HandInv
    <3>2. store[d] = gc.live
      BY <2>4, <3>1 DEF HandInv
    <3>3. ~gc.solid /\ gc.refs = {} /\ Collecting
      BY <3>1 DEF HandInv, Collecting
    <3>4. uid \in gc.drop
      BY <3>1, <3>2, <3>3 DEF HandInv
    <3> QED
      BY <3>1, <3>3, <3>4 DEF HandInv, Dead
  <2>5. CASE Strips /\ gc.item = d
    <3>1. gc.pc = "strip" /\ store[d] = gc.live
          /\ store'[d] = [store[d] EXCEPT !.refs = gc.live.refs \ gc.drop]
      BY <2>2, <2>5 DEF Strips, Types
    <3>2. uid \notin gc.drop
      <4>1. CASE Orphaning
        BY <3>1, <4>1 DEF HandInv
      <4>2. CASE ~Orphaning
        BY <3>1, <4>2 DEF HandInv, Collecting, Dead
      <4> QED
        BY <4>1, <4>2
    <3>3. store'[d].refs = gc.live.refs \ gc.drop /\ store'[d].deleting = store[d].deleting
          /\ store'[d] \in Object
      <4>1. gc.live.refs \ gc.drop \in SUBSET UID
        BY <2>2, <3>1 DEF Object
      <4> QED
        BY <2>2, <3>1, <4>1 DEF Object
    <3>4. store'[d] # Gone
      BY <3>3, GarbageCollectorAssumption
    <3> QED
      BY <2>2, <3>1, <3>2, <3>3, <3>4 DEF Keeps
  <2> QED
    BY <2>1, <2>2, <2>3, <2>4, <2>5 DEF Collects, Strips, Releases, Types
<1>2. Types /\ CollectorInv /\ [Next]_vars => Types' /\ CollectorInv'
  BY CollectorInvInductive
<1> QED
  BY <1>1, <1>2, CollectorInvInitially, PTL DEF Spec, LiveOwnerKeepsDependent
------------------------------------------------------------------------------
LEMMA SnapshotKept ==
  ASSUME Types, Types', CollectorInv, CollectorInv', WorldStep, [Next]_vars, SnapshotInv
  PROVE  SnapshotInv'
<1> USE DEF CollectorInv
<1>0. Name = Owner \cup Dependent /\ Owner \cap Dependent = {}
  BY GarbageCollectorAssumption DEF Name
<1>1. CASE objs' = objs /\ \A d \in Dependent : Shown(d)' => Shown(d)
  <2> SUFFICES ASSUME NEW o \in Owner, ListedDeleting(o)'
               PROVE  /\ Frozen(ListedUID(o))'
                      /\ \A d \in Refs(ListedUID(o))' :
                           Shown(d)' /\ ListedNoSooner(d, o) => d \in Listed(ListedUID(o))'
    BY DEF SnapshotInv, ListedNoSooner
  <2>1. ListedDeleting(o)
    BY <1>1 DEF ListedDeleting
  <2>2. PICK uid \in UID : uid = ListedUID(o)
    BY <1>0, <2>1 DEF ListedUID, ListedDeleting, Types, Held, Object, UID
  <2>3. uid = ListedUID(o)' /\ Listed(uid)' = Listed(uid)
    BY <1>1, <2>2 DEF ListedUID, Listed
  <2>4. Frozen(uid) /\ \A d \in Refs(uid) : Shown(d) /\ ListedNoSooner(d, o) => d \in Listed(uid)
    BY <2>1, <2>2 DEF SnapshotInv
  <2>5. Frozen(uid)'
    BY <2>4, UidStep DEF Frozen
  <2>6. \A d \in Refs(uid)' : d \in Refs(uid)
    BY <2>4, ReferrersShrink
  <2>7. \A d \in Refs(uid)' : Shown(d)' /\ ListedNoSooner(d, o) => d \in Listed(uid)'
    BY <1>1, <2>3, <2>4, <2>6 DEF Refs
  <2> QED
    BY <2>3, <2>5, <2>7
<1>2. CASE listWatched
  <2> DEFINE k == gc.kind
  <2>1. gc.pc = "list" /\ k \in DOMAIN WatchedKinds /\ store' = store /\ incs' = incs
        /\ objs' = [n \in Name |-> IF n \in WatchedKinds[k] THEN store[n] ELSE objs[n]]
    <3>1. gc.pc = "list" /\ store' = store /\ incs' = incs
          /\ objs' = [n \in Name |-> IF n \in WatchedKinds[k] THEN store[n] ELSE objs[n]]
      BY <1>2 DEF listWatched, quiet
    <3>2. gc.kind \in 1 .. Len(WatchedKinds)
      BY DEF Types, GcState
    <3>3. DOMAIN WatchedKinds = 1 .. Len(WatchedKinds)
      BY GarbageCollectorAssumption
    <3> QED
      BY <3>1, <3>2, <3>3
  <2>2. ASSUME NEW d \in Dependent, Shown(d)', \E i \in DOMAIN WatchedKinds : d \in WatchedKinds[i]
        PROVE  d \in WatchedKinds[k] \/ (Shown(d) /\ \E i \in DOMAIN WatchedKinds : i < k /\ d \in WatchedKinds[i])
    <3>1. CASE k < Len(WatchedKinds)
      <4>1. gc'.pc = "list" /\ gc'.kind = k + 1
        BY <1>2, <2>1, <3>1 DEF listWatched, Types, GcState
      <4>2. PICK i \in DOMAIN WatchedKinds : i < k + 1 /\ d \in WatchedKinds[i]
        BY <2>2, <4>1 DEF Shown
      <4>3. i \in Int /\ k \in Int
        BY <2>1, GarbageCollectorAssumption
      <4>4. i = k \/ i < k
        BY <4>2, <4>3
      <4> QED
        BY <4>2, <4>4 DEF Shown
    <3>2. CASE ~(k < Len(WatchedKinds))
      <4>1. PICK i \in DOMAIN WatchedKinds : d \in WatchedKinds[i]
        BY <2>2
      <4>2. i \in 1 .. Len(WatchedKinds) /\ k \in 1 .. Len(WatchedKinds) /\ Len(WatchedKinds) \in Nat
        BY <2>1, GarbageCollectorAssumption
      <4>3. i = k \/ i < k
        BY <3>2, <4>2
      <4> QED
        BY <4>1, <4>3 DEF Shown
    <3> QED
      BY <3>1, <3>2
  <2> SUFFICES ASSUME NEW o \in Owner, ListedDeleting(o)'
               PROVE  /\ Frozen(ListedUID(o))'
                      /\ \A d \in Refs(ListedUID(o))' :
                           Shown(d)' /\ ListedNoSooner(d, o) => d \in Listed(ListedUID(o))'
    BY DEF SnapshotInv, ListedNoSooner
  <2>3. PICK uid \in UID : uid = ListedUID(o)'
    BY <1>0 DEF ListedUID, ListedDeleting, Types, Held, Object, UID
  <2>4. Refs(uid)' = Refs(uid) /\ (Frozen(uid)' <=> Frozen(uid))
    BY <2>1 DEF Refs, Frozen, Known, Adoptable, Exists
  <2>5. CASE o \in WatchedKinds[k]
    <3>1. objs'[o] = store[o] /\ store[o] # Gone /\ store[o].deleting
      BY <1>0, <2>1, <2>5 DEF ListedDeleting
    <3>2. uid = <<o, store[o].inc>> /\ store[o].inc = incs[o]
      BY <1>0, <2>3, <3>1 DEF ListedUID, WorldInv
    <3>3. Frozen(uid)
      <4>1. uid[1] = o /\ uid[2] = incs[o] /\ incs[o] \in Int
        BY <1>0, <3>2, GarbageCollectorAssumption DEF Types
      <4> QED
        BY <3>1, <4>1 DEF Frozen, Known, Adoptable
    <3>4. ASSUME NEW d \in Refs(uid)', Shown(d)', ListedNoSooner(d, o) PROVE d \in Listed(uid)'
      <4>1. d \in Dependent /\ store[d] # Gone /\ uid \in store[d].refs
        BY <2>4, <3>4 DEF Refs
      <4>2. d \in WatchedKinds[k]
        <5>1. ASSUME NEW i \in DOMAIN WatchedKinds, i < k, d \in WatchedKinds[i] PROVE FALSE
          <6>1. k <= i
            BY <2>1, <2>5, <3>4, <5>1 DEF ListedNoSooner
          <6>2. i \in Int /\ k \in Int
            BY <2>1, GarbageCollectorAssumption
          <6> QED
            BY <5>1, <6>1, <6>2
        <5> QED
          BY <2>2, <3>4, <4>1, <5>1 DEF ListedNoSooner
      <4>3. objs'[d] = store[d]
        BY <1>0, <2>1, <4>1, <4>2
      <4> QED
        BY <4>1, <4>3 DEF Listed, referencesUID
    <3> QED
      BY <2>3, <2>4, <3>3, <3>4
  <2>6. CASE o \notin WatchedKinds[k]
    <3>1. objs'[o] = objs[o] /\ ListedDeleting(o) /\ uid = ListedUID(o)
      BY <1>0, <2>1, <2>3, <2>6 DEF ListedDeleting, ListedUID
    <3>2. Frozen(uid) /\ \A d \in Refs(uid) : Shown(d) /\ ListedNoSooner(d, o) => d \in Listed(uid)
      BY <3>1 DEF SnapshotInv
    <3>3. ASSUME NEW d \in Refs(uid)', Shown(d)', ListedNoSooner(d, o) PROVE d \in Listed(uid)'
      <4>1. d \in Dependent /\ store[d] # Gone /\ uid \in store[d].refs
        BY <2>4, <3>3 DEF Refs
      <4>2. CASE d \in WatchedKinds[k]
        <5>1. objs'[d] = store[d]
          BY <1>0, <2>1, <4>1, <4>2
        <5> QED
          BY <4>1, <5>1 DEF Listed, referencesUID
      <4>3. CASE d \notin WatchedKinds[k]
        <5>1. d \in Listed(uid)
          <6>1. Shown(d)
            BY <2>2, <3>3, <4>1, <4>3 DEF ListedNoSooner
          <6> QED
            BY <2>4, <3>2, <3>3, <6>1
        <5>2. objs'[d] = objs[d]
          BY <1>0, <2>1, <4>1, <4>3
        <5> QED
          BY <5>1, <5>2 DEF Listed, referencesUID
      <4> QED
        BY <4>2, <4>3
    <3> QED
      BY <2>3, <2>4, <3>2, <3>3
  <2> QED
    BY <2>5, <2>6
<1>3. CASE SweepDone
  BY <1>0, <1>3 DEF SweepDone, SnapshotInv, ListedDeleting
<1>4. CASE Others \/ UNCHANGED vars
  <2>1. objs' = objs /\ gc' = gc
    BY <1>4 DEF Others, Create, Adopt, Touch, Release, Delete, OthersWrite, vars
  <2> QED
    BY <1>1, <2>1 DEF Shown
<1>5. CASE (Sweep \/ ApiFails) /\ ~listWatched /\ ~SweepDone
  <2>1. objs' = objs
    BY <1>5 DEF Sweep, ApiFails, PickOwner, FinalizersDone, PickDependent, ownerDangling,
      AllDangling, GetLive, resolveOwner, Resolved, deleteLive, ReadAgain, RetryDelete, Strip,
      CollectNext, ReadDependent, OrphanStrip, DependentsDone, ReadOwner, removeFinalizer
  <2>2. CASE gc.pc = "list"
    <3>1. gc' = Start
      BY <1>5, <2>2 DEF Sweep, ApiFails, PickOwner, FinalizersDone, PickDependent, ownerDangling,
        AllDangling, GetLive, resolveOwner, Resolved, deleteLive, ReadAgain, RetryDelete, Strip,
        CollectNext, ReadDependent, OrphanStrip, DependentsDone, ReadOwner, removeFinalizer
    <3>2. gc'.pc = "list" /\ gc'.kind = 1
      BY <3>1 DEF Start
    <3>3. \A i \in DOMAIN WatchedKinds : ~(i < 1)
      BY GarbageCollectorAssumption
    <3> QED
      BY <1>1, <2>1, <3>2, <3>3 DEF Shown
  <2>3. CASE gc.pc # "list"
    BY <1>1, <2>1, <2>3 DEF Shown
  <2> QED
    BY <2>2, <2>3
<1> QED
  BY <1>2, <1>3, <1>4, <1>5 DEF Next

LEMMA OwnerAtHand ==
  ASSUME Types, CollectorInv, gc.owner # Gone
  PROVE  gc.owner \in Owner /\ OwnerUID \in UID /\ OwnerUID = ListedUID(gc.owner)
<1>1. gc.owner \in Owner /\ gc.owner \in Name
  BY DEF Types, GcState, Name
<1>2. objs[gc.owner] \in Object
  BY <1>1 DEF CollectorInv, LoopInv, ListedDeleting, Types, Held
<1> QED
  BY <1>1, <1>2 DEF OwnerUID, ListedUID, UID, Object

(* The referrers of the owner at hand go, and never come. *)
LEMMA ReferrersAtHand ==
  ASSUME Types, Types', CollectorInv, WorldStep, SnapshotInv, gc.owner # Gone,
         objs' = objs, gc'.owner = gc.owner
  PROVE  /\ OwnerUID' = OwnerUID /\ Missable(OwnerUID)' = Missable(OwnerUID)
         /\ \A d \in Refs(OwnerUID)' : d \in Refs(OwnerUID)
<1>1. gc.owner \in Owner /\ ListedDeleting(gc.owner)
  BY OwnerAtHand DEF CollectorInv, LoopInv
<1>2. PICK uid \in UID : uid = OwnerUID /\ uid = ListedUID(gc.owner)
  BY OwnerAtHand
<1>3. OwnerUID' = uid
  BY <1>2 DEF OwnerUID
<1>4. Frozen(uid)
  BY <1>1, <1>2 DEF SnapshotInv
<1>5. \A d \in Refs(uid)' : d \in Refs(uid)
  BY <1>4, ReferrersShrink
<1>6. Missable(uid)' = Missable(uid)
  BY DEF Missable, Listed, ListedNoSooner
<1> QED
  BY <1>2, <1>3, <1>5, <1>6

LEMMA ReleaseKept ==
  ASSUME Types, Types', CollectorInv, CollectorInv', WorldStep, [Next]_vars, SnapshotInv, ReleaseInv
  PROVE  ReleaseInv'
<1> USE DEF CollectorInv
<1>d. gc \in GcState
  BY DEF Types
<1>1. CASE gc'.owner = Gone
  <2>1. gc'.pc \notin {"readOwner", "unfinalize"}
    BY <1>1 DEF LoopInv
  <2> QED
    BY <1>1, <2>1 DEF ReleaseInv
<1>2. CASE PickOwner
  <2>1. PICK o \in gc.todo :
          gc' = [gc EXCEPT !.todo = @ \ {o},
                        !.pc = IF "foreground" \in objs[o].finalizers THEN "foreground" ELSE "orphan",
                        !.owner = o, !.deps = Listed(<<o, objs[o].inc>>), !.clear = TRUE]
    BY <1>2 DEF PickOwner
  <2>2. gc'.owner = o /\ gc'.deps = Listed(ListedUID(o)) /\ gc'.pc \in {"foreground", "orphan"}
    BY <1>d, <2>1 DEF GcState, ListedUID
  <2>3. o \in Owner /\ ListedDeleting(o) /\ objs' = objs /\ store' = store /\ gc.pc = "finalizers"
    BY <1>2, <2>1 DEF PickOwner, LoopInv
  <2>4. OwnerUID' = ListedUID(o) /\ Refs(OwnerUID)' = Refs(ListedUID(o))
    BY <2>2, <2>3 DEF OwnerUID, ListedUID, Refs
  <2>5. Refs(ListedUID(o)) \subseteq Listed(ListedUID(o)) \cup Missable(ListedUID(o))
    <3>1. ListedUID(o)[1] = o
      BY DEF ListedUID
    <3> QED
      BY <2>3, <3>1 DEF SnapshotInv, Shown, Missable, Refs
  <2>6. Missable(OwnerUID)' = Missable(ListedUID(o))
    BY <2>3, <2>4 DEF Missable, Listed, ListedNoSooner
  <2> QED
    BY <2>2, <2>4, <2>5, <2>6 DEF ReleaseInv, Collecting
<1> DEFINE Stays == gc.owner # Gone /\ objs' = objs /\ gc'.owner = gc.owner
<1>a. Stays => /\ OwnerUID' = OwnerUID /\ Missable(OwnerUID)' = Missable(OwnerUID)
               /\ \A d \in Refs(OwnerUID)' : d \in Refs(OwnerUID)
  BY ReferrersAtHand
<1>3. CASE Stays /\ gc'.clear = FALSE /\ gc'.pc \notin {"readOwner", "unfinalize"}
  BY <1>3 DEF ReleaseInv
<1>4. CASE (Others \/ UNCHANGED vars) /\ gc.owner # Gone
  <2>1. objs' = objs /\ gc' = gc
    BY <1>4 DEF Others, Create, Adopt, Touch, Release, Delete, OthersWrite, vars
  <2>2. Collecting' <=> Collecting
    BY <2>1 DEF Collecting, Orphaning
  <2> HIDE DEF CollectorInv
  <2> QED
    BY <1>4, <1>a, <2>1, <2>2 DEF ReleaseInv
<1>5. CASE ReadDependent /\ gc.owner # Gone
  <2>1. gc.pc = "orphan" /\ Orphaning /\ objs' = objs /\ store' = store
    BY <1>5 DEF ReadDependent, LoopInv
  <2>2. PICK d \in gc.deps :
          IF store[d] = Gone \/ ~referencesUID(store[d], OwnerUID)
          THEN gc' = [gc EXCEPT !.deps = @ \ {d}]
          ELSE gc' = [[gc EXCEPT !.deps = @ \ {d}]
                       EXCEPT !.pc = "strip", !.item = d, !.live = store[d], !.drop = {OwnerUID}]
    BY <1>5 DEF ReadDependent
  <2>3. /\ gc'.owner = gc.owner /\ gc'.deps = gc.deps \ {d} /\ gc'.clear = gc.clear
        /\ \/ gc'.pc = "orphan" /\ (store[d] = Gone \/ ~referencesUID(store[d], OwnerUID))
           \/ gc'.pc = "strip" /\ gc'.item = d
    <3> DEFINE next == [gc EXCEPT !.deps = @ \ {d}]
    <3>1. next \in GcState /\ next.owner = gc.owner /\ next.deps = gc.deps \ {d}
          /\ next.clear = gc.clear /\ next.pc = "orphan"
      BY <1>d, <2>1 DEF GcState
    <3> HIDE DEF next
    <3>2. IF store[d] = Gone \/ ~referencesUID(store[d], OwnerUID) THEN gc' = next
          ELSE gc' = [next EXCEPT !.pc = "strip", !.item = d, !.live = store[d], !.drop = {OwnerUID}]
      BY <2>2 DEF next
    <3>3. CASE gc' = next /\ (store[d] = Gone \/ ~referencesUID(store[d], OwnerUID))
      BY <3>1, <3>3
    <3>4. CASE gc' = [next EXCEPT !.pc = "strip", !.item = d, !.live = store[d], !.drop = {OwnerUID}]
      BY <3>1, <3>4 DEF GcState
    <3> QED
      BY <3>2, <3>3, <3>4
  <2>4. Orphaning'
    BY <2>1, <2>3 DEF Orphaning
  <2>5. gc'.clear => Refs(OwnerUID) \subseteq gc.deps \cup Missable(OwnerUID)
    BY <1>5, <2>1, <2>3 DEF ReleaseInv
  <2>6. gc'.clear =>
          Refs(OwnerUID)' \subseteq gc'.deps \cup Missable(OwnerUID)'
                                    \cup (IF gc'.pc = "strip" THEN {gc'.item} ELSE {})
    <3>1. Refs(OwnerUID)' = Refs(OwnerUID) /\ Missable(OwnerUID)' = Missable(OwnerUID)
      BY <1>5, <1>a, <2>1, <2>3 DEF Refs
    <3> QED
      BY <2>3, <2>5, <3>1 DEF Refs, referencesUID
  <2> QED
    BY <2>3, <2>4, <2>6 DEF ReleaseInv, Collecting
<1>6. CASE OrphanStrip /\ gc.owner # Gone
  <2>1. gc.pc = "strip" /\ Orphaning /\ objs' = objs /\ stripOwnerRefs
        /\ gc' = [Idle EXCEPT !.pc = "orphan", !.clear = Unclear]
    BY <1>6 DEF OrphanStrip
  <2>2. gc'.owner = gc.owner /\ gc'.deps = gc.deps /\ gc'.pc = "orphan"
        /\ gc'.clear = Unclear
    <3> DEFINE c == Unclear
    <3>1. gc' = [Idle EXCEPT !.pc = "orphan", !.clear = c]
      BY <2>1
    <3> HIDE DEF c
    <3>2. gc'.owner = gc.owner /\ gc'.deps = gc.deps /\ gc'.pc = "orphan" /\ gc'.clear = c
      BY <1>d, <3>1 DEF GcState, Idle
    <3> QED
      BY <3>2 DEF c
  <2>3. Orphaning'
    BY <2>1, <2>2 DEF Orphaning
  <2>4. ASSUME gc'.clear PROVE Refs(OwnerUID)' \subseteq gc'.deps \cup Missable(OwnerUID)'
    <3>1. gc.clear /\ ~(store[gc.item] # Gone /\ stale)
      BY <2>2, <2>4, Zenon DEF Unclear
    <3>2. Refs(OwnerUID) \subseteq gc.deps \cup Missable(OwnerUID) \cup {gc.item}
      BY <1>6, <2>1, <3>1 DEF ReleaseInv
    <3>3. gc.item \notin Refs(OwnerUID)'
      <4>1. gc.item \in Dependent /\ gc.item \in Name /\ gc.drop = {OwnerUID}
        BY <2>1 DEF HandInv, Name
      <4>2. CASE store[gc.item] = Gone
        <5>1. gc.item \notin Refs(OwnerUID)
          BY <4>2 DEF Refs
        <5> QED
          BY <1>6, <1>a, <2>1, <2>2, <5>1
      <4>3. CASE store[gc.item] # Gone
        <5>1. store' = [store EXCEPT ![gc.item].refs = gc.live.refs \ gc.drop]
          BY <2>1, <3>1, <4>3 DEF stripOwnerRefs
        <5>2. store[gc.item] \in Object
          BY <4>1, <4>3 DEF Types, Held
        <5>3. store'[gc.item].refs = gc.live.refs \ gc.drop
          BY <4>1, <5>1, <5>2 DEF Types, Object
        <5> QED
          BY <1>6, <1>a, <2>1, <2>2, <4>1, <5>3 DEF Refs
      <4> QED
        BY <4>2, <4>3
    <3> QED
      BY <1>6, <1>a, <2>1, <2>2, <3>2, <3>3
  <2> QED
    BY <2>2, <2>3, <2>4 DEF ReleaseInv, Collecting
<1>7. CASE DependentsDone /\ gc'.owner # Gone
  <2>1. /\ gc.pc \in {"foreground", "orphan"} /\ gc.deps = {} /\ gc.clear
        /\ objs' = objs
        /\ gc' = [gc EXCEPT !.pc = "readOwner", !.item = gc.owner, !.tries = Retries]
    <3>1. gc.pc \in {"foreground", "orphan"} /\ gc.deps = {} /\ objs' = objs
      BY <1>7 DEF DependentsDone
    <3>2. gc' = [gc EXCEPT !.pc = "finalizers", !.owner = Gone, !.clear = TRUE] => gc'.owner = Gone
      BY <1>d DEF GcState
    <3> QED
      BY <1>7, <3>1, <3>2 DEF DependentsDone
  <2>2. gc'.owner = gc.owner /\ gc'.pc = "readOwner" /\ gc.owner # Gone
    BY <1>d, <1>7, <2>1 DEF GcState
  <2>3. Refs(OwnerUID)' \subseteq Missable(OwnerUID)'
    BY <1>a, <2>1, <2>2 DEF ReleaseInv
  <2> QED
    BY <2>2, <2>3 DEF ReleaseInv, Collecting
<1>8. CASE (ReadOwner \/ removeFinalizer) /\ gc'.owner # Gone
  <2>1. gc.pc \in {"readOwner", "unfinalize"} /\ objs' = objs /\ gc.owner # Gone
    BY <1>8 DEF ReadOwner, removeFinalizer, LoopInv
  <2>2. ~NextOwner
    <3>1. NextOwner => gc'.owner = Gone
      BY <1>d DEF NextOwner, Idle, GcState
    <3> QED
      BY <1>8, <3>1
  <2>3. \/ gc' = [gc EXCEPT !.pc = "unfinalize", !.live = store[gc.owner]]
        \/ gc' = [gc EXCEPT !.pc = "readOwner", !.tries = @ - 1]
    BY <1>8, <2>2 DEF ReadOwner, removeFinalizer
  <2>4. gc'.owner = gc.owner /\ gc'.pc \in {"readOwner", "unfinalize"}
    BY <1>d, <2>1, <2>3 DEF GcState
  <2>5. Refs(OwnerUID)' \subseteq Missable(OwnerUID)'
    BY <1>a, <2>1, <2>4 DEF ReleaseInv
  <2> QED
    BY <2>4, <2>5 DEF ReleaseInv, Collecting
<1>9. CASE CollectNext /\ gc.owner # Gone
  <2>1. PICK d \in gc.deps : gc' = [gc EXCEPT !.deps = @ \ {d}, !.pc = "getLive", !.item = d, !.clear = FALSE]
    BY <1>9 DEF CollectNext
  <2>2. gc'.owner = gc.owner /\ gc'.clear = FALSE /\ gc'.pc = "getLive" /\ objs' = objs
    BY <1>d, <1>9, <2>1 DEF GcState, CollectNext
  <2> QED
    BY <1>3, <1>9, <2>2
<1>10. CASE /\ GetLive \/ resolveOwner \/ Resolved \/ deleteLive \/ ReadAgain \/ RetryDelete \/ Strip
            /\ gc.owner # Gone
  <2>1. Collecting /\ objs' = objs
    BY <1>10 DEF Collecting, GetLive, resolveOwner, Resolved, deleteLive, ReadAgain, RetryDelete,
       Strip
  <2>2. gc.clear = FALSE
    BY <1>10, <1>d, <2>1 DEF ReleaseInv, GcState
  <2>3. gc'.owner = gc.owner /\ gc'.clear = gc.clear /\ gc'.pc \notin {"readOwner", "unfinalize"}
    <3>1. Done(Loop) => gc'.owner = gc.owner /\ gc'.clear = gc.clear /\ gc'.pc \in {"background", "foreground"}
      BY <1>d DEF Done, Loop, Idle, GcState
    <3>2. \A loc \in {"strip", "decide", "again", "retry"} :
            Goto(loc) => gc'.owner = gc.owner /\ gc'.clear = gc.clear /\ gc'.pc = loc
      BY <1>d DEF Goto, GcState
    <3>3. CASE GetLive
      <4>1. ~Done(Loop) => gc' = [gc EXCEPT !.pc = "resolve", !.live = store[gc.item], !.refs = store[gc.item].refs]
        BY <3>3 DEF GetLive
      <4>2. CASE Done(Loop)
        BY <3>1, <4>2
      <4>3. CASE ~Done(Loop)
        BY <1>d, <4>1, <4>3 DEF GcState
      <4> QED
        BY <4>2, <4>3
    <3>4. CASE resolveOwner
      <4>1. PICK uid \in gc.refs : Classify(uid, Lookup(uid)) /\ gc.pc = "resolve"
        BY <3>4 DEF resolveOwner
      <4> QED
        BY <1>d, <4>1 DEF Classify, GcState
    <3>5. CASE Resolved
      <4>1. Done(Loop) \/ Goto("strip") \/ Goto("decide")
        BY <3>5 DEF Resolved
      <4> QED
        BY <3>1, <3>2, <4>1
    <3>6. CASE deleteLive \/ ReadAgain
      <4>1. Done(Loop) \/ Goto("again") \/ Goto("retry")
        BY <3>6 DEF deleteLive, ReadAgain
      <4> QED
        BY <3>1, <3>2, <4>1
    <3>7. CASE RetryDelete \/ Strip
      BY <3>1, <3>7 DEF RetryDelete, Strip
    <3> QED
      BY <1>10, <3>3, <3>4, <3>5, <3>6, <3>7
  <2> QED
    BY <1>3, <1>10, <2>1, <2>2, <2>3
<1>11. CASE ApiFails /\ gc'.owner # Gone
  <2>1. objs' = objs
    BY <1>11 DEF ApiFails
  <2>2. ~NextOwner /\ gc' # Start
    <3>1. NextOwner => gc'.owner = Gone
      BY <1>d DEF NextOwner, Idle, GcState
    <3>2. Start.owner = Gone
      BY DEF Start
    <3> QED
      BY <1>11, <3>1, <3>2
  <2>3. CASE Done(Loop) /\ Collecting
    <3>1. gc'.owner = gc.owner /\ gc'.clear = gc.clear /\ gc'.pc \in {"background", "foreground"}
      BY <1>d, <2>3 DEF Done, Loop, Idle, GcState
    <3>2. gc.clear = FALSE
      BY <1>11, <1>d, <2>3, <3>1 DEF ReleaseInv, GcState
    <3> QED
      BY <1>3, <1>11, <2>1, <3>1, <3>2
  <2>4. CASE Done("background") /\ gc.pc = "dangling"
    <3>1. gc'.owner = gc.owner /\ gc.owner = Gone
      BY <1>d, <2>4 DEF Done, Idle, GcState, LoopInv
    <3> QED
      BY <1>11, <3>1
  <2>5. CASE \E d \in gc.deps : gc' = [gc EXCEPT !.deps = @ \ {d}, !.clear = FALSE] /\ gc.pc = "orphan"
    <3>1. gc'.owner = gc.owner /\ gc'.clear = FALSE /\ gc'.pc = "orphan"
      BY <1>d, <2>5 DEF GcState
    <3> QED
      BY <1>3, <1>11, <2>1, <3>1
  <2>6. CASE gc' = [Idle EXCEPT !.pc = "orphan", !.clear = FALSE]
    <3>1. gc'.owner = gc.owner /\ gc'.clear = FALSE /\ gc'.pc = "orphan"
      BY <1>d, <2>6 DEF GcState, Idle
    <3> QED
      BY <1>3, <1>11, <2>1, <3>1
  <2> QED
    BY <1>11, <2>2, <2>3, <2>4, <2>5, <2>6 DEF ApiFails, Collecting
<1>12. CASE gc.owner = Gone /\ ~PickOwner
  <2>1. CASE Others \/ UNCHANGED vars
    <3>1. gc' = gc
      BY <2>1 DEF Others, Create, Adopt, Touch, Release, Delete, OthersWrite, vars
    <3> QED
      BY <1>1, <1>12, <3>1
  <2>2. CASE Sweep \/ ApiFails
    <3>0. gc.pc \notin {"foreground", "orphan", "readOwner", "unfinalize"} /\ ~Orphaning
      BY <1>12 DEF LoopInv, Orphaning
    <3>1. Start.owner = Gone /\ (gc' = [Idle EXCEPT !.pc = "orphan", !.clear = FALSE] => gc'.owner = Gone)
      BY <1>d, <1>12 DEF Start, Idle, GcState
    <3>2. \A loc : Done(loc) \/ Goto(loc) => gc'.owner = Gone
      BY <1>d, <1>12 DEF Done, Goto, Idle, GcState
    <3>3. CASE listWatched
      BY <1>1, <1>d, <1>12, <3>3 DEF listWatched, Start, GcState
    <3>4. CASE FinalizersDone \/ SweepDone
      <4>1. gc' = Start \/ \E todo : gc' = [Start EXCEPT !.pc = "background", !.todo = todo]
        BY <3>4 DEF FinalizersDone, SweepDone
      <4>2. \A todo : [Start EXCEPT !.pc = "background", !.todo = todo].owner = Gone
        BY DEF Start
      <4>3. gc'.owner = Gone
        BY <3>1, <4>1, <4>2
      <4> QED
        BY <1>1, <4>3
    <3>5. CASE PickDependent \/ AllDangling
      BY <1>1, <1>d, <1>12, <3>2, <3>5 DEF PickDependent, AllDangling, GcState
    <3>6. CASE ownerDangling
      <4>1. PICK uid \in gc.refs : gc' = [gc EXCEPT !.refs = @ \ {uid}] \/ Done("background")
        BY <3>6 DEF ownerDangling
      <4> QED
        BY <1>1, <1>d, <1>12, <3>2, <4>1 DEF GcState
    <3>7. CASE GetLive
      BY <1>1, <1>d, <1>12, <3>2, <3>7 DEF GetLive, GcState
    <3>8. CASE resolveOwner
      <4>1. PICK uid \in gc.refs : Classify(uid, Lookup(uid))
        BY <3>8 DEF resolveOwner
      <4> QED
        BY <1>1, <1>d, <1>12, <4>1 DEF Classify, GcState
    <3>9. CASE Resolved \/ deleteLive \/ ReadAgain \/ RetryDelete \/ Strip
      <4>1. \E loc : Done(loc) \/ Goto(loc)
        BY <3>9 DEF Resolved, deleteLive, ReadAgain, RetryDelete, Strip
      <4> QED
        BY <1>1, <3>2, <4>1
    <3>10. CASE ApiFails
      <4>1. gc' = Start \/ \E loc : Done(loc)
        BY <3>0, <3>10 DEF ApiFails
      <4> QED
        BY <1>1, <3>1, <3>2, <4>1
    <3> QED
      BY <1>12, <2>2, <3>0, <3>3, <3>4, <3>5, <3>6, <3>7, <3>8, <3>9, <3>10
      DEF Sweep, CollectNext, ReadDependent, OrphanStrip, DependentsDone, ReadOwner, removeFinalizer
  <2> QED
    BY <2>1, <2>2 DEF Next
<1>13. CASE gc.owner # Gone /\ (listWatched \/ FinalizersDone \/ PickDependent \/ ownerDangling
                                \/ AllDangling \/ SweepDone)
  BY <1>13 DEF listWatched, FinalizersDone, PickDependent, ownerDangling, AllDangling, SweepDone,
     LoopInv
<1> QED
  BY <1>1, <1>2, <1>4, <1>5, <1>6, <1>7, <1>8, <1>9, <1>10, <1>11, <1>12, <1>13 DEF Next, Sweep

LEMMA MissedGrows ==
  ASSUME [Next]_vars PROVE missed \subseteq missed'
<1> USE DEF quiet
<1>1. CASE Others \/ ApiFails \/ UNCHANGED vars
  BY <1>1 DEF Others, Create, Adopt, Touch, Release, Delete, OthersWrite, ApiFails, vars
<1>2. CASE removeFinalizer
  BY <1>2 DEF removeFinalizer
<1>3. CASE Sweep /\ ~removeFinalizer
  BY <1>3 DEF Sweep, listWatched, PickOwner, FinalizersDone, PickDependent, ownerDangling,
    AllDangling, SweepDone, GetLive, resolveOwner, Resolved, deleteLive, ReadAgain, RetryDelete,
    Strip, CollectNext, ReadDependent, OrphanStrip, DependentsDone, ReadOwner
<1> QED
  BY <1>1, <1>2, <1>3 DEF Next

(* The dependents an owner is released without are written down. *)
LEMMA ReleaseMisses ==
  ASSUME Sweep \/ ApiFails, gc.pc = "unfinalize", store' # store
  PROVE  \A d \in Missable(OwnerUID) :
           store[d] # Gone /\ referencesUID(store[d], OwnerUID) => <<d, OwnerUID>> \in missed'
<1>1. removeFinalizer
  BY DEF Sweep, ApiFails, listWatched, PickOwner, FinalizersDone, PickDependent, ownerDangling,
    AllDangling, SweepDone, GetLive, resolveOwner, Resolved, deleteLive, ReadAgain, RetryDelete,
    Strip, CollectNext, ReadDependent, OrphanStrip, DependentsDone, ReadOwner
<1>2. missed' = missed \cup {<<d, OwnerUID>> : d \in {x \in Missable(OwnerUID) :
                  store[x] # Gone /\ referencesUID(store[x], OwnerUID)}}
  BY <1>1 DEF removeFinalizer
<1> QED
  BY <1>2

LEMMA OrphanKept ==
  ASSUME Types, Types', CollectorInv, CollectorInv', WorldStep, [Next]_vars,
         SnapshotInv, ReleaseInv, OrphanInv
  PROVE  OrphanInv'
<1> USE DEF CollectorInv
<1> SUFFICES ASSUME NEW uid \in orphaned'
             PROVE  \/ Exists(uid)' /\ store'[uid[1]].finalizers = {"orphan"}
                    \/ Frozen(uid)' /\ \A d \in Refs(uid)' : <<d, uid>> \in missed'
  BY DEF OrphanInv
<1> DEFINE o == uid[1]
<1>0. uid \in UID /\ o \in Owner /\ o \in Name /\ Owner \cap Dependent = {}
  BY UidParts, GarbageCollectorAssumption DEF Types
<1>m. missed \subseteq missed'
  BY MissedGrows
<1>1. CASE Frozen(uid) /\ \A d \in Refs(uid) : <<d, uid>> \in missed'
  <2>1. Frozen(uid)'
    BY <1>0, <1>1, UidStep DEF Frozen
  <2>2. \A d \in Refs(uid)' : d \in Refs(uid)
    BY <1>0, <1>1, ReferrersShrink
  <2> QED
    BY <1>1, <2>1, <2>2
<1>2. CASE uid \notin orphaned
  <2>1. Others
    BY <1>2, SweepWrites DEF Next, vars
  <2>2. PICK n \in Name, policy \in {{}, {"foreground"}, {"orphan"}} :
          Delete(n, policy) /\ "orphan" \in policy /\ uid = <<n, store[n].inc>>
    BY <1>2, <2>1 DEF Others, Create, Adopt, Touch, Release, Delete
  <2>3. policy = {"orphan"} /\ uid[1] = n /\ uid[2] = store[n].inc
    BY <2>2
  <2>4. store[n] # Gone
        /\ store' = [store EXCEPT ![n] = [store[n] EXCEPT !.deleting = TRUE, !.finalizers = policy]]
    BY <2>2, <2>3 DEF Delete, OthersWrite
  <2>5. store[n] \in Object /\ store'[n] \in Held
    BY <2>4 DEF Types, Held
  <2>6. store'[n] = [store[n] EXCEPT !.deleting = TRUE, !.finalizers = policy]
    BY <2>4 DEF Types
  <2>7. store'[n].inc = store[n].inc /\ store'[n].finalizers = {"orphan"}
        /\ store'[n] \in Object
    <3>1. TRUE \in BOOLEAN /\ policy \in SUBSET Finalizer
      BY <2>3, Zenon DEF Finalizer
    <3> QED
      BY <2>3, <2>5, <2>6, <3>1 DEF Object
  <2>8. store'[n] # Gone
    BY <2>7, GarbageCollectorAssumption
  <2> QED
    BY <2>3, <2>7, <2>8 DEF Exists
<1>3. CASE uid \in orphaned /\ Exists(uid) /\ store[o].finalizers = {"orphan"}
  <2>1. store[o] # Gone /\ store[o].inc = uid[2] /\ store[o].deleting
    BY <1>0, <1>3 DEF Exists, WorldInv, WellFormed
  <2>2. CASE store'[o] = store[o]
    BY <1>3, <2>1, <2>2 DEF Exists
  <2>3. CASE store'[o] # store[o]
    <3>1. store'[o] = Gone
      BY <1>0, <2>1, <2>3 DEF WorldStep, OwnerStep
    <3>2. ~Others
      <4> SUFFICES ASSUME Others PROVE FALSE
        OBVIOUS
      <4>1. PICK n, obj : n \in Name /\ OthersWrite(n, obj)
        BY DEF Others, Create, Adopt, Touch, Release, Delete, Name
      <4>2. n = o
        BY <1>0, <2>3, <4>1 DEF OthersWrite, Types
      <4>3. \A m \in Name : \A x : OthersWrite(m, x) => m = o
        BY <1>0, <2>3 DEF OthersWrite, Types
      <4>4. ASSUME NEW m \in Name, NEW refs, Create(m, refs) PROVE FALSE
        BY <2>1, <4>3, <4>4 DEF Create
      <4>5. ASSUME NEW m \in Dependent, NEW u, Adopt(m, u) PROVE FALSE
        BY <1>0, <4>3, <4>5 DEF Adopt, Name
      <4>6. ASSUME NEW m \in Name, Touch(m) PROVE FALSE
        BY <2>3, <4>3, <4>6 DEF Touch, OthersWrite, Types
      <4>7. ASSUME NEW m \in Name, NEW policy, Delete(m, policy) PROVE FALSE
        BY <2>1, <4>3, <4>7 DEF Delete
      <4>8. ASSUME NEW m \in Owner, Release(m) PROVE FALSE
        <5>1. m = o /\ orphaned' = orphaned \ {<<m, store[m].inc>>}
          BY <4>3, <4>8 DEF Release, Name
        <5>2. uid = <<o, store[o].inc>>
          BY <1>0, <2>1 DEF UID
        <5> QED
          BY <5>1, <5>2
      <4> QED
        BY <4>4, <4>5, <4>6, <4>7, <4>8 DEF Others
    <3>3. Releases
      BY <1>0, <2>3, <3>2, SweepWrites DEF Next, vars, Collects, Strips, Types
    <3>4. gc.owner = o /\ gc.pc = "unfinalize" /\ gc.owner # Gone
      BY <1>0, <2>3, <3>3 DEF Releases, Types, LoopInv
    <3>5. uid = OwnerUID
      <4>1. objs[gc.owner].inc = store[o].inc
        BY <3>3, <3>4 DEF Releases, HandInv
      <4> QED
        BY <1>0, <2>1, <3>4, <4>1 DEF OwnerUID, UID
    <3>6. \A d \in Refs(uid) : <<d, uid>> \in missed'
      <4>1. Refs(uid) \subseteq Missable(OwnerUID)
        BY <3>4, <3>5 DEF ReleaseInv
      <4>2. \A d \in Missable(OwnerUID) :
              store[d] # Gone /\ referencesUID(store[d], OwnerUID) => <<d, OwnerUID>> \in missed'
        BY <2>3, <3>2, <3>4, ReleaseMisses DEF Next, vars
      <4> QED
        BY <3>5, <4>1, <4>2 DEF Refs, referencesUID
    <3>7. Frozen(uid)
      BY <1>0, <3>4, <3>5, OwnerAtHand DEF SnapshotInv, LoopInv
    <3> QED
      BY <1>1, <3>6, <3>7
  <2> QED
    BY <2>2, <2>3
<1> QED
  BY <1>1, <1>2, <1>3, <1>m DEF OrphanInv

LEMMA DeletionInvInductive ==
  ASSUME Types, CollectorInv, DeletionInv, [Next]_vars
  PROVE  Types' /\ CollectorInv' /\ DeletionInv'
<1>1. Types' /\ CollectorInv' /\ WorldStep
  BY CollectorInvInductive, TypesKept
<1> QED
  BY <1>1, SnapshotKept, ReleaseKept, OrphanKept DEF DeletionInv

LEMMA DeletionInvInitially == Init => Types /\ CollectorInv /\ DeletionInv
<1> SUFFICES ASSUME Init PROVE SnapshotInv /\ ReleaseInv
  BY CollectorInvInitially DEF DeletionInv
<1>1. objs = [n \in Name |-> Gone] /\ gc.owner = Gone /\ gc.pc = "list"
  BY DEF Init, Start
<1> QED
  BY <1>1 DEF SnapshotInv, ReleaseInv, ListedDeleting, Name

(* An owner's finalizer comes off only when no dependent names it any      *)
(* more, whatever order WatchedKinds is in; except a dependent listed      *)
(* before the owner that took the reference between the two Lists          *)
(* (foregroundDeleteDependents, orphanDependents, removeFinalizer).        *)
THEOREM ReleasedOwnersUnreferenced == Spec => ReleasedOwnerUnreferenced
<1> DEFINE Step == SweepStep => \A o \in Owner :
       (store[o] # Gone /\ store'[o] = Gone) =>
         \A d \in Dependent :
           store[d] # Gone /\ referencesUID(store[d], <<o, store[o].inc>>)
             => d \in Missable(<<o, store[o].inc>>)
<1>1. Types /\ CollectorInv /\ DeletionInv /\ [Next]_vars => [Step]_vars
  <2> SUFFICES ASSUME Types, CollectorInv, DeletionInv, [Next]_vars, SweepStep,
                      NEW o \in Owner, store[o] # Gone, store'[o] = Gone,
                      NEW d \in Dependent, store[d] # Gone,
                      referencesUID(store[d], <<o, store[o].inc>>)
               PROVE  d \in Missable(<<o, store[o].inc>>)
    OBVIOUS
  <2> USE DEF CollectorInv, DeletionInv
  <2>0. o \in Name /\ o \notin Dependent
    BY GarbageCollectorAssumption DEF Name
  <2>1. Releases /\ gc.owner = o
    BY <2>0, StepOfSweep DEF Collects, Strips, Releases, Types
  <2>2. objs[o].inc = store[o].inc /\ gc.pc = "unfinalize"
    BY <2>1 DEF Releases, HandInv
  <2>3. Refs(OwnerUID) \subseteq Missable(OwnerUID) /\ OwnerUID = <<o, store[o].inc>>
    BY <2>1, <2>2 DEF ReleaseInv, OwnerUID
  <2> QED
    BY <2>3 DEF Refs, referencesUID
<1>2. Types /\ CollectorInv /\ DeletionInv /\ [Next]_vars
        => Types' /\ CollectorInv' /\ DeletionInv'
  BY DeletionInvInductive
<1> QED
  BY <1>1, <1>2, DeletionInvInitially, PTL DEF Spec, ReleasedOwnerUnreferenced

(* The background pass collects no dependent that orphaning was to keep,   *)
(* except one its owner was released without, for having taken the         *)
(* reference between the two Lists (orphanDependents, collect).            *)
THEOREM OrphansAreKept == Spec => OrphansKept
<1> DEFINE Step == (SweepStep /\ gc.pc # "retry") => \A d \in Dependent :
       (store[d] # Gone /\ store'[d] = Gone) =>
         \A uid \in store[d].refs \cap orphaned : <<d, uid>> \in missed
<1>1. Types /\ CollectorInv /\ DeletionInv /\ [Next]_vars => [Step]_vars
  <2> SUFFICES ASSUME Types, CollectorInv, DeletionInv, [Next]_vars, SweepStep,
                      gc.pc # "retry", NEW d \in Dependent, store[d] # Gone, store'[d] = Gone,
                      NEW uid \in store[d].refs, uid \in orphaned
               PROVE  <<d, uid>> \in missed
    OBVIOUS
  <2> USE DEF CollectorInv, DeletionInv
  <2>0. d \in Name /\ d \notin Owner
    BY GarbageCollectorAssumption DEF Name
  <2>1. store[d] \in Object
    BY <2>0 DEF Types, Held
  <2>2. ~Strips
    <3> SUFFICES ASSUME Strips PROVE FALSE
      OBVIOUS
    <3>1. d = gc.item
      BY <2>0 DEF Strips, Types
    <3>2. store'[d] = [store[d] EXCEPT !.refs = gc.live.refs \ gc.drop] /\ gc.live = store[d]
      BY <2>0, <3>1 DEF Strips, Types
    <3>3. gc.live.refs \ gc.drop \in SUBSET UID
      BY <2>1, <3>2 DEF Object
    <3>4. store'[d] \in Object
      BY <2>1, <3>2, <3>3 DEF Object
    <3> QED
      BY <3>4, GarbageCollectorAssumption
  <2>3. Collects /\ gc.item = d
    BY <2>0, <2>2, StepOfSweep DEF Collects, Releases, Types
  <2>4. gc.pc = "decide" /\ ~stale /\ gc.live # Gone
    BY <2>3 DEF Collects, HandInv
  <2>5. store[d] = gc.live /\ ~gc.solid /\ gc.refs = {} /\ Collecting
    BY <2>3, <2>4 DEF HandInv, Collecting
  <2>6. Dead(uid)
    BY <2>4, <2>5 DEF HandInv
  <2>7. ~(Exists(uid) /\ store[uid[1]].finalizers = {"orphan"})
    BY <2>6 DEF Dead, Solid
  <2>8. d \in Refs(uid)
    BY DEF Refs
  <2> QED
    BY <2>7, <2>8 DEF OrphanInv
<1>2. Types /\ CollectorInv /\ DeletionInv /\ [Next]_vars
        => Types' /\ CollectorInv' /\ DeletionInv'
  BY DeletionInvInductive
<1> QED
  BY <1>1, <1>2, DeletionInvInitially, PTL DEF Spec, OrphansKept
==============================================================================
