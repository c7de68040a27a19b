--------------------------- MODULE GarbageCollector ---------------------------
(***************************************************************************)
(* DataPlaneSim's garbage collector (ctrltest/gc.go) against an API server *)
(* that tests and controllers keep writing to.                             *)
(*                                                                         *)
(* Every API call of a sweep is a step of its own.  A UID is a name and an *)
(* incarnation of it, so it never comes back.  Resource versions are only  *)
(* ever compared with the collector's last read of the same object, so     *)
(* `stale' (that object was written since) stands for the comparison.      *)
(***************************************************************************)
EXTENDS Integers, Sequences, FiniteSets

CONSTANTS
  Owner, Dependent,  \* names; only dependents carry owner references
  WatchedKinds,      \* a sequence of sets of names: the Lists of one sweep, in order
  Gone,              \* no object of that name
  MaxInc,            \* bound: incarnations of a name
  MaxDisturbances,   \* bound: writes by others and failing API calls, together
  MaxFaults,         \* bound: API calls that fail for no reason of the objects'
  Retries            \* attempts of retry.DefaultRetry

Name == Owner \cup Dependent

UID == Owner \X (1 .. MaxInc)
Finalizer == {"foreground", "orphan"}
Object == [inc : 1 .. MaxInc, refs : SUBSET UID, finalizers : SUBSET Finalizer, deleting : BOOLEAN]

ASSUME GarbageCollectorAssumption ==
  /\ Owner \cap Dependent = {} /\ Gone \notin Name \cup Object
  /\ WatchedKinds \in Seq(SUBSET Name) /\ WatchedKinds # <<>>
  /\ {MaxDisturbances, MaxFaults} \subseteq Nat /\ {MaxInc, Retries} \subseteq Nat \ {0}

VARIABLES
  store,     \* the API server: name -> object or Gone
  incs,      \* incarnations of each name so far
  stale,     \* the object the collector read last has been written since
  objs,      \* listWatched: what the sweep's Lists showed
  cache,     \* sweepGC: resolved owners
  gc,        \* the sweep's control state
  writes, faults,
  \* History:
  orphaned,  \* UIDs whose deletion asked for their dependents to be kept
  missed     \* <<d, uid>>: the owner was released while d named it, unknown to the sweep

vars == <<store, incs, stale, objs, cache, gc, writes, faults, orphaned, missed>>

Resolution == [found : BOOLEAN, inc : 0 .. MaxInc, waiting : BOOLEAN]

Start == [pc |-> "list", kind |-> 1, todo |-> {}, owner |-> Gone, deps |-> {}, clear |-> TRUE,
          item |-> Gone, live |-> Gone, refs |-> {}, solid |-> FALSE, drop |-> {}, tries |-> 0]

TypeOK ==
  /\ store \in [Name -> Object \cup {Gone}] /\ objs \in [Name -> Object \cup {Gone}]
  /\ incs \in [Name -> 0 .. MaxInc]
  /\ stale \in BOOLEAN
  /\ cache \in [Owner -> Resolution \cup {Gone}]
  /\ gc \in [pc : {"list", "finalizers", "foreground", "orphan", "background", "dangling",
                   "getLive", "resolve", "decide", "again", "retry", "strip", "readOwner",
                   "unfinalize"},
             kind : 1 .. Len(WatchedKinds), todo : SUBSET Name, owner : Owner \cup {Gone},
             deps : SUBSET Dependent, clear : BOOLEAN, item : Name \cup {Gone},
             live : Object \cup {Gone}, refs : SUBSET UID, solid : BOOLEAN, drop : SUBSET UID,
             tries : 0 .. Retries]
  /\ writes \in 0 .. MaxDisturbances /\ faults \in 0 .. MaxFaults
  /\ orphaned \subseteq UID /\ missed \subseteq Dependent \X UID

Fresh(i, refs) == [inc |-> i, refs |-> refs, finalizers |-> {}, deleting |-> FALSE]

(* What the first sweep finds: some objects, some owners being deleted. *)
Init ==
  /\ \E live \in SUBSET Name, policy \in [Owner -> {{}, {"foreground"}, {"orphan"}}] :
       \E refs \in [Dependent -> SUBSET {<<o, 1>> : o \in Owner \cap live}] :
         /\ \A o \in Owner \ live : policy[o] = {}
         /\ store = [n \in Name |->
              IF n \notin live THEN Gone
              ELSE IF n \in Dependent THEN Fresh(1, refs[n])
              ELSE [Fresh(1, {}) EXCEPT !.finalizers = policy[n], !.deleting = policy[n] # {}]]
         /\ orphaned = {<<o, 1>> : o \in {n \in Owner : policy[n] = {"orphan"}}}
  /\ incs = [n \in Name |-> IF store[n] = Gone THEN 0 ELSE 1]
  /\ stale = FALSE
  /\ objs = [n \in Name |-> Gone]
  /\ cache = [o \in Owner |-> Gone]
  /\ gc = Start
  /\ writes = 0 /\ faults = 0 /\ missed = {}
------------------------------------------------------------------------------
(* What others do through the API server. *)

Exists(uid) == store[uid[1]] # Gone /\ store[uid[1]].inc = uid[2]
Solid(uid) == Exists(uid) /\ ~(store[uid[1]].deleting /\ "foreground" \in store[uid[1]].finalizers)
Adoptable == {uid \in UID : Exists(uid) /\ ~store[uid[1]].deleting}

OthersWrite(n, obj) ==
  /\ writes + faults < MaxDisturbances
  /\ store' = [store EXCEPT ![n] = obj]
  /\ stale' = (stale \/ (gc.live # Gone /\ gc.item = n))
  /\ writes' = writes + 1
  /\ UNCHANGED <<objs, cache, gc, faults, missed>>

Create(n, refs) ==
  /\ store[n] = Gone /\ incs[n] < MaxInc
  /\ n \in Owner => refs = {}
  /\ OthersWrite(n, Fresh(incs[n] + 1, refs))
  /\ incs' = [incs EXCEPT ![n] = @ + 1]
  /\ UNCHANGED orphaned

Adopt(d, uid) ==
  /\ store[d] # Gone /\ uid \notin store[d].refs
  /\ OthersWrite(d, [store[d] EXCEPT !.refs = @ \cup {uid}])
  /\ UNCHANGED <<incs, orphaned>>

(* A write that leaves the metadata the collector looks at alone. *)
Touch(n) ==
  /\ store[n] # Gone
  /\ OthersWrite(n, store[n])
  /\ UNCHANGED <<incs, orphaned>>

(* policy is {} for background deletion. *)
Delete(n, policy) ==
  /\ store[n] # Gone /\ ~store[n].deleting
  /\ n \in Dependent => policy = {}
  /\ OthersWrite(n, IF policy = {} THEN Gone
                    ELSE [store[n] EXCEPT !.deleting = TRUE, !.finalizers = policy])
  /\ orphaned' = IF "orphan" \in policy THEN orphaned \cup {<<n, store[n].inc>>} ELSE orphaned
  /\ UNCHANGED incs

(* Somebody else takes the finalizer off, and with it the request to       *)
(* orphan.                                                                 *)
Release(o) ==
  /\ store[o] # Gone /\ store[o].deleting
  /\ OthersWrite(o, Gone)
  /\ orphaned' = orphaned \ {<<o, store[o].inc>>}
  /\ UNCHANGED incs

Others ==
  \/ \E n \in Name, refs \in SUBSET Adoptable : Create(n, refs)
  \/ \E d \in Dependent, uid \in Adoptable : Adopt(d, uid)
  \/ \E n \in Name : Touch(n)
  \/ \E o \in Owner : Release(o)
  \/ \E n \in Name, policy \in {{}, {"foreground"}, {"orphan"}} : Delete(n, policy)
------------------------------------------------------------------------------
(* Control. *)

quiet == <<incs, writes, faults, orphaned, missed>>

Goto(loc) == gc' = [gc EXCEPT !.pc = loc]

(* Where a collect started from. *)
Loop == IF gc.owner = Gone THEN "background" ELSE "foreground"
Idle == [gc EXCEPT !.item = Gone, !.live = Gone, !.refs = {}, !.solid = FALSE, !.drop = {}, !.tries = 0]
Done(loc) == gc' = [Idle EXCEPT !.pc = loc] /\ stale' = FALSE

(* listWatched: one List per kind, each at its own moment. *)
listWatched ==
  /\ gc.pc = "list"
  /\ objs' = [n \in Name |-> IF n \in WatchedKinds[gc.kind] THEN store[n] ELSE objs[n]]
  /\ gc' = IF gc.kind < Len(WatchedKinds) THEN [gc EXCEPT !.kind = @ + 1]
           ELSE [Start EXCEPT !.pc = "finalizers",
                              !.todo = {n \in Owner : objs'[n] # Gone /\ objs'[n].deleting}]
  /\ UNCHANGED <<store, stale, cache, quiet>>

OwnerUID == <<gc.owner, objs[gc.owner].inc>>
referencesUID(obj, uid) == uid \in obj.refs
Listed(uid) == {d \in Dependent : objs[d] # Gone /\ referencesUID(objs[d], uid)}

(* The Lists showed d no sooner than o. *)
ListedNoSooner(d, o) ==
  /\ \E j \in DOMAIN WatchedKinds : d \in WatchedKinds[j]
  /\ \A i, j \in DOMAIN WatchedKinds : o \in WatchedKinds[i] /\ d \in WatchedKinds[j] => i <= j

(* The dependents that took the reference to this owner after their own    *)
(* List and before the owner's: WatchedKinds comes in the consumer's order.*)
Missable(uid) == {d \in Dependent \ Listed(uid) : ~ListedNoSooner(d, uid[1])}

Orphaning == gc.owner # Gone /\ "orphan" \in objs[gc.owner].finalizers

(* sweepGC, first loop. *)
PickOwner ==
  /\ gc.pc = "finalizers" /\ gc.todo # {}
  /\ \E o \in gc.todo :
       gc' = [gc EXCEPT !.todo = @ \ {o},
                        !.pc = IF "foreground" \in objs[o].finalizers THEN "foreground" ELSE "orphan",
                        !.owner = o, !.deps = Listed(<<o, objs[o].inc>>), !.clear = TRUE]
  /\ UNCHANGED <<store, stale, objs, cache, quiet>>

(* sweepGC, second loop: a fresh cache. *)
FinalizersDone ==
  /\ gc.pc = "finalizers" /\ gc.todo = {}
  /\ gc' = [Start EXCEPT !.pc = "background",
                         !.todo = {d \in Dependent : objs[d] # Gone /\ objs[d].refs # {}}]
  /\ cache' = [o \in Owner |-> Gone]
  /\ UNCHANGED <<store, stale, objs, quiet>>
------------------------------------------------------------------------------
(* resolveOwner *)

Lookup(uid) ==
  LET o == store[uid[1]] IN
    IF o = Gone THEN [found |-> FALSE, inc |-> 0, waiting |-> FALSE]
    ELSE [found |-> TRUE, inc |-> o.inc,
          waiting |-> o.deleting /\ "foreground" \in o.finalizers]

(* ownerDangling for the next reference: through the sweep's cache. *)
ownerDangling ==
  /\ gc.pc = "dangling" /\ gc.refs # {}
  /\ \E uid \in gc.refs :
       LET res == IF cache[uid[1]] = Gone THEN Lookup(uid) ELSE cache[uid[1]]
       IN /\ cache' = [cache EXCEPT ![uid[1]] = res]
          /\ IF ~res.found \/ res.inc # uid[2]
             THEN gc' = [gc EXCEPT !.refs = @ \ {uid}] /\ UNCHANGED stale
             ELSE Done("background")
  /\ UNCHANGED <<store, objs, quiet>>

PickDependent ==
  /\ gc.pc = "background" /\ gc.todo # {}
  /\ \E d \in gc.todo :
       gc' = [gc EXCEPT !.todo = @ \ {d}, !.pc = "dangling", !.item = d, !.refs = objs[d].refs]
  /\ UNCHANGED <<store, stale, objs, cache, quiet>>

AllDangling ==
  /\ gc.pc = "dangling" /\ gc.refs = {}
  /\ Goto("getLive")
  /\ UNCHANGED <<store, stale, objs, cache, quiet>>

SweepDone ==
  /\ gc.pc = "background" /\ gc.todo = {}
  /\ gc' = Start
  /\ objs' = [n \in Name |-> Gone] /\ cache' = [o \in Owner |-> Gone]
  /\ UNCHANGED <<store, stale, quiet>>
------------------------------------------------------------------------------
(* collect *)

GetLive ==
  /\ gc.pc = "getLive"
  /\ LET live == store[gc.item] IN
       IF live = Gone \/ live.refs = {} THEN Done(Loop)
       ELSE /\ gc' = [gc EXCEPT !.pc = "resolve", !.live = live, !.refs = live.refs]
            /\ stale' = FALSE
  /\ UNCHANGED <<store, objs, cache, quiet>>

Classify_IgnoresUID(uid, res) ==  \* slip: a recreated owner of the same name counts as solid
  IF ~res.found \/ res.waiting
  THEN gc' = [gc EXCEPT !.refs = @ \ {uid}, !.drop = @ \cup {uid}]
  ELSE gc' = [gc EXCEPT !.refs = @ \ {uid}, !.solid = TRUE]

Classify_WaitingIsSolid(uid, res) ==  \* slip: an owner under foreground deletion keeps its dependents
  IF ~res.found \/ res.inc # uid[2]
  THEN gc' = [gc EXCEPT !.refs = @ \ {uid}, !.drop = @ \cup {uid}]
  ELSE gc' = [gc EXCEPT !.refs = @ \ {uid}, !.solid = TRUE]

Classify(uid, res) ==
  IF ~res.found \/ res.inc # uid[2] \/ res.waiting
  THEN gc' = [gc EXCEPT !.refs = @ \ {uid}, !.drop = @ \cup {uid}]
  ELSE gc' = [gc EXCEPT !.refs = @ \ {uid}, !.solid = TRUE]

resolveOwner ==
  /\ gc.pc = "resolve" /\ gc.refs # {}
  /\ \E uid \in gc.refs : Classify(uid, Lookup(uid))
  /\ UNCHANGED <<store, stale, objs, cache, quiet>>

Resolved ==
  /\ gc.pc = "resolve" /\ gc.refs = {}
  /\ IF gc.solid /\ gc.drop = {} THEN Done(Loop)
     ELSE Goto(IF gc.solid THEN "strip" ELSE "decide") /\ UNCHANGED stale
  /\ UNCHANGED <<store, objs, cache, quiet>>

(* The API server's answer to a delete: an object with finalizers stays.   *)
Deleted(n) == IF store[n].finalizers = {} THEN Gone ELSE [store[n] EXCEPT !.deleting = TRUE]

SameObject == store[gc.item] # Gone /\ store[gc.item].inc = gc.live.inc

(* deleteLive: under the UID and the resourceVersion of the read. *)
deleteLive ==
  /\ gc.pc = "decide"
  /\ \/ /\ SameObject /\ ~stale
        /\ store' = [store EXCEPT ![gc.item] = Deleted(gc.item)]
        /\ Done(Loop)
     \/ /\ store[gc.item] = Gone
        /\ Done(Loop) /\ UNCHANGED store
     \/ /\ store[gc.item] # Gone /\ stale
        /\ Goto("again") /\ UNCHANGED <<store, stale>>
  /\ UNCHANGED <<objs, cache, quiet>>

(* On a conflict: read again, go on only with the same owners. *)
ReadAgain ==
  /\ gc.pc = "again"
  /\ IF SameObject /\ store[gc.item].refs = gc.live.refs
     THEN Goto("retry") /\ UNCHANGED stale
     ELSE Done(Loop)
  /\ UNCHANGED <<store, objs, cache, quiet>>

(* The second delete carries the UID alone. *)
RetryDelete ==
  /\ gc.pc = "retry"
  /\ store' = IF SameObject THEN [store EXCEPT ![gc.item] = Deleted(gc.item)] ELSE store
  /\ Done(Loop)
  /\ UNCHANGED <<objs, cache, quiet>>

stripOwnerRefs_Unlocked ==  \* slip: a patch of the whole list without the optimistic lock
  IF store[gc.item] # Gone
  THEN store' = [store EXCEPT ![gc.item].refs = gc.live.refs \ gc.drop]
  ELSE UNCHANGED store

(* stripOwnerRefs: the whole remaining list, under the resourceVersion read. *)
stripOwnerRefs ==
  IF store[gc.item] # Gone /\ ~stale
  THEN store' = [store EXCEPT ![gc.item].refs = gc.live.refs \ gc.drop]
  ELSE UNCHANGED store

Strip ==
  /\ gc.pc = "strip" /\ ~Orphaning
  /\ stripOwnerRefs
  /\ Done(Loop)
  /\ UNCHANGED <<objs, cache, quiet>>
------------------------------------------------------------------------------
(* foregroundDeleteDependents: clear says that no dependent was listed.    *)

CollectNext ==
  /\ gc.pc = "foreground" /\ gc.deps # {}
  /\ \E d \in gc.deps :
       gc' = [gc EXCEPT !.deps = @ \ {d}, !.pc = "getLive", !.item = d, !.clear = FALSE]
  /\ UNCHANGED <<store, stale, objs, cache, quiet>>

(* orphanDependents: clear says that every strip landed. *)
ReadDependent ==
  /\ gc.pc = "orphan" /\ gc.deps # {}
  /\ \E d \in gc.deps :
       LET next == [gc EXCEPT !.deps = @ \ {d}]
       IN IF store[d] = Gone \/ ~referencesUID(store[d], OwnerUID)
          THEN gc' = next
          ELSE gc' = [next EXCEPT !.pc = "strip", !.item = d, !.live = store[d], !.drop = {OwnerUID}]
  /\ stale' = FALSE
  /\ UNCHANGED <<store, objs, cache, quiet>>

Unclear_Ignored == gc.clear  \* slip: a strip that conflicted counts as landed

(* A strip that conflicts leaves the finalizer for the next sweep. *)
Unclear == gc.clear /\ ~(store[gc.item] # Gone /\ stale)

OrphanStrip ==
  /\ gc.pc = "strip" /\ Orphaning
  /\ stripOwnerRefs
  /\ gc' = [Idle EXCEPT !.pc = "orphan", !.clear = Unclear]
  /\ stale' = FALSE
  /\ UNCHANGED <<objs, cache, quiet>>

DependentsDone ==
  /\ gc.pc \in {"foreground", "orphan"} /\ gc.deps = {}
  /\ IF gc.clear THEN gc' = [gc EXCEPT !.pc = "readOwner", !.item = gc.owner, !.tries = Retries]
     ELSE gc' = [gc EXCEPT !.pc = "finalizers", !.owner = Gone, !.clear = TRUE]
  /\ UNCHANGED <<store, stale, objs, cache, quiet>>

NextOwner == gc' = [Idle EXCEPT !.pc = "finalizers", !.owner = Gone, !.clear = TRUE] /\ stale' = FALSE

Removable_ByName ==  \* slip: no UID check
  store[gc.owner] # Gone /\ store[gc.owner].finalizers \cap objs[gc.owner].finalizers # {}

(* removeFinalizer goes on only with the listed incarnation. *)
Removable ==
  /\ store[gc.owner] # Gone /\ store[gc.owner].inc = objs[gc.owner].inc
  /\ store[gc.owner].finalizers \cap objs[gc.owner].finalizers # {}

ReadOwner ==
  /\ gc.pc = "readOwner"
  /\ IF Removable
     THEN gc' = [gc EXCEPT !.pc = "unfinalize", !.live = store[gc.owner]] /\ stale' = FALSE
     ELSE NextOwner
  /\ UNCHANGED <<store, objs, cache, quiet>>

(* retry.DefaultRetry *)
MoreTries == gc.tries > 1

(* Its patch: an object that is being deleted goes with its last finalizer. *)
removeFinalizer ==
  /\ gc.pc = "unfinalize"
  /\ LET kept == gc.live.finalizers \ objs[gc.owner].finalizers IN
       \/ /\ store[gc.owner] # Gone /\ ~stale
          /\ store' = [store EXCEPT ![gc.owner] = IF kept = {} /\ @.deleting THEN Gone
                                                  ELSE [@ EXCEPT !.finalizers = kept]]
          /\ missed' = missed \cup {<<d, OwnerUID>> : d \in {x \in Missable(OwnerUID) :
                         store[x] # Gone /\ referencesUID(store[x], OwnerUID)}}
          /\ NextOwner
       \/ /\ store[gc.owner] = Gone
          /\ NextOwner /\ UNCHANGED <<store, missed>>
       \/ /\ store[gc.owner] # Gone /\ stale
          /\ IF MoreTries
             THEN gc' = [gc EXCEPT !.pc = "readOwner", !.tries = @ - 1] /\ UNCHANGED stale
             ELSE NextOwner
          /\ UNCHANGED <<store, missed>>
  /\ UNCHANGED <<objs, cache, incs, writes, faults, orphaned>>
------------------------------------------------------------------------------
(* An API call fails: the sweep, the attempt or the strip is given up. *)
ApiFails ==
  /\ faults < MaxFaults /\ writes + faults < MaxDisturbances
  /\ faults' = faults + 1
  /\ \/ gc.pc = "list" /\ gc' = Start /\ UNCHANGED stale
     \/ gc.pc = "dangling" /\ gc.refs # {} /\ Done("background")
     \/ gc.pc = "resolve" /\ gc.refs # {} /\ Done(Loop)
     \/ gc.pc \in {"getLive", "decide", "again", "retry"} /\ Done(Loop)
     \/ gc.pc = "strip" /\ ~Orphaning /\ Done(Loop)
     \/ gc.pc = "orphan" /\ \E d \in gc.deps :
          gc' = [gc EXCEPT !.deps = @ \ {d}, !.clear = FALSE] /\ UNCHANGED stale
     \/ /\ gc.pc = "strip" /\ Orphaning
        /\ gc' = [Idle EXCEPT !.pc = "orphan", !.clear = FALSE] /\ stale' = FALSE
     \/ gc.pc \in {"readOwner", "unfinalize"} /\ NextOwner
  /\ UNCHANGED <<store, objs, cache, incs, writes, orphaned, missed>>

Sweep ==
  \/ listWatched \/ PickOwner \/ FinalizersDone \/ PickDependent \/ ownerDangling \/ AllDangling
  \/ SweepDone \/ GetLive \/ resolveOwner \/ Resolved \/ deleteLive \/ ReadAgain \/ RetryDelete
  \/ Strip \/ CollectNext \/ ReadDependent \/ OrphanStrip \/ DependentsDone \/ ReadOwner
  \/ removeFinalizer

Next == Others \/ Sweep \/ ApiFails

Spec == Init /\ [][Next]_vars

(* Run calls sweep on every tick of its interval. *)
FairSpec == Spec /\ WF_vars(Sweep)
------------------------------------------------------------------------------
(* Properties. *)

SweepStep == writes' = writes

Keeps(d, uid) == store'[d] # Gone /\ ~store'[d].deleting /\ uid \in store'[d].refs

(* Whatever happens between its reads and its writes, the collector takes  *)
(* no dependent away from an owner that exists and is not waiting for its  *)
(* dependents to go: it neither deletes the dependent nor strips that      *)
(* reference, an orphaning owner's own apart (collect, stripOwnerRefs, the *)
(* preconditions of deleteLive's first delete).                            *)
LiveOwnerKeepsDependent ==
  [][(SweepStep /\ gc.pc # "retry") =>
       \A d \in Dependent : store[d] # Gone =>
         \A uid \in store[d].refs :
           (Solid(uid) /\ ~(Orphaning /\ uid = OwnerUID)) => Keeps(d, uid)]_vars

(* An owner's finalizer comes off only when no dependent names it any      *)
(* more, under foreground deletion and orphaning alike, also when the name *)
(* was deleted and reused during the sweep; except a dependent whose kind  *)
(* is listed before the owner's and which took the reference in between    *)
(* (foregroundDeleteDependents, orphanDependents, removeFinalizer).        *)
ReleasedOwnerUnreferenced ==
  [][SweepStep => \A o \in Owner :
       (store[o] # Gone /\ store'[o] = Gone) =>
         \A d \in Dependent :
           store[d] # Gone /\ referencesUID(store[d], <<o, store[o].inc>>)
             => d \in Missable(<<o, store[o].inc>>)]_vars

(* The background pass collects no dependent that orphaning was to keep,   *)
(* except one its owner was released without, for having taken the         *)
(* reference between the two Lists (orphanDependents).                     *)
OrphansKept ==
  [][(SweepStep /\ gc.pc # "retry") => \A d \in Dependent :
       (store[d] # Gone /\ store'[d] = Gone) =>
         \A uid \in store[d].refs \cap orphaned : <<d, uid>> \in missed]_vars


Dangling(d) == store[d] # Gone /\ store[d].refs # {} /\ \A uid \in store[d].refs : ~Exists(uid)
Deleting(o) == store[o] # Gone /\ store[o].deleting

(* A dependent whose owners have all vanished is collected, conflicts,     *)
(* failed calls and reused owner names notwithstanding.                    *)
DanglingCollected == \A d \in Dependent : Dangling(d) ~> ~Dangling(d)

(* A foreground or orphaning delete does not hang (tickGC's comment).      *)
DeletionCompletes == \A o \in Owner : Deleting(o) ~> ~Deleting(o)
==============================================================================
