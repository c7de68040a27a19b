------------------------------- MODULE FakeApi -------------------------------
(***************************************************************************)
(* The store of fakeapi (tracker.go, writeback.go): what its tracker makes *)
(* of metadata.generation, and what a caller's object says of it after the *)
(* call.                                                                   *)
(*                                                                         *)
(* controller-runtime's fake client holds one lock over each write, so a   *)
(* write is one step; the read-back after it is another.  spec stands for  *)
(* the content outside metadata and status: a write that leaves it alone   *)
(* is a metadata or status write.                                          *)
(***************************************************************************)
EXTENDS Integers, Sequences, FiniteSets

CONSTANTS
  Key,
  Spec_,         \* values of the content
  Selected,      \* those the watched field selector matches
  SeededGen,     \* generations a fixture may carry; 0 is none
  SentGen,       \* generations a client may send
  MaxWrites

ASSUME SelectedAreSpecs == Selected \subseteq Spec_
ASSUME GenerationsAreNaturals == SeededGen \subseteq Nat /\ MaxWrites \in Nat

VARIABLES
  store,   \* function from the keys in use to objects
  rv,      \* the last resourceVersion, a count of writes
  up,      \* the tracker's events for an open watch
  call     \* a caller whose write is read back

apiVars == <<store, rv, up, call>>

Obj(s, fin, del, gen) == [spec |-> s, fin |-> fin, deleting |-> del, gen |-> gen, rv |-> rv + 1]

Event(type, k, o) == [type |-> type, key |-> k, obj |-> o]
------------------------------------------------------------------------------
(* Generation (tracker.go). *)

defaultGeneration(g) == IF g = 0 THEN 1 ELSE g
sameContent(a, b) == a.spec = b.spec

(* Mutant: beginning a deletion does not count. *)
stampGeneration_NotDeletion(stored, o) ==
  [o EXCEPT !.gen = IF ~sameContent(stored, o) THEN stored.gen + 1 ELSE stored.gen]

(* From the stored object; what the caller sent is dropped. *)
stampGeneration(stored, o) ==
  LET beginsDeletion == o.deleting /\ ~stored.deleting IN
  [o EXCEPT !.gen = IF ~sameContent(stored, o) \/ beginsDeletion THEN stored.gen + 1 ELSE stored.gen]

(* Apply sends a fragment: a spec or none.  The merge is made on a scratch *)
(* copy and compared with the stored object.                               *)
Merged(stored, fragment) == IF fragment = {} THEN stored
                            ELSE [stored EXCEPT !.spec = CHOOSE s \in fragment : TRUE]
appliedGeneration(stored, fragment) ==
  IF sameContent(stored, Merged(stored, fragment)) THEN stored.gen ELSE stored.gen + 1
------------------------------------------------------------------------------
(* The tracker's writes.  Each is one event and one resourceVersion. *)

Put(f, k, o) == [j \in DOMAIN f \cup {k} |-> IF j = k THEN o ELSE f[j]]
Drop(f, k) == [j \in DOMAIN f \ {k} |-> f[j]]

Store(k, o, type, open) ==
  /\ store' = Put(store, k, o)
  /\ rv' = rv + 1
  /\ up' = IF open THEN Append(up, Event(type, k, o)) ELSE up

Remove(k, open) ==
  /\ store' = Drop(store, k)
  /\ rv' = rv + 1
  /\ up' = IF open THEN Append(up, Event("Deleted", k, store[k])) ELSE up

Create(k, s, fin, open) == Store(k, Obj(s, fin, FALSE, 1), "Added", open)

(* The update that takes the last finalizer of an object under deletion    *)
(* completes the deletion.                                                 *)
Update(k, s, fin, g, open) ==
  IF store[k].deleting /\ ~fin THEN Remove(k, open)
  ELSE Store(k, stampGeneration(store[k], Obj(s, fin, store[k].deleting, g)), "Modified", open)

Apply(k, fragment, open) ==
  IF k \notin DOMAIN store
  THEN fragment # {} /\ Create(k, CHOOSE s \in fragment : TRUE, FALSE, open)
  ELSE Store(k, [Merged(store[k], fragment) EXCEPT !.gen = appliedGeneration(store[k], fragment),
                                                   !.rv = rv + 1], "Modified", open)

(* An object with a finalizer gets its deletion timestamp by an update. *)
Delete(k, open) ==
  IF store[k].fin
  THEN Store(k, stampGeneration(store[k], Obj(store[k].spec, TRUE, TRUE, store[k].gen)),
             "Modified", open)
  ELSE Remove(k, open)
------------------------------------------------------------------------------
(* A caller of Create or Update (writeback.go), with a typed object, which *)
(* the tracker stamps itself, or an unstructured one, which it does not.   *)

NoCall == [pc |-> "idle"]

(* since: the generations the key has had from the write on; gone: there   *)
(* was nothing to read.                                                    *)
GenAfter(k) == IF k \in DOMAIN store' THEN {store'[k].gen} ELSE {}
Written(k, typed, g) ==
  LET stored == k \in DOMAIN store' IN
  call' = [pc |-> IF typed THEN "done" ELSE "readBack", key |-> k, dry |-> FALSE, sent |-> g,
           held |-> IF typed /\ stored THEN store'[k].gen ELSE g,
           since |-> GenAfter(k), gone |-> typed /\ ~stored]

(* Others' writes, seen by the ghost. *)
Others(k) == call' = IF call.pc = "readBack" /\ call.key = k
                     THEN [call EXCEPT !.since = @ \cup GenAfter(k)] ELSE call

createFunc(open) ==
  /\ call.pc = "idle" /\ rv < MaxWrites
  /\ \E k \in Key \ DOMAIN store, s \in Spec_, fin, typed \in BOOLEAN, g \in SentGen :
       Create(k, s, fin, open) /\ Written(k, typed, g)

updateFunc(open) ==
  /\ call.pc = "idle" /\ rv < MaxWrites
  /\ \E k \in DOMAIN store, s \in Spec_, fin, typed \in BOOLEAN, g \in SentGen :
       /\ fin => store[k].fin
       /\ Update(k, s, fin, g, open)
       /\ Written(k, typed, g)

(* Mutant: a dry run is read back as well. *)
dryRun_ReadBack ==
  /\ call.pc = "idle"
  /\ \E k \in Key, g \in SentGen :
       call' = [pc |-> "readBack", key |-> k, dry |-> TRUE, sent |-> g, held |-> g, since |-> {},
                gone |-> FALSE]
  /\ UNCHANGED <<store, rv, up>>

(* A dry run stores nothing and is not read back. *)
dryRun ==
  /\ call.pc = "idle"
  /\ \E k \in Key, g \in SentGen :
       call' = [pc |-> "done", key |-> k, dry |-> TRUE, sent |-> g, held |-> g, since |-> {},
                gone |-> FALSE]
  /\ UNCHANGED <<store, rv, up>>

(* The Get after the write; an object that is gone leaves nothing to copy. *)
writeBackGeneration ==
  /\ call.pc = "readBack"
  /\ call' = [call EXCEPT !.pc = "done",
                          !.gone = call.key \notin DOMAIN store,
                          !.held = IF call.key \in DOMAIN store THEN store[call.key].gen ELSE @]
  /\ UNCHANGED <<store, rv, up>>

(* Any other error of the Get is returned, though the write was accepted.  *)
readBackFails == call.pc = "readBack" /\ call' = NoCall /\ UNCHANGED <<store, rv, up>>

Returns == call.pc = "done" /\ call' = NoCall /\ UNCHANGED <<store, rv, up>>

(* Patch, Apply and Delete by others. *)
OtherWrite(open) ==
  /\ rv < MaxWrites
  /\ \E k \in Key :
       /\ \/ k \in DOMAIN store /\ \E s \in Spec_ : Update(k, s, store[k].fin, 0, open)
          \/ \E fragment \in {{}} \cup {{s} : s \in Spec_} : Apply(k, fragment, open)
          \/ k \in DOMAIN store /\ Delete(k, open)
       /\ Others(k)

Api(open) == \/ createFunc(open) \/ updateFunc(open) \/ dryRun \/ writeBackGeneration \/ readBackFails
             \/ Returns \/ OtherWrite(open)

(* Add, as WithObjects does, before the client is built. *)
ApiInit ==
  /\ \E ks \in SUBSET Key, s \in Spec_, fin \in BOOLEAN, g \in SeededGen :
       store = [k \in ks |-> [spec |-> s, fin |-> fin, deleting |-> FALSE,
                              gen |-> defaultGeneration(g), rv |-> 0]]
  /\ rv = 0 /\ up = <<>> /\ call = NoCall
==============================================================================
