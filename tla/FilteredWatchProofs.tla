------------------------ MODULE FilteredWatchProofs ------------------------
(***************************************************************************)
(* Generations, the write-back and the filtered watch, for any keys,       *)
(* contents, selector and number of writes.                                *)
(***************************************************************************)
EXTENDS FilteredWatch, TLAPS

Object == [spec : Spec_, fin : BOOLEAN, deleting : BOOLEAN, gen : Nat, rv : Nat]
Table == UNION {[S -> Object] : S \in SUBSET Key}
Known == [type : {"Added", "Modified", "Deleted"}, key : Key, obj : Object]
ErrorEvent == Event("Error", CHOOSE k \in Key : TRUE, [spec |-> "none"])
AnyEvent == Known \cup {ErrorEvent}
WPc == {"new", "refused", "plain", "seeding", "failed", "check", "select", "send", "done"}
WatchState == [pc : WPc, request : Requests, in : Table, ev : Seq(AnyEvent)]

TypeOK ==
  /\ store \in Table /\ rv \in Nat /\ up \in Seq(AnyEvent)
  /\ w \in WatchState /\ stop \in BOOLEAN /\ closed \in BOOLEAN /\ late \in Nat
------------------------------------------------------------------------------
(* A table is a function from some of the keys to objects. *)
LEMMA TableDef ==
  ASSUME NEW f
  PROVE  f \in Table <=> /\ f = [k \in DOMAIN f |-> f[k]] /\ DOMAIN f \subseteq Key
                         /\ \A k \in DOMAIN f : f[k] \in Object
<1>1. ASSUME f \in Table
      PROVE  /\ f = [k \in DOMAIN f |-> f[k]] /\ DOMAIN f \subseteq Key
             /\ \A k \in DOMAIN f : f[k] \in Object
  <2>1. PICK S \in SUBSET Key : f \in [S -> Object]
    BY <1>1 DEF Table
  <2> QED
    BY <2>1
<1>2. ASSUME f = [k \in DOMAIN f |-> f[k]], DOMAIN f \subseteq Key,
             \A k \in DOMAIN f : f[k] \in Object
      PROVE  f \in Table
  <2>1. f \in [DOMAIN f -> Object]
    BY <1>2
  <2> QED
    BY <1>2, <2>1 DEF Table
<1> QED
  BY <1>1, <1>2

(* What a write and a removal make of a table. *)
LEMMA TablePut ==
  ASSUME NEW f \in Table, NEW k \in Key, NEW o \in Object
  PROVE  /\ Put(f, k, o) \in Table /\ DOMAIN Put(f, k, o) = DOMAIN f \cup {k}
         /\ Put(f, k, o)[k] = o /\ \A j \in DOMAIN f \ {k} : Put(f, k, o)[j] = f[j]
<1>1. /\ DOMAIN Put(f, k, o) = DOMAIN f \cup {k}
      /\ Put(f, k, o)[k] = o /\ \A j \in DOMAIN f \ {k} : Put(f, k, o)[j] = f[j]
  BY DEF Put
<1>2. Put(f, k, o) = [j \in DOMAIN Put(f, k, o) |-> Put(f, k, o)[j]]
  BY DEF Put
<1>3. DOMAIN f \subseteq Key /\ \A j \in DOMAIN f : f[j] \in Object
  BY TableDef
<1>4. DOMAIN Put(f, k, o) \subseteq Key /\ \A j \in DOMAIN Put(f, k, o) : Put(f, k, o)[j] \in Object
  BY <1>1, <1>3
<1> QED
  BY <1>1, <1>2, <1>4, TableDef

(* As above, for a removal. *)
LEMMA TableDrop ==
  ASSUME NEW f \in Table, NEW k
  PROVE  /\ Drop(f, k) \in Table /\ DOMAIN Drop(f, k) = DOMAIN f \ {k}
         /\ \A j \in DOMAIN f \ {k} : Drop(f, k)[j] = f[j]
<1>1. /\ DOMAIN Drop(f, k) = DOMAIN f \ {k}
      /\ \A j \in DOMAIN f \ {k} : Drop(f, k)[j] = f[j]
  BY DEF Drop
<1>2. Drop(f, k) = [j \in DOMAIN Drop(f, k) |-> Drop(f, k)[j]]
  BY DEF Drop
<1>3. DOMAIN f \subseteq Key /\ \A j \in DOMAIN f : f[j] \in Object
  BY TableDef
<1>4. DOMAIN Drop(f, k) \subseteq Key /\ \A j \in DOMAIN Drop(f, k) : Drop(f, k)[j] \in Object
  BY <1>1, <1>3
<1> QED
  BY <1>1, <1>2, <1>4, TableDef

(* The empty table. *)
LEMMA TableEmpty == <<>> \in Table
<1>1. <<>> \in [{} -> Object]
  OBVIOUS
<1> QED
  BY <1>1 DEF Table

(* A choice from one value is that value. *)
LEMMA OnlyChoice ==
  ASSUME NEW S, NEW s \in S
  PROVE  (CHOOSE x \in S : TRUE) \in S
OBVIOUS
------------------------------------------------------------------------------
(* The generation a write leaves: one more for a change of the content or  *)
(* the beginning of a deletion.                                            *)
Counted(k, o) ==
  k \in DOMAIN store =>
    o.gen = store[k].gen + IF o.spec # store[k].spec \/ o.deleting # store[k].deleting THEN 1 ELSE 0

(* A stamped object is stored with the generation the change deserves,     *)
(* whatever was sent (stampGeneration).                                    *)
LEMMA Stamped ==
  ASSUME store \in Table, rv \in Nat, NEW k \in DOMAIN store, NEW s \in Spec_, NEW fin \in BOOLEAN,
         NEW del \in BOOLEAN, NEW g, store[k].deleting => del
  PROVE  LET o == stampGeneration(store[k], Obj(s, fin, del, g)) IN o \in Object /\ Counted(k, o)
<1> DEFINE o == stampGeneration(store[k], Obj(s, fin, del, g))
<1>1. store[k] \in Object
  BY TableDef
<1>2. o = [spec |-> s, fin |-> fin, deleting |-> del,
           gen |-> IF store[k].spec # s \/ (del /\ ~store[k].deleting) THEN store[k].gen + 1 ELSE store[k].gen,
           rv |-> rv + 1]
  BY DEF stampGeneration, Obj, sameContent
<1>3. o \in Object
  BY <1>1, <1>2 DEF Object
<1>4. Counted(k, o)
  BY <1>1, <1>2 DEF Counted, Object
<1> QED
  BY <1>3, <1>4

(* What a step of the tracker does to key k. *)
Puts(k, open) == \E o \in Object, type \in {"Added", "Modified"} : Counted(k, o) /\ Store(k, o, type, open)
Removes(k, open) == k \in DOMAIN store /\ Remove(k, open)
Writes(k, open) == Puts(k, open) \/ Removes(k, open)

(* A created object. *)
LEMMA Creates ==
  ASSUME store \in Table, rv \in Nat, NEW open, NEW k \in Key \ DOMAIN store, NEW s \in Spec_,
         NEW fin \in BOOLEAN, Create(k, s, fin, open)
  PROVE  Puts(k, open)
<1>1. Obj(s, fin, FALSE, 1) \in Object
  BY DEF Obj, Object
<1> QED
  BY <1>1 DEF Create, Puts, Counted

(* An update writes, or completes a deletion. *)
LEMMA Updates ==
  ASSUME store \in Table, rv \in Nat, NEW open, NEW k \in DOMAIN store, NEW s \in Spec_,
         NEW fin \in BOOLEAN, NEW g, Update(k, s, fin, g, open)
  PROVE  Writes(k, open)
<1>1. CASE store[k].deleting /\ ~fin
  BY <1>1 DEF Update, Writes, Removes
<1>2. CASE ~(store[k].deleting /\ ~fin)
  <2>1. store[k].deleting \in BOOLEAN
    BY TableDef DEF Object
  <2> DEFINE o == stampGeneration(store[k], Obj(s, fin, store[k].deleting, g))
  <2>2. o \in Object /\ Counted(k, o)
    BY <2>1, Stamped
  <2>3. Store(k, o, "Modified", open)
    BY <1>2 DEF Update
  <2> QED
    BY <2>2, <2>3 DEF Writes, Puts
<1> QED
  BY <1>1, <1>2

(* An apply creates, or merges its fragment. *)
LEMMA Applies ==
  ASSUME store \in Table, rv \in Nat, NEW open, NEW k \in Key,
         NEW fragment \in {{}} \cup {{s} : s \in Spec_}, Apply(k, fragment, open)
  PROVE  Writes(k, open)
<1>0. fragment # {} => (CHOOSE s \in fragment : TRUE) \in Spec_
  BY OnlyChoice
<1>1. CASE k \notin DOMAIN store
  BY <1>0, <1>1, Creates DEF Apply, Writes
<1>2. CASE k \in DOMAIN store
  <2>1. store[k] \in Object
    BY <1>2, TableDef
  <2> DEFINE o == [Merged(store[k], fragment) EXCEPT !.gen = appliedGeneration(store[k], fragment),
                                                     !.rv = rv + 1]
  <2>2. Merged(store[k], fragment) \in Object
    BY <1>0, <2>1 DEF Merged, Object
  <2>3. Merged(store[k], fragment).deleting = store[k].deleting
    BY <2>1 DEF Merged, Object
  <2>4. appliedGeneration(store[k], fragment) \in Nat
    BY <2>1 DEF appliedGeneration, Object
  <2>5. o \in Object
    <3>1. \A m \in Object, g \in Nat, r \in Nat : [m EXCEPT !.gen = g, !.rv = r] \in Object
      BY DEF Object
    <3>2. rv + 1 \in Nat
      OBVIOUS
    <3> QED
      BY <2>2, <2>4, <3>1, <3>2
  <2>6. Counted(k, o)
    BY <2>1, <2>2, <2>3 DEF Counted, Object, appliedGeneration, sameContent
  <2> QED
    BY <1>2, <2>5, <2>6 DEF Apply, Writes, Puts
<1> QED
  BY <1>1, <1>2

(* A deletion removes the object, or marks it. *)
LEMMA Deletes ==
  ASSUME store \in Table, rv \in Nat, NEW open, NEW k \in DOMAIN store, Delete(k, open)
  PROVE  Writes(k, open)
<1>1. CASE store[k].fin
  <2>1. store[k].spec \in Spec_
    BY TableDef DEF Object
  <2> DEFINE o == stampGeneration(store[k], Obj(store[k].spec, TRUE, TRUE, store[k].gen))
  <2>2. o \in Object /\ Counted(k, o)
    BY <2>1, Stamped
  <2> QED
    BY <1>1, <2>2 DEF Delete, Writes, Puts
<1>2. CASE ~store[k].fin
  BY <1>2 DEF Delete, Writes, Removes
<1> QED
  BY <1>1, <1>2

(* Patch, Apply and Delete by others write one key, which the ghost sees. *)
LEMMA OtherWrites ==
  ASSUME store \in Table, rv \in Nat, NEW open, OtherWrite(open)
  PROVE  \E k \in Key : Writes(k, open) /\ Others(k)
<1>1. PICK k \in Key :
        /\ \/ k \in DOMAIN store /\ \E s \in Spec_ : Update(k, s, store[k].fin, 0, open)
           \/ \E fragment \in {{}} \cup {{s} : s \in Spec_} : Apply(k, fragment, open)
           \/ k \in DOMAIN store /\ Delete(k, open)
        /\ Others(k)
  BY DEF OtherWrite
<1>2. k \in DOMAIN store => store[k].fin \in BOOLEAN
  BY TableDef DEF Object
<1> QED
  BY <1>1, <1>2, Updates, Applies, Deletes

(* Every step of the API writes one key, as the tracker does, or nothing. *)
LEMMA ApiWrites ==
  ASSUME store \in Table, rv \in Nat, NEW open, Api(open)
  PROVE  UNCHANGED <<store, rv, up>> \/ \E k \in Key : Writes(k, open)
<1>0. DOMAIN store \subseteq Key
  BY TableDef
<1>1. CASE createFunc(open)
  BY <1>1, Creates DEF createFunc, Writes
<1>2. CASE updateFunc(open)
  <2>1. PICK k \in DOMAIN store, s \in Spec_, fin \in BOOLEAN, typed \in BOOLEAN, g \in SentGen : Update(k, s, fin, g, open)
    BY <1>2 DEF updateFunc
  <2> QED
    BY <1>0, <2>1, Updates
<1>3. CASE OtherWrite(open)
  BY <1>3, OtherWrites
<1>4. CASE dryRun \/ writeBackGeneration \/ readBackFails \/ Returns
  BY <1>4 DEF dryRun, writeBackGeneration, readBackFails, Returns
<1> QED
  BY <1>1, <1>2, <1>3, <1>4 DEF Api
------------------------------------------------------------------------------
(* An event comes with one of the four types. *)
LEMMA EventTypes ==
  ASSUME NEW e \in AnyEvent
  PROVE  \/ e \in Known /\ e.type # "Error" /\ e.key \in Key /\ e.obj \in Object
         \/ e = ErrorEvent /\ e.type = "Error"
BY DEF AnyEvent, Known, ErrorEvent, Event

(* What the goroutine remembers and delivers of an event (filter). *)
LEMMA FilterTypes ==
  ASSUME NEW in \in Table, NEW e \in AnyEvent
  PROVE  /\ filter(in, e).in \in Table
         /\ filter(in, e).out = <<>> \/ \E d \in AnyEvent : filter(in, e).out = <<d>>
<1>1. CASE e.type = "Error"
  BY <1>1 DEF filter, Filtered
<1>2. CASE e.type = "Deleted"
  BY <1>2, TableDrop DEF filter, Filtered, Hidden
<1>3. CASE e.type \notin {"Error", "Deleted"}
  <2>1. e \in Known /\ e.key \in Key /\ e.obj \in Object
    BY <1>3, EventTypes
  <2>2. CASE e.obj.spec \in Selected
    <3>1. [e EXCEPT !.type = IF e.key \in DOMAIN in THEN "Modified" ELSE "Added"] \in Known
      BY <2>1 DEF Known
    <3> QED
      BY <1>3, <2>1, <2>2, <3>1, TablePut DEF filter, Filtered, AnyEvent
  <2>3. CASE e.obj.spec \notin Selected /\ e.key \in DOMAIN in
    <3>1. in[e.key] \in Object
      BY <2>3, TableDef
    <3>2. [in[e.key] EXCEPT !.rv = e.obj.rv] \in Object
      BY <2>1, <3>1 DEF Object
    <3>3. Event("Deleted", e.key, [in[e.key] EXCEPT !.rv = e.obj.rv]) \in Known
      BY <2>1, <3>2 DEF Event, Known
    <3> QED
      BY <1>3, <2>3, <3>3, TableDrop DEF filter, Filtered, AnyEvent
  <2>4. CASE e.obj.spec \notin Selected /\ e.key \notin DOMAIN in
    BY <1>3, <2>4 DEF filter, Hidden
  <2> QED
    BY <2>2, <2>3, <2>4
<1> QED
  BY <1>1, <1>2, <1>3

(* The tracker's writes keep the types. *)
LEMMA WritesTypes ==
  ASSUME TypeOK, NEW open, NEW k \in Key, Writes(k, open)
  PROVE  store' \in Table /\ rv' \in Nat /\ up' \in Seq(AnyEvent)
<1>1. CASE Puts(k, open)
  <2>1. PICK o \in Object, type \in {"Added", "Modified"} : Store(k, o, type, open)
    BY <1>1 DEF Puts
  <2>2. Event(type, k, o) \in AnyEvent
    BY DEF Event, AnyEvent, Known
  <2>3. Append(up, Event(type, k, o)) \in Seq(AnyEvent)
    BY <2>2 DEF TypeOK
  <2>4. store' \in Table
    BY <2>1, TablePut DEF Store, TypeOK
  <2> QED
    BY <2>1, <2>3, <2>4 DEF Store, TypeOK
<1>2. CASE Removes(k, open)
  <2>1. Event("Deleted", k, store[k]) \in AnyEvent
    BY <1>2, TableDef DEF Event, AnyEvent, Known, Removes, TypeOK
  <2>2. Append(up, Event("Deleted", k, store[k])) \in Seq(AnyEvent)
    BY <2>1 DEF TypeOK
  <2>3. store' \in Table
    BY <1>2, TableDrop DEF Removes, Remove, TypeOK
  <2> QED
    BY <1>2, <2>2, <2>3 DEF Removes, Remove, TypeOK
<1> QED
  BY <1>1, <1>2 DEF Writes

(* Every variable of the store and of a watch keeps its type: in every     *)
(* reachable state what is remembered is a table of objects and what is    *)
(* queued is a sequence of events.                                         *)
THEOREM TypeCorrect == Spec => []TypeOK
<1>1. Init => TypeOK
  <2> SUFFICES ASSUME Init PROVE TypeOK
    OBVIOUS
  <2>1. store \in Table
    <3>1. PICK ks \in SUBSET Key, s \in Spec_, fin \in BOOLEAN, g \in SeededGen :
            store = [k \in ks |-> [spec |-> s, fin |-> fin, deleting |-> FALSE,
                                   gen |-> defaultGeneration(g), rv |-> 0]]
      BY DEF Init, ApiInit
    <3>2. [spec |-> s, fin |-> fin, deleting |-> FALSE, gen |-> defaultGeneration(g), rv |-> 0] \in Object
      BY GenerationsAreNaturals DEF Object, defaultGeneration
    <3> QED
      BY <3>1, <3>2 DEF Table
  <2>2. w \in WatchState
    <3>1. <<>> \in Seq(AnyEvent) /\ "new" \in WPc
      BY DEF WPc
    <3> QED
      BY <3>1, TableEmpty DEF Init, WatchState
  <2>3. stop \in BOOLEAN /\ closed \in BOOLEAN
    BY Zenon DEF Init
  <2>4. rv \in Nat /\ up \in Seq(AnyEvent) /\ late \in Nat
    BY DEF Init, ApiInit
  <2> QED
    BY <2>1, <2>2, <2>3, <2>4 DEF TypeOK
<1>2. TypeOK /\ [Next]_vars => TypeOK'
  <2> SUFFICES ASSUME TypeOK, [Next]_vars PROVE TypeOK'
    OBVIOUS
  <2>p. \A pc \in {"refused", "plain", "seeding", "failed", "check", "select", "send", "done"} : pc \in WPc
    BY DEF WPc
  <2>w. \A s \in WatchState : \A pc \in WPc : [s EXCEPT !.pc = pc] \in WatchState
    BY DEF WatchState
  <2>s. <<>> \in Seq(AnyEvent) /\ TRUE \in BOOLEAN
    OBVIOUS
  <2>e. \A s \in WatchState : \A pc \in WPc : [s EXCEPT !.pc = pc, !.ev = <<>>] \in WatchState
    BY <2>s DEF WatchState
  <2>x. ASSUME Ends PROVE w' \in WatchState /\ stop' \in BOOLEAN /\ closed' \in BOOLEAN /\ up' \in Seq(AnyEvent)
    <3>1. w' \in WatchState
      BY <2>x, <2>e, <2>p DEF Ends, TypeOK
    <3>2. stop' \in BOOLEAN /\ closed' \in BOOLEAN
      BY <2>x, Zenon DEF Ends
    <3>3. up' \in Seq(AnyEvent)
      BY <2>x, <2>s DEF Ends
    <3> QED
      BY <3>1, <3>2, <3>3
  <2>1. CASE watchFunc
    <3>1. w' \in WatchState
      BY <2>1, <2>p, <2>w DEF watchFunc, TypeOK
    <3> QED
      BY <2>1, <3>1 DEF watchFunc, apiVars, TypeOK
  <2>2. CASE currentMembers
    <3>1. [k \in Matching |-> store[k]] \in Table
      <4>1. \A k \in Matching : k \in Key /\ store[k] \in Object
        BY TableDef DEF Matching, TypeOK
      <4> QED
        BY <4>1 DEF Table
    <3>2. w' \in WatchState
      BY <2>2, <2>p, <3>1 DEF currentMembers, WatchState, TypeOK
    <3> QED
      BY <2>2, <3>2 DEF currentMembers, apiVars, TypeOK
  <2>3. CASE seedFails
    <3>1. closed' \in BOOLEAN
      BY <2>3, Zenon DEF seedFails
    <3> QED
      BY <2>3, <2>p, <2>w, <2>s, <3>1 DEF seedFails, TypeOK
  <2>4. CASE run_check
    BY <2>4, <2>x, <2>p, <2>w DEF run_check, TypeOK
  <2>5. CASE run_select
    <3>1. CASE Ends
      BY <2>5, <2>x, <3>1 DEF run_select, TypeOK
    <3>2. CASE ~Ends
      <4>1. up # <<>> /\ up' = Tail(up) /\ UNCHANGED <<stop, closed, store, rv, late>>
        BY <2>5, <3>2 DEF run_select
      <4>2. Head(up) \in AnyEvent /\ Tail(up) \in Seq(AnyEvent)
        BY <4>1 DEF TypeOK
      <4> DEFINE f == filter(w.in, Head(up))
      <4>3. f.in \in Table /\ f.out \in Seq(AnyEvent)
        <5>1. w.in \in Table
          BY DEF TypeOK, WatchState
        <5>2. f.in \in Table /\ (f.out = <<>> \/ \E d \in AnyEvent : f.out = <<d>>)
          BY <4>2, <5>1, FilterTypes
        <5>3. \A d \in AnyEvent : <<d>> \in Seq(AnyEvent)
          OBVIOUS
        <5> QED
          BY <5>2, <5>3, <2>s
      <4>4. w' = [w EXCEPT !.in = f.in, !.ev = f.out, !.pc = IF f.out = <<>> THEN "check" ELSE "send"]
        BY <2>5, <3>2 DEF run_select
      <4> HIDE DEF f
      <4>5. w' \in WatchState
        BY <4>3, <4>4, <2>p DEF WatchState, TypeOK
      <4> QED
        BY <4>1, <4>2, <4>5 DEF TypeOK
    <3> QED
      BY <3>1, <3>2
  <2>6. CASE run_send
    <3>1. CASE Ends
      BY <2>6, <2>x, <3>1 DEF run_send, TypeOK
    <3>2. CASE ~Ends
      <4>1. w' \in WatchState
        BY <2>6, <3>2, <2>e, <2>p DEF run_send, TypeOK
      <4>2. late' \in Nat
        BY <2>6, <3>2 DEF run_send, TypeOK
      <4> QED
        BY <2>6, <3>2, <4>1, <4>2 DEF run_send, TypeOK
    <3> QED
      BY <3>1, <3>2
  <2>7. CASE plain
    BY <2>7 DEF plain, TypeOK
  <2>8. CASE Stop
    <3>1. closed' \in BOOLEAN /\ stop' \in BOOLEAN
      BY <2>8, Zenon DEF Stop
    <3> QED
      BY <2>8, <3>1 DEF Stop, apiVars, TypeOK
  <2>9. CASE UpstreamFails
    <3>1. closed' \in BOOLEAN
      BY <2>9, Zenon DEF UpstreamFails, TypeOK
    <3>2. ErrorEvent \in AnyEvent
      BY DEF AnyEvent
    <3>3. up' \in Seq(AnyEvent) /\ rv' \in Nat
      BY <2>9, <3>2, SMTT(30) DEF UpstreamFails, ErrorEvent, TypeOK
    <3> QED
      BY <2>9, <3>1, <3>3 DEF UpstreamFails, TypeOK
  <2>10. CASE Api(Open) /\ UNCHANGED watchVars
    <3>1. store' \in Table /\ rv' \in Nat /\ up' \in Seq(AnyEvent)
      BY <2>10, ApiWrites, WritesTypes DEF TypeOK
    <3> QED
      BY <2>10, <3>1 DEF watchVars, TypeOK
  <2>11. CASE UNCHANGED vars
    BY <2>11 DEF vars, apiVars, TypeOK
  <2> QED
    BY <2>1, <2>2, <2>3, <2>4, <2>5, <2>6, <2>7, <2>8, <2>9, <2>10, <2>11 DEF Next, Watch
<1> QED
  BY <1>1, <1>2, PTL DEF Spec
------------------------------------------------------------------------------
(* An event delivered late is the one in hand when stop came: the look at  *)
(* stop that follows ends the goroutine.                                   *)
InFlightInv == late = 0 \/ (late = 1 /\ stop /\ w.pc \in {"check", "done"})

(* After Stop the consumer is handed at most the event in flight, however  *)
(* many are queued (run's check of stop on its own).                       *)
THEOREM OnlyOneInFlight == Spec => []OneInFlight
<1>1. Init => InFlightInv
  BY DEF Init, InFlightInv
<1>2. TypeOK /\ InFlightInv /\ [Next]_vars => InFlightInv'
  <2> SUFFICES ASSUME TypeOK, InFlightInv, [Next]_vars PROVE InFlightInv'
    OBVIOUS
  <2> USE DEF TypeOK, WatchState, InFlightInv
  <2>1. CASE watchFunc \/ currentMembers \/ seedFails \/ plain \/ Stop \/ UpstreamFails
    BY <2>1 DEF watchFunc, currentMembers, seedFails, plain, Stop, UpstreamFails
  <2>2. CASE run_check
    BY <2>2 DEF run_check, Ends
  <2>3. CASE run_select
    BY <2>3 DEF run_select, Ends
  <2>4. CASE run_send
    <3>1. late = 0
      BY <2>4 DEF run_send
    <3>2. CASE Ends
      BY <2>4, <3>1, <3>2 DEF run_send, Ends
    <3>3. CASE ~Ends
      <4>1. w'.pc = "check" /\ stop' = stop
        BY <2>4, <3>3 DEF run_send
      <4>2. late' = 0 \/ (stop /\ late' = 1)
        BY <2>4, <3>1, <3>3 DEF run_send
      <4> QED
        BY <4>1, <4>2
    <3> QED
      BY <3>2, <3>3
  <2>5. CASE UNCHANGED watchVars
    BY <2>5 DEF watchVars
  <2> QED
    BY <2>1, <2>2, <2>3, <2>4, <2>5 DEF Next, Watch, vars, watchVars
<1>3. InFlightInv => OneInFlight
  BY DEF InFlightInv, OneInFlight
<1> QED
  BY <1>1, <1>2, <1>3, TypeCorrect, PTL DEF Spec

(* metadata.generation counts the changes that matter, through every kind  *)
(* of write (generationTracker).                                           *)
THEOREM GenerationsCount == Spec => GenerationCounts
<1> DEFINE Step == \A k \in DOMAIN store \cap DOMAIN store' :
                     LET o == store[k] n == store'[k] IN
                     n.gen = o.gen + IF n.spec # o.spec \/ n.deleting # o.deleting THEN 1 ELSE 0
<1>1. TypeOK /\ [Next]_vars => [Step]_vars
  <2> SUFFICES ASSUME TypeOK, [Next]_vars, NEW k \in DOMAIN store, k \in DOMAIN store'
               PROVE  store'[k].gen = store[k].gen +
                        IF store'[k].spec # store[k].spec \/ store'[k].deleting # store[k].deleting THEN 1 ELSE 0
    OBVIOUS
  <2>0. store[k] \in Object
    BY TableDef DEF TypeOK
  <2>1. CASE store' = store
    BY <2>0, <2>1 DEF Object
  <2>2. ASSUME NEW j \in Key, Puts(j, Open)
        PROVE  store'[k].gen = store[k].gen +
                 IF store'[k].spec # store[k].spec \/ store'[k].deleting # store[k].deleting THEN 1 ELSE 0
    <3>1. PICK o \in Object, type \in {"Added", "Modified"} : Counted(j, o) /\ Store(j, o, type, Open)
      BY <2>2 DEF Puts
    <3>2. store'[k] = IF k = j THEN o ELSE store[k]
      BY <3>1 DEF Store, Put
    <3> QED
      BY <2>0, <3>1, <3>2 DEF Counted, Object
  <2>3. ASSUME NEW j \in Key, Removes(j, Open)
        PROVE  store'[k].gen = store[k].gen +
                 IF store'[k].spec # store[k].spec \/ store'[k].deleting # store[k].deleting THEN 1 ELSE 0
    <3>1. store'[k] = store[k]
      BY <2>3 DEF Removes, Remove, Drop
    <3> QED
      BY <2>0, <3>1 DEF Object
  <2>4. CASE Api(Open)
    BY <2>1, <2>2, <2>3, <2>4, ApiWrites DEF Writes, TypeOK
  <2>5. CASE Watch
    BY <2>1, <2>5 DEF Watch, watchFunc, currentMembers, seedFails, run_check, run_select, run_send,
                      plain, Stop, UpstreamFails, apiVars
  <2> QED
    BY <2>1, <2>4, <2>5 DEF Next, vars, apiVars
<1> QED
  BY <1>1, TypeCorrect, PTL DEF Spec, GenerationCounts
------------------------------------------------------------------------------
(* A call waiting for its read-back: every generation its key has had      *)
(* since the write is remembered, the present one included.                *)
CallRecord ==
  [pc : {"readBack", "done"}, key : Key, dry : BOOLEAN, sent : SentGen, held : Nat \cup SentGen,
   since : SUBSET Nat, gone : BOOLEAN]

CallInv ==
  /\ call.pc = "idle" \/ call \in CallRecord
  /\ HeldGenerationWasStored
  /\ call.pc = "readBack" =>
       /\ call.dry = FALSE /\ call.gone = FALSE /\ call.held = call.sent
       /\ call.key \in DOMAIN store => store[call.key].gen \in call.since

(* A write of one key leaves the others as they were. *)
LEMMA OtherKeys ==
  ASSUME NEW open, NEW k, Writes(k, open), NEW j, j # k
  PROVE  (j \in DOMAIN store' <=> j \in DOMAIN store) /\ (j \in DOMAIN store => store'[j] = store[j])
<1>1. CASE Puts(k, open)
  BY <1>1 DEF Puts, Store, Put
<1>2. CASE Removes(k, open)
  BY <1>2 DEF Removes, Remove, Drop
<1> QED
  BY <1>1, <1>2 DEF Writes

(* When a write returns, the object in hand carries a generation the store *)
(* held for it since the write (createFunc, updateFunc,                    *)
(* writeBackGeneration).                                                   *)
THEOREM HeldGenerationStored == Spec => []HeldGenerationWasStored
<1>1. Init => CallInv
  BY DEF Init, ApiInit, NoCall, CallInv, HeldGenerationWasStored
<1>2. TypeOK /\ TypeOK' /\ CallInv /\ [Next]_vars => CallInv'
  <2> SUFFICES ASSUME TypeOK, TypeOK', CallInv, [Next]_vars PROVE CallInv'
    OBVIOUS
  <2> USE DEF CallInv, HeldGenerationWasStored
  <2>k. DOMAIN store \subseteq Key
    BY TableDef DEF TypeOK
  <2>g. \A k \in DOMAIN store' : store'[k].gen \in Nat
    BY TableDef DEF TypeOK, Object
  <2>1. ASSUME NEW k \in Key, NEW typed \in BOOLEAN, NEW g \in SentGen, Written(k, typed, g)
        PROVE  CallInv'
    <3>0. call' \in CallRecord
      BY <2>1, <2>g DEF Written, GenAfter, CallRecord
    <3>1. CASE typed
      BY <2>1, <3>0, <3>1 DEF Written, GenAfter
    <3>2. CASE ~typed
      BY <2>1, <3>0, <3>2 DEF Written, GenAfter
    <3> QED
      BY <3>1, <3>2
  <2>2. CASE createFunc(Open)
    BY <2>1, <2>2 DEF createFunc
  <2>3. CASE updateFunc(Open)
    BY <2>1, <2>3, <2>k DEF updateFunc
  <2>4. CASE dryRun
    <3>1. call' \in CallRecord
      BY <2>4 DEF dryRun, CallRecord
    <3> QED
      BY <2>4, <3>1 DEF dryRun
  <2>5. CASE writeBackGeneration
    <3>1. call.pc = "readBack" /\ store' = store /\ call' = [call EXCEPT !.pc = "done",
                          !.gone = call.key \notin DOMAIN store,
                          !.held = IF call.key \in DOMAIN store THEN store[call.key].gen ELSE @]
      BY <2>5 DEF writeBackGeneration
    <3>2. call' \in CallRecord /\ call'.dry = call.dry /\ call'.sent = call.sent /\ call'.since = call.since
          /\ call'.pc = "done"
      BY <3>1, <2>g DEF CallRecord
    <3>3. CASE call.key \in DOMAIN store
      <4>1. call'.held = store[call.key].gen
        BY <3>1, <3>3 DEF CallRecord
      <4>2. call'.gone = FALSE
        BY <3>1, <3>3 DEF CallRecord
      <4> QED
        BY <3>1, <3>2, <3>3, <4>1, <4>2
    <3>4. CASE call.key \notin DOMAIN store
      <4>1. call'.held = call.held
        BY <3>1, <3>4 DEF CallRecord
      <4>2. call'.gone = TRUE
        BY <3>1, <3>4 DEF CallRecord
      <4> QED
        BY <3>1, <3>2, <4>1, <4>2
    <3> QED
      BY <3>3, <3>4
  <2>6. CASE Returns \/ readBackFails
    BY <2>6 DEF Returns, readBackFails, NoCall
  <2>7. CASE OtherWrite(Open)
    <3>1. PICK k \in Key : Writes(k, Open) /\ Others(k)
      BY <2>7, OtherWrites DEF TypeOK
    <3>2. CASE call.pc = "readBack" /\ call.key = k
      <4>1. call' \in CallRecord
        BY <3>1, <3>2, <2>g DEF Others, GenAfter, CallRecord
      <4> QED
        BY <3>1, <3>2, <4>1 DEF Others, GenAfter, CallRecord
    <3>3. CASE ~(call.pc = "readBack" /\ call.key = k)
      BY <3>1, <3>3, OtherKeys DEF Others
    <3> QED
      BY <3>2, <3>3
  <2>8. CASE UNCHANGED <<store, call>>
    BY <2>8
  <2>9. Watch => UNCHANGED <<store, call>>
    BY DEF Watch, watchFunc, currentMembers, seedFails, run_check, run_select, run_send, plain,
       Stop,
           UpstreamFails, apiVars
  <2> QED
    BY <2>2, <2>3, <2>4, <2>5, <2>6, <2>7, <2>8, <2>9 DEF Next, Api, vars, apiVars
<1>3. CallInv => HeldGenerationWasStored
  BY DEF CallInv
<1> QED
  BY <1>1, <1>2, <1>3, TypeCorrect, PTL DEF Spec
------------------------------------------------------------------------------
(* Ev(i, k): up[i] is an event of key k.  Silent(k): none is queued.       *)
Ev(i, k) == up[i].key = k /\ up[i].type # "Error"
Silent(k) == \A i \in DOMAIN up : ~Ev(i, k)
First(i, k) == Ev(i, k) /\ \A j \in DOMAIN up : j < i => ~Ev(j, k)
Last(i, k) == Ev(i, k) /\ \A j \in DOMAIN up : j > i => ~Ev(j, k)

Agrees(e, k) == IF e.type = "Deleted" THEN k \notin DOMAIN store
                ELSE k \in DOMAIN store /\ store[k] = e.obj

(* What the consumer holds once the event in hand, if any, is delivered. *)
Told == IF w.pc = "send" THEN Seen(w.ev[1]) ELSE view

(* The last event queued for a key is what the store holds. *)
QueueInv(k) == \A i \in DOMAIN up : Last(i, k) => Agrees(up[i], k)

(* Until the seeding List, the objects that matched when the watch opened  *)
(* are as they were, or the first of their events says otherwise; and the  *)
(* object a first deletion carries is one that matched.                    *)
SeedInv(k) ==
  /\ k \in DOMAIN view =>
       \/ Silent(k) /\ k \in Matching
       \/ \E i \in DOMAIN up : First(i, k) /\ (up[i].type = "Deleted" => up[i].obj.spec \in Selected)
  /\ Silent(k) /\ k \in Matching => k \in DOMAIN view /\ view[k] = store[k]

(* From then on a key with nothing queued is remembered and told as the    *)
(* store has it, and one that was told and is no longer remembered will be *)
(* told of: its next event is one that filter shows.                       *)
MemberInv(k) ==
  /\ Silent(k) => /\ k \in DOMAIN w.in <=> k \in Matching
                  /\ k \in DOMAIN w.in => w.in[k] = store[k]
                  /\ k \in Matching => k \in DOMAIN Told /\ Told[k] = store[k]
  /\ k \in DOMAIN Told \ DOMAIN w.in =>
       k \in left \/ \E i \in DOMAIN up : First(i, k) /\ up[i].obj.spec \in Selected

Members == {"check", "select", "send"}

WatchInv ==
  /\ w.pc = "new" => up = <<>>
  /\ w.pc = "send" => \E d \in AnyEvent : w.ev = <<d>>
  /\ DOMAIN view \subseteq Key
  /\ ~closed => \A k \in Key :
       /\ w.pc \in Members \cup {"seeding"} => QueueInv(k)
       /\ w.pc = "seeding" => SeedInv(k)
       /\ w.pc \in Members => MemberInv(k)

(* What an event appended to the queue changes for a key. *)
LEMMA Appending ==
  ASSUME up \in Seq(AnyEvent), NEW e, up' = Append(up, e), NEW k, NEW n \in Nat, n = Len(up) + 1
  PROVE  LET hit == e.key = k /\ e.type # "Error" IN
         /\ Silent(k)' <=> Silent(k) /\ ~hit
         /\ \A i \in DOMAIN up : First(i, k) => i \in DOMAIN up' /\ First(i, k)' /\ up'[i] = up[i]
         /\ \A i \in DOMAIN up' : Last(i, k)' =>
              \/ hit /\ up'[i] = e
              \/ ~hit /\ i \in DOMAIN up /\ Last(i, k) /\ up'[i] = up[i]
         /\ Silent(k) /\ hit => n \in DOMAIN up' /\ First(n, k)' /\ up'[n] = e
<1> DEFINE hit == e.key = k /\ e.type # "Error"
<1>1. /\ Len(up) \in Nat /\ DOMAIN up = 1..Len(up) /\ DOMAIN up' = 1..n
      /\ up'[n] = e /\ \A i \in DOMAIN up : up'[i] = up[i]
  OBVIOUS
<1>2. /\ \A i \in DOMAIN up : i \in DOMAIN up' /\ (Ev(i, k)' <=> Ev(i, k)) /\ i < n
      /\ Ev(n, k)' <=> hit
      /\ \A i \in DOMAIN up' : i \in DOMAIN up \/ i = n
      /\ n \in DOMAIN up'
  BY <1>1 DEF Ev
<1>3. Silent(k)' <=> Silent(k) /\ ~hit
  BY <1>2 DEF Silent
<1>4. \A i \in DOMAIN up : First(i, k) => First(i, k)'
  <2> SUFFICES ASSUME NEW i \in DOMAIN up, First(i, k), NEW j \in DOMAIN up', j < i PROVE ~Ev(j, k)'
    BY <1>2 DEF First
  <2>1. j \in DOMAIN up
    BY <1>1
  <2> QED
    BY <1>2, <2>1 DEF First
<1>5. ASSUME NEW i \in DOMAIN up', Last(i, k)'
      PROVE  \/ hit /\ up'[i] = e
             \/ ~hit /\ i \in DOMAIN up /\ Last(i, k) /\ up'[i] = up[i]
  <2>1. CASE i = n
    BY <1>1, <1>2, <1>5, <2>1 DEF Last
  <2>2. CASE i \in DOMAIN up
    <3>1. ~hit
      BY <1>1, <1>2, <1>5, <2>2 DEF Last
    <3>2. Last(i, k)
      BY <1>1, <1>2, <1>5, <2>2 DEF Last
    <3> QED
      BY <1>1, <2>2, <3>1, <3>2
  <2> QED
    BY <1>2, <2>1, <2>2
<1>6. Silent(k) /\ hit => First(n, k)'
  BY <1>1, <1>2 DEF Silent, First
<1> QED
  BY <1>1, <1>2, <1>3, <1>4, <1>5, <1>6

(* The queue of a key an appended event is not of. *)
LEMMA Missing ==
  ASSUME up \in Seq(AnyEvent), NEW e, up' = Append(up, e), NEW k, ~(e.key = k /\ e.type # "Error")
  PROVE  /\ Silent(k)' <=> Silent(k)
         /\ \A i \in DOMAIN up : First(i, k) => i \in DOMAIN up' /\ First(i, k)' /\ up'[i] = up[i]
         /\ \A i \in DOMAIN up' : Last(i, k)' => i \in DOMAIN up /\ Last(i, k) /\ up'[i] = up[i]
<1> DEFINE hit == e.key = k /\ e.type # "Error"
<1>1. PICK n \in Nat : n = Len(up) + 1
  OBVIOUS
<1>2. /\ Silent(k)' <=> Silent(k) /\ ~hit
      /\ \A i \in DOMAIN up : First(i, k) => i \in DOMAIN up' /\ First(i, k)' /\ up'[i] = up[i]
      /\ \A i \in DOMAIN up' : Last(i, k)' =>
           \/ hit /\ up'[i] = e
           \/ ~hit /\ i \in DOMAIN up /\ Last(i, k) /\ up'[i] = up[i]
  BY <1>1, Appending
<1>3. ~hit
  OBVIOUS
<1> HIDE DEF hit
<1> QED
  BY <1>2, <1>3

(* What the event taken from the queue changes for a key. *)
LEMMA Taking ==
  ASSUME up \in Seq(AnyEvent), up # <<>>, up' = Tail(up), NEW k
  PROVE  /\ 1 \in DOMAIN up /\ up[1] = Head(up) /\ Head(up) \in AnyEvent
         /\ Silent(k)' => Last(1, k) \/ (~Ev(1, k) /\ Silent(k))
         /\ \A i \in DOMAIN up' : Last(i, k)' => i + 1 \in DOMAIN up /\ Last(i + 1, k) /\ up'[i] = up[i + 1]
         /\ ~Ev(1, k) => \A i \in DOMAIN up :
              First(i, k) => i - 1 \in DOMAIN up' /\ First(i - 1, k)' /\ up'[i - 1] = up[i]
         /\ Ev(1, k) => \A i \in DOMAIN up : First(i, k) => i = 1
<1>1. /\ Len(up) \in Nat /\ Len(up) >= 1 /\ DOMAIN up = 1..Len(up) /\ DOMAIN up' = 1..(Len(up) - 1)
      /\ \A i \in DOMAIN up' : up'[i] = up[i + 1]
      /\ up[1] = Head(up) /\ Head(up) \in AnyEvent
  OBVIOUS
<1>2. \A i \in DOMAIN up' : i + 1 \in DOMAIN up /\ (Ev(i, k)' <=> Ev(i + 1, k))
  BY <1>1 DEF Ev
<1>3. \A i \in DOMAIN up : i = 1 \/ (i - 1 \in DOMAIN up' /\ (Ev(i - 1, k)' <=> Ev(i, k)) /\ up'[i - 1] = up[i])
  BY <1>1 DEF Ev
<1>4. Silent(k)' => Last(1, k) \/ (~Ev(1, k) /\ Silent(k))
  BY <1>1, <1>3 DEF Silent, Last
<1>5. ASSUME NEW i \in DOMAIN up', Last(i, k)' PROVE Last(i + 1, k)
  <2> SUFFICES ASSUME NEW j \in DOMAIN up, j > i + 1 PROVE ~Ev(j, k)
    BY <1>2, <1>5 DEF Last
  <2>1. j - 1 \in DOMAIN up' /\ j - 1 > i
    BY <1>1
  <2> QED
    BY <1>1, <1>3, <1>5, <2>1 DEF Last
<1>6. ASSUME ~Ev(1, k), NEW i \in DOMAIN up, First(i, k) PROVE i - 1 \in DOMAIN up' /\ First(i - 1, k)' /\ up'[i - 1] = up[i]
  <2>1. i # 1
    BY <1>6 DEF First
  <2>2. ASSUME NEW j \in DOMAIN up', j < i - 1 PROVE ~Ev(j, k)'
    <3>1. j + 1 \in DOMAIN up /\ j + 1 < i
      BY <1>1, <2>2
    <3> QED
      BY <1>2, <1>6, <3>1 DEF First
  <2> QED
    BY <1>3, <1>6, <2>1, <2>2 DEF First
<1>7. Ev(1, k) => \A i \in DOMAIN up : First(i, k) => i = 1
  BY <1>1 DEF First
<1> QED
  BY <1>1, <1>2, <1>4, <1>5, <1>6, <1>7

(* A write under an open watch queues an event of its key that agrees with *)
(* the store; a deletion's carries the object as it was.                   *)
LEMMA WriteQueues ==
  ASSUME TypeOK, NEW open, open, NEW k \in Key, Writes(k, open)
  PROVE  \E e \in Known : /\ up' = Append(up, e) /\ e.key = k /\ Agrees(e, k)'
                          /\ e.type = "Deleted" => k \in DOMAIN store /\ e.obj = store[k]
<1>1. CASE Puts(k, open)
  <2>1. PICK o \in Object, type \in {"Added", "Modified"} : Store(k, o, type, open)
    BY <1>1 DEF Puts
  <2> DEFINE e == Event(type, k, o)
  <2>2. e \in Known /\ e.key = k /\ e.type = type /\ e.obj = o
    BY DEF Event, Known
  <2>3. up' = Append(up, e) /\ k \in DOMAIN store' /\ store'[k] = o
    BY <2>1 DEF Store, Put
  <2> HIDE DEF e
  <2> QED
    BY <2>2, <2>3 DEF Agrees
<1>2. CASE Removes(k, open)
  <2> DEFINE e == Event("Deleted", k, store[k])
  <2>1. e \in Known /\ e.key = k /\ e.type = "Deleted" /\ e.obj = store[k]
    BY <1>2, TableDef DEF Event, Known, Removes, TypeOK
  <2>2. up' = Append(up, e) /\ k \notin DOMAIN store' /\ k \in DOMAIN store
    BY <1>2 DEF Removes, Remove, Drop
  <2> HIDE DEF e
  <2> QED
    BY <2>1, <2>2 DEF Agrees
<1> QED
  BY <1>1, <1>2 DEF Writes

(* filter and the consumer, key by key: other keys keep what they had; the *)
(* event's key is remembered and told as the event has it if that matches, *)
(* and else forgotten, and told of if it was remembered or, for a          *)
(* deletion, matched.                                                      *)
Same(f, g, j) == (j \in DOMAIN f <=> j \in DOMAIN g) /\ (j \in DOMAIN g => f[j] = g[j])
Holds(f, j, o) == j \in DOMAIN f /\ f[j] = o
After(out) == IF out = <<>> THEN view ELSE Seen(out[1])

(* What filter does to the membership and, through the consumer, to the    *)
(* view.                                                                   *)
LEMMA FilterEffect ==
  ASSUME NEW in \in Table, NEW e \in AnyEvent
  PROVE  LET f == filter(in, e)
             told == After(f.out)
             matches == e.obj.spec \in Selected IN
         /\ \A j : j # e.key \/ e.type = "Error" => Same(f.in, in, j) /\ Same(told, view, j)
         /\ e.type # "Error" /\ (e.type = "Deleted" \/ ~matches) =>
              /\ e.key \notin DOMAIN f.in
              /\ e.key \in DOMAIN told =>
                   /\ e.key \in DOMAIN view /\ e.key \notin DOMAIN in /\ ~matches
         /\ e.type \notin {"Error", "Deleted"} /\ matches =>
              Holds(f.in, e.key, e.obj) /\ Holds(told, e.key, e.obj)
<1> DEFINE f == filter(in, e)
           told == After(f.out)
           matches == e.obj.spec \in Selected
<1> USE DEF Same, Holds
<1>0. \A d : After(<<d>>) = Seen(d)
  BY DEF After
<1>1. CASE e.type = "Error"
  <2>1. f.in = in /\ f.out = <<e>>
    BY <1>1 DEF filter, Filtered
  <2>2. told = view
    BY <1>0, <1>1, <2>1 DEF Seen
  <2> QED
    BY <1>1, <2>1, <2>2
<1>2. CASE e.type = "Deleted"
  <2>1. f.in = Drop(in, e.key)
    BY <1>2 DEF filter, Filtered, Hidden
  <2>2. CASE e.key \in DOMAIN in \/ matches
    <3>1. f.out = <<e>>
      BY <1>2, <2>2 DEF filter, Filtered, showsDeletion
    <3>2. told = Drop(view, e.key)
      BY <1>0, <1>2, <3>1 DEF Seen
    <3> QED
      BY <1>2, <2>1, <3>2 DEF Drop
  <2>3. CASE ~(e.key \in DOMAIN in \/ matches)
    <3>1. told = view
      BY <1>2, <2>3 DEF filter, Hidden, showsDeletion, After
    <3> QED
      BY <1>2, <2>1, <2>3, <3>1 DEF Drop
  <2> QED
    BY <2>2, <2>3
<1>3. CASE e.type \notin {"Error", "Deleted"}
  <2>1. e \in Known
    BY <1>3, EventTypes
  <2>2. CASE matches
    <3> DEFINE d == [e EXCEPT !.type = IF e.key \in DOMAIN in THEN "Modified" ELSE "Added"]
    <3>1. f.in = Put(in, e.key, e.obj) /\ f.out = <<d>>
      BY <1>3, <2>2 DEF filter, Filtered
    <3>2. d.type \notin {"Error", "Deleted"} /\ d.key = e.key /\ d.obj = e.obj
      BY <2>1 DEF Known
    <3> HIDE DEF d
    <3>3. told = Put(view, e.key, e.obj)
      BY <1>0, <3>1, <3>2 DEF Seen
    <3> QED
      BY <1>3, <2>2, <3>1, <3>3 DEF Put
  <2>3. CASE ~matches /\ e.key \in DOMAIN in
    <3> DEFINE d == Event("Deleted", e.key, [in[e.key] EXCEPT !.rv = e.obj.rv])
    <3>1. f.in = Drop(in, e.key) /\ f.out = <<d>>
      BY <1>3, <2>3 DEF filter, Filtered
    <3>2. d.type = "Deleted" /\ d.key = e.key
      BY DEF Event
    <3> HIDE DEF d
    <3>3. told = Drop(view, e.key)
      BY <1>0, <3>1, <3>2 DEF Seen
    <3> QED
      BY <1>3, <2>3, <3>1, <3>3 DEF Drop
  <2>4. CASE ~matches /\ e.key \notin DOMAIN in
    <3>1. f.in = in /\ told = view
      BY <1>3, <2>4 DEF filter, Hidden, After
    <3> QED
      BY <1>3, <2>4, <3>1
  <2> QED
    BY <2>2, <2>3, <2>4
<1> QED
  BY <1>1, <1>2, <1>3
------------------------------------------------------------------------------
(* The API's writes keep the watch's invariant: each is an event at the    *)
(* end of the queue of an open watch.                                      *)
LEMMA ApiKeepsWatch ==
  ASSUME TypeOK, WatchInv, NEW k \in Key, Writes(k, Open), UNCHANGED watchVars
  PROVE  WatchInv'
<1>1. CASE ~Open
  <2>1. up' = up
    <3>1. CASE Puts(k, Open)
      BY <1>1, <3>1 DEF Puts, Store
    <3>2. CASE Removes(k, Open)
      BY <1>1, <3>2 DEF Removes, Remove
    <3> QED
      BY <3>1, <3>2 DEF Writes
  <2>2. ~closed => w.pc \notin Members \cup {"seeding"}
    BY <1>1 DEF Open, Members
  <2> QED
    BY <2>1, <2>2 DEF WatchInv, watchVars, Members
<1>2. CASE Open
  <2>0. ~closed /\ w.pc # "new" /\ w' = w /\ view' = view /\ left' = left /\ closed' = closed
    BY <1>2 DEF Open, watchVars
  <2>1. PICK e \in Known : /\ up' = Append(up, e) /\ e.key = k /\ Agrees(e, k)'
                           /\ e.type = "Deleted" => k \in DOMAIN store /\ e.obj = store[k]
    BY <1>2, WriteQueues
  <2>2. e.type # "Error" /\ Len(up) + 1 \in Nat /\ up \in Seq(AnyEvent)
    BY DEF Known, TypeOK
  <2> DEFINE n == Len(up) + 1
  <2>3. PICK m \in Nat : m = n
    BY <2>2
  <2>4. Told' = Told
    BY <2>0 DEF Told, Seen
  <2>l. ASSUME NEW j, j # k
        PROVE  \A i \in DOMAIN up' : Last(i, j)' => i \in DOMAIN up /\ Last(i, j) /\ up'[i] = up[i]
    <3>1. up' = Append(up, e) /\ m = Len(up) + 1 /\ ~(e.key = j /\ e.type # "Error")
      BY <2>1, <2>3, <2>l
    <3> QED
      BY <2>2, <3>1, Missing
  <2>5. ASSUME NEW j \in Key, w.pc \in Members \cup {"seeding"} PROVE QueueInv(j)'
    <3> SUFFICES ASSUME NEW i \in DOMAIN up', Last(i, j)' PROVE Agrees(up[i], j)'
      BY DEF QueueInv
    <3>1. CASE j = k
      <4>1. up'[i] = e
        BY <2>1, <2>2, <2>3, <3>1, Appending
      <4> QED
        BY <2>1, <3>1, <4>1 DEF Agrees
    <3>2. CASE j # k
      <4>1. i \in DOMAIN up /\ Last(i, j) /\ up'[i] = up[i]
        BY <2>l, <3>2
      <4>2. Agrees(up[i], j)
        BY <2>0, <2>5, <4>1 DEF WatchInv, QueueInv
      <4> QED
        BY <3>2, <4>1, <4>2, OtherKeys DEF Agrees
    <3> QED
      BY <3>1, <3>2
  <2>6. ASSUME NEW j \in Key, w.pc = "seeding" PROVE SeedInv(j)'
    <3>0. SeedInv(j)
      BY <2>0, <2>6 DEF WatchInv
    <3>1. CASE j = k
      <4>1. ~Silent(j)'
        BY <2>1, <2>2, <2>3, <3>1, Appending
      <4>2. ASSUME j \in DOMAIN view
            PROVE  \E i \in DOMAIN up' : First(i, j)' /\ (up'[i].type = "Deleted" => up'[i].obj.spec \in Selected)
        <5>1. CASE Silent(j) /\ j \in Matching
          <6>1. m \in DOMAIN up' /\ First(m, j)' /\ up'[m] = e
            BY <2>1, <2>2, <2>3, <3>1, <5>1, Appending
          <6> QED
            BY <2>1, <3>1, <5>1, <6>1 DEF Matching
        <5>2. CASE \E i \in DOMAIN up : First(i, j) /\ (up[i].type = "Deleted" => up[i].obj.spec \in Selected)
          BY <2>1, <2>2, <2>3, <5>2, Appending
        <5> QED
          BY <3>0, <4>2, <5>1, <5>2 DEF SeedInv
      <4> QED
        BY <2>0, <4>1, <4>2 DEF SeedInv
    <3>2. CASE j # k
      <4>0. Silent(j)' <=> Silent(j)
        BY <2>1, <2>2, <2>3, <3>2, Appending
      <4>1. \A i \in DOMAIN up : First(i, j) => i \in DOMAIN up' /\ First(i, j)' /\ up'[i] = up[i]
        BY <2>1, <2>2, <2>3, Appending
      <4>2. (j \in Matching' <=> j \in Matching) /\ (j \in Matching => store'[j] = store[j])
        BY <3>2, OtherKeys DEF Matching
      <4> QED
        BY <2>0, <3>0, <4>0, <4>1, <4>2 DEF SeedInv
    <3> QED
      BY <3>1, <3>2
  <2>7. ASSUME NEW j \in Key, w.pc \in Members PROVE MemberInv(j)'
    <3>0. MemberInv(j)
      BY <2>0, <2>7 DEF WatchInv
    <3>1. \A i \in DOMAIN up : First(i, j) => i \in DOMAIN up' /\ First(i, j)' /\ up'[i] = up[i]
      BY <2>1, <2>2, <2>3, Appending
    <3>2. CASE j = k
      <4>1. ~Silent(j)'
        BY <2>1, <2>2, <2>3, <3>2, Appending
      <4> QED
        BY <2>0, <2>4, <3>0, <3>1, <4>1 DEF MemberInv
    <3>3. CASE j # k
      <4>1. Silent(j)' <=> Silent(j)
        BY <2>1, <2>2, <2>3, <3>3, Appending
      <4>2. (j \in Matching' <=> j \in Matching) /\ (j \in Matching => store'[j] = store[j])
        BY <3>3, OtherKeys DEF Matching
      <4> QED
        BY <2>0, <2>4, <3>0, <3>1, <4>1, <4>2 DEF MemberInv
    <3> QED
      BY <3>2, <3>3
  <2> QED
    BY <2>0, <2>5, <2>6, <2>7 DEF WatchInv
<1> QED
  BY <1>1, <1>2

(* The select that takes an event keeps the watch's invariant. *)
LEMMA SelectKeepsWatch ==
  ASSUME TypeOK, WatchInv, run_select, ~Ends
  PROVE  WatchInv'
<1> DEFINE f == filter(w.in, Head(up))
<1>1. /\ w.pc = "select" /\ up # <<>> /\ up' = Tail(up)
      /\ UNCHANGED <<store, rv, call, stop, closed, view, left, late>>
      /\ w' = [w EXCEPT !.in = f.in, !.ev = f.out, !.pc = IF f.out = <<>> THEN "check" ELSE "send"]
  BY DEF run_select
<1>2. Head(up) \in AnyEvent /\ w.in \in Table /\ up \in Seq(AnyEvent)
  BY <1>1 DEF TypeOK, WatchState
<1>3. f.out = <<>> \/ \E d \in AnyEvent : f.out = <<d>>
  BY <1>2, FilterTypes
<1> HIDE DEF f
<1>4. w'.in = f.in /\ w'.ev = f.out /\ w'.pc = IF f.out = <<>> THEN "check" ELSE "send"
  BY <1>1 DEF TypeOK, WatchState
<1>5. Told = view /\ Told' = After(f.out) /\ w'.pc \in Members
  BY <1>1, <1>3, <1>4 DEF Told, After, Seen, Members
<1>6. w'.pc = "send" => \E d \in AnyEvent : w'.ev = <<d>>
  BY <1>3, <1>4
<1>7. ASSUME ~closed, NEW k \in Key PROVE QueueInv(k)' /\ MemberInv(k)'
  <2>0. QueueInv(k) /\ MemberInv(k)
    BY <1>1, <1>7 DEF WatchInv, Members
  <2>1. QueueInv(k)'
    <3> SUFFICES ASSUME NEW i \in DOMAIN up', Last(i, k)' PROVE Agrees(up[i], k)'
      BY DEF QueueInv
    <3>1. i + 1 \in DOMAIN up /\ Last(i + 1, k) /\ up'[i] = up[i + 1]
      BY <1>1, <1>2, Taking
    <3>2. Agrees(up[i + 1], k)
      BY <2>0, <3>1 DEF QueueInv
    <3> QED
      BY <1>1, <3>1, <3>2 DEF Agrees
  <2>2. up[1] = Head(up) /\ 1 \in DOMAIN up
    BY <1>1, <1>2, Taking
  <2>3. CASE ~Ev(1, k)
    <3>1. Same(f.in, w.in, k) /\ Same(Told', Told, k)
      BY <1>2, <1>5, <2>2, <2>3, FilterEffect DEF Ev, f
    <3>2. Silent(k)' => Silent(k)
      BY <1>1, <1>2, <2>3, Taking DEF Last
    <3>3. \A i \in DOMAIN up : First(i, k) => i - 1 \in DOMAIN up' /\ First(i - 1, k)' /\ up'[i - 1] = up[i]
      BY <1>1, <1>2, <2>3, Taking
    <3>4. Matching' = Matching
      BY <1>1 DEF Matching
    <3>5. (Silent(k) => /\ k \in DOMAIN w.in <=> k \in Matching
                        /\ k \in DOMAIN w.in => w.in[k] = store[k]
                        /\ k \in Matching => k \in DOMAIN Told /\ Told[k] = store[k])'
      BY <1>1, <1>4, <2>0, <3>1, <3>2, <3>4 DEF MemberInv, Same
    <3>6. (k \in DOMAIN Told \ DOMAIN w.in =>
             k \in left \/ \E i \in DOMAIN up : First(i, k) /\ up[i].obj.spec \in Selected)'
      BY <1>1, <1>4, <2>0, <3>1, <3>3 DEF MemberInv, Same
    <3> QED
      BY <2>1, <3>5, <3>6 DEF MemberInv
  <2>4. CASE Ev(1, k)
    <3> DEFINE e == Head(up)
    <3>0. e.key = k /\ e.type # "Error"
      BY <2>2, <2>4 DEF Ev
    <3>1. Silent(k)' => Agrees(e, k)
      BY <1>1, <1>2, <2>0, <2>2, <2>4, Taking DEF QueueInv
    <3>2. \A i \in DOMAIN up : First(i, k) => up[i] = e
      BY <1>1, <1>2, <2>2, <2>4, Taking
    <3>3. Matching' = Matching
      BY <1>1 DEF Matching
    <3>4. CASE e.type = "Deleted" \/ e.obj.spec \notin Selected
      <4>1. /\ k \notin DOMAIN w'.in
            /\ k \in DOMAIN Told' => k \in DOMAIN Told /\ k \notin DOMAIN w.in /\ e.obj.spec \notin Selected
        BY <1>2, <1>4, <1>5, <3>0, <3>4, FilterEffect DEF f
      <4>2. k \in DOMAIN Told' => k \in left
        BY <2>0, <3>2, <4>1 DEF MemberInv
      <4>3. Silent(k)' => k \notin Matching
        BY <3>1, <3>4 DEF Agrees, Matching
      <4> QED
        BY <1>1, <2>1, <3>3, <4>1, <4>2, <4>3 DEF MemberInv
    <3>5. CASE ~(e.type = "Deleted" \/ e.obj.spec \notin Selected)
      <4>1. Holds(w'.in, k, e.obj) /\ Holds(Told', k, e.obj)
        BY <1>2, <1>4, <1>5, <3>0, <3>5, FilterEffect DEF f
      <4>2. Silent(k)' => k \in Matching /\ store[k] = e.obj
        BY <3>1, <3>5 DEF Agrees, Matching
      <4> QED
        BY <1>1, <2>1, <3>3, <4>1, <4>2 DEF MemberInv, Holds
    <3> QED
      BY <3>4, <3>5
  <2> QED
    BY <2>3, <2>4
<1> QED
  BY <1>1, <1>5, <1>6, <1>7 DEF WatchInv, Members

(* The watch's invariant is kept by every step. *)
LEMMA WatchInvInductive ==
  ASSUME TypeOK, TypeOK', WatchInv, [Next]_vars
  PROVE  WatchInv'
<1>0. /\ up \in Seq(AnyEvent) /\ w \in WatchState
      /\ \A i \in DOMAIN up : up[i] \in AnyEvent
      /\ DOMAIN store \subseteq Key
  BY TableDef DEF TypeOK
<1>1. CASE watchFunc
  <2>1. /\ w.pc = "new" /\ up = <<>> /\ UNCHANGED <<store, up, closed, left>>
        /\ w.request \in {"all", "indexed", "unindexed"}
    BY <1>0, <1>1, RequestsAssumption DEF watchFunc, apiVars, WatchInv, WatchState
  <2>2. DOMAIN view' \subseteq Key
    BY <1>0, <1>1 DEF watchFunc, Matching
  <2>3. w'.pc \in {"refused", "plain", "seeding"} /\ (w'.pc = "seeding" => w.request = "indexed")
    BY <1>0, <1>1, <2>1 DEF watchFunc, WatchState
  <2>4. ASSUME NEW k \in Key, w'.pc = "seeding" PROVE QueueInv(k)' /\ SeedInv(k)'
    <3>1. Silent(k)' /\ QueueInv(k)'
      BY <2>1 DEF Silent, QueueInv
    <3>2. view' = [j \in Matching |-> store[j]] /\ Matching' = Matching /\ store' = store
      BY <1>1, <2>1, <2>3, <2>4 DEF watchFunc, Matching
    <3> QED
      BY <3>1, <3>2 DEF SeedInv
  <2> QED
    BY <2>2, <2>3, <2>4 DEF WatchInv, Members
<1>2. CASE currentMembers
  <2>1. /\ w.pc = "seeding" /\ w'.pc = "check" /\ w'.in = [k \in Matching |-> store[k]]
        /\ UNCHANGED <<store, up, closed, view>>
        /\ left' = {k \in DOMAIN view \ Matching :
                      \E i \in DOMAIN up : up[i].key = k /\ up[i].type \in {"Added", "Modified"}
                                                         /\ up[i].obj.spec \notin Selected}
    BY <1>0, <1>2 DEF currentMembers, apiVars, WatchState
  <2>2. ASSUME ~closed, NEW k \in Key PROVE QueueInv(k)' /\ MemberInv(k)'
    <3>0. QueueInv(k) /\ SeedInv(k)
      BY <2>1, <2>2 DEF WatchInv
    <3>1. QueueInv(k)' /\ (Silent(k)' <=> Silent(k)) /\ \A i \in DOMAIN up : First(i, k)' <=> First(i, k)
      BY <2>1, <3>0 DEF QueueInv, Agrees, Last, Silent, First, Ev
    <3>2. Told' = view /\ Matching' = Matching
      BY <2>1 DEF Told, Matching
    <3>3. ASSUME k \in DOMAIN view \ Matching
          PROVE  k \in left' \/ \E i \in DOMAIN up : First(i, k) /\ up[i].obj.spec \in Selected
      <4>1. PICK i \in DOMAIN up : First(i, k) /\ (up[i].type = "Deleted" => up[i].obj.spec \in Selected)
        BY <3>0, <3>3 DEF SeedInv
      <4>2. up[i].key = k /\ up[i].type \in {"Added", "Modified", "Deleted"}
        BY <1>0, <4>1, EventTypes DEF First, Ev, Known
      <4> QED
        BY <2>1, <3>3, <4>1, <4>2
    <3> QED
      BY <2>1, <3>0, <3>1, <3>2, <3>3 DEF MemberInv, SeedInv
  <2> QED
    BY <2>1, <2>2 DEF WatchInv, Members
<1>3. CASE seedFails
  BY <1>0, <1>3 DEF seedFails, WatchInv, WatchState
<1>4. CASE Ends /\ UNCHANGED view
  BY <1>0, <1>4 DEF Ends, WatchInv, WatchState
<1>5. CASE run_check
  <2>1. CASE ~stop
    <3>1. /\ w.pc = "check" /\ w'.pc = "select" /\ w'.in = w.in
          /\ UNCHANGED <<store, up, closed, view, left>>
      BY <1>0, <1>5, <2>1 DEF run_check, WatchState
    <3>2. Told' = Told
      BY <3>1 DEF Told
    <3>3. ASSUME ~closed, NEW k \in Key PROVE QueueInv(k)' /\ MemberInv(k)'
      <4>1. QueueInv(k) /\ MemberInv(k)
        BY <3>1, <3>3 DEF WatchInv, Members
      <4> QED
        BY <3>1, <3>2, <4>1 DEF QueueInv, MemberInv, Agrees, Last, Silent, First, Ev, Matching
    <3> QED
      BY <3>1, <3>3 DEF WatchInv, Members
  <2>2. CASE stop
    BY <1>4, <1>5, <2>2 DEF run_check
  <2> QED
    BY <2>1, <2>2
<1>6. CASE run_select
  <2>1. CASE Ends
    BY <1>4, <1>6, <2>1 DEF run_select
  <2>2. CASE ~Ends
    BY <1>6, <2>2, SelectKeepsWatch
  <2> QED
    BY <2>1, <2>2
<1>7. CASE run_send
  <2>1. CASE Ends /\ UNCHANGED view
    BY <1>4, <2>1
  <2>2. CASE ~(Ends /\ UNCHANGED view)
    <3>1. /\ w.pc = "send" /\ w'.pc = "check" /\ w'.in = w.in /\ view' = Seen(w.ev[1])
          /\ UNCHANGED <<store, up, closed, left>>
      BY <1>0, <1>7, <2>2 DEF run_send, WatchState
    <3>2. Told' = Told
      BY <3>1 DEF Told
    <3>3. DOMAIN view' \subseteq Key
      <4>1. PICK d \in AnyEvent : w.ev = <<d>>
        BY <3>1 DEF WatchInv
      <4>2. d.type = "Error" \/ d.key \in Key
        BY EventTypes
      <4> QED
        BY <3>1, <4>1, <4>2 DEF Seen, Put, Drop, WatchInv
    <3>4. ASSUME ~closed, NEW k \in Key PROVE QueueInv(k)' /\ MemberInv(k)'
      <4>1. QueueInv(k) /\ MemberInv(k)
        BY <3>1, <3>4 DEF WatchInv, Members
      <4> QED
        BY <3>1, <3>2, <4>1 DEF QueueInv, MemberInv, Agrees, Last, Silent, First, Ev, Matching
    <3> QED
      BY <3>1, <3>3, <3>4 DEF WatchInv, Members
  <2> QED
    BY <2>1, <2>2
<1>8. CASE plain
  <2>1. Head(up).type = "Error" \/ Head(up).key \in Key
    BY <1>0, <1>8, EventTypes DEF plain
  <2>2. DOMAIN view' \subseteq Key
    BY <1>8, <2>1 DEF plain, Seen, Put, Drop, WatchInv
  <2> QED
    BY <1>8, <2>2 DEF plain, WatchInv, Members
<1>9. CASE Stop
  BY <1>9 DEF Stop, WatchInv, apiVars
<1>10. CASE UpstreamFails
  <2>1. CASE closed'
    BY <1>10, <2>1 DEF UpstreamFails, Open, WatchInv
  <2>2. CASE ~closed'
    <3>1. ~closed /\ w.pc # "new" /\ up' = Append(up, ErrorEvent) /\ UNCHANGED <<store, w, view, left, closed>>
      BY <1>10, <2>2 DEF UpstreamFails, Open, ErrorEvent
    <3>2. ErrorEvent.type = "Error" /\ Len(up) + 1 \in Nat
      BY <1>0 DEF ErrorEvent, Event
    <3>3. Told' = Told /\ Matching' = Matching
      BY <3>1 DEF Told, Seen, Matching
    <3>4. ASSUME NEW k \in Key
          PROVE  /\ Silent(k)' <=> Silent(k)
                 /\ \A i \in DOMAIN up : First(i, k) => i \in DOMAIN up' /\ First(i, k)' /\ up'[i] = up[i]
                 /\ \A i \in DOMAIN up' : Last(i, k)' => i \in DOMAIN up /\ Last(i, k) /\ up'[i] = up[i]
      <4> DEFINE e == ErrorEvent
      <4>1. ~(e.key = k /\ e.type # "Error") /\ up' = Append(up, e)
        BY <3>1, <3>2
      <4> HIDE DEF e
      <4> QED
        BY <1>0, <4>1, Missing
    <3>5. ASSUME NEW k \in Key, QueueInv(k) PROVE QueueInv(k)'
      BY <3>1, <3>4, <3>5 DEF QueueInv, Agrees
    <3>6. ASSUME NEW k \in Key, SeedInv(k) PROVE SeedInv(k)'
      BY <3>1, <3>3, <3>4, <3>6 DEF SeedInv
    <3>7. ASSUME NEW k \in Key, MemberInv(k) PROVE MemberInv(k)'
      BY <3>1, <3>3, <3>4, <3>7 DEF MemberInv
    <3> QED
      BY <3>1, <3>5, <3>6, <3>7 DEF WatchInv
  <2> QED
    BY <2>1, <2>2
<1>11. CASE Api(Open) /\ UNCHANGED watchVars
  <2>1. CASE UNCHANGED <<store, rv, up>>
    BY <1>11, <2>1 DEF watchVars, WatchInv, QueueInv, SeedInv, MemberInv, Agrees, Last, Silent,
       First, Ev, Matching, Told, Seen
  <2>2. CASE \E k \in Key : Writes(k, Open)
    BY <1>11, <2>2, ApiKeepsWatch
  <2> QED
    BY <1>11, <2>1, <2>2, ApiWrites DEF TypeOK
<1>12. CASE UNCHANGED vars
  BY <1>12 DEF vars, apiVars, WatchInv, QueueInv, SeedInv, MemberInv, Agrees, Last, Silent, First,
     Ev, Matching, Told, Seen
<1> QED
  BY <1>1, <1>2, <1>3, <1>5, <1>6, <1>7, <1>8, <1>9, <1>10, <1>11, <1>12 DEF Next, Watch

(* A watch with nothing left to deliver has told its consumer everything,  *)
(* for any selector, whatever was written while it opened, was seeded and  *)
(* ran (watchFunc, currentMembers, filter).                                *)
THEOREM WatchesConverge == Spec => []WatchConverges
<1>1. Init => WatchInv
  <2> SUFFICES ASSUME Init PROVE WatchInv
    OBVIOUS
  <2>1. up = <<>> /\ w.pc = "new" /\ view = <<>>
    BY DEF Init, ApiInit
  <2> QED
    BY <2>1 DEF WatchInv, Members
<1>2. TypeOK /\ TypeOK' /\ WatchInv /\ [Next]_vars => WatchInv'
  BY WatchInvInductive
<1>3. TypeOK /\ WatchInv => WatchConverges
  <2> SUFFICES ASSUME TypeOK, WatchInv, w.pc \in {"check", "select"}, up = <<>>, ~closed
               PROVE  /\ w.in = [k \in Matching |-> store[k]]
                      /\ \A k \in Matching : k \in DOMAIN view /\ view[k] = store[k]
                      /\ DOMAIN view \ Matching \subseteq left
    BY DEF WatchConverges
  <2>1. \A k \in Key : Silent(k) /\ MemberInv(k)
    BY DEF Silent, WatchInv, Members
  <2>2. Told = view
    BY DEF Told
  <2>3. /\ w.in = [k \in DOMAIN w.in |-> w.in[k]] /\ DOMAIN w.in \subseteq Key /\ Matching \subseteq Key
        /\ DOMAIN view \subseteq Key
    BY TableDef DEF TypeOK, WatchState, WatchInv, Matching
  <2>4. DOMAIN w.in = Matching /\ \A k \in Matching : w.in[k] = store[k]
    BY <2>1, <2>3 DEF MemberInv
  <2>5. \A k \in Matching : k \in DOMAIN view /\ view[k] = store[k]
    BY <2>1, <2>2, <2>3 DEF MemberInv
  <2>6. DOMAIN view \ Matching \subseteq left
    BY <2>1, <2>2, <2>3, <2>4 DEF MemberInv, Silent, First
  <2> QED
    BY <2>3, <2>4, <2>5, <2>6
<1> QED
  BY <1>1, <1>2, <1>3, TypeCorrect, PTL DEF Spec
==============================================================================
