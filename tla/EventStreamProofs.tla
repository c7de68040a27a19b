-------------------------- MODULE EventStreamProofs --------------------------
(* What TLAPS proves of EventStream, for every set of kinds, objects and     *)
(* documents, every reorder window and every value of the bounds.            *)
EXTENDS EventStream, FiniteSetTheorems, SequenceTheorems, TLAPS

(* A set of positions closed downwards is an initial segment. *)
LEMMA InitialSegment ==
  ASSUME NEW n \in Nat, NEW S \in SUBSET (1 .. n), \A i \in S : 1 .. i \subseteq S
  PROVE  Cardinality(S) \in 0 .. n /\ S = 1 .. Cardinality(S)
<1>1. IsFiniteSet(1 .. n) /\ Cardinality(1 .. n) = n
  BY FS_Interval
<1>2. IsFiniteSet(S) /\ Cardinality(S) <= n
  BY <1>1, FS_Subset
<1>3. PICK m \in Nat : m = Cardinality(S)
  BY <1>2, FS_CardinalityType
<1>4. ASSUME NEW i \in S PROVE i <= m
  <2>1. Cardinality(1 .. i) = i
    BY FS_Interval
  <2>2. Cardinality(1 .. i) <= m
    BY <1>2, <1>3, FS_Subset
  <2> QED
    BY <2>1, <2>2
<1>5. S \in SUBSET (1 .. m)
  BY <1>4
<1>6. IsFiniteSet(1 .. m) /\ Cardinality(1 .. m) = m
  BY FS_Interval
<1>7. S = 1 .. m
  BY <1>3, <1>5, <1>6, FS_Subset
<1> QED
  BY <1>2, <1>3, <1>7

(* A non-empty set of positions has a largest element. *)
LEMMA LargestExists ==
  ASSUME NEW n \in Nat, NEW S \in SUBSET (1 .. n), S # {}
  PROVE  \E m \in S : \A s \in S : s <= m
<1> DEFINE D == {d \in 1 .. n : \E s \in S : d <= s}
<1>1. D \in SUBSET (1 .. n) /\ \A i \in D : 1 .. i \subseteq D
  OBVIOUS
<1>2. S \subseteq D /\ \A d \in D : \E s \in S : d <= s
  OBVIOUS
<1> HIDE DEF D
<1>3. Cardinality(D) \in 0 .. n /\ D = 1 .. Cardinality(D)
  BY <1>1, InitialSegment
<1>4. PICK m \in Nat : D = 1 .. m
  BY <1>3
<1>5. PICK d \in S : d \in 1 .. m
  BY <1>2, <1>4
<1>6. m \in D
  BY <1>4, <1>5
<1>7. PICK s \in S : m <= s
  BY <1>2, <1>6
<1>8. s \in 1 .. m
  BY <1>2, <1>4
<1>9. s = m
  BY <1>7, <1>8
<1> QED
  BY <1>2, <1>4, <1>9

(* What inserting at a position does. *)
LEMMA InsertAtIs ==
  ASSUME NEW T, NEW s \in Seq(T), NEW e \in T, NEW i \in 1 .. Len(s) + 1,
         NEW z, z = InsertAt(s, i, e)
  PROVE  /\ z \in Seq(T) /\ Len(z) = Len(s) + 1
         /\ \A j \in 1 .. i - 1 : z[j] = s[j]
         /\ z[i] = e
         /\ \A j \in i + 1 .. Len(s) + 1 : z[j] = s[j - 1]
<1>0. PICK m \in 0 .. Len(s) : m + 1 = i /\ i - 1 = m
  <2>1. Len(s) \in Nat
    OBVIOUS
  <2>2. i - 1 \in 0 .. Len(s) /\ (i - 1) + 1 = i
    BY <2>1
  <2> QED
    BY <2>2
<1> DEFINE a == SubSeq(s, 1, m)
           b == SubSeq(s, m + 1, Len(s))
           q == (a \o <<e>>) \o b
<1>1. z = q
  BY <1>0 DEF InsertAt
<1>2. a \in Seq(T) /\ Len(a) = m /\ \A j \in 1 .. m : a[j] = s[j]
  OBVIOUS
<1>3. b \in Seq(T) /\ Len(b) = Len(s) - m /\ \A j \in 1 .. Len(s) - m : b[j] = s[m + j]
  OBVIOUS
<1> HIDE DEF a, b
<1>4. /\ a \o <<e>> \in Seq(T) /\ Len(a \o <<e>>) = m + 1
      /\ \A j \in 1 .. m : (a \o <<e>>)[j] = a[j]
      /\ (a \o <<e>>)[m + 1] = e
  BY <1>2
<1> DEFINE c == a \o <<e>>
<1> HIDE DEF c
<1>5. /\ c \in Seq(T) /\ Len(c) = m + 1 /\ c[m + 1] = e /\ \A j \in 1 .. m : c[j] = s[j]
  BY <1>2, <1>4 DEF c
<1>6. c \o b \in Seq(T) /\ Len(c \o b) = Len(s) + 1
  <2>1. c \o b \in Seq(T) /\ Len(c \o b) = Len(c) + Len(b)
    BY <1>3, <1>5, ConcatProperties
  <2>2. Len(c) + Len(b) = Len(s) + 1
    BY <1>3, <1>5
  <2> QED
    BY <2>1, <2>2
<1>7. \A j \in 1 .. Len(s) + 1 : (c \o b)[j] = IF j <= m + 1 THEN c[j] ELSE b[j - (m + 1)]
  <2>1. \A j \in 1 .. Len(c) + Len(b) : (c \o b)[j] = IF j <= Len(c) THEN c[j] ELSE b[j - Len(c)]
    BY <1>3, <1>5, ConcatProperties
  <2>2. Len(c) + Len(b) = Len(s) + 1
    BY <1>3, <1>5
  <2> QED
    BY <1>5, <2>1, <2>2
<1>8. q = c \o b
  BY DEF c
<1> HIDE DEF q
<1>9. \A j \in m + 2 .. Len(s) + 1 : q[j] = s[j - 1]
  <2> SUFFICES ASSUME NEW j \in m + 2 .. Len(s) + 1 PROVE q[j] = s[j - 1]
    OBVIOUS
  <2>1. q[j] = b[j - (m + 1)]
    <3>1. j \in 1 .. Len(s) + 1 /\ ~(j <= m + 1)
      OBVIOUS
    <3> QED
      BY <1>7, <1>8, <3>1
  <2>2. j - (m + 1) \in 1 .. Len(s) - m
    OBVIOUS
  <2>3. b[j - (m + 1)] = s[m + (j - (m + 1))]
    BY <1>3, <2>2
  <2>4. m + (j - (m + 1)) = j - 1
    OBVIOUS
  <2> QED
    BY <2>1, <2>3, <2>4
<1>10. (\A j \in 1 .. m : q[j] = s[j]) /\ q[m + 1] = e
  BY <1>5, <1>7, <1>8
<1>11. i + 1 = m + 2
  BY <1>0
<1> QED
  BY <1>0, <1>1, <1>6, <1>8, <1>9, <1>10, <1>11
------------------------------------------------------------------------------
(* Where versions are.  A version is on its kind's channel, in its pump's    *)
(* hand, on raw, held by the merge or published.                             *)

KindAt(r) == KindOf[log[r].obj]

ChanHas(k, r) == /\ pump[k] \in {"recv", "send"}
                 /\ \E i \in DOMAIN chan[k] : chan[k][i].typ = "change" /\ chan[k][i].rv = r
HandHas(k, r) == pump[k] = "send" /\ hand[k].rv = r

Chans == {r \in DOMAIN log : ChanHas(KindAt(r), r)}
Hands == {r \in DOMAIN log : HandHas(KindAt(r), r)}
Raws  == VersionsIn(raw)
Helds == VersionsIn(held)
Pubs  == VersionsIn(pub)

(* A source and its pump. *)
SourceAt(k) ==
  /\ opened[k] <= Len(log)
  /\ opened[k] = -1 <=> pump[k] = "off"
  /\ pump[k] = "off" => chan[k] = <<>>
  /\ IF pump[k] = "send" THEN hand[k].rv \in DOMAIN log /\ KindAt(hand[k].rv) = k
                         ELSE hand[k] = Nothing
  /\ \A i \in DOMAIN chan[k] : chan[k][i].typ = "change" =>
       chan[k][i].rv \in DOMAIN log /\ KindAt(chan[k][i].rv) = k

PlaceInv ==
  /\ \A k \in Kind : SourceAt(k)
  /\ Raws \cup Helds \cup Pubs \cup Range(out) \cup owed \subseteq DOMAIN log

(* Typing of the values the actions build. *)
LEMMA StampedType ==
  ASSUME NEW e \in Stamped \cup {Nothing}
  PROVE  /\ e.rv \in Nat /\ e.age \in Nat /\ (e.rv # 0 => e \in Stamped) /\ (e.rv = 0 => e = Nothing)
         /\ Aged(e) \in Stamped \cup {Nothing} /\ Aged(e).rv = e.rv
         /\ e \in Stamped => /\ Aged(e) \in Stamped /\ e.rv \in Version /\ e.age \in 0 .. reorderWindow
                             /\ Aged(e).age = IF e.age < reorderWindow THEN e.age + 1 ELSE e.age
<1>0. reorderWindow \in Nat /\ MaxEvents \in Nat
  BY EventStreamAssumption
<1>1. CASE e \in Stamped
  <2>1. e.rv \in 1 .. MaxEvents /\ e.age \in 0 .. reorderWindow
    BY <1>1 DEF Stamped, Version
  <2>2. e.age < reorderWindow => /\ [e EXCEPT !.age = @ + 1] \in Stamped
                                 /\ [e EXCEPT !.age = @ + 1].rv = e.rv
                                 /\ [e EXCEPT !.age = @ + 1].age = e.age + 1
    BY <1>0, <1>1, <2>1 DEF Stamped
  <2> QED
    BY <1>0, <1>1, <2>1, <2>2 DEF Aged, Version
<1>2. CASE e = Nothing
  <2>1. e.rv = 0 /\ e.age = 0
    BY <1>2 DEF Nothing
  <2>2. Aged(e) = e
    BY <2>1 DEF Aged
  <2>3. e \notin Stamped
    BY <1>0, <2>1 DEF Stamped, Version
  <2> QED
    BY <1>2, <2>1, <2>2, <2>3
<1> QED
  BY <1>1, <1>2

(* The log, and what it is typed by. *)
LEMMA LogType ==
  ASSUME TypeOK
  PROVE  /\ Len(log) \in Nat /\ DOMAIN log = 1 .. Len(log) /\ DOMAIN log \subseteq Version
         /\ \A r \in DOMAIN log : /\ log[r].obj \in Obj /\ log[r].doc \in Doc \cup {Absent}
                                  /\ KindAt(r) \in Kind
<1>1. log \in Seq([obj : Obj, doc : Doc \cup {Absent}]) /\ Len(log) <= MaxEvents /\ MaxEvents \in Nat
  BY EventStreamAssumption DEF TypeOK
<1>2. KindOf \in [Obj -> Kind]
  BY EventStreamAssumption
<1>3. Len(log) \in Nat /\ DOMAIN log = 1 .. Len(log) /\ DOMAIN log \subseteq 1 .. MaxEvents
  BY <1>1
<1>4. ASSUME NEW r \in DOMAIN log
      PROVE  log[r].obj \in Obj /\ log[r].doc \in Doc \cup {Absent} /\ KindAt(r) \in Kind
  <2>1. log[r] \in [obj : Obj, doc : Doc \cup {Absent}]
    BY <1>1, <1>3, ElementOfSeq
  <2> QED
    BY <1>2, <2>1 DEF KindAt
<1> QED
  BY <1>3, <1>4 DEF Version

(* insertByResourceVersion puts the arrival somewhere in the buffer. *)
LEMMA InsertType ==
  ASSUME TypeOK, NEW ev \in Stamped
  PROVE  insertByResourceVersion(ev) \in Seq(Stamped)
<1> DEFINE S == {j \in DOMAIN held : held[j].rv < ev.rv}
<1>1. held \in Seq(Stamped) /\ Len(held) \in Nat /\ DOMAIN held = 1 .. Len(held)
  BY DEF TypeOK
<1>2. S \in SUBSET (1 .. Len(held)) /\ IsFiniteSet(1 .. Len(held)) /\ Cardinality(1 .. Len(held)) = Len(held)
  BY <1>1, FS_Interval
<1>3. IsFiniteSet(S) /\ Cardinality(S) <= Len(held)
  BY <1>2, FS_Subset
<1>4. Cardinality(S) + 1 \in 1 .. Len(held) + 1
  BY <1>1, <1>3, FS_CardinalityType
<1> HIDE DEF S
<1>5. InsertAt(held, Cardinality(S) + 1, ev) \in Seq(Stamped)
  BY <1>1, <1>4, InsertAtIs
<1> QED
  BY <1>5 DEF insertByResourceVersion, S

Same(r, s) == log[r].obj = log[s].obj

(* Latest is the document of the largest version. *)
LEMMA LatestIs ==
  ASSUME TypeOK, NEW o, NEW rs \in SUBSET (DOMAIN log), rs # {}
  PROVE  LET m == CHOOSE r \in rs : \A s \in rs : s <= r
         IN  m \in rs /\ (\A s \in rs : s <= m) /\ Latest(o, rs) = log[m].doc
<1>1. \E m \in rs : \A s \in rs : s <= m
  BY LogType, LargestExists
<1> QED
  BY <1>1 DEF Latest

(* The version an opening watch replays for each live object. *)
Replayed(k, r) ==
  /\ r \in DOMAIN log /\ KindAt(r) = k /\ log[r].doc # Absent
  /\ \A s \in DOMAIN log : Same(r, s) => s <= r

LEMMA ReplayIs ==
  ASSUME TypeOK, NEW k \in Kind, addSource(k)
  PROVE  \E n \in Nat : \E f \in [1 .. n -> DOMAIN log] :
           /\ chan' = [chan EXCEPT ![k] = [i \in 1 .. n |-> [typ |-> "change", rv |-> f[i]]]]
           /\ \A i \in 1 .. n : Replayed(k, f[i])
           /\ \A i, j \in 1 .. n : Same(f[i], f[j]) => i = j
           /\ \A r : Replayed(k, r) => \E i \in 1 .. n : f[i] = r
<1> DEFINE live == {o \in Obj : KindOf[o] = k /\ Live(o) # Absent}
           rvOf(o) == CHOOSE r \in Versions(o) : \A s \in Versions(o) : s <= r
<1>1. PICK order \in SetToSeqs(live) :
        chan' = [chan EXCEPT ![k] = [i \in DOMAIN order |-> [typ |-> "change", rv |-> rvOf(order[i])]]]
  BY DEF addSource
<1>2. ASSUME NEW o \in live PROVE /\ rvOf(o) \in Versions(o) /\ \A s \in Versions(o) : s <= rvOf(o)
                                  /\ log[rvOf(o)].doc # Absent
  <2>1. Versions(o) \in SUBSET (DOMAIN log)
    BY DEF Versions
  <2>2. Versions(o) # {} /\ Live(o) # Absent
    BY <1>2 DEF Live, Latest
  <2>3. Live(o) = log[rvOf(o)].doc /\ rvOf(o) \in Versions(o) /\ \A s \in Versions(o) : s <= rvOf(o)
    BY <2>1, <2>2, LatestIs DEF Live
  <2> QED
    BY <2>2, <2>3
<1> HIDE DEF rvOf
<1>3. \A o \in live : rvOf(o) \in DOMAIN log /\ log[rvOf(o)].obj = o /\ Replayed(k, rvOf(o))
  BY <1>2 DEF Versions, Replayed, Same, KindAt
<1>4. \A r : Replayed(k, r) => log[r].obj \in live /\ rvOf(log[r].obj) = r
  <2> SUFFICES ASSUME NEW r, Replayed(k, r) PROVE log[r].obj \in live /\ rvOf(log[r].obj) = r
    OBVIOUS
  <2> DEFINE o == log[r].obj
  <2>1. r \in Versions(o) /\ \A s \in Versions(o) : s <= r
    BY DEF Replayed, Versions, Same
  <2>2. \A m \in Versions(o) : (\A s \in Versions(o) : s <= m) => m = r
    BY <2>1, LogType DEF Versions
  <2>3. rvOf(o) = r
    BY <2>1, <2>2 DEF rvOf
  <2>4. Live(o) = log[r].doc
    <3>1. Versions(o) \in SUBSET (DOMAIN log) /\ Versions(o) # {}
      BY <2>1 DEF Versions
    <3>2. Latest(o, Versions(o)) = log[rvOf(o)].doc
      BY <3>1, LatestIs DEF rvOf
    <3> QED
      BY <2>3, <3>2 DEF Live
  <2>5. o \in Obj /\ KindOf[o] = k /\ log[r].doc # Absent
    BY LogType DEF Replayed, KindAt
  <2> QED
    BY <2>3, <2>4, <2>5
<1>5. IsFiniteSet(live)
  <2> DEFINE g == [o \in live |-> rvOf(o)]
  <2>1. g \in Injection(live, DOMAIN log)
    BY <1>3 DEF Injection, IsInjective
  <2>2. IsFiniteSet(DOMAIN log)
    BY LogType, FS_Interval
  <2> QED
    BY <2>1, <2>2, FS_Injection
<1> DEFINE n == Cardinality(live)
<1>6. n \in Nat /\ order \in [1 .. n -> live] /\ \A i, j \in 1 .. n : i # j => order[i] # order[j]
  BY <1>5, FS_CardinalityType DEF SetToSeqs
<1>7. order \in Surjection(1 .. n, live)
  <2>1. order \in Injection(1 .. n, live)
    BY <1>6 DEF Injection, IsInjective
  <2>2. Cardinality(1 .. n) = n
    BY <1>6, FS_Interval
  <2> QED
    BY <1>5, <2>1, <2>2, FS_Injection
<1>8. \A o \in live : \E i \in 1 .. n : order[i] = o
  BY <1>7 DEF Surjection
<1> HIDE DEF live, n
<1> DEFINE f == [i \in 1 .. n |-> rvOf(order[i])]
<1>9. f \in [1 .. n -> DOMAIN log] /\ \A i \in 1 .. n : f[i] = rvOf(order[i]) /\ order[i] \in live
  BY <1>3, <1>6
<1>10. DOMAIN order = 1 .. n
  BY <1>6
<1>11. chan' = [chan EXCEPT ![k] = [i \in 1 .. n |-> [typ |-> "change", rv |-> f[i]]]]
  BY <1>1, <1>10
<1> HIDE DEF f
<1>12. \A i \in 1 .. n : Replayed(k, f[i])
  BY <1>3, <1>9
<1>13. \A i, j \in 1 .. n : Same(f[i], f[j]) => i = j
  BY <1>3, <1>6, <1>9 DEF Same
<1>14. \A r : Replayed(k, r) => \E i \in 1 .. n : f[i] = r
  BY <1>4, <1>8, <1>9
<1> QED
  BY <1>6, <1>9, <1>11, <1>12, <1>13, <1>14

(* Appending to and dropping from the queues keeps their types. *)
LEMMA ChanType ==
  ASSUME TypeOK
  PROVE  /\ \A k \in Kind : chan[k] \in Seq(Change \cup Fault)
         /\ \A n \in Version : [typ |-> "change", rv |-> n] \in Change \cup Fault
         /\ \A f \in Faults \cup {"closed"} : [typ |-> f, rv |-> 0] \in Change \cup Fault
         /\ \A k \in Kind, ev \in Change \cup Fault : [chan EXCEPT ![k] = Append(@, ev)] \in [Kind -> Seq(Change \cup Fault)]
         /\ \A k \in Kind : chan[k] # <<>> => /\ [chan EXCEPT ![k] = Tail(@)] \in [Kind -> Seq(Change \cup Fault)]
                                              /\ Head(chan[k]) \in Change \cup Fault
<1> DEFINE E == Change \cup Fault
<1>1. chan \in [Kind -> Seq(E)]
  BY DEF TypeOK
<1>2. /\ \A n \in Version : [typ |-> "change", rv |-> n] \in E
      /\ \A f \in Faults \cup {"closed"} : [typ |-> f, rv |-> 0] \in E
  BY DEF Change, Fault
<1> HIDE DEF E
<1>3. \A k \in Kind, ev \in E : [chan EXCEPT ![k] = Append(@, ev)] \in [Kind -> Seq(E)]
  BY <1>1
<1>4. \A k \in Kind : chan[k] # <<>> => [chan EXCEPT ![k] = Tail(@)] \in [Kind -> Seq(E)] /\ Head(chan[k]) \in E
  BY <1>1
<1>5. \A k \in Kind : chan[k] \in Seq(E)
  BY <1>1
<1> QED
  BY <1>2, <1>3, <1>4, <1>5 DEF E

(* The events on a channel: changes carry a version, faults none. *)
LEMMA EventType ==
  ASSUME NEW ev \in Change \cup Fault
  PROVE  /\ ev.typ = "change" => ev.rv \in Version
         /\ ev.typ # "change" => ev.typ \in Faults \cup {"closed"}
         /\ ev.typ \in {"change", "closed", "error", "bookmark"}
  BY EventStreamAssumption DEF Change, Fault

LEMMA TypeInductive ==
  ASSUME TypeOK, PlaceInv, [Next]_vars
  PROVE  TypeOK'
<1> USE DEF watches, merging, reader
<1>1. ASSUME NEW o \in Obj, NEW d \in Doc \cup {Absent}, Write(o, d) PROVE TypeOK'
  <2>1. KindOf[o] \in Kind /\ MaxEvents \in Nat
    BY EventStreamAssumption
  <2>2. log' \in Seq([obj : Obj, doc : Doc \cup {Absent}]) /\ Len(log') <= MaxEvents
    <3> DEFINE E == [obj : Obj, doc : Doc \cup {Absent}]
    <3>1. [obj |-> o, doc |-> d] \in E /\ log \in Seq(E)
      BY DEF TypeOK
    <3>2. log' = Append(log, [obj |-> o, doc |-> d]) /\ Len(log) < MaxEvents
      BY <1>1 DEF Write
    <3> HIDE DEF E
    <3>3. log' \in Seq(E) /\ Len(log') = Len(log) + 1 /\ Len(log) \in Nat
      BY <3>1, <3>2
    <3>4. Len(log') <= MaxEvents
      BY <2>1, <3>2, <3>3
    <3> QED
      BY <3>3, <3>4 DEF E
  <2>3. chan' \in [Kind -> Seq(Change \cup Fault)]
    <3>1. Len(log) + 1 \in Version
      BY <1>1, <2>1, LogType DEF Write, Version
    <3>2. chan \in [Kind -> Seq(Change \cup Fault)]
      BY DEF TypeOK
    <3> QED
      BY <1>1, <2>1, <3>1, <3>2, ChanType DEF Write, Deliver
  <2> QED
    BY <1>1, <2>2, <2>3 DEF Write, TypeOK
<1>2. ASSUME NEW k \in Kind, NEW f \in Faults, Disturb(k, f) PROVE TypeOK'
  <2>1. chan' \in [Kind -> Seq(Change \cup Fault)]
    <3>1. chan \in [Kind -> Seq(Change \cup Fault)]
      BY DEF TypeOK
    <3> QED
      BY <1>2, <3>1, ChanType DEF Disturb, Deliver
  <2> QED
    BY <1>2, <2>1 DEF Disturb, TypeOK
<1>3. ASSUME NEW k \in Kind, addSource(k) PROVE TypeOK'
  <2>0. PICK n \in Nat : \E f \in [1 .. n -> DOMAIN log] :
          chan' = [chan EXCEPT ![k] = [i \in 1 .. n |-> [typ |-> "change", rv |-> f[i]]]]
    BY <1>3, ReplayIs
  <2>1. PICK f \in [1 .. n -> DOMAIN log] :
          chan' = [chan EXCEPT ![k] = [i \in 1 .. n |-> [typ |-> "change", rv |-> f[i]]]]
    BY <2>0
  <2>2. \A i \in 1 .. n : [typ |-> "change", rv |-> f[i]] \in Change \cup Fault
    BY LogType, ChanType
  <2> DEFINE E == Change \cup Fault
             q == [i \in 1 .. n |-> [typ |-> "change", rv |-> f[i]]]
  <2>3. q \in Seq(E)
    <3>1. q \in [1 .. n -> E]
      BY <2>2
    <3> HIDE DEF q, E
    <3> QED
      BY <3>1
  <2>4. chan \in [Kind -> Seq(E)]
    BY DEF TypeOK
  <2>5. chan' = [chan EXCEPT ![k] = q]
    BY <2>1
  <2> HIDE DEF q
  <2>6. chan' \in [Kind -> Seq(E)]
    BY <2>3, <2>4, <2>5
  <2>7. opened' \in [Kind -> -1 .. MaxEvents]
    <3>1. Len(log) \in -1 .. MaxEvents
      BY LogType, EventStreamAssumption DEF TypeOK
    <3> QED
      BY <1>3, <3>1 DEF addSource, TypeOK
  <2>8. pump' \in [Kind -> {"off", "recv", "send", "done"}]
    BY <1>3 DEF addSource, TypeOK
  <2> QED
    BY <1>3, <2>6, <2>7, <2>8 DEF addSource, TypeOK
<1>4. CASE watch
  BY <1>4 DEF watch, TypeOK
<1>5. CASE shutdown
  BY <1>5 DEF shutdown, TypeOK
<1>6. CASE Join
  BY <1>6 DEF Join, TypeOK
<1>7. ASSUME NEW k \in Kind, StopWatcher(k) PROVE TypeOK'
  <2>1. chan' \in [Kind -> Seq(Change \cup Fault)]
    BY <1>7, ChanType DEF StopWatcher
  <2> QED
    BY <1>7, <2>1 DEF StopWatcher, TypeOK
<1>8. ASSUME NEW k \in Kind, PumpStops(k) PROVE TypeOK'
  BY <1>8 DEF PumpStops, Goto, TypeOK
<1>9. ASSUME NEW k \in Kind, forward(k) PROVE TypeOK'
  <2>1. /\ pump[k] = "recv" /\ chan[k] # <<>> /\ chan' = [chan EXCEPT ![k] = Tail(@)]
        /\ UNCHANGED <<log, opened, raw, merging, due, out, stop, joined, reader>>
    BY <1>9 DEF forward
  <2>2. chan' \in [Kind -> Seq(Change \cup Fault)] /\ Head(chan[k]) \in Change \cup Fault
    BY <2>1, ChanType
  <2>3. /\ pump' \in [Kind -> {"off", "recv", "send", "done"}]
        /\ hand' \in [Kind -> Stamped \cup {Nothing}]
        /\ err' \in BOOLEAN /\ owed' \in SUBSET Version
    <3> DEFINE ev == Head(chan[k])
    <3>1. CASE ev.typ = "change" /\ Accept(k, ev.rv)
      <4>1. ev.rv \in Version
        BY <2>2, <3>1, EventType
      <4>2. [rv |-> ev.rv, age |-> 0] \in Stamped
        BY <4>1, EventStreamAssumption DEF Stamped
      <4> HIDE DEF ev
      <4> QED
        BY <3>1, <4>1, <4>2 DEF Accept, Goto, TypeOK
    <3>2. CASE UNCHANGED <<pump, hand, err, owed>>
      BY <3>2 DEF TypeOK
    <3>3. CASE WatchClosed(k) \/ WatchErrors(k)
      BY <3>3 DEF WatchClosed, WatchErrors, Goto, TypeOK
    <3> QED
      BY <1>9, <3>1, <3>2, <3>3 DEF forward
  <2> QED
    BY <2>1, <2>2, <2>3 DEF TypeOK
<1>10. ASSUME NEW k \in Kind, Send(k) PROVE TypeOK'
  <2>1. hand[k] \in Stamped
    <3>1. hand[k].rv \in DOMAIN log /\ hand[k] \in Stamped \cup {Nothing}
      BY <1>10 DEF Send, PlaceInv, SourceAt, TypeOK
    <3> QED
      BY <3>1, StampedType, LogType DEF Version
  <2>2. raw' \in Seq(Stamped) /\ Len(raw') <= RawCap
    <3>1. raw \in Seq(Stamped) /\ RawCap \in Nat
      BY EventStreamAssumption DEF TypeOK
    <3> QED
      BY <1>10, <2>1, <3>1 DEF Send
  <2> QED
    BY <1>10, <2>2 DEF Send, Goto, TypeOK
<1>11. CASE MergeStops
  <2>1. Len(out) <= OutCap + 1
    BY EventStreamAssumption DEF TypeOK
  <2> QED
    BY <1>11, <2>1 DEF MergeStops, TypeOK
<1>12. CASE Receive
  <2>1. raw \in Seq(Stamped) /\ raw # <<>> /\ Len(raw) <= RawCap /\ RawCap \in Nat
    BY <1>12, EventStreamAssumption DEF Receive, TypeOK
  <2>2. Head(raw) \in Stamped /\ Tail(raw) \in Seq(Stamped) /\ Len(Tail(raw)) <= RawCap
    BY <2>1
  <2>3. held' \in Seq(Stamped)
    BY <1>12, <2>2, InsertType DEF Receive
  <2> QED
    BY <1>12, <2>2, <2>3 DEF Receive, TypeOK
<1>13. CASE Poll
  BY <1>13 DEF Poll, TypeOK
<1>14. CASE Drained
  <2>1. known' \in SUBSET Version
    <3>1. known' = Raws \cup Helds \cup Pubs
      BY <1>14 DEF Drained, Raws, Helds, Pubs
    <3> QED
      BY <3>1, LogType DEF PlaceInv
  <2> QED
    BY <1>14, <2>1 DEF Drained, drainQueued, TypeOK
<1>15. CASE NoneRipe
  BY <1>15 DEF NoneRipe, TypeOK
<1>16. CASE emitRipe
  <2> DEFINE rv == Head(held).rv
             o == log[rv].obj
             p == [rv |-> rv, from |-> prev[o], overtaken |-> {r \in known \ VersionsIn(pub) : r < rv}]
  <2>1. held \in Seq(Stamped) /\ held # <<>>
    BY <1>16 DEF emitRipe, HeadRipe, TypeOK
  <2>2. held' \in Seq(Stamped)
    BY <1>16, <2>1 DEF emitRipe
  <2>3. rv \in DOMAIN log
    <3>1. 1 \in DOMAIN held /\ Head(held) = held[1]
      BY <2>1
    <3> QED
      BY <3>1 DEF PlaceInv, Helds, VersionsIn
  <2>4. rv \in Version /\ o \in Obj /\ log[rv].doc \in Doc \cup {Absent}
    BY <2>3, LogType
  <2>5. prev' \in [Obj -> Doc \cup {Absent}]
    BY <1>16, <2>4 DEF emitRipe, project, TypeOK
  <2>6. pub' \in Seq([rv : Version, from : Doc \cup {Absent}, overtaken : SUBSET Version])
    <3> DEFINE P == [rv : Version, from : Doc \cup {Absent}, overtaken : SUBSET Version]
    <3>1. p \in P /\ pub \in Seq(P)
      BY <2>4 DEF TypeOK
    <3>2. pub' = Append(pub, p)
      BY <1>16 DEF emitRipe
    <3> HIDE DEF P, p
    <3>3. pub' \in Seq(P)
      BY <3>1, <3>2
    <3> QED
      BY <3>3 DEF P
  <2>7. /\ out' \in Seq(Version) /\ Len(out') <= OutCap + (IF mpc' \in {"emit", "done"} THEN 1 ELSE 0)
        /\ mpc' \in {"drain", "emit"}
    <3>1. out \in Seq(Version) /\ Len(out) <= OutCap /\ OutCap \in Nat
      BY <1>16, EventStreamAssumption DEF emitRipe, TypeOK
    <3>2. \/ mpc' = "drain" /\ out' = out
          \/ mpc' = "emit" /\ out' = Append(out, rv)
      BY <1>16 DEF emitRipe
    <3> HIDE DEF rv
    <3> QED
      BY <2>4, <3>1, <3>2
  <2> QED
    BY <1>16, <2>2, <2>5, <2>6, <2>7 DEF emitRipe, TypeOK
<1>17. CASE emit
  BY <1>17, EventStreamAssumption DEF emit, TypeOK
<1>18. ASSUME NEW c \in Reads, Call(c) PROVE TypeOK'
  <2>1. owed' \in SUBSET Version
    <3>1. Pending \subseteq Version
      <4>1. \A i \in DOMAIN raw : raw[i].rv \in DOMAIN log
        BY DEF PlaceInv, Raws, VersionsIn
      <4>2. \A i \in DOMAIN held : held[i].rv \in DOMAIN log
        BY DEF PlaceInv, Helds, VersionsIn
      <4>3. \A k \in Kind : hand[k] # Nothing => hand[k].rv \in DOMAIN log
        BY DEF PlaceInv, SourceAt
      <4>4. DOMAIN hand = Kind
        BY DEF TypeOK
      <4>5. Range(out) \subseteq DOMAIN log
        BY DEF PlaceInv
      <4> QED
        BY <4>1, <4>2, <4>3, <4>4, <4>5, LogType DEF Pending, Range
    <3> QED
      BY <1>18, <3>1 DEF Call
  <2>2. left' \in Nat /\ reads' \in 0 .. MaxReads
    <3>1. Timeout \in Nat /\ reorderWindow \in Nat /\ MaxReads \in Nat
      BY EventStreamAssumption
    <3>2. reads \in 0 .. MaxReads /\ reads < MaxReads /\ reads' = reads + 1
      BY <1>18 DEF Call, TypeOK
    <3>3. left' \in {0, Timeout + visibilityLag, visibilityLag}
      BY <1>18 DEF Call
    <3> QED
      BY <3>1, <3>2, <3>3 DEF visibilityLag
  <2>3. /\ rpc' \in {"idle", "next", "sleep", "drain"}
        /\ answer' \in {"none", "event", "quiet", "drained", "terminal"}
    BY <1>18 DEF Call
  <2>4. lost' \in BOOLEAN
    BY <1>18 DEF Call
  <2>5. UNCHANGED <<watches, pump, hand, raw, merging, due, out, err, stop, joined>>
    BY <1>18 DEF Call
  <2> QED
    BY <2>1, <2>2, <2>3, <2>4, <2>5 DEF TypeOK
<1>19. CASE ReaderStep
  <2>1. out' \in Seq(Version) /\ Len(out') <= Len(out)
    <3>1. out \in Seq(Version)
      BY DEF TypeOK
    <3>2. OnChannel # <<>> => out # <<>>
      BY DEF OnChannel
    <3>3. out' = out \/ (out' = Tail(out) /\ out # <<>>)
      BY <1>19, <3>2 DEF ReaderStep, Next_Event, Next_Ends, Drain_Wakes, Drain_Takes, Drain_Ends
    <3> QED
      BY <3>1, <3>3
  <2>2. Len(out') <= OutCap + (IF mpc' \in {"emit", "done"} THEN 1 ELSE 0)
    <3>1. mpc' = mpc
      BY <1>19 DEF ReaderStep, Next_Event, Next_Ends, Drain_Wakes, Drain_Takes, Drain_Ends
    <3>2. Len(out) \in Nat /\ Len(out') \in Nat /\ OutCap \in Nat
      BY <2>1, EventStreamAssumption DEF TypeOK
    <3> QED
      BY <2>1, <3>1, <3>2 DEF TypeOK
  <2>3. /\ rpc' \in {"idle", "next", "sleep", "drain"}
        /\ answer' \in {"none", "event", "quiet", "drained", "terminal"}
        /\ left' \in Nat
    BY <1>19 DEF ReaderStep, Next_Event, Next_Ends, Drain_Wakes, Drain_Takes, Drain_Ends, Return,
       TypeOK
  <2>4. UNCHANGED <<watches, pump, hand, raw, merging, due, err, stop, joined, reads, lost, owed>>
    BY <1>19 DEF ReaderStep, Next_Event, Next_Ends, Drain_Wakes, Drain_Takes, Drain_Ends, Return
  <2> QED
    BY <2>1, <2>2, <2>3, <2>4 DEF TypeOK
<1>20. CASE Tick
  <2>1. raw' \in Seq(Stamped) /\ Len(raw') <= RawCap /\ held' \in Seq(Stamped)
    <3>1. raw \in Seq(Stamped) /\ held \in Seq(Stamped) /\ Len(raw) <= RawCap
      BY DEF TypeOK
    <3>2. /\ raw' = [i \in 1 .. Len(raw) |-> Aged(raw[i])]
          /\ held' = [i \in 1 .. Len(held) |-> Aged(held[i])]
      BY <1>20, <3>1 DEF Tick
    <3>3. /\ \A i \in 1 .. Len(raw) : Aged(raw[i]) \in Stamped
          /\ \A i \in 1 .. Len(held) : Aged(held[i]) \in Stamped
      BY <3>1, StampedType
    <3> QED
      BY <3>1, <3>2, <3>3
  <2>2. hand' \in [Kind -> Stamped \cup {Nothing}]
    BY <1>20, StampedType DEF Tick, TypeOK
  <2>3. left' \in Nat
    BY <1>20 DEF Tick, TypeOK
  <2>4. due' \in BOOLEAN
    BY <1>20 DEF Tick
  <2> QED
    BY <1>20, <2>1, <2>2, <2>3, <2>4 DEF Tick, TypeOK
<1>21. CASE UNCHANGED vars
  BY <1>21 DEF vars, TypeOK
<1> QED
  BY <1>1, <1>2, <1>3, <1>4, <1>5, <1>6, <1>7, <1>8, <1>9, <1>10, <1>11, <1>12, <1>13, <1>14,
     <1>15, <1>16, <1>17, <1>18, <1>19, <1>20, <1>21
     DEF Next, PumpStep, MergeStep

(* The versions in a queue that an event joins or leaves. *)
LEMMA VersionsMove ==
  ASSUME NEW T, NEW q \in Seq(T)
  PROVE  /\ \A e \in T : VersionsIn(Append(q, e)) = VersionsIn(q) \cup {e.rv}
         /\ q # <<>> => VersionsIn(q) = VersionsIn(Tail(q)) \cup {Head(q).rv}
<1>1. Len(q) \in Nat /\ DOMAIN q = 1 .. Len(q)
  OBVIOUS
<1>2. ASSUME NEW e \in T PROVE VersionsIn(Append(q, e)) = VersionsIn(q) \cup {e.rv}
  <2> DEFINE p == Append(q, e)
  <2>1. DOMAIN p = 1 .. Len(q) + 1 /\ p[Len(q) + 1] = e /\ \A i \in 1 .. Len(q) : p[i] = q[i]
    OBVIOUS
  <2> HIDE DEF p
  <2>2. \A i \in DOMAIN p : i \in DOMAIN q \/ i = Len(q) + 1
    BY <1>1, <2>1
  <2>3. Len(q) + 1 \in DOMAIN p /\ \A i \in DOMAIN q : i \in DOMAIN p /\ p[i] = q[i]
    BY <1>1, <2>1
  <2> QED
    BY <2>1, <2>2, <2>3 DEF VersionsIn, p
<1>3. ASSUME q # <<>> PROVE VersionsIn(q) = VersionsIn(Tail(q)) \cup {Head(q).rv}
  <2> DEFINE p == Tail(q)
  <2>1. /\ DOMAIN p = 1 .. Len(q) - 1 /\ Head(q) = q[1] /\ Len(q) >= 1
        /\ \A i \in 1 .. Len(q) - 1 : p[i] = q[i + 1]
    BY <1>3
  <2> HIDE DEF p
  <2>2. \A i \in DOMAIN q : i = 1 \/ (i - 1 \in DOMAIN p /\ p[i - 1] = q[i])
    <3> SUFFICES ASSUME NEW i \in DOMAIN q, i # 1 PROVE i - 1 \in DOMAIN p /\ p[i - 1] = q[i]
      OBVIOUS
    <3>1. i - 1 \in 1 .. Len(q) - 1 /\ (i - 1) + 1 = i
      BY <1>1
    <3> QED
      BY <2>1, <3>1
  <2>3. 1 \in DOMAIN q /\ \A i \in DOMAIN p : i + 1 \in DOMAIN q /\ p[i] = q[i + 1]
    BY <1>1, <2>1
  <2>4. \A r : (\E i \in DOMAIN q : q[i].rv = r) => (\E i \in DOMAIN p : p[i].rv = r) \/ r = Head(q).rv
    BY <2>1, <2>2
  <2>5. \A r : (\E i \in DOMAIN p : p[i].rv = r) \/ r = Head(q).rv => (\E i \in DOMAIN q : q[i].rv = r)
    BY <2>1, <2>3
  <2>6. VersionsIn(q) = VersionsIn(p) \cup {Head(q).rv}
    BY <2>4, <2>5 DEF VersionsIn
  <2> QED
    BY <2>6 DEF p
<1> QED
  BY <1>2, <1>3

(* Time moves no event. *)
LEMMA VersionsAged ==
  ASSUME NEW q \in Seq(Stamped)
  PROVE  VersionsIn([i \in DOMAIN q |-> Aged(q[i])]) = VersionsIn(q)
<1>1. \A i \in DOMAIN q : Aged(q[i]).rv = q[i].rv
  BY StampedType
<1> QED
  BY <1>1 DEF VersionsIn

(* insertByResourceVersion adds its argument. *)
LEMMA VersionsInserted ==
  ASSUME TypeOK, NEW ev \in Stamped
  PROVE  /\ VersionsIn(insertByResourceVersion(ev)) = Helds \cup {ev.rv}
         /\ Range(insertByResourceVersion(ev)) = Range(held) \cup {ev}
<1> DEFINE S == {j \in DOMAIN held : held[j].rv < ev.rv}
           q == insertByResourceVersion(ev)
<1>1. held \in Seq(Stamped) /\ Len(held) \in Nat /\ DOMAIN held = 1 .. Len(held)
  BY DEF TypeOK
<1>2. S \in SUBSET (1 .. Len(held)) /\ IsFiniteSet(1 .. Len(held)) /\ Cardinality(1 .. Len(held)) = Len(held)
  BY <1>1, FS_Interval
<1>3. IsFiniteSet(S) /\ Cardinality(S) <= Len(held)
  BY <1>2, FS_Subset
<1>4. q = InsertAt(held, Cardinality(S) + 1, ev)
  BY DEF insertByResourceVersion
<1> HIDE DEF S, q
<1>5. PICK m \in 0 .. Len(held) : m = Cardinality(S)
  BY <1>1, <1>3, FS_CardinalityType
<1>6. /\ q \in Seq(Stamped) /\ Len(q) = Len(held) + 1
      /\ \A j \in 1 .. m : q[j] = held[j]
      /\ q[m + 1] = ev
      /\ \A j \in m + 2 .. Len(held) + 1 : q[j] = held[j - 1]
  <2> DEFINE p == InsertAt(held, m + 1, ev)
  <2>1. q = p
    BY <1>4, <1>5
  <2>2. /\ p \in Seq(Stamped) /\ Len(p) = Len(held) + 1
        /\ \A j \in 1 .. m : p[j] = held[j]
        /\ p[m + 1] = ev
        /\ \A j \in m + 2 .. Len(held) + 1 : p[j] = held[j - 1]
    <3>1. PICK i \in 1 .. Len(held) + 1 : m + 1 = i /\ i - 1 = m /\ i + 1 = m + 2
      BY <1>1
    <3> DEFINE z == InsertAt(held, i, ev)
    <3>2. /\ z \in Seq(Stamped) /\ Len(z) = Len(held) + 1
          /\ \A j \in 1 .. i - 1 : z[j] = held[j]
          /\ z[i] = ev
          /\ \A j \in i + 1 .. Len(held) + 1 : z[j] = held[j - 1]
      <4>1. held \in Seq(Stamped) /\ ev \in Stamped /\ i \in 1 .. Len(held) + 1
        BY <1>1
      <4> HIDE DEF z
      <4> QED
        BY <4>1, InsertAtIs DEF z
    <3>3. z = p
      BY <3>1
    <3> HIDE DEF z
    <3> QED
      BY <3>1, <3>2, <3>3
  <2> HIDE DEF p
  <2> QED
    BY <2>1, <2>2
<1>7. DOMAIN q = 1 .. Len(held) + 1
  BY <1>6
<1>8. \A j \in DOMAIN q : q[j] = ev \/ \E i \in DOMAIN held : q[j] = held[i]
  <2> SUFFICES ASSUME NEW j \in DOMAIN q PROVE q[j] = ev \/ \E i \in DOMAIN held : q[j] = held[i]
    OBVIOUS
  <2>1. CASE j <= m
    BY <1>1, <1>6, <1>7, <2>1
  <2>2. CASE j = m + 1
    BY <1>6, <2>2
  <2>3. CASE j > m + 1
    <3>1. j \in m + 2 .. Len(held) + 1 /\ j - 1 \in DOMAIN held
      BY <1>1, <1>7, <2>3
    <3> QED
      BY <1>6, <3>1
  <2> QED
    BY <1>1, <1>7, <2>1, <2>2, <2>3
<1>9. m + 1 \in DOMAIN q /\ \A i \in DOMAIN held : \E j \in DOMAIN q : q[j] = held[i]
  <2>1. ASSUME NEW i \in DOMAIN held, i <= m PROVE \E j \in DOMAIN q : q[j] = held[i]
    BY <1>1, <1>6, <1>7, <2>1
  <2>2. ASSUME NEW i \in DOMAIN held, i > m PROVE \E j \in DOMAIN q : q[j] = held[i]
    <3>1. i + 1 \in m + 2 .. Len(held) + 1 /\ (i + 1) - 1 = i /\ i + 1 \in DOMAIN q
      BY <1>1, <1>7, <2>2
    <3> QED
      BY <1>6, <3>1
  <2> QED
    BY <1>1, <1>7, <2>1, <2>2
<1>10. VersionsIn(q) = VersionsIn(held) \cup {ev.rv}
  <2>1. \A r : (\E j \in DOMAIN q : q[j].rv = r) => (\E i \in DOMAIN held : held[i].rv = r) \/ r = ev.rv
    BY <1>8
  <2>2. \A r : (\E i \in DOMAIN held : held[i].rv = r) \/ r = ev.rv => (\E j \in DOMAIN q : q[j].rv = r)
    BY <1>6, <1>9
  <2> QED
    BY <2>1, <2>2 DEF VersionsIn
<1>11. Range(q) = Range(held) \cup {ev}
  <2>1. \A e : (\E j \in DOMAIN q : q[j] = e) => (\E i \in DOMAIN held : held[i] = e) \/ e = ev
    BY <1>8
  <2>2. \A e : (\E i \in DOMAIN held : held[i] = e) \/ e = ev => (\E j \in DOMAIN q : q[j] = e)
    BY <1>6, <1>9
  <2> HIDE DEF q
  <2> QED
    BY <2>1, <2>2 DEF Range
<1> QED
  BY <1>10, <1>11 DEF Helds, q

(* An accepted write extends the log. *)
LEMMA LogGrows ==
  ASSUME TypeOK, NEW o \in Obj, NEW d \in Doc \cup {Absent}, Write(o, d)
  PROVE  LET n == Len(log) + 1
         IN  /\ n \in Version /\ n \notin DOMAIN log /\ Len(log') = n
             /\ DOMAIN log' = DOMAIN log \cup {n}
             /\ \A r \in DOMAIN log : log'[r] = log[r] /\ r < n
             /\ log'[n] = [obj |-> o, doc |-> d] /\ log'[n].obj = o
<1> DEFINE E == [obj : Obj, doc : Doc \cup {Absent}]
<1>1. log \in Seq(E) /\ log' = Append(log, [obj |-> o, doc |-> d]) /\ Len(log) < MaxEvents /\ MaxEvents \in Nat
  BY EventStreamAssumption DEF Write, TypeOK
<1> HIDE DEF E
<1>2. Len(log) \in Nat /\ DOMAIN log = 1 .. Len(log) /\ DOMAIN log' = 1 .. Len(log) + 1 /\ Len(log') = Len(log) + 1
      /\ log'[Len(log) + 1] = [obj |-> o, doc |-> d] /\ \A r \in DOMAIN log : log'[r] = log[r]
  BY <1>1
<1> QED
  BY <1>1, <1>2 DEF Version

(* A change joins a channel at its end, or is not delivered. *)
LEMMA ChanGrows ==
  ASSUME TypeOK, NEW k \in Kind, NEW ev \in Change \cup Fault,
         chan' = [chan EXCEPT ![k] = Append(@, ev)]
  PROVE  /\ Len(chan[k]) \in Nat /\ DOMAIN chan[k] = 1 .. Len(chan[k])
         /\ DOMAIN chan'[k] = DOMAIN chan[k] \cup {Len(chan[k]) + 1}
         /\ \A i \in DOMAIN chan[k] : chan'[k][i] = chan[k][i] /\ i < Len(chan[k]) + 1
         /\ chan'[k][Len(chan[k]) + 1] = ev
         /\ \A j \in Kind : j # k => chan'[j] = chan[j]
<1> DEFINE E == Change \cup Fault
<1>1. chan \in [Kind -> Seq(E)]
  BY DEF TypeOK
<1> HIDE DEF E
<1>2. ev \in E
  BY DEF E
<1>3. chan'[k] = Append(chan[k], ev) /\ chan[k] \in Seq(E) /\ \A j \in Kind : j # k => chan'[j] = chan[j]
  BY <1>1
<1>4. PICK q \in Seq(E) : q = chan[k]
  BY <1>3
<1>5. /\ Len(q) \in Nat /\ DOMAIN q = 1 .. Len(q) /\ DOMAIN Append(q, ev) = 1 .. Len(q) + 1
      /\ \A i \in 1 .. Len(q) : Append(q, ev)[i] = q[i]
      /\ Append(q, ev)[Len(q) + 1] = ev
  BY <1>2
<1> QED
  BY <1>3, <1>4, <1>5

(* The head leaves a channel. *)
LEMMA ChanShrinks ==
  ASSUME TypeOK, NEW k \in Kind, chan[k] # <<>>, chan' = [chan EXCEPT ![k] = Tail(@)]
  PROVE  /\ 1 \in DOMAIN chan[k] /\ Head(chan[k]) = chan[k][1] /\ DOMAIN chan[k] = 1 .. Len(chan[k])
         /\ Head(chan[k]) \in Change \cup Fault /\ Len(chan[k]) \in Nat
         /\ \A i \in DOMAIN chan'[k] : i + 1 \in DOMAIN chan[k] /\ i + 1 > 1 /\ chan'[k][i] = chan[k][i + 1] /\ i \in Nat
         /\ \A i \in DOMAIN chan[k] : i # 1 => i - 1 \in DOMAIN chan'[k] /\ chan'[k][i - 1] = chan[k][i]
         /\ \A j \in Kind : j # k => chan'[j] = chan[j]
<1> DEFINE E == Change \cup Fault
<1>1. chan \in [Kind -> Seq(E)]
  BY DEF TypeOK
<1> HIDE DEF E
<1>2. chan'[k] = Tail(chan[k]) /\ chan[k] \in Seq(E) /\ \A j \in Kind : j # k => chan'[j] = chan[j]
  BY <1>1
<1>3. PICK q \in Seq(E) : q = chan[k] /\ q # <<>>
  BY <1>2
<1>4. /\ Len(q) \in Nat /\ DOMAIN q = 1 .. Len(q) /\ Len(q) >= 1 /\ DOMAIN Tail(q) = 1 .. Len(q) - 1
      /\ \A i \in 1 .. Len(q) - 1 : Tail(q)[i] = q[i + 1]
      /\ Head(q) = q[1] /\ Head(q) \in E
  BY <1>3
<1>5. \A i \in DOMAIN Tail(q) : i + 1 \in DOMAIN q /\ i + 1 > 1 /\ Tail(q)[i] = q[i + 1] /\ i \in Nat
  BY <1>4
<1>6. \A i \in DOMAIN q : i # 1 => i - 1 \in DOMAIN Tail(q) /\ Tail(q)[i - 1] = q[i]
  <2> SUFFICES ASSUME NEW i \in DOMAIN q, i # 1
               PROVE  i - 1 \in DOMAIN Tail(q) /\ Tail(q)[i - 1] = q[i]
    OBVIOUS
  <2>1. i - 1 \in 1 .. Len(q) - 1 /\ (i - 1) + 1 = i
    BY <1>4
  <2> QED
    BY <1>4, <2>1
<1>7. chan'[k] = Tail(q) /\ Head(q) \in Change \cup Fault
  BY <1>2, <1>3, <1>4 DEF E
<1>8. 1 \in DOMAIN q
  BY <1>4
<1>9. q = chan[k]
  BY <1>3
<1> DEFINE t == Tail(q)
<1>10. /\ \A i \in DOMAIN t : i + 1 \in DOMAIN q /\ i + 1 > 1 /\ t[i] = q[i + 1] /\ i \in Nat
       /\ \A i \in DOMAIN q : i # 1 => i - 1 \in DOMAIN t /\ t[i - 1] = q[i]
       /\ chan'[k] = t
  BY <1>5, <1>6, <1>7
<1> HIDE DEF t
<1>11. /\ 1 \in DOMAIN q /\ Head(q) = q[1] /\ DOMAIN q = 1 .. Len(q)
       /\ Head(q) \in Change \cup Fault /\ Len(q) \in Nat
  BY <1>4, <1>7, <1>8
<1>12. \A j \in Kind : j # k => chan'[j] = chan[j]
  BY <1>2
<1> QED
  BY <1>9, <1>10, <1>11, <1>12, Zenon

(* The elements of a queue that one joins or leaves. *)
LEMMA RangeMove ==
  ASSUME NEW T, NEW q \in Seq(T)
  PROVE  /\ \A e \in T : Range(Append(q, e)) = Range(q) \cup {e}
         /\ q # <<>> => Range(q) = Range(Tail(q)) \cup {Head(q)}
<1>1. Len(q) \in Nat /\ DOMAIN q = 1 .. Len(q)
  OBVIOUS
<1>2. ASSUME NEW e \in T PROVE Range(Append(q, e)) = Range(q) \cup {e}
  <2> DEFINE p == Append(q, e)
  <2>1. DOMAIN p = 1 .. Len(q) + 1 /\ p[Len(q) + 1] = e /\ \A i \in 1 .. Len(q) : p[i] = q[i]
    OBVIOUS
  <2> HIDE DEF p
  <2>2. \A i \in DOMAIN p : i \in DOMAIN q \/ i = Len(q) + 1
    BY <1>1, <2>1
  <2>3. Len(q) + 1 \in DOMAIN p /\ \A i \in DOMAIN q : i \in DOMAIN p /\ p[i] = q[i]
    BY <1>1, <2>1
  <2> QED
    BY <2>1, <2>2, <2>3 DEF Range, p
<1>3. ASSUME q # <<>> PROVE Range(q) = Range(Tail(q)) \cup {Head(q)}
  <2> DEFINE p == Tail(q)
  <2>1. /\ DOMAIN p = 1 .. Len(q) - 1 /\ Head(q) = q[1] /\ Len(q) >= 1
        /\ \A i \in 1 .. Len(q) - 1 : p[i] = q[i + 1]
    BY <1>3
  <2> HIDE DEF p
  <2>2. \A i \in DOMAIN q : i = 1 \/ (i - 1 \in DOMAIN p /\ p[i - 1] = q[i])
    <3> SUFFICES ASSUME NEW i \in DOMAIN q, i # 1 PROVE i - 1 \in DOMAIN p /\ p[i - 1] = q[i]
      OBVIOUS
    <3>1. i - 1 \in 1 .. Len(q) - 1 /\ (i - 1) + 1 = i
      BY <1>1
    <3> QED
      BY <2>1, <3>1
  <2>3. 1 \in DOMAIN q /\ \A i \in DOMAIN p : i + 1 \in DOMAIN q /\ p[i] = q[i + 1]
    BY <1>1, <2>1
  <2>4. \A r : (\E i \in DOMAIN q : q[i] = r) => (\E i \in DOMAIN p : p[i] = r) \/ r = Head(q)
    BY <2>1, <2>2
  <2>5. \A r : (\E i \in DOMAIN p : p[i] = r) \/ r = Head(q) => (\E i \in DOMAIN q : q[i] = r)
    BY <2>1, <2>3
  <2>6. Range(q) = Range(p) \cup {Head(q)}
    BY <2>4, <2>5 DEF Range
  <2> QED
    BY <2>6 DEF p
<1> QED
  BY <1>2, <1>3

(* What a call may be owed are versions of the log. *)
LEMMA PendingIn ==
  ASSUME TypeOK, PlaceInv
  PROVE  Pending \subseteq DOMAIN log
<1>1. \A i \in DOMAIN raw : raw[i].rv \in DOMAIN log
  BY DEF PlaceInv, Raws, VersionsIn
<1>2. \A i \in DOMAIN held : held[i].rv \in DOMAIN log
  BY DEF PlaceInv, Helds, VersionsIn
<1>3. \A k \in Kind : hand[k] # Nothing => hand[k].rv \in DOMAIN log
  BY DEF PlaceInv, SourceAt
<1>4. DOMAIN hand = Kind
  BY DEF TypeOK
<1>5. Range(out) \subseteq DOMAIN log
  BY DEF PlaceInv
<1> QED
  BY <1>1, <1>2, <1>3, <1>4, <1>5 DEF Pending, Range

(* The two ways a queue of the merge is consumed. *)
LEMMA HeadsPlaced ==
  ASSUME TypeOK
  PROVE  /\ raw # <<>> => /\ Head(raw) \in Stamped /\ Head(raw) = raw[1] /\ 1 \in DOMAIN raw
                          /\ Head(raw).rv \in Raws
                          /\ Raws = VersionsIn(Tail(raw)) \cup {Head(raw).rv}
         /\ held # <<>> => /\ Head(held) \in Stamped /\ Head(held) = held[1] /\ 1 \in DOMAIN held
                           /\ Head(held).rv \in Helds
                           /\ Helds = VersionsIn(Tail(held)) \cup {Head(held).rv}
<1>1. raw \in Seq(Stamped) /\ held \in Seq(Stamped)
  BY DEF TypeOK
<1>2. /\ raw # <<>> => Head(raw) \in Stamped /\ Head(raw) = raw[1] /\ 1 \in DOMAIN raw
      /\ held # <<>> => Head(held) \in Stamped /\ Head(held) = held[1] /\ 1 \in DOMAIN held
  BY <1>1
<1>3. /\ raw # <<>> => Raws = VersionsIn(Tail(raw)) \cup {Head(raw).rv}
      /\ held # <<>> => Helds = VersionsIn(Tail(held)) \cup {Head(held).rv}
  BY <1>1, VersionsMove DEF Raws, Helds
<1> QED
  BY <1>2, <1>3

(* Where the moves of the pipeline take a version. *)
LEMMA SendMoves ==
  ASSUME TypeOK, PlaceInv, NEW k \in Kind, Send(k)
  PROVE  /\ hand[k] \in Stamped /\ hand[k].rv \in Hands
         /\ KindAt(hand[k].rv) = k
         /\ raw' = Append(raw, hand[k]) /\ raw \in Seq(Stamped)
         /\ Raws' = Raws \cup {hand[k].rv}
<1>1. pump[k] = "send" /\ hand[k].rv \in DOMAIN log /\ KindAt(hand[k].rv) = k /\ hand[k] \in Stamped \cup {Nothing}
  BY DEF Send, PlaceInv, SourceAt, TypeOK
<1>2. hand[k] \in Stamped
  BY <1>1, StampedType, LogType DEF Version
<1>3. raw' = Append(raw, hand[k]) /\ raw \in Seq(Stamped)
  BY DEF Send, TypeOK
<1>4. Raws' = Raws \cup {hand[k].rv}
  BY <1>2, <1>3, VersionsMove DEF Raws
<1> QED
  BY <1>1, <1>2, <1>3, <1>4 DEF Hands, HandHas

LEMMA ReceiveMoves ==
  ASSUME TypeOK, Receive
  PROVE  /\ Head(raw) \in Stamped /\ Head(raw) = raw[1] /\ 1 \in DOMAIN raw
         /\ raw' = Tail(raw) /\ held' = insertByResourceVersion(Head(raw))
         /\ Raws = Raws' \cup {Head(raw).rv}
         /\ Helds' = Helds \cup {Head(raw).rv}
<1>1. raw # <<>> /\ raw' = Tail(raw) /\ held' = insertByResourceVersion(Head(raw))
  BY DEF Receive
<1>2. /\ Head(raw) \in Stamped /\ Head(raw) = raw[1] /\ 1 \in DOMAIN raw
      /\ Raws = VersionsIn(Tail(raw)) \cup {Head(raw).rv}
  BY <1>1, HeadsPlaced
<1>3. VersionsIn(held') = Helds \cup {Head(raw).rv}
  BY <1>1, <1>2, VersionsInserted
<1> QED
  BY <1>1, <1>2, <1>3 DEF Raws, Helds

LEMMA EmitMoves ==
  ASSUME TypeOK, emitRipe
  PROVE  LET x == Head(held).rv
         IN  /\ Head(held) = held[1] /\ 1 \in DOMAIN held
             /\ held' = Tail(held) /\ held \in Seq(Stamped) /\ held # <<>>
             /\ Helds = Helds' \cup {x} /\ x \in Helds
             /\ Pubs' = Pubs \cup {x}
             /\ Len(pub) \in Nat /\ DOMAIN pub = 1 .. Len(pub) /\ DOMAIN pub' = 1 .. Len(pub) + 1
             /\ \A i \in 1 .. Len(pub) : pub'[i] = pub[i]
             /\ pub'[Len(pub) + 1] = [rv |-> x, from |-> prev[log[x].obj],
                                      overtaken |-> {r \in known \ Pubs : r < x}]
<1> DEFINE x == Head(held).rv
           p == [rv |-> x, from |-> prev[log[x].obj], overtaken |-> {r \in known \ Pubs : r < x}]
<1>1. held # <<>> /\ held' = Tail(held) /\ pub' = Append(pub, p) /\ held \in Seq(Stamped)
  BY DEF emitRipe, HeadRipe, Pubs, TypeOK
<1>2. /\ Head(held) = held[1] /\ 1 \in DOMAIN held /\ x \in Helds
      /\ Helds = VersionsIn(Tail(held)) \cup {x}
  BY <1>1, HeadsPlaced
<1>3. PICK P : pub \in Seq(P)
  BY DEF TypeOK
<1>4. p.rv = x
  OBVIOUS
<1> HIDE DEF p
<1>5. pub \in Seq(P \cup {p}) /\ p \in P \cup {p}
  BY <1>3
<1>6. VersionsIn(Append(pub, p)) = Pubs \cup {x}
  BY <1>4, <1>5, VersionsMove DEF Pubs
<1>7. /\ Len(pub) \in Nat /\ DOMAIN pub = 1 .. Len(pub) /\ DOMAIN pub' = 1 .. Len(pub) + 1
      /\ (\A i \in 1 .. Len(pub) : pub'[i] = pub[i]) /\ pub'[Len(pub) + 1] = p
  BY <1>1, <1>5
<1> QED
  BY <1>1, <1>2, <1>6, <1>7 DEF Helds, Pubs, p

LEMMA PlaceInductive ==
  ASSUME TypeOK, PlaceInv, [Next]_vars
  PROVE  PlaceInv'
<1> USE DEF watches, merging, reader
<1> DEFINE Queued == Raws \cup Helds \cup Pubs \cup Range(out) \cup owed
<1>0. (\A k \in Kind : SourceAt(k)) /\ Queued \subseteq DOMAIN log
  BY DEF PlaceInv
<1>1. ASSUME NEW o \in Obj, NEW d \in Doc \cup {Absent}, Write(o, d) PROVE PlaceInv'
  <2> DEFINE k == KindOf[o]
             NewKind(r) == KindOf[log'[r].obj]
  <2>1. PICK n \in Version : n = Len(log) + 1
    BY <1>1, LogGrows
  <2>2. /\ n \notin DOMAIN log /\ Len(log') = n /\ DOMAIN log' = DOMAIN log \cup {n}
        /\ \A r \in DOMAIN log : log'[r] = log[r] /\ r < n
        /\ log'[n].obj = o
    BY <1>1, <2>1, LogGrows
  <2>3. k \in Kind
    BY EventStreamAssumption
  <2>4. Queued' = Queued
    BY <1>1 DEF Write, Raws, Helds, Pubs
  <2>5. NewKind(n) = k /\ \A r \in DOMAIN log : NewKind(r) = KindAt(r)
    BY <2>2 DEF KindAt
  <2> HIDE DEF NewKind
  <2>6. UNCHANGED <<opened, pump, hand>> /\ Len(log) \in Nat
    BY <1>1, LogType DEF Write
  <2>7. ASSUME NEW j \in Kind
        PROVE  /\ pump[j] = "off" => chan'[j] = <<>>
               /\ \A i \in DOMAIN chan'[j] : chan'[j][i].typ = "change" =>
                    chan'[j][i].rv \in DOMAIN log' /\ NewKind(chan'[j][i].rv) = j
    <3> DEFINE ev == [typ |-> "change", rv |-> n]
    <3>1. /\ pump[j] = "off" => chan[j] = <<>>
          /\ \A i \in DOMAIN chan[j] : chan[j][i].typ = "change" =>
               chan[j][i].rv \in DOMAIN log' /\ NewKind(chan[j][i].rv) = j
      BY <1>0, <2>2, <2>5 DEF SourceAt
    <3>2. CASE chan' = chan
      BY <3>1, <3>2
    <3>3. CASE chan' = [chan EXCEPT ![k] = Append(@, ev)] /\ opened[k] >= 0
      <4>1. ev \in Change \cup Fault
        BY <2>1, ChanType
      <4>2. ev.rv = n
        OBVIOUS
      <4> HIDE DEF ev
      <4>3. /\ DOMAIN chan'[k] = DOMAIN chan[k] \cup {Len(chan[k]) + 1}
            /\ \A i \in DOMAIN chan[k] : chan'[k][i] = chan[k][i]
            /\ chan'[k][Len(chan[k]) + 1] = ev
            /\ j # k => chan'[j] = chan[j]
        BY <2>3, <3>3, <4>1, ChanGrows
      <4>4. pump[k] # "off"
        BY <1>0, <2>3, <3>3 DEF SourceAt
      <4>5. CASE j = k
        BY <2>2, <2>5, <3>1, <4>2, <4>3, <4>4, <4>5
      <4> QED
        BY <3>1, <4>3, <4>5
    <3> QED
      BY <1>1, <2>1, <3>2, <3>3 DEF Write, Deliver
  <2>8. \A j \in Kind : SourceAt(j)'
    <3> SUFFICES ASSUME NEW j \in Kind PROVE SourceAt(j)'
      OBVIOUS
    <3>1. opened[j] <= Len(log')
      <4>1. opened[j] <= Len(log) /\ opened[j] \in Int
        BY <1>0, EventStreamAssumption DEF SourceAt, TypeOK
      <4> QED
        BY <2>1, <2>2, <2>6, <4>1
    <3>2. IF pump[j] = "send" THEN hand[j].rv \in DOMAIN log' /\ NewKind(hand[j].rv) = j
                              ELSE hand[j] = Nothing
      BY <1>0, <2>2, <2>5 DEF SourceAt
    <3> QED
      BY <1>0, <2>6, <2>7, <3>1, <3>2 DEF SourceAt, KindAt, NewKind
  <2> QED
    BY <1>0, <2>2, <2>4, <2>8 DEF PlaceInv
<1>2. ASSUME NEW k \in Kind, NEW ev \in Fault, ev.typ # "change", pump[k] # "off",
             UNCHANGED <<log, opened, pump, hand, raw, held, pub, out, owed>>,
             chan' = chan \/ chan' = [chan EXCEPT ![k] = Append(@, ev)]
      PROVE  PlaceInv'
  <2>1. Queued' = Queued
    BY <1>2 DEF Raws, Helds, Pubs
  <2>2. CASE chan' = chan
    BY <1>0, <1>2, <2>1, <2>2 DEF PlaceInv, SourceAt, KindAt
  <2>3. CASE chan' = [chan EXCEPT ![k] = Append(@, ev)]
    <3>1. /\ DOMAIN chan'[k] = DOMAIN chan[k] \cup {Len(chan[k]) + 1}
          /\ \A i \in DOMAIN chan[k] : chan'[k][i] = chan[k][i]
          /\ chan'[k][Len(chan[k]) + 1] = ev
          /\ \A j \in Kind : j # k => chan'[j] = chan[j]
      BY <2>3, ChanGrows
    <3>2. ASSUME NEW j \in Kind PROVE SourceAt(j)'
      <4>1. CASE j = k
        BY <1>0, <1>2, <3>1, <4>1 DEF SourceAt, KindAt
      <4>2. CASE j # k
        BY <1>0, <1>2, <3>1, <4>2 DEF SourceAt, KindAt
      <4> QED
        BY <4>1, <4>2
    <3> QED
      BY <1>0, <1>2, <2>1, <3>2 DEF PlaceInv
  <2> QED
    BY <1>2, <2>2, <2>3
<1>3. ASSUME NEW k \in Kind, NEW f \in Faults, Disturb(k, f) PROVE PlaceInv'
  <2> DEFINE ev == [typ |-> f, rv |-> 0]
  <2>1. ev \in Fault /\ ev.typ # "change"
    BY EventStreamAssumption DEF Fault
  <2>2. pump[k] # "off"
    BY <1>0, <1>3 DEF Disturb, SourceAt
  <2>3. /\ UNCHANGED <<log, opened, pump, hand, raw, held, pub, out, owed>>
        /\ chan' = chan \/ chan' = [chan EXCEPT ![k] = Append(@, ev)]
    BY <1>3 DEF Disturb, Deliver
  <2> HIDE DEF ev
  <2> QED
    BY <1>2, <2>1, <2>2, <2>3
<1>4. ASSUME NEW k \in Kind, StopWatcher(k) PROVE PlaceInv'
  <2> DEFINE ev == [typ |-> "closed", rv |-> 0]
  <2>1. ev \in Fault /\ ev.typ # "change"
    BY EventStreamAssumption DEF Fault
  <2>2. /\ UNCHANGED <<log, opened, pump, hand, raw, held, pub, out, owed>>
        /\ chan' = [chan EXCEPT ![k] = Append(@, ev)] /\ pump[k] # "off"
    BY <1>4 DEF StopWatcher
  <2> HIDE DEF ev
  <2> QED
    BY <1>2, <2>1, <2>2
<1>5. ASSUME NEW k \in Kind, addSource(k) PROVE PlaceInv'
  <2>1. PICK n \in Nat : \E f \in [1 .. n -> DOMAIN log] :
           /\ chan' = [chan EXCEPT ![k] = [i \in 1 .. n |-> [typ |-> "change", rv |-> f[i]]]]
           /\ \A i \in 1 .. n : Replayed(k, f[i])
    BY <1>5, ReplayIs
  <2>2. PICK f \in [1 .. n -> DOMAIN log] :
           /\ chan' = [chan EXCEPT ![k] = [i \in 1 .. n |-> [typ |-> "change", rv |-> f[i]]]]
           /\ \A i \in 1 .. n : Replayed(k, f[i])
    BY <2>1
  <2>3. /\ UNCHANGED <<log, hand, raw, held, pub, out, owed>>
        /\ opened' = [opened EXCEPT ![k] = Len(log)] /\ pump' = [pump EXCEPT ![k] = "recv"]
    BY <1>5 DEF addSource
  <2>4. chan \in [Kind -> Seq(Change \cup Fault)] /\ opened \in [Kind -> -1 .. MaxEvents]
        /\ pump \in [Kind -> {"off", "recv", "send", "done"}]
    BY DEF TypeOK
  <2>5. opened[k] = -1
    <3>1. PICK i \in DOMAIN Kinds : k = Kinds[i] /\ \A j \in DOMAIN Kinds : opened[Kinds[j]] = -1 <=> j >= i
      BY <1>5 DEF addSource
    <3>2. i >= i
      BY EventStreamAssumption
    <3> QED
      BY <3>1, <3>2
  <2>6. pump[k] = "off" /\ hand[k] = Nothing /\ Len(log) \in Nat
    BY <1>0, <2>5, LogType DEF SourceAt
  <2>7. ASSUME NEW j \in Kind PROVE SourceAt(j)'
    <3>1. CASE j # k
      <4>1. chan'[j] = chan[j] /\ opened'[j] = opened[j] /\ pump'[j] = pump[j]
        BY <2>2, <2>3, <2>4, <3>1
      <4> QED
        BY <1>0, <2>3, <4>1 DEF SourceAt, KindAt
    <3>2. CASE j = k
      <4>1. chan'[j] = [i \in 1 .. n |-> [typ |-> "change", rv |-> f[i]]] /\ opened'[j] = Len(log) /\ pump'[j] = "recv"
        BY <2>2, <2>3, <2>4, <3>2
      <4>2. DOMAIN chan'[j] = 1 .. n /\ \A i \in 1 .. n : chan'[j][i].rv = f[i]
        BY <4>1
      <4>3. \A i \in 1 .. n : f[i] \in DOMAIN log /\ KindAt(f[i]) = k
        BY <2>2 DEF Replayed
      <4> QED
        BY <2>3, <2>6, <3>2, <4>1, <4>2, <4>3 DEF SourceAt, KindAt
    <3> QED
      BY <3>1, <3>2
  <2>8. Queued' = Queued
    BY <2>3 DEF Raws, Helds, Pubs
  <2> QED
    BY <1>0, <2>3, <2>7, <2>8 DEF PlaceInv
<1>6. ASSUME NEW k \in Kind, PumpStops(k) PROVE PlaceInv'
  <2>1. /\ UNCHANGED <<log, chan, opened, raw, held, pub, out, owed>>
        /\ pump' = [pump EXCEPT ![k] = "done"] /\ hand' = [hand EXCEPT ![k] = Nothing] /\ pump[k] # "off"
    BY <1>6 DEF PumpStops, Goto
  <2>2. DOMAIN pump = Kind /\ DOMAIN hand = Kind
    BY DEF TypeOK
  <2>3. ASSUME NEW j \in Kind PROVE SourceAt(j)'
    <3>1. CASE j = k
      <4>1. pump'[j] = "done" /\ hand'[j] = Nothing
        BY <2>1, <2>2, <3>1
      <4> QED
        BY <1>0, <2>1, <3>1, <4>1 DEF SourceAt, KindAt
    <3>2. CASE j # k
      <4>1. pump'[j] = pump[j] /\ hand'[j] = hand[j]
        BY <2>1, <2>2, <3>2
      <4> QED
        BY <1>0, <2>1, <4>1 DEF SourceAt, KindAt
    <3> QED
      BY <3>1, <3>2
  <2>4. Queued' = Queued
    BY <2>1 DEF Raws, Helds, Pubs
  <2> QED
    BY <1>0, <2>1, <2>3, <2>4 DEF PlaceInv
<1>7. ASSUME NEW k \in Kind, forward(k) PROVE PlaceInv'
  <2> DEFINE h == chan[k][1]
  <2>1. chan[k] # <<>> /\ chan' = [chan EXCEPT ![k] = Tail(@)] /\ pump[k] = "recv"
    BY <1>7 DEF forward
  <2>2. /\ 1 \in DOMAIN chan[k] /\ Head(chan[k]) = h /\ h \in Change \cup Fault
        /\ \A i \in DOMAIN chan'[k] : i + 1 \in DOMAIN chan[k] /\ chan'[k][i] = chan[k][i + 1]
        /\ \A j \in Kind : j # k => chan'[j] = chan[j]
    BY <2>1, ChanShrinks
  <2>3. UNCHANGED <<log, opened, raw, held, pub, out>>
    BY <1>7 DEF forward
  <2>4. DOMAIN pump = Kind /\ DOMAIN hand = Kind /\ DOMAIN chan = Kind
    BY DEF TypeOK
  <2>5. /\ \A j \in Kind : j # k => pump'[j] = pump[j] /\ hand'[j] = hand[j]
        /\ \/ /\ pump'[k] = "send" /\ hand'[k].rv = h.rv /\ h.typ = "change"
              /\ owed' \subseteq owed \cup {h.rv}
           \/ /\ pump'[k] \in {"recv", "done"} /\ hand'[k] = hand[k] /\ owed' = owed
    <3>1. CASE h.typ = "change" /\ Accept(k, h.rv)
      <4>1. hand' = [hand EXCEPT ![k] = [rv |-> h.rv, age |-> 0]] /\ pump' = [pump EXCEPT ![k] = "send"]
            /\ owed' \subseteq owed \cup {h.rv}
        BY <3>1 DEF Accept, Goto
      <4>2. hand'[k] = [rv |-> h.rv, age |-> 0]
        BY <2>4, <4>1
      <4>3. hand'[k].rv = h.rv
        BY <4>2
      <4> QED
        BY <2>4, <3>1, <4>1, <4>3
    <3>2. CASE UNCHANGED <<pump, hand, err, owed>>
      BY <2>1, <3>2
    <3>3. CASE WatchClosed(k) \/ WatchErrors(k)
      BY <2>4, <3>3 DEF WatchClosed, WatchErrors, Goto
    <3> QED
      BY <1>7, <2>2, <3>1, <3>2, <3>3 DEF forward
  <2>6. h.typ = "change" => h.rv \in DOMAIN log /\ KindAt(h.rv) = k
    BY <1>0, <2>2 DEF SourceAt
  <2>7. ASSUME NEW j \in Kind PROVE SourceAt(j)'
    <3>1. CASE j # k
      BY <1>0, <2>2, <2>3, <2>5, <3>1 DEF SourceAt, KindAt
    <3>2. CASE j = k
      <4>1. opened[k] # -1 /\ hand[k] = Nothing
        BY <1>0, <2>1 DEF SourceAt
      <4>2. \A i \in DOMAIN chan'[k] : chan'[k][i].typ = "change" =>
              chan'[k][i].rv \in DOMAIN log /\ KindAt(chan'[k][i].rv) = k
        BY <1>0, <2>2 DEF SourceAt
      <4>3. pump'[k] # "off" /\ opened[k] <= Len(log)
        BY <1>0, <2>5 DEF SourceAt
      <4>4. IF pump'[k] = "send" THEN hand'[k].rv \in DOMAIN log /\ KindAt(hand'[k].rv) = k
                                 ELSE hand'[k] = Nothing
        BY <2>5, <2>6, <4>1
      <4> HIDE DEF h
      <4> QED
        BY <2>3, <3>2, <4>1, <4>2, <4>3, <4>4 DEF SourceAt, KindAt
    <3> QED
      BY <3>1, <3>2
  <2>8. Queued' \subseteq DOMAIN log
    BY <1>0, <2>3, <2>5, <2>6 DEF Raws, Helds, Pubs
  <2> QED
    BY <2>3, <2>7, <2>8 DEF PlaceInv
<1>8. ASSUME NEW k \in Kind, Send(k) PROVE PlaceInv'
  <2>1. /\ UNCHANGED <<log, chan, opened, held, pub, out, owed>> /\ pump[k] = "send"
        /\ pump' = [pump EXCEPT ![k] = "recv"] /\ hand' = [hand EXCEPT ![k] = Nothing]
    BY <1>8 DEF Send, Goto
  <2>2. DOMAIN pump = Kind /\ DOMAIN hand = Kind
    BY DEF TypeOK
  <2>3. ASSUME NEW j \in Kind PROVE SourceAt(j)'
    <3>1. CASE j = k
      <4>1. pump'[j] = "recv" /\ hand'[j] = Nothing
        BY <2>1, <2>2, <3>1
      <4> QED
        BY <1>0, <2>1, <3>1, <4>1 DEF SourceAt, KindAt
    <3>2. CASE j # k
      <4>1. pump'[j] = pump[j] /\ hand'[j] = hand[j]
        BY <2>1, <2>2, <3>2
      <4> QED
        BY <1>0, <2>1, <4>1 DEF SourceAt, KindAt
    <3> QED
      BY <3>1, <3>2
  <2>4. Raws' = Raws \cup {hand[k].rv} /\ hand[k].rv \in DOMAIN log
    BY <1>8, SendMoves DEF Hands
  <2>5. Queued' \subseteq DOMAIN log
    BY <1>0, <2>1, <2>4 DEF Helds, Pubs
  <2> QED
    BY <2>1, <2>3, <2>5 DEF PlaceInv
<1>9. ASSUME UNCHANGED <<log, chan, opened, pump, hand>>, Queued' \subseteq DOMAIN log
      PROVE  PlaceInv'
  BY <1>0, <1>9 DEF PlaceInv, SourceAt, KindAt
<1>10. CASE Receive
  <2>1. Raws = Raws' \cup {Head(raw).rv} /\ Helds' = Helds \cup {Head(raw).rv}
    BY <1>10, ReceiveMoves
  <2>2. UNCHANGED <<log, chan, opened, pump, hand, pub, out, owed>>
    BY <1>10 DEF Receive
  <2>3. Queued' \subseteq DOMAIN log
    BY <1>0, <2>1, <2>2 DEF Pubs
  <2> QED
    BY <1>9, <2>2, <2>3
<1>11. CASE emitRipe
  <2> DEFINE x == Head(held).rv
  <2>1. Helds = Helds' \cup {x} /\ x \in Helds /\ Pubs' = Pubs \cup {x}
    BY <1>11, EmitMoves
  <2>2. UNCHANGED <<log, chan, opened, pump, hand, raw, owed>>
    BY <1>11 DEF emitRipe
  <2>3. Range(out') \subseteq Range(out) \cup {x}
    <3>1. out \in Seq(Version) /\ x \in Version
      BY <1>0, <2>1, LogType DEF TypeOK
    <3>2. out' = out \/ out' = Append(out, x)
      BY <1>11 DEF emitRipe
    <3> HIDE DEF x
    <3>3. Range(Append(out, x)) = Range(out) \cup {x}
      BY <3>1, RangeMove
    <3> QED
      BY <3>2, <3>3
  <2>4. Queued' \subseteq DOMAIN log
    BY <1>0, <2>1, <2>2, <2>3 DEF Raws
  <2> QED
    BY <1>9, <2>2, <2>4
<1>12. ASSUME NEW c \in Reads, Call(c) PROVE PlaceInv'
  <2>1. UNCHANGED <<log, chan, opened, pump, hand, raw, held, pub, out>> /\ owed' = Pending
    BY <1>12 DEF Call
  <2>2. Queued' \subseteq DOMAIN log
    BY <1>0, <2>1, PendingIn DEF Raws, Helds, Pubs
  <2> QED
    BY <1>9, <2>1, <2>2
<1>13. CASE ReaderStep
  <2>1. UNCHANGED <<log, chan, opened, pump, hand, raw, held, pub, owed>>
    BY <1>13 DEF ReaderStep, Next_Event, Next_Ends, Drain_Wakes, Drain_Takes, Drain_Ends
  <2>2. Range(out') \subseteq Range(out)
    <3>1. out \in Seq(Version)
      BY DEF TypeOK
    <3>2. OnChannel # <<>> => out # <<>>
      BY DEF OnChannel
    <3>3. out' = out \/ (out' = Tail(out) /\ out # <<>>)
      BY <1>13, <3>2 DEF ReaderStep, Next_Event, Next_Ends, Drain_Wakes, Drain_Takes, Drain_Ends
    <3> QED
      BY <3>1, <3>3, RangeMove
  <2>3. Queued' \subseteq DOMAIN log
    BY <1>0, <2>1, <2>2 DEF Raws, Helds, Pubs
  <2> QED
    BY <1>9, <2>1, <2>3
<1>14. CASE Tick
  <2>1. /\ UNCHANGED <<log, chan, opened, pump, pub, out, owed>>
        /\ raw' = [i \in DOMAIN raw |-> Aged(raw[i])] /\ held' = [i \in DOMAIN held |-> Aged(held[i])]
        /\ \A k \in Kind : hand'[k] = Aged(hand[k])
    BY <1>14 DEF Tick
  <2>2. raw \in Seq(Stamped) /\ held \in Seq(Stamped) /\ hand \in [Kind -> Stamped \cup {Nothing}]
    BY DEF TypeOK
  <2>3. Queued' = Queued
    BY <2>1, <2>2, VersionsAged DEF Raws, Helds, Pubs
  <2>4. \A k \in Kind : hand'[k].rv = hand[k].rv
    BY <2>1, <2>2, StampedType
  <2>5. Aged(Nothing) = Nothing
    BY DEF Aged, Nothing
  <2>6. \A k \in Kind : SourceAt(k)'
    BY <1>0, <2>1, <2>4, <2>5 DEF SourceAt, KindAt
  <2> QED
    BY <1>0, <2>1, <2>3, <2>6 DEF PlaceInv
<1>15. ASSUME UNCHANGED <<log, chan, opened, pump, hand, raw, held, pub, out, owed>>
       PROVE  PlaceInv'
  <2>1. Queued' \subseteq DOMAIN log
    BY <1>0, <1>15 DEF Raws, Helds, Pubs
  <2> QED
    BY <1>9, <1>15, <2>1
<1>16. CASE \/ watch \/ shutdown \/ Join \/ MergeStops \/ Poll \/ Drained \/ NoneRipe \/ emit
            \/ UNCHANGED vars
  BY <1>15, <1>16 DEF watch, shutdown, Join, MergeStops, Poll, Drained, NoneRipe, emit, vars
<1> QED
  BY <1>1, <1>3, <1>4, <1>5, <1>6, <1>7, <1>8, <1>10, <1>11, <1>12, <1>13, <1>14, <1>16
     DEF Next, PumpStep, MergeStep
------------------------------------------------------------------------------
(* The events of one object never pass each other: what is further along the *)
(* pipeline is older.                                                        *)

Precede(A, B) == \A r \in A, s \in B : Same(r, s) => r < s

ChanOrdered(k) ==
  \A i, j \in DOMAIN chan[k] :
    /\ i < j /\ chan[k][i].typ = "change" /\ chan[k][j].typ = "change"
    /\ Same(chan[k][i].rv, chan[k][j].rv)
    => chan[k][i].rv < chan[k][j].rv

RawOrdered == \A i, j \in DOMAIN raw : i < j /\ Same(raw[i].rv, raw[j].rv) => raw[i].rv < raw[j].rv

Sorted(q) == \A i, j \in DOMAIN q : i < j => q[i].rv < q[j].rv

OrderInv ==
  /\ \A k \in Kind : ChanOrdered(k)
  /\ RawOrdered
  /\ Sorted(held)
  /\ Precede(Pubs, Helds \cup Raws \cup Hands \cup Chans)
  /\ Precede(Helds, Raws \cup Hands \cup Chans)
  /\ Precede(Raws, Hands \cup Chans)
  /\ Precede(Hands, Chans)
  /\ \A r \in Raws \cup Helds \cup Pubs : opened[KindAt(r)] >= 0

(* The source of kind k delivers all that is accepted. *)
Delivering(k) == pump[k] \in {"recv", "send"} /\ ~Broken(k)

LEMMA WriteMoves ==
  ASSUME TypeOK, PlaceInv, \A j \in Kind : ChanOrdered(j),
         NEW o \in Obj, NEW d \in Doc \cup {Absent}, Write(o, d),
         NEW n \in Version, n = Len(log) + 1
  PROVE  /\ Hands' = Hands /\ UNCHANGED <<raw, held, pub, prev, opened, pump>>
         /\ \A j \in Kind : ChanOrdered(j)'
         /\ Chans' \subseteq Chans \cup {n} /\ Chans \subseteq Chans'
         /\ \A j \in Kind : Delivering(j)' => Delivering(j)
         /\ n \in Chans' <=> Delivering(KindOf[o])
<1> DEFINE k == KindOf[o]
           ev == [typ |-> "change", rv |-> n]
           NewKind(r) == KindOf[log'[r].obj]
           NewHas(j, r) == /\ pump[j] \in {"recv", "send"}
                           /\ \E i \in DOMAIN chan'[j] : chan'[j][i].typ = "change" /\ chan'[j][i].rv = r
<1>1. UNCHANGED <<raw, held, pub, prev, opened, pump, hand>> /\ k \in Kind /\ ev.typ = "change" /\ ev.rv = n
  BY EventStreamAssumption DEF Write, merging
<1>2. /\ n \notin DOMAIN log /\ DOMAIN log' = DOMAIN log \cup {n}
      /\ \A r \in DOMAIN log : log'[r] = log[r] /\ r < n
      /\ log'[n].obj = o
  BY LogGrows
<1>3. NewKind(n) = k /\ \A r \in DOMAIN log : NewKind(r) = KindAt(r)
  BY <1>2 DEF KindAt
<1>4. \A r : r \in Chans' <=> r \in DOMAIN log' /\ NewHas(NewKind(r), r)
  BY <1>1 DEF Chans, ChanHas, KindAt
<1>5. \A r : r \in Hands' <=> r \in DOMAIN log' /\ HandHas(NewKind(r), r)
  BY <1>1 DEF Hands, HandHas, KindAt
<1>6. \A j \in Kind : /\ ~HandHas(j, n) /\ ~ChanHas(j, n)
                      /\ \A i \in DOMAIN chan[j] : chan[j][i].typ = "change" => chan[j][i].rv \in DOMAIN log
  BY <1>2 DEF PlaceInv, SourceAt, HandHas, ChanHas
<1>7. \A r \in DOMAIN log : KindAt(r) \in Kind
  BY LogType
<1> HIDE DEF NewKind
<1>8. Hands' = Hands
  BY <1>1, <1>2, <1>3, <1>5, <1>6 DEF Hands
<1>9. Broken(k) <=> \E i \in DOMAIN chan[k] : chan[k][i].typ \in {"closed", "error"}
  BY DEF Broken
<1>10. \A j \in Kind : Delivering(j)' <=> pump[j] \in {"recv", "send"} /\ ~\E i \in DOMAIN chan'[j] : chan'[j][i].typ \in {"closed", "error"}
  BY <1>1 DEF Delivering, Broken
<1>11. \A j \in Kind : ChanOrdered(j)' <=>
          \A i, i2 \in DOMAIN chan'[j] :
            /\ i < i2 /\ chan'[j][i].typ = "change" /\ chan'[j][i2].typ = "change"
            /\ log'[chan'[j][i].rv].obj = log'[chan'[j][i2].rv].obj
            => chan'[j][i].rv < chan'[j][i2].rv
  BY DEF ChanOrdered, Same
<1>12. \A j \in Kind : chan'[j] = chan[j] => ChanOrdered(j)'
  <2> SUFFICES ASSUME NEW j \in Kind, chan'[j] = chan[j] PROVE ChanOrdered(j)'
    OBVIOUS
  <2>1. ChanOrdered(j)
    OBVIOUS
  <2> QED
    BY <1>2, <1>6, <1>11, <2>1 DEF ChanOrdered, Same
<1>13. CASE chan' = chan /\ ~Delivering(k)
  <2>1. \A j \in Kind : \A r : NewHas(j, r) <=> ChanHas(j, r)
    BY <1>13 DEF ChanHas
  <2> HIDE DEF NewHas
  <2>2. Chans' = Chans
    BY <1>1, <1>2, <1>3, <1>4, <1>6, <1>7, <2>1 DEF Chans
  <2>3. \A j \in Kind : Delivering(j)' => Delivering(j)
    BY <1>10, <1>13 DEF Delivering, Broken
  <2>4. n \notin Chans
    BY <1>2 DEF Chans
  <2> QED
    BY <1>1, <1>8, <1>12, <1>13, <2>2, <2>3, <2>4
<1>14. CASE chan' = [chan EXCEPT ![k] = Append(@, ev)] /\ Delivering(k)
  <2>1. ev \in Change \cup Fault
    BY ChanType
  <2> HIDE DEF ev
  <2>2. /\ Len(chan[k]) \in Nat /\ DOMAIN chan[k] = 1 .. Len(chan[k])
        /\ DOMAIN chan'[k] = DOMAIN chan[k] \cup {Len(chan[k]) + 1}
        /\ \A i \in DOMAIN chan[k] : chan'[k][i] = chan[k][i] /\ i < Len(chan[k]) + 1
        /\ chan'[k][Len(chan[k]) + 1] = ev
        /\ \A j \in Kind : j # k => chan'[j] = chan[j]
    BY <1>1, <1>14, <2>1, ChanGrows
  <2>3. pump[k] \in {"recv", "send"}
    BY <1>14 DEF Delivering
  <2>4. \A j \in Kind : \A r : NewHas(j, r) <=> ChanHas(j, r) \/ (j = k /\ r = n)
    <3>1. \A r : NewHas(k, r) <=> ChanHas(k, r) \/ r = n
      BY <1>1, <2>2, <2>3 DEF ChanHas
    <3>2. \A j \in Kind : \A r : j # k => (NewHas(j, r) <=> ChanHas(j, r))
      BY <2>2 DEF ChanHas
    <3> QED
      BY <3>1, <3>2
  <2> HIDE DEF NewHas
  <2>5. Chans' = Chans \cup {n}
    BY <1>1, <1>2, <1>3, <1>4, <1>6, <1>7, <2>4 DEF Chans
  <2>6. \A j \in Kind : Delivering(j)' => Delivering(j)
    <3>1. \A j \in Kind : j # k /\ Delivering(j)' => Delivering(j)
      BY <1>10, <2>2 DEF Delivering, Broken
    <3> QED
      BY <1>14, <3>1
  <2>7. ChanOrdered(k)'
    <3>1. ChanOrdered(k)
      BY <1>1
    <3> SUFFICES ASSUME NEW i \in DOMAIN chan'[k], NEW i2 \in DOMAIN chan'[k], i < i2,
                        chan'[k][i].typ = "change", chan'[k][i2].typ = "change",
                        log'[chan'[k][i].rv].obj = log'[chan'[k][i2].rv].obj
                 PROVE  chan'[k][i].rv < chan'[k][i2].rv
      BY <1>1, <1>11
    <3>2. i \in DOMAIN chan[k]
      BY <2>2
    <3>3. chan[k][i].rv \in DOMAIN log /\ chan'[k][i] = chan[k][i]
      BY <1>1, <1>6, <2>2, <3>2
    <3>4. CASE i2 = Len(chan[k]) + 1
      BY <1>1, <1>2, <2>2, <3>3, <3>4
    <3>5. CASE i2 \in DOMAIN chan[k]
      <4>1. chan'[k][i2] = chan[k][i2] /\ chan[k][i2].rv \in DOMAIN log
        BY <1>1, <1>6, <2>2, <3>5
      <4>2. Same(chan[k][i].rv, chan[k][i2].rv)
        BY <1>2, <3>3, <4>1 DEF Same
      <4> QED
        BY <3>1, <3>2, <3>3, <3>5, <4>1, <4>2 DEF ChanOrdered
    <3> QED
      BY <2>2, <3>4, <3>5
  <2>8. \A j \in Kind : ChanOrdered(j)'
    <3> SUFFICES ASSUME NEW j \in Kind PROVE ChanOrdered(j)'
      OBVIOUS
    <3>1. CASE j = k
      BY <2>7, <3>1
    <3>2. CASE j # k
      BY <1>12, <2>2, <3>2
    <3> QED
      BY <3>1, <3>2
  <2> QED
    BY <1>1, <1>8, <1>14, <2>5, <2>6, <2>8
<1>15. Delivering(k) <=> opened[k] >= 0 /\ pump[k] # "done" /\ ~Broken(k)
  <2>1. SourceAt(k) /\ opened[k] \in -1 .. MaxEvents /\ pump[k] \in {"off", "recv", "send", "done"}
    BY <1>1 DEF PlaceInv, TypeOK
  <2> QED
    BY <2>1, EventStreamAssumption DEF SourceAt, Delivering
<1> QED
  BY <1>13, <1>14, <1>15 DEF Write, Deliver

(* An event that is no change joins a channel. *)
LEMMA FaultMoves ==
  ASSUME TypeOK, PlaceInv, \A j \in Kind : ChanOrdered(j),
         NEW k \in Kind, NEW ev \in Change \cup Fault, ev.typ # "change",
         UNCHANGED <<log, pump, hand>>, chan' = chan \/ chan' = [chan EXCEPT ![k] = Append(@, ev)]
  PROVE  /\ Hands' = Hands /\ Chans' = Chans
         /\ \A j \in Kind : ChanOrdered(j)'
         /\ \A j \in Kind : Delivering(j)' => Delivering(j)
<1>1. CASE chan' = chan
  BY <1>1 DEF Hands, HandHas, Chans, ChanHas, KindAt, ChanOrdered, Delivering, Broken, Same
<1>2. CASE chan' = [chan EXCEPT ![k] = Append(@, ev)]
  <2>1. /\ Len(chan[k]) \in Nat /\ DOMAIN chan[k] = 1 .. Len(chan[k])
        /\ DOMAIN chan'[k] = DOMAIN chan[k] \cup {Len(chan[k]) + 1}
        /\ \A i \in DOMAIN chan[k] : chan'[k][i] = chan[k][i] /\ i < Len(chan[k]) + 1
        /\ chan'[k][Len(chan[k]) + 1] = ev
        /\ \A j \in Kind : j # k => chan'[j] = chan[j]
    BY <1>2, ChanGrows
  <2>2. ASSUME NEW j \in Kind PROVE ChanOrdered(j)'
    <3>1. ChanOrdered(j)
      OBVIOUS
    <3>2. CASE j = k
      BY <2>1, <3>1, <3>2, SMTT(30) DEF ChanOrdered, Same
    <3>3. CASE j # k
      BY <2>1, <3>1, <3>3 DEF ChanOrdered, Same
    <3> QED
      BY <3>2, <3>3
  <2>3. ASSUME NEW j \in Kind PROVE Delivering(j)' => Delivering(j)
    <3>1. CASE j = k
      BY <2>1, <3>1 DEF Delivering, Broken
    <3>2. CASE j # k
      BY <2>1, <3>2 DEF Delivering, Broken
    <3> QED
      BY <3>1, <3>2
  <2>4. \A j \in Kind : \A r :
          (\E i \in DOMAIN chan'[j] : chan'[j][i].typ = "change" /\ chan'[j][i].rv = r)
            <=> (\E i \in DOMAIN chan[j] : chan[j][i].typ = "change" /\ chan[j][i].rv = r)
    <3> TAKE j \in Kind
    <3> TAKE r
    <3>1. CASE j = k
      BY <2>1, <3>1
    <3>2. CASE j # k
      BY <2>1, <3>2
    <3> QED
      BY <3>1, <3>2
  <2>5. \A r \in DOMAIN log : KindAt(r) \in Kind
    BY LogType
  <2>6. Chans' = Chans
    BY <2>4, <2>5, SMTT(30) DEF Chans, ChanHas, KindAt
  <2>7. Hands' = Hands
    BY DEF Hands, HandHas, KindAt
  <2> QED
    BY <2>2, <2>3, <2>6, <2>7
<1> QED
  BY <1>1, <1>2

(* A watch opens: the live objects of its kind are replayed. *)
LEMMA AddMoves ==
  ASSUME TypeOK, PlaceInv, \A j \in Kind : ChanOrdered(j), NEW k \in Kind, addSource(k)
  PROVE  /\ opened[k] = -1 /\ UNCHANGED <<log, raw, held, pub, prev>>
         /\ opened' = [opened EXCEPT ![k] = Len(log)]
         /\ Hands' = Hands
         /\ Chans' = Chans \cup {r \in DOMAIN log : Replayed(k, r)}
         /\ \A j \in Kind : ChanOrdered(j)'
         /\ \A j \in Kind : j # k => (Delivering(j)' => Delivering(j))
<1>1. PICK n \in Nat : \E f \in [1 .. n -> DOMAIN log] :
           /\ chan' = [chan EXCEPT ![k] = [i \in 1 .. n |-> [typ |-> "change", rv |-> f[i]]]]
           /\ \A i \in 1 .. n : Replayed(k, f[i])
           /\ \A i, j \in 1 .. n : Same(f[i], f[j]) => i = j
           /\ \A r : Replayed(k, r) => \E i \in 1 .. n : f[i] = r
  BY ReplayIs
<1>2. PICK f \in [1 .. n -> DOMAIN log] :
           /\ chan' = [chan EXCEPT ![k] = [i \in 1 .. n |-> [typ |-> "change", rv |-> f[i]]]]
           /\ \A i \in 1 .. n : Replayed(k, f[i])
           /\ \A i, j \in 1 .. n : Same(f[i], f[j]) => i = j
           /\ \A r : Replayed(k, r) => \E i \in 1 .. n : f[i] = r
  BY <1>1
<1>3. /\ UNCHANGED <<log, raw, held, pub, prev, hand>>
      /\ opened' = [opened EXCEPT ![k] = Len(log)] /\ pump' = [pump EXCEPT ![k] = "recv"]
  BY DEF addSource, merging
<1>4. opened[k] = -1
  <2>1. PICK i \in DOMAIN Kinds : k = Kinds[i] /\ \A j \in DOMAIN Kinds : opened[Kinds[j]] = -1 <=> j >= i
    BY DEF addSource
  <2>2. i >= i
    BY EventStreamAssumption
  <2> QED
    BY <2>1, <2>2
<1>5. pump[k] = "off"
  BY <1>4 DEF PlaceInv, SourceAt
<1>6. DOMAIN chan = Kind /\ DOMAIN pump = Kind
  BY DEF TypeOK
<1>7. /\ DOMAIN chan'[k] = 1 .. n /\ \A i \in 1 .. n : chan'[k][i].typ = "change" /\ chan'[k][i].rv = f[i]
      /\ pump'[k] = "recv"
  <2>1. chan'[k] = [i \in 1 .. n |-> [typ |-> "change", rv |-> f[i]]] /\ pump'[k] = "recv"
    BY <1>2, <1>3, <1>6
  <2> QED
    BY <2>1
<1>8. \A j \in Kind : j # k => chan'[j] = chan[j] /\ pump'[j] = pump[j]
  BY <1>2, <1>3, <1>6
<1>9. ASSUME NEW j \in Kind PROVE ChanOrdered(j)'
  <2>1. CASE j = k
    BY <1>2, <1>3, <1>7, <2>1 DEF ChanOrdered, Same
  <2>2. CASE j # k
    <3>1. ChanOrdered(j)
      OBVIOUS
    <3> QED
      BY <1>3, <1>8, <2>2, <3>1 DEF ChanOrdered, Same
  <2> QED
    BY <2>1, <2>2
<1>10. \A r \in DOMAIN log : KindAt(r) \in Kind /\ KindAt(r)' = KindAt(r)
  BY <1>3, LogType DEF KindAt
<1>11. \A r \in DOMAIN log : KindAt(r) # k => (r \in Chans' <=> r \in Chans) /\ (r \in Hands' <=> r \in Hands)
  BY <1>3, <1>8, <1>10 DEF Chans, ChanHas, Hands, HandHas, KindAt
<1>12. \A r \in DOMAIN log : KindAt(r) = k => r \notin Chans /\ r \notin Hands /\ r \notin Hands'
  BY <1>3, <1>5, <1>7 DEF Chans, ChanHas, Hands, HandHas, KindAt
<1>13. \A r \in DOMAIN log : KindAt(r) = k => (r \in Chans' <=> Replayed(k, r))
  <2> TAKE r \in DOMAIN log
  <2> HAVE KindAt(r) = k
  <2>1. r \in Chans' <=> \E i \in 1 .. n : f[i] = r
    BY <1>3, <1>7 DEF Chans, ChanHas, KindAt
  <2> QED
    BY <1>2, <2>1
<1>14. \A r : Replayed(k, r) => r \in DOMAIN log /\ KindAt(r) = k
  BY DEF Replayed
<1>15. Chans' \subseteq DOMAIN log /\ Chans \subseteq DOMAIN log /\ Hands' \subseteq DOMAIN log /\ Hands \subseteq DOMAIN log
  BY <1>3 DEF Chans, Hands
<1>16. Hands' = Hands
  BY <1>11, <1>12, <1>15
<1>17. Chans' = Chans \cup {r \in DOMAIN log : Replayed(k, r)}
  BY <1>11, <1>12, <1>13, <1>14, <1>15
<1>18. \A j \in Kind : j # k => (Delivering(j)' => Delivering(j))
  BY <1>8 DEF Delivering, Broken
<1> QED
  BY <1>3, <1>4, <1>9, <1>16, <1>17, <1>18

(* A pump ends: what its source had queued is lost. *)
LEMMA StopMoves ==
  ASSUME TypeOK, PlaceInv, NEW k \in Kind, UNCHANGED log,
         \A j \in Kind : j # k => chan'[j] = chan[j] /\ pump'[j] = pump[j] /\ hand'[j] = hand[j],
         pump'[k] = "done"
  PROVE  /\ Hands' = {r \in Hands : KindAt(r) # k} /\ Chans' = {r \in Chans : KindAt(r) # k}
         /\ \A j \in Kind : Delivering(j)' => Delivering(j)
<1>1. \A r \in DOMAIN log : KindAt(r) \in Kind /\ KindAt(r)' = KindAt(r)
  BY LogType DEF KindAt
<1>2. \A r \in DOMAIN log : KindAt(r) # k => (r \in Chans' <=> r \in Chans) /\ (r \in Hands' <=> r \in Hands)
  BY <1>1 DEF Chans, ChanHas, Hands, HandHas, KindAt
<1>3. \A r \in DOMAIN log : KindAt(r) = k => r \notin Chans' /\ r \notin Hands'
  BY DEF Chans, ChanHas, Hands, HandHas, KindAt
<1>4. Chans' \subseteq DOMAIN log /\ Chans \subseteq DOMAIN log /\ Hands' \subseteq DOMAIN log /\ Hands \subseteq DOMAIN log
  BY DEF Chans, Hands
<1>5. Hands' = {r \in Hands : KindAt(r) # k}
  BY <1>2, <1>3, <1>4
<1>6. Chans' = {r \in Chans : KindAt(r) # k}
  BY <1>2, <1>3, <1>4
<1>7. \A j \in Kind : Delivering(j)' => Delivering(j)
  BY DEF Delivering, Broken
<1> QED
  BY <1>5, <1>6, <1>7

(* A pump takes the head of its channel: it has it in hand, or skips it, or  *)
(* ends.                                                                     *)
LEMMA ForwardMoves ==
  ASSUME TypeOK, PlaceInv, \A j \in Kind : ChanOrdered(j), NEW k \in Kind, forward(k)
  PROVE  /\ UNCHANGED <<log, opened, raw, held, pub, prev>>
         /\ \A j \in Kind : ChanOrdered(j)'
         /\ \A j \in Kind : Delivering(j)' => Delivering(j)
         /\ \/ \E x \in Chans : /\ KindAt(x) = k /\ x = Head(chan[k]).rv
                                /\ hand'[k] = [rv |-> x, age |-> 0] /\ pump'[k] = "send"
                                /\ Chans' = Chans \ {x} /\ Hands' = Hands \cup {x}
                                /\ \A s \in Chans' : Same(x, s) => x < s
                                /\ owed' = IF Owing THEN owed \cup {x} ELSE owed
            \/ Chans' = Chans /\ Hands' = Hands /\ UNCHANGED <<pump, hand, err, owed>>
            \/ /\ Chans' = {r \in Chans : KindAt(r) # k} /\ Hands' = {r \in Hands : KindAt(r) # k}
               /\ pump'[k] = "done" /\ UNCHANGED <<hand, owed>> /\ err' = (err \/ ~stop \/ Head(chan[k]).typ = "error")
         /\ \A j \in Kind : j # k => chan'[j] = chan[j] /\ pump'[j] = pump[j] /\ hand'[j] = hand[j]
<1> DEFINE h == chan[k][1]
           x == h.rv
<1>1. chan[k] # <<>> /\ chan' = [chan EXCEPT ![k] = Tail(@)] /\ pump[k] = "recv"
  BY DEF forward
<1>0. DOMAIN chan[k] = 1 .. Len(chan[k]) /\ Len(chan[k]) \in Nat
  BY <1>1, ChanShrinks
<1>2. /\ 1 \in DOMAIN chan[k] /\ Head(chan[k]) = h /\ h \in Change \cup Fault
      /\ \A i \in DOMAIN chan'[k] : i + 1 \in DOMAIN chan[k] /\ i + 1 > 1 /\ chan'[k][i] = chan[k][i + 1] /\ i \in Nat
      /\ \A i \in DOMAIN chan[k] : i # 1 => i - 1 \in DOMAIN chan'[k] /\ chan'[k][i - 1] = chan[k][i]
      /\ \A j \in Kind : j # k => chan'[j] = chan[j]
  BY <1>1, ChanShrinks
<1>3. UNCHANGED <<log, opened, raw, held, pub, prev, stop>>
  BY DEF forward, merging
<1>4. DOMAIN pump = Kind /\ DOMAIN hand = Kind /\ DOMAIN chan = Kind
  BY DEF TypeOK
<1>5. ChanOrdered(k) /\ SourceAt(k)
  BY DEF PlaceInv
<1>6. ASSUME NEW j \in Kind PROVE ChanOrdered(j)'
  <2>1. CASE j = k
    <3> SUFFICES ASSUME NEW i \in DOMAIN chan'[k], NEW i2 \in DOMAIN chan'[k], i < i2,
                        chan'[k][i].typ = "change", chan'[k][i2].typ = "change",
                        Same(chan'[k][i].rv, chan'[k][i2].rv)
                 PROVE  chan'[k][i].rv < chan'[k][i2].rv
      BY <1>3, <2>1 DEF ChanOrdered, Same
    <3>1. i + 1 \in DOMAIN chan[k] /\ i2 + 1 \in DOMAIN chan[k] /\ chan'[k][i] = chan[k][i + 1]
          /\ chan'[k][i2] = chan[k][i2 + 1] /\ i \in Nat /\ i2 \in Nat
      BY <1>2
    <3>2. i + 1 < i2 + 1
      BY <3>1
    <3> QED
      BY <1>5, <3>1, <3>2 DEF ChanOrdered
  <2>2. CASE j # k
    <3>1. ChanOrdered(j) /\ chan'[j] = chan[j]
      BY <1>2, <2>2
    <3> QED
      BY <1>3, <3>1 DEF ChanOrdered, Same
  <2> QED
    BY <2>1, <2>2
<1>7. \A r \in DOMAIN log : KindAt(r) \in Kind /\ KindAt(r)' = KindAt(r)
  BY <1>3, LogType DEF KindAt
<1>8. Chans' \subseteq DOMAIN log /\ Chans \subseteq DOMAIN log /\ Hands' \subseteq DOMAIN log /\ Hands \subseteq DOMAIN log
  BY <1>3 DEF Chans, Hands
<1>9. \A r \in DOMAIN log : KindAt(r) = k => r \notin Hands
  BY <1>1 DEF Hands, HandHas
<1> DEFINE Rest == \A j \in Kind : j # k => chan'[j] = chan[j] /\ pump'[j] = pump[j] /\ hand'[j] = hand[j]
<1>10. ASSUME Rest
       PROVE  \A r \in DOMAIN log : KindAt(r) # k => (r \in Chans' <=> r \in Chans) /\ (r \in Hands' <=> r \in Hands)
  BY <1>3, <1>7, <1>10 DEF Chans, ChanHas, Hands, HandHas, KindAt
<1>11. \A j \in Kind : Rest /\ j # k => (Delivering(j)' => Delivering(j))
  BY DEF Delivering, Broken
<1>12. ASSUME h.typ \notin {"closed", "error"} PROVE Delivering(k)' => Delivering(k)
  <2> SUFFICES ASSUME Broken(k) PROVE Broken(k)'
    BY <1>1 DEF Delivering
  <2>1. PICK i \in DOMAIN chan[k] : chan[k][i].typ \in {"closed", "error"}
    BY DEF Broken
  <2>2. i # 1
    BY <1>12, <2>1
  <2>3. i - 1 \in DOMAIN chan'[k] /\ chan'[k][i - 1].typ \in {"closed", "error"}
    BY <1>2, <2>1, <2>2
  <2> QED
    BY <2>3 DEF Broken
<1>13. CASE h.typ = "change" /\ Accept(k, x)
  <2>1. /\ hand' = [hand EXCEPT ![k] = [rv |-> x, age |-> 0]] /\ pump' = [pump EXCEPT ![k] = "send"]
        /\ owed' = IF Owing THEN owed \cup {x} ELSE owed
    BY <1>13 DEF Accept, Goto
  <2>2. hand'[k] = [rv |-> x, age |-> 0] /\ pump'[k] = "send"
    BY <1>4, <2>1
  <2>3. hand'[k].rv = x
    BY <2>2
  <2>4. Rest
    BY <1>2, <1>4, <2>1
  <2>5. x \in DOMAIN log /\ KindAt(x) = k /\ x \in Nat
    BY <1>2, <1>5, <1>13, LogType DEF SourceAt
  <2>6. x \in Chans
    BY <1>1, <1>2, <1>13, <2>5 DEF Chans, ChanHas
  <2>7. \A i \in DOMAIN chan[k] : i # 1 /\ chan[k][i].typ = "change" /\ Same(x, chan[k][i].rv) => x < chan[k][i].rv
    <3> SUFFICES ASSUME NEW i \in DOMAIN chan[k], i # 1, chan[k][i].typ = "change", Same(x, chan[k][i].rv)
                 PROVE  x < chan[k][i].rv
      OBVIOUS
    <3>1. 1 < i
      BY <1>0
    <3> QED
      BY <1>2, <1>5, <1>13, <3>1 DEF ChanOrdered
  <2>8. \A r \in DOMAIN log : KindAt(r) = k =>
          (r \in Chans' <=> \E i \in DOMAIN chan[k] : i # 1 /\ chan[k][i].typ = "change" /\ chan[k][i].rv = r)
    <3> TAKE r \in DOMAIN log
    <3> HAVE KindAt(r) = k
    <3>1. r \in Chans' <=> \E i \in DOMAIN chan'[k] : chan'[k][i].typ = "change" /\ chan'[k][i].rv = r
      BY <1>3, <2>2 DEF Chans, ChanHas, KindAt
    <3>2. ASSUME NEW i \in DOMAIN chan'[k], chan'[k][i].typ = "change" /\ chan'[k][i].rv = r
          PROVE  \E i2 \in DOMAIN chan[k] : i2 # 1 /\ chan[k][i2].typ = "change" /\ chan[k][i2].rv = r
      <4>1. i + 1 \in DOMAIN chan[k] /\ i + 1 # 1 /\ chan'[k][i] = chan[k][i + 1]
        BY <1>2
      <4> QED
        BY <3>2, <4>1
    <3>3. ASSUME NEW i \in DOMAIN chan[k], i # 1, chan[k][i].typ = "change" /\ chan[k][i].rv = r
          PROVE  \E i2 \in DOMAIN chan'[k] : chan'[k][i2].typ = "change" /\ chan'[k][i2].rv = r
      <4>1. i - 1 \in DOMAIN chan'[k] /\ chan'[k][i - 1] = chan[k][i]
        BY <1>2, <3>3
      <4> QED
        BY <3>3, <4>1
    <3> QED
      BY <3>1, <3>2, <3>3
  <2>9. \A r \in DOMAIN log : KindAt(r) = k =>
          (r \in Chans <=> \E i \in DOMAIN chan[k] : chan[k][i].typ = "change" /\ chan[k][i].rv = r)
    BY <1>1 DEF Chans, ChanHas
  <2>10. Same(x, x) /\ ~(x < x)
    BY <2>5 DEF Same
  <2> HIDE DEF x
  <2>11. \A r \in DOMAIN log : KindAt(r) = k => (r \in Chans' <=> r \in Chans /\ r # x)
    <3> TAKE r \in DOMAIN log
    <3> HAVE KindAt(r) = k
    <3>1. r \in Chans' => r \in Chans /\ r # x
      BY <2>7, <2>8, <2>9, <2>10
    <3>2. r \in Chans /\ r # x => r \in Chans'
      BY <2>8, <2>9 DEF x
    <3> QED
      BY <3>1, <3>2
  <2>12. Chans' = Chans \ {x}
    BY <1>8, <1>10, <2>4, <2>5, <2>11
  <2>13. \A r \in DOMAIN log : KindAt(r) = k => (r \in Hands' <=> r = x)
    BY <1>3, <2>2, <2>3 DEF Hands, HandHas, KindAt
  <2>14. Hands' = Hands \cup {x}
    BY <1>8, <1>9, <1>10, <2>4, <2>5, <2>13
  <2>15. \A s \in Chans' : Same(x, s) => x < s
    <3> TAKE s \in Chans'
    <3> HAVE Same(x, s)
    <3>1. s \in DOMAIN log /\ KindAt(s) = k
      BY <1>8, <2>5 DEF Same, KindAt
    <3> QED
      BY <2>7, <2>8, <3>1
  <2>16. \A j \in Kind : Delivering(j)' => Delivering(j)
    BY <1>11, <1>12, <1>13, <2>4
  <2>17. x = Head(chan[k]).rv
    BY <1>2 DEF x
  <2> QED
    BY <1>3, <1>6, <2>1, <2>2, <2>4, <2>5, <2>6, <2>12, <2>14, <2>15, <2>16, <2>17
<1>14. CASE h.typ = "bookmark" /\ UNCHANGED <<pump, hand, err, owed>>
  <2>1. Rest
    BY <1>2, <1>14
  <2>2. \A r \in DOMAIN log : KindAt(r) = k => (r \in Chans' <=> r \in Chans) /\ (r \in Hands' <=> r \in Hands)
    <3> TAKE r \in DOMAIN log
    <3> HAVE KindAt(r) = k
    <3>1. r \in Chans' <=> \E i \in DOMAIN chan'[k] : chan'[k][i].typ = "change" /\ chan'[k][i].rv = r
      BY <1>1, <1>3, <1>14 DEF Chans, ChanHas, KindAt
    <3>2. r \in Chans <=> \E i \in DOMAIN chan[k] : chan[k][i].typ = "change" /\ chan[k][i].rv = r
      BY <1>1 DEF Chans, ChanHas
    <3>3. ASSUME NEW i \in DOMAIN chan'[k], chan'[k][i].typ = "change" /\ chan'[k][i].rv = r
          PROVE  \E i2 \in DOMAIN chan[k] : chan[k][i2].typ = "change" /\ chan[k][i2].rv = r
      BY <1>2, <3>3
    <3>4. ASSUME NEW i \in DOMAIN chan[k], chan[k][i].typ = "change" /\ chan[k][i].rv = r
          PROVE  \E i2 \in DOMAIN chan'[k] : chan'[k][i2].typ = "change" /\ chan'[k][i2].rv = r
      <4>1. i # 1
        BY <1>14, <3>4
      <4>2. i - 1 \in DOMAIN chan'[k] /\ chan'[k][i - 1] = chan[k][i]
        BY <1>2, <4>1
      <4> QED
        BY <3>4, <4>2
    <3>5. r \in Hands' <=> r \in Hands
      BY <1>3, <1>14 DEF Hands, HandHas, KindAt
    <3> QED
      BY <3>1, <3>2, <3>3, <3>4, <3>5
  <2>3. Chans' = Chans /\ Hands' = Hands
    BY <1>8, <1>10, <2>1, <2>2
  <2>4. \A j \in Kind : Delivering(j)' => Delivering(j)
    BY <1>11, <1>12, <1>14, <2>1
  <2> QED
    BY <1>3, <1>6, <1>14, <2>1, <2>3, <2>4
<1>15. CASE (h.typ = "closed" /\ WatchClosed(k)) \/ (h.typ = "error" /\ WatchErrors(k))
  <2>1. /\ pump' = [pump EXCEPT ![k] = "done"] /\ UNCHANGED <<hand, owed>>
    BY <1>15 DEF WatchClosed, WatchErrors, Goto
  <2>2. err' = (err \/ ~stop \/ h.typ = "error")
    BY <1>15 DEF WatchClosed, WatchErrors
  <2>3. pump'[k] = "done" /\ Rest
    BY <1>2, <1>4, <2>1
  <2>4. /\ Hands' = {r \in Hands : KindAt(r) # k} /\ Chans' = {r \in Chans : KindAt(r) # k}
        /\ \A j \in Kind : Delivering(j)' => Delivering(j)
    BY <1>3, <2>3, StopMoves
  <2> QED
    BY <1>2, <1>3, <1>6, <2>1, <2>2, <2>3, <2>4
<1> QED
  BY <1>2, <1>13, <1>14, <1>15 DEF forward

(* A pump puts what it has in hand on raw. *)
LEMMA SendEmptiesHand ==
  ASSUME TypeOK, PlaceInv, NEW k \in Kind, Send(k)
  PROVE  /\ UNCHANGED <<log, opened, chan, held, pub, prev>>
         /\ Chans' = Chans /\ Hands' = Hands \ {hand[k].rv}
         /\ \A j \in Kind : Delivering(j)' => Delivering(j)
<1>1. /\ UNCHANGED <<log, opened, chan, held, pub, prev>> /\ pump[k] = "send"
      /\ pump' = [pump EXCEPT ![k] = "recv"] /\ hand' = [hand EXCEPT ![k] = Nothing]
  BY DEF Send, Goto, watches, merging
<1>2. DOMAIN pump = Kind /\ DOMAIN hand = Kind
  BY DEF TypeOK
<1>3. /\ pump'[k] = "recv"
      /\ \A j \in Kind : j # k => pump'[j] = pump[j] /\ hand'[j] = hand[j]
  BY <1>1, <1>2
<1>4. \A r \in DOMAIN log : KindAt(r) \in Kind /\ KindAt(r)' = KindAt(r)
  BY <1>1, LogType DEF KindAt
<1>5. \A j \in Kind : pump'[j] \in {"recv", "send"} <=> pump[j] \in {"recv", "send"}
  BY <1>1, <1>3
<1>6. Chans' = Chans
  BY <1>1, <1>4, <1>5 DEF Chans, ChanHas, KindAt
<1>7. \A r \in DOMAIN log : KindAt(r) # k => (r \in Hands' <=> r \in Hands)
  BY <1>1, <1>3, <1>4 DEF Hands, HandHas, KindAt
<1>8. \A r \in DOMAIN log : KindAt(r) = k => r \notin Hands' /\ (r \in Hands => r = hand[k].rv)
  BY <1>1, <1>3 DEF Hands, HandHas, KindAt
<1>9. hand[k].rv \in DOMAIN log /\ KindAt(hand[k].rv) = k
  BY SendMoves DEF Hands
<1>10. Hands' \subseteq DOMAIN log /\ Hands \subseteq DOMAIN log
  BY <1>1 DEF Hands
<1>11. Hands' = Hands \ {hand[k].rv}
  BY <1>7, <1>8, <1>9, <1>10
<1>12. \A j \in Kind : Delivering(j)' => Delivering(j)
  BY <1>1, <1>5 DEF Delivering, Broken
<1> QED
  BY <1>1, <1>6, <1>11, <1>12

(* The reorder buffer stays sorted. *)
LEMMA InsertSorts ==
  ASSUME TypeOK, Sorted(held), NEW ev \in Stamped, ev.rv \notin Helds
  PROVE  Sorted(insertByResourceVersion(ev))
<1> DEFINE S == {j \in DOMAIN held : held[j].rv < ev.rv}
           q == insertByResourceVersion(ev)
<1>1. held \in Seq(Stamped) /\ Len(held) \in Nat /\ DOMAIN held = 1 .. Len(held)
  BY DEF TypeOK
<1>2. ev.rv \in Nat /\ \A j \in DOMAIN held : held[j].rv \in Nat /\ held[j].rv # ev.rv
  <2>1. \A j \in DOMAIN held : held[j] \in Stamped
    BY <1>1, ElementOfSeq
  <2>2. \A j \in DOMAIN held : held[j].rv \in Nat
    BY <2>1, StampedType
  <2>3. \A j \in DOMAIN held : held[j].rv # ev.rv
    BY DEF Helds, VersionsIn
  <2>4. ev.rv \in Nat
    BY StampedType
  <2> QED
    BY <2>2, <2>3, <2>4
<1>3. S \in SUBSET (1 .. Len(held)) /\ \A i \in S : 1 .. i \subseteq S
  <2>1. S \in SUBSET (1 .. Len(held))
    BY <1>1
  <2>2. ASSUME NEW i \in S, NEW j \in 1 .. i PROVE j \in S
    <3>1. j \in DOMAIN held /\ (j = i \/ j < i)
      BY <1>1
    <3>2. j < i => held[j].rv < held[i].rv
      BY <3>1 DEF Sorted
    <3> QED
      BY <1>2, <3>1, <3>2
  <2> QED
    BY <2>1, <2>2
<1>4. q = InsertAt(held, Cardinality(S) + 1, ev)
  BY DEF insertByResourceVersion
<1>5. \A j \in DOMAIN held : j \in S <=> held[j].rv < ev.rv
  OBVIOUS
<1> HIDE DEF S, q
<1>6. Cardinality(S) \in 0 .. Len(held) /\ S = 1 .. Cardinality(S)
  BY <1>1, <1>3, InitialSegment
<1>7. PICK i \in 1 .. Len(held) + 1 : i = Cardinality(S) + 1 /\ Cardinality(S) = i - 1
  BY <1>1, <1>6
<1>8. S = 1 .. i - 1 /\ q = InsertAt(held, i, ev)
  BY <1>4, <1>6, <1>7
<1>9. /\ q \in Seq(Stamped) /\ Len(q) = Len(held) + 1
      /\ \A j \in 1 .. i - 1 : q[j] = held[j]
      /\ q[i] = ev
      /\ \A j \in i + 1 .. Len(held) + 1 : q[j] = held[j - 1]
  <2> DEFINE z == InsertAt(held, i, ev)
  <2>1. held \in Seq(Stamped) /\ ev \in Stamped /\ i \in 1 .. Len(held) + 1
    BY <1>1
  <2> HIDE DEF z
  <2>2. /\ z \in Seq(Stamped) /\ Len(z) = Len(held) + 1
        /\ \A j \in 1 .. i - 1 : z[j] = held[j]
        /\ z[i] = ev
        /\ \A j \in i + 1 .. Len(held) + 1 : z[j] = held[j - 1]
    BY <2>1, InsertAtIs DEF z
  <2>3. q = z
    BY <1>8 DEF z
  <2> QED
    BY <2>2, <2>3
<1>10. DOMAIN q = 1 .. Len(held) + 1
  BY <1>9
<1>11. \A j \in 1 .. i - 1 : q[j].rv < ev.rv /\ j \in DOMAIN held
  <2> TAKE j \in 1 .. i - 1
  <2>1. j \in DOMAIN held /\ j \in S /\ q[j] = held[j]
    BY <1>1, <1>8, <1>9
  <2> QED
    BY <1>5, <2>1
<1>12. ASSUME NEW j \in i + 1 .. Len(held) + 1 PROVE ev.rv < q[j].rv /\ j - 1 \in DOMAIN held
  <2>1. j - 1 \in DOMAIN held /\ j - 1 \notin S
    BY <1>1, <1>8
  <2> QED
    BY <1>2, <1>5, <1>9, <2>1
<1>13. ASSUME NEW a \in DOMAIN q, NEW b \in DOMAIN q, a < b PROVE q[a].rv < q[b].rv
  <2>1. CASE b <= i - 1
    <3>1. a \in 1 .. i - 1 /\ b \in 1 .. i - 1
      BY <1>1, <1>10, <1>13, <2>1
    <3> QED
      BY <1>9, <1>11, <1>13, <3>1 DEF Sorted
  <2>2. CASE b = i
    <3>1. a \in 1 .. i - 1
      BY <1>1, <1>10, <1>13, <2>2
    <3> QED
      BY <1>9, <1>11, <2>2, <3>1
  <2>3. CASE b > i /\ a < i
    <3>1. a \in 1 .. i - 1 /\ b \in i + 1 .. Len(held) + 1
      BY <1>1, <1>10, <2>3
    <3>2. q[a].rv < ev.rv /\ ev.rv < q[b].rv /\ q[a] = held[a] /\ a \in DOMAIN held
      BY <1>9, <1>11, <1>12, <3>1
    <3>3. q[b] = held[b - 1] /\ b - 1 \in DOMAIN held
      BY <1>9, <1>12, <3>1
    <3> QED
      BY <1>2, <3>2, <3>3
  <2>4. CASE a = i
    <3>1. b \in i + 1 .. Len(held) + 1
      BY <1>1, <1>10, <1>13, <2>4
    <3> QED
      BY <1>9, <1>12, <2>4, <3>1
  <2>5. CASE a > i
    <3>1. a \in i + 1 .. Len(held) + 1 /\ b \in i + 1 .. Len(held) + 1 /\ a - 1 < b - 1
      BY <1>1, <1>10, <1>13, <2>5
    <3>2. q[a] = held[a - 1] /\ q[b] = held[b - 1] /\ a - 1 \in DOMAIN held /\ b - 1 \in DOMAIN held
      BY <1>9, <1>12, <3>1
    <3> QED
      BY <3>1, <3>2 DEF Sorted
  <2> QED
    BY <1>1, <1>10, <1>13, <2>1, <2>2, <2>3, <2>4, <2>5
<1> QED
  BY <1>13 DEF Sorted, q

(* Taking the head keeps a queue in order, and the head is the oldest. *)
LEMMA TailOrder ==
  ASSUME NEW T, NEW q \in Seq(T), q # <<>>
  PROVE  /\ Head(q) = q[1] /\ 1 \in DOMAIN q
         /\ \A i \in DOMAIN Tail(q) : i \in Nat /\ i + 1 \in DOMAIN q /\ 1 < i + 1 /\ Tail(q)[i] = q[i + 1]
<1>1. /\ Len(q) \in Nat /\ DOMAIN q = 1 .. Len(q) /\ Len(q) >= 1 /\ DOMAIN Tail(q) = 1 .. Len(q) - 1
      /\ \A i \in 1 .. Len(q) - 1 : Tail(q)[i] = q[i + 1]
      /\ Head(q) = q[1]
  OBVIOUS
<1> QED
  BY <1>1

LEMMA OrderInductive ==
  ASSUME TypeOK, PlaceInv, OrderInv, [Next]_vars
  PROVE  OrderInv'
<1> USE DEF watches, merging, reader
<1>0. /\ \A k \in Kind : ChanOrdered(k)
      /\ RawOrdered /\ Sorted(held)
      /\ Precede(Pubs, Helds \cup Raws \cup Hands \cup Chans)
      /\ Precede(Helds, Raws \cup Hands \cup Chans)
      /\ Precede(Raws, Hands \cup Chans)
      /\ Precede(Hands, Chans)
      /\ \A r \in Raws \cup Helds \cup Pubs : opened[KindAt(r)] >= 0
  BY DEF OrderInv
<1>a. /\ Pubs \subseteq DOMAIN log /\ Helds \subseteq DOMAIN log /\ Raws \subseteq DOMAIN log
      /\ Hands \subseteq DOMAIN log /\ Chans \subseteq DOMAIN log
  BY DEF PlaceInv, Hands, Chans
<1>b. \A r \in Hands \cup Chans : opened[KindAt(r)] >= 0
  <2> SUFFICES ASSUME NEW r \in Hands \cup Chans PROVE opened[KindAt(r)] >= 0
    OBVIOUS
  <2>1. KindAt(r) \in Kind /\ pump[KindAt(r)] # "off"
    BY <1>a, LogType DEF Hands, HandHas, Chans, ChanHas
  <2>2. opened[KindAt(r)] \in -1 .. MaxEvents /\ opened[KindAt(r)] # -1
    BY <2>1 DEF PlaceInv, SourceAt, TypeOK
  <2> QED
    BY <2>2, EventStreamAssumption
<1>1. ASSUME NEW o \in Obj, NEW d \in Doc \cup {Absent}, Write(o, d) PROVE OrderInv'
  <2>1. PICK n \in Version : n = Len(log) + 1
    BY <1>1, LogGrows
  <2>2. /\ \A r \in DOMAIN log : log'[r] = log[r] /\ r < n
    BY <1>1, <2>1, LogGrows
  <2>3. /\ Hands' = Hands /\ UNCHANGED <<raw, held, pub, opened>>
        /\ \A j \in Kind : ChanOrdered(j)'
        /\ Chans' \subseteq Chans \cup {n}
    BY <1>0, <1>1, <2>1, WriteMoves
  <2>4. Raws' = Raws /\ Helds' = Helds /\ Pubs' = Pubs
    BY <2>3 DEF Raws, Helds, Pubs
  <2>5. \A r, s \in DOMAIN log : Same(r, s)' <=> Same(r, s)
    BY <2>2 DEF Same
  <2>6. RawOrdered'
    <3>1. \A i \in DOMAIN raw : raw[i].rv \in DOMAIN log
      BY <1>a DEF Raws, VersionsIn
    <3> QED
      BY <1>0, <2>2, <2>3, <3>1 DEF RawOrdered, Same
  <2>7. Sorted(held')
    BY <1>0, <2>3
  <2>8. ASSUME NEW A \in SUBSET (DOMAIN log), NEW B \in SUBSET (DOMAIN log), Precede(A, B),
               NEW C \in SUBSET (B \cup {n})
        PROVE  \A r \in A, s \in C : log'[r].obj = log'[s].obj => r < s
    BY <2>2, <2>8 DEF Precede, Same
  <2>9. /\ Precede(Pubs, Helds \cup Raws \cup Hands \cup Chans)'
        /\ Precede(Helds, Raws \cup Hands \cup Chans)'
        /\ Precede(Raws, Hands \cup Chans)'
        /\ Precede(Hands, Chans)'
    <3>1. \A r \in Pubs, s \in Helds \cup Raws \cup Hands \cup Chans' : log'[r].obj = log'[s].obj => r < s
      BY <1>0, <1>a, <2>3, <2>8
    <3>2. \A r \in Helds, s \in Raws \cup Hands \cup Chans' : log'[r].obj = log'[s].obj => r < s
      BY <1>0, <1>a, <2>3, <2>8
    <3>3. \A r \in Raws, s \in Hands \cup Chans' : log'[r].obj = log'[s].obj => r < s
      BY <1>0, <1>a, <2>3, <2>8
    <3>4. \A r \in Hands, s \in Chans' : log'[r].obj = log'[s].obj => r < s
      BY <1>0, <1>a, <2>3, <2>8
    <3> QED
      BY <2>3, <2>4, <3>1, <3>2, <3>3, <3>4 DEF Precede, Same
  <2>10. \A r \in Raws' \cup Helds' \cup Pubs' : opened'[KindAt(r)'] >= 0
    BY <1>0, <1>a, <2>2, <2>3, <2>4 DEF KindAt
  <2> QED
    BY <2>3, <2>6, <2>7, <2>9, <2>10 DEF OrderInv, KindAt
<1>2. ASSUME UNCHANGED <<log, raw, held, pub, opened>>, \A j \in Kind : ChanOrdered(j)',
             Hands' \subseteq Hands, Chans' \subseteq Chans
      PROVE  OrderInv'
  <2>1. Raws' = Raws /\ Helds' = Helds /\ Pubs' = Pubs
    BY <1>2 DEF Raws, Helds, Pubs
  <2>2. RawOrdered' /\ Sorted(held')
    BY <1>0, <1>2 DEF RawOrdered, Same
  <2>3. /\ Precede(Pubs, Helds \cup Raws \cup Hands \cup Chans)'
        /\ Precede(Helds, Raws \cup Hands \cup Chans)'
        /\ Precede(Raws, Hands \cup Chans)'
        /\ Precede(Hands, Chans)'
    BY <1>0, <1>2, <2>1 DEF Precede, Same
  <2> QED
    BY <1>0, <1>2, <2>1, <2>2, <2>3 DEF OrderInv, KindAt
<1>3. ASSUME NEW k \in Kind, NEW f \in Faults, Disturb(k, f) PROVE OrderInv'
  <2> DEFINE ev == [typ |-> f, rv |-> 0]
  <2>1. ev \in Change \cup Fault /\ ev.typ # "change"
    BY EventStreamAssumption DEF Fault
  <2>2. /\ UNCHANGED <<log, opened, pump, hand, raw, held, pub>>
        /\ chan' = chan \/ chan' = [chan EXCEPT ![k] = Append(@, ev)]
    BY <1>3 DEF Disturb, Deliver
  <2> HIDE DEF ev
  <2>3. Hands' = Hands /\ Chans' = Chans /\ \A j \in Kind : ChanOrdered(j)'
    BY <1>0, <2>1, <2>2, FaultMoves
  <2> QED
    BY <1>2, <2>2, <2>3
<1>4. ASSUME NEW k \in Kind, StopWatcher(k) PROVE OrderInv'
  <2> DEFINE ev == [typ |-> "closed", rv |-> 0]
  <2>1. ev \in Change \cup Fault /\ ev.typ # "change"
    BY EventStreamAssumption DEF Fault
  <2>2. /\ UNCHANGED <<log, opened, pump, hand, raw, held, pub>>
        /\ chan' = [chan EXCEPT ![k] = Append(@, ev)]
    BY <1>4 DEF StopWatcher
  <2> HIDE DEF ev
  <2>3. Hands' = Hands /\ Chans' = Chans /\ \A j \in Kind : ChanOrdered(j)'
    BY <1>0, <2>1, <2>2, FaultMoves
  <2> QED
    BY <1>2, <2>2, <2>3
<1>5. ASSUME NEW k \in Kind, addSource(k) PROVE OrderInv'
  <2>1. /\ UNCHANGED <<log, raw, held, pub>> /\ Hands' = Hands /\ \A j \in Kind : ChanOrdered(j)'
        /\ Chans' = Chans \cup {r \in DOMAIN log : Replayed(k, r)}
    BY <1>0, <1>5, AddMoves
  <2>2. Raws' = Raws /\ Helds' = Helds /\ Pubs' = Pubs
    BY <2>1 DEF Raws, Helds, Pubs
  <2>3. RawOrdered' /\ Sorted(held')
    BY <1>0, <2>1 DEF RawOrdered, Same
  <2>4. \A r \in Raws \cup Helds \cup Pubs \cup Hands \cup Chans, s \in DOMAIN log :
          Replayed(k, s) => ~Same(r, s)
    <3>1. opened[k] = -1
      BY <1>0, <1>5, AddMoves
    <3> QED
      BY <1>0, <1>b, <3>1 DEF Replayed, Same, KindAt
  <2>5. /\ Precede(Pubs, Helds \cup Raws \cup Hands \cup Chans)'
        /\ Precede(Helds, Raws \cup Hands \cup Chans)'
        /\ Precede(Raws, Hands \cup Chans)'
        /\ Precede(Hands, Chans)'
    <3>1. \A r, s : Same(r, s)' <=> Same(r, s)
      BY <2>1 DEF Same
    <3> HIDE DEF Same
    <3>2. \A A, B : Precede(A, B) => \A r \in A, s \in B : Same(r, s) => r < s
      BY DEF Precede
    <3>3. /\ \A r \in Pubs, s \in Helds \cup Raws \cup Hands \cup Chans' : Same(r, s) => r < s
          /\ \A r \in Helds, s \in Raws \cup Hands \cup Chans' : Same(r, s) => r < s
          /\ \A r \in Raws, s \in Hands \cup Chans' : Same(r, s) => r < s
          /\ \A r \in Hands, s \in Chans' : Same(r, s) => r < s
      BY <1>0, <2>1, <2>4, <3>2
    <3> QED
      BY <2>1, <2>2, <3>3 DEF Precede, Same
  <2>6. \A r \in Raws' \cup Helds' \cup Pubs' : opened'[KindAt(r)'] >= 0
    <3>1. opened' = [opened EXCEPT ![k] = Len(log)] /\ Len(log) \in Nat
      BY <1>0, <1>5, AddMoves, LogType
    <3>2. \A r \in Raws \cup Helds \cup Pubs : KindAt(r) \in Kind
      BY <1>a, LogType
    <3>3. opened \in [Kind -> -1 .. MaxEvents]
      BY DEF TypeOK
    <3> QED
      BY <1>0, <2>1, <2>2, <3>1, <3>2, <3>3 DEF KindAt
  <2> QED
    BY <2>1, <2>3, <2>5, <2>6 DEF OrderInv, KindAt
<1>6. ASSUME NEW k \in Kind, PumpStops(k) PROVE OrderInv'
  <2>1. /\ UNCHANGED <<log, chan, opened, raw, held, pub>>
        /\ pump' = [pump EXCEPT ![k] = "done"] /\ hand' = [hand EXCEPT ![k] = Nothing]
    BY <1>6 DEF PumpStops, Goto
  <2>2. DOMAIN pump = Kind /\ DOMAIN hand = Kind
    BY DEF TypeOK
  <2>3. /\ pump'[k] = "done"
        /\ \A j \in Kind : j # k => chan'[j] = chan[j] /\ pump'[j] = pump[j] /\ hand'[j] = hand[j]
    BY <2>1, <2>2
  <2>4. Hands' \subseteq Hands /\ Chans' \subseteq Chans
    BY <2>1, <2>3, StopMoves
  <2>5. \A j \in Kind : ChanOrdered(j)'
    BY <1>0, <2>1 DEF ChanOrdered, Same
  <2> QED
    BY <1>2, <2>1, <2>4, <2>5
<1>7. ASSUME NEW k \in Kind, forward(k) PROVE OrderInv'
  <2>1. /\ UNCHANGED <<log, opened, raw, held, pub>>
        /\ \A j \in Kind : ChanOrdered(j)'
        /\ \/ \E x \in Chans : /\ Chans' = Chans \ {x} /\ Hands' = Hands \cup {x}
                               /\ \A s \in Chans' : Same(x, s) => x < s
           \/ Chans' \subseteq Chans /\ Hands' \subseteq Hands
    <3>1. Chans' = {r \in Chans : KindAt(r) # k} => Chans' \subseteq Chans
      OBVIOUS
    <3>2. Hands' = {r \in Hands : KindAt(r) # k} => Hands' \subseteq Hands
      OBVIOUS
    <3> QED
      BY <1>0, <1>7, <3>1, <3>2, ForwardMoves
  <2>2. CASE Chans' \subseteq Chans /\ Hands' \subseteq Hands
    BY <1>2, <2>1, <2>2
  <2>3. ASSUME NEW x \in Chans, Chans' = Chans \ {x}, Hands' = Hands \cup {x},
               \A s \in Chans' : Same(x, s) => x < s
        PROVE  OrderInv'
    <3>1. Raws' = Raws /\ Helds' = Helds /\ Pubs' = Pubs
      BY <2>1 DEF Raws, Helds, Pubs
    <3>2. RawOrdered' /\ Sorted(held')
      BY <1>0, <2>1 DEF RawOrdered, Same
    <3>3. /\ \A r \in Pubs, s \in Helds \cup Raws \cup Hands' \cup Chans' : Same(r, s) => r < s
          /\ \A r \in Helds, s \in Raws \cup Hands' \cup Chans' : Same(r, s) => r < s
          /\ \A r \in Raws, s \in Hands' \cup Chans' : Same(r, s) => r < s
          /\ \A r \in Hands', s \in Chans' : Same(r, s) => r < s
      BY <1>0, <2>3 DEF Precede
    <3>4. /\ Precede(Pubs, Helds \cup Raws \cup Hands \cup Chans)'
          /\ Precede(Helds, Raws \cup Hands \cup Chans)'
          /\ Precede(Raws, Hands \cup Chans)'
          /\ Precede(Hands, Chans)'
      BY <2>1, <3>1, <3>3 DEF Precede, Same
    <3> QED
      BY <1>0, <2>1, <3>1, <3>2, <3>4 DEF OrderInv, KindAt
  <2> QED
    BY <2>1, <2>2, <2>3
<1>8. ASSUME NEW k \in Kind, Send(k) PROVE OrderInv'
  <2>1. /\ UNCHANGED <<log, opened, chan, held, pub>>
        /\ Chans' = Chans /\ Hands' = Hands \ {hand[k].rv}
    BY <1>8, SendEmptiesHand
  <2>2. /\ hand[k] \in Stamped /\ hand[k].rv \in Hands
        /\ raw' = Append(raw, hand[k]) /\ raw \in Seq(Stamped)
        /\ Raws' = Raws \cup {hand[k].rv}
    BY <1>8, SendMoves
  <2> DEFINE x == hand[k].rv
  <2>3. Helds' = Helds /\ Pubs' = Pubs
    BY <2>1 DEF Helds, Pubs
  <2>4. RawOrdered'
    <3> SUFFICES ASSUME NEW i \in DOMAIN raw', NEW j \in DOMAIN raw', i < j, Same(raw'[i].rv, raw'[j].rv)
                 PROVE  raw'[i].rv < raw'[j].rv
      BY <2>1 DEF RawOrdered, Same
    <3>1. /\ Len(raw) \in Nat /\ DOMAIN raw = 1 .. Len(raw) /\ DOMAIN raw' = 1 .. Len(raw) + 1
          /\ raw'[Len(raw) + 1] = hand[k] /\ \A y \in DOMAIN raw : raw'[y] = raw[y]
      BY <2>2
    <3>2. i \in DOMAIN raw /\ raw'[i] = raw[i] /\ raw[i].rv \in Raws
      BY <3>1 DEF Raws, VersionsIn
    <3>3. CASE j \in DOMAIN raw
      BY <1>0, <3>1, <3>2, <3>3 DEF RawOrdered
    <3>4. CASE j = Len(raw) + 1
      BY <1>0, <2>2, <3>1, <3>2, <3>4 DEF Precede
    <3> QED
      BY <3>1, <3>3, <3>4
  <2>5. Sorted(held') /\ \A j \in Kind : ChanOrdered(j)'
    BY <1>0, <2>1 DEF ChanOrdered, Same
  <2> HIDE DEF x
  <2>6. x \in Hands /\ Hands' \subseteq Hands /\ Raws' = Raws \cup {x} /\ x \notin Hands'
    BY <2>1, <2>2 DEF x
  <2>7. \A s \in Hands' : ~Same(x, s)
    <3> SUFFICES ASSUME NEW s \in Hands', Same(x, s) PROVE FALSE
      OBVIOUS
    <3>1. s \in Hands /\ x \in Hands /\ s # x
      BY <2>6
    <3>2. KindAt(s) = KindAt(x)
      BY DEF Same, KindAt
    <3> QED
      BY <3>1, <3>2 DEF Hands, HandHas
  <2>8. /\ \A r \in Pubs, s \in Helds \cup Raws' \cup Hands' \cup Chans : Same(r, s) => r < s
        /\ \A r \in Helds, s \in Raws' \cup Hands' \cup Chans : Same(r, s) => r < s
        /\ \A r \in Raws', s \in Hands' \cup Chans : Same(r, s) => r < s
        /\ \A r \in Hands', s \in Chans : Same(r, s) => r < s
    BY <1>0, <2>6, <2>7 DEF Precede
  <2>9. /\ Precede(Pubs, Helds \cup Raws \cup Hands \cup Chans)'
        /\ Precede(Helds, Raws \cup Hands \cup Chans)'
        /\ Precede(Raws, Hands \cup Chans)'
        /\ Precede(Hands, Chans)'
    BY <2>1, <2>3, <2>8 DEF Precede, Same
  <2>10. \A r \in Raws' \cup Helds' \cup Pubs' : opened[KindAt(r)] >= 0
    BY <1>0, <1>b, <2>3, <2>6
  <2> QED
    BY <2>1, <2>4, <2>5, <2>9, <2>10 DEF OrderInv, KindAt
<1>9. CASE Receive
  <2> DEFINE x == Head(raw).rv
  <2>1. /\ Head(raw) \in Stamped
        /\ raw' = Tail(raw) /\ held' = insertByResourceVersion(Head(raw))
        /\ Raws = Raws' \cup {x} /\ Helds' = Helds \cup {x}
    BY <1>9, ReceiveMoves
  <2>2. UNCHANGED <<log, chan, opened, pump, hand, pub>> /\ raw # <<>> /\ raw \in Seq(Stamped)
    BY <1>9 DEF Receive, TypeOK
  <2>3. Chans' = Chans /\ Hands' = Hands /\ Pubs' = Pubs
    BY <2>2 DEF Chans, ChanHas, Hands, HandHas, Pubs, KindAt
  <2>4. /\ Head(raw) = raw[1] /\ 1 \in DOMAIN raw
        /\ \A i \in DOMAIN raw' : i \in Nat /\ i + 1 \in DOMAIN raw /\ 1 < i + 1 /\ raw'[i] = raw[i + 1]
    BY <2>1, <2>2, TailOrder
  <2>5. RawOrdered'
    <3> SUFFICES ASSUME NEW i \in DOMAIN raw', NEW j \in DOMAIN raw', i < j, Same(raw'[i].rv, raw'[j].rv)
                 PROVE  raw'[i].rv < raw'[j].rv
      BY <2>2 DEF RawOrdered, Same
    <3>1. /\ i + 1 \in DOMAIN raw /\ j + 1 \in DOMAIN raw /\ i + 1 < j + 1
          /\ raw'[i] = raw[i + 1] /\ raw'[j] = raw[j + 1]
      BY <2>4
    <3> QED
      BY <1>0, <3>1 DEF RawOrdered
  <2>6. \A s \in Raws' : Same(x, s) => x < s
    <3> SUFFICES ASSUME NEW i \in DOMAIN raw', Same(x, raw'[i].rv) PROVE x < raw'[i].rv
      BY DEF Raws, VersionsIn
    <3> QED
      BY <1>0, <2>4 DEF RawOrdered
  <2> HIDE DEF x
  <2>7. x \notin Helds
    <3>1. x \in Raws /\ Same(x, x) /\ x \in Nat
      BY <1>a, <2>1, LogType DEF Same
    <3> QED
      BY <1>0, <3>1 DEF Precede
  <2>8. Sorted(held')
    BY <1>0, <2>1, <2>7, InsertSorts DEF x
  <2>9. /\ \A r \in Pubs, s \in Helds' \cup Raws' \cup Hands \cup Chans : Same(r, s) => r < s
        /\ \A r \in Helds', s \in Raws' \cup Hands \cup Chans : Same(r, s) => r < s
        /\ \A r \in Raws', s \in Hands \cup Chans : Same(r, s) => r < s
        /\ \A r \in Hands, s \in Chans : Same(r, s) => r < s
    BY <1>0, <2>1, <2>6 DEF Precede
  <2>10. /\ Precede(Pubs, Helds \cup Raws \cup Hands \cup Chans)'
         /\ Precede(Helds, Raws \cup Hands \cup Chans)'
         /\ Precede(Raws, Hands \cup Chans)'
         /\ Precede(Hands, Chans)'
    BY <2>2, <2>3, <2>9 DEF Precede, Same
  <2>11. \A j \in Kind : ChanOrdered(j)'
    BY <1>0, <2>2 DEF ChanOrdered, Same
  <2>12. \A r \in Raws' \cup Helds' \cup Pubs' : opened[KindAt(r)] >= 0
    BY <1>0, <2>1, <2>3
  <2> QED
    BY <2>2, <2>5, <2>8, <2>10, <2>11, <2>12 DEF OrderInv, KindAt
<1>10. CASE emitRipe
  <2> DEFINE x == Head(held).rv
  <2>1. /\ held' = Tail(held) /\ held \in Seq(Stamped) /\ held # <<>>
        /\ Helds = Helds' \cup {x} /\ x \in Helds
        /\ Pubs' = Pubs \cup {x}
    BY <1>10, EmitMoves
  <2>2. UNCHANGED <<log, chan, opened, pump, hand, raw>>
    BY <1>10 DEF emitRipe
  <2>3. Chans' = Chans /\ Hands' = Hands /\ Raws' = Raws
    BY <2>2 DEF Chans, ChanHas, Hands, HandHas, Raws, KindAt
  <2>4. /\ Head(held) = held[1] /\ 1 \in DOMAIN held
        /\ \A i \in DOMAIN held' : i \in Nat /\ i + 1 \in DOMAIN held /\ 1 < i + 1 /\ held'[i] = held[i + 1]
    BY <2>1, TailOrder
  <2>5. Sorted(held')
    <3> SUFFICES ASSUME NEW i \in DOMAIN held', NEW j \in DOMAIN held', i < j
                 PROVE  held'[i].rv < held'[j].rv
      BY DEF Sorted
    <3>1. /\ i + 1 \in DOMAIN held /\ j + 1 \in DOMAIN held /\ i + 1 < j + 1
          /\ held'[i] = held[i + 1] /\ held'[j] = held[j + 1]
      BY <2>4
    <3> QED
      BY <1>0, <3>1 DEF Sorted
  <2>6. \A s \in Helds' : x < s
    <3> SUFFICES ASSUME NEW i \in DOMAIN held' PROVE x < held'[i].rv
      BY DEF Helds, VersionsIn
    <3> QED
      BY <1>0, <2>4 DEF Sorted
  <2> HIDE DEF x
  <2>7. /\ \A r \in Pubs', s \in Helds' \cup Raws \cup Hands \cup Chans : Same(r, s) => r < s
        /\ \A r \in Helds', s \in Raws \cup Hands \cup Chans : Same(r, s) => r < s
        /\ \A r \in Raws, s \in Hands \cup Chans : Same(r, s) => r < s
        /\ \A r \in Hands, s \in Chans : Same(r, s) => r < s
    BY <1>0, <2>1, <2>6 DEF Precede
  <2>8. /\ Precede(Pubs, Helds \cup Raws \cup Hands \cup Chans)'
        /\ Precede(Helds, Raws \cup Hands \cup Chans)'
        /\ Precede(Raws, Hands \cup Chans)'
        /\ Precede(Hands, Chans)'
    BY <2>2, <2>3, <2>7 DEF Precede, Same
  <2>9. RawOrdered' /\ \A j \in Kind : ChanOrdered(j)'
    BY <1>0, <2>2 DEF RawOrdered, ChanOrdered, Same
  <2>10. \A r \in Raws' \cup Helds' \cup Pubs' : opened[KindAt(r)] >= 0
    BY <1>0, <2>1, <2>3
  <2> QED
    BY <2>2, <2>5, <2>8, <2>9, <2>10 DEF OrderInv, KindAt
<1>11. CASE Tick
  <2>1. /\ UNCHANGED <<log, chan, opened, pump, pub>>
        /\ raw' = [i \in DOMAIN raw |-> Aged(raw[i])] /\ held' = [i \in DOMAIN held |-> Aged(held[i])]
        /\ \A k \in Kind : hand'[k] = Aged(hand[k])
    BY <1>11 DEF Tick
  <2>2. raw \in Seq(Stamped) /\ held \in Seq(Stamped) /\ hand \in [Kind -> Stamped \cup {Nothing}]
    BY DEF TypeOK
  <2>3. /\ DOMAIN raw' = DOMAIN raw /\ \A i \in DOMAIN raw : raw'[i].rv = raw[i].rv
        /\ DOMAIN held' = DOMAIN held /\ \A i \in DOMAIN held : held'[i].rv = held[i].rv
        /\ \A k \in Kind : hand'[k].rv = hand[k].rv
    <3>1. /\ \A i \in DOMAIN raw : raw[i] \in Stamped \cup {Nothing}
          /\ \A i \in DOMAIN held : held[i] \in Stamped \cup {Nothing}
          /\ \A k \in Kind : hand[k] \in Stamped \cup {Nothing}
      BY <2>2, ElementOfSeq
    <3> QED
      BY <2>1, <3>1, StampedType
  <2>4. RawOrdered' /\ Sorted(held')
    BY <1>0, <2>1, <2>3 DEF RawOrdered, Sorted, Same
  <2>5. Raws' = Raws /\ Helds' = Helds /\ Pubs' = Pubs
    BY <2>1, <2>2, VersionsAged DEF Raws, Helds, Pubs
  <2>6. \A r \in DOMAIN log : KindAt(r) \in Kind
    BY LogType
  <2>7. Chans' = Chans /\ Hands' = Hands
    BY <2>1, <2>3, <2>6 DEF Chans, ChanHas, Hands, HandHas, KindAt
  <2>8. /\ Precede(Pubs, Helds \cup Raws \cup Hands \cup Chans)'
        /\ Precede(Helds, Raws \cup Hands \cup Chans)'
        /\ Precede(Raws, Hands \cup Chans)'
        /\ Precede(Hands, Chans)'
    BY <1>0, <2>1, <2>5, <2>7 DEF Precede, Same
  <2>9. \A j \in Kind : ChanOrdered(j)'
    BY <1>0, <2>1 DEF ChanOrdered, Same
  <2> QED
    BY <1>0, <2>1, <2>4, <2>5, <2>8, <2>9 DEF OrderInv, KindAt
<1>12. ASSUME UNCHANGED <<log, chan, opened, pump, hand, raw, held, pub>>
       PROVE  OrderInv'
  <2>1. Chans' = Chans /\ Hands' = Hands /\ \A j \in Kind : ChanOrdered(j)'
    BY <1>0, <1>12 DEF Chans, ChanHas, Hands, HandHas, KindAt, ChanOrdered, Same
  <2> QED
    BY <1>2, <1>12, <2>1
<1>13. ASSUME NEW c \in Reads, Call(c) PROVE OrderInv'
  BY <1>12, <1>13 DEF Call
<1>14. CASE ReaderStep
  BY <1>12, <1>14 DEF ReaderStep, Next_Event, Next_Ends, Drain_Wakes, Drain_Takes, Drain_Ends
<1>15. CASE \/ watch \/ shutdown \/ Join \/ MergeStops \/ Poll \/ Drained \/ NoneRipe \/ emit
            \/ UNCHANGED vars
  BY <1>12, <1>15 DEF watch, shutdown, Join, MergeStops, Poll, Drained, NoneRipe, emit, vars
<1> QED
  BY <1>1, <1>3, <1>4, <1>5, <1>6, <1>7, <1>8, <1>9, <1>10, <1>11, <1>13, <1>14, <1>15
     DEF Next, PumpStep, MergeStep
------------------------------------------------------------------------------
(* What the merge knew when it drained raw is held or published until it     *)
(* has emitted.                                                              *)
KnownInv ==
  /\ mpc = "clock" => known \subseteq Helds \cup Pubs
  /\ OvertakesOnlyTheUnseen

LEMMA KnownInductive ==
  ASSUME TypeOK, PlaceInv, OrderInv, KnownInv, [Next]_vars
  PROVE  KnownInv'
<1> USE DEF watches, merging, reader
<1>1. ASSUME UNCHANGED <<held, pub, known>>, mpc' = mpc \/ mpc' # "clock" PROVE KnownInv'
  BY <1>1 DEF KnownInv, OvertakesOnlyTheUnseen, Helds, Pubs
<1>2. ASSUME UNCHANGED <<mpc, pub, known>>, Helds' = Helds PROVE KnownInv'
  BY <1>2 DEF KnownInv, OvertakesOnlyTheUnseen, Pubs
<1>3. CASE Tick
  <2>1. /\ UNCHANGED <<mpc, pub, known>> /\ held' = [i \in DOMAIN held |-> Aged(held[i])]
        /\ held \in Seq(Stamped)
    BY <1>3 DEF Tick, TypeOK
  <2>2. Helds' = Helds
    BY <2>1, VersionsAged DEF Helds
  <2> QED
    BY <1>2, <2>1, <2>2
<1>4. CASE Receive
  BY <1>4 DEF Receive, KnownInv, OvertakesOnlyTheUnseen
<1>5. CASE Drained
  <2>1. raw = <<>> /\ UNCHANGED <<held, pub>> /\ known' = Raws \cup Helds \cup Pubs
    BY <1>5 DEF Drained, drainQueued, Raws, Helds, Pubs
  <2>2. Raws = {}
    BY <2>1 DEF Raws, VersionsIn
  <2> QED
    BY <2>1, <2>2 DEF KnownInv, OvertakesOnlyTheUnseen, Helds, Pubs
<1>6. CASE NoneRipe
  BY <1>6 DEF NoneRipe, KnownInv, OvertakesOnlyTheUnseen
<1>7. CASE emitRipe
  <2> DEFINE x == Head(held).rv
             late == {r \in known \ Pubs : r < x}
  <2>1. /\ Head(held) = held[1] /\ 1 \in DOMAIN held /\ held \in Seq(Stamped)
        /\ DOMAIN pub = 1 .. Len(pub) /\ DOMAIN pub' = 1 .. Len(pub) + 1 /\ Len(pub) \in Nat
        /\ \A i \in 1 .. Len(pub) : pub'[i] = pub[i]
        /\ pub'[Len(pub) + 1].overtaken = late
    BY <1>7, EmitMoves
  <2>2. mpc = "clock" /\ mpc' # "clock"
    BY <1>7 DEF emitRipe
  <2>3. ASSUME NEW i \in DOMAIN held PROVE ~(held[i].rv < x)
    <3>1. i \in Nat /\ i >= 1 /\ (i = 1 \/ 1 < i) /\ held[i] \in Stamped /\ held[1] \in Stamped
      BY <2>1, ElementOfSeq
    <3>2. held[i].rv \in Nat /\ held[1].rv \in Nat
      BY <3>1, StampedType
    <3>3. i # 1 => held[1].rv < held[i].rv
      BY <2>1, <3>1 DEF OrderInv, Sorted
    <3> QED
      BY <2>1, <3>1, <3>2, <3>3
  <2>4. \A r \in Helds : ~(r < x)
    BY <2>3 DEF Helds, VersionsIn
  <2>5. late = {}
    BY <2>2, <2>4 DEF KnownInv
  <2>6. OvertakesOnlyTheUnseen'
    <3> SUFFICES ASSUME NEW i \in DOMAIN pub' PROVE pub'[i].overtaken = {}
      BY DEF OvertakesOnlyTheUnseen
    <3>1. CASE i \in DOMAIN pub
      BY <2>1, <3>1 DEF KnownInv, OvertakesOnlyTheUnseen
    <3>2. CASE i = Len(pub) + 1
      BY <2>1, <2>5, <3>2
    <3> QED
      BY <2>1, <3>1, <3>2
  <2> QED
    BY <2>2, <2>6 DEF KnownInv
<1>8. ASSUME NEW o \in Obj, NEW d \in Doc \cup {Absent}, Write(o, d) PROVE KnownInv'
  BY <1>1, <1>8 DEF Write
<1>9. ASSUME NEW k \in Kind, addSource(k) \/ StopWatcher(k) \/ PumpStep(k) \/ \E f \in Faults : Disturb(k, f)
      PROVE  KnownInv'
  BY <1>1, <1>9 DEF addSource, StopWatcher, PumpStep, PumpStops, forward, Send, Disturb
<1>10. ASSUME NEW c \in Reads, Call(c) PROVE KnownInv'
  BY <1>1, <1>10 DEF Call
<1>11. CASE ReaderStep
  BY <1>1, <1>11 DEF ReaderStep, Next_Event, Next_Ends, Drain_Wakes, Drain_Takes, Drain_Ends
<1>12. CASE watch \/ shutdown \/ Join \/ MergeStops \/ Poll \/ emit \/ UNCHANGED vars
  BY <1>1, <1>12 DEF watch, shutdown, Join, MergeStops, Poll, emit, vars
<1> QED
  BY <1>3, <1>4, <1>5, <1>6, <1>7, <1>8, <1>9, <1>10, <1>11, <1>12 DEF Next, MergeStep

LEMMA PipelineInit ==
  ASSUME Init
  PROVE  /\ TypeOK /\ PlaceInv /\ OrderInv /\ KnownInv
         /\ Chans = {} /\ Hands = {} /\ Raws = {} /\ Helds = {} /\ Pubs = {}
<1>1. TypeOK
  <2>1. {due, err, stop, joined, lost} \subseteq BOOLEAN
    BY Zenon DEF Init
  <2>2. {known, owed} \subseteq SUBSET Version
    BY DEF Init
  <2>3. /\ Len(log) = 0 /\ Len(raw) = 0 /\ Len(out) = 0
        /\ log \in Seq([obj : Obj, doc : Doc \cup {Absent}]) /\ raw \in Seq(Stamped) /\ held \in Seq(Stamped)
        /\ out \in Seq(Version)
        /\ pub \in Seq([rv : Version, from : Doc \cup {Absent}, overtaken : SUBSET Version])
    BY DEF Init
  <2>4. chan \in [Kind -> Seq(Change \cup Fault)] /\ hand \in [Kind -> Stamped \cup {Nothing}]
    BY DEF Init
  <2>5. /\ opened \in [Kind -> -1 .. MaxEvents] /\ pump \in [Kind -> {"off", "recv", "send", "done"}]
        /\ prev \in [Obj -> Doc \cup {Absent}] /\ mpc = "off" /\ rpc = "idle" /\ answer = "none"
        /\ left = 0 /\ reads \in 0 .. MaxReads
    BY EventStreamAssumption DEF Init
  <2> QED
    BY <2>1, <2>2, <2>3, <2>4, <2>5, EventStreamAssumption DEF TypeOK
<1>2. Raws = {} /\ Helds = {} /\ Pubs = {} /\ Range(out) = {} /\ owed = {}
  BY DEF Init, Raws, Helds, Pubs, VersionsIn, Range
<1>3. Len(log) = 0 /\ DOMAIN log = {}
  BY DEF Init
<1>4. PlaceInv
  BY <1>2, <1>3 DEF Init, PlaceInv, SourceAt
<1>5. Chans = {} /\ Hands = {}
  BY <1>3 DEF Chans, Hands
<1>6. RawOrdered /\ Sorted(held) /\ \A k \in Kind : ChanOrdered(k)
  BY DEF Init, RawOrdered, Sorted, ChanOrdered
<1>7. OrderInv
  BY <1>2, <1>5, <1>6 DEF OrderInv, Precede
<1>8. KnownInv
  BY DEF Init, KnownInv, OvertakesOnlyTheUnseen
<1> QED
  BY <1>1, <1>2, <1>4, <1>5, <1>7, <1>8

(* Every variable has its type, and every event in the pipeline is of a      *)
(* version the server wrote, on the source of its kind.                      *)
THEOREM TypeCorrect == Spec => []TypeOK
<1>1. Init => TypeOK /\ PlaceInv
  BY PipelineInit
<1>2. TypeOK /\ PlaceInv /\ [Next]_vars => (TypeOK /\ PlaceInv)'
  BY TypeInductive, PlaceInductive
<1> QED
  BY <1>1, <1>2, PTL DEF Spec

(* emitRipe's drain and the sorted buffer: no version is published ahead of  *)
(* a lower one that was queued when the merge last drained raw, however the  *)
(* pumps, the server and the merge interleave.                               *)
THEOREM DrainsBeforeEmitting == Spec => []OvertakesOnlyTheUnseen
<1> DEFINE Inv == TypeOK /\ PlaceInv /\ OrderInv /\ KnownInv
<1>1. Init => Inv
  BY PipelineInit
<1>2. Inv /\ [Next]_vars => Inv'
  BY TypeInductive, PlaceInductive, OrderInductive, KnownInductive
<1>3. Inv => OvertakesOnlyTheUnseen
  BY DEF KnownInv
<1> QED
  BY <1>1, <1>2, <1>3, PTL DEF Spec
------------------------------------------------------------------------------
(* Nothing an object's watch was to deliver is skipped: a version in the     *)
(* pipeline has all its predecessors there too.                              *)

All == Chans \cup Hands \cup Raws \cup Helds \cup Pubs

(* The watch of r's kind delivers r: as a change, or as the contents replayed *)
(* at opening.                                                               *)
Expected(r) ==
  /\ opened[KindAt(r)] >= 0
  /\ \/ r > opened[KindAt(r)]
     \/ /\ log[r].doc # Absent
        /\ \A s \in DOMAIN log : Same(r, s) /\ s <= opened[KindAt(r)] => s <= r

CompleteInv ==
  /\ \A r \in All : Expected(r)
  /\ \A r \in All, s \in DOMAIN log : Same(r, s) /\ s < r /\ Expected(s) => s \in All
  /\ \A s \in DOMAIN log : Delivering(KindAt(s)) /\ Expected(s) => s \in All

LEMMA CompleteInductive ==
  ASSUME TypeOK, PlaceInv, OrderInv, CompleteInv, [Next]_vars
  PROVE  CompleteInv'
<1> USE DEF watches, merging, reader
<1>0. /\ \A r \in All : Expected(r)
      /\ \A r \in All, s \in DOMAIN log : Same(r, s) /\ s < r /\ Expected(s) => s \in All
      /\ \A s \in DOMAIN log : Delivering(KindAt(s)) /\ Expected(s) => s \in All
      /\ \A k \in Kind : ChanOrdered(k)
  BY DEF CompleteInv, OrderInv
<1>a. All \subseteq DOMAIN log
  BY DEF PlaceInv, Hands, Chans, All
<1>b. \A r \in DOMAIN log : KindAt(r) \in Kind
  BY LogType
<1>1. ASSUME NEW o \in Obj, NEW d \in Doc \cup {Absent}, Write(o, d) PROVE CompleteInv'
  <2>1. PICK n \in Version : n = Len(log) + 1
    BY <1>1, LogGrows
  <2>2. /\ DOMAIN log' = DOMAIN log \cup {n} /\ n \notin DOMAIN log
        /\ \A r \in DOMAIN log : log'[r] = log[r] /\ r < n
        /\ log'[n].obj = o
    BY <1>1, <2>1, LogGrows
  <2>3. /\ Hands' = Hands /\ UNCHANGED <<raw, held, pub, opened>>
        /\ Chans' \subseteq Chans \cup {n} /\ Chans \subseteq Chans'
        /\ \A j \in Kind : Delivering(j)' => Delivering(j)
        /\ n \in Chans' <=> Delivering(KindOf[o])
    BY <1>0, <1>1, <2>1, WriteMoves
  <2>4. Raws' = Raws /\ Helds' = Helds /\ Pubs' = Pubs
    BY <2>3 DEF Raws, Helds, Pubs
  <2>5. All \subseteq All' /\ All' \subseteq All \cup {n} /\ (Delivering(KindOf[o]) => n \in All')
    BY <2>3, <2>4 DEF All
  <2>5a. n \in All' => Delivering(KindOf[o])
    BY <1>a, <2>2, <2>3, <2>4 DEF All
  <2>6. KindOf[o] \in Kind /\ opened[KindOf[o]] \in Int /\ opened[KindOf[o]] <= Len(log)
        /\ (Delivering(KindOf[o]) => opened[KindOf[o]] >= 0) /\ Len(log) \in Nat
    <3>1. KindOf[o] \in Kind
      BY EventStreamAssumption
    <3>2. opened[KindOf[o]] \in -1 .. MaxEvents /\ SourceAt(KindOf[o])
      BY <3>1 DEF TypeOK, PlaceInv
    <3> QED
      BY <3>1, <3>2, EventStreamAssumption, LogType DEF SourceAt, Delivering
  <2> DEFINE NewKind(r) == KindOf[log'[r].obj]
             NewSame(r, s) == log'[r].obj = log'[s].obj
             NewDelivering(j) == /\ pump'[j] \in {"recv", "send"}
                                 /\ ~\E i \in DOMAIN chan'[j] : chan'[j][i].typ \in {"closed", "error"}
             NewExpected(r) == /\ opened[NewKind(r)] >= 0
                               /\ \/ r > opened[NewKind(r)]
                                  \/ /\ log'[r].doc # Absent
                                     /\ \A s \in DOMAIN log' : NewSame(r, s) /\ s <= opened[NewKind(r)] => s <= r
  <2>7. \A r : NewExpected(r) <=> Expected(r)'
    BY <2>3 DEF Expected, Same, KindAt
  <2>8. /\ NewKind(n) = KindOf[o]
        /\ \A r \in DOMAIN log : NewKind(r) = KindAt(r)
        /\ \A r, s \in DOMAIN log : NewSame(r, s) <=> Same(r, s)
    BY <2>2 DEF KindAt, Same
  <2>9. ASSUME NEW r \in DOMAIN log PROVE NewExpected(r) <=> Expected(r)
    <3>1. opened[KindAt(r)] \in Int /\ opened[KindAt(r)] <= Len(log) /\ Len(log) \in Nat
      <4>1. opened[KindAt(r)] \in -1 .. MaxEvents /\ SourceAt(KindAt(r))
        BY <1>b DEF TypeOK, PlaceInv
      <4> QED
        BY <4>1, EventStreamAssumption, LogType DEF SourceAt
    <3>2. ~(n <= opened[KindAt(r)])
      BY <2>1, <3>1
    <3> HIDE DEF NewKind, NewSame
    <3> QED
      BY <2>2, <2>8, <3>2 DEF Expected
  <2>10. opened[KindOf[o]] >= 0 => NewExpected(n)
    BY <2>1, <2>6, <2>8
  <2>10a. \A j \in Kind : NewDelivering(j) => Delivering(j)
    <3>1. \A j : NewDelivering(j) <=> Delivering(j)'
      BY DEF Delivering, Broken
    <3> HIDE DEF NewDelivering
    <3> QED
      BY <2>3, <3>1
  <2> HIDE DEF NewKind, NewSame, NewExpected, NewDelivering
  <2>11. \A r \in All' : NewExpected(r)
    BY <1>0, <1>a, <2>5, <2>5a, <2>6, <2>9, <2>10
  <2>12. ASSUME NEW r \in All', NEW s \in DOMAIN log', NewSame(r, s), s < r, NewExpected(s) PROVE s \in All'
    <3>0. r \in DOMAIN log' /\ DOMAIN log' \subseteq Nat
      BY <1>a, <2>1, <2>2, <2>5, LogType DEF Version
    <3>1. CASE r \in All
      <4>1. s \in DOMAIN log
        BY <1>a, <2>2, <2>12, <3>0, <3>1
      <4> QED
        BY <1>0, <1>a, <2>5, <2>8, <2>9, <2>12, <3>1, <4>1
    <3>2. CASE r = n
      <4>1. s \in DOMAIN log
        BY <2>2, <2>12, <3>0, <3>2
      <4>2. Delivering(KindOf[o]) /\ KindAt(s) = KindOf[o]
        BY <2>2, <2>5a, <2>12, <3>2, <4>1 DEF NewSame, KindAt
      <4> QED
        BY <1>0, <2>5, <2>9, <2>12, <4>1, <4>2
    <3> QED
      BY <2>5, <3>1, <3>2
  <2>13. ASSUME NEW s \in DOMAIN log', NewDelivering(NewKind(s)), NewExpected(s) PROVE s \in All'
    <3>1. CASE s = n
      BY <2>5, <2>6, <2>8, <2>10a, <2>13, <3>1
    <3>2. CASE s \in DOMAIN log
      <4>1. Delivering(KindAt(s))
        BY <1>b, <2>8, <2>10a, <2>13, <3>2
      <4> QED
        BY <1>0, <2>5, <2>9, <2>13, <3>2, <4>1
    <3> QED
      BY <2>2, <3>1, <3>2
  <2>14. \A r \in All' : Expected(r)'
    BY <2>7, <2>11
  <2>15. \A r \in All', s \in DOMAIN log' : log'[r].obj = log'[s].obj /\ s < r /\ Expected(s)' => s \in All'
    BY <2>7, <2>12 DEF NewSame
  <2>16. \A s \in DOMAIN log' : NewDelivering(KindOf[log'[s].obj]) /\ Expected(s)' => s \in All'
    BY <2>7, <2>13 DEF NewKind
  <2>17. \A s \in DOMAIN log' : Delivering(KindAt(s))' => NewDelivering(KindOf[log'[s].obj])
    BY DEF Delivering, Broken, KindAt, NewDelivering
  <2> QED
    BY <2>14, <2>15, <2>16, <2>17 DEF CompleteInv, Same
<1>2. ASSUME UNCHANGED <<log, opened>>, All' = All, \A j \in Kind : Delivering(j)' => Delivering(j)
      PROVE  CompleteInv'
  <2>1. /\ \A r : Expected(r)' <=> Expected(r)
        /\ \A r, s : Same(r, s)' <=> Same(r, s)
    BY <1>2 DEF Expected, Same, KindAt
  <2>2. ASSUME NEW s \in DOMAIN log, Delivering(KindAt(s))' PROVE Delivering(KindAt(s))
    <3>1. PICK j \in Kind : j = KindAt(s)
      BY <1>b
    <3>2. Delivering(j)'
      BY <1>2, <2>2, <3>1 DEF KindAt
    <3> QED
      BY <1>2, <3>1, <3>2
  <2> QED
    BY <1>0, <1>2, <2>1, <2>2 DEF CompleteInv
<1>3. ASSUME NEW k \in Kind, UNCHANGED <<log, opened, raw, held, pub>>,
             Hands' = {r \in Hands : KindAt(r) # k}, Chans' = {r \in Chans : KindAt(r) # k},
             \A j \in Kind : Delivering(j)' => Delivering(j), pump'[k] = "done"
      PROVE  CompleteInv'
  <2>1. /\ \A r : Expected(r)' <=> Expected(r)
        /\ \A r, s : Same(r, s)' <=> Same(r, s)
    BY <1>3 DEF Expected, Same, KindAt
  <2>2. Raws' = Raws /\ Helds' = Helds /\ Pubs' = Pubs
    BY <1>3 DEF Raws, Helds, Pubs
  <2>3. /\ All' \subseteq All
        /\ \A s \in All : s \in All' \/ (s \in Hands \cup Chans /\ KindAt(s) = k)
        /\ \A r \in All' : KindAt(r) = k => r \in Raws \cup Helds \cup Pubs
    BY <1>3, <2>2 DEF All
  <2>4. ASSUME NEW r \in All', NEW s \in DOMAIN log, Same(r, s), s < r, Expected(s) PROVE s \in All'
    <3>1. s \in All /\ r \in All
      BY <1>0, <2>3, <2>4
    <3>2. CASE s \in Hands \cup Chans /\ KindAt(s) = k
      <4>1. KindAt(r) = k
        BY <2>4, <3>2 DEF Same, KindAt
      <4>2. r < s
        BY <2>3, <2>4, <3>2, <4>1 DEF OrderInv, Precede
      <4>3. r \in Nat /\ s \in Nat
        BY <1>a, <3>1, LogType
      <4> QED
        BY <2>4, <4>2, <4>3
    <3> QED
      BY <2>3, <3>1, <3>2
  <2>5. ASSUME NEW s \in DOMAIN log, Delivering(KindAt(s))', Expected(s) PROVE s \in All'
    <3>1. PICK j \in Kind : j = KindAt(s)
      BY <1>b
    <3>2. Delivering(j)'
      BY <1>3, <2>5, <3>1 DEF KindAt
    <3>3. Delivering(KindAt(s))
      BY <1>3, <3>1, <3>2
    <3>4. j # k
      BY <1>3, <3>2 DEF Delivering
    <3> QED
      BY <1>0, <2>3, <2>5, <3>1, <3>3, <3>4
  <2> QED
    BY <1>0, <1>3, <2>1, <2>3, <2>4, <2>5 DEF CompleteInv
<1>4. ASSUME NEW k \in Kind, NEW f \in Faults, Disturb(k, f) PROVE CompleteInv'
  <2> DEFINE ev == [typ |-> f, rv |-> 0]
  <2>1. ev \in Change \cup Fault /\ ev.typ # "change"
    BY EventStreamAssumption DEF Fault
  <2>2. /\ UNCHANGED <<log, opened, pump, hand, raw, held, pub>>
        /\ chan' = chan \/ chan' = [chan EXCEPT ![k] = Append(@, ev)]
    BY <1>4 DEF Disturb, Deliver
  <2> HIDE DEF ev
  <2>3. Hands' = Hands /\ Chans' = Chans /\ \A j \in Kind : Delivering(j)' => Delivering(j)
    BY <1>0, <2>1, <2>2, FaultMoves
  <2>4. All' = All
    BY <2>2, <2>3 DEF All, Raws, Helds, Pubs
  <2> QED
    BY <1>2, <2>2, <2>3, <2>4
<1>5. ASSUME NEW k \in Kind, StopWatcher(k) PROVE CompleteInv'
  <2> DEFINE ev == [typ |-> "closed", rv |-> 0]
  <2>1. ev \in Change \cup Fault /\ ev.typ # "change"
    BY EventStreamAssumption DEF Fault
  <2>2. /\ UNCHANGED <<log, opened, pump, hand, raw, held, pub>>
        /\ chan' = [chan EXCEPT ![k] = Append(@, ev)]
    BY <1>5 DEF StopWatcher
  <2> HIDE DEF ev
  <2>3. Hands' = Hands /\ Chans' = Chans /\ \A j \in Kind : Delivering(j)' => Delivering(j)
    BY <1>0, <2>1, <2>2, FaultMoves
  <2>4. All' = All
    BY <2>2, <2>3 DEF All, Raws, Helds, Pubs
  <2> QED
    BY <1>2, <2>2, <2>3, <2>4
<1>6. ASSUME NEW k \in Kind, addSource(k) PROVE CompleteInv'
  <2>1. /\ opened[k] = -1 /\ UNCHANGED <<log, raw, held, pub>> /\ Hands' = Hands
        /\ opened' = [opened EXCEPT ![k] = Len(log)]
        /\ Chans' = Chans \cup {r \in DOMAIN log : Replayed(k, r)}
        /\ \A j \in Kind : j # k => (Delivering(j)' => Delivering(j))
    BY <1>0, <1>6, AddMoves
  <2>2. All' = All \cup {r \in DOMAIN log : Replayed(k, r)}
    BY <2>1 DEF All, Raws, Helds, Pubs
  <2>3. /\ \A r, s : Same(r, s)' <=> Same(r, s)
        /\ \A r : KindAt(r)' = KindAt(r)
    BY <2>1 DEF Same, KindAt
  <2>4. opened'[k] = Len(log) /\ (\A j \in Kind : j # k => opened'[j] = opened[j]) /\ Len(log) \in Nat
    <3>1. DOMAIN opened = Kind
      BY DEF TypeOK
    <3> QED
      BY <2>1, <3>1, LogType
  <2>5. \A r \in DOMAIN log : KindAt(r) # k => (Expected(r)' <=> Expected(r))
    BY <1>b, <2>1, <2>4 DEF Expected, Same, KindAt
  <2>6. ASSUME NEW r \in DOMAIN log, KindAt(r) = k PROVE Expected(r)' <=> Replayed(k, r)
    <3>1. \A s \in DOMAIN log : s \in Nat /\ s <= Len(log) /\ ~(s > Len(log))
      BY LogType
    <3>2. opened'[KindOf[log'[r].obj]] = Len(log) /\ Len(log) >= 0 /\ log' = log
      BY <2>1, <2>4, <2>6 DEF KindAt
    <3> QED
      BY <2>6, <3>1, <3>2 DEF Expected, Replayed, Same, KindAt
  <2>7. \A r \in All : KindAt(r) # k
    BY <1>0, <2>1 DEF Expected
  <2>8. \A r \in DOMAIN log : Replayed(k, r) => KindAt(r) = k
    BY DEF Replayed
  <2>9. \A r \in All' : Expected(r)'
    BY <1>0, <1>a, <2>2, <2>5, <2>6, <2>7, <2>8
  <2>10. ASSUME NEW r \in All', NEW s \in DOMAIN log, Same(r, s), s < r, Expected(s)' PROVE s \in All'
    <3>1. CASE r \in All
      <4>1. KindAt(s) # k /\ Expected(s)
        BY <2>5, <2>7, <2>10, <3>1 DEF Same, KindAt
      <4> QED
        BY <1>0, <2>2, <2>10, <3>1, <4>1
    <3>2. CASE Replayed(k, r)
      <4>1. KindAt(s) = k
        BY <2>8, <2>10, <3>2 DEF Same, KindAt, Replayed
      <4> QED
        BY <2>2, <2>6, <2>10, <4>1
    <3> QED
      BY <2>2, <3>1, <3>2
  <2>11. ASSUME NEW s \in DOMAIN log, Delivering(KindAt(s))', Expected(s)' PROVE s \in All'
    <3>1. CASE KindAt(s) = k
      BY <2>2, <2>6, <2>11, <3>1
    <3>2. CASE KindAt(s) # k
      <4>1. PICK j \in Kind : j = KindAt(s)
        BY <1>b
      <4>2. Delivering(j)'
        BY <2>3, <2>11, <4>1
      <4>3. Delivering(KindAt(s)) /\ Expected(s)
        BY <2>1, <2>5, <2>11, <3>2, <4>1, <4>2
      <4> QED
        BY <1>0, <2>2, <4>3
    <3> QED
      BY <3>1, <3>2
  <2> QED
    BY <2>1, <2>3, <2>9, <2>10, <2>11 DEF CompleteInv
<1>7. ASSUME NEW k \in Kind, PumpStops(k) PROVE CompleteInv'
  <2>1. /\ UNCHANGED <<log, chan, opened, raw, held, pub>>
        /\ pump' = [pump EXCEPT ![k] = "done"] /\ hand' = [hand EXCEPT ![k] = Nothing]
    BY <1>7 DEF PumpStops, Goto
  <2>2. DOMAIN pump = Kind /\ DOMAIN hand = Kind
    BY DEF TypeOK
  <2>3. /\ pump'[k] = "done"
        /\ \A j \in Kind : j # k => chan'[j] = chan[j] /\ pump'[j] = pump[j] /\ hand'[j] = hand[j]
    BY <2>1, <2>2
  <2>4. /\ Hands' = {r \in Hands : KindAt(r) # k} /\ Chans' = {r \in Chans : KindAt(r) # k}
        /\ \A j \in Kind : Delivering(j)' => Delivering(j)
    BY <2>1, <2>3, StopMoves
  <2> QED
    BY <1>3, <2>1, <2>3, <2>4
<1>8. ASSUME NEW k \in Kind, forward(k) PROVE CompleteInv'
  <2>1. /\ UNCHANGED <<log, opened, raw, held, pub>>
        /\ \A j \in Kind : Delivering(j)' => Delivering(j)
        /\ \/ \E x \in Chans : Chans' = Chans \ {x} /\ Hands' = Hands \cup {x}
           \/ Chans' = Chans /\ Hands' = Hands
           \/ /\ Chans' = {r \in Chans : KindAt(r) # k} /\ Hands' = {r \in Hands : KindAt(r) # k}
              /\ pump'[k] = "done"
    BY <1>0, <1>8, ForwardMoves
  <2>2. Raws' = Raws /\ Helds' = Helds /\ Pubs' = Pubs
    BY <2>1 DEF Raws, Helds, Pubs
  <2>3. ASSUME NEW x \in Chans, Chans' = Chans \ {x}, Hands' = Hands \cup {x} PROVE CompleteInv'
    <3>1. All' = All
      BY <2>2, <2>3 DEF All
    <3> QED
      BY <1>2, <2>1, <3>1
  <2>4. ASSUME Chans' = Chans, Hands' = Hands PROVE CompleteInv'
    <3>1. All' = All
      BY <2>2, <2>4 DEF All
    <3> QED
      BY <1>2, <2>1, <3>1
  <2> QED
    BY <1>3, <2>1, <2>3, <2>4
<1>9. ASSUME NEW k \in Kind, Send(k) PROVE CompleteInv'
  <2>1. /\ UNCHANGED <<log, opened, held, pub>>
        /\ Chans' = Chans /\ Hands' = Hands \ {hand[k].rv} /\ hand[k].rv \in Hands
        /\ Raws' = Raws \cup {hand[k].rv}
        /\ \A j \in Kind : Delivering(j)' => Delivering(j)
    BY <1>9, SendEmptiesHand, SendMoves
  <2>2. All' = All
    BY <2>1 DEF All, Helds, Pubs
  <2> QED
    BY <1>2, <2>1, <2>2
<1>10. ASSUME UNCHANGED <<log, chan, opened, pump>>, Hands' = Hands,
              (Raws \cup Helds \cup Pubs)' = Raws \cup Helds \cup Pubs
       PROVE  CompleteInv'
  <2>1. Chans' = Chans /\ \A j \in Kind : Delivering(j)' => Delivering(j)
    BY <1>10 DEF Chans, ChanHas, KindAt, Delivering, Broken
  <2>2. All' = All
    BY <1>10, <2>1 DEF All
  <2> QED
    BY <1>2, <1>10, <2>1, <2>2
<1>11. CASE Receive
  <2>1. Raws = Raws' \cup {Head(raw).rv} /\ Helds' = Helds \cup {Head(raw).rv}
    BY <1>11, ReceiveMoves
  <2>2. UNCHANGED <<log, chan, opened, pump, hand, pub>>
    BY <1>11 DEF Receive
  <2>3. Hands' = Hands /\ Pubs' = Pubs
    BY <2>2 DEF Hands, HandHas, KindAt, Pubs
  <2> QED
    BY <1>10, <2>1, <2>2, <2>3
<1>12. CASE emitRipe
  <2>1. Helds = Helds' \cup {Head(held).rv} /\ Pubs' = Pubs \cup {Head(held).rv}
    BY <1>12, EmitMoves
  <2>2. UNCHANGED <<log, chan, opened, pump, hand, raw>>
    BY <1>12 DEF emitRipe
  <2>3. Hands' = Hands /\ Raws' = Raws
    BY <2>2 DEF Hands, HandHas, KindAt, Raws
  <2> QED
    BY <1>10, <2>1, <2>2, <2>3
<1>13. CASE Tick
  <2>1. /\ UNCHANGED <<log, chan, opened, pump, pub>>
        /\ raw' = [i \in DOMAIN raw |-> Aged(raw[i])] /\ held' = [i \in DOMAIN held |-> Aged(held[i])]
        /\ \A k \in Kind : hand'[k] = Aged(hand[k])
    BY <1>13 DEF Tick
  <2>2. raw \in Seq(Stamped) /\ held \in Seq(Stamped) /\ hand \in [Kind -> Stamped \cup {Nothing}]
    BY DEF TypeOK
  <2>3. Raws' = Raws /\ Helds' = Helds /\ Pubs' = Pubs
    BY <2>1, <2>2, VersionsAged DEF Raws, Helds, Pubs
  <2>4. \A k \in Kind : hand'[k].rv = hand[k].rv
    BY <2>1, <2>2, StampedType
  <2>5. Hands' = Hands
    BY <1>b, <2>1, <2>4 DEF Hands, HandHas, KindAt
  <2> QED
    BY <1>10, <2>1, <2>3, <2>5
<1>14. ASSUME UNCHANGED <<log, chan, opened, pump, hand, raw, held, pub>> PROVE CompleteInv'
  <2>1. Hands' = Hands /\ Raws' = Raws /\ Helds' = Helds /\ Pubs' = Pubs
    BY <1>14 DEF Hands, HandHas, KindAt, Raws, Helds, Pubs
  <2> QED
    BY <1>10, <1>14, <2>1
<1>15. ASSUME NEW c \in Reads, Call(c) PROVE CompleteInv'
  BY <1>14, <1>15 DEF Call
<1>16. CASE ReaderStep
  BY <1>14, <1>16 DEF ReaderStep, Next_Event, Next_Ends, Drain_Wakes, Drain_Takes, Drain_Ends
<1>17. CASE \/ watch \/ shutdown \/ Join \/ MergeStops \/ Poll \/ Drained \/ NoneRipe \/ emit
            \/ UNCHANGED vars
  BY <1>14, <1>17 DEF watch, shutdown, Join, MergeStops, Poll, Drained, NoneRipe, emit, vars
<1> QED
  BY <1>1, <1>4, <1>5, <1>6, <1>7, <1>8, <1>9, <1>11, <1>12, <1>13, <1>15, <1>16, <1>17
     DEF Next, PumpStep, MergeStep

(* Stream.prev holds each object's last published document. *)
PrevInv ==
  /\ \A o \in Obj : (\A r \in Pubs : log[r].obj # o) => prev[o] = Absent
  /\ \A r \in Pubs : (\A s \in Pubs : Same(s, r) => s <= r) => prev[log[r].obj] = log[r].doc
  /\ DiffsAgainstPredecessor

(* At emission the merge diffs against the predecessor. *)
LEMMA EmitsAgainstPredecessor ==
  ASSUME TypeOK, PlaceInv, OrderInv, CompleteInv, PrevInv, NEW x \in Helds, \A s \in Helds : ~(s < x)
  PROVE  prev[log[x].obj] = Before(log[x].obj, x)
<1> DEFINE o == log[x].obj
           n == opened[KindAt(x)]
           S == {s \in Versions(o) : s < x}
<1>1. x \in DOMAIN log /\ x \in Nat /\ o \in Obj /\ KindAt(x) = KindOf[o] /\ KindAt(x) \in Kind /\ x \in All
  BY LogType DEF PlaceInv, KindAt, All
<1>2. n \in Int
  BY <1>1, EventStreamAssumption, SMTT(30) DEF TypeOK
<1>3. Expected(x)
  BY <1>1 DEF CompleteInv
<1>4. Pubs \subseteq DOMAIN log /\ DOMAIN log \subseteq Nat
  BY LogType DEF PlaceInv
<1>5. \A r \in Pubs : log[r].obj = o => r < x /\ Same(r, x) /\ r \in S /\ Expected(r)
  BY <1>4 DEF OrderInv, Precede, Same, Versions, CompleteInv, All
<1>6. \A r \in S : r \in DOMAIN log /\ Same(r, x) /\ Same(x, r) /\ r < x /\ r \in Nat /\ KindAt(r) = KindAt(x)
  BY <1>4 DEF Versions, Same, KindAt
<1>7. (\A r \in Pubs : log[r].obj # o) => prev[o] = Absent
  BY <1>1 DEF PrevInv
<1>8. Before(o, x) = IF x <= n THEN Absent ELSE Latest(o, S)
  BY <1>1 DEF Before
<1> HIDE DEF S, n
<1>9. CASE x <= n
  <2>1. ASSUME NEW r \in Pubs, log[r].obj = o PROVE FALSE
    <3>1. r < x /\ Same(r, x) /\ Expected(r) /\ r \in Nat /\ KindAt(r) = KindAt(x)
      BY <1>4, <1>5, <1>6, <2>1
    <3>2. ~(r > n)
      BY <1>1, <1>2, <1>9, <3>1
    <3>3. x <= r
      BY <1>1, <1>9, <3>1, <3>2 DEF Expected, n
    <3> QED
      BY <1>1, <3>1, <3>3
  <2> QED
    BY <1>7, <1>8, <1>9, <2>1
<1>10. CASE ~(x <= n) /\ S = {}
  <2>1. Latest(o, S) = Absent
    BY <1>10 DEF Latest
  <2> QED
    BY <1>5, <1>7, <1>8, <1>10, <2>1
<1>11. CASE ~(x <= n) /\ S # {}
  <2>1. S \in SUBSET (DOMAIN log)
    BY <1>6
  <2>2. PICK m \in S : (\A s \in S : s <= m) /\ Latest(o, S) = log[m].doc
    BY <1>11, <2>1, LatestIs
  <2>3. m \in DOMAIN log /\ Same(m, x) /\ Same(x, m) /\ m < x /\ m \in Nat /\ KindAt(m) = KindAt(x) /\ log[m].obj = o
    BY <1>6 DEF Same
  <2>4. \A r \in Pubs : log[r].obj = o => r <= m
    BY <1>5, <2>2
  <2>5. CASE Expected(m)
    <3>1. m \in All
      BY <1>1, <2>3, <2>5 DEF CompleteInv
    <3>2. m \notin Raws \cup Hands \cup Chans
      BY <1>1, <2>3 DEF OrderInv, Precede
    <3>3. m \notin Helds
      BY <2>3
    <3>4. m \in Pubs
      BY <3>1, <3>2, <3>3 DEF All
    <3>5. \A s \in Pubs : Same(s, m) => s <= m
      BY <2>3, <2>4 DEF Same
    <3>6. prev[log[m].obj] = log[m].doc
      BY <3>4, <3>5 DEF PrevInv
    <3> QED
      BY <1>8, <1>11, <2>2, <2>3, <3>6
  <2>6. CASE ~Expected(m)
    <3>1. n >= 0
      BY <1>3 DEF Expected, n
    <3>2. m <= n /\ ~(m > n)
      BY <1>2, <2>3, <2>6, <3>1 DEF Expected, n
    <3>3. \A s \in DOMAIN log : Same(m, s) /\ s <= n => s <= m
      <4> SUFFICES ASSUME NEW s \in DOMAIN log, Same(m, s), s <= n PROVE s <= m
        OBVIOUS
      <4>1. s < x /\ s \in Nat
        BY <1>1, <1>2, <1>4, <1>11
      <4>2. s \in S
        BY <2>3, <4>1 DEF Same, Versions, S
      <4> QED
        BY <2>2, <4>2
    <3>4. log[m].doc = Absent
      BY <2>3, <2>6, <3>1, <3>3 DEF Expected, n
    <3>5. ASSUME NEW r \in Pubs, log[r].obj = o PROVE FALSE
      <4>1. r \in S /\ Expected(r) /\ r <= m /\ r \in Nat /\ KindAt(r) = KindAt(x)
        BY <1>5, <1>6, <2>4, <3>5
      <4>2. ~(r > n)
        BY <1>2, <2>3, <3>2, <4>1
      <4>3. Same(r, m)
        BY <2>3, <3>5 DEF Same
      <4>4. m <= r
        BY <2>3, <3>2, <4>1, <4>2, <4>3 DEF Expected, n
      <4>5. r = m
        BY <2>3, <4>1, <4>4
      <4> QED
        BY <2>6, <4>1, <4>5
    <3> QED
      BY <1>7, <1>8, <1>11, <2>2, <3>4, <3>5
  <2> QED
    BY <2>5, <2>6
<1> QED
  BY <1>9, <1>10, <1>11

LEMMA PrevInductive ==
  ASSUME TypeOK, PlaceInv, OrderInv, CompleteInv, PrevInv, [Next]_vars
  PROVE  PrevInv'
<1> USE DEF watches, merging, reader
<1>0. Pubs \subseteq DOMAIN log /\ DOMAIN log \subseteq Nat
  BY LogType DEF PlaceInv
<1>1. ASSUME UNCHANGED <<log, opened, pub, prev>> PROVE PrevInv'
  BY <1>1 DEF PrevInv, DiffsAgainstPredecessor, Before, Latest, Versions, Pubs, Same
<1>2. ASSUME NEW o \in Obj, NEW d \in Doc \cup {Absent}, Write(o, d) PROVE PrevInv'
  <2>1. PICK n \in Version : n = Len(log) + 1
    BY <1>2, LogGrows
  <2>a. n \in Nat
    BY <2>1, LogType
  <2>b. /\ DOMAIN log' = DOMAIN log \cup {n} /\ n \notin DOMAIN log
        /\ \A r \in DOMAIN log : log'[r] = log[r] /\ r < n
    BY <1>2, <2>1, LogGrows
  <2>2. /\ DOMAIN log' = DOMAIN log \cup {n} /\ n \notin DOMAIN log /\ n \in Nat
        /\ \A r \in DOMAIN log : log'[r] = log[r] /\ r < n
    BY <2>a, <2>b
  <2>3. UNCHANGED <<opened, pub, prev>> /\ Pubs' = Pubs
    BY <1>2 DEF Write, Pubs
  <2>4. ASSUME NEW i \in DOMAIN pub PROVE pub[i].from = Before(log[pub[i].rv].obj, pub[i].rv)'
    <3>1. PICK r \in DOMAIN log : r = pub[i].rv
      BY <1>0 DEF Pubs, VersionsIn
    <3>2. PICK p \in Obj : p = log[r].obj
      BY LogType
    <3>3. PICK S : S = {s \in Versions(p) : s < r}
      OBVIOUS
    <3>4. S = {s \in Versions(p)' : s < r}
      <4>1. \A s : s \in Versions(p)' /\ s < r => s \in Versions(p)
        BY <1>0, <2>2 DEF Versions
      <4>2. \A s : s \in Versions(p) => s \in Versions(p)'
        BY <2>2 DEF Versions
      <4> QED
        BY <3>3, <4>1, <4>2
    <3>5. Latest(p, S)' = Latest(p, S)
      <4>1. S \in SUBSET (DOMAIN log)
        BY <3>3 DEF Versions
      <4>2. CASE S = {}
        BY <4>2 DEF Latest
      <4>3. CASE S # {}
        <5>1. (CHOOSE m \in S : \A s \in S : s <= m) \in S
          BY <4>1, <4>3, LatestIs
        <5> QED
          BY <2>2, <4>1, <4>3, <5>1 DEF Latest
      <4> QED
        BY <4>2, <4>3
    <3>6. Before(p, r)' = Before(p, r)
      <4>1. Before(p, r) = IF r <= opened[KindOf[p]] THEN Absent ELSE Latest(p, S)
        BY <3>3 DEF Before
      <4>2. Before(p, r)' = IF r <= opened[KindOf[p]] THEN Absent ELSE Latest(p, S)'
        BY <2>3, <3>4 DEF Before
      <4> QED
        BY <3>5, <4>1, <4>2
    <3>7. pub[i].from = Before(p, r)
      BY <3>1, <3>2 DEF PrevInv, DiffsAgainstPredecessor
    <3>8. log'[r].obj = p /\ pub'[i].rv = r
      BY <2>2, <2>3, <3>1, <3>2
    <3> QED
      BY <3>6, <3>7, <3>8
  <2>5. DiffsAgainstPredecessor'
    BY <2>3, <2>4 DEF DiffsAgainstPredecessor
  <2>6. \A r \in Pubs : log'[r] = log[r]
    BY <1>0, <2>2
  <2>7. \A p \in Obj : (\A r \in Pubs : log'[r].obj # p) => prev[p] = Absent
    BY <2>6 DEF PrevInv
  <2>8. \A r \in Pubs : (\A s \in Pubs : log'[s].obj = log'[r].obj => s <= r) => prev[log'[r].obj] = log'[r].doc
    BY <2>6 DEF PrevInv, Same
  <2> QED
    BY <2>3, <2>5, <2>7, <2>8 DEF PrevInv, Same
<1>3. ASSUME NEW k \in Kind, addSource(k) PROVE PrevInv'
  <2>1. /\ opened[k] = -1 /\ UNCHANGED <<log, pub, prev>>
        /\ opened' = [opened EXCEPT ![k] = Len(log)]
    BY <1>3, AddMoves DEF OrderInv
  <2>2. ASSUME NEW i \in DOMAIN pub PROVE pub[i].from = Before(log[pub[i].rv].obj, pub[i].rv)'
    <3>1. PICK r \in Pubs : r = pub[i].rv
      BY DEF Pubs, VersionsIn
    <3>2. PICK p \in Obj : p = log[r].obj
      BY <1>0, LogType
    <3>3. KindOf[p] # k /\ KindOf[p] \in Kind
      BY <2>1, <3>2, EventStreamAssumption DEF OrderInv, KindAt
    <3>4. opened'[KindOf[p]] = opened[KindOf[p]]
      BY <2>1, <3>3 DEF TypeOK
    <3>5. Before(p, r)' = Before(p, r)
      BY <2>1, <3>4 DEF Before, Latest, Versions
    <3>6. pub[i].from = Before(p, r)
      BY <3>1, <3>2 DEF PrevInv, DiffsAgainstPredecessor
    <3> QED
      BY <2>1, <3>1, <3>2, <3>5, <3>6
  <2>3. DiffsAgainstPredecessor'
    BY <2>1, <2>2 DEF DiffsAgainstPredecessor
  <2> QED
    BY <2>1, <2>3 DEF PrevInv, Pubs, Same
<1>4. CASE emitRipe
  <2> DEFINE x == Head(held).rv
             o == log[x].obj
  <2>1. /\ Head(held) = held[1] /\ 1 \in DOMAIN held /\ held \in Seq(Stamped)
        /\ x \in Helds /\ Pubs' = Pubs \cup {x}
        /\ DOMAIN pub = 1 .. Len(pub) /\ DOMAIN pub' = 1 .. Len(pub) + 1 /\ Len(pub) \in Nat
        /\ \A i \in 1 .. Len(pub) : pub'[i] = pub[i]
        /\ pub'[Len(pub) + 1].rv = x /\ pub'[Len(pub) + 1].from = prev[o]
    BY <1>4, EmitMoves
  <2>2. UNCHANGED <<log, opened>> /\ prev' = [prev EXCEPT ![o] = log[x].doc]
    BY <1>4 DEF emitRipe, project
  <2>3. ASSUME NEW i \in DOMAIN held PROVE ~(held[i].rv < x)
    <3>1. i \in Nat /\ i >= 1 /\ (i = 1 \/ 1 < i) /\ held[i] \in Stamped /\ held[1] \in Stamped
      BY <2>1, ElementOfSeq
    <3>2. held[i].rv \in Nat /\ held[1].rv \in Nat
      BY <3>1, StampedType
    <3>3. i # 1 => held[1].rv < held[i].rv
      BY <2>1, <3>1 DEF OrderInv, Sorted
    <3> QED
      BY <2>1, <3>1, <3>2, <3>3
  <2>4. \A s \in Helds : ~(s < x)
    BY <2>3 DEF Helds, VersionsIn
  <2> HIDE DEF x
  <2>5. prev[o] = Before(o, x)
    BY <2>1, <2>4, EmitsAgainstPredecessor
  <2>6. x \in DOMAIN log /\ o \in Obj /\ x \in Nat
    BY <2>1, LogType DEF PlaceInv
  <2>7. \A p, r : Before(p, r)' = Before(p, r)
    BY <2>2 DEF Before, Latest, Versions
  <2>8. DiffsAgainstPredecessor'
    <3> SUFFICES ASSUME NEW i \in DOMAIN pub' PROVE pub'[i].from = Before(log[pub'[i].rv].obj, pub'[i].rv)
      BY <2>2, <2>7 DEF DiffsAgainstPredecessor, Before, Latest, Versions
    <3>1. CASE i \in DOMAIN pub
      BY <2>1, <3>1 DEF PrevInv, DiffsAgainstPredecessor
    <3>2. CASE i = Len(pub) + 1
      BY <2>1, <2>5, <3>2
    <3> QED
      BY <2>1, <3>1, <3>2
  <2>9. prev'[o] = log[x].doc /\ \A p \in Obj : p # o => prev'[p] = prev[p]
    BY <2>2, <2>6 DEF TypeOK
  <2>10. \A r \in Pubs : log[r].obj = o => r < x
    BY <2>1 DEF OrderInv, Precede, Same
  <2>11. \A r \in Pubs : log[r].obj \in Obj /\ r \in Nat
    BY <1>0, LogType
  <2>12. \A p \in Obj : (\A r \in Pubs' : log[r].obj # p) => prev'[p] = Absent
    BY <2>1, <2>9 DEF PrevInv
  <2>13. ASSUME NEW r \in Pubs', \A s \in Pubs' : log[s].obj = log[r].obj => s <= r
         PROVE  prev'[log[r].obj] = log[r].doc
    <3>1. CASE log[r].obj = o
      <4>1. x <= r
        BY <2>1, <2>13, <3>1
      <4>2. r = x
        BY <2>1, <2>6, <2>10, <2>11, <3>1, <4>1
      <4> QED
        BY <2>9, <4>2
    <3>2. CASE log[r].obj # o
      <4>1. r \in Pubs
        BY <2>1, <3>2
      <4>2. prev[log[r].obj] = log[r].doc
        BY <2>1, <2>13, <4>1 DEF PrevInv, Same
      <4> QED
        BY <2>9, <2>11, <3>2, <4>1, <4>2
    <3> QED
      BY <3>1, <3>2
  <2> QED
    BY <2>2, <2>8, <2>12, <2>13 DEF PrevInv, Same
<1>5. ASSUME NEW k \in Kind, StopWatcher(k) \/ PumpStep(k) \/ \E f \in Faults : Disturb(k, f)
      PROVE  PrevInv'
  BY <1>1, <1>5 DEF StopWatcher, PumpStep, PumpStops, forward, Send, Disturb
<1>6. ASSUME NEW c \in Reads, Call(c) PROVE PrevInv'
  BY <1>1, <1>6 DEF Call
<1>7. CASE ReaderStep
  BY <1>1, <1>7 DEF ReaderStep, Next_Event, Next_Ends, Drain_Wakes, Drain_Takes, Drain_Ends
<1>8. CASE \/ watch \/ shutdown \/ Join \/ MergeStops \/ Receive \/ Poll \/ Drained \/ NoneRipe \/ emit
           \/ Tick \/ UNCHANGED vars
  BY <1>1, <1>8
     DEF watch, shutdown, Join, MergeStops, Receive, Poll, Drained, NoneRipe, emit, Tick, vars
<1> QED
  BY <1>2, <1>3, <1>4, <1>5, <1>6, <1>7, <1>8 DEF Next, MergeStep

(* Every diff the stream publishes is taken against the object's true        *)
(* predecessor: no event of an object overtakes, skips or repeats another on *)
(* its way through channel, pump, raw and the reorder buffer (project).      *)
THEOREM DiffsAreExact == Spec => []DiffsAgainstPredecessor
<1> DEFINE Inv == TypeOK /\ PlaceInv /\ OrderInv /\ CompleteInv /\ PrevInv
<1>1. Init => Inv
  <2> SUFFICES ASSUME Init PROVE Inv
    OBVIOUS
  <2>1. /\ TypeOK /\ PlaceInv /\ OrderInv
        /\ Chans = {} /\ Hands = {} /\ Raws = {} /\ Helds = {} /\ Pubs = {}
    BY PipelineInit
  <2>2. DOMAIN log = {} /\ All = {}
    BY <2>1 DEF Init, All
  <2>3. CompleteInv
    BY <2>2 DEF CompleteInv
  <2>4. PrevInv
    BY <2>1 DEF Init, PrevInv, DiffsAgainstPredecessor
  <2> QED
    BY <2>1, <2>3, <2>4
<1>2. Inv /\ [Next]_vars => Inv'
  BY TypeInductive, PlaceInductive, OrderInductive, CompleteInductive, PrevInductive
<1>3. Inv => DiffsAgainstPredecessor
  BY DEF PrevInv
<1> QED
  BY <1>1, <1>2, <1>3, PTL DEF Spec
------------------------------------------------------------------------------
(* A call of Next or Drain in progress. *)

CallInv ==
  /\ rpc # "idle" => ~stop /\ mpc # "off"
  /\ mpc = "done" => stop
  /\ rpc \in {"idle", "drain"} => left = 0
  /\ \A k \in Kind : ~stop /\ pump[k] = "done" => err

LEMMA CallInductive ==
  ASSUME TypeOK, PlaceInv, OrderInv, CallInv, [Next]_vars
  PROVE  CallInv'
<1> USE DEF watches, merging, reader
<1>1. ASSUME UNCHANGED <<rpc, left, stop, mpc, err, pump>> PROVE CallInv'
  BY <1>1 DEF CallInv
<1>2. ASSUME UNCHANGED <<rpc, left, stop, err, pump>>, mpc # "off", mpc' \notin {"off", "done"} PROVE CallInv'
  BY <1>2 DEF CallInv
<1>3. ASSUME NEW o \in Obj, NEW d \in Doc \cup {Absent}, Write(o, d) PROVE CallInv'
  BY <1>1, <1>3 DEF Write
<1>4. ASSUME NEW k \in Kind, StopWatcher(k) \/ \E f \in Faults : Disturb(k, f) PROVE CallInv'
  BY <1>1, <1>4 DEF StopWatcher, Disturb
<1>5. ASSUME NEW k \in Kind, addSource(k) PROVE CallInv'
  <2>1. UNCHANGED <<rpc, left, stop, mpc, err>> /\ pump' = [pump EXCEPT ![k] = "recv"]
    BY <1>5 DEF addSource
  <2>2. \A j \in Kind : pump'[j] = "done" => pump[j] = "done"
    BY <2>1 DEF TypeOK
  <2> QED
    BY <2>1, <2>2 DEF CallInv
<1>6. ASSUME NEW k \in Kind, PumpStops(k) PROVE CallInv'
  BY <1>6 DEF PumpStops, CallInv
<1>7. ASSUME NEW k \in Kind, forward(k) PROVE CallInv'
  <2>1. /\ \A j \in Kind : j # k => pump'[j] = pump[j]
        /\ \/ pump'[k] = "send"
           \/ UNCHANGED <<pump, err>>
           \/ pump'[k] = "done" /\ err' = (err \/ ~stop \/ Head(chan[k]).typ = "error")
    BY <1>7, ForwardMoves DEF OrderInv
  <2>2. UNCHANGED <<rpc, left, stop, mpc>> /\ (err => err')
    <3>1. UNCHANGED <<rpc, left, stop, mpc>>
      BY <1>7 DEF forward
    <3>2. UNCHANGED err \/ err' = (err \/ ~stop) \/ err' = TRUE
      BY <1>7 DEF forward, Accept, WatchClosed, WatchErrors
    <3>3. err => err'
      BY <3>2, Zenon
    <3> QED
      BY <3>1, <3>3
  <2>3. ASSUME NEW j \in Kind, ~stop, pump'[j] = "done" PROVE err'
    BY <2>1, <2>2, <2>3 DEF CallInv
  <2> QED
    BY <2>2, <2>3 DEF CallInv
<1>8. ASSUME NEW k \in Kind, Send(k) PROVE CallInv'
  <2>1. UNCHANGED <<rpc, left, stop, mpc, err>> /\ pump' = [pump EXCEPT ![k] = "recv"]
    BY <1>8 DEF Send, Goto
  <2>2. \A j \in Kind : pump'[j] = "done" => pump[j] = "done"
    BY <2>1 DEF TypeOK
  <2> QED
    BY <2>1, <2>2 DEF CallInv
<1>9. CASE MergeStops
  BY <1>9 DEF MergeStops, CallInv
<1>10. CASE Receive \/ Poll \/ Drained \/ NoneRipe \/ emitRipe \/ emit
  BY <1>2, <1>10 DEF Receive, Poll, Drained, drainQueued, NoneRipe, emitRipe, emit
<1>11. CASE watch
  BY <1>11 DEF watch, CallInv
<1>12. CASE shutdown
  BY <1>12 DEF shutdown, CallInv
<1>13. CASE Join
  BY <1>1, <1>13 DEF Join
<1>14. ASSUME NEW c \in Reads, Call(c) PROVE CallInv'
  <2>1. UNCHANGED <<stop, mpc, err, pump>> /\ ~stop /\ mpc # "off"
    BY <1>14 DEF Call
  <2>2. rpc' \in {"idle", "drain"} => left' = 0
    BY <1>14 DEF Call
  <2> QED
    BY <2>1, <2>2 DEF CallInv
<1>15. CASE ReaderStep
  <2>1. UNCHANGED <<stop, mpc, err, pump>>
    BY <1>15 DEF ReaderStep, Next_Event, Next_Ends, Drain_Wakes, Drain_Takes, Drain_Ends
  <2>2. (rpc' # "idle" => rpc # "idle") /\ (rpc' \in {"idle", "drain"} => left' = 0)
    BY <1>15 DEF ReaderStep, Next_Event, Next_Ends, Drain_Wakes, Drain_Takes, Drain_Ends, Return,
       CallInv
  <2> QED
    BY <2>1, <2>2 DEF CallInv
<1>16. CASE Tick
  <2>1. UNCHANGED <<rpc, stop, mpc, err, pump>> /\ (left = 0 => left' = 0)
    BY <1>16 DEF Tick
  <2> QED
    BY <2>1 DEF CallInv
<1>17. CASE UNCHANGED vars
  BY <1>1, <1>17 DEF vars
<1> QED
  BY <1>3, <1>4, <1>5, <1>6, <1>7, <1>8, <1>9, <1>10, <1>11, <1>12, <1>13, <1>14, <1>15, <1>16,
     <1>17
     DEF Next, PumpStep, MergeStep

(* While a call is in progress and no goroutine is starved, the merge and the *)
(* pumps are idle whenever time passes.                                      *)
LEMMA TickIsQuiet ==
  ASSUME TypeOK, PlaceInv, CallInv, Prompt, Tick, rpc # "idle"
  PROVE  /\ mpc = "select" /\ raw = <<>> /\ ~due
         /\ \A k \in Kind : pump[k] # "send" /\ (pump[k] = "recv" => chan[k] = <<>>)
         /\ ~ReaderReady
<1>1. ~MergeReady /\ ~ReaderReady /\ \A k \in Kind : ~PumpReady(k)
  BY DEF Tick
<1>2. mpc = "select" /\ raw = <<>> /\ ~due
  BY <1>1 DEF MergeReady, CallInv, TypeOK
<1>3. Len(raw) < RawCap
  BY <1>2, EventStreamAssumption
<1> QED
  BY <1>1, <1>2, <1>3 DEF PumpReady

(* A watch has broken and its pump has not seen it yet. *)
Failing == \E k \in Kind : pump[k] \in {"recv", "send"} /\ Broken(k)

LossInv ==
  /\ rpc # "idle" /\ lost => err \/ (left > 0 /\ Failing)
  /\ LossIsLoud

LEMMA LossInductive ==
  ASSUME Prompt, TypeOK, PlaceInv, OrderInv, CallInv, LossInv, [Next]_vars
  PROVE  LossInv'
<1> USE DEF watches, merging, reader
<1>0. \A k \in Kind : ChanOrdered(k)
  BY DEF OrderInv
<1>1. ASSUME UNCHANGED <<rpc, lost, left, answer>>, rpc # "idle" => (err \/ Failing => err' \/ Failing'),
             rpc # "idle" => (err => err')
      PROVE  LossInv'
  BY <1>1 DEF LossInv, LossIsLoud
<1>2. ASSUME \A j \in Kind : Delivering(j)' => Delivering(j),
             \A j \in Kind : pump[j] \in {"recv", "send"} => pump'[j] \in {"recv", "send"}
      PROVE  Failing => Failing'
  <2> SUFFICES ASSUME NEW k \in Kind, pump[k] \in {"recv", "send"}, Broken(k) PROVE Failing'
    BY DEF Failing
  <2>1. ~Delivering(k) /\ pump'[k] \in {"recv", "send"}
    BY <1>2 DEF Delivering
  <2>2. Broken(k)'
    BY <1>2, <2>1 DEF Delivering
  <2> QED
    BY <2>1, <2>2 DEF Failing
<1>3. ASSUME NEW o \in Obj, NEW d \in Doc \cup {Absent}, Write(o, d) PROVE LossInv'
  <2>1. PICK n \in Version : n = Len(log) + 1
    BY <1>3, LogGrows
  <2>2. UNCHANGED pump /\ \A j \in Kind : Delivering(j)' => Delivering(j)
    BY <1>0, <1>3, <2>1, WriteMoves
  <2>3. UNCHANGED <<rpc, lost, left, answer, err>>
    BY <1>3 DEF Write
  <2> QED
    BY <1>1, <1>2, <2>2, <2>3
<1>4. ASSUME NEW k \in Kind, NEW f \in Faults, Disturb(k, f) PROVE LossInv'
  <2> DEFINE ev == [typ |-> f, rv |-> 0]
  <2>1. ev \in Change \cup Fault /\ ev.typ # "change"
    BY EventStreamAssumption DEF Fault
  <2>2. /\ UNCHANGED <<log, pump, hand>>
        /\ chan' = chan \/ chan' = [chan EXCEPT ![k] = Append(@, ev)]
    BY <1>4 DEF Disturb, Deliver
  <2> HIDE DEF ev
  <2>3. \A j \in Kind : Delivering(j)' => Delivering(j)
    BY <1>0, <2>1, <2>2, FaultMoves
  <2>4. UNCHANGED <<rpc, lost, left, answer, err>>
    BY <1>4 DEF Disturb
  <2> QED
    BY <1>1, <1>2, <2>2, <2>3, <2>4
<1>5. ASSUME NEW k \in Kind, addSource(k) \/ StopWatcher(k) \/ PumpStops(k) PROVE LossInv'
  <2>1. UNCHANGED <<rpc, lost, left, answer>> /\ rpc = "idle"
    BY <1>5 DEF addSource, StopWatcher, PumpStops, CallInv
  <2> QED
    BY <1>1, <2>1
<1>6. ASSUME NEW k \in Kind, forward(k) PROVE LossInv'
  <2>1. /\ \A j \in Kind : Delivering(j)' => Delivering(j)
        /\ \A j \in Kind : j # k => pump'[j] = pump[j]
        /\ \/ pump'[k] = "send"
           \/ UNCHANGED pump
           \/ err' = (err \/ ~stop \/ Head(chan[k]).typ = "error")
    BY <1>0, <1>6, ForwardMoves
  <2>2. UNCHANGED <<rpc, lost, left, answer>> /\ (err => err')
    <3>1. UNCHANGED <<rpc, lost, left, answer>>
      BY <1>6 DEF forward
    <3>2. UNCHANGED err \/ err' = (err \/ ~stop) \/ err' = TRUE
      BY <1>6 DEF forward, Accept, WatchClosed, WatchErrors
    <3>3. err => err'
      BY <3>2, Zenon
    <3> QED
      BY <3>1, <3>3
  <2>3. CASE pump'[k] = "send" \/ UNCHANGED pump
    <3>1. Failing => Failing'
      BY <1>2, <2>1, <2>3
    <3> QED
      BY <1>1, <2>2, <3>1
  <2>4. CASE err' = (err \/ ~stop \/ Head(chan[k]).typ = "error")
    <3>1. rpc # "idle" => err'
      BY <2>4 DEF CallInv
    <3> QED
      BY <1>1, <2>2, <3>1
  <2> QED
    BY <2>1, <2>3, <2>4
<1>7. ASSUME NEW k \in Kind, Send(k) PROVE LossInv'
  <2>1. \A j \in Kind : Delivering(j)' => Delivering(j)
    BY <1>7, SendEmptiesHand
  <2>2. UNCHANGED <<rpc, lost, left, answer, err>> /\ pump' = [pump EXCEPT ![k] = "recv"]
    BY <1>7 DEF Send, Goto
  <2>3. \A j \in Kind : pump[j] \in {"recv", "send"} => pump'[j] \in {"recv", "send"}
    BY <2>2 DEF TypeOK
  <2> QED
    BY <1>1, <1>2, <2>1, <2>2, <2>3
<1>8. ASSUME UNCHANGED <<rpc, lost, left, answer, err, pump, chan>> PROVE LossInv'
  BY <1>1, <1>8 DEF Failing, Broken
<1>9. CASE MergeStep \/ watch \/ shutdown \/ Join \/ UNCHANGED vars
  BY <1>8, <1>9
     DEF MergeStep, MergeStops, Receive, Poll, Drained, NoneRipe, emitRipe, emit, watch, shutdown, Join, vars
<1>10. ASSUME NEW c \in Reads, Call(c) PROVE LossInv'
  <2>1. /\ UNCHANGED <<err, pump, chan>> /\ ~stop /\ lost' = (err \/ \E k \in Kind : Broken(k))
        /\ answer' \in {"none", "terminal"}
        /\ rpc' = "idle" \/ left' \in {Timeout + visibilityLag, visibilityLag}
    BY <1>10 DEF Call
  <2>2. rpc' = "idle" \/ left' > 0
    BY <2>1, EventStreamAssumption DEF visibilityLag
  <2>3. ASSUME ~err, NEW k \in Kind, Broken(k) PROVE Failing
    <3>1. pump[k] # "done"
      BY <2>1, <2>3 DEF CallInv
    <3>2. pump[k] # "off"
      <4>1. pump[k] = "off" => chan[k] = <<>>
        BY DEF PlaceInv, SourceAt
      <4> QED
        BY <2>3, <4>1 DEF Broken
    <3>3. pump[k] \in {"recv", "send"}
      BY <3>1, <3>2 DEF TypeOK
    <3> QED
      BY <2>3, <3>3 DEF Failing
  <2>4. lost' => err' \/ Failing'
    BY <2>1, <2>3 DEF Failing, Broken
  <2> QED
    BY <2>1, <2>2, <2>4 DEF LossInv, LossIsLoud
<1>11. CASE ReaderStep
  <2>1. UNCHANGED <<err, pump, chan, lost>>
    BY <1>11 DEF ReaderStep, Next_Event, Next_Ends, Drain_Wakes, Drain_Takes, Drain_Ends, Return
  <2>2. UNCHANGED <<rpc, left, answer>> \/ Next_Event \/ Next_Ends \/ Drain_Wakes \/ Drain_Ends
    BY <1>11 DEF ReaderStep, Drain_Takes
  <2>3. CASE UNCHANGED <<rpc, left, answer>>
    BY <1>8, <2>1, <2>3
  <2>4. CASE Next_Event
    BY <2>1, <2>4 DEF Next_Event, Return, LossInv, LossIsLoud
  <2>5. CASE Next_Ends
    <3>1. rpc = "next" /\ rpc' = "idle" /\ (answer' = "terminal" \/ (left = 0 /\ ~err))
      BY <2>5 DEF Next_Ends, Return
    <3>2. lost => answer' = "terminal"
      BY <3>1 DEF LossInv
    <3> QED
      BY <2>1, <3>1, <3>2 DEF LossInv, LossIsLoud
  <2>6. CASE Drain_Wakes
    <3>1. UNCHANGED <<left, answer>> /\ rpc # "idle" /\ Failing' = Failing
      BY <2>1, <2>6 DEF Drain_Wakes, Failing, Broken
    <3> QED
      BY <2>1, <3>1 DEF LossInv, LossIsLoud
  <2>7. CASE Drain_Ends
    <3>1. rpc = "drain" /\ rpc' = "idle" /\ answer' = (IF err THEN "terminal" ELSE "drained")
      BY <2>7 DEF Drain_Ends, Return
    <3>2. left = 0
      BY <3>1 DEF CallInv
    <3>3. lost => answer' = "terminal"
      BY <3>1, <3>2 DEF LossInv
    <3> QED
      BY <2>1, <3>1, <3>3 DEF LossInv, LossIsLoud
  <2> QED
    BY <2>2, <2>3, <2>4, <2>5, <2>6, <2>7
<1>12. CASE Tick
  <2>1. UNCHANGED <<rpc, lost, answer, err, pump, chan>>
    BY <1>12 DEF Tick
  <2>2. rpc # "idle" => ~Failing
    <3> SUFFICES ASSUME rpc # "idle", NEW k \in Kind, pump[k] \in {"recv", "send"}, Broken(k) PROVE FALSE
      BY DEF Failing
    <3>1. chan[k] = <<>>
      BY <1>12, TickIsQuiet
    <3> QED
      BY <3>1 DEF Broken
  <2> QED
    BY <2>1, <2>2 DEF LossInv, LossIsLoud
<1> QED
  BY <1>3, <1>4, <1>5, <1>6, <1>7, <1>9, <1>10, <1>11, <1>12 DEF Next, PumpStep

(* When no goroutine is starved, a stream that lost history never answers as *)
(* if it had not: a Drain, or a Next that timed out, begun after a watch     *)
(* broke returns the terminal error (pump, fail, Terminal).                  *)
THEOREM LossesAreLoud ==
  ASSUME Prompt
  PROVE  Spec => []LossIsLoud
<1> DEFINE Inv == TypeOK /\ PlaceInv /\ OrderInv /\ CallInv /\ LossInv
<1>1. Init => Inv
  <2> SUFFICES ASSUME Init PROVE Inv
    OBVIOUS
  <2>1. TypeOK /\ PlaceInv /\ OrderInv
    BY PipelineInit
  <2>2. CallInv
    BY DEF Init, CallInv
  <2>3. LossInv
    BY DEF Init, LossInv, LossIsLoud
  <2> QED
    BY <2>1, <2>2, <2>3
<1>2. Inv /\ [Next]_vars => Inv'
  BY TypeInductive, PlaceInductive, OrderInductive, CallInductive, LossInductive
<1>3. Inv => LossIsLoud
  BY DEF LossInv
<1> QED
  BY <1>1, <1>2, <1>3, PTL DEF Spec
------------------------------------------------------------------------------
(* What a call is owed reaches out before the call's timer ends.  An event   *)
(* that is still too young to be emitted when the call ends was stamped      *)
(* after the last one the call is owed.                                      *)

Stampeds == Range(raw) \cup Range(held) \cup {hand[k] : k \in {j \in Kind : pump[j] = "send"}}

Young(e) == e.age < reorderWindow /\ e.age < visibilityLag - left

ReadInv ==
  /\ mpc = "off" => held = <<>> /\ answer \notin {"quiet", "drained"}
  /\ rpc # "idle" => answer = "none"
  /\ mpc = "select" /\ ~due => ~HeadRipe
  /\ rpc # "idle" => \A e \in Stampeds : Young(e) => \A x \in owed : x < e.rv
  /\ rpc # "idle" /\ left < visibilityLag => \A r \in Chans, x \in owed : x < r
  /\ rpc # "idle" /\ left <= 1 => \A e \in Stampeds : e.rv \notin owed
  /\ rpc = "next" /\ left = 0 => owed \cap Range(out) = {}
  /\ rpc \in {"sleep", "drain"} /\ left = 0 /\ mpc = "emit" /\ out # <<>> => Last(out) \notin owed
  /\ rpc = "idle" /\ answer \in {"quiet", "drained"} =>
       owed \cap (Chans \cup Range(out)) = {} /\ \A e \in Stampeds : e.rv \notin owed

LEMMA StampedsType ==
  ASSUME TypeOK, PlaceInv
  PROVE  \A e \in Stampeds : /\ e \in Stamped /\ e.rv \in Version /\ e.rv \in Nat
                             /\ e.age \in 0 .. reorderWindow
<1>1. raw \in Seq(Stamped) /\ held \in Seq(Stamped)
  BY DEF TypeOK
<1>2. Range(raw) \subseteq Stamped /\ Range(held) \subseteq Stamped
  BY <1>1, ElementOfSeq DEF Range
<1>3. ASSUME NEW k \in Kind, pump[k] = "send" PROVE hand[k] \in Stamped
  <2>1. hand[k].rv \in DOMAIN log /\ hand[k] \in Stamped \cup {Nothing}
    BY <1>3 DEF PlaceInv, SourceAt, TypeOK
  <2> QED
    BY <2>1, StampedType, LogType DEF Version
<1>4. Stampeds \subseteq Stamped
  BY <1>2, <1>3 DEF Stampeds
<1>5. \A e \in Stamped : e.rv \in Version /\ e.rv \in Nat /\ e.age \in 0 .. reorderWindow
  BY StampedType
<1> QED
  BY <1>4, <1>5

(* Where stamped events go. *)
LEMMA StampedsMove ==
  ASSUME TypeOK, PlaceInv
  PROVE  /\ \A k \in Kind : PumpStops(k) => Stampeds' \subseteq Stampeds
         /\ \A k \in Kind : Send(k) => Stampeds' \subseteq Stampeds
         /\ Receive => Stampeds' \subseteq Stampeds
         /\ emitRipe => Stampeds' \subseteq Stampeds /\ Head(held) \in Stampeds
         /\ UNCHANGED <<raw, held, hand, pump>> => Stampeds' = Stampeds
<1>0. raw \in Seq(Stamped) /\ held \in Seq(Stamped) /\ DOMAIN pump = Kind /\ DOMAIN hand = Kind
  BY DEF TypeOK
<1>1. ASSUME NEW k \in Kind, PumpStops(k) PROVE Stampeds' \subseteq Stampeds
  <2>1. UNCHANGED <<raw, held>> /\ pump' = [pump EXCEPT ![k] = "done"] /\ hand' = [hand EXCEPT ![k] = Nothing]
    BY <1>1 DEF PumpStops, Goto, merging
  <2>2. \A j \in Kind : pump'[j] = "send" => pump[j] = "send" /\ hand'[j] = hand[j]
    BY <1>0, <2>1
  <2> QED
    BY <2>1, <2>2 DEF Stampeds
<1>2. ASSUME NEW k \in Kind, Send(k) PROVE Stampeds' \subseteq Stampeds
  <2>1. /\ UNCHANGED held /\ pump' = [pump EXCEPT ![k] = "recv"] /\ hand' = [hand EXCEPT ![k] = Nothing]
        /\ pump[k] = "send"
    BY <1>2 DEF Send, Goto, merging
  <2>2. \A j \in Kind : pump'[j] = "send" => pump[j] = "send" /\ hand'[j] = hand[j]
    BY <1>0, <2>1
  <2>3. raw' = Append(raw, hand[k]) /\ hand[k] \in Stamped
    BY <1>2, SendMoves
  <2>4. Range(Append(raw, hand[k])) = Range(raw) \cup {hand[k]}
    BY <1>0, <2>3, RangeMove
  <2> QED
    BY <2>1, <2>2, <2>3, <2>4 DEF Stampeds
<1>3. ASSUME Receive PROVE Stampeds' \subseteq Stampeds
  <2>1. Head(raw) \in Stamped /\ raw' = Tail(raw) /\ held' = insertByResourceVersion(Head(raw))
    BY <1>3, ReceiveMoves
  <2>2. raw # <<>> /\ UNCHANGED <<pump, hand>>
    BY <1>3 DEF Receive
  <2>3. Range(raw) = Range(Tail(raw)) \cup {Head(raw)}
    BY <1>0, <2>2, RangeMove
  <2>4. Range(held') = Range(held) \cup {Head(raw)}
    BY <2>1, VersionsInserted
  <2> QED
    BY <2>1, <2>2, <2>3, <2>4 DEF Stampeds
<1>4. ASSUME emitRipe PROVE Stampeds' \subseteq Stampeds /\ Head(held) \in Stampeds
  <2>1. held # <<>> /\ held' = Tail(held) /\ UNCHANGED <<raw, pump, hand>>
    BY <1>4 DEF emitRipe, HeadRipe
  <2>2. Range(held) = Range(Tail(held)) \cup {Head(held)}
    BY <1>0, <2>1, RangeMove
  <2> QED
    BY <2>1, <2>2 DEF Stampeds
<1>5. ASSUME UNCHANGED <<raw, held, hand, pump>> PROVE Stampeds' = Stampeds
  BY <1>5 DEF Stampeds
<1> QED
  BY <1>1, <1>2, <1>3, <1>4, <1>5

LEMMA ReadInductive ==
  ASSUME Prompt, TypeOK, PlaceInv, OrderInv, CallInv, ReadInv, [Next]_vars
  PROVE  ReadInv'
<1> USE DEF watches, merging, reader
<1>a. \A k \in Kind : ChanOrdered(k)
  BY DEF OrderInv
<1>b. visibilityLag \in Nat /\ visibilityLag >= 3 /\ visibilityLag = reorderWindow + 2 /\ reorderWindow \in Nat
      /\ left \in Nat
  BY EventStreamAssumption DEF visibilityLag, TypeOK
<1>c. owed \subseteq DOMAIN log /\ owed \subseteq Nat /\ DOMAIN log \subseteq Nat
  BY LogType DEF PlaceInv
<1>1. ASSUME UNCHANGED <<rpc, left, answer, owed>>, Chans' \subseteq Chans, Stampeds' \subseteq Stampeds,
             Range(out') \subseteq Range(out),
             mpc' = "off" => mpc = "off" /\ UNCHANGED held,
             mpc' = "select" /\ ~due' => ~HeadRipe',
             rpc # "idle" => (mpc' = "emit" /\ out' # <<>> /\ left = 0 => mpc = "emit" /\ out # <<>> /\ Last(out') = Last(out))
      PROVE  ReadInv'
  <2>1. /\ mpc' = "off" => held' = <<>> /\ answer' \notin {"quiet", "drained"}
        /\ rpc' # "idle" => answer' = "none"
    BY <1>1 DEF ReadInv
  <2>2. \A e : Young(e)' <=> Young(e)
    BY <1>1 DEF Young, visibilityLag
  <2>3. /\ rpc' # "idle" => \A e \in Stampeds' : Young(e) => \A x \in owed' : x < e.rv
        /\ rpc' # "idle" /\ left' < visibilityLag => \A r \in Chans', x \in owed' : x < r
        /\ rpc' # "idle" /\ left' <= 1 => \A e \in Stampeds' : e.rv \notin owed'
    BY <1>1 DEF ReadInv
  <2>4. /\ rpc' = "next" /\ left' = 0 => owed' \cap Range(out') = {}
        /\ rpc' \in {"sleep", "drain"} /\ left' = 0 /\ mpc' = "emit" /\ out' # <<>> => Last(out') \notin owed'
    BY <1>1 DEF ReadInv
  <2>5. rpc' = "idle" /\ answer' \in {"quiet", "drained"} =>
          owed' \cap (Chans' \cup Range(out')) = {} /\ \A e \in Stampeds' : e.rv \notin owed'
    BY <1>1 DEF ReadInv
  <2>6. visibilityLag' = visibilityLag
    BY DEF visibilityLag
  <2> QED
    BY <1>1, <2>1, <2>2, <2>3, <2>4, <2>5, <2>6 DEF ReadInv
<1>2. ASSUME UNCHANGED <<rpc, left, answer, owed, mpc, held, due, out>>, Chans' \subseteq Chans, Stampeds' \subseteq Stampeds
      PROVE  ReadInv'
  <2>1. mpc' = "select" /\ ~due' => ~HeadRipe'
    BY <1>2 DEF ReadInv, HeadRipe, Ripe
  <2> QED
    BY <1>1, <1>2, <2>1
<1>3. ASSUME NEW o \in Obj, NEW d \in Doc \cup {Absent}, Write(o, d) PROVE ReadInv'
  <2>1. PICK n \in Version : n = Len(log) + 1
    BY <1>3, LogGrows
  <2>2. n \notin DOMAIN log /\ \A r \in DOMAIN log : r < n
    BY <1>3, <2>1, LogGrows
  <2>3. Chans' \subseteq Chans \cup {n}
    BY <1>3, <1>a, <2>1, WriteMoves
  <2>4. UNCHANGED <<rpc, left, answer, owed, mpc, held, due, out, raw, hand, pump>>
    BY <1>3 DEF Write
  <2>5. Stampeds' = Stampeds
    BY <2>4, StampedsMove
  <2>6. (\A e : Young(e)' <=> Young(e)) /\ (HeadRipe' <=> HeadRipe) /\ visibilityLag' = visibilityLag
    BY <2>4 DEF Young, visibilityLag, HeadRipe, Ripe
  <2>7. \A x \in owed : x < n /\ x # n
    BY <1>c, <2>2
  <2>8. rpc # "idle" /\ left < visibilityLag => \A r \in Chans', x \in owed : x < r
    BY <2>3, <2>7 DEF ReadInv
  <2>9. rpc = "idle" /\ answer \in {"quiet", "drained"} => owed \cap (Chans' \cup Range(out)) = {}
    BY <2>3, <2>7 DEF ReadInv
  <2> QED
    BY <2>4, <2>5, <2>6, <2>8, <2>9 DEF ReadInv
<1>4. ASSUME NEW k \in Kind, NEW f \in Faults, Disturb(k, f) PROVE ReadInv'
  <2> DEFINE ev == [typ |-> f, rv |-> 0]
  <2>1. ev \in Change \cup Fault /\ ev.typ # "change"
    BY EventStreamAssumption DEF Fault
  <2>2. /\ UNCHANGED <<rpc, left, answer, owed, mpc, held, due, out, log, raw, pump, hand>>
        /\ chan' = chan \/ chan' = [chan EXCEPT ![k] = Append(@, ev)]
    BY <1>4 DEF Disturb, Deliver
  <2> HIDE DEF ev
  <2>3. Chans' = Chans
    BY <1>a, <2>1, <2>2, FaultMoves
  <2>4. Stampeds' = Stampeds
    BY <2>2, StampedsMove
  <2> QED
    BY <1>2, <2>2, <2>3, <2>4
<1>5. ASSUME NEW k \in Kind, StopWatcher(k) PROVE ReadInv'
  <2> DEFINE ev == [typ |-> "closed", rv |-> 0]
  <2>1. ev \in Change \cup Fault /\ ev.typ # "change"
    BY EventStreamAssumption DEF Fault
  <2>2. /\ UNCHANGED <<rpc, left, answer, owed, mpc, held, due, out, log, raw, pump, hand>>
        /\ chan' = [chan EXCEPT ![k] = Append(@, ev)]
    BY <1>5 DEF StopWatcher
  <2> HIDE DEF ev
  <2>3. Chans' = Chans
    BY <1>a, <2>1, <2>2, FaultMoves
  <2>4. Stampeds' = Stampeds
    BY <2>2, StampedsMove
  <2> QED
    BY <1>2, <2>2, <2>3, <2>4
<1>6. ASSUME NEW k \in Kind, addSource(k) PROVE ReadInv'
  <2>1. UNCHANGED <<rpc, answer, mpc, held>> /\ mpc = "off"
    BY <1>6 DEF addSource
  <2>2. rpc = "idle" /\ answer \notin {"quiet", "drained"} /\ held = <<>>
    BY <2>1 DEF CallInv, ReadInv
  <2> QED
    BY <2>1, <2>2 DEF ReadInv
<1>7. ASSUME NEW k \in Kind, PumpStops(k) PROVE ReadInv'
  <2>1. /\ UNCHANGED <<rpc, left, answer, owed, mpc, held, due, out, log, chan>>
        /\ pump' = [pump EXCEPT ![k] = "done"] /\ hand' = [hand EXCEPT ![k] = Nothing]
    BY <1>7 DEF PumpStops, Goto
  <2>2. /\ pump'[k] = "done"
        /\ \A j \in Kind : j # k => chan'[j] = chan[j] /\ pump'[j] = pump[j] /\ hand'[j] = hand[j]
    BY <2>1 DEF TypeOK
  <2>3. Chans' \subseteq Chans
    BY <2>1, <2>2, StopMoves
  <2>4. Stampeds' \subseteq Stampeds
    BY <1>7, StampedsMove
  <2> QED
    BY <1>2, <2>1, <2>3, <2>4
<1>8. ASSUME NEW k \in Kind, Send(k) PROVE ReadInv'
  <2>1. UNCHANGED <<rpc, left, answer, owed, mpc, held, due, out>>
    BY <1>8 DEF Send
  <2>2. Chans' = Chans
    BY <1>8, SendEmptiesHand
  <2>3. Stampeds' \subseteq Stampeds
    BY <1>8, StampedsMove
  <2> QED
    BY <1>2, <2>1, <2>2, <2>3
<1>9. ASSUME NEW k \in Kind, forward(k) PROVE ReadInv'
  <2>1. /\ \A j \in Kind : j # k => pump'[j] = pump[j] /\ hand'[j] = hand[j]
        /\ \/ \E x \in Chans : /\ hand'[k] = [rv |-> x, age |-> 0]
                               /\ Chans' = Chans \ {x}
                               /\ owed' = IF Owing THEN owed \cup {x} ELSE owed
           \/ Chans' = Chans /\ UNCHANGED <<pump, hand, owed>>
           \/ /\ Chans' = {r \in Chans : KindAt(r) # k} /\ pump'[k] = "done" /\ UNCHANGED owed
    BY <1>9, <1>a, ForwardMoves
  <2>2. UNCHANGED <<rpc, left, answer, mpc, held, due, out, raw>>
    BY <1>9 DEF forward
  <2>3. CASE Chans' = Chans /\ UNCHANGED <<pump, hand, owed>>
    <3>1. Stampeds' = Stampeds
      BY <2>2, <2>3, StampedsMove
    <3> QED
      BY <1>2, <2>2, <2>3, <3>1
  <2>4. CASE /\ Chans' = {r \in Chans : KindAt(r) # k} /\ pump'[k] = "done" /\ UNCHANGED owed
    <3>1. \A j \in Kind : pump'[j] = "send" => pump[j] = "send" /\ hand'[j] = hand[j]
      BY <2>1, <2>4
    <3>2. Stampeds' \subseteq Stampeds
      BY <2>2, <3>1 DEF Stampeds
    <3>3. Chans' \subseteq Chans
      BY <2>4
    <3> QED
      BY <1>2, <2>2, <2>4, <3>2, <3>3
  <2>5. ASSUME NEW x \in Chans, hand'[k] = [rv |-> x, age |-> 0], Chans' = Chans \ {x},
               owed' = IF Owing THEN owed \cup {x} ELSE owed
        PROVE  ReadInv'
    <3> DEFINE e0 == [rv |-> x, age |-> 0]
    <3>0. e0.rv = x /\ e0.age = 0 /\ x \in DOMAIN log /\ x \in Nat
      BY <1>c DEF Chans
    <3> HIDE DEF e0
    <3>1. Stampeds' \subseteq Stampeds \cup {e0}
      <4>1. \A j \in Kind : pump'[j] = "send" => hand'[j] = e0 \/ (pump[j] = "send" /\ hand'[j] = hand[j])
        BY <2>1, <2>5 DEF e0
      <4> QED
        BY <2>2, <4>1 DEF Stampeds
    <3>2. (\A e : Young(e)' <=> Young(e)) /\ (HeadRipe' <=> HeadRipe) /\ visibilityLag' = visibilityLag
      BY <2>2 DEF Young, visibilityLag, HeadRipe, Ripe
    <3>3. CASE Owing
      <4>1. rpc = "next" /\ left > visibilityLag
        BY <3>3 DEF Owing
      <4>2. \A e \in Stampeds \cup {e0} : ~Young(e)
        <5>1. \A e \in Stampeds \cup {e0} : e.age \in Nat
          BY <1>b, <3>0, StampedsType
        <5> QED
          BY <1>b, <4>1, <5>1 DEF Young
      <4>3. ~(left < visibilityLag) /\ ~(left <= 1) /\ left # 0
        BY <1>b, <4>1
      <4> QED
        BY <2>2, <3>1, <3>2, <4>1, <4>2, <4>3 DEF ReadInv
    <3>4. CASE ~Owing
      <4>1. owed' = owed /\ Chans' \subseteq Chans
        BY <2>5, <3>4
      <4>2. rpc # "idle" /\ Young(e0) => \A y \in owed : y < x
        <5>1. Young(e0) => left < visibilityLag
          BY <1>b, <3>0 DEF Young
        <5> QED
          BY <2>5, <5>1 DEF ReadInv
      <4>3. rpc # "idle" /\ left <= 1 => x \notin owed
        <5>1. left <= 1 => left < visibilityLag
          BY <1>b
        <5>2. ~(x < x)
          BY <3>0
        <5> QED
          BY <2>5, <5>1, <5>2 DEF ReadInv
      <4>4. rpc = "idle" /\ answer \in {"quiet", "drained"} => x \notin owed
        BY <2>5 DEF ReadInv
      <4>5. rpc # "idle" => \A e \in Stampeds' : Young(e) => \A y \in owed : y < e.rv
        BY <3>0, <3>1, <4>2 DEF ReadInv
      <4>6. rpc # "idle" /\ left <= 1 => \A e \in Stampeds' : e.rv \notin owed
        BY <3>0, <3>1, <4>3 DEF ReadInv
      <4>7. rpc # "idle" /\ left < visibilityLag => \A r \in Chans', y \in owed : y < r
        BY <4>1 DEF ReadInv
      <4>8. rpc = "idle" /\ answer \in {"quiet", "drained"} =>
              owed \cap (Chans' \cup Range(out)) = {} /\ \A e \in Stampeds' : e.rv \notin owed
        BY <3>0, <3>1, <4>1, <4>4 DEF ReadInv
      <4> QED
        BY <2>2, <3>2, <4>1, <4>5, <4>6, <4>7, <4>8 DEF ReadInv
    <3> QED
      BY <3>3, <3>4
  <2> QED
    BY <2>1, <2>3, <2>4, <2>5
<1>10. ASSUME UNCHANGED <<log, chan, pump>> PROVE Chans' = Chans
  BY <1>10 DEF Chans, ChanHas, KindAt
<1>11. CASE MergeStops \/ Poll \/ Drained \/ emit
  <2>1. /\ UNCHANGED <<rpc, left, answer, owed, held, out, log, chan, pump, raw, hand>>
        /\ mpc' \in {"done", "drain", "clock"}
    BY <1>11 DEF MergeStops, Poll, Drained, emit
  <2>2. Stampeds' = Stampeds
    BY <2>1, StampedsMove
  <2> QED
    BY <1>1, <1>10, <2>1, <2>2
<1>12. CASE NoneRipe
  <2>1. /\ UNCHANGED <<rpc, left, answer, owed, held, out, log, chan, pump, raw, hand>>
        /\ mpc' = "select" /\ ~HeadRipe
    BY <1>12 DEF NoneRipe
  <2>2. ~HeadRipe'
    BY <2>1 DEF HeadRipe, Ripe
  <2>3. Stampeds' = Stampeds
    BY <2>1, StampedsMove
  <2> QED
    BY <1>1, <1>10, <2>1, <2>2, <2>3
<1>13. CASE Receive
  <2>1. UNCHANGED <<rpc, left, answer, owed, out, log, chan, pump>> /\ mpc' = "drain"
    BY <1>13 DEF Receive
  <2>2. Stampeds' \subseteq Stampeds
    BY <1>13, StampedsMove
  <2> QED
    BY <1>1, <1>10, <2>1, <2>2
<1>14. CASE emitRipe
  <2> DEFINE x == Head(held).rv
  <2>1. UNCHANGED <<rpc, left, answer, owed, log, chan, pump>> /\ mpc = "clock"
    BY <1>14 DEF emitRipe
  <2>2. Stampeds' \subseteq Stampeds /\ Head(held) \in Stampeds
    BY <1>14, StampedsMove
  <2>3. Chans' = Chans
    BY <1>10, <2>1
  <2>4. (mpc' = "drain" /\ out' = out) \/ (mpc' = "emit" /\ out' = Append(out, x))
    BY <1>14 DEF emitRipe
  <2>5. x \in Version /\ out \in Seq(Version)
    BY <2>2, StampedsType DEF TypeOK
  <2>6. /\ rpc # "idle" /\ left <= 1 => x \notin owed
        /\ rpc = "idle" /\ answer \in {"quiet", "drained"} => x \notin owed
    BY <2>2 DEF ReadInv
  <2> HIDE DEF x
  <2>7. CASE mpc' = "drain" /\ out' = out
    BY <1>1, <2>1, <2>2, <2>3, <2>7
  <2>8. CASE mpc' = "emit" /\ out' = Append(out, x)
    <3>1. Range(out') = Range(out) \cup {x}
      <4>1. Range(Append(out, x)) = Range(out) \cup {x}
        BY <2>5, RangeMove
      <4> QED
        BY <2>8, <4>1
    <3>2. Last(out') = x
      <4>1. Len(Append(out, x)) = Len(out) + 1 /\ Append(out, x)[Len(out) + 1] = x
        BY <2>5
      <4> QED
        BY <2>8, <4>1 DEF Last
    <3>3. (\A e : Young(e)' <=> Young(e)) /\ visibilityLag' = visibilityLag
      BY <2>1 DEF Young, visibilityLag
    <3>4. /\ rpc # "idle" => answer = "none"
          /\ rpc # "idle" => \A e \in Stampeds' : Young(e) => \A y \in owed : y < e.rv
          /\ rpc # "idle" /\ left < visibilityLag => \A r \in Chans, y \in owed : y < r
          /\ rpc # "idle" /\ left <= 1 => \A e \in Stampeds' : e.rv \notin owed
      BY <2>2 DEF ReadInv
    <3>5. rpc = "next" /\ left = 0 => owed \cap Range(out') = {}
      BY <1>b, <2>6, <3>1 DEF ReadInv
    <3>6. rpc \in {"sleep", "drain"} /\ left = 0 => Last(out') \notin owed
      BY <2>6, <3>2
    <3>7. rpc = "idle" /\ answer \in {"quiet", "drained"} =>
            owed \cap (Chans \cup Range(out')) = {} /\ \A e \in Stampeds' : e.rv \notin owed
      BY <2>2, <2>6, <3>1 DEF ReadInv
    <3> QED
      BY <2>1, <2>3, <2>8, <3>3, <3>4, <3>5, <3>6, <3>7 DEF ReadInv
  <2> QED
    BY <2>4, <2>7, <2>8
<1>15. CASE watch
  <2>1. /\ UNCHANGED <<rpc, left, answer, owed, held, out, log, chan, pump, raw, hand>>
        /\ mpc = "off" /\ mpc' = "select"
    BY <1>15 DEF watch
  <2>2. ~HeadRipe'
    BY <2>1 DEF ReadInv, HeadRipe
  <2>3. Stampeds' = Stampeds
    BY <2>1, StampedsMove
  <2> QED
    BY <1>1, <1>10, <2>1, <2>2, <2>3
<1>16. CASE shutdown \/ Join \/ UNCHANGED vars
  <2>1. UNCHANGED <<rpc, left, answer, owed, mpc, held, due, out, log, chan, pump, raw, hand>>
    BY <1>16 DEF shutdown, Join, vars
  <2>2. Stampeds' = Stampeds
    BY <2>1, StampedsMove
  <2> QED
    BY <1>2, <1>10, <2>1, <2>2
<1>17. ASSUME NEW c \in Reads, Call(c) PROVE ReadInv'
  <2>1. /\ UNCHANGED <<mpc, held, due, out>> /\ mpc # "off"
        /\ \/ rpc' = "idle" /\ answer' = "terminal"
           \/ rpc' # "idle" /\ answer' = "none" /\ left' \in {Timeout + visibilityLag, visibilityLag}
    BY <1>17 DEF Call
  <2>2. rpc' = "idle" \/ (left' \in Nat /\ left' >= visibilityLag)
    BY <1>b, <2>1, EventStreamAssumption
  <2>3. HeadRipe' <=> HeadRipe
    BY <2>1 DEF HeadRipe, Ripe
  <2>4. ASSUME rpc' # "idle", NEW e \in Stampeds' PROVE ~Young(e)'
    <3>1. e \in Stampeds
      BY <1>17, <2>4, StampedsMove DEF Call
    <3>2. e.age \in Nat
      BY <1>b, <3>1, StampedsType
    <3> QED
      BY <1>b, <2>2, <2>4, <3>2 DEF Young, visibilityLag
  <2>5. rpc' # "idle" => ~(left' < visibilityLag') /\ ~(left' <= 1) /\ left' # 0
    BY <1>b, <2>2 DEF visibilityLag
  <2> QED
    BY <2>1, <2>3, <2>4, <2>5 DEF ReadInv
<1>18. CASE ReaderStep
  <2>1. UNCHANGED <<owed, mpc, held, due, log, chan, pump, raw, hand>>
    BY <1>18 DEF ReaderStep, Next_Event, Next_Ends, Drain_Wakes, Drain_Takes, Drain_Ends
  <2>2. Stampeds' = Stampeds /\ Chans' = Chans
    BY <1>10, <2>1, StampedsMove
  <2>3. HeadRipe' <=> HeadRipe
    BY <2>1 DEF HeadRipe, Ripe
  <2>4. out \in Seq(Version) /\ Len(out) \in Nat
    BY DEF TypeOK
  <2>4a. rpc # "idle" => mpc # "off"
    BY DEF CallInv
  <2>5. CASE Drain_Takes
    <3>1. UNCHANGED <<rpc, left, answer>> /\ OnChannel # <<>> /\ out' = Tail(out) /\ rpc # "idle"
      BY <2>5 DEF Drain_Takes
    <3>2. out # <<>>
      BY <3>1 DEF OnChannel
    <3>3. Range(out') \subseteq Range(out)
      <4>1. Range(out) = Range(Tail(out)) \cup {Head(out)}
        BY <2>4, <3>2, RangeMove
      <4> QED
        BY <3>1, <4>1
    <3>4. out' # <<>> => Last(out') = Last(out)
      <4>1. Len(Tail(out)) = Len(out) - 1 /\ Len(out) >= 1
        BY <2>4, <3>2
      <4>2. Tail(out) # <<>> => Len(out) - 1 >= 1
        BY <2>4, <4>1
      <4>3. Tail(out) # <<>> => Tail(out)[Len(out) - 1] = out[(Len(out) - 1) + 1]
        BY <2>4, <3>2, <4>2
      <4>4. (Len(out) - 1) + 1 = Len(out)
        BY <2>4
      <4> QED
        BY <3>1, <4>1, <4>3, <4>4 DEF Last
    <3>5. mpc' = "select" /\ ~due' => ~HeadRipe'
      BY <2>1, <2>3 DEF ReadInv
    <3> QED
      BY <1>1, <2>1, <2>2, <3>1, <3>2, <3>3, <3>4, <3>5
  <2>6. CASE Drain_Wakes
    <3>1. UNCHANGED <<left, answer, out>> /\ rpc = "sleep" /\ rpc' = "drain"
      BY <2>1, <2>6 DEF Drain_Wakes
    <3>2. (\A e : Young(e)' <=> Young(e)) /\ visibilityLag' = visibilityLag
      BY <3>1 DEF Young, visibilityLag
    <3> QED
      BY <2>1, <2>2, <2>3, <3>1, <3>2 DEF ReadInv
  <2>7. CASE Next_Event
    <3>1. rpc' = "idle" /\ answer' = "event" /\ rpc # "idle"
      BY <2>7 DEF Next_Event, Return
    <3> QED
      BY <2>1, <2>3, <2>4a, <3>1 DEF ReadInv
  <2>8. ASSUME rpc # "idle", left = 0 PROVE owed \cap Chans = {} /\ \A e \in Stampeds : e.rv \notin owed
    <3>1. left < visibilityLag /\ left <= 1
      BY <1>b, <2>8
    <3>2. \A r \in Chans, y \in owed : y < r
      BY <2>8, <3>1 DEF ReadInv
    <3>3. \A y \in owed : ~(y < y)
      BY <1>c
    <3> QED
      BY <2>8, <3>1, <3>2, <3>3 DEF ReadInv
  <2>9. ASSUME rpc # "idle", rpc' = "idle", UNCHANGED out,
               answer' \in {"quiet", "drained"} => left = 0 /\ owed \cap Range(out) = {}
        PROVE  ReadInv'
    <3>1. answer' \in {"quiet", "drained"} =>
            owed \cap (Chans \cup Range(out)) = {} /\ \A e \in Stampeds : e.rv \notin owed
      BY <2>8, <2>9
    <3> QED
      BY <2>1, <2>2, <2>3, <2>4a, <2>9, <3>1 DEF ReadInv
  <2>10. CASE Next_Ends
    <3>1. rpc = "next" /\ rpc' = "idle" /\ UNCHANGED out /\ (answer' = "terminal" \/ left = 0)
      BY <2>10 DEF Next_Ends, Return
    <3>2. left = 0 => owed \cap Range(out) = {}
      BY <3>1 DEF ReadInv
    <3> QED
      BY <2>9, <3>1, <3>2
  <2>11. CASE Drain_Ends
    <3>1. rpc = "drain" /\ rpc' = "idle" /\ UNCHANGED out /\ OnChannel = <<>>
      BY <2>11 DEF Drain_Ends, Return
    <3>2. left = 0
      BY <3>1 DEF CallInv
    <3>3. CASE ~(mpc = "emit" /\ out # <<>>)
      <4>1. out = <<>>
        BY <3>1, <3>3 DEF OnChannel
      <4>2. Range(out) = {}
        BY <4>1 DEF Range
      <4> QED
        BY <2>9, <3>1, <3>2, <4>2
    <3>4. CASE mpc = "emit" /\ out # <<>>
      <4>1. Front(out) = <<>>
        BY <3>1, <3>4 DEF OnChannel
      <4>2. Len(out) = 1
        <5>1. Len(out) \in Nat /\ Len(out) >= 1
          BY <2>4, <3>4, EmptySeq, LenProperties
        <5>2. SubSeq(out, 1, Len(out) - 1) = <<>>
          BY <4>1 DEF Front
        <5>3. ASSUME Len(out) >= 2 PROVE FALSE
          <6>1. SubSeq(out, 1, Len(out) - 1) = [i \in 1 .. Len(out) - 1 |-> out[i]]
            BY <2>4, <5>1
          <6>2. 1 \in DOMAIN SubSeq(out, 1, Len(out) - 1)
            BY <5>1, <5>3, <6>1
          <6>3. DOMAIN SubSeq(out, 1, Len(out) - 1) = {}
            BY <5>2
          <6> QED
            BY <6>2, <6>3
        <5> QED
          BY <5>1, <5>3, SMTT(30)
      <4>3. Range(out) = {out[1]} /\ Last(out) = out[1]
        <5>1. DOMAIN out = {1}
          BY <2>4, <4>2
        <5> QED
          BY <4>2, <5>1 DEF Range, Last
      <4>4. Last(out) \notin owed
        BY <3>1, <3>2, <3>4 DEF ReadInv
      <4>5. owed \cap Range(out) = {}
        BY <4>3, <4>4
      <4> QED
        BY <2>9, <3>1, <3>2, <4>5
    <3> QED
      BY <3>3, <3>4
  <2> QED
    BY <1>18, <2>5, <2>6, <2>7, <2>10, <2>11 DEF ReaderStep
<1>19. CASE Tick
  <2>1. /\ UNCHANGED <<log, chan, pump, mpc, out, rpc, answer, owed>>
        /\ left' = (IF left > 0 THEN left - 1 ELSE 0)
        /\ raw' = [i \in DOMAIN raw |-> Aged(raw[i])] /\ held' = [i \in DOMAIN held |-> Aged(held[i])]
        /\ hand' = [k \in Kind |-> Aged(hand[k])]
        /\ due' = (Prompt /\ mpc \notin {"off", "done"})
    BY <1>19 DEF Tick
  <2>2. Chans' = Chans
    BY <1>10, <2>1
  <2>3. \A e \in Stampeds' : \E f \in Stampeds : e = Aged(f)
    BY <2>1 DEF Stampeds, Range
  <2>4. \A f \in Stampeds : /\ Aged(f).rv = f.rv
                            /\ Aged(f).age = IF f.age < reorderWindow THEN f.age + 1 ELSE f.age
    <3>1. \A f \in Stampeds : f \in Stamped \cup {Nothing} /\ f \in Stamped
      BY StampedsType
    <3> QED
      BY <3>1, StampedType
  <2>5. mpc' = "select" => due'
    BY <2>1, Zenon
  <2>6. mpc' = "off" => held' = <<>>
    <3>1. mpc' = "off" => held = <<>>
      BY <2>1 DEF ReadInv
    <3>2. held = <<>> => held' = <<>>
      BY <2>1
    <3> QED
      BY <3>1, <3>2
  <2>7. CASE rpc = "idle"
    <3>1. answer \in {"quiet", "drained"} => \A e \in Stampeds' : e.rv \notin owed
      BY <2>3, <2>4, <2>7 DEF ReadInv
    <3> QED
      BY <2>1, <2>2, <2>5, <2>6, <2>7, <3>1 DEF ReadInv
  <2>8. CASE rpc # "idle"
    <3>1. /\ mpc = "select" /\ raw = <<>> /\ ~due /\ ~ReaderReady
          /\ \A k \in Kind : pump[k] # "send" /\ (pump[k] = "recv" => chan[k] = <<>>)
      BY <1>19, <2>8, TickIsQuiet
    <3>2. left > 0 /\ left' = left - 1
      BY <1>b, <2>1, <2>8, <3>1 DEF ReaderReady, TypeOK
    <3>3. Chans = {}
      <4> SUFFICES ASSUME NEW r \in Chans PROVE FALSE
        OBVIOUS
      <4>1. KindAt(r) \in Kind
        BY LogType DEF Chans
      <4> QED
        BY <3>1, <4>1 DEF Chans, ChanHas
    <3>4. Stampeds = Range(held)
      BY <3>1 DEF Stampeds, Range
    <3>5. ASSUME NEW f \in Stampeds, Young(Aged(f))' PROVE Young(f)
      <4>1. f.age \in Nat /\ visibilityLag' = visibilityLag
        BY <1>b, StampedsType DEF visibilityLag
      <4> QED
        BY <1>b, <2>4, <3>2, <3>5, <4>1 DEF Young
    <3>6. \A e \in Stampeds' : Young(e)' => \A x \in owed : x < e.rv
      <4> SUFFICES ASSUME NEW e \in Stampeds', Young(e)', NEW x \in owed PROVE x < e.rv
        OBVIOUS
      <4>1. PICK f \in Stampeds : e = Aged(f)
        BY <2>3
      <4>2. Young(f) /\ e.rv = f.rv
        BY <2>4, <3>5, <4>1
      <4> QED
        BY <2>8, <4>2 DEF ReadInv
    <3>7. left <= 2 => \A f \in Stampeds : f.rv \notin owed
      <4> SUFFICES ASSUME left <= 2, NEW i \in DOMAIN held, held[i].rv \in owed PROVE FALSE
        BY <3>4 DEF Range
      <4>1. held \in Seq(Stamped) /\ held # <<>>
        BY DEF TypeOK
      <4>2. Head(held) = held[1] /\ 1 \in DOMAIN held /\ i \in Nat /\ i >= 1
        BY <4>1
      <4>3. held[1] \in Stampeds /\ held[i] \in Stampeds
        BY <3>4, <4>2 DEF Range
      <4>4. held[1].rv \in Nat /\ held[i].rv \in Nat /\ held[1].age \in 0 .. reorderWindow
        BY <4>3, StampedsType
      <4>5. held[1].rv <= held[i].rv
        <5>1. CASE i = 1
          BY <4>4, <5>1
        <5>2. CASE i # 1
          <6>1. 1 < i
            BY <4>2, <5>2
          <6>2. held[1].rv < held[i].rv
            BY <4>2, <6>1 DEF OrderInv, Sorted
          <6> QED
            BY <4>4, <6>2
        <5> QED
          BY <5>1, <5>2
      <4>6. ~Young(held[1])
        <5>1. Young(held[1]) => held[i].rv < held[1].rv
          BY <2>8, <4>3 DEF ReadInv
        <5> QED
          BY <4>4, <4>5, <5>1
      <4>7. held[1].age = reorderWindow
        <5>1. ~(held[1].age < reorderWindow) \/ ~(held[1].age < visibilityLag - left)
          BY <4>6 DEF Young
        <5> QED
          BY <1>b, <4>4, <5>1
      <4>8. HeadRipe
        BY <4>1, <4>2, <4>7 DEF HeadRipe, Ripe
      <4> QED
        BY <3>1, <4>8 DEF ReadInv
    <3>8. left' <= 1 => \A e \in Stampeds' : e.rv \notin owed
      <4>1. left' <= 1 => left <= 2
        BY <1>b, <3>2
      <4> QED
        BY <2>3, <2>4, <3>7, <4>1
    <3>9. rpc = "next" => owed \cap Range(out) = {}
      <4> SUFFICES ASSUME rpc = "next" PROVE Range(out) = {}
        OBVIOUS
      <4>1. OnChannel = <<>>
        BY <3>1 DEF ReaderReady
      <4>2. out = <<>>
        BY <3>1, <4>1 DEF OnChannel
      <4> QED
        BY <4>2 DEF Range
    <3>10. answer = "none"
      BY <2>8 DEF ReadInv
    <3> QED
      BY <2>1, <2>2, <2>5, <2>6, <2>8, <3>1, <3>3, <3>6, <3>8, <3>9, <3>10 DEF ReadInv
  <2> QED
    BY <2>7, <2>8
<1> QED
  BY <1>3, <1>4, <1>5, <1>6, <1>7, <1>8, <1>9, <1>11, <1>12, <1>13, <1>14, <1>15, <1>16, <1>17,
     <1>18, <1>19
     DEF Next, PumpStep, MergeStep

(* visibilityLag is long enough: when no goroutine is starved, a Next that   *)
(* times out has nothing left behind that a pump accepted within the         *)
(* caller's timeout, and Drain leaves nothing that had arrived when it was   *)
(* called, whatever the reorder window, the capacities and the timeout.      *)
THEOREM SilencesAreReal ==
  ASSUME Prompt
  PROVE  Spec => []SilenceIsReal
<1> DEFINE Inv == TypeOK /\ PlaceInv /\ OrderInv /\ CallInv /\ ReadInv
<1>1. Init => Inv
  <2> SUFFICES ASSUME Init PROVE Inv
    OBVIOUS
  <2>1. TypeOK /\ PlaceInv /\ OrderInv
    BY PipelineInit
  <2>2. CallInv
    BY DEF Init, CallInv
  <2>3. ReadInv
    BY DEF Init, ReadInv
  <2> QED
    BY <2>1, <2>2, <2>3
<1>2. Inv /\ [Next]_vars => Inv'
  BY TypeInductive, PlaceInductive, OrderInductive, CallInductive, ReadInductive
<1>3. Inv => SilenceIsReal
  <2> SUFFICES ASSUME Inv, answer \in {"quiet", "drained"} PROVE owed \cap Pending = {}
    BY DEF SilenceIsReal
  <2>1. owed \cap Range(out) = {} /\ \A e \in Stampeds : e.rv \notin owed
    BY DEF ReadInv
  <2>2. Range(hand) \ {Nothing} \subseteq Stampeds
    <3>1. \A k \in Kind : hand[k] # Nothing => pump[k] = "send"
      BY DEF PlaceInv, SourceAt
    <3>2. DOMAIN hand = Kind
      BY DEF TypeOK
    <3> QED
      BY <3>1, <3>2 DEF Range, Stampeds
  <2>3. Range(raw) \cup Range(held) \subseteq Stampeds
    BY DEF Stampeds
  <2> QED
    BY <2>1, <2>2, <2>3 DEF Pending
<1> QED
  BY <1>1, <1>2, <1>3, PTL DEF Spec
==============================================================================
