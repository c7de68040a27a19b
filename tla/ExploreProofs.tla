---------------------------- MODULE ExploreProofs ----------------------------
(***************************************************************************)
(* For any model explored, any bounds and any chunk size: an untruncated   *)
(* search is complete, traces are shortest paths that replay, the order of *)
(* discovery is that of a search with one queue, the violation reported is *)
(* a shallowest one and a trap reported is a trap of the whole model.  At  *)
(* the end, the same for ParallelFor, which expands a chunk.               *)
(***************************************************************************)
EXTENDS Explore, ParallelFor, FiniteSetTheorems, SequenceTheorems, WellFoundedInduction, TLAPS

------------------------------------------------------------------------------
(* Recursion on the naturals. *)

(* A non-empty set of naturals has a least member. *)
LEMMA LeastExists ==
  ASSUME NEW S \in SUBSET Nat, S # {}
  PROVE  \E n \in S : \A m \in S : n <= m
<1>1. PICK n \in S : \A m \in S : <<m, n>> \notin OpToRel(<, Nat)
  BY NatLessThanWellFounded, WFMin
<1>2. ASSUME NEW m \in S PROVE ~(m < n)
  <2>1. <<m, n>> \notin {p \in Nat \X Nat : p[1] < p[2]}
    BY <1>1 DEF OpToRel
  <2> QED
    BY <2>1
<1> QED
  BY <1>2

(* Induction, for a set of naturals. *)
LEMMA Inductive ==
  ASSUME NEW S, 0 \in S, \A n \in Nat : n \in S => n + 1 \in S
  PROVE  Nat \subseteq S
<1> SUFFICES ASSUME NEW k \in Nat, k \notin S PROVE FALSE
  OBVIOUS
<1>1. PICK n \in Nat \ S : \A m \in Nat \ S : n <= m
  <2>1. Nat \ S \in SUBSET Nat /\ Nat \ S # {}
    OBVIOUS
  <2> QED
    BY <2>1, LeastExists
<1>2. n # 0 /\ n - 1 \in Nat
  BY <1>1
<1>3. n - 1 \in S
  BY <1>1, <1>2
<1> QED
  BY <1>1, <1>2, <1>3

(* What holds of i whenever it holds below i holds everywhere. *)
LEMMA Complete ==
  ASSUME NEW S, \A n \in Nat : (\A m \in Nat : m < n => m \in S) => n \in S
  PROVE  Nat \subseteq S
<1> SUFFICES ASSUME NEW k \in Nat, k \notin S PROVE FALSE
  OBVIOUS
<1>1. PICK n \in Nat \ S : \A m \in Nat \ S : n <= m
  <2>1. Nat \ S \in SUBSET Nat /\ Nat \ S # {}
    OBVIOUS
  <2> QED
    BY <2>1, LeastExists
<1>2. \A m \in Nat : m < n => m \in S
  BY <1>1
<1> QED
  BY <1>1, <1>2

(* f starts at x and takes the step F[n, _] at n. *)
Follows(f, X, x, F) == f \in [Nat -> X] /\ f[0] = x /\ \A n \in Nat : f[n + 1] = F[n + 1][f[n]]

(* A definition by steps has a solution. *)
LEMMA Recursion ==
  ASSUME NEW X, NEW x \in X, NEW F \in [Nat -> [X -> X]]
  PROVE  \E f : Follows(f, X, x, F)
<1> DEFINE Upto(n) == {g \in [0 .. n -> X] : g[0] = x /\ \A i \in 0 .. n - 1 : g[i + 1] = F[i + 1][g[i]]}
<1>1. \A n \in Nat : Upto(n) # {}
  <2> DEFINE S == {n \in Nat : Upto(n) # {}}
  <2>1. 0 \in S
    <3>1. [i \in 0 .. 0 |-> x] \in Upto(0)
      OBVIOUS
    <3> QED
      BY <3>1
  <2>2. ASSUME NEW n \in Nat, n \in S PROVE n + 1 \in S
    <3>1. PICK g : g \in Upto(n)
      BY <2>2
    <3> DEFINE e == [i \in 0 .. n + 1 |-> IF i = n + 1 THEN F[n + 1][g[n]] ELSE g[i]]
    <3>2. e \in [0 .. n + 1 -> X] /\ e[0] = x
      BY <3>1
    <3>3. ASSUME NEW i \in 0 .. n PROVE e[i + 1] = F[i + 1][e[i]]
      <4>1. CASE i = n
        BY <3>1, <4>1
      <4>2. CASE i # n
        <5>1. i \in 0 .. n - 1 /\ i + 1 \in 0 .. n + 1 /\ i + 1 # n + 1 /\ i # n + 1 /\ i \in 0 .. n + 1
          BY <4>2
        <5>2. g[i + 1] = F[i + 1][g[i]]
          BY <3>1, <5>1
        <5>3. e[i + 1] = g[i + 1] /\ e[i] = g[i]
          BY <5>1
        <5> HIDE DEF e
        <5> QED
          BY <5>2, <5>3
      <4> QED
        BY <4>1, <4>2
    <3>4. e \in Upto(n + 1)
      <4> HIDE DEF e
      <4> QED
        BY <3>2, <3>3
    <3> HIDE DEF e, Upto
    <3> QED
      BY <3>4
  <2> HIDE DEF S
  <2>3. Nat \subseteq S
    BY <2>1, <2>2, Inductive
  <2> QED
    BY <2>3 DEF S
<1>2. ASSUME NEW n \in Nat, NEW g \in Upto(n), NEW k \in Upto(n + 1) PROVE k[n] = g[n]
  <2> DEFINE S == {i \in Nat : i <= n => k[i] = g[i]}
  <2>1. 0 \in S
    OBVIOUS
  <2>2. ASSUME NEW i \in Nat, i \in S PROVE i + 1 \in S
    <3> SUFFICES ASSUME i + 1 <= n PROVE k[i + 1] = g[i + 1]
      OBVIOUS
    <3>1. i \in 0 .. n - 1 /\ i \in 0 .. (n + 1) - 1 /\ k[i] = g[i]
      BY <2>2
    <3> QED
      BY <3>1
  <2> HIDE DEF S
  <2>3. Nat \subseteq S
    BY <2>1, <2>2, Inductive
  <2> QED
    BY <2>3 DEF S
<1> DEFINE Pick(n) == CHOOSE g : g \in Upto(n)
<1> DEFINE f == [n \in Nat |-> Pick(n)[n]]
<1>3. \A n \in Nat : Pick(n) \in Upto(n)
  BY <1>1
<1>4. f \in [Nat -> X] /\ f[0] = x
  <2>1. ASSUME NEW n \in Nat PROVE Pick(n)[n] \in X
    <3>1. Pick(n) \in [0 .. n -> X]
      BY <1>3
    <3> HIDE DEF Pick
    <3> QED
      BY <3>1
  <2>2. Pick(0)[0] = x
    <3>1. Pick(0) \in Upto(0)
      BY <1>3
    <3> HIDE DEF Pick
    <3> QED
      BY <3>1
  <2> HIDE DEF Pick
  <2> QED
    BY <2>1, <2>2
<1>5. ASSUME NEW n \in Nat PROVE f[n + 1] = F[n + 1][f[n]]
  <2> HIDE DEF Pick
  <2>1. Pick(n) \in Upto(n) /\ Pick(n + 1) \in Upto(n + 1)
    <3> HIDE DEF Upto
    <3>1. n + 1 \in Nat
      OBVIOUS
    <3> QED
      BY <1>3, <3>1
  <2>2. Pick(n + 1)[n] = Pick(n)[n]
    BY <1>2, <2>1
  <2>3. n \in 0 .. (n + 1) - 1
    OBVIOUS
  <2>4. Pick(n + 1)[n + 1] = F[n + 1][Pick(n + 1)[n]]
    BY <2>1, <2>3
  <2> QED
    BY <2>2, <2>4
<1> HIDE DEF f
<1> QED
  BY <1>4, <1>5 DEF Follows

(* c climbs from x to level n by the steps F[1], F[2], ... *)
Climbs(c, n, X, x, F) == c \in [0 .. n -> X] /\ c[0] = x /\ \A k \in 1 .. n : c[k] = F[k][c[k - 1]]

(* The same up to a bound, as the loops below are written. *)
LEMMA BoundedRecursion ==
  ASSUME NEW X, NEW x \in X, NEW n \in Nat, NEW F \in [1 .. n -> [X -> X]]
  PROVE  \E c : Climbs(c, n, X, x, F)
<1> DEFINE W == [k \in Nat |-> IF k \in 1 .. n THEN F[k] ELSE [y \in X |-> y]]
<1>1. W \in [Nat -> [X -> X]]
  OBVIOUS
<1>2. PICK f : Follows(f, X, x, W)
  <2> HIDE DEF W
  <2> QED
    BY <1>1, Recursion
<1> DEFINE c == [k \in 0 .. n |-> f[k]]
<1>3. c \in [0 .. n -> X] /\ c[0] = x
  BY <1>2 DEF Follows
<1>4. ASSUME NEW k \in 1 .. n PROVE c[k] = F[k][c[k - 1]]
  <2>1. k - 1 \in Nat /\ (k - 1) + 1 = k /\ k \in Nat /\ k - 1 \in 0 .. n /\ k \in 0 .. n
    OBVIOUS
  <2>2. f[k] = W[k][f[k - 1]]
    <3> HIDE DEF W
    <3>1. f[(k - 1) + 1] = W[(k - 1) + 1][f[k - 1]]
      BY <1>2, <2>1 DEF Follows
    <3> QED
      BY <2>1, <3>1
  <2>3. W[k] = F[k]
    BY <2>1
  <2> HIDE DEF W
  <2> QED
    BY <2>1, <2>2, <2>3
<1> HIDE DEF c
<1> QED
  BY <1>3, <1>4 DEF Climbs

------------------------------------------------------------------------------
(* Sequences. *)

(* f flattens ss, one sequence at a time. *)
Flattening(f, X, ss) ==
  /\ f \in [0 .. Len(ss) -> Seq(X)] /\ f[0] = <<>>
  /\ \A k \in 1 .. Len(ss) : f[k] = f[k - 1] \o ss[k]
  /\ FlattenSeq(ss) = f[Len(ss)]

(* FlattenSeq concatenates. *)
LEMMA Flattens ==
  ASSUME NEW X, NEW ss \in Seq(Seq(X))
  PROVE  \E f : Flattening(f, X, ss)
<1> DEFINE n == Len(ss)
           F == [k \in 1 .. n |-> [y \in Seq(X) |-> y \o ss[k]]]
           Once(u, i) == IF i = 1 THEN ss[i] ELSE u[i - 1] \o ss[i]
<1>0. n \in Nat /\ (\A k \in 1 .. n : ss[k] \in Seq(X))
  OBVIOUS
<1>1. F \in [1 .. n -> [Seq(X) -> Seq(X)]] /\ <<>> \in Seq(X)
  OBVIOUS
<1>2. PICK c : Climbs(c, n, Seq(X), <<>>, F)
  <2> HIDE DEF F, n
  <2> QED
    BY <1>0, <1>1, BoundedRecursion
<1>3. c \in [0 .. n -> Seq(X)] /\ c[0] = <<>>
  BY <1>2 DEF Climbs
<1>4. ASSUME NEW k \in 1 .. n PROVE c[k] = c[k - 1] \o ss[k]
  <2>1. k - 1 \in 0 .. n
    OBVIOUS
  <2>2. c[k - 1] \in Seq(X)
    BY <1>3, <2>1
  <2>3. c[k] = F[k][c[k - 1]]
    BY <1>2 DEF Climbs
  <2> QED
    BY <2>2, <2>3
<1>5. CASE n = 0
  <2>1. FlattenSeq(ss) = <<>>
    BY <1>5 DEF FlattenSeq
  <2> QED
    BY <1>3, <1>4, <1>5, <2>1 DEF Flattening
<1>6. CASE n # 0
  <2> DEFINE d == [i \in 1 .. n |-> c[i]]
             fl == CHOOSE u : u = [i \in 1 .. n |-> Once(u, i)]
  <2>1. ASSUME NEW i \in 1 .. n PROVE d[i] = Once(d, i)
    <3>1. CASE i = 1
      <4>0. i - 1 = 0
        BY <3>1
      <4>1. c[1] = <<>> \o ss[1]
        <5>1. c[i] = c[i - 1] \o ss[i]
          BY <1>4
        <5> QED
          BY <1>3, <3>1, <4>0, <5>1
      <4>2. ss[1] \in Seq(X)
        BY <1>0, <3>1
      <4> QED
        BY <3>1, <4>1, <4>2
    <3>2. CASE i # 1
      <4>1. i - 1 \in 1 .. n
        BY <3>2
      <4>2. d[i - 1] = c[i - 1] /\ d[i] = c[i]
        BY <4>1
      <4> HIDE DEF d
      <4> QED
        BY <1>4, <3>2, <4>2
    <3> QED
      BY <3>1, <3>2
  <2>2. d = [i \in 1 .. n |-> Once(d, i)]
    <3> HIDE DEF Once
    <3>1. d = [i \in 1 .. n |-> d[i]]
      OBVIOUS
    <3> HIDE DEF d
    <3> QED
      BY <2>1, <3>1
  <2>3. fl = [i \in 1 .. n |-> Once(fl, i)]
    BY <2>2
  <2>4. FlattenSeq(ss) = fl[n]
    BY <1>6 DEF FlattenSeq
  <2> HIDE DEF fl
  <2> DEFINE S == {i \in Nat : i \in 1 .. n => fl[i] = c[i]}
  <2>5. 0 \in S
    OBVIOUS
  <2>6. ASSUME NEW i \in Nat, i \in S PROVE i + 1 \in S
    <3> SUFFICES ASSUME i + 1 \in 1 .. n PROVE fl[i + 1] = c[i + 1]
      OBVIOUS
    <3>1. fl[i + 1] = Once(fl, i + 1) /\ d[i + 1] = Once(d, i + 1) /\ d[i + 1] = c[i + 1]
      BY <2>1, <2>3
    <3>2. CASE i = 0
      BY <3>1, <3>2
    <3>3. CASE i # 0
      <4>1. i \in 1 .. n /\ fl[i] = c[i] /\ d[i] = c[i] /\ (i + 1) - 1 = i /\ i + 1 # 1
        BY <2>6, <3>3
      <4> HIDE DEF d
      <4> QED
        BY <3>1, <4>1
    <3> QED
      BY <3>2, <3>3
  <2> HIDE DEF S
  <2>7. Nat \subseteq S
    BY <2>5, <2>6, Inductive
  <2>8. fl[n] = c[n]
    BY <1>0, <1>6, <2>7 DEF S
  <2> QED
    BY <1>3, <1>4, <2>4, <2>8 DEF Flattening
<1> QED
  BY <1>5, <1>6

(* A flattened sequence has the members of its parts. *)
LEMMA FlattenMembers ==
  ASSUME NEW X, NEW ss \in Seq(Seq(X))
  PROVE  /\ FlattenSeq(ss) \in Seq(X)
         /\ \A i \in DOMAIN ss : \A k \in DOMAIN ss[i] :
              \E j \in DOMAIN FlattenSeq(ss) : FlattenSeq(ss)[j] = ss[i][k]
         /\ \A j \in DOMAIN FlattenSeq(ss) :
              \E i \in DOMAIN ss : \E k \in DOMAIN ss[i] : FlattenSeq(ss)[j] = ss[i][k]
<1> DEFINE n == Len(ss)
<1>1. PICK f : Flattening(f, X, ss)
  BY Flattens
<1>0. n \in Nat /\ DOMAIN ss = 1 .. n /\ (\A k \in 1 .. n : ss[k] \in Seq(X))
  OBVIOUS
<1>2. f \in [0 .. n -> Seq(X)] /\ f[0] = <<>> /\ (\A k \in 1 .. n : f[k] = f[k - 1] \o ss[k])
      /\ FlattenSeq(ss) = f[n]
  BY <1>1 DEF Flattening
<1> DEFINE Up(m) == \A i \in 1 .. m : \A k \in DOMAIN ss[i] : \E j \in DOMAIN f[m] : f[m][j] = ss[i][k]
           Down(m) == \A j \in DOMAIN f[m] : \E i \in 1 .. m : \E k \in DOMAIN ss[i] : f[m][j] = ss[i][k]
           S == {m \in Nat : m <= n => Up(m) /\ Down(m)}
<1>3. 0 \in S
  BY <1>2
<1>4. ASSUME NEW m \in Nat, m \in S PROVE m + 1 \in S
  <2> SUFFICES ASSUME m + 1 <= n PROVE Up(m + 1) /\ Down(m + 1)
    OBVIOUS
  <2> DEFINE p == f[m]  s == ss[m + 1]  q == f[m + 1]
  <2>1. m \in 0 .. n /\ m + 1 \in 1 .. n /\ (m + 1) - 1 = m /\ m <= n
    BY <1>0
  <2>2. p \in Seq(X) /\ s \in Seq(X) /\ q = p \o s
    <3>1. f[m + 1] = f[(m + 1) - 1] \o ss[m + 1]
      BY <1>2, <2>1
    <3> QED
      BY <1>0, <1>2, <2>1, <3>1
  <2>3. Up(m) /\ Down(m)
    BY <1>4, <2>1
  <2>4. /\ Len(q) = Len(p) + Len(s) /\ q \in Seq(X)
        /\ \A j \in 1 .. Len(p) : q[j] = p[j]
        /\ \A j \in 1 .. Len(s) : q[Len(p) + j] = s[j]
    <3> HIDE DEF p, s, q
    <3> QED
      BY <2>2
  <2>5. Len(p) \in Nat /\ Len(s) \in Nat /\ DOMAIN p = 1 .. Len(p) /\ DOMAIN s = 1 .. Len(s)
        /\ DOMAIN q = 1 .. Len(q)
    <3> HIDE DEF p, s, q
    <3> QED
      BY <2>2, <2>4
  <2>6. Up(m + 1)
    <3> SUFFICES ASSUME NEW i \in 1 .. m + 1, NEW k \in DOMAIN ss[i]
                 PROVE  \E j \in DOMAIN q : q[j] = ss[i][k]
      OBVIOUS
    <3>1. CASE i = m + 1
      <4>1. k \in 1 .. Len(s) /\ ss[i] = s
        BY <2>5, <3>1
      <4> HIDE DEF p, s, q
      <4>2. Len(p) + k \in 1 .. Len(q)
        BY <2>4, <2>5, <4>1
      <4> QED
        BY <2>4, <2>5, <4>1, <4>2
    <3>2. CASE i # m + 1
      <4>1. i \in 1 .. m
        BY <3>2
      <4>2. PICK j \in DOMAIN p : p[j] = ss[i][k]
        BY <2>3, <4>1
      <4> HIDE DEF p, s, q
      <4>3. j \in 1 .. Len(p) /\ j \in 1 .. Len(q)
        BY <2>4, <2>5
      <4> QED
        BY <2>4, <2>5, <4>2, <4>3
    <3> QED
      BY <3>1, <3>2
  <2>7. Down(m + 1)
    <3> SUFFICES ASSUME NEW j \in DOMAIN q
                 PROVE  \E i \in 1 .. m + 1 : \E k \in DOMAIN ss[i] : q[j] = ss[i][k]
      OBVIOUS
    <3>1. CASE j <= Len(p)
      <4>1. j \in DOMAIN p /\ q[j] = p[j]
        <5> HIDE DEF p, s, q
        <5> QED
          BY <2>4, <2>5, <3>1
      <4>2. PICK i \in 1 .. m : \E k \in DOMAIN ss[i] : p[j] = ss[i][k]
        BY <2>3, <4>1
      <4>3. i \in 1 .. m + 1
        OBVIOUS
      <4> HIDE DEF p, s, q
      <4> QED
        BY <4>1, <4>2, <4>3
    <3>2. CASE ~(j <= Len(p))
      <4>1. j - Len(p) \in DOMAIN s /\ q[j] = s[j - Len(p)]
        <5> HIDE DEF p, s, q
        <5>1. j \in 1 .. Len(p) + Len(s)
          BY <2>4, <2>5
        <5>2. j - Len(p) \in 1 .. Len(s) /\ Len(p) + (j - Len(p)) = j
          BY <2>5, <3>2, <5>1
        <5> QED
          BY <2>4, <2>5, <5>2
      <4>2. m + 1 \in 1 .. m + 1
        OBVIOUS
      <4> HIDE DEF p, q
      <4> QED
        BY <4>1, <4>2
    <3> QED
      BY <3>1, <3>2
  <2> HIDE DEF Up, Down
  <2> QED
    BY <2>6, <2>7
<1> HIDE DEF S
<1>5. Nat \subseteq S
  BY <1>3, <1>4, Inductive
<1>6. Up(n) /\ Down(n)
  BY <1>0, <1>5 DEF S
<1>7. FlattenSeq(ss) \in Seq(X)
  BY <1>0, <1>2
<1> HIDE DEF n
<1>8. \A i \in DOMAIN ss : \A k \in DOMAIN ss[i] : \E j \in DOMAIN f[n] : f[n][j] = ss[i][k]
  BY <1>0, <1>6
<1>9. \A j \in DOMAIN f[n] : \E i \in DOMAIN ss : \E k \in DOMAIN ss[i] : f[n][j] = ss[i][k]
  BY <1>0, <1>6
<1> QED
  BY <1>2, <1>7, <1>8, <1>9

------------------------------------------------------------------------------
(* The steps of a search, on a graph. *)

Name  == STRING \cup {""}
Move  == [move : STRING, to : State]
Node  == [key : State, parent : Nat, actor : Nat, move : Name, ordinal : Nat]
Edge  == [from : Nat, actor : Actor, to : Nat]
Graph == [node : Seq(Node), edges : Seq(Edge), unknown : SUBSET Nat, truncated : BOOLEAN]
Child  == [from : Nat, actor : Actor, move : Name, to : State, ordinal : Nat]

(* What a search is given. *)
Given ==
  /\ moves \in [State -> [Actor -> Seq(Move)]]
  /\ initial \in Seq(State)
  /\ bad \subseteq State /\ goal \subseteq State
  /\ maxStates \in Nat \ {0} /\ maxDepth \in Nat /\ chunk \in Nat \ {0}

(* An actor is a natural number. *)
LEMMA ActorsAreNats == Actor \subseteq Nat /\ State \subseteq Nat \ {0}
<1>1. Cardinality(Actor) \in Nat /\ Cardinality(State) \in Nat
  BY ExploreAssumption, FS_CardinalityType
<1>2. \A n \in Nat : 1 .. n \subseteq Nat \ {0}
  OBVIOUS
<1> QED
  BY <1>1, <1>2, ExploreAssumption

(* addNode appends one node and changes nothing else. *)
AddsNode(g, h, nd) ==
  /\ h \in Graph /\ h.node = Append(g.node, nd) /\ h.edges = g.edges
  /\ h.unknown = g.unknown /\ h.truncated = g.truncated

LEMMA AddedEffect ==
  ASSUME NEW g \in Graph, NEW key \in State, NEW parent \in Nat, NEW actor \in Nat, NEW move \in Name,
         NEW ordinal \in Nat
  PROVE  AddsNode(g, Added(g, key, parent, actor, move, ordinal),
                  [key |-> key, parent |-> parent, actor |-> actor, move |-> move, ordinal |-> ordinal])
<1> DEFINE nd == [key |-> key, parent |-> parent, actor |-> actor, move |-> move, ordinal |-> ordinal]
           h == Added(g, key, parent, actor, move, ordinal)
<1>1. nd \in Node
  BY DEF Node
<1>2. g.node \in Seq(Node) /\ g.edges \in Seq(Edge) /\ g.unknown \in SUBSET Nat /\ g.truncated \in BOOLEAN
  BY DEF Graph
<1>3. g = [node |-> g.node, edges |-> g.edges, unknown |-> g.unknown, truncated |-> g.truncated]
  BY DEF Graph
<1>0. h = [g EXCEPT !.node = Append(g.node, nd)]
  BY DEF Added
<1> HIDE DEF nd, h
<1>4. h = [node |-> Append(g.node, nd), edges |-> g.edges, unknown |-> g.unknown, truncated |-> g.truncated]
  BY <1>0, <1>3
<1>5. Append(g.node, nd) \in Seq(Node)
  BY <1>1, <1>2
<1>6. h \in Graph
  BY <1>2, <1>4, <1>5 DEF Graph
<1>7. AddsNode(g, h, nd)
  BY <1>4, <1>6 DEF AddsNode
<1> QED
  BY <1>7 DEF nd, h

(* A root: known, refused or added. *)
RootKnown(g, h, key)   == h = g /\ \E i \in DOMAIN g.node : g.node[i].key = key
RootRefused(g, h)      == /\ Len(g.node) >= maxStates /\ h \in Graph
                          /\ h.node = g.node /\ h.edges = g.edges /\ h.unknown = g.unknown
                          /\ h.truncated
RootAdded(g, h, key)   == /\ Len(g.node) < maxStates /\ (\A i \in DOMAIN g.node : g.node[i].key # key)
                          /\ AddsNode(g, h, [key |-> key, parent |-> 0, actor |-> 0, move |-> "", ordinal |-> 0])

LEMMA RootEffect ==
  ASSUME NEW g \in Graph, NEW key \in State, maxStates \in Nat
  PROVE  \/ RootKnown(g, Root(g, key), key)
         \/ RootRefused(g, Root(g, key))
         \/ RootAdded(g, Root(g, key), key)
<1>1. g.node \in Seq(Node) /\ g.edges \in Seq(Edge) /\ g.unknown \in SUBSET Nat /\ g.truncated \in BOOLEAN
  BY DEF Graph
<1>2. g = [node |-> g.node, edges |-> g.edges, unknown |-> g.unknown, truncated |-> g.truncated]
  BY DEF Graph
<1>3. CASE lookup(g, key) # {}
  BY <1>3 DEF Root, RootKnown, lookup
<1>4. CASE lookup(g, key) = {} /\ Full(g)
  <2> DEFINE h == Root(g, key)
  <2>1. h = [node |-> g.node, edges |-> g.edges, unknown |-> g.unknown, truncated |-> TRUE]
    BY <1>2, <1>4 DEF Root
  <2> HIDE DEF h
  <2>2. h \in Graph
    BY <1>1, <2>1 DEF Graph
  <2>3. h.node = g.node /\ h.edges = g.edges /\ h.unknown = g.unknown
    BY <2>1
  <2>4. h.truncated
    BY <2>1
  <2>5. Len(g.node) >= maxStates
    BY <1>4 DEF Full
  <2>6. RootRefused(g, h)
    BY <2>2, <2>3, <2>4, <2>5 DEF RootRefused
  <2> QED
    BY <2>6 DEF h
<1>5. CASE lookup(g, key) = {} /\ ~Full(g)
  <2>1. Root(g, key) = Added(g, key, 0, 0, "", 0)
    BY <1>5 DEF Root
  <2>2. AddsNode(g, Root(g, key), [key |-> key, parent |-> 0, actor |-> 0, move |-> "", ordinal |-> 0])
    <3>0. 0 \in Nat
      OBVIOUS
    <3>1. "" \in Name
      BY DEF Name
    <3>2. AddsNode(g, Added(g, key, 0, 0, "", 0), [key |-> key, parent |-> 0, actor |-> 0, move |-> "", ordinal |-> 0])
      BY <3>0, <3>1, AddedEffect, Zenon
    <3> QED
      BY <2>1, <3>2
  <2>3. Len(g.node) \in Nat
    BY <1>1
  <2>4. Len(g.node) < maxStates
    BY <1>5, <2>3 DEF Full
  <2>5. \A i \in DOMAIN g.node : g.node[i].key # key
    BY <1>5 DEF lookup
  <2> QED
    BY <2>2, <2>4, <2>5 DEF RootAdded
<1> QED
  BY <1>3, <1>4, <1>5

(* A successor: refused by MaxStates, new, or known. *)
LinksTo(g, h, sc, nodes, i) ==
  /\ h \in Graph /\ h.node = nodes /\ h.unknown = g.unknown /\ h.truncated = g.truncated
  /\ h.edges = Append(g.edges, [from |-> sc.from, actor |-> sc.actor, to |-> i])
SuccRefused(g, h, sc) ==
  /\ Len(g.node) >= maxStates /\ h \in Graph /\ h.node = g.node /\ h.edges = g.edges
  /\ h.unknown = g.unknown \cup {sc.from}
  /\ h.truncated
  /\ \A i \in DOMAIN g.node : g.node[i].key # sc.to
NodeOf(sc) == [key |-> sc.to, parent |-> sc.from, actor |-> sc.actor, move |-> sc.move, ordinal |-> sc.ordinal]
SuccNew(g, h, sc) ==
  /\ Len(g.node) < maxStates /\ (\A i \in DOMAIN g.node : g.node[i].key # sc.to)
  /\ LinksTo(g, h, sc, Append(g.node, NodeOf(sc)), Len(g.node) + 1)
SuccKnown(g, h, sc) == \E i \in DOMAIN g.node : g.node[i].key = sc.to /\ LinksTo(g, h, sc, g.node, i)

LEMMA LinkEffect ==
  ASSUME NEW g \in Graph, NEW h \in Graph, NEW sc \in Child, NEW i \in Nat,
         h.unknown = g.unknown, h.truncated = g.truncated, h.edges = g.edges
  PROVE  LinksTo(g, [h EXCEPT !.edges = Append(@, [from |-> sc.from, actor |-> sc.actor, to |-> i])], sc, h.node, i)
<1> DEFINE e == [from |-> sc.from, actor |-> sc.actor, to |-> i]
           r == [h EXCEPT !.edges = Append(@, e)]
<1>1. e \in Edge
  BY DEF Edge, Child
<1>2. h.node \in Seq(Node) /\ h.edges \in Seq(Edge) /\ h.unknown \in SUBSET Nat /\ h.truncated \in BOOLEAN
  BY DEF Graph
<1>3. h = [node |-> h.node, edges |-> h.edges, unknown |-> h.unknown, truncated |-> h.truncated]
  BY DEF Graph
<1>4. r = [node |-> h.node, edges |-> Append(h.edges, e), unknown |-> h.unknown, truncated |-> h.truncated]
  BY <1>3
<1> HIDE DEF e, r
<1>5. Append(h.edges, e) \in Seq(Edge)
  BY <1>1, <1>2
<1>6. r \in Graph
  BY <1>2, <1>4, <1>5 DEF Graph
<1>7. r.node = h.node /\ r.unknown = g.unknown /\ r.truncated = g.truncated /\ r.edges = Append(g.edges, e)
  BY <1>4
<1>8. r \in Graph /\ r.node = h.node /\ r.unknown = g.unknown /\ r.truncated = g.truncated
      /\ r.edges = Append(g.edges, [from |-> sc.from, actor |-> sc.actor, to |-> i])
  BY <1>6, <1>7 DEF e
<1>9. LinksTo(g, r, sc, h.node, i)
  BY <1>8 DEF LinksTo
<1> QED
  BY <1>9 DEF r, e

LEMMA MergedEffect ==
  ASSUME NEW g \in Graph, NEW sc \in Child, maxStates \in Nat
  PROVE  \/ SuccRefused(g, Merged(g, sc), sc)
         \/ SuccNew(g, Merged(g, sc), sc)
         \/ SuccKnown(g, Merged(g, sc), sc)
<1>1. g.node \in Seq(Node) /\ g.edges \in Seq(Edge) /\ g.unknown \in SUBSET Nat /\ g.truncated \in BOOLEAN
  BY DEF Graph
<1>2. g = [node |-> g.node, edges |-> g.edges, unknown |-> g.unknown, truncated |-> g.truncated]
  BY DEF Graph
<1>3. sc.from \in Nat /\ sc.actor \in Actor /\ sc.move \in Name /\ sc.to \in State /\ sc.ordinal \in Nat
      /\ sc.actor \in Nat
  BY ActorsAreNats DEF Child
<1>4. Len(g.node) \in Nat /\ DOMAIN g.node = 1 .. Len(g.node)
  BY <1>1
<1>5. CASE lookup(g, sc.to) = {} /\ Full(g)
  <2> DEFINE h == Merged(g, sc)
  <2>1. h = [node |-> g.node, edges |-> g.edges, unknown |-> g.unknown \cup {sc.from}, truncated |-> TRUE]
    <3>1. h = Refused(g, sc.from)
      BY <1>5 DEF Merged
    <3>2. Refused(g, sc.from) = [node |-> g.node, edges |-> g.edges, unknown |-> g.unknown \cup {sc.from}, truncated |-> TRUE]
      BY <1>2 DEF Refused
    <3> QED
      BY <3>1, <3>2
  <2> HIDE DEF h
  <2>2. h \in Graph
    BY <1>1, <1>3, <2>1 DEF Graph
  <2>3. h.node = g.node /\ h.edges = g.edges /\ h.unknown = g.unknown \cup {sc.from}
    BY <2>1
  <2>4. h.truncated
    BY <2>1
  <2>5. Len(g.node) >= maxStates /\ \A i \in DOMAIN g.node : g.node[i].key # sc.to
    BY <1>5 DEF Full, lookup
  <2>6. SuccRefused(g, h, sc)
    BY <2>2, <2>3, <2>4, <2>5 DEF SuccRefused
  <2> QED
    BY <2>6 DEF h
<1>6. CASE lookup(g, sc.to) = {} /\ ~Full(g)
  <2> DEFINE h == Added(g, sc.to, sc.from, sc.actor, sc.move, sc.ordinal)
             to == CHOOSE i \in lookup(h, sc.to) : TRUE
             r == [h EXCEPT !.edges = Append(@, [from |-> sc.from, actor |-> sc.actor, to |-> to])]
  <2>1. Merged(g, sc) = r
    BY <1>6 DEF Merged
  <2>2. AddsNode(g, h, NodeOf(sc))
    BY <1>3, AddedEffect DEF NodeOf
  <2>3. NodeOf(sc).key = sc.to /\ (\A i \in DOMAIN g.node : g.node[i].key # sc.to)
    BY <1>6 DEF NodeOf, lookup
  <2> DEFINE nd == NodeOf(sc)  l == Len(g.node)
  <2>4. nd \in Node
    BY <1>3 DEF NodeOf, Node
  <2>5. h \in Graph /\ h.node = Append(g.node, nd) /\ h.edges = g.edges
        /\ h.unknown = g.unknown /\ h.truncated = g.truncated
    BY <2>2 DEF AddsNode
  <2> HIDE DEF nd, h
  <2>6. DOMAIN h.node = 1 .. l + 1 /\ h.node[l + 1] = nd /\ (\A i \in 1 .. l : h.node[i] = g.node[i])
    BY <1>1, <1>4, <2>4, <2>5
  <2>7. to = l + 1
    <3>1. l + 1 \in lookup(h, sc.to)
      BY <1>4, <2>3, <2>6 DEF lookup, nd
    <3>2. ASSUME NEW i \in lookup(h, sc.to) PROVE i = l + 1
      <4>1. i \in 1 .. l + 1 /\ h.node[i].key = sc.to
        BY <2>6 DEF lookup
      <4>2. i \in 1 .. l => FALSE
        <5> SUFFICES ASSUME i \in 1 .. l PROVE FALSE
          OBVIOUS
        <5>1. h.node[i] = g.node[i] /\ i \in DOMAIN g.node
          BY <1>4, <2>6
        <5> QED
          BY <2>3, <4>1, <5>1
      <4> QED
        BY <1>4, <4>1, <4>2
    <3> QED
      BY <3>1, <3>2
  <2> HIDE DEF to
  <2>8. l + 1 \in Nat
    BY <1>4
  <2>9. LinksTo(g, [h EXCEPT !.edges = Append(@, [from |-> sc.from, actor |-> sc.actor, to |-> to])], sc, h.node, to)
    BY <2>5, <2>7, <2>8, LinkEffect
  <2>10. LinksTo(g, r, sc, Append(g.node, NodeOf(sc)), Len(g.node) + 1)
    <3>1. LinksTo(g, r, sc, h.node, to)
      BY <2>9
    <3> HIDE DEF r, l
    <3>2. h.node = Append(g.node, NodeOf(sc)) /\ to = Len(g.node) + 1
      BY <2>5, <2>7 DEF nd, l
    <3> QED
      BY <3>1, <3>2
  <2>11. Len(g.node) < maxStates
    BY <1>4, <1>6 DEF Full
  <2> HIDE DEF r, l
  <2>12. SuccNew(g, r, sc)
    BY <2>3, <2>10, <2>11 DEF SuccNew
  <2> QED
    BY <2>1, <2>12
<1>7. CASE lookup(g, sc.to) # {}
  <2> DEFINE to == CHOOSE i \in lookup(g, sc.to) : TRUE
             r == [g EXCEPT !.edges = Append(@, [from |-> sc.from, actor |-> sc.actor, to |-> to])]
  <2>1. Merged(g, sc) = r
    BY <1>7 DEF Merged
  <2>2. to \in DOMAIN g.node /\ g.node[to].key = sc.to
    BY <1>7 DEF lookup
  <2>3. to \in Nat
    BY <1>4, <2>2
  <2> HIDE DEF to
  <2>4. LinksTo(g, r, sc, g.node, to)
    BY <2>3, LinkEffect
  <2> HIDE DEF r
  <2>5. SuccKnown(g, r, sc)
    BY <2>2, <2>4 DEF SuccKnown
  <2> QED
    BY <2>1, <2>5
<1> QED
  BY <1>5, <1>6, <1>7

------------------------------------------------------------------------------
(* The loops, step by step. *)

MergeRun(c, g, found) ==
  /\ c[0] = g
  /\ \A k \in 1 .. Len(found) : c[k] = Merged(c[k - 1], found[k])

(* merge takes the successors in turn. *)
LEMMA MergeRuns ==
  ASSUME NEW found \in Seq(Child), G \in Graph, maxStates \in Nat
  PROVE  \E c : MergeRun(c, G, found) /\ merge(found) = c[Len(found)]
<1> DEFINE n == Len(found)
           F == [k \in 1 .. n |-> [g \in Graph |-> Merged(g, found[k])]]
           Once(u, k) == IF k = 0 THEN G ELSE Merged(u[k - 1], found[k])
<1>0. n \in Nat
  OBVIOUS
<1>1. F \in [1 .. n -> [Graph -> Graph]]
  <2>1. ASSUME NEW k \in 1 .. n, NEW g \in Graph PROVE Merged(g, found[k]) \in Graph
    <3>1. found[k] \in Child
      OBVIOUS
    <3> HIDE DEF n
    <3> QED
      BY <3>1, MergedEffect DEF SuccRefused, SuccNew, SuccKnown, LinksTo
  <2> HIDE DEF n
  <2> QED
    BY <2>1
<1>2. PICK f : Climbs(f, n, Graph, G, F)
  <2> HIDE DEF F, n
  <2> QED
    BY <1>0, <1>1, BoundedRecursion
<1>3. ASSUME NEW k \in 0 .. n PROVE f[k] = Once(f, k)
  <2>1. CASE k = 0
    BY <1>2, <2>1 DEF Climbs
  <2>2. CASE k # 0
    <3> HIDE DEF n
    <3>1. k \in 1 .. n /\ k - 1 \in 0 .. n
      BY <1>0, <2>2
    <3>2. f[k - 1] \in Graph /\ f[k] = F[k][f[k - 1]]
      BY <1>2, <3>1 DEF Climbs
    <3> QED
      BY <2>2, <3>1, <3>2
  <2> QED
    BY <2>1, <2>2
<1>4. f = [k \in 0 .. n |-> Once(f, k)]
  <2> HIDE DEF Once, n, F
  <2>1. f = [k \in 0 .. n |-> f[k]]
    BY <1>2 DEF Climbs
  <2> QED
    BY <1>3, <2>1
<1> DEFINE upTo == CHOOSE u : u = [k \in 0 .. n |-> Once(u, k)]
<1>5. upTo = [k \in 0 .. n |-> Once(upTo, k)]
  BY <1>4
<1>6. merge(found) = upTo[Len(found)]
  BY DEF merge
<1> HIDE DEF upTo
<1>7. upTo[0] = G
  BY <1>0, <1>5
<1>8. ASSUME NEW k \in 1 .. n PROVE upTo[k] = Merged(upTo[k - 1], found[k])
  <2>1. k \in 0 .. n /\ k # 0
    BY <1>0
  <2>2. upTo[k] = Once(upTo, k)
    <3> HIDE DEF Once, n
    <3> QED
      BY <1>5, <2>1
  <2> QED
    BY <2>1, <2>2
<1> QED
  BY <1>6, <1>7, <1>8 DEF MergeRun

RootRun(c, g) ==
  /\ c[0] = g
  /\ \A k \in 1 .. Len(initial) : c[k] = Root(c[k - 1], initial[k])

(* So does the loop over the initial states. *)
LEMMA RootRuns ==
  ASSUME initial \in Seq(State), G \in Graph, maxStates \in Nat
  PROVE  \E c : RootRun(c, G) /\ rooted = c[Len(initial)]
<1> DEFINE n == Len(initial)
           F == [k \in 1 .. n |-> [g \in Graph |-> Root(g, initial[k])]]
           Once(u, k) == IF k = 0 THEN G ELSE Root(u[k - 1], initial[k])
<1>0. n \in Nat
  OBVIOUS
<1>1. F \in [1 .. n -> [Graph -> Graph]]
  <2>1. ASSUME NEW k \in 1 .. n, NEW g \in Graph PROVE Root(g, initial[k]) \in Graph
    <3>1. initial[k] \in State
      OBVIOUS
    <3> HIDE DEF n
    <3> QED
      BY <3>1, RootEffect DEF RootKnown, RootRefused, RootAdded, AddsNode
  <2> HIDE DEF n
  <2> QED
    BY <2>1
<1>2. PICK f : Climbs(f, n, Graph, G, F)
  <2> HIDE DEF F, n
  <2> QED
    BY <1>0, <1>1, BoundedRecursion
<1>3. ASSUME NEW k \in 0 .. n PROVE f[k] = Once(f, k)
  <2>1. CASE k = 0
    BY <1>2, <2>1 DEF Climbs
  <2>2. CASE k # 0
    <3> HIDE DEF n
    <3>1. k \in 1 .. n /\ k - 1 \in 0 .. n
      BY <1>0, <2>2
    <3>2. f[k - 1] \in Graph /\ f[k] = F[k][f[k - 1]]
      BY <1>2, <3>1 DEF Climbs
    <3> QED
      BY <2>2, <3>1, <3>2
  <2> QED
    BY <2>1, <2>2
<1>4. f = [k \in 0 .. n |-> Once(f, k)]
  <2> HIDE DEF Once, n, F
  <2>1. f = [k \in 0 .. n |-> f[k]]
    BY <1>2 DEF Climbs
  <2> QED
    BY <1>3, <2>1
<1> DEFINE upTo == CHOOSE u : u = [k \in 0 .. n |-> Once(u, k)]
<1>5. upTo = [k \in 0 .. n |-> Once(upTo, k)]
  BY <1>4
<1>6. rooted = upTo[Len(initial)]
  BY DEF rooted
<1> HIDE DEF upTo
<1>7. upTo[0] = G
  BY <1>0, <1>5
<1>8. ASSUME NEW k \in 1 .. n PROVE upTo[k] = Root(upTo[k - 1], initial[k])
  <2>1. k \in 0 .. n /\ k # 0
    BY <1>0
  <2>2. upTo[k] = Once(upTo, k)
    <3> HIDE DEF Once, n
    <3> QED
      BY <1>5, <2>1
  <2> QED
    BY <2>1, <2>2
<1> QED
  BY <1>6, <1>7, <1>8 DEF RootRun

EnqueueRun(c, q, found) ==
  /\ c \in [0 .. Len(found) -> Seq(State)] /\ c[0] = q
  /\ \A k \in 1 .. Len(found) : c[k] = Enqueue(c[k - 1], found[k])

(* So does the search with one queue. *)
LEMMA EnqueueRuns ==
  ASSUME NEW found \in Seq(State), NEW q \in Seq(State)
  PROVE  \E c : EnqueueRun(c, q, found) /\ EnqueueAll(q, found) = c[Len(found)]
<1> DEFINE n == Len(found)
           F == [k \in 1 .. n |-> [g \in Seq(State) |-> Enqueue(g, found[k])]]
           Once(u, k) == IF k = 0 THEN q ELSE Enqueue(u[k - 1], found[k])
<1>0. n \in Nat
  OBVIOUS
<1>a. ASSUME NEW k \in 1 .. n, NEW g \in Seq(State) PROVE Enqueue(g, found[k]) \in Seq(State)
  <2>1. found[k] \in State
    OBVIOUS
  <2>2. Append(g, found[k]) \in Seq(State)
    BY <2>1
  <2> QED
    BY <2>2 DEF Enqueue
<1>1. F \in [1 .. n -> [Seq(State) -> Seq(State)]]
  <2> HIDE DEF n
  <2> QED
    BY <1>a
<1>2. PICK f : Climbs(f, n, Seq(State), q, F)
  <2> HIDE DEF F, n
  <2> QED
    BY <1>0, <1>1, BoundedRecursion
<1>3. ASSUME NEW k \in 0 .. n PROVE f[k] = Once(f, k)
  <2>1. CASE k = 0
    BY <1>2, <2>1 DEF Climbs
  <2>2. CASE k # 0
    <3> HIDE DEF n
    <3>1. k \in 1 .. n /\ k - 1 \in 0 .. n
      BY <1>0, <2>2
    <3>2. f[k - 1] \in Seq(State) /\ f[k] = F[k][f[k - 1]]
      BY <1>2, <3>1 DEF Climbs
    <3> QED
      BY <2>2, <3>1, <3>2
  <2> QED
    BY <2>1, <2>2
<1>4. f = [k \in 0 .. n |-> Once(f, k)]
  <2> HIDE DEF Once, n, F
  <2>1. f = [k \in 0 .. n |-> f[k]]
    BY <1>2 DEF Climbs
  <2> QED
    BY <1>3, <2>1
<1> DEFINE upTo == CHOOSE u : u = [k \in 0 .. n |-> Once(u, k)]
<1>5. upTo = [k \in 0 .. n |-> Once(upTo, k)]
  BY <1>4
<1>6. EnqueueAll(q, found) = upTo[Len(found)]
  BY DEF EnqueueAll
<1> HIDE DEF upTo
<1>7. upTo[0] = q
  BY <1>0, <1>5
<1>8. ASSUME NEW k \in 1 .. n PROVE upTo[k] = Enqueue(upTo[k - 1], found[k])
  <2>1. k \in 0 .. n /\ k # 0
    BY <1>0
  <2>2. upTo[k] = Once(upTo, k)
    <3> HIDE DEF Once, n
    <3> QED
      BY <1>5, <2>1
  <2> QED
    BY <2>1, <2>2
<1> DEFINE S == {k \in Nat : k <= n => upTo[k] \in Seq(State)}
<1>9. 0 \in S
  BY <1>7
<1>10. ASSUME NEW k \in Nat, k \in S PROVE k + 1 \in S
  <2> SUFFICES ASSUME k + 1 <= n PROVE upTo[k + 1] \in Seq(State)
    OBVIOUS
  <2>1. k + 1 \in 1 .. n /\ (k + 1) - 1 = k /\ k <= n
    BY <1>0
  <2>2. upTo[k] \in Seq(State)
    BY <1>10, <2>1
  <2>3. upTo[k + 1] = Enqueue(upTo[(k + 1) - 1], found[k + 1])
    BY <1>8, <2>1
  <2> HIDE DEF n
  <2> QED
    BY <1>a, <2>1, <2>2, <2>3
<1> HIDE DEF S
<1>11. Nat \subseteq S
  BY <1>9, <1>10, Inductive
<1>12. upTo \in [0 .. n -> Seq(State)]
  <2>1. ASSUME NEW k \in 0 .. n PROVE upTo[k] \in Seq(State)
    BY <1>0, <1>11 DEF S
  <2>2. upTo = [k \in 0 .. n |-> upTo[k]]
    <3> HIDE DEF Once
    <3> QED
      BY <1>5
  <2> QED
    BY <2>1, <2>2
<1> QED
  BY <1>6, <1>7, <1>8, <1>12 DEF EnqueueRun

------------------------------------------------------------------------------
(* What a graph says is so. *)

(* At node from, actor yields this move, which leads to the state to. *)
Comes(nd, from, actor, move, to, ordinal) ==
  /\ from \in DOMAIN nd /\ actor \in Actor
  /\ \E k \in DOMAIN moves[nd[from].key][actor] :
       /\ moves[nd[from].key][actor][k].move = move
       /\ moves[nd[from].key][actor][k].to = to
       /\ ordinalOf(moves[nd[from].key][actor], k) = ordinal
Real(nd, sc) == Comes(nd, sc.from, sc.actor, sc.move, sc.to, sc.ordinal)

Origin(nd, i) ==
  \/ nd[i].parent = 0 /\ nd[i].key \in Range(initial)
  \/ /\ nd[i].parent \in 1 .. i - 1
     /\ Comes(nd, nd[i].parent, nd[i].actor, nd[i].move, nd[i].key, nd[i].ordinal)

Sound(nd, e) == /\ e.from \in DOMAIN nd /\ e.actor \in Actor /\ e.to \in DOMAIN nd
                /\ nd[e.to].key \in Succ(nd[e.from].key, {e.actor})

WellFormed(g) ==
  /\ g \in Graph
  /\ Len(g.node) <= maxStates
  /\ \A i, j \in DOMAIN g.node : g.node[i].key = g.node[j].key => i = j
  /\ \A i \in DOMAIN g.node : Origin(g.node, i)
  /\ \A k \in DOMAIN g.edges : Sound(g.node, g.edges[k])
  /\ g.unknown \subseteq DOMAIN g.node

(* A graph with an unknown future says Truncated. *)
Honest(g) == g.unknown # {} => g.truncated

(* Truncated is said for a reason. *)
Bounded(g) == g.truncated => Len(g.node) >= maxStates

Longer(s, t) == Len(s) <= Len(t) /\ \A i \in DOMAIN s : t[i] = s[i]
Above(g, h)  == Longer(g.node, h.node) /\ Longer(g.edges, h.edges) /\ g.unknown \subseteq h.unknown

(* The successor is in the graph, or the node's future is unknown. *)
Covered(g, from, actor, to) ==
  \/ from \in g.unknown
  \/ \E k \in DOMAIN g.edges : /\ g.edges[k].from = from /\ g.edges[k].actor = actor
                               /\ g.edges[k].to \in DOMAIN g.node
                               /\ g.node[g.edges[k].to].key = to

LEMMA LongerAppend ==
  ASSUME NEW X, NEW s \in Seq(X), NEW x \in X
  PROVE  /\ Longer(s, Append(s, x)) /\ Append(s, x) \in Seq(X) /\ Len(Append(s, x)) = Len(s) + 1
         /\ Append(s, x)[Len(s) + 1] = x /\ DOMAIN Append(s, x) = 1 .. Len(s) + 1
         /\ \A i \in 1 .. Len(s) : Append(s, x)[i] = s[i]
<1>1. Len(s) \in Nat /\ DOMAIN s = 1 .. Len(s)
  OBVIOUS
<1> QED
  BY <1>1 DEF Longer

LEMMA LongerTransitive ==
  ASSUME NEW X, NEW s \in Seq(X), NEW t \in Seq(X), NEW u \in Seq(X), Longer(s, t), Longer(t, u)
  PROVE  Longer(s, u)
<1>1. Len(s) \in Nat /\ Len(t) \in Nat /\ Len(u) \in Nat /\ DOMAIN s = 1 .. Len(s) /\ DOMAIN t = 1 .. Len(t)
  OBVIOUS
<1>2. DOMAIN s \subseteq DOMAIN t
  BY <1>1 DEF Longer
<1> QED
  BY <1>1, <1>2 DEF Longer

LEMMA LongerDomain ==
  ASSUME NEW X, NEW s \in Seq(X), NEW t \in Seq(X), Longer(s, t)
  PROVE  DOMAIN s \subseteq DOMAIN t /\ DOMAIN s = 1 .. Len(s) /\ DOMAIN t = 1 .. Len(t) /\ Len(s) \in Nat /\ Len(t) \in Nat
<1>1. Len(s) \in Nat /\ Len(t) \in Nat /\ DOMAIN s = 1 .. Len(s) /\ DOMAIN t = 1 .. Len(t)
  OBVIOUS
<1> QED
  BY <1>1 DEF Longer

(* What holds of a node goes on holding as the graph grows. *)
LEMMA ComesStable ==
  ASSUME NEW s \in Seq(Node), NEW t \in Seq(Node), Longer(s, t), NEW from, NEW actor, NEW move, NEW to, NEW ordinal,
         Comes(s, from, actor, move, to, ordinal)
  PROVE  Comes(t, from, actor, move, to, ordinal)
<1>1. from \in DOMAIN s /\ from \in DOMAIN t /\ t[from] = s[from]
  BY LongerDomain DEF Comes, Longer
<1> QED
  BY <1>1 DEF Comes

LEMMA OriginStable ==
  ASSUME NEW s \in Seq(Node), NEW t \in Seq(Node), Longer(s, t), NEW i \in DOMAIN s, Origin(s, i)
  PROVE  Origin(t, i)
<1>1. t[i] = s[i]
  BY DEF Longer
<1>2. CASE s[i].parent = 0 /\ s[i].key \in Range(initial)
  BY <1>1, <1>2 DEF Origin
<1>3. CASE /\ s[i].parent \in 1 .. i - 1
           /\ Comes(s, s[i].parent, s[i].actor, s[i].move, s[i].key, s[i].ordinal)
  <2>1. Comes(t, s[i].parent, s[i].actor, s[i].move, s[i].key, s[i].ordinal)
    BY <1>3, ComesStable
  <2> QED
    BY <1>1, <1>3, <2>1 DEF Origin
<1> QED
  BY <1>2, <1>3 DEF Origin

LEMMA SoundStable ==
  ASSUME NEW s \in Seq(Node), NEW t \in Seq(Node), Longer(s, t), NEW e, Sound(s, e)
  PROVE  Sound(t, e)
<1>1. e.from \in DOMAIN t /\ e.to \in DOMAIN t /\ t[e.from] = s[e.from] /\ t[e.to] = s[e.to]
  BY LongerDomain DEF Sound, Longer
<1> QED
  BY <1>1 DEF Sound

LEMMA CoveredStable ==
  ASSUME NEW g \in Graph, NEW h \in Graph, Above(g, h), NEW from, NEW actor, NEW to, Covered(g, from, actor, to)
  PROVE  Covered(h, from, actor, to)
<1>1. g.node \in Seq(Node) /\ h.node \in Seq(Node) /\ g.edges \in Seq(Edge) /\ h.edges \in Seq(Edge)
  BY DEF Graph
<1>2. Longer(g.node, h.node) /\ Longer(g.edges, h.edges)
  BY DEF Above
<1>3. CASE from \in g.unknown
  BY <1>3 DEF Covered, Above
<1>4. CASE \E k \in DOMAIN g.edges : /\ g.edges[k].from = from /\ g.edges[k].actor = actor
                                     /\ g.edges[k].to \in DOMAIN g.node
                                     /\ g.node[g.edges[k].to].key = to
  <2>1. PICK k \in DOMAIN g.edges : /\ g.edges[k].from = from /\ g.edges[k].actor = actor
                                    /\ g.edges[k].to \in DOMAIN g.node
                                    /\ g.node[g.edges[k].to].key = to
    BY <1>4
  <2>2. k \in DOMAIN h.edges /\ h.edges[k] = g.edges[k]
    BY <1>1, <1>2, LongerDomain DEF Longer
  <2>3. g.edges[k].to \in DOMAIN h.node /\ h.node[g.edges[k].to] = g.node[g.edges[k].to]
    BY <1>1, <1>2, <2>1, LongerDomain DEF Longer
  <2> QED
    BY <2>1, <2>2, <2>3 DEF Covered
<1> QED
  BY <1>3, <1>4 DEF Covered

LEMMA AboveTransitive ==
  ASSUME NEW f \in Graph, NEW g \in Graph, NEW h \in Graph, Above(f, g), Above(g, h)
  PROVE  Above(f, h)
<1>1. /\ f.node \in Seq(Node) /\ g.node \in Seq(Node) /\ h.node \in Seq(Node)
      /\ f.edges \in Seq(Edge) /\ g.edges \in Seq(Edge) /\ h.edges \in Seq(Edge)
  BY DEF Graph
<1>2. Longer(f.node, h.node)
  <2>1. Longer(f.node, g.node) /\ Longer(g.node, h.node)
    BY DEF Above
  <2> QED
    BY <1>1, <2>1, LongerTransitive
<1>3. Longer(f.edges, h.edges)
  <2>1. Longer(f.edges, g.edges) /\ Longer(g.edges, h.edges)
    BY DEF Above
  <2> QED
    BY <1>1, <2>1, LongerTransitive
<1> QED
  BY <1>2, <1>3 DEF Above

(* More actors have more successors. *)
LEMMA SuccGrows == \A s : \A a \in Actor : Succ(s, {a}) \subseteq Succ(s, Actor)
<1> SUFFICES ASSUME NEW s, NEW a \in Actor, NEW x \in Succ(s, {a}) PROVE x \in Succ(s, Actor)
  OBVIOUS
<1> DEFINE To(b) == {moves[s][b][i].to : i \in DOMAIN moves[s][b]}
<1>1. Succ(s, {a}) = UNION {To(b) : b \in {a}} /\ Succ(s, Actor) = UNION {To(b) : b \in Actor}
  BY DEF Succ
<1> HIDE DEF To
<1> QED
  BY <1>1

(* A real move is a successor. *)
LEMMA RealIsSucc ==
  ASSUME NEW nd, NEW from, NEW actor, NEW move, NEW to, NEW ordinal, Comes(nd, from, actor, move, to, ordinal)
  PROVE  to \in Succ(nd[from].key, {actor})
BY DEF Comes, Succ

(* Adding a node with a new key and an origin. *)
LEMMA NodeAdded ==
  ASSUME maxStates \in Nat, NEW g, WellFormed(g), NEW nd \in Node, NEW h \in Graph,
         Len(g.node) < maxStates, \A i \in DOMAIN g.node : g.node[i].key # nd.key,
         h.node = Append(g.node, nd), h.unknown = g.unknown,
         Origin(h.node, Len(g.node) + 1),
         \A k \in DOMAIN h.edges : Sound(h.node, h.edges[k])
  PROVE  WellFormed(h)
<1> DEFINE s == g.node  t == h.node  l == Len(g.node)
<1>1. s \in Seq(Node) /\ t \in Seq(Node) /\ l \in Nat /\ DOMAIN s = 1 .. l
  BY DEF Graph, WellFormed
<1>2. Longer(s, t) /\ Len(t) = l + 1 /\ t[l + 1] = nd /\ DOMAIN t = 1 .. l + 1 /\ (\A i \in 1 .. l : t[i] = s[i])
  BY <1>1, LongerAppend
<1>3. Len(t) <= maxStates
  BY <1>1, <1>2
<1>4. ASSUME NEW i \in DOMAIN t, NEW j \in DOMAIN t, t[i].key = t[j].key PROVE i = j
  <2>1. \A m \in DOMAIN t : m \in 1 .. l \/ m = l + 1
    BY <1>1, <1>2
  <2>2. \A m \in 1 .. l : t[m].key # nd.key
    BY <1>1, <1>2
  <2>3. CASE i \in 1 .. l /\ j \in 1 .. l
    BY <1>1, <1>2, <1>4, <2>3 DEF WellFormed
  <2> HIDE DEF s, t, l
  <2> QED
    BY <1>2, <1>4, <2>1, <2>2, <2>3
<1>5. ASSUME NEW i \in DOMAIN t PROVE Origin(t, i)
  <2>1. CASE i \in 1 .. l
    <3>1. i \in DOMAIN s /\ Origin(s, i)
      BY <1>1, <2>1 DEF WellFormed
    <3> HIDE DEF s, t, l
    <3> QED
      BY <1>1, <1>2, <3>1, OriginStable
  <2>2. CASE i = l + 1
    BY <2>2
  <2> QED
    BY <1>1, <1>2, <2>1, <2>2
<1>6. h.unknown \subseteq DOMAIN t
  BY <1>1, <1>2 DEF WellFormed
<1> QED
  BY <1>3, <1>4, <1>5, <1>6 DEF WellFormed

(* What one step of the search does to the graph, apart from its nodes     *)
(* being known or not.                                                     *)
Keeps(g, h, lo, hi) ==
  /\ WellFormed(h) /\ Above(g, h)
  /\ \A i \in DOMAIN h.node : i \in DOMAIN g.node \/ h.node[i].parent \in lo .. hi
KeepsSaying(g, h) == Honest(h) /\ (Bounded(g) => Bounded(h)) /\ (g.truncated => h.truncated)

LEMMA MergedKeeps ==
  ASSUME maxStates \in Nat, NEW g, WellFormed(g), Honest(g), NEW sc \in Child, Real(g.node, sc)
  PROVE  /\ Keeps(g, Merged(g, sc), sc.from, sc.from)
         /\ KeepsSaying(g, Merged(g, sc))
         /\ Covered(Merged(g, sc), sc.from, sc.actor, sc.to)
<1> DEFINE h == Merged(g, sc)  s == g.node  l == Len(g.node)  e == [from |-> sc.from, actor |-> sc.actor, to |-> l + 1]
<1>1. /\ g \in Graph /\ s \in Seq(Node) /\ l \in Nat /\ DOMAIN s = 1 .. l
      /\ g.edges \in Seq(Edge) /\ DOMAIN g.edges = 1 .. Len(g.edges) /\ Len(g.edges) \in Nat
  BY DEF Graph, WellFormed
<1>2. sc.from \in 1 .. l /\ sc.actor \in Actor /\ sc.from \in Nat
  BY <1>1 DEF Real, Comes
<1>3. sc.to \in Succ(s[sc.from].key, {sc.actor})
  BY RealIsSucc DEF Real
<1>4. h \in Graph /\ (SuccRefused(g, h, sc) \/ SuccNew(g, h, sc) \/ SuccKnown(g, h, sc))
  <2>1. SuccRefused(g, h, sc) \/ SuccNew(g, h, sc) \/ SuccKnown(g, h, sc)
    BY <1>1, MergedEffect
  <2> QED
    BY <2>1 DEF SuccRefused, SuccNew, SuccKnown, LinksTo
<1> HIDE DEF h
<1>5. CASE SuccRefused(g, h, sc)
  <2>1. h.node = s /\ h.edges = g.edges /\ h.unknown = g.unknown \cup {sc.from} /\ l >= maxStates
    BY <1>5 DEF SuccRefused
  <2>2. h.truncated
    BY <1>5 DEF SuccRefused
  <2>3. WellFormed(h)
    BY <1>1, <1>2, <1>4, <2>1 DEF WellFormed
  <2>4. Above(g, h)
    BY <1>1, <2>1 DEF Above, Longer
  <2>5. Keeps(g, h, sc.from, sc.from)
    BY <2>1, <2>3, <2>4 DEF Keeps
  <2>6. Len(h.node) >= maxStates
    BY <2>1
  <2>7. KeepsSaying(g, h)
    BY <2>2, <2>6 DEF KeepsSaying, Honest, Bounded
  <2>8. Covered(h, sc.from, sc.actor, sc.to)
    BY <2>1 DEF Covered
  <2> QED
    BY <2>5, <2>7, <2>8 DEF h
<1>6. CASE SuccNew(g, h, sc)
  <2> DEFINE nd == NodeOf(sc)
  <2>1. /\ l < maxStates /\ (\A i \in DOMAIN s : s[i].key # sc.to)
        /\ h.node = Append(s, nd) /\ h.unknown = g.unknown /\ h.edges = Append(g.edges, e)
    BY <1>6 DEF SuccNew, LinksTo
  <2>2. h.truncated = g.truncated
    BY <1>6 DEF SuccNew, LinksTo
  <2>3. nd \in Node /\ nd.key = sc.to /\ nd.parent = sc.from /\ nd.actor = sc.actor /\ nd.move = sc.move
        /\ nd.ordinal = sc.ordinal
    BY ActorsAreNats DEF NodeOf, Node, Child
  <2>4. e \in Edge /\ e.from = sc.from /\ e.actor = sc.actor /\ e.to = l + 1
    BY <1>1, <1>2 DEF Edge
  <2> HIDE DEF nd, e
  <2>5. Longer(s, h.node) /\ Len(h.node) = l + 1 /\ h.node[l + 1] = nd /\ DOMAIN h.node = 1 .. l + 1
        /\ (\A i \in 1 .. l : h.node[i] = s[i])
    BY <1>1, <2>1, <2>3, LongerAppend
  <2>6. Longer(g.edges, h.edges) /\ DOMAIN h.edges = 1 .. Len(g.edges) + 1 /\ h.edges[Len(g.edges) + 1] = e
        /\ (\A i \in 1 .. Len(g.edges) : h.edges[i] = g.edges[i])
    BY <1>1, <2>1, <2>4, LongerAppend
  <2>7. h.node \in Seq(Node) /\ h.edges \in Seq(Edge)
    BY <1>4 DEF Graph
  <2>8. Origin(h.node, l + 1)
    <3>1. Comes(s, sc.from, sc.actor, sc.move, sc.to, sc.ordinal)
      BY DEF Real
    <3> HIDE DEF s
    <3>2. Comes(h.node, sc.from, sc.actor, sc.move, sc.to, sc.ordinal)
      BY <1>1, <2>5, <2>7, <3>1, ComesStable
    <3>3. sc.from \in 1 .. (l + 1) - 1
      BY <1>1, <1>2
    <3> QED
      BY <2>3, <2>5, <3>2, <3>3 DEF Origin
  <2>9. ASSUME NEW k \in DOMAIN h.edges PROVE Sound(h.node, h.edges[k])
    <3>1. CASE k = Len(g.edges) + 1
      <4>1. sc.from \in 1 .. l + 1 /\ l + 1 \in 1 .. l + 1
        BY <1>1, <1>2
      <4>2. h.node[sc.from] = s[sc.from]
        BY <1>2, <2>5
      <4> QED
        BY <1>2, <1>3, <2>3, <2>4, <2>5, <2>6, <3>1, <4>1, <4>2 DEF Sound
    <3>2. CASE k # Len(g.edges) + 1
      <4>1. k \in 1 .. Len(g.edges)
        BY <1>1, <2>6, <3>2
      <4>2. Sound(s, g.edges[k]) /\ h.edges[k] = g.edges[k]
        BY <1>1, <2>6, <4>1 DEF WellFormed
      <4> HIDE DEF s
      <4> QED
        BY <1>1, <2>5, <2>7, <4>2, SoundStable
    <3> QED
      BY <3>1, <3>2
  <2>10. WellFormed(h)
    BY <1>4, <2>1, <2>3, <2>8, <2>9, NodeAdded
  <2>11. Above(g, h)
    BY <2>1, <2>5, <2>6 DEF Above
  <2>12. Keeps(g, h, sc.from, sc.from)
    <3>1. ASSUME NEW i \in DOMAIN h.node PROVE i \in DOMAIN s \/ h.node[i].parent \in sc.from .. sc.from
      <4>1. i \in 1 .. l \/ i = l + 1
        BY <1>1, <2>5
      <4>2. sc.from \in sc.from .. sc.from
        BY <1>2
      <4> HIDE DEF s, l
      <4> QED
        BY <1>1, <2>3, <2>5, <4>1, <4>2
    <3> QED
      BY <2>10, <2>11, <3>1 DEF Keeps
  <2>13. KeepsSaying(g, h)
    <3>1. Honest(h)
      BY <2>1, <2>2 DEF Honest
    <3>2. Len(s) >= maxStates => Len(h.node) >= maxStates
      BY <1>1, <2>5
    <3> QED
      BY <2>2, <3>1, <3>2 DEF KeepsSaying, Bounded
  <2>14. Covered(h, sc.from, sc.actor, sc.to)
    <3>1. l + 1 \in DOMAIN h.node /\ Len(g.edges) + 1 \in DOMAIN h.edges
      BY <1>1, <2>5, <2>6
    <3> QED
      BY <2>3, <2>4, <2>5, <2>6, <3>1 DEF Covered
  <2> QED
    BY <2>12, <2>13, <2>14 DEF h
<1>7. CASE SuccKnown(g, h, sc)
  <2>1. PICK i \in DOMAIN s : s[i].key = sc.to /\ LinksTo(g, h, sc, s, i)
    BY <1>7 DEF SuccKnown
  <2> DEFINE a == [from |-> sc.from, actor |-> sc.actor, to |-> i]
  <2>2. h.node = s /\ h.unknown = g.unknown /\ h.edges = Append(g.edges, a)
    BY <2>1 DEF LinksTo
  <2>3. h.truncated = g.truncated
    BY <2>1 DEF LinksTo
  <2>4. a \in Edge /\ a.from = sc.from /\ a.actor = sc.actor /\ a.to = i
    BY <1>1, <1>2 DEF Edge
  <2> HIDE DEF a
  <2>5. Longer(g.edges, h.edges) /\ DOMAIN h.edges = 1 .. Len(g.edges) + 1 /\ h.edges[Len(g.edges) + 1] = a
        /\ (\A j \in 1 .. Len(g.edges) : h.edges[j] = g.edges[j])
    BY <1>1, <2>2, <2>4, LongerAppend
  <2>6. ASSUME NEW k \in DOMAIN h.edges PROVE Sound(h.node, h.edges[k])
    <3>1. CASE k = Len(g.edges) + 1
      BY <1>1, <1>2, <1>3, <2>1, <2>2, <2>4, <2>5, <3>1 DEF Sound
    <3>2. CASE k # Len(g.edges) + 1
      <4>1. k \in 1 .. Len(g.edges)
        BY <1>1, <2>5, <3>2
      <4> QED
        BY <1>1, <2>2, <2>5, <4>1 DEF WellFormed
    <3> QED
      BY <3>1, <3>2
  <2>7. WellFormed(h)
    <3>1. h.unknown \subseteq DOMAIN h.node /\ Len(h.node) <= maxStates
      BY <2>2 DEF WellFormed
    <3>2. \A p, q \in DOMAIN h.node : h.node[p].key = h.node[q].key => p = q
      BY <2>2 DEF WellFormed
    <3>3. \A p \in DOMAIN h.node : Origin(h.node, p)
      BY <2>2 DEF WellFormed
    <3> QED
      BY <1>4, <2>6, <3>1, <3>2, <3>3 DEF WellFormed
  <2>8. Above(g, h)
    BY <1>1, <2>2, <2>5 DEF Above, Longer
  <2>9. Keeps(g, h, sc.from, sc.from)
    BY <2>2, <2>7, <2>8 DEF Keeps
  <2>10. KeepsSaying(g, h)
    <3>1. Honest(h)
      BY <2>2, <2>3 DEF Honest
    <3> QED
      BY <2>2, <2>3, <3>1 DEF KeepsSaying, Bounded
  <2>11. Covered(h, sc.from, sc.actor, sc.to)
    <3>1. Len(g.edges) + 1 \in DOMAIN h.edges
      BY <1>1, <2>5
    <3> QED
      BY <2>1, <2>2, <2>4, <2>5, <3>1 DEF Covered
  <2> QED
    BY <2>9, <2>10, <2>11 DEF h
<1> QED
  BY <1>4, <1>5, <1>6, <1>7

(* A chunk: everything found is merged or its node's future is unknown. *)
Merges(g, h, found, lo, hi) ==
  /\ Keeps(g, h, lo, hi) /\ KeepsSaying(g, h)
  /\ \A k \in DOMAIN found : Covered(h, found[k].from, found[k].actor, found[k].to)

LEMMA MergeEffect ==
  ASSUME maxStates \in Nat, WellFormed(G), Honest(G), NEW found \in Seq(Child), NEW lo \in Nat, NEW hi \in Nat,
         \A k \in DOMAIN found : Real(G.node, found[k]) /\ found[k].from \in lo .. hi
  PROVE  Merges(G, merge(found), found, lo, hi)
<1>0. G \in Graph /\ Len(found) \in Nat /\ DOMAIN found = 1 .. Len(found)
  BY DEF WellFormed
<1>1. PICK c : MergeRun(c, G, found) /\ merge(found) = c[Len(found)]
  BY <1>0, MergeRuns
<1> DEFINE n == Len(found)
           Cov(k, j) == Covered(c[k], found[j].from, found[j].actor, found[j].to)
           Stage(k) == Keeps(G, c[k], lo, hi) /\ KeepsSaying(G, c[k]) /\ \A j \in 1 .. k : Cov(k, j)
           S == {k \in Nat : k <= n => Stage(k)}
<1>2. c[0] = G /\ (\A k \in 1 .. n : c[k] = Merged(c[k - 1], found[k]))
  BY <1>1 DEF MergeRun
<1>3. Stage(0)
  <2>1. G.node \in Seq(Node) /\ G.edges \in Seq(Edge)
    BY <1>0 DEF Graph
  <2>2. Above(G, G)
    <3>1. Len(G.node) \in Nat /\ Len(G.edges) \in Nat
      BY <2>1
    <3> QED
      BY <3>1 DEF Above, Longer
  <2>3. Keeps(G, G, lo, hi)
    BY <2>2 DEF Keeps
  <2>4. KeepsSaying(G, G)
    BY DEF KeepsSaying
  <2> QED
    BY <1>2, <2>3, <2>4
<1>4. ASSUME NEW k \in Nat, k \in S PROVE k + 1 \in S
  <2> SUFFICES ASSUME k + 1 <= n PROVE Stage(k + 1)
    OBVIOUS
  <2> DEFINE g == c[k]  h == c[k + 1]  sc == found[k + 1]
  <2>1. k + 1 \in 1 .. n /\ k <= n /\ (k + 1) - 1 = k
    BY <1>0
  <2>2. h = Merged(g, sc) /\ sc \in Child /\ Real(G.node, sc) /\ sc.from \in lo .. hi
    <3>1. c[k + 1] = Merged(c[(k + 1) - 1], found[k + 1])
      BY <1>2, <2>1
    <3> QED
      BY <1>0, <2>1, <3>1
  <2>3. Stage(k)
    BY <1>4, <2>1
  <2>a. WellFormed(g) /\ Above(G, g) /\ (\A i \in DOMAIN g.node : i \in DOMAIN G.node \/ g.node[i].parent \in lo .. hi)
    BY <2>3 DEF Keeps
  <2>b. Honest(g) /\ (Bounded(G) => Bounded(g)) /\ (G.truncated => g.truncated)
    BY <2>3 DEF KeepsSaying
  <2> HIDE DEF g, h, sc
  <2>4. g \in Graph /\ G.node \in Seq(Node) /\ g.node \in Seq(Node)
    BY <1>0, <2>a DEF WellFormed, Graph
  <2>5. Real(g.node, sc)
    BY <2>2, <2>4, <2>a, ComesStable DEF Real, Above
  <2>6. Keeps(g, h, sc.from, sc.from) /\ KeepsSaying(g, h) /\ Covered(h, sc.from, sc.actor, sc.to)
    BY <2>2, <2>5, <2>a, <2>b, MergedKeeps
  <2>7. WellFormed(h) /\ Above(g, h) /\ (\A i \in DOMAIN h.node : i \in DOMAIN g.node \/ h.node[i].parent \in sc.from .. sc.from)
    BY <2>6 DEF Keeps
  <2>8. h \in Graph /\ h.node \in Seq(Node)
    BY <2>7 DEF WellFormed, Graph
  <2>9. Above(G, h)
    BY <1>0, <2>4, <2>7, <2>8, <2>a, AboveTransitive
  <2>10. ASSUME NEW i \in DOMAIN h.node PROVE i \in DOMAIN G.node \/ h.node[i].parent \in lo .. hi
    <3>1. CASE i \in DOMAIN g.node
      <4>1. h.node[i] = g.node[i]
        BY <2>7, <3>1 DEF Above, Longer
      <4> QED
        BY <2>a, <3>1, <4>1
    <3>2. CASE h.node[i].parent \in sc.from .. sc.from
      <4>1. h.node[i].parent = sc.from
        <5>1. \A x \in lo .. hi : \A y \in x .. x : y = x
          OBVIOUS
        <5> QED
          BY <2>2, <3>2, <5>1
      <4> QED
        BY <2>2, <4>1
    <3> QED
      BY <2>7, <3>1, <3>2
  <2>11. Keeps(G, h, lo, hi)
    BY <2>7, <2>9, <2>10 DEF Keeps
  <2>12. KeepsSaying(G, h)
    BY <2>6, <2>b DEF KeepsSaying
  <2>13. ASSUME NEW j \in 1 .. k + 1 PROVE Covered(h, found[j].from, found[j].actor, found[j].to)
    <3>1. CASE j = k + 1
      BY <2>6, <3>1 DEF sc
    <3>2. CASE j # k + 1
      <4>1. j \in 1 .. k
        BY <3>2
      <4>2. Covered(g, found[j].from, found[j].actor, found[j].to)
        BY <2>3, <4>1 DEF g
      <4> QED
        BY <2>4, <2>7, <2>8, <4>2, CoveredStable
    <3> QED
      BY <3>1, <3>2
  <2> QED
    BY <2>11, <2>12, <2>13 DEF h
<1>5. 0 \in S
  <2> HIDE DEF Stage
  <2> QED
    BY <1>3
<1> HIDE DEF S
<1>6. Nat \subseteq S
  BY <1>4, <1>5, Inductive
<1>7. Stage(n)
  <2> HIDE DEF Stage
  <2> QED
    BY <1>0, <1>6 DEF S
<1> QED
  BY <1>0, <1>1, <1>7 DEF Merges

(* The roots: every initial state is in, unless the search says Truncated. *)
RootsOnly(g) ==
  /\ WellFormed(g) /\ g.edges = <<>> /\ g.unknown = {}
  /\ \A i \in DOMAIN g.node : g.node[i].parent = 0
Rooted(g, s) == g.truncated \/ \E i \in DOMAIN g.node : g.node[i].key = s

LEMMA RootKeeps ==
  ASSUME maxStates \in Nat, NEW g, RootsOnly(g), Bounded(g), NEW key \in State, key \in Range(initial)
  PROVE  /\ RootsOnly(Root(g, key)) /\ Bounded(Root(g, key)) /\ Rooted(Root(g, key), key)
         /\ \A s : Rooted(g, s) => Rooted(Root(g, key), s)
<1> DEFINE h == Root(g, key)
<1>1. g \in Graph /\ g.node \in Seq(Node) /\ Len(g.node) \in Nat /\ DOMAIN g.node = 1 .. Len(g.node)
  BY DEF RootsOnly, WellFormed, Graph
<1>2. RootKnown(g, h, key) \/ RootRefused(g, h) \/ RootAdded(g, h, key)
  BY <1>1, RootEffect
<1> HIDE DEF h
<1>3. CASE RootKnown(g, h, key)
  <2>1. h = g
    BY <1>3 DEF RootKnown
  <2>2. Rooted(h, key)
    BY <1>3, <2>1 DEF RootKnown, Rooted
  <2> QED
    BY <2>1, <2>2 DEF h
<1>4. CASE RootRefused(g, h)
  <2>1. h.node = g.node /\ h.edges = g.edges /\ h.unknown = g.unknown /\ Len(g.node) >= maxStates /\ h \in Graph
    BY <1>4 DEF RootRefused
  <2>2. h.truncated
    BY <1>4 DEF RootRefused
  <2>3. WellFormed(h)
    BY <2>1 DEF RootsOnly, WellFormed
  <2>4. RootsOnly(h)
    BY <2>1, <2>3 DEF RootsOnly
  <2>5. Len(h.node) >= maxStates
    BY <2>1
  <2>6. Bounded(h)
    BY <2>5 DEF Bounded
  <2>7. \A s : Rooted(h, s)
    BY <2>2 DEF Rooted
  <2> QED
    BY <2>4, <2>6, <2>7 DEF h
<1>5. CASE RootAdded(g, h, key)
  <2> DEFINE nd == [key |-> key, parent |-> 0, actor |-> 0, move |-> "", ordinal |-> 0]
  <2>1. /\ h.node = Append(g.node, nd) /\ h.edges = g.edges /\ h.unknown = g.unknown /\ h \in Graph
        /\ Len(g.node) < maxStates /\ \A i \in DOMAIN g.node : g.node[i].key # key
    BY <1>5 DEF RootAdded, AddsNode
  <2>2. h.truncated = g.truncated
    BY <1>5 DEF RootAdded, AddsNode
  <2>3. nd \in Node /\ nd.key = key /\ nd.parent = 0
    BY DEF Node, Name
  <2> HIDE DEF nd
  <2>4. Longer(g.node, h.node) /\ Len(h.node) = Len(g.node) + 1 /\ h.node[Len(g.node) + 1] = nd
        /\ DOMAIN h.node = 1 .. Len(g.node) + 1 /\ (\A i \in 1 .. Len(g.node) : h.node[i] = g.node[i])
    BY <1>1, <2>1, <2>3, LongerAppend
  <2>5. Origin(h.node, Len(g.node) + 1)
    BY <2>3, <2>4 DEF Origin
  <2>6. \A k \in DOMAIN h.edges : Sound(h.node, h.edges[k])
    BY <2>1 DEF RootsOnly
  <2>7. WellFormed(h)
    BY <2>1, <2>3, <2>5, <2>6, NodeAdded DEF RootsOnly
  <2>8. ASSUME NEW i \in DOMAIN h.node PROVE h.node[i].parent = 0
    <3>1. i \in 1 .. Len(g.node) \/ i = Len(g.node) + 1
      BY <1>1, <2>4
    <3> QED
      BY <1>1, <2>3, <2>4, <3>1 DEF RootsOnly
  <2>9. RootsOnly(h)
    BY <2>1, <2>7, <2>8 DEF RootsOnly
  <2>10. Bounded(h)
    <3>1. ~(Len(g.node) >= maxStates)
      BY <1>1, <2>1
    <3> QED
      BY <2>2, <3>1 DEF Bounded
  <2>11. \E i \in DOMAIN h.node : h.node[i].key = key
    <3>1. Len(g.node) + 1 \in DOMAIN h.node
      BY <1>1, <2>4
    <3> QED
      BY <2>3, <2>4, <3>1
  <2>12. \A s : (\E i \in DOMAIN g.node : g.node[i].key = s) => \E i \in DOMAIN h.node : h.node[i].key = s
    <3>1. \A i \in DOMAIN g.node : i \in DOMAIN h.node /\ h.node[i] = g.node[i]
      BY <1>1, <2>4
    <3> QED
      BY <3>1
  <2> QED
    BY <2>2, <2>9, <2>10, <2>11, <2>12 DEF h, Rooted
<1> QED
  BY <1>2, <1>3, <1>4, <1>5

LEMMA RootedEffect ==
  ASSUME Given, RootsOnly(G), Bounded(G)
  PROVE  RootsOnly(rooted) /\ Bounded(rooted) /\ \A s \in Range(initial) : Rooted(rooted, s)
<1>0. G \in Graph /\ maxStates \in Nat /\ initial \in Seq(State) /\ Len(initial) \in Nat /\ DOMAIN initial = 1 .. Len(initial)
  BY DEF Given, RootsOnly, WellFormed
<1>1. PICK c : RootRun(c, G) /\ rooted = c[Len(initial)]
  BY <1>0, RootRuns
<1> DEFINE n == Len(initial)
           Stage(k) == RootsOnly(c[k]) /\ Bounded(c[k]) /\ \A j \in 1 .. k : Rooted(c[k], initial[j])
           S == {k \in Nat : k <= n => Stage(k)}
<1>2. c[0] = G /\ (\A k \in 1 .. n : c[k] = Root(c[k - 1], initial[k]))
  BY <1>1 DEF RootRun
<1>3. Stage(0)
  BY <1>2
<1>4. ASSUME NEW k \in Nat, k \in S PROVE k + 1 \in S
  <2> SUFFICES ASSUME k + 1 <= n PROVE Stage(k + 1)
    OBVIOUS
  <2> DEFINE g == c[k]  h == c[k + 1]  key == initial[k + 1]
  <2>1. k + 1 \in 1 .. n /\ k <= n /\ (k + 1) - 1 = k
    BY <1>0
  <2>2. h = Root(g, key) /\ key \in State /\ key \in Range(initial)
    <3>1. c[k + 1] = Root(c[(k + 1) - 1], initial[k + 1])
      BY <1>2, <2>1
    <3> QED
      BY <1>0, <2>1, <3>1 DEF Range
  <2>3. Stage(k)
    BY <1>4, <2>1
  <2>4. RootsOnly(g) /\ Bounded(g)
    BY <2>3
  <2> HIDE DEF g, h, key
  <2>5. RootsOnly(h) /\ Bounded(h) /\ Rooted(h, key) /\ \A s : Rooted(g, s) => Rooted(h, s)
    BY <1>0, <2>2, <2>4, RootKeeps
  <2>6. ASSUME NEW j \in 1 .. k + 1 PROVE Rooted(h, initial[j])
    <3>1. CASE j = k + 1
      BY <2>5, <3>1 DEF key
    <3>2. CASE j # k + 1
      <4>1. j \in 1 .. k
        BY <3>2
      <4>2. Rooted(g, initial[j])
        BY <2>3, <4>1 DEF g
      <4> QED
        BY <2>5, <4>2
    <3> QED
      BY <3>1, <3>2
  <2> QED
    BY <2>5, <2>6 DEF h
<1>5. 0 \in S
  <2> HIDE DEF Stage
  <2> QED
    BY <1>3
<1> HIDE DEF S
<1>6. Nat \subseteq S
  BY <1>4, <1>5, Inductive
<1>7. Stage(n)
  <2> HIDE DEF Stage
  <2> QED
    BY <1>0, <1>6 DEF S
<1>8. ASSUME NEW s \in Range(initial) PROVE Rooted(rooted, s)
  <2>1. PICK j \in DOMAIN initial : initial[j] = s
    BY DEF Range
  <2> QED
    BY <1>0, <1>1, <1>7, <2>1
<1> QED
  BY <1>1, <1>7, <1>8

------------------------------------------------------------------------------
(* What is found in a chunk. *)

LEMMA OrdinalType ==
  ASSUME NEW list, NEW i \in Nat
  PROVE  ordinalOf(list, i) \in Nat
<1> DEFINE T == {j \in 1 .. i - 1 : list[j].move = list[i].move}
<1>1. IsFiniteSet(1 .. i - 1)
  BY FS_Interval
<1>2. IsFiniteSet(T)
  BY <1>1, FS_Subset
<1> QED
  BY <1>2, FS_CardinalityType DEF ordinalOf

LEMMA YieldedItems ==
  ASSUME Given, node \in Seq(Node), NEW n \in DOMAIN node, NEW a \in Actor
  PROVE  /\ Yielded(n, a) \in Seq(Child)
         /\ DOMAIN Yielded(n, a) = DOMAIN moves[node[n].key][a]
         /\ \A k \in DOMAIN Yielded(n, a) :
              /\ Real(node, Yielded(n, a)[k]) /\ Yielded(n, a)[k].from = n /\ Yielded(n, a)[k].actor = a
              /\ Yielded(n, a)[k].to = moves[node[n].key][a][k].to
<1> DEFINE list == moves[node[n].key][a]
           it(i) == [from |-> n, actor |-> a, move |-> list[i].move, to |-> list[i].to, ordinal |-> ordinalOf(list, i)]
<1>0. node[n] \in Node /\ n \in Nat
  <2>1. DOMAIN node = 1 .. Len(node) /\ Len(node) \in Nat
    OBVIOUS
  <2> QED
    BY <2>1
<1>1. node[n].key \in State /\ n \in Nat
  BY <1>0 DEF Node
<1>2. list \in Seq(Move) /\ Len(list) \in Nat /\ DOMAIN list = 1 .. Len(list)
  BY <1>1 DEF Given
<1>3. Yielded(n, a) = [i \in DOMAIN list |-> it(i)]
  BY DEF Yielded
<1>4. ASSUME NEW i \in DOMAIN list PROVE it(i) \in Child
  <2>1. list[i] \in Move /\ i \in Nat
    <3> HIDE DEF list
    <3> QED
      BY <1>2
  <2>2. list[i].move \in Name /\ list[i].to \in State /\ ordinalOf(list, i) \in Nat
    <3> HIDE DEF list
    <3> QED
      BY <2>1, OrdinalType DEF Move, Name
  <2> HIDE DEF list
  <2> QED
    BY <1>1, <2>2 DEF Child
<1>5. ASSUME NEW i \in DOMAIN list PROVE Real(node, it(i)) /\ it(i).from = n /\ it(i).actor = a /\ it(i).to = list[i].to
  BY DEF Real, Comes
<1> HIDE DEF it
<1>6. Yielded(n, a) \in Seq(Child)
  <2> HIDE DEF list
  <2> QED
    BY <1>2, <1>3, <1>4
<1> QED
  <2>1. DOMAIN Yielded(n, a) = DOMAIN list /\ \A k \in DOMAIN list : Yielded(n, a)[k] = it(k)
    <3> HIDE DEF list
    <3> QED
      BY <1>3
  <2>2. \A k \in DOMAIN list : /\ Real(node, Yielded(n, a)[k]) /\ Yielded(n, a)[k].from = n /\ Yielded(n, a)[k].actor = a
                               /\ Yielded(n, a)[k].to = list[k].to
    <3> HIDE DEF list
    <3> QED
      BY <1>5, <2>1
  <2> QED
    BY <1>6, <2>1, <2>2

(* Actors are the indices of a sequence. *)
LEMMA ActorSequence ==
  ASSUME NEW X, NEW f \in [Actor -> X]
  PROVE  f \in Seq(X) /\ DOMAIN f = Actor /\ Actor = 1 .. Len(f)
<1>1. Cardinality(Actor) \in Nat /\ Actor = 1 .. Cardinality(Actor)
  BY ExploreAssumption, FS_CardinalityType
<1> DEFINE m == Cardinality(Actor)
<1>2. f \in [1 .. m -> X]
  BY <1>1
<1> HIDE DEF m
<1>3. m \in Nat
  BY <1>1 DEF m
<1>4. f \in Seq(X) /\ Len(f) = m
  BY <1>2, <1>3
<1> QED
  BY <1>1, <1>4 DEF m

LEMMA ExpandItems ==
  ASSUME Given, node \in Seq(Node), NEW n \in DOMAIN node
  PROVE  /\ expand(n) \in Seq(Child)
         /\ \A k \in DOMAIN expand(n) : Real(node, expand(n)[k]) /\ expand(n)[k].from = n
         /\ \A a \in Actor : \A m \in DOMAIN moves[node[n].key][a] : \E k \in DOMAIN expand(n) :
              /\ expand(n)[k].from = n /\ expand(n)[k].actor = a /\ expand(n)[k].to = moves[node[n].key][a][m].to
<1> DEFINE ss == [a \in Actor |-> Yielded(n, a)]
<1>1. ss \in [Actor -> Seq(Child)]
  BY YieldedItems
<1>2. ss \in Seq(Seq(Child)) /\ DOMAIN ss = Actor
  <2> HIDE DEF ss
  <2> QED
    BY <1>1, ActorSequence
<1>3. \A a \in Actor : ss[a] = Yielded(n, a)
  OBVIOUS
<1>4. expand(n) = FlattenSeq(ss)
  BY DEF expand
<1> HIDE DEF ss
<1>5. /\ expand(n) \in Seq(Child)
      /\ \A a \in Actor : \A m \in DOMAIN ss[a] : \E k \in DOMAIN expand(n) : expand(n)[k] = ss[a][m]
      /\ \A k \in DOMAIN expand(n) : \E a \in Actor : \E m \in DOMAIN ss[a] : expand(n)[k] = ss[a][m]
  BY <1>2, <1>4, FlattenMembers
<1>6. ASSUME NEW k \in DOMAIN expand(n) PROVE Real(node, expand(n)[k]) /\ expand(n)[k].from = n
  <2>1. PICK a \in Actor : \E m \in DOMAIN ss[a] : expand(n)[k] = ss[a][m]
    BY <1>5
  <2>2. PICK m \in DOMAIN ss[a] : expand(n)[k] = ss[a][m]
    BY <2>1
  <2>3. m \in DOMAIN Yielded(n, a) /\ expand(n)[k] = Yielded(n, a)[m]
    BY <1>3, <2>2
  <2> QED
    BY <2>3, YieldedItems
<1>7. ASSUME NEW a \in Actor, NEW m \in DOMAIN moves[node[n].key][a]
      PROVE  \E k \in DOMAIN expand(n) :
              /\ expand(n)[k].from = n /\ expand(n)[k].actor = a /\ expand(n)[k].to = moves[node[n].key][a][m].to
  <2>1. /\ m \in DOMAIN Yielded(n, a) /\ Yielded(n, a)[m].from = n /\ Yielded(n, a)[m].actor = a
        /\ Yielded(n, a)[m].to = moves[node[n].key][a][m].to
    BY YieldedItems
  <2>2. PICK k \in DOMAIN expand(n) : expand(n)[k] = Yielded(n, a)[m]
    BY <1>3, <1>5, <2>1
  <2> QED
    BY <2>1, <2>2
<1> QED
  BY <1>5, <1>6, <1>7

(* A chunk holds the real successors of its nodes, all of them. *)
ChunkHolds(found, lo, hi) ==
  /\ found \in Seq(Child)
  /\ \A k \in DOMAIN found : Real(node, found[k]) /\ found[k].from \in lo .. hi
  /\ \A n \in lo .. hi : \A a \in Actor : \A m \in DOMAIN moves[node[n].key][a] : \E k \in DOMAIN found :
       /\ found[k].from = n /\ found[k].actor = a /\ found[k].to = moves[node[n].key][a][m].to

LEMMA ChunkItems ==
  ASSUME Given, node \in Seq(Node), NEW lo \in Nat \ {0}, NEW hi \in Nat, lo <= hi, hi <= Len(node)
  PROVE  ChunkHolds(InChunk(lo, hi), lo, hi)
<1> DEFINE ss == [k \in 1 .. hi - lo + 1 |-> expand(lo + k - 1)]  found == InChunk(lo, hi)
<1>0. Len(node) \in Nat /\ DOMAIN node = 1 .. Len(node) /\ hi - lo + 1 \in Nat
  OBVIOUS
<1>1. \A k \in 1 .. hi - lo + 1 : lo + k - 1 \in lo .. hi /\ lo + k - 1 \in DOMAIN node
  BY <1>0
<1>2. \A n \in lo .. hi : n \in DOMAIN node /\ n - lo + 1 \in 1 .. hi - lo + 1 /\ lo + (n - lo + 1) - 1 = n
  BY <1>0
<1>3. ss \in Seq(Seq(Child)) /\ DOMAIN ss = 1 .. hi - lo + 1
  <2>1. \A k \in 1 .. hi - lo + 1 : expand(lo + k - 1) \in Seq(Child)
    BY <1>1, ExpandItems
  <2> QED
    BY <1>0, <2>1
<1>4. \A k \in 1 .. hi - lo + 1 : ss[k] = expand(lo + k - 1)
  OBVIOUS
<1>5. found = FlattenSeq(ss)
  BY DEF InChunk
<1> HIDE DEF ss, found
<1>6. /\ found \in Seq(Child)
      /\ \A i \in DOMAIN ss : \A m \in DOMAIN ss[i] : \E k \in DOMAIN found : found[k] = ss[i][m]
      /\ \A k \in DOMAIN found : \E i \in DOMAIN ss : \E m \in DOMAIN ss[i] : found[k] = ss[i][m]
  <2>1. ss \in Seq(Seq(Child))
    BY <1>3
  <2> QED
    BY <1>5, <2>1, FlattenMembers
<1>7. ASSUME NEW k \in DOMAIN found PROVE Real(node, found[k]) /\ found[k].from \in lo .. hi
  <2>1. PICK i \in DOMAIN ss : \E m \in DOMAIN ss[i] : found[k] = ss[i][m]
    BY <1>6
  <2>2. PICK m \in DOMAIN ss[i] : found[k] = ss[i][m]
    BY <2>1
  <2> DEFINE n == lo + i - 1
  <2>3. n \in lo .. hi /\ n \in DOMAIN node /\ ss[i] = expand(n)
    BY <1>1, <1>3, <1>4
  <2> HIDE DEF n
  <2>4. m \in DOMAIN expand(n) /\ found[k] = expand(n)[m]
    BY <2>2, <2>3
  <2> QED
    BY <2>3, <2>4, ExpandItems
<1>8. ASSUME NEW n \in lo .. hi, NEW a \in Actor, NEW m \in DOMAIN moves[node[n].key][a]
      PROVE  \E k \in DOMAIN found :
               /\ found[k].from = n /\ found[k].actor = a /\ found[k].to = moves[node[n].key][a][m].to
  <2>1. n \in DOMAIN node
    BY <1>2
  <2>2. PICK j \in DOMAIN expand(n) :
          /\ expand(n)[j].from = n /\ expand(n)[j].actor = a /\ expand(n)[j].to = moves[node[n].key][a][m].to
    BY <2>1, ExpandItems
  <2>3. PICK i \in DOMAIN ss : ss[i] = expand(n)
    <3> DEFINE i == n - lo + 1
    <3>1. i \in 1 .. hi - lo + 1 /\ lo + i - 1 = n
      BY <1>2
    <3> HIDE DEF i
    <3>2. ss[i] = expand(n)
      BY <1>4, <3>1
    <3> QED
      BY <1>3, <3>1, <3>2
  <2>4. PICK k \in DOMAIN found : found[k] = ss[i][j]
    BY <1>6, <2>2, <2>3
  <2>5. found[k] = expand(n)[j]
    BY <2>3, <2>4
  <2> QED
    BY <2>2, <2>5
<1>9. ChunkHolds(found, lo, hi)
  BY <1>6, <1>7, <1>8 DEF ChunkHolds
<1> QED
  BY <1>9 DEF found

------------------------------------------------------------------------------
(* The model explored. *)

LEMMA SuccType ==
  ASSUME Given, NEW s \in State, NEW as \in SUBSET Actor
  PROVE  Succ(s, as) \subseteq State
<1> SUFFICES ASSUME NEW x \in Succ(s, as) PROVE x \in State
  OBVIOUS
<1>1. PICK a \in as : x \in {moves[s][a][i].to : i \in DOMAIN moves[s][a]}
  BY DEF Succ
<1>2. moves[s][a] \in Seq(Move)
  BY DEF Given
<1>3. PICK i \in DOMAIN moves[s][a] : x = moves[s][a][i].to
  BY <1>1
<1>4. moves[s][a][i] \in Move
  BY <1>2
<1> QED
  BY <1>3, <1>4 DEF Move

(* The states one move further. *)
Wider(B) == B \cup UNION {Succ(s, Actor) : s \in B}

LEMMA BallStep ==
  ASSUME Given
  PROVE  /\ Ball[0] = Range(initial) /\ \A d \in Nat : Ball[d + 1] = Wider(Ball[d])
         /\ \A d \in Nat : Ball[d] \in SUBSET State
<1> DEFINE X == SUBSET State
           F == [n \in Nat |-> [B \in X |-> Wider(B)]]
           Once(u, d) == IF d = 0 THEN Range(initial) ELSE Wider(u[d - 1])
<1>1. ASSUME NEW B \in X PROVE Wider(B) \in X
  <2>1. ASSUME NEW s \in B PROVE Succ(s, Actor) \subseteq State
    BY SuccType
  <2> QED
    BY <2>1 DEF Wider
<1>2. F \in [Nat -> [X -> X]]
  <2> HIDE DEF X
  <2> QED
    BY <1>1
<1>3. Range(initial) \in X
  BY DEF Given, Range
<1>4. PICK f : Follows(f, X, Range(initial), F)
  <2> HIDE DEF X, F
  <2> QED
    BY <1>2, <1>3, Recursion
<1>5. ASSUME NEW d \in Nat PROVE f[d] = Once(f, d)
  <2>1. CASE d = 0
    BY <1>4, <2>1 DEF Follows
  <2>2. CASE d # 0
    <3>1. d - 1 \in Nat /\ (d - 1) + 1 = d
      BY <2>2
    <3>2. f[d - 1] \in X /\ f[(d - 1) + 1] = F[(d - 1) + 1][f[d - 1]]
      <4> HIDE DEF X, F
      <4> QED
        BY <1>4, <3>1 DEF Follows
    <3> HIDE DEF X
    <3> QED
      BY <2>2, <3>1, <3>2
  <2> QED
    BY <2>1, <2>2
<1>6. f = [d \in Nat |-> Once(f, d)]
  <2> HIDE DEF Once, X, F
  <2>1. f = [d \in Nat |-> f[d]]
    BY <1>4 DEF Follows
  <2> QED
    BY <1>5, <2>1
<1>7. Ball = CHOOSE u : u = [d \in Nat |-> Once(u, d)]
  BY DEF Ball, Wider
<1>8. Ball = [d \in Nat |-> Once(Ball, d)]
  <2> HIDE DEF Once
  <2> QED
    BY <1>6, <1>7
<1>9. Ball[0] = Range(initial)
  BY <1>8
<1>10. ASSUME NEW d \in Nat PROVE Ball[d + 1] = Wider(Ball[d])
  <2>1. d + 1 \in Nat /\ d + 1 # 0 /\ (d + 1) - 1 = d
    OBVIOUS
  <2>2. Ball[d + 1] = Once(Ball, d + 1)
    <3> HIDE DEF Once
    <3> QED
      BY <1>8, <2>1
  <2> QED
    BY <2>1, <2>2
<1> DEFINE S == {d \in Nat : Ball[d] \in X}
<1>11. 0 \in S
  BY <1>3, <1>9
<1>12. ASSUME NEW d \in Nat, d \in S PROVE d + 1 \in S
  BY <1>1, <1>10, <1>12
<1> HIDE DEF S
<1>13. Nat \subseteq S
  BY <1>11, <1>12, Inductive
<1> QED
  BY <1>9, <1>10, <1>13 DEF S

(* Balls grow. *)
LEMMA BallGrows ==
  ASSUME Given, NEW d \in Nat, NEW e \in Nat, d <= e
  PROVE  Ball[d] \subseteq Ball[e]
<1> DEFINE S == {k \in Nat : Ball[d] \subseteq Ball[d + k]}
<1>1. 0 \in S
  BY d + 0 = d
<1>2. ASSUME NEW k \in Nat, k \in S PROVE k + 1 \in S
  <2>1. d + k \in Nat /\ (d + k) + 1 = d + (k + 1)
    OBVIOUS
  <2>2. Ball[(d + k) + 1] = Wider(Ball[d + k])
    BY <2>1, BallStep
  <2>3. Ball[d + k] \subseteq Ball[(d + k) + 1]
    BY <2>2 DEF Wider
  <2> QED
    BY <1>2, <2>1, <2>3
<1> HIDE DEF S
<1>3. Nat \subseteq S
  BY <1>1, <1>2, Inductive
<1>4. e - d \in Nat /\ d + (e - d) = e
  OBVIOUS
<1>5. e - d \in S
  BY <1>3, <1>4
<1> QED
  BY <1>4, <1>5 DEF S

LEMMA FoundType ==
  ASSUME Given, NEW s \in State
  PROVE  Found(s) \in Seq(State)
<1> DEFINE ss == [a \in Actor |-> [k \in DOMAIN moves[s][a] |-> moves[s][a][k].to]]
<1>1. ASSUME NEW a \in Actor PROVE [k \in DOMAIN moves[s][a] |-> moves[s][a][k].to] \in Seq(State)
  <2>1. moves[s][a] \in Seq(Move)
    BY DEF Given
  <2>2. DOMAIN moves[s][a] = 1 .. Len(moves[s][a]) /\ Len(moves[s][a]) \in Nat
    BY <2>1
  <2>3. ASSUME NEW k \in DOMAIN moves[s][a] PROVE moves[s][a][k].to \in State
    <3>1. moves[s][a][k] \in Move
      BY <2>1
    <3> QED
      BY <3>1 DEF Move
  <2> QED
    BY <2>2, <2>3
<1>2. ss \in [Actor -> Seq(State)]
  BY <1>1
<1>3. Found(s) = FlattenSeq(ss)
  BY DEF Found
<1> HIDE DEF ss
<1>4. ss \in Seq(Seq(State))
  BY <1>2, ActorSequence
<1> QED
  BY <1>3, <1>4, FlattenMembers

(* One more state is taken from the queue. *)
Taken(q, i) == IF i > Len(q) THEN q ELSE EnqueueAll(q, Found(q[i]))

LEMMA EnqueueAllType ==
  ASSUME NEW q \in Seq(State), NEW found \in Seq(State)
  PROVE  EnqueueAll(q, found) \in Seq(State)
<1>1. PICK c : EnqueueRun(c, q, found) /\ EnqueueAll(q, found) = c[Len(found)]
  BY EnqueueRuns
<1>2. Len(found) \in 0 .. Len(found)
  OBVIOUS
<1> QED
  BY <1>1, <1>2 DEF EnqueueRun

LEMMA QueueStep ==
  ASSUME Given
  PROVE  /\ Queue[0] = EnqueueAll(<<>>, initial) /\ \A i \in Nat : Queue[i + 1] = Taken(Queue[i], i + 1)
         /\ \A i \in Nat : Queue[i] \in Seq(State)
<1> DEFINE X == Seq(State)
           x0 == EnqueueAll(<<>>, initial)
           F == [n \in Nat |-> [q \in X |-> IF n = 0 THEN q ELSE Taken(q, n)]]
           Once(u, i) == IF i = 0 THEN x0 ELSE Taken(u[i - 1], i)
<1>1. ASSUME NEW q \in X, NEW n \in Nat, n # 0 PROVE Taken(q, n) \in X
  <2>1. CASE n > Len(q)
    BY <2>1 DEF Taken
  <2>2. CASE ~(n > Len(q))
    <3>1. n \in DOMAIN q
      BY <1>1, <2>2
    <3>2. Found(q[n]) \in Seq(State)
      BY <3>1, FoundType
    <3> QED
      BY <2>2, <3>2, EnqueueAllType DEF Taken
  <2> QED
    BY <2>1, <2>2
<1>2. F \in [Nat -> [X -> X]]
  <2> HIDE DEF X
  <2> QED
    BY <1>1
<1>3. x0 \in X
  <2>1. <<>> \in Seq(State) /\ initial \in Seq(State)
    BY DEF Given
  <2> QED
    BY <2>1, EnqueueAllType
<1>4. PICK f : Follows(f, X, x0, F)
  <2> HIDE DEF X, F, x0
  <2> QED
    BY <1>2, <1>3, Recursion
<1>5. ASSUME NEW d \in Nat PROVE f[d] = Once(f, d)
  <2> HIDE DEF x0
  <2>1. CASE d = 0
    BY <1>4, <2>1 DEF Follows
  <2>2. CASE d # 0
    <3>1. d - 1 \in Nat /\ (d - 1) + 1 = d
      BY <2>2
    <3>2. f[d - 1] \in X /\ f[(d - 1) + 1] = F[(d - 1) + 1][f[d - 1]]
      <4> HIDE DEF X, F
      <4> QED
        BY <1>4, <3>1 DEF Follows
    <3> HIDE DEF X
    <3> QED
      BY <2>2, <3>1, <3>2
  <2> QED
    BY <2>1, <2>2
<1>6. f = [d \in Nat |-> Once(f, d)]
  <2> HIDE DEF Once, X, F, x0
  <2>1. f = [d \in Nat |-> f[d]]
    BY <1>4 DEF Follows
  <2> QED
    BY <1>5, <2>1
<1>7. Queue = CHOOSE u : u = [d \in Nat |-> Once(u, d)]
  BY DEF Queue, Taken
<1>8. Queue = [d \in Nat |-> Once(Queue, d)]
  <2> HIDE DEF Once
  <2> QED
    BY <1>6, <1>7
<1> HIDE DEF x0
<1>9. Queue[0] = x0
  BY <1>8
<1>10. ASSUME NEW d \in Nat PROVE Queue[d + 1] = Taken(Queue[d], d + 1)
  <2>1. d + 1 \in Nat /\ d + 1 # 0 /\ (d + 1) - 1 = d
    OBVIOUS
  <2>2. Queue[d + 1] = Once(Queue, d + 1)
    <3> HIDE DEF Once
    <3> QED
      BY <1>8, <2>1
  <2> QED
    BY <2>1, <2>2
<1> DEFINE S == {d \in Nat : Queue[d] \in X}
<1>11. 0 \in S
  BY <1>3, <1>9
<1>12. ASSUME NEW d \in Nat, d \in S PROVE d + 1 \in S
  <2> HIDE DEF X
  <2>1. d + 1 \in Nat /\ d + 1 # 0 /\ Queue[d] \in X
    BY <1>12
  <2>2. Taken(Queue[d], d + 1) \in X
    BY <1>1, <2>1
  <2> QED
    BY <1>10, <2>1, <2>2
<1> HIDE DEF S
<1>13. Nat \subseteq S
  BY <1>11, <1>12, Inductive
<1> QED
  BY <1>9, <1>10, <1>13 DEF S, x0

------------------------------------------------------------------------------
(* The order of discovery. *)

KeysOf(nd) == [i \in DOMAIN nd |-> nd[i].key]
Tos(found) == [k \in DOMAIN found |-> found[k].to]

(* Enqueueing one by one is what EnqueueAll computes. *)
LEMMA EnqueueUnique ==
  ASSUME NEW q \in Seq(State), NEW found \in Seq(State), NEW c, c[0] = q,
         \A k \in 1 .. Len(found) : c[k] = Enqueue(c[k - 1], found[k])
  PROVE  EnqueueAll(q, found) = c[Len(found)]
<1>0. Len(found) \in Nat
  OBVIOUS
<1>1. PICK d : EnqueueRun(d, q, found) /\ EnqueueAll(q, found) = d[Len(found)]
  BY EnqueueRuns
<1>2. d[0] = q /\ \A k \in 1 .. Len(found) : d[k] = Enqueue(d[k - 1], found[k])
  BY <1>1 DEF EnqueueRun
<1> DEFINE S == {k \in Nat : k <= Len(found) => d[k] = c[k]}
<1>3. 0 \in S
  BY <1>2
<1>4. ASSUME NEW k \in Nat, k \in S PROVE k + 1 \in S
  <2> SUFFICES ASSUME k + 1 <= Len(found) PROVE d[k + 1] = c[k + 1]
    OBVIOUS
  <2>1. k + 1 \in 1 .. Len(found) /\ (k + 1) - 1 = k /\ k <= Len(found)
    BY <1>0
  <2>2. d[k] = c[k]
    BY <1>4, <2>1
  <2>3. d[k + 1] = Enqueue(d[(k + 1) - 1], found[k + 1]) /\ c[k + 1] = Enqueue(c[(k + 1) - 1], found[k + 1])
    BY <1>2, <2>1
  <2> QED
    BY <2>1, <2>2, <2>3
<1> HIDE DEF S
<1>5. Nat \subseteq S
  BY <1>3, <1>4, Inductive
<1>6. d[Len(found)] = c[Len(found)]
  BY <1>0, <1>5 DEF S
<1> QED
  BY <1>1, <1>6

(* A queue only grows. *)
LEMMA EnqueueGrows ==
  ASSUME NEW q \in Seq(State), NEW found \in Seq(State)
  PROVE  Longer(q, EnqueueAll(q, found))
<1>0. Len(found) \in Nat
  OBVIOUS
<1>1. PICK c : EnqueueRun(c, q, found) /\ EnqueueAll(q, found) = c[Len(found)]
  BY EnqueueRuns
<1>2. c \in [0 .. Len(found) -> Seq(State)] /\ c[0] = q /\ \A k \in 1 .. Len(found) : c[k] = Enqueue(c[k - 1], found[k])
  BY <1>1 DEF EnqueueRun
<1> DEFINE S == {k \in Nat : k <= Len(found) => Longer(q, c[k])}
<1>3. 0 \in S
  <2>1. Longer(q, q)
    BY DEF Longer
  <2> QED
    BY <1>2, <2>1
<1>4. ASSUME NEW k \in Nat, k \in S PROVE k + 1 \in S
  <2> SUFFICES ASSUME k + 1 <= Len(found) PROVE Longer(q, c[k + 1])
    OBVIOUS
  <2> DEFINE g == c[k]  h == c[k + 1]  x == found[k + 1]
  <2>1. k + 1 \in 1 .. Len(found) /\ (k + 1) - 1 = k /\ k <= Len(found) /\ k \in 0 .. Len(found) /\ k + 1 \in 0 .. Len(found)
    BY <1>0
  <2>2. Longer(q, g) /\ g \in Seq(State) /\ h \in Seq(State) /\ x \in State
    BY <1>2, <1>4, <2>1
  <2>3. h = Enqueue(g, x)
    <3>1. c[k + 1] = Enqueue(c[(k + 1) - 1], found[k + 1])
      BY <1>2, <2>1
    <3> QED
      BY <2>1, <3>1
  <2> HIDE DEF g, h, x
  <2>4. h = g \/ h = Append(g, x)
    BY <2>3 DEF Enqueue
  <2>5. Longer(g, h)
    <3>1. Longer(g, g)
      BY <2>2 DEF Longer
    <3>2. Longer(g, Append(g, x))
      BY <2>2, LongerAppend
    <3> QED
      BY <2>4, <3>1, <3>2
  <2>6. Longer(q, h)
    BY <2>2, <2>5, LongerTransitive
  <2> QED
    BY <2>6 DEF h
<1> HIDE DEF S
<1>5. Nat \subseteq S
  BY <1>3, <1>4, Inductive
<1>6. Longer(q, c[Len(found)])
  BY <1>0, <1>5 DEF S
<1> QED
  BY <1>1, <1>6

(* Two lists in turn are one list. *)
LEMMA EnqueueConcat ==
  ASSUME NEW q \in Seq(State), NEW x \in Seq(State), NEW y \in Seq(State)
  PROVE  EnqueueAll(q, x \o y) = EnqueueAll(EnqueueAll(q, x), y)
<1> DEFINE m == Len(x)  n == Len(y)  p == EnqueueAll(q, x)  z == x \o y
<1>0. m \in Nat /\ n \in Nat /\ p \in Seq(State)
  BY EnqueueAllType
<1>1. /\ z \in Seq(State) /\ Len(z) = m + n /\ (\A k \in 1 .. m : z[k] = x[k])
      /\ (\A k \in 1 .. n : z[m + k] = y[k])
  OBVIOUS
<1>2. PICK a : EnqueueRun(a, q, x) /\ p = a[Len(x)]
  BY EnqueueRuns
<1> HIDE DEF p
<1>3. PICK b : EnqueueRun(b, p, y) /\ EnqueueAll(p, y) = b[Len(y)]
  BY <1>0, EnqueueRuns
<1>4. a[0] = q /\ (\A k \in 1 .. m : a[k] = Enqueue(a[k - 1], x[k])) /\ a[m] = p
  BY <1>2 DEF EnqueueRun
<1>5. b[0] = p /\ (\A k \in 1 .. n : b[k] = Enqueue(b[k - 1], y[k])) /\ EnqueueAll(p, y) = b[n]
  BY <1>3 DEF EnqueueRun
<1> HIDE DEF m, n, z
<1> DEFINE c == [k \in 0 .. m + n |-> IF k <= m THEN a[k] ELSE b[k - m]]
<1>6. c[0] = q
  BY <1>0, <1>4
<1>7. ASSUME NEW k \in 1 .. m + n PROVE c[k] = Enqueue(c[k - 1], z[k])
  <2>1. k \in 0 .. m + n /\ k - 1 \in 0 .. m + n
    BY <1>0
  <2>2. CASE k <= m
    <3>1. c[k] = a[k] /\ c[k - 1] = a[k - 1] /\ k \in 1 .. m
      BY <1>0, <2>1, <2>2
    <3> HIDE DEF c
    <3> QED
      BY <1>1, <1>4, <3>1
  <2>3. CASE k = m + 1
    <3>1. k - 1 = m /\ k - m = 1 /\ 1 \in 1 .. n /\ m + 1 = k /\ 1 - 1 = 0
      BY <1>0, <2>3
    <3>2. c[k] = b[1] /\ c[k - 1] = a[m]
      BY <1>0, <2>1, <2>3, <3>1
    <3>3. b[1] = Enqueue(b[0], y[1])
      <4>1. b[1] = Enqueue(b[1 - 1], y[1])
        BY <1>5, <3>1
      <4> QED
        BY <3>1, <4>1
    <3>4. z[k] = y[1]
      BY <1>1, <3>1
    <3> HIDE DEF c
    <3> QED
      BY <1>4, <1>5, <3>2, <3>3, <3>4
  <2>4. CASE k > m + 1
    <3> DEFINE j == k - m
    <3>1. j \in 1 .. n /\ m + j = k /\ ~(k <= m) /\ ~(k - 1 <= m) /\ (k - 1) - m = j - 1
      BY <1>0, <2>4
    <3>2. c[k] = b[j] /\ c[k - 1] = b[j - 1]
      <4>1. c[k - 1] = b[(k - 1) - m]
        BY <2>1, <3>1
      <4>2. c[k] = b[j]
        BY <2>1, <3>1
      <4> HIDE DEF j, c
      <4> QED
        BY <3>1, <4>1, <4>2
    <3>3. b[j] = Enqueue(b[j - 1], y[j])
      <4> HIDE DEF j, c
      <4> QED
        BY <1>5, <3>1
    <3>4. z[k] = y[j]
      <4> HIDE DEF j, c
      <4>1. z[m + j] = y[j]
        BY <1>1, <3>1
      <4> QED
        BY <3>1, <4>1
    <3> HIDE DEF c, j
    <3> QED
      BY <3>2, <3>3, <3>4
  <2> QED
    BY <1>0, <2>2, <2>3, <2>4
<1>8. c[m + n] = b[n]
  <2>1. CASE n = 0
    <3>1. m + n = m /\ m \in 0 .. m + n
      BY <1>0, <2>1
    <3>2. c[m + n] = a[m]
      BY <1>0, <3>1
    <3> HIDE DEF c
    <3> QED
      BY <1>4, <1>5, <2>1, <3>2
  <2>2. CASE n # 0
    <3>1. ~(m + n <= m) /\ (m + n) - m = n /\ m + n \in 0 .. m + n
      BY <1>0, <2>2
    <3> QED
      BY <3>1
  <2> QED
    BY <2>1, <2>2
<1> HIDE DEF c
<1>9. EnqueueAll(q, z) = c[Len(z)]
  BY <1>1, <1>6, <1>7, EnqueueUnique
<1>10. EnqueueAll(q, z) = EnqueueAll(p, y)
  BY <1>1, <1>5, <1>8, <1>9
<1> QED
  BY <1>10 DEF z, p

LEMMA KeysType ==
  ASSUME NEW nd \in Seq(Node)
  PROVE  KeysOf(nd) \in Seq(State) /\ Len(KeysOf(nd)) = Len(nd) /\ DOMAIN KeysOf(nd) = DOMAIN nd
<1>1. DOMAIN nd = 1 .. Len(nd) /\ Len(nd) \in Nat
  OBVIOUS
<1>2. \A i \in DOMAIN nd : nd[i].key \in State
  <2>1. \A i \in DOMAIN nd : nd[i] \in Node
    BY <1>1
  <2> QED
    BY <2>1 DEF Node
<1> DEFINE s == [i \in DOMAIN nd |-> nd[i].key]
<1>3. s \in [1 .. Len(nd) -> State]
  BY <1>1, <1>2
<1>4. s \in Seq(State) /\ Len(s) = Len(nd) /\ DOMAIN s = DOMAIN nd
  <2> HIDE DEF s
  <2> QED
    BY <1>1, <1>3
<1> QED
  BY <1>4 DEF KeysOf

(* A new node is a key appended. *)
LEMMA KeysAppend ==
  ASSUME NEW s \in Seq(Node), NEW nd \in Node
  PROVE  KeysOf(Append(s, nd)) = Append(KeysOf(s), nd.key)
<1> DEFINE t == Append(s, nd)  l == Len(s)  u == Append(KeysOf(s), nd.key)
<1>1. t \in Seq(Node) /\ l \in Nat /\ DOMAIN s = 1 .. l
  OBVIOUS
<1>2. Len(t) = l + 1 /\ t[l + 1] = nd /\ DOMAIN t = 1 .. l + 1 /\ (\A i \in 1 .. l : t[i] = s[i])
  BY LongerAppend
<1>3. KeysOf(s) \in Seq(State) /\ Len(KeysOf(s)) = l /\ nd.key \in State
  BY KeysType DEF Node
<1>4. u \in Seq(State) /\ Len(u) = l + 1 /\ u[l + 1] = nd.key /\ DOMAIN u = 1 .. l + 1 /\ (\A i \in 1 .. l : u[i] = KeysOf(s)[i])
  <2> HIDE DEF l
  <2>1. LET w == KeysOf(s) IN
        /\ Append(w, nd.key) \in Seq(State) /\ Len(Append(w, nd.key)) = Len(w) + 1
        /\ Append(w, nd.key)[Len(w) + 1] = nd.key /\ DOMAIN Append(w, nd.key) = 1 .. Len(w) + 1
        /\ \A i \in 1 .. Len(w) : Append(w, nd.key)[i] = w[i]
    BY <1>3, LongerAppend
  <2> QED
    BY <1>3, <2>1
<1>5. KeysOf(t) \in Seq(State) /\ Len(KeysOf(t)) = l + 1
  BY <1>1, <1>2, KeysType
<1>6. ASSUME NEW i \in 1 .. l + 1 PROVE KeysOf(t)[i] = u[i]
  <2>1. KeysOf(t)[i] = t[i].key
    BY <1>2 DEF KeysOf
  <2>2. CASE i = l + 1
    BY <1>2, <1>4, <2>1, <2>2
  <2>3. CASE i # l + 1
    <3>1. i \in 1 .. l /\ i \in DOMAIN s
      BY <1>1, <2>3
    <3>2. KeysOf(s)[i] = s[i].key
      BY <3>1 DEF KeysOf
    <3> QED
      BY <1>2, <1>4, <2>1, <3>1, <3>2
  <2> QED
    BY <2>2, <2>3
<1> HIDE DEF t, u, l
<1>7. KeysOf(t) = u
  BY <1>1, <1>4, <1>5, <1>6, SeqEqual
<1> QED
  BY <1>7 DEF t, u

LEMMA InRange ==
  ASSUME NEW nd \in Seq(Node), NEW s
  PROVE  s \in Range(KeysOf(nd)) <=> \E i \in DOMAIN nd : nd[i].key = s
BY DEF Range, KeysOf

(* addNode keeps the order of the queue. *)
LEMMA MergedEnqueues ==
  ASSUME maxStates \in Nat, NEW g \in Graph, NEW sc \in Child
  PROVE  KeysOf(Merged(g, sc).node) = Enqueue(KeysOf(g.node), sc.to)
<1> DEFINE h == Merged(g, sc)  q == KeysOf(g.node)
<1>1. g.node \in Seq(Node) /\ Len(g.node) \in Nat
  BY DEF Graph
<1>2. Len(q) = Len(g.node) /\ (sc.to \in Range(q) <=> \E i \in DOMAIN g.node : g.node[i].key = sc.to)
  BY <1>1, KeysType, InRange
<1>3. SuccRefused(g, h, sc) \/ SuccNew(g, h, sc) \/ SuccKnown(g, h, sc)
  BY MergedEffect
<1>4. NodeOf(sc) \in Node /\ NodeOf(sc).key = sc.to
  BY ActorsAreNats DEF NodeOf, Node, Child
<1> HIDE DEF h
<1>5. CASE SuccRefused(g, h, sc)
  <2>1. h.node = g.node /\ Len(g.node) >= maxStates
    BY <1>5 DEF SuccRefused
  <2>2. KeysOf(h.node) = Enqueue(q, sc.to)
    BY <1>2, <2>1 DEF Enqueue
  <2> QED
    BY <2>2 DEF h
<1>6. CASE SuccNew(g, h, sc)
  <2>1. h.node = Append(g.node, NodeOf(sc)) /\ Len(g.node) < maxStates /\ \A i \in DOMAIN g.node : g.node[i].key # sc.to
    BY <1>6 DEF SuccNew, LinksTo
  <2>2. KeysOf(h.node) = Append(q, sc.to)
    BY <1>1, <1>4, <2>1, KeysAppend
  <2>3. sc.to \notin Range(q) /\ ~(Len(q) >= maxStates)
    BY <1>1, <1>2, <2>1
  <2> HIDE DEF q
  <2>4. KeysOf(h.node) = Enqueue(q, sc.to)
    BY <2>2, <2>3 DEF Enqueue
  <2> QED
    BY <2>4 DEF h, q
<1>7. CASE SuccKnown(g, h, sc)
  <2>1. h.node = g.node /\ \E i \in DOMAIN g.node : g.node[i].key = sc.to
    BY <1>7 DEF SuccKnown, LinksTo
  <2>2. KeysOf(h.node) = Enqueue(q, sc.to)
    BY <1>2, <2>1 DEF Enqueue
  <2> QED
    BY <2>2 DEF h
<1> QED
  BY <1>3, <1>5, <1>6, <1>7

LEMMA RootEnqueues ==
  ASSUME maxStates \in Nat, NEW g \in Graph, NEW key \in State
  PROVE  KeysOf(Root(g, key).node) = Enqueue(KeysOf(g.node), key)
<1> DEFINE h == Root(g, key)  q == KeysOf(g.node)
<1>1. g.node \in Seq(Node) /\ Len(g.node) \in Nat
  BY DEF Graph
<1>2. Len(q) = Len(g.node) /\ (key \in Range(q) <=> \E i \in DOMAIN g.node : g.node[i].key = key)
  BY <1>1, KeysType, InRange
<1>3. RootKnown(g, h, key) \/ RootRefused(g, h) \/ RootAdded(g, h, key)
  BY RootEffect
<1> HIDE DEF h
<1>4. CASE RootKnown(g, h, key)
  <2>1. KeysOf(h.node) = Enqueue(q, key)
    BY <1>2, <1>4 DEF Enqueue, RootKnown
  <2> QED
    BY <2>1 DEF h
<1>5. CASE RootRefused(g, h)
  <2>1. h.node = g.node /\ Len(g.node) >= maxStates
    BY <1>5 DEF RootRefused
  <2>2. KeysOf(h.node) = Enqueue(q, key)
    BY <1>2, <2>1 DEF Enqueue
  <2> QED
    BY <2>2 DEF h
<1>6. CASE RootAdded(g, h, key)
  <2> DEFINE nd == [key |-> key, parent |-> 0, actor |-> 0, move |-> "", ordinal |-> 0]
  <2>1. h.node = Append(g.node, nd) /\ Len(g.node) < maxStates /\ \A i \in DOMAIN g.node : g.node[i].key # key
    BY <1>6 DEF RootAdded, AddsNode
  <2>2. nd \in Node /\ nd.key = key
    BY DEF Node, Name
  <2> HIDE DEF nd
  <2>3. KeysOf(h.node) = Append(q, key)
    BY <1>1, <2>1, <2>2, KeysAppend
  <2>4. key \notin Range(q) /\ ~(Len(q) >= maxStates)
    BY <1>1, <1>2, <2>1
  <2> HIDE DEF q
  <2>5. KeysOf(h.node) = Enqueue(q, key)
    BY <2>3, <2>4 DEF Enqueue
  <2> QED
    BY <2>5 DEF h, q
<1> QED
  BY <1>3, <1>4, <1>5, <1>6

LEMMA TosType ==
  ASSUME NEW found \in Seq(Child)
  PROVE  Tos(found) \in Seq(State) /\ Len(Tos(found)) = Len(found) /\ DOMAIN Tos(found) = DOMAIN found
         /\ \A k \in DOMAIN found : Tos(found)[k] = found[k].to
<1>1. DOMAIN found = 1 .. Len(found) /\ Len(found) \in Nat
  OBVIOUS
<1>2. \A i \in DOMAIN found : found[i].to \in State
  <2>1. \A i \in DOMAIN found : found[i] \in Child
    BY <1>1
  <2> QED
    BY <2>1 DEF Child
<1> DEFINE s == [i \in DOMAIN found |-> found[i].to]
<1>3. s \in [1 .. Len(found) -> State] /\ \A k \in DOMAIN found : s[k] = found[k].to
  BY <1>1, <1>2
<1>4. s \in Seq(State) /\ Len(s) = Len(found) /\ DOMAIN s = DOMAIN found
  <2> HIDE DEF s
  <2> QED
    BY <1>1, <1>3
<1>5. Tos(found) = s
  BY DEF Tos
<1> HIDE DEF s
<1> QED
  BY <1>3, <1>4, <1>5

(* A merged chunk is enqueued. *)
LEMMA MergeEnqueues ==
  ASSUME maxStates \in Nat, G \in Graph, NEW found \in Seq(Child)
  PROVE  KeysOf(merge(found).node) = EnqueueAll(KeysOf(G.node), Tos(found))
<1>0. Len(found) \in Nat /\ DOMAIN found = 1 .. Len(found)
  OBVIOUS
<1>1. PICK c : MergeRun(c, G, found) /\ merge(found) = c[Len(found)]
  BY MergeRuns
<1>2. c[0] = G /\ (\A k \in 1 .. Len(found) : c[k] = Merged(c[k - 1], found[k]))
  BY <1>1 DEF MergeRun
<1> DEFINE n == Len(found)
           S == {k \in Nat : k <= n => c[k] \in Graph}
<1>3. 0 \in S
  BY <1>2
<1>4. ASSUME NEW k \in Nat, k \in S PROVE k + 1 \in S
  <2> SUFFICES ASSUME k + 1 <= n PROVE c[k + 1] \in Graph
    OBVIOUS
  <2>1. k + 1 \in 1 .. n /\ (k + 1) - 1 = k /\ k <= n
    BY <1>0
  <2>2. c[k] \in Graph /\ found[k + 1] \in Child
    BY <1>0, <1>4, <2>1
  <2>3. c[k + 1] = Merged(c[(k + 1) - 1], found[k + 1])
    BY <1>2, <2>1
  <2>4. Merged(c[k], found[k + 1]) \in Graph
    <3> DEFINE g == c[k]  sc == found[k + 1]
    <3> HIDE DEF g, sc
    <3>1. Merged(g, sc) \in Graph
      BY <2>2, MergedEffect DEF SuccRefused, SuccNew, SuccKnown, LinksTo, g, sc
    <3> QED
      BY <3>1 DEF g, sc
  <2> QED
    BY <2>1, <2>3, <2>4
<1> HIDE DEF S
<1>5. Nat \subseteq S
  BY <1>3, <1>4, Inductive
<1>6. \A k \in 0 .. n : c[k] \in Graph
  BY <1>0, <1>5 DEF S
<1> DEFINE d == [k \in 0 .. n |-> KeysOf(c[k].node)]
<1>7. d[0] = KeysOf(G.node)
  BY <1>0, <1>2
<1>8. ASSUME NEW k \in 1 .. n PROVE d[k] = Enqueue(d[k - 1], Tos(found)[k])
  <2>1. k \in 0 .. n /\ k - 1 \in 0 .. n
    BY <1>0
  <2>2. d[k] = KeysOf(c[k].node) /\ d[k - 1] = KeysOf(c[k - 1].node)
    BY <2>1
  <2>3. c[k - 1] \in Graph /\ found[k] \in Child /\ Tos(found)[k] = found[k].to
    BY <1>0, <1>6, <2>1, TosType
  <2> HIDE DEF d
  <2>4. KeysOf(Merged(c[k - 1], found[k]).node) = Enqueue(KeysOf(c[k - 1].node), found[k].to)
    BY <2>3, MergedEnqueues
  <2>5. c[k] = Merged(c[k - 1], found[k])
    BY <1>2
  <2> QED
    BY <2>2, <2>3, <2>4, <2>5
<1>9. d[n] = KeysOf(c[n].node)
  BY <1>0
<1> HIDE DEF d
<1>10. KeysOf(G.node) \in Seq(State)
  BY KeysType DEF Graph
<1>11. Tos(found) \in Seq(State) /\ Len(Tos(found)) = n
  BY TosType
<1>12. EnqueueAll(KeysOf(G.node), Tos(found)) = d[n]
  <2> HIDE DEF n
  <2>1. EnqueueAll(KeysOf(G.node), Tos(found)) = d[Len(Tos(found))]
    BY <1>7, <1>8, <1>10, <1>11, EnqueueUnique
  <2> QED
    BY <1>11, <2>1
<1> QED
  BY <1>1, <1>9, <1>12

LEMMA RootedEnqueues ==
  ASSUME Given, G \in Graph
  PROVE  KeysOf(rooted.node) = EnqueueAll(KeysOf(G.node), initial)
<1>0. Len(initial) \in Nat /\ DOMAIN initial = 1 .. Len(initial) /\ maxStates \in Nat /\ initial \in Seq(State)
  BY DEF Given
<1>1. PICK c : RootRun(c, G) /\ rooted = c[Len(initial)]
  BY <1>0, RootRuns
<1>2. c[0] = G /\ (\A k \in 1 .. Len(initial) : c[k] = Root(c[k - 1], initial[k]))
  BY <1>1 DEF RootRun
<1> DEFINE n == Len(initial)
           S == {k \in Nat : k <= n => c[k] \in Graph}
<1>3. 0 \in S
  BY <1>2
<1>4. ASSUME NEW k \in Nat, k \in S PROVE k + 1 \in S
  <2> SUFFICES ASSUME k + 1 <= n PROVE c[k + 1] \in Graph
    OBVIOUS
  <2>1. k + 1 \in 1 .. n /\ (k + 1) - 1 = k /\ k <= n
    BY <1>0
  <2>2. c[k] \in Graph /\ initial[k + 1] \in State
    BY <1>0, <1>4, <2>1
  <2>3. c[k + 1] = Root(c[(k + 1) - 1], initial[k + 1])
    BY <1>2, <2>1
  <2>4. Root(c[k], initial[k + 1]) \in Graph
    <3> DEFINE g == c[k]  s == initial[k + 1]
    <3> HIDE DEF g, s
    <3>1. Root(g, s) \in Graph
      BY <1>0, <2>2, RootEffect DEF RootKnown, RootRefused, RootAdded, AddsNode, g, s
    <3> QED
      BY <3>1 DEF g, s
  <2> QED
    BY <2>1, <2>3, <2>4
<1> HIDE DEF S
<1>5. Nat \subseteq S
  BY <1>3, <1>4, Inductive
<1>6. \A k \in 0 .. n : c[k] \in Graph
  BY <1>0, <1>5 DEF S
<1> DEFINE d == [k \in 0 .. n |-> KeysOf(c[k].node)]
<1>7. d[0] = KeysOf(G.node)
  BY <1>0, <1>2
<1>8. ASSUME NEW k \in 1 .. n PROVE d[k] = Enqueue(d[k - 1], initial[k])
  <2>1. k \in 0 .. n /\ k - 1 \in 0 .. n
    BY <1>0
  <2>2. d[k] = KeysOf(c[k].node) /\ d[k - 1] = KeysOf(c[k - 1].node)
    BY <2>1
  <2>3. c[k - 1] \in Graph /\ initial[k] \in State
    BY <1>0, <1>6, <2>1
  <2> HIDE DEF d
  <2>4. KeysOf(Root(c[k - 1], initial[k]).node) = Enqueue(KeysOf(c[k - 1].node), initial[k])
    BY <1>0, <2>3, RootEnqueues
  <2>5. c[k] = Root(c[k - 1], initial[k])
    BY <1>2
  <2> QED
    BY <2>2, <2>3, <2>4, <2>5
<1>9. d[n] = KeysOf(c[n].node)
  BY <1>0
<1> HIDE DEF d
<1>10. KeysOf(G.node) \in Seq(State)
  BY KeysType DEF Graph
<1>11. EnqueueAll(KeysOf(G.node), initial) = d[Len(initial)]
  BY <1>0, <1>7, <1>8, <1>10, EnqueueUnique
<1> QED
  BY <1>1, <1>9, <1>11

LEMMA TosConcat ==
  ASSUME NEW x \in Seq(Child), NEW y \in Seq(Child)
  PROVE  Tos(x \o y) = Tos(x) \o Tos(y)
<1> DEFINE z == x \o y  m == Len(x)  n == Len(y)  p == Tos(x)  q == Tos(y)
<1>1. /\ m \in Nat /\ n \in Nat /\ z \in Seq(Child) /\ Len(z) = m + n /\ (\A k \in 1 .. m : z[k] = x[k])
      /\ (\A k \in 1 .. n : z[m + k] = y[k]) /\ DOMAIN x = 1 .. m /\ DOMAIN y = 1 .. n /\ DOMAIN z = 1 .. m + n
  OBVIOUS
<1>2. p \in Seq(State) /\ Len(p) = m /\ (\A k \in 1 .. m : p[k] = x[k].to)
  BY <1>1, TosType
<1>3. q \in Seq(State) /\ Len(q) = n /\ (\A k \in 1 .. n : q[k] = y[k].to)
  BY <1>1, TosType
<1>4. Tos(z) \in Seq(State) /\ Len(Tos(z)) = m + n /\ (\A k \in 1 .. m + n : Tos(z)[k] = z[k].to)
  BY <1>1, TosType
<1> HIDE DEF z, p, q, m, n
<1> DEFINE r == p \o q
<1>5. /\ r \in Seq(State) /\ Len(r) = m + n /\ (\A k \in 1 .. m : r[k] = p[k])
      /\ (\A k \in 1 .. n : r[m + k] = q[k])
  <2>1. p \in Seq(State) /\ q \in Seq(State)
    BY <1>2, <1>3
  <2>2. /\ r \in Seq(State) /\ Len(r) = Len(p) + Len(q) /\ (\A k \in 1 .. Len(p) : r[k] = p[k])
        /\ (\A k \in 1 .. Len(q) : r[Len(p) + k] = q[k])
    BY <2>1
  <2> HIDE DEF r
  <2> QED
    BY <1>2, <1>3, <2>2
<1> HIDE DEF r
<1>6. ASSUME NEW k \in 1 .. m + n PROVE Tos(z)[k] = r[k]
  <2>1. CASE k <= m
    <3>1. k \in 1 .. m
      BY <1>1, <2>1
    <3> QED
      BY <1>1, <1>2, <1>4, <1>5, <3>1, SMTT(30)
  <2>2. CASE k > m
    <3> DEFINE j == k - m
    <3>1. j \in 1 .. n /\ m + j = k
      BY <1>1, <2>2
    <3> HIDE DEF j
    <3>2. z[m + j] = y[j] /\ r[m + j] = q[j] /\ q[j] = y[j].to
      BY <1>1, <1>3, <1>5, <3>1
    <3> QED
      BY <1>4, <3>1, <3>2
  <2> QED
    BY <1>1, <2>1, <2>2
<1>7. Tos(z) = r
  BY <1>1, <1>4, <1>5, <1>6, SeqEqual
<1> QED
  BY <1>7 DEF z, r, p, q

LEMMA TosFlatten ==
  ASSUME NEW ss \in Seq(Seq(Child)), NEW tt \in Seq(Seq(State)), Len(tt) = Len(ss),
         \A i \in 1 .. Len(ss) : tt[i] = Tos(ss[i])
  PROVE  Tos(FlattenSeq(ss)) = FlattenSeq(tt)
<1> DEFINE n == Len(ss)
<1>0. n \in Nat /\ (\A i \in 1 .. n : ss[i] \in Seq(Child))
  OBVIOUS
<1>1. PICK f : Flattening(f, Child, ss)
  BY Flattens
<1>2. PICK h : Flattening(h, State, tt)
  BY Flattens
<1>3. f \in [0 .. n -> Seq(Child)] /\ f[0] = <<>> /\ (\A k \in 1 .. n : f[k] = f[k - 1] \o ss[k]) /\ FlattenSeq(ss) = f[n]
  BY <1>1 DEF Flattening
<1>4. h[0] = <<>> /\ (\A k \in 1 .. n : h[k] = h[k - 1] \o tt[k]) /\ FlattenSeq(tt) = h[n]
  BY <1>2 DEF Flattening
<1> HIDE DEF n
<1> DEFINE S == {k \in Nat : k <= n => Tos(f[k]) = h[k]}
<1>5. 0 \in S
  <2>1. Tos(<<>>) = <<>>
    BY DEF Tos
  <2> QED
    BY <1>3, <1>4, <2>1
<1>6. ASSUME NEW k \in Nat, k \in S PROVE k + 1 \in S
  <2> SUFFICES ASSUME k + 1 <= n PROVE Tos(f[k + 1]) = h[k + 1]
    OBVIOUS
  <2>1. k + 1 \in 1 .. n /\ (k + 1) - 1 = k /\ k <= n /\ k \in 0 .. n
    BY <1>0
  <2>2. Tos(f[k]) = h[k] /\ f[k] \in Seq(Child) /\ ss[k + 1] \in Seq(Child) /\ tt[k + 1] = Tos(ss[k + 1])
    BY <1>0, <1>3, <1>6, <2>1 DEF n
  <2>3. f[k + 1] = f[(k + 1) - 1] \o ss[k + 1] /\ h[k + 1] = h[(k + 1) - 1] \o tt[k + 1]
    BY <1>3, <1>4, <2>1
  <2>4. Tos(f[k] \o ss[k + 1]) = Tos(f[k]) \o Tos(ss[k + 1])
    BY <2>2, TosConcat
  <2> QED
    BY <2>1, <2>2, <2>3, <2>4
<1> HIDE DEF S
<1>7. Nat \subseteq S
  BY <1>5, <1>6, Inductive
<1>8. Tos(f[n]) = h[n]
  BY <1>0, <1>7 DEF S
<1> QED
  BY <1>3, <1>4, <1>8

(* What expanding a node finds. *)
LEMMA ExpandFinds ==
  ASSUME Given, node \in Seq(Node), NEW n \in DOMAIN node
  PROVE  Tos(expand(n)) = Found(node[n].key)
<1> DEFINE s == node[n].key
           ss == [a \in Actor |-> Yielded(n, a)]
           tt == [a \in Actor |-> [k \in DOMAIN moves[s][a] |-> moves[s][a][k].to]]
<1>0. s \in State
  <2>1. node[n] \in Node
    OBVIOUS
  <2> QED
    BY <2>1 DEF Node
<1>1. ss \in [Actor -> Seq(Child)]
  BY YieldedItems
<1>2. ASSUME NEW a \in Actor PROVE tt[a] = Tos(ss[a]) /\ tt[a] \in Seq(State)
  <2>1. /\ Yielded(n, a) \in Seq(Child) /\ DOMAIN Yielded(n, a) = DOMAIN moves[s][a]
        /\ \A k \in DOMAIN Yielded(n, a) : Yielded(n, a)[k].to = moves[s][a][k].to
    BY YieldedItems
  <2>2. Tos(Yielded(n, a)) = [k \in DOMAIN moves[s][a] |-> moves[s][a][k].to]
    <3> HIDE DEF s
    <3> QED
      BY <2>1 DEF Tos
  <2>3. tt[a] = Tos(Yielded(n, a)) /\ ss[a] = Yielded(n, a)
    BY <2>2
  <2>4. Tos(Yielded(n, a)) \in Seq(State)
    BY <2>1, TosType
  <2> QED
    BY <2>3, <2>4
<1>3. tt \in [Actor -> Seq(State)]
  <2>1. tt = [a \in Actor |-> tt[a]]
    OBVIOUS
  <2> HIDE DEF tt
  <2> QED
    BY <1>2, <2>1
<1>4. expand(n) = FlattenSeq(ss) /\ Found(s) = FlattenSeq(tt)
  BY DEF expand, Found
<1> HIDE DEF ss, tt
<1>5. ss \in Seq(Seq(Child)) /\ Actor = 1 .. Len(ss)
  BY <1>1, ActorSequence
<1>6. tt \in Seq(Seq(State)) /\ Actor = 1 .. Len(tt)
  BY <1>3, ActorSequence
<1>7. Len(tt) = Len(ss)
  <2>1. \A a, b \in Nat : 1 .. a = 1 .. b => a = b
    <3> SUFFICES ASSUME NEW a \in Nat, NEW b \in Nat, 1 .. a = 1 .. b, a # b PROVE FALSE
      OBVIOUS
    <3>1. CASE a < b
      <4>1. b \in 1 .. b /\ b \notin 1 .. a
        BY <3>1
      <4> QED
        BY <4>1
    <3>2. CASE b < a
      <4>1. a \in 1 .. a /\ a \notin 1 .. b
        BY <3>2
      <4> QED
        BY <4>1
    <3> QED
      BY <3>1, <3>2
  <2>2. Len(tt) \in Nat /\ Len(ss) \in Nat
    BY <1>5, <1>6
  <2> QED
    BY <1>5, <1>6, <2>1, <2>2
<1>8. \A i \in 1 .. Len(ss) : tt[i] = Tos(ss[i])
  BY <1>2, <1>5
<1>9. Tos(FlattenSeq(ss)) = FlattenSeq(tt)
  <2>1. ss \in Seq(Seq(Child)) /\ tt \in Seq(Seq(State))
    BY <1>5, <1>6
  <2> QED
    BY <1>7, <1>8, <2>1, TosFlatten
<1> QED
  BY <1>4, <1>9

(* A chunk is enqueued as a queue would have taken its nodes. *)
LEMMA ChunkEnqueues ==
  ASSUME Given, node \in Seq(Node), NEW lo \in Nat \ {0}, NEW hi \in Nat, lo <= hi, hi <= Len(node),
         KeysOf(node) = Queue[lo - 1]
  PROVE  EnqueueAll(KeysOf(node), Tos(InChunk(lo, hi))) = Queue[hi]
<1> DEFINE n == hi - lo + 1
           ss == [k \in 1 .. n |-> expand(lo + k - 1)]
           q == KeysOf(node)
<1>0. n \in Nat /\ Len(node) \in Nat /\ DOMAIN node = 1 .. Len(node) /\ q \in Seq(State) /\ DOMAIN q = DOMAIN node
      /\ lo - 1 \in Nat /\ Len(q) = Len(node)
  BY KeysType
<1>1. \A k \in 1 .. n : lo + k - 1 \in DOMAIN node
  BY <1>0
<1>2. \A k \in 1 .. n : expand(lo + k - 1) \in Seq(Child)
  BY <1>1, ExpandItems
<1>3. ss \in Seq(Seq(Child)) /\ Len(ss) = n
  <2>1. ss \in [1 .. n -> Seq(Child)]
    BY <1>2
  <2> HIDE DEF ss, n
  <2> QED
    BY <1>0, <2>1
<1>4. InChunk(lo, hi) = FlattenSeq(ss)
  BY DEF InChunk
<1>5. \A k \in 1 .. n : ss[k] = expand(lo + k - 1)
  OBVIOUS
<1> HIDE DEF ss
<1>6. PICK f : Flattening(f, Child, ss)
  <2>1. ss \in Seq(Seq(Child))
    BY <1>3
  <2> QED
    BY <2>1, Flattens
<1>7. f \in [0 .. n -> Seq(Child)] /\ f[0] = <<>> /\ (\A k \in 1 .. n : f[k] = f[k - 1] \o ss[k]) /\ FlattenSeq(ss) = f[n]
  <2> HIDE DEF n
  <2> QED
    BY <1>3, <1>6 DEF Flattening
<1> DEFINE At(k) == EnqueueAll(q, Tos(f[k])) = Queue[lo - 1 + k] /\ Longer(q, Queue[lo - 1 + k])
           S == {k \in Nat : k <= n => At(k)}
<1> HIDE DEF q
<1>8. At(0)
  <2>1. lo - 1 + 0 = lo - 1 /\ q = Queue[lo - 1]
    BY <1>0 DEF q
  <2>2. Tos(f[0]) = <<>>
    BY <1>7 DEF Tos
  <2>3. EnqueueAll(q, <<>>) = q
    <3> DEFINE c == [k \in 0 .. 0 |-> q]
    <3>1. c[0] = q /\ <<>> \in Seq(State) /\ Len(<<>>) = 0
      OBVIOUS
    <3> HIDE DEF c
    <3>2. \A k \in 1 .. Len(<<>>) : c[k] = Enqueue(c[k - 1], <<>>[k])
      BY <3>1
    <3>3. EnqueueAll(q, <<>>) = c[Len(<<>>)]
      BY <1>0, <3>1, <3>2, EnqueueUnique
    <3> QED
      BY <3>1, <3>3
  <2>4. Longer(q, q)
    BY <1>0 DEF Longer
  <2> QED
    BY <2>1, <2>2, <2>3, <2>4
<1>9. ASSUME NEW k \in Nat, k \in S PROVE k + 1 \in S
  <2> SUFFICES ASSUME k + 1 <= n PROVE At(k + 1)
    OBVIOUS
  <2> DEFINE i == lo + (k + 1) - 1  p == Queue[lo - 1 + k]
  <2>1. /\ k + 1 \in 1 .. n /\ (k + 1) - 1 = k /\ k <= n /\ k \in 0 .. n
        /\ i \in DOMAIN node /\ lo - 1 + k \in Nat /\ (lo - 1 + k) + 1 = i /\ lo - 1 + (k + 1) = i
    BY <1>0
  <2>2. At(k)
    BY <1>9, <2>1
  <2> HIDE DEF n, i
  <2>3. f[k] \in Seq(Child) /\ ss[k + 1] = expand(i) /\ expand(i) \in Seq(Child)
    <3>1. ss[k + 1] = expand(lo + (k + 1) - 1) /\ expand(lo + (k + 1) - 1) \in Seq(Child)
      BY <1>2, <1>5, <2>1
    <3> QED
      BY <1>7, <2>1, <3>1 DEF i
  <2>4. f[k + 1] = f[k] \o expand(i)
    <3>1. f[k + 1] = f[(k + 1) - 1] \o ss[k + 1]
      BY <1>7, <2>1
    <3> QED
      BY <2>1, <2>3, <3>1
  <2>5. Tos(f[k + 1]) = Tos(f[k]) \o Found(node[i].key)
    <3>1. Tos(f[k] \o expand(i)) = Tos(f[k]) \o Tos(expand(i))
      BY <2>3, TosConcat
    <3>2. Tos(expand(i)) = Found(node[i].key)
      BY <2>1, ExpandFinds
    <3> QED
      BY <2>4, <3>1, <3>2
  <2>6. Tos(f[k]) \in Seq(State) /\ node[i].key \in State
    <3>1. node[i] \in Node
      BY <2>1
    <3> QED
      BY <2>3, <3>1, TosType DEF Node
  <2>7. Found(node[i].key) \in Seq(State)
    BY <2>6, FoundType
  <2>8. EnqueueAll(q, Tos(f[k + 1])) = EnqueueAll(p, Found(node[i].key))
    <3>1. EnqueueAll(q, Tos(f[k]) \o Found(node[i].key)) = EnqueueAll(EnqueueAll(q, Tos(f[k])), Found(node[i].key))
      BY <1>0, <2>6, <2>7, EnqueueConcat
    <3> QED
      BY <2>2, <2>5, <3>1
  <2>9. p \in Seq(State)
    BY <2>1, QueueStep
  <2>a. Longer(q, p)
    BY <2>2
  <2>10. q[i] = node[i].key /\ i \in DOMAIN q
    BY <1>0, <2>1 DEF q, KeysOf
  <2> HIDE DEF p
  <2>11. p[i] = node[i].key /\ i <= Len(p) /\ i \in Nat /\ Len(p) \in Nat
    <3>1. i \in DOMAIN p /\ p[i] = q[i] /\ DOMAIN p = 1 .. Len(p) /\ Len(p) \in Nat
      BY <1>0, <2>9, <2>a, <2>10, LongerDomain DEF Longer
    <3> QED
      BY <2>10, <3>1
  <2>12. Queue[i] = EnqueueAll(p, Found(node[i].key))
    <3>1. Queue[(lo - 1 + k) + 1] = Taken(Queue[lo - 1 + k], (lo - 1 + k) + 1)
      BY <2>1, QueueStep
    <3>2. Queue[i] = Taken(p, i)
      BY <2>1, <3>1 DEF p
    <3>3. ~(i > Len(p))
      BY <2>11
    <3> QED
      BY <2>11, <3>2, <3>3 DEF Taken
  <2>13. Longer(q, Queue[i])
    <3>1. Longer(p, Queue[i]) /\ Queue[i] \in Seq(State)
      BY <2>7, <2>9, <2>12, EnqueueGrows, EnqueueAllType
    <3> QED
      BY <1>0, <2>9, <2>a, <3>1, LongerTransitive
  <2> QED
    BY <2>1, <2>8, <2>12, <2>13
<1>10. 0 \in S
  <2> HIDE DEF At
  <2> QED
    BY <1>8
<1> HIDE DEF S
<1>11. Nat \subseteq S
  BY <1>9, <1>10, Inductive
<1>12. At(n)
  <2> HIDE DEF At
  <2> QED
    BY <1>0, <1>11 DEF S
<1>13. lo - 1 + n = hi
  OBVIOUS
<1>14. EnqueueAll(q, Tos(InChunk(lo, hi))) = Queue[hi]
  <2> HIDE DEF n
  <2> QED
    BY <1>4, <1>7, <1>12, <1>13
<1> QED
  BY <1>14 DEF q

(* A queue that is used up stays as it is. *)
LEMMA QueueStays ==
  ASSUME Given, NEW i \in Nat, NEW j \in Nat, i <= j, Len(Queue[i]) <= i
  PROVE  Queue[j] = Queue[i]
<1>0. Queue[i] \in Seq(State) /\ Len(Queue[i]) \in Nat
  <2>1. Queue[i] \in Seq(State)
    BY QueueStep
  <2> QED
    BY <2>1
<1> DEFINE S == {k \in Nat : Queue[i + k] = Queue[i]}
<1>1. 0 \in S
  BY i + 0 = i
<1>2. ASSUME NEW k \in Nat, k \in S PROVE k + 1 \in S
  <2>1. i + k \in Nat /\ (i + k) + 1 = i + (k + 1) /\ (i + k) + 1 > Len(Queue[i])
    BY <1>0
  <2>2. Queue[(i + k) + 1] = Taken(Queue[i + k], (i + k) + 1)
    BY <2>1, QueueStep
  <2>3. Queue[i + k] = Queue[i]
    BY <1>2
  <2> QED
    BY <2>1, <2>2, <2>3 DEF Taken
<1> HIDE DEF S
<1>3. Nat \subseteq S
  BY <1>1, <1>2, Inductive
<1>4. j - i \in Nat /\ i + (j - i) = j
  OBVIOUS
<1>5. j - i \in S
  BY <1>3, <1>4
<1> QED
  BY <1>4, <1>5 DEF S

------------------------------------------------------------------------------
(* The invariant of the search. *)

(* t counts the moves from a root. *)
IsDepth(nd, t) ==
  /\ t \in [DOMAIN nd -> Nat]
  /\ \A i \in DOMAIN nd : t[i] = IF nd[i].parent = 0 THEN 0 ELSE 1 + t[nd[i].parent]

KeysTo(nd, n) == {nd[j].key : j \in 1 .. n}

(* Levels are what they should be: a node's key is as far away as its      *)
(* level, whatever is nearer was found before it, and while there is room  *)
(* the level holds every state that far away.                              *)
Layered(nd, t, lv, dp) ==
  /\ IsDepth(nd, t)
  /\ \A i \in DOMAIN nd : (i \in lv.first .. lv.last => t[i] = dp) /\ (i > lv.last => t[i] = dp + 1)
  /\ \A i \in DOMAIN nd : nd[i].key \in Ball[t[i]]
  /\ \A i \in DOMAIN nd : t[i] > 0 => Ball[t[i] - 1] \subseteq KeysTo(nd, i - 1)
  /\ Len(nd) < maxStates => Ball[dp] \subseteq KeysTo(nd, lv.last)

(* Every move from the node is in the graph, or its future is unknown. *)
Walked(g, n) ==
  \A a \in Actor : \A m \in DOMAIN moves[g.node[n].key][a] : Covered(g, n, a, moves[g.node[n].key][a][m].to)

FirstBad(nd, v) ==
  IF v = 0 THEN \A i \in DOMAIN nd : nd[i].key \notin bad
  ELSE v \in DOMAIN nd /\ nd[v].key \in bad /\ \A j \in 1 .. v - 1 : nd[j].key \notin bad

LevelOf(lv, nd) ==
  /\ lv \in [first : Nat \ {0}, last : Nat, at : Nat]
  /\ lv.first <= lv.at /\ lv.at <= lv.last + 1 /\ lv.last <= Len(nd)

Good(g, lv, dp, v) ==
  /\ WellFormed(g) /\ Honest(g) /\ LevelOf(lv, g.node) /\ dp \in Nat
  /\ \A s \in Range(initial) : Rooted(g, s)
  /\ \A n \in 1 .. lv.at - 1 : Walked(g, n)
  /\ \E t : Layered(g.node, t, lv, dp)
  /\ FirstBad(g.node, v)
  /\ KeysOf(g.node) = Queue[lv.at - 1]

(* It is about the inputs, which do not change. *)
LEMMA GoodFrozen ==
  ASSUME moves' = moves, initial' = initial, bad' = bad, maxStates' = maxStates,
         NEW g, NEW lv, NEW dp, NEW v, Good(g, lv, dp, v)
  PROVE  Good(g, lv, dp, v)'
<1>1. ASSUME NEW nd, NEW i PROVE Origin(nd, i)' <=> Origin(nd, i)
  BY DEF Origin, Comes, ordinalOf
<1>2. ASSUME NEW nd, NEW e PROVE Sound(nd, e)' <=> Sound(nd, e)
  BY DEF Sound, Succ
<1>3. WellFormed(g)'
  <2>1. WellFormed(g)
    BY DEF Good
  <2> QED
    BY <1>1, <1>2, <2>1 DEF WellFormed
<1>4. Ball' = Ball
  BY DEF Ball, Succ
<1>5. Queue' = Queue
  BY DEF Queue, EnqueueAll, Enqueue, Found
<1>6. (\E t : Layered(g.node, t, lv, dp))'
  <2>1. PICK t : Layered(g.node, t, lv, dp)
    BY DEF Good
  <2>2. Layered(g.node, t, lv, dp)'
    BY <1>4, <2>1 DEF Layered
  <2> QED
    BY <2>2
<1>7. (\A n \in 1 .. lv.at - 1 : Walked(g, n))'
  <2>1. \A n \in 1 .. lv.at - 1 : Walked(g, n)
    BY DEF Good
  <2> QED
    BY <2>1 DEF Walked
<1>8. (Honest(g) /\ LevelOf(lv, g.node) /\ dp \in Nat /\ \A s \in Range(initial) : Rooted(g, s))'
  <2>1. Honest(g) /\ LevelOf(lv, g.node) /\ dp \in Nat /\ \A s \in Range(initial) : Rooted(g, s)
    BY DEF Good
  <2> QED
    BY <2>1
<1>9. FirstBad(g.node, v)'
  <2>1. FirstBad(g.node, v)
    BY DEF Good
  <2> QED
    BY <2>1 DEF FirstBad
<1>10. (KeysOf(g.node) = Queue[lv.at - 1])'
  <2>1. KeysOf(g.node) = Queue[lv.at - 1]
    BY DEF Good
  <2> QED
    BY <1>5, <2>1
<1> QED
  BY <1>3, <1>6, <1>7, <1>8, <1>9, <1>10 DEF Good

(* evaluate keeps the first violation. *)
LEMMA EvaluateEffect ==
  ASSUME node \in Seq(Node), NEW g \in Graph, Longer(node, g.node), FirstBad(node, invViol)
  PROVE  FirstBad(g.node, evaluate(g))
<1> DEFINE new == {i \in DOMAIN g.node : i > Len(node) /\ g.node[i].key \in bad}  t == g.node
<1>1. t \in Seq(Node) /\ Len(node) \in Nat /\ Len(t) \in Nat /\ DOMAIN node = 1 .. Len(node) /\ DOMAIN t = 1 .. Len(t)
      /\ DOMAIN node \subseteq DOMAIN t
  <2>1. t \in Seq(Node)
    BY DEF Graph
  <2> QED
    BY <2>1, LongerDomain
<1>2. \A i \in DOMAIN node : t[i] = node[i]
  BY DEF Longer
<1>3. CASE invViol # 0
  <2>1. evaluate(g) = invViol
    BY <1>3 DEF evaluate
  <2>2. invViol \in DOMAIN node /\ node[invViol].key \in bad /\ \A j \in 1 .. invViol - 1 : node[j].key \notin bad
    BY <1>3 DEF FirstBad
  <2>3. \A j \in 1 .. invViol - 1 : j \in DOMAIN node
    BY <1>1, <2>2
  <2> QED
    BY <1>1, <1>2, <1>3, <2>1, <2>2, <2>3 DEF FirstBad
<1>4. CASE invViol = 0 /\ new = {}
  <2>1. evaluate(g) = 0
    BY <1>4 DEF evaluate
  <2>2. ASSUME NEW i \in DOMAIN t PROVE t[i].key \notin bad
    <3>1. CASE i > Len(node)
      BY <1>4, <3>1
    <3>2. CASE ~(i > Len(node))
      <4>1. i \in DOMAIN node
        BY <1>1, <3>2
      <4> QED
        BY <1>2, <1>4, <4>1 DEF FirstBad
    <3> QED
      BY <3>1, <3>2
  <2> QED
    BY <2>1, <2>2 DEF FirstBad
<1>5. CASE invViol = 0 /\ new # {}
  <2> DEFINE v == CHOOSE i \in new : \A j \in new : i <= j
  <2>1. evaluate(g) = v
    BY <1>5 DEF evaluate
  <2>2. v \in new /\ \A j \in new : v <= j
    <3>1. new \in SUBSET Nat
      BY <1>1
    <3> HIDE DEF new
    <3>2. \E i \in new : \A j \in new : i <= j
      BY <1>5, <3>1, LeastExists
    <3> QED
      BY <3>2
  <2> HIDE DEF v
  <2>3. v \in DOMAIN t /\ v > Len(node) /\ t[v].key \in bad /\ v # 0
    BY <1>1, <2>2
  <2>4. ASSUME NEW j \in 1 .. v - 1 PROVE t[j].key \notin bad
    <3>1. j \in DOMAIN t /\ j < v
      BY <1>1, <2>3
    <3>2. CASE j > Len(node)
      BY <1>1, <2>2, <2>3, <3>1, <3>2
    <3>3. CASE ~(j > Len(node))
      <4>1. j \in DOMAIN node
        BY <1>1, <3>1, <3>3
      <4> QED
        BY <1>2, <1>5, <4>1 DEF FirstBad
    <3> QED
      BY <3>2, <3>3
  <2> QED
    BY <2>1, <2>3, <2>4 DEF FirstBad
<1> QED
  BY <1>3, <1>4, <1>5

LEMMA WalkedStable ==
  ASSUME NEW g \in Graph, NEW h \in Graph, Above(g, h), NEW n \in DOMAIN g.node, Walked(g, n)
  PROVE  Walked(h, n)
<1>1. h.node[n] = g.node[n]
  BY DEF Above, Longer
<1> SUFFICES ASSUME NEW a \in Actor, NEW m \in DOMAIN moves[g.node[n].key][a]
             PROVE  Covered(h, n, a, moves[g.node[n].key][a][m].to)
  BY <1>1 DEF Walked
<1>2. Covered(g, n, a, moves[g.node[n].key][a][m].to)
  BY DEF Walked
<1> QED
  BY <1>2, CoveredStable

LEMMA RootedStable ==
  ASSUME NEW g \in Graph, NEW h \in Graph, Above(g, h), g.truncated => h.truncated, NEW s, Rooted(g, s)
  PROVE  Rooted(h, s)
<1>1. ASSUME NEW i \in DOMAIN g.node, g.node[i].key = s PROVE \E j \in DOMAIN h.node : h.node[j].key = s
  <2>1. g.node \in Seq(Node) /\ h.node \in Seq(Node) /\ Longer(g.node, h.node)
    BY DEF Graph, Above
  <2>2. i \in DOMAIN h.node /\ h.node[i] = g.node[i]
    BY <2>1, LongerDomain DEF Longer
  <2> QED
    BY <1>1, <2>2
<1> QED
  BY <1>1 DEF Rooted

(* The first level is the initial states. *)
LEMMA RootsEffect ==
  ASSUME Given, G = [node |-> <<>>, edges |-> <<>>, unknown |-> {}, truncated |-> FALSE], node = <<>>, invViol = 0
  PROVE  /\ Good(rooted, [first |-> 1, last |-> Len(rooted.node), at |-> 1], 0, evaluate(rooted))
         /\ Bounded(rooted)
<1> DEFINE h == rooted  nd == h.node  lv == [first |-> 1, last |-> Len(h.node), at |-> 1]  t == [i \in DOMAIN nd |-> 0]
<1>1. G \in Graph /\ G.node = <<>> /\ G.edges = <<>> /\ G.unknown = {}
  BY DEF Graph
<1>2. ~G.truncated
  OBVIOUS
<1>3. RootsOnly(G) /\ Bounded(G)
  <2>0. maxStates \in Nat /\ Len(<<>>) = 0
    BY DEF Given
  <2>1. WellFormed(G)
    BY <1>1, <2>0 DEF WellFormed
  <2> QED
    BY <1>1, <1>2, <2>1 DEF RootsOnly, Bounded
<1>4. RootsOnly(h) /\ Bounded(h) /\ \A s \in Range(initial) : Rooted(h, s)
  BY <1>3, RootedEffect
<1>5. KeysOf(nd) = Queue[0]
  <2>1. KeysOf(nd) = EnqueueAll(KeysOf(G.node), initial)
    BY <1>1, RootedEnqueues
  <2>2. KeysOf(G.node) = <<>>
    BY <1>1 DEF KeysOf
  <2> QED
    BY <2>1, <2>2, QueueStep
<1> HIDE DEF h
<1>6. h \in Graph /\ nd \in Seq(Node) /\ Len(nd) \in Nat /\ DOMAIN nd = 1 .. Len(nd) /\ h.unknown = {} /\ WellFormed(h)
  <2>1. h \in Graph /\ WellFormed(h) /\ h.unknown = {}
    BY <1>4 DEF RootsOnly, WellFormed
  <2>2. nd \in Seq(Node)
    BY <2>1 DEF Graph
  <2> QED
    BY <2>1, <2>2
<1>7. LevelOf(lv, nd)
  BY <1>6 DEF LevelOf
<1>8. lv.first = 1 /\ lv.last = Len(nd) /\ lv.at = 1
  OBVIOUS
<1>9. FirstBad(nd, evaluate(h))
  <2>1. FirstBad(node, invViol) /\ node \in Seq(Node) /\ Longer(node, nd)
    BY <1>6 DEF FirstBad, Longer
  <2> QED
    BY <1>6, <2>1, EvaluateEffect
<1>10. Layered(nd, t, lv, 0)
  <2>1. \A i \in DOMAIN nd : nd[i].parent = 0
    BY <1>4 DEF RootsOnly
  <2>2. IsDepth(nd, t)
    BY <2>1 DEF IsDepth
  <2>3. ASSUME NEW i \in DOMAIN nd PROVE nd[i].key \in Ball[0]
    <3>1. Origin(nd, i)
      BY <1>6 DEF WellFormed
    <3>2. nd[i].key \in Range(initial)
      BY <2>1, <3>1 DEF Origin
    <3> QED
      BY <3>2, BallStep
  <2>4. ASSUME Len(nd) < maxStates PROVE Ball[0] \subseteq KeysTo(nd, Len(nd))
    <3>1. ~(Len(nd) >= maxStates)
      BY <1>6, <2>4 DEF Given
    <3>2. ~h.truncated
      BY <1>4, <3>1 DEF Bounded
    <3>3. \A s \in Range(initial) : \E i \in DOMAIN nd : nd[i].key = s
      BY <1>4, <3>2 DEF Rooted
    <3> QED
      BY <1>6, <3>3, BallStep DEF KeysTo
  <2>5. \A i \in DOMAIN nd : t[i] = 0 /\ ~(i > lv.last)
    BY <1>6, <1>8
  <2> HIDE DEF t, lv
  <2>6. \A i \in DOMAIN nd : (i \in lv.first .. lv.last => t[i] = 0) /\ (i > lv.last => t[i] = 0 + 1)
    BY <2>5
  <2>7. \A i \in DOMAIN nd : nd[i].key \in Ball[t[i]] /\ ~(t[i] > 0)
    BY <2>3, <2>5
  <2>8. Len(nd) < maxStates => Ball[0] \subseteq KeysTo(nd, lv.last)
    BY <1>8, <2>4
  <2> QED
    BY <2>2, <2>6, <2>7, <2>8 DEF Layered
<1>11. Honest(h)
  BY <1>6 DEF Honest
<1>12. lv.at - 1 = 0 /\ 1 .. lv.at - 1 = {} /\ 0 \in Nat
  BY <1>8
<1>13. Good(h, lv, 0, evaluate(h))
  <2>1. \E u : Layered(nd, u, lv, 0)
    BY <1>10
  <2> HIDE DEF lv
  <2> QED
    BY <1>4, <1>5, <1>6, <1>7, <1>9, <1>11, <1>12, <2>1 DEF Good
<1> QED
  BY <1>4, <1>13 DEF h

LEMMA KeysToGrow ==
  ASSUME NEW s, NEW t, NEW m \in Nat, NEW n \in Nat, m <= n, \A i \in 1 .. m : t[i] = s[i]
  PROVE  KeysTo(s, m) \subseteq KeysTo(t, n)
<1> SUFFICES ASSUME NEW j \in 1 .. m PROVE s[j].key \in KeysTo(t, n)
  BY DEF KeysTo
<1>1. j \in 1 .. n /\ t[j] = s[j]
  OBVIOUS
<1> QED
  BY <1>1 DEF KeysTo

(* The nodes a chunk adds are one level further. *)
LEMMA LayeredGrows ==
  ASSUME Given, NEW s \in Seq(Node), NEW nd \in Seq(Node), Longer(s, nd), NEW lv, LevelOf(lv, s), NEW dp \in Nat, NEW t,
         Layered(s, t, lv, dp), Len(nd) <= maxStates,
         \A i \in DOMAIN nd : Origin(nd, i),
         \A i \in DOMAIN nd : i \in DOMAIN s \/ nd[i].parent \in lv.first .. lv.last
  PROVE  \E u : Layered(nd, u, lv, dp)
<1> DEFINE l == Len(s)
           u == [i \in DOMAIN nd |-> IF i <= l THEN t[i] ELSE dp + 1]
<1>1. DOMAIN s = 1 .. l /\ l \in Nat /\ DOMAIN nd = 1 .. Len(nd) /\ Len(nd) \in Nat /\ DOMAIN s \subseteq DOMAIN nd /\ l <= Len(nd)
  BY LongerDomain DEF Longer
<1>2. \A i \in DOMAIN s : nd[i] = s[i]
  BY DEF Longer
<1>3. lv.first \in Nat \ {0} /\ lv.last \in Nat /\ lv.last <= l /\ maxStates \in Nat
  BY DEF LevelOf, Given
<1>4. t \in [DOMAIN s -> Nat] /\ \A i \in DOMAIN s : t[i] = IF s[i].parent = 0 THEN 0 ELSE 1 + t[s[i].parent]
  BY DEF Layered, IsDepth
<1>5. \A i \in DOMAIN s : u[i] = t[i] /\ t[i] \in Nat
  BY <1>1, <1>4
<1>6. \A i \in DOMAIN nd : i \notin DOMAIN s => u[i] = dp + 1 /\ i > l
  BY <1>1
<1> HIDE DEF u, l
<1>7. u \in [DOMAIN nd -> Nat]
  BY <1>1, <1>4 DEF u
<1>8. ASSUME NEW i \in DOMAIN nd PROVE u[i] = IF nd[i].parent = 0 THEN 0 ELSE 1 + u[nd[i].parent]
  <2>0. Origin(nd, i)
    OBVIOUS
  <2>1. CASE i \in DOMAIN s
    <3>1. nd[i] = s[i] /\ u[i] = t[i]
      BY <1>2, <1>5, <2>1
    <3>2. CASE s[i].parent = 0
      BY <1>4, <2>1, <3>1, <3>2
    <3>3. CASE s[i].parent # 0
      <4>1. s[i].parent \in 1 .. i - 1
        BY <2>0, <3>1, <3>3 DEF Origin
      <4>2. s[i].parent \in DOMAIN s
        BY <1>1, <2>1, <4>1
      <4>3. u[s[i].parent] = t[s[i].parent]
        BY <1>5, <4>2
      <4> QED
        BY <1>4, <2>1, <3>1, <3>3, <4>3
    <3> QED
      BY <3>2, <3>3
  <2>2. CASE i \notin DOMAIN s
    <3>1. nd[i].parent \in lv.first .. lv.last
      BY <2>2
    <3>2. nd[i].parent \in DOMAIN s /\ nd[i].parent # 0
      BY <1>1, <1>3, <3>1
    <3>3. t[nd[i].parent] = dp
      BY <3>1, <3>2 DEF Layered
    <3>4. u[nd[i].parent] = dp /\ u[i] = dp + 1
      BY <1>5, <1>6, <2>2, <3>2, <3>3
    <3> QED
      BY <3>2, <3>4
  <2> QED
    BY <2>1, <2>2
<1>9. IsDepth(nd, u)
  BY <1>7, <1>8 DEF IsDepth
<1>10. ASSUME NEW i \in DOMAIN nd PROVE (i \in lv.first .. lv.last => u[i] = dp) /\ (i > lv.last => u[i] = dp + 1)
  <2>1. CASE i \in DOMAIN s
    BY <1>5, <2>1 DEF Layered
  <2>2. CASE i \notin DOMAIN s
    BY <1>1, <1>3, <1>6, <2>2
  <2> QED
    BY <2>1, <2>2
<1>11. ASSUME NEW i \in DOMAIN nd, i \notin DOMAIN s PROVE Ball[dp] \subseteq KeysTo(nd, i - 1)
  <2>1. i > l /\ i <= Len(nd) /\ i \in Nat
    BY <1>1, <1>6, <1>11
  <2>2. l < maxStates
    BY <1>1, <1>3, <2>1
  <2>3. Ball[dp] \subseteq KeysTo(s, lv.last)
    BY <2>2 DEF Layered, l
  <2>4. KeysTo(s, lv.last) \subseteq KeysTo(nd, i - 1)
    <3>1. i - 1 \in Nat /\ lv.last <= i - 1
      BY <1>1, <1>3, <2>1
    <3>2. \A j \in 1 .. lv.last : nd[j] = s[j]
      BY <1>1, <1>2, <1>3, SMTT(30)
    <3> QED
      BY <1>3, <3>1, <3>2, KeysToGrow
  <2> QED
    BY <2>3, <2>4
<1>12. ASSUME NEW i \in DOMAIN nd PROVE nd[i].key \in Ball[u[i]]
  <2>1. CASE i \in DOMAIN s
    BY <1>2, <1>5, <2>1 DEF Layered
  <2>2. CASE i \notin DOMAIN s
    <3> DEFINE p == nd[i].parent
    <3>1. p \in lv.first .. lv.last
      BY <2>2
    <3>2. p \in DOMAIN s /\ p # 0 /\ p \in DOMAIN nd
      BY <1>1, <1>3, <3>1
    <3>3. s[p].key \in Ball[dp] /\ nd[p] = s[p]
      BY <1>2, <3>1, <3>2 DEF Layered
    <3>4. Comes(nd, p, nd[i].actor, nd[i].move, nd[i].key, nd[i].ordinal)
      BY <3>2 DEF Origin
    <3>5. nd[i].key \in Succ(nd[p].key, {nd[i].actor}) /\ nd[i].actor \in Actor
      BY <3>4, RealIsSucc DEF Comes
    <3>6. nd[i].key \in Succ(s[p].key, Actor)
      <4>1. Succ(s[p].key, {nd[i].actor}) \subseteq Succ(s[p].key, Actor)
        BY <3>5, SuccGrows
      <4> HIDE DEF p
      <4> QED
        BY <3>3, <3>5, <4>1
    <3>7. Ball[dp + 1] = Wider(Ball[dp])
      BY BallStep
    <3>8. nd[i].key \in Ball[dp + 1]
      <4> HIDE DEF p
      <4> QED
        BY <3>3, <3>6, <3>7 DEF Wider
    <3> QED
      BY <1>6, <2>2, <3>8
  <2> QED
    BY <2>1, <2>2
<1>13. ASSUME NEW i \in DOMAIN nd, u[i] > 0 PROVE Ball[u[i] - 1] \subseteq KeysTo(nd, i - 1)
  <2>1. CASE i \in DOMAIN s
    <3>1. Ball[u[i] - 1] \subseteq KeysTo(s, i - 1)
      BY <1>5, <1>13, <2>1 DEF Layered
    <3>2. i - 1 \in Nat /\ i - 1 <= i - 1 /\ \A j \in 1 .. i - 1 : nd[j] = s[j]
      BY <1>1, <1>2, <2>1
    <3>3. KeysTo(s, i - 1) \subseteq KeysTo(nd, i - 1)
      BY <3>2, KeysToGrow
    <3> QED
      BY <3>1, <3>3
  <2>2. CASE i \notin DOMAIN s
    <3>1. u[i] - 1 = dp
      BY <1>6, <2>2
    <3> QED
      BY <1>11, <2>2, <3>1
  <2> QED
    BY <2>1, <2>2
<1>14. ASSUME Len(nd) < maxStates PROVE Ball[dp] \subseteq KeysTo(nd, lv.last)
  <2>1. l < maxStates
    BY <1>1, <1>3, <1>14
  <2>2. Ball[dp] \subseteq KeysTo(s, lv.last)
    BY <2>1 DEF Layered, l
  <2>3. KeysTo(s, lv.last) \subseteq KeysTo(nd, lv.last)
    <3>1. \A j \in 1 .. lv.last : nd[j] = s[j]
      BY <1>1, <1>2, <1>3
    <3>2. lv.last <= lv.last
      BY <1>3
    <3> QED
      BY <1>3, <3>1, <3>2, KeysToGrow
  <2> QED
    BY <2>2, <2>3
<1> QED
  BY <1>9, <1>10, <1>12, <1>13, <1>14 DEF Layered

(* A chunk, as a whole. *)
LEMMA ChunkEffect ==
  ASSUME Given, Good(G, level, depth, invViol), Bounded(G), NEW hi \in Nat, level.at <= hi, hi <= level.last
  PROVE  LET h == merge(InChunk(level.at, hi)) IN
         /\ Good(h, [level EXCEPT !.at = hi + 1], depth, evaluate(h))
         /\ Bounded(h)
<1> DEFINE lo == level.at  found == InChunk(lo, hi)  h == merge(found)  lv == [level EXCEPT !.at = hi + 1]
<1>1. /\ WellFormed(G) /\ Honest(G) /\ LevelOf(level, node) /\ depth \in Nat /\ FirstBad(node, invViol)
      /\ KeysOf(node) = Queue[lo - 1] /\ (\A s \in Range(initial) : Rooted(G, s)) /\ \A n \in 1 .. lo - 1 : Walked(G, n)
  BY DEF Good, G
<1>2. G \in Graph /\ node \in Seq(Node) /\ G.node = node /\ Len(node) \in Nat /\ DOMAIN node = 1 .. Len(node)
  <2>1. G \in Graph /\ G.node = node
    BY <1>1 DEF WellFormed, G
  <2>2. node \in Seq(Node)
    BY <2>1 DEF Graph
  <2> QED
    BY <2>1, <2>2
<1>3. /\ level.first \in Nat \ {0} /\ level.last \in Nat /\ level.at \in Nat /\ level.first <= level.at
      /\ level.at <= level.last + 1 /\ level.last <= Len(node) /\ level = [first |-> level.first, last |-> level.last, at |-> level.at]
  BY <1>1 DEF LevelOf
<1>4. lo \in Nat \ {0} /\ hi <= Len(node) /\ maxStates \in Nat
  BY <1>2, <1>3 DEF Given
<1>5. ChunkHolds(found, lo, hi)
  BY <1>2, <1>4, ChunkItems
<1>6. found \in Seq(Child) /\ (\A k \in DOMAIN found : Real(G.node, found[k]) /\ found[k].from \in lo .. hi)
  BY <1>2, <1>5 DEF ChunkHolds
<1> HIDE DEF found, lo
<1>7. Merges(G, h, found, lo, hi)
  BY <1>1, <1>4, <1>6, MergeEffect
<1>8. KeysOf(h.node) = Queue[hi]
  <2>1. KeysOf(h.node) = EnqueueAll(KeysOf(node), Tos(found))
    BY <1>2, <1>4, <1>6, MergeEnqueues
  <2>2. EnqueueAll(KeysOf(node), Tos(found)) = Queue[hi]
    BY <1>1, <1>2, <1>4, ChunkEnqueues DEF found, lo
  <2> QED
    BY <2>1, <2>2
<1> HIDE DEF h
<1>9. /\ WellFormed(h) /\ Above(G, h) /\ Honest(h) /\ Bounded(h) /\ (G.truncated => h.truncated)
      /\ (\A i \in DOMAIN h.node : i \in DOMAIN node \/ h.node[i].parent \in lo .. hi)
  BY <1>2, <1>7 DEF Merges, Keeps, KeepsSaying
<1>10. h \in Graph /\ h.node \in Seq(Node) /\ Len(h.node) \in Nat /\ Longer(node, h.node)
  <2>1. h \in Graph
    BY <1>9 DEF WellFormed
  <2>2. h.node \in Seq(Node)
    BY <2>1 DEF Graph
  <2> QED
    BY <1>2, <1>9, <2>1, <2>2 DEF Above
<1>11. lv.first = level.first /\ lv.last = level.last /\ lv.at = hi + 1 /\ lv = [first |-> level.first, last |-> level.last, at |-> hi + 1]
  BY <1>3
<1> HIDE DEF lv
<1>12. LevelOf(lv, h.node)
  <2>1. lv \in [first : Nat \ {0}, last : Nat, at : Nat]
    BY <1>3, <1>11
  <2>2. level.last <= Len(h.node)
    BY <1>2, <1>3, <1>10 DEF Longer
  <2>3. level.first <= hi + 1 /\ hi + 1 <= level.last + 1
    BY <1>3
  <2> QED
    BY <1>11, <2>1, <2>2, <2>3 DEF LevelOf
<1>13. \A s \in Range(initial) : Rooted(h, s)
  BY <1>1, <1>2, <1>9, <1>10, RootedStable
<1>14. ASSUME NEW n \in 1 .. hi PROVE Walked(h, n)
  <2>1. n \in DOMAIN node
    BY <1>2, <1>4
  <2>2. CASE n < lo
    <3>1. n \in 1 .. lo - 1
      BY <1>4, <2>2
    <3>2. Walked(G, n)
      BY <1>1, <3>1
    <3> QED
      BY <1>2, <1>9, <1>10, <2>1, <3>2, WalkedStable
  <2>3. CASE ~(n < lo)
    <3>1. n \in lo .. hi /\ h.node[n] = node[n]
      BY <1>4, <1>10, <2>1, <2>3 DEF Longer
    <3> SUFFICES ASSUME NEW a \in Actor, NEW m \in DOMAIN moves[node[n].key][a]
                 PROVE  Covered(h, n, a, moves[node[n].key][a][m].to)
      BY <3>1 DEF Walked
    <3>2. PICK k \in DOMAIN found :
            found[k].from = n /\ found[k].actor = a /\ found[k].to = moves[node[n].key][a][m].to
      BY <1>5, <3>1 DEF ChunkHolds
    <3>3. Covered(h, found[k].from, found[k].actor, found[k].to)
      BY <1>7 DEF Merges
    <3> QED
      BY <3>2, <3>3
  <2> QED
    BY <2>2, <2>3
<1>15. FirstBad(h.node, evaluate(h))
  BY <1>1, <1>2, <1>10, EvaluateEffect
<1>16. \E u : Layered(h.node, u, lv, depth)
  <2>1. PICK t : Layered(node, t, level, depth)
    BY DEF Good, G
  <2>2. Len(h.node) <= maxStates /\ \A i \in DOMAIN h.node : Origin(h.node, i)
    BY <1>9 DEF WellFormed
  <2>3. \A i \in DOMAIN h.node : i \in DOMAIN node \/ h.node[i].parent \in level.first .. level.last
    <3>1. \A x \in lo .. hi : x \in level.first .. level.last
      BY <1>3, <1>4 DEF lo
    <3> QED
      BY <1>9, <3>1
  <2>4. PICK u : Layered(h.node, u, level, depth)
    BY <1>1, <1>2, <1>10, <2>1, <2>2, <2>3, LayeredGrows
  <2>5. Layered(h.node, u, lv, depth)
    BY <1>11, <2>4 DEF Layered
  <2> QED
    BY <2>5
<1>17. Good(h, lv, depth, evaluate(h))
  <2>1. lv.at - 1 = hi
    BY <1>11
  <2> QED
    BY <1>1, <1>8, <1>9, <1>12, <1>13, <1>14, <1>15, <1>16, <2>1 DEF Good
<1> QED
  BY <1>9, <1>17 DEF h, lv, found, lo

(* A level is over: the next one is complete while there is room. *)
LEMMA LevelEffect ==
  ASSUME Given, Good(G, level, depth, invViol), Bounded(G), level.at > level.last
  PROVE  Good(G, [first |-> level.last + 1, last |-> Len(node), at |-> level.last + 1], depth + 1, invViol)
<1> DEFINE lv == [first |-> level.last + 1, last |-> Len(node), at |-> level.last + 1]
<1>1. /\ WellFormed(G) /\ Honest(G) /\ LevelOf(level, node) /\ depth \in Nat /\ FirstBad(G.node, invViol)
      /\ KeysOf(G.node) = Queue[level.at - 1] /\ (\A s \in Range(initial) : Rooted(G, s))
      /\ \A n \in 1 .. level.at - 1 : Walked(G, n)
  BY DEF Good, G
<1>2. G \in Graph /\ node \in Seq(Node) /\ G.node = node /\ Len(node) \in Nat /\ DOMAIN node = 1 .. Len(node)
  <2>1. G \in Graph /\ G.node = node
    BY <1>1 DEF WellFormed, G
  <2>2. node \in Seq(Node)
    BY <2>1 DEF Graph
  <2> QED
    BY <2>1, <2>2
<1>3. /\ level.first \in Nat \ {0} /\ level.last \in Nat /\ level.at \in Nat /\ level.first <= level.at
      /\ level.at = level.last + 1 /\ level.last <= Len(node) /\ maxStates \in Nat
  BY <1>1 DEF LevelOf, Given
<1>4. lv.first = level.last + 1 /\ lv.last = Len(node) /\ lv.at = level.last + 1
  OBVIOUS
<1>5. LevelOf(lv, node)
  <2>1. lv \in [first : Nat \ {0}, last : Nat, at : Nat]
    BY <1>2, <1>3
  <2> HIDE DEF lv
  <2> QED
    BY <1>2, <1>3, <1>4, <2>1 DEF LevelOf
<1> HIDE DEF lv
<1>6. PICK t : Layered(node, t, level, depth)
  BY DEF Good, G
<1>7. ASSUME Len(node) < maxStates PROVE Ball[depth + 1] \subseteq KeysTo(node, Len(node))
  <2>1. Ball[depth] \subseteq KeysTo(node, level.last)
    BY <1>6, <1>7 DEF Layered
  <2>2. Ball[depth + 1] = Wider(Ball[depth])
    BY <1>1, BallStep
  <2>3. ~(Len(G.node) >= maxStates)
    BY <1>2, <1>3, <1>7
  <2>4. G.unknown = {}
    BY <1>1, <2>3 DEF Bounded, Honest
  <2>5. ASSUME NEW r \in Ball[depth], NEW s \in Succ(r, Actor) PROVE s \in KeysTo(node, Len(node))
    <3>1. PICK j \in 1 .. level.last : node[j].key = r
      BY <2>1 DEF KeysTo
    <3>2. PICK a \in Actor : s \in {moves[r][a][i].to : i \in DOMAIN moves[r][a]}
      BY <2>5 DEF Succ
    <3>3. PICK m \in DOMAIN moves[r][a] : s = moves[r][a][m].to
      BY <3>2
    <3>4. Walked(G, j)
      BY <1>1, <1>3
    <3>5. Covered(G, j, a, s)
      BY <1>2, <3>1, <3>3, <3>4 DEF Walked
    <3>6. PICK k \in DOMAIN G.edges : G.edges[k].to \in DOMAIN node /\ node[G.edges[k].to].key = s
      BY <1>2, <2>4, <3>5 DEF Covered
    <3> QED
      BY <1>2, <3>6 DEF KeysTo
  <2>6. KeysTo(node, level.last) \subseteq KeysTo(node, Len(node))
    BY <1>2, <1>3, KeysToGrow
  <2> QED
    BY <2>1, <2>2, <2>5, <2>6 DEF Wider
<1>8. Layered(node, t, lv, depth + 1)
  <2>1. \A i \in DOMAIN node : (i \in lv.first .. lv.last => t[i] = depth + 1) /\ (i > lv.last => t[i] = (depth + 1) + 1)
    <3>1. \A i \in DOMAIN node : i > level.last => t[i] = depth + 1
      BY <1>6 DEF Layered
    <3>2. \A i \in DOMAIN node : ~(i > lv.last) /\ (i \in lv.first .. lv.last => i > level.last)
      BY <1>2, <1>3, <1>4
    <3> QED
      BY <3>1, <3>2
  <2>2. Len(node) < maxStates => Ball[depth + 1] \subseteq KeysTo(node, lv.last)
    BY <1>4, <1>7
  <2> QED
    BY <1>6, <2>1, <2>2 DEF Layered
<1>9. Good(G, lv, depth + 1, invViol)
  <2>1. lv.at = level.at /\ depth + 1 \in Nat
    BY <1>1, <1>3, <1>4
  <2>2. \E u : Layered(G.node, u, lv, depth + 1)
    BY <1>2, <1>8
  <2> QED
    BY <1>1, <1>2, <1>5, <2>1, <2>2 DEF Good
<1> QED
  BY <1>9 DEF lv

(* A level that is not expanded has an unknown future. *)
LEMMA DepthEffect ==
  ASSUME Given, Good(G, level, depth, invViol), NEW U \in SUBSET DOMAIN node
  PROVE  Good([node |-> node, edges |-> edges, unknown |-> unknown \cup U, truncated |-> TRUE], level, depth, invViol)
<1> DEFINE h == [node |-> node, edges |-> edges, unknown |-> unknown \cup U, truncated |-> TRUE]
<1>1. /\ WellFormed(G) /\ Honest(G) /\ LevelOf(level, node) /\ depth \in Nat /\ FirstBad(node, invViol)
      /\ KeysOf(node) = Queue[level.at - 1] /\ (\E t : Layered(node, t, level, depth))
      /\ \A n \in 1 .. level.at - 1 : Walked(G, n)
  BY DEF Good, G
<1>2. /\ G \in Graph /\ node \in Seq(Node) /\ G.node = node /\ edges \in Seq(Edge) /\ G.edges = edges
      /\ G.unknown = unknown /\ unknown \in SUBSET Nat /\ DOMAIN node = 1 .. Len(node) /\ Len(node) \in Nat
      /\ Len(edges) \in Nat
  <2>1. G \in Graph /\ G.node = node /\ G.edges = edges /\ G.unknown = unknown
    BY <1>1 DEF WellFormed, G
  <2>2. node \in Seq(Node) /\ edges \in Seq(Edge) /\ unknown \in SUBSET Nat
    BY <2>1 DEF Graph
  <2> QED
    BY <2>1, <2>2
<1>3. h.node = node /\ h.edges = edges /\ h.unknown = unknown \cup U
  OBVIOUS
<1>4. h.truncated
  OBVIOUS
<1>5. h \in Graph
  BY <1>2 DEF Graph
<1> HIDE DEF h
<1>6. WellFormed(h)
  BY <1>1, <1>2, <1>3, <1>5 DEF WellFormed
<1>7. Above(G, h)
  BY <1>2, <1>3 DEF Above, Longer
<1>8. Honest(h) /\ \A s : Rooted(h, s)
  BY <1>4 DEF Honest, Rooted
<1>9. ASSUME NEW n \in 1 .. level.at - 1 PROVE Walked(h, n)
  <2>1. n \in DOMAIN G.node
    BY <1>1, <1>2 DEF LevelOf
  <2> QED
    BY <1>1, <1>2, <1>5, <1>7, <2>1, WalkedStable
<1>10. Good(h, level, depth, invViol)
  BY <1>1, <1>3, <1>6, <1>8, <1>9 DEF Good
<1> QED
  BY <1>10 DEF h

AtStart == level.at = level.first /\ level.last = Len(node)

SearchInv ==
  /\ Given /\ pc \in {"roots", "level", "expand", "done"}
  /\ pc = "roots" => /\ G = [node |-> <<>>, edges |-> <<>>, unknown |-> {}, truncated |-> FALSE]
                     /\ node = <<>> /\ invViol = 0 /\ depth = 0 /\ level = [first |-> 1, last |-> 0, at |-> 1]
  /\ pc # "roots" => Good(G, level, depth, invViol)
  /\ pc \in {"level", "expand"} => Bounded(G)
  /\ pc = "level" => AtStart
  /\ pc = "done" => /\ AtStart
                    /\ level.first > level.last \/ (level.first .. level.last \subseteq unknown /\ maxDepth # 0)

(* The next state of the graph, as a value. *)
LEMMA Settles ==
  ASSUME moves' = moves, initial' = initial, bad' = bad, maxStates' = maxStates,
         NEW g, NEW lv, NEW dp, NEW v, Good(g, lv, dp, v),
         G' = g, level' = lv, depth' = dp, invViol' = v
  PROVE  /\ Good(G, level, depth, invViol)'
         /\ Bounded(g) => Bounded(G)'
<1>1. Good(g, lv, dp, v)'
  BY GoodFrozen
<1>2. Good(G, level, depth, invViol)'
  BY <1>1
<1>3. Bounded(g) => Bounded(g)'
  BY DEF Bounded
<1>4. Bounded(g)' => Bounded(G)'
  OBVIOUS
<1> QED
  BY <1>2, <1>3, <1>4

LEMMA GraphRecord ==
  ASSUME NEW h \in Graph
  PROVE  h = [node |-> h.node, edges |-> h.edges, unknown |-> h.unknown, truncated |-> h.truncated]
BY DEF Graph

LEMMA GivenAtFirst == Init => Given
<1> SUFFICES ASSUME Init PROVE Given
  OBVIOUS
<1>1. MoveLists \subseteq Seq(Move)
  BY ExploreAssumption DEF Move
<1>2. moves \in [State -> [Actor -> Seq(Move)]]
  BY <1>1 DEF Init
<1>3. bad \subseteq State /\ goal \subseteq State
  BY ExploreAssumption DEF Init
<1>4. initial \in Seq(State) /\ maxStates \in Nat \ {0} /\ maxDepth \in Nat /\ chunk \in Nat \ {0}
  BY ExploreAssumption DEF Init
<1> QED
  BY <1>2, <1>3, <1>4 DEF Given

LEMMA SearchInvInit == Init => SearchInv
<1> SUFFICES ASSUME Init PROVE SearchInv
  OBVIOUS
<1>1. Given
  BY GivenAtFirst
<1> QED
  BY <1>1 DEF Init, SearchInv, G

LEMMA SearchInvStep ==
  ASSUME SearchInv, [Next]_vars
  PROVE  SearchInv'
<1>0. Given
  BY DEF SearchInv
<1>1. UNCHANGED inputs
  BY DEF Next, vars, Roots, DepthReached, StartLevel, Exhausted, expandChunk, NextLevel, Finished
<1>2. moves' = moves /\ initial' = initial /\ bad' = bad /\ goal' = goal /\ maxStates' = maxStates
      /\ maxDepth' = maxDepth /\ chunk' = chunk
  BY <1>1 DEF inputs
<1>3. Given'
  BY <1>0, <1>2 DEF Given
<1>4. CASE Roots
  <2>1. pc = "roots" /\ pc' = "level" /\ depth' = depth /\ Becomes(rooted)
        /\ level' = [first |-> 1, last |-> Len(rooted.node), at |-> 1]
    BY <1>4 DEF Roots
  <2>2. G = [node |-> <<>>, edges |-> <<>>, unknown |-> {}, truncated |-> FALSE] /\ node = <<>> /\ invViol = 0 /\ depth = 0
    BY <2>1 DEF SearchInv
  <2> DEFINE h == rooted  lv == [first |-> 1, last |-> Len(rooted.node), at |-> 1]
  <2>3. Good(h, lv, 0, evaluate(h)) /\ Bounded(h)
    BY <1>0, <2>2, RootsEffect
  <2> HIDE DEF h, lv
  <2>4. h \in Graph
    BY <2>3 DEF Good, WellFormed
  <2>5. G' = h /\ node' = h.node /\ invViol' = evaluate(h) /\ level' = lv /\ depth' = 0
    <3>1. node' = h.node /\ edges' = h.edges /\ unknown' = h.unknown /\ truncated' = h.truncated /\ invViol' = evaluate(h)
      BY <2>1 DEF Becomes, h
    <3>2. G' = h
      BY <2>4, <3>1, GraphRecord DEF G
    <3> QED
      BY <2>1, <2>2, <3>1, <3>2 DEF lv
  <2>6. PICK g, l, v : g = h /\ l = lv /\ v = evaluate(h)
    OBVIOUS
  <2>7. Good(G, level, depth, invViol)' /\ Bounded(G)'
    <3>1. Good(g, l, 0, v) /\ Bounded(g)
      BY <2>3, <2>6
    <3>2. G' = g /\ level' = l /\ depth' = 0 /\ invViol' = v
      BY <2>5, <2>6
    <3> QED
      BY <1>2, <3>1, <3>2, Settles
  <2>8. AtStart'
    BY <2>1, <2>5 DEF AtStart, lv, h
  <2> QED
    BY <1>3, <2>1, <2>7, <2>8 DEF SearchInv
<1>5. CASE DepthReached
  <2>1. /\ pc = "level" /\ pc' = "done" /\ depth' = depth /\ level' = level /\ node' = node /\ edges' = edges /\ invViol' = invViol
        /\ unknown' = unknown \cup (level.first .. level.last) /\ maxDepth > 0
    BY <1>5 DEF DepthReached
  <2>2. truncated' = TRUE
    BY <1>5 DEF DepthReached
  <2>3. Good(G, level, depth, invViol) /\ AtStart
    BY <2>1 DEF SearchInv
  <2>4. level.first .. level.last \in SUBSET DOMAIN node
    <3>1. LevelOf(level, node) /\ node \in Seq(Node)
      BY <2>3 DEF Good, WellFormed, Graph, G
    <3>2. DOMAIN node = 1 .. Len(node) /\ Len(node) \in Nat
      BY <3>1
    <3> QED
      BY <3>1, <3>2 DEF LevelOf
  <2> DEFINE h == [node |-> node, edges |-> edges, unknown |-> unknown \cup (level.first .. level.last), truncated |-> TRUE]
  <2>5. Good(h, level, depth, invViol)
    BY <1>0, <2>3, <2>4, DepthEffect
  <2>6. G' = h
    BY <2>1, <2>2 DEF G
  <2> HIDE DEF h
  <2>7. PICK g, l, d, v : g = h /\ l = level /\ d = depth /\ v = invViol
    OBVIOUS
  <2>8. Good(G, level, depth, invViol)'
    <3>1. Good(g, l, d, v)
      BY <2>5, <2>7
    <3>2. G' = g /\ level' = l /\ depth' = d /\ invViol' = v
      BY <2>1, <2>6, <2>7
    <3> QED
      BY <1>2, <3>1, <3>2, Settles
  <2>9. AtStart'
    BY <2>1, <2>3 DEF AtStart
  <2>10. level'.first .. level'.last \subseteq unknown' /\ maxDepth' # 0
    BY <1>0, <1>2, <2>1 DEF Given
  <2> QED
    BY <1>3, <2>1, <2>8, <2>9, <2>10 DEF SearchInv
<1>6. CASE StartLevel
  <2>1. pc = "level" /\ pc' = "expand" /\ UNCHANGED <<graph, level, depth>>
    BY <1>6 DEF StartLevel
  <2>2. Good(G, level, depth, invViol) /\ Bounded(G)
    BY <2>1 DEF SearchInv
  <2>3. G' = G /\ level' = level /\ depth' = depth /\ invViol' = invViol
    BY <2>1 DEF G, graph
  <2>4. PICK g, l, d, v : g = G /\ l = level /\ d = depth /\ v = invViol
    OBVIOUS
  <2>5. Good(G, level, depth, invViol)' /\ Bounded(G)'
    <3>1. Good(g, l, d, v) /\ Bounded(g)
      BY <2>2, <2>4
    <3>2. G' = g /\ level' = l /\ depth' = d /\ invViol' = v
      BY <2>3, <2>4
    <3> QED
      BY <1>2, <3>1, <3>2, Settles
  <2> QED
    BY <1>3, <2>1, <2>5 DEF SearchInv
<1>7. CASE Exhausted
  <2>1. pc = "level" /\ pc' = "done" /\ UNCHANGED <<graph, level, depth>> /\ level.first > level.last
    BY <1>7 DEF Exhausted
  <2>2. Good(G, level, depth, invViol) /\ AtStart
    BY <2>1 DEF SearchInv
  <2>3. G' = G /\ level' = level /\ depth' = depth /\ invViol' = invViol /\ node' = node
    BY <2>1 DEF G, graph
  <2>4. PICK g, l, d, v : g = G /\ l = level /\ d = depth /\ v = invViol
    OBVIOUS
  <2>5. Good(G, level, depth, invViol)'
    <3>1. Good(g, l, d, v)
      BY <2>2, <2>4
    <3>2. G' = g /\ level' = l /\ depth' = d /\ invViol' = v
      BY <2>3, <2>4
    <3> QED
      BY <1>2, <3>1, <3>2, Settles
  <2>6. AtStart' /\ level'.first > level'.last
    BY <2>1, <2>2, <2>3 DEF AtStart
  <2> QED
    BY <1>3, <2>1, <2>5, <2>6 DEF SearchInv
<1>8. CASE expandChunk
  <2> DEFINE hi == IF level.at + chunk - 1 <= level.last THEN level.at + chunk - 1 ELSE level.last
             h == merge(InChunk(level.at, hi))  lv == [level EXCEPT !.at = hi + 1]
  <2>1. pc = "expand" /\ pc' = pc /\ depth' = depth /\ level.at <= level.last /\ Becomes(h) /\ level' = lv
    BY <1>8 DEF expandChunk
  <2>2. Good(G, level, depth, invViol) /\ Bounded(G)
    BY <2>1 DEF SearchInv
  <2>3. hi \in Nat /\ level.at <= hi /\ hi <= level.last
    <3>1. LevelOf(level, node)
      BY <2>2 DEF Good, G
    <3>2. level.at \in Nat /\ level.last \in Nat /\ chunk \in Nat \ {0}
      BY <1>0, <3>1 DEF LevelOf, Given
    <3> QED
      BY <2>1, <3>2
  <2> HIDE DEF hi
  <2>4. Good(h, lv, depth, evaluate(h)) /\ Bounded(h)
    BY <1>0, <2>2, <2>3, ChunkEffect
  <2> HIDE DEF h, lv
  <2>5. h \in Graph
    BY <2>4 DEF Good, WellFormed
  <2>6. G' = h /\ invViol' = evaluate(h)
    <3>1. node' = h.node /\ edges' = h.edges /\ unknown' = h.unknown /\ truncated' = h.truncated /\ invViol' = evaluate(h)
      BY <2>1 DEF Becomes
    <3> QED
      BY <2>5, <3>1, GraphRecord DEF G
  <2>7. PICK g, l, d, v : g = h /\ l = lv /\ d = depth /\ v = evaluate(h)
    OBVIOUS
  <2>8. Good(G, level, depth, invViol)' /\ Bounded(G)'
    <3>1. Good(g, l, d, v) /\ Bounded(g)
      BY <2>4, <2>7
    <3>2. G' = g /\ level' = l /\ depth' = d /\ invViol' = v
      BY <2>1, <2>6, <2>7
    <3> QED
      BY <1>2, <3>1, <3>2, Settles
  <2> QED
    BY <1>3, <2>1, <2>8 DEF SearchInv
<1>9. CASE NextLevel
  <2> DEFINE lv == [first |-> level.last + 1, last |-> Len(node), at |-> level.last + 1]
  <2>1. pc = "expand" /\ pc' = "level" /\ depth' = depth + 1 /\ level.at > level.last /\ level' = lv /\ UNCHANGED graph
    BY <1>9 DEF NextLevel
  <2>2. Good(G, level, depth, invViol) /\ Bounded(G)
    BY <2>1 DEF SearchInv
  <2>3. Good(G, lv, depth + 1, invViol)
    BY <1>0, <2>1, <2>2, LevelEffect
  <2>4. lv.at = lv.first /\ lv.last = Len(node)
    OBVIOUS
  <2> HIDE DEF lv
  <2>5. G' = G /\ invViol' = invViol /\ node' = node
    BY <2>1 DEF G, graph
  <2>6. PICK g, l, d, v : g = G /\ l = lv /\ d = depth + 1 /\ v = invViol
    OBVIOUS
  <2>7. Good(G, level, depth, invViol)' /\ Bounded(G)'
    <3>1. Good(g, l, d, v) /\ Bounded(g)
      BY <2>2, <2>3, <2>6
    <3>2. G' = g /\ level' = l /\ depth' = d /\ invViol' = v
      BY <2>1, <2>5, <2>6
    <3> QED
      BY <1>2, <3>1, <3>2, Settles
  <2>8. AtStart'
    BY <2>1, <2>4, <2>5 DEF AtStart
  <2> QED
    BY <1>3, <2>1, <2>7, <2>8 DEF SearchInv
<1>10. CASE UNCHANGED vars
  <2>1. G' = G /\ level' = level /\ depth' = depth /\ invViol' = invViol /\ pc' = pc /\ node' = node /\ unknown' = unknown
    BY <1>10 DEF vars, graph, G
  <2>2. PICK g, l, d, v : g = G /\ l = level /\ d = depth /\ v = invViol
    OBVIOUS
  <2>3. G' = g /\ level' = l /\ depth' = d /\ invViol' = v
    BY <2>1, <2>2
  <2>4. pc # "roots" => Good(G, level, depth, invViol)'
    <3> SUFFICES ASSUME pc # "roots" PROVE Good(G, level, depth, invViol)'
      OBVIOUS
    <3>1. Good(g, l, d, v)
      BY <2>2 DEF SearchInv
    <3> QED
      BY <1>2, <2>3, <3>1, Settles
  <2>5. pc \in {"level", "expand"} => Bounded(G)'
    BY <1>2, <2>1 DEF SearchInv, Bounded
  <2>6. AtStart' = AtStart
    BY <2>1 DEF AtStart
  <2> QED
    BY <1>2, <1>3, <2>1, <2>4, <2>5, <2>6 DEF SearchInv
<1> QED
  BY <1>4, <1>5, <1>6, <1>7, <1>8, <1>9, <1>10 DEF Next, Finished

(* In every state of a search (run, merge, evaluate) levels are distances, *)
(* every successor of an expanded node is in the graph or the graph says   *)
(* that it is cut short, and nodes come in the order of one queue.         *)
THEOREM SearchIsSound == Spec => []SearchInv
<1>1. SearchInv /\ [Next]_vars => SearchInv'
  BY SearchInvStep
<1> QED
  BY <1>1, SearchInvInit, PTL DEF Spec

------------------------------------------------------------------------------
(* Traces. *)

(* The length of a trace is the depth of its node. *)
LEMMA LengthIsDepth ==
  ASSUME node \in Seq(Node), \A i \in DOMAIN node : Origin(node, i), NEW t, IsDepth(node, t)
  PROVE  \A i \in DOMAIN node : traceLength[i] = t[i]
<1> DEFINE Once(u, i) == IF node[i].parent = 0 THEN 0 ELSE 1 + u[node[i].parent]
<1>0. DOMAIN node = 1 .. Len(node) /\ Len(node) \in Nat
  OBVIOUS
<1>1. t = [i \in DOMAIN node |-> Once(t, i)]
  <2>1. t = [i \in DOMAIN node |-> t[i]] /\ \A i \in DOMAIN node : t[i] = Once(t, i)
    BY DEF IsDepth
  <2> HIDE DEF Once
  <2> QED
    BY <2>1
<1>2. traceLength = CHOOSE u : u = [i \in DOMAIN node |-> Once(u, i)]
  BY DEF traceLength
<1>3. traceLength = [i \in DOMAIN node |-> Once(traceLength, i)]
  <2> HIDE DEF Once
  <2> QED
    BY <1>1, <1>2
<1> DEFINE S == {i \in Nat : i \in DOMAIN node => traceLength[i] = t[i]}
<1>4. ASSUME NEW i \in Nat, \A j \in Nat : j < i => j \in S PROVE i \in S
  <2> SUFFICES ASSUME i \in DOMAIN node PROVE traceLength[i] = t[i]
    OBVIOUS
  <2>1. traceLength[i] = Once(traceLength, i) /\ t[i] = Once(t, i)
    <3> HIDE DEF Once
    <3> QED
      BY <1>1, <1>3
  <2>2. CASE node[i].parent = 0
    BY <2>1, <2>2
  <2>3. CASE node[i].parent # 0
    <3>1. node[i].parent \in 1 .. i - 1
      BY <2>3 DEF Origin
    <3>2. node[i].parent \in Nat /\ node[i].parent < i /\ node[i].parent \in DOMAIN node
      BY <1>0, <3>1
    <3>3. traceLength[node[i].parent] = t[node[i].parent]
      BY <1>4, <3>2
    <3> QED
      BY <2>1, <2>3, <3>3
  <2> QED
    BY <2>2, <2>3
<1> HIDE DEF S
<1>5. Nat \subseteq S
  BY <1>4, Complete
<1> QED
  BY <1>0, <1>5 DEF S

(* The recorded occurrence is the move that was taken (seenN, step). *)
LEMMA OccurrenceIs ==
  ASSUME NEW list \in Seq(Move), NEW k \in DOMAIN list
  PROVE  Occurrence(list, list[k].move, ordinalOf(list, k)) = {k}
<1> DEFINE name == list[k].move  Upto(i) == {j \in 1 .. i : list[j].move = name}
<1>0. DOMAIN list = 1 .. Len(list) /\ Len(list) \in Nat
  OBVIOUS
<1>1. \A i \in DOMAIN list : IsFiniteSet(Upto(i))
  <2> SUFFICES ASSUME NEW i \in DOMAIN list PROVE IsFiniteSet(Upto(i))
    OBVIOUS
  <2>1. i \in Int /\ 1 \in Int
    BY <1>0
  <2>2. IsFiniteSet(1 .. i)
    BY <2>1, FS_Interval
  <2> QED
    BY <2>2, FS_Subset
<1>2. Cardinality(Upto(k)) = ordinalOf(list, k) + 1
  <2> DEFINE T == {j \in 1 .. k - 1 : list[j].move = list[k].move}
  <2>1. Upto(k) = T \cup {k} /\ k \notin T
    BY <1>0
  <2>2. IsFiniteSet(T)
    BY <1>1, <2>1, FS_Subset
  <2>3. Cardinality(T \cup {k}) = Cardinality(T) + 1
    <3> HIDE DEF T
    <3> QED
      BY <2>1, <2>2, FS_AddElement
  <2> QED
    BY <2>1, <2>3 DEF ordinalOf
<1>3. k \in Occurrence(list, name, ordinalOf(list, k))
  BY <1>2 DEF Occurrence
<1>4. ASSUME NEW p \in DOMAIN list, NEW q \in DOMAIN list, p < q, list[q].move = name
      PROVE  Cardinality(Upto(p)) # Cardinality(Upto(q))
  <2>1. Upto(p) \subseteq Upto(q) /\ q \in Upto(q) /\ q \notin Upto(p)
    BY <1>0, <1>4
  <2>2. IsFiniteSet(Upto(p)) /\ IsFiniteSet(Upto(q))
    BY <1>1
  <2> HIDE DEF Upto
  <2> QED
    BY <2>1, <2>2, FS_Subset
<1>5. ASSUME NEW m \in Occurrence(list, name, ordinalOf(list, k)) PROVE m = k
  <2>1. m \in DOMAIN list /\ list[m].move = name /\ Cardinality(Upto(m)) = ordinalOf(list, k) + 1
    BY DEF Occurrence
  <2> HIDE DEF Upto
  <2>2. ~(m < k) /\ ~(k < m)
    BY <1>2, <1>4, <2>1
  <2> QED
    BY <1>0, <2>1, <2>2
<1> QED
  BY <1>3, <1>5

(* A trace replays to the key of its node. *)
LEMMA ReplayIsKey ==
  ASSUME Given, node \in Seq(Node), \A i \in DOMAIN node : Origin(node, i)
  PROVE  \A i \in DOMAIN node : replayed[i] = node[i].key
<1> DEFINE Chosen(list, same) == IF same = {} THEN 0 ELSE list[CHOOSE k \in same : TRUE].to
           At(s, i) == LET list == moves[s][node[i].actor] IN Chosen(list, Occurrence(list, node[i].move, node[i].ordinal))
           Once(u, i) == IF node[i].parent = 0 THEN node[i].key ELSE At(u[node[i].parent], i)
           keys == KeysOf(node)
<1>0. DOMAIN node = 1 .. Len(node) /\ Len(node) \in Nat /\ (\A i \in DOMAIN node : node[i] \in Node)
  OBVIOUS
<1>1. ASSUME NEW i \in DOMAIN node, node[i].parent # 0
      PROVE  node[i].parent \in DOMAIN node /\ node[i].parent < i /\ At(node[node[i].parent].key, i) = node[i].key
  <2> DEFINE p == node[i].parent  s == node[p].key  list == moves[s][node[i].actor]
  <2>1. p \in 1 .. i - 1 /\ Comes(node, p, node[i].actor, node[i].move, node[i].key, node[i].ordinal)
    BY <1>1 DEF Origin
  <2>2. p \in DOMAIN node /\ p < i
    BY <1>0, <2>1
  <2>3. s \in State /\ node[i].actor \in Actor
    BY <1>0, <2>1, <2>2 DEF Node, Comes
  <2>4. list \in Seq(Move)
    BY <2>3 DEF Given
  <2>5. PICK k \in DOMAIN list : list[k].move = node[i].move /\ list[k].to = node[i].key /\ ordinalOf(list, k) = node[i].ordinal
    BY <2>1 DEF Comes
  <2>6. Occurrence(list, node[i].move, node[i].ordinal) = {k}
    <3> HIDE DEF list
    <3> QED
      BY <2>4, <2>5, OccurrenceIs
  <2>7. Chosen(list, {k}) = list[k].to
    <3> HIDE DEF list
    <3> QED
      OBVIOUS
  <2>8. At(s, i) = node[i].key
    BY <2>5, <2>6, <2>7
  <2> QED
    BY <2>2, <2>8
<1> HIDE DEF At, Chosen
<1>2. keys = [i \in DOMAIN node |-> Once(keys, i)]
  <2>1. ASSUME NEW i \in DOMAIN node PROVE node[i].key = Once(keys, i)
    <3>1. CASE node[i].parent = 0
      BY <3>1
    <3>2. CASE node[i].parent # 0
      <4>1. keys[node[i].parent] = node[node[i].parent].key
        BY <1>1, <3>2 DEF KeysOf
      <4> HIDE DEF keys
      <4> QED
        BY <1>1, <3>2, <4>1
    <3> QED
      BY <3>1, <3>2
  <2>2. keys = [i \in DOMAIN node |-> node[i].key]
    BY DEF KeysOf
  <2> HIDE DEF Once, keys
  <2> QED
    BY <2>1, <2>2
<1>3. replayed = CHOOSE u : u = [i \in DOMAIN node |-> Once(u, i)]
  BY DEF replayed, At, Chosen
<1>4. replayed = [i \in DOMAIN node |-> Once(replayed, i)]
  <2> HIDE DEF Once
  <2> QED
    BY <1>2, <1>3
<1> DEFINE S == {i \in Nat : i \in DOMAIN node => replayed[i] = node[i].key}
<1>5. ASSUME NEW i \in Nat, \A j \in Nat : j < i => j \in S PROVE i \in S
  <2> SUFFICES ASSUME i \in DOMAIN node PROVE replayed[i] = node[i].key
    OBVIOUS
  <2>1. replayed[i] = Once(replayed, i)
    <3> HIDE DEF Once
    <3> QED
      BY <1>4
  <2>2. CASE node[i].parent = 0
    BY <2>1, <2>2
  <2>3. CASE node[i].parent # 0
    <3>1. node[i].parent \in DOMAIN node /\ node[i].parent < i /\ At(node[node[i].parent].key, i) = node[i].key
      BY <1>1, <2>3
    <3>2. node[i].parent \in Nat
      BY <1>0, <3>1
    <3>3. replayed[node[i].parent] = node[node[i].parent].key
      BY <1>5, <3>1, <3>2
    <3> QED
      BY <2>1, <2>3, <3>1, <3>3
  <2> QED
    BY <2>2, <2>3
<1> HIDE DEF S
<1>6. Nat \subseteq S
  BY <1>5, Complete
<1> QED
  BY <1>0, <1>6 DEF S

(* What is nearer than a node was found before it. *)
LEMMA NearerIsEarlier ==
  ASSUME Given, NEW nd, NEW t, NEW lv, NEW dp, Layered(nd, t, lv, dp), NEW i \in DOMAIN nd, NEW d \in Nat, d < t[i]
  PROVE  Ball[d] \subseteq KeysTo(nd, i - 1)
<1>1. t[i] \in Nat
  BY DEF Layered, IsDepth
<1>2. t[i] > 0 /\ t[i] - 1 \in Nat /\ d <= t[i] - 1
  BY <1>1
<1>3. Ball[t[i] - 1] \subseteq KeysTo(nd, i - 1)
  BY <1>2 DEF Layered
<1>4. Ball[d] \subseteq Ball[t[i] - 1]
  BY <1>2, BallGrows
<1> QED
  BY <1>3, <1>4

(* What SearchInv says once the search has begun. *)
LEMMA Begun ==
  ASSUME SearchInv, pc # "roots"
  PROVE  /\ Given /\ WellFormed(G) /\ node \in Seq(Node) /\ G.node = node /\ G.edges = edges /\ G.unknown = unknown
         /\ DOMAIN node = 1 .. Len(node) /\ Len(node) \in Nat
         /\ (\A i \in DOMAIN node : Origin(node, i) /\ node[i].key \in State)
         /\ (\A i, j \in DOMAIN node : node[i].key = node[j].key => i = j)
         /\ (\A k \in DOMAIN edges : Sound(node, edges[k]))
         /\ LevelOf(level, node) /\ FirstBad(node, invViol) /\ (\E t : Layered(node, t, level, depth))
         /\ \A n \in 1 .. level.at - 1 : Walked(G, n)
<1>1. Given /\ Good(G, level, depth, invViol)
  BY DEF SearchInv
<1>2. WellFormed(G) /\ LevelOf(level, node) /\ FirstBad(node, invViol) /\ (\E t : Layered(node, t, level, depth))
      /\ (\A n \in 1 .. level.at - 1 : Walked(G, n)) /\ G.node = node /\ G.edges = edges /\ G.unknown = unknown
  BY <1>1 DEF Good, G
<1>3. node \in Seq(Node)
  BY <1>2 DEF WellFormed, Graph
<1>4. DOMAIN node = 1 .. Len(node) /\ Len(node) \in Nat /\ \A i \in DOMAIN node : node[i] \in Node
  BY <1>3
<1>5. \A i \in DOMAIN node : node[i].key \in State
  BY <1>4 DEF Node
<1> QED
  BY <1>1, <1>2, <1>3, <1>4, <1>5 DEF WellFormed

(* A trace is a shortest path to its node, under either bound, and         *)
(* replays to the state that was explored, though moves may share a name   *)
(* (addNode, replayer.step).                                               *)
THEOREM TracesAreRight == Spec => []TracesAreShortest
<1>1. SearchInv => TracesAreShortest
  <2> SUFFICES ASSUME SearchInv, NEW i \in DOMAIN node
               PROVE  /\ \A d \in 0 .. traceLength[i] : node[i].key \in Ball[d] <=> d = traceLength[i]
                      /\ replayed[i] = node[i].key
    BY DEF TracesAreShortest
  <2>1. pc # "roots"
    BY DEF SearchInv
  <2>2. /\ Given /\ node \in Seq(Node) /\ (\A j \in DOMAIN node : Origin(node, j))
        /\ (\A j, k \in DOMAIN node : node[j].key = node[k].key => j = k) /\ DOMAIN node = 1 .. Len(node) /\ Len(node) \in Nat
    BY <2>1, Begun
  <2>3. PICK t : Layered(node, t, level, depth)
    BY <2>1, Begun
  <2>4. traceLength[i] = t[i] /\ t[i] \in Nat
    BY <2>2, <2>3, LengthIsDepth DEF Layered, IsDepth
  <2>5. ASSUME NEW d \in 0 .. t[i] PROVE node[i].key \in Ball[d] <=> d = t[i]
    <3>1. node[i].key \in Ball[t[i]]
      BY <2>3 DEF Layered
    <3>2. ASSUME d # t[i] PROVE node[i].key \notin Ball[d]
      <4>1. d \in Nat /\ d < t[i]
        BY <2>4, <3>2
      <4>2. Ball[d] \subseteq KeysTo(node, i - 1)
        BY <2>2, <2>3, <4>1, NearerIsEarlier
      <4>3. node[i].key \notin KeysTo(node, i - 1)
        <5> SUFFICES ASSUME NEW j \in 1 .. i - 1, node[j].key = node[i].key PROVE FALSE
          BY DEF KeysTo
        <5>1. j \in DOMAIN node /\ j # i
          BY <2>2
        <5> QED
          BY <2>2, <5>1
      <4> QED
        BY <4>2, <4>3
    <3> QED
      BY <3>1, <3>2
  <2>6. replayed[i] = node[i].key
    BY <2>2, ReplayIsKey
  <2> QED
    BY <2>4, <2>5, <2>6
<1> QED
  BY <1>1, SearchIsSound, PTL

(* The invariant violation reported is a shallowest one of the whole       *)
(* model, and one is reported whenever one was explored (evaluate).        *)
THEOREM ViolationIsShallowest == Spec => []ShallowestViolation
<1>1. SearchInv => ShallowestViolation
  <2> SUFFICES ASSUME SearchInv, Done
               PROVE  IF invViol = 0 THEN Keys \cap bad = {}
                      ELSE /\ node[invViol].key \in bad
                           /\ \A d \in Radius : Ball[d] \cap bad # {} => node[invViol].key \in Ball[d]
    BY DEF ShallowestViolation
  <2>1. pc # "roots"
    BY DEF Done
  <2>2. Given /\ DOMAIN node = 1 .. Len(node) /\ Len(node) \in Nat /\ FirstBad(node, invViol)
    BY <2>1, Begun
  <2>3. PICK t : Layered(node, t, level, depth)
    BY <2>1, Begun
  <2>4. CASE invViol = 0
    BY <2>2, <2>4 DEF FirstBad, Keys
  <2>5. CASE invViol # 0
    <3>1. invViol \in DOMAIN node /\ node[invViol].key \in bad /\ \A j \in 1 .. invViol - 1 : node[j].key \notin bad
      BY <2>2, <2>5 DEF FirstBad
    <3>2. t[invViol] \in Nat /\ node[invViol].key \in Ball[t[invViol]]
      BY <2>3, <3>1 DEF Layered, IsDepth
    <3>3. ASSUME NEW d \in Radius, Ball[d] \cap bad # {} PROVE node[invViol].key \in Ball[d]
      <4>0. d \in Nat
        BY ExploreAssumption, FS_CardinalityType DEF Radius
      <4>1. CASE d < t[invViol]
        <5>1. Ball[d] \subseteq KeysTo(node, invViol - 1)
          BY <2>2, <2>3, <3>1, <4>0, <4>1, NearerIsEarlier
        <5>2. KeysTo(node, invViol - 1) \cap bad = {}
          BY <3>1 DEF KeysTo
        <5> QED
          BY <3>3, <5>1, <5>2
      <4>2. CASE ~(d < t[invViol])
        <5>1. t[invViol] <= d
          BY <3>2, <4>0, <4>2
        <5>2. Ball[t[invViol]] \subseteq Ball[d]
          BY <2>2, <3>2, <4>0, <5>1, BallGrows
        <5> QED
          BY <3>2, <5>2
      <4> QED
        BY <4>1, <4>2
    <3> QED
      BY <2>5, <3>1, <3>3
  <2> QED
    BY <2>4, <2>5
<1> QED
  BY <1>1, SearchIsSound, PTL

------------------------------------------------------------------------------
(* A search that has ended. *)

(* Every node was expanded or its future is unknown, which Truncated says. *)
LEMMA Ended ==
  ASSUME SearchInv, Done
  PROVE  /\ \A n \in DOMAIN node : Walked(G, n) \/ n \in unknown
         /\ unknown # {} => truncated
         /\ maxDepth = 0 => level.at = Len(node) + 1
         /\ KeysOf(node) = Queue[level.at - 1]
         /\ ~truncated => Range(initial) \subseteq Keys
         /\ Len(node) <= maxStates
<1>0. pc # "roots" /\ pc = "done"
  BY DEF Done
<1>1. DOMAIN node = 1 .. Len(node) /\ Len(node) \in Nat /\ LevelOf(level, node) /\ (\A n \in 1 .. level.at - 1 : Walked(G, n))
  BY <1>0, Begun
<1>2. AtStart /\ (level.first > level.last \/ (level.first .. level.last \subseteq unknown /\ maxDepth # 0))
  BY <1>0 DEF SearchInv
<1>3. /\ level.first \in Nat /\ level.last \in Nat /\ level.at \in Nat /\ level.first <= level.at
      /\ level.at <= level.last + 1 /\ level.at = level.first /\ level.last = Len(node) /\ level.first # 0
  BY <1>1, <1>2 DEF LevelOf, AtStart
<1>4. ASSUME NEW n \in DOMAIN node PROVE Walked(G, n) \/ n \in unknown
  <2>1. CASE n < level.at
    BY <1>1, <1>3, <2>1
  <2>2. CASE ~(n < level.at)
    <3>1. n \in level.first .. level.last /\ ~(level.first > level.last)
      BY <1>1, <1>3, <2>2
    <3> QED
      BY <1>2, <3>1
  <2> QED
    BY <2>1, <2>2
<1>5. maxDepth = 0 => level.at = Len(node) + 1
  BY <1>2, <1>3
<1>6. Good(G, level, depth, invViol) /\ G.node = node
  BY <1>0 DEF SearchInv, G
<1>7. unknown # {} => truncated
  BY <1>6 DEF Good, Honest, G
<1>8. KeysOf(node) = Queue[level.at - 1] /\ Len(node) <= maxStates
  BY <1>6 DEF Good, WellFormed
<1>9. ASSUME ~truncated, NEW s \in Range(initial) PROVE s \in Keys
  <2>1. Rooted(G, s)
    BY <1>6 DEF Good
  <2>2. G.truncated \/ \E i \in DOMAIN node : node[i].key = s
    BY <1>6, <2>1 DEF Rooted
  <2>3. ~G.truncated
    BY <1>9 DEF G
  <2> QED
    BY <2>2, <2>3 DEF Keys
<1> QED
  BY <1>4, <1>5, <1>7, <1>8, <1>9

(* Results do not depend on the workers: nodes come in the order of a      *)
(* search with one queue, whatever the chunk (expandChunk, merge).         *)
THEOREM OrderIsThatOfAQueue == Spec => []OrderIsSequential
<1>1. SearchInv => OrderIsSequential
  <2> SUFFICES ASSUME SearchInv, Done, maxDepth = 0 PROVE KeysOf(node) = Queue[maxStates]
    BY DEF OrderIsSequential, KeysOf
  <2>1. Given /\ Len(node) \in Nat /\ node \in Seq(Node)
    BY Begun DEF Done
  <2>2. level.at = Len(node) + 1 /\ KeysOf(node) = Queue[level.at - 1] /\ Len(node) <= maxStates
    BY Ended
  <2>3. level.at - 1 = Len(node) /\ maxStates \in Nat
    BY <2>1, <2>2 DEF Given
  <2>4. KeysOf(node) = Queue[Len(node)]
    BY <2>2, <2>3
  <2>5. Len(KeysOf(node)) = Len(node)
    BY <2>1, KeysType
  <2>6. Len(Queue[Len(node)]) <= Len(node)
    BY <2>1, <2>4, <2>5
  <2>7. Queue[maxStates] = Queue[Len(node)]
    BY <2>1, <2>2, <2>3, <2>6, QueueStays
  <2> QED
    BY <2>4, <2>7
<1> QED
  BY <1>1, SearchIsSound, PTL

(* The move was followed: there is an edge for it. *)
Followed(n, a, s) ==
  \E k \in DOMAIN edges : /\ edges[k].from = n /\ edges[k].actor = a
                          /\ edges[k].to \in DOMAIN node /\ node[edges[k].to].key = s

LEMMA KnownIsFollowed ==
  ASSUME SearchInv, Done, NEW n \in DOMAIN node, n \notin unknown, NEW a \in Actor, NEW s \in Succ(node[n].key, {a})
  PROVE  Followed(n, a, s)
<1>0. G.node = node /\ G.edges = edges /\ G.unknown = unknown
  BY DEF G
<1>1. Walked(G, n)
  BY Ended
<1>2. PICK m \in DOMAIN moves[node[n].key][a] : moves[node[n].key][a][m].to = s
  BY DEF Succ
<1>3. Covered(G, n, a, s)
  BY <1>0, <1>1, <1>2 DEF Walked
<1> QED
  BY <1>0, <1>3 DEF Covered, Followed

LEMMA SuccMember ==
  ASSUME NEW s, NEW as, NEW x
  PROVE  x \in Succ(s, as) <=> \E a \in as : x \in Succ(s, {a})
<1>1. ASSUME NEW bs PROVE x \in Succ(s, bs) <=> \E a \in bs : x \in {moves[s][a][i].to : i \in DOMAIN moves[s][a]}
  BY Zenon DEF Succ
<1>2. ASSUME NEW a PROVE x \in Succ(s, {a}) <=> x \in {moves[s][a][i].to : i \in DOMAIN moves[s][a]}
  <2>1. x \in Succ(s, {a}) <=> \E b \in {a} : x \in {moves[s][b][i].to : i \in DOMAIN moves[s][b]}
    BY <1>1
  <2>2. \A b : b \in {a} <=> b = a
    OBVIOUS
  <2> QED
    BY <2>1, <2>2
<1> QED
  BY <1>1, <1>2, Zenon

(* Every node is reachable. *)
LEMMA NodesAreReachable ==
  ASSUME SearchInv, pc # "roots"
  PROVE  Keys \subseteq Reachable
<1>1. DOMAIN node = 1 .. Len(node) /\ Len(node) \in Nat /\ \A i \in DOMAIN node : Origin(node, i) /\ node[i].key \in State
  BY Begun
<1>2. ASSUME NEW R \in SUBSET State, Range(initial) \subseteq R, \A r \in R : Succ(r, Actor) \subseteq R
      PROVE  \A i \in DOMAIN node : node[i].key \in R
  <2> DEFINE S == {i \in Nat : i \in DOMAIN node => node[i].key \in R}
  <2>1. ASSUME NEW i \in Nat, \A m \in Nat : m < i => m \in S PROVE i \in S
    <3> SUFFICES ASSUME i \in DOMAIN node PROVE node[i].key \in R
      OBVIOUS
    <3>1. Origin(node, i)
      BY <1>1
    <3>2. CASE node[i].parent = 0 /\ node[i].key \in Range(initial)
      BY <1>2, <3>2
    <3>3. CASE /\ node[i].parent \in 1 .. i - 1
               /\ Comes(node, node[i].parent, node[i].actor, node[i].move, node[i].key, node[i].ordinal)
      <4>1. node[i].parent \in Nat /\ node[i].parent < i /\ node[i].parent \in DOMAIN node /\ node[i].actor \in Actor
        BY <1>1, <3>3 DEF Comes
      <4>2. node[node[i].parent].key \in R
        BY <2>1, <4>1
      <4>3. node[i].key \in Succ(node[node[i].parent].key, {node[i].actor})
        BY <3>3, RealIsSucc
      <4>4. node[i].key \in Succ(node[node[i].parent].key, Actor)
        BY <4>1, <4>3, SuccMember
      <4> QED
        BY <1>2, <4>2, <4>4
    <3> QED
      BY <3>1, <3>2, <3>3 DEF Origin
  <2> HIDE DEF S
  <2>2. Nat \subseteq S
    BY <2>1, Complete
  <2> QED
    BY <1>1, <2>2 DEF S
<1> QED
  BY <1>1, <1>2 DEF Keys, Reachable

(* Without Truncated the graph is the whole of it. *)
LEMMA AllIsVisited ==
  ASSUME SearchInv, Done, ~truncated
  PROVE  /\ unknown = {} /\ Keys = Reachable
         /\ \A n \in DOMAIN node : \A a \in Actor : \A s \in Succ(node[n].key, {a}) : Followed(n, a, s)
<1>1. unknown = {}
  BY Ended
<1>2. \A n \in DOMAIN node : \A a \in Actor : \A s \in Succ(node[n].key, {a}) : Followed(n, a, s)
  BY <1>1, KnownIsFollowed
<1>3. Range(initial) \subseteq Keys
  BY Ended
<1>4. Keys \subseteq State
  BY Begun DEF Keys, Done
<1>5. ASSUME NEW r \in Keys, NEW s \in Succ(r, Actor) PROVE s \in Keys
  <2>1. PICK n \in DOMAIN node : r = node[n].key
    BY DEF Keys
  <2>2. PICK a \in Actor : s \in Succ(node[n].key, {a})
    BY <2>1, SuccMember
  <2>3. Followed(n, a, s)
    BY <1>2, <2>2
  <2> QED
    BY <2>3 DEF Followed, Keys
<1>6. Reachable \subseteq Keys
  BY <1>3, <1>4, <1>5 DEF Reachable
<1>7. Keys \subseteq Reachable
  BY NodesAreReachable DEF Done
<1> QED
  BY <1>1, <1>2, <1>6, <1>7

(* A search that does not report Truncated has visited every reachable     *)
(* state and every edge (run, merge).                                      *)
THEOREM UntruncatedIsAll == Spec => []UntruncatedIsComplete
<1>1. SearchInv => UntruncatedIsComplete
  <2> SUFFICES ASSUME SearchInv, Done, ~truncated
               PROVE  /\ Keys = Reachable
                      /\ \A i \in DOMAIN node : \A a \in Actor :
                           {node[edges[k].to].key : k \in {j \in DOMAIN edges : edges[j].from = i /\ edges[j].actor = a}}
                             = Succ(node[i].key, {a})
    BY DEF UntruncatedIsComplete
  <2>1. Keys = Reachable
    BY AllIsVisited
  <2>2. ASSUME NEW i \in DOMAIN node, NEW a \in Actor
        PROVE  {node[edges[k].to].key : k \in {j \in DOMAIN edges : edges[j].from = i /\ edges[j].actor = a}}
                 = Succ(node[i].key, {a})
    <3>1. ASSUME NEW k \in DOMAIN edges, edges[k].from = i, edges[k].actor = a
          PROVE  node[edges[k].to].key \in Succ(node[i].key, {a})
      <4>1. Sound(node, edges[k])
        BY Begun DEF Done
      <4> QED
        BY <3>1, <4>1 DEF Sound
    <3>2. ASSUME NEW s \in Succ(node[i].key, {a})
          PROVE  s \in {node[edges[k].to].key : k \in {j \in DOMAIN edges : edges[j].from = i /\ edges[j].actor = a}}
      <4>1. Followed(i, a, s)
        BY AllIsVisited
      <4> QED
        BY <4>1 DEF Followed
    <3> QED
      BY <3>1, <3>2
  <2> QED
    BY <2>1, <2>2
<1> QED
  BY <1>1, SearchIsSound, PTL

------------------------------------------------------------------------------
(* Traps. *)

(* What findTrap searches backwards from, and what it is left with. *)
Safe   == Backwards(unknown \cup {i \in DOMAIN node : node[i].key \in goal})
Caught == DOMAIN node \ Safe

(* A node that leads to a safe one is safe. *)
LEMMA SafeIsClosed ==
  ASSUME NEW k \in DOMAIN edges, edges[k].actor \in Allowed, edges[k].to \in Safe, edges[k].from \in DOMAIN node
  PROVE  edges[k].from \in Safe
<1> DEFINE R == unknown \cup {i \in DOMAIN node : node[i].key \in goal}
           Closed(B) == /\ R \subseteq B
                        /\ \A j \in DOMAIN edges : edges[j].actor \in Allowed /\ edges[j].to \in B => edges[j].from \in B
<1>1. \A i : i \in Safe <=> i \in DOMAIN node /\ \A B \in SUBSET DOMAIN node : Closed(B) => i \in B
  BY DEF Safe, Backwards
<1>2. ASSUME NEW B \in SUBSET DOMAIN node, Closed(B) PROVE edges[k].from \in B
  <2>1. edges[k].to \in B
    <3> HIDE DEF Closed
    <3> QED
      BY <1>1, <1>2
  <2> QED
    BY <1>2, <2>1
<1> HIDE DEF Closed
<1> QED
  BY <1>1, <1>2

(* So is a node whose future is unknown, and one where the goal holds. *)
LEMMA SafeAtOnce ==
  ASSUME NEW i \in DOMAIN node, i \in unknown \/ node[i].key \in goal
  PROVE  i \in Safe
BY DEF Safe, Backwards

(* A trap found is one, whatever a bound kept from the search. *)
LEMMA CaughtIsTrapped ==
  ASSUME SearchInv, Done, NEW i \in Caught
  PROVE  Trap(node[i].key)
<1> DEFINE R == State \ {node[j].key : j \in Caught}
<1>0. /\ goal \subseteq State /\ (\A j \in DOMAIN node : node[j].key \in State)
      /\ (\A j, k \in DOMAIN node : node[j].key = node[k].key => j = k)
  BY Begun DEF Done, Given
<1>1. goal \subseteq R
  <2> SUFFICES ASSUME NEW j \in Caught, node[j].key \in goal PROVE FALSE
    BY <1>0
  <2> QED
    BY SafeAtOnce DEF Caught
<1>2. ASSUME NEW r \in State, Succ(r, Allowed) \cap R # {} PROVE r \in R
  <2> SUFFICES ASSUME NEW j \in Caught, r = node[j].key PROVE FALSE
    OBVIOUS
  <2>1. j \in DOMAIN node /\ j \notin Safe /\ j \notin unknown
    BY SafeAtOnce DEF Caught
  <2>2. PICK s \in R : s \in Succ(node[j].key, Allowed)
    BY <1>2
  <2>3. PICK a \in Allowed : s \in Succ(node[j].key, {a})
    BY <2>2, SuccMember
  <2>4. a \in Actor
    BY ExploreAssumption
  <2>5. Followed(j, a, s)
    BY <2>1, <2>3, <2>4, KnownIsFollowed
  <2>6. PICK k \in DOMAIN edges : /\ edges[k].from = j /\ edges[k].actor = a
                                  /\ edges[k].to \in DOMAIN node /\ node[edges[k].to].key = s
    BY <2>5 DEF Followed
  <2>7. edges[k].to \in Safe
    BY <2>2, <2>6 DEF Caught
  <2> QED
    BY <2>1, <2>6, <2>7, SafeIsClosed
<1>3. node[i].key \notin R /\ R \in SUBSET State
  OBVIOUS
<1> HIDE DEF R
<1> QED
  BY <1>1, <1>2, <1>3 DEF Trap, CanReachGoal

(* Without a bound a node that is not caught can reach the goal. *)
LEMMA SafeIsFree ==
  ASSUME SearchInv, Done, ~truncated, NEW i \in Safe
  PROVE  node[i].key \in CanReachGoal
<1>0. /\ (\A j \in DOMAIN node : node[j].key \in State) /\ (\A k \in DOMAIN edges : Sound(node, edges[k])) /\ unknown = {}
  BY Begun, AllIsVisited DEF Done
<1>1. i \in DOMAIN node
  BY DEF Safe, Backwards
<1>2. ASSUME NEW R \in SUBSET State, goal \subseteq R, \A r \in State : Succ(r, Allowed) \cap R # {} => r \in R
      PROVE  node[i].key \in R
  <2> DEFINE B == {j \in DOMAIN node : node[j].key \in R}
  <2>1. unknown \cup {j \in DOMAIN node : node[j].key \in goal} \subseteq B
    BY <1>0, <1>2
  <2>2. ASSUME NEW k \in DOMAIN edges, edges[k].actor \in Allowed, edges[k].to \in B PROVE edges[k].from \in B
    <3>1. edges[k].from \in DOMAIN node /\ node[edges[k].to].key \in Succ(node[edges[k].from].key, {edges[k].actor})
      BY <1>0 DEF Sound
    <3>2. node[edges[k].to].key \in Succ(node[edges[k].from].key, Allowed)
      BY <2>2, <3>1, SuccMember
    <3>3. node[edges[k].from].key \in R
      BY <1>0, <1>2, <2>2, <3>1, <3>2
    <3> QED
      BY <3>1, <3>3
  <2>3. B \in SUBSET DOMAIN node
    OBVIOUS
  <2>4. i \in B
    <3> HIDE DEF B
    <3> QED
      BY <2>1, <2>2, <2>3 DEF Safe, Backwards
  <2> QED
    BY <2>4
<1> QED
  BY <1>0, <1>1, <1>2 DEF CanReachGoal

(* findTrap is the first node caught. *)
LEMMA FirstCaught ==
  ASSUME SearchInv, Done
  PROVE  IF findTrap = 0 THEN Caught = {} ELSE findTrap \in Caught /\ \A j \in Caught : findTrap <= j
<1>1. Caught \in SUBSET Nat /\ 0 \notin Caught
  BY Begun DEF Caught, Done
<1>2. findTrap = IF Caught = {} THEN 0 ELSE CHOOSE i \in Caught : \A j \in Caught : i <= j
  BY DEF findTrap, Caught, Safe
<1>3. ASSUME Caught # {} PROVE findTrap \in Caught /\ \A j \in Caught : findTrap <= j
  <2>1. \E n \in Caught : \A m \in Caught : n <= m
    BY <1>1, <1>3, LeastExists
  <2> QED
    BY <1>2, <1>3, <2>1
<1> QED
  BY <1>1, <1>2, <1>3

(* A trap reported is a trap of the whole model, a bound notwithstanding;  *)
(* without a bound a shallowest one is found (resolveRecoverables,         *)
(* findTrap).                                                              *)
THEOREM TrapsAreTraps == Spec => []TrapsAreReal
<1>1. SearchInv => TrapsAreReal
  <2> SUFFICES ASSUME SearchInv, Done
               PROVE  IF findTrap = 0 THEN truncated \/ \A s \in Reachable : ~Trap(s)
                      ELSE /\ Trap(node[findTrap].key)
                           /\ ~truncated => \A d \in Radius :
                                (\E s \in Ball[d] : Trap(s)) => node[findTrap].key \in Ball[d]
    BY DEF TrapsAreReal
  <2>1. ASSUME ~truncated, NEW j \in DOMAIN node, j \notin Caught PROVE ~Trap(node[j].key)
    <3>1. j \in Safe
      BY <2>1 DEF Caught
    <3> QED
      BY <2>1, <3>1, SafeIsFree DEF Trap
  <2>2. CASE findTrap = 0
    <3>1. Caught = {}
      BY <2>2, FirstCaught
    <3>2. ASSUME ~truncated, NEW s \in Reachable PROVE ~Trap(s)
      <4>1. s \in Keys
        BY <3>2, AllIsVisited
      <4>2. PICK j \in DOMAIN node : s = node[j].key
        BY <4>1 DEF Keys
      <4> QED
        BY <2>1, <3>1, <3>2, <4>2
    <3> QED
      BY <2>2, <3>2
  <2>3. CASE findTrap # 0
    <3>0. findTrap \in Caught /\ \A j \in Caught : findTrap <= j
      BY <2>3, FirstCaught
    <3> DEFINE f == findTrap
    <3>1. f \in Caught /\ (\A j \in Caught : f <= j) /\ f \in DOMAIN node
      BY <3>0 DEF Caught
    <3> HIDE DEF f
    <3>2. Trap(node[f].key)
      BY <3>1, CaughtIsTrapped
    <3>3. Given /\ DOMAIN node = 1 .. Len(node) /\ Len(node) \in Nat
      BY Begun DEF Done
    <3>4. PICK t : Layered(node, t, level, depth)
      BY Begun DEF Done
    <3>5. t[f] \in Nat /\ node[f].key \in Ball[t[f]]
      BY <3>1, <3>4 DEF Layered, IsDepth
    <3>6. ASSUME ~truncated, NEW d \in Radius, NEW s \in Ball[d], Trap(s) PROVE node[f].key \in Ball[d]
      <4>0. d \in Nat
        BY ExploreAssumption, FS_CardinalityType DEF Radius
      <4>1. CASE d < t[f]
        <5>1. Ball[d] \subseteq KeysTo(node, f - 1)
          BY <3>1, <3>3, <3>4, <4>0, <4>1, NearerIsEarlier
        <5>2. PICK j \in 1 .. f - 1 : s = node[j].key
          BY <3>6, <5>1 DEF KeysTo
        <5>3. j \in DOMAIN node /\ ~(f <= j)
          BY <3>1, <3>3
        <5> QED
          BY <2>1, <3>1, <3>6, <5>2, <5>3
      <4>2. CASE ~(d < t[f])
        <5>1. t[f] <= d
          BY <3>5, <4>0, <4>2
        <5>2. Ball[t[f]] \subseteq Ball[d]
          BY <3>3, <3>5, <4>0, <5>1, BallGrows
        <5> QED
          BY <3>5, <5>2
      <4> QED
        BY <4>1, <4>2
    <3> QED
      BY <2>3, <3>2, <3>6 DEF f
  <2> QED
    BY <2>2, <2>3
<1> QED
  BY <1>1, SearchIsSound, PTL

(* The search of Explore keeps its types: nodes, edges and the level it    *)
(* is at are within the graph found so far.                                *)
THEOREM SearchIsTyped == Spec => []TypeOK
<1>1. SearchInv => TypeOK
  <2> SUFFICES ASSUME SearchInv PROVE TypeOK
    OBVIOUS
  <2>1. CASE pc = "roots"
    <3>1. /\ Given /\ G = [node |-> <<>>, edges |-> <<>>, unknown |-> {}, truncated |-> FALSE]
          /\ node = <<>> /\ invViol = 0 /\ depth = 0 /\ level = [first |-> 1, last |-> 0, at |-> 1]
      BY <2>1 DEF SearchInv
    <3>2. edges = <<>> /\ unknown = {} /\ truncated = FALSE
      BY <3>1 DEF G
    <3>3. maxStates \in Nat
      BY <3>1 DEF Given
    <3>4. DOMAIN node = {} /\ Len(node) = 0
      BY <3>1
    <3>5. edges \in Seq([from : DOMAIN node, actor : Actor, to : DOMAIN node])
      BY <3>2
    <3>6. /\ level.at \in level.first .. level.last + 1 /\ level.last <= Len(node)
          /\ invViol \in 0 .. Len(node) /\ Len(node) <= maxStates /\ depth \in Nat
      BY <3>1, <3>3, <3>4
    <3>7. truncated \in BOOLEAN /\ unknown \subseteq DOMAIN node
      BY <3>2
    <3>8. \A i \in DOMAIN node : node[i].key \in State /\ node[i].parent \in 0 .. i - 1
      BY <3>4
    <3> QED
      BY <2>1, <3>5, <3>6, <3>7, <3>8 DEF TypeOK
  <2>2. CASE pc # "roots"
    <3>1. /\ DOMAIN node = 1 .. Len(node) /\ Len(node) \in Nat /\ WellFormed(G) /\ G.node = node /\ G.edges = edges
          /\ G.unknown = unknown /\ (\A i \in DOMAIN node : Origin(node, i) /\ node[i].key \in State)
          /\ LevelOf(level, node) /\ FirstBad(node, invViol) /\ (\A k \in DOMAIN edges : Sound(node, edges[k]))
      BY <2>2, Begun
    <3>2. ASSUME NEW i \in DOMAIN node PROVE node[i].parent \in 0 .. i - 1
      BY <3>1 DEF Origin
    <3>3. edges \in Seq(Edge) /\ unknown \subseteq DOMAIN node /\ Len(node) <= maxStates
      BY <3>1 DEF WellFormed, Graph
    <3>4. ASSUME NEW k \in DOMAIN edges PROVE edges[k] \in [from : DOMAIN node, actor : Actor, to : DOMAIN node]
      <4>1. edges[k] \in Edge /\ Sound(node, edges[k])
        BY <3>1, <3>3
      <4> QED
        BY <4>1 DEF Edge, Sound
    <3>5. edges \in Seq([from : DOMAIN node, actor : Actor, to : DOMAIN node])
      <4> DEFINE E == [from : DOMAIN node, actor : Actor, to : DOMAIN node]
      <4>1. \A k \in DOMAIN edges : edges[k] \in E
        BY <3>4
      <4>2. edges \in Seq(E)
        <5> HIDE DEF E
        <5> QED
          BY <3>3, <4>1
      <4> QED
        BY <4>2
    <3>6. truncated \in BOOLEAN
      BY <3>1 DEF WellFormed, Graph, G
    <3>7. invViol \in 0 .. Len(node)
      BY <3>1 DEF FirstBad
    <3>8. level.at \in level.first .. level.last + 1 /\ level.last <= Len(node)
      BY <3>1 DEF LevelOf
    <3>9. depth \in Nat /\ pc \in {"roots", "level", "expand", "done"}
      BY <2>2 DEF SearchInv, Good
    <3> QED
      BY <3>1, <3>2, <3>3, <3>5, <3>6, <3>7, <3>8, <3>9 DEF TypeOK
  <2> QED
    BY <2>1, <2>2
<1> QED
  BY <1>1, SearchIsSound, PTL

------------------------------------------------------------------------------
(* parallelFor, which expands a chunk in one step of this search: it calls *)
(* fn at most once per item and re-raises the lowest failure, for any      *)
(* number of workers and items.                                            *)

(* Every variable of parallelFor keeps its type: the indices handed out    *)
(* may run past N, the recorded failure may not.                           *)
THEOREM LoopTypeCorrect == LoopSpec => []LoopTypeOK
<1>1. LoopInit => LoopTypeOK
  BY ParallelForAssumption DEF LoopInit, LoopTypeOK, Item
<1>2. LoopTypeOK /\ [LoopNext]_loopVars => LoopTypeOK'
  <2> SUFFICES ASSUME LoopTypeOK, [LoopNext]_loopVars PROVE LoopTypeOK'
    OBVIOUS
  <2> USE ParallelForAssumption DEF LoopTypeOK, Goto
  <2>1. ASSUME NEW w \in Worker, Take(w) PROVE LoopTypeOK'
    BY <2>1 DEF Take
  <2>2. ASSUME NEW w \in Worker, Check(w) PROVE LoopTypeOK'
    BY <2>2 DEF Check
  <2>3. ASSUME NEW w \in Worker, Call(w) PROVE LoopTypeOK'
    <3>1. calls' \in [Item -> Nat]
      <4>1. calls' = [i \in Item |-> IF i = item[w] THEN calls[i] + 1 ELSE calls[i]]
        BY <2>3 DEF Call
      <4>2. \A i \in Item : calls[i] \in Nat /\ calls[i] + 1 \in Nat
        OBVIOUS
      <4> QED
        BY <4>1, <4>2
    <3>2. wpc' \in [Worker -> {"take", "check", "call", "record", "done"}]
      BY <2>3 DEF Call
    <3> QED
      BY <2>3, <3>1, <3>2 DEF Call
  <2>4. ASSUME NEW w \in Worker, Record(w) PROVE LoopTypeOK'
    <3>1. lowest' \in 0 .. N /\ fail' \in 0 .. N
      BY <2>4 DEF Record, record
    <3> QED
      BY <2>4, <3>1 DEF Record
  <2>5. CASE UNCHANGED loopVars
    BY <2>5 DEF loopVars
  <2> QED
    BY <2>1, <2>2, <2>3, <2>4, <2>5 DEF LoopNext, Step
<1> QED
  BY <1>1, <1>2, PTL DEF LoopSpec

(* LoopInv holds of every state of every execution. *)
LEMMA LoopInvariant == LoopSpec => [](LoopTypeOK /\ LoopInv)
<1>1. LoopInit => LoopInv
  BY ParallelForAssumption DEF LoopInit, LoopInv, Item, Holds, InHand, Bad
<1>2. LoopTypeOK /\ LoopTypeOK' /\ LoopInv /\ [LoopNext]_loopVars => LoopInv'
  <2> SUFFICES ASSUME LoopTypeOK, LoopTypeOK', LoopInv, [LoopNext]_loopVars PROVE LoopInv'
    OBVIOUS
  <2> USE ParallelForAssumption
  <2>1. ASSUME NEW w \in Worker, Take(w) PROVE LoopInv'
    BY <2>1 DEF Take, Goto, LoopTypeOK, LoopInv, Holds, InHand, Bad, Item
  <2>2. ASSUME NEW w \in Worker, Check(w) PROVE LoopInv'
    BY <2>2 DEF Check, Beyond, Goto, LoopTypeOK, LoopInv, Holds, InHand, Bad, Item
  <2>3. ASSUME NEW w \in Worker, Call(w) PROVE LoopInv'
    BY <2>3, SMTT(30) DEF Call, Goto, LoopTypeOK, LoopInv, Holds, InHand, Bad, Item
  <2>4. ASSUME NEW w \in Worker, Record(w) PROVE LoopInv'
    BY <2>4 DEF Record, record, Goto, LoopTypeOK, LoopInv, Holds, InHand, Bad, Item
  <2>5. CASE UNCHANGED loopVars
    BY <2>5 DEF loopVars, LoopInv, Holds, InHand, Bad
  <2> QED
    BY <2>1, <2>2, <2>3, <2>4, <2>5 DEF LoopNext, Step
<1> QED
  BY <1>1, <1>2, LoopTypeCorrect, PTL DEF LoopSpec

(* fn is called at most once per item: the slot of an item has one writer. *)
THEOREM ItemsCalledOnce == LoopSpec => []CalledOnce
<1>1. LoopInv => CalledOnce
  BY DEF LoopInv, CalledOnce
<1> QED
  BY <1>1, LoopInvariant, PTL

(* The failure re-raised is the lowest one, and nothing below was skipped. *)
THEOREM LowestReported == LoopSpec => []LowestFailureReported
<1>1. LoopTypeOK /\ LoopInv => LowestFailureReported
  <2> SUFFICES ASSUME LoopTypeOK, LoopInv, Returned PROVE
        /\ fail \in Bad \cup {N}
        /\ \A i \in Item : i < fail => i \notin Bad /\ calls[i] = 1
    BY DEF LowestFailureReported
  <2>1. lowest < next
    BY ParallelForAssumption DEF Returned, LoopInv
  <2>2. \A w \in Worker : \A i \in Item : ~Holds(w, i)
    BY DEF Returned, Holds, InHand
  <2> QED
    BY <2>1, <2>2 DEF LoopInv, LoopTypeOK, Item
<1> QED
  BY <1>1, LoopInvariant, PTL
==============================================================================
