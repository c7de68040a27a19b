----------------------------- MODULE ScriptProofs -----------------------------
(***************************************************************************)
(* For any declarations, events, budget and interleaving of stream and     *)
(* test: the search of a step decides what the declaration means, every    *)
(* verdict of a script is right, a test that passes has closed its world,  *)
(* and a pin is confirmed by an observation only.                          *)
(*                                                                         *)
(* The searches are recursive functions.  That they have a value, and what *)
(* it is, follows by induction on a rank; the induction is an argument     *)
(* from the least counterexample, a set of naturals.                       *)
(*                                                                         *)
(* At the end, of Cursor, the other consumer of a record that grows while  *)
(* the test waits on it: one goroutine's cursor is a queue (OpQueue).      *)
(***************************************************************************)
EXTENDS Script, Cursor, FiniteSetTheorems, SequenceTheorems, WellFoundedInduction, TLAPS

------------------------------------------------------------------------------
(* Recursion on a rank. *)

(* A non-empty set of naturals has a least member. *)
LEMMA LeastExists ==
  ASSUME NEW S \in SUBSET Nat, S # {}
  PROVE  \E n \in S : \A m \in S : n <= m
<1>1. PICK n \in S : \A m \in S : <<m, n>> \notin OpToRel(<, Nat)
  BY NatLessThanWellFounded, WFMin
<1>2. ASSUME NEW m \in S PROVE ~(m < n)
  <2>1. <<m, n>> \notin {p \in Nat \X Nat : p[1] < p[2]}
    BY <1>1 DEF OpToRel
  <2> QED
    BY <2>1
<1> QED
  BY <1>2

(* Induction, for a set of naturals. *)
LEMMA Inductive ==
  ASSUME NEW S, 0 \in S, \A n \in Nat : n \in S => n + 1 \in S
  PROVE  Nat \subseteq S
<1> SUFFICES ASSUME NEW k \in Nat, k \notin S PROVE FALSE
  OBVIOUS
<1>1. PICK n \in Nat \ S : \A m \in Nat \ S : n <= m
  <2>1. Nat \ S \in SUBSET Nat /\ Nat \ S # {}
    OBVIOUS
  <2> QED
    BY <2>1, LeastExists
<1>2. n # 0 /\ n - 1 \in Nat
  BY <1>1
<1>3. n - 1 \in S
  BY <1>1, <1>2
<1> QED
  BY <1>1, <1>2, <1>3

(* h is the sequence of iterates of F from x0. *)
Iterate(h, X, x0, F) == h \in [Nat -> X] /\ h[0] = x0 /\ \A n \in Nat : h[n + 1] = F[h[n]]

(* The iterates of a function exist. *)
LEMMA Iterates ==
  ASSUME NEW X, NEW x0 \in X, NEW F \in [X -> X]
  PROVE  \E h : Iterate(h, X, x0, F)
<1> DEFINE Prefix(n) == {g \in [0 .. n -> X] : g[0] = x0 /\ \A i \in 0 .. n - 1 : g[i + 1] = F[g[i]]}
<1>1. \A n \in Nat : Prefix(n) # {}
  <2> DEFINE S == {n \in Nat : Prefix(n) # {}}
  <2>1. 0 \in S
    <3>1. [i \in 0 .. 0 |-> x0] \in Prefix(0)
      OBVIOUS
    <3> QED
      BY <3>1
  <2>2. ASSUME NEW n \in Nat, n \in S PROVE n + 1 \in S
    <3>1. PICK g : g \in Prefix(n)
      BY <2>2
    <3> DEFINE e == [i \in 0 .. n + 1 |-> IF i = n + 1 THEN F[g[n]] ELSE g[i]]
    <3>2. e \in [0 .. n + 1 -> X] /\ e[0] = x0
      BY <3>1
    <3>3. ASSUME NEW i \in 0 .. n PROVE e[i + 1] = F[e[i]]
      BY <3>1
    <3>4. e \in Prefix(n + 1)
      <4> HIDE DEF e
      <4> QED
        BY <3>2, <3>3
    <3> QED
      BY <3>4
  <2> HIDE DEF S
  <2>3. Nat \subseteq S
    BY <2>1, <2>2, Inductive
  <2> QED
    BY <2>3 DEF S
<1>2. ASSUME NEW n \in Nat, NEW g \in Prefix(n), NEW k \in Prefix(n + 1) PROVE k[n] = g[n]
  <2> DEFINE S == {i \in Nat : i <= n => k[i] = g[i]}
  <2>1. 0 \in S
    OBVIOUS
  <2>2. ASSUME NEW i \in Nat, i \in S PROVE i + 1 \in S
    <3> SUFFICES ASSUME i + 1 <= n PROVE k[i + 1] = g[i + 1]
      OBVIOUS
    <3>1. i \in 0 .. n - 1 /\ i \in 0 .. (n + 1) - 1 /\ k[i] = g[i]
      BY <2>2
    <3> QED
      BY <3>1
  <2> HIDE DEF S
  <2>3. Nat \subseteq S
    BY <2>1, <2>2, Inductive
  <2> QED
    BY <2>3 DEF S
<1> DEFINE G(n) == CHOOSE g : g \in Prefix(n)
<1> DEFINE h == [n \in Nat |-> G(n)[n]]
<1>3. \A n \in Nat : G(n) \in Prefix(n)
  BY <1>1
<1>4. h \in [Nat -> X] /\ h[0] = x0
  <2>1. ASSUME NEW n \in Nat PROVE G(n)[n] \in X
    <3>1. G(n) \in [0 .. n -> X]
      BY <1>3
    <3> HIDE DEF G
    <3> QED
      BY <3>1
  <2>2. G(0)[0] = x0
    <3>1. G(0) \in Prefix(0)
      BY <1>3
    <3> HIDE DEF G
    <3> QED
      BY <3>1
  <2> HIDE DEF G
  <2> QED
    BY <2>1, <2>2
<1>5. ASSUME NEW n \in Nat PROVE h[n + 1] = F[h[n]]
  <2> HIDE DEF G
  <2>1. G(n) \in Prefix(n) /\ G(n + 1) \in Prefix(n + 1)
    <3> HIDE DEF Prefix
    <3>1. n + 1 \in Nat
      OBVIOUS
    <3> QED
      BY <1>3, <3>1
  <2>2. G(n + 1)[n] = G(n)[n]
    BY <1>2, <2>1
  <2>3. n \in 0 .. (n + 1) - 1
    OBVIOUS
  <2>4. G(n + 1)[n + 1] = F[G(n + 1)[n]]
    BY <2>1, <2>3
  <2> QED
    BY <2>2, <2>4
<1> HIDE DEF h
<1> QED
  BY <1>4, <1>5 DEF Iterate

(* F[f] at a uses only values of f at lower rank. *)
Local(A, X, rank, F) ==
  \A f, g \in [A -> X] : \A a \in A :
    (\A b \in A : rank[b] < rank[a] => f[b] = g[b]) => F[f][a] = F[g][a]

Solution(f, A, X, F) == f \in [A -> X] /\ f = F[f]

(* A definition whose value at a uses only values at lower rank has a      *)
(* solution.                                                               *)
LEMMA RankRecursion ==
  ASSUME NEW A, NEW X, X # {}, NEW rank \in [A -> Nat],
         NEW F \in [[A -> X] -> [A -> X]], Local(A, X, rank, F)
  PROVE  \E f : Solution(f, A, X, F)
<1>1. PICK x0 : x0 \in [A -> X]
  <2>1. PICK x : x \in X
    OBVIOUS
  <2>2. [a \in A |-> x] \in [A -> X]
    BY <2>1
  <2> QED
    BY <2>2
<1>2. PICK h \in [Nat -> [A -> X]] : h[0] = x0 /\ \A n \in Nat : h[n + 1] = F[h[n]]
  <2>1. \E h : Iterate(h, [A -> X], x0, F)
    BY <1>1, Iterates
  <2> QED
    BY <2>1 DEF Iterate
<1>3. \A n \in Nat : \A a \in A : rank[a] < n => h[n + 1][a] = h[n][a]
  <2> DEFINE S == {n \in Nat : \A a \in A : rank[a] < n => h[n + 1][a] = h[n][a]}
  <2>1. 0 \in S
    OBVIOUS
  <2>2. ASSUME NEW n \in Nat, n \in S PROVE n + 1 \in S
    <3> SUFFICES ASSUME NEW a \in A, rank[a] < n + 1 PROVE h[(n + 1) + 1][a] = h[n + 1][a]
      OBVIOUS
    <3>1. \A b \in A : rank[b] < rank[a] => h[n + 1][b] = h[n][b]
      BY <2>2
    <3>2. h[n] \in [A -> X] /\ h[n + 1] \in [A -> X]
      OBVIOUS
    <3>3. F[h[n + 1]][a] = F[h[n]][a]
      BY <3>1, <3>2 DEF Local
    <3>4. h[(n + 1) + 1] = F[h[n + 1]] /\ h[n + 1] = F[h[n]]
      <4>1. n + 1 \in Nat
        OBVIOUS
      <4> QED
        BY <1>2, <4>1
    <3> QED
      BY <3>3, <3>4
  <2> HIDE DEF S
  <2>3. Nat \subseteq S
    BY <2>1, <2>2, Inductive
  <2> QED
    BY <2>3 DEF S
<1> DEFINE f == [a \in A |-> h[rank[a] + 1][a]]
<1>4. f \in [A -> X]
  OBVIOUS
<1>5. \A n \in Nat : \A a \in A : rank[a] < n => h[n][a] = f[a]
  <2> DEFINE S == {n \in Nat : \A a \in A : rank[a] < n => h[n][a] = f[a]}
  <2>1. 0 \in S
    OBVIOUS
  <2>2. ASSUME NEW n \in Nat, n \in S PROVE n + 1 \in S
    <3> SUFFICES ASSUME NEW a \in A, rank[a] < n + 1 PROVE h[n + 1][a] = f[a]
      OBVIOUS
    <3>1. CASE rank[a] = n
      BY <3>1
    <3>2. CASE rank[a] < n
      BY <1>3, <2>2, <3>2
    <3>3. rank[a] \in Nat
      OBVIOUS
    <3>4. rank[a] = n \/ rank[a] < n
      <4>1. \A r \in Nat : r < n + 1 => r = n \/ r < n
        OBVIOUS
      <4> QED
        BY <3>3, <4>1
    <3> HIDE DEF f
    <3> QED
      BY <3>1, <3>2, <3>4
  <2> HIDE DEF S
  <2>3. Nat \subseteq S
    BY <2>1, <2>2, Inductive
  <2> QED
    BY <2>3 DEF S
<1>6. ASSUME NEW a \in A PROVE F[f][a] = f[a]
  <2>1. \A b \in A : rank[b] < rank[a] => f[b] = h[rank[a]][b]
    BY <1>5
  <2>2. h[rank[a]] \in [A -> X]
    OBVIOUS
  <2>3. F[f][a] = F[h[rank[a]]][a]
    <3> HIDE DEF f
    <3> QED
      BY <1>4, <2>1, <2>2 DEF Local
  <2> QED
    BY <1>2, <2>3
<1>7. F[f] \in [A -> X]
  BY <1>4
<1>8. F[f] = f
  <2> HIDE DEF f
  <2> QED
    BY <1>4, <1>6, <1>7
<1> QED
  BY <1>4, <1>8 DEF Solution
(* What holds at a whenever it holds at every lower rank holds everywhere. *)
LEMMA RankInduction ==
  ASSUME NEW A, NEW rank \in [A -> Nat], NEW S,
         \A a \in A : (\A b \in A : rank[b] < rank[a] => b \in S) => a \in S
  PROVE  A \subseteq S
<1> DEFINE T == {rank[a] : a \in A \ S}
<1> SUFFICES ASSUME T # {} PROVE FALSE
  OBVIOUS
<1>1. T \in SUBSET Nat
  OBVIOUS
<1>2. PICK n \in T : \A m \in T : n <= m
  <2> HIDE DEF T
  <2> QED
    BY <1>1, LeastExists
<1>3. PICK a \in A \ S : n = rank[a]
  BY <1>2
<1>4. PICK b \in A : rank[b] < rank[a] /\ b \notin S
  BY <1>3
<1>5. rank[b] \in T /\ rank[b] \in Nat /\ rank[a] \in Nat
  BY <1>3, <1>4
<1>6. rank[a] <= rank[b]
  BY <1>2, <1>3, <1>5
<1> QED
  <2>1. \A p, q \in Nat : ~(p < q /\ q <= p)
    OBVIOUS
  <2> QED
    BY <1>4, <1>5, <1>6, <2>1
------------------------------------------------------------------------------
(* Flattening a declaration. *)

Leaf == {a.leaf : a \in {b \in Allows : b.form = "leaf"}}

(* Leaves, and an order on their positions. *)
Flat == {x \in [leaves : Seq(Leaf), order : SUBSET (Nat \X Nat)] :
           x.order \subseteq (1 .. Len(x.leaves)) \X (1 .. Len(x.leaves))}

(* Two flattened declarations side by side are one. *)
LEMMA BesideFlat ==
  ASSUME NEW x \in Flat, NEW y \in Flat
  PROVE  Beside(x, y) \in Flat
<1> DEFINE n == Len(x.leaves)  m == Len(y.leaves)
<1>1. x.leaves \in Seq(Leaf) /\ y.leaves \in Seq(Leaf) /\ n \in Nat /\ m \in Nat
  BY DEF Flat
<1>2. x.leaves \o y.leaves \in Seq(Leaf) /\ Len(x.leaves \o y.leaves) = n + m
  BY <1>1
<1>3. x.order \subseteq (1 .. n) \X (1 .. n) /\ y.order \subseteq (1 .. m) \X (1 .. m)
  BY DEF Flat
<1> DEFINE o == x.order \cup {<<p[1] + n, p[2] + n>> : p \in y.order}
<1>4. o \subseteq (1 .. (n + m)) \X (1 .. (n + m))
  <2> HIDE DEF n, m
  <2>1. ASSUME NEW p \in x.order PROVE p \in (1 .. (n + m)) \X (1 .. (n + m))
    <3>1. p \in (1 .. n) \X (1 .. n)
      BY <1>3
    <3> QED
      BY <1>1, <3>1
  <2>2. ASSUME NEW p \in y.order PROVE <<p[1] + n, p[2] + n>> \in (1 .. (n + m)) \X (1 .. (n + m))
    <3>1. p \in (1 .. m) \X (1 .. m)
      BY <1>3
    <3>2. p[1] \in 1 .. m /\ p[2] \in 1 .. m
      BY <3>1
    <3>3. p[1] + n \in 1 .. (n + m) /\ p[2] + n \in 1 .. (n + m)
      BY <1>1, <3>2
    <3> QED
      BY <3>3
  <2> QED
    BY <2>1, <2>2
<1>5. o \subseteq Nat \X Nat
  <2> HIDE DEF o, n, m
  <2>1. 1 .. (n + m) \subseteq Nat
    BY <1>1
  <2> QED
    BY <1>4, <2>1
<1>6. Beside(x, y) = [leaves |-> x.leaves \o y.leaves, order |-> o]
  BY DEF Beside
<1> HIDE DEF o, n, m
<1> QED
  BY <1>2, <1>4, <1>5, <1>6 DEF Flat

(* And so are two with every leaf of the first before those of the second. *)
LEMMA InOrderFlat ==
  ASSUME NEW x \in Flat, NEW y \in Flat
  PROVE  InOrder(x, y) \in Flat
<1> DEFINE b == Beside(x, y)  n == Len(x.leaves)
<1>1. b \in Flat
  BY BesideFlat
<1>2. b.leaves \in Seq(Leaf) /\ Len(b.leaves) \in Nat /\ n \in Nat /\ n <= Len(b.leaves)
  <2>1. x.leaves \in Seq(Leaf) /\ y.leaves \in Seq(Leaf)
    BY DEF Flat
  <2>2. b.leaves = x.leaves \o y.leaves
    BY DEF Beside
  <2> HIDE DEF b
  <2>3. n \in Nat /\ Len(y.leaves) \in Nat
    BY <2>1
  <2>4. Len(b.leaves) = n + Len(y.leaves)
    BY <2>1, <2>2
  <2>5. b.leaves \in Seq(Leaf)
    BY <2>1, <2>2
  <2> HIDE DEF n
  <2>6. Len(b.leaves) \in Nat /\ n <= Len(b.leaves)
    BY <2>3, <2>4
  <2> QED
    BY <2>3, <2>5, <2>6
<1> DEFINE o == b.order \cup ((1 .. n) \X ((n + 1) .. Len(b.leaves)))
<1>3. InOrder(x, y) = [b EXCEPT !.order = o]
  BY DEF InOrder
<1> HIDE DEF b, n
<1>4. o \subseteq (1 .. Len(b.leaves)) \X (1 .. Len(b.leaves))
  BY <1>1, <1>2 DEF Flat
<1>5. o \subseteq Nat \X Nat
  BY <1>2, <1>4
<1> HIDE DEF o
<1> QED
  BY <1>1, <1>3, <1>4, <1>5 DEF Flat

LEMMA NothingFlat == Nothing \in Flat
BY DEF Nothing, Flat

(* Every Allow has a depth: its parts were there before it. *)
Depth(rank) ==
  /\ rank \in [Allows -> Nat]
  /\ \A a \in Allows : a.form = "seq" => rank[a.parts[1]] < rank[a] /\ rank[a.parts[2]] < rank[a]

LEMMA DepthExists == \E rank : Depth(rank)
<1> DEFINE F == [S \in SUBSET Allows |-> {a \in Allows : a.form = "seq" => a.parts \in S \X S}]
<1>1. F \in [SUBSET Allows -> SUBSET Allows] /\ {} \in SUBSET Allows
  OBVIOUS
<1>2. PICK h : Iterate(h, SUBSET Allows, {}, F)
  <2> HIDE DEF F
  <2> QED
    BY <1>1, Iterates
<1>3. /\ h \in [Nat -> SUBSET Allows] /\ h[0] = {}
      /\ \A n \in Nat : h[n + 1] = {a \in Allows : a.form = "seq" => a.parts \in h[n] \X h[n]}
  BY <1>2 DEF Iterate
<1> HIDE DEF F
<1>4. \A n \in Nat : h[n] \subseteq h[n + 1]
  <2> DEFINE S == {n \in Nat : h[n] \subseteq h[n + 1]}
  <2>1. 0 \in S
    BY <1>3
  <2>2. ASSUME NEW n \in Nat, n \in S PROVE n + 1 \in S
    <3>1. n + 1 \in Nat /\ h[n] \subseteq h[n + 1]
      BY <2>2
    <3>2. ASSUME NEW a \in h[n + 1] PROVE a \in h[(n + 1) + 1]
      <4>1. a \in Allows /\ (a.form = "seq" => a.parts \in h[n] \X h[n])
        BY <1>3, <3>2
      <4>2. a.form = "seq" => a.parts \in h[n + 1] \X h[n + 1]
        BY <3>1, <4>1
      <4> QED
        BY <1>3, <3>1, <4>1, <4>2
    <3> QED
      BY <3>1, <3>2
  <2> HIDE DEF S
  <2>3. Nat \subseteq S
    BY <2>1, <2>2, Inductive
  <2> QED
    BY <2>3 DEF S
<1>5. \A n, m \in Nat : h[n] \subseteq h[n + m]
  <2> SUFFICES ASSUME NEW n \in Nat PROVE \A m \in Nat : h[n] \subseteq h[n + m]
    OBVIOUS
  <2> DEFINE S == {m \in Nat : h[n] \subseteq h[n + m]}
  <2>1. 0 \in S
    OBVIOUS
  <2>2. ASSUME NEW m \in Nat, m \in S PROVE m + 1 \in S
    <3>1. n + m \in Nat /\ n + (m + 1) = (n + m) + 1
      OBVIOUS
    <3> QED
      BY <1>4, <2>2, <3>1
  <2> HIDE DEF S
  <2>3. Nat \subseteq S
    BY <2>1, <2>2, Inductive
  <2> QED
    BY <2>3 DEF S
<1> DEFINE T == {a \in Allows : \E n \in Nat : a \in h[n]}
<1>6. T = Allows
  <2>1. ASSUME NEW a \in Allows, a.form = "seq" => a.parts \in T \X T PROVE a \in T
    <3>1. CASE a.form # "seq"
      <4>1. a \in h[0 + 1]
        BY <1>3, <3>1
      <4> QED
        BY <4>1
    <3>2. CASE a.form = "seq"
      <4>1. PICK n \in Nat, m \in Nat : a.parts[1] \in h[n] /\ a.parts[2] \in h[m]
        BY <2>1, <3>2
      <4>2. h[n] \subseteq h[n + m] /\ h[m] \subseteq h[n + m] /\ n + m \in Nat
        <5>1. m + n = n + m
          OBVIOUS
        <5> QED
          BY <1>5, <5>1
      <4>3. a.parts \in Allows \X Allows
        BY <3>2, AllowsClosed
      <4>4. a.parts \in h[n + m] \X h[n + m]
        BY <4>1, <4>2, <4>3
      <4>5. a \in h[(n + m) + 1]
        BY <1>3, <4>2, <4>4
      <4> QED
        BY <4>2, <4>5
    <3> QED
      BY <3>1, <3>2
  <2>2. T \in SUBSET Allows
    OBVIOUS
  <2> HIDE DEF T
  <2> QED
    BY <2>1, <2>2, AllowsAreTrees
<1> DEFINE Least(a) == CHOOSE n \in Nat : a \in h[n] /\ \A m \in Nat : a \in h[m] => n <= m
<1> DEFINE rank == [a \in Allows |-> Least(a)]
<1>7. ASSUME NEW a \in Allows
      PROVE  Least(a) \in Nat /\ a \in h[Least(a)] /\ \A m \in Nat : a \in h[m] => Least(a) <= m
  <2> DEFINE S == {n \in Nat : a \in h[n]}
  <2>1. S \in SUBSET Nat /\ S # {}
    BY <1>6
  <2>2. PICK n \in S : \A m \in S : n <= m
    <3> HIDE DEF S
    <3> QED
      BY <2>1, LeastExists
  <2>3. n \in Nat /\ a \in h[n] /\ \A m \in Nat : a \in h[m] => n <= m
    BY <2>2
  <2> QED
    BY <2>3
<1>8. ASSUME NEW a \in Allows, a.form = "seq"
      PROVE  rank[a.parts[1]] < rank[a] /\ rank[a.parts[2]] < rank[a]
  <2>1. a.parts \in Allows \X Allows
    BY <1>8, AllowsClosed
  <2>2. rank[a] \in Nat /\ a \in h[rank[a]] /\ rank[a] # 0
    <3>1. rank[a] \in Nat /\ a \in h[rank[a]]
      BY <1>7
    <3> HIDE DEF rank
    <3> QED
      BY <1>3, <3>1
  <2>3. \A b \in Allows : rank[b] \in Nat /\ \A m \in Nat : b \in h[m] => rank[b] <= m
    <3> TAKE b \in Allows
    <3> HIDE DEF Least
    <3> QED
      BY <1>7
  <2> HIDE DEF rank
  <2>4. rank[a] - 1 \in Nat /\ (rank[a] - 1) + 1 = rank[a]
    BY <2>2
  <2>5. a.parts \in h[rank[a] - 1] \X h[rank[a] - 1]
    <3>1. h[(rank[a] - 1) + 1] = {b \in Allows : b.form = "seq" => b.parts \in h[rank[a] - 1] \X h[rank[a] - 1]}
      BY <1>3, <2>4
    <3> QED
      BY <1>8, <2>2, <2>4, <3>1
  <2>6. rank[a.parts[1]] <= rank[a] - 1 /\ rank[a.parts[2]] <= rank[a] - 1
    BY <2>1, <2>3, <2>4, <2>5
  <2>7. rank[a.parts[1]] \in Nat /\ rank[a.parts[2]] \in Nat
    BY <2>1, <2>3
  <2> QED
    BY <2>2, <2>6, <2>7
<1>9. rank \in [Allows -> Nat]
  BY <1>7
<1> HIDE DEF rank
<1>10. Depth(rank)
  BY <1>8, <1>9 DEF Depth
<1> QED
  BY <1>10

(* walk, for a given value of its recursive calls. *)
WalkOnce(f, a) ==
  CASE a.form = "leaf" -> [Nothing EXCEPT !.leaves = <<a.leaf>>]
    [] a.form = "seq"  -> InOrder(f[a.parts[1]], f[a.parts[2]])
    [] OTHER           -> Nothing

LEMMA WalkOnceFlat ==
  ASSUME NEW f, NEW a \in Allows,
         a.form = "seq" => f[a.parts[1]] \in Flat /\ f[a.parts[2]] \in Flat
  PROVE  WalkOnce(f, a) \in Flat
<1>1. CASE a.form = "leaf"
  <2>1. WalkOnce(f, a) = [Nothing EXCEPT !.leaves = <<a.leaf>>]
    BY <1>1 DEF WalkOnce
  <2>2. a.leaf \in Leaf
    BY <1>1 DEF Leaf
  <2>3. WalkOnce(f, a) = [leaves |-> <<a.leaf>>, order |-> {}]
    BY <2>1 DEF Nothing
  <2>4. <<a.leaf>> \in Seq(Leaf)
    BY <2>2
  <2> QED
    BY <2>3, <2>4 DEF Flat
<1>2. CASE a.form = "seq"
  <2>2. f[a.parts[1]] \in Flat /\ f[a.parts[2]] \in Flat
    BY <1>2
  <2>3. WalkOnce(f, a) = InOrder(f[a.parts[1]], f[a.parts[2]])
    BY <1>2 DEF WalkOnce
  <2> QED
    BY <2>2, <2>3, InOrderFlat
<1>3. CASE a.form # "leaf" /\ a.form # "seq"
  <2>1. WalkOnce(f, a) = Nothing
    BY <1>3 DEF WalkOnce
  <2> QED
    BY <2>1, NothingFlat
<1> QED
  BY <1>1, <1>2, <1>3

(* Every Allow flattens to leaves and an order on them (flattenAllows). *)
LEMMA WalkFlat == walk \in [Allows -> Flat]
<1>1. PICK rank : Depth(rank)
  BY DepthExists
<1> DEFINE F == [f \in [Allows -> Flat] |-> [a \in Allows |-> WalkOnce(f, a)]]
<1>2. F \in [[Allows -> Flat] -> [Allows -> Flat]]
  <2>1. ASSUME NEW f \in [Allows -> Flat], NEW a \in Allows PROVE WalkOnce(f, a) \in Flat
    <3>1. a.form = "seq" => a.parts[1] \in Allows /\ a.parts[2] \in Allows
      BY AllowsClosed
    <3> QED
      BY <3>1, WalkOnceFlat
  <2> QED
    BY <2>1
<1>3. Local(Allows, Flat, rank, F)
  <2> SUFFICES ASSUME NEW f \in [Allows -> Flat], NEW g \in [Allows -> Flat], NEW a \in Allows,
                      \A b \in Allows : rank[b] < rank[a] => f[b] = g[b]
               PROVE  WalkOnce(f, a) = WalkOnce(g, a)
    BY DEF Local
  <2>1. a.form = "seq" => f[a.parts[1]] = g[a.parts[1]] /\ f[a.parts[2]] = g[a.parts[2]]
    <3> SUFFICES ASSUME a.form = "seq"
                 PROVE  f[a.parts[1]] = g[a.parts[1]] /\ f[a.parts[2]] = g[a.parts[2]]
      OBVIOUS
    <3>1. a.parts[1] \in Allows /\ a.parts[2] \in Allows
      BY AllowsClosed
    <3>2. rank[a.parts[1]] < rank[a] /\ rank[a.parts[2]] < rank[a]
      BY <1>1 DEF Depth
    <3> QED
      BY <3>1, <3>2
  <2> QED
    BY <2>1 DEF WalkOnce
<1>4. PICK f : Solution(f, Allows, Flat, F)
  <2>1. rank \in [Allows -> Nat] /\ Flat # {}
    BY <1>1, NothingFlat DEF Depth
  <2> HIDE DEF F
  <2> QED
    BY <1>2, <1>3, <2>1, RankRecursion
<1>5. f = [a \in Allows |-> WalkOnce(f, a)]
  BY <1>4 DEF Solution
<1>6. walk = [a \in Allows |-> WalkOnce(walk, a)]
  BY <1>5 DEF walk, WalkOnce
<1>7. ASSUME NEW a \in Allows, \A b \in Allows : rank[b] < rank[a] => walk[b] \in Flat
      PROVE  walk[a] \in Flat
  <2>1. a.form = "seq" => walk[a.parts[1]] \in Flat /\ walk[a.parts[2]] \in Flat
    <3> SUFFICES ASSUME a.form = "seq"
                 PROVE  walk[a.parts[1]] \in Flat /\ walk[a.parts[2]] \in Flat
      OBVIOUS
    <3>1. a.parts[1] \in Allows /\ a.parts[2] \in Allows
      BY AllowsClosed
    <3>2. rank[a.parts[1]] < rank[a] /\ rank[a.parts[2]] < rank[a]
      BY <1>1 DEF Depth
    <3> QED
      BY <1>7, <3>1, <3>2
  <2>2. walk[a] = WalkOnce(walk, a)
    BY <1>6
  <2> QED
    BY <2>1, <2>2, WalkOnceFlat
<1> DEFINE S == {a \in Allows : walk[a] \in Flat}
<1>8. \A a \in Allows : (\A b \in Allows : rank[b] < rank[a] => b \in S) => a \in S
  BY <1>7
<1>9. Allows \subseteq S
  <2> HIDE DEF S
  <2>1. rank \in [Allows -> Nat]
    BY <1>1 DEF Depth
  <2> QED
    BY <1>8, <2>1, RankInduction
<1> QED
  BY <1>6, <1>9

(* A declaration flattens to leaves and an order on them. *)
LEMMA FlattenFlat ==
  ASSUME NEW d \in Seq(Allows)
  PROVE  flattenAllows(d) \in Flat
<1> DEFINE A == 0 .. Len(d)
           Once(f, i) == IF i = 0 THEN Nothing ELSE Beside(f[i - 1], walk[d[i]])
           F == [f \in [A -> Flat] |-> [i \in A |-> Once(f, i)]]
           rank == [i \in A |-> i]
<1>1. ASSUME NEW f, NEW i \in A, i # 0 => f[i - 1] \in Flat PROVE Once(f, i) \in Flat
  <2>1. CASE i = 0
    BY <2>1, NothingFlat
  <2>2. CASE i # 0
    <3>1. d[i] \in Allows
      BY <2>2
    <3>2. walk[d[i]] \in Flat
      BY <3>1, WalkFlat
    <3> QED
      BY <1>1, <2>2, <3>2, BesideFlat
  <2> QED
    BY <2>1, <2>2
<1>2. F \in [[A -> Flat] -> [A -> Flat]]
  <2>1. ASSUME NEW f \in [A -> Flat], NEW i \in A PROVE Once(f, i) \in Flat
    <3>1. i # 0 => i - 1 \in A
      OBVIOUS
    <3> HIDE DEF Once, A
    <3> QED
      BY <1>1, <3>1
  <2> HIDE DEF Once, A
  <2> QED
    BY <2>1
<1>3. Local(A, Flat, rank, F)
  <2> SUFFICES ASSUME NEW f \in [A -> Flat], NEW g \in [A -> Flat], NEW i \in A,
                      \A j \in A : j < i => f[j] = g[j]
               PROVE  Once(f, i) = Once(g, i)
    <3> HIDE DEF Once
    <3> QED
      BY DEF Local
  <2>1. i # 0 => i - 1 \in A /\ i - 1 < i
    OBVIOUS
  <2> QED
    BY <2>1
<1>4. PICK f : Solution(f, A, Flat, F)
  <2>1. rank \in [A -> Nat] /\ Flat # {}
    BY NothingFlat
  <2> HIDE DEF F, rank, A
  <2> QED
    BY <1>2, <1>3, <2>1, RankRecursion
<1>5. f = [i \in A |-> Once(f, i)]
  BY <1>4 DEF Solution
<1> DEFINE upTo == CHOOSE u : u = [i \in A |-> Once(u, i)]
<1>6. upTo = [i \in A |-> Once(upTo, i)]
  BY <1>5
<1>7. flattenAllows(d) = upTo[Len(d)]
  BY DEF flattenAllows
<1> HIDE DEF upTo
<1> DEFINE S == {i \in Nat : i \in A => upTo[i] \in Flat}
<1>8. 0 \in S
  BY <1>6, NothingFlat
<1>9. ASSUME NEW i \in Nat, i \in S PROVE i + 1 \in S
  <2> SUFFICES ASSUME i + 1 \in A PROVE upTo[i + 1] \in Flat
    OBVIOUS
  <2>1. i \in A /\ upTo[i] \in Flat /\ (i + 1) - 1 = i
    BY <1>9
  <2>2. upTo[i + 1] = Once(upTo, i + 1)
    <3> HIDE DEF Once, A
    <3> QED
      BY <1>6
  <2> HIDE DEF Once, A
  <2> QED
    BY <1>1, <2>1, <2>2
<1>10. Nat \subseteq S
  <2> HIDE DEF S
  <2> QED
    BY <1>8, <1>9, Inductive
<1> QED
  BY <1>7, <1>10
------------------------------------------------------------------------------
(* augment: the search for an augmenting path. *)

Search(ls) == [event : Nat, leaf : Nat \ {0}, at : [DOMAIN ls -> Nat], visited : SUBSET DOMAIN ls]
Found(ls)  == [ok : BOOLEAN, at : [DOMAIN ls -> Nat], visited : SUBSET DOMAIN ls]

Skip(s)    == [s EXCEPT !.leaf = @ + 1]
Rehome(s)  == [event |-> s.at[s.leaf], leaf |-> 1, at |-> s.at, visited |-> s.visited \cup {s.leaf}]
GoOn(s, r) == [event |-> s.event, leaf |-> s.leaf + 1, at |-> r.at, visited |-> r.visited]

NotPlaced(s) == [ok |-> FALSE, at |-> s.at, visited |-> s.visited]
PlacedAt(s)  == [ok |-> TRUE, at |-> [s.at EXCEPT ![s.leaf] = s.event], visited |-> s.visited \cup {s.leaf}]
Displace(s, r) == [r EXCEPT !.at = [@ EXCEPT ![s.leaf] = s.event]]

Passed(ev, ls, s) == s.leaf \in s.visited \/ ~matches(ls[s.leaf], ev[s.event])

(* The body of from, for a given value f of its recursive calls. *)
FromOnce(ev, ls, f, s) ==
  IF s.leaf > Len(ls) THEN NotPlaced(s)
  ELSE IF Passed(ev, ls, s) THEN f[Skip(s)]
  ELSE IF s.at[s.leaf] = 0 THEN PlacedAt(s)
  ELSE IF f[Rehome(s)].ok THEN Displace(s, f[Rehome(s)])
  ELSE f[GoOn(s, f[Rehome(s)])]

(* How far the search is from its end: leaves to visit, then leaves to     *)
(* look at.                                                                *)
Unvisited(ls, s) == Cardinality(DOMAIN ls \ s.visited)
Ahead(ls, s) == IF s.leaf > Len(ls) THEN 0 ELSE Len(ls) + 1 - s.leaf
Distance(ls, s) == Unvisited(ls, s) * (Len(ls) + 2) + Ahead(ls, s)

LEMMA UnvisitedNat ==
  ASSUME NEW L, NEW ls \in Seq(L), NEW s \in Search(ls)
  PROVE  Unvisited(ls, s) \in Nat /\ Ahead(ls, s) \in 0 .. Len(ls) /\ Len(ls) \in Nat
         /\ DOMAIN ls = 1 .. Len(ls) /\ IsFiniteSet(DOMAIN ls)
<1>1. Len(ls) \in Nat /\ DOMAIN ls = 1 .. Len(ls)
  OBVIOUS
<1>2. IsFiniteSet(DOMAIN ls)
  BY <1>1, FS_Interval
<1>3. Unvisited(ls, s) \in Nat
  BY <1>2, FS_Subset, FS_CardinalityType DEF Unvisited
<1>4. Ahead(ls, s) \in 0 .. Len(ls)
  BY <1>1 DEF Ahead, Search
<1> QED
  BY <1>1, <1>2, <1>3, <1>4

LEMMA Lexicographic ==
  ASSUME NEW c \in Nat, NEW d \in Nat, NEW n \in Nat, NEW a \in 0 .. n, NEW b \in 0 .. n, c < d
  PROVE  c * (n + 2) + a < d * (n + 2) + b
<1>1. PICK k \in Nat : d = c + 1 + k
  <2>1. d - c - 1 \in Nat
    OBVIOUS
  <2> QED
    BY <2>1
<1>2. d * (n + 2) = c * (n + 2) + (n + 2) + k * (n + 2)
  BY <1>1
<1>3. k * (n + 2) \in Nat /\ c * (n + 2) \in Nat
  OBVIOUS
<1> QED
  BY <1>2, <1>3

(* A search with fewer leaves to visit is nearer to its end. *)
LEMMA FewerUnvisited ==
  ASSUME NEW L, NEW ls \in Seq(L), NEW s \in Search(ls), NEW t \in Search(ls),
         NEW l \in DOMAIN ls, l \notin s.visited, s.visited \cup {l} \subseteq t.visited
  PROVE  Distance(ls, t) < Distance(ls, s)
<1> DEFINE S == DOMAIN ls \ s.visited  T == DOMAIN ls \ t.visited
<1>1. IsFiniteSet(DOMAIN ls) /\ IsFiniteSet(S) /\ IsFiniteSet(T)
  BY UnvisitedNat, FS_Subset
<1>2. T \subseteq S /\ T # S
  OBVIOUS
<1>3. Cardinality(T) < Cardinality(S)
  <2> HIDE DEF S, T
  <2>1. T \in SUBSET S
    BY <1>2
  <2>2. Cardinality(T) <= Cardinality(S) /\ Cardinality(S) # Cardinality(T)
    BY <1>1, <1>2, <2>1, FS_Subset
  <2>3. Cardinality(S) \in Nat /\ Cardinality(T) \in Nat
    BY <1>1, FS_CardinalityType
  <2> QED
    BY <2>2, <2>3
<1>4. Unvisited(ls, t) < Unvisited(ls, s)
  BY <1>3 DEF Unvisited
<1>5. /\ Unvisited(ls, s) \in Nat /\ Unvisited(ls, t) \in Nat /\ Len(ls) \in Nat
      /\ Ahead(ls, s) \in 0 .. Len(ls) /\ Ahead(ls, t) \in 0 .. Len(ls)
  BY UnvisitedNat
<1> QED
  BY <1>4, <1>5, Lexicographic DEF Distance

(* The recursive calls are searches nearer to their end. *)
LEMMA CallsNearer ==
  ASSUME NEW L, NEW ls \in Seq(L), NEW s \in Search(ls), ~(s.leaf > Len(ls))
  PROVE  /\ s.leaf \in DOMAIN ls
         /\ Skip(s) \in Search(ls) /\ Distance(ls, Skip(s)) < Distance(ls, s)
         /\ s.leaf \notin s.visited => Rehome(s) \in Search(ls) /\ Distance(ls, Rehome(s)) < Distance(ls, s)
         /\ s.leaf \notin s.visited =>
              \A r \in Found(ls) : s.visited \cup {s.leaf} \subseteq r.visited =>
                GoOn(s, r) \in Search(ls) /\ Distance(ls, GoOn(s, r)) < Distance(ls, s)
<1>1. Len(ls) \in Nat /\ DOMAIN ls = 1 .. Len(ls)
  OBVIOUS
<1>2. s.leaf \in DOMAIN ls /\ s.leaf \in Nat \ {0}
  BY <1>1 DEF Search
<1>3. Skip(s) \in Search(ls)
  BY DEF Skip, Search
<1>4. Distance(ls, Skip(s)) < Distance(ls, s)
  <2>1. Unvisited(ls, Skip(s)) = Unvisited(ls, s)
    BY DEF Skip, Search, Unvisited
  <2>2. Ahead(ls, Skip(s)) < Ahead(ls, s)
    <3>1. Skip(s).leaf = s.leaf + 1
      BY DEF Skip, Search
    <3> QED
      BY <1>1, <1>2, <3>1 DEF Ahead
  <2>3. Unvisited(ls, s) \in Nat /\ Ahead(ls, s) \in Nat /\ Ahead(ls, Skip(s)) \in Nat
    BY <1>1, <1>3, UnvisitedNat
  <2>4. Unvisited(ls, s) * (Len(ls) + 2) \in Nat
    BY <1>1, <2>3
  <2> QED
    BY <2>1, <2>2, <2>3, <2>4 DEF Distance
<1>5. ASSUME s.leaf \notin s.visited
      PROVE  Rehome(s) \in Search(ls) /\ Distance(ls, Rehome(s)) < Distance(ls, s)
  <2>1. Rehome(s) \in Search(ls)
    <3>1. s.at \in [DOMAIN ls -> Nat] /\ s.at[s.leaf] \in Nat /\ s.visited \cup {s.leaf} \in SUBSET DOMAIN ls
      BY <1>2 DEF Search
    <3> QED
      BY <3>1 DEF Rehome, Search
  <2>2. s.visited \cup {s.leaf} \subseteq Rehome(s).visited
    BY DEF Rehome
  <2> QED
    BY <1>2, <1>5, <2>1, <2>2, FewerUnvisited
<1>6. ASSUME s.leaf \notin s.visited, NEW r \in Found(ls), s.visited \cup {s.leaf} \subseteq r.visited
      PROVE  GoOn(s, r) \in Search(ls) /\ Distance(ls, GoOn(s, r)) < Distance(ls, s)
  <2>1. GoOn(s, r) \in Search(ls) /\ GoOn(s, r).visited = r.visited
    <3>1. /\ s.event \in Nat /\ s.leaf + 1 \in Nat \ {0}
          /\ r.at \in [DOMAIN ls -> Nat] /\ r.visited \in SUBSET DOMAIN ls
      BY DEF Search, Found
    <3>2. GoOn(s, r) = [event |-> s.event, leaf |-> s.leaf + 1, at |-> r.at, visited |-> r.visited]
      BY DEF GoOn
    <3> QED
      BY <3>1, <3>2 DEF Search
  <2> QED
    BY <1>2, <1>6, <2>1, FewerUnvisited
<1> QED
  BY <1>2, <1>3, <1>4, <1>5, <1>6

(* The body with the leaves visited so far never given up. *)
Keeping(s, r) == [r EXCEPT !.visited = @ \cup s.visited \cup {s.leaf}]
FromKept(ev, ls, f, s) ==
  IF s.leaf > Len(ls) THEN NotPlaced(s)
  ELSE IF Passed(ev, ls, s) THEN f[Skip(s)]
  ELSE IF s.at[s.leaf] = 0 THEN PlacedAt(s)
  ELSE IF f[Rehome(s)].ok THEN Displace(s, f[Rehome(s)])
  ELSE f[GoOn(s, Keeping(s, f[Rehome(s)]))]

LEMMA KeepingFound ==
  ASSUME NEW L, NEW ls \in Seq(L), NEW s \in Search(ls), s.leaf \in DOMAIN ls, NEW r \in Found(ls)
  PROVE  Keeping(s, r) \in Found(ls) /\ s.visited \cup {s.leaf} \subseteq Keeping(s, r).visited
BY DEF Keeping, Search, Found

LEMMA DisplaceFound ==
  ASSUME NEW L, NEW ls \in Seq(L), NEW s \in Search(ls), s.leaf \in DOMAIN ls, NEW r \in Found(ls)
  PROVE  /\ Displace(s, r) \in Found(ls) /\ PlacedAt(s) \in Found(ls) /\ NotPlaced(s) \in Found(ls)
<1>1. r.at \in [DOMAIN ls -> Nat] /\ s.at \in [DOMAIN ls -> Nat] /\ s.event \in Nat /\ s.visited \in SUBSET DOMAIN ls
  BY DEF Search, Found
<1>2. [r.at EXCEPT ![s.leaf] = s.event] \in [DOMAIN ls -> Nat]
      /\ [s.at EXCEPT ![s.leaf] = s.event] \in [DOMAIN ls -> Nat]
  BY <1>1
<1>3. s.visited \cup {s.leaf} \in SUBSET DOMAIN ls
  BY <1>1
<1> QED
  BY <1>1, <1>2, <1>3 DEF Displace, PlacedAt, NotPlaced, Found

LEMMA FromKeptFound ==
  ASSUME NEW L, NEW ls \in Seq(L), NEW ev, NEW f \in [Search(ls) -> Found(ls)], NEW s \in Search(ls)
  PROVE  FromKept(ev, ls, f, s) \in Found(ls)
<1>1. CASE s.leaf > Len(ls)
  <2>1. FromKept(ev, ls, f, s) = NotPlaced(s)
    BY <1>1 DEF FromKept
  <2> QED
    BY <2>1 DEF NotPlaced, Found, Search
<1>2. CASE ~(s.leaf > Len(ls))
  <2>1. s.leaf \in DOMAIN ls /\ Skip(s) \in Search(ls)
    BY <1>2, CallsNearer
  <2>2. CASE Passed(ev, ls, s)
    BY <1>2, <2>1, <2>2 DEF FromKept
  <2>3. CASE ~Passed(ev, ls, s)
    <3>1. s.leaf \notin s.visited
      BY <2>3 DEF Passed
    <3>2. Rehome(s) \in Search(ls)
      BY <1>2, <3>1, CallsNearer
    <3> DEFINE r == f[Rehome(s)]
    <3>3. r \in Found(ls)
      BY <3>2
    <3>4. Keeping(s, r) \in Found(ls) /\ s.visited \cup {s.leaf} \subseteq Keeping(s, r).visited
      BY <2>1, <3>3, KeepingFound
    <3>5. GoOn(s, Keeping(s, r)) \in Search(ls)
      BY <1>2, <3>1, <3>4, CallsNearer
    <3>6. FromKept(ev, ls, f, s) \in {PlacedAt(s), Displace(s, r), f[GoOn(s, Keeping(s, r))]}
      BY <1>2, <2>3 DEF FromKept
    <3>7. PlacedAt(s) \in Found(ls) /\ Displace(s, r) \in Found(ls)
      BY <2>1, <3>3, DisplaceFound
    <3> HIDE DEF r
    <3> QED
      BY <3>5, <3>6, <3>7
  <2> QED
    BY <2>2, <2>3
<1> QED
  BY <1>1, <1>2

IsFrom(ev, ls, f) == f = [s \in Search(ls) |-> FromOnce(ev, ls, f, s)]

(* The search ends, whatever the leaves, the events and the assignment. *)
LEMMA FromExists ==
  ASSUME NEW L, NEW ls \in Seq(L), NEW ev
  PROVE  \E f : IsFrom(ev, ls, f)
<1> DEFINE A == Search(ls)  X == Found(ls)
           F == [f \in [A -> X] |-> [s \in A |-> FromKept(ev, ls, f, s)]]
           rank == [s \in A |-> Distance(ls, s)]
<1>0. ASSUME NEW s \in A PROVE Distance(ls, s) \in Nat
  <2>1. Unvisited(ls, s) \in Nat /\ Ahead(ls, s) \in 0 .. Len(ls) /\ Len(ls) \in Nat
    BY UnvisitedNat
  <2>2. Unvisited(ls, s) * (Len(ls) + 2) \in Nat
    BY <2>1
  <2> QED
    BY <2>1, <2>2 DEF Distance
<1>1. F \in [[A -> X] -> [A -> X]]
  BY FromKeptFound
<1>2. Local(A, X, rank, F)
  <2> SUFFICES ASSUME NEW f \in [A -> X], NEW g \in [A -> X], NEW s \in A,
                      \A t \in A : Distance(ls, t) < Distance(ls, s) => f[t] = g[t]
               PROVE  FromKept(ev, ls, f, s) = FromKept(ev, ls, g, s)
    BY DEF Local
  <2>1. CASE s.leaf > Len(ls)
    BY <2>1 DEF FromKept
  <2>2. CASE ~(s.leaf > Len(ls))
    <3>1. s.leaf \in DOMAIN ls /\ f[Skip(s)] = g[Skip(s)]
      BY <2>2, CallsNearer
    <3>2. CASE Passed(ev, ls, s)
      BY <2>2, <3>1, <3>2 DEF FromKept
    <3>3. CASE ~Passed(ev, ls, s)
      <4>1. s.leaf \notin s.visited
        BY <3>3 DEF Passed
      <4>2. Rehome(s) \in A /\ f[Rehome(s)] = g[Rehome(s)]
        BY <2>2, <4>1, CallsNearer
      <4> DEFINE k == Keeping(s, f[Rehome(s)])
      <4>3. k \in Found(ls) /\ s.visited \cup {s.leaf} \subseteq k.visited
        BY <3>1, <4>2, KeepingFound
      <4>4. GoOn(s, k) \in A /\ Distance(ls, GoOn(s, k)) < Distance(ls, s)
        <5> HIDE DEF k
        <5> QED
          BY <2>2, <4>1, <4>3, CallsNearer
      <4>5. f[GoOn(s, k)] = g[GoOn(s, k)]
        BY <4>4
      <4> QED
        BY <2>2, <3>3, <4>2, <4>5 DEF FromKept
    <3> QED
      BY <3>2, <3>3
  <2> QED
    BY <2>1, <2>2
<1>3. PICK f : Solution(f, A, X, F)
  <2>1. rank \in [A -> Nat]
    BY <1>0
  <2>2. X # {}
    <3>1. [ok |-> TRUE, at |-> [l \in DOMAIN ls |-> 0], visited |-> {}] \in X
      BY DEF Found
    <3> QED
      BY <3>1
  <2> HIDE DEF A, X, F, rank
  <2> QED
    BY <1>1, <1>2, <2>1, <2>2, RankRecursion
<1>4. f \in [A -> X] /\ f = [s \in A |-> FromKept(ev, ls, f, s)]
  BY <1>3 DEF Solution
<1> DEFINE S == {s \in A : s.visited \subseteq f[s].visited}
<1>5. ASSUME NEW s \in A, \A t \in A : Distance(ls, t) < Distance(ls, s) => t \in S
      PROVE  s \in S /\ FromKept(ev, ls, f, s) = FromOnce(ev, ls, f, s)
  <2>0. f[s] = FromKept(ev, ls, f, s)
    BY <1>4
  <2>1. CASE s.leaf > Len(ls)
    BY <2>0, <2>1 DEF FromKept, FromOnce, NotPlaced
  <2>2. CASE ~(s.leaf > Len(ls))
    <3>1. s.leaf \in DOMAIN ls /\ Skip(s) \in S
      BY <1>5, <2>2, CallsNearer
    <3>2. CASE Passed(ev, ls, s)
      <4>1. f[s] = f[Skip(s)] /\ FromOnce(ev, ls, f, s) = f[Skip(s)]
        BY <2>0, <2>2, <3>2 DEF FromKept, FromOnce
      <4>2. Skip(s).visited = s.visited
        BY DEF Skip, Search
      <4> QED
        BY <2>0, <3>1, <4>1, <4>2
    <3>3. CASE ~Passed(ev, ls, s)
      <4>1. s.leaf \notin s.visited
        BY <3>3 DEF Passed
      <4> DEFINE r == f[Rehome(s)]
      <4>2. Rehome(s) \in A /\ Rehome(s) \in S
        BY <1>5, <2>2, <4>1, CallsNearer
      <4>3. r \in Found(ls) /\ s.visited \cup {s.leaf} \subseteq r.visited
        BY <1>4, <4>2 DEF Rehome
      <4>4. Keeping(s, r) = r
        <5>1. r.visited \cup s.visited \cup {s.leaf} = r.visited
          BY <4>3
        <5> HIDE DEF r
        <5> QED
          BY <4>3, <5>1 DEF Keeping, Found
      <4>5. GoOn(s, r) \in S
        <5> HIDE DEF r
        <5> QED
          BY <1>5, <2>2, <4>1, <4>3, CallsNearer
      <4>6. GoOn(s, r).visited = r.visited /\ Displace(s, r).visited = r.visited
            /\ PlacedAt(s).visited = s.visited \cup {s.leaf}
        <5> HIDE DEF r
        <5> QED
          BY <4>3 DEF GoOn, Displace, PlacedAt, Found
      <4>7. FromKept(ev, ls, f, s) = FromOnce(ev, ls, f, s)
        BY <4>4 DEF FromKept, FromOnce
      <4>8. f[s] \in {PlacedAt(s), Displace(s, r), f[GoOn(s, r)]}
        BY <2>0, <2>2, <3>3, <4>7 DEF FromOnce
      <4>9. s.visited \subseteq f[s].visited
        <5>1. r.visited \subseteq f[GoOn(s, r)].visited
          BY <4>5, <4>6
        <5> HIDE DEF r
        <5> QED
          BY <4>3, <4>6, <4>8, <5>1
      <4> QED
        BY <4>7, <4>9
    <3> QED
      BY <3>2, <3>3
  <2> QED
    BY <2>1, <2>2
<1>6. A \subseteq S
  <2>1. rank \in [A -> Nat]
    BY <1>0
  <2>2. \A s \in A : (\A t \in A : rank[t] < rank[s] => t \in S) => s \in S
    <3> HIDE DEF S, A
    <3> QED
      BY <1>5
  <2> HIDE DEF S, A, rank
  <2> QED
    BY <2>1, <2>2, RankInduction
<1>7. \A s \in A : FromKept(ev, ls, f, s) = FromOnce(ev, ls, f, s)
  <2> HIDE DEF S, A
  <2> QED
    BY <1>5, <1>6
<1>8. IsFrom(ev, ls, f)
  BY <1>4, <1>7 DEF IsFrom
<1> QED
  BY <1>8

(* The leaves of D hold different events, each of which they match. *)
Holding(ev, ls, pos, D) ==
  /\ \A l \in D : pos[l] # 0 => matches(ls[l], ev[pos[l]])
  /\ \A l, m \in D : pos[l] # 0 /\ pos[l] = pos[m] => l = m

Open(ls, s) == DOMAIN ls \ s.visited
Held(pos, D, e) == \E l \in D : pos[l] = e

(* A search that finds no place changes nothing, and the leaves it visited *)
(* are all the leaves that its event, and the events they hold, match.     *)
Stuck(ev, ls, s, r) ==
  /\ r.at = s.at
  /\ \A l \in r.visited \ s.visited :
       s.at[l] # 0 /\ \A m \in DOMAIN ls : matches(ls[m], ev[s.at[l]]) => m \in r.visited
  /\ \A m \in DOMAIN ls : m >= s.leaf /\ matches(ls[m], ev[s.event]) => m \in r.visited

(* A search that finds one moves events among the leaves open to it, and   *)
(* they hold its event besides those they held.                            *)
Gained(ev, ls, s, r) ==
  /\ \A l \in s.visited : r.at[l] = s.at[l]
  /\ Holding(ev, ls, r.at, Open(ls, s))
  /\ \A e \in Nat \ {0} : Held(r.at, Open(ls, s), e) <=> Held(s.at, Open(ls, s), e) \/ e = s.event

Ready(ev, ls, s) ==
  /\ s.event # 0 /\ Holding(ev, ls, s.at, Open(ls, s))
  /\ ~Held(s.at, Open(ls, s), s.event)

Right(ev, ls, s, r) ==
  /\ r \in Found(ls) /\ s.visited \subseteq r.visited
  /\ ~r.ok => Stuck(ev, ls, s, r)
  /\ r.ok /\ Ready(ev, ls, s) => Gained(ev, ls, s, r)

(* The two ends of a search. *)
LEMMA NotPlacedRight ==
  ASSUME NEW L, NEW ls \in Seq(L), NEW ev, NEW s \in Search(ls), s.leaf > Len(ls)
  PROVE  Right(ev, ls, s, NotPlaced(s))
<1>1. NotPlaced(s) \in Found(ls) /\ s.visited \subseteq NotPlaced(s).visited
  BY DEF NotPlaced, Found, Search
<1>2. Stuck(ev, ls, s, NotPlaced(s))
  <2>1. \A m \in DOMAIN ls : ~(m >= s.leaf)
    BY DEF Search
  <2> QED
    BY <2>1 DEF Stuck, NotPlaced
<1>3. ~NotPlaced(s).ok
  BY DEF NotPlaced
<1> QED
  BY <1>1, <1>2, <1>3 DEF Right

LEMMA PlacedAtRight ==
  ASSUME NEW L, NEW ls \in Seq(L), NEW ev, NEW s \in Search(ls), s.leaf \in DOMAIN ls,
         ~Passed(ev, ls, s), s.at[s.leaf] = 0
  PROVE  Right(ev, ls, s, PlacedAt(s))
<1> DEFINE r == PlacedAt(s)
<1>1. r \in Found(ls) /\ s.visited \subseteq r.visited /\ r.ok
  <2>1. s.at \in [DOMAIN ls -> Nat] /\ s.event \in Nat /\ s.visited \cup {s.leaf} \in SUBSET DOMAIN ls
    BY DEF Search
  <2>2. [s.at EXCEPT ![s.leaf] = s.event] \in [DOMAIN ls -> Nat]
    BY <2>1
  <2> QED
    BY <2>1, <2>2 DEF PlacedAt, Found
<1>2. ASSUME Ready(ev, ls, s) PROVE Gained(ev, ls, s, r)
  <2> DEFINE D == Open(ls, s)
  <2>1. s.leaf \in D /\ matches(ls[s.leaf], ev[s.event]) /\ D \subseteq DOMAIN ls
    BY DEF Passed, Open
  <2>2. /\ s.at \in [DOMAIN ls -> Nat]
        /\ r.at = [s.at EXCEPT ![s.leaf] = s.event]
        /\ r.at[s.leaf] = s.event /\ \A l \in DOMAIN ls : l # s.leaf => r.at[l] = s.at[l]
    BY DEF PlacedAt, Search
  <2>3. s.event # 0 /\ Holding(ev, ls, s.at, D) /\ ~Held(s.at, D, s.event)
    BY <1>2 DEF Ready
  <2>4. \A l \in s.visited : r.at[l] = s.at[l]
    BY <2>1, <2>2 DEF Search, Open
  <2> HIDE DEF D, r
  <2>5. Holding(ev, ls, r.at, D)
    BY <2>1, <2>2, <2>3 DEF Holding, Held
  <2>6. \A e \in Nat \ {0} : Held(r.at, D, e) <=> Held(s.at, D, e) \/ e = s.event
    BY <2>1, <2>2, <2>3 DEF Held
  <2> QED
    BY <2>4, <2>5, <2>6 DEF Gained, D
<1> QED
  BY <1>1, <1>2 DEF Right

(* A leaf passed over is not one this event needs. *)
LEMMA SkipRight ==
  ASSUME NEW L, NEW ls \in Seq(L), NEW ev, NEW s \in Search(ls), s.leaf \in DOMAIN ls,
         Passed(ev, ls, s), NEW r, Right(ev, ls, Skip(s), r)
  PROVE  Right(ev, ls, s, r)
<1> DEFINE t == Skip(s)
<1>1. t.event = s.event /\ t.at = s.at /\ t.visited = s.visited /\ t.leaf = s.leaf + 1 /\ s.leaf \in Nat
  BY DEF Skip, Search
<1>2. DOMAIN ls \subseteq Nat
  OBVIOUS
<1> HIDE DEF t
<1>3. Right(ev, ls, t, r)
  BY DEF t
<1>4. ASSUME Stuck(ev, ls, t, r) PROVE Stuck(ev, ls, s, r)
  <2>1. ASSUME NEW m \in DOMAIN ls, m >= s.leaf, matches(ls[m], ev[s.event]) PROVE m \in r.visited
    <3>1. CASE m = s.leaf
      BY <1>1, <1>3, <2>1, <3>1 DEF Passed, Right
    <3>2. CASE m # s.leaf
      <4>1. m >= t.leaf
        BY <1>1, <1>2, <2>1, <3>2
      <4> QED
        BY <1>1, <1>4, <2>1, <4>1 DEF Stuck
    <3> QED
      BY <3>1, <3>2
  <2> QED
    BY <1>1, <1>4, <2>1 DEF Stuck
<1>5. Open(ls, t) = Open(ls, s)
  BY <1>1 DEF Open
<1>6. Ready(ev, ls, s) => Ready(ev, ls, t)
  BY <1>1, <1>5 DEF Ready
<1>7. Gained(ev, ls, t, r) => Gained(ev, ls, s, r)
  BY <1>1, <1>5 DEF Gained
<1> QED
  BY <1>1, <1>3, <1>4, <1>6, <1>7 DEF Right

(* The event a leaf held found another home: the leaf takes this one. *)
LEMMA DisplaceRight ==
  ASSUME NEW L, NEW ls \in Seq(L), NEW ev, NEW s \in Search(ls), s.leaf \in DOMAIN ls,
         ~Passed(ev, ls, s), s.at[s.leaf] # 0, NEW q, Right(ev, ls, Rehome(s), q), q.ok
  PROVE  Right(ev, ls, s, Displace(s, q))
<1> DEFINE t == Rehome(s)  r == Displace(s, q)
<1>1. /\ t.event = s.at[s.leaf] /\ t.at = s.at /\ t.visited = s.visited \cup {s.leaf}
      /\ s.at \in [DOMAIN ls -> Nat] /\ s.event \in Nat
  BY DEF Rehome, Search
<1>2. q \in Found(ls) /\ t.visited \subseteq q.visited
  BY DEF Right
<1>3. /\ r \in Found(ls) /\ r.ok /\ r.visited = q.visited
      /\ r.at[s.leaf] = s.event /\ \A l \in DOMAIN ls : l # s.leaf => r.at[l] = q.at[l]
  <2>1. q.at \in [DOMAIN ls -> Nat]
    BY <1>2 DEF Found
  <2>2. r.at = [q.at EXCEPT ![s.leaf] = s.event] /\ r.ok = q.ok /\ r.visited = q.visited
    BY <1>2 DEF Displace, Found
  <2>3. r \in Found(ls)
    BY <1>2, DisplaceFound
  <2> HIDE DEF r
  <2> QED
    BY <2>1, <2>2, <2>3
<1>4. ASSUME Ready(ev, ls, s) PROVE Gained(ev, ls, s, r)
  <2> DEFINE D == Open(ls, s)  E == Open(ls, t)
  <2>1. s.leaf \in D /\ matches(ls[s.leaf], ev[s.event]) /\ D \subseteq DOMAIN ls
    BY DEF Passed, Open
  <2>2. E \subseteq D /\ s.leaf \notin E /\ \A l \in D : l # s.leaf => l \in E
    BY <1>1 DEF Open
  <2>3. s.event # 0 /\ Holding(ev, ls, s.at, D) /\ ~Held(s.at, D, s.event)
    BY <1>4 DEF Ready
  <2> HIDE DEF D, E, r, t
  <2>4. Holding(ev, ls, t.at, E) /\ ~Held(t.at, E, t.event) /\ t.event # 0
    BY <1>1, <2>1, <2>2, <2>3 DEF Holding, Held
  <2>5. Gained(ev, ls, t, q)
    <3>1. Right(ev, ls, t, q)
      BY DEF t
    <3>2. Ready(ev, ls, t)
      BY <2>4 DEF Ready, E
    <3> QED
      BY <3>1, <3>2 DEF Right
  <2>6. /\ \A l \in t.visited : q.at[l] = s.at[l]
        /\ Holding(ev, ls, q.at, E)
        /\ \A e \in Nat \ {0} : Held(q.at, E, e) <=> Held(s.at, E, e) \/ e = s.at[s.leaf]
    BY <1>1, <2>5 DEF Gained, E
  <2>7. \A l \in s.visited : r.at[l] = s.at[l]
    <3>1. \A l \in s.visited : l \in DOMAIN ls /\ l # s.leaf /\ l \in t.visited
      BY <1>1, <2>1 DEF Search, D, Open
    <3> QED
      BY <1>3, <2>6, <3>1
  <2>8. ~Held(q.at, E, s.event)
    BY <1>1, <2>1, <2>2, <2>3, <2>6 DEF Held
  <2>9. \A l \in E : r.at[l] = q.at[l]
    BY <1>3, <2>1, <2>2
  <2>10. Holding(ev, ls, r.at, D)
    BY <1>3, <2>1, <2>2, <2>3, <2>6, <2>8, <2>9, SMTT(30) DEF Holding, Held
  <2>11. \A e \in Nat \ {0} : Held(r.at, D, e) <=> Held(s.at, D, e) \/ e = s.event
    <3> TAKE e \in Nat \ {0}
    <3>1. Held(r.at, D, e) <=> e = s.event \/ Held(q.at, E, e)
      BY <1>3, <2>1, <2>2, <2>9 DEF Held
    <3>2. Held(s.at, D, e) <=> e = s.at[s.leaf] \/ Held(s.at, E, e)
      BY <2>1, <2>2 DEF Held
    <3> QED
      BY <2>6, <3>1, <3>2
  <2> QED
    BY <2>7, <2>10, <2>11 DEF Gained, D
<1>5. s.visited \subseteq r.visited
  <2> HIDE DEF r, t
  <2> QED
    BY <1>1, <1>2, <1>3
<1> HIDE DEF r
<1>6. Right(ev, ls, s, r)
  BY <1>3, <1>4, <1>5 DEF Right
<1> QED
  BY <1>6 DEF r

(* It found none, and the search goes on past the leaves visited for it. *)
LEMMA GoOnRight ==
  ASSUME NEW L, NEW ls \in Seq(L), NEW ev, NEW s \in Search(ls), s.leaf \in DOMAIN ls,
         ~Passed(ev, ls, s), s.at[s.leaf] # 0, NEW q, Right(ev, ls, Rehome(s), q), ~q.ok,
         NEW r, Right(ev, ls, GoOn(s, q), r)
  PROVE  Right(ev, ls, s, r)
<1> DEFINE t == Rehome(s)  u == GoOn(s, q)
<1>1. /\ t.event = s.at[s.leaf] /\ t.at = s.at /\ t.visited = s.visited \cup {s.leaf} /\ t.leaf = 1
      /\ s.at \in [DOMAIN ls -> Nat] /\ s.event \in Nat /\ s.leaf \in Nat
  BY DEF Rehome, Search
<1>2. q \in Found(ls) /\ t.visited \subseteq q.visited /\ Stuck(ev, ls, t, q)
  BY DEF Right
<1>3. u.event = s.event /\ u.leaf = s.leaf + 1 /\ u.at = s.at /\ u.visited = q.visited
  BY <1>1, <1>2 DEF GoOn, Stuck
<1>4. r \in Found(ls) /\ q.visited \subseteq r.visited
  BY <1>3 DEF Right
<1>5. DOMAIN ls \subseteq Nat /\ \A m \in DOMAIN ls : m >= 1
  OBVIOUS
<1>6. s.visited \subseteq q.visited /\ s.leaf \in q.visited /\ s.leaf \notin s.visited
  BY <1>1, <1>2 DEF Passed
<1>7. ASSUME ~r.ok PROVE Stuck(ev, ls, s, r)
  <2>1. Stuck(ev, ls, u, r)
    BY <1>7 DEF Right
  <2> HIDE DEF t, u
  <2>2. ASSUME NEW l \in r.visited \ s.visited
        PROVE  s.at[l] # 0 /\ \A m \in DOMAIN ls : matches(ls[m], ev[s.at[l]]) => m \in r.visited
    <3>1. CASE l \notin q.visited
      BY <1>3, <2>1, <3>1 DEF Stuck
    <3>2. CASE l \in q.visited /\ l # s.leaf
      BY <1>1, <1>2, <1>4, <3>2 DEF Stuck
    <3>3. CASE l = s.leaf
      BY <1>1, <1>2, <1>4, <1>5, <3>3 DEF Stuck
    <3> QED
      BY <3>1, <3>2, <3>3
  <2>3. ASSUME NEW m \in DOMAIN ls, m >= s.leaf, matches(ls[m], ev[s.event]) PROVE m \in r.visited
    <3>1. CASE m = s.leaf
      BY <1>4, <1>6, <3>1
    <3>2. CASE m # s.leaf
      <4>1. m >= u.leaf
        BY <1>1, <1>3, <1>5, <2>3, <3>2
      <4> QED
        BY <1>3, <2>1, <2>3, <4>1 DEF Stuck
    <3> QED
      BY <3>1, <3>2
  <2>4. r.at = s.at
    BY <1>3, <2>1 DEF Stuck
  <2> QED
    BY <2>2, <2>3, <2>4 DEF Stuck
<1>8. ASSUME r.ok, Ready(ev, ls, s) PROVE Gained(ev, ls, s, r)
  <2> DEFINE D == Open(ls, s)  E == Open(ls, u)
  <2>1. E \subseteq D /\ \A l \in D : l \in E \/ l \in q.visited
    BY <1>3, <1>6 DEF Open
  <2>2. s.event # 0 /\ Holding(ev, ls, s.at, D) /\ ~Held(s.at, D, s.event)
    BY <1>8 DEF Ready
  <2> HIDE DEF D, E, t, u
  <2>3. Holding(ev, ls, u.at, E) /\ ~Held(u.at, E, u.event) /\ u.event # 0
    BY <1>3, <2>1, <2>2 DEF Holding, Held
  <2>4. Gained(ev, ls, u, r)
    <3>1. Right(ev, ls, u, r)
      BY DEF u
    <3>2. Ready(ev, ls, u)
      BY <2>3 DEF Ready, E
    <3> QED
      BY <1>8, <3>1, <3>2 DEF Right
  <2>5. /\ \A l \in q.visited : r.at[l] = s.at[l]
        /\ Holding(ev, ls, r.at, E)
        /\ \A e \in Nat \ {0} : Held(r.at, E, e) <=> Held(s.at, E, e) \/ e = s.event
    BY <1>3, <2>4 DEF Gained, E
  <2>6. \A l \in s.visited : r.at[l] = s.at[l]
    BY <1>6, <2>5
  <2>7. r.at \in [DOMAIN ls -> Nat] /\ D \subseteq DOMAIN ls
    BY <1>4 DEF Found, D, Open
  <2>8. Holding(ev, ls, r.at, D)
    <3>1. ASSUME NEW l \in D, r.at[l] # 0 PROVE matches(ls[l], ev[r.at[l]])
      BY <2>1, <2>2, <2>5, <3>1 DEF Holding
    <3>2. ASSUME NEW l \in D, NEW m \in D, r.at[l] # 0, r.at[l] = r.at[m] PROVE l = m
      <4>1. CASE l \in E /\ m \in E
        BY <2>5, <3>2, <4>1 DEF Holding
      <4>2. CASE l \notin E /\ m \notin E
        BY <2>1, <2>2, <2>5, <3>2, <4>2 DEF Holding
      <4>3. ASSUME NEW x \in D, NEW y \in D, x \in E, y \notin E, r.at[x] # 0, r.at[x] = r.at[y] PROVE FALSE
        <5>1. r.at[y] = s.at[y] /\ r.at[x] \in Nat \ {0} /\ Held(r.at, E, r.at[x])
          BY <2>1, <2>5, <2>7, <4>3 DEF Held
        <5>2. CASE r.at[x] = s.event
          BY <2>2, <4>3, <5>1, <5>2 DEF Held
        <5>3. CASE Held(s.at, E, r.at[x])
          <6>1. PICK z \in E : s.at[z] = r.at[x]
            BY <5>3 DEF Held
          <6>2. z = y
            BY <2>1, <2>2, <4>3, <5>1, <6>1 DEF Holding
          <6> QED
            BY <4>3, <6>2
        <5> QED
          BY <2>5, <5>1, <5>2, <5>3
      <4> QED
        BY <3>2, <4>1, <4>2, <4>3
    <3> QED
      BY <3>1, <3>2 DEF Holding
  <2>9. \A e \in Nat \ {0} : Held(r.at, D, e) <=> Held(s.at, D, e) \/ e = s.event
    <3> TAKE e \in Nat \ {0}
    <3>1. \A l \in D : l \notin E => r.at[l] = s.at[l]
      BY <2>1, <2>5
    <3>2. Held(r.at, D, e) <=> Held(r.at, E, e) \/ \E l \in D : l \notin E /\ s.at[l] = e
      BY <2>1, <3>1 DEF Held
    <3>3. Held(s.at, D, e) <=> Held(s.at, E, e) \/ \E l \in D : l \notin E /\ s.at[l] = e
      BY <2>1 DEF Held
    <3> QED
      BY <2>5, <3>2, <3>3
  <2> QED
    BY <2>6, <2>8, <2>9 DEF Gained, D
<1> QED
  BY <1>4, <1>6, <1>7, <1>8 DEF Right

(* What every search computes. *)
LEMMA FromRight ==
  ASSUME NEW L, NEW ls \in Seq(L), NEW ev, NEW f, IsFrom(ev, ls, f), NEW s \in Search(ls)
  PROVE  Right(ev, ls, s, f[s])
<1> DEFINE A == Search(ls)
           S == {t \in A : Right(ev, ls, t, f[t])}
           rank == [t \in A |-> Distance(ls, t)]
<1>1. rank \in [A -> Nat]
  <2>1. ASSUME NEW t \in A PROVE Distance(ls, t) \in Nat
    <3>1. Unvisited(ls, t) \in Nat /\ Ahead(ls, t) \in 0 .. Len(ls) /\ Len(ls) \in Nat
      BY UnvisitedNat
    <3>2. Unvisited(ls, t) * (Len(ls) + 2) \in Nat
      BY <3>1
    <3> QED
      BY <3>1, <3>2 DEF Distance
  <2> QED
    BY <2>1
<1>2. ASSUME NEW t \in A, \A u \in A : Distance(ls, u) < Distance(ls, t) => Right(ev, ls, u, f[u])
      PROVE  Right(ev, ls, t, f[t])
  <2>0. f[t] = FromOnce(ev, ls, f, t)
    BY DEF IsFrom
  <2>1. CASE t.leaf > Len(ls)
    <3>1. f[t] = NotPlaced(t)
      BY <2>0, <2>1 DEF FromOnce
    <3> QED
      BY <2>1, <3>1, NotPlacedRight
  <2>2. CASE ~(t.leaf > Len(ls))
    <3>1. t.leaf \in DOMAIN ls /\ Skip(t) \in A /\ Distance(ls, Skip(t)) < Distance(ls, t)
      BY <2>2, CallsNearer
    <3>2. CASE Passed(ev, ls, t)
      <4>1. f[t] = f[Skip(t)]
        BY <2>0, <2>2, <3>2 DEF FromOnce
      <4>2. Right(ev, ls, Skip(t), f[Skip(t)])
        BY <1>2, <3>1
      <4> QED
        BY <3>1, <3>2, <4>1, <4>2, SkipRight
    <3>3. CASE ~Passed(ev, ls, t)
      <4>1. t.leaf \notin t.visited
        BY <3>3 DEF Passed
      <4> DEFINE q == f[Rehome(t)]
      <4>2. Right(ev, ls, Rehome(t), q)
        BY <1>2, <2>2, <4>1, CallsNearer
      <4>3. q \in Found(ls) /\ t.visited \cup {t.leaf} \subseteq q.visited
        BY <4>2 DEF Right, Rehome
      <4>4. Right(ev, ls, GoOn(t, q), f[GoOn(t, q)])
        <5> HIDE DEF q
        <5> QED
          BY <1>2, <2>2, <4>1, <4>3, CallsNearer
      <4>5. CASE t.at[t.leaf] = 0
        <5>1. f[t] = PlacedAt(t)
          BY <2>0, <2>2, <3>3, <4>5 DEF FromOnce
        <5> QED
          BY <3>1, <3>3, <4>5, <5>1, PlacedAtRight
      <4>6. CASE t.at[t.leaf] # 0 /\ q.ok
        <5>1. f[t] = Displace(t, q)
          BY <2>0, <2>2, <3>3, <4>6 DEF FromOnce
        <5> HIDE DEF q
        <5> QED
          BY <3>1, <3>3, <4>2, <4>6, <5>1, DisplaceRight
      <4>7. CASE t.at[t.leaf] # 0 /\ ~q.ok
        <5>1. f[t] = f[GoOn(t, q)]
          BY <2>0, <2>2, <3>3, <4>7 DEF FromOnce
        <5> HIDE DEF q
        <5> QED
          BY <3>1, <3>3, <4>2, <4>4, <4>7, <5>1, GoOnRight
      <4> QED
        BY <4>5, <4>6, <4>7
    <3> QED
      BY <3>2, <3>3
  <2> QED
    BY <2>1, <2>2
<1>3. \A t \in A : (\A u \in A : rank[u] < rank[t] => u \in S) => t \in S
  <2> HIDE DEF A
  <2> QED
    BY <1>2
<1>4. A \subseteq S
  <2> HIDE DEF S, A, rank
  <2> QED
    BY <1>1, <1>3, RankInduction
<1> QED
  BY <1>4

Start(first, at0) == [event |-> first, leaf |-> 1, at |-> at0, visited |-> {}]

(* augment is that search, from the first leaf with none visited. *)
LEMMA AugmentIs ==
  ASSUME NEW L, NEW ls \in Seq(L), NEW ev, NEW first, NEW at0
  PROVE  \E f : IsFrom(ev, ls, f) /\ augment(ev, ls, first, at0) = f[Start(first, at0)]
<1> DEFINE g == CHOOSE f : IsFrom(ev, ls, f)
<1>1. IsFrom(ev, ls, g)
  BY FromExists
<1>2. augment(ev, ls, first, at0) = g[Start(first, at0)]
  BY DEF augment, IsFrom, Search, FromOnce, NotPlaced, Passed, Skip, PlacedAt, Rehome, Displace, GoOn, Start
<1> HIDE DEF g
<1> QED
  BY <1>1, <1>2

(* The leaves hold exactly the first n events, each in a leaf it matches. *)
Assigned(ev, ls, pos, n) ==
  /\ pos \in [DOMAIN ls -> Nat]
  /\ Holding(ev, ls, pos, DOMAIN ls)
  /\ \A e \in Nat \ {0} : Held(pos, DOMAIN ls, e) <=> e <= n

(* A way to give each of the first n events a leaf of its own. *)
Housing(ev, ls, n, f) ==
  /\ f \in [1 .. n -> DOMAIN ls]
  /\ \A i \in 1 .. n : matches(ls[f[i]], ev[i])
  /\ \A i, j \in 1 .. n : f[i] = f[j] => i = j

(* A search that is stuck has met more events than the leaves they match   *)
(* have room for.                                                          *)
LEMMA StuckIsFull ==
  ASSUME NEW L, NEW ls \in Seq(L), NEW ev, NEW n \in Nat, NEW at0, Assigned(ev, ls, at0, n), NEW r,
         r.visited \in SUBSET DOMAIN ls, Stuck(ev, ls, Start(n + 1, at0), r),
         NEW f, Housing(ev, ls, n + 1, f)
  PROVE  FALSE
<1> DEFINE V == r.visited  S == V \cup {0}
           k == [x \in S |-> IF x = 0 THEN f[n + 1] ELSE f[at0[x]]]
<1>1. Len(ls) \in Nat /\ DOMAIN ls = 1 .. Len(ls)
  OBVIOUS
<1>2. /\ IsFiniteSet(V) /\ IsFiniteSet(S) /\ 0 \notin V
      /\ Cardinality(V) \in Nat /\ Cardinality(S) = Cardinality(V) + 1
  <2>1. IsFiniteSet(DOMAIN ls)
    BY <1>1, FS_Interval
  <2>2. IsFiniteSet(V) /\ 0 \notin V
    BY <1>1, <2>1, FS_Subset
  <2> HIDE DEF V
  <2> QED
    BY <2>2, FS_AddElement, FS_CardinalityType
<1>3. \A l \in V : /\ at0[l] # 0 /\ at0[l] \in 1 .. n /\ l \in DOMAIN ls
                   /\ \A m \in DOMAIN ls : matches(ls[m], ev[at0[l]]) => m \in V
  <2> TAKE l \in V
  <2>1. at0[l] # 0 /\ \A m \in DOMAIN ls : matches(ls[m], ev[at0[l]]) => m \in V
    BY DEF Stuck, Start
  <2>2. at0[l] \in Nat /\ l \in DOMAIN ls
    BY DEF Assigned
  <2>3. at0[l] <= n
    BY <2>1, <2>2 DEF Assigned, Held
  <2> QED
    BY <2>1, <2>2, <2>3
<1>4. \A m \in DOMAIN ls : matches(ls[m], ev[n + 1]) => m \in V
  BY <1>1 DEF Stuck, Start
<1>5. /\ \A i \in 1 .. (n + 1) : f[i] \in DOMAIN ls /\ matches(ls[f[i]], ev[i])
      /\ \A i, j \in 1 .. (n + 1) : f[i] = f[j] => i = j
  BY DEF Housing
<1> HIDE DEF V
<1>6. ASSUME NEW x \in S PROVE k[x] \in V
  <2>1. CASE x = 0
    BY <1>4, <1>5, <2>1
  <2>2. CASE x # 0
    <3>1. x \in V /\ at0[x] \in 1 .. (n + 1)
      BY <1>3, <2>2
    <3> QED
      BY <1>3, <1>5, <2>2, <3>1
  <2> QED
    BY <2>1, <2>2
<1>7. k \in [S -> V] /\ Cardinality(V) < Cardinality(S)
  <2>1. \A x \in S : (IF x = 0 THEN f[n + 1] ELSE f[at0[x]]) \in V
    BY <1>6
  <2> QED
    BY <1>2, <2>1
<1>8. PICK x \in S, y \in S : x # y /\ k[x] = k[y]
  <2> HIDE DEF S, k
  <2> QED
    BY <1>2, <1>7, FS_PigeonHole
<1>9. \A z \in V : at0[z] \in 1 .. (n + 1) /\ at0[z] # n + 1
  BY <1>3
<1>10. \A z, w \in V : f[at0[z]] = f[at0[w]] => z = w
  <2> TAKE z \in V, w \in V
  <2> HAVE f[at0[z]] = f[at0[w]]
  <2>1. at0[z] = at0[w]
    BY <1>5, <1>9
  <2> QED
    BY <1>3, <2>1 DEF Assigned, Holding
<1>11. \A z \in V : f[at0[z]] # f[n + 1]
  BY <1>5, <1>9
<1> QED
  BY <1>2, <1>8, <1>10, <1>11

(* augment gives the next event a leaf, or there is no way to. *)
LEMMA AugmentRight ==
  ASSUME NEW L, NEW ls \in Seq(L), NEW ev, NEW n \in Nat, NEW at0, Assigned(ev, ls, at0, n)
  PROVE  LET a == augment(ev, ls, n + 1, at0) IN
         /\ a \in Found(ls)
         /\ a.ok => Assigned(ev, ls, a.at, n + 1)
         /\ ~a.ok => ~\E f : Housing(ev, ls, n + 1, f)
<1> DEFINE a == augment(ev, ls, n + 1, at0)  s == Start(n + 1, at0)
<1>1. s \in Search(ls)
  BY DEF Start, Search, Assigned
<1>2. Right(ev, ls, s, a)
  BY <1>1, AugmentIs, FromRight
<1> HIDE DEF a
<1>3. a \in Found(ls) /\ a.visited \in SUBSET DOMAIN ls /\ a.at \in [DOMAIN ls -> Nat]
  BY <1>2 DEF Right, Found
<1>4. ASSUME ~a.ok, NEW f, Housing(ev, ls, n + 1, f) PROVE FALSE
  <2>1. Stuck(ev, ls, s, a)
    BY <1>2, <1>4 DEF Right
  <2> QED
    BY <1>3, <1>4, <2>1, StuckIsFull
<1>5. ASSUME a.ok PROVE Assigned(ev, ls, a.at, n + 1)
  <2>1. Open(ls, s) = DOMAIN ls /\ s.at = at0 /\ s.event = n + 1
    BY DEF Open, Start
  <2>2. Ready(ev, ls, s)
    <3>1. ~Held(at0, DOMAIN ls, n + 1)
      BY DEF Assigned
    <3> QED
      BY <2>1, <3>1 DEF Ready, Assigned
  <2>3. Gained(ev, ls, s, a)
    BY <1>2, <1>5, <2>2 DEF Right
  <2>4. \A e \in Nat \ {0} : Held(a.at, DOMAIN ls, e) <=> e <= n + 1
    <3> TAKE e \in Nat \ {0}
    <3>1. Held(a.at, DOMAIN ls, e) <=> Held(at0, DOMAIN ls, e) \/ e = n + 1
      BY <2>1, <2>3 DEF Gained
    <3>2. Held(at0, DOMAIN ls, e) <=> e <= n
      BY DEF Assigned
    <3> QED
      BY <3>1, <3>2
  <2> QED
    BY <1>3, <2>1, <2>3, <2>4 DEF Gained, Assigned
<1> QED
  BY <1>3, <1>4, <1>5 DEF a
------------------------------------------------------------------------------
(* matchAll: every event in turn. *)

LEMMA AssignmentIsNotNil ==
  ASSUME NEW L, NEW ls \in Seq(L)
  PROVE  NoFit \notin [DOMAIN ls -> Nat]
<1>1. DOMAIN ls = 1 .. Len(ls) /\ Len(ls) \in Nat
  OBVIOUS
<1>2. [1 .. Len(ls) -> Nat] \subseteq Seq(Nat)
  BY <1>1
<1> QED
  BY <1>1, <1>2, NilIsNoAssignment

(* What houses the first n events houses fewer. *)
LEMMA HousingFewer ==
  ASSUME NEW L, NEW ls \in Seq(L), NEW ev, NEW n \in Nat, NEW m \in 0 .. n, NEW f, Housing(ev, ls, n, f)
  PROVE  \E g : Housing(ev, ls, m, g)
<1> DEFINE g == [i \in 1 .. m |-> f[i]]
<1>1. 1 .. m \subseteq 1 .. n
  OBVIOUS
<1>2. \A i \in 1 .. m : i \in 1 .. n /\ g[i] = f[i]
  BY <1>1
<1>3. g \in [1 .. m -> DOMAIN ls]
  BY <1>2 DEF Housing
<1> HIDE DEF g
<1>4. Housing(ev, ls, m, g)
  BY <1>2, <1>3 DEF Housing
<1> QED
  BY <1>4

(* There are no more events housed than leaves. *)
LEMMA HousingFits ==
  ASSUME NEW L, NEW ls \in Seq(L), NEW ev, NEW n \in Nat, NEW f, Housing(ev, ls, n, f)
  PROVE  n <= Len(ls)
<1> SUFFICES ASSUME Len(ls) < n PROVE FALSE
  OBVIOUS
<1>1. Len(ls) \in Nat /\ DOMAIN ls = 1 .. Len(ls)
  OBVIOUS
<1>2. /\ IsFiniteSet(1 .. n) /\ Cardinality(1 .. n) = n
      /\ IsFiniteSet(DOMAIN ls) /\ Cardinality(DOMAIN ls) = Len(ls)
  <2>1. ASSUME NEW k \in Nat PROVE IsFiniteSet(1 .. k) /\ Cardinality(1 .. k) = k
    <3>1. 1 \in Int /\ k \in Int
      OBVIOUS
    <3>2. IsFiniteSet(1 .. k) /\ Cardinality(1 .. k) = IF 1 > k THEN 0 ELSE k - 1 + 1
      BY <3>1, FS_Interval
    <3> QED
      BY <3>2
  <2> QED
    BY <1>1, <2>1
<1>3. PICK i \in 1 .. n, j \in 1 .. n : i # j /\ f[i] = f[j]
  <2>1. f \in [1 .. n -> DOMAIN ls]
    BY DEF Housing
  <2> QED
    BY <1>2, <2>1, FS_PigeonHole
<1> QED
  BY <1>3 DEF Housing

(* The assignment of all the events, or the proof that there is none. *)
Settled(ev, ls, n, pos) ==
  \/ pos # NoFit /\ Assigned(ev, ls, pos, n)
  \/ pos = NoFit /\ ~\E f : Housing(ev, ls, n, f)

LEMMA MatchAllRight ==
  ASSUME NEW L, NEW ls \in Seq(L), NEW M, NEW ev \in Seq(M)
  PROVE  Settled(ev, ls, Len(ev), matchAll(ev, ls))
<1> DEFINE A == 0 .. Len(ev)
           X == [DOMAIN ls -> Nat] \cup {NoFit}
           Aug(e, u) == augment(ev, ls, e, u)
           Once(u, e) == IF e = 0 THEN noAssignment(ls)
                         ELSE IF u[e - 1] = NoFit THEN NoFit
                         ELSE IF Aug(e, u[e - 1]).ok THEN Aug(e, u[e - 1]).at ELSE NoFit
           F == [u \in [A -> X] |-> [e \in A |-> Once(u, e)]]
           rank == [e \in A |-> e]
<1>0. Len(ev) \in Nat /\ noAssignment(ls) \in [DOMAIN ls -> Nat]
  BY DEF noAssignment
<1>1. ASSUME NEW e \in Nat, NEW u \in [DOMAIN ls -> Nat] PROVE Aug(e, u).at \in [DOMAIN ls -> Nat]
  <2>1. Start(e, u) \in Search(ls)
    BY DEF Start, Search
  <2>2. Right(ev, ls, Start(e, u), Aug(e, u))
    BY <2>1, AugmentIs, FromRight
  <2> HIDE DEF Aug
  <2> QED
    BY <2>2 DEF Right, Found
<1> HIDE DEF Aug
<1>2. F \in [[A -> X] -> [A -> X]]
  <2>1. ASSUME NEW u \in [A -> X], NEW e \in A PROVE Once(u, e) \in X
    <3>1. CASE e = 0
      BY <1>0, <3>1
    <3>2. CASE e # 0
      <4>1. e - 1 \in A /\ e \in Nat
        BY <1>0, <3>2
      <4>2. u[e - 1] \in X
        BY <4>1
      <4> QED
        BY <1>1, <3>2, <4>1, <4>2
    <3> QED
      BY <3>1, <3>2
  <2> HIDE DEF A, X, Once
  <2> QED
    BY <2>1
<1>3. Local(A, X, rank, F)
  <2> SUFFICES ASSUME NEW u \in [A -> X], NEW v \in [A -> X], NEW e \in A,
                      \A j \in A : j < e => u[j] = v[j]
               PROVE  Once(u, e) = Once(v, e)
    <3> HIDE DEF Once, X, A
    <3> QED
      BY DEF Local
  <2>1. e # 0 => e - 1 \in A /\ e - 1 < e
    BY <1>0
  <2> QED
    BY <2>1
<1>4. PICK u : Solution(u, A, X, F)
  <2>1. rank \in [A -> Nat] /\ X # {}
    BY <1>0
  <2> HIDE DEF F, rank, A, X
  <2> QED
    BY <1>2, <1>3, <2>1, RankRecursion
<1>5. u = [e \in A |-> Once(u, e)]
  BY <1>4 DEF Solution
<1> DEFINE upTo == CHOOSE v : v = [e \in A |-> Once(v, e)]
<1>6. upTo = [e \in A |-> Once(upTo, e)]
  BY <1>5
<1>7. matchAll(ev, ls) = IF Len(ev) > Len(ls) THEN NoFit ELSE upTo[Len(ev)]
  BY DEF matchAll, Aug
<1> HIDE DEF upTo
<1> DEFINE S == {e \in Nat : e \in A => Settled(ev, ls, e, upTo[e])}
<1>8. 0 \in S
  <2>1. upTo[0] = noAssignment(ls)
    BY <1>0, <1>6
  <2>2. Assigned(ev, ls, noAssignment(ls), 0)
    BY <1>0 DEF Assigned, Holding, Held, noAssignment
  <2>3. noAssignment(ls) # NoFit
    BY <1>0, AssignmentIsNotNil
  <2> QED
    BY <2>1, <2>2, <2>3 DEF Settled
<1>9. ASSUME NEW e \in Nat, e \in S PROVE e + 1 \in S
  <2> SUFFICES ASSUME e + 1 \in A PROVE Settled(ev, ls, e + 1, upTo[e + 1])
    OBVIOUS
  <2>1. e \in A /\ (e + 1) - 1 = e /\ e + 1 # 0
    BY <1>0
  <2>2. Settled(ev, ls, e, upTo[e])
    BY <1>9, <2>1
  <2>3. upTo[e + 1] = IF upTo[e] = NoFit THEN NoFit
                      ELSE IF Aug(e + 1, upTo[e]).ok THEN Aug(e + 1, upTo[e]).at ELSE NoFit
    <3>1. upTo[e + 1] = Once(upTo, e + 1)
      <4> HIDE DEF Once, A
      <4> QED
        BY <1>6
    <3> QED
      BY <2>1, <3>1
  <2>4. CASE upTo[e] = NoFit
    <3>1. ~\E f : Housing(ev, ls, e, f)
      <4>1. ~Assigned(ev, ls, NoFit, e)
        BY AssignmentIsNotNil DEF Assigned
      <4> QED
        BY <2>2, <2>4, <4>1 DEF Settled
    <3>2. ~\E f : Housing(ev, ls, e + 1, f)
      <4>1. e \in 0 .. e + 1 /\ e + 1 \in Nat
        OBVIOUS
      <4> QED
        BY <3>1, <4>1, HousingFewer
    <3> QED
      BY <2>3, <2>4, <3>2 DEF Settled
  <2>5. CASE upTo[e] # NoFit
    <3>1. Assigned(ev, ls, upTo[e], e)
      BY <2>2, <2>5 DEF Settled
    <3> DEFINE a == Aug(e + 1, upTo[e])
    <3>2. /\ a \in Found(ls)
          /\ a.ok => Assigned(ev, ls, a.at, e + 1)
          /\ ~a.ok => ~\E f : Housing(ev, ls, e + 1, f)
      BY <3>1, AugmentRight DEF Aug
    <3> HIDE DEF a
    <3>3. a.at # NoFit
      BY <3>2, AssignmentIsNotNil DEF Found
    <3>4. upTo[e + 1] = IF a.ok THEN a.at ELSE NoFit
      BY <2>3, <2>5 DEF a
    <3> QED
      BY <3>2, <3>3, <3>4 DEF Settled
  <2> QED
    BY <2>4, <2>5
<1>10. Nat \subseteq S
  <2> HIDE DEF S
  <2> QED
    BY <1>8, <1>9, Inductive
<1>11. CASE Len(ev) > Len(ls)
  <2>1. ASSUME NEW f, Housing(ev, ls, Len(ev), f) PROVE FALSE
    <3>1. Len(ev) <= Len(ls)
      BY <1>0, <2>1, HousingFits
    <3>2. Len(ls) \in Nat
      OBVIOUS
    <3> QED
      BY <1>0, <1>11, <3>1, <3>2
  <2> QED
    BY <1>7, <1>11, <2>1 DEF Settled
<1>12. CASE ~(Len(ev) > Len(ls))
  <2>1. Len(ev) \in A
    BY <1>0
  <2> QED
    BY <1>0, <1>7, <1>10, <1>12, <2>1
<1> QED
  BY <1>11, <1>12
------------------------------------------------------------------------------
(* orderedFit: the backtracking search within its budget. *)

Trial(ls) == [event : Nat, leaf : Nat \ {0}, at : [DOMAIN ls -> Nat], budget : Nat]
Tried(ls) == [ok : BOOLEAN, at : [DOMAIN ls -> Nat], budget : Nat]

NextLeaf(s, b) == [event |-> s.event, leaf |-> s.leaf + 1, at |-> s.at, budget |-> b]
Place(s)       == [s.at EXCEPT ![s.leaf] = s.event]
Deeper(s)      == [event |-> s.event + 1, leaf |-> 1, at |-> Place(s), budget |-> s.budget - 1]

Ends(s, ok)    == [ok |-> ok, at |-> s.at, budget |-> s.budget]
OutOfOrder(s)  == [ok |-> FALSE, at |-> s.at, budget |-> s.budget - 1]
Unfit(ev, ls, s)     == s.at[s.leaf] # 0 \/ ~matches(ls[s.leaf], ev[s.event])
Descent(o, f, s) == IF orderHolds(o, Place(s)) THEN f[Deeper(s)] ELSE OutOfOrder(s)

(* The body of fit, for a given value f of its recursive calls. *)
FitOnce(ev, ls, o, f, s) ==
  IF s.event > Len(ev) THEN Ends(s, TRUE)
  ELSE IF s.leaf > Len(ls) \/ s.budget = 0 THEN Ends(s, FALSE)
  ELSE IF Unfit(ev, ls, s) THEN f[NextLeaf(s, s.budget - 1)]
  ELSE IF Descent(o, f, s).ok THEN Descent(o, f, s)
  ELSE f[NextLeaf(s, Descent(o, f, s).budget)]

(* The same with a budget that is never more than what is left. *)
Left(s, b) == IF b < s.budget THEN b ELSE 0
FitCapped(ev, ls, o, f, s) ==
  IF s.event > Len(ev) THEN Ends(s, TRUE)
  ELSE IF s.leaf > Len(ls) \/ s.budget = 0 THEN Ends(s, FALSE)
  ELSE IF Unfit(ev, ls, s) THEN f[NextLeaf(s, s.budget - 1)]
  ELSE IF Descent(o, f, s).ok THEN Descent(o, f, s)
  ELSE f[NextLeaf(s, Left(s, Descent(o, f, s).budget))]

LEMMA EndsTried ==
  ASSUME NEW ls, NEW s \in Trial(ls)
  PROVE  Ends(s, TRUE) \in Tried(ls) /\ Ends(s, FALSE) \in Tried(ls)
BY DEF Ends, Trial, Tried

(* The recursive calls are trials with less to spend. *)
LEMMA CallsCheaper ==
  ASSUME NEW L, NEW ls \in Seq(L), NEW s \in Trial(ls), ~(s.leaf > Len(ls)), s.budget # 0
  PROVE  /\ s.leaf \in DOMAIN ls
         /\ \A b \in Nat : NextLeaf(s, b) \in Trial(ls) /\ NextLeaf(s, b).budget = b
         /\ Deeper(s) \in Trial(ls) /\ Deeper(s).budget = s.budget - 1
         /\ OutOfOrder(s) \in Tried(ls) /\ OutOfOrder(s).budget = s.budget - 1
         /\ s.budget \in Nat /\ s.budget - 1 \in Nat /\ s.budget - 1 < s.budget
         /\ \A b \in Nat : Left(s, b) \in Nat /\ Left(s, b) < s.budget
<1>1. /\ s.leaf \in Nat \ {0} /\ s.event \in Nat /\ s.at \in [DOMAIN ls -> Nat] /\ s.budget \in Nat
  BY DEF Trial
<1>2. s.leaf \in DOMAIN ls
  BY <1>1
<1>3. s.budget - 1 \in Nat /\ s.budget - 1 < s.budget
  BY <1>1
<1>4. ASSUME NEW b \in Nat PROVE NextLeaf(s, b) \in Trial(ls) /\ NextLeaf(s, b).budget = b
  <2>1. s.leaf + 1 \in Nat \ {0}
    BY <1>1
  <2> QED
    BY <1>1, <2>1 DEF NextLeaf, Trial
<1>5. Deeper(s) \in Trial(ls) /\ Deeper(s).budget = s.budget - 1
  <2>1. s.event + 1 \in Nat /\ Place(s) \in [DOMAIN ls -> Nat]
    BY <1>1, <1>2 DEF Place
  <2> QED
    BY <1>3, <2>1 DEF Deeper, Trial
<1>6. OutOfOrder(s) \in Tried(ls) /\ OutOfOrder(s).budget = s.budget - 1
  BY <1>1, <1>3 DEF OutOfOrder, Tried
<1>7. \A b \in Nat : Left(s, b) \in Nat /\ Left(s, b) < s.budget
  BY <1>1 DEF Left
<1> QED
  BY <1>1, <1>2, <1>3, <1>4, <1>5, <1>6, <1>7

LEMMA DescentTried ==
  ASSUME NEW L, NEW ls \in Seq(L), NEW o, NEW f \in [Trial(ls) -> Tried(ls)], NEW s \in Trial(ls),
         ~(s.leaf > Len(ls)), s.budget # 0
  PROVE  Descent(o, f, s) \in Tried(ls) /\ Descent(o, f, s).budget \in Nat
<1>1. Deeper(s) \in Trial(ls) /\ OutOfOrder(s) \in Tried(ls)
  BY CallsCheaper
<1>2. Descent(o, f, s) \in Tried(ls)
  BY <1>1 DEF Descent
<1> QED
  BY <1>2 DEF Tried

LEMMA FitCappedTried ==
  ASSUME NEW L, NEW ls \in Seq(L), NEW ev, NEW o, NEW f \in [Trial(ls) -> Tried(ls)], NEW s \in Trial(ls)
  PROVE  FitCapped(ev, ls, o, f, s) \in Tried(ls)
<1>1. CASE s.event > Len(ev)
  BY <1>1, EndsTried DEF FitCapped
<1>2. CASE ~(s.event > Len(ev)) /\ (s.leaf > Len(ls) \/ s.budget = 0)
  BY <1>2, EndsTried DEF FitCapped
<1>3. CASE ~(s.event > Len(ev)) /\ ~(s.leaf > Len(ls)) /\ s.budget # 0
  <2> DEFINE d == Descent(o, f, s)
  <2>1. d \in Tried(ls) /\ d.budget \in Nat
    BY <1>3, DescentTried
  <2>2. NextLeaf(s, s.budget - 1) \in Trial(ls)
    BY <1>3, CallsCheaper
  <2>3. NextLeaf(s, Left(s, d.budget)) \in Trial(ls)
    <3> HIDE DEF d
    <3> QED
      BY <1>3, <2>1, CallsCheaper
  <2>4. FitCapped(ev, ls, o, f, s) \in {f[NextLeaf(s, s.budget - 1)], d, f[NextLeaf(s, Left(s, d.budget))]}
    BY <1>3 DEF FitCapped
  <2> HIDE DEF d
  <2> QED
    BY <2>1, <2>2, <2>3, <2>4
<1> QED
  BY <1>1, <1>2, <1>3

IsFit(ev, ls, o, f) == f = [s \in Trial(ls) |-> FitOnce(ev, ls, o, f, s)]

(* The search ends and never gains budget. *)
LEMMA FitExists ==
  ASSUME NEW L, NEW ls \in Seq(L), NEW ev, NEW o
  PROVE  \E f : IsFit(ev, ls, o, f)
<1> DEFINE A == Trial(ls)  X == Tried(ls)
           F == [f \in [A -> X] |-> [s \in A |-> FitCapped(ev, ls, o, f, s)]]
           rank == [s \in A |-> s.budget]
<1>0. rank \in [A -> Nat]
  BY DEF Trial
<1>1. F \in [[A -> X] -> [A -> X]]
  BY FitCappedTried
<1>2. Local(A, X, rank, F)
  <2> SUFFICES ASSUME NEW f \in [A -> X], NEW g \in [A -> X], NEW s \in A,
                      \A t \in A : t.budget < s.budget => f[t] = g[t]
               PROVE  FitCapped(ev, ls, o, f, s) = FitCapped(ev, ls, o, g, s)
    BY DEF Local
  <2>1. CASE s.event > Len(ev) \/ s.leaf > Len(ls) \/ s.budget = 0
    BY <2>1 DEF FitCapped
  <2>2. CASE ~(s.leaf > Len(ls)) /\ s.budget # 0
    <3>1. Descent(o, f, s) = Descent(o, g, s)
      <4>1. Deeper(s) \in A /\ Deeper(s).budget < s.budget
        BY <2>2, CallsCheaper
      <4> QED
        BY <4>1 DEF Descent
    <3> DEFINE b == Left(s, Descent(o, f, s).budget)
    <3>2. f[NextLeaf(s, s.budget - 1)] = g[NextLeaf(s, s.budget - 1)]
      <4>1. NextLeaf(s, s.budget - 1) \in A /\ NextLeaf(s, s.budget - 1).budget < s.budget
        BY <2>2, CallsCheaper
      <4> QED
        BY <4>1
    <3>3. f[NextLeaf(s, b)] = g[NextLeaf(s, b)]
      <4>1. Descent(o, f, s).budget \in Nat
        BY <2>2, DescentTried
      <4>2. b \in Nat /\ b < s.budget
        BY <2>2, <4>1, CallsCheaper
      <4> HIDE DEF b
      <4>3. NextLeaf(s, b) \in A /\ NextLeaf(s, b).budget < s.budget
        BY <2>2, <4>2, CallsCheaper
      <4> QED
        BY <4>3
    <3> QED
      BY <3>1, <3>2, <3>3 DEF FitCapped
  <2> QED
    BY <2>1, <2>2
<1>3. PICK f : Solution(f, A, X, F)
  <2>1. X # {}
    <3>1. [ok |-> TRUE, at |-> [l \in DOMAIN ls |-> 0], budget |-> 0] \in X
      BY DEF Tried
    <3> QED
      BY <3>1
  <2> HIDE DEF A, X, F, rank
  <2> QED
    BY <1>0, <1>1, <1>2, <2>1, RankRecursion
<1>4. f \in [A -> X] /\ f = [s \in A |-> FitCapped(ev, ls, o, f, s)]
  BY <1>3 DEF Solution
<1> DEFINE S == {s \in A : f[s].budget <= s.budget}
<1>5. ASSUME NEW s \in A, \A t \in A : t.budget < s.budget => t \in S
      PROVE  s \in S /\ FitCapped(ev, ls, o, f, s) = FitOnce(ev, ls, o, f, s)
  <2>0. f[s] = FitCapped(ev, ls, o, f, s) /\ s.budget \in Nat
    BY <1>4 DEF Trial
  <2>1. CASE s.event > Len(ev) \/ s.leaf > Len(ls) \/ s.budget = 0
    <3>1. f[s] \in {Ends(s, TRUE), Ends(s, FALSE)} /\ f[s] = FitOnce(ev, ls, o, f, s)
      BY <2>0, <2>1 DEF FitCapped, FitOnce
    <3>2. f[s].budget = s.budget
      BY <3>1 DEF Ends
    <3> QED
      BY <2>0, <3>1, <3>2
  <2>2. CASE ~(s.event > Len(ev)) /\ ~(s.leaf > Len(ls)) /\ s.budget # 0
    <3> DEFINE d == Descent(o, f, s)
    <3>1. s.budget - 1 \in Nat /\ s.budget - 1 < s.budget
      BY <2>2, CallsCheaper
    <3>2. d \in X /\ d.budget \in Nat
      BY <1>4, <2>2, DescentTried
    <3>3. d.budget <= s.budget - 1
      <4>1. CASE orderHolds(o, Place(s))
        <5>1. Deeper(s) \in A /\ Deeper(s).budget = s.budget - 1
          BY <2>2, CallsCheaper
        <5>2. f[Deeper(s)].budget <= s.budget - 1
          BY <1>5, <3>1, <5>1
        <5> QED
          BY <4>1, <5>2 DEF Descent
      <4>2. CASE ~orderHolds(o, Place(s))
        <5>1. d = OutOfOrder(s)
          BY <4>2 DEF Descent
        <5>2. OutOfOrder(s).budget = s.budget - 1
          BY <2>2, CallsCheaper
        <5> QED
          BY <3>1, <5>1, <5>2
      <4> QED
        BY <4>1, <4>2
    <3> HIDE DEF d
    <3>4. d.budget < s.budget /\ Left(s, d.budget) = d.budget
      BY <2>0, <3>2, <3>3 DEF Left
    <3>5. ASSUME NEW b \in Nat, b < s.budget
          PROVE  f[NextLeaf(s, b)].budget <= s.budget
      <4>1. NextLeaf(s, b) \in A /\ NextLeaf(s, b).budget = b
        BY <2>2, CallsCheaper
      <4>2. f[NextLeaf(s, b)].budget <= b
        BY <1>5, <3>5, <4>1
      <4>3. f[NextLeaf(s, b)].budget \in Nat
        BY <1>4, <4>1 DEF Tried
      <4> QED
        BY <2>0, <3>5, <4>2, <4>3
    <3>6. f[s] \in {f[NextLeaf(s, s.budget - 1)], d, f[NextLeaf(s, d.budget)]}
      BY <2>0, <2>2, <3>4 DEF FitCapped, d
    <3>7. f[NextLeaf(s, s.budget - 1)].budget <= s.budget /\ f[NextLeaf(s, d.budget)].budget <= s.budget
      BY <3>1, <3>2, <3>4, <3>5
    <3>8. f[s].budget <= s.budget
      BY <2>0, <3>2, <3>4, <3>6, <3>7
    <3>9. FitCapped(ev, ls, o, f, s) = FitOnce(ev, ls, o, f, s)
      BY <2>2, <3>4 DEF FitCapped, FitOnce, d
    <3> QED
      BY <3>8, <3>9
  <2> QED
    BY <2>1, <2>2
<1>6. A \subseteq S
  <2>1. \A s \in A : (\A t \in A : rank[t] < rank[s] => t \in S) => s \in S
    <3> HIDE DEF S, A
    <3> QED
      BY <1>5
  <2> HIDE DEF S, A, rank
  <2> QED
    BY <1>0, <2>1, RankInduction
<1>7. \A s \in A : FitCapped(ev, ls, o, f, s) = FitOnce(ev, ls, o, f, s)
  <2> HIDE DEF S, A
  <2> QED
    BY <1>5, <1>6
<1>8. IsFit(ev, ls, o, f)
  BY <1>4, <1>7 DEF IsFit
<1> QED
  BY <1>8
------------------------------------------------------------------------------
(* What the search finds. *)

(* Every event in a leaf of its own that it matches, in an allowed order. *)
Complete(ev, ls, o, pos) == Assigned(ev, ls, pos, Len(ev)) /\ orderHolds(o, pos)

Extended(ls, pos, w) == \A l \in DOMAIN ls : pos[l] # 0 => w[l] = pos[l]

(* The trial has a solution: one that agrees with what is placed so far    *)
(* and has the event at one of the leaves still to be tried.               *)
Solvable(ev, ls, o, s) ==
  \E w : /\ Complete(ev, ls, o, w) /\ Extended(ls, s.at, w)
         /\ \E l \in DOMAIN ls : l >= s.leaf /\ w[l] = s.event

Begun(ev, ls, o, s) ==
  /\ s.event \in 1 .. Len(ev) + 1
  /\ Assigned(ev, ls, s.at, s.event - 1)
  /\ orderHolds(o, s.at)

Decides(ev, ls, o, s, r) ==
  /\ r \in Tried(ls) /\ r.budget <= s.budget
  /\ Begun(ev, ls, o, s) =>
       /\ r.ok => Complete(ev, ls, o, r.at)
       /\ ~r.ok => s.event <= Len(ev)
       /\ (~r.ok /\ r.budget > 0) => ~Solvable(ev, ls, o, s)

LEMMA EndsDecides ==
  ASSUME NEW L, NEW ls \in Seq(L), NEW M, NEW ev \in Seq(M), NEW o, NEW s \in Trial(ls)
  PROVE  /\ s.event > Len(ev) => Decides(ev, ls, o, s, Ends(s, TRUE))
         /\ (~(s.event > Len(ev)) /\ (s.leaf > Len(ls) \/ s.budget = 0)) =>
               Decides(ev, ls, o, s, Ends(s, FALSE))
<1>1. Len(ev) \in Nat /\ s.event \in Nat /\ s.budget \in Nat /\ s.leaf \in Nat
  BY DEF Trial
<1>2. /\ Ends(s, TRUE).ok /\ Ends(s, TRUE).at = s.at /\ Ends(s, TRUE).budget = s.budget
      /\ ~Ends(s, FALSE).ok /\ Ends(s, FALSE).budget = s.budget /\ s.budget <= s.budget
  BY <1>1 DEF Ends
<1>3. Ends(s, TRUE) \in Tried(ls) /\ Ends(s, FALSE) \in Tried(ls)
  BY EndsTried
<1>4. ASSUME s.event > Len(ev) PROVE Decides(ev, ls, o, s, Ends(s, TRUE))
  <2>1. ASSUME Begun(ev, ls, o, s) PROVE Complete(ev, ls, o, s.at)
    <3>1. s.event - 1 = Len(ev)
      BY <1>1, <1>4, <2>1 DEF Begun
    <3> QED
      BY <2>1, <3>1 DEF Begun, Complete
  <2> QED
    BY <1>2, <1>3, <2>1 DEF Decides
<1>5. ASSUME ~(s.event > Len(ev)), s.leaf > Len(ls) \/ s.budget = 0
      PROVE  Decides(ev, ls, o, s, Ends(s, FALSE))
  <2>1. s.event <= Len(ev)
    BY <1>1, <1>5
  <2>2. ASSUME s.budget > 0 PROVE ~Solvable(ev, ls, o, s)
    <3>1. s.leaf > Len(ls)
      BY <1>1, <1>5, <2>2
    <3>2. \A l \in DOMAIN ls : ~(l >= s.leaf)
      BY <1>1, <3>1
    <3> QED
      BY <3>2 DEF Solvable
  <2> QED
    BY <1>2, <1>3, <2>1, <2>2 DEF Decides
<1> QED
  BY <1>4, <1>5

(* A solution that has the event at a later leaf than s tries. *)
LEMMA SolvableLater ==
  ASSUME NEW L, NEW ls \in Seq(L), NEW ev, NEW o, NEW s \in Trial(ls), NEW b,
         NEW w, Complete(ev, ls, o, w), Extended(ls, s.at, w),
         NEW l \in DOMAIN ls, l >= s.leaf, w[l] = s.event, l # s.leaf
  PROVE  Solvable(ev, ls, o, NextLeaf(s, b))
<1>1. NextLeaf(s, b).at = s.at /\ NextLeaf(s, b).event = s.event /\ NextLeaf(s, b).leaf = s.leaf + 1
  BY DEF NextLeaf
<1>2. l \in Nat /\ s.leaf \in Nat
  BY DEF Trial
<1>3. l >= s.leaf + 1
  BY <1>2
<1> QED
  BY <1>1, <1>3 DEF Solvable

(* Passing over a leaf that cannot take the event loses nothing. *)
LEMMA UnfitDecides ==
  ASSUME NEW L, NEW ls \in Seq(L), NEW M, NEW ev \in Seq(M), NEW o, NEW s \in Trial(ls),
         s.leaf \in DOMAIN ls, Unfit(ev, ls, s), NEW b \in Nat, b <= s.budget, ~(s.event > Len(ev)),
         NEW r, Decides(ev, ls, o, NextLeaf(s, b), r)
  PROVE  Decides(ev, ls, o, s, r)
<1> DEFINE n == NextLeaf(s, b)
<1>1. n.at = s.at /\ n.event = s.event /\ n.leaf = s.leaf + 1 /\ n.budget = b
  BY DEF NextLeaf
<1>2. /\ s.event \in Nat /\ s.leaf \in Nat /\ s.budget \in Nat /\ s.at \in [DOMAIN ls -> Nat]
      /\ Len(ev) \in Nat
  BY DEF Trial
<1> HIDE DEF n
<1>3. r \in Tried(ls) /\ r.budget <= b /\ r.budget \in Nat
  BY <1>1 DEF Decides, Tried, n
<1>4. r.budget <= s.budget
  BY <1>2, <1>3
<1>5. s.event <= Len(ev)
  BY <1>2
<1>6. ASSUME Begun(ev, ls, o, s)
      PROVE  /\ r.ok => Complete(ev, ls, o, r.at)
             /\ (~r.ok /\ r.budget > 0) => ~Solvable(ev, ls, o, s)
  <2>1. Begun(ev, ls, o, n)
    BY <1>1, <1>6 DEF Begun
  <2>2. /\ r.ok => Complete(ev, ls, o, r.at)
        /\ (~r.ok /\ r.budget > 0) => ~Solvable(ev, ls, o, n)
    BY <2>1 DEF Decides, n
  <2>3. ASSUME NEW w, Complete(ev, ls, o, w), Extended(ls, s.at, w),
               NEW l \in DOMAIN ls, l >= s.leaf, w[l] = s.event
        PROVE  l # s.leaf
    <3> SUFFICES ASSUME l = s.leaf PROVE FALSE
      OBVIOUS
    <3>0. s.event # 0 /\ Assigned(ev, ls, s.at, s.event - 1)
      BY <1>6 DEF Begun
    <3>1. matches(ls[s.leaf], ev[s.event])
      BY <2>3, <3>0 DEF Complete, Assigned, Holding
    <3>2. s.at[s.leaf] # 0
      BY <3>1 DEF Unfit
    <3>3. s.at[s.leaf] = s.event
      BY <2>3, <3>2 DEF Extended
    <3>4. Held(s.at, DOMAIN ls, s.event)
      BY <3>3 DEF Held
    <3>5. s.event <= s.event - 1
      BY <1>2, <3>0, <3>4 DEF Assigned
    <3> QED
      BY <1>2, <3>5
  <2>4. Solvable(ev, ls, o, s) => Solvable(ev, ls, o, n)
    <3> SUFFICES ASSUME NEW w, Complete(ev, ls, o, w), Extended(ls, s.at, w),
                        NEW l \in DOMAIN ls, l >= s.leaf, w[l] = s.event
                 PROVE  Solvable(ev, ls, o, n)
      BY DEF Solvable
    <3>1. l # s.leaf
      BY <2>3
    <3> QED
      BY <3>1, SolvableLater DEF n
  <2> QED
    BY <2>2, <2>4
<1> QED
  BY <1>3, <1>4, <1>5, <1>6 DEF Decides

(* Placing the event at a free leaf that it matches. *)
LEMMA PlaceAssigned ==
  ASSUME NEW L, NEW ls \in Seq(L), NEW ev, NEW s \in Trial(ls), s.leaf \in DOMAIN ls, s.event # 0,
         ~Unfit(ev, ls, s), Assigned(ev, ls, s.at, s.event - 1)
  PROVE  Assigned(ev, ls, Place(s), s.event)
<1>1. /\ s.event \in Nat \ {0} /\ s.at \in [DOMAIN ls -> Nat]
      /\ s.at[s.leaf] = 0 /\ matches(ls[s.leaf], ev[s.event])
  BY DEF Trial, Unfit
<1>2. /\ Place(s) \in [DOMAIN ls -> Nat] /\ Place(s)[s.leaf] = s.event
      /\ \A l \in DOMAIN ls : l # s.leaf => Place(s)[l] = s.at[l]
  BY <1>1 DEF Place
<1>3. \A e \in Nat \ {0} : Held(s.at, DOMAIN ls, e) <=> e <= s.event - 1
  BY DEF Assigned
<1>4. \A l \in DOMAIN ls : s.at[l] # s.event
  <2> SUFFICES ASSUME NEW l \in DOMAIN ls, s.at[l] = s.event PROVE FALSE
    OBVIOUS
  <2>1. Held(s.at, DOMAIN ls, s.event)
    BY DEF Held
  <2> QED
    BY <1>1, <1>3, <2>1
<1>5. Holding(ev, ls, Place(s), DOMAIN ls)
  BY <1>1, <1>2, <1>4, ZenonT(60) DEF Assigned, Holding
<1>6. \A e \in Nat \ {0} : Held(Place(s), DOMAIN ls, e) <=> e <= s.event
  <2> TAKE e \in Nat \ {0}
  <2>1. Held(Place(s), DOMAIN ls, e) <=> Held(s.at, DOMAIN ls, e) \/ e = s.event
    BY <1>1, <1>2 DEF Held
  <2> QED
    BY <1>1, <1>3, <2>1
<1> QED
  BY <1>2, <1>5, <1>6 DEF Assigned

(* What a complete assignment agrees with is in order so far. *)
LEMMA OrderInherited ==
  ASSUME NEW ls, NEW o \in SUBSET ((DOMAIN ls) \X (DOMAIN ls)), NEW pos, NEW w,
         Extended(ls, pos, w), orderHolds(o, w)
  PROVE  orderHolds(o, pos)
<1> SUFFICES ASSUME NEW p \in o, pos[p[1]] # 0, pos[p[2]] # 0 PROVE pos[p[1]] <= pos[p[2]]
  BY DEF orderHolds
<1>1. p[1] \in DOMAIN ls /\ p[2] \in DOMAIN ls
  <2>1. p \in (DOMAIN ls) \X (DOMAIN ls)
    OBVIOUS
  <2> QED
    BY <2>1
<1>2. w[p[1]] = pos[p[1]] /\ w[p[2]] = pos[p[2]]
  BY <1>1 DEF Extended
<1> QED
  BY <1>2 DEF orderHolds

(* The search below the leaf found an assignment. *)
LEMMA DescendsTo ==
  ASSUME NEW L, NEW ls \in Seq(L), NEW M, NEW ev \in Seq(M), NEW o, NEW s \in Trial(ls),
         s.leaf \in DOMAIN ls, ~Unfit(ev, ls, s), s.budget # 0, ~(s.event > Len(ev)),
         orderHolds(o, Place(s)), NEW r, Decides(ev, ls, o, Deeper(s), r)
  PROVE  /\ r \in Tried(ls) /\ r.budget <= s.budget - 1
         /\ Begun(ev, ls, o, s) =>
              /\ Begun(ev, ls, o, Deeper(s))
              /\ r.ok => Complete(ev, ls, o, r.at)
<1>1. Deeper(s).at = Place(s) /\ Deeper(s).event = s.event + 1 /\ Deeper(s).budget = s.budget - 1
  BY DEF Deeper
<1>2. s.event \in Nat /\ Len(ev) \in Nat
  BY DEF Trial
<1>3. r \in Tried(ls) /\ r.budget <= s.budget - 1
  BY <1>1 DEF Decides
<1>4. ASSUME Begun(ev, ls, o, s) PROVE Begun(ev, ls, o, Deeper(s))
  <2>1. s.event # 0 /\ Assigned(ev, ls, s.at, s.event - 1)
    BY <1>4 DEF Begun
  <2>2. Assigned(ev, ls, Place(s), s.event)
    BY <2>1, PlaceAssigned
  <2>3. s.event + 1 \in 1 .. Len(ev) + 1 /\ (s.event + 1) - 1 = s.event
    BY <1>2, <2>1
  <2> QED
    BY <1>1, <2>2, <2>3 DEF Begun
<1> QED
  BY <1>3, <1>4 DEF Decides

(* A solution with the event at this leaf is a solution of the search      *)
(* below it.                                                               *)
LEMMA SolvableBelow ==
  ASSUME NEW L, NEW ls \in Seq(L), NEW M, NEW ev \in Seq(M), NEW o \in SUBSET ((DOMAIN ls) \X (DOMAIN ls)),
         NEW s \in Trial(ls), s.leaf \in DOMAIN ls, NEW w, Complete(ev, ls, o, w),
         Extended(ls, s.at, w), w[s.leaf] = s.event
  PROVE  /\ orderHolds(o, Place(s))
         /\ s.event < Len(ev) => Solvable(ev, ls, o, Deeper(s))
<1>1. s.event \in Nat /\ Len(ev) \in Nat /\ s.at \in [DOMAIN ls -> Nat]
  BY DEF Trial
<1>2. Extended(ls, Place(s), w)
  BY <1>1 DEF Extended, Place
<1>3. orderHolds(o, Place(s))
  BY <1>2, OrderInherited DEF Complete
<1>4. ASSUME s.event < Len(ev) PROVE Solvable(ev, ls, o, Deeper(s))
  <2>1. s.event + 1 \in Nat \ {0} /\ s.event + 1 <= Len(ev)
    BY <1>1, <1>4
  <2>2. PICK l \in DOMAIN ls : w[l] = s.event + 1
    BY <2>1 DEF Complete, Assigned, Held
  <2>3. l >= 1
    OBVIOUS
  <2>4. Deeper(s).at = Place(s) /\ Deeper(s).event = s.event + 1 /\ Deeper(s).leaf = 1
    BY DEF Deeper
  <2> QED
    BY <1>2, <2>2, <2>3, <2>4 DEF Solvable
<1> QED
  BY <1>3, <1>4

(* Going on to the next leaf once the search below this one failed. *)
LEMMA BacktrackDecides ==
  ASSUME NEW L, NEW ls \in Seq(L), NEW M, NEW ev \in Seq(M), NEW o \in SUBSET ((DOMAIN ls) \X (DOMAIN ls)),
         NEW s \in Trial(ls), s.leaf \in DOMAIN ls, ~Unfit(ev, ls, s), s.budget # 0, ~(s.event > Len(ev)),
         NEW d, d.budget \in Nat, d.budget <= s.budget, ~d.ok,
         orderHolds(o, Place(s)) => Decides(ev, ls, o, Deeper(s), d),
         NEW r, Decides(ev, ls, o, NextLeaf(s, d.budget), r)
  PROVE  Decides(ev, ls, o, s, r)
<1> DEFINE n == NextLeaf(s, d.budget)
<1>1. n.at = s.at /\ n.event = s.event /\ n.leaf = s.leaf + 1 /\ n.budget = d.budget
  BY DEF NextLeaf
<1>2. s.event \in Nat /\ s.budget \in Nat /\ Len(ev) \in Nat
  BY DEF Trial
<1> HIDE DEF n
<1>3. r \in Tried(ls) /\ r.budget <= d.budget /\ r.budget \in Nat
  BY <1>1 DEF Decides, Tried, n
<1>4. r.budget <= s.budget /\ (r.budget > 0 => d.budget > 0)
  BY <1>2, <1>3
<1>5. s.event <= Len(ev)
  BY <1>2
<1>6. ASSUME Begun(ev, ls, o, s)
      PROVE  /\ r.ok => Complete(ev, ls, o, r.at)
             /\ (~r.ok /\ r.budget > 0) => ~Solvable(ev, ls, o, s)
  <2>1. Begun(ev, ls, o, n)
    BY <1>1, <1>6 DEF Begun
  <2>2. /\ r.ok => Complete(ev, ls, o, r.at)
        /\ (~r.ok /\ r.budget > 0) => ~Solvable(ev, ls, o, n)
    BY <2>1 DEF Decides, n
  <2>3. ASSUME d.budget > 0, NEW w, Complete(ev, ls, o, w), Extended(ls, s.at, w),
               NEW l \in DOMAIN ls, l >= s.leaf, w[l] = s.event
        PROVE  l # s.leaf
    <3> SUFFICES ASSUME l = s.leaf PROVE FALSE
      OBVIOUS
    <3>1. orderHolds(o, Place(s)) /\ (s.event < Len(ev) => Solvable(ev, ls, o, Deeper(s)))
      BY <2>3, SolvableBelow
    <3>2. Decides(ev, ls, o, Deeper(s), d)
      BY <3>1
    <3>3. Begun(ev, ls, o, Deeper(s))
      BY <1>6, <3>1, <3>2, DescendsTo
    <3>4. ~Solvable(ev, ls, o, Deeper(s)) /\ Deeper(s).event <= Len(ev)
      BY <2>3, <3>2, <3>3 DEF Decides
    <3>5. Deeper(s).event = s.event + 1
      BY DEF Deeper
    <3>6. s.event < Len(ev)
      BY <1>2, <3>4, <3>5
    <3> QED
      BY <3>1, <3>4, <3>6
  <2>4. d.budget > 0 /\ Solvable(ev, ls, o, s) => Solvable(ev, ls, o, n)
    <3> SUFFICES ASSUME d.budget > 0, NEW w, Complete(ev, ls, o, w), Extended(ls, s.at, w),
                        NEW l \in DOMAIN ls, l >= s.leaf, w[l] = s.event
                 PROVE  Solvable(ev, ls, o, n)
      BY DEF Solvable
    <3>1. l # s.leaf
      BY <2>3
    <3> QED
      BY <3>1, SolvableLater DEF n
  <2> QED
    BY <1>4, <2>2, <2>4
<1> QED
  BY <1>3, <1>4, <1>5, <1>6 DEF Decides

LEMMA FitDecides ==
  ASSUME NEW L, NEW ls \in Seq(L), NEW M, NEW ev \in Seq(M), NEW o \in SUBSET ((DOMAIN ls) \X (DOMAIN ls)),
         NEW f, IsFit(ev, ls, o, f), NEW s \in Trial(ls)
  PROVE  Decides(ev, ls, o, s, f[s])
<1> DEFINE A == Trial(ls)  rank == [t \in A |-> t.budget]  S == {t \in A : Decides(ev, ls, o, t, f[t])}
<1>1. rank \in [A -> Nat]
  BY DEF Trial
<1>2. ASSUME NEW t \in A, \A u \in A : u.budget < t.budget => Decides(ev, ls, o, u, f[u])
      PROVE  Decides(ev, ls, o, t, f[t])
  <2>0. f[t] = FitOnce(ev, ls, o, f, t)
    BY DEF IsFit
  <2>1. CASE t.event > Len(ev)
    BY <2>0, <2>1, EndsDecides DEF FitOnce
  <2>2. CASE ~(t.event > Len(ev)) /\ (t.leaf > Len(ls) \/ t.budget = 0)
    BY <2>0, <2>2, EndsDecides DEF FitOnce
  <2>3. CASE ~(t.event > Len(ev)) /\ ~(t.leaf > Len(ls)) /\ t.budget # 0
    <3>1. /\ t.leaf \in DOMAIN ls /\ t.budget \in Nat /\ t.budget - 1 \in Nat /\ t.budget - 1 < t.budget
          /\ Deeper(t) \in A /\ Deeper(t).budget = t.budget - 1
          /\ OutOfOrder(t).budget = t.budget - 1
      BY <2>3, CallsCheaper
    <3>2. ASSUME NEW b \in Nat, b < t.budget PROVE Decides(ev, ls, o, NextLeaf(t, b), f[NextLeaf(t, b)])
      <4>1. NextLeaf(t, b) \in A /\ NextLeaf(t, b).budget = b
        BY <2>3, CallsCheaper
      <4> QED
        BY <1>2, <3>2, <4>1
    <3>3. CASE Unfit(ev, ls, t)
      <4> DEFINE b == t.budget - 1
      <4>1. f[t] = f[NextLeaf(t, b)]
        BY <2>0, <2>3, <3>3 DEF FitOnce
      <4>2. Decides(ev, ls, o, NextLeaf(t, b), f[t])
        BY <3>1, <3>2, <4>1
      <4>3. b \in Nat /\ b <= t.budget
        BY <3>1
      <4> HIDE DEF b
      <4> QED
        BY <2>3, <3>1, <3>3, <4>2, <4>3, UnfitDecides
    <3>4. CASE ~Unfit(ev, ls, t)
      <4> DEFINE d == Descent(o, f, t)
      <4>1. Decides(ev, ls, o, Deeper(t), f[Deeper(t)])
        BY <1>2, <3>1
      <4>2. orderHolds(o, Place(t)) => Decides(ev, ls, o, Deeper(t), d)
        BY <4>1 DEF Descent
      <4>3. ~orderHolds(o, Place(t)) => d = OutOfOrder(t) /\ ~d.ok
        BY DEF Descent, OutOfOrder
      <4>4. d.budget \in Nat /\ d.budget < t.budget /\ d.budget <= t.budget
        <5>1. CASE orderHolds(o, Place(t))
          <6>1. d \in Tried(ls) /\ d.budget <= t.budget - 1
            BY <3>1, <4>2, <5>1 DEF Decides
          <6>2. d.budget \in Nat
            BY <6>1 DEF Tried
          <6> HIDE DEF d
          <6> QED
            BY <3>1, <6>1, <6>2
        <5>2. CASE ~orderHolds(o, Place(t))
          <6>1. d.budget = t.budget - 1
            BY <3>1, <4>3, <5>2
          <6> HIDE DEF d
          <6> QED
            BY <3>1, <6>1
        <5> QED
          BY <5>1, <5>2
      <4>5. CASE d.ok
        <5>1. f[t] = d
          BY <2>0, <2>3, <3>4, <4>5 DEF FitOnce
        <5>2. orderHolds(o, Place(t))
          BY <4>3, <4>5
        <5> HIDE DEF d
        <5>3. d \in Tried(ls) /\ (Begun(ev, ls, o, t) => Complete(ev, ls, o, d.at))
          BY <2>3, <3>1, <3>4, <4>2, <4>5, <5>2, DescendsTo
        <5> QED
          BY <4>4, <4>5, <5>1, <5>3 DEF Decides
      <4>6. CASE ~d.ok
        <5>1. f[t] = f[NextLeaf(t, d.budget)]
          BY <2>0, <2>3, <3>4, <4>6 DEF FitOnce
        <5> HIDE DEF d
        <5>2. Decides(ev, ls, o, NextLeaf(t, d.budget), f[t])
          BY <3>2, <4>4, <5>1
        <5> QED
          BY <2>3, <3>1, <3>4, <4>2, <4>4, <4>6, <5>2, BacktrackDecides
      <4> QED
        BY <4>5, <4>6
    <3> QED
      BY <3>3, <3>4
  <2> QED
    BY <2>1, <2>2, <2>3
<1>3. \A t \in A : (\A u \in A : rank[u] < rank[t] => u \in S) => t \in S
  <2> HIDE DEF A
  <2> QED
    BY <1>2
<1>4. A \subseteq S
  <2> HIDE DEF S, A, rank
  <2> QED
    BY <1>1, <1>3, RankInduction
<1> QED
  BY <1>4

FirstTrial(ls) == [event |-> 1, leaf |-> 1, at |-> noAssignment(ls), budget |-> orderSearchBudget]
Outcome(r) == [at |-> IF r.ok THEN r.at ELSE NoFit, decided |-> r.ok \/ r.budget > 0]

(* orderedFit is that search, from the first event at the first leaf. *)
LEMMA OrderedFitIs ==
  ASSUME NEW L, NEW ls \in Seq(L), NEW ev, NEW o
  PROVE  \E f : IsFit(ev, ls, o, f) /\ orderedFit(ev, ls, o) = Outcome(f[FirstTrial(ls)])
<1> DEFINE g == CHOOSE f : IsFit(ev, ls, o, f)
<1>1. IsFit(ev, ls, o, g)
  BY FitExists
<1>2. orderedFit(ev, ls, o) = Outcome(g[FirstTrial(ls)])
  BY DEF orderedFit, IsFit, Trial, FitOnce, Ends, Unfit, NextLeaf, Descent, Deeper, Place, OutOfOrder,
         FirstTrial, Outcome
<1> HIDE DEF g
<1> QED
  BY <1>1, <1>2

(* What a judgement says: an assignment in order, or that there is none,   *)
(* or nothing.                                                             *)
Judged(ev, ls, o, fit) ==
  /\ fit.at # NoFit => Complete(ev, ls, o, fit.at)
  /\ fit.decided /\ fit.at = NoFit => ~\E w : Complete(ev, ls, o, w)

LEMMA OrderedFitRight ==
  ASSUME NEW L, NEW ls \in Seq(L), NEW M, NEW ev \in Seq(M), NEW o \in SUBSET ((DOMAIN ls) \X (DOMAIN ls))
  PROVE  Judged(ev, ls, o, orderedFit(ev, ls, o))
<1> DEFINE s == FirstTrial(ls)
<1>1. PICK f : IsFit(ev, ls, o, f) /\ orderedFit(ev, ls, o) = Outcome(f[s])
  BY OrderedFitIs
<1>2. noAssignment(ls) \in [DOMAIN ls -> Nat] /\ \A l \in DOMAIN ls : noAssignment(ls)[l] = 0
  BY DEF noAssignment
<1>3. s \in Trial(ls) /\ s.event = 1 /\ s.leaf = 1 /\ s.at = noAssignment(ls)
  BY <1>2, BudgetIsNat DEF FirstTrial, Trial
<1> DEFINE r == f[s]
<1> HIDE DEF s
<1>4. Decides(ev, ls, o, s, r)
  BY <1>1, <1>3, FitDecides
<1> HIDE DEF r
<1>5. Begun(ev, ls, o, s)
  <2>1. Len(ev) \in Nat /\ 1 \in 1 .. Len(ev) + 1 /\ 1 - 1 = 0
    OBVIOUS
  <2>2. Assigned(ev, ls, noAssignment(ls), 0)
    BY <1>2 DEF Assigned, Holding, Held
  <2>3. orderHolds(o, noAssignment(ls))
    <3>1. \A p \in o : p[1] \in DOMAIN ls
      <4> TAKE p \in o
      <4>1. p \in (DOMAIN ls) \X (DOMAIN ls)
        OBVIOUS
      <4> QED
        BY <4>1
    <3> QED
      BY <1>2, <3>1 DEF orderHolds
  <2> QED
    BY <1>3, <2>1, <2>2, <2>3 DEF Begun
<1>6. r.ok => Complete(ev, ls, o, r.at)
  BY <1>4, <1>5 DEF Decides
<1>7. ASSUME ~r.ok, r.budget > 0, NEW w, Complete(ev, ls, o, w) PROVE FALSE
  <2>1. ~Solvable(ev, ls, o, s) /\ 1 <= Len(ev)
    BY <1>3, <1>4, <1>5, <1>7 DEF Decides
  <2>2. PICK l \in DOMAIN ls : w[l] = 1
    BY <1>7, <2>1 DEF Complete, Assigned, Held
  <2>3. l >= 1
    OBVIOUS
  <2>4. Extended(ls, s.at, w)
    BY <1>2, <1>3 DEF Extended
  <2> QED
    BY <1>3, <1>7, <2>1, <2>2, <2>3, <2>4 DEF Solvable
<1>8. /\ Outcome(r).at = IF r.ok THEN r.at ELSE NoFit
      /\ Outcome(r).decided <=> (r.ok \/ r.budget > 0)
  BY DEF Outcome
<1>9. orderedFit(ev, ls, o) = Outcome(r)
  BY <1>1 DEF r
<1>10. r.ok => Outcome(r).at # NoFit
  BY <1>6, <1>8, AssignmentIsNotNil DEF Complete, Assigned
<1> QED
  BY <1>6, <1>7, <1>8, <1>9, <1>10 DEF Judged
------------------------------------------------------------------------------
(* The search against the meaning of a declaration. *)

LEMMA CompleteFits ==
  ASSUME NEW L, NEW ls \in Seq(L), NEW M, NEW ev \in Seq(M), NEW o, NEW w, Complete(ev, ls, o, w)
  PROVE  Fits(ev, ls, o)
<1>1. Len(ev) \in Nat /\ DOMAIN ev = 1 .. Len(ev)
  OBVIOUS
<1>2. \A e \in DOMAIN ev : \E l \in DOMAIN ls : w[l] = e
  <2> TAKE e \in DOMAIN ev
  <2>1. e \in Nat \ {0} /\ e <= Len(ev)
    BY <1>1
  <2> QED
    BY <2>1 DEF Complete, Assigned, Held
<1> DEFINE f == [e \in DOMAIN ev |-> CHOOSE l \in DOMAIN ls : w[l] = e]
<1>3. \A e \in DOMAIN ev : f[e] \in DOMAIN ls /\ w[f[e]] = e /\ e # 0 /\ e \in Nat
  BY <1>1, <1>2
<1>4. f \in [DOMAIN ev -> DOMAIN ls]
  BY <1>2
<1> HIDE DEF f
<1>5. \A e \in DOMAIN ev : matches(ls[f[e]], ev[e])
  BY <1>3 DEF Complete, Assigned, Holding
<1>6. ASSUME NEW e1 \in DOMAIN ev, NEW e2 \in DOMAIN ev, e1 < e2
      PROVE  f[e1] # f[e2] /\ <<f[e2], f[e1]>> \notin o
  <2>1. f[e1] # f[e2]
    BY <1>3, <1>6
  <2>2. ASSUME <<f[e2], f[e1]>> \in o PROVE FALSE
    <3> DEFINE p == <<f[e2], f[e1]>>
    <3>1. p[1] = f[e2] /\ p[2] = f[e1] /\ p \in o
      BY <2>2
    <3> HIDE DEF p
    <3>2. w[p[1]] = e2 /\ w[p[2]] = e1 /\ e1 # 0 /\ e2 # 0
      BY <1>3, <3>1
    <3>3. e2 <= e1
      BY <3>1, <3>2 DEF Complete, orderHolds
    <3> QED
      BY <1>3, <1>6, <3>3
  <2> QED
    BY <2>1, <2>2
<1> QED
  BY <1>4, <1>5, <1>6 DEF Fits

LEMMA FitsComplete ==
  ASSUME NEW L, NEW ls \in Seq(L), NEW M, NEW ev \in Seq(M), NEW o \in SUBSET ((DOMAIN ls) \X (DOMAIN ls)),
         Fits(ev, ls, o)
  PROVE  \E w : Complete(ev, ls, o, w)
<1>1. Len(ev) \in Nat /\ DOMAIN ev = 1 .. Len(ev)
  OBVIOUS
<1>2. PICK f \in [DOMAIN ev -> DOMAIN ls] :
        /\ \A e \in DOMAIN ev : matches(ls[f[e]], ev[e])
        /\ \A e1, e2 \in DOMAIN ev : e1 < e2 => f[e1] # f[e2] /\ <<f[e2], f[e1]>> \notin o
  BY DEF Fits
<1>3. \A e1, e2 \in DOMAIN ev : f[e1] = f[e2] => e1 = e2
  <2> SUFFICES ASSUME NEW e1 \in DOMAIN ev, NEW e2 \in DOMAIN ev, f[e1] = f[e2], e1 # e2 PROVE FALSE
    OBVIOUS
  <2>1. e1 < e2 \/ e2 < e1
    BY <1>1
  <2> QED
    BY <1>2, <2>1
<1> DEFINE w == [l \in DOMAIN ls |-> IF \E e \in DOMAIN ev : f[e] = l
                                     THEN CHOOSE e \in DOMAIN ev : f[e] = l ELSE 0]
<1>4. ASSUME NEW l \in DOMAIN ls PROVE w[l] = 0 \/ (w[l] \in DOMAIN ev /\ f[w[l]] = l)
  OBVIOUS
<1>5. ASSUME NEW e \in DOMAIN ev PROVE w[f[e]] = e
  <2>1. f[e] \in DOMAIN ls
    OBVIOUS
  <2>2. w[f[e]] \in DOMAIN ev /\ f[w[f[e]]] = f[e]
    BY <2>1
  <2> HIDE DEF w
  <2> QED
    BY <1>3, <2>2
<1>6. DOMAIN w = DOMAIN ls /\ w = [l \in DOMAIN ls |-> w[l]]
  OBVIOUS
<1> HIDE DEF w
<1>7. w \in [DOMAIN ls -> Nat] /\ 0 \notin DOMAIN ev
  <2>1. \A l \in DOMAIN ls : w[l] \in Nat
    BY <1>1, <1>4
  <2> QED
    BY <1>1, <1>6, <2>1
<1>8. Holding(ev, ls, w, DOMAIN ls)
  <2>1. ASSUME NEW l \in DOMAIN ls, w[l] # 0 PROVE matches(ls[l], ev[w[l]])
    BY <1>2, <1>4, <2>1
  <2>2. ASSUME NEW l \in DOMAIN ls, NEW m \in DOMAIN ls, w[l] # 0, w[l] = w[m] PROVE l = m
    BY <1>4, <2>2
  <2> QED
    BY <2>1, <2>2 DEF Holding
<1>9. \A e \in Nat \ {0} : Held(w, DOMAIN ls, e) <=> e <= Len(ev)
  <2> TAKE e \in Nat \ {0}
  <2>1. e <= Len(ev) <=> e \in DOMAIN ev
    BY <1>1
  <2>2. e \in DOMAIN ev => f[e] \in DOMAIN ls
    OBVIOUS
  <2>3. Held(w, DOMAIN ls, e) <=> e \in DOMAIN ev
    BY <1>4, <1>5, <2>2, SMTT(30) DEF Held
  <2> QED
    BY <2>1, <2>3
<1>10. orderHolds(o, w)
  <2> SUFFICES ASSUME NEW p \in o, w[p[1]] # 0, w[p[2]] # 0 PROVE w[p[1]] <= w[p[2]]
    BY DEF orderHolds
  <2>1. p \in (DOMAIN ls) \X (DOMAIN ls)
    OBVIOUS
  <2>2. p = <<p[1], p[2]>> /\ p[1] \in DOMAIN ls /\ p[2] \in DOMAIN ls
    BY <2>1
  <2> DEFINE e1 == w[p[1]]  e2 == w[p[2]]
  <2>3. e1 \in DOMAIN ev /\ f[e1] = p[1] /\ e2 \in DOMAIN ev /\ f[e2] = p[2]
    BY <1>4, <2>2
  <2> HIDE DEF e1, e2
  <2>4. ~(e2 < e1)
    BY <1>2, <2>2, <2>3
  <2>5. e1 <= e2
    BY <1>1, <2>3, <2>4
  <2> QED
    BY <2>5 DEF e1, e2
<1> QED
  BY <1>7, <1>8, <1>9, <1>10 DEF Complete, Assigned

LEMMA HousingIsFits ==
  ASSUME NEW L, NEW ls \in Seq(L), NEW M, NEW ev \in Seq(M), Fits(ev, ls, {})
  PROVE  \E f : Housing(ev, ls, Len(ev), f)
<1>1. Len(ev) \in Nat /\ DOMAIN ev = 1 .. Len(ev)
  OBVIOUS
<1>2. PICK f \in [DOMAIN ev -> DOMAIN ls] :
        /\ \A e \in DOMAIN ev : matches(ls[f[e]], ev[e])
        /\ \A e1, e2 \in DOMAIN ev : e1 < e2 => f[e1] # f[e2]
  BY DEF Fits
<1>3. \A e1, e2 \in DOMAIN ev : f[e1] = f[e2] => e1 = e2
  <2> SUFFICES ASSUME NEW e1 \in DOMAIN ev, NEW e2 \in DOMAIN ev, f[e1] = f[e2], e1 # e2 PROVE FALSE
    OBVIOUS
  <2>1. e1 < e2 \/ e2 < e1
    BY <1>1
  <2> QED
    BY <1>2, <2>1
<1> QED
  BY <1>1, <1>2, <1>3 DEF Housing

(* There is no room for more events than leaves. *)
LEMMA FitsNoMore ==
  ASSUME NEW L, NEW ls \in Seq(L), NEW M, NEW ev \in Seq(M), Fits(ev, ls, {})
  PROVE  Len(ev) <= Len(ls)
<1>1. Len(ev) \in Nat
  OBVIOUS
<1> QED
  BY <1>1, HousingIsFits, HousingFits

(* An order only takes assignments away. *)
LEMMA FitsFree ==
  ASSUME NEW ls, NEW ev, NEW o, Fits(ev, ls, o)
  PROVE  Fits(ev, ls, {})
BY DEF Fits

(* assignEvents: what it returns is an assignment in order, what it denies *)
(* has none, and what it leaves undecided has one but for the order.       *)
THEOREM AssignEventsRight ==
  ASSUME NEW L, NEW ls \in Seq(L), NEW M, NEW ev \in Seq(M), NEW o \in SUBSET ((DOMAIN ls) \X (DOMAIN ls))
  PROVE  LET fit == assignEvents(ev, ls, o) IN
         /\ fit.at # NoFit => Complete(ev, ls, o, fit.at)
         /\ fit.decided /\ fit.at = NoFit => ~Fits(ev, ls, o)
         /\ ~fit.decided => Fits(ev, ls, {})
         /\ o = {} => fit.decided
<1> DEFINE free == matchAll(ev, ls)  fit == assignEvents(ev, ls, o)
<1>1. Settled(ev, ls, Len(ev), free)
  BY MatchAllRight
<1>2. free # NoFit => Complete(ev, ls, {}, free) /\ Fits(ev, ls, {})
  <2>1. free # NoFit => Complete(ev, ls, {}, free)
    BY <1>1 DEF Settled, Complete, orderHolds
  <2> QED
    BY <2>1, CompleteFits
<1>3. free = NoFit => ~Fits(ev, ls, {})
  <2>1. ~Assigned(ev, ls, NoFit, Len(ev))
    BY AssignmentIsNotNil DEF Assigned
  <2> QED
    BY <1>1, <2>1, HousingIsFits DEF Settled
<1>4. CASE free = NoFit \/ o = {} \/ orderHolds(o, free)
  <2>1. fit = [at |-> free, decided |-> TRUE]
    BY <1>4 DEF assignEvents
  <2>2. fit.at = free /\ fit.decided
    BY <2>1
  <2>3. free # NoFit => orderHolds(o, free)
    BY <1>4 DEF orderHolds
  <2>4. free = NoFit => ~Fits(ev, ls, o)
    BY <1>3, FitsFree
  <2> HIDE DEF free, fit
  <2>5. free # NoFit => Complete(ev, ls, o, free)
    BY <1>2, <2>3 DEF Complete
  <2>6. /\ fit.at # NoFit => Complete(ev, ls, o, fit.at)
        /\ fit.decided /\ fit.at = NoFit => ~Fits(ev, ls, o)
        /\ ~fit.decided => Fits(ev, ls, {})
        /\ o = {} => fit.decided
    BY <2>2, <2>4, <2>5
  <2> QED
    BY <2>6 DEF fit
<1>5. CASE ~(free = NoFit \/ o = {} \/ orderHolds(o, free))
  <2>1. fit = orderedFit(ev, ls, o)
    BY <1>5 DEF assignEvents
  <2>2. Judged(ev, ls, o, fit)
    BY <2>1, OrderedFitRight
  <2>3. Fits(ev, ls, {}) /\ o # {}
    BY <1>2, <1>5
  <2> HIDE DEF fit
  <2>4. fit.decided /\ fit.at = NoFit => ~Fits(ev, ls, o)
    BY <2>2, FitsComplete DEF Judged
  <2>5. /\ fit.at # NoFit => Complete(ev, ls, o, fit.at)
        /\ fit.decided /\ fit.at = NoFit => ~Fits(ev, ls, o)
        /\ ~fit.decided => Fits(ev, ls, {})
        /\ o = {} => fit.decided
    BY <2>2, <2>3, <2>4 DEF Judged
  <2> QED
    BY <2>5 DEF fit
<1> QED
  BY <1>4, <1>5

(* The leaves an assignment leaves open are as many as the events missing. *)
LEMMA OpenLeaves ==
  ASSUME NEW L, NEW ls \in Seq(L), NEW ev, NEW n \in Nat, NEW w, Assigned(ev, ls, w, n)
  PROVE  Cardinality({l \in DOMAIN ls : w[l] = 0}) = Len(ls) - n
<1> DEFINE D == DOMAIN ls  H == {l \in D : w[l] # 0}
<1>1. Len(ls) \in Nat /\ D = 1 .. Len(ls)
  OBVIOUS
<1>2. ASSUME NEW k \in Nat PROVE IsFiniteSet(1 .. k) /\ Cardinality(1 .. k) = k
  <2>1. 1 \in Int /\ k \in Int
    OBVIOUS
  <2>2. IsFiniteSet(1 .. k) /\ Cardinality(1 .. k) = IF 1 > k THEN 0 ELSE k - 1 + 1
    BY <2>1, FS_Interval
  <2> QED
    BY <2>2
<1>3. IsFiniteSet(D) /\ Cardinality(D) = Len(ls) /\ IsFiniteSet(1 .. n) /\ Cardinality(1 .. n) = n
  BY <1>1, <1>2
<1>4. IsFiniteSet(H) /\ Cardinality(H) \in Nat
  BY <1>3, FS_Subset, FS_CardinalityType
<1>5. \A l \in H : w[l] \in 1 .. n
  <2> TAKE l \in H
  <2>1. w[l] \in Nat \ {0} /\ Held(w, DOMAIN ls, w[l])
    BY DEF Assigned, Held
  <2>2. w[l] <= n
    BY <2>1 DEF Assigned
  <2> QED
    BY <2>1, <2>2
<1>6. \A e \in 1 .. n : \E l \in H : w[l] = e
  <2> TAKE e \in 1 .. n
  <2>1. e \in Nat \ {0} /\ e <= n
    OBVIOUS
  <2>2. Held(w, DOMAIN ls, e)
    BY <2>1 DEF Assigned
  <2> QED
    BY <2>1, <2>2 DEF Held
<1>7. \A l, m \in H : w[l] = w[m] => l = m
  BY DEF Assigned, Holding
<1> DEFINE f == [l \in H |-> w[l]]  g == [e \in 1 .. n |-> CHOOSE l \in H : w[l] = e]
<1>8. f \in [H -> 1 .. n] /\ \A l \in H : f[l] = w[l]
  BY <1>5
<1>9. g \in [1 .. n -> H] /\ \A e \in 1 .. n : w[g[e]] = e
  <2> HIDE DEF H
  <2> QED
    BY <1>6
<1> HIDE DEF f, g, H
<1>10. ~(n < Cardinality(H))
  <2> SUFFICES ASSUME n < Cardinality(H) PROVE FALSE
    OBVIOUS
  <2>1. \E x, y \in H : x # y /\ f[x] = f[y]
    BY <1>3, <1>4, <1>8, FS_PigeonHole
  <2> QED
    BY <1>7, <1>8, <2>1
<1>11. ~(Cardinality(H) < n)
  <2> SUFFICES ASSUME Cardinality(H) < n PROVE FALSE
    OBVIOUS
  <2>1. \E x, y \in 1 .. n : x # y /\ g[x] = g[y]
    BY <1>3, <1>4, <1>9, FS_PigeonHole
  <2> QED
    BY <1>9, <2>1
<1>12. Cardinality(H) = n
  BY <1>4, <1>10, <1>11
<1>13. {l \in D : w[l] = 0} = D \ H /\ D \cap H = H
  BY DEF H
<1>14. Cardinality(D \ H) = Cardinality(D) - Cardinality(D \cap H)
  <2> HIDE DEF D
  <2> QED
    BY <1>3, FS_Difference
<1> QED
  BY <1>3, <1>12, <1>13, <1>14
------------------------------------------------------------------------------
(* The runner. *)

(* The types of the variables.  The order is between leaves of the step.   *)
Typed ==
  /\ queue \in Seq(Events) /\ seen \in Seq(Events) /\ lost \in BOOLEAN
  /\ pc \in {"test", "step", "settle", "finish", "cleanup", "over"}
  /\ leaves \in Seq(Leaf) /\ order \in SUBSET ((DOMAIN leaves) \X (DOMAIN leaves))
  /\ finished \in BOOLEAN /\ failed \in BOOLEAN /\ swallowed \in BOOLEAN
  /\ accepted \in Nat /\ arrived \in Nat /\ closedAt \in Nat

(* Between two reads the events of the step are all placed: some leaf is   *)
(* open in a step, none in its settle window and in Finish.                *)
Placed ==
  /\ Reading => Complete(seen, leaves, order, at)
  /\ pc = "step" => Len(seen) < Len(leaves)
  /\ pc = "settle" => Len(seen) = Len(leaves)
  /\ pc = "finish" => seen = <<>> /\ leaves = <<>>

LEMMA NothingComplete ==
  ASSUME NEW L, NEW ls \in Seq(L), NEW o \in SUBSET ((DOMAIN ls) \X (DOMAIN ls))
  PROVE  Complete(<<>>, ls, o, noAssignment(ls))
<1>1. noAssignment(ls) \in [DOMAIN ls -> Nat] /\ \A l \in DOMAIN ls : noAssignment(ls)[l] = 0
  BY DEF noAssignment
<1>2. Len(<<>>) = 0
  OBVIOUS
<1>3. Assigned(<<>>, ls, noAssignment(ls), 0)
  BY <1>1 DEF Assigned, Holding, Held
<1>4. orderHolds(o, noAssignment(ls))
  <2>1. \A p \in o : p[1] \in DOMAIN ls
    <3> TAKE p \in o
    <3>1. p \in (DOMAIN ls) \X (DOMAIN ls)
      OBVIOUS
    <3> QED
      BY <3>1
  <2> QED
    BY <1>1, <2>1 DEF orderHolds
<1> QED
  BY <1>2, <1>3, <1>4 DEF Complete

(* What an event that is read leads to. *)
Judges ==
  \/ at' = at /\ ReturnError("invariant")
  \/ at' = at /\ ReturnError("unexpected") /\ ~Fits(seen', leaves, {})
  \/ at' = at /\ ReturnError("order") /\ Fits(seen', leaves, {}) /\ ~Fits(seen', leaves, order)
  \/ at' = at /\ fatalf("undecided") /\ Fits(seen', leaves, {})
  \/ /\ pc = "step" /\ Complete(seen', leaves, order, at')
     /\ \/ pc' = "step" /\ Len(seen') < Len(leaves)
        \/ pc' = "settle" /\ Len(seen') = Len(leaves)
     /\ UNCHANGED <<failed, verdict, accepted, swallowed, closedAt>>

LEMMA EventJudged ==
  ASSUME Typed, Placed, next_Event
  PROVE  /\ seen' \in Seq(Events) /\ queue' \in Seq(Events)
         /\ Len(seen') = Len(seen) + 1 /\ Len(queue) = Len(queue') + 1
         /\ Len(seen) \in Nat /\ Len(queue') \in Nat
         /\ Judges
<1>1. queue \in Seq(Events) /\ queue # <<>> /\ seen \in Seq(Events) /\ leaves \in Seq(Leaf)
      /\ order \in SUBSET ((DOMAIN leaves) \X (DOMAIN leaves))
  BY DEF Typed, next_Event
<1>2. queue' = Tail(queue) /\ seen' = Append(seen, Head(queue)) /\ leaves' = leaves /\ order' = order
  BY DEF next_Event
<1>3. Head(queue) \in Events /\ Tail(queue) \in Seq(Events) /\ Len(queue) = Len(Tail(queue)) + 1
      /\ Len(Tail(queue)) \in Nat
  BY <1>1
<1>4. seen' \in Seq(Events) /\ Len(seen') = Len(seen) + 1 /\ Len(seen) \in Nat /\ Len(leaves) \in Nat
  BY <1>1, <1>2, <1>3
<1>5. Judges
  <2>1. CASE invariants /\ Head(queue) \in Forbidden
    BY <2>1 DEF next_Event, Judges
  <2>2. CASE ~(invariants /\ Head(queue) \in Forbidden) /\ pc # "step"
    <3>1. at' = at /\ ReturnError("unexpected")
      BY <2>2 DEF next_Event, unexpectedEvent
    <3>2. Len(seen) = Len(leaves)
      BY <2>2 DEF Placed, next_Event, Reading
    <3>3. ~Fits(seen', leaves, {})
      <4> SUFFICES ASSUME Fits(seen', leaves, {}) PROVE FALSE
        OBVIOUS
      <4>1. Len(seen') <= Len(leaves)
        BY <1>1, <1>4, FitsNoMore
      <4> QED
        BY <1>4, <3>2, <4>1
    <3> QED
      BY <3>1, <3>3 DEF Judges
  <2>3. CASE ~(invariants /\ Head(queue) \in Forbidden) /\ pc = "step"
    <3> DEFINE fit == assignEvents(seen', leaves, order)  free == assignEvents(seen', leaves, {})
    <3>1. Fitted
      BY <2>3 DEF next_Event
    <3>2. /\ fit.at # NoFit => Complete(seen', leaves, order, fit.at)
          /\ fit.decided /\ fit.at = NoFit => ~Fits(seen', leaves, order)
          /\ ~fit.decided => Fits(seen', leaves, {})
      BY <1>1, <1>4, AssignEventsRight
    <3>3. free.decided /\ (free.at # NoFit => Fits(seen', leaves, {}))
          /\ (free.at = NoFit => ~Fits(seen', leaves, {}))
      <4>1. {} \in SUBSET ((DOMAIN leaves) \X (DOMAIN leaves))
        OBVIOUS
      <4>2. /\ free.at # NoFit => Complete(seen', leaves, {}, free.at)
            /\ free.decided /\ free.at = NoFit => ~Fits(seen', leaves, {})
            /\ free.decided
        BY <1>1, <1>4, <4>1, AssignEventsRight
      <4> HIDE DEF free
      <4> QED
        BY <1>1, <1>4, <4>2, CompleteFits
    <3>4. /\ ~fit.decided => at' = at /\ fatalf("undecided")
          /\ fit.decided /\ fit.at = NoFit /\ free.at # NoFit => at' = at /\ ReturnError("order")
          /\ fit.decided /\ fit.at = NoFit /\ free.at = NoFit => at' = at /\ ReturnError("unexpected")
          /\ fit.decided /\ fit.at # NoFit =>
               /\ at' = fit.at /\ pc' = IF Len(seen') < Len(leaves) THEN "step" ELSE "settle"
               /\ UNCHANGED <<failed, verdict, accepted, swallowed, closedAt>>
      BY <3>1 DEF Fitted, unexpectedEvent
    <3> HIDE DEF fit, free
    <3>5. CASE fit.decided /\ fit.at # NoFit
      <4>1. Complete(seen', leaves, order, at')
        BY <3>2, <3>4, <3>5
      <4>2. Len(seen) < Len(leaves)
        BY <2>3 DEF Placed
      <4>3. Len(seen') < Len(leaves) \/ Len(seen') = Len(leaves)
        BY <1>4, <4>2
      <4>4. /\ pc' = IF Len(seen') < Len(leaves) THEN "step" ELSE "settle"
            /\ UNCHANGED <<failed, verdict, accepted, swallowed, closedAt>>
        BY <3>4, <3>5
      <4>5. \/ pc' = "step" /\ Len(seen') < Len(leaves)
            \/ pc' = "settle" /\ Len(seen') = Len(leaves)
        BY <1>4, <4>3, <4>4
      <4> QED
        BY <2>3, <4>1, <4>4, <4>5 DEF Judges
    <3> QED
      BY <3>2, <3>3, <3>4, <3>5 DEF Judges
  <2> QED
    BY <2>1, <2>2, <2>3
<1> QED
  BY <1>2, <1>3, <1>4, <1>5

(* How the steps and the calls change the state, one fact per action. *)

LEMMA TryStepEffect ==
  ASSUME Typed, NEW d \in Declarations, NEW u \in Uses, NEW doFails \in BOOLEAN, TryStep(d, u, doFails)
  PROVE  /\ pc = "test" /\ seen' = <<>> /\ leaves' \in Seq(Leaf)
         /\ order' \in SUBSET ((DOMAIN leaves') \X (DOMAIN leaves'))
         /\ at' = noAssignment(leaves')
         /\ UNCHANGED <<queue, lost, arrived, finished, accepted, swallowed, closedAt>>
         /\ \/ pc' = "cleanup" /\ failed' = TRUE /\ verdict'.what \in {"malformed", "doFailed"}
            \/ /\ pc' = IF leaves' = <<>> THEN "settle" ELSE "step"
               /\ verdict' = NoVerdict /\ failed' = failed
<1> DEFINE flat == flattenAllows(d)  valid == validateAllows(d)
<1>1. flat \in Flat
  BY DeclarationsAreAllows, FlattenFlat
<1>2. /\ pc = "test" /\ seen' = <<>>
      /\ leaves' = IF valid THEN flat.leaves ELSE <<>>
      /\ order' = IF valid THEN flat.order ELSE {}
      /\ at' = noAssignment(leaves')
      /\ UNCHANGED <<queue, lost, arrived, finished>>
  BY DEF TryStep, Idle, stream
<1>3. /\ UNCHANGED <<accepted, swallowed, closedAt>>
      /\ \/ pc' = "cleanup" /\ failed' = TRUE /\ verdict'.what \in {"malformed", "doFailed"}
         \/ /\ pc' = IF leaves' = <<>> THEN "settle" ELSE "step"
            /\ verdict' = NoVerdict /\ failed' = failed
  <2> HIDE DEF valid, flat
  <2>1. IF ~valid THEN fatalf("malformed")
        ELSE IF doFails THEN fatalf("doFailed")
        ELSE /\ pc' = IF leaves' = <<>> THEN "settle" ELSE "step"
             /\ verdict' = NoVerdict
             /\ UNCHANGED <<waiting, failed, accepted, swallowed, closedAt>>
    BY DEF TryStep, valid
  <2>2. ASSUME NEW what, fatalf(what)
        PROVE  /\ UNCHANGED <<accepted, swallowed, closedAt>> /\ pc' = "cleanup" /\ failed' = TRUE
               /\ verdict'.what = what
    BY <2>2 DEF fatalf, Concluded
  <2>3. CASE ~valid
    <3>1. fatalf("malformed")
      BY <2>1, <2>3
    <3> QED
      BY <2>2, <3>1
  <2>4. CASE valid /\ doFails
    <3>1. fatalf("doFailed")
      BY <2>1, <2>4
    <3> QED
      BY <2>2, <3>1
  <2>5. CASE valid /\ ~doFails
    BY <2>1, <2>5
  <2> QED
    BY <2>3, <2>4, <2>5
<1> HIDE DEF flat, valid
<1>4. leaves' \in Seq(Leaf) /\ order' \in SUBSET ((DOMAIN leaves') \X (DOMAIN leaves'))
  <2>1. CASE valid
    <3>1. leaves' = flat.leaves /\ order' = flat.order
      BY <1>2, <2>1
    <3>2. flat.leaves \in Seq(Leaf)
          /\ flat.order \subseteq (1 .. Len(flat.leaves)) \X (1 .. Len(flat.leaves))
      BY <1>1 DEF Flat
    <3>3. DOMAIN flat.leaves = 1 .. Len(flat.leaves)
      BY <3>2
    <3> QED
      BY <3>1, <3>2, <3>3
  <2>2. CASE ~valid
    <3>1. leaves' = <<>> /\ order' = {}
      BY <1>2, <2>2
    <3> QED
      BY <3>1
  <2> QED
    BY <2>1, <2>2
<1> QED
  BY <1>2, <1>3, <1>4

LEMMA TryFinishEffect ==
  ASSUME NEW u \in Uses, TryFinish(u)
  PROVE  /\ pc = "test" /\ pc' = "finish" /\ finished' = TRUE
         /\ leaves' = <<>> /\ order' = {} /\ seen' = <<>> /\ at' = <<>> /\ verdict' = NoVerdict
         /\ UNCHANGED <<queue, lost, arrived, failed, accepted, swallowed, closedAt>>
BY DEF TryFinish, Idle, stream

(* The steps that leave the call in progress and its judgement alone. *)
Aside ==
  /\ UNCHANGED <<leaves, order, seen, at, finished, verdict, accepted, swallowed, closedAt>>
  /\ \/ UNCHANGED <<pc, failed, queue, arrived, lost>>
     \/ UNCHANGED <<pc, failed, queue, arrived>> /\ lost' = TRUE
     \/ /\ UNCHANGED <<pc, failed, lost>> /\ \E ev \in Events : queue' = Append(queue, ev)
        /\ arrived' = arrived + 1 /\ pc # "over"
     \/ UNCHANGED <<failed, queue, arrived, lost>> /\ pc' = "cleanup"
     \/ UNCHANGED <<queue, arrived, lost>> /\ pc' = "over" /\ failed' = (failed \/ ~finished)

LEMMA Asides ==
  ASSUME Emit \/ StreamFails \/ Invariant \/ Return \/ NextWaits \/ unfinished \/ UNCHANGED vars
  PROVE  Aside
<1>1. CASE Emit
  BY <1>1 DEF Emit, Aside, locals
<1>2. CASE StreamFails
  BY <1>2 DEF StreamFails, Aside, locals
<1>3. CASE Invariant
  BY <1>3 DEF Invariant, Aside, locals, stream
<1>4. CASE Return
  BY <1>4 DEF Return, Aside, locals, stream
<1>5. CASE NextWaits
  BY <1>5 DEF NextWaits, Aside, locals, stream
<1>6. CASE unfinished
  BY <1>6 DEF unfinished, Aside, locals, stream
<1>7. CASE UNCHANGED vars
  BY <1>7 DEF vars, Aside
<1> QED
  BY <1>1, <1>2, <1>3, <1>4, <1>5, <1>6, <1>7

(* An error that is returned or made fatal, at the end of a read. *)
Errs(what) == ReturnError(what) \/ fatalf(what)

LEMMA ErrsEffect ==
  ASSUME NEW what, Errs(what)
  PROVE  /\ verdict' = Concluded(what) /\ UNCHANGED <<accepted, closedAt>>
         /\ \/ pc' = "cleanup" /\ failed' = TRUE /\ swallowed' = swallowed
            \/ pc' = "test" /\ failed' = failed /\ swallowed' = TRUE /\ ReturnError(what)
BY DEF Errs, ReturnError, fatalf

(* The silence a settle window or Finish waits for. *)
Silence ==
  /\ queue = <<>> /\ UNCHANGED <<queue, arrived, lost, leaves, order, seen, at, finished, swallowed>>
  /\ verdict' = Concluded("ok")
  /\ \/ pc' = "cleanup" /\ failed' = TRUE
     \/ pc' = "test" /\ failed' = failed
  /\ \/ pc = "settle" /\ accepted' = accepted + Len(leaves) /\ closedAt' = closedAt
     \/ pc = "finish" /\ accepted' = accepted + 0 /\ closedAt' = arrived

LEMMA TimeoutEffect ==
  ASSUME next_Timeout
  PROVE  \/ /\ pc = "step" /\ ReturnError("timeout") /\ ~lost
            /\ UNCHANGED <<queue, arrived, lost, leaves, order, seen, at, finished>>
         \/ Silence
<1>1. /\ queue = <<>> /\ ~lost /\ UNCHANGED <<queue, arrived, lost, leaves, order, seen, at, finished>>
  BY DEF next_Timeout, locals, stream
<1>2. CASE pc = "step"
  BY <1>1, <1>2 DEF next_Timeout
<1>3. CASE pc = "settle"
  <2>1. ReturnNil(Len(leaves)) /\ UNCHANGED closedAt
    BY <1>3 DEF next_Timeout
  <2> QED
    BY <1>1, <1>3, <2>1 DEF ReturnNil, Silence
<1>4. CASE pc = "finish"
  <2>1. ReturnNil(0) /\ closedAt' = arrived
    BY <1>4 DEF next_Timeout
  <2> QED
    BY <1>1, <1>4, <2>1 DEF ReturnNil, Silence
<1> QED
  BY <1>2, <1>3, <1>4 DEF next_Timeout, Reading

LEMMA InitPlaced == Init => Typed /\ Placed
<1> SUFFICES ASSUME Init PROVE Typed /\ Placed
  OBVIOUS
<1>1. <<>> \in Seq(Events) /\ <<>> \in Seq(Leaf)
  OBVIOUS
<1> QED
  BY <1>1 DEF Init, Typed, Placed, Reading

LEMMA EventKeepsPlaced ==
  ASSUME Typed, Placed, next_Event
  PROVE  Typed' /\ Placed'
<1>1. /\ seen' \in Seq(Events) /\ queue' \in Seq(Events) /\ Judges
      /\ UNCHANGED <<leaves, order, lost, arrived, finished>>
  BY EventJudged DEF next_Event
<1>2. CASE \E what \in {"invariant", "unexpected", "order", "undecided"} : Errs(what)
  <2>1. PICK what \in {"invariant", "unexpected", "order", "undecided"} : Errs(what)
    BY <1>2
  <2>2. /\ UNCHANGED <<accepted, closedAt>>
        /\ \/ pc' = "cleanup" /\ failed' = TRUE /\ swallowed' = swallowed
           \/ pc' = "test" /\ failed' = failed /\ swallowed' = TRUE
    BY <2>1, ErrsEffect
  <2>3. Typed'
    BY <1>1, <2>2 DEF Typed
  <2> QED
    BY <2>2, <2>3 DEF Placed, Reading
<1>3. CASE /\ Complete(seen', leaves, order, at')
           /\ \/ pc' = "step" /\ Len(seen') < Len(leaves)
              \/ pc' = "settle" /\ Len(seen') = Len(leaves)
           /\ UNCHANGED <<failed, verdict, accepted, swallowed, closedAt>>
  <2>1. Typed'
    BY <1>1, <1>3 DEF Typed
  <2> QED
    BY <1>1, <1>3, <2>1 DEF Placed
<1> QED
  BY <1>1, <1>2, <1>3 DEF Judges, Errs

LEMMA PlacedInductive == Typed /\ Placed /\ [Next]_vars => Typed' /\ Placed'
<1> SUFFICES ASSUME Typed, Placed, [Next]_vars PROVE Typed' /\ Placed'
  OBVIOUS
<1>1. CASE Aside
  <2>1. Typed'
    <3>1. \A ev \in Events : Append(queue, ev) \in Seq(Events)
      BY DEF Typed
    <3>2. queue' \in Seq(Events) /\ arrived' \in Nat /\ lost' \in BOOLEAN
      <4>1. queue' = queue \/ \E ev \in Events : queue' = Append(queue, ev)
        BY <1>1 DEF Aside
      <4>2. queue' \in Seq(Events)
        BY <3>1, <4>1 DEF Typed
      <4>3. arrived' = arrived \/ arrived' = arrived + 1
        BY <1>1 DEF Aside
      <4>4. arrived' \in Nat
        BY <4>3 DEF Typed
      <4>5. lost' \in BOOLEAN
        BY <1>1 DEF Aside, Typed
      <4> QED
        BY <4>2, <4>4, <4>5
    <3>3. /\ pc' \in {"test", "step", "settle", "finish", "cleanup", "over"} /\ failed' \in BOOLEAN
      BY <1>1 DEF Aside, Typed
    <3>4. UNCHANGED <<leaves, order, seen, finished, accepted, swallowed, closedAt>>
      BY <1>1 DEF Aside
    <3> QED
      BY <3>2, <3>3, <3>4 DEF Typed
  <2>2. UNCHANGED <<leaves, order, seen, at>> /\ (pc' = pc \/ pc' \in {"cleanup", "over"})
    BY <1>1 DEF Aside
  <2> QED
    BY <2>1, <2>2 DEF Placed, Reading
<1>2. ASSUME NEW d \in Declarations, NEW u \in Uses, NEW doFails \in BOOLEAN, TryStep(d, u, doFails)
      PROVE  Typed' /\ Placed'
  <2>1. /\ seen' = <<>> /\ leaves' \in Seq(Leaf)
        /\ order' \in SUBSET ((DOMAIN leaves') \X (DOMAIN leaves'))
        /\ at' = noAssignment(leaves')
        /\ UNCHANGED <<queue, lost, arrived, finished, accepted, swallowed, closedAt>>
        /\ \/ pc' = "cleanup" /\ failed' = TRUE
           \/ pc' = (IF leaves' = <<>> THEN "settle" ELSE "step") /\ failed' = failed
    BY <1>2, TryStepEffect
  <2>2. <<>> \in Seq(Events) /\ Len(<<>>) = 0
    OBVIOUS
  <2>3. Typed'
    BY <2>1, <2>2 DEF Typed
  <2>4. Complete(seen', leaves', order', at')
    BY <2>1, NothingComplete
  <2>5. leaves' # <<>> => 0 < Len(leaves')
    BY <2>1
  <2> QED
    BY <2>1, <2>2, <2>3, <2>4, <2>5 DEF Placed
<1>3. ASSUME NEW u \in Uses, TryFinish(u) PROVE Typed' /\ Placed'
  <2>1. /\ pc' = "finish" /\ finished' = TRUE
        /\ leaves' = <<>> /\ order' = {} /\ seen' = <<>> /\ at' = <<>>
        /\ UNCHANGED <<queue, lost, arrived, failed, accepted, swallowed, closedAt>>
    BY <1>3, TryFinishEffect
  <2>2. <<>> \in Seq(Events) /\ <<>> \in Seq(Leaf)
    OBVIOUS
  <2>3. Typed'
    BY <2>1, <2>2 DEF Typed
  <2>4. noAssignment(<<>>) = <<>>
    BY DEF noAssignment
  <2>5. {} \in SUBSET ((DOMAIN <<>>) \X (DOMAIN <<>>))
    OBVIOUS
  <2>6. Complete(<<>>, <<>>, {}, <<>>)
    BY <2>2, <2>4, <2>5, NothingComplete
  <2> QED
    BY <2>1, <2>3, <2>6 DEF Placed
<1>4. CASE next_Lost
  <2>1. fatalf("lost") /\ UNCHANGED <<queue, lost, arrived, finished, leaves, order, seen>>
    BY <1>4 DEF next_Lost, stream, locals
  <2> QED
    BY <2>1 DEF fatalf, Typed, Placed, Reading
<1>5. CASE next_Event
  BY <1>5, EventKeepsPlaced
<1>6. CASE next_Timeout
  <2>1. CASE ReturnError("timeout") /\ UNCHANGED <<queue, arrived, lost, leaves, order, seen, at, finished>>
    <3>1. /\ UNCHANGED <<accepted, closedAt>>
          /\ \/ pc' = "cleanup" /\ failed' = TRUE /\ swallowed' = swallowed
             \/ pc' = "test" /\ failed' = failed /\ swallowed' = TRUE
      BY <2>1, ErrsEffect DEF Errs
    <3> QED
      BY <2>1, <3>1 DEF Typed, Placed, Reading
  <2>2. CASE Silence
    <3>1. accepted' \in Nat /\ closedAt' \in Nat
      <4>1. Len(leaves) \in Nat
        BY DEF Typed
      <4> QED
        BY <2>2, <4>1 DEF Silence, Typed
    <3> QED
      BY <2>2, <3>1 DEF Silence, Typed, Placed, Reading
  <2> QED
    BY <1>6, <2>1, <2>2, TimeoutEffect
<1> QED
  BY <1>1, <1>2, <1>3, <1>4, <1>5, <1>6, Asides DEF Next

(* The books: what arrived is queued, accepted or in hand, unless an error *)
(* was pinned or ignored, and silence was never found with events unread.  *)
InHand == IF pc = "test" THEN 0 ELSE Len(seen)
Books ==
  ~swallowed =>
    /\ pc \in {"test", "step", "settle", "finish"} => arrived = Len(queue) + accepted + InHand
    /\ closedAt <= accepted

LEMMA BooksInductive == Typed /\ Placed /\ Books /\ [Next]_vars => Books'
<1> SUFFICES ASSUME Typed, Placed, Books, [Next]_vars, ~swallowed' PROVE
               /\ pc' \in {"test", "step", "settle", "finish"} => arrived' = Len(queue') + accepted' + InHand'
               /\ closedAt' <= accepted'
  BY DEF Books
<1>0. /\ Len(queue) \in Nat /\ Len(seen) \in Nat /\ Len(leaves) \in Nat
      /\ accepted \in Nat /\ arrived \in Nat /\ closedAt \in Nat
  BY DEF Typed
<1> DEFINE Run == {"test", "step", "settle", "finish"}
<1>1. CASE Aside
  <2>1. ~swallowed /\ UNCHANGED <<seen, accepted, closedAt>>
    BY <1>1 DEF Aside
  <2>2. ASSUME pc' \in Run PROVE pc' = pc /\ InHand' = InHand
    <3>1. pc' = pc
      BY <1>1, <2>2 DEF Aside
    <3> QED
      BY <2>1, <3>1 DEF InHand
  <2>3. arrived' - Len(queue') = arrived - Len(queue) /\ arrived' \in Nat /\ Len(queue') \in Nat
    <3>1. CASE UNCHANGED <<queue, arrived>>
      BY <1>0, <3>1
    <3>2. CASE (\E ev \in Events : queue' = Append(queue, ev)) /\ arrived' = arrived + 1
      <4>1. \A ev \in Events : Len(Append(queue, ev)) = Len(queue) + 1
        BY DEF Typed
      <4>2. Len(queue') = Len(queue) + 1
        BY <3>2, <4>1
      <4> QED
        BY <1>0, <3>2, <4>2
    <3> QED
      BY <1>1, <3>1, <3>2 DEF Aside
  <2>4. InHand \in Nat
    BY <1>0 DEF InHand
  <2>5. (pc \in Run => arrived = Len(queue) + accepted + InHand) /\ closedAt <= accepted
    BY <2>1 DEF Books
  <2> QED
    BY <1>0, <2>1, <2>2, <2>3, <2>4, <2>5
<1>2. ASSUME NEW d \in Declarations, NEW u \in Uses, NEW doFails \in BOOLEAN, TryStep(d, u, doFails)
      PROVE  (pc' \in Run => arrived' = Len(queue') + accepted' + InHand') /\ closedAt' <= accepted'
  <2>1. pc = "test" /\ seen' = <<>> /\ UNCHANGED <<queue, arrived, accepted, swallowed, closedAt>>
    BY <1>2, TryStepEffect
  <2>2. InHand = 0 /\ InHand' = 0
    BY <2>1 DEF InHand
  <2> QED
    BY <2>1, <2>2 DEF Books
<1>3. ASSUME NEW u \in Uses, TryFinish(u)
      PROVE  (pc' \in Run => arrived' = Len(queue') + accepted' + InHand') /\ closedAt' <= accepted'
  <2>1. pc = "test" /\ seen' = <<>> /\ UNCHANGED <<queue, arrived, accepted, swallowed, closedAt>>
    BY <1>3, TryFinishEffect
  <2>2. InHand = 0 /\ InHand' = 0
    BY <2>1 DEF InHand
  <2> QED
    BY <2>1, <2>2 DEF Books
<1>4. CASE next_Lost
  <2>1. pc' = "cleanup" /\ UNCHANGED <<accepted, swallowed, closedAt>>
    BY <1>4 DEF next_Lost, fatalf
  <2> QED
    BY <2>1 DEF Books
<1>5. CASE next_Event
  <2>1. /\ Len(seen') = Len(seen) + 1 /\ Len(queue) = Len(queue') + 1 /\ Len(queue') \in Nat
        /\ Judges /\ arrived' = arrived
    BY <1>5, EventJudged DEF next_Event
  <2>2. CASE \E what \in {"invariant", "unexpected", "order", "undecided"} : Errs(what)
    <3>1. PICK what \in {"invariant", "unexpected", "order", "undecided"} : Errs(what)
      BY <2>2
    <3>2. UNCHANGED <<accepted, closedAt>> /\ pc' = "cleanup" /\ swallowed' = swallowed
      BY <3>1, ErrsEffect
    <3> QED
      BY <3>2 DEF Books
  <2>3. CASE pc = "step" /\ pc' \in {"step", "settle"} /\ UNCHANGED <<accepted, swallowed, closedAt>>
    <3>1. InHand = Len(seen) /\ InHand' = Len(seen')
      BY <2>3 DEF InHand
    <3>2. arrived = Len(queue) + accepted + InHand /\ closedAt <= accepted
      BY <2>3 DEF Books
    <3> QED
      BY <1>0, <2>1, <2>3, <3>1, <3>2
  <2> QED
    BY <2>1, <2>2, <2>3 DEF Judges, Errs
<1>6. CASE next_Timeout
  <2>1. CASE ReturnError("timeout")
    <3>1. UNCHANGED <<accepted, closedAt>> /\ pc' = "cleanup" /\ swallowed' = swallowed
      BY <2>1, ErrsEffect DEF Errs
    <3> QED
      BY <3>1 DEF Books
  <2>2. CASE Silence
    <3>1. /\ ~swallowed /\ pc \in {"settle", "finish"} /\ pc' \in {"test", "cleanup"}
          /\ Len(queue) = 0 /\ UNCHANGED <<queue, arrived>>
      BY <2>2 DEF Silence
    <3>2. InHand = Len(seen) /\ (pc' = "test" => InHand' = 0)
      BY <3>1 DEF InHand
    <3>3. arrived = Len(queue) + accepted + InHand /\ closedAt <= accepted
      BY <3>1 DEF Books
    <3>4. CASE pc = "settle" /\ accepted' = accepted + Len(leaves) /\ closedAt' = closedAt
      <4>1. Len(seen) = Len(leaves)
        BY <3>4 DEF Placed
      <4> QED
        BY <1>0, <3>1, <3>2, <3>3, <3>4, <4>1
    <3>5. CASE pc = "finish" /\ accepted' = accepted + 0 /\ closedAt' = arrived
      <4>1. Len(seen) = 0
        BY <3>5 DEF Placed
      <4> QED
        BY <1>0, <3>1, <3>2, <3>3, <3>5, <4>1
    <3> QED
      BY <2>2, <3>4, <3>5 DEF Silence
  <2> QED
    BY <1>6, <2>1, <2>2, TimeoutEffect
<1> QED
  BY <1>1, <1>2, <1>3, <1>4, <1>5, <1>6, Asides DEF Next

(* The test passes only with Finish called, and its last verdict, if it    *)
(* has not failed, is one that observed the system under test.             *)
Honest ==
  /\ pc = "over" /\ ~failed => finished
  /\ ~failed => /\ verdict.what \in {"none", "ok", "unexpected", "order", "timeout", "invariant"}
                /\ verdict.what = "timeout" => ~verdict.lost

LEMMA HonestInductive == Typed /\ Placed /\ Honest /\ [Next]_vars => Honest'
<1> SUFFICES ASSUME Typed, Placed, Honest, [Next]_vars, ~failed' PROVE
               /\ pc' = "over" => finished'
               /\ verdict'.what \in {"none", "ok", "unexpected", "order", "timeout", "invariant"}
               /\ verdict'.what = "timeout" => ~verdict'.lost
  BY DEF Honest
<1>0. \A what : Concluded(what).what = what /\ Concluded(what).lost = lost
  BY DEF Concluded
<1>1. CASE Aside
  <2>1. verdict' = verdict /\ finished' = finished
    BY <1>1 DEF Aside
  <2>2. CASE failed' = failed /\ (pc' = pc \/ pc' = "cleanup")
    <3>1. ~failed
      BY <2>2
    <3> QED
      BY <2>1, <2>2, <3>1 DEF Honest
  <2>3. CASE failed' = (failed \/ ~finished)
    <3>1. ~(failed \/ ~finished)
      BY <2>3
    <3>2. ~failed /\ finished
      BY <3>1 DEF Typed
    <3> QED
      BY <2>1, <3>2 DEF Honest
  <2>4. \/ failed' = failed /\ (pc' = pc \/ pc' = "cleanup")
        \/ failed' = (failed \/ ~finished)
    BY <1>1 DEF Aside
  <2> QED
    BY <2>2, <2>3, <2>4
<1>2. ASSUME NEW d \in Declarations, NEW u \in Uses, NEW doFails \in BOOLEAN, TryStep(d, u, doFails)
      PROVE  pc' # "over" /\ verdict'.what = "none"
  <2>1. pc' \in {"settle", "step"} /\ verdict' = NoVerdict
    BY <1>2, TryStepEffect
  <2> QED
    BY <2>1 DEF NoVerdict
<1>3. ASSUME NEW u \in Uses, TryFinish(u) PROVE pc' # "over" /\ verdict'.what = "none"
  <2>1. pc' = "finish" /\ verdict' = NoVerdict
    BY <1>3, TryFinishEffect
  <2> QED
    BY <2>1 DEF NoVerdict
<1>4. CASE next_Lost
  BY <1>4 DEF next_Lost, fatalf
<1>5. ASSUME NEW what \in {"unexpected", "order", "invariant", "undecided"}, Errs(what), what # "undecided"
      PROVE  pc' # "over" /\ verdict'.what \in {"unexpected", "order", "invariant"}
  <2>1. verdict' = Concluded(what) /\ pc' = "test"
    BY <1>5, ErrsEffect
  <2> QED
    BY <1>0, <1>5, <2>1
<1>6. CASE next_Event
  <2>1. Judges
    BY <1>6, EventJudged
  <2>2. ~fatalf("undecided")
    BY DEF fatalf
  <2>3. CASE \E what \in {"unexpected", "order", "invariant"} : ReturnError(what)
    BY <1>5, <2>3 DEF Errs
  <2>4. CASE pc' \in {"step", "settle"} /\ UNCHANGED <<failed, verdict>>
    BY <2>4 DEF Honest
  <2> QED
    BY <2>1, <2>2, <2>3, <2>4 DEF Judges
<1>7. CASE next_Timeout
  <2>1. CASE ReturnError("timeout") /\ ~lost
    <3>1. verdict' = Concluded("timeout") /\ pc' = "test"
      BY <2>1, ErrsEffect DEF Errs
    <3> QED
      BY <1>0, <2>1, <3>1
  <2>2. CASE Silence
    <3>1. verdict' = Concluded("ok") /\ pc' = "test"
      BY <2>2 DEF Silence
    <3> QED
      BY <1>0, <3>1
  <2> QED
    BY <1>7, <2>1, <2>2, TimeoutEffect
<1> QED
  BY <1>1, <1>2, <1>3, <1>4, <1>6, <1>7, Asides DEF Next

(* What a verdict claims of the events and the leaves it was given on. *)
Claims(v) ==
  /\ v.what = "ok" => Len(v.seen) = Len(v.leaves) /\ Fits(v.seen, v.leaves, v.order)
  /\ v.what = "unexpected" => ~Fits(v.seen, v.leaves, {})
  /\ v.what = "order" => Fits(v.seen, v.leaves, {}) /\ ~Fits(v.seen, v.leaves, v.order)
  /\ v.what = "undecided" => Fits(v.seen, v.leaves, {})
  /\ v.what = "timeout" =>
       /\ Fits(v.seen, v.leaves, v.order)
       /\ \A e \in DOMAIN v.seen :
            \E l \in DOMAIN v.leaves : v.at[l] = e /\ matches(v.leaves[l], v.seen[e])
       /\ Cardinality({l \in DOMAIN v.leaves : v.at[l] = 0}) = Len(v.leaves) - Len(v.seen)

LEMMA ClaimsAreVerdicts == Claims(verdict) <=> VerdictsAreRight
<1>1. CASE verdict.what = "ok"
  BY <1>1 DEF Claims, VerdictsAreRight
<1>2. CASE verdict.what = "unexpected"
  BY <1>2 DEF Claims, VerdictsAreRight
<1>3. CASE verdict.what = "order"
  BY <1>3 DEF Claims, VerdictsAreRight
<1>4. CASE verdict.what = "undecided"
  BY <1>4 DEF Claims, VerdictsAreRight
<1>5. CASE verdict.what = "timeout"
  BY <1>5 DEF Claims, VerdictsAreRight
<1>6. CASE verdict.what \notin {"ok", "unexpected", "order", "undecided", "timeout"}
  BY <1>6 DEF Claims, VerdictsAreRight
<1> QED
  BY <1>1, <1>2, <1>3, <1>4, <1>5, <1>6

LEMMA ConcludedFields ==
  ASSUME NEW what
  PROVE  LET v == Concluded(what) IN
         v.what = what /\ v.seen = seen' /\ v.leaves = leaves' /\ v.order = order' /\ v.at = at'
BY DEF Concluded

LEMMA OtherClaims ==
  ASSUME NEW v, v.what \notin {"ok", "unexpected", "order", "undecided", "timeout"}
  PROVE  Claims(v)
BY DEF Claims

(* A step in progress has the assignment its timeout and its success need. *)
LEMMA CompleteClaims ==
  ASSUME Typed, Complete(seen, leaves, order, at)
  PROVE  /\ Fits(seen, leaves, order)
         /\ \A e \in DOMAIN seen : \E l \in DOMAIN leaves : at[l] = e /\ matches(leaves[l], seen[e])
         /\ Cardinality({l \in DOMAIN leaves : at[l] = 0}) = Len(leaves) - Len(seen)
<1>1. /\ seen \in Seq(Events) /\ leaves \in Seq(Leaf) /\ Len(seen) \in Nat /\ DOMAIN seen = 1 .. Len(seen)
      /\ Assigned(seen, leaves, at, Len(seen))
  BY DEF Typed, Complete
<1>2. Fits(seen, leaves, order)
  BY <1>1, CompleteFits
<1>3. ASSUME NEW e \in DOMAIN seen PROVE \E l \in DOMAIN leaves : at[l] = e /\ matches(leaves[l], seen[e])
  <2>1. e \in Nat \ {0} /\ e <= Len(seen)
    BY <1>1
  <2>2. PICK l \in DOMAIN leaves : at[l] = e
    BY <1>1, <2>1 DEF Assigned, Held
  <2>3. matches(leaves[l], seen[e])
    BY <1>1, <2>1, <2>2 DEF Assigned, Holding
  <2> QED
    BY <2>2, <2>3
<1>4. Cardinality({l \in DOMAIN leaves : at[l] = 0}) = Len(leaves) - Len(seen)
  BY <1>1, OpenLeaves
<1> QED
  BY <1>2, <1>3, <1>4

LEMMA ClaimsInductive == Typed /\ Placed /\ Claims(verdict) /\ [Next]_vars => Claims(verdict')
<1> SUFFICES ASSUME Typed, Placed, Claims(verdict), [Next]_vars PROVE Claims(verdict')
  OBVIOUS
<1>1. CASE Aside
  BY <1>1 DEF Aside
<1>0. NoVerdict.what = "none"
  BY DEF NoVerdict
<1>2. ASSUME NEW d \in Declarations, NEW u \in Uses, NEW doFails \in BOOLEAN, TryStep(d, u, doFails)
      PROVE  Claims(verdict')
  <2>1. verdict'.what \in {"none", "malformed", "doFailed"}
    BY <1>0, <1>2, TryStepEffect
  <2> QED
    BY <2>1, OtherClaims
<1>3. ASSUME NEW u \in Uses, TryFinish(u) PROVE Claims(verdict')
  <2>1. verdict'.what = "none"
    BY <1>0, <1>3, TryFinishEffect
  <2> QED
    BY <2>1, OtherClaims
<1>4. CASE next_Lost
  <2>1. verdict'.what = "lost"
    BY <1>4, ConcludedFields DEF next_Lost, fatalf
  <2> QED
    BY <2>1, OtherClaims
<1>5. CASE next_Event
  <2>1. Judges /\ leaves' = leaves /\ order' = order
    BY <1>5, EventJudged DEF next_Event
  <2>2. CASE ReturnError("invariant")
    <3>1. verdict' = Concluded("invariant")
      BY <2>2, ErrsEffect DEF Errs
    <3> HIDE DEF Concluded
    <3>2. verdict'.what = "invariant"
      BY <3>1, ConcludedFields
    <3> QED
      BY <3>2, OtherClaims
  <2>3. CASE ReturnError("unexpected") /\ ~Fits(seen', leaves, {})
    <3>1. verdict' = Concluded("unexpected")
      BY <2>3, ErrsEffect DEF Errs
    <3>2. verdict'.what = "unexpected" /\ verdict'.seen = seen' /\ verdict'.leaves = leaves
      BY <2>1, <3>1, ConcludedFields
    <3> QED
      BY <2>3, <3>2 DEF Claims
  <2>4. CASE ReturnError("order") /\ Fits(seen', leaves, {}) /\ ~Fits(seen', leaves, order)
    <3>1. verdict' = Concluded("order")
      BY <2>4, ErrsEffect DEF Errs
    <3>2. verdict'.what = "order" /\ verdict'.seen = seen' /\ verdict'.leaves = leaves /\ verdict'.order = order
      BY <2>1, <3>1, ConcludedFields
    <3> QED
      BY <2>4, <3>2 DEF Claims
  <2>5. CASE fatalf("undecided") /\ Fits(seen', leaves, {})
    <3>1. verdict' = Concluded("undecided")
      BY <2>5, ErrsEffect DEF Errs
    <3>2. verdict'.what = "undecided" /\ verdict'.seen = seen' /\ verdict'.leaves = leaves
      BY <2>1, <3>1, ConcludedFields
    <3> QED
      BY <2>5, <3>2 DEF Claims
  <2>6. CASE UNCHANGED verdict
    BY <2>6
  <2> QED
    BY <2>1, <2>2, <2>3, <2>4, <2>5, <2>6 DEF Judges
<1>6. CASE next_Timeout
  <2>1. ASSUME Reading
        PROVE  /\ Fits(seen, leaves, order)
               /\ \A e \in DOMAIN seen : \E l \in DOMAIN leaves : at[l] = e /\ matches(leaves[l], seen[e])
               /\ Cardinality({l \in DOMAIN leaves : at[l] = 0}) = Len(leaves) - Len(seen)
    BY <2>1, CompleteClaims DEF Placed
  <2>2. CASE pc = "step" /\ ReturnError("timeout") /\ UNCHANGED <<leaves, order, seen, at>>
    <3>1. verdict' = Concluded("timeout")
      BY <2>2, ErrsEffect DEF Errs
    <3>2. /\ verdict'.what = "timeout" /\ verdict'.seen = seen /\ verdict'.leaves = leaves
          /\ verdict'.order = order /\ verdict'.at = at
      BY <2>2, <3>1, ConcludedFields
    <3> DEFINE v == verdict'
    <3>3. v.what = "timeout" /\ v.seen = seen /\ v.leaves = leaves /\ v.order = order /\ v.at = at
      BY <3>2
    <3> HIDE DEF v
    <3>4. Claims(v)
      BY <2>1, <2>2, <3>3 DEF Claims, Reading
    <3> QED
      BY <3>4 DEF v
  <2>3. CASE Silence
    <3>1. /\ verdict' = Concluded("ok") /\ UNCHANGED <<leaves, order, seen, at>>
          /\ pc \in {"settle", "finish"}
      BY <2>3 DEF Silence
    <3>2. Len(seen) = Len(leaves)
      BY <3>1 DEF Placed
    <3>3. /\ verdict'.what = "ok" /\ verdict'.seen = seen /\ verdict'.leaves = leaves
          /\ verdict'.order = order
      BY <3>1, ConcludedFields
    <3> DEFINE v == verdict'
    <3>4. v.what = "ok" /\ v.seen = seen /\ v.leaves = leaves /\ v.order = order
      BY <3>3
    <3> HIDE DEF v
    <3>5. Claims(v)
      BY <2>1, <3>1, <3>2, <3>4 DEF Claims, Reading
    <3> QED
      BY <3>5 DEF v
  <2> QED
    BY <1>6, <2>2, <2>3, TimeoutEffect
<1> QED
  BY <1>1, <1>2, <1>3, <1>4, <1>5, <1>6, Asides DEF Next

(* The variables have their types, and between two reads every event of    *)
(* the step in progress is placed, in order, at a leaf of its own that it  *)
(* matches (TryStep, Script.next).                                         *)
THEOREM StepsArePlaced == Spec => [](Typed /\ Placed)
<1>1. Init => Typed /\ Placed
  BY InitPlaced
<1>2. Typed /\ Placed /\ [Next]_vars => Typed' /\ Placed'
  BY PlacedInductive
<1> QED
  BY <1>1, <1>2, PTL DEF Spec

(* Every judgement of a step is right, for any declarations, events and    *)
(* search budget (TryStep, assignEvents).                                  *)
THEOREM JudgementsAreRight == Spec => []VerdictsAreRight
<1>1. Init => Claims(verdict)
  <2>1. Init => verdict.what = "none"
    BY DEF Init, NoVerdict
  <2> QED
    BY <2>1, OtherClaims
<1>2. Typed /\ Placed /\ Claims(verdict) /\ [Next]_vars => Claims(verdict)'
  BY ClaimsInductive
<1>3. Claims(verdict) => VerdictsAreRight
  BY ClaimsAreVerdicts
<1> QED
  BY <1>1, <1>2, <1>3, StepsArePlaced, PTL DEF Spec

(* A test that passes called Finish, and no event that arrived before      *)
(* Finish found silence escaped the steps (TryFinish, unfinished).         *)
THEOREM WorldIsClosed == Spec => []ClosedWorld
<1>1. Init => Books /\ Honest
  BY DEF Init, Books, Honest, InHand, NoVerdict
<1>2. Typed /\ Placed /\ Books /\ Honest /\ [Next]_vars => Books' /\ Honest'
  BY BooksInductive, HonestInductive
<1>3. Typed /\ Books /\ Honest => ClosedWorld
  <2> SUFFICES ASSUME Typed, Books, Honest PROVE ClosedWorld
    OBVIOUS
  <2>1. ~swallowed => accepted >= closedAt
    BY DEF Typed, Books
  <2> QED
    BY <2>1 DEF Honest, ClosedWorld
<1> QED
  BY <1>1, <1>2, <1>3, StepsArePlaced, PTL DEF Spec

(* A pin is confirmed only by what the system under test did (KnownDefect, *)
(* TryStep, next).                                                         *)
THEOREM PinsArePinned == Spec => []PinsAreEvidence
<1>1. Init => Honest
  BY DEF Init, Honest, NoVerdict
<1>2. Typed /\ Placed /\ Honest /\ [Next]_vars => Honest'
  BY HonestInductive
<1>3. Honest => PinsAreEvidence
  BY DEF Honest, PinsAreEvidence
<1> QED
  BY <1>1, <1>2, <1>3, StepsArePlaced, PTL DEF Spec

------------------------------------------------------------------------------
(* The other way to assert what was written: a cursor.  Used by one        *)
(* goroutine it implements the queue of OpQueue, for any controllers,      *)
(* labels, scope, timeout and expectations.                                *)

(* What holds of i whenever it holds below i holds everywhere. *)
LEMMA StrongInductive ==
  ASSUME NEW S, \A n \in Nat : (\A m \in Nat : m < n => m \in S) => n \in S
  PROVE  Nat \subseteq S
<1> SUFFICES ASSUME NEW k \in Nat, k \notin S PROVE FALSE
  OBVIOUS
<1>1. PICK n \in Nat \ S : \A m \in Nat \ S : n <= m
  <2>1. Nat \ S \in SUBSET Nat /\ Nat \ S # {}
    OBVIOUS
  <2> QED
    BY <2>1, LeastExists
<1>2. \A m \in Nat : m < n => m \in S
  BY <1>1
<1> QED
  BY <1>1, <1>2

(* A loop of n rounds, from x. *)
Rounds(c, n, X, x, F) == c \in [0 .. n -> X] /\ c[0] = x /\ \A k \in 1 .. n : c[k] = F[k][c[k - 1]]

LEMMA RoundsExist ==
  ASSUME NEW n \in Nat, NEW X, NEW x \in X, NEW F \in [Nat -> [X -> X]]
  PROVE  \E c : Rounds(c, n, X, x, F)
<1> DEFINE S == {k \in Nat : \E c : Rounds(c, k, X, x, F)}
<1>1. 0 \in S
  <2>1. Rounds([i \in 0 .. 0 |-> x], 0, X, x, F)
    BY DEF Rounds
  <2> QED
    BY <2>1
<1>2. ASSUME NEW k \in Nat, k \in S PROVE k + 1 \in S
  <2>1. PICK c : Rounds(c, k, X, x, F)
    BY <1>2
  <2> DEFINE d == [i \in 0 .. k + 1 |-> IF i <= k THEN c[i] ELSE F[k + 1][c[k]]]
  <2>2. c[k] \in X /\ F[k + 1][c[k]] \in X
    BY <2>1 DEF Rounds
  <2>3. d \in [0 .. k + 1 -> X] /\ d[0] = x
    <3>1. ASSUME NEW i \in 0 .. k + 1 PROVE d[i] \in X
      <4>1. CASE i <= k
        BY <2>1, <4>1 DEF Rounds
      <4>2. CASE ~(i <= k)
        BY <2>2, <4>2
      <4> QED
        BY <4>1, <4>2
    <3> QED
      BY <2>1, <3>1 DEF Rounds
  <2>4. ASSUME NEW i \in 1 .. k + 1 PROVE d[i] = F[i][d[i - 1]]
    <3>1. CASE i <= k
      <4>1. i \in 1 .. k /\ i - 1 \in 0 .. k + 1 /\ i - 1 <= k /\ i \in 0 .. k + 1
        BY <3>1
      <4> QED
        BY <2>1, <3>1, <4>1 DEF Rounds
    <3>2. CASE ~(i <= k)
      <4>1. i = k + 1 /\ i - 1 = k /\ k \in 0 .. k + 1 /\ i \in 0 .. k + 1
        BY <3>2
      <4> QED
        BY <3>2, <4>1
    <3> QED
      BY <3>1, <3>2
  <2>5. Rounds(d, k + 1, X, x, F)
    <3> HIDE DEF d
    <3> QED
      BY <2>3, <2>4 DEF Rounds
  <2> HIDE DEF d
  <2> QED
    BY <2>5
<1> HIDE DEF S
<1>3. Nat \subseteq S
  BY <1>1, <1>2, Inductive
<1> QED
  BY <1>3 DEF S

------------------------------------------------------------------------------
(* Positions in log order. *)

Rising(h)   == h \in Seq(Nat) /\ \A i, j \in DOMAIN h : i < j => h[i] < h[j]
Members(h)  == {h[i] : i \in DOMAIN h}
Lists(h, X) == Rising(h) /\ Members(h) = X

(* h is the first n of X, or all of X. *)
FirstOf(h, n, X) ==
  /\ Rising(h) /\ Len(h) <= n /\ Members(h) \subseteq X
  /\ \A x \in X : x \in Members(h) \/ (Len(h) = n /\ \A i \in DOMAIN h : h[i] < x)

LEMMA RisingIsInjective ==
  ASSUME NEW h, Rising(h), NEW i \in DOMAIN h, NEW j \in DOMAIN h
  PROVE  /\ i \in Nat /\ j \in Nat /\ h[i] \in Nat /\ h[j] \in Nat
         /\ (h[i] = h[j] => i = j) /\ (h[i] < h[j] => i < j) /\ (i <= j => h[i] <= h[j])
<1>1. i \in Nat /\ j \in Nat /\ h[i] \in Nat /\ h[j] \in Nat
  BY DEF Rising
<1>2. (i < j => h[i] < h[j]) /\ (j < i => h[j] < h[i])
  BY DEF Rising
<1> QED
  BY <1>1, <1>2

(* The first n members of a set, however they are listed. *)
LEMMA FirstOfLists ==
  ASSUME NEW X, NEW f, NEW n, NEW h, FirstOf(f, n, X), Lists(h, X)
  PROVE  \A i \in DOMAIN f : i \in DOMAIN h /\ f[i] = h[i]
<1>1. f \in Seq(Nat) /\ h \in Seq(Nat) /\ Rising(f) /\ Rising(h) /\ Members(f) \subseteq X /\ Members(h) = X
  BY DEF Lists, FirstOf, Rising
<1>2. DOMAIN f = 1 .. Len(f) /\ DOMAIN h = 1 .. Len(h) /\ Len(f) \in Nat /\ Len(h) \in Nat
  BY <1>1
<1> DEFINE S == {i \in Nat : i \in DOMAIN f => i \in DOMAIN h /\ f[i] = h[i]}
<1>3. ASSUME NEW i \in Nat, \A m \in Nat : m < i => m \in S PROVE i \in S
  <2> SUFFICES ASSUME i \in DOMAIN f PROVE i \in DOMAIN h /\ f[i] = h[i]
    OBVIOUS
  <2>1. \A m \in DOMAIN f : m < i => m \in DOMAIN h /\ f[m] = h[m]
    BY <1>2, <1>3
  <2> HIDE DEF S
  <2>2. PICK j \in DOMAIN h : f[i] = h[j]
    BY <1>1 DEF Members
  <2>3. j \in Nat /\ ~(j < i)
    <3>1. ASSUME j < i PROVE FALSE
      <4>1. j \in DOMAIN f
        BY <1>2, <3>1
      <4>2. f[j] = f[i]
        BY <2>1, <2>2, <3>1, <4>1
      <4>3. j = i
        BY <1>1, <4>1, <4>2, RisingIsInjective
      <4> QED
        BY <3>1, <4>3
    <3> QED
      BY <1>2, <3>1
  <2>4. i \in DOMAIN h /\ i <= j
    BY <1>2, <2>3
  <2>5. h[i] <= f[i] /\ h[i] \in Nat /\ f[i] \in Nat
    BY <1>1, <2>2, <2>4, RisingIsInjective
  <2>6. h[i] \in X
    BY <1>1, <2>4 DEF Members
  <2>7. CASE h[i] \in Members(f)
    <3>1. PICK l \in DOMAIN f : h[i] = f[l]
      BY <2>7 DEF Members
    <3>2. l \in Nat /\ ~(l < i)
      <4>1. ASSUME l < i PROVE FALSE
        <5>1. l \in DOMAIN h /\ h[l] = h[i]
          BY <2>1, <3>1, <4>1
        <5>2. l = i
          BY <1>1, <2>4, <5>1, RisingIsInjective
        <5> QED
          BY <4>1, <5>2
      <4> QED
        BY <1>2, <4>1
    <3>3. i <= l
      BY <3>2
    <3>4. f[i] <= h[i]
      BY <1>1, <3>1, <3>3, RisingIsInjective
    <3> QED
      BY <2>4, <2>5, <3>4
  <2>8. CASE h[i] \notin Members(f)
    <3>1. f[i] < h[i]
      BY <2>6, <2>8 DEF FirstOf
    <3> QED
      BY <2>5, <3>1
  <2> QED
    BY <2>7, <2>8
<1> HIDE DEF S
<1>4. Nat \subseteq S
  BY <1>3, StrongInductive
<1> QED
  BY <1>2, <1>4 DEF S

(* There is one way to list a set. *)
LEMMA ListedOnce ==
  ASSUME NEW X, NEW s, NEW t, Lists(s, X), Lists(t, X)
  PROVE  s = t
<1>1. s \in Seq(Nat) /\ t \in Seq(Nat)
  BY DEF Lists, Rising
<1>2. Len(s) \in Nat /\ Len(t) \in Nat
  BY <1>1
<1>3. DOMAIN s = 1 .. Len(s) /\ DOMAIN t = 1 .. Len(t)
  BY <1>1
<1>4. FirstOf(s, Len(s), X) /\ FirstOf(t, Len(t), X)
  <2>1. Len(s) <= Len(s) /\ Len(t) <= Len(t)
    BY <1>2
  <2> QED
    BY <2>1 DEF FirstOf, Lists
<1>5. (\A i \in DOMAIN s : i \in DOMAIN t /\ s[i] = t[i]) /\ (\A i \in DOMAIN t : i \in DOMAIN s)
  BY <1>4, FirstOfLists
<1>6. Len(s) = Len(t)
  <2>1. ASSUME Len(s) < Len(t) PROVE FALSE
    <3>1. Len(s) + 1 \in DOMAIN t /\ Len(s) + 1 \notin DOMAIN s
      BY <1>2, <1>3, <2>1
    <3> QED
      BY <1>5, <3>1
  <2>2. ASSUME Len(t) < Len(s) PROVE FALSE
    <3>1. Len(t) + 1 \in DOMAIN s /\ Len(t) + 1 \notin DOMAIN t
      BY <1>2, <1>3, <2>2
    <3> QED
      BY <1>5, <3>1
  <2> QED
    BY <1>2, <2>1, <2>2
<1> QED
  BY <1>1, <1>3, <1>5, <1>6, SMTT(30)

LEMMA RisingAbove ==
  ASSUME NEW h, Rising(h), NEW i \in DOMAIN h
  PROVE  i - 1 <= h[i]
<1>0. h \in Seq(Nat) /\ DOMAIN h = 1 .. Len(h) /\ Len(h) \in Nat
  <2>1. h \in Seq(Nat)
    BY DEF Rising
  <2> QED
    BY <2>1
<1> DEFINE S == {k \in Nat : k \in DOMAIN h => k - 1 <= h[k]}
<1>1. 0 \in S
  BY <1>0
<1>2. ASSUME NEW k \in Nat, k \in S PROVE k + 1 \in S
  <2> SUFFICES ASSUME k + 1 \in DOMAIN h PROVE (k + 1) - 1 <= h[k + 1]
    OBVIOUS
  <2>1. h[k + 1] \in Nat
    BY <1>0
  <2>2. CASE k = 0
    BY <2>1, <2>2
  <2>3. CASE k # 0
    <3>1. k \in DOMAIN h /\ k < k + 1 /\ h[k] \in Nat
      BY <1>0, <2>3
    <3>2. h[k] < h[k + 1]
      BY <3>1 DEF Rising
    <3> QED
      BY <1>2, <2>1, <3>1, <3>2
  <2> QED
    BY <2>2, <2>3
<1> HIDE DEF S
<1>3. Nat \subseteq S
  BY <1>1, <1>2, Inductive
<1> QED
  BY <1>0, <1>3 DEF S

(* A later position is put last. *)
LEMMA RisingAppend ==
  ASSUME NEW h, Rising(h), NEW k \in Nat, \A i \in DOMAIN h : h[i] < k
  PROVE  Rising(Append(h, k)) /\ Members(Append(h, k)) = Members(h) \cup {k} /\ Len(Append(h, k)) = Len(h) + 1
<1>0. h \in Seq(Nat) /\ DOMAIN h = 1 .. Len(h) /\ Len(h) \in Nat
  <2>1. h \in Seq(Nat)
    BY DEF Rising
  <2> QED
    BY <2>1
<1>1. /\ Append(h, k) \in Seq(Nat) /\ DOMAIN Append(h, k) = 1 .. Len(h) + 1 /\ Append(h, k)[Len(h) + 1] = k
      /\ (\A i \in 1 .. Len(h) : Append(h, k)[i] = h[i]) /\ Len(Append(h, k)) = Len(h) + 1
  BY <1>0
<1> DEFINE g == Append(h, k)
<1>2. g \in Seq(Nat) /\ DOMAIN g = 1 .. Len(h) + 1 /\ g[Len(h) + 1] = k /\ (\A i \in 1 .. Len(h) : g[i] = h[i])
  BY <1>1
<1> HIDE DEF g
<1>3. ASSUME NEW i \in DOMAIN g, NEW j \in DOMAIN g, i < j PROVE g[i] < g[j]
  <2>1. i \in 1 .. Len(h) /\ g[i] = h[i]
    BY <1>0, <1>2, <1>3
  <2>2. CASE j = Len(h) + 1
    BY <1>0, <1>2, <2>1, <2>2
  <2>3. CASE j # Len(h) + 1
    <3>1. j \in 1 .. Len(h) /\ g[j] = h[j]
      BY <1>0, <1>2, <2>3
    <3> QED
      BY <1>0, <1>3, <2>1, <3>1 DEF Rising
  <2> QED
    BY <2>2, <2>3
<1>4. Rising(g)
  BY <1>2, <1>3 DEF Rising
<1>5. Members(g) = Members(h) \cup {k}
  <2>1. \A i \in DOMAIN g : g[i] \in Members(h) \cup {k}
    BY <1>0, <1>2 DEF Members
  <2>2. \A i \in DOMAIN h : h[i] \in Members(g)
    BY <1>0, <1>2 DEF Members
  <2>3. k \in Members(g)
    BY <1>0, <1>2 DEF Members
  <2> QED
    BY <2>1, <2>2, <2>3 DEF Members
<1> QED
  BY <1>1, <1>4, <1>5 DEF g

(* The first of a set that has grown at its end. *)
LEMMA FirstOfMore ==
  ASSUME NEW h, NEW n \in Nat, NEW X, FirstOf(h, n, X), NEW k \in Nat, \A x \in X : x \in Nat /\ x < k
  PROVE  /\ Len(h) < n => FirstOf(Append(h, k), n, X \cup {k})
         /\ ~(Len(h) < n) => FirstOf(h, n, X \cup {k})
<1>0. h \in Seq(Nat) /\ DOMAIN h = 1 .. Len(h) /\ Len(h) \in Nat /\ Rising(h)
  <2>1. h \in Seq(Nat) /\ Rising(h)
    BY DEF FirstOf, Rising
  <2> QED
    BY <2>1
<1>1. \A i \in DOMAIN h : h[i] < k
  BY DEF FirstOf, Members
<1>2. ASSUME Len(h) < n PROVE FirstOf(Append(h, k), n, X \cup {k})
  <2>1. Rising(Append(h, k)) /\ Members(Append(h, k)) = Members(h) \cup {k} /\ Len(Append(h, k)) = Len(h) + 1
    BY <1>0, <1>1, RisingAppend
  <2>2. \A x \in X : x \in Members(h)
    <3>0. Len(h) \in Nat
      BY <1>0
    <3>1. Len(h) # n
      BY <1>2, <3>0
    <3> QED
      BY <3>1, Zenon DEF FirstOf
  <2>3. Members(h) \subseteq X
    BY DEF FirstOf
  <2>4. Len(Append(h, k)) <= n
    BY <1>0, <1>2, <2>1
  <2> QED
    BY <2>1, <2>2, <2>3, <2>4 DEF FirstOf
<1>3. ASSUME ~(Len(h) < n) PROVE FirstOf(h, n, X \cup {k})
  <2>0. Len(h) \in Nat /\ Len(h) <= n
    BY <1>0 DEF FirstOf
  <2>1. Len(h) = n
    BY <1>3, <2>0
  <2> QED
    BY <1>1, <2>1 DEF FirstOf
<1> QED
  BY <1>2, <1>3

(* With room for every position the first of them are all of them. *)
LEMMA FirstOfAll ==
  ASSUME NEW h, NEW n \in Nat, NEW X, FirstOf(h, n, X), \A x \in X : x \in Nat /\ x < n
  PROVE  Lists(h, X)
<1>0. h \in Seq(Nat) /\ DOMAIN h = 1 .. Len(h) /\ Len(h) \in Nat /\ Rising(h)
  <2>1. h \in Seq(Nat) /\ Rising(h)
    BY DEF FirstOf, Rising
  <2> QED
    BY <2>1
<1>1. ASSUME NEW x \in X, x \notin Members(h) PROVE FALSE
  <2>1. Len(h) = n /\ \A i \in DOMAIN h : h[i] < x
    BY <1>1 DEF FirstOf
  <2>2. n \in DOMAIN h /\ x \in Nat /\ x < n
    BY <1>0, <2>1
  <2>3. n - 1 <= h[n] /\ h[n] < x /\ h[n] \in Nat
    BY <1>0, <2>1, <2>2, RisingAbove
  <2> QED
    BY <2>2, <2>3
<1> QED
  BY <1>0, <1>1 DEF Lists, FirstOf

(* What is left of a sequence behind its k-th member. *)
LEMMA RestIs ==
  ASSUME NEW X, NEW s \in Seq(X), NEW k \in Nat, k <= Len(s)
  PROVE  SubSeq(s, k + 1, Len(s)) = [i \in 1 .. Len(s) - k |-> s[i + k]]
<1>1. Len(s) \in Nat
  OBVIOUS
<1>2. SubSeq(s, k + 1, Len(s)) = [i \in 1 .. (1 + Len(s)) - (k + 1) |-> s[(i + (k + 1)) - 1]]
  BY <1>1
<1>3. (1 + Len(s)) - (k + 1) = Len(s) - k
  BY <1>1
<1>4. \A i \in 1 .. Len(s) - k : (i + (k + 1)) - 1 = i + k
  BY <1>1
<1> QED
  BY <1>2, <1>3, <1>4

(* What is left of a list behind its k-th member. *)
LEMMA ListsRest ==
  ASSUME NEW h, NEW X, Lists(h, X), NEW k \in DOMAIN h
  PROVE  Lists(SubSeq(h, k + 1, Len(h)), {x \in X : h[k] < x})
<1>0. h \in Seq(Nat) /\ DOMAIN h = 1 .. Len(h) /\ Len(h) \in Nat /\ Rising(h) /\ Members(h) = X
  <2>1. h \in Seq(Nat) /\ Rising(h) /\ Members(h) = X
    BY DEF Lists, Rising
  <2> QED
    BY <2>1
<1> DEFINE g == SubSeq(h, k + 1, Len(h))
           m == Len(h) - k
<1>1. m \in Nat /\ g \in Seq(Nat) /\ Len(g) = m /\ DOMAIN g = 1 .. m /\ \A i \in 1 .. m : g[i] = h[i + k] /\ i + k \in DOMAIN h
  <2>1. k \in 1 .. Len(h) /\ m \in Nat
    BY <1>0
  <2>2. g = [i \in 1 .. m |-> h[i + k]]
    BY <1>0, <2>1, SMTT(30)
  <2>3. \A i \in 1 .. m : i + k \in DOMAIN h /\ h[i + k] \in Nat
    BY <1>0, <2>1
  <2> HIDE DEF g, m
  <2>4. g \in Seq(Nat) /\ DOMAIN g = 1 .. m
    BY <2>1, <2>2, <2>3
  <2>5. Len(g) = m
    BY <2>1, <2>4
  <2> QED
    BY <2>1, <2>2, <2>3, <2>4, <2>5
<1> HIDE DEF g
<1>2. Rising(g)
  <2> SUFFICES ASSUME NEW i \in DOMAIN g, NEW j \in DOMAIN g, i < j PROVE g[i] < g[j]
    BY <1>1 DEF Rising
  <2>1. i + k \in DOMAIN h /\ j + k \in DOMAIN h /\ i + k < j + k /\ g[i] = h[i + k] /\ g[j] = h[j + k]
    BY <1>0, <1>1
  <2> QED
    BY <1>0, <2>1 DEF Rising
<1>3. ASSUME NEW x \in X, h[k] < x PROVE x \in Members(g)
  <2>1. PICK j \in DOMAIN h : x = h[j]
    BY <1>0 DEF Members
  <2>2. k < j
    BY <1>0, <1>3, <2>1, RisingIsInjective
  <2>3. j - k \in 1 .. m /\ (j - k) + k = j
    BY <1>0, <2>2
  <2> HIDE DEF m
  <2> QED
    BY <1>1, <2>1, <2>3 DEF Members
<1>4. ASSUME NEW i \in DOMAIN g PROVE g[i] \in X /\ h[k] < g[i]
  <2>1. i + k \in DOMAIN h /\ k < i + k /\ g[i] = h[i + k]
    BY <1>0, <1>1
  <2> QED
    BY <1>0, <2>1 DEF Rising, Members
<1>5. Members(g) = {x \in X : h[k] < x}
  BY <1>3, <1>4 DEF Members
<1>6. Lists(g, {x \in X : h[k] < x})
  BY <1>2, <1>5 DEF Lists
<1> QED
  BY <1>6 DEF g

------------------------------------------------------------------------------
(* The scans. *)

In(log, p) == ScopedFrom(log, p, CursorNs, CursorController, FALSE)

LEMMA InIs ==
  ASSUME NEW log, NEW p
  PROVE  In(log, p) = {i \in p .. Len(log) - 1 : Scoped(log[i + 1])}
BY DEF In, ScopedFrom, Scoped

LEMMA InType ==
  ASSUME NEW X, NEW log \in Seq(X), NEW p \in Nat
  PROVE  \A i \in In(log, p) : i \in Nat /\ p <= i /\ i < Len(log) /\ i + 1 \in DOMAIN log
<1>1. Len(log) \in Nat /\ DOMAIN log = 1 .. Len(log)
  OBVIOUS
<1> QED
  BY <1>1, InIs

(* One round of scanInScope. *)
Round(log, p, n, h, i) == IF i > p /\ Len(h) < n /\ Scoped(log[i]) THEN Append(h, i - 1) ELSE h
Scan(c, log, p, n) == c[0] = <<>> /\ \A i \in 1 .. Len(log) : c[i] = Round(log, p, n, c[i - 1], i)

LEMMA ScanExists ==
  ASSUME NEW log, Len(log) \in Nat, NEW p \in Nat, NEW n \in Nat
  PROVE  \E c : Scan(c, log, p, n) /\ FirstScoped(log, p, n) = c[Len(log)]
<1> DEFINE L == Len(log)
           F == [i \in Nat |-> [h \in Seq(Nat) |-> Round(log, p, n, h, i)]]
           Once(u, i) == IF i = 0 THEN <<>> ELSE Round(log, p, n, u[i - 1], i)
<1>0. L \in Nat
  OBVIOUS
<1>1. F \in [Nat -> [Seq(Nat) -> Seq(Nat)]]
  <2>1. ASSUME NEW i \in Nat, NEW h \in Seq(Nat) PROVE Round(log, p, n, h, i) \in Seq(Nat)
    <3>1. CASE i > p
      <4>1. i - 1 \in Nat
        BY <3>1
      <4> QED
        BY <4>1 DEF Round
    <3>2. CASE ~(i > p)
      BY <3>2 DEF Round
    <3> QED
      BY <3>1, <3>2
  <2> QED
    BY <2>1
<1>2. PICK f : Rounds(f, L, Seq(Nat), <<>>, F)
  <2>1. <<>> \in Seq(Nat)
    OBVIOUS
  <2> HIDE DEF F, L
  <2> QED
    BY <1>0, <1>1, <2>1, RoundsExist
<1>3. ASSUME NEW i \in 0 .. L PROVE f[i] = Once(f, i)
  <2>1. CASE i = 0
    BY <1>2, <2>1 DEF Rounds
  <2>2. CASE i # 0
    <3> HIDE DEF L
    <3>1. i \in 1 .. L /\ i - 1 \in 0 .. L /\ i \in Nat
      BY <1>0, <2>2
    <3>2. f[i - 1] \in Seq(Nat) /\ f[i] = F[i][f[i - 1]]
      BY <1>2, <3>1 DEF Rounds
    <3> QED
      BY <2>2, <3>1, <3>2
  <2> QED
    BY <2>1, <2>2
<1>4. f = [i \in 0 .. L |-> Once(f, i)]
  <2> HIDE DEF Once, L, F
  <2>1. f = [i \in 0 .. L |-> f[i]]
    BY <1>2 DEF Rounds
  <2> QED
    BY <1>3, <2>1
<1> DEFINE upTo == CHOOSE u : u = [i \in 0 .. L |-> Once(u, i)]
<1>5. upTo = [i \in 0 .. L |-> Once(upTo, i)]
  BY <1>4
<1>6. FirstScoped(log, p, n) = upTo[Len(log)]
  BY DEF FirstScoped, Round
<1> HIDE DEF upTo
<1>7. upTo[0] = <<>>
  BY <1>0, <1>5
<1>8. ASSUME NEW i \in 1 .. L PROVE upTo[i] = Round(log, p, n, upTo[i - 1], i)
  <2>1. i \in 0 .. L /\ i # 0
    BY <1>0
  <2>2. upTo[i] = Once(upTo, i)
    <3> HIDE DEF Once, L
    <3> QED
      BY <1>5, <2>1
  <2> QED
    BY <2>1, <2>2
<1> QED
  BY <1>6, <1>7, <1>8 DEF Scan

(* scanInScope finds the first n positions in scope. *)
LEMMA FirstScopedIs ==
  ASSUME NEW log, Len(log) \in Nat, NEW p \in Nat, NEW n \in Nat
  PROVE  FirstOf(FirstScoped(log, p, n), n, In(log, p))
<1>1. PICK c : Scan(c, log, p, n) /\ FirstScoped(log, p, n) = c[Len(log)]
  BY ScanExists
<1> DEFINE X(i) == {x \in In(log, p) : x < i}
           S == {i \in Nat : i <= Len(log) => FirstOf(c[i], n, X(i))}
<1>0. \A x \in In(log, p) : x \in Nat /\ p <= x /\ x < Len(log) /\ Scoped(log[x + 1])
  BY InIs
<1>2. 0 \in S
  <2>1. X(0) = {}
    BY <1>0
  <2>2. c[0] = <<>>
    BY <1>1 DEF Scan
  <2>3. FirstOf(<<>>, n, {})
    BY DEF FirstOf, Rising, Members
  <2> QED
    BY <2>1, <2>2, <2>3
<1>3. ASSUME NEW i \in Nat, i \in S PROVE i + 1 \in S
  <2> SUFFICES ASSUME i + 1 <= Len(log) PROVE FirstOf(c[i + 1], n, X(i + 1))
    OBVIOUS
  <2>1. FirstOf(c[i], n, X(i)) /\ \A x \in X(i) : x \in Nat /\ x < i
    BY <1>0, <1>3
  <2>2. i + 1 \in 1 .. Len(log) /\ (i + 1) - 1 = i
    OBVIOUS
  <2>3. c[i + 1] = Round(log, p, n, c[i], i + 1)
    BY <1>1, <2>2 DEF Scan
  <2>4. CASE i + 1 > p /\ Scoped(log[i + 1])
    <3>1. i \in In(log, p)
      BY <2>2, <2>4, InIs
    <3>2. X(i + 1) = X(i) \cup {i}
      <4>1. ASSUME NEW x \in In(log, p) PROVE x < i + 1 <=> x < i \/ x = i
        BY <1>0
      <4> QED
        BY <3>1, <4>1
    <3> HIDE DEF X
    <3>3. CASE Len(c[i]) < n
      <4>1. c[i + 1] = Append(c[i], i)
        BY <2>2, <2>3, <2>4, <3>3 DEF Round
      <4> QED
        BY <2>1, <3>2, <3>3, <4>1, FirstOfMore
    <3>4. CASE ~(Len(c[i]) < n)
      <4>1. c[i + 1] = c[i]
        BY <2>3, <3>4 DEF Round
      <4> QED
        <5>1. FirstOf(c[i], n, X(i) \cup {i})
          BY <2>1, <3>4, FirstOfMore
        <5> QED
          BY <3>2, <4>1, <5>1
    <3> QED
      BY <3>3, <3>4
  <2>5. CASE ~(i + 1 > p /\ Scoped(log[i + 1]))
    <3>1. i \notin In(log, p)
      BY <1>0, <2>5
    <3>2. X(i + 1) = X(i)
      BY <1>0, <3>1
    <3>3. c[i + 1] = c[i]
      BY <2>3, <2>5 DEF Round
    <3> QED
      BY <2>1, <3>2, <3>3
  <2> QED
    BY <2>4, <2>5
<1> HIDE DEF S
<1>4. Nat \subseteq S
  BY <1>2, <1>3, Inductive
<1>5. FirstOf(c[Len(log)], n, X(Len(log)))
  <2>1. Len(log) \in S
    BY <1>4
  <2> HIDE DEF X
  <2> QED
    BY <2>1 DEF S
<1>6. X(Len(log)) = In(log, p)
  BY <1>0
<1> QED
  BY <1>1, <1>5, <1>6

(* What is pending, as positions. *)
Hits(log, p) == FirstScoped(log, p, Len(log))

LEMMA HitsAre ==
  ASSUME NEW log, Len(log) \in Nat, NEW p \in Nat
  PROVE  Lists(Hits(log, p), In(log, p))
<1>1. FirstOf(Hits(log, p), Len(log), In(log, p))
  BY FirstScopedIs DEF Hits
<1>2. \A x \in In(log, p) : x \in Nat /\ x < Len(log)
  BY InIs
<1> QED
  BY <1>1, <1>2, FirstOfAll

------------------------------------------------------------------------------
(* The queue a log and a position stand for. *)

LabelsOf(log, h) == [i \in DOMAIN h |-> log[h[i] + 1].label]
Pending(log, p)  == LabelsOf(log, Hits(log, p))

LEMMA HitsType ==
  ASSUME NEW log \in Seq(Op), NEW p \in Nat
  PROVE  /\ Hits(log, p) \in Seq(Nat) /\ Len(Hits(log, p)) \in Nat /\ DOMAIN Hits(log, p) = 1 .. Len(Hits(log, p))
         /\ Rising(Hits(log, p)) /\ Members(Hits(log, p)) = In(log, p)
         /\ \A i \in DOMAIN Hits(log, p) : Hits(log, p)[i] \in In(log, p)
<1>1. Len(log) \in Nat
  OBVIOUS
<1>2. Lists(Hits(log, p), In(log, p))
  BY <1>1, HitsAre
<1>3. Hits(log, p) \in Seq(Nat) /\ Rising(Hits(log, p)) /\ Members(Hits(log, p)) = In(log, p)
  BY <1>2 DEF Lists, Rising
<1>4. Len(Hits(log, p)) \in Nat /\ DOMAIN Hits(log, p) = 1 .. Len(Hits(log, p))
  BY <1>3
<1> QED
  BY <1>3, <1>4 DEF Members

LEMMA PendingType ==
  ASSUME NEW log \in Seq(Op), NEW p \in Nat
  PROVE  /\ Pending(log, p) \in Seq(Label) /\ Len(Pending(log, p)) = Len(Hits(log, p))
         /\ DOMAIN Pending(log, p) = DOMAIN Hits(log, p)
         /\ \A i \in DOMAIN Hits(log, p) : Pending(log, p)[i] = log[Hits(log, p)[i] + 1].label
<1> DEFINE h == Hits(log, p)
           n == Len(h)
<1>1. n \in Nat /\ DOMAIN h = 1 .. n /\ \A i \in DOMAIN h : h[i] \in In(log, p)
  BY HitsType
<1> HIDE DEF h, n
<1>2. ASSUME NEW i \in DOMAIN h PROVE log[h[i] + 1].label \in Label
  <2>1. h[i] + 1 \in DOMAIN log
    BY <1>1, InType
  <2>2. log[h[i] + 1] \in Op
    BY <2>1
  <2> QED
    BY <2>2 DEF Op
<1>3. LabelsOf(log, h) \in [1 .. n -> Label]
  BY <1>1, <1>2 DEF LabelsOf
<1>4. LabelsOf(log, h) \in Seq(Label) /\ Len(LabelsOf(log, h)) = n
  BY <1>1, <1>3
<1>5. DOMAIN LabelsOf(log, h) = DOMAIN h /\ \A i \in DOMAIN h : LabelsOf(log, h)[i] = log[h[i] + 1].label
  BY DEF LabelsOf
<1> QED
  BY <1>4, <1>5 DEF h, n, Pending

(* A position that rules out nothing in scope leaves the queue as it is. *)
LEMMA PendingSame ==
  ASSUME NEW log \in Seq(Op), NEW p \in Nat, NEW q \in Nat, p <= q, \A i \in In(log, p) : q <= i
  PROVE  Pending(log, q) = Pending(log, p)
<1>1. Len(log) \in Nat
  OBVIOUS
<1>2. In(log, q) = In(log, p)
  <2>1. \A x : x \in In(log, q) <=> x \in q .. Len(log) - 1 /\ Scoped(log[x + 1])
    BY InIs
  <2>2. \A x : x \in In(log, p) <=> x \in p .. Len(log) - 1 /\ Scoped(log[x + 1])
    BY InIs
  <2>3. \A x \in q .. Len(log) - 1 : x \in p .. Len(log) - 1
    BY <1>1
  <2>4. \A x \in p .. Len(log) - 1 : q <= x => x \in q .. Len(log) - 1
    BY <1>1
  <2> QED
    BY <2>1, <2>2, <2>3, <2>4
<1>3. Lists(Hits(log, p), In(log, p)) /\ Lists(Hits(log, q), In(log, q))
  BY <1>1, HitsAre
<1>4. Hits(log, q) = Hits(log, p)
  BY <1>2, <1>3, ListedOnce
<1> QED
  BY <1>4 DEF Pending

(* A position behind the k-th pending write drops k of them. *)
LEMMA PendingRest ==
  ASSUME NEW log \in Seq(Op), NEW p \in Nat, NEW k \in DOMAIN Hits(log, p)
  PROVE  /\ Hits(log, p)[k] + 1 \in Nat
         /\ Pending(log, Hits(log, p)[k] + 1) = SubSeq(Pending(log, p), k + 1, Len(Pending(log, p)))
<1> DEFINE h == Hits(log, p)
           q == h[k] + 1
           g == SubSeq(h, k + 1, Len(h))
<1>0. Len(log) \in Nat
  OBVIOUS
<1>1. h \in Seq(Nat) /\ Len(h) \in Nat /\ DOMAIN h = 1 .. Len(h) /\ h[k] \in In(log, p) /\ k \in DOMAIN h
  BY HitsType
<1>2. h[k] \in Nat /\ p <= h[k] /\ q \in Nat
  BY <1>1, InType
<1>3. In(log, q) = {x \in In(log, p) : h[k] < x}
  <2> HIDE DEF h
  <2> QED
    BY <1>0, <1>2, InIs
<1>4. Lists(h, In(log, p)) /\ Lists(Hits(log, q), In(log, q))
  BY <1>0, <1>2, HitsAre
<1>5. Lists(g, {x \in In(log, p) : h[k] < x})
  BY <1>4, ListsRest
<1>6. Hits(log, q) = g
  BY <1>3, <1>4, <1>5, ListedOnce
<1>7. /\ Pending(log, p) \in Seq(Label) /\ Len(Pending(log, p)) = Len(h) /\ DOMAIN Pending(log, p) = DOMAIN h
      /\ \A i \in DOMAIN h : Pending(log, p)[i] = log[h[i] + 1].label
  BY PendingType
<1>8. Pending(log, q) = LabelsOf(log, g)
  BY <1>6 DEF Pending
<1> HIDE DEF h, q
<1> DEFINE m == Len(h) - k
           P == Pending(log, p)
<1>9. m \in Nat /\ k \in 1 .. Len(h)
  BY <1>1
<1>10. g = [i \in 1 .. m |-> h[i + k]]
  <2>1. h \in Seq(Nat)
    BY <1>1
  <2>2. k \in Nat /\ k <= Len(h)
    BY <1>9
  <2> QED
    BY <2>1, <2>2, RestIs
<1>11. SubSeq(P, k + 1, Len(P)) = [i \in 1 .. m |-> P[i + k]]
  <2>1. P \in Seq(Label) /\ Len(P) = Len(h)
    BY <1>7
  <2>2. k \in Nat /\ k <= Len(P)
    BY <1>9, <2>1
  <2> HIDE DEF P
  <2>3. SubSeq(P, k + 1, Len(P)) = [i \in 1 .. Len(P) - k |-> P[i + k]]
    BY <2>1, <2>2, RestIs
  <2> QED
    BY <2>1, <2>3
<1>12. \A i \in 1 .. m : i + k \in DOMAIN h
  BY <1>1, <1>9
<1>13. LabelsOf(log, g) = [i \in 1 .. m |-> P[i + k]]
  <2> HIDE DEF m, g
  <2> QED
    BY <1>7, <1>10, <1>12 DEF LabelsOf
<1>14. Pending(log, q) = SubSeq(P, k + 1, Len(P))
  BY <1>8, <1>11, <1>13
<1> QED
  BY <1>2, <1>14 DEF q, h

(* A write filed is put last, when it is in scope. *)
LEMMA PendingAppend ==
  ASSUME NEW log \in Seq(Op), NEW p \in Nat, p <= Len(log), NEW op \in Op
  PROVE  /\ Scoped(op) => Pending(Append(log, op), p) = Append(Pending(log, p), op.label)
         /\ ~Scoped(op) => Pending(Append(log, op), p) = Pending(log, p)
         /\ In(Append(log, op), p) = IF Scoped(op) THEN In(log, p) \cup {Len(log)} ELSE In(log, p)
         /\ \A x \in In(log, p) : x < Len(log) /\ Append(log, op)[x + 1] = log[x + 1]
<1> DEFINE l == Append(log, op)
           h == Hits(log, p)
           n == Len(log)
<1>1. /\ n \in Nat /\ l \in Seq(Op) /\ Len(l) = n + 1 /\ l[n + 1] = op /\ (\A i \in 1 .. n : l[i] = log[i])
  OBVIOUS
<1> HIDE DEF l
<1>2. ASSUME NEW x \in In(log, p) PROVE x \in Nat /\ p <= x /\ x < n /\ l[x + 1] = log[x + 1]
  BY <1>1, InType
<1>3. In(l, p) = IF Scoped(op) THEN In(log, p) \cup {n} ELSE In(log, p)
  <2>1. \A x : x \in In(l, p) <=> x \in p .. n /\ Scoped(l[x + 1])
    BY <1>1, InIs
  <2>2. \A x : x \in In(log, p) <=> x \in p .. n - 1 /\ Scoped(log[x + 1])
    BY <1>1, InIs
  <2> HIDE DEF n
  <2>3. \A x \in p .. n - 1 : l[x + 1] = log[x + 1]
    BY <1>1
  <2>4. \A x : x \in p .. n <=> x \in p .. n - 1 \/ x = n
    BY <1>1 DEF n
  <2>5. n \notin p .. n - 1
    BY <1>1
  <2> QED
    BY <1>1, <2>1, <2>2, <2>3, <2>4, <2>5
<1>4. h \in Seq(Nat) /\ Len(h) \in Nat /\ DOMAIN h = 1 .. Len(h) /\ Rising(h) /\ Members(h) = In(log, p)
      /\ \A i \in DOMAIN h : h[i] \in In(log, p)
  BY HitsType
<1>5. Lists(Hits(l, p), In(l, p))
  BY <1>1, HitsAre
<1>6. ASSUME Scoped(op) PROVE Pending(l, p) = Append(Pending(log, p), op.label)
  <2>1. Rising(Append(h, n)) /\ Members(Append(h, n)) = Members(h) \cup {n}
    <3> HIDE DEF h, n
    <3> QED
      BY <1>1, <1>2, <1>4, RisingAppend
  <2>2. Hits(l, p) = Append(h, n)
    <3>1. Lists(Append(h, n), In(l, p))
      BY <1>3, <1>4, <1>6, <2>1 DEF Lists
    <3> QED
      BY <1>5, <3>1, ListedOnce
  <2>3. Pending(l, p) = LabelsOf(l, Append(h, n)) /\ Pending(log, p) = LabelsOf(log, h)
    BY <2>2 DEF Pending
  <2>4. Pending(log, p) \in Seq(Label) /\ Len(Pending(log, p)) = Len(h)
    BY PendingType
  <2> DEFINE g == Append(h, n)
             k == Len(h)
             P == Pending(log, p)
  <2> HIDE DEF h, n
  <2>5. k \in Nat /\ DOMAIN g = 1 .. k + 1 /\ g[k + 1] = n /\ \A i \in 1 .. k : g[i] = h[i]
    BY <1>1, <1>4
  <2>6. DOMAIN Append(P, op.label) = 1 .. k + 1 /\ Append(P, op.label)[k + 1] = op.label
        /\ \A i \in 1 .. k : Append(P, op.label)[i] = P[i]
    BY <2>4
  <2>7. Append(P, op.label) = [i \in 1 .. k + 1 |-> Append(P, op.label)[i]]
    BY <2>4
  <2>8. LabelsOf(l, g) = [i \in 1 .. k + 1 |-> l[g[i] + 1].label]
    BY <2>5 DEF LabelsOf
  <2>9. ASSUME NEW i \in 1 .. k + 1 PROVE l[g[i] + 1].label = Append(P, op.label)[i]
    <3>1. CASE i = k + 1
      BY <1>1, <2>5, <2>6, <3>1
    <3>2. CASE i # k + 1
      <4>1. i \in 1 .. k /\ i \in DOMAIN h
        BY <1>4, <2>5, <3>2
      <4>2. h[i] \in In(log, p)
        BY <1>4, <4>1
      <4>3. l[h[i] + 1] = log[h[i] + 1]
        BY <1>2, <4>2
      <4>4. P[i] = log[h[i] + 1].label
        BY <2>3, <4>1 DEF LabelsOf
      <4> QED
        BY <2>5, <2>6, <4>1, <4>3, <4>4
    <3> QED
      BY <3>1, <3>2
  <2> HIDE DEF g, k, P
  <2>10. LabelsOf(l, g) = Append(P, op.label)
    BY <2>7, <2>8, <2>9
  <2> QED
    BY <2>3, <2>10 DEF g, P
<1>7. ASSUME ~Scoped(op) PROVE Pending(l, p) = Pending(log, p)
  <2>1. Hits(l, p) = h
    <3>1. Lists(h, In(l, p))
      BY <1>3, <1>4, <1>7 DEF Lists
    <3> QED
      BY <1>5, <3>1, ListedOnce
  <2>2. \A i \in DOMAIN h : l[h[i] + 1] = log[h[i] + 1]
    BY <1>2, <1>4
  <2>3. Pending(l, p) = LabelsOf(l, h) /\ Pending(log, p) = LabelsOf(log, h)
    BY <2>1 DEF Pending
  <2> HIDE DEF h
  <2> QED
    BY <2>2, <2>3 DEF LabelsOf
<1> QED
  BY <1>2, <1>3, <1>6, <1>7 DEF l

(* The first n in scope are the head of the queue. *)
LEMMA FoundIsHead ==
  ASSUME NEW log \in Seq(Op), NEW p \in Nat, NEW n \in Nat \ {0}, NEW f, FirstOf(f, n, In(log, p)), Len(f) = n
  PROVE  /\ n \in DOMAIN Hits(log, p) /\ f[n] = Hits(log, p)[n] /\ n <= Len(Pending(log, p))
         /\ LabelsOf(log, f) = SubSeq(Pending(log, p), 1, n)
<1> DEFINE h == Hits(log, p)
           P == Pending(log, p)
<1>1. f \in Seq(Nat)
  BY DEF FirstOf, Rising
<1>2. DOMAIN f = 1 .. n
  BY <1>1
<1>3. h \in Seq(Nat) /\ Rising(h) /\ Members(h) = In(log, p)
  BY HitsType
<1>4. Len(h) \in Nat /\ DOMAIN h = 1 .. Len(h)
  BY <1>3
<1>5. \A i \in DOMAIN f : i \in DOMAIN h /\ f[i] = h[i]
  <2>1. Lists(h, In(log, p))
    BY <1>3 DEF Lists
  <2> HIDE DEF h
  <2> QED
    BY <2>1, FirstOfLists
<1>6. P \in Seq(Label) /\ Len(P) = Len(h) /\ \A i \in DOMAIN h : P[i] = log[h[i] + 1].label
  BY PendingType
<1> HIDE DEF h, P
<1>7. n \in DOMAIN f
  BY <1>2
<1>8. n \in DOMAIN h /\ f[n] = h[n] /\ n <= Len(P)
  <2>1. n \in DOMAIN h /\ f[n] = h[n]
    BY <1>5, <1>7
  <2> QED
    BY <1>4, <1>6, <2>1
<1>9. SubSeq(P, 1, n) = [i \in 1 .. n |-> P[i]]
  <2>1. (1 + n) - 1 = n /\ \A i \in 1 .. n : (i + 1) - 1 = i
    OBVIOUS
  <2>2. SubSeq(P, 1, n) = [i \in 1 .. (1 + n) - 1 |-> P[(i + 1) - 1]]
    BY <1>6, <1>8
  <2> QED
    BY <2>1, <2>2
<1>10. LabelsOf(log, f) = [i \in 1 .. n |-> P[i]]
  <2>1. \A i \in 1 .. n : log[f[i] + 1].label = P[i]
    BY <1>2, <1>5, <1>6
  <2> QED
    BY <1>2, <2>1 DEF LabelsOf
<1> QED
  BY <1>8, <1>9, <1>10 DEF h, P

(* peekLocked parks on the head of the queue, or past the end of the log. *)
Peek(log, p) == firstMatchFrom(log, p, CursorNs, CursorController, FALSE)

LEMMA PeekIs ==
  ASSUME NEW log \in Seq(Op), NEW p \in Nat, p <= Len(log)
  PROVE  /\ Peek(log, p) \in Nat /\ p <= Peek(log, p) /\ Peek(log, p) <= Len(log)
         /\ Pending(log, Peek(log, p)) = Pending(log, p)
         /\ Peek(log, p) < Len(log) =>
              /\ 1 \in DOMAIN Hits(log, p) /\ Hits(log, p)[1] = Peek(log, p) /\ Pending(log, p) # <<>>
              /\ Head(Pending(log, p)) = log[Peek(log, p) + 1].label
         /\ ~(Peek(log, p) < Len(log)) => Pending(log, p) = <<>>
<1> DEFINE h == Hits(log, p)
           X == In(log, p)
           q == Peek(log, p)
<1>0. Len(log) \in Nat
  OBVIOUS
<1>1. h \in Seq(Nat) /\ Rising(h) /\ Members(h) = X
  BY HitsType
<1>2. Len(h) \in Nat /\ DOMAIN h = 1 .. Len(h)
  BY <1>1
<1>3. \A x \in X : x \in Nat /\ p <= x /\ x < Len(log)
  BY InType
<1>4. q = IF X = {} THEN Len(log) ELSE Min(X)
  BY DEF Peek, firstMatchFrom, In
<1>5. /\ Pending(log, p) \in Seq(Label) /\ Len(Pending(log, p)) = Len(h)
      /\ \A i \in DOMAIN h : Pending(log, p)[i] = log[h[i] + 1].label
  BY PendingType
<1> HIDE DEF h, X, q
<1>6. CASE X = {}
  <2>1. q = Len(log)
    BY <1>4, <1>6
  <2>2. DOMAIN h = {}
    BY <1>1, <1>6 DEF Members
  <2>3. Len(h) = 0
    <3>1. 1 \notin 1 .. Len(h)
      BY <1>2, <2>2
    <3> QED
      BY <1>2, <3>1
  <2>4. Pending(log, p) = <<>>
    BY <1>5, <2>3
  <2>5. Pending(log, q) = Pending(log, p)
    BY <1>0, <1>6, <2>1, PendingSame DEF X
  <2> QED
    BY <1>0, <2>1, <2>4, <2>5 DEF q
<1>7. CASE X # {}
  <2>1. X \in SUBSET Nat
    BY <1>3
  <2>2. \E n \in X : \A m \in X : n <= m
    BY <1>7, <2>1, LeastExists
  <2>3. q \in X /\ \A m \in X : q <= m
    BY <1>4, <1>7, <2>2 DEF Min
  <2>4. q \in Nat /\ p <= q /\ q < Len(log)
    BY <1>3, <2>3
  <2>5. PICK j \in DOMAIN h : q = h[j]
    BY <1>1, <2>3 DEF Members
  <2>6. 1 \in DOMAIN h /\ 1 <= j
    BY <1>2, <2>5
  <2>7. h[1] \in X
    BY <1>1, <2>6 DEF Members
  <2>8. h[1] <= h[j] /\ h[1] \in Nat /\ h[j] \in Nat
    BY <1>1, <2>5, <2>6, RisingIsInjective
  <2>9. q <= h[1]
    BY <2>3, <2>7
  <2>10. h[1] = q
    BY <2>5, <2>8, <2>9
  <2>11. Pending(log, q) = Pending(log, p)
    BY <2>3, <2>4, PendingSame DEF X
  <2>12. Pending(log, p)[1] = log[q + 1].label
    BY <1>5, <2>6, <2>10
  <2>13. Pending(log, p) # <<>> /\ Head(Pending(log, p)) = Pending(log, p)[1]
    <3>1. Len(Pending(log, p)) # 0
      BY <1>2, <1>5, <2>6
    <3>2. Pending(log, p) # <<>>
      BY <1>5, <3>1
    <3> QED
      BY <1>5, <3>2
  <2> QED
    BY <1>0, <2>4, <2>6, <2>10, <2>11, <2>12, <2>13 DEF q, h
<1> QED
  BY <1>6, <1>7

(* Counting labels. *)
LEMMA CountIs ==
  ASSUME NEW s \in Seq(Label), NEW l
  PROVE  Count(s, l) \in Nat /\ (Count(s, l) = 0 <=> l \notin ToSet(s))
<1> DEFINE D == {i \in DOMAIN s : s[i] = l}
<1>1. Len(s) \in Nat /\ DOMAIN s = 1 .. Len(s)
  OBVIOUS
<1>2. IsFiniteSet(DOMAIN s)
  <2>1. 1 \in Int /\ Len(s) \in Int
    BY <1>1
  <2> QED
    BY <1>1, <2>1, FS_Interval
<1>3. IsFiniteSet(D)
  <2>1. D \subseteq DOMAIN s
    OBVIOUS
  <2> QED
    BY <1>2, <2>1, FS_Subset
<1>4. Cardinality(D) \in Nat /\ (Cardinality(D) = 0 <=> D = {})
  BY <1>3, FS_CardinalityType, FS_EmptySet
<1>5. D = {} <=> l \notin ToSet(s)
  BY DEF ToSet
<1> QED
  BY <1>4, <1>5 DEF Count

(* compareMultiset compares multisets. *)
LEMMA MultisetsCompared ==
  ASSUME NEW want \in Seq(Label), NEW got \in Seq(Label)
  PROVE  compareMultiset(want, got) <=> Queue!Multiset(got) = Queue!Multiset(want)
<1>1. ASSUME NEW s PROVE Queue!Multiset(s) = [l \in ToSet(s) |-> Count(s, l)]
  BY DEF Queue!Multiset, Queue!ToSet, ToSet, Count, Queue!Cardinality, Cardinality, Queue!IsFiniteSet, IsFiniteSet
<1>2. ASSUME NEW l PROVE /\ Count(want, l) \in Nat /\ Count(got, l) \in Nat
                         /\ (Count(want, l) = 0 <=> l \notin ToSet(want)) /\ (Count(got, l) = 0 <=> l \notin ToSet(got))
  BY CountIs
<1>3. compareMultiset(want, got) <=> /\ \A l \in ToSet(want) : ~(Count(want, l) > Count(got, l))
                                     /\ \A l \in ToSet(got) : ~(Count(got, l) > Count(want, l))
  BY DEF compareMultiset
<1>4. ASSUME compareMultiset(want, got) PROVE Queue!Multiset(got) = Queue!Multiset(want)
  <2>1. ASSUME NEW l \in ToSet(want) PROVE l \in ToSet(got)
    <3>1. ~(Count(want, l) > Count(got, l))
      BY <1>3, <1>4
    <3> QED
      BY <1>2, <3>1
  <2>2. ASSUME NEW l \in ToSet(got) PROVE l \in ToSet(want)
    <3>1. ~(Count(got, l) > Count(want, l))
      BY <1>3, <1>4
    <3> QED
      BY <1>2, <3>1
  <2>3. ToSet(got) = ToSet(want)
    BY <2>1, <2>2
  <2>4. ASSUME NEW l \in ToSet(got) PROVE Count(got, l) = Count(want, l)
    <3>1. ~(Count(got, l) > Count(want, l)) /\ ~(Count(want, l) > Count(got, l))
      BY <1>3, <1>4, <2>3
    <3> QED
      BY <1>2, <3>1
  <2> QED
    BY <1>1, <2>3, <2>4
<1>5. ASSUME Queue!Multiset(got) = Queue!Multiset(want) PROVE compareMultiset(want, got)
  <2> DEFINE A == [l \in ToSet(got) |-> Count(got, l)]
             B == [l \in ToSet(want) |-> Count(want, l)]
  <2>1. A = B
    BY <1>1, <1>5
  <2>2. ToSet(got) = ToSet(want)
    <3>1. DOMAIN A = ToSet(got) /\ DOMAIN B = ToSet(want)
      OBVIOUS
    <3> QED
      BY <2>1, <3>1
  <2>3. ASSUME NEW l \in ToSet(got) PROVE Count(got, l) = Count(want, l)
    <3>1. A[l] = Count(got, l) /\ B[l] = Count(want, l)
      BY <2>2
    <3> QED
      BY <2>1, <3>1
  <2>4. ASSUME NEW l \in ToSet(got) PROVE ~(Count(got, l) > Count(want, l)) /\ ~(Count(want, l) > Count(got, l))
    BY <1>2, <2>3
  <2> QED
    BY <1>3, <2>2, <2>4
<1> QED
  BY <1>4, <1>5


------------------------------------------------------------------------------
(* The cursor's one owner. *)

LEMMA CallIs ==
  ASSUME NEW c \in Calls
  PROVE  /\ c.kind \in {"next", "all", "matching", "quiet"} /\ c.want \in Seq(Label) /\ Len(c.want) \in Nat
         /\ c.kind = "all" => Len(c.want) # 0
         /\ c.kind \in {"next", "matching"} => Len(c.want) = 1
         /\ c \in Queue!Calls /\ (c.kind # "all" => Len(c.want) <= 1) /\ c # NoWait
<1>1. c.kind \in Kinds /\ c.want \in Wants \cup {<<>>} /\ c = [kind |-> c.kind, want |-> c.want]
  BY DEF Calls
<1>2. c.kind \in {"next", "all", "matching", "quiet"}
  BY <1>1, CursorAssumption DEF CursorAssumption
<1>3. ASSUME NEW s \in Wants PROVE s \in Seq(Label) /\ Len(s) \in Nat /\ Len(s) # 0
  <2>1. PICK n \in 1 .. MaxWant : s \in [1 .. n -> Label]
    BY DEF Wants
  <2>2. n \in Nat /\ n # 0
    BY CursorAssumption DEF CursorAssumption
  <2>3. s \in Seq(Label) /\ Len(s) = n
    BY <2>1, <2>2
  <2> QED
    BY <2>2, <2>3
<1>4. <<>> \in Seq(Label) /\ Len(<<>>) = 0
  OBVIOUS
<1>5. CASE c.kind = "all"
  <2>1. c.want # <<>>
    BY <1>5 DEF Calls
  <2>2. c.want \in Wants
    BY <1>1, <2>1
  <2>3. c \in Queue!Calls
    BY <1>1, <1>5, <2>2 DEF Queue!Calls, Queue!Wants, Wants
  <2> QED
    BY <1>3, <1>5, <2>2, <2>3, NoWaitIsNoCall DEF NoWaitIsNoCall
<1>6. CASE c.kind = "quiet"
  <2>1. c.want = <<>>
    BY <1>6 DEF Calls
  <2>2. c \in Queue!Calls
    BY <1>1, <1>6, <2>1 DEF Queue!Calls
  <2> QED
    BY <1>4, <1>6, <2>1, <2>2, NoWaitIsNoCall DEF NoWaitIsNoCall
<1>7. CASE c.kind \in {"next", "matching"}
  <2>1. Len(c.want) = 1
    BY <1>7 DEF Calls
  <2>2. c.want \in Wants
    <3>1. c.want # <<>>
      BY <1>4, <2>1
    <3> QED
      BY <1>1, <3>1
  <2>3. c \in Queue!Calls
    BY <1>1, <1>7, <2>2 DEF Queue!Calls, Queue!Wants, Wants
  <2> QED
    BY <1>3, <1>7, <2>1, <2>2, <2>3, NoWaitIsNoCall DEF NoWaitIsNoCall
<1> QED
  BY <1>2, <1>5, <1>6, <1>7

(* What scanInScope and findInScope returned still describes the log: the   *)
(* ops filed since came after what they found.                              *)
FoundAll(log, p, n, f, fl) ==
  /\ fl \in 0 .. Len(log) /\ \A i \in In(log, p) : fl <= i
  /\ Len(f) = n => FirstOf(f, n, In(log, p))
FoundOne(log, p, l, f) ==
  f = <<>> \/ \E m \in In(log, p) : /\ f = <<m>> /\ log[m + 1].label = l
                                    /\ \A i \in In(log, p) : log[i + 1].label = l => m <= i

Poll(log, p, loc, c, fr, f, fl) ==
  /\ loc = "idle" => c = NoWait
  /\ loc # "idle" => c \in Calls
  /\ loc \in {"scan", "advance"} => fr = p
  /\ loc = "advance" /\ c.kind = "all" => FoundAll(log, p, Len(c.want), f, fl)
  /\ loc = "advance" /\ c.kind = "matching" => FoundOne(log, p, c.want[1], f)

CursorTyped ==
  /\ ops \in Seq(Op) /\ scan \in Nat /\ scan <= Len(ops)
  /\ answered \in [Controller -> Op \cup {NoWait}]
  /\ wpc \in [Waiter -> {"idle", "poll", "scan", "advance", "clock"}]
  /\ call \in [Waiter -> Calls \cup {NoWait}]
  /\ from \in [Waiter -> Nat] /\ floor \in [Waiter -> Nat] /\ found \in [Waiter -> Seq(Nat)]
  /\ answer \in [Waiter -> {"none", "ok", "mismatch", "timeout", "action", "quiet"}]

CursorInv(o) == CursorTyped /\ Poll(ops, scan, wpc[o], call[o], from[o], found[o], floor[o])

(* The steps of the queue, on the values they are about. *)
Grows(p, p2) == \E l \in Label : p2 = Append(p, l)
QueueStep(p, c, a, p2, c2, a2) ==
  \/ Grows(p, p2) /\ c2 = c /\ a2 = a
  \/ c = NoWait /\ c2 \in Queue!Calls /\ (c2.kind # "all" => Len(c2.want) <= 1) /\ a2 = "none" /\ p2 = p
  \/ /\ c # NoWait /\ c2 = NoWait
     /\ \/ /\ p # <<>> /\ c.kind = "next" /\ p2 = Tail(p)
           /\ a2 = IF Head(p) = c.want[1] THEN "ok" ELSE "mismatch"
        \/ /\ Len(p) >= Len(c.want) /\ c.kind = "all" /\ p2 = SubSeq(p, Len(c.want) + 1, Len(p))
           /\ a2 = IF Queue!Multiset(SubSeq(p, 1, Len(c.want))) = Queue!Multiset(c.want) THEN "ok" ELSE "mismatch"
        \/ \E k \in DOMAIN p : /\ c.kind = "matching" /\ a2 = "ok" /\ p[k] = c.want[1]
                               /\ \A j \in 1 .. k - 1 : p[j] # c.want[1]
                               /\ p2 = SubSeq(p, k + 1, Len(p))
        \/ p # <<>> /\ c.kind = "quiet" /\ a2 = "action" /\ p2 = p
        \/ c.kind \in {"next", "all", "matching"} /\ a2 = "timeout" /\ p2 = p
        \/ c.kind = "quiet" /\ a2 = "quiet" /\ p2 = p

LEMMA Mapped ==
  ASSUME NEW o, Waiter = {o}
  PROVE  /\ QueueStep(Pending(ops, scan), call[o], answer[o], Pending(ops, scan)', call'[o], answer'[o]) => Queue!QNext
         /\ UNCHANGED <<Pending(ops, scan), call[o], answer[o]>> => UNCHANGED Queue!qvars
         /\ Pending(ops, scan) = <<>> /\ call[o] = NoWait /\ answer[o] = "none" => Queue!QInit
<1>1. Owner = o
  BY DEF Owner
<1>2. ASSUME UNCHANGED <<Pending(ops, scan), call[o], answer[o]>> PROVE UNCHANGED Queue!qvars
  BY <1>1, <1>2 DEF Queue!qvars, Pending, LabelsOf, Hits
<1>3. Pending(ops, scan) = <<>> /\ call[o] = NoWait /\ answer[o] = "none" => Queue!QInit
  BY <1>1 DEF Queue!QInit, Pending, LabelsOf, Hits
<1>4. ASSUME QueueStep(Pending(ops, scan), call[o], answer[o], Pending(ops, scan)', call'[o], answer'[o])
      PROVE  Queue!QNext
  <2> DEFINE p == Pending(ops, scan)
             c == call[o]
             a == answer[o]
  <2>1. CASE Grows(p, p') /\ c' = c /\ a' = a
    <3>1. Queue!Recorded
      BY <1>1, <2>1 DEF Grows, Queue!Recorded, Pending, LabelsOf, Hits
    <3> QED
      BY <3>1 DEF Queue!QNext
  <2>2. CASE c = NoWait /\ c' \in Queue!Calls /\ (c'.kind # "all" => Len(c'.want) <= 1) /\ a' = "none" /\ p' = p
    <3>1. Queue!Called
      BY <1>1, <2>2 DEF Queue!Called, Pending, LabelsOf, Hits
    <3> QED
      BY <3>1 DEF Queue!QNext
  <2>3. CASE c # NoWait /\ c' = NoWait
    <3>1. ASSUME p # <<>> /\ c.kind = "next" /\ p' = Tail(p),
                 a' = IF Head(p) = c.want[1] THEN "ok" ELSE "mismatch"
          PROVE  Queue!Took
      BY <1>1, <2>3, <3>1 DEF Queue!Took, Queue!Ends, Pending, LabelsOf, Hits
    <3>2. ASSUME Len(p) >= Len(c.want) /\ c.kind = "all" /\ p' = SubSeq(p, Len(c.want) + 1, Len(p)),
                 a' = IF Queue!Multiset(SubSeq(p, 1, Len(c.want))) = Queue!Multiset(c.want) THEN "ok" ELSE "mismatch"
          PROVE  Queue!TookAll
      BY <1>1, <2>3, <3>2 DEF Queue!TookAll, Queue!Ends, Pending, LabelsOf, Hits
    <3>3. ASSUME NEW k \in DOMAIN p, c.kind = "matching" /\ a' = "ok" /\ p[k] = c.want[1],
                 \A j \in 1 .. k - 1 : p[j] # c.want[1], p' = SubSeq(p, k + 1, Len(p))
          PROVE  Queue!TookMatching
      BY <1>1, <2>3, <3>3 DEF Queue!TookMatching, Queue!Ends, Pending, LabelsOf, Hits
    <3>4. ASSUME p # <<>> /\ c.kind = "quiet" /\ a' = "action" /\ p' = p PROVE Queue!SawAction
      BY <1>1, <2>3, <3>4 DEF Queue!SawAction, Queue!Ends, Pending, LabelsOf, Hits
    <3>5. ASSUME \/ c.kind \in {"next", "all", "matching"} /\ a' = "timeout" /\ p' = p
                 \/ c.kind = "quiet" /\ a' = "quiet" /\ p' = p
          PROVE  Queue!TimedOut
      BY <1>1, <2>3, <3>5 DEF Queue!TimedOut, Queue!Ends, Pending, LabelsOf, Hits
    <3>6. Queue!Took \/ Queue!TookAll \/ Queue!TookMatching \/ Queue!SawAction \/ Queue!TimedOut
      <4> HIDE DEF p, c, a
      <4> QED
        BY <1>4, <2>3, <3>1, <3>2, <3>3, <3>4, <3>5 DEF QueueStep, p, c, a
    <3> QED
      BY <1>1, <2>3, <3>6 DEF Queue!QNext
  <2> QED
    BY <1>4, <2>1, <2>2, <2>3 DEF QueueStep
<1> QED
  BY <1>2, <1>3, <1>4

LEMMA FoundStays ==
  ASSUME NEW log \in Seq(Op), NEW p \in Nat, p <= Len(log), NEW op \in Op, NEW f, NEW fl, NEW n \in Nat, NEW l
  PROVE  /\ FoundAll(log, p, n, f, fl) => FoundAll(Append(log, op), p, n, f, fl)
         /\ FoundOne(log, p, l, f) => FoundOne(Append(log, op), p, l, f)
<1> DEFINE log2 == Append(log, op)
           X == In(log, p)
           Y == In(log2, p)
           m == Len(log)
<1>1. m \in Nat /\ Len(log2) = m + 1
  OBVIOUS
<1>2. Y = IF Scoped(op) THEN X \cup {m} ELSE X
  BY PendingAppend
<1>3. \A x \in X : x < m /\ log2[x + 1] = log[x + 1]
  BY PendingAppend
<1>4. \A x \in X : x \in Nat
  BY InType
<1> HIDE DEF log2, X, Y, m
<1>5. ASSUME FoundAll(log, p, n, f, fl) PROVE FoundAll(log2, p, n, f, fl)
  <2>1. fl \in 0 .. m /\ (\A i \in X : fl <= i) /\ (Len(f) = n => FirstOf(f, n, X))
    BY <1>5 DEF FoundAll, X, m
  <2>2. fl \in 0 .. Len(log2) /\ \A i \in Y : fl <= i
    BY <1>1, <1>2, <2>1
  <2>3. ASSUME Len(f) = n PROVE FirstOf(f, n, Y)
    <3>1. FirstOf(f, n, X)
      BY <2>1, <2>3
    <3>2. ~(Len(f) < n) /\ \A x \in X : x \in Nat /\ x < m
      BY <1>3, <1>4, <2>3
    <3>3. m \in Nat
      BY <1>1
    <3>4. FirstOf(f, n, X \cup {m})
      BY <3>1, <3>2, <3>3, FirstOfMore
    <3> QED
      BY <1>2, <3>1, <3>4
  <2> QED
    BY <2>2, <2>3 DEF FoundAll, Y
<1>6. ASSUME FoundOne(log, p, l, f) PROVE FoundOne(log2, p, l, f)
  <2>1. CASE f = <<>>
    BY <2>1 DEF FoundOne
  <2>2. CASE f # <<>>
    <3>1. PICK x \in X : f = <<x>> /\ log[x + 1].label = l /\ \A i \in X : log[i + 1].label = l => x <= i
      BY <1>6, <2>2 DEF FoundOne, X
    <3>2. x \in Y /\ log2[x + 1].label = l
      BY <1>2, <1>3, <3>1
    <3>3. ASSUME NEW i \in Y, log2[i + 1].label = l PROVE x <= i
      <4>1. CASE i \in X
        BY <1>3, <3>1, <3>3, <4>1
      <4>2. CASE i = m
        BY <1>1, <1>3, <1>4, <4>2
      <4> QED
        BY <1>2, <4>1, <4>2
    <3> QED
      BY <3>1, <3>2, <3>3 DEF FoundOne, Y
  <2> QED
    BY <2>1, <2>2
<1> QED
  BY <1>5, <1>6 DEF log2

(* The queue's view of the log. *)
QueueStays(o) == UNCHANGED <<Pending(ops, scan), call[o], answer[o]>>
QueueMoves(o) == QueueStep(Pending(ops, scan), call[o], answer[o], Pending(ops, scan)', call'[o], answer'[o]) \/ QueueStays(o)

LEMMA AddKeeps ==
  ASSUME NEW o, Waiter = {o}, CursorInv(o), NEW c \in Controller, addKey(c)
  PROVE  CursorInv(o)' /\ QueueMoves(o)
<1> DEFINE op == answered[c]
<1>1. CursorTyped /\ Poll(ops, scan, wpc[o], call[o], from[o], found[o], floor[o])
  BY DEF CursorInv
<1>2. op \in Op /\ op.label \in Label
  <2>1. op \in Op
    BY <1>1 DEF CursorTyped, addKey
  <2> QED
    BY <2>1 DEF Op
<1>3. ops \in Seq(Op) /\ scan \in Nat /\ scan <= Len(ops) /\ Len(ops) \in Nat
  BY <1>1 DEF CursorTyped
<1>4. /\ ops' = Append(ops, op) /\ scan' = scan /\ wpc' = wpc /\ call' = call /\ from' = from
      /\ found' = found /\ floor' = floor /\ answer' = answer /\ answered' = [answered EXCEPT ![c] = NoWait]
  BY DEF addKey, waits
<1>5. CursorTyped'
  <2>1. ops' \in Seq(Op) /\ scan' \in Nat /\ scan' <= Len(ops')
    BY <1>2, <1>3, <1>4
  <2>2. answered' \in [Controller -> Op \cup {NoWait}]
    BY <1>1, <1>4 DEF CursorTyped
  <2> QED
    BY <1>1, <1>4, <2>1, <2>2 DEF CursorTyped
<1> HIDE DEF op
<1>6. Poll(Append(ops, op), scan, wpc[o], call[o], from[o], found[o], floor[o])
  <2>1. ASSUME wpc[o] = "advance", call[o].kind = "all"
        PROVE  FoundAll(Append(ops, op), scan, Len(call[o].want), found[o], floor[o])
    <3>1. FoundAll(ops, scan, Len(call[o].want), found[o], floor[o]) /\ call[o] \in Calls
      BY <1>1, <2>1 DEF Poll
    <3>2. Len(call[o].want) \in Nat
      BY <3>1, CallIs
    <3> QED
      BY <1>2, <1>3, <3>1, <3>2, FoundStays
  <2>2. ASSUME wpc[o] = "advance", call[o].kind = "matching"
        PROVE  FoundOne(Append(ops, op), scan, call[o].want[1], found[o])
    <3>1. FoundOne(ops, scan, call[o].want[1], found[o])
      BY <1>1, <2>2 DEF Poll
    <3>2. 0 \in Nat
      OBVIOUS
    <3> QED
      BY <1>2, <1>3, <3>1, <3>2, FoundStays
  <2> QED
    BY <1>1, <2>1, <2>2 DEF Poll
<1>7. CursorInv(o)'
  BY <1>4, <1>5, <1>6 DEF CursorInv
<1>8. /\ Scoped(op) => Pending(Append(ops, op), scan) = Append(Pending(ops, scan), op.label)
      /\ ~Scoped(op) => Pending(Append(ops, op), scan) = Pending(ops, scan)
  BY <1>2, <1>3, PendingAppend
<1>9. Pending(ops, scan)' = Pending(Append(ops, op), scan)
  BY <1>4 DEF Pending, LabelsOf, Hits
<1> QED
  BY <1>2, <1>4, <1>7, <1>8, <1>9 DEF QueueMoves, QueueStays, QueueStep, Grows

(* A call that ends. *)
LEMMA ReturnIs ==
  ASSUME NEW o, Waiter = {o}, CursorInv(o), NEW w \in Waiter, NEW a \in {"ok", "mismatch", "timeout", "action", "quiet"},
         ReturnFrom(w, a), UNCHANGED <<ops, answered>>, scan' \in Nat, scan' <= Len(ops)
  PROVE  CursorInv(o)' /\ call'[o] = NoWait /\ answer'[o] = a
<1>1. w = o /\ CursorTyped
  BY DEF CursorInv
<1>2. /\ wpc' = [wpc EXCEPT ![o] = "idle"] /\ call' = [call EXCEPT ![o] = NoWait] /\ from' = [from EXCEPT ![o] = 0]
      /\ floor' = [floor EXCEPT ![o] = 0] /\ found' = [found EXCEPT ![o] = <<>>] /\ answer' = [answer EXCEPT ![o] = a]
  BY <1>1 DEF ReturnFrom
<1>3. /\ wpc' \in [Waiter -> {"idle", "poll", "scan", "advance", "clock"}] /\ wpc'[o] = "idle"
      /\ call' \in [Waiter -> Calls \cup {NoWait}] /\ call'[o] = NoWait
  BY <1>1, <1>2 DEF CursorTyped
<1>4. from' \in [Waiter -> Nat] /\ floor' \in [Waiter -> Nat]
  BY <1>1, <1>2 DEF CursorTyped
<1>5. found' \in [Waiter -> Seq(Nat)]
  <2>1. <<>> \in Seq(Nat)
    OBVIOUS
  <2> QED
    BY <1>1, <1>2, <2>1 DEF CursorTyped
<1>6. answer' \in [Waiter -> {"none", "ok", "mismatch", "timeout", "action", "quiet"}] /\ answer'[o] = a
  BY <1>1, <1>2 DEF CursorTyped
<1>7. CursorTyped'
  BY <1>1, <1>3, <1>4, <1>5, <1>6 DEF CursorTyped
<1>8. Poll(ops, scan, wpc[o], call[o], from[o], found[o], floor[o])'
  BY <1>3 DEF Poll
<1> QED
  BY <1>3, <1>6, <1>7, <1>8 DEF CursorInv

(* A call that goes on, at loc. *)
LEMMA GotoIs ==
  ASSUME NEW o, Waiter = {o}, CursorInv(o), NEW w \in Waiter, NEW loc \in {"poll", "clock", "scan", "advance"},
         wpc[w] # "idle", Goto(w, loc), UNCHANGED <<ops, answered>>, scan' \in Nat, scan' <= Len(ops),
         from' \in [Waiter -> Nat], floor' \in [Waiter -> Nat], found' \in [Waiter -> Seq(Nat)]
  PROVE  /\ CursorTyped' /\ call' = call /\ answer' = answer /\ wpc'[o] = loc /\ call[o] \in Calls
         /\ loc \in {"poll", "clock"} => CursorInv(o)'
<1>1. w = o /\ CursorTyped /\ call[o] \in Calls
  BY DEF CursorInv, Poll
<1>2. wpc' = [wpc EXCEPT ![o] = loc] /\ call' = call /\ answer' = answer
  BY <1>1 DEF Goto
<1>3. wpc' \in [Waiter -> {"idle", "poll", "scan", "advance", "clock"}] /\ wpc'[o] = loc
  BY <1>1, <1>2 DEF CursorTyped
<1>4. CursorTyped'
  BY <1>1, <1>2, <1>3 DEF CursorTyped
<1>5. ASSUME loc \in {"poll", "clock"} PROVE Poll(ops, scan, wpc[o], call[o], from[o], found[o], floor[o])'
  BY <1>1, <1>2, <1>3, <1>5 DEF Poll
<1> QED
  BY <1>1, <1>2, <1>3, <1>4, <1>5 DEF CursorInv

LEMMA PendingMoves ==
  ASSUME ops' = ops
  PROVE  Pending(ops, scan)' = Pending(ops, scan')
BY DEF Pending, LabelsOf, Hits

LEMMA TakeKeeps ==
  ASSUME NEW o, Waiter = {o}, CursorInv(o), NEW w \in Waiter, take(w)
  PROVE  CursorInv(o)' /\ QueueMoves(o)
<1> DEFINE q == Peek(ops, scan)
           P == Pending(ops, scan)
<1>1. ops \in Seq(Op) /\ scan \in Nat /\ scan <= Len(ops) /\ Len(ops) \in Nat /\ w = o
  BY DEF CursorInv, CursorTyped
<1>2. /\ q \in Nat /\ scan <= q /\ q <= Len(ops) /\ Pending(ops, q) = P
      /\ q < Len(ops) => /\ 1 \in DOMAIN Hits(ops, scan) /\ Hits(ops, scan)[1] = q /\ P # <<>>
                         /\ Head(P) = ops[q + 1].label
  BY <1>1, PeekIs
<1>3. wpc[o] = "poll" /\ call[o].kind = "next" /\ ops' = ops /\ answered' = answered
  BY <1>1 DEF take
<1>4. call[o] \in Calls /\ call[o] # NoWait
  <2>1. call[o] \in Calls
    BY <1>3 DEF CursorInv, Poll
  <2> QED
    BY <2>1, CallIs
<1>5. peekLocked = q
  BY DEF peekLocked, Peek
<1>6. P \in Seq(Label)
  BY <1>1, PendingType
<1> HIDE DEF q, P
<1>7. CASE q < Len(ops)
  <2> DEFINE a == IF ops[q + 1].label = call[o].want[1] THEN "ok" ELSE "mismatch"
  <2>1. scan' = q + 1 /\ ReturnFrom(w, a)
    BY <1>1, <1>5, <1>7 DEF take
  <2>2. a \in {"ok", "mismatch", "timeout", "action", "quiet"}
    OBVIOUS
  <2> HIDE DEF a
  <2>3. scan' \in Nat /\ scan' <= Len(ops)
    BY <1>1, <1>2, <1>7, <2>1
  <2>4. CursorInv(o)' /\ call'[o] = NoWait /\ answer'[o] = a
    BY <1>3, <2>1, <2>2, <2>3, ReturnIs
  <2>5. Pending(ops, q + 1) = SubSeq(P, 2, Len(P))
    <3>1. Pending(ops, q + 1) = SubSeq(P, 1 + 1, Len(P))
      BY <1>1, <1>2, <1>7, PendingRest DEF P
    <3> QED
      BY <3>1
  <2>6. SubSeq(P, 2, Len(P)) = Tail(P)
    BY <1>2, <1>6, <1>7
  <2>7. Pending(ops, scan)' = Tail(P)
    BY <1>3, <2>1, <2>5, <2>6, PendingMoves
  <2>8. a = IF Head(P) = call[o].want[1] THEN "ok" ELSE "mismatch"
    BY <1>2, <1>7 DEF a
  <2>9. QueueStep(P, call[o], answer[o], Pending(ops, scan)', call'[o], answer'[o])
    BY <1>2, <1>3, <1>4, <1>7, <2>4, <2>7, <2>8 DEF QueueStep
  <2> QED
    BY <2>4, <2>9 DEF QueueMoves, P
<1>8. CASE ~(q < Len(ops))
  <2>1. scan' = q /\ Goto(w, "clock") /\ from' = from /\ found' = found /\ floor' = floor
    BY <1>5, <1>8 DEF take
  <2>2. from' \in [Waiter -> Nat] /\ floor' \in [Waiter -> Nat] /\ found' \in [Waiter -> Seq(Nat)]
    BY <2>1 DEF CursorInv, CursorTyped
  <2>3. CursorInv(o)' /\ call' = call /\ answer' = answer
    BY <1>1, <1>2, <1>3, <2>1, <2>2, GotoIs
  <2>4. Pending(ops, scan)' = P
    BY <1>2, <1>3, <2>1, PendingMoves
  <2> QED
    BY <2>3, <2>4 DEF QueueMoves, QueueStays, P
<1> QED
  BY <1>7, <1>8

LEMMA QuietKeeps ==
  ASSUME NEW o, Waiter = {o}, CursorInv(o), NEW w \in Waiter, waitWithinQuiet(w)
  PROVE  CursorInv(o)' /\ QueueMoves(o)
<1> DEFINE q == Peek(ops, scan)
           P == Pending(ops, scan)
<1>1. ops \in Seq(Op) /\ scan \in Nat /\ scan <= Len(ops) /\ Len(ops) \in Nat /\ w = o
  BY DEF CursorInv, CursorTyped
<1>2. /\ q \in Nat /\ scan <= q /\ q <= Len(ops) /\ Pending(ops, q) = P
      /\ q < Len(ops) => P # <<>>
  BY <1>1, PeekIs
<1>3. wpc[o] = "poll" /\ call[o].kind = "quiet" /\ ops' = ops /\ answered' = answered
  BY <1>1 DEF waitWithinQuiet
<1>4. call[o] \in Calls /\ call[o] # NoWait
  <2>1. call[o] \in Calls
    BY <1>3 DEF CursorInv, Poll
  <2> QED
    BY <2>1, CallIs
<1>5. peekLocked = q
  BY DEF peekLocked, Peek
<1> HIDE DEF q, P
<1>6. scan' = q /\ scan' \in Nat /\ scan' <= Len(ops)
  BY <1>2, <1>5 DEF waitWithinQuiet
<1>7. Pending(ops, scan)' = P
  BY <1>2, <1>3, <1>6, PendingMoves
<1>8. CASE q < Len(ops)
  <2>1. ReturnFrom(w, "action")
    BY <1>5, <1>8 DEF waitWithinQuiet
  <2>2. CursorInv(o)' /\ call'[o] = NoWait /\ answer'[o] = "action"
    BY <1>3, <1>6, <2>1, ReturnIs
  <2>3. QueueStep(P, call[o], answer[o], Pending(ops, scan)', call'[o], answer'[o])
    BY <1>2, <1>3, <1>4, <1>7, <1>8, <2>2 DEF QueueStep
  <2> QED
    BY <2>2, <2>3 DEF QueueMoves, P
<1>9. CASE ~(q < Len(ops))
  <2>1. Goto(w, "clock") /\ from' = from /\ found' = found /\ floor' = floor
    BY <1>5, <1>9 DEF waitWithinQuiet
  <2>2. from' \in [Waiter -> Nat] /\ floor' \in [Waiter -> Nat] /\ found' \in [Waiter -> Seq(Nat)]
    BY <2>1 DEF CursorInv, CursorTyped
  <2>3. CursorInv(o)' /\ call' = call /\ answer' = answer
    BY <1>1, <1>3, <1>6, <2>1, <2>2, GotoIs
  <2> QED
    BY <1>7, <2>3 DEF QueueMoves, QueueStays, P
<1> QED
  BY <1>8, <1>9

LEMMA PositionKeeps ==
  ASSUME NEW o, Waiter = {o}, CursorInv(o), NEW w \in Waiter, position(w)
  PROVE  CursorInv(o)' /\ QueueMoves(o)
<1>1. CursorTyped /\ w = o
  BY DEF CursorInv
<1>2. wpc[o] = "poll" /\ ops' = ops /\ answered' = answered /\ scan' = scan /\ found' = found /\ floor' = floor
  BY <1>1 DEF position
<1>3. from' = [from EXCEPT ![o] = scan] /\ Goto(w, "scan")
  BY <1>1 DEF position
<1>4. from' \in [Waiter -> Nat] /\ floor' \in [Waiter -> Nat] /\ found' \in [Waiter -> Seq(Nat)] /\ from'[o] = scan
  BY <1>1, <1>2, <1>3 DEF CursorTyped
<1>5. scan' \in Nat /\ scan' <= Len(ops)
  BY <1>1, <1>2 DEF CursorTyped
<1>6. CursorTyped' /\ call' = call /\ answer' = answer /\ wpc'[o] = "scan" /\ call[o] \in Calls
  BY <1>1, <1>2, <1>3, <1>4, <1>5, GotoIs
<1>7. Poll(ops, scan, wpc[o], call[o], from[o], found[o], floor[o])'
  BY <1>2, <1>4, <1>6 DEF Poll
<1>8. Pending(ops, scan)' = Pending(ops, scan)
  BY <1>2, PendingMoves
<1> QED
  BY <1>6, <1>7, <1>8 DEF CursorInv, QueueMoves, QueueStays

LEMMA ScanKeeps ==
  ASSUME NEW o, Waiter = {o}, CursorInv(o), NEW w \in Waiter, scanInScope(w)
  PROVE  CursorInv(o)' /\ QueueMoves(o)
<1> DEFINE n == Len(call[o].want)
           hits == FirstScoped(ops, scan, n)
           fl == IF hits = <<>> THEN Len(ops) ELSE Head(hits)
<1>1. CursorTyped /\ w = o
  BY DEF CursorInv
<1>2. wpc[o] = "scan" /\ call[o].kind = "all" /\ ops' = ops /\ answered' = answered /\ scan' = scan /\ from' = from
  BY <1>1 DEF scanInScope
<1>3. from[o] = scan /\ call[o] \in Calls
  BY <1>2 DEF CursorInv, Poll
<1>4. found' = [found EXCEPT ![o] = hits] /\ floor' = [floor EXCEPT ![o] = fl] /\ Goto(w, "advance")
  BY <1>1, <1>3 DEF scanInScope
<1>5. ops \in Seq(Op) /\ Len(ops) \in Nat /\ scan \in Nat /\ scan <= Len(ops)
  BY <1>1 DEF CursorTyped
<1>6. n \in Nat /\ n # 0
  BY <1>2, <1>3, CallIs
<1>7. FirstOf(hits, n, In(ops, scan))
  BY <1>5, <1>6, FirstScopedIs
<1>8. hits \in Seq(Nat)
  BY <1>7 DEF FirstOf, Rising
<1>9. FoundAll(ops, scan, n, hits, fl)
  <2>1. \A i \in In(ops, scan) : i \in Nat /\ i < Len(ops)
    BY <1>5, InType
  <2> HIDE DEF hits, n
  <2>2. CASE hits = <<>>
    <3>1. Members(hits) = {} /\ Len(hits) = 0
      BY <2>2 DEF Members
    <3>2. \A i \in In(ops, scan) : FALSE
      BY <1>6, <1>7, <3>1 DEF FirstOf
    <3> QED
      BY <1>5, <1>7, <2>2, <3>2 DEF FoundAll
  <2>3. CASE hits # <<>>
    <3>1. 1 \in DOMAIN hits /\ Head(hits) = hits[1]
      BY <1>8, <2>3
    <3>2. hits[1] \in In(ops, scan)
      BY <1>7, <3>1 DEF FirstOf, Members
    <3>3. ASSUME NEW i \in In(ops, scan) PROVE hits[1] <= i
      <4>1. CASE i \in Members(hits)
        <5>1. PICK j \in DOMAIN hits : i = hits[j]
          BY <4>1 DEF Members
        <5>2. Rising(hits)
          BY <1>7 DEF FirstOf
        <5>3. 1 <= j
          BY <1>8
        <5> QED
          BY <3>1, <5>1, <5>2, <5>3, RisingIsInjective
      <4>2. CASE i \notin Members(hits)
        <5>1. hits[1] < i
          BY <1>7, <3>1, <4>2 DEF FirstOf
        <5> QED
          BY <2>1, <3>2, <5>1
      <4> QED
        BY <4>1, <4>2
    <3>4. fl = hits[1] /\ fl \in 0 .. Len(ops)
      BY <1>5, <2>1, <2>3, <3>1, <3>2
    <3> QED
      BY <1>7, <3>3, <3>4 DEF FoundAll
  <2> QED
    BY <2>2, <2>3
<1>10. fl \in Nat
  BY <1>5, <1>9 DEF FoundAll
<1> HIDE DEF n, hits, fl
<1>11. /\ from' \in [Waiter -> Nat] /\ floor' \in [Waiter -> Nat] /\ floor'[o] = fl
  BY <1>1, <1>2, <1>4, <1>10 DEF CursorTyped
<1>12. found' \in [Waiter -> Seq(Nat)] /\ found'[o] = hits
  BY <1>1, <1>4, <1>8 DEF CursorTyped
<1>13. CursorTyped' /\ call' = call /\ answer' = answer /\ wpc'[o] = "advance"
  <2>1. wpc[w] # "idle"
    BY <1>1, <1>2
  <2> QED
    BY <1>2, <1>4, <1>5, <1>11, <1>12, <2>1, GotoIs
<1>14. Poll(ops, scan, "advance", call[o], scan, hits, fl)
  BY <1>2, <1>3, <1>9 DEF Poll, n
<1>15. Poll(ops, scan, wpc[o], call[o], from[o], found[o], floor[o])'
  BY <1>2, <1>3, <1>11, <1>12, <1>13, <1>14
<1>16. Pending(ops, scan)' = Pending(ops, scan)
  BY <1>2, PendingMoves
<1> QED
  BY <1>13, <1>15, <1>16 DEF CursorInv, QueueMoves, QueueStays

LEMMA FindKeeps ==
  ASSUME NEW o, Waiter = {o}, CursorInv(o), NEW w \in Waiter, findInScope(w)
  PROVE  CursorInv(o)' /\ QueueMoves(o)
<1> DEFINE l == call[o].want[1]
           hits == {i \in In(ops, scan) : ops[i + 1].label = l}
           f == IF hits = {} THEN <<>> ELSE <<Min(hits)>>
<1>1. CursorTyped /\ w = o
  BY DEF CursorInv
<1>2. wpc[o] = "scan" /\ call[o].kind = "matching" /\ ops' = ops /\ answered' = answered /\ scan' = scan /\ from' = from /\ floor' = floor
  BY <1>1 DEF findInScope
<1>3. from[o] = scan /\ call[o] \in Calls
  BY <1>2 DEF CursorInv, Poll
<1>4. found' = [found EXCEPT ![o] = f] /\ Goto(w, "advance")
  BY <1>1, <1>3 DEF findInScope, In
<1>5. ops \in Seq(Op) /\ Len(ops) \in Nat /\ scan \in Nat /\ scan <= Len(ops)
  BY <1>1 DEF CursorTyped
<1>6. \A i \in In(ops, scan) : i \in Nat
  BY <1>5, InType
<1>7. FoundOne(ops, scan, l, f) /\ f \in Seq(Nat)
  <2>1. CASE hits = {}
    BY <2>1 DEF FoundOne
  <2>2. CASE hits # {}
    <3>1. hits \in SUBSET Nat
      BY <1>6
    <3>2. PICK m \in hits : \A i \in hits : m <= i
      BY <2>2, <3>1, LeastExists
    <3> HIDE DEF hits
    <3>3. Min(hits) \in hits /\ \A i \in hits : Min(hits) <= i
      BY <3>2 DEF Min
    <3> DEFINE x == Min(hits)
    <3>4. f = <<x>> /\ x \in hits /\ \A i \in hits : x <= i
      BY <2>2, <3>3
    <3> HIDE DEF x, f
    <3>5. x \in In(ops, scan) /\ ops[x + 1].label = l /\ x \in Nat
      BY <1>6, <3>4 DEF hits
    <3>6. ASSUME NEW i \in In(ops, scan), ops[i + 1].label = l PROVE x <= i
      BY <3>4, <3>6 DEF hits
    <3>7. FoundOne(ops, scan, l, f)
      BY <3>4, <3>5, <3>6 DEF FoundOne
    <3>8. <<x>> \in Seq(Nat)
      BY <3>5
    <3> QED
      BY <3>4, <3>7, <3>8
  <2> QED
    BY <2>1, <2>2
<1> HIDE DEF l, hits, f
<1>8. from' \in [Waiter -> Nat] /\ floor' \in [Waiter -> Nat]
  BY <1>1, <1>2 DEF CursorTyped
<1>9. found' \in [Waiter -> Seq(Nat)] /\ found'[o] = f
  BY <1>1, <1>4, <1>7 DEF CursorTyped
<1>10. CursorTyped' /\ call' = call /\ answer' = answer /\ wpc'[o] = "advance"
  <2>1. wpc[w] # "idle"
    BY <1>1, <1>2
  <2> QED
    BY <1>2, <1>4, <1>5, <1>8, <1>9, <2>1, GotoIs
<1>11. Poll(ops, scan, "advance", call[o], scan, f, floor[o])
  BY <1>2, <1>3, <1>7 DEF Poll, l
<1>12. Poll(ops, scan, wpc[o], call[o], from[o], found[o], floor[o])'
  BY <1>2, <1>3, <1>9, <1>10, <1>11
<1>13. Pending(ops, scan)' = Pending(ops, scan)
  BY <1>2, PendingMoves
<1> QED
  BY <1>10, <1>12, <1>13 DEF CursorInv, QueueMoves, QueueStays

LEMMA AllKeeps ==
  ASSUME NEW o, Waiter = {o}, CursorInv(o), NEW w \in Waiter, waitForAll(w)
  PROVE  CursorInv(o)' /\ QueueMoves(o)
<1> DEFINE n == Len(call[o].want)
           f == found[o]
           fl == floor[o]
           P == Pending(ops, scan)
<1>1. CursorTyped /\ w = o
  BY DEF CursorInv
<1>2. wpc[o] = "advance" /\ call[o].kind = "all" /\ ops' = ops /\ answered' = answered
  BY <1>1 DEF waitForAll
<1>3. call[o] \in Calls /\ FoundAll(ops, scan, n, f, fl)
  BY <1>2 DEF CursorInv, Poll
<1>4. ops \in Seq(Op) /\ Len(ops) \in Nat /\ scan \in Nat /\ scan <= Len(ops)
  BY <1>1 DEF CursorTyped
<1>5. n \in Nat \ {0} /\ call[o].want \in Seq(Label) /\ call[o] # NoWait
  BY <1>2, <1>3, CallIs
<1>6. f \in Seq(Nat)
  BY <1>1 DEF CursorTyped
<1>7. P \in Seq(Label)
  BY <1>4, PendingType
<1>8. CASE Len(f) = n
  <2> DEFINE got == LabelsOf(ops, f)
             a == IF compareMultiset(call[o].want, got) THEN "ok" ELSE "mismatch"
             k == f[n]
  <2>1. Last(f) = k
    BY <1>8 DEF Last
  <2>2. advanceTo(k + 1) /\ ReturnFrom(w, a)
    BY <1>1, <1>8, <2>1 DEF waitForAll, LabelsOf
  <2>3. a \in {"ok", "mismatch", "timeout", "action", "quiet"}
    OBVIOUS
  <2>4. FirstOf(f, n, In(ops, scan))
    BY <1>3, <1>8 DEF FoundAll
  <2> HIDE DEF f, n
  <2>5. n \in DOMAIN Hits(ops, scan) /\ k = Hits(ops, scan)[n] /\ n <= Len(P) /\ got = SubSeq(P, 1, n)
    BY <1>4, <1>5, <1>8, <2>4, FoundIsHead
  <2>6. Pending(ops, k + 1) = SubSeq(P, n + 1, Len(P))
    BY <1>4, <2>5, PendingRest
  <2>7. k \in In(ops, scan)
    BY <1>4, <2>5, HitsType
  <2>8. k \in Nat /\ scan <= k /\ k < Len(ops)
    BY <1>4, <2>7, InType
  <2>9. got \in Seq(Label)
    BY <1>5, <1>7, <2>5
  <2>10. a = IF Queue!Multiset(SubSeq(P, 1, n)) = Queue!Multiset(call[o].want) THEN "ok" ELSE "mismatch"
    BY <1>5, <2>5, <2>9, MultisetsCompared
  <2> HIDE DEF a, k, got, P
  <2>11. scan' = k + 1
    BY <1>4, <2>2, <2>8 DEF advanceTo
  <2>12. scan' \in Nat /\ scan' <= Len(ops)
    BY <1>4, <2>8, <2>11
  <2>13. CursorInv(o)' /\ call'[o] = NoWait /\ answer'[o] = a
    BY <1>2, <2>2, <2>3, <2>12, ReturnIs
  <2>14. Pending(ops, scan)' = SubSeq(P, n + 1, Len(P))
    BY <1>2, <2>6, <2>11, PendingMoves
  <2>15. Len(P) >= n
    BY <1>5, <1>7, <2>5
  <2>16. QueueStep(P, call[o], answer[o], Pending(ops, scan)', call'[o], answer'[o])
    BY <1>2, <1>5, <2>10, <2>13, <2>14, <2>15 DEF QueueStep, n
  <2> QED
    BY <2>13, <2>16 DEF QueueMoves, P
<1>9. CASE Len(f) # n
  <2>1. advanceTo(fl) /\ Goto(w, "clock") /\ from' = from /\ found' = found /\ floor' = floor
    BY <1>1, <1>9 DEF waitForAll
  <2>2. from' \in [Waiter -> Nat] /\ floor' \in [Waiter -> Nat] /\ found' \in [Waiter -> Seq(Nat)]
    BY <1>1, <2>1 DEF CursorTyped
  <2>3. fl \in 0 .. Len(ops) /\ \A i \in In(ops, scan) : fl <= i
    BY <1>3 DEF FoundAll
  <2>4. fl \in Nat /\ fl <= Len(ops)
    BY <1>4, <2>3
  <2> HIDE DEF fl
  <2>5. scan' = IF fl > scan THEN fl ELSE scan
    BY <2>1 DEF advanceTo
  <2>6. scan' \in Nat /\ scan' <= Len(ops)
    BY <1>4, <2>4, <2>5
  <2>7. CursorInv(o)' /\ call' = call /\ answer' = answer
    BY <1>1, <1>2, <2>1, <2>2, <2>6, GotoIs
  <2>8. Pending(ops, scan') = Pending(ops, scan)
    <3>1. CASE fl > scan
      <4>1. scan <= fl
        BY <1>4, <2>4, <3>1
      <4>2. Pending(ops, fl) = Pending(ops, scan)
        BY <1>4, <2>3, <2>4, <4>1, PendingSame
      <4> QED
        BY <2>5, <3>1, <4>2
    <3>2. CASE ~(fl > scan)
      BY <2>5, <3>2
    <3> QED
      BY <3>1, <3>2
  <2> QED
    BY <1>2, <2>7, <2>8, PendingMoves DEF QueueMoves, QueueStays
<1> QED
  BY <1>8, <1>9

(* The first op that matches, in the queue's terms. *)
LEMMA FoundIsFirst ==
  ASSUME NEW log \in Seq(Op), NEW p \in Nat, NEW l, NEW m \in In(log, p), log[m + 1].label = l,
         \A i \in In(log, p) : log[i + 1].label = l => m <= i
  PROVE  \E k \in DOMAIN Hits(log, p) :
           /\ Hits(log, p)[k] = m /\ k \in DOMAIN Pending(log, p) /\ Pending(log, p)[k] = l
           /\ \A j \in 1 .. k - 1 : Pending(log, p)[j] # l
<1> DEFINE h == Hits(log, p)
           P == Pending(log, p)
<1>1. /\ h \in Seq(Nat) /\ Len(h) \in Nat /\ DOMAIN h = 1 .. Len(h) /\ Rising(h) /\ Members(h) = In(log, p)
      /\ \A i \in DOMAIN h : h[i] \in In(log, p)
  BY HitsType
<1>2. DOMAIN P = DOMAIN h /\ \A i \in DOMAIN h : P[i] = log[h[i] + 1].label
  BY PendingType
<1> HIDE DEF h, P
<1>3. PICK k \in DOMAIN h : h[k] = m
  BY <1>1 DEF Members
<1>4. P[k] = l /\ k \in DOMAIN P
  BY <1>2, <1>3
<1>5. ASSUME NEW j \in 1 .. k - 1 PROVE P[j] # l
  <2>1. j \in DOMAIN h /\ j < k
    BY <1>1, <1>3
  <2>2. h[j] < h[k] /\ h[j] \in Nat /\ h[k] \in Nat
    BY <1>1, <2>1, RisingIsInjective DEF Rising
  <2>3. ASSUME P[j] = l PROVE FALSE
    <3>1. log[h[j] + 1].label = l /\ h[j] \in In(log, p)
      BY <1>1, <1>2, <2>1, <2>3
    <3>2. m <= h[j]
      BY <3>1
    <3> QED
      BY <1>3, <2>2, <3>2
  <2> QED
    BY <2>3
<1> QED
  BY <1>3, <1>4, <1>5 DEF h, P

LEMMA MatchingKeeps ==
  ASSUME NEW o, Waiter = {o}, CursorInv(o), NEW w \in Waiter, waitForMatching(w)
  PROVE  CursorInv(o)' /\ QueueMoves(o)
<1> DEFINE l == call[o].want[1]
           f == found[o]
           P == Pending(ops, scan)
<1>1. CursorTyped /\ w = o
  BY DEF CursorInv
<1>2. wpc[o] = "advance" /\ call[o].kind = "matching" /\ ops' = ops /\ answered' = answered
  BY <1>1 DEF waitForMatching
<1>3. call[o] \in Calls /\ FoundOne(ops, scan, l, f)
  BY <1>2 DEF CursorInv, Poll
<1>4. ops \in Seq(Op) /\ Len(ops) \in Nat /\ scan \in Nat /\ scan <= Len(ops)
  BY <1>1 DEF CursorTyped
<1>5. call[o] # NoWait
  BY <1>3, CallIs
<1>6. CASE f # <<>>
  <2>1. advanceTo(f[1] + 1) /\ ReturnFrom(w, "ok")
    BY <1>1, <1>6 DEF waitForMatching
  <2> HIDE DEF l, f
  <2>2. PICK m \in In(ops, scan) : /\ f = <<m>> /\ ops[m + 1].label = l
                                   /\ \A i \in In(ops, scan) : ops[i + 1].label = l => m <= i
    BY <1>3, <1>6 DEF FoundOne
  <2>3. PICK k \in DOMAIN Hits(ops, scan) :
          Hits(ops, scan)[k] = m /\ k \in DOMAIN P /\ P[k] = l /\ \A j \in 1 .. k - 1 : P[j] # l
    BY <1>4, <2>2, FoundIsFirst
  <2>4. Pending(ops, m + 1) = SubSeq(P, k + 1, Len(P))
    BY <1>4, <2>3, PendingRest
  <2>5. m \in Nat /\ scan <= m /\ m < Len(ops)
    BY <1>4, InType
  <2>6. f[1] = m
    BY <2>2
  <2> HIDE DEF P
  <2>7. scan' = m + 1
    BY <1>4, <2>1, <2>5, <2>6 DEF advanceTo
  <2>8. scan' \in Nat /\ scan' <= Len(ops)
    BY <1>4, <2>5, <2>7
  <2>9. CursorInv(o)' /\ call'[o] = NoWait /\ answer'[o] = "ok"
    BY <1>2, <2>1, <2>8, ReturnIs
  <2>10. Pending(ops, scan)' = SubSeq(P, k + 1, Len(P))
    BY <1>2, <2>4, <2>7, PendingMoves
  <2>11. QueueStep(P, call[o], answer[o], Pending(ops, scan)', call'[o], answer'[o])
    BY <1>2, <1>5, <2>3, <2>9, <2>10 DEF QueueStep, l
  <2> QED
    BY <2>9, <2>11 DEF QueueMoves, P
<1>7. CASE f = <<>>
  <2>1. Goto(w, "clock") /\ scan' = scan /\ from' = from /\ found' = found /\ floor' = floor
    BY <1>1, <1>7 DEF waitForMatching
  <2>2. from' \in [Waiter -> Nat] /\ floor' \in [Waiter -> Nat] /\ found' \in [Waiter -> Seq(Nat)]
    BY <1>1, <2>1 DEF CursorTyped
  <2>3. CursorInv(o)' /\ call' = call /\ answer' = answer
    BY <1>1, <1>2, <1>4, <2>1, <2>2, GotoIs
  <2> QED
    BY <1>2, <2>1, <2>3, PendingMoves DEF QueueMoves, QueueStays
<1> QED
  BY <1>6, <1>7

LEMMA DeadlineKeeps ==
  ASSUME NEW o, Waiter = {o}, CursorInv(o), NEW w \in Waiter, deadline(w)
  PROVE  CursorInv(o)' /\ QueueMoves(o)
<1> DEFINE P == Pending(ops, scan)
           a == IF call[o].kind = "quiet" THEN "quiet" ELSE "timeout"
<1>1. CursorTyped /\ w = o
  BY DEF CursorInv
<1>2. wpc[o] = "clock" /\ ops' = ops /\ answered' = answered /\ scan' = scan
  BY <1>1 DEF deadline
<1>3. call[o] \in Calls
  BY <1>2 DEF CursorInv, Poll
<1>4. scan' \in Nat /\ scan' <= Len(ops)
  BY <1>1, <1>2 DEF CursorTyped
<1>5. call[o] # NoWait /\ call[o].kind \in {"next", "all", "matching", "quiet"}
  BY <1>3, CallIs
<1>6. Pending(ops, scan)' = P
  BY <1>2, PendingMoves
<1>7. a \in {"ok", "mismatch", "timeout", "action", "quiet"}
  OBVIOUS
<1>8. CASE left[w] = 0
  <2>1. ReturnFrom(w, a)
    BY <1>1, <1>8 DEF deadline
  <2> HIDE DEF a, P
  <2>2. CursorInv(o)' /\ call'[o] = NoWait /\ answer'[o] = a
    BY <1>2, <1>4, <1>7, <2>1, ReturnIs
  <2>3. QueueStep(P, call[o], answer[o], Pending(ops, scan)', call'[o], answer'[o])
    BY <1>5, <1>6, <2>2 DEF QueueStep, a
  <2> QED
    BY <2>2, <2>3 DEF QueueMoves, P
<1>9. CASE left[w] # 0
  <2>1. Goto(w, "poll") /\ from' = from /\ found' = found /\ floor' = floor
    BY <1>9 DEF deadline
  <2>2. from' \in [Waiter -> Nat] /\ floor' \in [Waiter -> Nat] /\ found' \in [Waiter -> Seq(Nat)]
    BY <1>1, <2>1 DEF CursorTyped
  <2>3. CursorInv(o)' /\ call' = call /\ answer' = answer
    BY <1>1, <1>2, <1>4, <2>1, <2>2, GotoIs
  <2> QED
    BY <1>6, <2>3 DEF QueueMoves, QueueStays
<1> QED
  BY <1>8, <1>9

LEMMA CallKeeps ==
  ASSUME NEW o, Waiter = {o}, CursorInv(o), NEW w \in Waiter, NEW c \in Calls, Call(w, c)
  PROVE  CursorInv(o)' /\ QueueMoves(o)
<1>1. CursorTyped /\ w = o
  BY DEF CursorInv
<1>2. /\ wpc[o] = "idle" /\ ops' = ops /\ answered' = answered /\ scan' = scan /\ from' = from /\ found' = found
      /\ floor' = floor /\ call' = [call EXCEPT ![o] = c] /\ wpc' = [wpc EXCEPT ![o] = "poll"]
      /\ answer' = [answer EXCEPT ![o] = "none"]
  BY <1>1 DEF Call
<1>3. call[o] = NoWait
  BY <1>2 DEF CursorInv, Poll
<1>4. /\ wpc' \in [Waiter -> {"idle", "poll", "scan", "advance", "clock"}] /\ wpc'[o] = "poll"
      /\ call' \in [Waiter -> Calls \cup {NoWait}] /\ call'[o] = c
      /\ answer' \in [Waiter -> {"none", "ok", "mismatch", "timeout", "action", "quiet"}] /\ answer'[o] = "none"
  BY <1>1, <1>2 DEF CursorTyped
<1>5. CursorTyped'
  BY <1>1, <1>2, <1>4 DEF CursorTyped
<1>6. Poll(ops, scan, wpc[o], call[o], from[o], found[o], floor[o])'
  BY <1>4 DEF Poll
<1>7. c \in Queue!Calls /\ (c.kind # "all" => Len(c.want) <= 1)
  BY CallIs
<1>8. Pending(ops, scan)' = Pending(ops, scan)
  BY <1>2, PendingMoves
<1>9. QueueStep(Pending(ops, scan), call[o], answer[o], Pending(ops, scan)', call'[o], answer'[o])
  BY <1>3, <1>4, <1>7, <1>8 DEF QueueStep
<1> QED
  BY <1>5, <1>6, <1>9 DEF CursorInv, QueueMoves

(* What does not concern the cursor leaves the queue alone. *)
LEMMA OthersKeep ==
  ASSUME NEW o, Waiter = {o}, CursorInv(o), UNCHANGED <<ops, scan, wpc, call, from, found, floor, answer>>,
         answered' \in [Controller -> Op \cup {NoWait}]
  PROVE  CursorInv(o)' /\ QueueMoves(o)
<1>1. CursorTyped'
  BY DEF CursorInv, CursorTyped
<1>2. Poll(ops, scan, wpc[o], call[o], from[o], found[o], floor[o])'
  BY DEF CursorInv, Poll
<1>3. Pending(ops, scan)' = Pending(ops, scan)
  BY PendingMoves
<1> QED
  BY <1>1, <1>2, <1>3 DEF CursorInv, QueueMoves, QueueStays

LEMMA NextKeeps ==
  ASSUME NEW o, Waiter = {o}, CursorInv(o), [CursorNext]_cursorVars
  PROVE  CursorInv(o)' /\ QueueMoves(o)
<1>1. answered \in [Controller -> Op \cup {NoWait}]
  BY DEF CursorInv, CursorTyped
<1>2. ASSUME NEW c \in Controller, addKey(c) PROVE CursorInv(o)' /\ QueueMoves(o)
  BY <1>2, AddKeeps
<1>3. ASSUME NEW c \in Controller, NEW op \in Op, Answer(c, op) PROVE CursorInv(o)' /\ QueueMoves(o)
  <2>1. answered' \in [Controller -> Op \cup {NoWait}]
    BY <1>1, <1>3 DEF Answer
  <2>2. UNCHANGED <<ops, scan, wpc, call, from, found, floor, answer>>
    BY <1>3 DEF Answer
  <2> QED
    BY <2>1, <2>2, OthersKeep
<1>4. ASSUME NEW w \in Waiter, WaiterStep(w) PROVE CursorInv(o)' /\ QueueMoves(o)
  BY <1>4, TakeKeeps, QuietKeeps, PositionKeeps, ScanKeeps, FindKeeps, AllKeeps, MatchingKeeps, DeadlineKeeps DEF WaiterStep
<1>5. ASSUME NEW w \in Waiter, NEW c \in Calls, Call(w, c) PROVE CursorInv(o)' /\ QueueMoves(o)
  BY <1>5, CallKeeps
<1>6. ASSUME Tick \/ UNCHANGED cursorVars PROVE CursorInv(o)' /\ QueueMoves(o)
  <2>1. UNCHANGED <<ops, scan, wpc, call, from, found, floor, answer>> /\ answered' = answered
    BY <1>6 DEF Tick, cursorVars, waits
  <2> QED
    BY <1>1, <2>1, OthersKeep
<1> QED
  BY <1>2, <1>3, <1>4, <1>5, <1>6 DEF CursorNext

LEMMA CursorStarts ==
  ASSUME NEW o, Waiter = {o}, CursorInit
  PROVE  CursorInv(o) /\ Queue!QInit
<1>1. ops \in Seq(Op) /\ Len(ops) \in Nat /\ scan = Len(ops)
  <2>1. ops = <<>> \/ \E op \in Op : ops = <<op>>
    BY DEF CursorInit
  <2>2. ops \in Seq(Op)
    <3>1. ASSUME ops = <<>> PROVE ops \in Seq(Op)
      BY <3>1
    <3>2. ASSUME NEW op \in Op, ops = <<op>> PROVE ops \in Seq(Op)
      <4>1. <<op>> \in Seq(Op)
        OBVIOUS
      <4> QED
        BY <3>2, <4>1
    <3> QED
      BY <2>1, <3>1, <3>2
  <2>3. scan = Len(ops)
    BY DEF CursorInit
  <2> QED
    BY <2>2, <2>3
<1>2. /\ answered \in [Controller -> Op \cup {NoWait}] /\ wpc \in [Waiter -> {"idle", "poll", "scan", "advance", "clock"}]
      /\ call \in [Waiter -> Calls \cup {NoWait}] /\ from \in [Waiter -> Nat] /\ floor \in [Waiter -> Nat]
      /\ answer \in [Waiter -> {"none", "ok", "mismatch", "timeout", "action", "quiet"}]
      /\ wpc[o] = "idle" /\ call[o] = NoWait /\ answer[o] = "none"
  BY DEF CursorInit
<1>3. found \in [Waiter -> Seq(Nat)]
  <2>1. <<>> \in Seq(Nat)
    OBVIOUS
  <2> QED
    BY <2>1 DEF CursorInit
<1>4. CursorInv(o)
  BY <1>1, <1>2, <1>3 DEF CursorInv, CursorTyped, Poll
<1>5. Pending(ops, scan) = <<>>
  <2>1. scan \in Nat /\ scan <= Len(ops)
    BY <1>1
  <2>2. \A i \in In(ops, scan) : FALSE
    BY <1>1, <2>1, InType
  <2>3. /\ Hits(ops, scan) \in Seq(Nat) /\ \A i \in DOMAIN Hits(ops, scan) : Hits(ops, scan)[i] \in In(ops, scan)
    BY <1>1, <2>1, HitsType
  <2>4. DOMAIN Hits(ops, scan) = {}
    BY <2>2, <2>3
  <2>5. Pending(ops, scan) \in Seq(Label) /\ DOMAIN Pending(ops, scan) = {}
    BY <1>1, <2>1, <2>4, PendingType
  <2> HIDE DEF Pending
  <2> QED
    BY <2>5
<1> QED
  BY <1>2, <1>4, <1>5, Mapped

(* Used by its one owner, a cursor implements the queue of OpQueue, for any *)
(* controllers, labels, scope, timeout and expectations: no accepted write  *)
(* in scope is skipped, seen twice or taken out of order, though            *)
(* WaitForAll and WaitForMatching give Recorder.mu up between their scan    *)
(* and their advance and writes are filed in between.                       *)
THEOREM CursorIsQueue ==
  ASSUME NEW o, Waiter = {o}
  PROVE  CursorSpec => IsQueue
<1>1. CursorInit => CursorInv(o) /\ Queue!QInit
  BY CursorStarts
<1>2. CursorInv(o) /\ [CursorNext]_cursorVars => CursorInv(o)' /\ [Queue!QNext]_(Queue!qvars)
  <2>1. CursorInv(o) /\ [CursorNext]_cursorVars => CursorInv(o)' /\ QueueMoves(o)
    BY NextKeeps
  <2>2. QueueMoves(o) => [Queue!QNext]_(Queue!qvars)
    BY Mapped DEF QueueMoves, QueueStays
  <2> QED
    BY <2>1, <2>2
<1> QED
  BY <1>1, <1>2, PTL DEF CursorSpec, IsQueue, Queue!QSpec
==============================================================================
