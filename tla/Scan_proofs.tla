----------------------------- MODULE Scan_proofs -----------------------------
(***************************************************************************)
(* Proofs about Scan: for any number of directories, however they are      *)
(* nested and named, the walks find what they should and no more, and      *)
(* quarantining in their order reaches every match.                        *)
(***************************************************************************)
EXTENDS Scan, FiniteSetTheorems, Induction, TLAPS

USE ScanAssumption

-----------------------------------------------------------------------------
(* The tree *)

Tree == \A n \in Nodes : parent[n] \in {Host, Tmp} \cup 1..(n - 1)

\* The two roots are no directories, and a directory comes after its parent.
LEMMA NodeFacts ==
  ASSUME Tree
  PROVE  /\ Host \notin Nodes /\ Tmp \notin Nodes /\ Host # Tmp
         /\ \A n \in Nodes : n \in Nat /\ n > 0
         /\ \A n \in Nodes : parent[n] \in Nodes => parent[n] < n
         /\ \A n \in Nodes : parent[n] \in Nodes \/ parent[n] = Host \/ parent[n] = Tmp
BY DEF Tree, Nodes

\* What holds of a directory when it holds of its parent holds of all.
LEMMA TreeInduction ==
  ASSUME Tree, NEW T,
         \A n \in Nodes : (parent[n] \in Nodes => parent[n] \in T) => n \in T
  PROVE  Nodes \subseteq T
<1> DEFINE S == {k \in Nat : \A n \in Nodes : n <= k => n \in T}
<1>1. 0 \in S
  BY DEF Nodes
<1>2. \A k \in Nat : k \in S => k + 1 \in S
  <2> SUFFICES ASSUME NEW k \in Nat, k \in S, NEW n \in Nodes, n <= k + 1 PROVE n \in T
    OBVIOUS
  <2>1. parent[n] \in Nodes => parent[n] <= k
    BY NodeFacts
  <2> QED
    BY <2>1
<1> HIDE DEF S
<1>3. \A k \in Nat : k \in S
  BY <1>1, <1>2, InductionOnSet
<1> QED
  BY <1>3, NodeFacts DEF S

\* The ancestors are the parent and its ancestors.
LEMMA AboveEquation ==
  ASSUME Tree, NEW n \in Nodes
  PROVE  Above[n] = IF parent[n] \in Nodes THEN {parent[n]} \cup Above[parent[n]] ELSE {}
<1> DEFINE Up(f, m) == IF parent[m] \in Nodes THEN {parent[m]} \cup f[parent[m]] ELSE {}
           Right(f) == f = [m \in Nodes |-> Up(f, m)]
           UpTo(f, k) == /\ f = [m \in 1..k |-> f[m]]
                         /\ \A m \in (1..k) \cap Nodes : f[m] = Up(f, m)
           S == {k \in Nat : \E f : UpTo(f, k)}
<1>1. 0 \in S
  <2>1. UpTo([m \in 1..0 |-> {}], 0)
    OBVIOUS
  <2> QED
    BY <2>1
<1>2. \A k \in Nat : k \in S => k + 1 \in S
  <2> SUFFICES ASSUME NEW k \in Nat, k \in S PROVE k + 1 \in S
    OBVIOUS
  <2>1. PICK f : UpTo(f, k)
    OBVIOUS
  <2> DEFINE g == [m \in 1..(k + 1) |-> IF m = k + 1 THEN Up(f, k + 1) ELSE f[m]]
  <2>2. ASSUME NEW m \in (1..(k + 1)) \cap Nodes PROVE g[m] = Up(g, m)
    <3>1. parent[m] \in Nodes => g[parent[m]] = f[parent[m]]
      BY NodeFacts
    <3>2. Up(g, m) = Up(f, m)
      BY <3>1
    <3>3. CASE m = k + 1
      BY <3>2, <3>3
    <3>4. CASE m # k + 1
      <4>1. m \in (1..k) \cap Nodes /\ g[m] = f[m]
        BY <3>4
      <4> QED
        BY <2>1, <3>2, <4>1
    <3> QED
      BY <3>3, <3>4
  <2>3. g = [m \in 1..(k + 1) |-> g[m]]
    OBVIOUS
  <2>4. UpTo(g, k + 1)
    BY <2>2, <2>3
  <2> HIDE DEF g, UpTo
  <2> QED
    BY <2>4
<1>3. N \in S
  <2> HIDE DEF S
  <2> QED
    BY <1>1, <1>2, InductionOnSet
<1>4. PICK f : f = [m \in Nodes |-> f[m]] /\ \A m \in Nodes : f[m] = Up(f, m)
  BY <1>3 DEF Nodes
<1>5. Right(f)
  BY <1>4
<1>6. Above = CHOOSE above : Right(above)
  BY DEF Above
<1>7. Right(Above)
  BY <1>5, <1>6
<1> QED
  BY <1>7

Path(n) == {n} \cup Above[n]

\* A directory is above the ones after it only, and so is what is above it.
LEMMA AboveIsEarlier ==
  ASSUME Tree, NEW n \in Nodes
  PROVE  Above[n] \subseteq Nodes /\ \A a \in Above[n] : a < n
<1> DEFINE T == {m \in Nodes : Above[m] \subseteq Nodes /\ \A a \in Above[m] : a < m}
<1>1. ASSUME NEW m \in Nodes, parent[m] \in Nodes => parent[m] \in T
      PROVE  m \in T
  <2>1. CASE parent[m] \in Nodes
    <3>1. Above[m] = {parent[m]} \cup Above[parent[m]]
      BY <2>1, AboveEquation
    <3>2. parent[m] < m /\ parent[m] \in Nat /\ m \in Nat /\ Nodes \subseteq Nat
      BY <2>1, NodeFacts
    <3>3. Above[parent[m]] \subseteq Nodes /\ \A a \in Above[parent[m]] : a < parent[m]
      BY <1>1, <2>1
    <3>4. ASSUME NEW a \in Above[m] PROVE a \in Nodes /\ a < m
      <4>1. CASE a = parent[m]
        BY <2>1, <3>2, <4>1
      <4>2. CASE a \in Above[parent[m]]
        <5>1. a \in Nodes /\ a < parent[m]
          BY <3>3, <4>2
        <5>2. \A x, y, z \in Nat : x < y /\ y < z => x < z
          OBVIOUS
        <5> QED
          BY <3>2, <5>1, <5>2
      <4> QED
        BY <3>1, <4>1, <4>2
    <3> QED
      BY <3>4
  <2>2. CASE parent[m] \notin Nodes
    BY <2>2, AboveEquation
  <2> QED
    BY <2>1, <2>2
<1> HIDE DEF T
<1>2. n \in T
  BY <1>1, TreeInduction
<1> QED
  BY <1>2 DEF T

\* What is above an ancestor is above.
LEMMA AboveIsTransitive ==
  ASSUME Tree, NEW n \in Nodes, NEW a \in Above[n]
  PROVE  Above[a] \subseteq Above[n]
<1> DEFINE T == {m \in Nodes : \A b \in Above[m] : Above[b] \subseteq Above[m]}
<1>1. ASSUME NEW m \in Nodes, parent[m] \in Nodes => parent[m] \in T
      PROVE  m \in T
  <2>1. CASE parent[m] \in Nodes
    <3>1. Above[m] = {parent[m]} \cup Above[parent[m]]
      BY <2>1, AboveEquation
    <3>2. \A b \in Above[parent[m]] : Above[b] \subseteq Above[parent[m]]
      BY <1>1, <2>1
    <3> QED
      BY <3>1, <3>2
  <2>2. CASE parent[m] \notin Nodes
    BY <2>2, AboveEquation
  <2> QED
    BY <2>1, <2>2
<1> HIDE DEF T
<1>2. n \in T
  BY <1>1, TreeInduction
<1> QED
  BY <1>2 DEF T

\* The way from a directory up goes through each directory above it by a child of it.
LEMMA ChildOnPath ==
  ASSUME Tree, NEW n \in Nodes, NEW a \in Above[n]
  PROVE  \E c \in Path(n) : parent[c] = a
<1> DEFINE T == {m \in Nodes : \A b \in Above[m] : \E c \in Path(m) : parent[c] = b}
<1>1. ASSUME NEW m \in Nodes, parent[m] \in Nodes => parent[m] \in T
      PROVE  m \in T
  <2>1. CASE parent[m] \in Nodes
    <3>1. Above[m] = {parent[m]} \cup Above[parent[m]]
      BY <2>1, AboveEquation
    <3>2. \A b \in Above[parent[m]] : \E c \in Path(parent[m]) : parent[c] = b
      BY <1>1, <2>1
    <3>3. m \in Path(m) /\ Path(parent[m]) \subseteq Path(m)
      BY <3>1 DEF Path
    <3> QED
      BY <3>1, <3>2, <3>3
  <2>2. CASE parent[m] \notin Nodes
    BY <2>2, AboveEquation
  <2> QED
    BY <2>1, <2>2
<1> HIDE DEF T
<1>2. n \in T
  BY <1>1, TreeInduction
<1> QED
  BY <1>2 DEF T

\* It does not fork, and it ends in one root.
LEMMA OnePath ==
  ASSUME Tree, NEW n \in Nodes
  PROVE  /\ \A c, d \in Path(n) : parent[c] = parent[d] => c = d
         /\ \A c, d \in Path(n) : parent[c] \notin Nodes /\ parent[d] \notin Nodes => c = d
         /\ \E t \in Path(n) : parent[t] \notin Nodes
<1> DEFINE One(m) ==
             /\ \A c, d \in Path(m) : parent[c] = parent[d] => c = d
             /\ \A c, d \in Path(m) : parent[c] \notin Nodes /\ parent[d] \notin Nodes => c = d
             /\ \E t \in Path(m) : parent[t] \notin Nodes
           T == {m \in Nodes : One(m)}
<1>1. ASSUME NEW m \in Nodes, parent[m] \in Nodes => parent[m] \in T
      PROVE  One(m)
  <2>1. CASE parent[m] \in Nodes
    <3>1. Path(m) = {m} \cup Path(parent[m]) /\ One(parent[m])
      BY <1>1, <2>1, AboveEquation DEF Path
    <3>2. ASSUME NEW c \in Path(parent[m]) PROVE parent[c] # parent[m]
      <4>1. c \in Nodes /\ c <= parent[m]
        BY <2>1, AboveIsEarlier, NodeFacts DEF Path
      <4> QED
        BY <2>1, <4>1, NodeFacts
    <3> HIDE DEF Path
    <3> QED
      BY <2>1, <3>1, <3>2
  <2>2. CASE parent[m] \notin Nodes
    BY <2>2, AboveEquation DEF Path
  <2> QED
    BY <2>1, <2>2
<1>2. \A m \in Nodes : (parent[m] \in Nodes => parent[m] \in T) => m \in T
  <2> HIDE DEF One
  <2> QED
    BY <1>1
<1> HIDE DEF T
<1>3. n \in T
  BY <1>2, TreeInduction
<1> QED
  BY <1>3 DEF T

\* The root of a directory is the parent of the top of its path.
LEMMA RootOfTop ==
  ASSUME Tree, NEW n \in Nodes, NEW t \in Path(n), parent[t] \notin Nodes
  PROVE  RootOf(n) = parent[t]
<1>1. (CHOOSE a \in Above[n] \cup {n} : parent[a] \notin Nodes) = t
  BY OnePath DEF Path
<1> QED
  BY <1>1 DEF RootOf

\* A directory is one deeper than its parent.
LEMMA DepthEquation ==
  ASSUME Tree, NEW n \in Nodes
  PROVE  /\ Depth(n) \in Nat /\ Depth(n) >= 1
         /\ Depth(n) = IF parent[n] \in Nodes THEN Depth(parent[n]) + 1 ELSE 1
<1>1. \A m \in Nodes : IsFiniteSet(Above[m])
  <2>1. IsFiniteSet(Nodes)
    BY FS_Interval DEF Nodes
  <2> QED
    BY <2>1, FS_Subset, AboveIsEarlier
<1>2. \A m \in Nodes : Cardinality(Above[m]) \in Nat
  BY <1>1, FS_CardinalityType
<1>3. CASE parent[n] \in Nodes
  <2>0. parent[n] \in Nat /\ ~(parent[n] < parent[n])
    BY <1>3, NodeFacts
  <2>1. parent[n] \notin Above[parent[n]] /\ Above[n] = Above[parent[n]] \cup {parent[n]}
    BY <1>3, <2>0, AboveIsEarlier, AboveEquation
  <2>2. Cardinality(Above[n]) = Cardinality(Above[parent[n]]) + 1
    BY <1>1, <1>3, <2>1, FS_AddElement
  <2> QED
    BY <1>2, <1>3, <2>2 DEF Depth
<1>4. CASE parent[n] \notin Nodes
  <2>1. Cardinality(Above[n]) = 0
    BY <1>4, AboveEquation, FS_EmptySet
  <2> QED
    BY <1>4, <2>1 DEF Depth
<1> QED
  BY <1>3, <1>4

\* An ancestor is less deep.
LEMMA AboveIsLessDeep ==
  ASSUME Tree, NEW n \in Nodes, NEW a \in Above[n]
  PROVE  Depth(a) < Depth(n)
<1> DEFINE T == {m \in Nodes : \A b \in Above[m] : Depth(b) < Depth(m)}
<1>1. ASSUME NEW m \in Nodes, parent[m] \in Nodes => parent[m] \in T
      PROVE  m \in T
  <2> SUFFICES ASSUME NEW b \in Above[m] PROVE Depth(b) < Depth(m)
    BY <1>1
  <2>1. parent[m] \in Nodes /\ (b = parent[m] \/ b \in Above[parent[m]])
    BY AboveEquation
  <2>2. Depth(m) = Depth(parent[m]) + 1 /\ Depth(parent[m]) \in Nat
    BY <2>1, DepthEquation
  <2>3. b \in Nodes /\ Depth(b) \in Nat
    BY AboveIsEarlier, DepthEquation
  <2>4. b = parent[m] \/ Depth(b) < Depth(parent[m])
    BY <1>1, <2>1
  <2> QED
    BY <2>2, <2>3, <2>4
<1> HIDE DEF T
<1>2. n \in T
  BY <1>1, TreeInduction
<1> QED
  BY <1>2 DEF T

-----------------------------------------------------------------------------
(* Sequences of what was found *)

\* s has what the first m of the sequences g have, in their order.
Gathers(s, g, m) ==
  /\ \A k \in 1..m : \A j \in DOMAIN g[k] : \E i \in DOMAIN s : s[i] = g[k][j]
  /\ \A i \in DOMAIN s : \E k \in 1..m : \E j \in DOMAIN g[k] : s[i] = g[k][j]
  /\ \A i, h \in DOMAIN s :
       i < h => \E k, l \in 1..m : \E j \in DOMAIN g[k], q \in DOMAIN g[l] :
                  s[i] = g[k][j] /\ s[h] = g[l][q] /\ (k < l \/ (k = l /\ j < q))

\* Appending the next part gathers one part more.
LEMMA GatherOneMore ==
  ASSUME NEW X, NEW m \in Nat, NEW g, g[m + 1] \in Seq(X), NEW s \in Seq(X), Gathers(s, g, m)
  PROVE  s \o g[m + 1] \in Seq(X) /\ Gathers(s \o g[m + 1], g, m + 1)
<1> DEFINE t == g[m + 1]
           r == s \o t
           a == Len(s)
<1>1. /\ r \in Seq(X) /\ a \in Nat /\ Len(t) \in Nat /\ Len(r) = a + Len(t)
      /\ DOMAIN s = 1..a /\ DOMAIN t = 1..Len(t) /\ DOMAIN r = 1..(a + Len(t))
      /\ \A i \in 1..a : r[i] = s[i]
      /\ \A i \in (a + 1)..(a + Len(t)) : r[i] = t[i - a]
  OBVIOUS
<1>2. \A k \in 1..(m + 1) : k \in 1..m \/ k = m + 1
  OBVIOUS
<1>3. \A i \in DOMAIN r : i \in 1..a \/ (i \in (a + 1)..(a + Len(t)) /\ i - a \in DOMAIN t)
  BY <1>1
<1>4. \A j \in DOMAIN t : j + a \in DOMAIN r /\ r[j + a] = t[j]
  BY <1>1
<1> HIDE DEF r, t, a
<1>5. ASSUME NEW k \in 1..(m + 1), NEW j \in DOMAIN g[k]
      PROVE  \E i \in DOMAIN r : r[i] = g[k][j]
  <2>1. CASE k \in 1..m
    <3>1. PICK i \in DOMAIN s : s[i] = g[k][j]
      BY <2>1 DEF Gathers
    <3>2. i \in DOMAIN r /\ r[i] = s[i]
      BY <1>1
    <3> QED
      BY <3>1, <3>2
  <2>2. CASE k = m + 1
    BY <1>4, <2>2 DEF t
  <2> QED
    BY <1>2, <2>1, <2>2
<1>6. ASSUME NEW i \in DOMAIN r
      PROVE  \E k \in 1..(m + 1) : \E j \in DOMAIN g[k] : r[i] = g[k][j]
  <2>1. CASE i \in 1..a
    <3>1. PICK k \in 1..m : \E j \in DOMAIN g[k] : s[i] = g[k][j]
      BY <1>1, <2>1 DEF Gathers
    <3>2. k \in 1..(m + 1) /\ r[i] = s[i]
      BY <1>1, <2>1
    <3> QED
      BY <3>1, <3>2
  <2>2. CASE i \in (a + 1)..(a + Len(t)) /\ i - a \in DOMAIN t
    <3>1. m + 1 \in 1..(m + 1) /\ r[i] = t[i - a]
      BY <1>1, <2>2
    <3> QED
      BY <2>2, <3>1 DEF t
  <2> QED
    BY <1>3, <2>1, <2>2
<1>7. ASSUME NEW i \in DOMAIN r, NEW h \in DOMAIN r, i < h
      PROVE  \E k, l \in 1..(m + 1) : \E j \in DOMAIN g[k], q \in DOMAIN g[l] :
               r[i] = g[k][j] /\ r[h] = g[l][q] /\ (k < l \/ (k = l /\ j < q))
  <2>1. CASE h \in 1..a
    <3>1. i \in 1..a /\ r[i] = s[i] /\ r[h] = s[h]
      BY <1>1, <1>7, <2>1
    <3>2. PICK k, l \in 1..m : \E j \in DOMAIN g[k], q \in DOMAIN g[l] :
                 s[i] = g[k][j] /\ s[h] = g[l][q] /\ (k < l \/ (k = l /\ j < q))
      BY <1>1, <1>7, <2>1, <3>1 DEF Gathers
    <3>3. k \in 1..(m + 1) /\ l \in 1..(m + 1)
      OBVIOUS
    <3> QED
      BY <3>1, <3>2, <3>3
  <2>2. CASE i \in 1..a /\ h \in (a + 1)..(a + Len(t)) /\ h - a \in DOMAIN t
    <3>1. PICK k \in 1..m : \E j \in DOMAIN g[k] : s[i] = g[k][j]
      BY <1>1, <2>2 DEF Gathers
    <3>2. /\ k \in 1..(m + 1) /\ m + 1 \in 1..(m + 1) /\ k < m + 1
          /\ r[i] = s[i] /\ r[h] = g[m + 1][h - a] /\ h - a \in DOMAIN g[m + 1]
      BY <1>1, <2>2 DEF t
    <3> QED
      BY <3>1, <3>2
  <2>3. CASE i \notin 1..a /\ h \notin 1..a
    <3>1. /\ i - a \in DOMAIN g[m + 1] /\ h - a \in DOMAIN g[m + 1] /\ i - a < h - a
          /\ r[i] = g[m + 1][i - a] /\ r[h] = g[m + 1][h - a] /\ m + 1 \in 1..(m + 1)
      BY <1>1, <1>3, <1>7, <2>3 DEF t
    <3> QED
      BY <3>1
  <2>4. h \notin 1..a /\ i \in 1..a => h \in (a + 1)..(a + Len(t)) /\ h - a \in DOMAIN t
    BY <1>3
  <2> QED
    BY <2>1, <2>2, <2>3, <2>4
<1>8. Gathers(r, g, m + 1)
  BY <1>5, <1>6, <1>7 DEF Gathers
<1> QED
  BY <1>1, <1>8 DEF r, t

\* The folding of FlattenSeq, undone.
LEMMA FlattenGathers ==
  ASSUME NEW X, NEW n \in Nat, NEW g \in [1..n -> Seq(X)]
  PROVE  FlattenSeq(g) \in Seq(X) /\ Gathers(FlattenSeq(g), g, n)
<1>1. g \in Seq(Seq(X)) /\ Len(g) = n
  OBVIOUS
<1>2. CASE n = 0
  <2>1. FlattenSeq(g) = <<>>
    BY <1>1, <1>2 DEF FlattenSeq
  <2> QED
    BY <1>2, <2>1 DEF Gathers
<1>3. CASE n # 0
  <2> DEFINE Turn(f) == [i \in 1..n |-> IF i = 1 THEN g[i] ELSE f[i - 1] \o g[i]]
             step == [i \in Nat |-> [s \in Seq(X) |-> IF i \in 1..n THEN s \o g[i] ELSE s]]
             flatten == CHOOSE f : f = Turn(f)
  <2>1. step \in [Nat -> [Seq(X) -> Seq(X)]] /\ <<>> \in Seq(X)
    OBVIOUS
  <2>2. PICK h \in [0..n -> Seq(X)] : Repeats(h, <<>>, step, n)
    <3> HIDE DEF step
    <3>1. \A Y : \A b \in Y : \A st \in [Nat -> [Y -> Y]] :
            \E f \in [0..n -> Y] : Repeats(f, b, st, n)
      BY RecursionOnStep
    <3> QED
      BY <2>1, <3>1
  <2>3. \A i \in 1..n : h[i - 1] \in Seq(X) /\ h[i] = h[i - 1] \o g[i]
    <3> SUFFICES ASSUME NEW i \in 1..n PROVE h[i - 1] \in Seq(X) /\ h[i] = h[i - 1] \o g[i]
      OBVIOUS
    <3>1. i \in Nat /\ i - 1 \in 0..n /\ h[i - 1] \in Seq(X)
      BY <2>2
    <3>2. h[i] = step[i][h[i - 1]]
      <4> HIDE DEF step
      <4> QED
        BY <2>2 DEF Repeats
    <3> QED
      BY <3>1, <3>2
  <2> DEFINE f == [i \in 1..n |-> h[i]]
  <2>4. f = Turn(f)
    <3>1. \A i \in 1..n : f[i] = IF i = 1 THEN g[i] ELSE f[i - 1] \o g[i]
      <4> SUFFICES ASSUME NEW i \in 1..n
                   PROVE  f[i] = IF i = 1 THEN g[i] ELSE f[i - 1] \o g[i]
        OBVIOUS
      <4>1. CASE i = 1
        <5>1. h[0] = <<>> /\ g[1] \in Seq(X)
          BY <1>3, <2>2 DEF Repeats
        <5>2. h[1] = h[0] \o g[1]
          BY <2>3, <4>1
        <5>3. <<>> \o g[1] = g[1]
          BY <5>1
        <5> QED
          BY <4>1, <5>1, <5>2, <5>3
      <4>2. CASE i # 1
        <5>1. i - 1 \in 1..n
          BY <4>2
        <5> QED
          BY <2>3, <4>2, <5>1
      <4> QED
        BY <4>1, <4>2
    <3> HIDE DEF f
    <3>2. f = [i \in 1..n |-> f[i]]
      BY DEF f
    <3> QED
      BY <3>1, <3>2
  <2>5. flatten = Turn(flatten)
    <3> HIDE DEF f
    <3> QED
      BY <2>4
  <2>6. FlattenSeq(g) = flatten[n]
    BY <1>1, <1>3 DEF FlattenSeq
  <2> HIDE DEF flatten
  <2>7. \A i \in 1..n : flatten[i] = IF i = 1 THEN g[i] ELSE flatten[i - 1] \o g[i]
    BY <2>5
  <2> DEFINE S == {i \in Nat : i + 1 \in 1..n =>
                     flatten[i + 1] \in Seq(X) /\ Gathers(flatten[i + 1], g, i + 1)}
  <2>8. 0 \in S
    <3>1. flatten[1] = g[1] /\ g[1] \in Seq(X)
      BY <1>3, <2>7
    <3>2. Gathers(g[1], g, 1)
      BY DEF Gathers
    <3> QED
      BY <3>1, <3>2
  <2>9. \A i \in Nat : i \in S => i + 1 \in S
    <3> SUFFICES ASSUME NEW i \in Nat, i \in S, (i + 1) + 1 \in 1..n
                 PROVE  /\ flatten[(i + 1) + 1] \in Seq(X)
                        /\ Gathers(flatten[(i + 1) + 1], g, (i + 1) + 1)
      OBVIOUS
    <3> DEFINE m == i + 1
    <3>1. m \in Nat /\ m + 1 \in 1..n /\ m \in 1..n /\ m + 1 # 1 /\ (m + 1) - 1 = m
      OBVIOUS
    <3>2. flatten[m] \in Seq(X) /\ Gathers(flatten[m], g, m)
      BY <3>1
    <3> HIDE DEF m
    <3>3. flatten[m + 1] = flatten[m] \o g[m + 1] /\ g[m + 1] \in Seq(X)
      BY <2>7, <3>1
    <3>4. \A s \in Seq(X) :
            Gathers(s, g, m) => s \o g[m + 1] \in Seq(X) /\ Gathers(s \o g[m + 1], g, m + 1)
      BY <3>1, <3>3, GatherOneMore
    <3>5. flatten[m + 1] \in Seq(X) /\ Gathers(flatten[m + 1], g, m + 1)
      BY <3>2, <3>3, <3>4, Zenon
    <3> QED
      BY <3>5 DEF m
  <2> HIDE DEF S
  <2>10. \A i \in Nat : i \in S
    BY <2>8, <2>9, InductionOnSet
  <2>11. n - 1 \in S /\ (n - 1) + 1 = n /\ n \in 1..n
    BY <1>3, <2>10
  <2> QED
    BY <1>3, <2>6, <2>11 DEF S
<1> QED
  BY <1>2, <1>3

-----------------------------------------------------------------------------
(* What a walk may find *)

ChildrenOf(d) == {c \in Nodes : parent[c] = d}

\* s is a possible result of visits of the directories of C through a view: candidates
\* of G at or below them, judged, each before what it is below.
MayFind(s, C, view, G) ==
  /\ s \in Seq(Found)
  /\ \A i \in DOMAIN s :
       /\ s[i].view = view /\ s[i].verdict = Verdict(s[i].at)
       /\ s[i].at \in G /\ Path(s[i].at) \cap C # {}
  /\ \A i, h \in DOMAIN s : i < h => s[i].at \notin Above[s[h].at]

\* s has a candidate at one of the directories of T.
Has(s, T) == \E i \in DOMAIN s : s[i].at \in T

\* A verdict is one of the four.
LEMMA VerdictType ==
  ASSUME NEW n \in Nodes
  PROVE  Verdict(n) \in {"Skipped", "Allowlisted", "IocMatch", "Unknown"}
BY DEF Verdict

\* An emitted candidate is one, of the directory, the view and its verdict.
LEMMA EmitOne ==
  ASSUME NEW n \in Nodes, NEW view \in Views
  PROVE  /\ Emit(n, view) \in Seq(Found) /\ Len(Emit(n, view)) = 1
         /\ Emit(n, view)[1].at = n /\ Emit(n, view)[1].view = view
         /\ Emit(n, view)[1].verdict = Verdict(n)
<1> DEFINE e == [at |-> n, view |-> view, verdict |-> Verdict(n)]
<1>1. e \in Found
  BY VerdictType DEF Found
<1>2. e.at = n /\ e.view = view /\ e.verdict = Verdict(n)
  OBVIOUS
<1> HIDE DEF e
<1>3. Emit(n, view) = <<e>>
  BY DEF Emit, e
<1> QED
  BY <1>1, <1>2, <1>3

\* Emitting a directory finds that directory alone.
LEMMA EmitFinds ==
  ASSUME NEW n \in Nodes, NEW view \in Views, NEW G, n \in G
  PROVE  MayFind(Emit(n, view), {n}, view, G)
<1> DEFINE s == Emit(n, view)
<1>1. s \in Seq(Found) /\ Len(s) = 1 /\ s[1].at = n /\ s[1].view = view /\ s[1].verdict = Verdict(n)
  BY EmitOne
<1> HIDE DEF s
<1>2. DOMAIN s = {1}
  BY <1>1
<1>3. MayFind(s, {n}, view, G)
  BY <1>1, <1>2 DEF MayFind, Path
<1> QED
  BY <1>3 DEF s

\* The length and the elements of a concatenation, by position.
LEMMA ConcatFacts ==
  ASSUME NEW X, NEW s \in Seq(X), NEW t \in Seq(X)
  PROVE  /\ s \o t \in Seq(X) /\ Len(s) \in Nat /\ Len(t) \in Nat
         /\ DOMAIN s = 1..Len(s) /\ DOMAIN t = 1..Len(t)
         /\ DOMAIN (s \o t) = 1..(Len(s) + Len(t))
         /\ \A i \in 1..Len(s) : (s \o t)[i] = s[i]
         /\ \A i \in (Len(s) + 1)..(Len(s) + Len(t)) : (s \o t)[i] = t[i - Len(s)]
OBVIOUS

\* One more at the end.
LEMMA AppendOne ==
  ASSUME NEW X, NEW s \in Seq(X), NEW t \in Seq(X), Len(t) = 1
  PROVE  /\ s \o t \in Seq(X) /\ Len(s) \in Nat
         /\ DOMAIN s = 1..Len(s) /\ DOMAIN (s \o t) = 1..(Len(s) + 1)
         /\ \A i \in 1..Len(s) : (s \o t)[i] = s[i]
         /\ (s \o t)[Len(s) + 1] = t[1]
<1> DEFINE a == Len(s)
           r == s \o t
<1>1. /\ r \in Seq(X) /\ a \in Nat /\ DOMAIN s = 1..a /\ DOMAIN r = 1..(a + 1)
      /\ \A i \in 1..a : r[i] = s[i]
      /\ \A i \in (a + 1)..(a + 1) : r[i] = t[i - a]
  BY ConcatFacts
<1> HIDE DEF a, r
<1>2. a + 1 \in (a + 1)..(a + 1) /\ (a + 1) - a = 1
  BY <1>1
<1>3. r[a + 1] = t[1]
  BY <1>1, <1>2
<1> QED
  BY <1>1, <1>3 DEF a, r

\* The empty sequence finds nothing it should not.
LEMMA NothingFinds ==
  ASSUME NEW C, NEW view, NEW G
  PROVE  MayFind(<<>>, C, view, G)
BY DEF MayFind

\* The children of a directory or root, one after the other; C has those in which
\* anything is found.
LEMMA ChildrenFind ==
  ASSUME Tree, NEW d, NEW f, NEW view, NEW G \in SUBSET Nodes, NEW C \in SUBSET ChildrenOf(d),
         \A c \in C : MayFind(f[c], {c}, view, G),
         \A c \in ChildrenOf(d) \ C : f[c] = <<>>
  PROVE  MayFind(OverChildren(d, f), C, view, G)
<1> DEFINE g == [n \in Nodes |-> IF parent[n] = d THEN f[n] ELSE <<>>]
           s == OverChildren(d, f)
<1>1. s = FlattenSeq(g)
  BY DEF OverChildren
<1>2. g \in [1..N -> Seq(Found)]
  <2>1. \A n \in Nodes : g[n] \in Seq(Found)
    <3> SUFFICES ASSUME NEW n \in Nodes PROVE g[n] \in Seq(Found)
      OBVIOUS
    <3>1. CASE n \in C
      BY <3>1 DEF MayFind
    <3>2. CASE n \notin C
      <4>1. g[n] = <<>>
        BY <3>2 DEF ChildrenOf
      <4> HIDE DEF g
      <4> QED
        BY <4>1
    <3> QED
      BY <3>1, <3>2
  <2> QED
    BY <2>1 DEF Nodes
<1>3. \A n \in Nodes : n \in C \/ DOMAIN g[n] = {}
  BY DEF ChildrenOf
<1>4. \A c \in C : g[c] = f[c] /\ c \in Nodes /\ parent[c] = d
  BY DEF ChildrenOf
<1> HIDE DEF g, s
<1>5. s \in Seq(Found) /\ Gathers(s, g, N)
  BY <1>1, <1>2, FlattenGathers
<1>6. ASSUME NEW i \in DOMAIN s
      PROVE  /\ s[i].view = view /\ s[i].verdict = Verdict(s[i].at)
             /\ s[i].at \in G /\ Path(s[i].at) \cap C # {}
  <2>1. PICK k \in 1..N : \E j \in DOMAIN g[k] : s[i] = g[k][j]
    BY <1>5 DEF Gathers
  <2>2. k \in C
    BY <1>3, <2>1 DEF Nodes
  <2>3. PICK j \in DOMAIN f[k] : s[i] = f[k][j]
    BY <1>4, <2>1, <2>2
  <2> QED
    BY <2>2, <2>3 DEF MayFind
<1>7. ASSUME NEW i \in DOMAIN s, NEW h \in DOMAIN s, i < h, s[i].at \in Above[s[h].at]
      PROVE  FALSE
  <2>1. PICK k, l \in 1..N : \E j \in DOMAIN g[k], q \in DOMAIN g[l] :
               s[i] = g[k][j] /\ s[h] = g[l][q] /\ (k < l \/ (k = l /\ j < q))
    BY <1>5, <1>7 DEF Gathers
  <2>2. k \in C /\ l \in C
    BY <1>3, <2>1 DEF Nodes
  <2>3. PICK j \in DOMAIN f[k], q \in DOMAIN f[l] :
               s[i] = f[k][j] /\ s[h] = f[l][q] /\ (k < l \/ (k = l /\ j < q))
    BY <1>4, <2>1, <2>2
  <2>4. k \in Path(s[i].at) /\ l \in Path(s[h].at) /\ s[h].at \in Nodes
    BY <2>2, <2>3 DEF MayFind
  <2>5. k \in Path(s[h].at)
    BY <1>7, <2>4, AboveIsTransitive DEF Path
  <2>6. k = l
    BY <1>4, <2>2, <2>4, <2>5, OnePath
  <2>7. k \in Nat
    OBVIOUS
  <2> QED
    BY <1>7, <2>2, <2>3, <2>6, <2>7 DEF MayFind
<1>8. MayFind(s, C, view, G)
  BY <1>5, <1>6, <1>7 DEF MayFind
<1> QED
  BY <1>8 DEF s

\* What is found below the children of a directory is found below the directory.
LEMMA BelowChildren ==
  ASSUME Tree, NEW n \in Nodes, NEW s, NEW view, NEW G \in SUBSET Nodes,
         MayFind(s, ChildrenOf(n), view, G)
  PROVE  MayFind(s, {n}, view, G) /\ \A i \in DOMAIN s : n \in Above[s[i].at]
<1>1. ASSUME NEW i \in DOMAIN s PROVE n \in Above[s[i].at]
  <2>1. s[i].at \in Nodes /\ Path(s[i].at) \cap ChildrenOf(n) # {}
    BY DEF MayFind
  <2>2. PICK c \in Nodes : c \in Path(s[i].at) /\ parent[c] = n
    BY <2>1 DEF ChildrenOf
  <2>3. n \in Above[c]
    BY <2>2, AboveEquation
  <2> QED
    BY <2>1, <2>2, <2>3, AboveIsTransitive DEF Path
<1> QED
  BY <1>1 DEF MayFind, Path

\* Children as a whole, when each of them may find something.
LEMMA AllChildrenFind ==
  ASSUME Tree, NEW d, NEW f, NEW view, NEW G \in SUBSET Nodes,
         \A c \in ChildrenOf(d) : MayFind(f[c], {c}, view, G)
  PROVE  MayFind(OverChildren(d, f), ChildrenOf(d), view, G)
BY ChildrenFind

\* Results of visits of all directories.
Results == [Nodes -> Seq(Found)]

\* OverChildren gathers what was found in the children, and nothing of the others.
LEMMA ChildrenFlatten ==
  ASSUME NEW d, NEW f \in Results
  PROVE  LET g == [n \in Nodes |-> IF parent[n] = d THEN f[n] ELSE <<>>] IN
         /\ OverChildren(d, f) \in Seq(Found) /\ Gathers(OverChildren(d, f), g, N)
<1> DEFINE g == [n \in Nodes |-> IF parent[n] = d THEN f[n] ELSE <<>>]
<1>1. g \in [1..N -> Seq(Found)]
  BY DEF Results, Nodes
<1>2. OverChildren(d, f) = FlattenSeq(g)
  BY DEF OverChildren
<1> HIDE DEF g
<1>3. FlattenSeq(g) \in Seq(Found) /\ Gathers(FlattenSeq(g), g, N)
  BY <1>1, FlattenGathers
<1> QED
  BY <1>2, <1>3 DEF g

\* What is found in a child is found over the children.
LEMMA ChildrenHave ==
  ASSUME NEW d, NEW f \in Results, NEW c \in Nodes, parent[c] = d, NEW T, Has(f[c], T)
  PROVE  Has(OverChildren(d, f), T)
<1> DEFINE g == [n \in Nodes |-> IF parent[n] = d THEN f[n] ELSE <<>>]
           s == OverChildren(d, f)
<1>1. g[c] = f[c] /\ c \in 1..N
  BY DEF Nodes
<1> HIDE DEF s
<1>2. Gathers(s, g, N)
  BY ChildrenFlatten DEF s
<1> HIDE DEF g
<1>3. PICK j \in DOMAIN g[c] : g[c][j].at \in T
  BY <1>1 DEF Has
<1>4. PICK i \in DOMAIN s : s[i] = g[c][j]
  BY <1>1, <1>2 DEF Gathers
<1>5. Has(s, T)
  BY <1>3, <1>4 DEF Has
<1> QED
  BY <1>5 DEF s

-----------------------------------------------------------------------------
(* The host walk *)

HostReach == {m \in Nodes : Depth(m) <= ScanMaxDepth /\ \A a \in Above[m] : Readable(a)}

\* A visit of the host walk returns candidates.
LEMMA HostVisitType ==
  ASSUME Tree, NEW n \in Nodes, NEW depth, NEW deeper \in Results
  PROVE  HostVisit(n, depth, deeper) \in Seq(Found)
<1>1. Emit(n, "host") \in Seq(Found)
  BY EmitOne DEF Views
<1>2. OverChildren(n, deeper) \in Seq(Found)
  BY ChildrenFlatten
<1>3. \/ HostVisit(n, depth, deeper) = <<>>
      \/ HostVisit(n, depth, deeper) = Emit(n, "host")
      \/ HostVisit(n, depth, deeper) = OverChildren(n, deeper)
  BY DEF HostVisit, Blind
<1>4. <<>> \in Seq(Found)
  OBVIOUS
<1> QED
  BY <1>1, <1>2, <1>3, <1>4, Zenon

\* The recursion of walk_recursive, undone: there are visits, each made of the deeper
\* ones.
LEMMA HostVisits ==
  ASSUME Tree
  PROVE  \E visit \in [0..ScanMaxDepth -> Results] :
           /\ \A depth \in 0..ScanMaxDepth, n \in Nodes :
                visit[depth][n] = HostVisit(n, depth, visit[depth + 1])
           /\ WalkHost = IF ScanMaxDepth = 0 THEN <<>> ELSE OverChildren(Host, visit[1])
<1> DEFINE D == ScanMaxDepth
           Turn(v) == [depth \in 0..D |-> [n \in Nodes |-> HostVisit(n, depth, v[depth + 1])]]
           step == [depth \in 0..D |-> [h \in Results |-> [n \in Nodes |-> HostVisit(n, depth, h)]]]
           none == [n \in Nodes |-> <<>>]
           base == [n \in Nodes |-> HostVisit(n, D, none)]
           visit == CHOOSE v : v = Turn(v)
<1>1. D \in Nat
  BY DEF ScanAssumption
<1>2. \A n \in Nodes : \A x, y : HostVisit(n, D, x) = HostVisit(n, D, y)
  BY <1>1 DEF HostVisit
<1>3. none \in Results /\ base \in Results /\ step \in [0..D -> [Results -> Results]]
  <2>1. none \in Results
    BY DEF Results
  <2> HIDE DEF none
  <2>2. \A depth : \A h \in Results : [n \in Nodes |-> HostVisit(n, depth, h)] \in Results
    BY HostVisitType DEF Results
  <2> QED
    BY <2>1, <2>2
<1>4. PICK f \in [0..D -> Results] : RepeatsDown(f, base, step, D)
  <2> HIDE DEF D, step, base
  <2> QED
    BY <1>1, <1>3, RecursionDown
<1>5. f = Turn(f)
  <2>1. ASSUME NEW depth \in 0..D
        PROVE  f[depth] = [n \in Nodes |-> HostVisit(n, depth, f[depth + 1])]
    <3>1. CASE depth = D
      BY <1>2, <1>4, <3>1 DEF RepeatsDown
    <3>2. CASE depth # D
      <4>1. depth \in 0..(D - 1) /\ depth + 1 \in 0..D /\ f[depth + 1] \in Results
        BY <1>1, <3>2
      <4>2. f[depth] = step[depth][f[depth + 1]]
        <5> HIDE DEF step
        <5> QED
          BY <1>4, <4>1 DEF RepeatsDown
      <4> QED
        BY <4>1, <4>2
    <3> QED
      BY <3>1, <3>2
  <2> HIDE DEF D
  <2> QED
    BY <2>1
<1>6. visit = Turn(visit)
  BY <1>5
<1>7. WalkHost = IF D = 0 THEN <<>> ELSE OverChildren(Host, visit[1])
  BY DEF WalkHost
<1> HIDE DEF visit
<1>8. /\ visit = [depth \in 0..D |-> visit[depth]]
      /\ \A depth \in 0..D : visit[depth] = [n \in Nodes |-> HostVisit(n, depth, visit[depth + 1])]
  BY <1>6
<1>9. \A depth \in 0..D : visit[depth] \in Results
  <2> DEFINE S == {depth \in 0..D : visit[depth] \in Results}
  <2>1. D \in S
    <3>1. visit[D] = base
      BY <1>1, <1>2, <1>8
    <3> QED
      BY <1>1, <1>3, <3>1
  <2>2. \A depth \in 0..(D - 1) : depth + 1 \in S => depth \in S
    <3> SUFFICES ASSUME NEW depth \in 0..(D - 1), visit[depth + 1] \in Results
                 PROVE  visit[depth] \in Results /\ depth \in 0..D
      OBVIOUS
    <3>1. depth \in 0..D
      BY <1>1
    <3>2. \A n \in Nodes : HostVisit(n, depth, visit[depth + 1]) \in Seq(Found)
      BY HostVisitType
    <3>3. [n \in Nodes |-> HostVisit(n, depth, visit[depth + 1])] \in Results
      BY <3>2 DEF Results
    <3> QED
      BY <1>8, <3>1, <3>3
  <2> HIDE DEF S, D
  <2>3. \A depth \in 0..D : depth \in S
    BY <1>1, <2>1, <2>2, InductionDown
  <2> QED
    BY <2>3 DEF S
<1>10. \A depth \in 0..D, n \in Nodes : visit[depth][n] = HostVisit(n, depth, visit[depth + 1])
  BY <1>8
<1>11. visit \in [0..D -> Results]
  BY <1>8, <1>9
<1> QED
  BY <1>7, <1>10, <1>11

\* A visit of a directory the walk reaches finds what is within reach at or below it.
LEMMA HostVisitFinds ==
  ASSUME Tree, NEW n \in HostReach, NEW deeper,
         \A c \in ChildrenOf(n) \cap HostReach : MayFind(deeper[c], {c}, "host", HostReach)
  PROVE  MayFind(HostVisit(n, Depth(n), deeper), {n}, "host", HostReach)
<1> DEFINE depth == Depth(n)
           s == HostVisit(n, depth, deeper)
<1>1. n \in Nodes /\ HostReach \in SUBSET Nodes /\ "host" \in Views
  BY DEF HostReach, Views
<1>2. CASE s = <<>>
  BY <1>2, NothingFinds
<1>3. CASE s = Emit(n, "host")
  BY <1>1, <1>3, EmitFinds
<1>4. CASE s = OverChildren(n, deeper) /\ Readable(n) /\ ~(depth >= ScanMaxDepth)
  <2>1. ASSUME NEW c \in ChildrenOf(n) PROVE c \in HostReach
    <3>1. c \in Nodes /\ parent[c] = n
      BY DEF ChildrenOf
    <3>2. Depth(c) = Depth(n) + 1 /\ Depth(n) \in Nat
      BY <1>1, <3>1, DepthEquation
    <3>3. Depth(c) <= ScanMaxDepth
      BY <1>4, <3>2 DEF ScanAssumption
    <3>4. Above[c] = {n} \cup Above[n]
      BY <1>1, <3>1, AboveEquation
    <3> QED
      BY <1>4, <3>1, <3>3, <3>4 DEF HostReach
  <2>2. MayFind(OverChildren(n, deeper), ChildrenOf(n), "host", HostReach)
    BY <1>1, <2>1, AllChildrenFind
  <2> QED
    BY <1>1, <1>4, <2>2, BelowChildren
<1>5. \/ s = <<>> \/ s = Emit(n, "host")
      \/ s = OverChildren(n, deeper) /\ Readable(n) /\ ~(depth >= ScanMaxDepth)
  BY DEF HostVisit, Blind
<1> QED
  BY <1>2, <1>3, <1>4, <1>5

\* Children of the root are at depth 1 and have nothing above them.
LEMMA TopFacts ==
  ASSUME Tree, NEW root \in {Host, Tmp}, NEW c \in ChildrenOf(root)
  PROVE  c \in Nodes /\ Depth(c) = 1 /\ Above[c] = {}
<1>1. c \in Nodes /\ parent[c] \notin Nodes
  BY NodeFacts DEF ChildrenOf
<1>2. Depth(c) = 1
  BY <1>1, DepthEquation
<1>3. Above[c] = {}
  BY <1>1, AboveEquation
<1> QED
  BY <1>1, <1>2, <1>3

\* The host walk finds only what is at or below the entries of the scan root, in reach.
LEMMA WalkHostFinds ==
  ASSUME Tree
  PROVE  MayFind(WalkHost, ChildrenOf(Host), "host", HostReach)
<1> DEFINE D == ScanMaxDepth
<1>1. D \in Nat
  BY DEF ScanAssumption
<1>2. PICK visit \in [0..D -> Results] :
        /\ \A depth \in 0..D, n \in Nodes :
             visit[depth][n] = HostVisit(n, depth, visit[depth + 1])
        /\ WalkHost = IF D = 0 THEN <<>> ELSE OverChildren(Host, visit[1])
  BY HostVisits
<1> DEFINE S == {depth \in 0..D : \A n \in HostReach :
                   Depth(n) = depth => MayFind(visit[depth][n], {n}, "host", HostReach)}
<1>3. ASSUME NEW depth \in 0..D, depth = D \/ depth + 1 \in S
      PROVE  depth \in S
  <2> SUFFICES ASSUME NEW n \in HostReach, Depth(n) = depth
               PROVE  MayFind(visit[depth][n], {n}, "host", HostReach)
    OBVIOUS
  <2>1. n \in Nodes
    BY DEF HostReach
  <2>2. ASSUME NEW c \in ChildrenOf(n) \cap HostReach
        PROVE  MayFind(visit[depth + 1][c], {c}, "host", HostReach)
    <3>1. c \in Nodes /\ parent[c] = n /\ c \in HostReach /\ Depth(c) <= D
      BY DEF ChildrenOf, HostReach
    <3>2. Depth(c) = depth + 1
      BY <2>1, <3>1, DepthEquation
    <3>3. depth + 1 \in S
      <4>1. depth # D
        BY <1>1, <3>1, <3>2
      <4> HIDE DEF S
      <4> QED
        BY <1>3, <4>1
    <3> QED
      BY <3>1, <3>2, <3>3
  <2>3. visit[depth][n] = HostVisit(n, Depth(n), visit[depth + 1])
    BY <1>2, <2>1
  <2> QED
    BY <2>2, <2>3, HostVisitFinds
<1>4. \A depth \in 0..D : depth \in S
  <2> HIDE DEF S, D
  <2>1. D \in S /\ \A depth \in 0..(D - 1) : depth + 1 \in S => depth \in S
    <3>1. D \in 0..D /\ \A depth \in 0..(D - 1) : depth \in 0..D
      BY <1>1
    <3> QED
      BY <1>3, <3>1
  <2> QED
    BY <1>1, <2>1, InductionDown
<1>5. CASE D = 0
  BY <1>2, <1>5, NothingFinds
<1>6. CASE D # 0
  <2>1. ASSUME NEW c \in ChildrenOf(Host) PROVE MayFind(visit[1][c], {c}, "host", HostReach)
    <3>1. c \in Nodes /\ Depth(c) = 1 /\ Above[c] = {}
      BY TopFacts
    <3>2. 1 \in 0..D /\ 1 <= D
      BY <1>1, <1>6
    <3>3. c \in HostReach
      BY <3>1, <3>2 DEF HostReach
    <3> QED
      BY <1>4, <3>1, <3>2, <3>3
  <2>2. HostReach \in SUBSET Nodes
    BY DEF HostReach
  <2> HIDE DEF D
  <2> QED
    BY <1>2, <1>6, <2>1, <2>2, AllChildrenFind
<1> QED
  BY <1>5, <1>6

\* On the way to a recent dotdir within the depth, each visit finds something on that
\* way, if no name on it is raw.
LEMMA WalkHostReports ==
  ASSUME Tree, NEW n \in Nodes, n \in fresh, Dotdir(n), RootOf(n) = Host,
         Depth(n) <= ScanMaxDepth, \A a \in Above[n] : look[a] # "raw"
  PROVE  Has(WalkHost, Path(n))
<1> DEFINE D == ScanMaxDepth
<1>1. D \in Nat /\ Depth(n) \in Nat /\ Depth(n) >= 1
  BY DepthEquation DEF ScanAssumption
<1>2. PICK visit \in [0..D -> Results] :
        /\ \A depth \in 0..D, m \in Nodes :
             visit[depth][m] = HostVisit(m, depth, visit[depth + 1])
        /\ WalkHost = IF D = 0 THEN <<>> ELSE OverChildren(Host, visit[1])
  BY HostVisits
<1>3. \A m \in Path(n) : m \in Nodes /\ (m = n \/ (m \in Above[n] /\ Depth(m) < Depth(n)))
  BY AboveIsEarlier, AboveIsLessDeep DEF Path
<1>4. ASSUME NEW m \in Path(n) PROVE Has(Emit(m, "host"), Path(n))
  <2>1. Len(Emit(m, "host")) = 1 /\ Emit(m, "host")[1].at = m /\ Emit(m, "host") \in Seq(Found)
    BY <1>3, EmitOne DEF Views
  <2>2. 1 \in DOMAIN Emit(m, "host")
    BY <2>1
  <2> QED
    BY <2>1, <2>2 DEF Has
<1>5. n \in Path(n) /\ look[n] # "raw"
  BY DEF Path, Dotdir
<1> DEFINE S == {depth \in 0..Depth(n) : \A m \in Path(n) :
                   Depth(m) = depth => Has(visit[depth][m], Path(n))}
<1>6. Depth(n) \in S
  <2> SUFFICES ASSUME NEW m \in Path(n), Depth(m) = Depth(n)
               PROVE  Has(visit[Depth(n)][m], Path(n))
    BY <1>1
  <2>1. m = n
    BY <1>1, <1>3
  <2>2. visit[Depth(n)][n] = HostVisit(n, Depth(n), visit[Depth(n) + 1])
    BY <1>1, <1>2
  <2>3. HostVisit(n, Depth(n), visit[Depth(n) + 1]) = Emit(n, "host")
    BY <1>5 DEF HostVisit
  <2> QED
    BY <1>4, <2>1, <2>2, <2>3
<1>7. ASSUME NEW depth \in 0..(Depth(n) - 1), depth + 1 \in S
      PROVE  depth \in S
  <2> SUFFICES ASSUME NEW m \in Path(n), Depth(m) = depth
               PROVE  Has(visit[depth][m], Path(n))
    BY <1>1
  <2> DEFINE deeper == visit[depth + 1]
  <2>1. m \in Nodes /\ m \in Above[n] /\ look[m] # "raw" /\ ~(depth >= D) /\ depth \in 0..D
        /\ depth + 1 \in 0..D
    BY <1>1, <1>3
  <2>2. visit[depth][m] = HostVisit(m, depth, deeper)
    BY <1>2, <2>1
  <2>3. CASE HostVisit(m, depth, deeper) = Emit(m, "host")
    BY <1>4, <2>2, <2>3
  <2>4. CASE HostVisit(m, depth, deeper) = OverChildren(m, deeper)
    <3>1. PICK c \in Path(n) : parent[c] = m
      BY <2>1, ChildOnPath
    <3>2. c \in Nodes /\ Depth(c) = depth + 1
      BY <1>3, <2>1, <3>1, DepthEquation
    <3>3. Has(deeper[c], Path(n))
      BY <1>7, <3>2
    <3>4. deeper \in Results
      BY <2>1
    <3> HIDE DEF deeper
    <3>5. Has(OverChildren(m, deeper), Path(n))
      BY <3>1, <3>2, <3>3, <3>4, ChildrenHave
    <3> QED
      BY <2>2, <2>4, <3>5
  <2> QED
    BY <2>1, <2>3, <2>4 DEF HostVisit, Blind
<1>8. \A depth \in 0..Depth(n) : depth \in S
  <2> HIDE DEF S
  <2> QED
    BY <1>1, <1>6, <1>7, InductionDown
<1>9. PICK t \in Path(n) : parent[t] \notin Nodes
  BY OnePath
<1>10. t \in Nodes /\ parent[t] = Host /\ Depth(t) = 1
  BY <1>3, <1>9, RootOfTop, DepthEquation
<1>11. Has(visit[1][t], Path(n))
  BY <1>1, <1>8, <1>10
<1>12. visit[1] \in Results /\ D # 0
  BY <1>1
<1>13. Has(OverChildren(Host, visit[1]), Path(n))
  BY <1>10, <1>11, <1>12, ChildrenHave
<1> QED
  BY <1>2, <1>12, <1>13

-----------------------------------------------------------------------------
(* The overlay walk *)

OverlayReach == {m \in Nodes : Depth(m) <= OverlayMaxDepth /\ \A a \in Path(m) : Readable(a)}

\* A visit of the overlay walk returns candidates.
LEMMA OverlayVisitType ==
  ASSUME Tree, NEW n \in Nodes, NEW depth, NEW view \in Views, NEW deeper \in Results
  PROVE  OverlayVisit(n, depth, view, deeper) \in Seq(Found)
<1>1. Emit(n, view) \in Seq(Found) /\ <<>> \in Seq(Found)
  BY EmitOne
<1>2. OverChildren(n, deeper) \in Seq(Found)
  BY ChildrenFlatten
<1>3. \A s, t \in Seq(Found) : s \o t \in Seq(Found)
  OBVIOUS
<1>4. \/ OverlayVisit(n, depth, view, deeper) = <<>>
      \/ OverlayVisit(n, depth, view, deeper) = OverChildren(n, deeper) \o Emit(n, view)
      \/ OverlayVisit(n, depth, view, deeper) = <<>> \o Emit(n, view)
  BY DEF OverlayVisit, WithChildren
<1> QED
  BY <1>1, <1>2, <1>3, <1>4, Zenon

\* The depth left below an entry of tmp/ is a natural.
LEMMA LocalDepthType ==
  ASSUME OverlayMaxDepth # 0
  PROVE  LocalDepth \in Nat /\ LocalDepth + 1 = OverlayMaxDepth
BY DEF LocalDepth, ScanAssumption

\* The recursion of walk_overlay_recursive, undone.
LEMMA OverlayVisits ==
  ASSUME Tree, OverlayMaxDepth # 0, NEW view \in Views
  PROVE  \E visit \in [0..LocalDepth -> Results] :
           /\ \A depth \in 0..LocalDepth, n \in Nodes :
                visit[depth][n] = OverlayVisit(n, depth, view, visit[depth + 1])
           /\ WalkOverlay(view) =
                OverChildren(Tmp, [n \in Nodes |-> IF Top(n) THEN visit[0][n] ELSE <<>>])
<1> DEFINE D == LocalDepth
           Turn(v) == [depth \in 0..D |->
                         [n \in Nodes |-> OverlayVisit(n, depth, view, v[depth + 1])]]
           step == [depth \in 0..D |->
                      [h \in Results |-> [n \in Nodes |-> OverlayVisit(n, depth, view, h)]]]
           none == [n \in Nodes |-> <<>>]
           base == [n \in Nodes |-> OverlayVisit(n, D, view, none)]
           visit == CHOOSE v : v = Turn(v)
<1>1. D \in Nat
  BY LocalDepthType
<1>2. \A n \in Nodes : \A x, y : OverlayVisit(n, D, view, x) = OverlayVisit(n, D, view, y)
  <2>1. ~(D < D)
    BY <1>1
  <2> QED
    BY <2>1 DEF OverlayVisit
<1>3. none \in Results /\ base \in Results /\ step \in [0..D -> [Results -> Results]]
  <2>1. none \in Results
    BY DEF Results
  <2> HIDE DEF none
  <2>2. \A depth : \A h \in Results : [n \in Nodes |-> OverlayVisit(n, depth, view, h)] \in Results
    BY OverlayVisitType DEF Results
  <2> QED
    BY <2>1, <2>2
<1>4. PICK f \in [0..D -> Results] : RepeatsDown(f, base, step, D)
  <2> HIDE DEF D, step, base
  <2> QED
    BY <1>1, <1>3, RecursionDown
<1>5. f = Turn(f)
  <2>1. ASSUME NEW depth \in 0..D
        PROVE  f[depth] = [n \in Nodes |-> OverlayVisit(n, depth, view, f[depth + 1])]
    <3>1. CASE depth = D
      BY <1>2, <1>4, <3>1 DEF RepeatsDown
    <3>2. CASE depth # D
      <4>1. depth \in 0..(D - 1) /\ depth + 1 \in 0..D /\ f[depth + 1] \in Results
        BY <1>1, <3>2
      <4>2. f[depth] = step[depth][f[depth + 1]]
        <5> HIDE DEF step
        <5> QED
          BY <1>4, <4>1 DEF RepeatsDown
      <4> QED
        BY <4>1, <4>2
    <3> QED
      BY <3>1, <3>2
  <2> HIDE DEF D
  <2> QED
    BY <2>1
<1>6. visit = Turn(visit)
  BY <1>5
<1>7. WalkOverlay(view) =
        OverChildren(Tmp, [n \in Nodes |-> IF Top(n) THEN visit[0][n] ELSE <<>>])
  BY DEF WalkOverlay
<1> HIDE DEF visit
<1>8. /\ visit = [depth \in 0..D |-> visit[depth]]
      /\ \A depth \in 0..D :
           visit[depth] = [n \in Nodes |-> OverlayVisit(n, depth, view, visit[depth + 1])]
  BY <1>6
<1>9. \A depth \in 0..D : visit[depth] \in Results
  <2> DEFINE S == {depth \in 0..D : visit[depth] \in Results}
  <2>1. D \in S
    <3>1. visit[D] = base
      BY <1>1, <1>2, <1>8
    <3> QED
      BY <1>1, <1>3, <3>1
  <2>2. \A depth \in 0..(D - 1) : depth + 1 \in S => depth \in S
    <3> SUFFICES ASSUME NEW depth \in 0..(D - 1), visit[depth + 1] \in Results
                 PROVE  visit[depth] \in Results /\ depth \in 0..D
      OBVIOUS
    <3>1. depth \in 0..D
      BY <1>1
    <3>2. \A n \in Nodes : OverlayVisit(n, depth, view, visit[depth + 1]) \in Seq(Found)
      BY OverlayVisitType
    <3>3. [n \in Nodes |-> OverlayVisit(n, depth, view, visit[depth + 1])] \in Results
      BY <3>2 DEF Results
    <3> QED
      BY <1>8, <3>1, <3>3
  <2> HIDE DEF S, D
  <2>3. \A depth \in 0..D : depth \in S
    BY <1>1, <2>1, <2>2, InductionDown
  <2> QED
    BY <2>3 DEF S
<1>10. \A depth \in 0..D, n \in Nodes :
         visit[depth][n] = OverlayVisit(n, depth, view, visit[depth + 1])
  BY <1>8
<1>11. visit \in [0..D -> Results]
  BY <1>8, <1>9
<1> QED
  BY <1>7, <1>10, <1>11

\* What is below a directory, then the directory.
LEMMA ThenTheDirectory ==
  ASSUME Tree, NEW n \in Nodes, NEW view \in Views, NEW G \in SUBSET Nodes, n \in G,
         NEW s, MayFind(s, {n}, view, G), \A i \in DOMAIN s : n \in Above[s[i].at]
  PROVE  MayFind(s \o Emit(n, view), {n}, view, G)
<1> DEFINE t == Emit(n, view)
           r == s \o t
           a == Len(s)
<1>1. s \in Seq(Found) /\ t \in Seq(Found) /\ Len(t) = 1 /\ t[1].at = n /\ MayFind(t, {n}, view, G)
  <2>1. s \in Seq(Found)
    BY DEF MayFind
  <2> QED
    BY <2>1, EmitOne, EmitFinds
<1>2. /\ r \in Seq(Found) /\ a \in Nat /\ DOMAIN s = 1..a /\ DOMAIN r = 1..(a + 1)
      /\ \A i \in 1..a : r[i] = s[i]
      /\ r[a + 1] = t[1]
  <2> HIDE DEF t
  <2> QED
    BY <1>1, AppendOne
<1> HIDE DEF t, r, a
<1>3. 1 \in DOMAIN t
  BY <1>1
<1>4. ASSUME NEW i \in DOMAIN r
      PROVE  /\ r[i].view = view /\ r[i].verdict = Verdict(r[i].at)
             /\ r[i].at \in G /\ Path(r[i].at) \cap {n} # {}
  <2>1. CASE i \in 1..a
    BY <1>2, <2>1 DEF MayFind
  <2>2. CASE i = a + 1
    BY <1>1, <1>2, <1>3, <2>2 DEF MayFind
  <2> QED
    BY <1>2, <2>1, <2>2
<1>5. ASSUME NEW i \in DOMAIN r, NEW h \in DOMAIN r, i < h PROVE r[i].at \notin Above[r[h].at]
  <2>1. CASE h \in 1..a
    <3>1. i \in 1..a
      BY <1>2, <1>5, <2>1
    <3> QED
      BY <1>2, <1>5, <2>1, <3>1 DEF MayFind
  <2>2. CASE h = a + 1
    <3>1. i \in 1..a /\ r[h].at = n
      BY <1>1, <1>2, <1>5, <2>2
    <3>2. n \in Above[s[i].at] /\ s[i].at \in Nodes /\ r[i] = s[i]
      BY <1>2, <3>1 DEF MayFind
    <3>3. n < s[i].at /\ n \in Nat /\ s[i].at \in Nat
      BY <3>2, AboveIsEarlier, NodeFacts
    <3>4. ~(s[i].at < n)
      BY <3>3
    <3> QED
      BY <3>1, <3>2, <3>4, AboveIsEarlier
  <2> QED
    BY <1>2, <2>1, <2>2
<1>6. MayFind(r, {n}, view, G)
  BY <1>2, <1>4, <1>5 DEF MayFind
<1> QED
  BY <1>6 DEF r, t

\* A visit of the overlay walk finds what is at or below its directory, in reach.
LEMMA OverlayVisitFinds ==
  ASSUME Tree, OverlayMaxDepth # 0, NEW view \in Views, NEW n \in Nodes, NEW depth,
         depth + 1 = Depth(n), depth \in Nat,
         Depth(n) <= OverlayMaxDepth, \A a \in Above[n] : Readable(a), NEW deeper,
         \A c \in ChildrenOf(n) :
           Depth(c) <= OverlayMaxDepth /\ (\A a \in Above[c] : Readable(a))
             => MayFind(deeper[c], {c}, view, OverlayReach)
  PROVE  MayFind(OverlayVisit(n, depth, view, deeper), {n}, view, OverlayReach)
<1>1. CASE ~Readable(n)
  BY <1>1, NothingFinds DEF OverlayVisit
<1>2. CASE Readable(n)
  <2>1. n \in OverlayReach /\ OverlayReach \in SUBSET Nodes
    BY <1>2 DEF OverlayReach, Path
  <2>2. CASE depth < LocalDepth
    <3>1. ASSUME NEW c \in ChildrenOf(n) PROVE MayFind(deeper[c], {c}, view, OverlayReach)
      <4>1. c \in Nodes /\ parent[c] = n
        BY DEF ChildrenOf
      <4>2. Depth(c) = Depth(n) + 1 /\ Above[c] = {n} \cup Above[n]
        BY <4>1, DepthEquation, AboveEquation
      <4>3. Depth(c) <= OverlayMaxDepth
        BY <2>2, <4>2, LocalDepthType
      <4> QED
        BY <1>2, <4>2, <4>3
    <3>2. MayFind(OverChildren(n, deeper), ChildrenOf(n), view, OverlayReach)
      BY <2>1, <3>1, AllChildrenFind
    <3>3. /\ MayFind(OverChildren(n, deeper), {n}, view, OverlayReach)
          /\ \A i \in DOMAIN OverChildren(n, deeper) : n \in Above[OverChildren(n, deeper)[i].at]
      BY <2>1, <3>2, BelowChildren
    <3>4. MayFind(OverChildren(n, deeper) \o Emit(n, view), {n}, view, OverlayReach)
      BY <2>1, <3>3, ThenTheDirectory
    <3> QED
      BY <1>2, <2>2, <3>4 DEF OverlayVisit, WithChildren
  <2>3. CASE ~(depth < LocalDepth)
    <3>1. MayFind(<<>>, {n}, view, OverlayReach) /\ \A i \in DOMAIN <<>> : n \in Above[<<>>[i].at]
      BY NothingFinds
    <3>2. MayFind(<<>> \o Emit(n, view), {n}, view, OverlayReach)
      BY <2>1, <3>1, ThenTheDirectory
    <3> QED
      BY <1>2, <2>3, <3>2 DEF OverlayVisit, WithChildren
  <2> QED
    BY <2>2, <2>3
<1> QED
  BY <1>1, <1>2

LayerTops == {c \in ChildrenOf(Tmp) : Top(c)}

\* The overlay walk finds only what is at or below the entries of tmp/ it takes.
LEMMA WalkOverlayFinds ==
  ASSUME Tree, NEW view \in Views
  PROVE  MayFind(WalkOverlay(view), LayerTops, view, OverlayReach)
<1>1. CASE OverlayMaxDepth = 0
  BY <1>1, NothingFinds DEF WalkOverlay
<1>2. CASE OverlayMaxDepth # 0
  <2> DEFINE D == LocalDepth
  <2>1. D \in Nat /\ D + 1 = OverlayMaxDepth
    BY <1>2, LocalDepthType
  <2>2. PICK visit \in [0..D -> Results] :
          /\ \A depth \in 0..D, n \in Nodes :
               visit[depth][n] = OverlayVisit(n, depth, view, visit[depth + 1])
          /\ WalkOverlay(view) =
               OverChildren(Tmp, [n \in Nodes |-> IF Top(n) THEN visit[0][n] ELSE <<>>])
    BY <1>2, OverlayVisits
  <2> HIDE DEF D
  <2> DEFINE Reached(n) == Depth(n) <= OverlayMaxDepth /\ \A a \in Above[n] : Readable(a)
             S == {depth \in 0..D : \A n \in Nodes :
                     Depth(n) = depth + 1 /\ Reached(n)
                       => MayFind(visit[depth][n], {n}, view, OverlayReach)}
  <2>3. ASSUME NEW depth \in 0..D, depth = D \/ depth + 1 \in S
        PROVE  depth \in S
    <3> SUFFICES ASSUME NEW n \in Nodes, Depth(n) = depth + 1, Reached(n)
                 PROVE  MayFind(visit[depth][n], {n}, view, OverlayReach)
      OBVIOUS
    <3>1. ASSUME NEW c \in ChildrenOf(n), Reached(c)
          PROVE  MayFind(visit[depth + 1][c], {c}, view, OverlayReach)
      <4>1. c \in Nodes /\ parent[c] = n
        BY DEF ChildrenOf
      <4>2. Depth(c) = (depth + 1) + 1
        BY <4>1, DepthEquation
      <4>3. depth + 1 \in S
        <5>1. depth # D
          BY <2>1, <3>1, <4>2
        <5> HIDE DEF S
        <5> QED
          BY <2>3, <5>1
      <4> QED
        BY <3>1, <4>1, <4>2, <4>3
    <3>2. visit[depth][n] = OverlayVisit(n, depth, view, visit[depth + 1])
      BY <2>2
    <3>3. depth \in Nat
      OBVIOUS
    <3> QED
      BY <1>2, <3>1, <3>2, <3>3, OverlayVisitFinds
  <2>4. \A depth \in 0..D : depth \in S
    <3> HIDE DEF S
    <3>1. D \in S /\ \A depth \in 0..(D - 1) : depth + 1 \in S => depth \in S
      <4>1. D \in 0..D /\ \A depth \in 0..(D - 1) : depth \in 0..D
        BY <2>1
      <4> QED
        BY <2>3, <4>1
    <3> QED
      BY <2>1, <3>1, InductionDown
  <2> DEFINE f == [n \in Nodes |-> IF Top(n) THEN visit[0][n] ELSE <<>>]
  <2>5. ASSUME NEW c \in LayerTops PROVE MayFind(f[c], {c}, view, OverlayReach)
    <3>1. c \in ChildrenOf(Tmp) /\ Top(c)
      BY DEF LayerTops
    <3>2. c \in Nodes /\ Depth(c) = 1 /\ Above[c] = {}
      BY <3>1, TopFacts
    <3>3. Reached(c) /\ 0 \in 0..D /\ Depth(c) = 0 + 1
      BY <1>2, <2>1, <3>2
    <3>4. 0 \in S
      BY <2>4, <3>3
    <3>5. MayFind(visit[0][c], {c}, view, OverlayReach)
      <4> HIDE DEF Reached
      <4> QED
        BY <3>2, <3>3, <3>4
    <3> QED
      BY <3>1, <3>2, <3>5
  <2>6. \A c \in ChildrenOf(Tmp) \ LayerTops : f[c] = <<>>
    BY DEF LayerTops, ChildrenOf
  <2>7. LayerTops \in SUBSET ChildrenOf(Tmp) /\ OverlayReach \in SUBSET Nodes
    BY DEF LayerTops, OverlayReach
  <2> HIDE DEF f
  <2>8. MayFind(OverChildren(Tmp, f), LayerTops, view, OverlayReach)
    BY <2>5, <2>6, <2>7, ChildrenFind
  <2> QED
    BY <2>2, <2>8 DEF f
<1> QED
  BY <1>1, <1>2

\* On the way to a directory within the depth, with nothing on it unreadable, each visit
\* finds the directory.
LEMMA WalkOverlayReports ==
  ASSUME Tree, NEW view \in Views, NEW n \in OverlayReach, NEW t \in Path(n),
         parent[t] = Tmp, Top(t)
  PROVE  Has(WalkOverlay(view), {n})
<1>1. n \in Nodes /\ Depth(n) \in Nat /\ Depth(n) >= 1 /\ Depth(n) <= OverlayMaxDepth
      /\ OverlayMaxDepth # 0
  <2>1. n \in Nodes /\ Depth(n) <= OverlayMaxDepth
    BY DEF OverlayReach
  <2> QED
    BY <2>1, DepthEquation DEF ScanAssumption
<1> DEFINE D == LocalDepth
<1>2. D \in Nat /\ D + 1 = OverlayMaxDepth
  BY <1>1, LocalDepthType
<1>3. PICK visit \in [0..D -> Results] :
        /\ \A depth \in 0..D, m \in Nodes :
             visit[depth][m] = OverlayVisit(m, depth, view, visit[depth + 1])
        /\ WalkOverlay(view) =
             OverChildren(Tmp, [m \in Nodes |-> IF Top(m) THEN visit[0][m] ELSE <<>>])
  BY <1>1, OverlayVisits
<1>4. \A m \in Path(n) : m \in Nodes /\ Readable(m)
                         /\ (m = n \/ (m \in Above[n] /\ Depth(m) < Depth(n)))
  BY <1>1, AboveIsEarlier, AboveIsLessDeep DEF Path, OverlayReach
<1> DEFINE last == Depth(n) - 1
           S == {depth \in 0..last : \A m \in Path(n) :
                   Depth(m) = depth + 1 => Has(visit[depth][m], {n})}
<1>5. last \in Nat /\ last <= D /\ last + 1 = Depth(n)
  BY <1>1, <1>2
<1>6. ASSUME NEW s \in Seq(Found) PROVE Has(s \o Emit(n, view), {n})
  <2>1. Len(Emit(n, view)) = 1 /\ Emit(n, view)[1].at = n /\ Emit(n, view) \in Seq(Found)
    BY <1>1, EmitOne
  <2>2. Len(s) + 1 \in DOMAIN (s \o Emit(n, view))
        /\ (s \o Emit(n, view))[Len(s) + 1] = Emit(n, view)[1]
    BY <2>1, AppendOne
  <2> QED
    BY <2>1, <2>2 DEF Has
<1>7. ASSUME NEW s \in Seq(Found), Has(s, {n}), NEW m \in Nodes PROVE Has(s \o Emit(m, view), {n})
  <2>1. Emit(m, view) \in Seq(Found) /\ Len(Emit(m, view)) = 1
    BY EmitOne
  <2>2. \A i \in DOMAIN s : i \in DOMAIN (s \o Emit(m, view)) /\ (s \o Emit(m, view))[i] = s[i]
    BY <2>1, AppendOne
  <2> QED
    BY <1>7, <2>2 DEF Has
<1> HIDE DEF last
<1>8. last \in S
  <2>0. last \in 0..last
    BY <1>5
  <2> SUFFICES ASSUME NEW m \in Path(n), Depth(m) = last + 1
               PROVE  Has(visit[last][m], {n})
    BY <2>0
  <2>1. m = n
    BY <1>1, <1>4, <1>5
  <2> DEFINE c == IF last < LocalDepth THEN OverChildren(n, visit[last + 1]) ELSE <<>>
  <2>2. visit[last][n] = WithChildren(n, view, c)
    <3>1. visit[last][n] = OverlayVisit(n, last, view, visit[last + 1])
      BY <1>1, <1>3, <1>5
    <3> QED
      BY <1>4, <2>1, <3>1 DEF OverlayVisit
  <2>3. c \in Seq(Found)
    <3>1. CASE last < LocalDepth
      <4>1. visit[last + 1] \in Results
        BY <1>2, <1>5, <3>1
      <4> QED
        BY <3>1, <4>1, ChildrenFlatten
    <3> QED
      BY <3>1
  <2> HIDE DEF c
  <2> QED
    BY <1>6, <2>1, <2>2, <2>3 DEF WithChildren
<1>9. ASSUME NEW depth \in 0..(last - 1), depth + 1 \in S
      PROVE  depth \in S
  <2> SUFFICES ASSUME NEW m \in Path(n), Depth(m) = depth + 1
               PROVE  Has(visit[depth][m], {n})
    <3>1. depth \in 0..last
      BY <1>5
    <3> QED
      BY <3>1
  <2> DEFINE deeper == visit[depth + 1]
  <2>1. /\ depth \in Nat /\ depth + 1 \in 0..last /\ depth + 1 \in 0..D /\ depth \in 0..D
        /\ depth < D /\ (depth + 1) + 1 \in Nat
    BY <1>2, <1>5
  <2>2. m \in Nodes /\ m \in Above[n] /\ Readable(m)
    BY <1>4, <1>5, <2>1
  <2>3. visit[depth][m] = OverChildren(m, deeper) \o Emit(m, view)
    <3>1. visit[depth][m] = OverlayVisit(m, depth, view, deeper)
      BY <1>3, <2>1, <2>2
    <3> QED
      BY <2>1, <2>2, <3>1 DEF OverlayVisit, WithChildren
  <2>4. PICK c \in Path(n) : parent[c] = m
    BY <1>1, <2>2, ChildOnPath
  <2>5. c \in Nodes /\ Depth(c) = (depth + 1) + 1
    BY <1>4, <2>2, <2>4, DepthEquation
  <2>6. Has(deeper[c], {n})
    BY <1>9, <2>4, <2>5
  <2>7. deeper \in Results
    BY <2>1
  <2> HIDE DEF deeper
  <2>8. Has(OverChildren(m, deeper), {n}) /\ OverChildren(m, deeper) \in Seq(Found)
    BY <2>4, <2>5, <2>6, <2>7, ChildrenHave, ChildrenFlatten
  <2> QED
    BY <1>7, <2>2, <2>3, <2>8
<1>10. \A depth \in 0..last : depth \in S
  <2> HIDE DEF S, last
  <2> QED
    BY <1>5, <1>8, <1>9, InductionDown
<1> DEFINE f == [m \in Nodes |-> IF Top(m) THEN visit[0][m] ELSE <<>>]
<1>11. t \in Nodes /\ Depth(t) = 1
  <2>1. t \in Nodes /\ parent[t] \notin Nodes
    BY <1>4, NodeFacts
  <2> QED
    BY <2>1, DepthEquation
<1>12. 0 \in 0..last /\ 0 \in 0..D /\ Depth(t) = 0 + 1
  BY <1>2, <1>5, <1>11
<1>13. Has(visit[0][t], {n})
  BY <1>10, <1>12
<1>14. f \in Results /\ f[t] = visit[0][t]
  <2>1. visit[0] \in Results
    BY <1>12
  <2> QED
    BY <1>11, <2>1 DEF Results
<1> HIDE DEF f
<1>15. Has(OverChildren(Tmp, f), {n})
  BY <1>11, <1>13, <1>14, ChildrenHave
<1> QED
  BY <1>3, <1>15 DEF f

-----------------------------------------------------------------------------
(* All walks of a poll *)

\* Each element of a concatenation comes from one side, in its order.
LEMMA InConcat ==
  ASSUME NEW X, NEW s \in Seq(X), NEW t \in Seq(X)
  PROVE  /\ s \o t \in Seq(X) /\ Len(s) \in Nat
         /\ \A i \in DOMAIN s : i \in DOMAIN (s \o t) /\ (s \o t)[i] = s[i] /\ i <= Len(s)
         /\ \A i \in DOMAIN t : Len(s) + i \in DOMAIN (s \o t) /\ (s \o t)[Len(s) + i] = t[i]
         /\ \A i \in DOMAIN (s \o t) :
              \/ i \in DOMAIN s /\ (s \o t)[i] = s[i] /\ i <= Len(s)
              \/ i > Len(s) /\ i - Len(s) \in DOMAIN t /\ (s \o t)[i] = t[i - Len(s)]
         /\ DOMAIN (s \o t) \subseteq Nat
<1> DEFINE r == s \o t
           a == Len(s)
           b == Len(t)
<1>1. /\ r \in Seq(X) /\ a \in Nat /\ b \in Nat
      /\ DOMAIN s = 1..a /\ DOMAIN t = 1..b /\ DOMAIN r = 1..(a + b)
      /\ \A i \in 1..a : r[i] = s[i]
      /\ \A i \in (a + 1)..(a + b) : r[i] = t[i - a]
  BY ConcatFacts
<1> HIDE DEF r, a, b
<1>2. \A i \in 1..b : a + i \in (a + 1)..(a + b) /\ a + i \in 1..(a + b) /\ (a + i) - a = i
  BY <1>1
<1>3. \A i \in 1..a : i \in 1..(a + b) /\ i <= a
  BY <1>1
<1>4. \A i \in 1..(a + b) : i \in 1..a \/ (i > a /\ i \in (a + 1)..(a + b) /\ i - a \in 1..b)
  BY <1>1
<1>5. \A i \in DOMAIN t : a + i \in DOMAIN r /\ r[a + i] = t[i]
  BY <1>1, <1>2
<1>6. \A i \in DOMAIN s : i \in DOMAIN r /\ r[i] = s[i] /\ i <= a
  BY <1>1, <1>3
<1>7. \A i \in DOMAIN r : \/ i \in DOMAIN s /\ r[i] = s[i] /\ i <= a
                          \/ i > a /\ i - a \in DOMAIN t /\ r[i] = t[i - a]
  BY <1>1, <1>4, <1>6
<1>8. DOMAIN r \subseteq Nat
  BY <1>1
<1> QED
  BY <1>1, <1>5, <1>6, <1>7, <1>8 DEF r, a

\* What is found of a match after a directory above it was found too before.
DeepFirst(s) ==
  \A i, j \in DOMAIN s :
    j < i /\ s[i].verdict = "IocMatch" /\ s[j].at \in Above[s[i].at]
      => \E k \in DOMAIN s : k < i /\ s[k].at = s[i].at /\ s[k].verdict = "IocMatch"

\* merged/ shows nothing that diff/ did not.
LEMMA MergedInDiff ==
  ASSUME Tree, NEW i \in DOMAIN WalkOverlay("merged")
  PROVE  Has(WalkOverlay("diff"), {WalkOverlay("merged")[i].at})
<1> DEFINE n == WalkOverlay("merged")[i].at
<1>1. n \in OverlayReach /\ Path(n) \cap LayerTops # {}
  BY WalkOverlayFinds DEF MayFind, Views
<1> HIDE DEF n
<1>2. PICK t \in Path(n) : parent[t] = Tmp /\ Top(t)
  BY <1>1 DEF LayerTops, ChildrenOf
<1>3. Has(WalkOverlay("diff"), {n})
  BY <1>1, <1>2, WalkOverlayReports DEF Views
<1> QED
  BY <1>3 DEF n

\* What both views of the layer find, and that it is found depth first.
LEMMA OverlaysFind ==
  ASSUME Tree
  PROVE  /\ WalkAllOverlays \in Seq(Found)
         /\ \A i \in DOMAIN WalkAllOverlays :
              LET e == WalkAllOverlays[i] IN
              /\ e.view \in {"diff", "merged"} /\ e.verdict = Verdict(e.at)
              /\ e.at \in OverlayReach /\ Path(e.at) \cap LayerTops # {}
         /\ DeepFirst(WalkAllOverlays)
<1> DEFINE d == WalkOverlay("diff")
           m == IF running THEN WalkOverlay("merged") ELSE <<>>
           o == d \o m
           a == Len(d)
<1>1. MayFind(d, LayerTops, "diff", OverlayReach)
  BY WalkOverlayFinds DEF Views
<1>2. MayFind(m, LayerTops, "merged", OverlayReach)
  BY WalkOverlayFinds, NothingFinds DEF Views
<1>3. \A i \in DOMAIN m : Has(d, {m[i].at})
  BY MergedInDiff
<1>4. o = WalkAllOverlays
  BY DEF WalkAllOverlays
<1> HIDE DEF d, m, o, a
<1>5. d \in Seq(Found) /\ m \in Seq(Found)
  BY <1>1, <1>2 DEF MayFind
<1>6. /\ o \in Seq(Found) /\ a \in Nat /\ DOMAIN o \subseteq Nat
      /\ \A i \in DOMAIN d : i \in DOMAIN o /\ o[i] = d[i] /\ i <= a
      /\ \A i \in DOMAIN o : \/ i \in DOMAIN d /\ o[i] = d[i] /\ i <= a
                             \/ i > a /\ i - a \in DOMAIN m /\ o[i] = m[i - a]
  BY <1>5, InConcat DEF o, a
<1>7. ASSUME NEW i \in DOMAIN o
      PROVE  /\ o[i].view \in {"diff", "merged"} /\ o[i].verdict = Verdict(o[i].at)
             /\ o[i].at \in OverlayReach /\ Path(o[i].at) \cap LayerTops # {}
  <2>1. CASE i \in DOMAIN d /\ o[i] = d[i]
    BY <1>1, <2>1 DEF MayFind
  <2>2. CASE i - a \in DOMAIN m /\ o[i] = m[i - a]
    BY <1>2, <2>2 DEF MayFind
  <2> QED
    BY <1>6, <2>1, <2>2
<1>8. ASSUME NEW i \in DOMAIN o, NEW j \in DOMAIN o, j < i,
             o[i].verdict = "IocMatch", o[j].at \in Above[o[i].at]
      PROVE  \E k \in DOMAIN o : k < i /\ o[k].at = o[i].at /\ o[k].verdict = "IocMatch"
  <2>1. CASE i \in DOMAIN d /\ o[i] = d[i] /\ i <= a
    <3>1. j \in Nat /\ i \in Nat /\ ~(j > a)
      BY <1>6, <1>8, <2>1
    <3>2. j \in DOMAIN d /\ o[j] = d[j]
      BY <1>6, <3>1
    <3> QED
      BY <1>1, <1>8, <2>1, <3>2 DEF MayFind
  <2>2. CASE i > a /\ i - a \in DOMAIN m /\ o[i] = m[i - a]
    <3>1. PICK k \in DOMAIN d : d[k].at = o[i].at
      BY <1>3, <2>2 DEF Has
    <3>2. k \in DOMAIN o /\ o[k] = d[k] /\ k <= a /\ k \in Nat /\ i \in Nat
      BY <1>6
    <3>3. k < i
      BY <1>6, <2>2, <3>2
    <3>4. o[k].at = o[i].at
      BY <3>1, <3>2
    <3>5. o[k].verdict = Verdict(o[k].at) /\ o[i].verdict = Verdict(o[i].at)
      BY <1>7, <3>2
    <3> QED
      BY <1>8, <3>2, <3>3, <3>4, <3>5
  <2> QED
    BY <1>6, <2>1, <2>2
<1>9. DeepFirst(o)
  BY <1>8 DEF DeepFirst
<1> QED
  BY <1>4, <1>6, <1>7, <1>9

AllWalks == WalkHost \o WalkAllOverlays

Limit(view) == IF view = "host" THEN ScanMaxDepth ELSE OverlayMaxDepth

\* What all walks of a poll find: candidates with their verdicts, within their limits,
\* below readable directories, depth first.
LEMMA WalksFind ==
  ASSUME Tree
  PROVE  /\ AllWalks \in Seq(Found)
         /\ \A i \in DOMAIN AllWalks :
              LET e == AllWalks[i] IN
              /\ e.at \in Nodes /\ e.verdict = Verdict(e.at) /\ Depth(e.at) <= Limit(e.view)
              /\ \A b \in Above[e.at] : Readable(b)
         /\ DeepFirst(AllWalks)
<1> DEFINE h == WalkHost
           o == WalkAllOverlays
           w == AllWalks
           a == Len(h)
<1>1. MayFind(h, ChildrenOf(Host), "host", HostReach)
  BY WalkHostFinds
<1>2. /\ o \in Seq(Found)
      /\ \A i \in DOMAIN o :
           /\ o[i].view \in {"diff", "merged"} /\ o[i].verdict = Verdict(o[i].at)
           /\ o[i].at \in OverlayReach /\ Path(o[i].at) \cap LayerTops # {}
      /\ DeepFirst(o)
  BY OverlaysFind
<1> HIDE DEF h, o, w, a
<1>3. h \in Seq(Found)
  BY <1>1 DEF MayFind
<1>4. /\ w \in Seq(Found) /\ a \in Nat /\ DOMAIN w \subseteq Nat
      /\ \A i \in DOMAIN o : a + i \in DOMAIN w /\ w[a + i] = o[i]
      /\ \A i \in DOMAIN w : \/ i \in DOMAIN h /\ w[i] = h[i] /\ i <= a
                             \/ i > a /\ i - a \in DOMAIN o /\ w[i] = o[i - a]
  BY <1>2, <1>3, InConcat DEF w, a, h, o, AllWalks
<1>5. ASSUME NEW i \in DOMAIN w
      PROVE  /\ w[i].at \in Nodes /\ w[i].verdict = Verdict(w[i].at)
             /\ Depth(w[i].at) <= Limit(w[i].view) /\ \A b \in Above[w[i].at] : Readable(b)
  <2>1. CASE i \in DOMAIN h /\ w[i] = h[i]
    <3>1. w[i].view = "host" /\ w[i].verdict = Verdict(w[i].at) /\ w[i].at \in HostReach
      BY <1>1, <2>1 DEF MayFind
    <3> QED
      BY <3>1 DEF HostReach, Limit
  <2>2. CASE i - a \in DOMAIN o /\ w[i] = o[i - a]
    <3>1. /\ w[i].view \in {"diff", "merged"} /\ w[i].verdict = Verdict(w[i].at)
          /\ w[i].at \in OverlayReach
      BY <1>2, <2>2
    <3>2. w[i].view # "host"
      BY <3>1
    <3> QED
      BY <3>1, <3>2 DEF OverlayReach, Limit, Path
  <2> QED
    BY <1>4, <2>1, <2>2
<1>6. ASSUME NEW i \in DOMAIN w, NEW j \in DOMAIN w, j < i,
             w[i].verdict = "IocMatch", w[j].at \in Above[w[i].at]
      PROVE  \E k \in DOMAIN w : k < i /\ w[k].at = w[i].at /\ w[k].verdict = "IocMatch"
  <2>0. i \in Nat /\ j \in Nat
    BY <1>4
  <2>1. CASE i \in DOMAIN h /\ w[i] = h[i] /\ i <= a
    <3>1. ~(j > a)
      BY <1>4, <1>6, <2>0, <2>1
    <3>2. j \in DOMAIN h /\ w[j] = h[j]
      BY <1>4, <3>1
    <3> QED
      BY <1>1, <1>6, <2>1, <3>2 DEF MayFind
  <2>2. CASE i > a /\ i - a \in DOMAIN o /\ w[i] = o[i - a]
    <3>1. CASE j \in DOMAIN h /\ w[j] = h[j]
      <4>1. PICK c \in Path(w[j].at) : parent[c] = Host
        BY <1>1, <3>1 DEF MayFind, ChildrenOf
      <4>2. PICK t \in Path(w[i].at) : parent[t] = Tmp
        BY <1>2, <2>2 DEF LayerTops, ChildrenOf
      <4>3. w[i].at \in Nodes
        BY <1>5
      <4>4. c \in Path(w[i].at)
        BY <1>6, <4>1, <4>3, AboveIsTransitive DEF Path
      <4>5. c = t
        BY <4>1, <4>2, <4>3, <4>4, OnePath, NodeFacts
      <4> QED
        BY <4>1, <4>2, <4>5, NodeFacts
    <3>2. CASE j > a /\ j - a \in DOMAIN o /\ w[j] = o[j - a]
      <4>1. j - a < i - a
        BY <1>4, <1>6, <2>0
      <4>2. PICK k \in DOMAIN o : /\ k < i - a /\ o[k].at = o[i - a].at
                                  /\ o[k].verdict = "IocMatch"
        BY <1>2, <1>6, <2>2, <3>2, <4>1 DEF DeepFirst
      <4>3. k \in Nat
        BY <1>2
      <4>4. a + k \in DOMAIN w /\ w[a + k] = o[k] /\ a + k < i
        BY <1>4, <2>0, <4>2, <4>3
      <4> QED
        BY <2>2, <4>2, <4>4
    <3> QED
      BY <1>4, <3>1, <3>2
  <2> QED
    BY <1>4, <2>1, <2>2
<1>7. DeepFirst(w)
  BY <1>6 DEF DeepFirst
<1> QED
  BY <1>4, <1>5, <1>7 DEF w

\* What one of the walks has found is found, through its view.
LEMMA InWalks ==
  ASSUME Tree, NEW T
  PROVE  /\ Has(WalkHost, T) =>
              \E i \in DOMAIN AllWalks : AllWalks[i].at \in T /\ AllWalks[i].view = "host"
         /\ Has(WalkOverlay("diff"), T) =>
              \E i \in DOMAIN AllWalks : AllWalks[i].at \in T /\ AllWalks[i].view = "diff"
         /\ running /\ Has(WalkOverlay("merged"), T) =>
              \E i \in DOMAIN AllWalks : AllWalks[i].at \in T /\ AllWalks[i].view = "merged"
<1> DEFINE h == WalkHost
           d == WalkOverlay("diff")
           m == IF running THEN WalkOverlay("merged") ELSE <<>>
           o == WalkAllOverlays
           w == AllWalks
<1>0. w = h \o o
  BY DEF AllWalks
<1>1. MayFind(h, ChildrenOf(Host), "host", HostReach)
  BY WalkHostFinds
<1>2. MayFind(d, LayerTops, "diff", OverlayReach)
  BY WalkOverlayFinds DEF Views
<1>3. MayFind(m, LayerTops, "merged", OverlayReach)
  BY WalkOverlayFinds, NothingFinds DEF Views
<1>4. o = d \o m
  BY DEF WalkAllOverlays
<1>5. running => m = WalkOverlay("merged")
  OBVIOUS
<1> HIDE DEF h, d, m, o, w
<1>6. h \in Seq(Found) /\ d \in Seq(Found) /\ m \in Seq(Found)
  BY <1>1, <1>2, <1>3 DEF MayFind
<1>7. o \in Seq(Found)
  BY <1>4, <1>6, InConcat
<1>8. /\ \A i \in DOMAIN d : i \in DOMAIN o /\ o[i] = d[i]
      /\ \A i \in DOMAIN m : Len(d) + i \in DOMAIN o /\ o[Len(d) + i] = m[i]
  BY <1>4, <1>6, InConcat
<1>9. /\ \A i \in DOMAIN h : i \in DOMAIN w /\ w[i] = h[i]
      /\ \A i \in DOMAIN o : Len(h) + i \in DOMAIN w /\ w[Len(h) + i] = o[i]
  BY <1>0, <1>6, <1>7, InConcat
<1>10. ASSUME Has(h, T) PROVE \E i \in DOMAIN w : w[i].at \in T /\ w[i].view = "host"
  BY <1>1, <1>9, <1>10 DEF Has, MayFind
<1>11. ASSUME Has(d, T) PROVE \E i \in DOMAIN w : w[i].at \in T /\ w[i].view = "diff"
  BY <1>2, <1>8, <1>9, <1>11 DEF Has, MayFind
<1>12. ASSUME Has(m, T) PROVE \E i \in DOMAIN w : w[i].at \in T /\ w[i].view = "merged"
  BY <1>3, <1>8, <1>9, <1>12 DEF Has, MayFind
<1> QED
  BY <1>5, <1>10, <1>11, <1>12 DEF h, d, w

-----------------------------------------------------------------------------
(* The invariant *)

\* Only directories under the scan root are stamped, and their names are dotdirs.
FreshDotdirs == \A n \in fresh : RootOf(n) = Host /\ Dotdir(n)

\* Nothing changed since the walk.
WalkedNow == JustWalked => found = AllWalks

\* The order of the candidates lets the loop reach each match: when its turn comes, a
\* directory above it is at 000 only by an earlier turn, before which it had been found,
\* and put at 000, too.
MatchIn(i) == found[i].verdict = "IocMatch"

KitsMatch == \A i \in DOMAIN found : MatchIn(i) => found[i].at \in kit
Handled   == \A i \in DOMAIN found : i < next /\ MatchIn(i) => found[i].at \in locked
OwnLocks  == ~privileged =>
  \A i \in DOMAIN found : MatchIn(i) =>
    \A a \in locked \cap Above[found[i].at] :
      \E j \in DOMAIN found : j < next /\ found[j].at = a

Acting == KitsMatch /\ Handled /\ OwnLocks /\ DeepFirst(found)

IInv == TypeOK /\ FreshDotdirs /\ WalkedNow /\ (pc = "act" => Acting)

\* The typed parents make a tree.
LEMMA TypesTree == TypeOK => Tree
BY DEF TypeOK, Tree

\* The invariant holds at first.
LEMMA IInvInit == Init => IInv
<1> SUFFICES ASSUME Init PROVE IInv
  OBVIOUS
<1>1. \A n \in Nodes : parent[n] \in {Host, Tmp} \cup 1..(n - 1)
  <2> SUFFICES ASSUME NEW n \in Nodes PROVE parent[n] \in {Host, Tmp} \cup 1..(n - 1)
    OBVIOUS
  <2>1. parent[n] \in Nodes \cup {Host, Tmp} /\ (parent[n] \in Nodes => parent[n] < n)
    BY DEF Init
  <2> QED
    BY <2>1 DEF Nodes, ScanAssumption
<1>2. found = <<>> /\ next = 1 /\ moves = 0 /\ pc = "idle" /\ locked = {}
  BY DEF Init
<1>3. found \in Seq(Found) /\ next \in 1..(Len(found) + 1) /\ moves \in 0..MaxMoves
  BY <1>2 DEF ScanAssumption
<1>4. fresh \subseteq Nodes /\ FreshDotdirs
  BY DEF Init, FreshDotdirs
<1>5. look \in [Nodes -> Looks] /\ kit \subseteq Nodes /\ running \in BOOLEAN /\ privileged \in BOOLEAN
  BY DEF Init
<1>6. TypeOK
  BY <1>1, <1>2, <1>3, <1>4, <1>5 DEF TypeOK
<1> QED
  BY <1>2, <1>4, <1>6 DEF IInv, WalkedNow, JustWalked

\* The tree, and what is said of it, stays.
LEMMA TreeKept ==
  ASSUME UNCHANGED parent
  PROVE  Above' = Above /\ \A n : RootOf(n)' = RootOf(n)
<1>1. Above' = Above
  BY DEF Above
<1> QED
  BY <1>1 DEF RootOf

\* The walks depend on nothing but the host.
LEMMA WalksKept ==
  ASSUME UNCHANGED <<fixed, fresh, locked, running>>
  PROVE  AllWalks' = AllWalks
BY DEF fixed, AllWalks, WalkHost, HostVisit, WalkAllOverlays, WalkOverlay, OverlayVisit,
       OverChildren, Blind, Emit, Verdict, Readable, Dotdir, Top, WithChildren

\* The walk establishes what the loop needs.
LEMMA WalkStep ==
  ASSUME IInv, Walk
  PROVE  IInv'
<1> DEFINE w == AllWalks
<1>1. /\ pc = "idle" /\ pc' = "act" /\ found' = w /\ next' = 1
      /\ UNCHANGED <<fixed, fresh, locked, running, moves>>
  BY DEF Walk, AllWalks
<1>2. Tree /\ TypeOK
  BY TypesTree DEF IInv
<1>3. /\ w \in Seq(Found)
      /\ \A i \in DOMAIN w : /\ w[i].at \in Nodes /\ w[i].verdict = Verdict(w[i].at)
                             /\ \A b \in Above[w[i].at] : Readable(b)
      /\ DeepFirst(w)
  BY <1>2, WalksFind
<1>4. Above' = Above /\ \A n : RootOf(n)' = RootOf(n)
  BY <1>1, TreeKept DEF fixed
<1>5. w' = w
  BY <1>1, WalksKept
<1> HIDE DEF w
<1>6. TypeOK'
  <2>1. next' \in 1..(Len(found') + 1)
    BY <1>1, <1>3
  <2> QED
    BY <1>1, <1>2, <1>3, <2>1 DEF TypeOK, fixed
<1>7. FreshDotdirs'
  BY <1>1, <1>4 DEF IInv, FreshDotdirs, Dotdir, fixed
<1>8. WalkedNow'
  BY <1>1, <1>5 DEF WalkedNow, w
<1>9. KitsMatch'
  <2>1. \A n \in Nodes : Verdict(n) = "IocMatch" => n \in kit
    BY DEF Verdict
  <2> QED
    BY <1>1, <1>3, <2>1 DEF KitsMatch, MatchIn, fixed
<1>10. Handled'
  <2>1. DOMAIN w \subseteq Nat \ {0}
    BY <1>3
  <2>2. \A i \in DOMAIN w : ~(i < 1)
    BY <2>1
  <2> QED
    BY <1>1, <2>2 DEF Handled
<1>11. OwnLocks'
  <2>1. ~privileged => \A i \in DOMAIN w : locked \cap Above[w[i].at] = {}
    BY <1>3 DEF Readable
  <2> QED
    BY <1>1, <1>4, <2>1 DEF OwnLocks, fixed
<1>12. DeepFirst(found)'
  BY <1>1, <1>3, <1>4 DEF DeepFirst
<1> QED
  BY <1>6, <1>7, <1>8, <1>9, <1>10, <1>11, <1>12 DEF IInv, Acting

\* Acting on a match puts it at 000, or it was found and put at 000 before what is above it.
LEMMA ActStep ==
  ASSUME IInv, Act
  PROVE  IInv'
<1> DEFINE n == found[next].at
<1>1. /\ pc = "act" /\ pc' = "act" /\ next <= Len(found) /\ next' = next + 1 /\ found' = found
      /\ UNCHANGED <<fixed, fresh, running, moves>>
      /\ locked' = IF found[next].verdict = "IocMatch" THEN Quarantine(n) ELSE locked
  BY DEF Act
<1>2. TypeOK /\ FreshDotdirs /\ KitsMatch /\ Handled /\ OwnLocks /\ DeepFirst(found)
  BY <1>1 DEF IInv, Acting
<1>3. /\ found \in Seq(Found) /\ next \in Nat /\ next \in DOMAIN found /\ DOMAIN found \subseteq Nat
      /\ next + 1 \in 1..(Len(found) + 1)
  BY <1>1, <1>2 DEF TypeOK
<1>4. Above' = Above /\ \A m : RootOf(m)' = RootOf(m)
  BY <1>1, TreeKept DEF fixed
<1>5. locked \subseteq locked' /\ \A a \in locked' : a \in locked \/ (a = n /\ MatchIn(next))
  BY <1>1 DEF Quarantine, MatchIn
<1>6. MatchIn(next) => n \in locked'
  <2> SUFFICES ASSUME MatchIn(next) PROVE n \in locked'
    OBVIOUS
  <2>1. locked' = Quarantine(n)
    BY <1>1 DEF MatchIn
  <2>2. CASE privileged \/ Above[n] \cap locked = {}
    BY <2>1, <2>2 DEF Quarantine
  <2>3. CASE ~privileged /\ Above[n] \cap locked # {}
    <3>1. PICK a \in locked : a \in Above[n]
      BY <2>3
    <3>2. PICK j \in DOMAIN found : j < next /\ found[j].at = a
      BY <1>2, <1>3, <2>3, <3>1 DEF OwnLocks
    <3>3. PICK k \in DOMAIN found : k < next /\ found[k].at = n /\ MatchIn(k)
      BY <1>2, <1>3, <3>1, <3>2 DEF DeepFirst, MatchIn
    <3>4. n \in locked
      BY <1>2, <3>3 DEF Handled
    <3> QED
      BY <1>5, <3>4
  <2> QED
    BY <2>2, <2>3
<1> HIDE DEF n
<1>7. TypeOK'
  <2>1. locked' \subseteq kit
    BY <1>2, <1>3, <1>5 DEF TypeOK, KitsMatch, n
  <2> QED
    BY <1>1, <1>2, <1>3, <2>1 DEF TypeOK, fixed
<1>8. FreshDotdirs'
  BY <1>1, <1>2, <1>4 DEF FreshDotdirs, Dotdir, fixed
<1>9. WalkedNow'
  <2>1. next' # 1
    BY <1>1, <1>2, <1>3 DEF TypeOK
  <2> QED
    BY <2>1 DEF WalkedNow, JustWalked
<1>10. KitsMatch'
  BY <1>1, <1>2 DEF KitsMatch, MatchIn, fixed
<1>11. Handled'
  <2>1. \A i \in DOMAIN found : i < next + 1 => i < next \/ i = next
    BY <1>3
  <2> QED
    BY <1>1, <1>2, <1>5, <1>6, <2>1 DEF Handled, MatchIn, n
<1>12. OwnLocks'
  <2> SUFFICES ASSUME ~privileged, NEW i \in DOMAIN found, MatchIn(i),
                      NEW a \in locked' \cap Above[found[i].at]
               PROVE  \E j \in DOMAIN found : j < next + 1 /\ found[j].at = a
    BY <1>1, <1>4 DEF OwnLocks, MatchIn, fixed
  <2>1. CASE a \in locked
    <3>1. PICK j \in DOMAIN found : j < next /\ found[j].at = a
      BY <1>2, <2>1 DEF OwnLocks
    <3>2. j < next + 1
      BY <1>3, <3>1
    <3> QED
      BY <3>1, <3>2
  <2>2. CASE a = n
    <3>1. next < next + 1
      BY <1>3
    <3> QED
      BY <1>3, <2>2, <3>1 DEF n
  <2> QED
    BY <1>5, <2>1, <2>2
<1>13. DeepFirst(found)'
  BY <1>1, <1>2, <1>4 DEF DeepFirst
<1> QED
  BY <1>7, <1>8, <1>9, <1>10, <1>11, <1>12, <1>13 DEF IInv, Acting

\* Between two polls nothing is being acted on.
LEMMA IdleStep ==
  ASSUME IInv, Finish \/ Toggle \/ \E n \in Nodes : Age(n) \/ RollBack(n)
  PROVE  IInv'
<1>1. /\ pc' = "idle" /\ UNCHANGED fixed /\ fresh' \subseteq fresh /\ locked' \subseteq locked
      /\ running' \in BOOLEAN
  BY DEF Finish, Toggle, Age, RollBack, Move, IInv, TypeOK
<1>2. found' \in Seq(Found) /\ next' \in 1..(Len(found') + 1)
  <2>1. CASE Finish
    <3>1. found' = <<>> /\ next' = 1
      BY <2>1 DEF Finish
    <3> QED
      BY <3>1
  <2>2. CASE ~Finish
    <3>1. found' = found /\ next' = next
      BY <2>2 DEF Toggle, Age, RollBack, Move
    <3> QED
      BY <3>1 DEF IInv, TypeOK
  <2> QED
    BY <2>1, <2>2
<1>3. moves' \in 0..MaxMoves
  <2>1. moves \in 0..MaxMoves /\ (moves' = moves \/ (moves < MaxMoves /\ moves' = moves + 1))
    BY DEF Finish, Toggle, Age, RollBack, Move, IInv, TypeOK
  <2> QED
    BY <2>1 DEF ScanAssumption
<1>4. TypeOK'
  BY <1>1, <1>2, <1>3 DEF IInv, TypeOK, fixed
<1>5. \A n : RootOf(n)' = RootOf(n)
  BY <1>1, TreeKept DEF fixed
<1>6. FreshDotdirs'
  BY <1>1, <1>5 DEF IInv, FreshDotdirs, Dotdir, fixed
<1>7. WalkedNow'
  BY <1>1 DEF WalkedNow, JustWalked
<1> QED
  BY <1>1, <1>4, <1>6, <1>7 DEF IInv

\* Every step keeps the invariant.
LEMMA IInvNext == IInv /\ [Next]_vars => IInv'
<1> SUFFICES ASSUME IInv, [Next]_vars PROVE IInv'
  OBVIOUS
<1>1. CASE UNCHANGED vars
  <2>1. UNCHANGED <<fixed, fresh, locked, running, pc, found, next, moves>>
    BY <1>1 DEF vars
  <2>2. Above' = Above /\ \A n : RootOf(n)' = RootOf(n)
    BY <2>1, TreeKept DEF fixed
  <2>3. AllWalks' = AllWalks
    BY <2>1, WalksKept
  <2>4. TypeOK'
    BY <2>1 DEF IInv, TypeOK, fixed
  <2>5. FreshDotdirs' /\ WalkedNow'
    BY <2>1, <2>2, <2>3 DEF IInv, FreshDotdirs, Dotdir, WalkedNow, JustWalked, fixed
  <2>6. pc = "act" => (KitsMatch /\ Handled /\ OwnLocks /\ DeepFirst(found))'
    BY <2>1, <2>2 DEF IInv, Acting, KitsMatch, Handled, OwnLocks, DeepFirst, MatchIn, fixed
  <2> QED
    BY <2>1, <2>4, <2>5, <2>6 DEF IInv, Acting
<1>2. CASE Next
  BY <1>2, WalkStep, ActStep, IdleStep DEF Next
<1> QED
  BY <1>1, <1>2

-----------------------------------------------------------------------------
(* Theorems *)

\* Every variable keeps its type: the loop stays within the candidates, and only a
\* directory with a kit is ever at 000.
THEOREM TypesHold == Spec => []TypeOK
<1>1. IInv => TypeOK
  BY DEF IInv
<1>2. IInv /\ [Next]_vars => IInv'
  BY IInvNext
<1> QED
  BY <1>1, <1>2, IInvInit, PTL DEF Spec

\* No candidate lies deeper below its root than its limit, in any tree.
THEOREM WalkIsBounded == Spec => []BoundedWalk
<1>1. IInv => BoundedWalk
  <2> SUFFICES ASSUME IInv, JustWalked, NEW i \in DOMAIN found
               PROVE  Depth(found[i].at) <= Limit(found[i].view)
    BY DEF BoundedWalk, Limit
  <2>1. found = AllWalks /\ Tree
    BY TypesTree DEF IInv, WalkedNow
  <2> QED
    BY <2>1, WalksFind
<1>2. IInv /\ [Next]_vars => IInv'
  BY IInvNext
<1> QED
  BY <1>1, <1>2, IInvInit, PTL DEF Spec

\* The host walk leaves no recent dotdir within its depth out in silence, in any tree.
THEOREM NothingIsHidden == Spec => []NothingHiddenSilently
<1>1. IInv => NothingHiddenSilently
  <2> SUFFICES ASSUME IInv, JustWalked, NEW n \in fresh, Depth(n) <= ScanMaxDepth,
                      \A a \in Above[n] : look[a] # "raw"
               PROVE  ({n} \cup Above[n]) \cap Walked("host") # {}
    BY DEF NothingHiddenSilently
  <2>1. found = AllWalks /\ Tree /\ n \in Nodes /\ RootOf(n) = Host /\ Dotdir(n)
    BY TypesTree DEF IInv, WalkedNow, FreshDotdirs, TypeOK
  <2>2. Has(WalkHost, Path(n))
    BY <2>1, WalkHostReports
  <2>3. PICK i \in DOMAIN found : found[i].at \in Path(n) /\ found[i].view = "host"
    BY <2>1, <2>2, InWalks
  <2>4. found[i].at \in Walked("host")
    BY <2>3 DEF Walked
  <2> QED
    BY <2>3, <2>4 DEF Path
<1>2. IInv /\ [Next]_vars => IInv'
  BY IInvNext
<1> QED
  BY <1>1, <1>2, IInvInit, PTL DEF Spec

\* The overlay walk finds every readable directory within its depth below an entry of
\* tmp/ with a lower-case dotdir name, in each view, in any tree.
THEOREM LayerIsSearched == Spec => []LayerSearched
<1>1. IInv => LayerSearched
  <2> SUFFICES ASSUME IInv, JustWalked, NEW n \in Nodes, Depth(n) <= OverlayMaxDepth,
                      \E top \in Path(n) : parent[top] = Tmp /\ look[top] = "dot",
                      \A a \in Path(n) : Readable(a)
               PROVE  n \in Walked("diff") /\ (running => n \in Walked("merged"))
    BY DEF LayerSearched, Path
  <2>1. found = AllWalks /\ Tree
    BY TypesTree DEF IInv, WalkedNow
  <2>2. PICK t \in Path(n) : parent[t] = Tmp /\ Top(t)
    BY DEF Top
  <2>3. n \in OverlayReach
    BY DEF OverlayReach
  <2>4. Has(WalkOverlay("diff"), {n}) /\ Has(WalkOverlay("merged"), {n})
    BY <2>1, <2>2, <2>3, WalkOverlayReports DEF Views
  <2>5. PICK i \in DOMAIN found : found[i].at \in {n} /\ found[i].view = "diff"
    BY <2>1, <2>4, InWalks
  <2>6. running => \E j \in DOMAIN found : found[j].at \in {n} /\ found[j].view = "merged"
    BY <2>1, <2>4, InWalks
  <2> QED
    BY <2>5, <2>6 DEF Walked
<1>2. IInv /\ [Next]_vars => IInv'
  BY IInvNext
<1> QED
  BY <1>1, <1>2, IInvInit, PTL DEF Spec

\* When a poll ends, every directory in which it found a kit is at 000, however the
\* directories are nested and through how many views they were found.
THEOREM AllAreContained == Spec => []AllContained
<1>1. IInv => AllContained
  <2> SUFFICES ASSUME IInv, pc = "act", next > Len(found), NEW i \in DOMAIN found, MatchIn(i)
               PROVE  found[i].at \in locked
    BY DEF AllContained, MatchIn
  <2>1. found \in Seq(Found) /\ next \in Nat
    BY DEF IInv, TypeOK
  <2>2. i < next
    BY <2>1
  <2> QED
    BY <2>2 DEF IInv, Acting, Handled
<1>2. IInv /\ [Next]_vars => IInv'
  BY IInvNext
<1> QED
  BY <1>1, <1>2, IInvInit, PTL DEF Spec
=============================================================================
