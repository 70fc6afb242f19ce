------------------------------ MODULE Induction ------------------------------
(***************************************************************************)
(* Induction and recursion over the naturals, stated with sets and         *)
(* functions in place of operators: what is to hold of every n is that it  *)
(* is in a set, and what is to be repeated is a function. The proofs about *)
(* parse_args and about the recursive walks rest on it.                    *)
(***************************************************************************)
EXTENDS Integers, WellFoundedInduction, TLAPS

\* Every natural number is in a set that has 0 and the successor of each of its
\* members.
THEOREM InductionOnSet ==
  ASSUME NEW S, 0 \in S, \A n \in Nat : n \in S => n + 1 \in S
  PROVE  \A n \in Nat : n \in S
<1> DEFINE T == Nat \ S
<1> SUFFICES ASSUME T # {} PROVE FALSE
  OBVIOUS
<1>1. PICK m \in T : \A k \in T : <<k, m>> \notin OpToRel(<, Nat)
  <2> T \subseteq Nat
    OBVIOUS
  <2> HIDE DEF T
  <2> QED
    BY NatLessThanWellFounded, WFMin
<1>2. m \in Nat /\ m # 0 /\ m \notin S
  OBVIOUS
<1>3. m - 1 \in Nat /\ m - 1 \notin S
  BY <1>2
<1>4. <<m - 1, m>> \in OpToRel(<, Nat)
  BY <1>2, <1>3 DEF OpToRel
<1> QED
  BY <1>1, <1>3, <1>4

\* f begins with base and goes on by step, up to n.
Repeats(f, base, step, n) == f[0] = base /\ \A i \in 1..n : f[i] = step[i][f[i - 1]]

\* There is such a function for any base, step and n.
THEOREM RecursionOnStep ==
  ASSUME NEW X, NEW base \in X, NEW step \in [Nat -> [X -> X]], NEW n \in Nat
  PROVE  \E f \in [0..n -> X] : Repeats(f, base, step, n)
<1> USE DEF Repeats
<1> DEFINE Good(f, m) == Repeats(f, base, step, m)
           S == {m \in Nat : \E f \in [0..m -> X] : Good(f, m)}
<1>1. 0 \in S
  <2>1. [i \in 0..0 |-> base] \in [0..0 -> X] /\ Good([i \in 0..0 |-> base], 0)
    OBVIOUS
  <2> QED
    BY <2>1
<1>2. ASSUME NEW m \in Nat, m \in S PROVE m + 1 \in S
  <2>1. PICK f \in [0..m -> X] : Good(f, m)
    BY <1>2
  <2> DEFINE g == [i \in 0..(m + 1) |-> IF i = m + 1 THEN step[m + 1][f[m]] ELSE f[i]]
  <2>2. f[m] \in X /\ step[m + 1] \in [X -> X]
    OBVIOUS
  <2>3. g \in [0..(m + 1) -> X]
    <3>1. step[m + 1][f[m]] \in X
      BY <2>2
    <3>2. \A i \in 0..(m + 1) : i # m + 1 => i \in 0..m
      OBVIOUS
    <3> QED
      BY <3>1, <3>2
  <2>4. g[m + 1] = step[m + 1][f[m]] /\ \A i \in 0..m : g[i] = f[i]
    OBVIOUS
  <2>5. g[0] = base
    BY <2>1, <2>4
  <2>6. ASSUME NEW i \in 1..(m + 1) PROVE g[i] = step[i][g[i - 1]]
    <3>1. CASE i = m + 1
      BY <2>4, <3>1
    <3>2. CASE i \in 1..m
      <4>1. i \in 0..m /\ i - 1 \in 0..m
        BY <3>2
      <4> QED
        BY <2>1, <2>4, <3>2, <4>1
    <3> QED
      BY <3>1, <3>2
  <2> HIDE DEF g
  <2> QED
    BY <2>3, <2>5, <2>6
<1> HIDE DEF S
<1>3. n \in S
  BY <1>1, <1>2, InductionOnSet
<1> QED
  BY <1>3 DEF S

-----------------------------------------------------------------------------
(* The same from a number down to 0 *)

\* Every number from top down to 0 is in a set that has top and the predecessor of each
\* of its members.
THEOREM InductionDown ==
  ASSUME NEW top \in Nat, NEW S, top \in S,
         \A d \in 0..(top - 1) : d + 1 \in S => d \in S
  PROVE  \A d \in 0..top : d \in S
<1> DEFINE T == {k \in Nat : k <= top => top - k \in S}
<1>1. 0 \in T
  OBVIOUS
<1>2. \A k \in Nat : k \in T => k + 1 \in T
  <2> SUFFICES ASSUME NEW k \in Nat, k \in T, k + 1 <= top PROVE top - (k + 1) \in S
    OBVIOUS
  <2>1. top - (k + 1) \in 0..(top - 1) /\ (top - (k + 1)) + 1 = top - k
    OBVIOUS
  <2> QED
    BY <2>1
<1> HIDE DEF T
<1>3. \A k \in Nat : k \in T
  BY <1>1, <1>2, InductionOnSet
<1>4. ASSUME NEW d \in 0..top PROVE d \in S
  <2>1. top - d \in T /\ top - d <= top /\ top - (top - d) = d
    BY <1>3
  <2> QED
    BY <2>1 DEF T
<1> QED
  BY <1>4

\* f begins at top with base and comes down by step.
RepeatsDown(f, base, step, top) ==
  f[top] = base /\ \A d \in 0..(top - 1) : f[d] = step[d][f[d + 1]]

\* There is such a function for any base, step and top.
THEOREM RecursionDown ==
  ASSUME NEW X, NEW base \in X, NEW top \in Nat, NEW step \in [0..top -> [X -> X]]
  PROVE  \E f \in [0..top -> X] : RepeatsDown(f, base, step, top)
<1> DEFINE up == [i \in Nat |-> [x \in X |-> IF i \in 1..top THEN step[top - i][x] ELSE x]]
<1>1. up \in [Nat -> [X -> X]]
  <2>1. \A i \in 1..top : top - i \in 0..top
    OBVIOUS
  <2> QED
    BY <2>1
<1>2. PICK g \in [0..top -> X] : Repeats(g, base, up, top)
  <2> HIDE DEF up
  <2> QED
    BY <1>1, RecursionOnStep
<1> DEFINE f == [d \in 0..top |-> g[top - d]]
<1>3. f \in [0..top -> X]
  OBVIOUS
<1>4. f[top] = base
  BY <1>2 DEF Repeats
<1>5. ASSUME NEW d \in 0..(top - 1) PROVE f[d] = step[d][f[d + 1]]
  <2> DEFINE i == top - d
  <2>1. i \in 1..top /\ i - 1 \in 0..top /\ top - i = d /\ i - 1 = top - (d + 1)
    OBVIOUS
  <2>2. f[d] = g[i] /\ f[d + 1] = g[i - 1]
    OBVIOUS
  <2>3. g[i] = up[i][g[i - 1]]
    <3> HIDE DEF up, i
    <3> QED
      BY <1>2, <2>1 DEF Repeats
  <2>4. g[i - 1] \in X
    BY <2>1
  <2>5. up[i][g[i - 1]] = step[d][g[i - 1]]
    BY <2>1, <2>4
  <2> QED
    BY <2>2, <2>3, <2>5
<1> HIDE DEF f
<1>6. RepeatsDown(f, base, step, top)
  BY <1>4, <1>5 DEF RepeatsDown
<1> QED
  BY <1>3, <1>6
=============================================================================
