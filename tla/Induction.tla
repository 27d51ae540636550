----------------------------- MODULE Induction -----------------------------
(***************************************************************************)
(* Induction over the natural numbers, stated with sets where the library  *)
(* states it with predicates, and what follows from it for functions that  *)
(* are defined by recursion.  Nothing in it is about the broker.           *)
(***************************************************************************)
EXTENDS Integers, WellFoundedInduction, TLAPS

\* A set of numbers that is not empty has a least element.
LEMMA LeastNumber ==
  ASSUME NEW S, S \subseteq Nat, S # {}
  PROVE  \E n \in S : \A m \in S : n <= m
<1> DEFINE R == {ss \in Nat \X Nat : ss[1] < ss[2]}
<1>1. IsWellFoundedOn(R, Nat)
  BY NatLessThanWellFounded DEF OpToRel
<1> HIDE DEF R
<1>2. PICK n \in S : \A m \in S : <<m, n>> \notin R
  BY <1>1, WFMin
<1>3. \A m \in S : ~(m < n)
  BY <1>2 DEF R
<1> QED
  BY <1>3

\* A set that has 0 and, with a number up to top, the next one has all numbers
\* up to top.
LEMMA UpTo ==
  ASSUME NEW top \in Nat, NEW S, 0 \in S, \A n \in 0..top - 1 : n \in S => n + 1 \in S
  PROVE  0..top \subseteq S
<1> DEFINE Missing == {n \in 0..top : n \notin S}
<1> SUFFICES ASSUME Missing # {} PROVE FALSE
  OBVIOUS
<1>1. PICK n \in Missing : \A m \in Missing : n <= m
  <2>1. Missing \subseteq Nat
    OBVIOUS
  <2> HIDE DEF Missing
  <2> QED
    BY <2>1, LeastNumber
<1>2. n # 0 /\ n - 1 \in 0..top - 1
  BY <1>1
<1>3. n - 1 \in S
  BY <1>1, <1>2
<1> QED
  BY <1>1, <1>2, <1>3

\* A value v for 0 and a step from each number up to top to the next one define
\* a function on 0..top.
RecursiveData(V, v, top, step) == v \in V /\ top \in Nat /\ step \in [1..top -> [V -> V]]

DefinedBy(f, V, v, top, step) ==
  /\ f \in [0..top -> V]
  /\ f[0] = v
  /\ \A k \in 1..top : f[k] = step[k][f[k - 1]]

LEMMA Recursion ==
  ASSUME NEW V, NEW v, NEW top, NEW step, RecursiveData(V, v, top, step)
  PROVE  \E f : DefinedBy(f, V, v, top, step)
<1> USE DEF RecursiveData
<1> DEFINE Is(f, n) == f[0] = v /\ \A k \in 1..n : f[k] = step[k][f[k - 1]]
           S == {n \in 0..top : \E f \in [0..n -> V] : Is(f, n)}
<1>1. 0 \in S
  <2>1. PICK f \in [0..0 -> V] : f[0] = v
    <3>1. [k \in 0..0 |-> v] \in [0..0 -> V] /\ [k \in 0..0 |-> v][0] = v
      OBVIOUS
    <3> QED
      BY <3>1
  <2>2. Is(f, 0)
    BY <2>1
  <2> QED
    BY <2>2
<1>2. ASSUME NEW n \in 0..top - 1, n \in S PROVE n + 1 \in S
  <2>1. PICK f \in [0..n -> V] : Is(f, n)
    BY <1>2
  <2>2. PICK x \in V : x = step[n + 1][f[n]]
    OBVIOUS
  <2>3. PICK g \in [0..n + 1 -> V] :
          g = [k \in 0..n + 1 |-> IF k = n + 1 THEN x ELSE f[k]]
    <3>1. [k \in 0..n + 1 |-> IF k = n + 1 THEN x ELSE f[k]] \in [0..n + 1 -> V]
      OBVIOUS
    <3> QED
      BY <3>1
  <2>4. g[n + 1] = x /\ \A k \in 0..n : g[k] = f[k]
    BY <2>3
  <2>5. ASSUME NEW k \in 1..n + 1 PROVE g[k] = step[k][g[k - 1]]
    <3>1. CASE k = n + 1
      <4>1. k - 1 = n /\ n \in 0..n
        BY <3>1
      <4>2. g[k - 1] = f[n] /\ g[k] = x
        BY <2>4, <3>1, <4>1
      <4> QED
        BY <2>2, <3>1, <4>2
    <3>2. CASE k # n + 1
      <4>1. k \in 1..n /\ k - 1 \in 0..n /\ k \in 0..n
        BY <3>2
      <4> QED
        BY <2>1, <2>4, <4>1
    <3> QED
      BY <3>1, <3>2
  <2>6. Is(g, n + 1)
    BY <2>1, <2>4, <2>5
  <2>7. n + 1 \in 0..top
    OBVIOUS
  <2> HIDE DEF Is
  <2> QED
    BY <2>6, <2>7
<1>3. top \in S
  <2>1. top \in Nat /\ top \in 0..top
    OBVIOUS
  <2> HIDE DEF S
  <2> QED
    BY <1>1, <1>2, <2>1, UpTo
<1> QED
  BY <1>3 DEF DefinedBy

=============================================================================
