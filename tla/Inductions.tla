------------------------------ MODULE Inductions ------------------------------
(***************************************************************************)
(* Induction over the natural numbers for the proofs of this project: the  *)
(* principle with a set in place of the predicate, the least and the last  *)
(* member of a set, and the function that a recursion of steps defines.    *)
(***************************************************************************)
EXTENDS Integers, FiniteSets, FiniteSetTheorems, TLAPS

\* A set that has 0 and with each number the next one has them all.
LEMMA ReachedFromZero ==
  ASSUME NEW S, 0 \in S, \A x \in Nat : x \in S => x + 1 \in S, NEW n \in Nat
  PROVE  n \in S
<1>1. SUFFICES ASSUME n \notin S
               PROVE  FALSE
  OBVIOUS
<1> DEFINE T == {x \in 0..n : x \in S}
           U == T \ {0}
           f == [x \in T |-> x + 1]
<1>2. IsFiniteSet(T) /\ 0 \in T
  <2>1. IsFiniteSet(0..n)
    BY FS_Interval
  <2> QED
    BY <2>1, FS_Subset
<1>3. IsFiniteSet(U) /\ Cardinality(U) < Cardinality(T)
  <2>1. IsFiniteSet(U) /\ Cardinality(U) = Cardinality(T) - 1
    BY <1>2, FS_RemoveElement
  <2>2. Cardinality(T) \in Nat
    BY <1>2, FS_CardinalityType
  <2> QED
    BY <2>1, <2>2
<1>4. f \in [T -> U]
  <2>1. ASSUME NEW x \in T
        PROVE  x + 1 \in U
    BY <1>1, <2>1
  <2> QED
    BY <2>1
<1>5. \A x, y \in T : f[x] = f[y] => x = y
  OBVIOUS
<1> HIDE DEF T, U, f
<1> QED
  BY <1>2, <1>3, <1>4, <1>5, FS_PigeonHole

\* A set with a natural number in it has a least one.
LEMMA LeastMember ==
  ASSUME NEW S, NEW n \in Nat, n \in S
  PROVE  \E x \in Nat : x \in S /\ \A y \in 0..(x - 1) : y \notin S
<1>1. SUFFICES ASSUME \A x \in Nat : x \in S => \E y \in 0..(x - 1) : y \in S
               PROVE  FALSE
  OBVIOUS
<1> DEFINE T == {x \in Nat : \A y \in 0..x : y \notin S}
<1>2. 0 \in T
  BY <1>1
<1>3. \A x \in Nat : x \in T => x + 1 \in T
  <2>1. ASSUME NEW x \in Nat, x \in T, NEW y \in 0..(x + 1)
        PROVE  y \notin S
    BY <1>1, <2>1
  <2> QED
    BY <2>1
<1> HIDE DEF T
<1>4. n \in T
  BY <1>2, <1>3, ReachedFromZero
<1> QED
  BY <1>4 DEF T

\* Places up to n have a last one.
LEMMA LastPlace ==
  ASSUME NEW n \in Nat, NEW S, S \subseteq 0..n, S # {}
  PROVE  \E x \in S : \A y \in S : y <= x
<1> DEFINE T == {n - x : x \in S}
<1>1. PICK x \in S : TRUE
  OBVIOUS
<1>2. n - x \in Nat /\ n - x \in T
  BY <1>1
<1> HIDE DEF T
<1>3. PICK t \in Nat : t \in T /\ \A y \in 0..(t - 1) : y \notin T
  BY <1>2, LeastMember
<1>4. n - t \in S
  BY <1>3 DEF T
<1>5. ASSUME NEW y \in S
      PROVE  y <= n - t
  <2>1. n - y \in T /\ n - y \in 0..n
    BY DEF T
  <2> QED
    BY <2>1, <1>3
<1> QED
  BY <1>4, <1>5

\* f[x] is what the first x steps make of start.
IterateOf(f, m, X, start, step) ==
  f \in [0..m -> X] /\ f[0] = start /\ \A x \in 1..m : f[x] = step[x][f[x - 1]]

\* Such an f exists: a recursive definition defines what it says it does.
LEMMA Recursion ==
  ASSUME NEW m \in Nat, NEW X, NEW start \in X, NEW step \in [1..m -> [X -> X]]
  PROVE  \E f : IterateOf(f, m, X, start, step)
<1> DEFINE Defined(n, f) == f \in [0..n -> X] /\ f[0] = start
                            /\ \A x \in 1..n : f[x] = step[x][f[x - 1]]
           S == {n \in Nat : n <= m => \E f : Defined(n, f)}
<1>1. 0 \in S
  <2> DEFINE f == [x \in 0..0 |-> start]
  <2>1. Defined(0, f)
    OBVIOUS
  <2> QED
    BY <2>1
<1>2. ASSUME NEW n \in Nat, n \in S
      PROVE  n + 1 \in S
  <2>1. SUFFICES ASSUME n + 1 <= m
                 PROVE  \E f : Defined(n + 1, f)
    OBVIOUS
  <2>2. PICK f : Defined(n, f)
    BY <1>2, <2>1
  <2> DEFINE last == step[n + 1][f[n]]
             g == [x \in 0..n + 1 |-> IF x = n + 1 THEN last ELSE f[x]]
  <2>3. f[n] \in X /\ step[n + 1] \in [X -> X]
    BY <2>1, <2>2
  <2>4. last \in X
    BY <2>3
  <2> HIDE DEF last
  <2>5. g \in [0..n + 1 -> X] /\ g[0] = start
    BY <2>2, <2>4
  <2>6. ASSUME NEW x \in 1..n + 1
        PROVE  g[x] = step[x][g[x - 1]]
    <3>1. CASE x = n + 1
      <4>1. g[x] = last /\ g[x - 1] = f[n]
        BY <3>1
      <4> QED
        BY <3>1, <4>1 DEF last
    <3>2. CASE x \in 1..n
      BY <2>2, <3>2
    <3> QED
      BY <3>1, <3>2
  <2>7. Defined(n + 1, g)
    BY <2>5, <2>6
  <2> QED
    BY <2>7
<1> HIDE DEF S
<1>3. m \in S
  BY <1>1, <1>2, ReachedFromZero
<1> QED
  BY <1>3 DEF S, IterateOf
===============================================================================
