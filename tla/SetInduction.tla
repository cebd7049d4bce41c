---------------------------- MODULE SetInduction ----------------------------
(***************************************************************************)
(* Induction for the provers at hand.  The induction theorems of the       *)
(* library range over a predicate, which a first-order prover cannot be    *)
(* given; here the predicate is the set of values it holds of.             *)
(***************************************************************************)
EXTENDS Naturals, FiniteSets, FiniteSetTheorems, TLAPS

\* A set with zero that is closed under successor has every natural number.
LEMMA NatInducts ==
    ASSUME NEW S, 0 \in S, \A n \in Nat : n \in S => n + 1 \in S
    PROVE  \A n \in Nat : n \in S
  <1> DEFINE T == {n \in Nat : n \notin S}
  <1> SUFFICES ASSUME T # {} PROVE FALSE
    OBVIOUS
  <1>1. PICK x \in T : \A y \in T : <<y, x>> \notin OpToRel(<, Nat)
    <2>1. T \subseteq Nat
      OBVIOUS
    <2> HIDE DEF T
    <2> QED
      BY <2>1, NatLessThanWellFounded, WFMin, Zenon
  <1>2. \A y \in T : ~(y < x)
    BY <1>1 DEF OpToRel
  <1>3. x # 0 /\ x - 1 \in Nat /\ x - 1 < x /\ (x - 1) + 1 = x
    OBVIOUS
  <1>4. x - 1 \in S
    BY <1>2, <1>3
  <1> QED
    BY <1>3, <1>4

\* What holds of the empty set and survives one more element holds of a finite set.
LEMMA FiniteSetInducts ==
    ASSUME NEW S, IsFiniteSet(S), NEW Good,
           {} \in Good,
           \A T \in SUBSET S, x \in S : T \in Good /\ x \notin T => T \cup {x} \in Good
    PROVE  S \in Good
  <1> DEFINE Sizes == {n \in Nat : \A T \in SUBSET S : Cardinality(T) = n => T \in Good}
  <1>1. 0 \in Sizes
    BY FS_EmptySet, FS_Subset
  <1>2. ASSUME NEW n \in Nat, n \in Sizes
        PROVE  n + 1 \in Sizes
    <2> SUFFICES ASSUME NEW T \in SUBSET S, Cardinality(T) = n + 1
                 PROVE  T \in Good
      OBVIOUS
    <2>1. IsFiniteSet(T)
      BY FS_Subset
    <2>2. PICK x \in T : TRUE
      BY <2>1, FS_EmptySet
    <2>3. Cardinality(T \ {x}) = Cardinality(T) - 1
      BY <2>1, FS_RemoveElement, Zenon
    <2>4. Cardinality(T \ {x}) = n
      BY <2>3
    <2>5. T \ {x} \in Good
      BY <2>4, <1>2
    <2>6. (T \ {x}) \cup {x} = T
      OBVIOUS
    <2> QED
      BY <2>5, <2>6
  <1>3. \A n \in Nat : n \in Sizes
    <2> HIDE DEF Sizes
    <2> QED
      BY <1>1, <1>2, NatInducts
  <1> QED
    BY <1>3, FS_CardinalityType

\* A finite set that a relation orders strictly and totally has a first element.
LEMMA FirstExists ==
    ASSUME NEW S, IsFiniteSet(S), S # {}, NEW R,
           \A x, y \in S : x # y => <<x, y>> \in R \/ <<y, x>> \in R,
           \A x, y, z \in S : <<x, y>> \in R /\ <<y, z>> \in R => <<x, z>> \in R
    PROVE  \E x \in S : \A y \in S \ {x} : <<x, y>> \in R
  <1> DEFINE Good == {T \in SUBSET S : T # {} => \E x \in T : \A y \in T \ {x} : <<x, y>> \in R}
  <1>1. {} \in Good
    OBVIOUS
  <1>2. ASSUME NEW T \in SUBSET S, NEW z \in S, T \in Good, z \notin T
        PROVE  T \cup {z} \in Good
    <2>1. CASE T = {}
      BY <2>1
    <2>2. CASE T # {}
      <3>1. PICK x \in T : \A y \in T \ {x} : <<x, y>> \in R
        BY <1>2, <2>2
      <3>2. CASE <<x, z>> \in R
        BY <3>1, <3>2
      <3>3. CASE <<z, x>> \in R
        <4>1. \A y \in T : <<z, y>> \in R
          BY <3>1, <3>3
        <4> QED
          BY <4>1
      <3> QED
        BY <1>2, <3>2, <3>3
    <2> QED
      BY <2>1, <2>2
  <1>3. S \in Good
    <2> HIDE DEF Good
    <2> QED
      BY <1>1, <1>2, FiniteSetInducts
  <1> QED
    BY <1>3

\* ... and a last one.
LEMMA LastExists ==
    ASSUME NEW S, IsFiniteSet(S), S # {}, NEW R,
           \A x, y \in S : x # y => <<x, y>> \in R \/ <<y, x>> \in R,
           \A x, y, z \in S : <<x, y>> \in R /\ <<y, z>> \in R => <<x, z>> \in R
    PROVE  \E x \in S : \A y \in S \ {x} : <<y, x>> \in R
  <1> DEFINE Converse == {p \in S \X S : <<p[2], p[1]>> \in R}
  <1>1. \A x, y \in S : <<x, y>> \in Converse <=> <<y, x>> \in R
    OBVIOUS
  <1>2. \E x \in S : \A y \in S \ {x} : <<x, y>> \in Converse
    <2>1. \A x, y \in S : x # y => <<x, y>> \in Converse \/ <<y, x>> \in Converse
      BY <1>1
    <2>2. \A x, y, z \in S :
             <<x, y>> \in Converse /\ <<y, z>> \in Converse => <<x, z>> \in Converse
      BY <1>1
    <2> HIDE DEF Converse
    <2> QED
      BY <2>1, <2>2, FirstExists
  <1> QED
    BY <1>1, <1>2
\* A function on the naturals that goes from one value to the next by a step.
Steps(f, V, start, step) ==
    /\ f \in [Nat -> V]
    /\ f[0] = start
    /\ \A n \in Nat : f[n + 1] = step[n][f[n]]

\* Such a function exists, whatever its value at zero and its steps.
LEMMA NatRecursion ==
    ASSUME NEW V, NEW start \in V, NEW step \in [Nat -> [V -> V]]
    PROVE  \E f : Steps(f, V, start, step)
  <1> DEFINE Upto(n, g) ==
          /\ g \in [0..n -> V]
          /\ g[0] = start
          /\ \A m \in 0..n : m # n => g[m + 1] = step[m][g[m]]
  <1>1. \A n \in Nat : \E g : Upto(n, g)
    <2> DEFINE S == {n \in Nat : \E g : Upto(n, g)}
    <2>1. 0 \in S
      <3>1. Upto(0, [m \in 0..0 |-> start])
        OBVIOUS
      <3> QED
        BY <3>1
    <2>2. ASSUME NEW n \in Nat, n \in S
          PROVE  n + 1 \in S
      <3>1. PICK g : Upto(n, g)
        BY <2>2
      <3> DEFINE h == [m \in 0..(n + 1) |-> IF m = n + 1 THEN step[n][g[n]] ELSE g[m]]
      <3>2. h \in [0..(n + 1) -> V]
        BY <3>1
      <3>3. h[0] = start /\ \A m \in 0..n : h[m] = g[m]
        BY <3>1
      <3>4. ASSUME NEW m \in 0..(n + 1), m # n + 1
            PROVE  h[m + 1] = step[m][h[m]]
        <4>1. m \in 0..n /\ m + 1 \in 0..(n + 1) /\ h[m] = g[m]
          BY <3>3, <3>4
        <4>2. CASE m = n
          BY <4>1, <4>2
        <4>3. CASE m # n
          <5>1. m + 1 \in 0..n /\ h[m + 1] = g[m + 1]
            BY <3>3, <4>1, <4>3
          <5> QED
            BY <3>1, <4>1, <4>3, <5>1
        <4> QED
          BY <4>2, <4>3
      <3>5. Upto(n + 1, h)
        BY <3>2, <3>3, <3>4
      <3> HIDE DEF Upto, h
      <3> QED
        BY <3>5
    <2> HIDE DEF S
    <2>3. \A n \in Nat : n \in S
      BY <2>1, <2>2, NatInducts
    <2> QED
      BY <2>3 DEF S
  <1>2. \A n \in Nat : \A g, h : Upto(n, g) /\ Upto(n + 1, h) => g[n] = h[n]
    <2> HIDE DEF Upto
    <2> SUFFICES ASSUME NEW n \in Nat, NEW g, NEW h, Upto(n, g), Upto(n + 1, h)
                 PROVE  g[n] = h[n]
      OBVIOUS
    <2> USE DEF Upto
    <2> DEFINE S == {m \in Nat : m \in 0..n => g[m] = h[m]}
    <2>1. 0 \in S
      OBVIOUS
    <2>2. ASSUME NEW m \in Nat, m \in S
          PROVE  m + 1 \in S
      <3> SUFFICES ASSUME m + 1 \in 0..n PROVE g[m + 1] = h[m + 1]
        OBVIOUS
      <3>1. m \in 0..n /\ m # n /\ m \in 0..(n + 1) /\ m # n + 1
        OBVIOUS
      <3>2. g[m] = h[m]
        BY <2>2, <3>1
      <3>3. g[m + 1] = step[m][g[m]] /\ h[m + 1] = step[m][h[m]]
        BY <3>1
      <3> QED
        BY <3>2, <3>3
    <2> HIDE DEF S
    <2>3. \A m \in Nat : m \in S
      BY <2>1, <2>2, NatInducts
    <2> QED
      BY <2>3 DEF S
  <1> DEFINE part == [n \in Nat |-> CHOOSE g : Upto(n, g)]
             f == [n \in Nat |-> part[n][n]]
  <1>3. \A n \in Nat : Upto(n, part[n])
    <2> HIDE DEF Upto
    <2> QED
      BY <1>1
  <1> HIDE DEF part
  <1>4. f \in [Nat -> V]
    <2>1. \A n \in Nat : part[n] \in [0..n -> V] /\ n \in 0..n
      BY <1>3
    <2> QED
      BY <2>1
  <1>5. f[0] = start
    BY <1>3
  <1>6. ASSUME NEW n \in Nat
        PROVE  f[n + 1] = step[n][f[n]]
    <2>1. part[n][n] = part[n + 1][n]
      <3>1. n + 1 \in Nat
        OBVIOUS
      <3> HIDE DEF Upto
      <3> QED
        BY <1>2, <1>3, <3>1
    <2>2. part[n + 1][n + 1] = step[n][part[n + 1][n]]
      <3>1. Upto(n + 1, part[n + 1]) /\ n \in 0..(n + 1) /\ n # n + 1
        BY <1>3
      <3> QED
        BY <3>1
    <2> QED
      BY <2>1, <2>2
  <1> HIDE DEF f
  <1> QED
    BY <1>4, <1>5, <1>6 DEF Steps
=============================================================================
