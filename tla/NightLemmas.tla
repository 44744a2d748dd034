---------------------------- MODULE NightLemmas ----------------------------
(***************************************************************************)
(* Lemmas the proofs of several components share: induction over the       *)
(* naturals and functions defined by recursion, in a first-order form:     *)
(* a set of numbers or a function stands where the library's theorems have *)
(* an operator.                                                            *)
(***************************************************************************)
EXTENDS Integers, Sequences, FiniteSets, FiniteSetTheorems, SequenceTheorems,
        WellFoundedInduction, TLAPS

-----------------------------------------------------------------------------
(* Induction                                                               *)

\* A set of naturals that is not empty has a least element.
LEMMA LeastNat ==
    ASSUME NEW T, T \subseteq Nat, T # {}
    PROVE  \E x \in T : \A y \in T : x <= y
<1>1. PICK x \in T : \A y \in T : ~(<<y, x>> \in OpToRel(<, Nat))
  BY WFMin, NatLessThanWellFounded
<1>2. \A y \in T : ~(y < x)
  BY <1>1 DEF OpToRel
<1> QED
  BY <1>2

\* Induction: a set with 0 that is closed under successor has every natural.
LEMMA SetInduction ==
    ASSUME NEW P, 0 \in P, \A n \in Nat : n \in P => n + 1 \in P
    PROVE  Nat \subseteq P
<1> SUFFICES ASSUME Nat \ P # {} PROVE FALSE
  OBVIOUS
<1>1. PICK x \in Nat \ P : \A y \in Nat \ P : x <= y
  BY LeastNat
<1>2. x - 1 \in Nat /\ x - 1 \in P
  BY <1>1
<1> QED
  BY <1>1, <1>2

\* A definition by recursion over 0 .. n has a solution: g says what follows
\* x at the i-th step.
LEMMA RecursionExists ==
    ASSUME NEW S, NEW x \in S, NEW n \in Nat, NEW g \in [1 .. n -> [S -> S]]
    PROVE  \E d \in [0 .. n -> S] :
             d[0] = x /\ \A i \in 1 .. n : d[i] = g[i][d[i - 1]]
<1> DEFINE R(k) == \E d \in [0 .. k -> S] :
                     d[0] = x /\ \A i \in 1 .. k : d[i] = g[i][d[i - 1]]
           P == {k \in Nat : k <= n => R(k)}
<1>1. 0 \in P
  <2> DEFINE d == [i \in 0 .. 0 |-> x]
  <2>1. d \in [0 .. 0 -> S] /\ d[0] = x /\ \A i \in 1 .. 0 : d[i] = g[i][d[i - 1]]
    OBVIOUS
  <2> HIDE DEF d
  <2>2. R(0)
    BY <2>1
  <2> QED
    BY <2>2
<1>2. ASSUME NEW k \in Nat, k \in P PROVE k + 1 \in P
  <2> SUFFICES ASSUME k + 1 <= n PROVE R(k + 1)
    OBVIOUS
  <2>1. PICK d \in [0 .. k -> S] :
          d[0] = x /\ \A i \in 1 .. k : d[i] = g[i][d[i - 1]]
    BY <1>2
  <2> DEFINE e == [i \in 0 .. k + 1 |-> IF i = k + 1 THEN g[k + 1][d[k]] ELSE d[i]]
  <2>2. g[k + 1][d[k]] \in S
    BY <2>1
  <2>3. e \in [0 .. k + 1 -> S] /\ e[0] = x
    BY <2>1, <2>2
  <2>4. ASSUME NEW i \in 1 .. k + 1 PROVE e[i] = g[i][e[i - 1]]
    <3>1. CASE i = k + 1
      BY <3>1
    <3>2. CASE i \in 1 .. k
      BY <2>1, <3>2
    <3> QED
      BY <3>1, <3>2
  <2> HIDE DEF e
  <2> QED
    BY <2>3, <2>4
<1> HIDE DEF P
<1>3. n \in P
  BY <1>1, <1>2, SetInduction
<1> QED
  BY <1>3 DEF P

-----------------------------------------------------------------------------
(* Largest and smallest elements                                           *)

\* A set of naturals that is not empty and has a bound has a largest element.
LEMMA GreatestNat ==
    ASSUME NEW n \in Nat, NEW T, T \subseteq 0 .. n, T # {}
    PROVE  \E x \in T : \A y \in T : x >= y
<1> DEFINE D == {k \in Nat : k <= n /\ n - k \in T}
<1>1. D \subseteq Nat /\ D # {}
  <2>1. PICK x \in T : TRUE
    OBVIOUS
  <2>2. n - x \in Nat /\ n - x <= n /\ n - (n - x) = x
    BY <2>1
  <2> QED
    BY <2>1, <2>2
<1>2. PICK k \in D : \A y \in D : k <= y
  <2> HIDE DEF D
  <2> QED
    BY <1>1, LeastNat
<1>3. \A y \in T : n - y \in D
  <2> TAKE y \in T
  <2>1. n - y \in Nat /\ n - y <= n /\ n - (n - y) = y
    OBVIOUS
  <2> QED
    BY <2>1
<1>4. \A y \in T : k <= n - y /\ y \in Nat
  <2> HIDE DEF D
  <2> QED
    BY <1>2, <1>3
<1>5. n - k \in T /\ k \in Nat
  BY <1>2
<1> QED
  BY <1>4, <1>5

\* A finite set of naturals has a bound.
LEMMA FiniteBounded ==
    ASSUME NEW T, T \subseteq Nat, IsFiniteSet(T)
    PROVE  \E n \in Nat : T \subseteq 0 .. n
<1>1. PICK n \in Nat : ExistsBijection(1 .. n, T)
  BY FS_NatBijection
<1>2. PICK f \in [1 .. n -> T] : \A x \in T : \E i \in 1 .. n : f[i] = x
  BY <1>1 DEF ExistsBijection, Bijection, Injection, Surjection, IsInjective
<1>a. \A i \in 1 .. n : f[i] \in Nat
  BY <1>2
<1> DEFINE P == {k \in Nat : k <= n => \E m \in Nat : \A i \in 1 .. k : f[i] <= m}
<1>3. 0 \in P
  OBVIOUS
<1>4. ASSUME NEW k \in Nat, k \in P PROVE k + 1 \in P
  <2> SUFFICES ASSUME k + 1 <= n
               PROVE  \E m \in Nat : \A i \in 1 .. k + 1 : f[i] <= m
    OBVIOUS
  <2>1. PICK m \in Nat : \A i \in 1 .. k : f[i] <= m
    BY <1>4
  <2>2. f[k + 1] \in Nat /\ \A i \in 1 .. k : f[i] \in Nat
    BY <1>a
  <2>3. m + f[k + 1] \in Nat /\ \A i \in 1 .. k + 1 : f[i] <= m + f[k + 1]
    BY <2>1, <2>2
  <2> QED
    BY <2>3
<1> HIDE DEF P
<1>5. n \in P
  BY <1>3, <1>4, SetInduction
<1>6. PICK m \in Nat : \A i \in 1 .. n : f[i] <= m
  BY <1>5 DEF P
<1>7. \A x \in T : x \in Nat /\ x <= m
  BY <1>2, <1>6
<1>8. T \subseteq 0 .. m
  BY <1>7
<1> QED
  BY <1>8
=============================================================================
