------------------------- MODULE NightLocationProofs -------------------------
(***************************************************************************)
(* Proofs about the locations of a server, for any number of declarations, *)
(* nested in any way: which configurations start-up refuses, and which     *)
(* location a request is given.                                            *)
(*                                                                         *)
(* The comparison of names is an order (first part): a name is a sequence  *)
(* of weights, 0 behind its end.  The sort leaves the elements of a queue  *)
(* in that order, so equal names stand side by side and the join sees      *)
(* every duplicate.  What it leaves has its names strictly in order, and   *)
(* then the names that continue another follow it without a gap: the list  *)
(* of a location is that run, the search may skip a part for one           *)
(* comparison, and the last inclusive location it went through is the      *)
(* longest that matches.                                                   *)
(***************************************************************************)
EXTENDS NightLocations, NightLemmas

-----------------------------------------------------------------------------
(* The order of names                                                      *)

\* The codes of characters other than NUL, and the strings of them.
Code == -128..127 \ {0}
IsName(s) == s \in Seq(Code)

\* Where a character stands in the order: above 0, where a name ends, the slash
\* comes first.
Weight(c) == IF c = Slash THEN 1 ELSE IF c > 0 THEN c + 1 ELSE c
W(s, i) == Weight(Lower(CharAt(s, i)))

Positions == Nat \ {0}
Agree(s, t, n) == \A i \in 1..n : W(s, i) = W(t, i)
Differ(s, t, i) == W(s, i) < W(t, i) /\ Agree(s, t, i - 1)
Less(s, t) == \E i \in Positions : Differ(s, t, i)
Same(s, t) == \A i \in Positions : W(s, i) = W(t, i)

\* Weights are numbers, and 0 only behind the end of a name.
LEMMA WeightType ==
    ASSUME NEW s, IsName(s), NEW i \in Positions
    PROVE  /\ W(s, i) \in Int /\ (W(s, i) = 0 <=> i > Len(s))
           /\ Lower(CharAt(s, i)) \in Int
           /\ i <= Len(s) => CharAt(s, i) = s[i] /\ s[i] \in Code
           /\ i > Len(s) => Lower(CharAt(s, i)) = 0
<1>1. Len(s) \in Nat /\ (i <= Len(s) => s[i] \in Code)
  BY DEF IsName, Positions
<1>2. CASE i <= Len(s)
  <2>1. CharAt(s, i) = s[i] /\ s[i] \in Code
    BY <1>1, <1>2 DEF CharAt
  <2>2. Lower(s[i]) \in Int /\ Lower(s[i]) # 0
    BY <2>1 DEF Lower, Code
  <2>3. W(s, i) \in Int /\ W(s, i) # 0
    BY <2>1, <2>2 DEF W, Weight, Slash
  <2> QED
    BY <1>1, <1>2, <2>1, <2>2, <2>3 DEF Positions
<1>3. CASE i > Len(s)
  BY <1>1, <1>3 DEF W, Weight, Lower, CharAt, Code, Slash, Positions
<1> QED
  BY <1>1, <1>2, <1>3 DEF Positions

\* Two characters have one weight when they are the same but for case.
LEMMA WeightSame ==
    ASSUME NEW s, IsName(s), NEW t, IsName(t), NEW i \in Positions
    PROVE  W(s, i) = W(t, i) <=> Lower(CharAt(s, i)) = Lower(CharAt(t, i))
<1>1. Lower(CharAt(s, i)) \in Int /\ Lower(CharAt(t, i)) \in Int
  BY WeightType
<1> QED
  BY <1>1 DEF W, Weight, Slash

\* The sign of a comparison is that of the first difference.
LEMMA CmpSign ==
    ASSUME NEW s, IsName(s), NEW t, IsName(t), NEW n \in Nat
    PROVE  /\ filename_cmp(s, t, n) \in Int
           /\ filename_cmp(s, t, n) = 0 <=> Agree(s, t, n)
           /\ filename_cmp(s, t, n) < 0 <=> \E i \in 1..n : Differ(s, t, i)
           /\ filename_cmp(s, t, n) > 0 <=> \E i \in 1..n : Differ(t, s, i)
<1> DEFINE c1(i) == Lower(CharAt(s, i))
           c2(i) == Lower(CharAt(t, i))
           D == {i \in 1..n : c1(i) # c2(i)}
           m == Min(D)
           flat(c) == IF c = Slash THEN 0 ELSE c
<1>0. filename_cmp(s, t, n) = CASE D = {} -> 0
          [] D # {} /\ 0 \in {c1(m), c2(m)} -> c1(m) - c2(m)
          [] OTHER -> flat(c1(m)) - flat(c2(m))
  BY Zenon DEF filename_cmp
<1>1. \A i \in Positions : /\ c1(i) \in Int /\ c2(i) \in Int
                           /\ W(s, i) = Weight(c1(i)) /\ W(t, i) = Weight(c2(i))
                           /\ W(s, i) \in Int /\ W(t, i) \in Int
                           /\ (W(s, i) = W(t, i) <=> c1(i) = c2(i))
  BY WeightType, WeightSame DEF W
<1>2. 1..n \subseteq Positions
  BY DEF Positions
<1>3. CASE D = {}
  <2>1. filename_cmp(s, t, n) = 0
    BY <1>0, <1>3
  <2>2. \A i \in 1..n : W(s, i) = W(t, i)
    BY <1>1, <1>2, <1>3
  <2>3. \A i \in 1..n : ~Differ(s, t, i) /\ ~Differ(t, s, i)
    BY <1>1, <1>2, <2>2 DEF Differ
  <2> QED
    BY <2>1, <2>2, <2>3 DEF Agree
<1>4. CASE D # {}
  <2>1. PICK x \in D : \A y \in D : x <= y
    <3>1. D \subseteq Nat
      OBVIOUS
    <3> HIDE DEF D
    <3> QED
      BY <1>4, <3>1, LeastNat
  <2>2. m \in D /\ \A y \in D : m <= y
    BY <2>1 DEF Min
  <2>3. m \in 1..n /\ c1(m) # c2(m) /\ m \in Positions
    BY <1>2, <2>2
  <2>4. \A i \in 1..m - 1 : W(s, i) = W(t, i) /\ i \in 1..n
    <3> TAKE i \in 1..m - 1
    <3>1. i \in 1..n /\ ~(m <= i) /\ i \in Positions
      BY <2>3 DEF Positions
    <3>2. i \notin D
      BY <2>2, <3>1
    <3> QED
      BY <1>1, <3>1, <3>2
  <2>5. /\ c1(m) \in Int /\ c2(m) \in Int
        /\ W(s, m) = Weight(c1(m)) /\ W(t, m) = Weight(c2(m))
        /\ W(s, m) \in Int /\ W(t, m) \in Int /\ W(s, m) # W(t, m)
    BY <1>1, <2>3
  <2> HIDE DEF m
  <2>6. filename_cmp(s, t, n) = IF 0 \in {c1(m), c2(m)} THEN c1(m) - c2(m)
                                ELSE flat(c1(m)) - flat(c2(m))
    BY <1>0, <1>4
  <2> HIDE DEF c1, c2, D
  <2>7. /\ filename_cmp(s, t, n) \in Int /\ filename_cmp(s, t, n) # 0
        /\ filename_cmp(s, t, n) < 0 <=> W(s, m) < W(t, m)
        /\ filename_cmp(s, t, n) > 0 <=> W(t, m) < W(s, m)
    BY <2>3, <2>5, <2>6 DEF Weight, Slash
  <2>8. Agree(s, t, m - 1) /\ Agree(t, s, m - 1) /\ ~Agree(s, t, n)
    BY <2>3, <2>4, <2>5 DEF Agree
  <2>9. \A i \in 1..n : i # m => ~Differ(s, t, i) /\ ~Differ(t, s, i)
    <3> TAKE i \in 1..n
    <3>1. CASE i < m
      BY <1>1, <1>2, <2>3, <2>4, <3>1 DEF Differ
    <3>2. CASE i > m
      <4>1. m \in 1..i - 1
        BY <2>3, <3>2
      <4> QED
        BY <2>5, <4>1 DEF Differ, Agree
    <3> QED
      BY <2>3, <3>1, <3>2
  <2>10. (Differ(s, t, m) <=> W(s, m) < W(t, m)) /\ (Differ(t, s, m) <=> W(t, m) < W(s, m))
    BY <2>8 DEF Differ
  <2> QED
    BY <2>3, <2>7, <2>8, <2>9, <2>10
<1> QED
  BY <1>3, <1>4

\* One of two names comes first, or they are the same.
LEMMA Trichotomy ==
    ASSUME NEW s, IsName(s), NEW t, IsName(t)
    PROVE  /\ Same(s, t) \/ Less(s, t) \/ Less(t, s)
           /\ ~(Less(s, t) /\ Less(t, s)) /\ ~(Same(s, t) /\ Less(s, t))
           /\ ~(Same(s, t) /\ Less(t, s))
<1>0. \A i \in Positions : W(s, i) \in Int /\ W(t, i) \in Int
  BY WeightType
<1>1. ASSUME ~Same(s, t) PROVE Less(s, t) \/ Less(t, s)
  <2> DEFINE D == {i \in Positions : W(s, i) # W(t, i)}
  <2>1. D # {} /\ D \subseteq Nat
    BY <1>1 DEF Same, Positions
  <2>2. PICK x \in D : \A y \in D : x <= y
    <3> HIDE DEF D
    <3> QED
      BY <2>1, LeastNat
  <2>3. \A i \in 1..x - 1 : W(s, i) = W(t, i)
    BY <2>2 DEF Positions
  <2>4. Agree(s, t, x - 1) /\ Agree(t, s, x - 1)
    BY <2>3 DEF Agree
  <2>5. W(s, x) < W(t, x) \/ W(t, x) < W(s, x)
    BY <1>0, <2>2
  <2> QED
    BY <2>2, <2>4, <2>5 DEF Less, Differ
<1>2. ASSUME NEW i \in Positions, NEW j \in Positions, Differ(s, t, i), Differ(t, s, j)
      PROVE  FALSE
  <2>1. CASE i = j
    BY <1>0, <1>2, <2>1 DEF Differ
  <2>2. CASE i < j
    <3>1. i \in 1..j - 1
      BY <2>2 DEF Positions
    <3> QED
      BY <1>0, <1>2, <3>1 DEF Differ, Agree
  <2>3. CASE j < i
    <3>1. j \in 1..i - 1
      BY <2>3 DEF Positions
    <3> QED
      BY <1>0, <1>2, <3>1 DEF Differ, Agree
  <2> QED
    BY <2>1, <2>2, <2>3 DEF Positions
<1>3. ASSUME Same(s, t) PROVE ~Less(s, t) /\ ~Less(t, s)
  BY <1>0, <1>3 DEF Same, Less, Differ
<1> QED
  BY <1>1, <1>2, <1>3 DEF Less

\* The order is transitive, and what is the same name stands at the same place.
LEMMA LessTrans ==
    ASSUME NEW s, IsName(s), NEW t, IsName(t), NEW u, IsName(u)
    PROVE  /\ Less(s, t) /\ Less(t, u) => Less(s, u)
           /\ Same(s, t) /\ Less(t, u) => Less(s, u)
           /\ Less(s, t) /\ Same(t, u) => Less(s, u)
           /\ Same(s, t) /\ Same(t, u) => Same(s, u)
           /\ Same(s, t) => Same(t, s)
           /\ Same(s, s)
<1>0. \A i \in Positions : W(s, i) \in Int /\ W(t, i) \in Int /\ W(u, i) \in Int
  BY WeightType
<1>1. ASSUME NEW i \in Positions, NEW j \in Positions, Differ(s, t, i), Differ(t, u, j)
      PROVE  Less(s, u)
  <2> DEFINE k == IF i <= j THEN i ELSE j
  <2>1. k \in Positions /\ k <= i /\ k <= j /\ (k = i \/ k = j)
    BY DEF Positions
  <2> HIDE DEF k
  <2>2. \A l \in 1..k - 1 : l \in 1..i - 1 /\ l \in 1..j - 1
    BY <2>1 DEF Positions
  <2>3. Agree(s, u, k - 1)
    BY <1>1, <2>2 DEF Differ, Agree
  <2>4. W(s, k) <= W(t, k) /\ W(t, k) <= W(u, k)
    <3>1. k < i => k \in 1..i - 1
      BY <2>1 DEF Positions
    <3>2. k < j => k \in 1..j - 1
      BY <2>1 DEF Positions
    <3>3. k = i => W(s, k) < W(t, k)
      BY <1>1 DEF Differ
    <3>4. k = j => W(t, k) < W(u, k)
      BY <1>1 DEF Differ
    <3>5. k < i => W(s, k) = W(t, k)
      BY <1>1, <3>1 DEF Differ, Agree
    <3>6. k < j => W(t, k) = W(u, k)
      BY <1>1, <3>2 DEF Differ, Agree
    <3> QED
      BY <1>0, <2>1, <3>3, <3>4, <3>5, <3>6 DEF Positions
  <2>5. W(s, k) < W(t, k) \/ W(t, k) < W(u, k)
    BY <1>1, <2>1 DEF Differ
  <2>6. W(s, k) < W(u, k)
    BY <1>0, <2>1, <2>4, <2>5
  <2> QED
    BY <2>1, <2>3, <2>6 DEF Less, Differ
<1>2. Same(s, t) /\ Less(t, u) => Less(s, u)
  BY <1>0 DEF Same, Less, Differ, Agree, Positions
<1>3. Less(s, t) /\ Same(t, u) => Less(s, u)
  BY <1>0 DEF Same, Less, Differ, Agree, Positions
<1>4. /\ Same(s, t) /\ Same(t, u) => Same(s, u)
      /\ Same(s, t) => Same(t, s)
      /\ Same(s, s)
  BY DEF Same
<1> QED
  BY <1>1, <1>2, <1>3, <1>4 DEF Less

\* An interval from 1 has one end.
LEMMA SameInterval ==
    ASSUME NEW m \in Nat, NEW n \in Nat, 1..m = 1..n
    PROVE  m = n
<1>1. ASSUME NEW i \in Nat, NEW j \in Nat, 1..i = 1..j, i < j PROVE FALSE
  <2>1. j \in 1..j /\ ~(j \in 1..i)
    BY <1>1
  <2> QED
    BY <1>1, <2>1
<1> QED
  BY <1>1

\* A name that agrees with another to its end is no longer.
LEMMA AgreeLen ==
    ASSUME NEW s, IsName(s), NEW t, IsName(t), NEW n \in Nat, Agree(s, t, n)
    PROVE  /\ n <= Len(s) <=> n <= Len(t)
           /\ n > Len(s) => Same(s, t) /\ Len(s) = Len(t)
<1>0. /\ Len(s) \in Nat /\ Len(t) \in Nat
      /\ \A i \in Positions : /\ (W(s, i) = 0 <=> i > Len(s))
                              /\ (W(t, i) = 0 <=> i > Len(t))
  BY WeightType DEF IsName
<1>1. \A i \in 1..n : i > Len(s) <=> i > Len(t)
  BY <1>0 DEF Agree, Positions
<1>2. n <= Len(s) <=> n <= Len(t)
  <2>1. CASE n = 0
    BY <1>0, <2>1
  <2>2. CASE n # 0
    <3>1. n \in 1..n
      BY <2>2
    <3> QED
      BY <1>0, <1>1, <3>1
  <2> QED
    BY <2>1, <2>2
<1>3. ASSUME n > Len(s) PROVE Same(s, t) /\ Len(s) = Len(t)
  <2>1. n > Len(t)
    BY <1>0, <1>2, <1>3
  <2>2. Len(s) + 1 \in 1..n /\ Len(t) + 1 \in 1..n
    BY <1>0, <1>3, <2>1
  <2>3. Len(s) = Len(t)
    BY <1>0, <1>1, <2>2
  <2>4. \A i \in Positions : W(s, i) = W(t, i)
    <3> TAKE i \in Positions
    <3>1. CASE i \in 1..n
      BY <3>1 DEF Agree
    <3>2. CASE i \notin 1..n
      BY <1>0, <1>3, <2>1, <3>2 DEF Positions
    <3> QED
      BY <3>1, <3>2
  <2> QED
    BY <2>3, <2>4 DEF Same
<1> QED
  BY <1>2, <1>3

\* The same names are those that are equal but for case.
LEMMA SameFolded ==
    ASSUME NEW s, IsName(s), NEW t, IsName(t)
    PROVE  /\ Same(s, t) <=> Folded(s) = Folded(t)
           /\ Same(s, t) => Len(s) = Len(t)
           /\ Same(s, t) <=> Len(s) = Len(t) /\ Agree(s, t, Len(s))
<1>0. /\ Len(s) \in Nat /\ Len(t) \in Nat
      /\ DOMAIN s = 1..Len(s) /\ DOMAIN t = 1..Len(t)
      /\ \A i \in Positions : /\ (W(s, i) = 0 <=> i > Len(s))
                              /\ (W(t, i) = 0 <=> i > Len(t))
  BY WeightType DEF IsName
<1>1. \A i \in 1..Len(s) : i <= Len(t) => (W(s, i) = W(t, i) <=> Lower(s[i]) = Lower(t[i]))
  <2> TAKE i \in 1..Len(s)
  <2>1. i \in Positions
    BY DEF Positions
  <2>2. i <= Len(t) => CharAt(s, i) = s[i] /\ CharAt(t, i) = t[i]
    BY <1>0 DEF CharAt
  <2>3. W(s, i) = W(t, i) <=> Lower(CharAt(s, i)) = Lower(CharAt(t, i))
    BY <2>1, WeightSame
  <2> QED
    BY <2>2, <2>3
<1>2. Same(s, t) => Len(s) = Len(t) /\ Agree(s, t, Len(s))
  <2>1. Same(s, t) => Agree(s, t, Len(s) + 1) /\ Agree(s, t, Len(s))
    BY <1>0 DEF Same, Agree, Positions
  <2>2. Len(s) + 1 \in Nat /\ Len(s) + 1 > Len(s)
    BY <1>0
  <2>3. Agree(s, t, Len(s) + 1) => Len(s) = Len(t)
    BY <2>2, AgreeLen
  <2> QED
    BY <2>1, <2>3
<1>3. Len(s) = Len(t) /\ Agree(s, t, Len(s)) => Same(s, t)
  <2> SUFFICES ASSUME Len(s) = Len(t), Agree(s, t, Len(s)), NEW i \in Positions
               PROVE  W(s, i) = W(t, i)
    BY DEF Same
  <2>1. CASE i > Len(s)
    BY <1>0, <2>1
  <2>2. CASE i <= Len(s)
    BY <1>0, <2>2 DEF Agree, Positions
  <2> QED
    BY <1>0, <2>1, <2>2 DEF Positions
<1>4. Folded(s) = Folded(t) <=> Len(s) = Len(t) /\ \A i \in 1..Len(s) : Lower(s[i]) = Lower(t[i])
  <2>1. /\ Folded(s) = [i \in 1..Len(s) |-> Lower(s[i])]
        /\ Folded(t) = [i \in 1..Len(t) |-> Lower(t[i])]
    BY <1>0 DEF Folded
  <2>2. Folded(s) = Folded(t) => 1..Len(s) = 1..Len(t)
    <3>1. DOMAIN Folded(s) = 1..Len(s) /\ DOMAIN Folded(t) = 1..Len(t)
      BY <2>1
    <3> QED
      BY <3>1
  <2>3. 1..Len(s) = 1..Len(t) => Len(s) = Len(t)
    BY <1>0, SameInterval
  <2>4. ASSUME Folded(s) = Folded(t), Len(s) = Len(t), NEW i \in 1..Len(s)
        PROVE  Lower(s[i]) = Lower(t[i])
    <3>1. Folded(s)[i] = Lower(s[i]) /\ Folded(t)[i] = Lower(t[i])
      BY <2>1, <2>4
    <3> QED
      BY <2>4, <3>1
  <2>5. ASSUME Len(s) = Len(t), \A i \in 1..Len(s) : Lower(s[i]) = Lower(t[i])
        PROVE  Folded(s) = Folded(t)
    BY <2>1, <2>5
  <2> QED
    BY <2>2, <2>3, <2>4, <2>5
<1>5. Len(s) = Len(t) => (Agree(s, t, Len(s)) <=> \A i \in 1..Len(s) : Lower(s[i]) = Lower(t[i]))
  BY <1>0, <1>1 DEF Agree
<1> QED
  BY <1>2, <1>3, <1>4, <1>5

\* A name is a prefix of another but for case when it agrees with it to its end.
LEMMA PrefixFolded ==
    ASSUME NEW s, IsName(s), NEW t, IsName(t)
    PROVE  IsPrefix(Folded(s), Folded(t)) <=> Agree(s, t, Len(s))
<1>0. /\ Len(s) \in Nat /\ Len(t) \in Nat
      /\ DOMAIN s = 1..Len(s) /\ DOMAIN t = 1..Len(t)
      /\ s \in Seq(Code) /\ t \in Seq(Code)
  BY DEF IsName
<1> DEFINE L(x) == [i \in 1..Len(x) |-> Lower(x[i])]
<1>1. /\ Folded(s) = L(s) /\ Folded(t) = L(t)
  BY <1>0 DEF Folded
<1>2. /\ L(s) \in Seq(Int) /\ L(t) \in Seq(Int)
      /\ Len(L(s)) = Len(s) /\ Len(L(t)) = Len(t)
  <2>1. \A c \in Code : Lower(c) \in Int
    BY DEF Code, Lower
  <2>2. (\A i \in 1..Len(s) : s[i] \in Code) /\ (\A i \in 1..Len(t) : t[i] \in Code)
    BY <1>0
  <2> QED
    BY <1>0, <2>1, <2>2
<1>3. IsPrefix(L(s), L(t)) <=> /\ Len(s) <= Len(t)
                               /\ \A i \in 1..Len(s) : Lower(s[i]) = Lower(t[i])
  <2>1. ASSUME Len(s) <= Len(t)
        PROVE  /\ SubSeq(L(s), 1, Len(s)) = [i \in 1..Len(s) |-> Lower(s[i])]
               /\ SubSeq(L(t), 1, Len(s)) = [i \in 1..Len(s) |-> Lower(t[i])]
    <3>1. /\ SubSeq(L(s), 1, Len(s)) \in Seq(Int) /\ Len(SubSeq(L(s), 1, Len(s))) = Len(s)
          /\ \A i \in 1..Len(s) : SubSeq(L(s), 1, Len(s))[i] = L(s)[i]
      BY <1>0, <1>2, SubSeqProperties
    <3>2. /\ SubSeq(L(t), 1, Len(s)) \in Seq(Int) /\ Len(SubSeq(L(t), 1, Len(s))) = Len(s)
          /\ \A i \in 1..Len(s) : SubSeq(L(t), 1, Len(s))[i] = L(t)[i]
      BY <1>0, <1>2, <2>1, SubSeqProperties
    <3>3. \A i \in 1..Len(s) : L(s)[i] = Lower(s[i]) /\ L(t)[i] = Lower(t[i])
      BY <1>0, <2>1
    <3> QED
      BY <3>1, <3>2, <3>3
  <2>2. IsPrefix(L(s), L(t)) <=>
          Len(s) <= Len(t) /\ SubSeq(L(s), 1, Len(s)) = SubSeq(L(t), 1, Len(s))
    BY <1>2 DEF IsPrefix
  <2> HIDE DEF L
  <2>3. ASSUME Len(s) <= Len(t)
        PROVE  SubSeq(L(s), 1, Len(s)) = SubSeq(L(t), 1, Len(s))
                 <=> \A i \in 1..Len(s) : Lower(s[i]) = Lower(t[i])
    <3> DEFINE a == [i \in 1..Len(s) |-> Lower(s[i])]
               b == [i \in 1..Len(s) |-> Lower(t[i])]
    <3>1. a = b => \A i \in 1..Len(s) : Lower(s[i]) = Lower(t[i])
      <4>1. \A i \in 1..Len(s) : a[i] = Lower(s[i]) /\ b[i] = Lower(t[i])
        OBVIOUS
      <4> HIDE DEF a, b
      <4> QED
        BY <4>1
    <3>2. (\A i \in 1..Len(s) : Lower(s[i]) = Lower(t[i])) => a = b
      OBVIOUS
    <3> QED
      BY <2>1, <2>3, <3>1, <3>2
  <2> QED
    BY <2>2, <2>3
<1>4. \A i \in 1..Len(s) : i <= Len(t) => (W(s, i) = W(t, i) <=> Lower(s[i]) = Lower(t[i]))
  <2> TAKE i \in 1..Len(s)
  <2>1. i \in Positions
    BY DEF Positions
  <2>2. i <= Len(t) => CharAt(s, i) = s[i] /\ CharAt(t, i) = t[i]
    BY <1>0 DEF CharAt
  <2>3. W(s, i) = W(t, i) <=> Lower(CharAt(s, i)) = Lower(CharAt(t, i))
    BY <2>1, WeightSame
  <2> QED
    BY <2>2, <2>3
<1>5. Agree(s, t, Len(s)) => Len(s) <= Len(t)
  BY <1>0, AgreeLen
<1>6. Len(s) <= Len(t) =>
        (Agree(s, t, Len(s)) <=> \A i \in 1..Len(s) : Lower(s[i]) = Lower(t[i]))
  BY <1>0, <1>4 DEF Agree
<1> QED
  BY <1>1, <1>3, <1>5, <1>6

-----------------------------------------------------------------------------
(* Elements of a queue                                                     *)

\* Elements with a location of either kind.
Elements == [name : Seq(Code), exact : Nat, inclusive : Nat]

\* a may stand before b in a sorted queue.
Ordered(a, b) == \/ Less(a.name, b.name)
                 \/ Same(a.name, b.name) /\ (a.exact # 0 \/ b.exact = 0)

\* What the comparison of two elements says of them.
LEMMA CmpLocations ==
    ASSUME NEW a \in Elements, NEW b \in Elements
    PROVE  /\ cmp_locations(a, b) \in Int
           /\ cmp_locations(a, b) <= 0 <=> Ordered(a, b)
<1> DEFINE s == a.name
           t == b.name
           n == Min({Len(s), Len(t)}) + 1
           rc == filename_cmp(s, t, n)
<1>0. IsName(s) /\ IsName(t) /\ Len(s) \in Nat /\ Len(t) \in Nat
      /\ a.exact \in Nat /\ b.exact \in Nat
  BY DEF Elements, IsName
<1>1. n \in Nat /\ n \in Positions /\ (n > Len(s) \/ n > Len(t))
      /\ n = (IF Len(s) <= Len(t) THEN Len(s) ELSE Len(t)) + 1
  BY <1>0 DEF Min, Positions
<1>2. cmp_locations(a, b) = IF rc = 0 /\ a.exact = 0 /\ b.exact # 0 THEN 1 ELSE rc
  BY DEF cmp_locations
<1> HIDE DEF s, t, n
<1>3. /\ rc \in Int /\ (rc = 0 <=> Agree(s, t, n))
      /\ (rc < 0 <=> \E i \in 1..n : Differ(s, t, i))
      /\ (rc > 0 <=> \E i \in 1..n : Differ(t, s, i))
  BY <1>0, <1>1, CmpSign
<1>4. Agree(s, t, n) <=> Same(s, t)
  <2>1. Same(s, t) => Agree(s, t, n)
    BY <1>1 DEF Same, Agree, Positions
  <2>2. Agree(s, t, n) => Same(s, t)
    BY <1>0, <1>1, AgreeLen
  <2> QED
    BY <2>1, <2>2
<1>5. rc < 0 => Less(s, t)
  BY <1>1, <1>3 DEF Less, Positions
<1>6. rc > 0 => Less(t, s)
  BY <1>1, <1>3 DEF Less, Positions
<1> HIDE DEF rc
<1>7. rc <= 0 <=> Less(s, t) \/ Same(s, t)
  BY <1>0, <1>3, <1>4, <1>5, <1>6, Trichotomy
<1>8. rc = 0 <=> Same(s, t)
  BY <1>3, <1>4
<1>9. rc < 0 <=> Less(s, t)
  BY <1>0, <1>3, <1>4, <1>5, <1>6, Trichotomy
<1> QED
  BY <1>0, <1>2, <1>3, <1>7, <1>8, <1>9, Trichotomy DEF Ordered, s, t

\* The tests of the queue's functions, in terms of the order.
LEMMA NameTests ==
    ASSUME NEW a \in Elements, NEW b \in Elements
    PROVE  /\ SameName(a, b) <=> Same(a.name, b.name)
           /\ Continues(a, b.name) <=> Agree(b.name, a.name, Len(b.name))
<1>0. IsName(a.name) /\ IsName(b.name) /\ Len(a.name) \in Nat /\ Len(b.name) \in Nat
  BY DEF Elements, IsName
<1>1. /\ (filename_cmp(a.name, b.name, Len(b.name)) = 0 <=> Agree(a.name, b.name, Len(b.name)))
      /\ (filename_cmp(b.name, a.name, Len(b.name)) = 0 <=> Agree(b.name, a.name, Len(b.name)))
  BY <1>0, CmpSign
<1>2. Same(a.name, b.name) <=> Len(a.name) = Len(b.name) /\ Agree(a.name, b.name, Len(a.name))
  BY <1>0, SameFolded
<1>3. Agree(b.name, a.name, Len(b.name)) => Len(b.name) <= Len(a.name)
  BY <1>0, AgreeLen
<1> QED
  BY <1>1, <1>2, <1>3 DEF SameName, Continues

-----------------------------------------------------------------------------
(* Sorting                                                                 *)

Elems(q) == {q[i] : i \in 1..Len(q)}
Distinct(q) == \A i, j \in 1..Len(q) : q[i] = q[j] => i = j
Sorted(q) == \A i, j \in 1..Len(q) : i < j => Ordered(q[i], q[j])

\* Any two elements are in order one way round, and the order is transitive.
LEMMA OrderedTotal ==
    ASSUME NEW a \in Elements, NEW b \in Elements, NEW c \in Elements
    PROVE  /\ Ordered(a, b) \/ Ordered(b, a)
           /\ Ordered(a, b) /\ Ordered(b, c) => Ordered(a, c)
<1>1. IsName(a.name) /\ IsName(b.name) /\ IsName(c.name)
  BY DEF Elements, IsName
<1>2. Same(a.name, b.name) \/ Less(a.name, b.name) \/ Less(b.name, a.name)
  BY <1>1, Trichotomy
<1>3. Same(a.name, b.name) => Same(b.name, a.name)
  BY <1>1, LessTrans
<1>4. /\ Less(a.name, b.name) /\ Less(b.name, c.name) => Less(a.name, c.name)
      /\ Same(a.name, b.name) /\ Less(b.name, c.name) => Less(a.name, c.name)
      /\ Less(a.name, b.name) /\ Same(b.name, c.name) => Less(a.name, c.name)
      /\ Same(a.name, b.name) /\ Same(b.name, c.name) => Same(a.name, c.name)
  BY <1>1, LessTrans
<1> QED
  BY <1>2, <1>3, <1>4 DEF Ordered

\* u is s with x put in at p.
Inserted(u, s, p, x) ==
    /\ p \in 1..Len(s) + 1 /\ Len(u) = Len(s) + 1 /\ u[p] = x
    /\ \A i \in 1..p - 1 : u[i] = s[i]
    /\ \A i \in p..Len(s) : u[i + 1] = s[i]

\* InsertAt puts an element in at a place.
LEMMA InsertAtIs ==
    ASSUME NEW S, NEW s \in Seq(S), NEW x \in S, NEW p \in 1..Len(s) + 1
    PROVE  /\ InsertAt(s, p, x) \in Seq(S)
           /\ Inserted(InsertAt(s, p, x), s, p, x)
<1>0. Len(s) \in Nat /\ p \in Nat /\ p >= 1 /\ p <= Len(s) + 1
  OBVIOUS
<1> DEFINE a == SubSeq(s, 1, p - 1)
           b == SubSeq(s, p, Len(s))
<1>1. a \in Seq(S) /\ Len(a) = p - 1 /\ \A i \in 1..p - 1 : a[i] = s[i]
  <2>1. \A i \in 1..p - 1 : s[i] \in S /\ i \in 1..Len(s)
    BY <1>0
  <2>2. Len(a) = IF 1 <= p - 1 THEN (p - 1) - 1 + 1 ELSE 0
    BY <1>0, <2>1, SubSeqProperties
  <2>3. a \in Seq(S) /\ \A i \in 1..p - 1 : a[i] = s[1 + i - 1]
    BY <1>0, <2>1, SubSeqProperties
  <2> QED
    BY <1>0, <2>2, <2>3
<1>2. b \in Seq(S) /\ Len(b) = Len(s) - p + 1 /\ \A i \in 1..Len(s) - p + 1 : b[i] = s[p + i - 1]
  <2>1. \A i \in p..Len(s) : s[i] \in S /\ i \in 1..Len(s)
    BY <1>0
  <2>2. Len(b) = IF p <= Len(s) THEN Len(s) - p + 1 ELSE 0
    BY <1>0, <2>1, SubSeqProperties
  <2>3. b \in Seq(S) /\ \A i \in 1..Len(s) - p + 1 : b[i] = s[p + i - 1]
    BY <1>0, <2>1, SubSeqProperties
  <2> QED
    BY <1>0, <2>2, <2>3
<1> DEFINE u == InsertAt(s, p, x)
<1>3. u = a \o <<x>> \o b
  BY DEF InsertAt
<1> HIDE DEF a, b, u
<1> DEFINE v == a \o <<x>>
<1>4. v \in Seq(S) /\ Len(v) = p /\ v[p] = x /\ \A i \in 1..p - 1 : v[i] = s[i]
  <2>1. <<x>> \in Seq(S) /\ Len(<<x>>) = 1 /\ <<x>>[1] = x
    OBVIOUS
  <2>2. v \in Seq(S) /\ Len(v) = p
    BY <1>0, <1>1, <2>1, ConcatProperties
  <2>3. \A i \in 1..p : v[i] = IF i <= p - 1 THEN a[i] ELSE <<x>>[i - (p - 1)]
    BY <1>0, <1>1, <2>1, ConcatProperties
  <2>4. p \in 1..p /\ ~(p <= p - 1) /\ p - (p - 1) = 1
    BY <1>0
  <2>5. v[p] = <<x>>[1]
    BY <2>3, <2>4
  <2> QED
    BY <1>0, <1>1, <2>1, <2>2, <2>3, <2>5
<1> HIDE DEF v
<1>5. u = v \o b
  BY <1>3 DEF v
<1>6. u \in Seq(S) /\ Len(u) = Len(s) + 1
      /\ \A i \in 1..Len(s) + 1 : u[i] = IF i <= p THEN v[i] ELSE b[i - p]
  <2>1. Len(v) + Len(b) = Len(s) + 1 /\ Len(v) = p
    BY <1>0, <1>2, <1>4
  <2>2. u \in Seq(S) /\ Len(u) = Len(v) + Len(b)
        /\ \A i \in 1..Len(v) + Len(b) : u[i] = IF i <= Len(v) THEN v[i] ELSE b[i - Len(v)]
    BY <1>2, <1>4, <1>5, ConcatProperties
  <2> QED
    BY <2>1, <2>2
<1>7. \A i \in p..Len(s) : u[i + 1] = s[i]
  <2> TAKE i \in p..Len(s)
  <2>1. i + 1 \in 1..Len(s) + 1 /\ ~(i + 1 <= p) /\ (i + 1) - p \in 1..Len(s) - p + 1
        /\ p + ((i + 1) - p) - 1 = i
    BY <1>0
  <2> QED
    BY <1>2, <1>6, <2>1
<1>8. u[p] = x /\ \A i \in 1..p - 1 : u[i] = s[i]
  BY <1>0, <1>4, <1>6
<1> QED
  BY <1>0, <1>6, <1>7, <1>8 DEF u, Inserted

\* Where a turn of the sort puts an element.
LEMMA InsertPlace ==
    ASSUME NEW s \in Seq(Elements), NEW x \in Elements
    PROVE  /\ Insert(s, x) \in Seq(Elements)
           /\ \E p \in 1..Len(s) + 1 :
                 /\ Inserted(Insert(s, x), s, p, x)
                 /\ p > 1 => Ordered(s[p - 1], x)
                 /\ \A i \in p..Len(s) : ~Ordered(s[i], x)
<1> DEFINE le == {i \in DOMAIN s : cmp_locations(s[i], x) <= 0}
           p == IF le = {} THEN 1 ELSE Max(le) + 1
<1>1. Insert(s, x) = InsertAt(s, p, x)
  BY DEF Insert
<1>2. le = {i \in 1..Len(s) : Ordered(s[i], x)} /\ Len(s) \in Nat
  <2>1. DOMAIN s = 1..Len(s) /\ Len(s) \in Nat /\ \A i \in 1..Len(s) : s[i] \in Elements
    OBVIOUS
  <2>2. \A i \in 1..Len(s) : cmp_locations(s[i], x) <= 0 <=> Ordered(s[i], x)
    BY <2>1, CmpLocations
  <2> QED
    BY <2>1, <2>2
<1>3. CASE le = {}
  <2>1. p = 1 /\ p \in 1..Len(s) + 1 /\ \A i \in p..Len(s) : ~Ordered(s[i], x)
    BY <1>2, <1>3
  <2> HIDE DEF p
  <2> QED
    BY <1>1, <2>1, InsertAtIs
<1>4. CASE le # {}
  <2>1. PICK m \in le : \A y \in le : m >= y
    <3>1. le \subseteq 0..Len(s)
      BY <1>2
    <3> HIDE DEF le
    <3> QED
      BY <1>2, <1>4, <3>1, GreatestNat
  <2>2. Max(le) \in le /\ \A y \in le : Max(le) >= y
    <3> HIDE DEF le
    <3> QED
      BY <2>1 DEF Max
  <2>3. Max(le) \in 1..Len(s) /\ Ordered(s[Max(le)], x)
    BY <1>2, <2>2
  <2>4. p = Max(le) + 1 /\ p \in 1..Len(s) + 1 /\ p - 1 = Max(le)
    BY <1>2, <1>4, <2>3
  <2>5. \A i \in p..Len(s) : ~Ordered(s[i], x)
    <3> TAKE i \in p..Len(s)
    <3>1. i \in 1..Len(s) /\ ~(Max(le) >= i)
      BY <1>2, <2>3, <2>4
    <3>2. i \notin le
      BY <2>2, <3>1
    <3> QED
      BY <1>2, <3>1, <3>2
  <2> HIDE DEF p, le
  <2>6. Ordered(s[p - 1], x)
    BY <2>3, <2>4
  <2> QED
    BY <1>1, <2>4, <2>5, <2>6, InsertAtIs
<1> QED
  BY <1>3, <1>4

\* A turn keeps what is sorted sorted and adds one element.
LEMMA InsertSorts ==
    ASSUME NEW s \in Seq(Elements), NEW x \in Elements
    PROVE  /\ Sorted(s) => Sorted(Insert(s, x))
           /\ Elems(Insert(s, x)) = Elems(s) \cup {x}
           /\ Distinct(s) /\ x \notin Elems(s) => Distinct(Insert(s, x))
<1> DEFINE u == Insert(s, x)
<1>1. u \in Seq(Elements)
  BY InsertPlace
<1>2. PICK p \in 1..Len(s) + 1 :
         /\ Inserted(u, s, p, x)
         /\ p > 1 => Ordered(s[p - 1], x)
         /\ \A i \in p..Len(s) : ~Ordered(s[i], x)
  BY InsertPlace
<1> HIDE DEF u
<1>3. /\ Len(s) \in Nat /\ p \in Nat /\ p >= 1 /\ p <= Len(s) + 1
      /\ Len(u) = Len(s) + 1 /\ u[p] = x
      /\ \A i \in 1..p - 1 : u[i] = s[i]
      /\ \A i \in p..Len(s) : u[i + 1] = s[i]
      /\ \A i \in 1..Len(s) : s[i] \in Elements
  BY <1>2 DEF Inserted
<1>4. \A i \in 1..Len(u) : \/ i < p /\ i \in 1..Len(s) /\ u[i] = s[i]
                           \/ i = p /\ u[i] = x
                           \/ i > p /\ i - 1 \in 1..Len(s) /\ i - 1 \in p..Len(s) /\ u[i] = s[i - 1]
  <2> TAKE i \in 1..Len(u)
  <2>1. CASE i < p
    BY <1>3, <2>1
  <2>2. CASE i > p
    <3>1. i - 1 \in p..Len(s) /\ (i - 1) + 1 = i /\ i - 1 \in 1..Len(s)
      BY <1>3, <2>2
    <3> QED
      BY <1>3, <2>2, <3>1
  <2> QED
    BY <1>3, <2>1, <2>2
<1>5. ASSUME Sorted(s) PROVE Sorted(u)
  <2>1. \A i \in 1..Len(s) : i < p => Ordered(s[i], x)
    <3> TAKE i \in 1..Len(s)
    <3> HAVE i < p
    <3>1. p - 1 \in 1..Len(s) /\ (i = p - 1 \/ i < p - 1) /\ p > 1
      BY <1>3
    <3>2. i < p - 1 => Ordered(s[i], s[p - 1])
      BY <1>5, <3>1 DEF Sorted
    <3> QED
      BY <1>2, <1>3, <3>1, <3>2, OrderedTotal
  <2>2. \A i \in p..Len(s) : Ordered(x, s[i])
    BY <1>2, <1>3, OrderedTotal
  <2>3. ASSUME NEW i \in 1..Len(u), NEW j \in 1..Len(u), i < j PROVE Ordered(u[i], u[j])
    <3>1. CASE j < p
      BY <1>3, <1>4, <1>5, <2>3, <3>1 DEF Sorted
    <3>2. CASE j = p
      BY <1>3, <1>4, <2>1, <2>3, <3>2
    <3>3. CASE j > p /\ i = p
      BY <1>3, <1>4, <2>2, <3>3
    <3>4. CASE j > p /\ i < p
      <4>1. i \in 1..Len(s) /\ j - 1 \in 1..Len(s) /\ i < j - 1 /\ u[i] = s[i] /\ u[j] = s[j - 1]
        BY <1>3, <1>4, <3>4
      <4> QED
        BY <1>5, <4>1 DEF Sorted
    <3>5. CASE j > p /\ i > p
      <4>1. i - 1 \in 1..Len(s) /\ j - 1 \in 1..Len(s) /\ i - 1 < j - 1
            /\ u[i] = s[i - 1] /\ u[j] = s[j - 1]
        BY <1>3, <1>4, <2>3, <3>5
      <4> QED
        BY <1>5, <4>1 DEF Sorted
    <3> QED
      BY <1>3, <3>1, <3>2, <3>3, <3>4, <3>5
  <2> QED
    BY <2>3 DEF Sorted
<1>6. Elems(u) = Elems(s) \cup {x}
  <2>1. \A i \in 1..Len(u) : u[i] \in Elems(s) \cup {x}
    BY <1>4 DEF Elems
  <2>2. p \in 1..Len(u) /\ u[p] = x
    BY <1>3
  <2>3. \A i \in 1..Len(s) : \E j \in 1..Len(u) : u[j] = s[i]
    <3> TAKE i \in 1..Len(s)
    <3>1. CASE i < p
      <4>1. i \in 1..p - 1 /\ i \in 1..Len(u)
        BY <1>3, <3>1
      <4> QED
        BY <1>3, <4>1
    <3>2. CASE i >= p
      <4>1. i \in p..Len(s) /\ i + 1 \in 1..Len(u)
        BY <1>3, <3>2
      <4> QED
        BY <1>3, <4>1
    <3> QED
      BY <1>3, <3>1, <3>2
  <2> QED
    BY <2>1, <2>2, <2>3 DEF Elems
<1>7. ASSUME Distinct(s), x \notin Elems(s) PROVE Distinct(u)
  <2>1. \A i \in 1..Len(s) : s[i] # x
    BY <1>7 DEF Elems
  <2>2. ASSUME NEW i \in 1..Len(u), NEW j \in 1..Len(u), u[i] = u[j] PROVE i = j
    <3> DEFINE h(k) == IF k < p THEN k ELSE k - 1
    <3>1. \A k \in 1..Len(u) : k # p => h(k) \in 1..Len(s) /\ u[k] = s[h(k)]
      BY <1>3, <1>4
    <3>2. CASE i = p \/ j = p
      BY <1>3, <2>1, <2>2, <3>1, <3>2
    <3>3. CASE i # p /\ j # p
      <4>1. h(i) = h(j)
        BY <1>7, <2>2, <3>1, <3>3 DEF Distinct
      <4> QED
        BY <1>3, <3>3, <4>1
    <3> QED
      BY <3>2, <3>3
  <2> QED
    BY <2>2 DEF Distinct
<1> QED
  BY <1>5, <1>6, <1>7 DEF u

-----------------------------------------------------------------------------
(* Loops                                                                   *)

\* g is the turns of a loop with states S, d a run of it from x.
IsTurns(g, n, S) == n \in Nat /\ g \in [1..n -> [S -> S]]
IsRun(d, n, S, x, g) == /\ d \in [0..n -> S] /\ d[0] = x
                        /\ \A k \in 1..n : d[k] = g[k][d[k - 1]]

\* There is a run from every start.
LEMMA RunExists ==
    ASSUME NEW n, NEW S, NEW x \in S, NEW g, IsTurns(g, n, S)
    PROVE  \E d : IsRun(d, n, S, x, g)
<1>1. n \in Nat /\ g \in [1..n -> [S -> S]]
  BY DEF IsTurns
<1>2. \E d \in [0..n -> S] : d[0] = x /\ \A k \in 1..n : d[k] = g[k][d[k - 1]]
  BY <1>1, RecursionExists
<1> QED
  BY <1>2 DEF IsRun

\* A function that takes the loop's turns as long as its states are the loop's.
IsAfter(f, n, S, x, g) == /\ \E h : f = [k \in 0..n |-> h[k]]
                          /\ f[0] = x
                          /\ \A k \in 1..n : f[k - 1] \in S => f[k] = g[k][f[k - 1]]

\* It is the run of the loop.
LEMMA AfterRuns ==
    ASSUME NEW n, NEW S, NEW x \in S, NEW g, IsTurns(g, n, S),
           NEW f, IsAfter(f, n, S, x, g)
    PROVE  IsRun(f, n, S, x, g)
<1>1. n \in Nat /\ g \in [1..n -> [S -> S]]
  BY DEF IsTurns
<1>2. PICK h : f = [k \in 0..n |-> h[k]]
  BY DEF IsAfter
<1>3. f[0] = x /\ \A k \in 1..n : f[k - 1] \in S => f[k] = g[k][f[k - 1]]
  BY DEF IsAfter
<1> DEFINE P == {k \in Nat : k <= n => f[k] \in S}
<1>4. 0 \in P
  BY <1>3
<1>5. ASSUME NEW k \in Nat, k \in P PROVE k + 1 \in P
  <2> SUFFICES ASSUME k + 1 <= n PROVE f[k + 1] \in S
    OBVIOUS
  <2>1. f[k] \in S
    BY <1>1, <1>5
  <2>2. k + 1 \in 1..n /\ (k + 1) - 1 = k
    BY <1>1
  <2>3. f[k + 1] = g[k + 1][f[k]]
    BY <1>3, <2>1, <2>2
  <2> QED
    BY <1>1, <2>1, <2>2, <2>3
<1> HIDE DEF P
<1>6. Nat \subseteq P
  BY <1>4, <1>5, SetInduction
<1>7. \A k \in 0..n : f[k] \in S
  BY <1>1, <1>6 DEF P
<1>8. f \in [0..n -> S]
  BY <1>2, <1>7
<1>9. \A k \in 1..n : k - 1 \in 0..n
  BY <1>1
<1> QED
  BY <1>3, <1>7, <1>8, <1>9 DEF IsRun

\* The loop of night_queue_sort.
LEMMA SortRuns ==
    ASSUME NEW q \in Seq(Elements)
    PROVE  \E d : /\ d \in [0..Len(q) -> Seq(Elements)] /\ d[0] = <<>>
                  /\ \A k \in 1..Len(q) : d[k] = Insert(d[k - 1], q[k])
                  /\ queue_sort(q) = d[Len(q)]
<1> DEFINE S == Seq(Elements)
           n == Len(q)
           F(f) == [k \in 0..n |-> IF k = 0 THEN <<>> ELSE Insert(f[k - 1], q[k])]
           after == CHOOSE f : f = F(f)
           g == [k \in 1..n |-> [s \in S |-> Insert(s, q[k])]]
<1>1. queue_sort(q) = after[n]
  BY Zenon DEF queue_sort, After
<1>2. n \in Nat /\ <<>> \in S /\ \A k \in 1..n : q[k] \in Elements
  OBVIOUS
<1>3. IsTurns(g, n, S)
  <2>1. \A k \in 1..n, s \in S : Insert(s, q[k]) \in S
    BY <1>2, InsertPlace
  <2> HIDE DEF S, n
  <2> QED
    BY <1>2, <2>1 DEF IsTurns
<1>4. \A k \in 1..n, s \in S : g[k][s] = Insert(s, q[k])
  OBVIOUS
<1> HIDE DEF g, S, n
<1>5. PICK d : IsRun(d, n, S, <<>>, g)
  BY <1>2, <1>3, RunExists
<1>6. d = F(d)
  <2>1. d \in [0..n -> S] /\ d[0] = <<>>
    BY <1>5 DEF IsRun
  <2>2. \A k \in 1..n : d[k] = Insert(d[k - 1], q[k])
    <3> TAKE k \in 1..n
    <3>1. k - 1 \in 0..n
      BY <1>2
    <3>2. d[k - 1] \in S
      BY <2>1, <3>1
    <3> QED
      BY <1>4, <1>5, <3>2 DEF IsRun
  <2>3. \A k \in 0..n : k = 0 \/ k \in 1..n
    BY <1>2
  <2>4. \A k \in 0..n : d[k] = IF k = 0 THEN <<>> ELSE Insert(d[k - 1], q[k])
    <3> TAKE k \in 0..n
    <3> QED
      BY <2>1, <2>2, <2>3
  <2> QED
    BY <2>1, <2>4
<1>7. after = F(after)
  <2> HIDE DEF F
  <2> QED
    BY <1>6
<1> HIDE DEF after
<1>8. IsAfter(after, n, S, <<>>, g)
  <2>1. \E h : after = [k \in 0..n |-> h[k]]
    <3>1. after = [k \in 0..n |-> after[k]]
      BY <1>7
    <3> QED
      BY <3>1
  <2>2. after[0] = <<>> /\ \A k \in 1..n : after[k] = Insert(after[k - 1], q[k])
    BY <1>2, <1>7
  <2> QED
    BY <1>4, <2>1, <2>2 DEF IsAfter
<1>9. IsRun(after, n, S, <<>>, g)
  BY <1>2, <1>3, <1>8, AfterRuns
<1>10. \A k \in 1..n : after[k] = Insert(after[k - 1], q[k])
  BY <1>2, <1>7
<1> QED
  BY <1>1, <1>9, <1>10 DEF IsRun, S, n

\* What the sort leaves: the elements of the queue, in order.
LEMMA SortSorts ==
    ASSUME NEW q \in Seq(Elements)
    PROVE  /\ queue_sort(q) \in Seq(Elements) /\ Sorted(queue_sort(q))
           /\ Elems(queue_sort(q)) = Elems(q)
           /\ Distinct(q) => Distinct(queue_sort(q))
<1>1. PICK d : /\ d \in [0..Len(q) -> Seq(Elements)] /\ d[0] = <<>>
               /\ \A k \in 1..Len(q) : d[k] = Insert(d[k - 1], q[k])
               /\ queue_sort(q) = d[Len(q)]
  BY SortRuns
<1> DEFINE Done(k) == /\ Sorted(d[k]) /\ Elems(d[k]) = {q[i] : i \in 1..k}
                      /\ Distinct(q) => Distinct(d[k])
           P == {k \in Nat : k <= Len(q) => Done(k)}
<1>2. Len(q) \in Nat /\ \A k \in 1..Len(q) : q[k] \in Elements
  OBVIOUS
<1>3. 0 \in P
  <2>1. d[0] = <<>> /\ Len(<<>>) = 0
    BY <1>1
  <2>2. Sorted(<<>>) /\ Distinct(<<>>) /\ Elems(<<>>) = {}
    BY DEF Sorted, Distinct, Elems
  <2> QED
    BY <2>1, <2>2
<1>4. ASSUME NEW k \in Nat, k \in P PROVE k + 1 \in P
  <2> SUFFICES ASSUME k + 1 <= Len(q) PROVE Done(k + 1)
    OBVIOUS
  <2>1. Done(k)
    BY <1>2, <1>4
  <2>2. k + 1 \in 1..Len(q) /\ (k + 1) - 1 = k /\ k \in 0..Len(q)
    BY <1>2
  <2>3. /\ d[k] \in Seq(Elements) /\ q[k + 1] \in Elements
        /\ d[k + 1] = Insert(d[k], q[k + 1])
    BY <1>1, <1>2, <2>2
  <2>4. /\ Sorted(d[k]) => Sorted(d[k + 1])
        /\ Elems(d[k + 1]) = Elems(d[k]) \cup {q[k + 1]}
        /\ Distinct(d[k]) /\ q[k + 1] \notin Elems(d[k]) => Distinct(d[k + 1])
    BY <2>3, InsertSorts
  <2>5. Elems(d[k + 1]) = {q[i] : i \in 1..k + 1}
    <3>1. 1..k + 1 = (1..k) \cup {k + 1}
      OBVIOUS
    <3> QED
      BY <2>1, <2>4, <3>1
  <2>6. Distinct(q) => q[k + 1] \notin Elems(d[k])
    <3>1. \A i \in 1..k : i \in 1..Len(q) /\ i # k + 1
      BY <2>2
    <3> QED
      BY <2>1, <2>2, <3>1 DEF Distinct
  <2> QED
    BY <2>1, <2>4, <2>5, <2>6
<1> HIDE DEF P
<1>5. Len(q) \in P
  BY <1>2, <1>3, <1>4, SetInduction
<1>6. Done(Len(q)) /\ d[Len(q)] \in Seq(Elements)
  <2>1. Len(q) \in 0..Len(q) /\ Len(q) <= Len(q)
    BY <1>2
  <2> QED
    BY <1>1, <1>5, <2>1 DEF P
<1> QED
  BY <1>1, <1>6 DEF Elems

-----------------------------------------------------------------------------
(* Joining                                                                 *)

\* A queue whose elements are single locations, and two of them that clash.
Single(a) == (a.exact = 0) <=> (a.inclusive # 0)
Singles(q) == q \in Seq(Elements) /\ \A i \in 1..Len(q) : Single(q[i])
Twice(q) == \E i, j \in 1..Len(q) : i # j /\ Same(q[i].name, q[j].name) /\ Clash(q[i], q[j])

\* The fields of the elements of a queue.
LEMMA QueueType ==
    ASSUME NEW q \in Seq(Elements)
    PROVE  /\ Len(q) \in Nat
           /\ \A i \in 1..Len(q) : /\ q[i] \in Elements /\ IsName(q[i].name)
                                   /\ q[i].exact \in Nat /\ q[i].inclusive \in Nat
<1>1. Len(q) \in Nat /\ \A i \in 1..Len(q) : q[i] \in Elements
  OBVIOUS
<1>2. \A a \in Elements : IsName(a.name) /\ a.exact \in Nat /\ a.inclusive \in Nat
  BY DEF Elements, IsName
<1> QED
  BY <1>1, <1>2

\* What the joined queue has to do with the first k elements it is made from.
Strict(Q) == \A i, j \in 1..Len(Q) : i < j => Less(Q[i].name, Q[j].name)
Holds(a, b) == /\ Same(a.name, b.name)
               /\ b.exact # 0 => a.exact = b.exact
               /\ b.inclusive # 0 => a.inclusive = b.inclusive
Covers(Q, q, k) == \A i \in 1..k : \E p \in 1..Len(Q) : Holds(Q[p], q[i])
Comes(a, q, k) ==
    /\ a.exact # 0 \/ a.inclusive # 0
    /\ a.exact # 0 => \E i \in 1..k : q[i].exact = a.exact /\ Same(q[i].name, a.name)
    /\ a.inclusive # 0 => \E i \in 1..k : q[i].inclusive = a.inclusive /\ Same(q[i].name, a.name)
NoneTwice(q, k) ==
    \A i, j \in 1..k : i # j /\ Same(q[i].name, q[j].name) => ~Clash(q[i], q[j])
EndsWith(Q, q, k) == k > 0 => Q # <<>> /\ Same(Q[Len(Q)].name, q[k].name)
JoinedTo(Q, q, k) == /\ Strict(Q) /\ Covers(Q, q, k) /\ NoneTwice(q, k) /\ EndsWith(Q, q, k)
                     /\ \A p \in 1..Len(Q) : Comes(Q[p], q, k)

JoinStates == [rc : {"OK", "ERROR"}, queue : Seq(Elements)]
JoinOK(s, q, k) == /\ s.rc = "OK" => JoinedTo(s.queue, q, k)
                   /\ s.rc = "ERROR" => Twice(q)

\* A turn of night_http_join_exact_locations.
LEMMA JoinTurn ==
    ASSUME NEW s \in JoinStates, NEW x \in Elements
    PROVE  /\ Join(s, x) \in JoinStates
           /\ s.rc = "ERROR" => Join(s, x) = s
           /\ s.rc = "OK" /\ (s.queue = <<>> \/ ~Same(s.queue[Len(s.queue)].name, x.name)) =>
                Join(s, x).rc = "OK" /\ Join(s, x).queue = Append(s.queue, x)
           /\ s.rc = "OK" /\ s.queue # <<>> /\ Same(s.queue[Len(s.queue)].name, x.name) =>
                LET a == s.queue[Len(s.queue)] IN
                IF Clash(a, x) THEN Join(s, x).rc = "ERROR"
                ELSE /\ Join(s, x).rc = "OK"
                     /\ Join(s, x).queue =
                          [s.queue EXCEPT ![Len(s.queue)] = [a EXCEPT !.inclusive = x.inclusive]]
<1> DEFINE Q == s.queue
           a == Q[Len(Q)]
<1>1. Q \in Seq(Elements) /\ s.rc \in {"OK", "ERROR"} /\ s = [rc |-> s.rc, queue |-> Q]
  BY DEF JoinStates
<1>2. Append(Q, x) \in Seq(Elements)
  BY <1>1
<1>3. Q # <<>> => Len(Q) \in 1..Len(Q) /\ a \in Elements
  BY <1>1
<1>4. Q # <<>> => (SameName(Last(Q), x) <=> Same(a.name, x.name)) /\ Last(Q) = a
  BY <1>3, NameTests DEF Last
<1>5. Q # <<>> => [Q EXCEPT ![Len(Q)] = [a EXCEPT !.inclusive = x.inclusive]] \in Seq(Elements)
  <2> SUFFICES ASSUME Q # <<>>
               PROVE  [Q EXCEPT ![Len(Q)] = [a EXCEPT !.inclusive = x.inclusive]] \in Seq(Elements)
    OBVIOUS
  <2>1. [a EXCEPT !.inclusive = x.inclusive] \in Elements
    BY <1>3 DEF Elements
  <2> HIDE DEF a, Q
  <2> QED
    BY <1>1, <1>3, <2>1
<1>6. Q # <<>> => [s EXCEPT !.queue[Len(s.queue)].inclusive = x.inclusive]
                  = [rc |-> s.rc, queue |->
                       [Q EXCEPT ![Len(Q)] = [a EXCEPT !.inclusive = x.inclusive]]]
  <2>1. [s EXCEPT !.queue[Len(s.queue)].inclusive = x.inclusive]
        = [s EXCEPT !.queue = [Q EXCEPT ![Len(Q)] = [Q[Len(Q)] EXCEPT !.inclusive = x.inclusive]]]
    BY <1>3
  <2>2. \A R : [s EXCEPT !.queue = R] = [rc |-> s.rc, queue |-> R]
    BY DEF JoinStates
  <2> HIDE DEF Q
  <2> QED
    BY <2>1, <2>2
<1>7. /\ [s EXCEPT !.queue = Append(s.queue, x)] = [rc |-> s.rc, queue |-> Append(Q, x)]
      /\ [s EXCEPT !.rc = "ERROR"] = [rc |-> "ERROR", queue |-> Q]
  BY <1>1
<1>8. CASE s.rc = "ERROR"
  BY <1>8 DEF Join
<1>9. CASE s.rc = "OK" /\ (Q = <<>> \/ ~Same(a.name, x.name))
  <2>1. Join(s, x) = [rc |-> "OK", queue |-> Append(Q, x)]
    BY <1>4, <1>7, <1>9 DEF Join
  <2> HIDE DEF Q, a
  <2>2. Join(s, x) \in JoinStates
    BY <1>2, <2>1 DEF JoinStates
  <2> QED
    BY <1>9, <2>1, <2>2 DEF Q, a
<1>10. CASE s.rc = "OK" /\ Q # <<>> /\ Same(a.name, x.name)
  <2>1. Join(s, x) = IF Clash(a, x) THEN [rc |-> "ERROR", queue |-> Q]
                     ELSE [rc |-> "OK", queue |->
                       [Q EXCEPT ![Len(Q)] = [a EXCEPT !.inclusive = x.inclusive]]]
    BY <1>4, <1>6, <1>7, <1>10 DEF Join
  <2> HIDE DEF Q, a
  <2>2. Join(s, x) \in JoinStates
    BY <1>1, <1>5, <1>10, <2>1 DEF JoinStates
  <2> QED
    BY <1>10, <2>1, <2>2 DEF Q, a
<1> QED
  BY <1>1, <1>8, <1>9, <1>10

\* A new name: the element is appended.
LEMMA JoinsNew ==
    ASSUME NEW q, Singles(q), Sorted(q), NEW k \in Nat, k + 1 <= Len(q),
           NEW Q \in Seq(Elements), JoinedTo(Q, q, k),
           Q = <<>> \/ ~Same(Q[Len(Q)].name, q[k + 1].name)
    PROVE  JoinedTo(Append(Q, q[k + 1]), q, k + 1)
<1> DEFINE x == q[k + 1]
           R == Append(Q, x)
           m == Len(Q)
<1>1. /\ m \in Nat /\ Len(q) \in Nat /\ k + 1 \in 1..Len(q)
      /\ \A i \in 1..Len(q) : /\ q[i] \in Elements /\ IsName(q[i].name) /\ Single(q[i])
                              /\ q[i].exact \in Nat /\ q[i].inclusive \in Nat
      /\ \A p \in 1..m : Q[p] \in Elements /\ IsName(Q[p].name)
  BY QueueType DEF Singles
<1>2. /\ R \in Seq(Elements) /\ Len(R) = m + 1 /\ R[m + 1] = x /\ R # <<>>
      /\ \A p \in 1..m : R[p] = Q[p]
      /\ x \in Elements /\ IsName(x.name) /\ Single(x)
  <2>1. x \in Elements /\ IsName(x.name) /\ Single(x)
    BY <1>1
  <2> HIDE DEF x
  <2>2. /\ R \in Seq(Elements) /\ Len(R) = m + 1 /\ R[m + 1] = x
        /\ \A p \in 1..m : R[p] = Q[p]
    BY <2>1
  <2>3. R # <<>>
    BY <1>1, <2>2
  <2> QED
    BY <2>1, <2>2, <2>3
<1> HIDE DEF R
<1>3. \A i \in 1..k : Less(q[i].name, x.name)
  <2> TAKE i \in 1..k
  <2>1. k > 0 /\ k \in 1..Len(q) /\ i \in 1..Len(q) /\ (i = k \/ i < k)
    BY <1>1
  <2>2. Q # <<>> /\ m \in 1..m /\ Same(Q[m].name, q[k].name) /\ ~Same(Q[m].name, x.name)
    BY <1>1, <2>1 DEF JoinedTo, EndsWith
  <2>3. ~Same(q[k].name, x.name)
    <3>1. IsName(Q[m].name) /\ IsName(q[k].name) /\ IsName(x.name)
      BY <1>1, <1>2, <2>1, <2>2
    <3> QED
      BY <2>2, <3>1, LessTrans
  <2>4. Ordered(q[k], x)
    BY <1>1, <2>1 DEF Sorted
  <2>5. Less(q[k].name, x.name)
    BY <2>3, <2>4 DEF Ordered
  <2>6. i < k => Ordered(q[i], q[k])
    BY <2>1 DEF Sorted
  <2>7. i < k => Less(q[i].name, q[k].name) \/ Same(q[i].name, q[k].name)
    BY <2>6 DEF Ordered
  <2> QED
    BY <1>1, <1>2, <2>1, <2>5, <2>7, LessTrans
<1>4. \A p \in 1..m : Less(Q[p].name, x.name)
  <2> TAKE p \in 1..m
  <2>1. PICK i \in 1..k : Same(q[i].name, Q[p].name)
    BY DEF JoinedTo, Comes
  <2>2. i \in 1..Len(q) /\ Less(q[i].name, x.name)
    BY <1>1, <1>3
  <2>3. IsName(q[i].name) /\ IsName(Q[p].name) /\ IsName(x.name)
    BY <1>1, <1>2, <2>2
  <2>4. Same(Q[p].name, q[i].name)
    BY <2>1, <2>3, LessTrans
  <2> QED
    BY <2>2, <2>3, <2>4, LessTrans
<1>5. Strict(R)
  <2> SUFFICES ASSUME NEW i \in 1..Len(R), NEW j \in 1..Len(R), i < j
               PROVE  Less(R[i].name, R[j].name)
    BY DEF Strict
  <2>1. CASE j = m + 1
    <3>1. i \in 1..m
      BY <1>1, <1>2, <2>1
    <3>2. R[i] = Q[i] /\ R[j] = x
      BY <1>2, <2>1, <3>1
    <3> QED
      BY <1>4, <3>1, <3>2
  <2>2. CASE j \in 1..m
    <3>1. i \in 1..m
      BY <1>1, <2>2
    <3> QED
      BY <1>2, <2>2, <3>1 DEF JoinedTo, Strict
  <2>3. j = m + 1 \/ j \in 1..m
    <3>1. j \in 1..m + 1
      BY <1>2
    <3> QED
      BY <1>1, <3>1
  <2> QED
    BY <2>1, <2>2, <2>3
<1>6. Covers(R, q, k + 1)
  <2> SUFFICES ASSUME NEW i \in 1..k + 1 PROVE \E p \in 1..Len(R) : Holds(R[p], q[i])
    BY DEF Covers
  <2>1. CASE i = k + 1
    <3>1. Holds(x, x)
      BY <1>2, LessTrans DEF Holds
    <3>2. m + 1 \in 1..Len(R)
      BY <1>1, <1>2
    <3> QED
      BY <1>2, <2>1, <3>1, <3>2
  <2>2. CASE i \in 1..k
    <3>1. PICK p \in 1..m : Holds(Q[p], q[i])
      BY <2>2 DEF JoinedTo, Covers
    <3>2. p \in 1..Len(R) /\ R[p] = Q[p]
      BY <1>1, <1>2
    <3> QED
      BY <3>1, <3>2
  <2> QED
    BY <2>1, <2>2
<1>7. \A p \in 1..Len(R) : Comes(R[p], q, k + 1)
  <2> TAKE p \in 1..Len(R)
  <2>1. CASE p = m + 1
    <3>1. Same(x.name, x.name) /\ k + 1 \in 1..k + 1
      BY <1>1, <1>2, LessTrans
    <3>2. x.exact # 0 \/ x.inclusive # 0
      BY <1>2 DEF Single
    <3> QED
      BY <1>2, <2>1, <3>1, <3>2 DEF Comes
  <2>2. CASE p \in 1..m
    <3>1. Comes(Q[p], q, k) /\ R[p] = Q[p]
      BY <1>2, <2>2 DEF JoinedTo
    <3>2. \A i \in 1..k : i \in 1..k + 1
      OBVIOUS
    <3> QED
      BY <3>1, <3>2 DEF Comes
  <2> QED
    BY <1>1, <1>2, <2>1, <2>2
<1>8. NoneTwice(q, k + 1)
  <2> SUFFICES ASSUME NEW i \in 1..k + 1, NEW j \in 1..k + 1, i # j,
                      Same(q[i].name, q[j].name)
               PROVE  ~Clash(q[i], q[j])
    BY DEF NoneTwice
  <2>0. IsName(q[i].name) /\ IsName(q[j].name)
    BY <1>1
  <2>1. CASE i = k + 1
    <3>1. j \in 1..k /\ Less(q[j].name, q[i].name)
      BY <1>3, <2>1
    <3> QED
      BY <2>0, <3>1, Trichotomy
  <2>2. CASE j = k + 1
    <3>1. i \in 1..k /\ Less(q[i].name, q[j].name)
      BY <1>3, <2>2
    <3> QED
      BY <2>0, <3>1, Trichotomy
  <2>3. CASE i # k + 1 /\ j # k + 1
    BY <2>3 DEF JoinedTo, NoneTwice
  <2> QED
    BY <2>1, <2>2, <2>3
<1>9. EndsWith(R, q, k + 1)
  BY <1>1, <1>2, LessTrans DEF EndsWith
<1> QED
  BY <1>5, <1>6, <1>7, <1>8, <1>9 DEF JoinedTo, R

\* The name of the last element: the inclusive location joins the exact one.
LEMMA JoinsLast ==
    ASSUME NEW q, Singles(q), Sorted(q), NEW k \in Nat, k + 1 <= Len(q),
           NEW Q \in Seq(Elements), JoinedTo(Q, q, k), Q # <<>>,
           Same(Q[Len(Q)].name, q[k + 1].name), ~Clash(Q[Len(Q)], q[k + 1])
    PROVE  JoinedTo([Q EXCEPT ![Len(Q)] = [Q[Len(Q)] EXCEPT !.inclusive = q[k + 1].inclusive]],
                    q, k + 1)
<1> DEFINE x == q[k + 1]
           m == Len(Q)
           a == Q[m]
           b == [a EXCEPT !.inclusive = x.inclusive]
           R == [Q EXCEPT ![m] = b]
<1>1. /\ m \in Nat /\ m \in 1..m /\ Len(q) \in Nat /\ k + 1 \in 1..Len(q)
      /\ \A i \in 1..Len(q) : /\ q[i] \in Elements /\ IsName(q[i].name) /\ Single(q[i])
                              /\ q[i].exact \in Nat /\ q[i].inclusive \in Nat
      /\ \A p \in 1..m : Q[p] \in Elements /\ IsName(Q[p].name)
  <2>1. m \in Nat /\ m \in 1..m /\ \A p \in 1..m : Q[p] \in Elements /\ IsName(Q[p].name)
    BY QueueType
  <2>2. q \in Seq(Elements) /\ \A i \in 1..Len(q) : Single(q[i])
    BY DEF Singles
  <2>3. /\ Len(q) \in Nat
        /\ \A i \in 1..Len(q) : /\ q[i] \in Elements /\ IsName(q[i].name)
                                /\ q[i].exact \in Nat /\ q[i].inclusive \in Nat
    BY <2>2, QueueType
  <2>4. k + 1 \in 1..Len(q)
    BY <2>3
  <2> QED
    BY <2>1, <2>2, <2>3, <2>4
<1>2. a \in Elements /\ IsName(a.name) /\ x \in Elements /\ IsName(x.name) /\ Single(x)
  BY <1>1
<1>3. b \in Elements /\ b.name = a.name /\ b.exact = a.exact /\ b.inclusive = x.inclusive
  BY <1>2 DEF Elements
<1>4. /\ R \in Seq(Elements) /\ Len(R) = m /\ R[m] = b
      /\ \A p \in 1..m : p # m => R[p] = Q[p]
  <2> HIDE DEF b
  <2> QED
    BY <1>1, <1>3
<1>5. \A p \in 1..m : R[p].name = Q[p].name /\ R[p].exact = Q[p].exact
  BY <1>3, <1>4
<1>6. \A i \in 1..k : i \in 1..Len(q) /\ Ordered(q[i], x)
  BY <1>1 DEF Sorted
\* x is not an exact location behind an inclusive one of its name.
<1>7. x.inclusive # 0 /\ x.exact = 0 /\ a.exact # 0 /\ a.inclusive = 0
  <2>1. a.exact # 0 \/ a.inclusive # 0
    BY <1>1 DEF JoinedTo, Comes
  <2>2. ASSUME x.exact # 0 PROVE FALSE
    <3>1. x.inclusive = 0 /\ a.exact = 0 /\ a.inclusive # 0
      BY <1>2, <2>1, <2>2 DEF Single, Clash
    <3>2. PICK i \in 1..k : q[i].inclusive = a.inclusive /\ Same(q[i].name, a.name)
      BY <1>1, <3>1 DEF JoinedTo, Comes
    <3>3. i \in 1..Len(q) /\ Ordered(q[i], x) /\ q[i].exact = 0
      BY <1>1, <1>6, <3>1, <3>2 DEF Single
    <3>4. Same(q[i].name, x.name)
      BY <1>1, <1>2, <3>2, <3>3, LessTrans
    <3>5. ~Less(q[i].name, x.name)
      BY <1>1, <1>2, <3>3, <3>4, Trichotomy
    <3> QED
      BY <2>2, <3>3, <3>5 DEF Ordered
  <2> QED
    BY <1>2, <2>1, <2>2 DEF Single, Clash
<1> HIDE DEF R, b
<1>8. Strict(R)
  BY <1>4, <1>5 DEF JoinedTo, Strict
<1>9. Covers(R, q, k + 1)
  <2> SUFFICES ASSUME NEW i \in 1..k + 1 PROVE \E p \in 1..Len(R) : Holds(R[p], q[i])
    BY DEF Covers
  <2>1. CASE i = k + 1
    <3>1. Holds(b, x)
      BY <1>3, <1>7 DEF Holds
    <3> QED
      BY <1>1, <1>4, <2>1, <3>1
  <2>2. CASE i \in 1..k
    <3>1. PICK p \in 1..m : Holds(Q[p], q[i])
      BY <2>2 DEF JoinedTo, Covers
    <3>2. Holds(R[p], q[i])
      <4>1. CASE p = m
        BY <1>3, <1>4, <1>7, <3>1, <4>1 DEF Holds
      <4>2. CASE p # m
        BY <1>4, <3>1, <4>2
      <4> QED
        BY <4>1, <4>2
    <3> QED
      BY <1>4, <3>2
  <2> QED
    BY <2>1, <2>2
<1>10. \A p \in 1..Len(R) : Comes(R[p], q, k + 1)
  <2> TAKE p \in 1..Len(R)
  <2>1. Comes(Q[p], q, k) /\ p \in 1..m
    BY <1>4 DEF JoinedTo
  <2>2. \A i \in 1..k : i \in 1..k + 1
    OBVIOUS
  <2>3. CASE p # m
    BY <1>4, <2>1, <2>2, <2>3 DEF Comes
  <2>4. CASE p = m
    <3>1. /\ R[p] = b /\ k + 1 \in 1..k + 1 /\ q[k + 1].inclusive = b.inclusive
          /\ Same(q[k + 1].name, b.name)
      BY <1>2, <1>3, <1>4, <2>4, LessTrans
    <3>2. \E i \in 1..k + 1 : q[i].exact = b.exact /\ Same(q[i].name, b.name)
      BY <1>3, <1>7, <2>1, <2>2, <2>4 DEF Comes
    <3> QED
      BY <1>3, <1>7, <3>1, <3>2 DEF Comes
  <2> QED
    BY <2>3, <2>4
<1>11. NoneTwice(q, k + 1)
  <2>1. ASSUME NEW i \in 1..k, Same(q[i].name, x.name)
        PROVE  ~Clash(q[i], x) /\ ~Clash(x, q[i])
    <3>1. PICK p \in 1..m : Holds(Q[p], q[i])
      BY DEF JoinedTo, Covers
    <3>2. i \in 1..Len(q)
      BY <1>6
    <3>3. p = m
      <4>1. Same(Q[p].name, x.name)
        BY <1>1, <1>2, <2>1, <3>1, <3>2, LessTrans DEF Holds
      <4>2. Same(x.name, a.name)
        BY <1>2, LessTrans
      <4>3. Same(Q[p].name, a.name)
        BY <1>1, <1>2, <4>1, <4>2, LessTrans
      <4>4. p < m => Less(Q[p].name, a.name)
        BY <1>1 DEF JoinedTo, Strict
      <4>5. ~Less(Q[p].name, a.name)
        BY <1>1, <1>2, <4>3, Trichotomy
      <4> QED
        BY <1>1, <4>4, <4>5
    <3>4. q[i].inclusive = 0
      BY <1>7, <3>1, <3>3 DEF Holds
    <3> QED
      BY <1>7, <3>4 DEF Clash
  <2>2. ASSUME NEW i \in 1..k, Same(x.name, q[i].name) PROVE Same(q[i].name, x.name)
    BY <1>1, <1>2, <1>6, <2>2, LessTrans
  <2>3. \A i \in 1..k + 1 : i = k + 1 \/ i \in 1..k
    OBVIOUS
  <2>4. \A i, j \in 1..k : i # j /\ Same(q[i].name, q[j].name) => ~Clash(q[i], q[j])
    BY DEF JoinedTo, NoneTwice
  <2> QED
    BY <2>1, <2>2, <2>3, <2>4 DEF NoneTwice
<1>12. EndsWith(R, q, k + 1)
  <2>1. R # <<>>
    BY <1>1, <1>4
  <2> QED
    BY <1>3, <1>4, <2>1 DEF EndsWith
<1> QED
  BY <1>8, <1>9, <1>10, <1>11, <1>12 DEF JoinedTo, R, b

\* Two locations of one name and kind stop the join.
LEMMA JoinsClash ==
    ASSUME NEW q, Singles(q), NEW k \in Nat, k + 1 <= Len(q),
           NEW Q \in Seq(Elements), JoinedTo(Q, q, k), Q # <<>>,
           Same(Q[Len(Q)].name, q[k + 1].name), Clash(Q[Len(Q)], q[k + 1])
    PROVE  Twice(q)
<1> DEFINE a == Q[Len(Q)]
           x == q[k + 1]
<1>1. Len(Q) \in 1..Len(Q) /\ a \in Elements /\ IsName(a.name) /\ Comes(a, q, k)
  <2>1. Len(Q) \in 1..Len(Q)
    BY QueueType
  <2> QED
    BY <2>1, QueueType DEF JoinedTo
<1>2. /\ Len(q) \in Nat /\ k + 1 \in 1..Len(q) /\ IsName(x.name)
      /\ \A i \in 1..k : i \in 1..Len(q) /\ i # k + 1 /\ IsName(q[i].name)
  BY QueueType DEF Singles
<1>3. ASSUME a.exact # 0, x.exact # 0 PROVE Twice(q)
  <2>1. PICK i \in 1..k : q[i].exact = a.exact /\ Same(q[i].name, a.name)
    BY <1>1, <1>3 DEF Comes
  <2>2. Same(q[i].name, x.name)
    BY <1>1, <1>2, <2>1, LessTrans
  <2>3. Clash(q[i], x)
    BY <1>3, <2>1 DEF Clash
  <2> QED
    BY <1>2, <2>2, <2>3 DEF Twice
<1>4. ASSUME a.inclusive # 0, x.inclusive # 0 PROVE Twice(q)
  <2>1. PICK i \in 1..k : q[i].inclusive = a.inclusive /\ Same(q[i].name, a.name)
    BY <1>1, <1>4 DEF Comes
  <2>2. Same(q[i].name, x.name)
    BY <1>1, <1>2, <2>1, LessTrans
  <2>3. Clash(q[i], x)
    BY <1>4, <2>1 DEF Clash
  <2> QED
    BY <1>2, <2>2, <2>3 DEF Twice
<1> QED
  BY <1>3, <1>4 DEF Clash

\* The loop of night_http_join_exact_locations.
LEMMA JoinRuns ==
    ASSUME NEW q \in Seq(Elements)
    PROVE  \E d : /\ d \in [0..Len(q) -> JoinStates] /\ d[0] = [rc |-> "OK", queue |-> <<>>]
                  /\ \A k \in 1..Len(q) : d[k] = Join(d[k - 1], q[k])
                  /\ join_exact_locations(q) = d[Len(q)]
<1> DEFINE n == Len(q)
           x == [rc |-> "OK", queue |-> <<>>]
           F(f) == [k \in 0..n |-> IF k = 0 THEN x ELSE Join(f[k - 1], q[k])]
           after == CHOOSE f : f = F(f)
           g == [k \in 1..n |-> [s \in JoinStates |-> Join(s, q[k])]]
<1>1. join_exact_locations(q) = after[n]
  BY Zenon DEF join_exact_locations, After
<1>2. n \in Nat /\ x \in JoinStates /\ \A k \in 1..n : q[k] \in Elements
  BY DEF JoinStates
<1>3. IsTurns(g, n, JoinStates)
  <2>1. \A k \in 1..n, s \in JoinStates : Join(s, q[k]) \in JoinStates
    BY <1>2, JoinTurn
  <2> HIDE DEF n
  <2> QED
    BY <1>2, <2>1 DEF IsTurns
<1>4. \A k \in 1..n, s \in JoinStates : g[k][s] = Join(s, q[k])
  OBVIOUS
<1> HIDE DEF g, n, x
<1>5. PICK d : IsRun(d, n, JoinStates, x, g)
  BY <1>2, <1>3, RunExists
<1>6. d = F(d)
  <2>1. d \in [0..n -> JoinStates] /\ d[0] = x
    BY <1>5 DEF IsRun
  <2>2. \A k \in 1..n : d[k] = Join(d[k - 1], q[k])
    <3> TAKE k \in 1..n
    <3>1. k - 1 \in 0..n
      BY <1>2
    <3>2. d[k - 1] \in JoinStates
      BY <2>1, <3>1
    <3> QED
      BY <1>4, <1>5, <3>2 DEF IsRun
  <2>3. \A k \in 0..n : k = 0 \/ k \in 1..n
    BY <1>2
  <2>4. \A k \in 0..n : d[k] = IF k = 0 THEN x ELSE Join(d[k - 1], q[k])
    <3> TAKE k \in 0..n
    <3> QED
      BY <2>1, <2>2, <2>3
  <2> QED
    BY <2>1, <2>4
<1>7. after = F(after)
  <2> HIDE DEF F
  <2> QED
    BY <1>6
<1> HIDE DEF after
<1>8. IsAfter(after, n, JoinStates, x, g)
  <2>1. \E h : after = [k \in 0..n |-> h[k]]
    <3>1. after = [k \in 0..n |-> after[k]]
      BY <1>7
    <3> QED
      BY <3>1
  <2>2. after[0] = x /\ \A k \in 1..n : after[k] = Join(after[k - 1], q[k])
    BY <1>2, <1>7
  <2> QED
    BY <1>4, <2>1, <2>2 DEF IsAfter
<1>9. IsRun(after, n, JoinStates, x, g)
  BY <1>2, <1>3, <1>8, AfterRuns
<1>10. \A k \in 1..n : after[k] = Join(after[k - 1], q[k])
  BY <1>2, <1>7
<1> QED
  BY <1>1, <1>9, <1>10 DEF IsRun, n, x

\* The join of a sorted queue fails exactly when a location is there twice;
\* else it leaves an element for every name.
LEMMA JoinJoins ==
    ASSUME NEW q, Singles(q), Sorted(q)
    PROVE  LET j == join_exact_locations(q) IN
           /\ j \in JoinStates
           /\ j.rc = "ERROR" => Twice(q)
           /\ j.rc = "OK" => JoinedTo(j.queue, q, Len(q))
<1>0. q \in Seq(Elements) /\ Len(q) \in Nat /\ \A k \in 1..Len(q) : q[k] \in Elements
  BY QueueType DEF Singles
<1>1. PICK d : /\ d \in [0..Len(q) -> JoinStates] /\ d[0] = [rc |-> "OK", queue |-> <<>>]
               /\ \A k \in 1..Len(q) : d[k] = Join(d[k - 1], q[k])
               /\ join_exact_locations(q) = d[Len(q)]
  BY <1>0, JoinRuns
<1> DEFINE P == {k \in Nat : k <= Len(q) => JoinOK(d[k], q, k)}
<1>2. 0 \in P
  <2>1. d[0].rc = "OK" /\ d[0].queue = <<>> /\ Len(<<>>) = 0
    BY <1>1
  <2>2. JoinedTo(<<>>, q, 0)
    BY DEF JoinedTo, Strict, Covers, NoneTwice, EndsWith
  <2> QED
    BY <2>1, <2>2 DEF JoinOK
<1>3. ASSUME NEW k \in Nat, k \in P PROVE k + 1 \in P
  <2> SUFFICES ASSUME k + 1 <= Len(q) PROVE JoinOK(d[k + 1], q, k + 1)
    OBVIOUS
  <2>1. JoinOK(d[k], q, k)
    BY <1>0, <1>3
  <2>2. k + 1 \in 1..Len(q) /\ (k + 1) - 1 = k /\ k \in 0..Len(q)
    BY <1>0
  <2> DEFINE s == d[k]
             x == q[k + 1]
             Q == s.queue
             a == Q[Len(Q)]
  <2>3. s \in JoinStates /\ x \in Elements /\ d[k + 1] = Join(s, x)
    BY <1>0, <1>1, <2>2
  <2>4. Q \in Seq(Elements) /\ s.rc \in {"OK", "ERROR"}
    BY <2>3 DEF JoinStates
  <2>5. /\ s.rc = "ERROR" => d[k + 1] = s
        /\ s.rc = "OK" /\ (Q = <<>> \/ ~Same(a.name, x.name)) =>
             d[k + 1].rc = "OK" /\ d[k + 1].queue = Append(Q, x)
        /\ s.rc = "OK" /\ Q # <<>> /\ Same(a.name, x.name) =>
             IF Clash(a, x) THEN d[k + 1].rc = "ERROR"
             ELSE /\ d[k + 1].rc = "OK"
                  /\ d[k + 1].queue = [Q EXCEPT ![Len(Q)] = [a EXCEPT !.inclusive = x.inclusive]]
    BY <2>3, JoinTurn
  <2>6. CASE s.rc = "ERROR"
    BY <2>1, <2>5, <2>6 DEF JoinOK
  <2>7. CASE s.rc = "OK" /\ (Q = <<>> \/ ~Same(a.name, x.name))
    <3>1. JoinedTo(Q, q, k)
      BY <2>1, <2>7 DEF JoinOK
    <3>2. JoinedTo(Append(Q, x), q, k + 1)
      BY <2>4, <2>7, <3>1, JoinsNew
    <3> QED
      BY <2>5, <2>7, <3>2 DEF JoinOK
  <2>8. CASE s.rc = "OK" /\ Q # <<>> /\ Same(a.name, x.name) /\ ~Clash(a, x)
    <3>1. JoinedTo(Q, q, k)
      BY <2>1, <2>8 DEF JoinOK
    <3>2. JoinedTo([Q EXCEPT ![Len(Q)] = [a EXCEPT !.inclusive = x.inclusive]], q, k + 1)
      BY <2>4, <2>8, <3>1, JoinsLast
    <3> QED
      BY <2>5, <2>8, <3>2 DEF JoinOK
  <2>9. CASE s.rc = "OK" /\ Q # <<>> /\ Same(a.name, x.name) /\ Clash(a, x)
    <3>1. JoinedTo(Q, q, k)
      BY <2>1, <2>9 DEF JoinOK
    <3>2. Twice(q)
      BY <2>4, <2>9, <3>1, JoinsClash
    <3> QED
      BY <2>5, <2>9, <3>2 DEF JoinOK
  <2> QED
    BY <2>4, <2>6, <2>7, <2>8, <2>9
<1> HIDE DEF P
<1>4. Len(q) \in P
  BY <1>0, <1>2, <1>3, SetInduction
<1>5. JoinOK(d[Len(q)], q, Len(q)) /\ d[Len(q)] \in JoinStates
  <2>1. Len(q) \in 0..Len(q) /\ Len(q) <= Len(q)
    BY <1>0
  <2> QED
    BY <1>1, <1>4, <2>1 DEF P
<1> QED
  BY <1>1, <1>5 DEF JoinOK

-----------------------------------------------------------------------------
(* The locations of a block                                                *)

\* The elements of a set of numbers in their order: each rank is somebody's, and
\* nobody's rank is another's.
Rank(T, e) == Cardinality({f \in T : f <= e})
Ranked(T) == /\ IsFiniteSet(T) /\ Cardinality(T) \in Nat
             /\ \A i \in 1..Cardinality(T) : \E e \in T : Rank(T, e) = i
             /\ \A e \in T : Rank(T, e) \in 1..Cardinality(T)
             /\ \A e, f \in T : Rank(T, e) = Rank(T, f) => e = f

LEMMA RankExists ==
    ASSUME NEW n \in Nat, NEW T, T \subseteq 1..n
    PROVE  Ranked(T)
<1> DEFINE P == {k \in Nat : \A U \in SUBSET (1..k) : Ranked(U)}
<1>1. 0 \in P
  <2>1. Ranked({})
    BY FS_EmptySet DEF Ranked
  <2>2. SUBSET (1..0) = {{}}
    OBVIOUS
  <2> QED
    BY <2>1, <2>2
<1>2. ASSUME NEW k \in Nat, k \in P PROVE k + 1 \in P
  <2> SUFFICES ASSUME NEW U \in SUBSET (1..k + 1) PROVE Ranked(U)
    OBVIOUS
  <2>1. CASE k + 1 \notin U
    <3>1. U \subseteq 1..k
      BY <2>1
    <3> QED
      BY <1>2, <3>1
  <2>2. CASE k + 1 \in U
    <3> DEFINE V == U \ {k + 1}
    <3>1. V \subseteq 1..k /\ U = V \cup {k + 1} /\ k + 1 \notin V
      BY <2>2
    <3>2. Ranked(V)
      BY <1>2, <3>1
    <3> HIDE DEF V
    <3>3. /\ IsFiniteSet(U) /\ Cardinality(U) = Cardinality(V) + 1 /\ Cardinality(V) \in Nat
      BY <3>1, <3>2, FS_AddElement DEF Ranked
    <3>4. \A e \in V : e \in U /\ Rank(U, e) = Rank(V, e) /\ Rank(V, e) \in 1..Cardinality(V)
      <4> TAKE e \in V
      <4>1. {f \in U : f <= e} = {f \in V : f <= e}
        BY <3>1
      <4> QED
        BY <3>1, <3>2, <4>1 DEF Rank, Ranked
    <3>5. Rank(U, k + 1) = Cardinality(U)
      <4>1. \A f \in U : f <= k + 1
        OBVIOUS
      <4>2. {f \in U : f <= k + 1} = U
        BY <4>1
      <4> QED
        BY <4>2 DEF Rank
    <3>6. \A i \in 1..Cardinality(U) : \E e \in U : Rank(U, e) = i
      <4> TAKE i \in 1..Cardinality(U)
      <4>1. CASE i = Cardinality(U)
        BY <3>1, <3>5, <4>1
      <4>2. CASE i \in 1..Cardinality(V)
        <5>1. PICK e \in V : Rank(V, e) = i
          BY <3>2, <4>2 DEF Ranked
        <5> QED
          BY <3>4, <5>1
      <4> QED
        BY <3>3, <4>1, <4>2
    <3>7. \A e \in U : Rank(U, e) \in 1..Cardinality(U)
      BY <3>1, <3>3, <3>4, <3>5
    <3>8. \A e, f \in U : Rank(U, e) = Rank(U, f) => e = f
      <4>1. \A e, f \in V : Rank(V, e) = Rank(V, f) => e = f
        BY <3>2 DEF Ranked
      <4>2. \A e \in V : Rank(U, e) # Rank(U, k + 1)
        BY <3>3, <3>4, <3>5
      <4> TAKE e, f \in U
      <4> HAVE Rank(U, e) = Rank(U, f)
      <4>3. CASE e \in V /\ f \in V
        BY <3>4, <4>1, <4>3
      <4>4. CASE e \notin V /\ f \in V
        BY <3>1, <4>2, <4>4
      <4>5. CASE e \in V /\ f \notin V
        BY <3>1, <4>2, <4>5
      <4>6. CASE e \notin V /\ f \notin V
        BY <3>1, <4>6
      <4> QED
        BY <4>3, <4>4, <4>5, <4>6
    <3> QED
      BY <3>3, <3>6, <3>7, <3>8 DEF Ranked
  <2> QED
    BY <2>1, <2>2
<1> HIDE DEF P
<1>3. n \in P
  BY <1>1, <1>2, SetInduction
<1> QED
  BY <1>3 DEF P

Declaration == [name : Names, exact : BOOLEAN, parent : Nat]
DeclOK == decl \in Seq(Declaration) /\ \A e \in 1..Len(decl) : decl[e].parent < e

\* What is known of the declarations.
LEMMA DeclType ==
    ASSUME DeclOK
    PROVE  /\ Len(decl) \in Nat /\ DOMAIN decl = 1..Len(decl)
           /\ \A e \in DOMAIN decl :
                 /\ e \in Nat /\ e # 0 /\ IsName(decl[e].name) /\ decl[e].exact \in BOOLEAN
                 /\ decl[e].parent \in Nat /\ decl[e].parent < e /\ decl[e].parent \in 0..Len(decl)
<1>1. /\ Len(decl) \in Nat /\ DOMAIN decl = 1..Len(decl)
      /\ \A e \in 1..Len(decl) : decl[e] \in Declaration
  BY DEF DeclOK
<1>2. Names \subseteq Seq(Code)
  BY NamesAssumption DEF Code
<1>3. \A x \in Declaration : IsName(x.name) /\ x.exact \in BOOLEAN /\ x.parent \in Nat
  BY <1>2 DEF Declaration, IsName
<1> QED
  BY <1>1, <1>3 DEF DeclOK

\* The queue element of a declaration.
LEMMA LocationQueueIs ==
    ASSUME DeclOK, NEW e \in DOMAIN decl
    PROVE  /\ LocationQueue(e) \in Elements /\ Single(LocationQueue(e))
           /\ LocationQueue(e).name = decl[e].name
           /\ LocationQueue(e).exact = IF decl[e].exact THEN e ELSE 0
           /\ LocationQueue(e).inclusive = IF decl[e].exact THEN 0 ELSE e
<1>1. e \in Nat /\ e # 0 /\ decl[e].name \in Seq(Code)
  BY DeclType DEF IsName
<1> QED
  BY <1>1 DEF LocationQueue, Elements, Single

\* The queue of a block has an element for every location declared in it.
LEMMA LocationsAre ==
    ASSUME DeclOK, NEW d
    PROVE  /\ Singles(locations(d)) /\ Distinct(locations(d))
           /\ Elems(locations(d)) = {LocationQueue(e) : e \in Inside(d)}
<1> DEFINE T == Inside(d)
           n == Cardinality(T)
           pick == [i \in 1..n |-> CHOOSE e \in T : Rank(T, e) = i]
           q == locations(d)
<1>1. T \subseteq 1..Len(decl) /\ T \subseteq DOMAIN decl /\ Len(decl) \in Nat
  BY DeclType DEF Inside
<1>2. Ranked(T)
  BY <1>1, RankExists
<1>3. n \in Nat /\ \A i \in 1..n : pick[i] \in T /\ Rank(T, pick[i]) = i
  BY <1>2 DEF Ranked
<1>4. q = [i \in 1..n |-> LocationQueue(pick[i])]
  <2>1. q = [i \in 1..n |-> LocationQueue(CHOOSE e \in T : Rank(T, e) = i)]
    BY Zenon DEF locations, Inside, Rank
  <2> QED
    BY <2>1
<1> HIDE DEF pick, q
<1>5. \A i \in 1..n : /\ LocationQueue(pick[i]) \in Elements /\ Single(LocationQueue(pick[i]))
                      /\ pick[i] \in DOMAIN decl
  BY <1>1, <1>3, LocationQueueIs
<1> HIDE DEF T, n
<1>6. q \in Seq(Elements) /\ Len(q) = n /\ \A i \in 1..n : q[i] = LocationQueue(pick[i])
  BY <1>3, <1>4, <1>5
<1>7. Singles(q)
  BY <1>5, <1>6 DEF Singles
<1>8. Distinct(q)
  <2> SUFFICES ASSUME NEW i \in 1..n, NEW j \in 1..n, q[i] = q[j] PROVE i = j
    BY <1>6 DEF Distinct
  <2>1. LocationQueue(pick[i]) = LocationQueue(pick[j])
    BY <1>6
  <2>2. \A e \in DOMAIN decl : /\ e # 0 /\ decl[e].exact \in BOOLEAN
                               /\ LocationQueue(e).exact = IF decl[e].exact THEN e ELSE 0
                               /\ LocationQueue(e).inclusive = IF decl[e].exact THEN 0 ELSE e
    BY DeclType, LocationQueueIs
  <2>3. pick[i] = pick[j]
    BY <1>5, <2>1, <2>2
  <2> QED
    BY <1>3, <2>3
<1>9. Elems(q) = {LocationQueue(e) : e \in T}
  <2>1. \A e \in T : \E i \in 1..n : pick[i] = e
    <3> TAKE e \in T
    <3>1. Rank(T, e) \in 1..n
      BY <1>2 DEF Ranked, n
    <3>2. Rank(T, pick[Rank(T, e)]) = Rank(T, e) /\ pick[Rank(T, e)] \in T
      BY <1>3, <3>1
    <3>3. pick[Rank(T, e)] = e
      BY <1>2, <3>2 DEF Ranked
    <3> QED
      BY <3>1, <3>3
  <2> QED
    BY <1>3, <1>6, <2>1 DEF Elems
<1> QED
  BY <1>7, <1>8, <1>9 DEF q, T

\* Two locations of a block that have the same name and kind.
TwiceIn(d) == \E e, f \in Inside(d) :
                 e # f /\ decl[e].exact = decl[f].exact /\ Same(decl[e].name, decl[f].name)

\* A queue made of a block's locations: names in order, an element for each name.
Listing(a, d) ==
    /\ a.exact # 0 \/ a.inclusive # 0
    /\ a.exact # 0 => /\ a.exact \in Inside(d) /\ decl[a.exact].exact
                      /\ Same(decl[a.exact].name, a.name)
    /\ a.inclusive # 0 => /\ a.inclusive \in Inside(d) /\ ~decl[a.inclusive].exact
                          /\ Same(decl[a.inclusive].name, a.name)
Listed(Q, e) == \E p \in 1..Len(Q) :
    /\ Same(Q[p].name, decl[e].name)
    /\ IF decl[e].exact THEN Q[p].exact = e ELSE Q[p].inclusive = e
Lists(Q, d) == /\ Q \in Seq(Elements) /\ Strict(Q)
               /\ \A p \in 1..Len(Q) : Listing(Q[p], d)
               /\ \A e \in Inside(d) : Listed(Q, e)

\* What start-up makes of a block: a queue of its locations, unless one is there twice.
LEMMA JoinedIs ==
    ASSUME DeclOK, NEW d
    PROVE  /\ Joined(d).rc \in {"OK", "ERROR"} /\ Joined(d).queue \in Seq(Elements)
           /\ Joined(d).rc = "ERROR" <=> TwiceIn(d)
           /\ Joined(d).rc = "OK" => Lists(Joined(d).queue, d)
<1> DEFINE q == queue_sort(locations(d))
           j == Joined(d)
           Q == j.queue
<1>0. locations(d) \in Seq(Elements)
  BY LocationsAre DEF Singles
<1>1. /\ q \in Seq(Elements) /\ Sorted(q) /\ Distinct(q)
      /\ Elems(q) = {LocationQueue(e) : e \in Inside(d)}
  BY <1>0, LocationsAre, SortSorts
<1>2. \A e \in Inside(d) : e \in DOMAIN decl
  BY DEF Inside
<1>3. /\ \A i \in 1..Len(q) : \E e \in Inside(d) : q[i] = LocationQueue(e)
      /\ \A e \in Inside(d) : \E i \in 1..Len(q) : q[i] = LocationQueue(e)
  <2>1. \A i \in 1..Len(q) : q[i] \in Elems(q)
    BY DEF Elems
  <2>2. \A x \in Elems(q) : \E i \in 1..Len(q) : q[i] = x
    BY DEF Elems
  <2> HIDE DEF q
  <2> QED
    BY <1>1, <2>1, <2>2
<1>4. j = join_exact_locations(q)
  BY DEF Joined
<1> HIDE DEF q, j
<1>5. \A e \in Inside(d) :
        /\ LocationQueue(e) \in Elements /\ Single(LocationQueue(e))
        /\ LocationQueue(e).name = decl[e].name
        /\ LocationQueue(e).exact = IF decl[e].exact THEN e ELSE 0
        /\ LocationQueue(e).inclusive = IF decl[e].exact THEN 0 ELSE e
        /\ e # 0 /\ decl[e].exact \in BOOLEAN
  BY <1>2, LocationQueueIs, DeclType
<1>6. Singles(q)
  BY <1>1, <1>3, <1>5 DEF Singles
<1>7. /\ j \in JoinStates
      /\ j.rc = "ERROR" => Twice(q)
      /\ j.rc = "OK" => JoinedTo(Q, q, Len(q))
  BY <1>1, <1>4, <1>6, JoinJoins
<1>8. j.rc \in {"OK", "ERROR"} /\ Q \in Seq(Elements)
  BY <1>7 DEF JoinStates
<1>9. Twice(q) => TwiceIn(d)
  <2> SUFFICES ASSUME NEW i \in 1..Len(q), NEW k \in 1..Len(q), i # k,
                      Same(q[i].name, q[k].name), Clash(q[i], q[k])
               PROVE  TwiceIn(d)
    BY DEF Twice
  <2>1. PICK e \in Inside(d) : q[i] = LocationQueue(e)
    BY <1>3
  <2>2. PICK f \in Inside(d) : q[k] = LocationQueue(f)
    BY <1>3
  <2>3. e # f
    BY <1>1, <2>1, <2>2 DEF Distinct
  <2>4. decl[e].exact = decl[f].exact
    BY <1>5, <2>1, <2>2 DEF Clash
  <2>5. Same(decl[e].name, decl[f].name)
    BY <1>5, <2>1, <2>2
  <2> QED
    BY <2>3, <2>4, <2>5 DEF TwiceIn
<1>10. TwiceIn(d) /\ j.rc = "OK" => FALSE
  <2> SUFFICES ASSUME NEW e \in Inside(d), NEW f \in Inside(d), e # f, j.rc = "OK",
                      decl[e].exact = decl[f].exact, Same(decl[e].name, decl[f].name)
               PROVE  FALSE
    BY DEF TwiceIn
  <2>1. PICK i \in 1..Len(q) : q[i] = LocationQueue(e)
    BY <1>3
  <2>2. PICK k \in 1..Len(q) : q[k] = LocationQueue(f)
    BY <1>3
  <2>3. Clash(q[i], q[k]) /\ Same(q[i].name, q[k].name)
    BY <1>5, <2>1, <2>2 DEF Clash
  <2>4. i # k
    BY <1>5, <2>1, <2>2
  <2> QED
    BY <1>7, <2>3, <2>4 DEF JoinedTo, NoneTwice
<1>11. ASSUME j.rc = "OK" PROVE Lists(Q, d)
  <2>1. JoinedTo(Q, q, Len(q))
    BY <1>7, <1>11
  <2>2. ASSUME NEW p \in 1..Len(Q) PROVE Listing(Q[p], d)
    <3>1. Comes(Q[p], q, Len(q))
      BY <2>1 DEF JoinedTo
    <3>2. ASSUME Q[p].exact # 0
          PROVE  /\ Q[p].exact \in Inside(d) /\ decl[Q[p].exact].exact
                 /\ Same(decl[Q[p].exact].name, Q[p].name)
      <4>1. PICK i \in 1..Len(q) : q[i].exact = Q[p].exact /\ Same(q[i].name, Q[p].name)
        BY <3>1, <3>2 DEF Comes
      <4>2. PICK e \in Inside(d) : q[i] = LocationQueue(e)
        BY <1>3
      <4>3. decl[e].exact /\ Q[p].exact = e
        BY <1>5, <3>2, <4>1, <4>2
      <4> QED
        BY <1>5, <4>1, <4>2, <4>3
    <3>3. ASSUME Q[p].inclusive # 0
          PROVE  /\ Q[p].inclusive \in Inside(d) /\ ~decl[Q[p].inclusive].exact
                 /\ Same(decl[Q[p].inclusive].name, Q[p].name)
      <4>1. PICK i \in 1..Len(q) : q[i].inclusive = Q[p].inclusive /\ Same(q[i].name, Q[p].name)
        BY <3>1, <3>3 DEF Comes
      <4>2. PICK e \in Inside(d) : q[i] = LocationQueue(e)
        BY <1>3
      <4>3. ~decl[e].exact /\ Q[p].inclusive = e
        BY <1>5, <3>3, <4>1, <4>2
      <4> QED
        BY <1>5, <4>1, <4>2, <4>3
    <3> QED
      BY <3>1, <3>2, <3>3 DEF Listing, Comes
  <2>3. ASSUME NEW e \in Inside(d) PROVE Listed(Q, e)
    <3>1. PICK i \in 1..Len(q) : q[i] = LocationQueue(e)
      BY <1>3
    <3>2. PICK p \in 1..Len(Q) : Holds(Q[p], q[i])
      BY <2>1 DEF JoinedTo, Covers
    <3>3. IF decl[e].exact THEN Q[p].exact = e ELSE Q[p].inclusive = e
      BY <1>5, <3>1, <3>2 DEF Holds
    <3>4. Same(Q[p].name, decl[e].name)
      BY <1>5, <3>1, <3>2 DEF Holds
    <3> QED
      BY <3>3, <3>4 DEF Listed
  <2> QED
    BY <1>8, <2>1, <2>2, <2>3 DEF Lists, JoinedTo
<1> QED
  BY <1>7, <1>8, <1>9, <1>10, <1>11 DEF j

-----------------------------------------------------------------------------
(* Lists and trees                                                         *)

\* A name between two that agree agrees with them.
LEMMA Between ==
    ASSUME NEW s, IsName(s), NEW t, IsName(t), NEW u, IsName(u), NEW n \in Nat,
           Less(s, t), Less(t, u), Agree(s, u, n)
    PROVE  Agree(s, t, n)
<1>0. \A i \in Positions : W(s, i) \in Int /\ W(t, i) \in Int /\ W(u, i) \in Int
  BY WeightType
<1>1. PICK i \in Positions : Differ(s, t, i)
  BY DEF Less
<1>2. PICK j \in Positions : Differ(t, u, j)
  BY DEF Less
<1>3. ASSUME i <= n PROVE FALSE
  <2>1. \A l \in 1..i : W(s, l) = W(u, l)
    BY <1>3 DEF Agree, Positions
  <2>2. W(s, i) < W(t, i) /\ \A l \in 1..i - 1 : W(s, l) = W(t, l)
    BY <1>1 DEF Differ, Agree
  <2>3. W(t, j) < W(u, j) /\ \A l \in 1..j - 1 : W(t, l) = W(u, l)
    BY <1>2 DEF Differ, Agree
  <2>4. CASE j < i
    <3>1. j \in 1..i - 1 /\ j \in 1..i
      BY <2>4 DEF Positions
    <3> QED
      BY <1>0, <2>1, <2>2, <2>3, <3>1
  <2>5. CASE j = i
    <3>1. i \in 1..i
      BY DEF Positions
    <3> QED
      BY <1>0, <2>1, <2>2, <2>3, <2>5, <3>1
  <2>6. CASE j > i
    <3>1. i \in 1..j - 1 /\ i \in 1..i
      BY <2>6 DEF Positions
    <3> QED
      BY <1>0, <2>1, <2>2, <2>3, <3>1
  <2> QED
    BY <2>4, <2>5, <2>6 DEF Positions
<1> QED
  BY <1>1, <1>3 DEF Differ, Agree, Positions

\* A list ends inside its part; in a queue with its names in order it has just
\* the names that continue the inclusive one before it.
LEMMA ListEndIs ==
    ASSUME NEW q \in Seq(Elements), Strict(q), NEW hi \in 1..Len(q), NEW i \in 1..hi
    PROVE  /\ ListEnd(q, i, hi) \in i..hi
           /\ q[i].inclusive = 0 => ListEnd(q, i, hi) = i
           /\ q[i].inclusive # 0 => \A k \in i + 1..hi :
                 k <= ListEnd(q, i, hi) <=> Agree(q[i].name, q[k].name, Len(q[i].name))
<1> DEFINE stop == {k \in i + 1..hi : ~Continues(q[k], q[i].name)}
           n == Len(q[i].name)
<1>0. /\ Len(q) \in Nat /\ hi \in Nat /\ i \in Nat /\ i <= hi /\ i \in 1..Len(q)
      /\ \A k \in 1..Len(q) : q[k] \in Elements /\ IsName(q[k].name)
  BY QueueType
<1>1. n \in Nat
  BY <1>0 DEF IsName
<1>2. \A k \in i + 1..hi : k \in stop <=> ~Agree(q[i].name, q[k].name, n)
  <2> TAKE k \in i + 1..hi
  <2>1. k \in 1..Len(q)
    BY <1>0
  <2> QED
    BY <1>0, <2>1, NameTests
<1>3. CASE q[i].inclusive = 0
  BY <1>0, <1>3 DEF ListEnd
<1>4. CASE q[i].inclusive # 0 /\ stop = {}
  <2>1. ListEnd(q, i, hi) = hi
    BY <1>4 DEF ListEnd
  <2> HIDE DEF stop
  <2> QED
    BY <1>0, <1>2, <1>4, <2>1
<1>5. CASE q[i].inclusive # 0 /\ stop # {}
  <2>1. ListEnd(q, i, hi) = Min(stop) - 1
    BY <1>5 DEF ListEnd
  <2>2. stop \subseteq Nat /\ stop \subseteq i + 1..hi
    BY <1>0
  <2> HIDE DEF stop
  <2>3. PICK x \in stop : \A y \in stop : x <= y
    BY <1>5, <2>2, LeastNat
  <2>4. Min(stop) \in stop /\ \A y \in stop : Min(stop) <= y
    BY <2>3 DEF Min
  <2> DEFINE m == Min(stop)
  <2>5. m \in i + 1..hi /\ ~Agree(q[i].name, q[m].name, n)
    BY <1>2, <2>2, <2>4
  <2> HIDE DEF m
  <2>6. ASSUME NEW k \in i + 1..hi, k < m PROVE Agree(q[i].name, q[k].name, n)
    <3>1. k \notin stop
      BY <1>0, <2>2, <2>4, <2>5, <2>6 DEF m
    <3> QED
      BY <1>2, <3>1
  <2>7. ASSUME NEW k \in i + 1..hi, k >= m PROVE ~Agree(q[i].name, q[k].name, n)
    <3>1. CASE k = m
      BY <2>5, <3>1
    <3>2. CASE k > m
      <4>1. k \in 1..Len(q) /\ m \in 1..Len(q) /\ i < m /\ m < k
        BY <1>0, <2>5, <3>2
      <4>2. Less(q[i].name, q[m].name) /\ Less(q[m].name, q[k].name)
        BY <1>0, <4>1 DEF Strict
      <4> QED
        BY <1>0, <1>1, <2>5, <4>1, <4>2, Between
    <3> QED
      BY <1>0, <2>5, <2>7, <3>1, <3>2
  <2>8. ListEnd(q, i, hi) = m - 1 /\ m - 1 \in i..hi
    BY <1>0, <2>1, <2>5 DEF m
  <2>9. \A k \in i + 1..hi : k <= m - 1 <=> Agree(q[i].name, q[k].name, n)
    BY <1>0, <2>5, <2>6, <2>7
  <2> QED
    BY <1>5, <2>8, <2>9
<1> QED
  BY <1>3, <1>4, <1>5

\* The root of a part is one of its elements, in the list of none of the others.
LEMMA MiddleIs ==
    ASSUME NEW q \in Seq(Elements), Strict(q), NEW hi \in 1..Len(q), NEW lo \in 1..hi
    PROVE  LET mid == queue_middle(create_locations_list(q, lo, hi)) IN
           mid \in lo..hi /\ \A j \in lo..mid - 1 : ListEnd(q, j, hi) < mid
<1> DEFINE T == create_locations_list(q, lo, hi)
           c == Cardinality(T)
           h == c \div 2
<1>0. lo \in Nat /\ hi \in Nat /\ lo >= 1 /\ lo <= hi
  OBVIOUS
<1>1. T \subseteq lo..hi /\ T \subseteq 1..hi /\ lo \in T
  BY <1>0 DEF create_locations_list
<1>2. \A i \in T : \A j \in lo..i - 1 : ListEnd(q, j, hi) < i
  BY DEF create_locations_list
<1> HIDE DEF T
<1>3. Ranked(T)
  BY <1>0, <1>1, RankExists
<1>4. c \in Nat /\ c >= 1
  <2>1. c \in Nat /\ Rank(T, lo) \in 1..c
    BY <1>1, <1>3 DEF Ranked
  <2> QED
    BY <2>1
<1> HIDE DEF c
<1>5. h \in Nat /\ h + 1 \in 1..c
  BY <1>4
<1> HIDE DEF h
<1>6. PICK i \in T : Rank(T, i) = h + 1
  BY <1>3, <1>5 DEF Ranked, c
<1>7. Cardinality({j \in T : j < i}) = h
  <2>0. i \in Int /\ \A f \in T : f \in Int
    BY <1>1
  <2>a. \A f \in T : (f <= i /\ f # i) <=> f < i
    BY <2>0
  <2>b. i <= i
    BY <2>0
  <2>1. i \in {f \in T : f <= i} /\ {f \in T : f <= i} \ {i} = {j \in T : j < i}
    BY <2>a, <2>b
  <2>2. IsFiniteSet({f \in T : f <= i})
    BY <1>3, FS_Subset DEF Ranked
  <2>3. /\ Cardinality({j \in T : j < i}) = Cardinality({f \in T : f <= i}) - 1
    BY <2>1, <2>2, FS_RemoveElement
  <2> QED
    BY <1>5, <1>6, <2>3 DEF Rank
<1>8. queue_middle(T) \in T
  BY <1>7 DEF queue_middle, h, c
<1> QED
  BY <1>1, <1>2, <1>8 DEF T

-----------------------------------------------------------------------------
(* A turn of the search                                                    *)

\* Names of characters whose codes are positive: no character stands before the
\* end of a name.
Plain(s) == IsName(s) /\ \A i \in Positions : W(s, i) \in Nat

LEMMA PlainCodes ==
    ASSUME NEW s, IsName(s), \A i \in DOMAIN s : s[i] > 0
    PROVE  Plain(s)
<1> SUFFICES ASSUME NEW i \in Positions PROVE W(s, i) \in Nat
  BY DEF Plain
<1>1. CASE i <= Len(s)
  <2>1. i \in 1..Len(s) /\ s \in Seq(Code)
    BY <1>1 DEF IsName, Positions
  <2>2. s[i] \in Code /\ s[i] > 0
    BY <2>1
  <2>3. CharAt(s, i) = s[i]
    BY <1>1 DEF CharAt
  <2>4. Lower(s[i]) \in Int /\ Lower(s[i]) > 0
    <3>1. \A c \in Code : c > 0 => Lower(c) \in Int /\ Lower(c) > 0
      BY DEF Lower, Code
    <3> QED
      BY <2>2, <3>1
  <2> QED
    BY <2>3, <2>4 DEF W, Weight, Slash
<1>2. CASE ~(i <= Len(s))
  BY <1>2 DEF W, Weight, Lower, CharAt, Slash
<1> QED
  BY <1>1, <1>2

\* The part of a name behind a prefix of it.
LEMMA Suffix ==
    ASSUME NEW s, IsName(s), NEW p \in 0..Len(s)
    PROVE  LET r == SubSeq(s, p + 1, Len(s)) IN
           /\ IsName(r) /\ Len(r) = Len(s) - p
           /\ \A i \in Positions : W(r, i) = W(s, p + i)
<1> DEFINE r == SubSeq(s, p + 1, Len(s))
<1>1. s \in Seq(Code) /\ Len(s) \in Nat /\ p \in Nat /\ p <= Len(s)
  BY DEF IsName
<1>2. \A i \in p + 1..Len(s) : s[i] \in Code
  BY <1>1
<1>3. /\ r \in Seq(Code)
      /\ Len(r) = IF p + 1 <= Len(s) THEN Len(s) - (p + 1) + 1 ELSE 0
      /\ \A i \in 1..Len(s) - (p + 1) + 1 : r[i] = s[p + 1 + i - 1]
  BY <1>1, <1>2, SubSeqProperties
<1> HIDE DEF r
<1>4. Len(r) = Len(s) - p
  BY <1>1, <1>3
<1>5. \A i \in Positions : CharAt(r, i) = CharAt(s, p + i)
  <2> TAKE i \in Positions
  <2>1. i <= Len(r) <=> p + i <= Len(s)
    BY <1>1, <1>4 DEF Positions
  <2>2. i <= Len(r) => r[i] = s[p + i]
    <3> SUFFICES ASSUME i <= Len(r) PROVE r[i] = s[p + i]
      OBVIOUS
    <3>1. i \in 1..Len(s) - (p + 1) + 1 /\ p + 1 + i - 1 = p + i
      BY <1>1, <1>4 DEF Positions
    <3> QED
      BY <1>3, <3>1
  <2> QED
    BY <2>1, <2>2 DEF CharAt
<1> QED
  BY <1>3, <1>4, <1>5 DEF IsName, W, r

\* Comparing what is behind a prefix two names share compares the names.
LEMMA CmpSuffix ==
    ASSUME NEW u, IsName(u), NEW t, IsName(t), NEW p \in Nat,
           p <= Len(u), p <= Len(t), Agree(u, t, p),
           NEW m, m = IF Len(u) <= Len(t) THEN Len(u) ELSE Len(t)
    PROVE  LET rc == filename_cmp(SubSeq(u, p + 1, Len(u)), SubSeq(t, p + 1, Len(t)), m - p) IN
           /\ rc \in Int
           /\ rc = 0 <=> Agree(u, t, m)
           /\ rc < 0 <=> \E i \in 1..m : Differ(u, t, i)
           /\ rc > 0 <=> \E i \in 1..m : Differ(t, u, i)
<1> DEFINE a == SubSeq(u, p + 1, Len(u))
           b == SubSeq(t, p + 1, Len(t))
           n == m - p
           rc == filename_cmp(a, b, n)
<1>0. Len(u) \in Nat /\ Len(t) \in Nat /\ m \in Nat /\ p <= m /\ n \in Nat
  BY DEF IsName
<1>1. /\ IsName(a) /\ IsName(b)
      /\ \A i \in Positions : W(a, i) = W(u, p + i) /\ W(b, i) = W(t, p + i)
  BY <1>0, Suffix
<1> HIDE DEF a, b, rc
<1>2. /\ rc \in Int /\ (rc = 0 <=> Agree(a, b, n))
      /\ (rc < 0 <=> \E i \in 1..n : Differ(a, b, i))
      /\ (rc > 0 <=> \E i \in 1..n : Differ(b, a, i))
  BY <1>0, <1>1, CmpSign DEF rc
<1>3. \A i \in Positions : W(u, i) \in Int /\ W(t, i) \in Int
  BY WeightType
<1>4. \A i \in 1..p : W(u, i) = W(t, i)
  BY DEF Agree
\* the positions behind the prefix
<1>5. \A i \in 1..m : i \in 1..p \/ (i - p \in 1..n /\ p + (i - p) = i /\ i - p \in Positions)
  BY <1>0 DEF Positions
<1>6. \A i \in 1..n : p + i \in 1..m /\ i \in Positions /\ p + i \in Positions
  BY <1>0 DEF Positions
<1>7. Agree(a, b, n) <=> Agree(u, t, m)
  <2>1. ASSUME Agree(a, b, n), NEW i \in 1..m PROVE W(u, i) = W(t, i)
    <3>1. CASE i \in 1..p
      BY <1>4, <3>1
    <3>2. CASE i - p \in 1..n /\ p + (i - p) = i /\ i - p \in Positions
      <4>1. W(a, i - p) = W(b, i - p)
        BY <2>1, <3>2 DEF Agree
      <4> QED
        BY <1>1, <3>2, <4>1
    <3> QED
      BY <1>5, <3>1, <3>2
  <2>2. ASSUME Agree(u, t, m), NEW i \in 1..n PROVE W(a, i) = W(b, i)
    <3>1. W(u, p + i) = W(t, p + i)
      BY <1>6, <2>2 DEF Agree
    <3> QED
      BY <1>1, <1>6, <3>1
  <2> QED
    BY <2>1, <2>2 DEF Agree
<1>8. \A i \in 1..n : /\ Differ(a, b, i) <=> Differ(u, t, p + i)
                      /\ Differ(b, a, i) <=> Differ(t, u, p + i)
  <2> TAKE i \in 1..n
  <2>1. /\ W(a, i) = W(u, p + i) /\ W(b, i) = W(t, p + i)
    BY <1>1, <1>6
  <2>2. Agree(a, b, i - 1) <=> Agree(u, t, (p + i) - 1)
    <3>1. \A l \in 1..i - 1 : /\ l \in Positions /\ p + l \in 1..(p + i) - 1
                              /\ W(a, l) = W(u, p + l) /\ W(b, l) = W(t, p + l)
      <4> TAKE l \in 1..i - 1
      <4>1. l \in Positions /\ p + l \in 1..(p + i) - 1
        BY <1>0 DEF Positions
      <4> QED
        BY <1>1, <4>1
    <3>2. \A l \in 1..(p + i) - 1 : l \in 1..p \/ (l - p \in 1..i - 1 /\ p + (l - p) = l)
      BY <1>0
    <3>3. ASSUME Agree(a, b, i - 1), NEW l \in 1..(p + i) - 1 PROVE W(u, l) = W(t, l)
      <4>1. CASE l \in 1..p
        BY <1>4, <4>1
      <4>2. CASE l - p \in 1..i - 1 /\ p + (l - p) = l
        BY <3>1, <3>3, <4>2 DEF Agree
      <4> QED
        BY <3>2, <4>1, <4>2
    <3>4. ASSUME Agree(u, t, (p + i) - 1), NEW l \in 1..i - 1 PROVE W(a, l) = W(b, l)
      BY <3>1, <3>4 DEF Agree
    <3> QED
      BY <3>3, <3>4 DEF Agree
  <2>3. Agree(b, a, i - 1) <=> Agree(a, b, i - 1)
    BY DEF Agree
  <2>4. Agree(t, u, (p + i) - 1) <=> Agree(u, t, (p + i) - 1)
    BY DEF Agree
  <2> QED
    BY <2>1, <2>2, <2>3, <2>4 DEF Differ
<1>9. \A i \in 1..p : ~Differ(u, t, i) /\ ~Differ(t, u, i)
  <2> TAKE i \in 1..p
  <2>1. i \in Positions
    BY DEF Positions
  <2> QED
    BY <1>3, <1>4, <2>1 DEF Differ
<1>10. (\E i \in 1..n : Differ(a, b, i)) <=> \E i \in 1..m : Differ(u, t, i)
  BY <1>5, <1>6, <1>8, <1>9
<1>11. (\E i \in 1..n : Differ(b, a, i)) <=> \E i \in 1..m : Differ(t, u, i)
  BY <1>5, <1>6, <1>8, <1>9
<1> QED
  BY <1>2, <1>7, <1>10, <1>11 DEF a, b, rc

\* The states of the search.
SearchStates(q, u) == [node : [lo : 1..Len(q) + 1, hi : 0..Len(q)], prefix : 0..Len(u),
                       rc : {"DECLINED", "OK", "AGAIN"}, loc : Nat]

\* The place of a part's root, and where its list ends.
Root(q, s) == queue_middle(create_locations_list(q, s.node.lo, s.node.hi))
LastOf(q, s) == ListEnd(q, Root(q, s), s.node.hi)

\* The parts to go on with.
LowerPart(q, s) == [lo |-> s.node.lo, hi |-> Root(q, s) - 1]
UpperPart(q, s) == [lo |-> LastOf(q, s) + 1, hi |-> s.node.hi]
InnerPart(q, s) == [lo |-> Root(q, s) + 1, hi |-> LastOf(q, s)]

LEMMA RootIs ==
    ASSUME NEW q \in Seq(Elements), Strict(q), NEW u, IsName(u), NEW s \in SearchStates(q, u),
           s.node.lo <= s.node.hi
    PROVE  /\ Root(q, s) \in s.node.lo..s.node.hi /\ Root(q, s) \in 1..Len(q)
           /\ LastOf(q, s) \in Root(q, s)..s.node.hi
           /\ \A j \in s.node.lo..Root(q, s) - 1 : ListEnd(q, j, s.node.hi) < Root(q, s)
           /\ s.node.hi \in 1..Len(q) /\ s.node.lo \in 1..s.node.hi
<1>1. Len(q) \in Nat /\ s.node.hi \in 1..Len(q) /\ s.node.lo \in 1..s.node.hi
  BY QueueType DEF SearchStates
<1>2. /\ Root(q, s) \in s.node.lo..s.node.hi
      /\ \A j \in s.node.lo..Root(q, s) - 1 : ListEnd(q, j, s.node.hi) < Root(q, s)
  BY <1>1, MiddleIs DEF Root
<1>3. Root(q, s) \in 1..s.node.hi /\ Root(q, s) \in 1..Len(q)
  BY <1>1, <1>2
<1>4. LastOf(q, s) \in Root(q, s)..s.node.hi
  BY <1>1, <1>3, ListEndIs DEF LastOf
<1> QED
  BY <1>1, <1>2, <1>3, <1>4

\* What a turn compares, and what it does then.
TurnOf(q, u, s, s1) ==
    LET m == Root(q, s)
        t == q[m].name
        n == IF Len(u) <= Len(t) THEN Len(u) ELSE Len(t)
    IN  \/ /\ \E i \in 1..n : Differ(u, t, i)
           /\ s1 = [s EXCEPT !.node = LowerPart(q, s)]
        \/ /\ \E i \in 1..n : Differ(t, u, i)
           /\ s1 = [s EXCEPT !.node = UpperPart(q, s)]
        \/ /\ Agree(u, t, n) /\ Len(u) > Len(t) /\ q[m].inclusive # 0
           /\ s1 = [node |-> InnerPart(q, s), prefix |-> Len(t), rc |-> "AGAIN",
                    loc |-> q[m].inclusive]
        \/ /\ Agree(u, t, n) /\ Len(u) > Len(t) /\ q[m].inclusive = 0
           /\ s1 = [s EXCEPT !.node = UpperPart(q, s)]
        \/ /\ Agree(u, t, n) /\ Len(u) < Len(t)
           /\ s1 = [s EXCEPT !.node = LowerPart(q, s)]
        \/ /\ Agree(u, t, n) /\ Len(u) = Len(t) /\ q[m].exact # 0
           /\ s1 = [s EXCEPT !.node = NoNode, !.rc = "OK", !.loc = q[m].exact]
        \/ /\ Agree(u, t, n) /\ Len(u) = Len(t) /\ q[m].exact = 0
           /\ s1 = [s EXCEPT !.node = NoNode, !.rc = "AGAIN", !.loc = q[m].inclusive]

LEMMA TurnIs ==
    ASSUME NEW q \in Seq(Elements), Strict(q), NEW u, IsName(u), NEW s \in SearchStates(q, u),
           s.node.lo <= s.node.hi,
           s.prefix <= Len(q[Root(q, s)].name), Agree(u, q[Root(q, s)].name, s.prefix)
    PROVE  TurnOf(q, u, s, SearchTurn(q, u, s))
<1> DEFINE m == Root(q, s)
           t == q[m].name
           p == s.prefix
           node == create_locations_tree(q, s.node.lo, s.node.hi, p)
           n == IF Len(u) <= Len(t) THEN Len(u) ELSE Len(t)
           rc == filename_cmp(SubSeq(u, p + 1, Len(u)), SubSeq(t, p + 1, Len(t)), n - p)
           s1 == SearchTurn(q, u, s)
<1>1. /\ m \in 1..Len(q) /\ q[m] \in Elements /\ IsName(t) /\ p \in Nat /\ p <= Len(u)
      /\ Len(t) \in Nat /\ Len(u) \in Nat
  BY RootIs, QueueType DEF SearchStates, IsName
<1>2. /\ node.name = SubSeq(t, p + 1, Len(t)) /\ node.exact = q[m].exact
      /\ node.inclusive = q[m].inclusive
      /\ node.left = LowerPart(q, s) /\ node.right = UpperPart(q, s) /\ node.tree = InnerPart(q, s)
  BY DEF create_locations_tree, Root, LastOf, LowerPart, UpperPart, InnerPart
<1> HIDE DEF node, m
<1>3. Len(node.name) = Len(t) - p
  <2>1. p <= Len(t)
    BY DEF m
  <2>2. p \in 0..Len(t)
    BY <1>1, <2>1
  <2> HIDE DEF t, p
  <2> QED
    BY <1>1, <1>2, <2>2, Suffix
<1>4. Min({Len(u) - p, Len(node.name)}) = n - p
  BY <1>1, <1>3 DEF Min
<1>5. /\ rc \in Int /\ (rc = 0 <=> Agree(u, t, n))
      /\ (rc < 0 <=> \E i \in 1..n : Differ(u, t, i))
      /\ (rc > 0 <=> \E i \in 1..n : Differ(t, u, i))
  <2>1. p <= Len(t) /\ Agree(u, t, p)
    BY DEF m
  <2>2. n = IF Len(u) <= Len(t) THEN Len(u) ELSE Len(t)
    OBVIOUS
  <2> HIDE DEF t, p, n
  <2> QED
    BY <1>1, <2>1, <2>2, CmpSuffix DEF rc
<1>6. s1 = IF rc # 0 THEN [s EXCEPT !.node = IF rc < 0 THEN node.left ELSE node.right]
           ELSE IF Len(u) - p > Len(node.name)
                THEN IF node.inclusive # 0
                     THEN [node |-> node.tree, prefix |-> p + (n - p),
                           rc |-> "AGAIN", loc |-> node.inclusive]
                     ELSE [s EXCEPT !.node = node.right]
           ELSE IF Len(u) - p < Len(node.name) THEN [s EXCEPT !.node = node.left]
           ELSE IF node.exact # 0
                THEN [s EXCEPT !.node = NoNode, !.rc = "OK", !.loc = node.exact]
           ELSE [s EXCEPT !.node = NoNode, !.rc = "AGAIN", !.loc = node.inclusive]
  <2>1. s.node.lo <= s.node.hi /\ ~(s.node.lo > s.node.hi)
    BY DEF SearchStates
  <2> QED
    BY <1>2, <1>4, <2>1 DEF SearchTurn, node
<1>7. p + (n - p) = n
  BY <1>1
<1> HIDE DEF rc, t, n, s1
<1>8. /\ (Len(u) - p > Len(node.name) <=> Len(u) > Len(t))
      /\ (Len(u) - p < Len(node.name) <=> Len(u) < Len(t))
      /\ (Len(u) > Len(t) => n = Len(t))
      /\ (Len(u) > Len(t) \/ Len(u) < Len(t) \/ Len(u) = Len(t))
  BY <1>1, <1>3 DEF n
<1>9. CASE rc < 0
  <2>1. s1 = [s EXCEPT !.node = LowerPart(q, s)]
    BY <1>2, <1>6, <1>9
  <2> QED
    BY <1>5, <1>9, <2>1 DEF TurnOf, m, t, n, s1
<1>10. CASE rc > 0
  <2>1. s1 = [s EXCEPT !.node = UpperPart(q, s)]
    BY <1>2, <1>5, <1>6, <1>10
  <2> QED
    BY <1>5, <1>10, <2>1 DEF TurnOf, m, t, n, s1
<1>11. CASE rc = 0 /\ Len(u) > Len(t)
  <2>1. s1 = IF q[m].inclusive # 0
             THEN [node |-> InnerPart(q, s), prefix |-> Len(t), rc |-> "AGAIN",
                   loc |-> q[m].inclusive]
             ELSE [s EXCEPT !.node = UpperPart(q, s)]
    BY <1>2, <1>6, <1>7, <1>8, <1>11
  <2> QED
    BY <1>5, <1>11, <2>1 DEF TurnOf, m, t, n, s1
<1>12. CASE rc = 0 /\ Len(u) < Len(t)
  <2>1. s1 = [s EXCEPT !.node = LowerPart(q, s)]
    BY <1>1, <1>2, <1>6, <1>8, <1>12
  <2> QED
    BY <1>5, <1>12, <2>1 DEF TurnOf, m, t, n, s1
<1>13. CASE rc = 0 /\ Len(u) = Len(t)
  <2>1. s1 = IF q[m].exact # 0
             THEN [s EXCEPT !.node = NoNode, !.rc = "OK", !.loc = q[m].exact]
             ELSE [s EXCEPT !.node = NoNode, !.rc = "AGAIN", !.loc = q[m].inclusive]
    BY <1>1, <1>2, <1>6, <1>8, <1>13
  <2> QED
    BY <1>5, <1>13, <2>1 DEF TurnOf, m, t, n, s1
<1> QED
  BY <1>5, <1>8, <1>9, <1>10, <1>11, <1>12, <1>13

-----------------------------------------------------------------------------
(* What the search keeps                                                   *)

\* An exact location for a uri, and an inclusive one whose name the uri begins
\* with.
For(a, u) == a.exact # 0 /\ Same(a.name, u)
Begins(a, u) == a.inclusive # 0 /\ Agree(a.name, u, Len(a.name))
Matches(a, u) == For(a, u) \/ Begins(a, u)

\* Agreement is an equivalence, and holds of the parts.
LEMMA AgreeParts ==
    ASSUME NEW s, NEW t, NEW v, NEW n \in Nat, NEW m \in 0..n
    PROVE  /\ Agree(s, t, n) => Agree(t, s, n) /\ Agree(s, t, m)
           /\ Agree(s, t, n) /\ Agree(t, v, n) => Agree(s, v, n)
           /\ Same(s, t) => Agree(s, t, n)
<1>1. 1..m \subseteq 1..n /\ 1..n \subseteq Positions
  BY DEF Positions
<1> QED
  BY <1>1 DEF Agree, Same

\* A location that matches begins the uri.
LEMMA MatchAgrees ==
    ASSUME NEW a \in Elements, NEW u, IsName(u), Matches(a, u)
    PROVE  /\ Agree(a.name, u, Len(a.name)) /\ Len(a.name) <= Len(u)
           /\ For(a, u) => Len(a.name) = Len(u)
<1>1. IsName(a.name) /\ Len(a.name) \in Nat /\ Len(u) \in Nat
  BY DEF Elements, IsName
<1>2. Agree(a.name, u, Len(a.name))
  <2>1. Len(a.name) \in 0..Len(a.name)
    BY <1>1
  <2> QED
    BY <1>1, <2>1, AgreeParts DEF Matches, For, Begins
<1>3. Len(a.name) <= Len(u)
  BY <1>1, <1>2, AgreeLen
<1>4. For(a, u) => Len(a.name) = Len(u)
  BY <1>1, SameFolded DEF For
<1> QED
  BY <1>2, <1>3, <1>4

\* What begins a plain name does not come after it.
LEMMA PrefixLow ==
    ASSUME NEW s, IsName(s), NEW u, Plain(u), Agree(s, u, Len(s))
    PROVE  /\ ~Less(u, s)
           /\ Len(s) < Len(u) => Less(s, u)
<1>0. Len(s) \in Nat /\ Len(u) \in Nat /\ IsName(u)
  BY DEF IsName, Plain
<1>1. \A i \in Positions : /\ W(s, i) \in Int /\ (W(s, i) = 0 <=> i > Len(s))
                           /\ W(u, i) \in Nat /\ (W(u, i) = 0 <=> i > Len(u))
  BY <1>0, WeightType DEF Plain
<1>2. ASSUME Less(u, s) PROVE FALSE
  <2>1. PICK i \in Positions : W(u, i) < W(s, i)
    BY <1>2 DEF Less, Differ
  <2>2. CASE i <= Len(s)
    <3>1. i \in 1..Len(s)
      BY <2>2 DEF Positions
    <3>2. W(s, i) = W(u, i)
      BY <3>1 DEF Agree
    <3> QED
      BY <1>1, <2>1, <3>2
  <2>3. CASE i > Len(s)
    BY <1>1, <2>1, <2>3
  <2> QED
    BY <1>0, <2>2, <2>3 DEF Positions
<1>3. ASSUME Len(s) < Len(u) PROVE Less(s, u)
  <2>1. /\ Len(s) + 1 \in Positions /\ (Len(s) + 1) - 1 = Len(s) /\ Len(s) + 1 > Len(s)
        /\ ~(Len(s) + 1 > Len(u))
    BY <1>0, <1>3 DEF Positions
  <2>2. W(s, Len(s) + 1) = 0 /\ W(u, Len(s) + 1) \in Nat /\ W(u, Len(s) + 1) # 0
    BY <1>1, <2>1
  <2>3. Differ(s, u, Len(s) + 1)
    BY <2>1, <2>2 DEF Differ
  <2> QED
    BY <2>1, <2>3 DEF Less
<1> QED
  BY <1>2, <1>3

\* A queue of locations to search.
Queue(q) == /\ q \in Seq(Elements) /\ Strict(q)
            /\ \A k \in 1..Len(q) : Plain(q[k].name) /\ (q[k].exact # 0 \/ q[k].inclusive # 0)

LEMMA QueueIs ==
    ASSUME NEW q, Queue(q)
    PROVE  /\ Len(q) \in Nat
           /\ \A k \in 1..Len(q) :
                 /\ q[k] \in Elements /\ IsName(q[k].name) /\ Plain(q[k].name)
                 /\ q[k].exact \in Nat /\ q[k].inclusive \in Nat /\ Len(q[k].name) \in Nat
           /\ \A k, l \in 1..Len(q) : k < l => Less(q[k].name, q[l].name)
BY QueueType DEF Queue, IsName, Strict

\* What matches a uri that comes before a location is itself before it.
LEMMA MatchBefore ==
    ASSUME NEW q, Queue(q), NEW u, Plain(u), NEW m \in 1..Len(q), NEW k \in 1..Len(q),
           Less(u, q[m].name), Matches(q[k], u)
    PROVE  k < m
<1> DEFINE t == q[m].name
           K == q[k].name
<1>0. q[k] \in Elements /\ IsName(K) /\ IsName(t) /\ IsName(u) /\ k \in Nat /\ m \in Nat
  BY QueueIs DEF Plain
<1>1. ~Less(u, K)
  BY <1>0, MatchAgrees, PrefixLow
<1>2. CASE k = m
  BY <1>1, <1>2
<1>3. CASE m < k
  <2>1. Less(t, K)
    BY <1>3, QueueIs
  <2> HIDE DEF t, K
  <2>2. Less(u, t)
    BY DEF t
  <2> QED
    BY <1>0, <1>1, <2>1, <2>2, LessTrans
<1> QED
  BY <1>0, <1>2, <1>3

\* What a location has in its list when it is in the list of none before it.
LEMMA MatchAfter ==
    ASSUME NEW q, Queue(q), NEW u, Plain(u), NEW hi \in 1..Len(q), NEW m \in 1..hi,
           NEW k \in 1..m - 1, ListEnd(q, k, hi) < m,
           Less(q[m].name, u), Matches(q[k], u)
    PROVE  FALSE
<1> DEFINE t == q[m].name
           K == q[k].name
<1>0. /\ q[k] \in Elements /\ IsName(K) /\ IsName(t) /\ IsName(u) /\ k \in Nat /\ m \in Nat
      /\ k \in 1..hi /\ m \in k + 1..hi /\ k \in 1..Len(q) /\ m \in 1..Len(q) /\ k < m
      /\ Len(K) \in Nat /\ q \in Seq(Elements) /\ Strict(q) /\ ~(m <= ListEnd(q, k, hi))
  <2>1. /\ k \in 1..hi /\ m \in k + 1..hi /\ k \in 1..Len(q) /\ m \in 1..Len(q) /\ k < m
        /\ k \in Nat /\ m \in Nat
    BY QueueIs
  <2>2. ListEnd(q, k, hi) \in k..hi
    BY <2>1, ListEndIs DEF Queue
  <2> QED
    BY <2>1, <2>2, QueueIs DEF Queue, Plain
<1>1. Less(K, t)
  BY <1>0, QueueIs
<1>2. Agree(K, u, Len(K)) /\ Less(t, u)
  BY <1>0, MatchAgrees
<1>3. CASE q[k].inclusive = 0
  <2>1. Same(K, u)
    BY <1>3 DEF Matches, For, Begins
  <2> HIDE DEF t, K
  <2> QED
    BY <1>0, <1>1, <1>2, <2>1, LessTrans, Trichotomy
<1>4. CASE q[k].inclusive # 0
  <2>1. ~Agree(K, t, Len(K))
    BY <1>0, <1>4, ListEndIs
  <2> HIDE DEF t, K
  <2> QED
    BY <1>0, <1>1, <1>2, <2>1, Between
<1> QED
  BY <1>3, <1>4

\* The search has the uri behind it up to its prefix in common with its part;
\* whatever matches is still in that part, or not longer than what was found.
InPart(s, k) == k \in s.node.lo..s.node.hi
Found(q, u, s, p) ==
    /\ p \in 1..Len(q) /\ Begins(q[p], u) /\ s.loc = q[p].inclusive
    /\ s.node.lo <= s.node.hi => Len(q[p].name) <= s.prefix
    /\ \A k \in 1..Len(q) : For(q[k], u) => InPart(s, k)
    /\ \A k \in 1..Len(q) : Begins(q[k], u) => InPart(s, k) \/ Len(q[k].name) <= Len(q[p].name)
SearchOK(q, u, s) ==
    /\ \A k \in 1..Len(q) : InPart(s, k) => Agree(q[k].name, u, s.prefix)
    /\ s.rc = "DECLINED" =>
         s.loc = 0 /\ \A k \in 1..Len(q) : Matches(q[k], u) => InPart(s, k)
    /\ s.rc = "AGAIN" => \E p : Found(q, u, s, p)
    /\ s.rc = "OK" => /\ s.node.lo > s.node.hi
                      /\ \E p \in 1..Len(q) : For(q[p], u) /\ s.loc = q[p].exact

\* A turn that goes on with a part that has all that matches.
LEMMA GoesOn ==
    ASSUME NEW q, Queue(q), NEW u, Plain(u), NEW s \in SearchStates(q, u), SearchOK(q, u, s),
           s.node.lo <= s.node.hi, NEW v, v \in [lo : 1..Len(q) + 1, hi : 0..Len(q)],
           v.lo..v.hi \subseteq s.node.lo..s.node.hi,
           \A k \in 1..Len(q) : InPart(s, k) /\ Matches(q[k], u) => k \in v.lo..v.hi
    PROVE  SearchOK(q, u, [s EXCEPT !.node = v]) /\ [s EXCEPT !.node = v] \in SearchStates(q, u)
<1> DEFINE s1 == [s EXCEPT !.node = v]
<1>1. /\ s1.node = v /\ s1.prefix = s.prefix /\ s1.rc = s.rc /\ s1.loc = s.loc
      /\ s1 \in SearchStates(q, u)
  BY DEF SearchStates
<1> HIDE DEF s1
<1>2. \A k \in 1..Len(q) : InPart(s1, k) => InPart(s, k)
  BY <1>1 DEF InPart
<1>3. \A k \in 1..Len(q) : InPart(s, k) /\ Matches(q[k], u) => InPart(s1, k)
  BY <1>1 DEF InPart
<1>4. s.rc # "OK"
  <2>1. s.node.lo \in Int /\ s.node.hi \in Int
    BY DEF SearchStates
  <2> QED
    BY <2>1 DEF SearchOK
<1>5. ASSUME NEW p, Found(q, u, s, p) PROVE Found(q, u, s1, p)
  BY <1>1, <1>2, <1>3, <1>5 DEF Found, Matches
<1> QED
  BY <1>1, <1>2, <1>3, <1>4, <1>5 DEF SearchOK, s1

\* A turn that finds an inclusive location goes on with its list.
LEMMA GoesInto ==
    ASSUME NEW q, Queue(q), NEW u, Plain(u), NEW s \in SearchStates(q, u), SearchOK(q, u, s),
           s.node.lo <= s.node.hi,
           Agree(u, q[Root(q, s)].name, Len(q[Root(q, s)].name)),
           Len(u) > Len(q[Root(q, s)].name), q[Root(q, s)].inclusive # 0
    PROVE  LET m == Root(q, s)
               s1 == [node |-> InnerPart(q, s), prefix |-> Len(q[m].name), rc |-> "AGAIN",
                      loc |-> q[m].inclusive]
           IN  SearchOK(q, u, s1) /\ s1 \in SearchStates(q, u)
<1> DEFINE m == Root(q, s)
           last == LastOf(q, s)
           t == q[m].name
           n == Len(t)
           lo == s.node.lo
           hi == s.node.hi
           s1 == [node |-> InnerPart(q, s), prefix |-> n, rc |-> "AGAIN", loc |-> q[m].inclusive]
<1>1. /\ m \in lo..hi /\ m \in 1..Len(q) /\ last \in m..hi /\ hi \in 1..Len(q) /\ lo \in 1..hi
      /\ \A j \in lo..m - 1 : ListEnd(q, j, hi) < m
      /\ q \in Seq(Elements) /\ Strict(q) /\ IsName(u) /\ Len(q) \in Nat
  <2>1. q \in Seq(Elements) /\ Strict(q) /\ IsName(u) /\ Len(q) \in Nat
    BY QueueIs DEF Queue, Plain
  <2> QED
    BY <2>1, RootIs
<1>2. /\ q[m].inclusive # 0 /\ Len(u) \in Nat /\ n \in Nat /\ n < Len(u)
      /\ Agree(u, t, n) /\ IsName(t) /\ Plain(t) /\ q[m].inclusive \in Nat /\ q[m] \in Elements
  BY <1>1, QueueIs DEF IsName
<1>3. \A k \in 1..Len(q) : /\ q[k] \in Elements /\ IsName(q[k].name) /\ Plain(q[k].name)
                           /\ Len(q[k].name) \in Nat /\ k \in Nat
  BY QueueIs
<1>4. /\ s1.node = [lo |-> m + 1, hi |-> last] /\ s1.prefix = n /\ s1.rc = "AGAIN"
      /\ s1.loc = q[m].inclusive
  BY DEF InnerPart
<1>5. s1 \in SearchStates(q, u)
  <2>1. m + 1 \in 1..Len(q) + 1 /\ last \in 0..Len(q) /\ n \in 0..Len(u)
    BY <1>1, <1>2
  <2> HIDE DEF m, last, t, n
  <2> QED
    BY <1>2, <2>1 DEF SearchStates, InnerPart, m, last
<1>6. \A k \in m + 1..hi : k <= last <=> Agree(t, q[k].name, n)
  <2>1. m \in 1..hi
    BY <1>1
  <2> QED
    BY <1>1, <1>2, <2>1, ListEndIs DEF LastOf
<1>7. Agree(t, u, n)
  BY <1>2 DEF Agree
<1>8. n >= s.prefix
  <2>1. Agree(t, u, s.prefix) /\ s.prefix \in Nat /\ s.prefix <= Len(u)
    BY <1>1 DEF SearchOK, InPart, SearchStates
  <2> HIDE DEF t
  <2> QED
    BY <1>1, <1>2, <2>1, AgreeLen DEF t
<1> HIDE DEF m, last, t, n, s1
<1>9. ASSUME NEW k \in 1..Len(q), InPart(s1, k) PROVE Agree(q[k].name, u, n)
  <2>1. k \in m + 1..hi /\ k <= last
    BY <1>1, <1>4, <1>9 DEF InPart
  <2>2. Agree(t, q[k].name, n)
    BY <1>6, <2>1
  <2> QED
    BY <1>7, <2>2 DEF Agree
<1>10. ~Less(u, t) /\ Begins(q[m], u)
  BY <1>1, <1>2, <1>7, PrefixLow DEF Begins, t, n
<1>11. ASSUME NEW k \in 1..Len(q), InPart(s, k), k < m, Len(q[k].name) > n,
              Agree(q[k].name, u, Len(q[k].name))
       PROVE  FALSE
  <2>1. Less(q[k].name, t)
    BY <1>1, <1>11, QueueIs DEF t
  <2>2. Agree(q[k].name, u, n)
    <3>1. n \in 0..Len(q[k].name)
      BY <1>2, <1>3, <1>11
    <3> QED
      BY <1>3, <1>11, <3>1, AgreeParts
  <2>3. Agree(t, q[k].name, n)
    BY <1>7, <2>2 DEF Agree
  <2>4. ~Less(q[k].name, t)
    BY <1>2, <1>3, <2>3, PrefixLow DEF n
  <2> QED
    BY <2>1, <2>4
<1>12. ASSUME NEW k \in 1..Len(q), InPart(s, k), k > m, Len(q[k].name) >= n,
              Agree(q[k].name, u, Len(q[k].name))
       PROVE  InPart(s1, k)
  <2>1. k \in m + 1..hi
    BY <1>1, <1>12 DEF InPart
  <2>2. Agree(q[k].name, u, n)
    <3>1. n \in 0..Len(q[k].name)
      BY <1>2, <1>3, <1>12
    <3> QED
      BY <1>3, <1>12, <3>1, AgreeParts
  <2>3. Agree(t, q[k].name, n)
    BY <1>7, <2>2 DEF Agree
  <2>4. k <= last
    BY <1>6, <2>1, <2>3
  <2> QED
    BY <1>1, <1>4, <2>1, <2>4 DEF InPart
<1>13. ASSUME NEW k \in 1..Len(q), InPart(s, k), Agree(q[k].name, u, Len(q[k].name))
       PROVE  InPart(s1, k) \/ Len(q[k].name) <= n
  <2>1. CASE k < m
    BY <1>2, <1>3, <1>11, <1>13, <2>1
  <2>2. CASE k = m
    BY <1>2, <2>2 DEF n, t
  <2>3. CASE k > m
    BY <1>2, <1>3, <1>12, <1>13, <2>3
  <2> QED
    BY <1>1, <1>3, <2>1, <2>2, <2>3
<1>14. ASSUME NEW k \in 1..Len(q), For(q[k], u) PROVE InPart(s1, k)
  <2>1. Agree(q[k].name, u, Len(q[k].name)) /\ Len(q[k].name) = Len(u)
    BY <1>1, <1>3, <1>14, MatchAgrees DEF Matches
  <2>2. InPart(s, k)
    <3>1. s.rc \in {"DECLINED", "OK", "AGAIN"} /\ lo \in Int /\ hi \in Int
      BY DEF SearchStates
    <3> QED
      BY <1>14, <3>1 DEF SearchOK, Found, Matches
  <2> QED
    BY <1>2, <1>13, <2>1, <2>2
<1>15. ASSUME NEW k \in 1..Len(q), Begins(q[k], u) PROVE InPart(s1, k) \/ Len(q[k].name) <= n
  <2>1. Agree(q[k].name, u, Len(q[k].name))
    BY <1>15 DEF Begins
  <2>2. CASE InPart(s, k)
    BY <1>13, <2>1, <2>2
  <2>3. CASE ~InPart(s, k)
    <3>1. s.rc \in {"DECLINED", "OK", "AGAIN"} /\ lo \in Int /\ hi \in Int /\ s.prefix \in Nat
      BY DEF SearchStates
    <3>2. PICK p \in 1..Len(q) : Len(q[k].name) <= Len(q[p].name) /\ Len(q[p].name) <= s.prefix
      <4>1. s.rc = "AGAIN"
        <5>1. s.rc # "OK"
          BY <3>1 DEF SearchOK
        <5>2. s.rc # "DECLINED"
          BY <1>15, <2>3 DEF SearchOK, Matches
        <5> QED
          BY <3>1, <5>1, <5>2
      <4>2. PICK p : Found(q, u, s, p)
        BY <4>1 DEF SearchOK
      <4>3. Len(q[k].name) <= Len(q[p].name) /\ p \in 1..Len(q)
        BY <1>15, <2>3, <4>2 DEF Found
      <4>4. Len(q[p].name) <= s.prefix
        BY <4>2 DEF Found
      <4> QED
        BY <4>3, <4>4
    <3> QED
      BY <1>2, <1>3, <1>8, <3>1, <3>2
  <2> QED
    BY <2>2, <2>3
<1>16. Found(q, u, s1, m)
  <2>1. n <= n /\ Len(q[m].name) = n
    BY <1>2 DEF n, t
  <2> QED
    BY <1>1, <1>4, <1>10, <1>14, <1>15, <2>1 DEF Found
<1>17. SearchOK(q, u, s1)
  BY <1>4, <1>9, <1>16 DEF SearchOK
<1> QED
  BY <1>5, <1>17 DEF m, t, n, s1

\* A turn keeps what the search keeps, and makes its part smaller.
LEMMA SearchStep ==
    ASSUME NEW q, Queue(q), NEW u, Plain(u), NEW s \in SearchStates(q, u), SearchOK(q, u, s)
    PROVE  LET s1 == SearchTurn(q, u, s) IN
           /\ s1 \in SearchStates(q, u) /\ SearchOK(q, u, s1)
           /\ s.node.lo > s.node.hi => s1 = s
           /\ s1.node.lo > s1.node.hi
                \/ s1.node.hi - s1.node.lo < s.node.hi - s.node.lo
<1> DEFINE m == Root(q, s)
           last == LastOf(q, s)
           t == q[m].name
           lo == s.node.lo
           hi == s.node.hi
           n == IF Len(u) <= Len(t) THEN Len(u) ELSE Len(t)
           s1 == SearchTurn(q, u, s)
<1>0. lo \in Nat /\ hi \in Nat /\ lo \in 1..Len(q) + 1 /\ hi \in 0..Len(q) /\ Len(q) \in Nat
  BY QueueIs DEF SearchStates
<1>1. CASE lo > hi
  <2>1. s1 = s
    BY <1>1 DEF SearchTurn
  <2> QED
    BY <1>1, <2>1
<1>2. CASE lo <= hi
  <2>1. /\ m \in lo..hi /\ m \in 1..Len(q) /\ last \in m..hi /\ hi \in 1..Len(q) /\ lo \in 1..hi
        /\ \A j \in lo..m - 1 : ListEnd(q, j, hi) < m
        /\ q \in Seq(Elements) /\ Strict(q) /\ IsName(u)
    <3>1. q \in Seq(Elements) /\ Strict(q) /\ IsName(u)
      BY DEF Queue, Plain
    <3> QED
      BY <1>2, <3>1, RootIs
  <2>2. /\ Len(u) \in Nat /\ Len(t) \in Nat /\ n \in Nat /\ IsName(t) /\ Plain(t)
        /\ q[m].inclusive \in Nat /\ q[m].exact \in Nat /\ q[m] \in Elements
        /\ (q[m].exact # 0 \/ q[m].inclusive # 0) /\ m \in Nat /\ last \in Nat
    <3>1. q[m].exact # 0 \/ q[m].inclusive # 0
      BY <2>1 DEF Queue
    <3> QED
      BY <2>1, <3>1, QueueIs DEF IsName
  <2>3. s.prefix <= Len(t) /\ Agree(u, t, s.prefix)
    <3>1. Agree(t, u, s.prefix) /\ s.prefix \in Nat /\ s.prefix <= Len(u)
      BY <2>1 DEF SearchOK, InPart, SearchStates
    <3> HIDE DEF t
    <3>2. s.prefix <= Len(t)
      BY <2>1, <2>2, <3>1, AgreeLen
    <3> QED
      BY <3>1, <3>2 DEF Agree
  <2>4. TurnOf(q, u, s, s1)
    BY <1>2, <2>1, <2>3, TurnIs
  <2> DEFINE Down == [lo |-> lo, hi |-> m - 1]
             Up == [lo |-> last + 1, hi |-> hi]
             Parts == [lo : 1..Len(q) + 1, hi : 0..Len(q)]
  <2>5. /\ LowerPart(q, s) = Down /\ UpperPart(q, s) = Up
        /\ Down.lo = lo /\ Down.hi = m - 1 /\ Up.lo = last + 1 /\ Up.hi = hi
        /\ InnerPart(q, s).lo = m + 1 /\ InnerPart(q, s).hi = last
        /\ NoNode.lo > NoNode.hi
    BY DEF LowerPart, UpperPart, InnerPart, NoNode
  <2>6. /\ Down \in Parts /\ Up \in Parts /\ NoNode \in Parts
        /\ lo..m - 1 \subseteq lo..hi /\ last + 1..hi \subseteq lo..hi
    <3> HIDE DEF m, last
    <3>1. /\ lo \in 1..Len(q) + 1 /\ m - 1 \in 0..Len(q)
          /\ last + 1 \in 1..Len(q) + 1 /\ hi \in 0..Len(q)
      BY <1>0, <2>1, <2>2
    <3>2. 1 \in 1..Len(q) + 1 /\ 0 \in 0..Len(q)
      BY <1>0
    <3> QED
      BY <1>0, <2>1, <2>2, <3>1, <3>2 DEF NoNode
  <2>7. /\ (m - 1) - lo < hi - lo /\ hi - (last + 1) < hi - lo /\ last - (m + 1) < hi - lo
    <3>1. m >= lo /\ last >= m /\ last <= hi
      BY <1>0, <2>1, <2>2
    <3>2. m \in Nat /\ last \in Nat /\ lo \in Nat /\ hi \in Nat
      BY <1>0, <2>2
    <3> HIDE DEF m, last, lo, hi
    <3> QED
      BY <3>1, <3>2
  <2> HIDE DEF Parts
  <2>8. ASSUME Less(u, t), s1 = [s EXCEPT !.node = Down]
        PROVE  s1 \in SearchStates(q, u) /\ SearchOK(q, u, s1)
    <3>1. \A k \in 1..Len(q) : InPart(s, k) /\ Matches(q[k], u) => k \in Down.lo..Down.hi
      <4> TAKE k \in 1..Len(q)
      <4> SUFFICES ASSUME InPart(s, k), Matches(q[k], u) PROVE k \in Down.lo..Down.hi
        OBVIOUS
      <4>1. k < m
        BY <2>1, <2>8, MatchBefore
      <4> QED
        BY <1>0, <2>2, <2>5, <4>1 DEF InPart
    <3>2. Down.lo..Down.hi \subseteq s.node.lo..s.node.hi
      BY <2>5, <2>6
    <3> HIDE DEF Down
    <3> QED
      BY <1>2, <2>6, <2>8, <3>1, <3>2, GoesOn DEF Parts
  <2>9. ASSUME Less(t, u), s1 = [s EXCEPT !.node = Up],
               \A k \in m..last : ~Matches(q[k], u)
        PROVE  s1 \in SearchStates(q, u) /\ SearchOK(q, u, s1)
    <3>1. \A k \in 1..Len(q) : InPart(s, k) /\ Matches(q[k], u) => k \in Up.lo..Up.hi
      <4> TAKE k \in 1..Len(q)
      <4> SUFFICES ASSUME InPart(s, k), Matches(q[k], u) PROVE k \in Up.lo..Up.hi
        OBVIOUS
      <4>1. ~(k < m)
        <5> SUFFICES ASSUME k < m PROVE FALSE
          OBVIOUS
        <5>1. k \in lo..m - 1 /\ k \in 1..m - 1 /\ m \in 1..hi
          BY <1>0, <2>1, <2>2 DEF InPart
        <5>2. ListEnd(q, k, hi) < m
          BY <2>1, <5>1
        <5> QED
          BY <2>1, <2>9, <5>1, <5>2, MatchAfter
      <4>2. ~(k \in m..last)
        BY <2>9
      <4> QED
        BY <1>0, <2>2, <2>5, <4>1, <4>2 DEF InPart
    <3>2. Up.lo..Up.hi \subseteq s.node.lo..s.node.hi
      BY <2>5, <2>6
    <3> HIDE DEF Up
    <3> QED
      BY <1>2, <2>6, <2>9, <3>1, <3>2, GoesOn DEF Parts
  <2>10. \A i \in 1..n : i \in Positions
    BY DEF Positions
  <2>11. ASSUME \E i \in 1..n : Differ(u, t, i), s1 = [s EXCEPT !.node = LowerPart(q, s)]
         PROVE  s1 \in SearchStates(q, u) /\ SearchOK(q, u, s1)
    <3>1. Less(u, t)
      BY <2>10, <2>11 DEF Less
    <3> QED
      BY <2>5, <2>8, <2>11, <3>1
  <2>12. ASSUME \E i \in 1..n : Differ(t, u, i), s1 = [s EXCEPT !.node = UpperPart(q, s)]
         PROVE  s1 \in SearchStates(q, u) /\ SearchOK(q, u, s1)
    <3>1. PICK i \in 1..n : Differ(t, u, i)
      BY <2>12
    <3>2. Less(t, u)
      BY <2>10, <3>1 DEF Less
    <3>3. W(t, i) < W(u, i) /\ i \in 1..Len(t) /\ i \in Positions
      BY <2>2, <2>10, <3>1 DEF Differ
    <3>4. ASSUME NEW k \in m..last, Matches(q[k], u) PROVE FALSE
      <4>1. k \in 1..Len(q) /\ k \in Nat
        BY <1>0, <2>1, <2>2
      <4>2. q[k] \in Elements /\ IsName(q[k].name) /\ Len(q[k].name) \in Nat
        BY <4>1, QueueIs
      <4>3. Agree(q[k].name, u, Len(q[k].name))
        BY <2>1, <3>4, <4>2, MatchAgrees
      <4>4. Agree(t, q[k].name, Len(t))
        <5>1. CASE k = m
          BY <5>1 DEF Agree
        <5>2. CASE k # m
          <6>1. k \in m + 1..hi /\ m \in 1..hi /\ m # last /\ k <= last
            BY <1>0, <2>1, <2>2, <5>2
          <6> QED
            BY <2>1, <6>1, ListEndIs DEF LastOf
        <5> QED
          BY <5>1, <5>2
      <4> HIDE DEF t
      <4>5. Len(t) <= Len(q[k].name)
        BY <2>2, <4>2, <4>4, AgreeLen
      <4>6. i \in 1..Len(q[k].name)
        BY <2>2, <3>3, <4>2, <4>5
      <4>7. W(t, i) = W(q[k].name, i) /\ W(q[k].name, i) = W(u, i)
        BY <3>3, <4>3, <4>4, <4>6 DEF Agree
      <4>8. W(t, i) \in Int
        BY <2>2, <3>3, WeightType
      <4> QED
        BY <3>3, <4>7, <4>8
    <3> QED
      BY <2>5, <2>9, <2>12, <3>2, <3>4
  <2>13. ASSUME Agree(u, t, n), Len(u) > Len(t), q[m].inclusive # 0,
                s1 = [node |-> InnerPart(q, s), prefix |-> Len(t), rc |-> "AGAIN",
                      loc |-> q[m].inclusive]
         PROVE  s1 \in SearchStates(q, u) /\ SearchOK(q, u, s1)
    <3>1. n = Len(t)
      BY <2>2, <2>13
    <3>2. Agree(u, t, Len(t))
      BY <2>13, <3>1
    <3> QED
      BY <1>2, <2>13, <3>2, GoesInto
  <2>14. ASSUME Agree(u, t, n), Len(u) > Len(t), q[m].inclusive = 0,
                s1 = [s EXCEPT !.node = UpperPart(q, s)]
         PROVE  s1 \in SearchStates(q, u) /\ SearchOK(q, u, s1)
    <3>1. n = Len(t)
      BY <2>2, <2>14
    <3>2. Agree(t, u, Len(t))
      BY <2>14, <3>1 DEF Agree
    <3> HIDE DEF t
    <3>3. Less(t, u)
      BY <2>2, <2>14, <3>2, PrefixLow
    <3>4. last = m
      <4>1. m \in 1..hi
        BY <1>0, <2>1
      <4> QED
        BY <2>1, <2>14, <4>1, ListEndIs DEF LastOf
    <3>5. ~Matches(q[m], u)
      <4> SUFFICES ASSUME For(q[m], u) PROVE FALSE
        BY <2>14 DEF Matches, Begins
      <4>1. Len(t) = Len(u)
        BY <2>1, <2>2, MatchAgrees DEF Matches, t
      <4> QED
        BY <2>2, <2>14, <4>1
    <3>6. \A k \in m..last : k = m
      BY <2>2, <3>4
    <3> QED
      BY <2>5, <2>9, <2>14, <3>3, <3>5, <3>6
  <2>15. ASSUME Agree(u, t, n), Len(u) < Len(t), s1 = [s EXCEPT !.node = LowerPart(q, s)]
         PROVE  s1 \in SearchStates(q, u) /\ SearchOK(q, u, s1)
    <3>1. n = Len(u)
      BY <2>2, <2>15
    <3>2. Agree(u, t, Len(u))
      BY <2>15, <3>1
    <3> HIDE DEF t
    <3>3. Less(u, t)
      BY <2>1, <2>2, <2>15, <3>2, PrefixLow
    <3> QED
      BY <2>5, <2>8, <2>15, <3>3
  <2>16. ASSUME Agree(u, t, n), Len(u) = Len(t) PROVE Same(t, u) /\ Same(u, t)
    <3>1. n = Len(u) /\ Agree(u, t, Len(u))
      BY <2>2, <2>16
    <3>2. Same(u, t)
      BY <2>1, <2>2, <2>16, <3>1, SameFolded
    <3> QED
      BY <3>2 DEF Same
  <2>17. ASSUME Agree(u, t, n), Len(u) = Len(t), q[m].exact # 0,
                s1 = [s EXCEPT !.node = NoNode, !.rc = "OK", !.loc = q[m].exact]
         PROVE  s1 \in SearchStates(q, u) /\ SearchOK(q, u, s1)
    <3>1. For(q[m], u)
      BY <2>16, <2>17 DEF For
    <3>2. s1.node = NoNode /\ s1.rc = "OK" /\ s1.loc = q[m].exact
      BY <2>17 DEF SearchStates
    <3>3. s1 \in SearchStates(q, u)
      BY <2>2, <2>6, <2>17 DEF SearchStates, Parts
    <3>4. \A k : ~InPart(s1, k)
      BY <3>2 DEF InPart, NoNode
    <3> QED
      BY <2>1, <2>5, <3>1, <3>2, <3>3, <3>4 DEF SearchOK
  <2>18. ASSUME Agree(u, t, n), Len(u) = Len(t), q[m].exact = 0,
                s1 = [s EXCEPT !.node = NoNode, !.rc = "AGAIN", !.loc = q[m].inclusive]
         PROVE  s1 \in SearchStates(q, u) /\ SearchOK(q, u, s1)
    <3>1. s1.node = NoNode /\ s1.rc = "AGAIN" /\ s1.loc = q[m].inclusive /\ s1.prefix = s.prefix
      BY <2>18 DEF SearchStates
    <3>2. s1 \in SearchStates(q, u)
      BY <2>2, <2>6, <2>18 DEF SearchStates, Parts
    <3>3. \A k : ~InPart(s1, k)
      BY <3>1 DEF InPart, NoNode
    <3>4. Begins(q[m], u)
      <4>1. Len(t) \in 0..Len(t) /\ Same(t, u)
        BY <2>2, <2>16, <2>18
      <4>2. Agree(t, u, Len(t))
        BY <2>2, <4>1, AgreeParts
      <4> QED
        BY <2>2, <2>18, <4>2 DEF Begins
    <3>5. ASSUME NEW k \in 1..Len(q), For(q[k], u) PROVE FALSE
      <4>1. q[k].exact # 0 /\ Same(q[k].name, u) /\ Same(u, t) /\ IsName(q[k].name)
        BY <2>16, <2>18, <3>5, QueueIs DEF For
      <4>2. Same(q[k].name, t)
        BY <4>1 DEF Same
      <4>3. k # m
        BY <2>18, <4>1
      <4>4. k \in Nat /\ (k < m => Less(q[k].name, t)) /\ (m < k => Less(t, q[k].name))
        BY <2>1, QueueIs
      <4> HIDE DEF t
      <4>5. ~Less(q[k].name, t) /\ ~Less(t, q[k].name)
        BY <2>2, <4>1, <4>2, Trichotomy
      <4> QED
        BY <2>2, <4>3, <4>4, <4>5
    <3>6. ASSUME NEW k \in 1..Len(q), Begins(q[k], u) PROVE Len(q[k].name) <= Len(q[m].name)
      <4>1. Len(q[k].name) <= Len(u)
        BY <2>1, <3>6, MatchAgrees, QueueIs DEF Matches
      <4> QED
        BY <2>18, <4>1
    <3>7. Found(q, u, s1, m)
      <4>1. ~(s1.node.lo <= s1.node.hi)
        BY <3>1 DEF NoNode
      <4> HIDE DEF s1, m
      <4> QED
        BY <2>1, <3>1, <3>4, <3>5, <3>6, <4>1 DEF Found
    <3> QED
      BY <3>1, <3>2, <3>3, <3>7 DEF SearchOK
  <2>19. s1 \in SearchStates(q, u) /\ SearchOK(q, u, s1)
    <3> HIDE DEF s1, m, t
    <3> QED
      BY <2>4, <2>11, <2>12, <2>13, <2>14, <2>15, <2>17, <2>18, Zenon DEF TurnOf, m, t
  <2>20. s1.node.lo > s1.node.hi \/ s1.node.hi - s1.node.lo < hi - lo
    <3>1. s1.node \in {LowerPart(q, s), UpperPart(q, s), InnerPart(q, s), NoNode}
      <4>1. \/ s1 = [s EXCEPT !.node = LowerPart(q, s)]
            \/ s1 = [s EXCEPT !.node = UpperPart(q, s)]
            \/ s1 = [node |-> InnerPart(q, s), prefix |-> Len(t), rc |-> "AGAIN",
                     loc |-> q[m].inclusive]
            \/ s1 = [s EXCEPT !.node = NoNode, !.rc = "OK", !.loc = q[m].exact]
            \/ s1 = [s EXCEPT !.node = NoNode, !.rc = "AGAIN", !.loc = q[m].inclusive]
        <5> HIDE DEF s1, m, t
        <5> QED
          BY <2>4, Zenon DEF TurnOf, m, t
      <4> HIDE DEF s1, m, t
      <4>2. CASE s1 = [s EXCEPT !.node = LowerPart(q, s)]
        BY <4>2 DEF SearchStates
      <4>3. CASE s1 = [s EXCEPT !.node = UpperPart(q, s)]
        BY <4>3 DEF SearchStates
      <4>4. CASE s1 = [node |-> InnerPart(q, s), prefix |-> Len(t), rc |-> "AGAIN",
                       loc |-> q[m].inclusive]
        BY <4>4
      <4>5. CASE s1 = [s EXCEPT !.node = NoNode, !.rc = "OK", !.loc = q[m].exact]
        BY <4>5 DEF SearchStates
      <4>6. CASE s1 = [s EXCEPT !.node = NoNode, !.rc = "AGAIN", !.loc = q[m].inclusive]
        BY <4>6 DEF SearchStates
      <4> QED
        BY <4>1, <4>2, <4>3, <4>4, <4>5, <4>6
    <3> HIDE DEF s1
    <3> QED
      BY <2>5, <2>7, <3>1
  <2> QED
    BY <1>2, <1>0, <2>19, <2>20
<1> QED
  BY <1>0, <1>1, <1>2

\* The states the search can be in.
Searching(q, u) == {s \in SearchStates(q, u) : SearchOK(q, u, s)}
SearchStart(q) == [node |-> [lo |-> 1, hi |-> Len(q)], prefix |-> 0, rc |-> "DECLINED", loc |-> 0]

LEMMA SearchStarts ==
    ASSUME NEW q, Queue(q), NEW u, Plain(u)
    PROVE  SearchStart(q) \in Searching(q, u)
<1>1. Len(q) \in Nat /\ Len(u) \in Nat
  BY QueueIs DEF Plain, IsName
<1>2. 1 \in 1..Len(q) + 1 /\ Len(q) \in 0..Len(q) /\ 0 \in 0..Len(u)
  BY <1>1
<1>3. SearchStart(q) \in SearchStates(q, u)
  BY <1>2 DEF SearchStart, SearchStates
<1>4. \A s, t : Agree(s, t, 0)
  BY DEF Agree
<1>5. SearchOK(q, u, SearchStart(q))
  BY <1>4 DEF SearchOK, SearchStart, InPart
<1> QED
  BY <1>3, <1>5 DEF Searching

\* The loop of night_http_core_find_static_location.
LEMMA SearchRuns ==
    ASSUME NEW q, Queue(q), NEW u, Plain(u)
    PROVE  \E d : /\ d \in [0..Len(q) -> Searching(q, u)] /\ d[0] = SearchStart(q)
                  /\ \A k \in 1..Len(q) : d[k] = SearchTurn(q, u, d[k - 1])
                  /\ find_static_location(q, u) = d[Len(q)]
<1> DEFINE S == Searching(q, u)
           n == Len(q)
           x == SearchStart(q)
           F(f) == [k \in 0..n |-> IF k = 0 THEN x ELSE SearchTurn(q, u, f[k - 1])]
           after == CHOOSE f : f = F(f)
           g == [k \in 1..n |-> [s \in S |-> SearchTurn(q, u, s)]]
<1>1. find_static_location(q, u) = after[n]
  BY Zenon DEF find_static_location, After, SearchStart
<1>2. n \in Nat /\ x \in S
  BY QueueIs, SearchStarts
<1>3. \A s \in S : SearchTurn(q, u, s) \in S
  BY SearchStep DEF Searching
<1> HIDE DEF S, n, x
<1>4. IsTurns(g, n, S)
  BY <1>2, <1>3 DEF IsTurns
<1>5. \A k \in 1..n, s \in S : g[k][s] = SearchTurn(q, u, s)
  OBVIOUS
<1> HIDE DEF g
<1>6. PICK d : IsRun(d, n, S, x, g)
  BY <1>2, <1>4, RunExists
<1>7. d = F(d)
  <2>1. d \in [0..n -> S] /\ d[0] = x
    BY <1>6 DEF IsRun
  <2>2. \A k \in 1..n : d[k] = SearchTurn(q, u, d[k - 1])
    <3> TAKE k \in 1..n
    <3>1. k - 1 \in 0..n
      BY <1>2
    <3>2. d[k - 1] \in S
      BY <2>1, <3>1
    <3> QED
      BY <1>5, <1>6, <3>2 DEF IsRun
  <2>3. \A k \in 0..n : k = 0 \/ k \in 1..n
    BY <1>2
  <2>4. \A k \in 0..n : d[k] = IF k = 0 THEN x ELSE SearchTurn(q, u, d[k - 1])
    <3> TAKE k \in 0..n
    <3> QED
      BY <2>1, <2>2, <2>3
  <2> QED
    BY <2>1, <2>4
<1>8. after = F(after)
  <2> HIDE DEF F
  <2> QED
    BY <1>7
<1> HIDE DEF after
<1>9. IsAfter(after, n, S, x, g)
  <2>1. \E h : after = [k \in 0..n |-> h[k]]
    <3>1. after = [k \in 0..n |-> after[k]]
      BY <1>8
    <3> QED
      BY <3>1
  <2>2. after[0] = x /\ \A k \in 1..n : after[k] = SearchTurn(q, u, after[k - 1])
    BY <1>2, <1>8
  <2> QED
    BY <1>5, <2>1, <2>2 DEF IsAfter
<1>10. IsRun(after, n, S, x, g)
  BY <1>2, <1>4, <1>9, AfterRuns
<1>11. \A k \in 1..n : after[k] = SearchTurn(q, u, after[k - 1])
  BY <1>2, <1>8
<1> QED
  BY <1>1, <1>10, <1>11 DEF IsRun, n, x, S

\* What the search of a queue finds.
BestMatch(q, u, p) == /\ p \in 1..Len(q) /\ Begins(q[p], u)
                  /\ \A k \in 1..Len(q) : /\ ~For(q[k], u)
                                          /\ Begins(q[k], u) => Len(q[k].name) <= Len(q[p].name)
FoundIn(q, u, r) ==
    \/ r.rc = "OK" /\ \E p \in 1..Len(q) : For(q[p], u) /\ r.loc = q[p].exact
    \/ r.rc = "DECLINED" /\ r.loc = 0 /\ \A k \in 1..Len(q) : ~Matches(q[k], u)
    \/ r.rc = "AGAIN" /\ \E p : BestMatch(q, u, p) /\ r.loc = q[p].inclusive

LEMMA SearchFinds ==
    ASSUME NEW q, Queue(q), NEW u, Plain(u)
    PROVE  FoundIn(q, u, find_static_location(q, u))
<1>0. Len(q) \in Nat
  BY QueueIs
<1>1. PICK d : /\ d \in [0..Len(q) -> Searching(q, u)] /\ d[0] = SearchStart(q)
               /\ \A k \in 1..Len(q) : d[k] = SearchTurn(q, u, d[k - 1])
               /\ find_static_location(q, u) = d[Len(q)]
  BY SearchRuns
<1> DEFINE Small(k) == d[k].node.lo > d[k].node.hi \/ d[k].node.hi - d[k].node.lo + 1 <= Len(q) - k
           P == {k \in Nat : k <= Len(q) => Small(k)}
<1>2. 0 \in P
  BY <1>0, <1>1 DEF SearchStart
<1>3. ASSUME NEW k \in Nat, k \in P PROVE k + 1 \in P
  <2> SUFFICES ASSUME k + 1 <= Len(q) PROVE Small(k + 1)
    OBVIOUS
  <2>1. /\ k \in 0..Len(q) /\ k + 1 \in 1..Len(q) /\ k + 1 \in 0..Len(q) /\ (k + 1) - 1 = k
        /\ k <= Len(q)
    BY <1>0
  <2>2. /\ d[k] \in Searching(q, u) /\ d[k + 1] \in Searching(q, u)
        /\ d[k + 1] = SearchTurn(q, u, d[k])
    BY <1>1, <2>1
  <2>3. Small(k)
    BY <1>3, <2>1
  <2>4. /\ d[k].node.lo \in Int /\ d[k].node.hi \in Int
        /\ d[k + 1].node.lo \in Int /\ d[k + 1].node.hi \in Int
    BY <1>0, <2>2 DEF Searching, SearchStates
  <2>5. /\ d[k].node.lo > d[k].node.hi => d[k + 1] = d[k]
        /\ d[k + 1].node.lo > d[k + 1].node.hi
             \/ d[k + 1].node.hi - d[k + 1].node.lo < d[k].node.hi - d[k].node.lo
    BY <2>2, SearchStep DEF Searching
  <2>6. CASE d[k].node.lo > d[k].node.hi
    <3>1. d[k + 1].node.lo > d[k + 1].node.hi
      BY <2>5, <2>6
    <3> QED
      BY <3>1
  <2>7. CASE d[k].node.hi - d[k].node.lo + 1 <= Len(q) - k
    <3> DEFINE a == d[k].node.lo
               b == d[k].node.hi
               a1 == d[k + 1].node.lo
               b1 == d[k + 1].node.hi
    <3>1. a \in Int /\ b \in Int /\ a1 \in Int /\ b1 \in Int
      BY <2>4
    <3>2. b - a + 1 <= Len(q) - k /\ (a1 > b1 \/ b1 - a1 < b - a)
      BY <2>5, <2>7
    <3> HIDE DEF a, b, a1, b1
    <3>3. a1 > b1 \/ b1 - a1 + 1 <= Len(q) - (k + 1)
      BY <1>0, <3>1, <3>2
    <3> QED
      BY <3>3 DEF a1, b1
  <2> QED
    BY <2>3, <2>6, <2>7
<1> HIDE DEF P
<1>4. Len(q) \in P
  BY <1>0, <1>2, <1>3, SetInduction
<1> DEFINE r == find_static_location(q, u)
<1>5. r.node.lo > r.node.hi /\ r \in Searching(q, u)
  <2>1. Small(Len(q)) /\ Len(q) \in 0..Len(q)
    BY <1>0, <1>4 DEF P
  <2>2. r \in Searching(q, u)
    BY <1>1, <2>1
  <2>3. r.node.lo \in Int /\ r.node.hi \in Int
    BY <1>0, <2>2 DEF Searching, SearchStates
  <2> QED
    BY <1>0, <1>1, <2>1, <2>2, <2>3
<1> HIDE DEF r
<1>6. \A k : ~InPart(r, k)
  <2>1. r.node.lo \in Int /\ r.node.hi \in Int
    BY <1>0, <1>5 DEF Searching, SearchStates
  <2> QED
    BY <1>5, <2>1 DEF InPart
<1>7. r.rc \in {"DECLINED", "OK", "AGAIN"} /\ SearchOK(q, u, r)
  BY <1>5 DEF Searching, SearchStates
<1>8. CASE r.rc = "OK"
  BY <1>7, <1>8 DEF SearchOK, FoundIn, r
<1>9. CASE r.rc = "DECLINED"
  BY <1>6, <1>7, <1>9 DEF SearchOK, FoundIn, r
<1>10. CASE r.rc = "AGAIN"
  <2>1. PICK p : Found(q, u, r, p)
    BY <1>7, <1>10 DEF SearchOK
  <2>2. BestMatch(q, u, p) /\ r.loc = q[p].inclusive
    BY <1>6, <2>1 DEF Found, BestMatch
  <2> QED
    BY <1>10, <2>2 DEF FoundIn, r
<1> QED
  BY <1>7, <1>8, <1>9, <1>10

-----------------------------------------------------------------------------
(* The location of a uri                                                   *)

\* The declarations' names are plain.
PlainNames == \A e \in DOMAIN decl : Plain(decl[e].name)

\* A block's queue can be searched.
LEMMA ListsQueue ==
    ASSUME DeclOK, PlainNames, NEW d, NEW Q, Lists(Q, d)
    PROVE  Queue(Q)
<1>1. Q \in Seq(Elements) /\ Strict(Q) /\ \A p \in 1..Len(Q) : Listing(Q[p], d)
  BY DEF Lists
<1>2. ASSUME NEW p \in 1..Len(Q)
      PROVE  Plain(Q[p].name) /\ (Q[p].exact # 0 \/ Q[p].inclusive # 0)
  <2>1. Listing(Q[p], d) /\ IsName(Q[p].name)
    BY <1>1, QueueType
  <2>2. PICK e \in Inside(d) : Same(decl[e].name, Q[p].name)
    BY <2>1 DEF Listing
  <2>3. Plain(decl[e].name)
    BY DEF PlainNames, Inside
  <2>4. Plain(Q[p].name)
    BY <2>1, <2>2, <2>3 DEF Plain, Same
  <2> QED
    BY <2>1, <2>4 DEF Listing
<1> QED
  BY <1>1, <1>2 DEF Queue

\* What a block gives a uri, in terms of its declarations.
Gives(d, u, r) ==
    \/ r.rc = "OK" /\ r.loc \in ExactIn(d, u)
    \/ r.rc = "DECLINED" /\ ExactIn(d, u) = {} /\ PrefixIn(d, u) = {}
    \/ /\ r.rc = "AGAIN" /\ ExactIn(d, u) = {} /\ r.loc \in PrefixIn(d, u)
       /\ \A f \in PrefixIn(d, u) : Len(decl[f].name) <= Len(decl[r.loc].name)

LEMMA ListsMatch ==
    ASSUME DeclOK, NEW d, NEW Q, Lists(Q, d), NEW u, IsName(u)
    PROVE  /\ \A p \in 1..Len(Q) :
                /\ For(Q[p], u) => Q[p].exact \in ExactIn(d, u)
                /\ Begins(Q[p], u) =>
                     /\ Q[p].inclusive \in PrefixIn(d, u)
                     /\ Len(decl[Q[p].inclusive].name) = Len(Q[p].name)
           /\ \A e \in ExactIn(d, u) : \E p \in 1..Len(Q) : For(Q[p], u)
           /\ \A e \in PrefixIn(d, u) : \E p \in 1..Len(Q) :
                Begins(Q[p], u) /\ Len(Q[p].name) = Len(decl[e].name)
<1>1. /\ Q \in Seq(Elements) /\ \A p \in 1..Len(Q) : Listing(Q[p], d)
      /\ \A e \in Inside(d) : Listed(Q, e)
  BY DEF Lists
<1>2. \A e \in Inside(d) : /\ IsName(decl[e].name) /\ e # 0 /\ decl[e].exact \in BOOLEAN
                           /\ Len(decl[e].name) \in Nat
  BY DeclType DEF Inside, IsName
<1>3. \A p \in 1..Len(Q) : IsName(Q[p].name) /\ Len(Q[p].name) \in Nat
  BY <1>1, QueueType DEF IsName
<1>4. ASSUME NEW s, IsName(s), NEW t, IsName(t), Same(s, t)
      PROVE  Len(s) = Len(t) /\ (Agree(s, u, Len(s)) <=> Agree(t, u, Len(t)))
  <2>1. Len(s) = Len(t) /\ Len(s) \in Nat
    BY <1>4, SameFolded DEF IsName
  <2>2. \A i \in 1..Len(s) : W(s, i) = W(t, i)
    BY <1>4 DEF Same, Positions
  <2> QED
    BY <2>1, <2>2 DEF Agree
<1>5. ASSUME NEW p \in 1..Len(Q), For(Q[p], u) PROVE Q[p].exact \in ExactIn(d, u)
  <2> DEFINE e == Q[p].exact
  <2>1. e \in Inside(d) /\ decl[e].exact /\ Same(decl[e].name, Q[p].name) /\ Same(Q[p].name, u)
    BY <1>1, <1>5 DEF For, Listing
  <2>2. Same(decl[e].name, u)
    BY <2>1 DEF Same
  <2>3. Folded(decl[e].name) = Folded(u)
    BY <1>2, <2>1, <2>2, SameFolded
  <2> QED
    BY <2>1, <2>3 DEF ExactIn
<1>6. ASSUME NEW p \in 1..Len(Q), Begins(Q[p], u)
      PROVE  /\ Q[p].inclusive \in PrefixIn(d, u)
             /\ Len(decl[Q[p].inclusive].name) = Len(Q[p].name)
  <2> DEFINE e == Q[p].inclusive
  <2>1. /\ e \in Inside(d) /\ ~decl[e].exact /\ Same(decl[e].name, Q[p].name)
        /\ Agree(Q[p].name, u, Len(Q[p].name))
    BY <1>1, <1>6 DEF Begins, Listing
  <2>2. Len(decl[e].name) = Len(Q[p].name) /\ Agree(decl[e].name, u, Len(decl[e].name))
    BY <1>2, <1>3, <1>4, <2>1
  <2>3. IsPrefix(Folded(decl[e].name), Folded(u))
    BY <1>2, <2>1, <2>2, PrefixFolded
  <2> QED
    BY <2>1, <2>2, <2>3 DEF PrefixIn
<1>7. ASSUME NEW e \in ExactIn(d, u) PROVE \E p \in 1..Len(Q) : For(Q[p], u)
  <2>1. e \in Inside(d) /\ decl[e].exact /\ Folded(decl[e].name) = Folded(u)
    BY DEF ExactIn
  <2>2. Same(decl[e].name, u)
    BY <1>2, <2>1, SameFolded
  <2>3. PICK p \in 1..Len(Q) : Same(Q[p].name, decl[e].name) /\ Q[p].exact = e
    BY <1>1, <2>1 DEF Listed
  <2>4. Same(Q[p].name, u)
    BY <2>2, <2>3 DEF Same
  <2> QED
    BY <1>2, <2>1, <2>3, <2>4 DEF For
<1>8. ASSUME NEW e \in PrefixIn(d, u)
      PROVE  \E p \in 1..Len(Q) : Begins(Q[p], u) /\ Len(Q[p].name) = Len(decl[e].name)
  <2>1. e \in Inside(d) /\ ~decl[e].exact /\ IsPrefix(Folded(decl[e].name), Folded(u))
    BY DEF PrefixIn
  <2>2. Agree(decl[e].name, u, Len(decl[e].name))
    BY <1>2, <2>1, PrefixFolded
  <2>3. PICK p \in 1..Len(Q) : Same(Q[p].name, decl[e].name) /\ Q[p].inclusive = e
    BY <1>1, <2>1 DEF Listed
  <2>4. Len(Q[p].name) = Len(decl[e].name) /\ Agree(Q[p].name, u, Len(Q[p].name))
    BY <1>2, <1>3, <1>4, <2>1, <2>2, <2>3
  <2> QED
    BY <1>2, <2>1, <2>3, <2>4 DEF Begins
<1> QED
  BY <1>5, <1>6, <1>7, <1>8

\* The search of a block's tree.
LEMMA BlockGives ==
    ASSUME DeclOK, PlainNames, NEW d, NEW Q, Lists(Q, d), NEW u, Plain(u)
    PROVE  Gives(d, u, find_static_location(Q, u))
<1> DEFINE r == find_static_location(Q, u)
<1>1. FoundIn(Q, u, r)
  BY ListsQueue, SearchFinds
<1> HIDE DEF r
<1>2. IsName(u)
  BY DEF Plain
<1>3. /\ \A p \in 1..Len(Q) :
           /\ For(Q[p], u) => Q[p].exact \in ExactIn(d, u)
           /\ Begins(Q[p], u) => /\ Q[p].inclusive \in PrefixIn(d, u)
                                 /\ Len(decl[Q[p].inclusive].name) = Len(Q[p].name)
      /\ \A e \in ExactIn(d, u) : \E p \in 1..Len(Q) : For(Q[p], u)
      /\ \A e \in PrefixIn(d, u) : \E p \in 1..Len(Q) :
           Begins(Q[p], u) /\ Len(Q[p].name) = Len(decl[e].name)
  BY <1>2, ListsMatch
<1>4. CASE r.rc = "OK" /\ \E p \in 1..Len(Q) : For(Q[p], u) /\ r.loc = Q[p].exact
  BY <1>3, <1>4 DEF Gives, r
<1>5. CASE r.rc = "DECLINED" /\ \A k \in 1..Len(Q) : ~Matches(Q[k], u)
  BY <1>3, <1>5 DEF Gives, r, Matches
<1>6. CASE r.rc = "AGAIN" /\ \E p : BestMatch(Q, u, p) /\ r.loc = Q[p].inclusive
  <2>1. PICK p : BestMatch(Q, u, p) /\ r.loc = Q[p].inclusive
    BY <1>6
  <2>2. p \in 1..Len(Q) /\ Begins(Q[p], u) /\ \A k \in 1..Len(Q) : ~For(Q[k], u)
    BY <2>1 DEF BestMatch
  <2>3. r.loc \in PrefixIn(d, u) /\ Len(decl[r.loc].name) = Len(Q[p].name) /\ ExactIn(d, u) = {}
    BY <1>3, <2>1, <2>2
  <2>4. ASSUME NEW f \in PrefixIn(d, u) PROVE Len(decl[f].name) <= Len(decl[r.loc].name)
    <3>1. PICK k \in 1..Len(Q) : Begins(Q[k], u) /\ Len(Q[k].name) = Len(decl[f].name)
      BY <1>3
    <3>2. Len(Q[k].name) <= Len(Q[p].name)
      BY <2>1, <3>1 DEF BestMatch
    <3> QED
      BY <2>3, <3>1, <3>2
  <2> QED
    BY <1>6, <2>3, <2>4 DEF Gives, r
<1> QED
  BY <1>1, <1>4, <1>5, <1>6 DEF FoundIn

\* In a block that declares nothing twice a uri has one exact location, and one
\* inclusive location of every length.
LEMMA OneMatch ==
    ASSUME DeclOK, NEW d, ~TwiceIn(d), NEW u, IsName(u)
    PROVE  /\ \A e, f \in ExactIn(d, u) : e = f
           /\ \A e, f \in PrefixIn(d, u) : Len(decl[e].name) = Len(decl[f].name) => e = f
<1>1. \A e \in Inside(d) : /\ IsName(decl[e].name) /\ decl[e].exact \in BOOLEAN
                           /\ Len(decl[e].name) \in Nat
  BY DeclType DEF Inside, IsName
<1>2. ASSUME NEW e \in ExactIn(d, u), NEW f \in ExactIn(d, u) PROVE e = f
  <2>1. /\ e \in Inside(d) /\ f \in Inside(d) /\ decl[e].exact /\ decl[f].exact
        /\ Folded(decl[e].name) = Folded(decl[f].name)
    BY DEF ExactIn
  <2>2. Same(decl[e].name, decl[f].name)
    BY <1>1, <2>1, SameFolded
  <2>3. decl[e].exact = decl[f].exact
    BY <1>1, <2>1
  <2> QED
    BY <2>1, <2>2, <2>3 DEF TwiceIn
<1>3. ASSUME NEW e \in PrefixIn(d, u), NEW f \in PrefixIn(d, u),
             Len(decl[e].name) = Len(decl[f].name)
      PROVE  e = f
  <2>1. /\ e \in Inside(d) /\ f \in Inside(d) /\ ~decl[e].exact /\ ~decl[f].exact
        /\ IsPrefix(Folded(decl[e].name), Folded(u)) /\ IsPrefix(Folded(decl[f].name), Folded(u))
    BY DEF PrefixIn
  <2> DEFINE n == Len(decl[e].name)
  <2>2. Agree(decl[e].name, u, n) /\ Agree(decl[f].name, u, n)
    BY <1>1, <1>3, <2>1, PrefixFolded
  <2>3. Agree(decl[e].name, decl[f].name, n)
    BY <2>2 DEF Agree
  <2>4. Same(decl[e].name, decl[f].name)
    BY <1>1, <1>3, <2>1, <2>3, SameFolded
  <2>5. decl[e].exact = decl[f].exact
    BY <1>1, <2>1
  <2> QED
    BY <2>1, <2>4, <2>5 DEF TwiceIn
<1> QED
  BY <1>2, <1>3

\* Every block gives the uri something, and declares nothing twice.
GivenBy(d, u) == find_static_location(trees[d], u)
Served(u) == \A d \in 0..Len(decl) : ~TwiceIn(d) /\ Gives(d, u, GivenBy(d, u))

\* What a block gives is what the properties name.
LEMMA GivesBest ==
    ASSUME DeclOK, NEW u, IsName(u), Served(u), NEW d \in 0..Len(decl)
    PROVE  LET r == GivenBy(d, u) IN
           \/ /\ r.rc = "OK" /\ ExactIn(d, u) # {} /\ r.loc \in 0..Len(decl)
              /\ (CHOOSE e \in ExactIn(d, u) : TRUE) = r.loc
           \/ r.rc = "DECLINED" /\ ExactIn(d, u) = {} /\ PrefixIn(d, u) = {}
           \/ /\ r.rc = "AGAIN" /\ ExactIn(d, u) = {} /\ PrefixIn(d, u) # {}
              /\ Longest(PrefixIn(d, u)) = r.loc /\ r.loc \in 0..Len(decl) /\ r.loc > d
<1> DEFINE r == GivenBy(d, u)
           E == ExactIn(d, u)
           P == PrefixIn(d, u)
<1>1. ~TwiceIn(d) /\ Gives(d, u, r)
  BY DEF Served
<1>2. /\ \A e, f \in E : e = f
      /\ \A e, f \in P : Len(decl[e].name) = Len(decl[f].name) => e = f
  BY <1>1, OneMatch
<1>3. /\ \A e \in Inside(d) : e \in 0..Len(decl) /\ e > d /\ Len(decl[e].name) \in Nat
      /\ E \subseteq Inside(d) /\ P \subseteq Inside(d)
  <2>1. \A e \in Inside(d) : /\ e \in 1..Len(decl) /\ e \in Nat
                             /\ decl[e].parent = d /\ decl[e].parent < e
                             /\ Len(decl[e].name) \in Nat /\ Len(decl) \in Nat
    BY DeclType DEF Inside, IsName
  <2> QED
    BY <2>1 DEF ExactIn, PrefixIn
<1> HIDE DEF r, E, P
<1>4. CASE r.rc = "OK" /\ r.loc \in E
  <2>1. (CHOOSE e \in E : TRUE) \in E
    BY <1>4
  <2>2. (CHOOSE e \in E : TRUE) = r.loc
    BY <1>2, <1>4, <2>1
  <2> QED
    BY <1>3, <1>4, <2>2 DEF r, E
<1>5. CASE r.rc = "DECLINED" /\ E = {} /\ P = {}
  BY <1>5 DEF r, E, P
<1>6. CASE /\ r.rc = "AGAIN" /\ E = {} /\ r.loc \in P
           /\ \A f \in P : Len(decl[f].name) <= Len(decl[r.loc].name)
  <2>1. Longest(P) \in P /\ \A f \in P : Len(decl[f].name) <= Len(decl[Longest(P)].name)
    BY <1>6 DEF Longest
  <2>2. Len(decl[r.loc].name) = Len(decl[Longest(P)].name)
    <3> DEFINE a == Len(decl[r.loc].name)
               b == Len(decl[Longest(P)].name)
    <3>1. a <= b /\ b <= a /\ a \in Nat /\ b \in Nat
      BY <1>3, <1>6, <2>1
    <3> HIDE DEF a, b
    <3>2. a = b
      BY <3>1
    <3> QED
      BY <3>2 DEF a, b
  <2>3. Longest(P) = r.loc
    BY <1>2, <1>6, <2>1, <2>2
  <2> QED
    BY <1>3, <1>6, <2>3 DEF r, E, P
<1> QED
  BY <1>1, <1>4, <1>5, <1>6 DEF Gives, r, E, P

\* The recursion the property is stated with.
BestOf(f, u, d) == IF ExactIn(d, u) # {} THEN CHOOSE e \in ExactIn(d, u) : TRUE
                   ELSE IF PrefixIn(d, u) = {} THEN d ELSE f[Longest(PrefixIn(d, u))]

\* It comes down from the last declaration.
LEMMA BestExists ==
    ASSUME DeclOK, NEW u, IsName(u), Served(u)
    PROVE  \E f : f = [d \in 0..Len(decl) |-> BestOf(f, u, d)]
<1> DEFINE N == Len(decl)
           Fits(f, l) == \A d \in l..N : f[d] = BestOf(f, u, d)
           P == {k \in Nat : k <= N => \E h : Fits([d \in N - k..N |-> h[d]], N - k)}
<1>0. N \in Nat
  BY DeclType
<1>1. \A d \in 0..N : \/ ExactIn(d, u) # {} \/ PrefixIn(d, u) = {}
                      \/ Longest(PrefixIn(d, u)) \in 0..N /\ Longest(PrefixIn(d, u)) > d
  BY GivesBest
<1> HIDE DEF N
\* adding one at the bottom
<1>2. ASSUME NEW l \in Nat, l <= N, NEW f, \E h : f = [d \in l + 1..N |-> h[d]], Fits(f, l + 1)
      PROVE  \E h : Fits([d \in l..N |-> h[d]], l)
  <2> DEFINE h == [d \in l..N |-> IF d = l THEN BestOf(f, u, l) ELSE f[d]]
             g == [d \in l..N |-> h[d]]
  <2>1. \A d \in l..N : g[d] = IF d = l THEN BestOf(f, u, l) ELSE f[d]
    OBVIOUS
  <2> HIDE DEF h, g
  <2>2. \A d \in l + 1..N : g[d] = f[d]
    BY <1>0, <2>1
  <2>3. \A d \in l..N : BestOf(g, u, d) = BestOf(f, u, d)
    <3> TAKE d \in l..N
    <3>1. d \in 0..N
      BY <1>0
    <3>2. CASE ExactIn(d, u) # {} \/ PrefixIn(d, u) = {}
      BY <3>2 DEF BestOf
    <3>3. CASE Longest(PrefixIn(d, u)) \in 0..N /\ Longest(PrefixIn(d, u)) > d
      <4>1. Longest(PrefixIn(d, u)) \in l + 1..N
        BY <1>0, <3>3
      <4> QED
        BY <2>2, <4>1 DEF BestOf
    <3> QED
      BY <1>1, <3>1, <3>2, <3>3
  <2>4. \A d \in l..N : d = l \/ d \in l + 1..N
    BY <1>0
  <2>5. Fits(g, l)
    BY <1>2, <2>1, <2>3, <2>4
  <2> QED
    BY <2>5 DEF g
<1> HIDE DEF Fits
<1>3. \E h : Fits([d \in N..N |-> h[d]], N)
  <2> DEFINE f == [d \in N + 1..N |-> 0]
  <2>1. f = [d \in N + 1..N |-> f[d]]
    OBVIOUS
  <2>2. Fits(f, N + 1)
    BY <1>0 DEF Fits
  <2> HIDE DEF f
  <2>3. \E h : f = [d \in N + 1..N |-> h[d]]
    BY <2>1
  <2>4. N \in Nat /\ N <= N
    BY <1>0
  <2> QED
    BY <1>2, <2>2, <2>3, <2>4, Zenon
<1>4. 0 \in P
  BY <1>0, <1>3
<1>5. ASSUME NEW k \in Nat, k \in P PROVE k + 1 \in P
  <2> SUFFICES ASSUME k + 1 <= N PROVE \E h : Fits([d \in N - (k + 1)..N |-> h[d]], N - (k + 1))
    OBVIOUS
  <2> DEFINE l == N - (k + 1)
  <2>1. l \in Nat /\ l <= N /\ l + 1 = N - k /\ k <= N
    BY <1>0
  <2>2. PICK h : Fits([d \in l + 1..N |-> h[d]], l + 1)
    BY <1>5, <2>1
  <2> HIDE DEF l
  <2>3. \E h1 : Fits([d \in l..N |-> h1[d]], l)
    BY <1>2, <2>1, <2>2
  <2> QED
    BY <2>3 DEF l
<1> HIDE DEF P
<1>6. N \in P
  BY <1>0, <1>4, <1>5, SetInduction
<1>7. PICK h : Fits([d \in 0..N |-> h[d]], 0)
  <2>1. N <= N /\ N - N = 0
    BY <1>0
  <2> QED
    BY <1>6, <2>1 DEF P
<1> DEFINE f == [d \in 0..N |-> h[d]]
<1>8. \A d \in 0..N : f[d] = BestOf(f, u, d)
  BY <1>7 DEF Fits
<1>9. f = [d \in 0..N |-> f[d]]
  OBVIOUS
<1> HIDE DEF f
<1>10. f = [d \in 0..N |-> BestOf(f, u, d)]
  BY <1>8, <1>9
<1> QED
  BY <1>10 DEF N

\* The states of the lookup, and what it keeps: while it goes on, the block it
\* is in decides as the server does, and has a larger position every turn.
Lookups == [rc : {"OK", "DECLINED", "AGAIN"}, loc : 0..Len(decl)]
LookupOK(b, r, k) == /\ r.rc = "AGAIN" => b[r.loc] = b[0] /\ r.loc >= k
                     /\ r.rc # "AGAIN" => b[0] = r.loc

\* A turn of the lookup.
LEMMA LookTurn ==
    ASSUME DeclOK, NEW u, IsName(u), Served(u), NEW r \in Lookups
    PROVE  /\ LookAgain(r, u) \in Lookups
           /\ \A b, k : /\ b = [d \in 0..Len(decl) |-> BestOf(b, u, d)] /\ k \in Nat
                        /\ LookupOK(b, r, k)
                        => LookupOK(b, LookAgain(r, u), k + 1)
<1> DEFINE N == Len(decl)
           found == GivenBy(r.loc, u)
           r1 == LookAgain(r, u)
<1>0. N \in Nat /\ r.loc \in 0..N /\ r.rc \in {"OK", "DECLINED", "AGAIN"}
  BY DeclType DEF Lookups
<1>1. r1 = IF r.rc # "AGAIN" THEN r
           ELSE [rc |-> found.rc, loc |-> IF found.rc = "DECLINED" THEN r.loc ELSE found.loc]
  BY DEF LookAgain, GivenBy
<1>2. \/ /\ found.rc = "OK" /\ ExactIn(r.loc, u) # {} /\ found.loc \in 0..N
         /\ (CHOOSE e \in ExactIn(r.loc, u) : TRUE) = found.loc
      \/ found.rc = "DECLINED" /\ ExactIn(r.loc, u) = {} /\ PrefixIn(r.loc, u) = {}
      \/ /\ found.rc = "AGAIN" /\ ExactIn(r.loc, u) = {} /\ PrefixIn(r.loc, u) # {}
         /\ Longest(PrefixIn(r.loc, u)) = found.loc /\ found.loc \in 0..N /\ found.loc > r.loc
  BY <1>0, GivesBest
<1> HIDE DEF N, found, r1
<1>3. r1 \in Lookups
  <2>1. CASE r.rc # "AGAIN"
    BY <1>1, <2>1 DEF r1
  <2>2. CASE r.rc = "AGAIN"
    BY <1>0, <1>1, <1>2, <2>2 DEF Lookups, N
  <2> QED
    BY <2>1, <2>2
<1>4. ASSUME NEW b, b = [d \in 0..N |-> BestOf(b, u, d)], NEW k \in Nat, LookupOK(b, r, k)
      PROVE  LookupOK(b, r1, k + 1)
  <2>1. b[r.loc] = BestOf(b, u, r.loc)
    BY <1>0, <1>4
  <2>2. CASE r.rc # "AGAIN"
    BY <1>1, <1>4, <2>2 DEF LookupOK
  <2>3. CASE r.rc = "AGAIN"
    <3>1. b[r.loc] = b[0] /\ r.loc >= k
      BY <1>4, <2>3 DEF LookupOK
    <3>2. r1.rc = found.rc /\ r1.loc = IF found.rc = "DECLINED" THEN r.loc ELSE found.loc
      BY <1>1, <2>3
    <3>3. CASE found.rc = "OK"
      <4>1. b[r.loc] = found.loc
        <5>1. ExactIn(r.loc, u) # {} /\ (CHOOSE e \in ExactIn(r.loc, u) : TRUE) = found.loc
          BY <1>2, <3>3
        <5> QED
          BY <2>1, <5>1, Zenon DEF BestOf
      <4> QED
        BY <3>1, <3>2, <3>3, <4>1 DEF LookupOK
    <3>4. CASE found.rc = "DECLINED"
      <4>1. b[r.loc] = r.loc
        BY <1>2, <2>1, <3>4 DEF BestOf
      <4> QED
        BY <3>1, <3>2, <3>4, <4>1 DEF LookupOK
    <3>5. CASE found.rc = "AGAIN"
      <4>1. b[r.loc] = b[found.loc] /\ found.loc > r.loc /\ found.loc \in 0..N
        BY <1>2, <2>1, <3>5 DEF BestOf
      <4>2. found.loc >= k + 1
        BY <1>0, <3>1, <4>1
      <4> QED
        BY <3>1, <3>2, <3>5, <4>1, <4>2 DEF LookupOK
    <3> QED
      BY <1>2, <3>3, <3>4, <3>5
  <2> QED
    BY <2>2, <2>3
<1> QED
  BY <1>3, <1>4 DEF N, r1

\* The lookup of night_http_core_find_config_phase.
LEMMA LookupRuns ==
    ASSUME DeclOK, NEW u, IsName(u), Served(u)
    PROVE  \E d : /\ d \in [0..Len(decl) + 1 -> Lookups] /\ d[0] = [rc |-> "AGAIN", loc |-> 0]
                  /\ \A k \in 1..Len(decl) + 1 : d[k] = LookAgain(d[k - 1], u)
                  /\ find_location(u) = d[Len(decl) + 1].loc
<1> DEFINE S == Lookups
           n == Len(decl) + 1
           x == [rc |-> "AGAIN", loc |-> 0]
           F(f) == [k \in 0..n |-> IF k = 0 THEN x ELSE LookAgain(f[k - 1], u)]
           after == CHOOSE f : f = F(f)
           g == [k \in 1..n |-> [s \in S |-> LookAgain(s, u)]]
<1>1. find_location(u) = after[n].loc
  BY Zenon DEF find_location, After
<1>2. n \in Nat /\ x \in S
  <2>1. Len(decl) \in Nat
    BY DeclType
  <2>2. 0 \in 0..Len(decl)
    BY <2>1
  <2> QED
    BY <2>1, <2>2 DEF Lookups
<1>3. \A s \in S : LookAgain(s, u) \in S
  BY LookTurn
<1> HIDE DEF S, n, x
<1>4. IsTurns(g, n, S)
  BY <1>2, <1>3 DEF IsTurns
<1>5. \A k \in 1..n, s \in S : g[k][s] = LookAgain(s, u)
  OBVIOUS
<1> HIDE DEF g
<1>6. PICK d : IsRun(d, n, S, x, g)
  BY <1>2, <1>4, RunExists
<1>7. d = F(d)
  <2>1. d \in [0..n -> S] /\ d[0] = x
    BY <1>6 DEF IsRun
  <2>2. \A k \in 1..n : d[k] = LookAgain(d[k - 1], u)
    <3> TAKE k \in 1..n
    <3>1. k - 1 \in 0..n
      BY <1>2
    <3>2. d[k - 1] \in S
      BY <2>1, <3>1
    <3> QED
      BY <1>5, <1>6, <3>2 DEF IsRun
  <2>3. \A k \in 0..n : k = 0 \/ k \in 1..n
    BY <1>2
  <2>4. \A k \in 0..n : d[k] = IF k = 0 THEN x ELSE LookAgain(d[k - 1], u)
    <3> TAKE k \in 0..n
    <3> QED
      BY <2>1, <2>2, <2>3
  <2> QED
    BY <2>1, <2>4
<1>8. after = F(after)
  <2> HIDE DEF F
  <2> QED
    BY <1>7
<1> HIDE DEF after
<1>9. IsAfter(after, n, S, x, g)
  <2>1. \E h : after = [k \in 0..n |-> h[k]]
    <3>1. after = [k \in 0..n |-> after[k]]
      BY <1>8
    <3> QED
      BY <3>1
  <2>2. after[0] = x /\ \A k \in 1..n : after[k] = LookAgain(after[k - 1], u)
    BY <1>2, <1>8
  <2> QED
    BY <1>5, <2>1, <2>2 DEF IsAfter
<1>10. IsRun(after, n, S, x, g)
  BY <1>2, <1>4, <1>9, AfterRuns
<1>11. \A k \in 1..n : after[k] = LookAgain(after[k - 1], u)
  BY <1>2, <1>8
<1> QED
  BY <1>1, <1>10, <1>11 DEF IsRun, n, x, S

\* It ends with the location the property names.
LEMMA LookupBest ==
    ASSUME DeclOK, NEW u, IsName(u), Served(u)
    PROVE  find_location(u) = Best(u)
<1> DEFINE N == Len(decl)
           b == CHOOSE f : f = [d \in 0..N |-> BestOf(f, u, d)]
<1>0. N \in Nat
  BY DeclType
<1>1. b = [d \in 0..N |-> BestOf(b, u, d)]
  BY BestExists, Zenon
<1>2. Best(u) = b[0]
  BY Zenon DEF Best, BestOf
<1> HIDE DEF b
<1>3. PICK d : /\ d \in [0..N + 1 -> Lookups] /\ d[0] = [rc |-> "AGAIN", loc |-> 0]
               /\ \A k \in 1..N + 1 : d[k] = LookAgain(d[k - 1], u)
               /\ find_location(u) = d[N + 1].loc
  BY LookupRuns
<1> DEFINE P == {k \in Nat : k <= N + 1 => LookupOK(b, d[k], k)}
<1>4. 0 \in P
  BY <1>3 DEF LookupOK
<1>5. ASSUME NEW k \in Nat, k \in P PROVE k + 1 \in P
  <2> SUFFICES ASSUME k + 1 <= N + 1 PROVE LookupOK(b, d[k + 1], k + 1)
    OBVIOUS
  <2>1. k \in 0..N + 1 /\ k + 1 \in 1..N + 1 /\ (k + 1) - 1 = k /\ k <= N + 1
    BY <1>0
  <2>2. d[k] \in Lookups /\ d[k + 1] = LookAgain(d[k], u) /\ LookupOK(b, d[k], k)
    BY <1>3, <1>5, <2>1
  <2> QED
    BY <1>1, <2>2, LookTurn
<1> HIDE DEF P
<1>6. N + 1 \in P
  BY <1>0, <1>4, <1>5, SetInduction
<1>7. LookupOK(b, d[N + 1], N + 1) /\ d[N + 1] \in Lookups
  <2>1. N + 1 \in 0..N + 1 /\ N + 1 <= N + 1
    BY <1>0
  <2> QED
    BY <1>3, <1>6, <2>1 DEF P
<1>8. d[N + 1].rc # "AGAIN"
  BY <1>0, <1>7 DEF LookupOK, Lookups
<1>9. b[0] = d[N + 1].loc
  BY <1>7, <1>8 DEF LookupOK
<1> QED
  BY <1>2, <1>3, <1>9

-----------------------------------------------------------------------------
(* Invariant                                                               *)

\* The open blocks are declared ones; a server that serves has the joined queue
\* of every block, one that was refused has a block that could not be joined,
\* and a request's location is what the lookup finds.
LocationInv ==
    /\ DeclOK
    /\ open \in Seq(1..Len(decl))
    /\ stage \in {"reading", "serving", "refused", "lost"}
    /\ stage = "serving" => /\ trees = [d \in 0..Len(decl) |-> Joined(d).queue]
                            /\ \A d \in 0..Len(decl) : Joined(d).rc # "ERROR"
    /\ stage = "refused" => \E d \in 0..Len(decl) : Joined(d).rc = "ERROR"
    /\ uri # <<>> => stage = "serving" /\ uri \in Uris /\ chosen = find_location(uri)

LEMMA LocationInit_Inv == LocationInit => LocationInv
<1> SUFFICES ASSUME LocationInit PROVE LocationInv
  OBVIOUS
<1>1. decl \in Seq(Declaration) /\ open \in Seq(1..Len(decl)) /\ Len(decl) = 0
  BY DEF LocationInit
<1> QED
  BY <1>1 DEF LocationInit, LocationInv, DeclOK

\* A declaration and the end of one.
LEMMA Location_Inv ==
    ASSUME LocationInv, NEW name \in Names, NEW exact \in BOOLEAN, Location(name, exact)
    PROVE  LocationInv'
<1> DEFINE x == [name |-> name, exact |-> exact, parent |-> Parent]
           n == Len(decl)
<1>1. /\ decl \in Seq(Declaration) /\ \A e \in 1..n : decl[e].parent < e
      /\ open \in Seq(1..n) /\ n \in Nat /\ stage = "reading" /\ uri = <<>>
      /\ decl' = Append(decl, x) /\ open' = Append(open, n + 1)
      /\ stage' = stage /\ trees' = trees /\ uri' = uri /\ chosen' = chosen
  BY DEF LocationInv, DeclOK, Location
<1>2. Parent \in Nat /\ Parent < n + 1
  <2>1. CASE open = <<>>
    BY <1>1, <2>1 DEF Parent
  <2>2. CASE open # <<>>
    <3>1. Len(open) \in 1..Len(open)
      BY <1>1, <2>2
    <3>2. open[Len(open)] \in 1..n
      BY <1>1, <3>1
    <3> QED
      BY <1>1, <2>2, <3>2 DEF Parent, Last
  <2> QED
    BY <2>1, <2>2
<1>3. x \in Declaration /\ x.parent < n + 1
  BY <1>2 DEF Declaration
<1> HIDE DEF x, n
<1>4. /\ decl' \in Seq(Declaration) /\ Len(decl') = n + 1
      /\ \A e \in 1..n + 1 : decl'[e] = IF e = n + 1 THEN x ELSE decl[e]
  BY <1>1, <1>3 DEF n
<1>5. \A e \in 1..n + 1 : decl'[e].parent < e
  <2> TAKE e \in 1..n + 1
  <2>1. CASE e = n + 1
    BY <1>1, <1>3, <1>4, <2>1
  <2>2. CASE e # n + 1
    <3>1. e \in 1..n
      BY <1>1, <2>2
    <3> QED
      BY <1>1, <1>4, <2>2, <3>1
  <2> QED
    BY <2>1, <2>2
<1>6. open' \in Seq(1..n + 1)
  <2>1. open \in Seq(1..n + 1)
    <3>1. \A i \in 1..Len(open) : open[i] \in 1..n + 1
      BY <1>1
    <3> QED
      BY <1>1, <3>1
  <2>2. n + 1 \in 1..n + 1
    BY <1>1
  <2> QED
    BY <1>1, <2>1, <2>2
<1>7. DeclOK'
  BY <1>4, <1>5 DEF DeclOK
<1> QED
  BY <1>1, <1>4, <1>6, <1>7 DEF LocationInv

LEMMA LocationEnd_Inv ==
    ASSUME LocationInv, LocationEnd PROVE LocationInv'
<1>1. /\ open \in Seq(1..Len(decl)) /\ open # <<>> /\ open' = SubSeq(open, 1, Len(open) - 1)
      /\ decl' = decl /\ stage = "reading" /\ uri = <<>>
      /\ stage' = stage /\ trees' = trees /\ uri' = uri /\ chosen' = chosen
  BY DEF LocationInv, LocationEnd, Front
<1>2. open' \in Seq(1..Len(decl))
  <2>1. \A i \in 1..Len(open) - 1 : open[i] \in 1..Len(decl)
    BY <1>1
  <2> QED
    BY <1>1, <2>1, SubSeqProperties
<1>3. DeclOK'
  BY <1>1 DEF LocationInv, DeclOK
<1> QED
  BY <1>1, <1>2, <1>3 DEF LocationInv

\* The queues of the blocks depend on the declarations alone.
LEMMA JoinedFramed ==
    ASSUME decl' = decl PROVE \A d : Joined(d)' = Joined(d)
<1> TAKE d
<1> QED
  BY SMT DEF Joined, locations, LocationQueue

LEMMA InitLocationTrees_Inv ==
    ASSUME LocationInv, InitLocationTrees PROVE LocationInv'
<1>1. /\ decl' = decl /\ open' = open /\ uri' = uri /\ chosen' = chosen
      /\ stage = "reading" /\ uri = <<>>
      /\ IF \E d \in 0..Len(decl) : Joined(d).rc = "ERROR"
         THEN stage' = "refused" /\ trees' = trees
         ELSE stage' = "serving" /\ trees' = [d \in 0..Len(decl) |-> Joined(d).queue]
  BY DEF LocationInv, InitLocationTrees
<1>2. \A d : Joined(d)' = Joined(d)
  BY <1>1, JoinedFramed
<1>3. DeclOK' /\ open' \in Seq(1..Len(decl'))
  BY <1>1 DEF LocationInv, DeclOK
<1>4. CASE \E d \in 0..Len(decl) : Joined(d).rc = "ERROR"
  BY <1>1, <1>2, <1>3, <1>4 DEF LocationInv
<1>5. CASE ~\E d \in 0..Len(decl) : Joined(d).rc = "ERROR"
  <2>1. stage' = "serving" /\ trees' = [d \in 0..Len(decl') |-> Joined(d)'.queue]
    BY <1>1, <1>2, <1>5
  <2>2. \A d \in 0..Len(decl') : Joined(d)'.rc # "ERROR"
    BY <1>1, <1>2, <1>5
  <2> QED
    BY <1>1, <1>3, <2>1, <2>2 DEF LocationInv
<1> QED
  BY <1>4, <1>5

\* What changes neither the declarations, the trees nor the stage.
LEMMA Served_Inv ==
    ASSUME LocationInv, decl' = decl, trees' = trees, open' = open, stage' = stage,
           uri' # <<>> => stage = "serving" /\ uri' \in Uris /\ chosen' = find_location(uri')
    PROVE  LocationInv'
<1>1. \A d : Joined(d)' = Joined(d)
  BY JoinedFramed
<1>2. DeclOK' /\ open' \in Seq(1..Len(decl')) /\ stage' \in {"reading", "serving", "refused", "lost"}
  BY DEF LocationInv, DeclOK
<1>3. stage' = "serving" => trees' = [d \in 0..Len(decl') |-> Joined(d)'.queue]
  BY <1>1 DEF LocationInv
<1>4. /\ stage' = "serving" => \A d \in 0..Len(decl') : Joined(d)'.rc # "ERROR"
      /\ stage' = "refused" => \E d \in 0..Len(decl') : Joined(d)'.rc = "ERROR"
  BY <1>1 DEF LocationInv
<1>5. find_location(uri)' = find_location(uri')
  BY SMT DEF find_location, LookAgain, After
<1> QED
  BY <1>2, <1>3, <1>4, <1>5 DEF LocationInv

LEMMA LocationUnnamed_Inv ==
    ASSUME LocationInv, LocationUnnamed PROVE LocationInv'
<1>1. /\ decl' = decl /\ open' = open /\ uri' = uri /\ uri = <<>> /\ stage' = "lost"
  BY DEF LocationInv, LocationUnnamed
<1> QED
  BY <1>1 DEF LocationInv, DeclOK

LEMMA FindConfig_Inv ==
    ASSUME LocationInv, NEW u \in Uris, FindConfig(u) PROVE LocationInv'
BY Served_Inv DEF FindConfig

-----------------------------------------------------------------------------
(* Theorems                                                                *)

\* Whatever is declared, in whatever order and however it nests, a server that
\* serves holds the joined queue of each of its blocks.
THEOREM LocationsInvariant == LocationSpec => []LocationInv
<1>1. LocationInit => LocationInv
  BY LocationInit_Inv
<1>2. LocationInv /\ [LocationNext]_lvars => LocationInv'
  <2> SUFFICES ASSUME LocationInv, [LocationNext]_lvars PROVE LocationInv'
    OBVIOUS
  <2>1. CASE \E name \in Names, exact \in BOOLEAN : Location(name, exact)
    BY <2>1, Location_Inv
  <2>2. CASE LocationEnd
    BY <2>2, LocationEnd_Inv
  <2>3. CASE InitLocationTrees
    BY <2>3, InitLocationTrees_Inv
  <2>4. CASE \E u \in Uris : FindConfig(u)
    BY <2>4, FindConfig_Inv
  <2>6. CASE LocationUnnamed
    BY <2>6, LocationUnnamed_Inv
  <2>5. CASE UNCHANGED lvars
    <3>1. /\ decl' = decl /\ open' = open /\ stage' = stage /\ trees' = trees /\ uri' = uri
          /\ chosen' = chosen
      BY <2>5 DEF lvars
    <3>2. uri' # <<>> => stage = "serving" /\ uri' \in Uris /\ chosen' = find_location(uri')
      BY <3>1 DEF LocationInv
    <3> QED
      BY <3>1, <3>2, Served_Inv
  <2> QED
    BY <2>1, <2>2, <2>3, <2>4, <2>5, <2>6 DEF LocationNext
<1> QED
  BY <1>1, <1>2, PTL DEF LocationSpec

\* For any number of declarations of any names: night_http_join_exact_locations
\* refuses a block exactly when two of its locations have one name and are of
\* one kind, however far apart they are declared, for the sort before it puts
\* them side by side.
THEOREM DuplicatesRefusedHolds == LocationSpec => []DuplicatesRefused
<1>1. LocationInv => DuplicatesRefused
  <2> DEFINE Twice1 == \E d, e \in DOMAIN decl :
                          /\ d # e /\ decl[d].parent = decl[e].parent
                          /\ decl[d].exact = decl[e].exact
                          /\ Folded(decl[d].name) = Folded(decl[e].name)
  <2> SUFFICES ASSUME LocationInv, stage \in {"serving", "refused"} PROVE stage = "refused" <=> Twice1
    BY DEF DuplicatesRefused
  <2>0. DeclOK /\ stage \in {"serving", "refused"}
    BY DEF LocationInv
  <2>1. \A d : Joined(d).rc = "ERROR" <=> TwiceIn(d)
    BY <2>0, JoinedIs
  <2>2. stage = "refused" <=> \E d \in 0..Len(decl) : Joined(d).rc = "ERROR"
    BY <2>0 DEF LocationInv
  <2>3. \A e \in DOMAIN decl : IsName(decl[e].name) /\ decl[e].parent \in 0..Len(decl)
    BY <2>0, DeclType
  <2>4. \A e, f \in DOMAIN decl :
          Same(decl[e].name, decl[f].name) <=> Folded(decl[e].name) = Folded(decl[f].name)
    BY <2>3, SameFolded
  <2>5. (\E d \in 0..Len(decl) : TwiceIn(d)) <=> Twice1
    BY <2>3, <2>4 DEF TwiceIn, Inside
  <2> QED
    BY <2>1, <2>2, <2>5
<1> QED
  BY <1>1, LocationsInvariant, PTL

\* Where char is signed, a name that goes on with a byte above 0x7f after another
\* name is sorted before that one by night_http_cmp_locations, and so stays out of
\* its list.
LEMMA NegativeSortsFirst ==
    ASSUME NEW s, IsName(s), NEW t, IsName(t), Len(s) < Len(t), t[Len(s) + 1] < 0,
           \A i \in 1..Len(s) : Lower(s[i]) = Lower(t[i])
    PROVE  filename_cmp(s, t, Len(s) + 1) > 0
<1> DEFINE k == Len(s) + 1
<1>1. k \in 1..k /\ k \in Nat /\ 1..Len(s) = 1..(k - 1) /\ k \in 1..Len(t)
  BY DEF IsName
<1>2. \A i \in 1..(k - 1) : W(s, i) = W(t, i)
  <2> SUFFICES ASSUME NEW i \in 1..(k - 1) PROVE W(s, i) = W(t, i)
    OBVIOUS
  <2>1. i \in Positions /\ i <= Len(s) /\ i <= Len(t) /\ i \in 1..Len(s)
    BY <1>1 DEF Positions
  <2>2. CharAt(s, i) = s[i] /\ CharAt(t, i) = t[i]
    BY <2>1, WeightType
  <2> QED
    BY <2>1, <2>2, WeightSame
<1>3. k \in Positions /\ k > Len(s) /\ k <= Len(t)
  BY <1>1 DEF Positions
<1>4. W(s, k) = 0 /\ W(t, k) < 0
  <2>0. t[k] < 0
    OBVIOUS
  <2> HIDE DEF k
  <2>1. W(s, k) = 0
    BY <1>3, WeightType
  <2>2. CharAt(t, k) = t[k] /\ t[k] \in Code
    BY <1>3, WeightType
  <2>3. \A c \in Code : c < 0 => Lower(c) = c /\ Weight(c) = c
    BY DEF Code, Lower, Weight, Slash
  <2>4. W(t, k) = t[k]
    BY <2>0, <2>2, <2>3 DEF W
  <2> QED
    BY <2>0, <2>1, <2>4
<1>5. Agree(t, s, k - 1)
  BY <1>2 DEF Agree
<1>6. Differ(t, s, k)
  BY <1>4, <1>5 DEF Differ
<1> QED
  BY <1>1, <1>6, CmpSign

\* The codes of the names and targets are those of ASCII.
PositiveCodes == \A s \in Names \cup Uris : \A i \in DOMAIN s : s[i] > 0

\* For any number of declarations, nested in any way, of any names of ASCII
\* characters: the trees of night_http_create_locations_tree and the search of
\* night_http_core_find_static_location give every request the location declared
\* exactly for its uri, else the one with the longest name the uri begins with,
\* block by block.
THEOREM LongestPrefixHolds ==
    ASSUME PositiveCodes
    PROVE  LocationSpec => []LongestPrefixChosen
<1>1. LocationInv => LongestPrefixChosen
  <2> SUFFICES ASSUME LocationInv, uri # <<>> PROVE chosen = Best(uri)
    BY DEF LongestPrefixChosen
  <2>0. DeclOK /\ stage = "serving" /\ uri \in Uris /\ chosen = find_location(uri)
    BY DEF LocationInv
  <2>1. \A s \in Names \cup Uris : IsName(s)
    BY NamesAssumption DEF IsName, Code
  <2>2. \A s \in Names \cup Uris : Plain(s)
    BY <2>1, PlainCodes DEF PositiveCodes
  <2>3. PlainNames
    <3>1. \A e \in DOMAIN decl : decl[e].name \in Names
      <4>1. \A e \in DOMAIN decl : decl[e] \in Declaration
        BY <2>0 DEF DeclOK
      <4> QED
        BY <4>1 DEF Declaration
    <3> QED
      BY <2>2, <3>1 DEF PlainNames
  <2>4. Served(uri)
    <3> SUFFICES ASSUME NEW d \in 0..Len(decl)
                 PROVE  ~TwiceIn(d) /\ Gives(d, uri, GivenBy(d, uri))
      BY DEF Served
    <3>1. Joined(d).rc # "ERROR" /\ trees[d] = Joined(d).queue
      BY <2>0 DEF LocationInv
    <3>2. ~TwiceIn(d) /\ Lists(trees[d], d)
      BY <2>0, <3>1, JoinedIs
    <3>3. Gives(d, uri, find_static_location(trees[d], uri))
      BY <2>0, <2>2, <2>3, <3>2, BlockGives
    <3> QED
      BY <3>2, <3>3 DEF GivenBy
  <2> QED
    BY <2>0, <2>1, <2>4, LookupBest
<1> QED
  BY <1>1, LocationsInvariant, PTL
=============================================================================
