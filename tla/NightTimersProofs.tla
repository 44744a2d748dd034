-------------------------- MODULE NightTimersProofs --------------------------
(***************************************************************************)
(* The timer tree is a red-black tree of the events whose timer is set,    *)
(* whatever is added, moved and removed, for any number of events.         *)
(*                                                                         *)
(* The invariant, TimersInv, says of the tree that there are a sub, the    *)
(* nodes at and below each node, and a bh, the black nodes on every way    *)
(* down from it, with which it is Balanced:                                *)
(*                                                                         *)
(*   Shape    the links are those of a tree: children and parents agree,   *)
(*            a node is below its ancestors only, the root above all;      *)
(*   Ordered  what is left of a node is not later, what is right not       *)
(*            earlier;                                                     *)
(*   Even     all ways down from a node meet bh black nodes;               *)
(*   Reds     no red node has a red child; the sentinel is black.          *)
(*                                                                         *)
(* The loops that insert and delete break it and mend it: InsertGood       *)
(* allows one red node below another, DeleteGood one way down that is a    *)
(* black node short.  Each turn keeps that and either ends the loop or     *)
(* goes up (InsertTurnGood, DeleteTurnGood), which bounds its turns        *)
(* (LoopStops).                                                            *)
(*                                                                         *)
(* A lemma about an operation speaks of what it writes (Painted, Adopted,  *)
(* Placed, Rotated) and not of how.                                        *)
(***************************************************************************)
EXTENDS NightTimers, NightLemmas

-----------------------------------------------------------------------------
(* Loops                                                                   *)

\* The bound on the turns of a loop is a natural number.
LEMMA TurnsNat == Turns \in Nat /\ IsFiniteSet(Nodes) /\ Turns = Cardinality(Events) + 1
<1>1. IsFiniteSet(Events) /\ Sentinel \notin Events
  BY TimersAssumption
<1>2. /\ IsFiniteSet(Events \cup {Sentinel})
      /\ Cardinality(Events \cup {Sentinel}) = Cardinality(Events) + 1
  BY <1>1, FS_AddElement
<1>3. Cardinality(Events) \in Nat
  BY <1>1, FS_CardinalityType
<1> QED
  BY <1>2, <1>3 DEF Turns, Nodes

\* G is a turn of a loop whose states are S, d a run of it from x.
IsTurn(G, S) == G \in [S -> S]
IsRun(d, S, x, G) == /\ d \in [0..Turns -> S] /\ d[0] = x
                     /\ \A n \in 1..Turns : d[n] = G[d[n - 1]]

\* The steps of a run may differ from turn to turn.
LEMMA StepsRun ==
    ASSUME Turns \in Nat, NEW S, NEW x \in S, NEW g \in [1..Turns -> [S -> S]]
    PROVE  \E d \in [0..Turns -> S] : d[0] = x /\ \A i \in 1..Turns : d[i] = g[i][d[i - 1]]
BY RecursionExists

\* The same, packed.
StepsOf(g, S) == g \in [1..Turns -> [S -> S]]
IsStepRun(d, S, x, g) == /\ d \in [0..Turns -> S] /\ d[0] = x
                         /\ \A n \in 1..Turns : d[n] = g[n][d[n - 1]]

\* There is one from every start.
LEMMA StepRunExists ==
    ASSUME Turns \in Nat, NEW S, NEW x \in S, NEW g, StepsOf(g, S)
    PROVE  \E d : IsStepRun(d, S, x, g)
BY StepsRun DEF StepsOf, IsStepRun

\* A loop whose turns stay in S has a run.
LEMMA LoopRuns ==
    ASSUME NEW S, NEW x \in S, NEW G, IsTurn(G, S)
    PROVE  \E d : IsRun(d, S, x, G)
<1>1. Turns \in Nat
  BY TurnsNat
<1> DEFINE g == [i \in 1..Turns |-> G]
<1>2. StepsOf(g, S)
  BY DEF StepsOf, IsTurn
<1> HIDE DEF g
<1>3. PICK d : IsStepRun(d, S, x, g)
  BY <1>1, <1>2, StepRunExists
<1>4. \A i \in 1..Turns : d[i] = G[d[i - 1]]
  BY <1>3 DEF g, IsStepRun
<1>5. IsRun(d, S, x, G)
  BY <1>3, <1>4 DEF IsRun, IsStepRun
<1> QED
  BY <1>5

\* Every turn but the last raises a measure that stays below the bound.
Progress(S, G, m, Stop) ==
    /\ m \in [S -> Nat]
    /\ \A s \in S \cap Stop : G[s] = s
    /\ \A s \in S \ Stop : m[s] < Turns /\ (G[s] \in Stop \/ m[s] < m[G[s]])

\* Such a loop ends where its condition fails.
LEMMA LoopStops ==
    ASSUME NEW S, NEW x \in S, NEW G, IsTurn(G, S), NEW m, NEW Stop,
           Progress(S, G, m, Stop), NEW d, IsRun(d, S, x, G)
    PROVE  d[Turns] \in S \cap Stop
<1>1. Turns \in Nat
  BY TurnsNat
<1>a. /\ d \in [0..Turns -> S] /\ d[0] = x /\ \A n \in 1..Turns : d[n] = G[d[n - 1]]
      /\ G \in [S -> S]
  BY DEF IsRun, IsTurn
<1>b. /\ m \in [S -> Nat]
      /\ \A s \in S \cap Stop : G[s] = s
      /\ \A s \in S \ Stop : m[s] < Turns /\ (G[s] \in Stop \/ m[s] < m[G[s]])
  BY DEF Progress
<1> DEFINE P == {n \in Nat : n <= Turns => d[n] \in Stop \/ n <= m[d[n]]}
<1>2. 0 \in P
  BY <1>1, <1>a, <1>b
<1>3. ASSUME NEW n \in Nat, n \in P PROVE n + 1 \in P
  <2> SUFFICES ASSUME n + 1 <= Turns
               PROVE  d[n + 1] \in Stop \/ n + 1 <= m[d[n + 1]]
    OBVIOUS
  <2>1. d[n] \in S /\ (d[n] \in Stop \/ n <= m[d[n]])
    BY <1>1, <1>3, <1>a
  <2>2. n + 1 \in 1..Turns /\ (n + 1) - 1 = n
    BY <1>1
  <2>3. d[n + 1] = G[d[n]]
    BY <2>2, <1>a
  <2>4. G[d[n]] \in S
    BY <2>1, <1>a
  <2>5. m[d[n]] \in Nat /\ m[G[d[n]]] \in Nat
    BY <2>1, <2>4, <1>b
  <2>6. CASE d[n] \in Stop
    BY <2>1, <2>3, <2>6, <1>b
  <2>7. CASE d[n] \notin Stop
    BY <2>1, <2>3, <2>4, <2>5, <2>7, <1>b
  <2> QED
    BY <2>6, <2>7
<1> HIDE DEF P
<1>4. Turns \in P
  BY <1>1, <1>2, <1>3, SetInduction
<1>5. d[Turns] \in S /\ (d[Turns] \in Stop \/ Turns <= m[d[Turns]])
  BY <1>1, <1>4, <1>a DEF P
<1>6. m[d[Turns]] \in Nat
  BY <1>5, <1>b
<1> QED
  BY <1>1, <1>5, <1>6, <1>b

\* What satisfies the equation that defines a loop.
IsAfter(f, S, x, G) == /\ \E h : f = [n \in 0..Turns |-> h[n]]
                       /\ f[0] = x
                       /\ \A n \in 1..Turns : f[n - 1] \in S => f[n] = G[f[n - 1]]

\* It is the run of the loop.
LEMMA AfterRuns ==
    ASSUME NEW S, NEW x \in S, NEW G, IsTurn(G, S), NEW f, IsAfter(f, S, x, G)
    PROVE  IsRun(f, S, x, G)
<1>1. Turns \in Nat
  BY TurnsNat
<1>2. PICK h : f = [n \in 0..Turns |-> h[n]]
  BY DEF IsAfter
<1>3. f[0] = x /\ \A n \in 1..Turns : f[n - 1] \in S => f[n] = G[f[n - 1]]
  BY DEF IsAfter
<1> DEFINE P == {n \in Nat : n <= Turns => f[n] \in S}
<1>4. 0 \in P
  BY <1>3
<1>5. ASSUME NEW n \in Nat, n \in P PROVE n + 1 \in P
  <2> SUFFICES ASSUME n + 1 <= Turns PROVE f[n + 1] \in S
    OBVIOUS
  <2>1. f[n] \in S
    BY <1>1, <1>5
  <2>2. n + 1 \in 1..Turns /\ (n + 1) - 1 = n
    BY <1>1
  <2>3. f[n + 1] = G[f[n]]
    BY <1>3, <2>1, <2>2
  <2> QED
    BY <2>1, <2>3 DEF IsTurn
<1> HIDE DEF P
<1>6. Nat \subseteq P
  BY <1>4, <1>5, SetInduction
<1>7. \A n \in 0..Turns : f[n] \in S
  BY <1>1, <1>6 DEF P
<1>8. f \in [0..Turns -> S]
  BY <1>2, <1>7
<1>9. \A n \in 1..Turns : n - 1 \in 0..Turns
  BY <1>1
<1> QED
  BY <1>3, <1>7, <1>8, <1>9 DEF IsRun

\* The loop of night_rbtree_min.
LEMMA MinRuns ==
    ASSUME NEW S, NEW x \in S, NEW t, NEW G, IsTurn(G, S), \A y \in S : G[y] = Left(t, y)
    PROVE  \E d : IsRun(d, S, x, G) /\ rbtree_min(t, x) = d[Turns]
<1> DEFINE F(f) == [n \in 0..Turns |-> IF n = 0 THEN x ELSE Left(t, f[n - 1])]
           after == CHOOSE f : f = F(f)
<1>1. rbtree_min(t, x) = after[Turns]
  BY Zenon DEF rbtree_min, Loop
<1>2. PICK d : IsRun(d, S, x, G)
  BY LoopRuns
<1>3. d = F(d)
  BY <1>2, TurnsNat DEF IsRun
<1>4. after = F(after)
  <2> HIDE DEF F
  <2> QED
    BY <1>3
<1> HIDE DEF after
<1>5. IsAfter(after, S, x, G)
  <2>1. \E h : after = [n \in 0..Turns |-> h[n]]
    <3>1. after = [n \in 0..Turns |-> after[n]]
      BY <1>4
    <3> QED
      BY <3>1
  <2>2. after[0] = x /\ \A n \in 1..Turns : after[n] = Left(t, after[n - 1])
    BY <1>4, TurnsNat
  <2> QED
    BY <2>1, <2>2 DEF IsAfter
<1>6. IsRun(after, S, x, G)
  BY <1>5, AfterRuns
<1> QED
  BY <1>1, <1>6

-----------------------------------------------------------------------------
(* Trees *)

\* What the fields of the nodes hold.
Sides == {"left", "right"}
Trees == [root : Nodes, key : [Nodes -> Int], color : [Nodes -> {0, 1}],
          parent : [Nodes -> Nodes \cup {Null}],
          kid : [Sides -> [Nodes -> Nodes \cup {Null}]]]

\* Left and right are each other's opposites.
LEMMA SideFacts ==
    \A s \in Sides : /\ Opposite(s) \in Sides /\ Opposite(s) # s /\ Opposite(Opposite(s)) = s
                     /\ \A r \in Sides : r # s <=> r = Opposite(s)
BY DEF Sides, Opposite

\* What the operations write, field by field.
Painted(u, t, x, c) ==
    /\ u \in Trees /\ u.key = t.key /\ u.root = t.root /\ u.parent = t.parent /\ u.kid = t.kid
    /\ \A z \in Nodes : u.color[z] = IF z = x THEN c ELSE t.color[z]

Adopted(u, t, side, x, y) ==
    /\ u \in Trees /\ u.key = t.key /\ u.root = t.root /\ u.color = t.color
    /\ \A z \in Nodes : u.parent[z] = IF z = y /\ z # Sentinel THEN x ELSE t.parent[z]
    /\ \A s \in Sides, z \in Nodes : u.kid[s][z] = IF z = x /\ s = side THEN y ELSE t.kid[s][z]

Placed(u, t, x, y) ==
    /\ u \in Trees /\ u.key = t.key /\ u.color = t.color
    /\ u.root = IF x = t.root THEN y ELSE t.root
    /\ \A z \in Nodes : u.parent[z] = IF z = y THEN t.parent[x] ELSE t.parent[z]
    /\ \A s \in Sides, z \in Nodes :
         u.kid[s][z] = IF x # t.root /\ z = t.parent[x] /\ s = SideOf(t, x) THEN y
                       ELSE t.kid[s][z]

Rotated(u, t, side, x, y) ==
    /\ u \in Trees /\ u.key = t.key /\ u.color = t.color
    /\ u.root = IF x = t.root THEN y ELSE t.root
    /\ \A z \in Nodes :
         u.parent[z] = IF z = x THEN y ELSE IF z = y THEN t.parent[x]
                       ELSE IF z = t.kid[side][y] /\ z # Sentinel THEN x ELSE t.parent[z]
    /\ \A s \in Sides, z \in Nodes :
         u.kid[s][z] = IF z = x /\ s # side THEN t.kid[side][y]
                       ELSE IF z = y /\ s = side THEN x
                       ELSE IF x # t.root /\ z = t.parent[x] /\ s = SideOf(t, x) THEN y
                       ELSE t.kid[s][z]

\* Painting a node changes its colour.
LEMMA PaintWrites ==
    ASSUME NEW t \in Trees, NEW x \in Nodes, NEW c \in {0, 1}
    PROVE  Painted(Paint(t, x, c), t, x, c)
BY DEF Painted, Paint, Trees

\* Adopting a node changes two links.
LEMMA AdoptWrites ==
    ASSUME NEW t \in Trees, NEW side \in Sides, NEW x \in Nodes, NEW y \in Nodes
    PROVE  Adopted(Adopt(t, side, x, y), t, side, x, y)
<1> DEFINE t1 == [t EXCEPT !.kid[side][x] = y]
           u == [t1 EXCEPT !.parent[y] = x]
<1>1. Adopt(t, side, x, y) = IF y = Sentinel THEN t1 ELSE u
  BY DEF Adopt
<1>2. /\ t1 \in Trees /\ t1.key = t.key /\ t1.root = t.root /\ t1.color = t.color
      /\ t1.parent = t.parent
      /\ \A s \in Sides, z \in Nodes : t1.kid[s][z] = IF z = x /\ s = side THEN y ELSE t.kid[s][z]
  BY DEF Trees
<1> HIDE DEF t1
<1>3. /\ u \in Trees /\ u.key = t.key /\ u.root = t.root /\ u.color = t.color
      /\ u.kid = t1.kid
      /\ \A z \in Nodes : u.parent[z] = IF z = y THEN x ELSE t.parent[z]
  BY <1>2 DEF Trees
<1> HIDE DEF u
<1> QED
  BY <1>1, <1>2, <1>3 DEF Adopted

\* Taking the place of a node changes the link down to it, or the root.
LEMMA TakePlaceWrites ==
    ASSUME NEW t \in Trees, NEW x \in Nodes, NEW y \in Nodes, x # t.root => t.parent[x] \in Nodes
    PROVE  Placed(TakePlace(t, x, y), t, x, y)
<1> DEFINE t1 == [t EXCEPT !.parent[y] = t.parent[x]]
           u == [t1 EXCEPT !.root = y]
           v == [t1 EXCEPT !.kid[SideOf(t, x)][t.parent[x]] = y]
<1>1. TakePlace(t, x, y) = IF x = t.root THEN u ELSE v
  BY DEF TakePlace
<1>2. /\ t1 \in Trees /\ t1.key = t.key /\ t1.root = t.root /\ t1.color = t.color
      /\ t1.kid = t.kid
      /\ \A z \in Nodes : t1.parent[z] = IF z = y THEN t.parent[x] ELSE t.parent[z]
  BY DEF Trees
<1> HIDE DEF t1
<1>3. /\ u \in Trees /\ u.key = t.key /\ u.root = y /\ u.color = t.color
      /\ u.kid = t.kid /\ u.parent = t1.parent
  BY <1>2 DEF Trees
<1> HIDE DEF u
<1>4. SideOf(t, x) \in Sides
  BY DEF SideOf, Sides
<1>5. ASSUME x # t.root
      PROVE  /\ v \in Trees /\ v.key = t.key /\ v.root = t.root /\ v.color = t.color
             /\ v.parent = t1.parent
             /\ \A s \in Sides, z \in Nodes :
                  v.kid[s][z] = IF z = t.parent[x] /\ s = SideOf(t, x) THEN y ELSE t.kid[s][z]
  BY <1>2, <1>4, <1>5 DEF Trees
<1> HIDE DEF v
<1>6. CASE x = t.root
  BY <1>1, <1>2, <1>3, <1>6 DEF Placed
<1>7. CASE x # t.root
  BY <1>1, <1>2, <1>5, <1>7 DEF Placed
<1> QED
  BY <1>6, <1>7

\* What night_rbtree_left_rotate and night_rbtree_right_rotate write.
LEMMA RotateWrites ==
    ASSUME NEW t \in Trees, NEW side \in Sides, NEW x \in Events, NEW y \in Events,
           y = t.kid[Opposite(side)][x], x # y, NEW inner \in Nodes, inner = t.kid[side][y],
           inner # x, inner # y,
           x # t.root => t.parent[x] \in Nodes /\ t.parent[x] # x /\ t.parent[x] # y
    PROVE  Rotated(rotate(t, side, x), t, side, x, y)
<1> DEFINE o == Opposite(side)
           t1 == Adopt(t, o, x, inner)
           t2 == TakePlace(t1, x, y)
           u == Adopt(t2, side, y, x)
<1>1. rotate(t, side, x) = u
  BY DEF rotate
<1>2. o \in Sides /\ \A s \in Sides : s # side <=> s = o
  BY SideFacts
<1>3. x \in Nodes /\ y \in Nodes /\ x # Sentinel /\ y # Sentinel
  BY TimersAssumption DEF Nodes
<1> HIDE DEF o
<1>4. Adopted(t1, t, o, x, inner)
  BY <1>2, <1>3, AdoptWrites
<1>a. /\ t1 \in Trees /\ t1.key = t.key /\ t1.root = t.root /\ t1.color = t.color
      /\ \A z \in Nodes : t1.parent[z] = IF z = inner /\ z # Sentinel THEN x ELSE t.parent[z]
      /\ \A s \in Sides, z \in Nodes : t1.kid[s][z] = IF z = x /\ s = o THEN inner ELSE t.kid[s][z]
  BY <1>4 DEF Adopted
<1> HIDE DEF t1
<1>5. t1.parent[x] = t.parent[x]
  BY <1>3, <1>a
<1>6. x # t.root => SideOf(t1, x) = SideOf(t, x)
  <2> SUFFICES ASSUME x # t.root PROVE SideOf(t1, x) = SideOf(t, x)
    OBVIOUS
  <2>1. t1.kid["left"][t.parent[x]] = t.kid["left"][t.parent[x]]
    BY <1>a DEF Sides
  <2> QED
    BY <1>5, <2>1 DEF SideOf
<1>7. x # t1.root => t1.parent[x] \in Nodes
  BY <1>a, <1>5
<1>8. Placed(t2, t1, x, y)
  BY <1>3, <1>a, <1>7, TakePlaceWrites
<1> HIDE DEF t2
<1>9. Adopted(u, t2, side, y, x)
  BY <1>3, <1>8, AdoptWrites DEF Placed
<1> HIDE DEF u
<1>b. /\ t2 \in Trees /\ t2.key = t.key /\ t2.color = t.color
      /\ t2.root = IF x = t.root THEN y ELSE t.root
      /\ \A z \in Nodes : t2.parent[z] = IF z = y THEN t.parent[x] ELSE t1.parent[z]
      /\ \A s \in Sides, z \in Nodes :
           t2.kid[s][z] = IF x # t.root /\ z = t.parent[x] /\ s = SideOf(t, x) THEN y
                          ELSE t1.kid[s][z]
  BY <1>a, <1>5, <1>6, <1>8 DEF Placed
<1>c. /\ u \in Trees /\ u.key = t.key /\ u.root = t2.root /\ u.color = t.color
      /\ \A z \in Nodes : u.parent[z] = IF z = x THEN y ELSE t2.parent[z]
      /\ \A s \in Sides, z \in Nodes : u.kid[s][z] = IF z = y /\ s = side THEN x ELSE t2.kid[s][z]
  BY <1>3, <1>b, <1>9 DEF Adopted
<1>10. \A z \in Nodes : u.parent[z] = IF z = x THEN y ELSE IF z = y THEN t.parent[x]
                                      ELSE IF z = inner /\ z # Sentinel THEN x ELSE t.parent[z]
  BY <1>a, <1>b, <1>c
<1>11. \A s \in Sides, z \in Nodes :
         u.kid[s][z] = IF z = x /\ s # side THEN inner
                       ELSE IF z = y /\ s = side THEN x
                       ELSE IF x # t.root /\ z = t.parent[x] /\ s = SideOf(t, x) THEN y
                       ELSE t.kid[s][z]
  BY <1>2, <1>a, <1>b, <1>c
<1> QED
  BY <1>1, <1>b, <1>c, <1>10, <1>11 DEF Rotated

-----------------------------------------------------------------------------
(* The shape of the tree *)

\* t is a tree of the nodes T, and sub[x] is the set of the nodes at and below x.
\* The parents of the root and of the sentinel are whatever was last written.
Linked(t, T) ==
    /\ t.root \in T \cup {Sentinel}
    /\ \A x \in T, s \in Sides : t.kid[s][x] \in T \cup {Sentinel}
    /\ \A x \in T, s \in Sides : t.kid[s][x] # Sentinel => t.parent[t.kid[s][x]] = x
    /\ \A x \in T : x # t.root => t.parent[x] \in T /\ \E s \in Sides : t.kid[s][t.parent[x]] = x
Nested(t, T, sub) ==
    /\ sub \in [Nodes -> SUBSET Events]
    /\ sub[Sentinel] = {} /\ sub[t.root] = T
    /\ \A x \in T : \A z \in Events : z \in sub[x] <=> (z = x \/ \E s \in Sides : z \in sub[t.kid[s][x]])
    /\ \A x \in T, s \in Sides : x \notin sub[t.kid[s][x]]
    /\ \A x \in T, s \in Sides : \A z \in sub[t.kid[s][x]] : z \notin sub[t.kid[Opposite(s)][x]]
Shape(t, T, sub) == /\ t \in Trees /\ T \subseteq Events
                    /\ Linked(t, T) /\ Nested(t, T, sub)

\* Events are nodes other than the sentinel.
LEMMA EventNodes ==
    ASSUME NEW T, T \subseteq Events
    PROVE  \A x \in T : x \in Nodes /\ x \in Events /\ x # Sentinel /\ x # Null
BY TimersAssumption DEF Nodes

\* A child is below its parent and nowhere else.
LEMMA KidFacts ==
    ASSUME NEW t, NEW T, NEW sub, Shape(t, T, sub), NEW x \in T, NEW s \in Sides,
           NEW k, k = t.kid[s][x], k # Sentinel
    PROVE  /\ k \in T /\ k \in sub[k] /\ k \in sub[x] /\ k # x /\ t.parent[k] = x
           /\ x \in sub[x] /\ x \notin sub[k] /\ k # t.root
           /\ t.kid[Opposite(s)][x] # k /\ SideOf(t, k) = s
           /\ \A z \in T, r \in Sides : t.kid[r][z] = k => z = x /\ r = s
<1>1. k \in T /\ t.parent[k] = x /\ k \in Events /\ x \in Events
  BY DEF Shape, Linked
<1>2. k \in sub[k] /\ x \in sub[x] /\ x \notin sub[k] /\ k \in sub[x]
  BY <1>1 DEF Shape, Nested
<1>3. k # x
  BY <1>2
<1>4. k # t.root
  BY <1>1, <1>2 DEF Shape, Nested
<1>5. t.kid[Opposite(s)][x] # k
  BY <1>2 DEF Shape, Nested
<1>6. \A z \in T, r \in Sides : t.kid[r][z] = k => z = x /\ r = s
  <2> SUFFICES ASSUME NEW z \in T, NEW r \in Sides, t.kid[r][z] = k PROVE z = x /\ r = s
    OBVIOUS
  <2>1. z = x
    BY <1>1 DEF Shape, Linked
  <2> QED
    BY <1>5, <2>1, SideFacts
<1>7. SideOf(t, k) = s
  BY <1>1, <1>5, SideFacts DEF SideOf, Sides, Opposite
<1> QED
  BY <1>1, <1>2, <1>3, <1>4, <1>5, <1>6, <1>7

\* A node other than the root is the child of its parent on the side SideOf tells.
LEMMA ParentFacts ==
    ASSUME NEW t, NEW T, NEW sub, Shape(t, T, sub), NEW x \in T, x # t.root
    PROVE  /\ t.parent[x] \in T /\ SideOf(t, x) \in Sides /\ t.kid[SideOf(t, x)][t.parent[x]] = x
           /\ t.parent[x] # x /\ t.parent[x] \notin sub[x] /\ x \in sub[t.parent[x]]
<1>1. PICK s \in Sides : t.parent[x] \in T /\ t.kid[s][t.parent[x]] = x
  BY DEF Shape, Linked
<1>2. x # Sentinel
  BY EventNodes DEF Shape
<1> DEFINE p == t.parent[x]
<1>3. p \in T /\ x = t.kid[s][p]
  BY <1>1
<1> HIDE DEF p
<1>4. SideOf(t, x) = s /\ x # p /\ p \notin sub[x] /\ x \in sub[p]
  BY <1>2, <1>3, KidFacts
<1> QED
  BY <1>1, <1>4 DEF p

\* The nodes around a rotation are different ones.
LEMMA Around ==
    ASSUME NEW t, NEW T, NEW sub, Shape(t, T, sub), NEW side \in Sides, NEW x \in T,
           NEW y \in T, y = t.kid[Opposite(side)][x]
    PROVE  /\ x # y /\ t.kid[side][y] \in Nodes /\ t.kid[side][y] # x /\ t.kid[side][y] # y
           /\ x # t.root => t.parent[x] \in T /\ t.parent[x] # x /\ t.parent[x] # y
           /\ Rotated(rotate(t, side, x), t, side, x, y)
<1>0. Opposite(side) \in Sides /\ x # Sentinel /\ y # Sentinel /\ x \in Events /\ y \in Events
  BY SideFacts, EventNodes DEF Shape
<1>1. x # y /\ y \in sub[y] /\ x \in sub[x] /\ x \notin sub[y] /\ t.parent[y] = x /\ y \in sub[x]
  BY <1>0, KidFacts
<1>2. t.kid[side][y] \in T \cup {Sentinel}
  BY DEF Shape, Linked
<1>3. t.kid[side][y] # y /\ t.kid[side][y] # x
  <2>1. CASE t.kid[side][y] = Sentinel
    BY <1>0, <2>1
  <2>2. CASE t.kid[side][y] # Sentinel
    <3>1. t.kid[side][y] \in sub[y] /\ t.kid[side][y] # y
      BY <2>2, KidFacts
    <3> QED
      BY <1>1, <3>1
  <2> QED
    BY <2>1, <2>2
<1>4. x # t.root => t.parent[x] \in T /\ t.parent[x] # x /\ t.parent[x] # y
  <2> SUFFICES ASSUME x # t.root PROVE t.parent[x] \in T /\ t.parent[x] # x /\ t.parent[x] # y
    OBVIOUS
  <2>1. t.parent[x] \in T /\ t.parent[x] # x /\ x \in sub[t.parent[x]]
    BY ParentFacts
  <2> QED
    BY <1>1, <2>1
<1>5. t.kid[side][y] \in Nodes /\ (x # t.root => t.parent[x] \in Nodes)
  BY <1>2, <1>4, EventNodes DEF Shape, Nodes
<1>6. t \in Trees
  BY DEF Shape
<1>7. Rotated(rotate(t, side, x), t, side, x, y)
  BY <1>0, <1>1, <1>3, <1>4, <1>5, <1>6, RotateWrites
<1> QED
  BY <1>1, <1>3, <1>4, <1>5, <1>7

\* A rotation changes what is below the two nodes it turns and nothing else.
RotatedSub(t, sub, side, x, y) ==
    [sub EXCEPT ![y] = sub[x], ![x] = {x} \cup sub[t.kid[side][x]] \cup sub[t.kid[side][y]]]

\* The nodes hung to x and y, and who may have them as children.
LEMMA RotateKids ==
    ASSUME NEW t, NEW T, NEW sub, Shape(t, T, sub), NEW side \in Sides, NEW x \in T,
           NEW y \in T, y = t.kid[Opposite(side)][x], NEW u, u = rotate(t, side, x)
    PROVE  /\ u.kid[side][x] = t.kid[side][x] /\ u.kid[Opposite(side)][x] = t.kid[side][y]
           /\ u.kid[side][y] = x /\ u.kid[Opposite(side)][y] = t.kid[Opposite(side)][y]
           /\ t.kid[side][x] \notin {x, y} /\ t.kid[side][y] \notin {x, y}
           /\ t.kid[Opposite(side)][y] \notin {x, y}
           /\ \A z \in T \ {x, y}, s \in Sides :
                /\ t.kid[s][z] # y /\ u.kid[s][z] # x
                /\ u.kid[s][z] = IF t.kid[s][z] = x THEN y ELSE t.kid[s][z]
<1>0. Opposite(side) \in Sides /\ Opposite(side) # side /\ x # Sentinel /\ y # Sentinel
  BY SideFacts, EventNodes DEF Shape
<1>1. /\ x # y /\ t.kid[side][y] # x /\ t.kid[side][y] # y
      /\ x # t.root => t.parent[x] \in T /\ t.parent[x] # x /\ t.parent[x] # y
      /\ Rotated(u, t, side, x, y)
  BY Around
<1>2. x \in Nodes /\ y \in Nodes /\ T \subseteq Nodes
  BY EventNodes DEF Shape
<1>3. /\ u.kid[Opposite(side)][x] = t.kid[side][y]
      /\ u.kid[side][y] = x
  BY <1>0, <1>1, <1>2 DEF Rotated
<1>4. u.kid[side][x] = t.kid[side][x]
  BY <1>0, <1>1, <1>2 DEF Rotated
<1>5. u.kid[Opposite(side)][y] = t.kid[Opposite(side)][y]
  BY <1>0, <1>1, <1>2 DEF Rotated
<1>6. /\ t.parent[y] = x /\ y \in sub[y] /\ x \notin sub[y]
      /\ \A z \in T, r \in Sides : t.kid[r][z] = y => z = x /\ r = Opposite(side)
  BY <1>0, KidFacts
<1>7. \A z \in T, r \in Sides : t.kid[r][z] = x => z \notin {x, y}
  <2> SUFFICES ASSUME NEW z \in T, NEW r \in Sides, t.kid[r][z] = x PROVE z \notin {x, y}
    OBVIOUS
  <2>1. x # z /\ x \in sub[z]
    BY <1>0, KidFacts
  <2> QED
    BY <1>6, <2>1
<1>8. /\ t.kid[side][x] \notin {x, y} /\ t.kid[side][y] \notin {x, y}
      /\ t.kid[Opposite(side)][y] \notin {x, y}
  <2>1. t.kid[side][x] # y /\ t.kid[side][x] # x
    BY <1>0, <1>6, <1>7
  <2>2. t.kid[Opposite(side)][y] # y /\ t.kid[Opposite(side)][y] # x
    BY <1>0, <1>1, <1>6, <1>7
  <2> QED
    BY <1>1, <2>1, <2>2
<1>9. ASSUME NEW z \in T \ {x, y}, NEW s \in Sides
      PROVE  /\ t.kid[s][z] # y /\ u.kid[s][z] # x
             /\ u.kid[s][z] = IF t.kid[s][z] = x THEN y ELSE t.kid[s][z]
  <2>1. t.kid[s][z] # y /\ z \in Nodes
    BY <1>2, <1>6
  <2>2. u.kid[s][z] = IF x # t.root /\ z = t.parent[x] /\ s = SideOf(t, x) THEN y ELSE t.kid[s][z]
    BY <1>1, <2>1 DEF Rotated
  <2>3. CASE t.kid[s][z] = x
    <3>1. t.parent[x] = z /\ x # t.root /\ SideOf(t, x) = s
      BY <1>0, <2>3, KidFacts
    <3> QED
      BY <1>1, <2>1, <2>2, <2>3, <3>1
  <2>4. CASE t.kid[s][z] # x
    <3>1. ~(x # t.root /\ z = t.parent[x] /\ s = SideOf(t, x))
      BY <2>4, ParentFacts
    <3> QED
      BY <2>1, <2>2, <2>4, <3>1
  <2> QED
    BY <2>3, <2>4
<1> QED
  BY <1>3, <1>4, <1>5, <1>8, <1>9

\* A rotation keeps the tree a tree of the same nodes.
LEMMA RotateLinked ==
    ASSUME NEW t, NEW T, NEW sub, Shape(t, T, sub), NEW side \in Sides, NEW x \in T,
           NEW y \in T, y = t.kid[Opposite(side)][x], NEW u, u = rotate(t, side, x)
    PROVE  u \in Trees /\ Linked(u, T)
<1>0. Opposite(side) \in Sides /\ Opposite(side) # side /\ x # Sentinel /\ y # Sentinel
  BY SideFacts, EventNodes DEF Shape
<1>1. /\ x # y /\ t.kid[side][y] # x /\ t.kid[side][y] # y
      /\ x # t.root => t.parent[x] \in T /\ t.parent[x] # x /\ t.parent[x] # y
      /\ Rotated(u, t, side, x, y)
  BY Around
<1>2. /\ u.kid[side][x] = t.kid[side][x] /\ u.kid[Opposite(side)][x] = t.kid[side][y]
      /\ u.kid[side][y] = x /\ u.kid[Opposite(side)][y] = t.kid[Opposite(side)][y]
      /\ t.kid[side][x] \notin {x, y} /\ t.kid[side][y] \notin {x, y}
      /\ t.kid[Opposite(side)][y] \notin {x, y}
      /\ \A z \in T \ {x, y}, s \in Sides :
           /\ t.kid[s][z] # y /\ u.kid[s][z] # x
           /\ u.kid[s][z] = IF t.kid[s][z] = x THEN y ELSE t.kid[s][z]
  BY RotateKids
<1>3. /\ u \in Trees /\ u.root = IF x = t.root THEN y ELSE t.root
      /\ \A z \in T :
         u.parent[z] = IF z = x THEN y ELSE IF z = y THEN t.parent[x]
                       ELSE IF z = t.kid[side][y] THEN x ELSE t.parent[z]
  BY <1>1, EventNodes DEF Rotated, Shape
<1>4. /\ t.root \in T \cup {Sentinel}
      /\ \A z \in T, s \in Sides : t.kid[s][z] \in T \cup {Sentinel}
      /\ \A z \in T, s \in Sides : t.kid[s][z] # Sentinel => t.parent[t.kid[s][z]] = z
      /\ \A z \in T : z # t.root => t.parent[z] \in T /\ \E s \in Sides : t.kid[s][t.parent[z]] = z
  BY DEF Shape, Linked
<1>5. \A s \in Sides : s = side \/ s = Opposite(side)
  BY SideFacts
<1>6. u.root \in T \cup {Sentinel}
  BY <1>3, <1>4
<1>7. \A z \in T, s \in Sides : u.kid[s][z] \in T \cup {Sentinel}
  BY <1>2, <1>4, <1>5
<1>8. ASSUME NEW z \in T, NEW s \in Sides, u.kid[s][z] # Sentinel PROVE u.parent[u.kid[s][z]] = z
  <2> DEFINE k == u.kid[s][z]
  <2>1. k \in T
    BY <1>7, <1>8
  <2>2. CASE z = x
    <3>1. CASE s = side
      <4>a. k = t.kid[side][x]
        BY <1>2, <2>2, <3>1
      <4>b. t.kid[side][x] # Sentinel /\ t.parent[t.kid[side][x]] = x
        BY <1>4, <1>8, <4>a
      <4>1. k = t.kid[side][x] /\ k \notin {x, y} /\ t.parent[k] = x
        BY <1>2, <4>a, <4>b
      <4> QED
        BY <1>3, <2>1, <2>2, <4>1
    <3>2. CASE s = Opposite(side)
      <4>1. k = t.kid[side][y] /\ k \notin {x, y}
        BY <1>2, <2>2, <3>2
      <4> QED
        BY <1>3, <2>1, <2>2, <4>1
    <3> QED
      BY <1>5, <3>1, <3>2
  <2>3. CASE z = y
    <3>1. CASE s = side
      BY <1>2, <1>3, <2>3, <3>1
    <3>2. CASE s = Opposite(side)
      <4>a. k = t.kid[Opposite(side)][y]
        BY <1>2, <2>3, <3>2
      <4>b. t.kid[Opposite(side)][y] # Sentinel /\ t.parent[t.kid[Opposite(side)][y]] = y
        BY <1>0, <1>4, <1>8, <4>a
      <4>1. k = t.kid[Opposite(side)][y] /\ k \notin {x, y} /\ t.parent[k] = y
        BY <1>2, <4>a, <4>b
      <4>2. k # t.kid[side][y]
        BY <1>0, <1>8, <4>1, KidFacts, SideFacts
      <4> QED
        BY <1>3, <2>1, <2>3, <4>1, <4>2
    <3> QED
      BY <1>5, <3>1, <3>2
  <2>4. CASE z \notin {x, y}
    <3>1. CASE t.kid[s][z] = x
      <4>1. k = y /\ t.parent[x] = z
        BY <1>0, <1>2, <1>4, <2>4, <3>1
      <4> QED
        BY <1>1, <1>3, <4>1
    <3>2. CASE t.kid[s][z] # x
      <4>1. k = t.kid[s][z] /\ k \notin {x, y} /\ t.parent[k] = z
        BY <1>2, <1>4, <1>8, <2>4, <3>2
      <4>2. k # t.kid[side][y]
        BY <1>4, <1>8, <2>4, <4>1
      <4> QED
        BY <1>3, <2>1, <4>1, <4>2
    <3> QED
      BY <3>1, <3>2
  <2> QED
    BY <2>2, <2>3, <2>4
<1>9. ASSUME NEW z \in T, z # u.root
      PROVE  u.parent[z] \in T /\ \E s \in Sides : u.kid[s][u.parent[z]] = z
  <2>1. CASE z = x
    BY <1>2, <1>3, <2>1
  <2>2. CASE z = y
    <3>1. x # t.root
      BY <1>3, <1>9, <2>2
    <3>2. t.parent[x] \in T \ {x, y} /\ t.kid[SideOf(t, x)][t.parent[x]] = x /\ SideOf(t, x) \in Sides
      BY <1>1, <3>1, ParentFacts
    <3>3. u.parent[z] = t.parent[x]
      BY <1>1, <1>3, <2>2
    <3>4. u.kid[SideOf(t, x)][t.parent[x]] = y
      BY <1>2, <3>2
    <3> QED
      BY <2>2, <3>2, <3>3, <3>4
  <2>3. CASE z \notin {x, y} /\ z = t.kid[side][y]
    BY <1>0, <1>2, <1>3, <2>3
  <2>4. CASE z \notin {x, y} /\ z # t.kid[side][y]
    <3>1. u.parent[z] = t.parent[z]
      BY <1>3, <2>4
    <3>2. z # t.root
      <4>1. z = t.root => x # t.root
        BY <2>4
      <4> QED
        BY <1>3, <1>9, <4>1
    <3>3. PICK s \in Sides : t.parent[z] \in T /\ t.kid[s][t.parent[z]] = z
      BY <1>4, <3>2
    <3>4. CASE t.parent[z] = x
      <4>1. s = side
        BY <1>5, <2>4, <3>3, <3>4
      <4> QED
        BY <1>2, <3>1, <3>3, <3>4, <4>1
    <3>5. CASE t.parent[z] = y
      <4>1. s = Opposite(side)
        BY <1>5, <2>4, <3>3, <3>5
      <4> QED
        BY <1>2, <3>1, <3>3, <3>5, <4>1
    <3>6. CASE t.parent[z] \notin {x, y}
      <4>1. u.kid[s][t.parent[z]] = z
        BY <1>2, <2>4, <3>3, <3>6
      <4> QED
        BY <3>1, <3>3, <4>1
    <3> QED
      BY <3>4, <3>5, <3>6
  <2> QED
    BY <2>1, <2>2, <2>3, <2>4
<1> QED
  BY <1>3, <1>6, <1>7, <1>8, <1>9 DEF Linked

\* A rotation keeps what is at and below every node but the two it turns.
LEMMA RotateNested ==
    ASSUME NEW t, NEW T, NEW sub, Shape(t, T, sub), NEW side \in Sides, NEW x \in T,
           NEW y \in T, y = t.kid[Opposite(side)][x], NEW u, u = rotate(t, side, x),
           NEW new, new = RotatedSub(t, sub, side, x, y)
    PROVE  Nested(u, T, new)
<1> DEFINE a == t.kid[side][x]
           b == t.kid[side][y]
           c == t.kid[Opposite(side)][y]
<1>0. Opposite(side) \in Sides /\ Opposite(side) # side /\ x # Sentinel /\ y # Sentinel
  BY SideFacts, EventNodes DEF Shape
<1>1. /\ u.kid[side][x] = a /\ u.kid[Opposite(side)][x] = b
      /\ u.kid[side][y] = x /\ u.kid[Opposite(side)][y] = c
      /\ a \notin {x, y} /\ b \notin {x, y} /\ c \notin {x, y}
      /\ \A z \in T \ {x, y}, s \in Sides :
           /\ t.kid[s][z] # y /\ u.kid[s][z] # x
           /\ u.kid[s][z] = IF t.kid[s][z] = x THEN y ELSE t.kid[s][z]
  BY RotateKids
<1>2. x # y /\ Rotated(u, t, side, x, y)
  BY Around
<1>3. u.root = IF x = t.root THEN y ELSE t.root
  BY <1>2 DEF Rotated
<1>4. /\ \A s \in Sides : s = side \/ s = Opposite(side)
      /\ Opposite(Opposite(side)) = side
  BY SideFacts
<1>5. T \subseteq Events /\ T \subseteq Nodes /\ Sentinel \in Nodes
  BY EventNodes DEF Shape, Nodes
<1>6. a \in T \cup {Sentinel} /\ b \in T \cup {Sentinel} /\ c \in T \cup {Sentinel}
  BY <1>0 DEF Shape, Linked
<1>7. /\ sub \in [Nodes -> SUBSET Events]
      /\ sub[Sentinel] = {} /\ sub[t.root] = T
      /\ \A z \in T, v \in Events : v \in sub[z] <=> (v = z \/ \E s \in Sides : v \in sub[t.kid[s][z]])
      /\ \A z \in T, s \in Sides : z \notin sub[t.kid[s][z]]
      /\ \A z \in T, s \in Sides : \A v \in sub[t.kid[s][z]] : v \notin sub[t.kid[Opposite(s)][z]]
  BY DEF Shape, Nested
<1>8. /\ new \in [Nodes -> SUBSET Events]
      /\ new[y] = sub[x] /\ new[x] = {x} \cup sub[a] \cup sub[b]
      /\ \A z \in Nodes \ {x, y} : new[z] = sub[z]
  <2> DEFINE X == {x} \cup sub[a] \cup sub[b]
  <2>1. new = [sub EXCEPT ![y] = sub[x], ![x] = X]
    BY DEF RotatedSub
  <2>2. X \in SUBSET Events /\ sub[x] \in SUBSET Events /\ x \in Nodes /\ y \in Nodes
    BY <1>5, <1>6, <1>7
  <2> HIDE DEF X
  <2>3. /\ new \in [Nodes -> SUBSET Events]
        /\ new[y] = sub[x] /\ new[x] = X
        /\ \A z \in Nodes \ {x, y} : new[z] = sub[z]
    BY <1>2, <1>7, <2>1, <2>2
  <2> QED
    BY <2>3 DEF X
<1>9. /\ \A v \in Events : v \in sub[x] <=> v = x \/ v \in sub[a] \/ v \in sub[y]
      /\ \A v \in Events : v \in sub[y] <=> v = y \/ v \in sub[b] \/ v \in sub[c]
      /\ x \notin sub[a] /\ x \notin sub[y] /\ y \notin sub[b] /\ y \notin sub[c]
      /\ \A v \in sub[a] : v \notin sub[y]
      /\ \A v \in sub[b] : v \notin sub[c]
  BY <1>0, <1>4, <1>7
<1> HIDE DEF a, b, c
<1>10. new[a] = sub[a] /\ new[b] = sub[b] /\ new[c] = sub[c]
  BY <1>1, <1>5, <1>6, <1>8
<1>11. new[Sentinel] = {} /\ new[u.root] = T
  <2>1. t.root # x /\ t.root # Sentinel => t.root # y
    BY <1>0, KidFacts
  <2>2. t.root \in Nodes
    BY DEF Shape, Trees
  <2> QED
    BY <1>0, <1>3, <1>5, <1>7, <1>8, <2>1, <2>2
<1>12. \A z \in T \ {x, y}, s \in Sides : new[u.kid[s][z]] = sub[t.kid[s][z]]
  <2> TAKE z \in T \ {x, y}, s \in Sides
  <2>1. t.kid[s][z] \in Nodes
    BY <1>5 DEF Shape, Linked
  <2> QED
    BY <1>1, <1>8, <2>1
<1>13. \A v \in Events : v \in sub[x] => v \in Events
  OBVIOUS
<1>14. ASSUME NEW z \in T, NEW v \in Events
       PROVE  v \in new[z] <=> (v = z \/ \E s \in Sides : v \in new[u.kid[s][z]])
  <2>1. CASE z = x
    BY <1>0, <1>1, <1>4, <1>8, <1>10, <2>1
  <2>2. CASE z = y
    <3>1. v \in new[z] <=> v = x \/ v \in sub[a] \/ v = y \/ v \in sub[b] \/ v \in sub[c]
      BY <1>8, <1>9, <2>2
    <3>2. (\E s \in Sides : v \in new[u.kid[s][z]]) <=> v \in new[x] \/ v \in new[c]
      BY <1>0, <1>1, <1>4, <2>2
    <3> QED
      BY <1>8, <1>10, <2>2, <3>1, <3>2
  <2>3. CASE z \notin {x, y}
    <3>1. new[z] = sub[z]
      BY <1>5, <1>8, <2>3
    <3> QED
      BY <1>7, <1>12, <2>3, <3>1
  <2> QED
    BY <2>1, <2>2, <2>3
<1>15. ASSUME NEW z \in T, NEW s \in Sides
       PROVE  /\ z \notin new[u.kid[s][z]]
              /\ \A v \in new[u.kid[s][z]] : v \notin new[u.kid[Opposite(s)][z]]
  <2>1. CASE z = x
    <3>1. x \notin sub[b] /\ \A v \in sub[a] : v \notin sub[b]
      <4>1. \A v \in sub[b] : v \in Events /\ v \in sub[y]
        BY <1>5, <1>6, <1>7, <1>9
      <4> QED
        BY <1>9, <4>1
    <3> QED
      BY <1>1, <1>4, <1>9, <1>10, <2>1, <3>1
  <2>2. CASE z = y
    <3>1. y \notin new[x] /\ \A v \in new[x] : v \notin sub[c]
      <4>1. y \notin sub[a] /\ \A v \in sub[a] : v \notin sub[c]
        <5>1. \A v \in sub[c] : v \in Events /\ v \in sub[y]
          BY <1>5, <1>6, <1>7, <1>9
        <5>2. y \in sub[y]
          BY <1>5, <1>9
        <5> QED
          BY <1>9, <5>1, <5>2
      <4>2. x \notin sub[c]
        BY <1>5, <1>9
      <4> QED
        BY <1>2, <1>8, <1>9, <4>1, <4>2
    <3>2. CASE s = side
      BY <1>1, <1>10, <2>2, <3>1, <3>2
    <3>3. CASE s = Opposite(side)
      BY <1>1, <1>4, <1>9, <1>10, <2>2, <3>1, <3>3
    <3> QED
      BY <1>4, <3>2, <3>3
  <2>3. CASE z \notin {x, y}
    <3>1. Opposite(s) \in Sides
      BY SideFacts
    <3> QED
      BY <1>7, <1>12, <2>3, <3>1
  <2> QED
    BY <2>1, <2>2, <2>3
<1> QED
  BY <1>8, <1>11, <1>14, <1>15 DEF Nested

\* A rotation keeps the shape of the tree.
LEMMA RotateShape ==
    ASSUME NEW t, NEW T, NEW sub, Shape(t, T, sub), NEW side \in Sides, NEW x \in T,
           NEW y \in T, y = t.kid[Opposite(side)][x]
    PROVE  Shape(rotate(t, side, x), T, RotatedSub(t, sub, side, x, y))
BY RotateLinked, RotateNested DEF Shape

\* z belongs on a side of x.
Sorted(t, s, z, x) == IF s = "left" THEN t.key[z] <= t.key[x] ELSE t.key[x] <= t.key[z]
Ordered(t, T, sub) == \A x \in T, s \in Sides : \A z \in sub[t.kid[s][x]] : Sorted(t, s, z, x)

\* The order of the two sides is one order, and transitive.
LEMMA SortedFacts ==
    ASSUME NEW t \in Trees, NEW s \in Sides
    PROVE  /\ \A x, y \in Nodes : Sorted(t, s, x, y) <=> Sorted(t, Opposite(s), y, x)
           /\ \A x, y, z \in Nodes : Sorted(t, s, x, y) /\ Sorted(t, s, y, z) => Sorted(t, s, x, z)
<1>1. \A x \in Nodes : t.key[x] \in Int
  BY DEF Trees
<1>2. \A x, y, z \in Nodes : t.key[x] <= t.key[y] /\ t.key[y] <= t.key[z] => t.key[x] <= t.key[z]
  BY <1>1
<1>3. CASE s = "left"
  BY <1>2, <1>3 DEF Sorted, Opposite
<1>4. CASE s = "right"
  BY <1>2, <1>4 DEF Sorted, Opposite
<1> QED
  BY <1>3, <1>4 DEF Sides

\* A rotation keeps the order of the deadlines.
LEMMA RotateOrdered ==
    ASSUME NEW t, NEW T, NEW sub, Shape(t, T, sub), Ordered(t, T, sub),
           NEW side \in Sides, NEW x \in T, NEW y \in T, y = t.kid[Opposite(side)][x],
           NEW u, u = rotate(t, side, x), NEW new, new = RotatedSub(t, sub, side, x, y)
    PROVE  Ordered(u, T, new)
<1> DEFINE a == t.kid[side][x]
           b == t.kid[side][y]
           c == t.kid[Opposite(side)][y]
<1>0. /\ Opposite(side) \in Sides /\ Opposite(side) # side /\ x # Sentinel /\ y # Sentinel
      /\ Opposite(Opposite(side)) = side
  BY SideFacts, EventNodes DEF Shape
<1>1. /\ u.kid[side][x] = a /\ u.kid[Opposite(side)][x] = b
      /\ u.kid[side][y] = x /\ u.kid[Opposite(side)][y] = c
      /\ a \notin {x, y} /\ b \notin {x, y} /\ c \notin {x, y}
      /\ \A z \in T \ {x, y}, s \in Sides :
           /\ t.kid[s][z] # y /\ u.kid[s][z] # x
           /\ u.kid[s][z] = IF t.kid[s][z] = x THEN y ELSE t.kid[s][z]
  BY RotateKids
<1>2. x # y /\ Rotated(u, t, side, x, y)
  BY Around
<1>3. u.key = t.key /\ \A s, z, v : Sorted(u, s, z, v) = Sorted(t, s, z, v)
  BY <1>2 DEF Rotated, Sorted
<1>4. \A s \in Sides : s = side \/ s = Opposite(side)
  BY SideFacts
<1>5. T \subseteq Events /\ T \subseteq Nodes /\ Sentinel \in Nodes /\ t \in Trees /\ Events \subseteq Nodes
  BY EventNodes DEF Shape, Nodes
<1>6. a \in T \cup {Sentinel} /\ b \in T \cup {Sentinel} /\ c \in T \cup {Sentinel}
  BY <1>0 DEF Shape, Linked
<1>7. sub \in [Nodes -> SUBSET Events]
  BY DEF Shape, Nested
<1>8. /\ new[y] = sub[x] /\ new[x] = {x} \cup sub[a] \cup sub[b]
      /\ \A z \in Nodes \ {x, y} : new[z] = sub[z]
  BY <1>2, <1>5, <1>7 DEF RotatedSub
<1>9. y \in sub[y] /\ \A v \in sub[b] : v \in sub[y]
  BY <1>5, <1>6, <1>7 DEF Shape, Nested
<1>10. /\ \A v \in sub[a] : Sorted(t, side, v, x)
       /\ \A v \in sub[y] : Sorted(t, Opposite(side), v, x)
       /\ \A v \in sub[b] : Sorted(t, side, v, y)
       /\ \A v \in sub[c] : Sorted(t, Opposite(side), v, y)
  BY <1>0 DEF Ordered
<1> HIDE DEF a, b, c
<1>11. new[a] = sub[a] /\ new[b] = sub[b] /\ new[c] = sub[c]
  BY <1>1, <1>5, <1>6, <1>8
<1>12. \A z \in T \ {x, y}, s \in Sides : new[u.kid[s][z]] = sub[t.kid[s][z]]
  <2> TAKE z \in T \ {x, y}, s \in Sides
  <2>1. t.kid[s][z] \in Nodes
    BY <1>5 DEF Shape, Linked
  <2> QED
    BY <1>1, <1>8, <2>1
<1>13. Sorted(t, side, x, y)
  BY <1>0, <1>5, <1>9, <1>10, SortedFacts
<1>14. \A v \in sub[a] : v \in Nodes
  BY <1>5, <1>6, <1>7
<1>15. \A v \in sub[a] : Sorted(t, side, v, y)
  BY <1>5, <1>10, <1>13, <1>14, SortedFacts
<1>16. ASSUME NEW z \in T, NEW s \in Sides, NEW v \in new[u.kid[s][z]] PROVE Sorted(t, s, v, z)
  <2>1. CASE z = x
    BY <1>1, <1>4, <1>9, <1>10, <1>11, <1>16, <2>1
  <2>2. CASE z = y /\ s = side
    BY <1>1, <1>8, <1>10, <1>13, <1>15, <1>16, <2>2
  <2>3. CASE z = y /\ s = Opposite(side)
    BY <1>1, <1>10, <1>11, <1>16, <2>3
  <2>4. CASE z \notin {x, y}
    BY <1>12, <1>16, <2>4 DEF Ordered
  <2> QED
    BY <1>4, <2>1, <2>2, <2>3, <2>4
<1> QED
  BY <1>3, <1>16 DEF Ordered

\* The colours have no part in the shape and the order.
LEMMA PaintShape ==
    ASSUME NEW t, NEW T, NEW sub, Shape(t, T, sub), NEW u, NEW x, NEW c, Painted(u, t, x, c)
    PROVE  /\ Shape(u, T, sub) /\ \A z : SideOf(u, z) = SideOf(t, z)
           /\ Ordered(t, T, sub) => Ordered(u, T, sub)
<1>1. u \in Trees /\ u.root = t.root /\ u.kid = t.kid /\ u.parent = t.parent /\ u.key = t.key
  BY DEF Painted
<1>2. \A z : SideOf(u, z) = SideOf(t, z)
  BY <1>1 DEF SideOf
<1>3. Linked(u, T) /\ Nested(u, T, sub)
  BY <1>1 DEF Shape, Linked, Nested
<1>4. Ordered(t, T, sub) => Ordered(u, T, sub)
  BY <1>1 DEF Ordered, Sorted
<1> QED
  BY <1>1, <1>2, <1>3, <1>4 DEF Shape

\* What is below a child is less than what is below its parent.
LEMMA SubSizes ==
    ASSUME NEW t, NEW T, NEW sub, Shape(t, T, sub)
    PROVE  /\ \A x \in T : /\ IsFiniteSet(sub[x]) /\ Cardinality(sub[x]) \in Nat
                           /\ Cardinality(sub[x]) < Turns /\ Cardinality(sub[x]) > 0
           /\ \A x \in T, s \in Sides : t.kid[s][x] # Sentinel =>
                Cardinality(sub[t.kid[s][x]]) < Cardinality(sub[x])
<1>1. IsFiniteSet(Events) /\ Cardinality(Events) \in Nat /\ Turns = Cardinality(Events) + 1
  BY TimersAssumption, TurnsNat, FS_CardinalityType
<1>2. \A x \in T : x \in sub[x] /\ sub[x] \subseteq Events
  BY EventNodes DEF Shape, Nested
<1>3. \A x \in T : /\ IsFiniteSet(sub[x]) /\ Cardinality(sub[x]) \in Nat
                   /\ Cardinality(sub[x]) <= Cardinality(Events)
  BY <1>1, <1>2, FS_Subset, FS_CardinalityType
<1>4. \A x \in T : Cardinality(sub[x]) # 0
  BY <1>2, <1>3, FS_EmptySet
<1>5. ASSUME NEW x \in T, NEW s \in Sides, t.kid[s][x] # Sentinel
      PROVE  Cardinality(sub[t.kid[s][x]]) < Cardinality(sub[x])
  <2> DEFINE k == t.kid[s][x]
  <2>1. k \in T /\ x \notin sub[k] /\ x \in sub[x]
    BY <1>5, KidFacts
  <2>2. sub[k] \subseteq sub[x]
    <3>1. \A z \in Events : z \in sub[k] => z \in sub[x]
      BY DEF Shape, Nested
    <3> QED
      BY <1>2, <2>1, <3>1
  <2> HIDE DEF k
  <2>3. sub[k] # sub[x]
    BY <2>1
  <2>4. Cardinality(sub[k]) <= Cardinality(sub[x]) /\ Cardinality(sub[k]) # Cardinality(sub[x])
    BY <1>3, <2>1, <2>2, <2>3, FS_Subset
  <2> QED
    BY <1>3, <2>1, <2>4 DEF k
<1> QED
  BY <1>1, <1>3, <1>4, <1>5

\* Whatever holds at a node when it holds at its children holds in the tree.
LEMMA TreeInduction ==
    ASSUME NEW t, NEW T, NEW sub, Shape(t, T, sub), NEW P,
           \A x \in T : (\A s \in Sides : t.kid[s][x] # Sentinel => t.kid[s][x] \in P) => x \in P
    PROVE  T \subseteq P
<1> DEFINE Q == {n \in Nat : \A x \in T : Cardinality(sub[x]) <= n => x \in P}
<1>1. 0 \in Q
  BY SubSizes
<1>2. ASSUME NEW n \in Nat, n \in Q PROVE n + 1 \in Q
  <2> SUFFICES ASSUME NEW x \in T, Cardinality(sub[x]) <= n + 1 PROVE x \in P
    OBVIOUS
  <2>1. ASSUME NEW s \in Sides, t.kid[s][x] # Sentinel PROVE t.kid[s][x] \in P
    <3>1. t.kid[s][x] \in T
      BY <2>1 DEF Shape, Linked
    <3>2. /\ Cardinality(sub[t.kid[s][x]]) < Cardinality(sub[x])
          /\ Cardinality(sub[t.kid[s][x]]) \in Nat /\ Cardinality(sub[x]) \in Nat
      BY <2>1, <3>1, SubSizes
    <3>3. Cardinality(sub[t.kid[s][x]]) <= n
      BY <3>2
    <3> QED
      BY <1>2, <3>1, <3>3
  <2> QED
    BY <2>1
<1> HIDE DEF Q
<1>3. Nat \subseteq Q
  BY <1>1, <1>2, SetInduction
<1>4. \A x \in T : Cardinality(sub[x]) \in Nat
  BY SubSizes
<1> QED
  BY <1>3, <1>4 DEF Q

\* What is below a node below x is below x, and so is its parent.
LEMMA SubNested ==
    ASSUME NEW t, NEW T, NEW sub, Shape(t, T, sub)
    PROVE  \A x \in T : /\ sub[x] \subseteq T
                        /\ \A z \in sub[x] : sub[z] \subseteq sub[x]
                        /\ \A z \in sub[x] : z # x => z # t.root /\ t.parent[z] \in sub[x]
<1> DEFINE Good(x) == /\ sub[x] \subseteq T
                      /\ \A z \in sub[x] : sub[z] \subseteq sub[x]
                      /\ \A z \in sub[x] : z # x => z # t.root /\ t.parent[z] \in sub[x]
           P == {x \in T : Good(x)}
<1>1. ASSUME NEW x \in T, \A s \in Sides : t.kid[s][x] # Sentinel => t.kid[s][x] \in P
      PROVE  x \in P
  <2>1. /\ \A z \in Events : z \in sub[x] <=> (z = x \/ \E s \in Sides : z \in sub[t.kid[s][x]])
        /\ sub[x] \subseteq Events /\ T \subseteq Events /\ x \in sub[x]
    BY EventNodes DEF Shape, Nested
  <2>2. ASSUME NEW z \in sub[x], z # x
        PROVE  \E s \in Sides : t.kid[s][x] # Sentinel /\ z \in sub[t.kid[s][x]] /\ Good(t.kid[s][x])
    <3>1. PICK s \in Sides : z \in sub[t.kid[s][x]]
      BY <2>1, <2>2
    <3>2. t.kid[s][x] # Sentinel
      BY <3>1 DEF Shape, Nested
    <3> QED
      BY <1>1, <3>1, <3>2
  <2>3. \A s \in Sides : t.kid[s][x] # Sentinel => sub[t.kid[s][x]] \subseteq sub[x]
    <3> SUFFICES ASSUME NEW s \in Sides, t.kid[s][x] # Sentinel PROVE sub[t.kid[s][x]] \subseteq sub[x]
      OBVIOUS
    <3>1. Good(t.kid[s][x])
      BY <1>1
    <3> QED
      BY <2>1, <3>1
  <2>4. \A z \in sub[x] : z \in T
    BY <2>2
  <2>5. \A z \in sub[x] : sub[z] \subseteq sub[x]
    <3> SUFFICES ASSUME NEW z \in sub[x], z # x PROVE sub[z] \subseteq sub[x]
      OBVIOUS
    <3>1. PICK s \in Sides : t.kid[s][x] # Sentinel /\ z \in sub[t.kid[s][x]] /\ Good(t.kid[s][x])
      BY <2>2
    <3> QED
      BY <2>3, <3>1
  <2>6. \A z \in sub[x] : z # x => z # t.root /\ t.parent[z] \in sub[x]
    <3> SUFFICES ASSUME NEW z \in sub[x], z # x PROVE z # t.root /\ t.parent[z] \in sub[x]
      OBVIOUS
    <3>1. PICK s \in Sides : t.kid[s][x] # Sentinel /\ z \in sub[t.kid[s][x]] /\ Good(t.kid[s][x])
      BY <2>2
    <3>2. CASE z = t.kid[s][x]
      BY <2>1, <3>1, <3>2, KidFacts
    <3>3. CASE z # t.kid[s][x]
      <4>1. t.parent[z] \in sub[t.kid[s][x]] /\ z # t.root
        BY <3>1, <3>3
      <4> QED
        BY <2>3, <3>1, <4>1
    <3> QED
      BY <3>2, <3>3
  <2> QED
    BY <2>4, <2>5, <2>6
<1> HIDE DEF P
<1>2. T \subseteq P
  BY <1>1, TreeInduction
<1> QED
  BY <1>2 DEF P

\* The links determine what is below a node.
LEMMA SubUnique ==
    ASSUME NEW t, NEW T, NEW sub, Shape(t, T, sub), NEW new, Shape(t, T, new)
    PROVE  \A x \in T \cup {Sentinel} : sub[x] = new[x]
<1> DEFINE P == {x \in T : sub[x] = new[x]}
<1>1. ASSUME NEW x \in T, \A s \in Sides : t.kid[s][x] # Sentinel => t.kid[s][x] \in P
      PROVE  x \in P
  <2>1. \A s \in Sides : sub[t.kid[s][x]] = new[t.kid[s][x]]
    BY <1>1 DEF Shape, Nested
  <2>2. \A z \in Events : z \in sub[x] <=> z \in new[x]
    BY <2>1 DEF Shape, Nested
  <2>3. sub[x] \subseteq Events /\ new[x] \subseteq Events
    BY EventNodes DEF Shape, Nested
  <2> QED
    BY <2>2, <2>3
<1> HIDE DEF P
<1>2. T \subseteq P
  BY <1>1, TreeInduction
<1>3. sub[Sentinel] = new[Sentinel]
  BY DEF Shape, Nested
<1> QED
  BY <1>2, <1>3 DEF P

-----------------------------------------------------------------------------
(* Colours and black heights *)

\* bh counts the black nodes on every way down; the way through x, unless x is
\* the root, is one short.
Short(t, x, z, s) == IF x # t.root /\ z = t.parent[x] /\ s = SideOf(t, x) THEN 1 ELSE 0
Even(t, T, bh, x) ==
    /\ bh \in [Nodes -> Nat] /\ bh[Sentinel] = 0
    /\ \A z \in T, s \in Sides :
         bh[z] = bh[t.kid[s][z]] + (1 - t.color[z]) + Short(t, x, z, s)

\* A red node has black children, but those in P and the children in K.
Reds(t, T, P, K) ==
    /\ t.color[Sentinel] = 0
    /\ \A z \in T, s \in Sides :
         t.color[z] = 1 /\ t.color[t.kid[s][z]] = 1 => z \in P \/ t.kid[s][z] \in K

\* The two nodes a loop turns apart, what the loop of night_rbtree_insert keeps:
\* the tree is a red-black tree but for x, which is red and may have a red parent.
InsertGood(t, T, sub, bh, x) ==
    /\ Shape(t, T, sub) /\ Ordered(t, T, sub)
    /\ Even(t, T, bh, t.root) /\ Reds(t, T, {}, {x})
    /\ x \in T /\ t.color[x] = 1
    /\ t.color[t.root] = 1 => x = t.root

\* No way down is short when x is the root.
LEMMA EvenOf ==
    ASSUME NEW t \in Trees, NEW T, NEW bh \in [Nodes -> Nat], bh[Sentinel] = 0,
           \A z \in T, s \in Sides : bh[z] = bh[t.kid[s][z]] + (1 - t.color[z]),
           T \subseteq Nodes, \A z \in T, s \in Sides : t.kid[s][z] \in Nodes
    PROVE  Even(t, T, bh, t.root)
<1>1. \A z \in T, s \in Sides : bh[t.kid[s][z]] \in Nat /\ t.color[z] \in {0, 1}
  BY DEF Trees
<1> QED
  BY <1>1 DEF Even, Short

\* And every step down is as even as the heights say.
LEMMA EvenSteps ==
    ASSUME NEW t \in Trees, NEW T, NEW bh, Even(t, T, bh, t.root),
           T \subseteq Nodes, \A z \in T, s \in Sides : t.kid[s][z] \in Nodes
    PROVE  \A z \in T, s \in Sides : bh[z] = bh[t.kid[s][z]] + (1 - t.color[z])
<1>1. \A z \in T, s \in Sides : bh[t.kid[s][z]] \in Nat /\ t.color[z] \in {0, 1}
  BY DEF Trees, Even
<1>2. \A z \in T, s \in Sides : bh[z] = bh[t.kid[s][z]] + (1 - t.color[z]) + 0
  BY DEF Even, Short
<1> QED
  BY <1>1, <1>2

\* The children of the nodes of a tree are nodes.
LEMMA ShapeNodes ==
    ASSUME NEW t, NEW T, NEW sub, Shape(t, T, sub)
    PROVE  /\ t \in Trees /\ T \subseteq Nodes /\ Sentinel \in Nodes /\ Sentinel \notin T
           /\ \A z \in T, s \in Sides : t.kid[s][z] \in Nodes
           /\ \A z \in Nodes : t.color[z] \in {0, 1}
BY EventNodes DEF Shape, Linked, Nodes, Trees

\* During an insertion no way down is short.
LEMMA InsertEven ==
    ASSUME NEW t, NEW T, NEW sub, NEW bh, NEW x, InsertGood(t, T, sub, bh, x)
    PROVE  \A z \in T, s \in Sides : bh[z] = bh[t.kid[s][z]] + (1 - t.color[z])
BY EvenSteps, ShapeNodes DEF InsertGood

\* A red node x whose parent p is red too, and its grandparent g, of which p is
\* the child on a side and v the other one.
RedPair(t, x, p, g, side, v) ==
    /\ x # t.root /\ p = t.parent[x] /\ t.color[p] = 1 /\ g = t.parent[p] /\ side = SideOf(t, p)
    /\ v = t.kid[Opposite(side)][g]
Above(t, T, sub, x, p, g, side, v) ==
    /\ p \in T /\ g \in T /\ p # t.root /\ side \in Sides /\ t.kid[side][g] = p
    /\ SideOf(t, x) \in Sides /\ t.kid[SideOf(t, x)][p] = x
    /\ x # p /\ g # p /\ x # g /\ t.color[g] = 0 /\ t.parent[x] = p /\ t.color[p] = 1
    /\ v \in T \cup {Sentinel} /\ v \notin {x, p, g} /\ Opposite(side) \in Sides
    /\ v = t.kid[Opposite(side)][g]
    /\ \A z \in T, s \in Sides : t.kid[s][z] = p => z = g /\ s = side
    /\ \A z \in T, s \in Sides : t.kid[s][z] = v /\ v # Sentinel => z = g /\ s = Opposite(side)
    /\ \A z \in T, s \in Sides : t.kid[s][z] = x => z = p /\ s = SideOf(t, x)
    /\ Cardinality(sub[x]) < Cardinality(sub[g])
\* Where two reds in a row stand: the grandparent is black and in the tree.
LEMMA InsertAbove ==
    ASSUME NEW t, NEW T, NEW sub, NEW bh, NEW x, InsertGood(t, T, sub, bh, x),
           NEW p, NEW g, NEW side, NEW v, RedPair(t, x, p, g, side, v)
    PROVE  Above(t, T, sub, x, p, g, side, v)
<1>0. /\ x # t.root /\ p = t.parent[x] /\ t.color[p] = 1 /\ g = t.parent[p] /\ side = SideOf(t, p)
      /\ v = t.kid[Opposite(side)][g]
  BY DEF RedPair
<1>1. /\ Shape(t, T, sub) /\ x \in T /\ (t.color[t.root] = 1 => x = t.root)
      /\ \A z \in T, s \in Sides : t.color[z] = 1 /\ t.color[t.kid[s][z]] = 1 => t.kid[s][z] = x
  BY DEF InsertGood, Reds
<1>2. p \in T /\ SideOf(t, x) \in Sides /\ t.kid[SideOf(t, x)][p] = x /\ p # x /\ x \in sub[p]
  BY <1>0, <1>1, ParentFacts
<1>3. p # t.root
  BY <1>0, <1>1
<1>4. g \in T /\ side \in Sides /\ t.kid[side][g] = p /\ g # p /\ p \in sub[g] /\ g \notin sub[p]
  BY <1>0, <1>1, <1>2, <1>3, ParentFacts
<1>5. \A z \in T : t.color[z] \in {0, 1}
  BY <1>1, EventNodes DEF Shape, Trees
<1>6. t.color[g] = 0
  BY <1>0, <1>1, <1>2, <1>4, <1>5
<1>7. x # g
  BY <1>2, <1>4
<1>8. Opposite(side) \in Sides /\ p # Sentinel /\ x # Sentinel /\ g # Sentinel
  BY <1>1, <1>2, <1>4, SideFacts, EventNodes DEF Shape
<1>9. /\ \A z \in T, s \in Sides : t.kid[s][z] = p => z = g /\ s = side
      /\ t.kid[Opposite(side)][g] # p
  BY <1>1, <1>4, <1>8, KidFacts
<1>10. \A z \in T, s \in Sides : t.kid[s][z] = x => z = p /\ s = SideOf(t, x)
  BY <1>1, <1>2, <1>8, KidFacts
<1>11. v \in T \cup {Sentinel}
  BY <1>0, <1>1, <1>4, <1>8 DEF Shape, Linked
<1>12. v # Sentinel => v # g /\ \A z \in T, s \in Sides : t.kid[s][z] = v => z = g /\ s = Opposite(side)
  <2> SUFFICES ASSUME v # Sentinel
               PROVE  v # g /\ \A z \in T, s \in Sides : t.kid[s][z] = v => z = g /\ s = Opposite(side)
    OBVIOUS
  <2>1. v = t.kid[Opposite(side)][g]
    BY <1>0
  <2> QED
    BY <1>1, <1>4, <1>8, <2>1, KidFacts
<1>13. v # x
  BY <1>0, <1>4, <1>8, <1>10
<1>14. Cardinality(sub[x]) < Cardinality(sub[g])
  <2>1. Cardinality(sub[x]) < Cardinality(sub[p]) /\ Cardinality(sub[p]) < Cardinality(sub[g])
    BY <1>1, <1>2, <1>4, <1>8, SubSizes
  <2>2. Cardinality(sub[x]) \in Nat /\ Cardinality(sub[p]) \in Nat /\ Cardinality(sub[g]) \in Nat
    BY <1>1, <1>2, <1>4, SubSizes
  <2> QED
    BY <2>1, <2>2
<1> QED
  BY <1>0, <1>2, <1>3, <1>4, <1>6, <1>7, <1>8, <1>9, <1>10, <1>11, <1>12, <1>13, <1>14 DEF Above

\* With a red uncle, the two reds in a row move up to the grandparent.
LEMMA InsertRecolours ==
    ASSUME NEW t, NEW T, NEW sub, NEW bh, NEW x, InsertGood(t, T, sub, bh, x),
           NEW p, NEW g, NEW side, NEW v, RedPair(t, x, p, g, side, v), t.color[v] = 1,
           NEW t1, Painted(t1, t, p, 0), NEW t2, Painted(t2, t1, v, 0), NEW u, Painted(u, t2, g, 1)
    PROVE  \E new : InsertGood(u, T, sub, new, g)
<1> DEFINE o == Opposite(side)
<1>1. /\ Shape(t, T, sub) /\ Ordered(t, T, sub) /\ x \in T /\ t.color[x] = 1
      /\ (t.color[t.root] = 1 => x = t.root) /\ t.color[Sentinel] = 0
      /\ \A z \in T, s \in Sides : t.color[z] = 1 /\ t.color[t.kid[s][z]] = 1 => t.kid[s][z] = x
      /\ bh \in [Nodes -> Nat] /\ bh[Sentinel] = 0
  BY DEF InsertGood, Reds, Even
<1>a. \A z \in T, s \in Sides : bh[z] = bh[t.kid[s][z]] + (1 - t.color[z])
  BY InsertEven
<1>b. Above(t, T, sub, x, p, g, side, v)
  BY InsertAbove
<1>2. /\ p \in T /\ g \in T /\ p # t.root /\ side \in Sides /\ t.kid[side][g] = p
      /\ x # p /\ g # p /\ x # g /\ t.color[g] = 0 /\ t.color[p] = 1 /\ o \in Sides
      /\ v \in T \cup {Sentinel} /\ v \notin {x, p, g} /\ t.kid[o][g] = v /\ x # t.root
  BY <1>b DEF Above, RedPair
<1>3. /\ \A z \in T, s \in Sides : t.kid[s][z] = p => z = g /\ s = side
      /\ \A z \in T, s \in Sides : t.kid[s][z] = v /\ v # Sentinel => z = g /\ s = o
      /\ \A z \in T, s \in Sides : t.kid[s][z] = x => z = p
  BY <1>b DEF Above
<1>4. v \in T /\ v # Sentinel /\ T \subseteq Nodes /\ Sentinel \in Nodes /\ Sentinel \notin T
  BY <1>1, <1>2, EventNodes DEF Shape, Nodes
<1>5. \A s \in Sides : s = side \/ s = o
  BY <1>2, SideFacts
<1> HIDE DEF o
<1>9. Shape(u, T, sub) /\ Ordered(u, T, sub)
  <2>1. Shape(t1, T, sub) /\ Ordered(t1, T, sub)
    BY <1>1, PaintShape
  <2>2. Shape(t2, T, sub) /\ Ordered(t2, T, sub)
    BY <2>1, PaintShape
  <2> QED
    BY <2>2, PaintShape
<1>10. u.root = t.root /\ u.kid = t.kid
  BY DEF Painted
<1>11. /\ u.color[p] = 0 /\ u.color[v] = 0 /\ u.color[g] = 1
       /\ \A z \in Nodes \ {p, v, g} : u.color[z] = t.color[z]
  BY <1>2, <1>4 DEF Painted
<1> DEFINE new == [z \in Nodes |-> IF z \in {p, v} THEN bh[z] + 1 ELSE bh[z]]
<1>12. /\ new \in [Nodes -> Nat] /\ new[Sentinel] = 0
       /\ new[p] = bh[p] + 1 /\ new[v] = bh[v] + 1
       /\ \A z \in Nodes \ {p, v} : new[z] = bh[z]
  BY <1>1, <1>2, <1>4
<1> HIDE DEF new
<1>13. ASSUME NEW z \in T, NEW s \in Sides
       PROVE  new[z] = new[t.kid[s][z]] + (1 - u.color[z])
  <2>0. t.kid[s][z] \in Nodes /\ bh[z] = bh[t.kid[s][z]] + (1 - t.color[z])
    BY <1>1, <1>a, <1>4 DEF Shape, Linked
  <2>a. bh[t.kid[s][z]] \in Nat /\ bh[z] \in Nat
    BY <1>1, <1>4, <2>0
  <2>1. CASE z = g
    <3>1. t.kid[s][z] = p \/ t.kid[s][z] = v
      BY <1>2, <1>5, <2>1
    <3>2. new[t.kid[s][z]] = bh[t.kid[s][z]] + 1
      BY <1>12, <3>1
    <3>3. new[z] = bh[z]
      BY <1>2, <1>4, <1>12, <2>1
    <3> QED
      BY <1>2, <1>11, <2>0, <2>a, <2>1, <3>2, <3>3
  <2>2. CASE z \in {p, v}
    <3>1. t.kid[s][z] \notin {p, v}
      BY <1>2, <1>3, <1>4, <2>2
    <3>2. new[t.kid[s][z]] = bh[t.kid[s][z]] /\ new[z] = bh[z] + 1
      BY <1>12, <2>0, <2>2, <3>1
    <3>3. t.color[z] = 1 /\ u.color[z] = 0
      BY <1>2, <1>11, <2>2
    <3> QED
      BY <2>0, <2>a, <3>2, <3>3
  <2>3. CASE z \notin {p, v, g}
    <3>1. t.kid[s][z] \notin {p, v}
      BY <1>3, <1>4, <2>3
    <3>2. new[t.kid[s][z]] = bh[t.kid[s][z]] /\ new[z] = bh[z]
      BY <1>4, <1>12, <2>0, <2>3, <3>1
    <3>3. t.color[z] = u.color[z]
      BY <1>4, <1>11, <2>3
    <3> QED
      BY <2>0, <3>2, <3>3
  <2> QED
    BY <2>1, <2>2, <2>3
<1>14. Even(u, T, new, u.root)
  BY <1>9, <1>10, <1>12, <1>13, EvenOf, ShapeNodes
<1>15. Reds(u, T, {}, {g})
  <2>1. u.color[Sentinel] = 0
    BY <1>1, <1>2, <1>4, <1>11
  <2>2. ASSUME NEW z \in T, NEW s \in Sides, u.color[z] = 1, u.color[t.kid[s][z]] = 1
        PROVE  t.kid[s][z] = g
    <3>0. t.kid[s][z] \in Nodes
      BY <1>1, <1>4 DEF Shape, Linked
    <3>1. CASE z = g
      <4>1. t.kid[s][z] = p \/ t.kid[s][z] = v
        BY <1>2, <1>5, <3>1
      <4> QED
        BY <1>11, <2>2, <4>1
    <3>2. CASE z \in {p, v}
      BY <1>11, <2>2, <3>2
    <3>3. CASE z \notin {p, v, g} /\ t.kid[s][z] # g
      <4>1. t.color[z] = 1 /\ t.kid[s][z] \notin {p, v}
        BY <1>4, <1>11, <2>2, <3>3
      <4>2. t.color[t.kid[s][z]] = 1
        BY <1>11, <2>2, <3>0, <3>3, <4>1
      <4>3. t.kid[s][z] = x
        BY <1>1, <4>1, <4>2
      <4> QED
        BY <1>3, <3>3, <4>3
    <3> QED
      BY <3>1, <3>2, <3>3
  <2> QED
    BY <1>10, <2>1, <2>2 DEF Reds
<1>16. u.color[u.root] = 1 => g = u.root
  <2>1. t.root \in Nodes
    BY <1>1 DEF Shape, Trees
  <2> QED
    BY <1>1, <1>2, <1>10, <1>11, <2>1
<1>17. InsertGood(u, T, sub, new, g)
  BY <1>2, <1>9, <1>11, <1>14, <1>15, <1>16 DEF InsertGood
<1> QED
  BY <1>17

\* A rotation as the loops use it: what moves, and that the rest stays.
Turned(u, t, T, side, x, y) ==
    /\ u \in Trees /\ u.color = t.color /\ u.key = t.key
    /\ u.root = IF x = t.root THEN y ELSE t.root
    /\ u.parent[x] = y /\ u.parent[y] = t.parent[x]
    /\ \A z \in T : z \notin {x, y} /\ z # t.kid[side][y] => u.parent[z] = t.parent[z]
    /\ u.parent[Sentinel] = t.parent[Sentinel]
    /\ u.kid[side][x] = t.kid[side][x] /\ u.kid[Opposite(side)][x] = t.kid[side][y]
    /\ u.kid[side][y] = x /\ u.kid[Opposite(side)][y] = t.kid[Opposite(side)][y]
    /\ t.kid[side][x] \notin {x, y} /\ t.kid[side][y] \notin {x, y}
    /\ t.kid[Opposite(side)][y] \notin {x, y} /\ x # y
    /\ \A z \in T \ {x, y}, s \in Sides :
         /\ t.kid[s][z] # y /\ u.kid[s][z] # x
         /\ u.kid[s][z] = IF t.kid[s][z] = x THEN y ELSE t.kid[s][z]
\* A rotation does that and keeps the tree an ordered tree.
LEMMA RotateTurns ==
    ASSUME NEW t, NEW T, NEW sub, Shape(t, T, sub), NEW side \in Sides, NEW x \in T,
           NEW y \in T, y = t.kid[Opposite(side)][x], NEW u, u = rotate(t, side, x)
    PROVE  /\ Turned(u, t, T, side, x, y)
           /\ Shape(u, T, RotatedSub(t, sub, side, x, y))
           /\ Ordered(t, T, sub) => Ordered(u, T, RotatedSub(t, sub, side, x, y))
<1>1. x # y /\ Rotated(u, t, side, x, y)
  BY Around
<1>2. /\ u.kid[side][x] = t.kid[side][x] /\ u.kid[Opposite(side)][x] = t.kid[side][y]
      /\ u.kid[side][y] = x /\ u.kid[Opposite(side)][y] = t.kid[Opposite(side)][y]
      /\ t.kid[side][x] \notin {x, y} /\ t.kid[side][y] \notin {x, y}
      /\ t.kid[Opposite(side)][y] \notin {x, y}
      /\ \A z \in T \ {x, y}, s \in Sides :
           /\ t.kid[s][z] # y /\ u.kid[s][z] # x
           /\ u.kid[s][z] = IF t.kid[s][z] = x THEN y ELSE t.kid[s][z]
  BY RotateKids
<1>3. T \subseteq Nodes /\ Sentinel \in Nodes /\ Sentinel \notin T
  BY ShapeNodes
<1>4. /\ u \in Trees /\ u.color = t.color /\ u.key = t.key
      /\ u.root = IF x = t.root THEN y ELSE t.root
      /\ u.parent[x] = y /\ u.parent[y] = t.parent[x]
      /\ \A z \in T : z \notin {x, y} /\ z # t.kid[side][y] => u.parent[z] = t.parent[z]
      /\ u.parent[Sentinel] = t.parent[Sentinel]
  BY <1>1, <1>3 DEF Rotated
<1>5. Turned(u, t, T, side, x, y)
  BY <1>1, <1>2, <1>4 DEF Turned
<1>6. Shape(u, T, RotatedSub(t, sub, side, x, y))
  BY RotateShape
<1>7. Ordered(t, T, sub) => Ordered(u, T, RotatedSub(t, sub, side, x, y))
  BY RotateOrdered
<1> QED
  BY <1>5, <1>6, <1>7

\* A red node on the inner side changes places with its parent first.
LEMMA InsertInner ==
    ASSUME NEW t, NEW T, NEW sub, NEW bh, NEW x, InsertGood(t, T, sub, bh, x),
           NEW p, NEW g, NEW side, NEW v, RedPair(t, x, p, g, side, v),
           x = t.kid[Opposite(side)][p], NEW u, u = rotate(t, side, p)
    PROVE  /\ \E new : InsertGood(u, T, new, bh, p)
           /\ RedPair(u, p, x, g, side, v) /\ p = u.kid[side][x] /\ u.color = t.color
<1> DEFINE o == Opposite(side)
           new == RotatedSub(t, sub, side, p, x)
<1>1. /\ Shape(t, T, sub) /\ Ordered(t, T, sub) /\ x \in T /\ t.color[x] = 1
      /\ (t.color[t.root] = 1 => x = t.root) /\ t.color[Sentinel] = 0
      /\ \A z \in T, s \in Sides : t.color[z] = 1 /\ t.color[t.kid[s][z]] = 1 => t.kid[s][z] = x
      /\ bh \in [Nodes -> Nat] /\ bh[Sentinel] = 0
  BY DEF InsertGood, Reds, Even
<1>a. \A z \in T, s \in Sides : bh[z] = bh[t.kid[s][z]] + (1 - t.color[z])
  BY InsertEven
<1>b. Above(t, T, sub, x, p, g, side, v)
  BY InsertAbove
<1>2. /\ p \in T /\ g \in T /\ p # t.root /\ side \in Sides /\ t.kid[side][g] = p /\ t.parent[p] = g
      /\ x # p /\ g # p /\ x # g /\ t.color[g] = 0 /\ t.color[p] = 1 /\ o \in Sides
      /\ t.kid[o][g] = v /\ x # t.root /\ v # p
      /\ \A z \in T, s \in Sides : t.kid[s][z] = p => z = g /\ s = side
      /\ \A z \in T, s \in Sides : t.kid[s][z] = x => z = p
  BY <1>b DEF Above, RedPair
<1>3. Turned(u, t, T, side, p, x) /\ Shape(u, T, new) /\ Ordered(u, T, new)
  BY <1>1, <1>2, RotateTurns
<1> HIDE DEF new
<1>4. /\ u.color = t.color /\ u.root = t.root /\ u.parent[p] = x /\ u.parent[x] = g
      /\ u.kid[side][p] = t.kid[side][p] /\ u.kid[o][p] = t.kid[side][x]
      /\ u.kid[side][x] = p /\ u.kid[o][x] = t.kid[o][x]
      /\ t.kid[side][p] \notin {p, x} /\ t.kid[side][x] \notin {p, x}
      /\ t.kid[o][x] \notin {p, x}
      /\ \A z \in T \ {p, x}, s \in Sides : u.kid[s][z] = IF t.kid[s][z] = p THEN x ELSE t.kid[s][z]
  BY <1>2, <1>3 DEF Turned
<1>5. \A s \in Sides : s = side \/ s = o
  BY <1>2, SideFacts
<1> HIDE DEF o
<1>6. u.kid[o][g] = v /\ u.kid[side][g] = x
  BY <1>2, <1>4
<1>7. SideOf(u, x) = side /\ x # Sentinel
  BY <1>1, <1>2, <1>3, <1>6, KidFacts, EventNodes DEF Shape
<1>8. RedPair(u, p, x, g, side, v)
  BY <1>1, <1>2, <1>4, <1>6, <1>7 DEF RedPair, o
<1>9. Even(u, T, bh, u.root)
  <2>1. bh[p] = bh[x]
    <3>1. bh[p] = bh[t.kid[o][p]] + (1 - t.color[p])
      BY <1>a, <1>2
    <3>2. t.kid[o][p] = x /\ bh[x] \in Nat
      BY <1>1, ShapeNodes DEF o
    <3> QED
      BY <1>2, <3>1, <3>2
  <2>2. ASSUME NEW z \in T, NEW s \in Sides PROVE bh[z] = bh[u.kid[s][z]] + (1 - u.color[z])
    <3>1. CASE z \in {p, x}
      <4>1. /\ bh[p] = bh[t.kid[side][p]] + (1 - t.color[p]) /\ bh[x] = bh[t.kid[side][x]] + (1 - t.color[x])
            /\ bh[x] = bh[t.kid[o][x]] + (1 - t.color[x])
        BY <1>a, <1>1, <1>2
      <4>2. t.color[p] = 1 /\ t.color[x] = 1 /\ bh[p] \in Nat /\ bh[x] \in Nat
        BY <1>1, <1>2, ShapeNodes
      <4>3. CASE z = p
        BY <1>4, <1>5, <2>1, <4>1, <4>2, <4>3
      <4>4. CASE z = x /\ s = side
        BY <1>4, <2>1, <4>2, <4>4
      <4>5. CASE z = x /\ s = o
        BY <1>4, <4>1, <4>5
      <4> QED
        BY <1>5, <3>1, <4>3, <4>4, <4>5
    <3>2. CASE z \notin {p, x}
      <4>1. bh[u.kid[s][z]] = bh[t.kid[s][z]]
        BY <1>4, <2>1, <3>2
      <4> QED
        BY <1>a, <1>4, <4>1
    <3> QED
      BY <3>1, <3>2
  <2> QED
    BY <1>1, <1>3, <2>2, EvenOf, ShapeNodes
<1>10. Reds(u, T, {}, {p})
  <2>1. ASSUME NEW z \in T, NEW s \in Sides, u.color[z] = 1, u.color[u.kid[s][z]] = 1
        PROVE  u.kid[s][z] = p
    <3>1. CASE z = p
      <4>1. u.kid[s][z] = t.kid[side][p] \/ u.kid[s][z] = t.kid[side][x]
        BY <1>4, <1>5, <3>1
      <4> QED
        BY <1>1, <1>2, <1>4, <2>1, <3>1, <4>1
    <3>2. CASE z = x
      <4>1. u.kid[s][z] = p \/ u.kid[s][z] = t.kid[o][x]
        BY <1>4, <1>5, <3>2
      <4> QED
        BY <1>1, <1>2, <1>4, <2>1, <3>2, <4>1
    <3>3. CASE z \notin {p, x}
      <4>1. z # g
        BY <1>2, <1>4, <2>1
      <4>2. t.kid[s][z] # p /\ t.kid[s][z] # x
        BY <1>2, <3>3, <4>1
      <4>3. u.kid[s][z] = t.kid[s][z]
        BY <1>4, <3>3, <4>2
      <4> QED
        BY <1>1, <1>4, <2>1, <4>2, <4>3
    <3> QED
      BY <3>1, <3>2, <3>3
  <2> QED
    BY <1>1, <1>4, <2>1 DEF Reds
<1>11. InsertGood(u, T, new, bh, p)
  BY <1>1, <1>2, <1>3, <1>4, <1>9, <1>10 DEF InsertGood
<1> QED
  BY <1>4, <1>8, <1>11

\* A red node on the outer side: its parent goes up, black, and the loop is over.
LEMMA InsertOuter ==
    ASSUME NEW t, NEW T, NEW sub, NEW bh, NEW x, InsertGood(t, T, sub, bh, x),
           NEW p, NEW g, NEW side, NEW v, RedPair(t, x, p, g, side, v), t.color[v] = 0,
           x = t.kid[side][p],
           NEW t1, Painted(t1, t, p, 0), NEW t2, Painted(t2, t1, g, 1),
           NEW u, u = rotate(t2, Opposite(side), g)
    PROVE  /\ \E s2, b2 : InsertGood(u, T, s2, b2, x)
           /\ u.color[u.parent[x]] = 0
<1> DEFINE o == Opposite(side)
           b == t.kid[o][p]
           new == RotatedSub(t2, sub, o, g, p)
<1>1. /\ Shape(t, T, sub) /\ Ordered(t, T, sub) /\ x \in T /\ t.color[x] = 1
      /\ (t.color[t.root] = 1 => x = t.root) /\ t.color[Sentinel] = 0
      /\ \A z \in T, s \in Sides : t.color[z] = 1 /\ t.color[t.kid[s][z]] = 1 => t.kid[s][z] = x
      /\ bh \in [Nodes -> Nat] /\ bh[Sentinel] = 0
  BY DEF InsertGood, Reds, Even
<1>a. \A z \in T, s \in Sides : bh[z] = bh[t.kid[s][z]] + (1 - t.color[z])
  BY InsertEven
<1>b. Above(t, T, sub, x, p, g, side, v)
  BY InsertAbove
<1>2. /\ p \in T /\ g \in T /\ p # t.root /\ side \in Sides /\ t.kid[side][g] = p /\ t.parent[p] = g
      /\ x # p /\ g # p /\ x # g /\ t.color[g] = 0 /\ t.color[p] = 1 /\ o \in Sides
      /\ t.kid[o][g] = v /\ x # t.root /\ v # p /\ t.parent[x] = p
      /\ \A z \in T, s \in Sides : t.kid[s][z] = p => z = g /\ s = side
      /\ \A z \in T, s \in Sides : t.kid[s][z] = x => z = p
  BY <1>b DEF Above, RedPair
<1>5. /\ \A s \in Sides : s = side \/ s = o
      /\ o # side /\ Opposite(o) = side
  BY <1>2, SideFacts
<1>6. T \subseteq Nodes /\ Sentinel \in Nodes /\ Sentinel \notin T
  BY <1>1, ShapeNodes
<1>7. /\ Shape(t2, T, sub) /\ Ordered(t2, T, sub)
      /\ t2.root = t.root /\ t2.kid = t.kid /\ t2.parent = t.parent
      /\ t2.color[p] = 0 /\ t2.color[g] = 1 /\ \A z \in Nodes \ {p, g} : t2.color[z] = t.color[z]
  <2>1. Shape(t1, T, sub) /\ Ordered(t1, T, sub)
    BY <1>1, PaintShape
  <2>2. Shape(t2, T, sub) /\ Ordered(t2, T, sub)
    BY <2>1, PaintShape
  <2> QED
    BY <1>2, <1>6, <2>2 DEF Painted
<1>8. p = t2.kid[Opposite(o)][g]
  BY <1>2, <1>5, <1>7
<1>3. Turned(u, t2, T, o, g, p) /\ Shape(u, T, new) /\ Ordered(u, T, new)
  BY <1>2, <1>7, <1>8, RotateTurns
<1> HIDE DEF new
<1>4. /\ u.color = t2.color /\ u.root = IF g = t.root THEN p ELSE t.root
      /\ u.kid[o][g] = v /\ u.kid[side][g] = b
      /\ u.kid[o][p] = g /\ u.kid[side][p] = x
      /\ v \notin {p, g} /\ b \notin {p, g} /\ x \notin {p, g}
      /\ \A z \in T \ {p, g}, s \in Sides :
           u.kid[s][z] = IF t.kid[s][z] = g THEN p ELSE t.kid[s][z]
  BY <1>2, <1>3, <1>5, <1>7 DEF Turned
<1>9. u.parent[x] = p
  <2>1. x # b
    BY <1>1, <1>2, <1>5, EventNodes, KidFacts DEF Shape
  <2> QED
    BY <1>1, <1>2, <1>3, <1>7, <2>1 DEF Turned
<1>10. t.color[b] = 0
  <2>1. b # x
    BY <1>1, <1>2, <1>5, EventNodes, KidFacts DEF Shape
  <2>2. b \in Nodes /\ t.color[b] # 1
    BY <1>1, <1>2, <2>1, ShapeNodes
  <2> QED
    BY <1>1, <2>2, ShapeNodes
<1> HIDE DEF o
<1>c. bh[b] \in Nat /\ b \in Nodes /\ v \in Nodes /\ bh[v] \in Nat /\ bh[x] \in Nat /\ bh[p] \in Nat /\ bh[g] \in Nat
  BY <1>1, <1>2, <1>6, ShapeNodes
<1> HIDE DEF b
<1> DEFINE nb == [z \in Nodes |-> IF z = p THEN bh[g] ELSE IF z = g THEN bh[p] ELSE bh[z]]
<1>11. /\ nb \in [Nodes -> Nat] /\ nb[Sentinel] = 0 /\ nb[p] = bh[g] /\ nb[g] = bh[p]
       /\ \A z \in Nodes \ {p, g} : nb[z] = bh[z]
  BY <1>1, <1>2, <1>6, <1>c
<1> HIDE DEF nb
<1>12. ASSUME NEW z \in T, NEW s \in Sides PROVE nb[z] = nb[u.kid[s][z]] + (1 - u.color[z])
  <2>1. /\ bh[g] = bh[p] + (1 - t.color[g]) /\ bh[g] = bh[v] + (1 - t.color[g])
        /\ bh[p] = bh[x] + (1 - t.color[p]) /\ bh[p] = bh[b] + (1 - t.color[p])
    BY <1>a, <1>2 DEF b
  <2>2. /\ bh[g] = bh[p] + 1 /\ bh[v] = bh[p] /\ bh[x] = bh[p] /\ bh[b] = bh[p]
    BY <1>2, <1>c, <2>1
  <2>3. nb[v] = bh[v] /\ nb[x] = bh[x] /\ nb[b] = bh[b]
    BY <1>1, <1>4, <1>6, <1>11, <1>c
  <2>4. u.color[p] = 0 /\ u.color[g] = 1
    BY <1>4, <1>7
  <2>5. CASE z = p
    <3>1. nb[u.kid[s][z]] = bh[p]
      BY <1>4, <1>5, <1>11, <2>2, <2>3, <2>5
    <3> QED
      BY <1>11, <1>c, <2>2, <2>4, <2>5, <3>1
  <2>6. CASE z = g
    <3>1. nb[u.kid[s][z]] = bh[p]
      BY <1>4, <1>5, <2>2, <2>3, <2>6
    <3> QED
      BY <1>11, <1>c, <2>4, <2>6, <3>1
  <2>7. CASE z \notin {p, g}
    <3>1. nb[u.kid[s][z]] = bh[t.kid[s][z]]
      <4>1. t.kid[s][z] # p /\ t.kid[s][z] \in Nodes
        BY <1>1, <1>2, <2>7, ShapeNodes
      <4> QED
        BY <1>4, <1>11, <2>7, <4>1
    <3>2. nb[z] = bh[z] /\ u.color[z] = t.color[z]
      BY <1>4, <1>6, <1>7, <1>11, <2>7
    <3> QED
      BY <1>a, <3>1, <3>2
  <2> QED
    BY <2>5, <2>6, <2>7
<1>13. Even(u, T, nb, u.root)
  BY <1>3, <1>11, <1>12, EvenOf, ShapeNodes
<1>14. Reds(u, T, {}, {x})
  <2>1. ASSUME NEW z \in T, NEW s \in Sides, u.color[z] = 1, u.color[u.kid[s][z]] = 1
        PROVE  FALSE
    <3>1. CASE z = p
      BY <1>4, <1>7, <2>1, <3>1
    <3>2. CASE z = g
      <4>1. u.kid[s][z] = v \/ u.kid[s][z] = b
        BY <1>4, <1>5, <3>2
      <4>2. u.color[v] = 0 /\ u.color[b] = 0
        BY <1>4, <1>7, <1>10, <1>c DEF b
      <4> QED
        BY <2>1, <4>1, <4>2
    <3>3. CASE z \notin {p, g}
      <4>1. t.kid[s][z] # p /\ t.kid[s][z] \in Nodes /\ z \in Nodes
        BY <1>1, <1>2, <3>3, ShapeNodes
      <4>2. t.kid[s][z] # g
        BY <1>4, <1>7, <2>1, <3>3
      <4>3. u.kid[s][z] = t.kid[s][z] /\ t.color[z] = 1 /\ t.color[t.kid[s][z]] = 1
        BY <1>4, <1>7, <2>1, <3>3, <4>1, <4>2
      <4> QED
        BY <1>1, <1>2, <3>3, <4>3
    <3> QED
      BY <3>1, <3>2, <3>3
  <2>2. u.color[Sentinel] = 0
    BY <1>1, <1>2, <1>4, <1>6, <1>7
  <2> QED
    BY <2>1, <2>2 DEF Reds
<1>15. u.color[x] = 1 /\ u.color[p] = 0
  BY <1>1, <1>4, <1>6, <1>7
<1>16. u.color[u.root] = 1 => x = u.root
  <2>1. t.root \in Nodes
    BY <1>1 DEF Shape, Trees
  <2> QED
    BY <1>1, <1>2, <1>4, <1>7, <1>15, <2>1
<1>17. InsertGood(u, T, new, nb, x)
  BY <1>1, <1>3, <1>13, <1>14, <1>15, <1>16 DEF InsertGood
<1> QED
  BY <1>9, <1>15, <1>17

-----------------------------------------------------------------------------
(* The loop of night_rbtree_insert *)

\* What is below a node, as the links tell, and how much it is.
Sub(t, T) == CHOOSE sub : Shape(t, T, sub)
Size(s, T) == Cardinality(Sub(s.tree, T)[s.node])
\* The measure of a turn is the number of nodes at and below its node.
LEMMA SizeIs ==
    ASSUME NEW t, NEW T, NEW sub, Shape(t, T, sub), NEW x \in T \cup {Sentinel}
    PROVE  /\ Size([tree |-> t, node |-> x], T) = Cardinality(sub[x])
           /\ Cardinality(sub[x]) \in Nat /\ Cardinality(sub[x]) < Turns
<1>1. Shape(t, T, Sub(t, T))
  BY DEF Sub
<1>2. Sub(t, T)[x] = sub[x]
  BY <1>1, SubUnique
<1>3. CASE x \in T
  BY <1>2, <1>3, SubSizes DEF Size
<1>4. CASE x = Sentinel
  <2>1. sub[x] = {}
    BY <1>4 DEF Shape, Nested
  <2>2. Cardinality(sub[x]) = 0
    BY <2>1, FS_EmptySet
  <2>3. Turns \in Nat /\ Turns > 0
    BY TurnsNat, FS_CardinalityType, TimersAssumption
  <2> QED
    BY <1>2, <2>2, <2>3 DEF Size
<1> QED
  BY <1>3, <1>4

\* The states of the loop, those it may meet, and those in which it ends.
States == [tree : Trees, node : Nodes]
InsertStates(T) == {s \in States : \E sub, bh : InsertGood(s.tree, T, sub, bh, s.node)}
InsertStop == {s \in States : s.node = s.tree.root \/ s.tree.color[s.tree.parent[s.node]] # 1}

\* What a turn does.
LEMMA InsertTurnCases ==
    ASSUME NEW s, NEW t, NEW x, s = [tree |-> t, node |-> x],
           NEW p, NEW g, NEW side, NEW v, RedPair(t, x, p, g, side, v)
    PROVE  /\ t.color[v] = 1 =>
                InsertTurn(s) = [tree |-> Paint(Paint(Paint(t, p, Black), v, Black), g, Red), node |-> g]
           /\ t.color[v] # 1 /\ x # t.kid[Opposite(side)][p] =>
                InsertTurn(s) = [tree |-> rotate(Paint(Paint(t, p, Black), g, Red), Opposite(side), g),
                                 node |-> x]
           /\ t.color[v] # 1 /\ x = t.kid[Opposite(side)][p] =>
                LET t1 == rotate(t, side, p)
                    q == t1.parent[p]
                IN  InsertTurn(s) = [tree |-> rotate(Paint(Paint(t1, q, Black), t1.parent[q], Red),
                                                     Opposite(side), t1.parent[q]),
                                     node |-> p]
<1>1. s.tree = t /\ s.node = x
  OBVIOUS
<1>2. /\ x # t.root /\ p = t.parent[x] /\ t.color[p] = 1 /\ g = t.parent[p] /\ side = SideOf(t, p)
      /\ v = t.kid[Opposite(side)][g]
  BY DEF RedPair
<1>3. CASE t.color[v] = 1
  BY <1>1, <1>2, <1>3, Zenon DEF InsertTurn, IsRed, Red
<1>4. CASE t.color[v] # 1 /\ x # t.kid[Opposite(side)][p]
  BY <1>1, <1>2, <1>4, Zenon DEF InsertTurn, IsRed, Red
<1>5. CASE t.color[v] # 1 /\ x = t.kid[Opposite(side)][p]
  BY <1>1, <1>2, <1>5, Zenon DEF InsertTurn, IsRed, Red
<1> QED
  BY <1>3, <1>4, <1>5

\* A turn of the loop of night_rbtree_insert keeps what it promises, ends where the
\* condition fails, and goes up otherwise.
LEMMA InsertTurnGood ==
    ASSUME NEW T, NEW s \in InsertStates(T)
    PROVE  /\ InsertTurn(s) \in InsertStates(T)
           /\ s \in InsertStop => InsertTurn(s) = s
           /\ Size(s, T) \in Nat /\ Size(s, T) < Turns
           /\ s \notin InsertStop =>
                InsertTurn(s) \in InsertStop \/ Size(s, T) < Size(InsertTurn(s), T)
<1> DEFINE t == s.tree
           x == s.node
           p == t.parent[x]
           g == t.parent[p]
           side == SideOf(t, p)
           v == t.kid[Opposite(side)][g]
<1>1. PICK sub, bh : InsertGood(t, T, sub, bh, x)
  BY DEF InsertStates
<1>2. s = [tree |-> t, node |-> x] /\ t \in Trees /\ x \in Nodes /\ s \in States
  BY DEF InsertStates, States
<1>3. Shape(t, T, sub) /\ x \in T
  BY <1>1 DEF InsertGood
<1>4. Size(s, T) = Cardinality(sub[x]) /\ Size(s, T) \in Nat /\ Size(s, T) < Turns
  BY <1>2, <1>3, SizeIs
<1>5. CASE s \in InsertStop
  <2>1. InsertTurn(s) = s
    BY <1>5, Zenon DEF InsertTurn, InsertStop, IsRed, Red
  <2> QED
    BY <1>4, <1>5, <2>1
<1>6. CASE s \notin InsertStop
  <2>1. RedPair(t, x, p, g, side, v)
    BY <1>2, <1>6 DEF InsertStop, RedPair
  <2> HIDE DEF t, x, p, g, side, v
  <2>2. Above(t, T, sub, x, p, g, side, v)
    BY <1>1, <2>1, InsertAbove
  <2>3. p \in Nodes /\ g \in Nodes /\ g \in T /\ v \in Nodes /\ t.color[v] \in {0, 1} /\ side \in Sides
    BY <1>3, <2>2, ShapeNodes DEF Above
  <2>4. CASE t.color[v] = 1
    <3> DEFINE t1 == Paint(t, p, Black)
               t2 == Paint(t1, v, Black)
               u == Paint(t2, g, Red)
    <3>1. InsertTurn(s) = [tree |-> u, node |-> g]
      BY <1>2, <2>1, <2>4, InsertTurnCases
    <3>2. Painted(t1, t, p, 0)
      BY <1>2, <2>3, PaintWrites DEF Black
    <3> HIDE DEF t1
    <3>3. Painted(t2, t1, v, 0)
      BY <2>3, <3>2, PaintWrites DEF Painted, Black
    <3> HIDE DEF t2
    <3>4. Painted(u, t2, g, 1)
      BY <2>3, <3>3, PaintWrites DEF Painted, Red
    <3> HIDE DEF u
    <3>5. PICK new : InsertGood(u, T, sub, new, g)
      BY <1>1, <2>1, <2>4, <3>2, <3>3, <3>4, InsertRecolours
    <3>6. InsertTurn(s) \in InsertStates(T)
      BY <2>3, <3>1, <3>4, <3>5 DEF InsertStates, States, Painted
    <3>7. Shape(u, T, sub)
      BY <3>5 DEF InsertGood
    <3>8. Size(InsertTurn(s), T) = Cardinality(sub[g])
      BY <2>3, <3>1, <3>7, SizeIs
    <3>9. Cardinality(sub[x]) < Cardinality(sub[g])
      BY <2>2 DEF Above
    <3> QED
      BY <1>4, <1>6, <3>6, <3>8, <3>9
  <2>5. CASE t.color[v] # 1 /\ x # t.kid[Opposite(side)][p]
    <3> DEFINE t1 == Paint(t, p, Black)
               t2 == Paint(t1, g, Red)
               u == rotate(t2, Opposite(side), g)
    <3>1. InsertTurn(s) = [tree |-> u, node |-> x]
      BY <1>2, <2>1, <2>5, InsertTurnCases
    <3>2. Painted(t1, t, p, 0)
      BY <1>2, <2>3, PaintWrites DEF Black
    <3> HIDE DEF t1
    <3>3. Painted(t2, t1, g, 1)
      BY <2>3, <3>2, PaintWrites DEF Painted, Red
    <3> HIDE DEF t2
    <3>4. x = t.kid[side][p] /\ t.color[v] = 0
      <4>1. SideOf(t, x) = side \/ SideOf(t, x) = Opposite(side)
        BY <2>2, SideFacts DEF Above
      <4> QED
        BY <2>2, <2>3, <2>5, <4>1 DEF Above
    <3>5. (\E s2, b2 : InsertGood(u, T, s2, b2, x)) /\ u.color[u.parent[x]] = 0
      BY <1>1, <2>1, <3>2, <3>3, <3>4, InsertOuter
    <3> HIDE DEF u
    <3>6. u \in Trees
      BY <3>5 DEF InsertGood, Shape
    <3>7. InsertTurn(s) \in InsertStates(T) /\ InsertTurn(s) \in InsertStop
      BY <1>2, <3>1, <3>5, <3>6 DEF InsertStates, InsertStop, States
    <3> QED
      BY <1>4, <1>6, <3>7
  <2>6. CASE t.color[v] # 1 /\ x = t.kid[Opposite(side)][p]
    <3> DEFINE t0 == rotate(t, side, p)
    <3>0. /\ (\E new : InsertGood(t0, T, new, bh, p))
          /\ RedPair(t0, p, x, g, side, v) /\ p = t0.kid[side][x] /\ t0.color = t.color
      BY <1>1, <2>1, <2>6, InsertInner
    <3>a. t0.parent[p] = x /\ t0.parent[x] = g
      BY <3>0 DEF RedPair
    <3>b. InsertTurn(s) = [tree |-> rotate(Paint(Paint(t0, t0.parent[p], Black), t0.parent[t0.parent[p]], Red),
                                           Opposite(side), t0.parent[t0.parent[p]]),
                           node |-> p]
      BY <1>2, <2>1, <2>6, InsertTurnCases
    <3> HIDE DEF t0
    <3>c. InsertTurn(s) = [tree |-> rotate(Paint(Paint(t0, x, Black), g, Red), Opposite(side), g),
                           node |-> p]
      BY <3>a, <3>b
    <3>d. PICK new : InsertGood(t0, T, new, bh, p)
      BY <3>0
    <3>e. t0 \in Trees
      BY <3>d DEF InsertGood, Shape
    <3> DEFINE t1 == Paint(t0, x, Black)
               t2 == Paint(t1, g, Red)
               u == rotate(t2, Opposite(side), g)
    <3>1. InsertTurn(s) = [tree |-> u, node |-> p]
      BY <3>c
    <3>2. Painted(t1, t0, x, 0)
      BY <1>2, <3>e, PaintWrites DEF Black
    <3> HIDE DEF t1
    <3>3. Painted(t2, t1, g, 1)
      BY <2>3, <3>2, PaintWrites DEF Painted, Red
    <3> HIDE DEF t2
    <3>4. RedPair(t0, p, x, g, side, v) /\ p = t0.kid[side][x] /\ t0.color[v] = 0
      BY <2>3, <2>6, <3>0
    <3>5. (\E s2, b2 : InsertGood(u, T, s2, b2, p)) /\ u.color[u.parent[p]] = 0
      BY <3>4, <3>d, <3>2, <3>3, InsertOuter
    <3> HIDE DEF u
    <3>6. u \in Trees
      BY <3>5 DEF InsertGood, Shape
    <3>7. InsertTurn(s) \in InsertStates(T) /\ InsertTurn(s) \in InsertStop
      BY <2>3, <3>1, <3>5, <3>6 DEF InsertStates, InsertStop, States
    <3> QED
      BY <1>4, <1>6, <3>7
  <2> QED
    BY <2>4, <2>5, <2>6
<1> QED
  BY <1>5, <1>6

\* A red-black tree of the nodes T whose root is black.
Balanced(t, T, sub, bh) ==
    /\ Shape(t, T, sub) /\ Ordered(t, T, sub)
    /\ Even(t, T, bh, t.root) /\ Reds(t, T, {}, {}) /\ t.color[t.root] = 0

\* What the loop of night_rbtree_delete keeps: the tree is a red-black tree but
\* for x, which may be the sentinel: the way down to it is one black short, and
\* it may be red below or above another red.
DeleteGood(t, T, sub, bh, x) ==
    /\ Shape(t, T, sub) /\ Ordered(t, T, sub)
    /\ Even(t, T, bh, x) /\ Reds(t, T, {x}, {x})
    /\ x \in T \cup {Sentinel}
    /\ t.color[t.root] = 1 => x = t.root
    /\ x # t.root => /\ t.parent[x] \in T /\ t.parent[x] # x /\ t.kid[SideOf(t, x)][t.parent[x]] = x
                     /\ SideOf(t, x) \in Sides

\* At the root or at a red node, black paint is all that is missing.
LEMMA PaintMissing ==
    ASSUME NEW t, NEW T, NEW sub, NEW bh, NEW x, DeleteGood(t, T, sub, bh, x),
           x = t.root \/ t.color[x] = 1, NEW u, Painted(u, t, x, 0)
    PROVE  \E new : Balanced(u, T, sub, new)
<1>1. /\ Shape(t, T, sub) /\ Ordered(t, T, sub) /\ Even(t, T, bh, x) /\ Reds(t, T, {x}, {x})
      /\ x \in T \cup {Sentinel} /\ (t.color[t.root] = 1 => x = t.root)
      /\ x # t.root => /\ t.parent[x] \in T /\ t.parent[x] # x /\ t.kid[SideOf(t, x)][t.parent[x]] = x
                       /\ SideOf(t, x) \in Sides
  BY DEF DeleteGood
<1>2. /\ t \in Trees /\ T \subseteq Nodes /\ Sentinel \in Nodes /\ Sentinel \notin T
      /\ \A z \in T, s \in Sides : t.kid[s][z] \in Nodes
      /\ \A z \in Nodes : t.color[z] \in {0, 1}
  BY <1>1, ShapeNodes
<1>3. /\ u \in Trees /\ u.key = t.key /\ u.root = t.root /\ u.parent = t.parent /\ u.kid = t.kid
      /\ \A z \in Nodes : u.color[z] = IF z = x THEN 0 ELSE t.color[z]
  BY DEF Painted
<1>4. Shape(u, T, sub) /\ Ordered(u, T, sub)
  BY <1>1, PaintShape
<1>5. bh \in [Nodes -> Nat] /\ bh[Sentinel] = 0 /\ t.color[Sentinel] = 0
  BY <1>1 DEF Even, Reds
<1>6. /\ \A z \in T, s \in Sides :
          bh[z] = bh[t.kid[s][z]] + (1 - t.color[z]) + Short(t, x, z, s)
      /\ \A z \in T, s \in Sides :
          t.color[z] = 1 /\ t.color[t.kid[s][z]] = 1 => z = x \/ t.kid[s][z] = x
  BY <1>1 DEF Even, Reds
<1>7. Reds(u, T, {}, {})
  BY <1>1, <1>2, <1>3, <1>5, <1>6 DEF Reds
<1>8. t.root \in Nodes /\ x \in Nodes
  BY <1>1, <1>2 DEF Trees
<1>9. u.color[u.root] = 0
  BY <1>1, <1>2, <1>3, <1>8
<1> DEFINE new == [z \in Nodes |-> IF z = x /\ t.color[x] = 1 THEN bh[z] + 1 ELSE bh[z]]
<1>10. new \in [Nodes -> Nat] /\ new[Sentinel] = 0
       /\ \A z \in Nodes : new[z] = IF z = x /\ t.color[x] = 1 THEN bh[z] + 1 ELSE bh[z]
  BY <1>2, <1>5
<1> HIDE DEF new
<1>11. ASSUME NEW z \in T, NEW s \in Sides
       PROVE  new[z] = new[u.kid[s][z]] + (1 - u.color[z])
  <2>1. /\ bh[z] = bh[t.kid[s][z]] + (1 - t.color[z]) + Short(t, x, z, s)
        /\ z \in Nodes /\ t.kid[s][z] \in Nodes
    BY <1>2, <1>6
  <2>2. bh[z] \in Nat /\ bh[t.kid[s][z]] \in Nat
    BY <1>5, <2>1
  <2>3. t.kid[s][z] = x /\ x # Sentinel => x # t.root /\ z # x /\ z = t.parent[x] /\ s = SideOf(t, x)
    BY <1>1, KidFacts
  <2>4. CASE t.kid[s][z] = x /\ t.color[x] = 1
    <3>1. Short(t, x, z, s) = 1 /\ z # x
      BY <1>5, <2>3, <2>4 DEF Short
    <3> QED
      BY <1>2, <1>3, <1>10, <2>1, <2>2, <2>4, <3>1
  <2>5. CASE ~(t.kid[s][z] = x /\ t.color[x] = 1)
    <3>1. Short(t, x, z, s) = 0
      BY <1>1, <2>5 DEF Short
    <3>2. CASE z = x
      <4>1. t.kid[s][z] # x
        BY <2>3, <3>2, <1>2
      <4> QED
        BY <1>2, <1>3, <1>10, <2>1, <2>2, <3>1, <3>2, <4>1
    <3>3. CASE z # x
      BY <1>2, <1>3, <1>10, <2>1, <2>2, <2>5, <3>1, <3>3
    <3> QED
      BY <3>2, <3>3
  <2> QED
    BY <2>4, <2>5
<1>12. Even(u, T, new, u.root)
  BY <1>2, <1>3, <1>10, <1>11, EvenOf
<1> QED
  BY <1>4, <1>7, <1>9, <1>12 DEF Balanced

\* The loop of night_rbtree_insert.
LEMMA InsertRuns ==
    ASSUME NEW S, NEW t, NEW x, [tree |-> t, node |-> x] \in S, NEW G, IsTurn(G, S),
           \A y \in S : G[y] = InsertTurn(y)
    PROVE  \E d : /\ IsRun(d, S, [tree |-> t, node |-> x], G)
                  /\ InsertFixup(t, x) = Paint(d[Turns].tree, d[Turns].tree.root, Black)
<1> DEFINE x0 == [tree |-> t, node |-> x]
           F(f) == [n \in 0..Turns |-> IF n = 0 THEN x0 ELSE InsertTurn(f[n - 1])]
           after == CHOOSE f : f = F(f)
<1>1. InsertFixup(t, x) = Paint(after[Turns].tree, after[Turns].tree.root, Black)
  BY Zenon DEF InsertFixup, Loop
<1> HIDE DEF x0
<1>0. x0 \in S
  BY DEF x0
<1>2. PICK d : IsRun(d, S, x0, G)
  BY <1>0, LoopRuns
<1>3. d = F(d)
  BY <1>2, TurnsNat DEF IsRun
<1>4. after = F(after)
  <2> HIDE DEF F
  <2> QED
    BY <1>3
<1> HIDE DEF after
<1>5. IsAfter(after, S, x0, G)
  <2>1. \E h : after = [n \in 0..Turns |-> h[n]]
    <3>1. after = [n \in 0..Turns |-> after[n]]
      BY <1>4
    <3> QED
      BY <3>1
  <2>2. after[0] = x0 /\ \A n \in 1..Turns : after[n] = InsertTurn(after[n - 1])
    BY <1>4, TurnsNat
  <2> QED
    BY <2>1, <2>2 DEF IsAfter
<1>6. IsRun(after, S, x0, G)
  BY <1>0, <1>5, AfterRuns
<1> QED
  BY <1>1, <1>6 DEF x0

\* Once its loop is over, night_rbtree_insert leaves a red-black tree.
LEMMA InsertFixupGood ==
    ASSUME NEW t, NEW T, NEW sub, NEW bh, NEW x, InsertGood(t, T, sub, bh, x)
    PROVE  \E sub2, bh2 : Balanced(InsertFixup(t, x), T, sub2, bh2)
<1> DEFINE S == InsertStates(T)
           G == [s \in S |-> InsertTurn(s)]
           m == [s \in S |-> Size(s, T)]
           s0 == [tree |-> t, node |-> x]
<1>1. s0 \in S
  <2>1. t \in Trees /\ x \in Nodes
    BY EventNodes DEF InsertGood, Shape
  <2> QED
    BY <2>1 DEF InsertStates, States
<1>2. \A s \in S : /\ InsertTurn(s) \in S /\ (s \in InsertStop => InsertTurn(s) = s)
                   /\ Size(s, T) \in Nat /\ Size(s, T) < Turns
                   /\ s \notin InsertStop =>
                        InsertTurn(s) \in InsertStop \/ Size(s, T) < Size(InsertTurn(s), T)
  BY InsertTurnGood
<1> HIDE DEF S
<1>3. IsTurn(G, S) /\ \A s \in S : G[s] = InsertTurn(s)
  BY <1>2 DEF IsTurn
<1>4. m \in [S -> Nat] /\ \A s \in S : m[s] = Size(s, T)
  BY <1>2
<1> HIDE DEF G, m, s0
<1>5. Progress(S, G, m, InsertStop)
  BY <1>2, <1>3, <1>4 DEF Progress
<1>6. PICK d : IsRun(d, S, s0, G) /\ InsertFixup(t, x) = Paint(d[Turns].tree, d[Turns].tree.root, Black)
  BY <1>1, <1>3, InsertRuns DEF s0
<1>7. d[Turns] \in S /\ d[Turns] \in InsertStop
  BY <1>1, <1>3, <1>5, <1>6, LoopStops
<1> DEFINE w == d[Turns].tree
           y == d[Turns].node
<1>8. w \in Trees /\ y \in Nodes /\ \E s2, b2 : InsertGood(w, T, s2, b2, y)
  BY <1>7 DEF S, InsertStates, States
<1>9. y = w.root \/ w.color[w.parent[y]] # 1
  BY <1>7 DEF InsertStop
<1>10. InsertFixup(t, x) = Paint(w, w.root, Black)
  BY <1>6
<1> HIDE DEF w, y
<1>11. PICK s2, b2 : InsertGood(w, T, s2, b2, y)
  BY <1>8
<1>12. /\ Shape(w, T, s2) /\ Ordered(w, T, s2) /\ Even(w, T, b2, w.root) /\ Reds(w, T, {}, {y})
       /\ y \in T /\ w.color[y] = 1
  BY <1>11 DEF InsertGood
<1>13. w.root \in T \cup {Sentinel} /\ y # Sentinel
  BY <1>12, EventNodes DEF Shape, Linked
<1>14. Reds(w, T, {w.root}, {w.root})
  <2> SUFFICES ASSUME NEW z \in T, NEW s \in Sides, w.color[z] = 1, w.color[w.kid[s][z]] = 1
               PROVE  FALSE
    BY <1>12 DEF Reds
  <2>1. w.kid[s][z] = y
    BY <1>12 DEF Reds
  <2>2. w.parent[y] = z /\ y # w.root
    BY <1>12, <1>13, <2>1, KidFacts
  <2> QED
    BY <1>9, <2>2
<1>15. DeleteGood(w, T, s2, b2, w.root)
  BY <1>12, <1>13, <1>14 DEF DeleteGood
<1>16. Painted(Paint(w, w.root, Black), w, w.root, 0)
  <2>1. w.root \in Nodes
    BY <1>8 DEF Trees
  <2> QED
    BY <1>8, <2>1, PaintWrites DEF Black
<1> QED
  BY <1>10, <1>15, <1>16, PaintMissing

-----------------------------------------------------------------------------
(* The descent of night_rbtree_insert_timer_value *)

\* Every node above y has y on the side where x belongs.
OnWay(t, T, sub, x, y) ==
    \A z \in T, s \in Sides : y \in sub[t.kid[s][z]] => SideFor(t, z, x) = s

\* The loop goes down to a node that has no child where x belongs.
LEMMA DownRuns ==
    ASSUME NEW S, NEW t, NEW x, NEW y0 \in S, NEW G, IsTurn(G, S), \A y \in S : G[y] = Down(t, y, x)
    PROVE  \E d : /\ IsRun(d, S, y0, G)
                  /\ insert_timer_value(t, y0, x) =
                       Paint(Adopt(t, SideFor(t, d[Turns], x), d[Turns], x), x, Red)
<1> DEFINE F(f) == [n \in 0..Turns |-> IF n = 0 THEN y0 ELSE Down(t, f[n - 1], x)]
           after == CHOOSE f : f = F(f)
<1>1. insert_timer_value(t, y0, x) =
        Paint(Adopt(t, SideFor(t, after[Turns], x), after[Turns], x), x, Red)
  BY Zenon DEF insert_timer_value, Loop
<1>2. PICK d : IsRun(d, S, y0, G)
  BY LoopRuns
<1>3. d = F(d)
  BY <1>2, TurnsNat DEF IsRun
<1>4. after = F(after)
  <2> HIDE DEF F
  <2> QED
    BY <1>3
<1> HIDE DEF after
<1>5. IsAfter(after, S, y0, G)
  <2>1. \E h : after = [n \in 0..Turns |-> h[n]]
    <3>1. after = [n \in 0..Turns |-> after[n]]
      BY <1>4
    <3> QED
      BY <3>1
  <2>2. after[0] = y0 /\ \A n \in 1..Turns : after[n] = Down(t, after[n - 1], x)
    BY <1>4, TurnsNat
  <2> QED
    BY <2>1, <2>2 DEF IsAfter
<1>6. IsRun(after, S, y0, G)
  BY <1>5, AfterRuns
<1> QED
  BY <1>1, <1>6

\* A side is left or right.
LEMMA SideForSide == \A t, y, x : SideFor(t, y, x) \in Sides
BY DEF SideFor, Sides

\* Where the descent ends.
LEMMA DescentEnds ==
    ASSUME NEW t, NEW T, NEW sub, Shape(t, T, sub), T # {}, NEW x
    PROVE  \E last \in T : /\ OnWay(t, T, sub, x, last) /\ t.kid[SideFor(t, last, x)][last] = Sentinel
                           /\ insert_timer_value(t, t.root, x) =
                                Paint(Adopt(t, SideFor(t, last, x), last, x), x, Red)
<1> DEFINE S == {y \in T : OnWay(t, T, sub, x, y)}
           G == [y \in S |-> Down(t, y, x)]
           m == [y \in S |-> Turns - Cardinality(sub[y])]
           Stop == {y \in T : t.kid[SideFor(t, y, x)][y] = Sentinel}
<1>a. t.root \in T
  BY DEF Shape, Linked, Nested
<1>1. t.root \in S
  <2> SUFFICES ASSUME NEW z \in T, NEW s \in Sides, t.root \in sub[t.kid[s][z]] PROVE FALSE
    BY <1>a DEF OnWay
  <2> DEFINE k == t.kid[s][z]
  <2>1. k # Sentinel
    BY DEF Shape, Nested
  <2>2. k \in T /\ k # t.root
    BY <2>1, KidFacts
  <2> QED
    BY <2>2, SubNested
<1>2. ASSUME NEW y \in S
      PROVE  /\ Down(t, y, x) \in S
             /\ y \in Stop => Down(t, y, x) = y
             /\ y \notin Stop => Cardinality(sub[Down(t, y, x)]) < Cardinality(sub[y])
  <2> DEFINE r == SideFor(t, y, x)
             k == t.kid[r][y]
  <2>1. CASE k = Sentinel
    BY <2>1 DEF Down
  <2>2. CASE k # Sentinel
    <3>1. Down(t, y, x) = k /\ y \in T /\ r \in Sides
      BY <2>2, SideForSide DEF Down
    <3>2. OnWay(t, T, sub, x, y) /\ SideFor(t, y, x) = r
      OBVIOUS
    <3> HIDE DEF r
    <3>3. k \in T /\ t.parent[k] = y /\ \A z \in T, s \in Sides : t.kid[s][z] = k => z = y /\ s = r
      BY <2>2, <3>1, KidFacts
    <3>4. Cardinality(sub[k]) < Cardinality(sub[y])
      BY <2>2, <3>1, SubSizes
    <3>5. ASSUME NEW z \in T, NEW s \in Sides, k \in sub[t.kid[s][z]]
          PROVE  SideFor(t, z, x) = s
      <4>1. CASE t.kid[s][z] = k
        BY <3>2, <3>3, <4>1
      <4>2. CASE t.kid[s][z] # k
        <5>1. t.kid[s][z] # Sentinel
          BY <3>5 DEF Shape, Nested
        <5>2. t.kid[s][z] \in T
          BY <5>1, KidFacts
        <5>3. t.parent[k] \in sub[t.kid[s][z]]
          BY <3>5, <4>2, <5>2, SubNested
        <5> QED
          BY <3>2, <3>3, <5>3 DEF OnWay
      <4> QED
        BY <4>1, <4>2
    <3>6. k \in S
      BY <3>3, <3>5 DEF OnWay
    <3> QED
      BY <2>2, <3>1, <3>4, <3>6 DEF r
  <2> QED
    BY <2>1, <2>2
<1>3. \A y \in S : Cardinality(sub[y]) \in Nat /\ Cardinality(sub[y]) < Turns /\ Cardinality(sub[y]) > 0
  BY SubSizes
<1>s. S \subseteq T
  OBVIOUS
<1> HIDE DEF S
<1>4. IsTurn(G, S) /\ \A y \in S : G[y] = Down(t, y, x)
  BY <1>2 DEF IsTurn
<1>5. m \in [S -> Nat] /\ \A y \in S : m[y] = Turns - Cardinality(sub[y])
  BY <1>3, TurnsNat
<1>t. Turns \in Nat
  BY TurnsNat
<1> HIDE DEF G, m, Stop
<1>6. ASSUME NEW y \in S \ Stop PROVE m[y] < Turns /\ m[y] < m[G[y]]
  <2>1. G[y] \in S /\ Cardinality(sub[G[y]]) < Cardinality(sub[y])
    BY <1>2, <1>4
  <2>2. m[y] = Turns - Cardinality(sub[y]) /\ m[G[y]] = Turns - Cardinality(sub[G[y]])
    BY <1>5, <2>1
  <2>3. /\ Cardinality(sub[y]) \in Nat /\ Cardinality(sub[y]) > 0
        /\ Cardinality(sub[G[y]]) \in Nat
    BY <1>3, <2>1
  <2> QED
    BY <1>t, <2>1, <2>2, <2>3
<1>7. Progress(S, G, m, Stop)
  BY <1>2, <1>4, <1>5, <1>6 DEF Progress
<1>8. PICK d : /\ IsRun(d, S, t.root, G)
               /\ insert_timer_value(t, t.root, x) =
                    Paint(Adopt(t, SideFor(t, d[Turns], x), d[Turns], x), x, Red)
  BY <1>1, <1>4, DownRuns
<1>9. d[Turns] \in S /\ d[Turns] \in Stop
  BY <1>1, <1>4, <1>7, <1>8, LoopStops
<1> QED
  BY <1>8, <1>9 DEF S, Stop

\* u is t with x, red, hung to last.
Leafed(u, t, r, last, x) ==
    /\ u \in Trees /\ u.key = t.key /\ u.root = t.root
    /\ \A z \in Nodes : u.color[z] = IF z = x THEN 1 ELSE t.color[z]
    /\ \A z \in Nodes : u.parent[z] = IF z = x THEN last ELSE t.parent[z]
    /\ \A s \in Sides, z \in Nodes : u.kid[s][z] = IF z = last /\ s = r THEN x ELSE t.kid[s][z]
\* x, not in the tree and without children, belongs on the side r of last.
Fits(t, T, sub, r, last, x) ==
    /\ x \in Events /\ x \notin T /\ \A s \in Sides : t.kid[s][x] = Sentinel
    /\ last \in T /\ r \in Sides /\ t.kid[r][last] = Sentinel
    /\ Sorted(t, r, x, last)
    /\ \A z \in T, s \in Sides : last \in sub[t.kid[s][z]] => Sorted(t, s, x, z)
LeafedSub(sub, last, x) ==
    [z \in Nodes |-> IF z = x THEN {x} ELSE IF last \in sub[z] THEN sub[z] \cup {x} ELSE sub[z]]

\* A new leaf keeps the tree a tree.
LEMMA LeafLinked ==
    ASSUME NEW t, NEW T, NEW sub, Shape(t, T, sub), NEW r, NEW last, NEW x,
           Fits(t, T, sub, r, last, x), NEW u, Leafed(u, t, r, last, x)
    PROVE  Linked(u, T \cup {x})
<1>1. /\ x \in Nodes /\ x # Sentinel /\ last \in Nodes /\ x # last /\ x \notin T /\ last \in T
      /\ T \subseteq Nodes /\ Sentinel \in Nodes /\ Sentinel \notin T
  BY EventNodes, ShapeNodes, TimersAssumption DEF Fits, Nodes
<1>2. /\ t.root \in T \cup {Sentinel}
      /\ \A y \in T, s \in Sides : t.kid[s][y] \in T \cup {Sentinel}
      /\ \A y \in T, s \in Sides : t.kid[s][y] # Sentinel => t.parent[t.kid[s][y]] = y
      /\ \A y \in T : y # t.root => t.parent[y] \in T /\ \E s \in Sides : t.kid[s][t.parent[y]] = y
  BY DEF Shape, Linked
<1>3. /\ u.root = t.root
      /\ \A z \in Nodes : u.parent[z] = IF z = x THEN last ELSE t.parent[z]
      /\ \A s \in Sides, z \in Nodes : u.kid[s][z] = IF z = last /\ s = r THEN x ELSE t.kid[s][z]
  BY DEF Leafed
<1>4. r \in Sides /\ t.kid[r][last] = Sentinel /\ \A s \in Sides : t.kid[s][x] = Sentinel
  BY DEF Fits
<1>5. \A s \in Sides : u.kid[s][x] = Sentinel
  BY <1>1, <1>3, <1>4
<1>6. u.kid[r][last] = x /\ u.parent[x] = last
  BY <1>1, <1>3, <1>4
<1>7. \A y \in T, s \in Sides : u.kid[s][y] # x => u.kid[s][y] = t.kid[s][y]
  BY <1>1, <1>3
<1>8. \A y \in T, s \in Sides : u.kid[s][y] = x => y = last
  BY <1>1, <1>2, <1>3
<1>9. \A y \in T, s \in Sides : u.kid[s][y] \in T \cup {x, Sentinel}
  BY <1>2, <1>7
<1>10. \A y \in T, s \in Sides : u.kid[s][y] # Sentinel => u.parent[u.kid[s][y]] = y
  <2> SUFFICES ASSUME NEW y \in T, NEW s \in Sides, u.kid[s][y] # Sentinel
               PROVE  u.parent[u.kid[s][y]] = y
    OBVIOUS
  <2>1. CASE u.kid[s][y] = x
    BY <1>6, <1>8, <2>1
  <2>2. CASE u.kid[s][y] # x
    <3>1. u.kid[s][y] = t.kid[s][y] /\ t.kid[s][y] \in T /\ t.parent[t.kid[s][y]] = y
      BY <1>2, <1>7, <2>2
    <3> QED
      BY <1>1, <1>3, <2>2, <3>1
  <2> QED
    BY <2>1, <2>2
<1>11. ASSUME NEW y \in T, y # t.root
       PROVE  u.parent[y] \in T /\ \E s \in Sides : u.kid[s][u.parent[y]] = y
  <2>1. PICK s \in Sides : t.parent[y] \in T /\ t.kid[s][t.parent[y]] = y
    BY <1>2, <1>11
  <2>2. u.parent[y] = t.parent[y]
    BY <1>1, <1>3
  <2>3. u.kid[s][t.parent[y]] = y
    BY <1>1, <1>3, <1>4, <2>1
  <2> QED
    BY <2>1, <2>2, <2>3
<1> QED
  BY <1>1, <1>2, <1>3, <1>4, <1>5, <1>6, <1>9, <1>10, <1>11 DEF Linked

\* A new leaf is below every node on the way down to it, in order.
LEMMA LeafNested ==
    ASSUME NEW t, NEW T, NEW sub, Shape(t, T, sub), NEW r, NEW last, NEW x,
           Fits(t, T, sub, r, last, x), NEW u, Leafed(u, t, r, last, x)
    PROVE  /\ Nested(u, T \cup {x}, LeafedSub(sub, last, x))
           /\ Ordered(t, T, sub) => Ordered(u, T \cup {x}, LeafedSub(sub, last, x))
<1> DEFINE new == LeafedSub(sub, last, x)
<1>1. /\ x \in Nodes /\ x # Sentinel /\ last \in Nodes /\ x # last /\ x \notin T /\ last \in T
      /\ x \in Events /\ T \subseteq Nodes /\ Sentinel \in Nodes /\ Sentinel \notin T
  BY EventNodes, ShapeNodes, TimersAssumption DEF Fits, Nodes
<1>2. /\ sub \in [Nodes -> SUBSET Events]
      /\ sub[Sentinel] = {} /\ sub[t.root] = T
      /\ \A y \in T : \A z \in Events : z \in sub[y] <=> (z = y \/ \E s \in Sides : z \in sub[t.kid[s][y]])
      /\ \A y \in T, s \in Sides : y \notin sub[t.kid[s][y]]
      /\ \A y \in T, s \in Sides : \A z \in sub[t.kid[s][y]] : z \notin sub[t.kid[Opposite(s)][y]]
  BY DEF Shape, Nested
<1>3. /\ u.root = t.root /\ u.key = t.key
      /\ \A s \in Sides, z \in Nodes : u.kid[s][z] = IF z = last /\ s = r THEN x ELSE t.kid[s][z]
  BY DEF Leafed
<1>4. /\ r \in Sides /\ t.kid[r][last] = Sentinel /\ \A s \in Sides : t.kid[s][x] = Sentinel
      /\ Sorted(t, r, x, last)
      /\ \A z \in T, s \in Sides : last \in sub[t.kid[s][z]] => Sorted(t, s, x, z)
  BY DEF Fits
<1>5. \A z \in Nodes : new[z] = IF z = x THEN {x} ELSE IF last \in sub[z] THEN sub[z] \cup {x} ELSE sub[z]
  BY DEF LeafedSub
<1>6. new \in [Nodes -> SUBSET Events]
  BY <1>1, <1>2 DEF LeafedSub
<1> HIDE DEF new
<1>7. /\ \A y \in T, s \in Sides : t.kid[s][y] \in T \cup {Sentinel}
      /\ t.root \in T \cup {Sentinel} /\ T \subseteq Events
  BY DEF Shape, Linked
<1>8. \A y \in T : sub[y] \subseteq T /\ y \in sub[y]
  BY <1>2, <1>7, SubNested
<1>9. new[Sentinel] = {} /\ new[u.root] = T \cup {x}
  <2>1. new[Sentinel] = {}
    BY <1>1, <1>2, <1>5
  <2>2. t.root \in T
    BY <1>1, <1>2, <1>7
  <2>3. t.root \in Nodes /\ t.root # x /\ last \in sub[t.root]
    BY <1>1, <1>2, <2>2
  <2>4. new[t.root] = sub[t.root] \cup {x}
    BY <1>5, <2>3
  <2> QED
    BY <1>2, <1>3, <2>1, <2>4
<1>10. \A y \in T \cup {Sentinel} : \A z \in Events :
         z \in new[y] <=> (z \in sub[y] \/ (z = x /\ last \in sub[y]))
  BY <1>1, <1>5
<1>11. \A s \in Sides : new[u.kid[s][x]] = {}
  BY <1>1, <1>3, <1>4, <1>9
<1>12. new[u.kid[r][last]] = {x}
  BY <1>1, <1>3, <1>4, <1>5
<1>13. \A y \in T, s \in Sides : ~(y = last /\ s = r) =>
         u.kid[s][y] = t.kid[s][y] /\ u.kid[s][y] \in T \cup {Sentinel}
  BY <1>1, <1>3, <1>7
<1>14. sub[t.kid[r][last]] = {}
  BY <1>2, <1>4
\* What is below a child: what was, and x when last is.
<1>15. \A y \in T, s \in Sides : \A z \in Events :
         z \in new[u.kid[s][y]] <=>
           (z \in sub[t.kid[s][y]] \/ (z = x /\ (last \in sub[t.kid[s][y]] \/ (y = last /\ s = r))))
  <2> SUFFICES ASSUME NEW y \in T, NEW s \in Sides, NEW z \in Events
               PROVE  z \in new[u.kid[s][y]] <=>
                        (z \in sub[t.kid[s][y]] \/ (z = x /\ (last \in sub[t.kid[s][y]] \/ (y = last /\ s = r))))
    OBVIOUS
  <2>1. CASE y = last /\ s = r
    BY <1>12, <1>14, <2>1
  <2>2. CASE ~(y = last /\ s = r)
    BY <1>10, <1>13, <2>2
  <2> QED
    BY <2>1, <2>2
<1>16. \A y \in T, s \in Sides : sub[t.kid[s][y]] \subseteq T
  BY <1>2, <1>7, <1>8
<1>17. ASSUME NEW y \in T, NEW z \in Events
       PROVE  z \in new[y] <=> (z = y \/ \E s \in Sides : z \in new[u.kid[s][y]])
  <2>1. z \in new[y] <=> (z \in sub[y] \/ (z = x /\ last \in sub[y]))
    BY <1>10
  <2>2. z \in sub[y] <=> (z = y \/ \E s \in Sides : z \in sub[t.kid[s][y]])
    BY <1>2
  <2>3. last \in sub[y] <=> (last = y \/ \E s \in Sides : last \in sub[t.kid[s][y]])
    BY <1>2, <1>1, <1>7
  <2> QED
    BY <1>4, <1>15, <2>1, <2>2, <2>3
<1>18. \A y \in T, s \in Sides : y \notin new[u.kid[s][y]]
  BY <1>1, <1>2, <1>7, <1>15
<1>19. ASSUME NEW y \in T, NEW s \in Sides, NEW z \in new[u.kid[s][y]]
       PROVE  z \notin new[u.kid[Opposite(s)][y]]
  <2>1. Opposite(s) \in Sides /\ Opposite(s) # s
    BY SideFacts
  <2>2. z \in Events /\ (z \in sub[t.kid[s][y]] \/ (z = x /\ (last \in sub[t.kid[s][y]] \/ (y = last /\ s = r))))
    <3>1. u.kid[s][y] \in Nodes
      BY <1>1, <1>3, <1>7
    <3>2. z \in Events
      BY <1>6, <3>1
    <3> QED
      BY <1>15, <3>2
  <2>3. z \in new[u.kid[Opposite(s)][y]] <=>
           (z \in sub[t.kid[Opposite(s)][y]] \/ (z = x /\ (last \in sub[t.kid[Opposite(s)][y]] \/ (y = last /\ Opposite(s) = r))))
    BY <1>15, <2>1, <2>2
  <2>4. x \notin sub[t.kid[s][y]] /\ x \notin sub[t.kid[Opposite(s)][y]]
    BY <1>1, <1>16, <2>1
  <2>5. \A w \in sub[t.kid[s][y]] : w \notin sub[t.kid[Opposite(s)][y]]
    BY <1>2
  <2>6. last \notin sub[t.kid[s][last]] /\ last \notin sub[t.kid[Opposite(s)][last]]
    BY <1>1, <1>2, <2>1
  <2> QED
    BY <2>1, <2>2, <2>3, <2>4, <2>5, <2>6
<1>20. Nested(u, T \cup {x}, new)
  <2>1. \A z \in Events : z \in new[x] <=> (z = x \/ \E s \in Sides : z \in new[u.kid[s][x]])
    BY <1>1, <1>5, <1>11
  <2>2. \A s \in Sides : x \notin new[u.kid[s][x]]
    BY <1>11
  <2>3. \A s \in Sides : \A z \in new[u.kid[s][x]] : z \notin new[u.kid[Opposite(s)][x]]
    BY <1>11
  <2> QED
    BY <1>6, <1>9, <1>17, <1>18, <1>19, <2>1, <2>2, <2>3 DEF Nested
<1>21. ASSUME Ordered(t, T, sub), NEW y \in T \cup {x}, NEW s \in Sides, NEW z \in new[u.kid[s][y]]
       PROVE  Sorted(u, s, z, y)
  <2>0. Sorted(u, s, z, y) <=> Sorted(t, s, z, y)
    BY <1>3 DEF Sorted
  <2>1. y \in T
    BY <1>11, <1>21
  <2>2. z \in Events
    <3>1. u.kid[s][y] \in Nodes
      BY <1>1, <1>3, <1>7, <2>1
    <3> QED
      BY <1>6, <3>1
  <2>3. z \in sub[t.kid[s][y]] \/ (z = x /\ (last \in sub[t.kid[s][y]] \/ (y = last /\ s = r)))
    BY <1>15, <1>21, <2>1, <2>2
  <2>4. CASE z \in sub[t.kid[s][y]]
    BY <1>21, <2>0, <2>1, <2>4 DEF Ordered
  <2>5. CASE z = x /\ last \in sub[t.kid[s][y]]
    BY <1>4, <2>0, <2>1, <2>5
  <2>6. CASE z = x /\ y = last /\ s = r
    BY <1>4, <2>0, <2>6
  <2> QED
    BY <2>3, <2>4, <2>5, <2>6
<1> QED
  BY <1>20, <1>21 DEF Ordered, new

\* u and t agree on the tree of the nodes T.
Same(u, t, T) ==
    /\ u \in Trees /\ u.root = t.root
    /\ \A z \in T : /\ u.key[z] = t.key[z] /\ u.color[z] = t.color[z]
                    /\ \A s \in Sides : u.kid[s][z] = t.kid[s][z]
    /\ \A z \in T \cup {Sentinel} : z # t.root => u.parent[z] = t.parent[z]
    /\ u.color[Sentinel] = t.color[Sentinel]

\* What the nodes outside the tree hold has no part in it.
LEMMA SameShape ==
    ASSUME NEW t, NEW T, NEW sub, Shape(t, T, sub), NEW u, Same(u, t, T)
    PROVE  Shape(u, T, sub) /\ (Ordered(t, T, sub) => Ordered(u, T, sub))
<1>1. /\ u \in Trees /\ u.root = t.root
      /\ \A z \in T : /\ u.key[z] = t.key[z] /\ u.color[z] = t.color[z]
                      /\ \A s \in Sides : u.kid[s][z] = t.kid[s][z]
      /\ \A z \in T \cup {Sentinel} : z # t.root => u.parent[z] = t.parent[z]
  BY DEF Same
<1>2. Linked(t, T) /\ Nested(t, T, sub) /\ T \subseteq Events
  BY DEF Shape
<1>3. Linked(u, T)
  <2>1. /\ t.root \in T \cup {Sentinel}
        /\ \A x \in T, s \in Sides : t.kid[s][x] \in T \cup {Sentinel}
        /\ \A x \in T, s \in Sides : t.kid[s][x] # Sentinel => t.parent[t.kid[s][x]] = x
        /\ \A x \in T : x # t.root => t.parent[x] \in T /\ \E s \in Sides : t.kid[s][t.parent[x]] = x
    BY <1>2 DEF Linked
  <2>2. ASSUME NEW x \in T, NEW s \in Sides, u.kid[s][x] # Sentinel PROVE u.parent[u.kid[s][x]] = x
    <3>1. u.kid[s][x] = t.kid[s][x] /\ t.kid[s][x] \in T
      BY <1>1, <2>1, <2>2
    <3>2. t.kid[s][x] # t.root
      BY <2>2, <3>1, KidFacts
    <3> QED
      BY <1>1, <2>1, <2>2, <3>1, <3>2
  <2>3. \A x \in T : x # u.root => u.parent[x] \in T /\ \E s \in Sides : u.kid[s][u.parent[x]] = x
    BY <1>1, <2>1
  <2> QED
    BY <1>1, <2>1, <2>2, <2>3 DEF Linked
<1>4. \A x \in T, s \in Sides : Opposite(s) \in Sides
  BY SideFacts
<1>5. Nested(u, T, sub)
  BY <1>1, <1>2, <1>4 DEF Nested
<1>6. \A x \in T, s \in Sides : sub[t.kid[s][x]] \subseteq T
  <2> SUFFICES ASSUME NEW x \in T, NEW s \in Sides PROVE sub[t.kid[s][x]] \subseteq T
    OBVIOUS
  <2>1. t.kid[s][x] \in T \cup {Sentinel} /\ sub[Sentinel] = {}
    BY <1>2 DEF Linked, Nested
  <2> QED
    BY <2>1, SubNested
<1>7. ASSUME Ordered(t, T, sub) PROVE Ordered(u, T, sub)
  <2> SUFFICES ASSUME NEW x \in T, NEW s \in Sides, NEW z \in sub[u.kid[s][x]]
               PROVE  Sorted(u, s, z, x)
    BY DEF Ordered
  <2>1. z \in sub[t.kid[s][x]]
    BY <1>1
  <2>2. z \in T
    BY <1>6, <2>1
  <2>3. Sorted(t, s, z, x)
    BY <1>7, <2>1 DEF Ordered
  <2> QED
    BY <1>1, <2>2, <2>3 DEF Sorted
<1> QED
  BY <1>1, <1>2, <1>3, <1>5, <1>7 DEF Shape

\* What the nodes outside the tree hold has no part in its heights and colours.
LEMMA SameGood ==
    ASSUME NEW t, NEW T, NEW sub, NEW bh, NEW u, Same(u, t, T)
    PROVE  /\ Balanced(t, T, sub, bh) => Balanced(u, T, sub, bh)
           /\ \A x : DeleteGood(t, T, sub, bh, x) => DeleteGood(u, T, sub, bh, x)
<1>1. /\ u \in Trees /\ u.root = t.root
      /\ \A z \in T : /\ u.key[z] = t.key[z] /\ u.color[z] = t.color[z]
                      /\ \A s \in Sides : u.kid[s][z] = t.kid[s][z]
      /\ \A z \in T \cup {Sentinel} : z # t.root => u.parent[z] = t.parent[z]
      /\ u.color[Sentinel] = t.color[Sentinel]
  BY DEF Same
<1>2. ASSUME Shape(t, T, sub)
      PROVE  /\ \A z \in T, s \in Sides : u.kid[s][z] \in T \cup {Sentinel}
             /\ \A P, K : Reds(t, T, P, K) => Reds(u, T, P, K)
             /\ u.color[u.root] = t.color[t.root]
  <2>1. /\ \A z \in T, s \in Sides : t.kid[s][z] \in T \cup {Sentinel}
        /\ t.root \in T \cup {Sentinel}
    BY <1>2 DEF Shape, Linked
  <2>2. \A z \in T, s \in Sides : u.kid[s][z] = t.kid[s][z] /\ u.color[u.kid[s][z]] = t.color[t.kid[s][z]]
    BY <1>1, <2>1
  <2>3. ASSUME NEW P, NEW K, Reds(t, T, P, K) PROVE Reds(u, T, P, K)
    BY <1>1, <2>2, <2>3 DEF Reds
  <2> QED
    BY <1>1, <2>1, <2>2, <2>3
<1>3. ASSUME Balanced(t, T, sub, bh) PROVE Balanced(u, T, sub, bh)
  <2>1. Shape(t, T, sub) /\ Ordered(t, T, sub) /\ Even(t, T, bh, t.root) /\ Reds(t, T, {}, {}) /\ t.color[t.root] = 0
    BY <1>3 DEF Balanced
  <2>2. Even(u, T, bh, u.root)
    BY <1>1, <2>1 DEF Even, Short
  <2> QED
    BY <1>2, <2>1, <2>2, SameShape DEF Balanced
<1>4. ASSUME NEW x, DeleteGood(t, T, sub, bh, x) PROVE DeleteGood(u, T, sub, bh, x)
  <2>1. /\ Shape(t, T, sub) /\ Ordered(t, T, sub)
        /\ Even(t, T, bh, x) /\ Reds(t, T, {x}, {x})
        /\ x \in T \cup {Sentinel}
        /\ t.color[t.root] = 1 => x = t.root
        /\ x # t.root => /\ t.parent[x] \in T /\ t.parent[x] # x /\ t.kid[SideOf(t, x)][t.parent[x]] = x
                         /\ SideOf(t, x) \in Sides
    BY <1>4 DEF DeleteGood
  <2>2. x # t.root => SideOf(u, x) = SideOf(t, x) /\ u.parent[x] = t.parent[x]
    BY <1>1, <2>1 DEF SideOf, Sides
  <2>3. \A z, s : Short(u, x, z, s) = Short(t, x, z, s)
    BY <1>1, <2>2 DEF Short
  <2>4. Even(u, T, bh, x)
    BY <1>1, <2>1, <2>3 DEF Even
  <2>5. x # u.root => /\ u.parent[x] \in T /\ u.parent[x] # x /\ u.kid[SideOf(u, x)][u.parent[x]] = x
                      /\ SideOf(u, x) \in Sides
    BY <1>1, <2>1, <2>2
  <2> QED
    BY <1>1, <1>2, <2>1, <2>4, <2>5, SameShape DEF DeleteGood
<1> QED
  BY <1>3, <1>4

\* A new red leaf leaves a red-black tree but for that leaf.
LEMMA LeafGood ==
    ASSUME NEW t, NEW T, NEW sub, NEW bh, Balanced(t, T, sub, bh), NEW r, NEW last, NEW x,
           Fits(t, T, sub, r, last, x), NEW u, Leafed(u, t, r, last, x)
    PROVE  \E sub2, bh2 : InsertGood(u, T \cup {x}, sub2, bh2, x)
<1> DEFINE new == [z \in Nodes |-> IF z = x THEN 0 ELSE bh[z]]
<1>1. Shape(t, T, sub) /\ Ordered(t, T, sub) /\ Even(t, T, bh, t.root) /\ Reds(t, T, {}, {}) /\ t.color[t.root] = 0
  BY DEF Balanced
<1>2. /\ x \in Nodes /\ x # Sentinel /\ last \in Nodes /\ x # last /\ x \notin T /\ last \in T
      /\ x \in Events /\ T \subseteq Nodes /\ Sentinel \in Nodes /\ Sentinel \notin T
  BY <1>1, EventNodes, ShapeNodes, TimersAssumption DEF Fits, Nodes
<1>3. Shape(u, T \cup {x}, LeafedSub(sub, last, x)) /\ Ordered(u, T \cup {x}, LeafedSub(sub, last, x))
  <2>1. u \in Trees /\ T \cup {x} \subseteq Events
    BY <1>1, <1>2 DEF Leafed, Shape
  <2> QED
    BY <1>1, <2>1, LeafLinked, LeafNested DEF Shape
<1>4. bh \in [Nodes -> Nat] /\ bh[Sentinel] = 0
  BY <1>1 DEF Even
<1>5. \A z \in T, s \in Sides : bh[z] = bh[t.kid[s][z]] + (1 - t.color[z])
  <2>1. /\ t \in Trees /\ T \subseteq Nodes /\ \A z \in T, s \in Sides : t.kid[s][z] \in Nodes
    BY <1>1, ShapeNodes
  <2> QED
    BY <1>1, <2>1, EvenSteps
<1>6. /\ u \in Trees /\ u.root = t.root
      /\ \A z \in Nodes : u.color[z] = IF z = x THEN 1 ELSE t.color[z]
      /\ \A s \in Sides, z \in Nodes : u.kid[s][z] = IF z = last /\ s = r THEN x ELSE t.kid[s][z]
  BY DEF Leafed
<1>7. r \in Sides /\ t.kid[r][last] = Sentinel /\ \A s \in Sides : t.kid[s][x] = Sentinel
  BY DEF Fits
<1>8. new \in [Nodes -> Nat] /\ \A z \in Nodes : new[z] = IF z = x THEN 0 ELSE bh[z]
  BY <1>4
<1> HIDE DEF new
<1>9. \A z \in T, s \in Sides : t.kid[s][z] \in T \cup {Sentinel}
  BY <1>1 DEF Shape, Linked
<1>10. ASSUME NEW z \in T \cup {x}, NEW s \in Sides
       PROVE  u.kid[s][z] \in Nodes /\ new[z] = new[u.kid[s][z]] + (1 - u.color[z])
  <2>1. CASE z = x
    BY <1>2, <1>4, <1>6, <1>7, <1>8, <2>1
  <2>2. CASE z = last /\ s = r
    <3>1. u.kid[s][z] = x /\ new[x] = 0 /\ new[z] = bh[z] /\ u.color[z] = t.color[z]
      BY <1>2, <1>6, <1>8, <2>2
    <3>2. bh[z] = bh[Sentinel] + (1 - t.color[z])
      BY <1>2, <1>5, <1>7, <2>2
    <3> QED
      BY <1>2, <1>4, <3>1, <3>2
  <2>3. CASE z \in T /\ ~(z = last /\ s = r)
    <3>1. u.kid[s][z] = t.kid[s][z] /\ new[z] = bh[z] /\ u.color[z] = t.color[z] /\ t.kid[s][z] \in T \cup {Sentinel}
      BY <1>2, <1>6, <1>8, <1>9, <2>3
    <3>2. new[t.kid[s][z]] = bh[t.kid[s][z]] /\ t.kid[s][z] \in Nodes
      BY <1>2, <1>8, <3>1
    <3> QED
      BY <1>5, <2>3, <3>1, <3>2
  <2> QED
    BY <2>1, <2>2, <2>3
<1>11. new[Sentinel] = 0
  BY <1>2, <1>4, <1>8
<1>12. Even(u, T \cup {x}, new, u.root)
  BY <1>2, <1>6, <1>8, <1>10, <1>11, EvenOf
<1>13. Reds(u, T \cup {x}, {}, {x})
  <2>1. u.color[Sentinel] = 0
    BY <1>1, <1>2, <1>6 DEF Reds
  <2>2. ASSUME NEW z \in T \cup {x}, NEW s \in Sides, u.color[z] = 1, u.color[u.kid[s][z]] = 1
        PROVE  u.kid[s][z] = x
    <3>1. CASE z = x
      BY <1>2, <1>6, <1>7, <2>1, <2>2, <3>1
    <3>2. CASE z \in T /\ u.kid[s][z] # x
      <4>1. u.kid[s][z] = t.kid[s][z] /\ t.color[z] = 1
        BY <1>2, <1>6, <2>2, <3>2
      <4>2. t.color[t.kid[s][z]] = 1
        BY <1>2, <1>6, <1>9, <2>2, <3>2, <4>1
      <4> QED
        BY <1>1, <3>2, <4>1, <4>2 DEF Reds
    <3> QED
      BY <3>1, <3>2
  <2> QED
    BY <2>1, <2>2 DEF Reds
<1>14. u.color[x] = 1 /\ u.color[u.root] # 1
  <2>1. t.root \in T \cup {Sentinel}
    BY <1>1 DEF Shape, Linked
  <2> QED
    BY <1>1, <1>2, <1>6, <2>1
<1> QED
  BY <1>3, <1>12, <1>13, <1>14 DEF InsertGood

\* A tree whose only node is a black root.
LEMMA SingleBalanced ==
    ASSUME NEW t \in Trees, NEW x \in Events, t.root = x, t.color[x] = 0, t.color[Sentinel] = 0,
           \A s \in Sides : t.kid[s][x] = Sentinel
    PROVE  \E sub, bh : Balanced(t, {x}, sub, bh)
<1> DEFINE sub == [z \in Nodes |-> IF z = x THEN {x} ELSE {}]
           bh == [z \in Nodes |-> IF z = x THEN 1 ELSE 0]
<1>1. x \in Nodes /\ Sentinel \in Nodes /\ x # Sentinel /\ {x} \subseteq Nodes
  BY TimersAssumption DEF Nodes
<1>2. /\ sub \in [Nodes -> SUBSET Events] /\ sub[Sentinel] = {} /\ sub[x] = {x}
      /\ bh \in [Nodes -> Nat] /\ bh[Sentinel] = 0 /\ bh[x] = 1
  BY <1>1
<1> HIDE DEF sub, bh
<1>3. Linked(t, {x})
  BY DEF Linked
<1>4. Nested(t, {x}, sub)
  BY <1>1, <1>2 DEF Nested
<1>5. Shape(t, {x}, sub)
  BY <1>3, <1>4 DEF Shape
<1>6. Ordered(t, {x}, sub)
  BY <1>2 DEF Ordered
<1>7. \A z \in {x}, s \in Sides : bh[z] = bh[t.kid[s][z]] + (1 - t.color[z]) /\ t.kid[s][z] \in Nodes
  BY <1>1, <1>2
<1>8. Even(t, {x}, bh, t.root)
  BY <1>1, <1>2, <1>7, EvenOf
<1>9. Reds(t, {x}, {}, {})
  BY DEF Reds
<1> QED
  BY <1>5, <1>6, <1>8, <1>9 DEF Balanced

\* The node to insert gets no children; the tree is as it was.
LEMMA InsertReady ==
    ASSUME NEW t0, NEW T, NEW sub, NEW bh, Balanced(t0, T, sub, bh), NEW x \in Events, x \notin T,
           NEW t, t = Adopt(Adopt(t0, "left", x, Sentinel), "right", x, Sentinel)
    PROVE  Balanced(t, T, sub, bh) /\ \A s \in Sides : t.kid[s][x] = Sentinel
<1> DEFINE t1 == Adopt(t0, "left", x, Sentinel)
<1>1. x \in Nodes /\ Sentinel \in Nodes /\ x # Sentinel /\ "left" \in Sides /\ "right" \in Sides
  BY TimersAssumption DEF Nodes, Sides
<1>2. t0 \in Trees /\ T \subseteq Nodes
  BY ShapeNodes DEF Balanced
<1>3. Adopted(t1, t0, "left", x, Sentinel)
  BY <1>1, <1>2, AdoptWrites
<1>a. t = Adopt(t1, "right", x, Sentinel)
  OBVIOUS
<1> HIDE DEF t1
<1>b. t1 \in Trees
  BY <1>3 DEF Adopted
<1>4. Adopted(t, t1, "right", x, Sentinel)
  BY <1>1, <1>a, <1>b, AdoptWrites
<1>5. /\ t \in Trees /\ t.root = t0.root /\ t.key = t0.key /\ t.color = t0.color
      /\ \A z \in Nodes : t.parent[z] = t0.parent[z]
      /\ \A s \in Sides, z \in Nodes : z # x => t.kid[s][z] = t0.kid[s][z]
      /\ \A s \in Sides : t.kid[s][x] = Sentinel
  BY <1>1, <1>3, <1>4 DEF Adopted, Sides
<1>6. Same(t, t0, T)
  BY <1>1, <1>2, <1>5 DEF Same
<1> QED
  BY <1>5, <1>6, SameGood

\* night_rbtree_insert leaves a red-black tree of the nodes and the new one.
LEMMA InsertBalanced ==
    ASSUME NEW t0, NEW T, NEW sub, NEW bh, Balanced(t0, T, sub, bh), NEW x \in Events, x \notin T
    PROVE  \E sub2, bh2 : Balanced(rbtree_insert(t0, x), T \cup {x}, sub2, bh2)
<1> DEFINE t == Adopt(Adopt(t0, "left", x, Sentinel), "right", x, Sentinel)
<1>1. Balanced(t, T, sub, bh) /\ \A s \in Sides : t.kid[s][x] = Sentinel
  BY InsertReady
<1>2. /\ t.root = Sentinel =>
           rbtree_insert(t0, x) = [t EXCEPT !.root = x, !.parent[x] = Null, !.color[x] = Black]
      /\ t.root # Sentinel => rbtree_insert(t0, x) = InsertFixup(insert_timer_value(t, t.root, x), x)
  BY Zenon DEF rbtree_insert
<1> HIDE DEF t
<1>3. Shape(t, T, sub) /\ t \in Trees /\ T \subseteq Nodes /\ Sentinel \in Nodes /\ Sentinel \notin T
  BY <1>1, ShapeNodes DEF Balanced
<1>4. x \in Nodes /\ x # Sentinel
  BY TimersAssumption DEF Nodes
<1>5. CASE t.root = Sentinel
  <2> DEFINE u == [t EXCEPT !.root = x, !.parent[x] = Null, !.color[x] = Black]
  <2>1. T = {}
    BY <1>3, <1>5 DEF Shape, Nested
  <2>2. /\ u \in Trees /\ u.root = x /\ u.color[x] = 0 /\ u.color[Sentinel] = t.color[Sentinel]
        /\ u.kid = t.kid
    BY <1>3, <1>4 DEF Trees, Black
  <2>3. rbtree_insert(t0, x) = u
    BY <1>2, <1>5
  <2> HIDE DEF u
  <2>4. t.color[Sentinel] = 0
    BY <1>1 DEF Balanced, Reds
  <2>5. \E sub2, bh2 : Balanced(u, {x}, sub2, bh2)
    BY <1>1, <2>2, <2>4, SingleBalanced
  <2>6. T \cup {x} = {x}
    BY <2>1
  <2> QED
    BY <2>3, <2>5, <2>6
<1>6. CASE t.root # Sentinel
  <2>1. T # {}
    BY <1>3, <1>6 DEF Shape, Linked
  <2>2. PICK last \in T : /\ OnWay(t, T, sub, x, last) /\ t.kid[SideFor(t, last, x)][last] = Sentinel
                          /\ insert_timer_value(t, t.root, x) =
                               Paint(Adopt(t, SideFor(t, last, x), last, x), x, Red)
    BY <1>3, <2>1, DescentEnds
  <2> DEFINE r == SideFor(t, last, x)
             t1 == Adopt(t, r, last, x)
             u == Paint(t1, x, Red)
  <2>3. r \in Sides /\ last \in Nodes
    BY <1>3, SideForSide
  <2>4. insert_timer_value(t, t.root, x) = u /\ t.kid[r][last] = Sentinel
    BY <2>2
  <2>5. \A z \in Nodes : Sorted(t, SideFor(t, z, x), x, z)
    <3>1. \A z \in Nodes : t.key[z] \in Int
      BY <1>3 DEF Trees
    <3> QED
      BY <1>4, <3>1 DEF Sorted, SideFor
  <2>6. Sorted(t, r, x, last)
    BY <2>3, <2>5
  <2> HIDE DEF r
  <2>7. Adopted(t1, t, r, last, x)
    BY <1>3, <1>4, <2>3, AdoptWrites
  <2> HIDE DEF t1
  <2>8. Painted(u, t1, x, 1)
    BY <1>4, <2>7, PaintWrites DEF Adopted, Red
  <2> HIDE DEF u
  <2>9. Leafed(u, t, r, last, x)
    BY <1>4, <2>3, <2>7, <2>8 DEF Leafed, Adopted, Painted
  <2>10. Fits(t, T, sub, r, last, x)
    BY <1>1, <1>3, <2>2, <2>3, <2>4, <2>5, <2>6 DEF Fits, OnWay
  <2>11. PICK sub1, bh1 : InsertGood(u, T \cup {x}, sub1, bh1, x)
    BY <1>1, <2>9, <2>10, LeafGood
  <2>12. \E sub2, bh2 : Balanced(InsertFixup(u, x), T \cup {x}, sub2, bh2)
    BY <2>11, InsertFixupGood
  <2> QED
    BY <1>2, <1>6, <2>4, <2>12
<1> QED
  BY <1>5, <1>6

-----------------------------------------------------------------------------
(* The leftmost node *)

\* Nothing in N comes before y, but what is below y.
FirstBut(t, sub, N, y) == \A z \in N : z \in sub[y] \/ t.key[y] <= t.key[z]

\* night_rbtree_min finds the nearest deadline at and below x.
LEMMA MinIs ==
    ASSUME NEW t, NEW T, NEW sub, Shape(t, T, sub), Ordered(t, T, sub), NEW x \in T
    PROVE  /\ rbtree_min(t, x) \in sub[x] /\ t.kid["left"][rbtree_min(t, x)] = Sentinel
           /\ \A z \in sub[x] : t.key[rbtree_min(t, x)] <= t.key[z]
<1> DEFINE S == {y \in sub[x] : FirstBut(t, sub, sub[x], y)}
           G == [y \in S |-> Left(t, y)]
           m == [y \in S |-> Turns - Cardinality(sub[y])]
           Stop == {y \in T : t.kid["left"][y] = Sentinel}
<1>a. sub[x] \subseteq T /\ \A z \in sub[x] : sub[z] \subseteq sub[x]
  BY SubNested
<1>b. /\ \A y \in T : \A z \in Events : z \in sub[y] <=> (z = y \/ \E s \in Sides : z \in sub[t.kid[s][y]])
      /\ T \subseteq Events /\ sub[Sentinel] = {}
  BY DEF Shape, Nested
<1>c. x \in sub[x]
  BY <1>b
<1>d. \A y \in T : t.key[y] \in Int
  BY ShapeNodes DEF Trees
<1>e. /\ \A y \in T : \A z \in sub[t.kid["left"][y]] : t.key[z] <= t.key[y]
      /\ \A y \in T : \A z \in sub[t.kid["right"][y]] : t.key[y] <= t.key[z]
  BY DEF Ordered, Sorted, Sides
<1>f. \A y \in T : \A z \in sub[y] : z = y \/ z \in sub[t.kid["left"][y]] \/ z \in sub[t.kid["right"][y]]
  <2> SUFFICES ASSUME NEW y \in T, NEW z \in sub[y]
               PROVE  z = y \/ z \in sub[t.kid["left"][y]] \/ z \in sub[t.kid["right"][y]]
    OBVIOUS
  <2>1. z \in Events
    BY <1>b, SubNested
  <2> QED
    BY <1>b, <2>1 DEF Sides
<1>1. x \in S
  BY <1>c DEF FirstBut
<1>2. ASSUME NEW y \in S
      PROVE  /\ Left(t, y) \in S
             /\ y \in Stop => Left(t, y) = y
             /\ y \notin Stop => Cardinality(sub[Left(t, y)]) < Cardinality(sub[y])
  <2> DEFINE k == t.kid["left"][y]
  <2>0. y \in T
    BY <1>a
  <2>1. CASE k = Sentinel
    BY <2>0, <2>1 DEF Left
  <2>2. CASE k # Sentinel
    <3>1. Left(t, y) = k
      BY <2>2 DEF Left
    <3>2. k \in T /\ k \in sub[k] /\ k \in sub[y]
      BY <2>0, <2>2, KidFacts DEF Sides
    <3>3. Cardinality(sub[k]) < Cardinality(sub[y])
      BY <2>0, <2>2, SubSizes DEF Sides
    <3>4. k \in sub[x]
      BY <1>a, <3>2
    <3>5. ASSUME NEW z \in sub[x], z \notin sub[k] PROVE t.key[k] <= t.key[z]
      <4>1. t.key[k] <= t.key[y]
        BY <1>e, <2>0, <3>2
      <4>2. t.key[y] <= t.key[z]
        <5>0. z \in T
          BY <1>a
        <5>1. CASE z \in sub[y]
          BY <1>d, <1>e, <1>f, <2>0, <3>5, <5>1
        <5>2. CASE z \notin sub[y]
          BY <5>2 DEF FirstBut
        <5> QED
          BY <5>1, <5>2
      <4> QED
        BY <1>a, <1>d, <2>0, <3>2, <4>1, <4>2
    <3> QED
      BY <2>2, <3>1, <3>3, <3>4, <3>5 DEF FirstBut
  <2> QED
    BY <2>1, <2>2
<1>3. \A y \in S : Cardinality(sub[y]) \in Nat /\ Cardinality(sub[y]) < Turns /\ Cardinality(sub[y]) > 0
  BY <1>a, SubSizes
<1> HIDE DEF S
<1>4. IsTurn(G, S) /\ \A y \in S : G[y] = Left(t, y)
  BY <1>2 DEF IsTurn
<1>t. Turns \in Nat
  BY TurnsNat
<1>5. m \in [S -> Nat] /\ \A y \in S : m[y] = Turns - Cardinality(sub[y])
  BY <1>3, <1>t
<1> HIDE DEF G, m, Stop
<1>6. ASSUME NEW y \in S \ Stop PROVE m[y] < Turns /\ m[y] < m[G[y]]
  <2>1. G[y] \in S /\ Cardinality(sub[G[y]]) < Cardinality(sub[y])
    BY <1>2, <1>4
  <2>2. m[y] = Turns - Cardinality(sub[y]) /\ m[G[y]] = Turns - Cardinality(sub[G[y]])
    BY <1>5, <2>1
  <2>3. /\ Cardinality(sub[y]) \in Nat /\ Cardinality(sub[y]) > 0
        /\ Cardinality(sub[G[y]]) \in Nat
    BY <1>3, <2>1
  <2> QED
    BY <1>t, <2>1, <2>2, <2>3
<1>7. Progress(S, G, m, Stop)
  BY <1>2, <1>4, <1>5, <1>6 DEF Progress
<1>8. PICK d : IsRun(d, S, x, G) /\ rbtree_min(t, x) = d[Turns]
  BY <1>1, <1>4, MinRuns
<1>9. d[Turns] \in S /\ d[Turns] \in Stop
  BY <1>1, <1>4, <1>7, <1>8, LoopStops
<1> DEFINE y == rbtree_min(t, x)
<1>10. y \in sub[x] /\ FirstBut(t, sub, sub[x], y) /\ t.kid["left"][y] = Sentinel /\ y \in T
  BY <1>8, <1>9 DEF S, Stop
<1> HIDE DEF y
<1>11. ASSUME NEW z \in sub[x] PROVE t.key[y] <= t.key[z]
  BY <1>10, <1>b, <1>d, <1>e, <1>f DEF FirstBut
<1> QED
  BY <1>10, <1>11 DEF y

-----------------------------------------------------------------------------
(* The loop of night_rbtree_delete *)

\* The heights when the child of p on a side is one black short.
Heights(t, T, bh, p, side) ==
    /\ bh \in [Nodes -> Nat] /\ bh[Sentinel] = 0
    /\ \A z \in T, s \in Sides :
         bh[z] = bh[t.kid[s][z]] + (1 - t.color[z]) + (IF z = p /\ s = side THEN 1 ELSE 0)
\* No red node has a red child.
Clean(t, T) ==
    /\ t.color[Sentinel] = 0
    /\ \A z \in T, s \in Sides : ~(t.color[z] = 1 /\ t.color[t.kid[s][z]] = 1)

\* A black node x one black short, below the root; its parent p, and its sibling w.
Beside(t, T, sub, bh, x, p, side, w) ==
    /\ Shape(t, T, sub) /\ Ordered(t, T, sub) /\ Heights(t, T, bh, p, side) /\ Clean(t, T)
    /\ x \in T \cup {Sentinel} /\ p \in T /\ w \in T
    /\ side \in Sides /\ Opposite(side) \in Sides /\ Opposite(side) # side
    /\ t.kid[side][p] = x /\ t.kid[Opposite(side)][p] = w
    /\ t.parent[x] = p /\ SideOf(t, x) = side
    /\ x # t.root /\ x # p /\ w # p /\ w # x /\ w # t.root
    /\ t.color[x] = 0 /\ t.color[t.root] = 0
    /\ bh[w] = bh[x] + 1 /\ bh[p] = bh[w] + (1 - t.color[p])
    /\ bh[x] \in Nat /\ bh[w] \in Nat /\ bh[p] \in Nat

\* The invariant of the loop of night_rbtree_delete says so of x and its sibling.
LEMMA BesideOf ==
    ASSUME NEW t, NEW T, NEW sub, NEW bh, NEW x, DeleteGood(t, T, sub, bh, x),
           x # t.root, t.color[x] = 0
    PROVE  Beside(t, T, sub, bh, x, t.parent[x], SideOf(t, x), t.kid[Opposite(SideOf(t, x))][t.parent[x]])
<1> DEFINE p == t.parent[x]
           side == SideOf(t, x)
           o == Opposite(side)
           w == t.kid[o][p]
<1>1. /\ Shape(t, T, sub) /\ Ordered(t, T, sub) /\ Even(t, T, bh, x) /\ Reds(t, T, {x}, {x})
      /\ x \in T \cup {Sentinel} /\ (t.color[t.root] = 1 => x = t.root)
      /\ p \in T /\ p # x /\ t.kid[side][p] = x /\ side \in Sides
  BY DEF DeleteGood
<1>2. /\ bh \in [Nodes -> Nat] /\ bh[Sentinel] = 0
      /\ \A z \in T, s \in Sides : bh[z] = bh[t.kid[s][z]] + (1 - t.color[z]) + Short(t, x, z, s)
  BY <1>1 DEF Even
<1>3. \A z \in T, s \in Sides : Short(t, x, z, s) = IF z = p /\ s = side THEN 1 ELSE 0
  BY DEF Short
<1>4. Heights(t, T, bh, p, side)
  BY <1>2, <1>3 DEF Heights
<1>5. Clean(t, T)
  BY <1>1 DEF Clean, Reds
<1>6. o \in Sides /\ o # side
  BY <1>1, SideFacts
<1>7. /\ T \subseteq Nodes /\ Sentinel \in Nodes /\ Sentinel \notin T
      /\ \A z \in T, s \in Sides : t.kid[s][z] \in Nodes
      /\ \A z \in Nodes : t.color[z] \in {0, 1}
  BY <1>1, ShapeNodes
<1> HIDE DEF p, side, o, w
<1>8. w \in Nodes /\ w = t.kid[o][p]
  BY <1>1, <1>6, <1>7 DEF w
<1>9. bh[x] \in Nat /\ bh[w] \in Nat /\ bh[p] \in Nat /\ t.color[p] \in {0, 1}
  BY <1>1, <1>2, <1>7, <1>8
<1>10. bh[p] = bh[x] + (1 - t.color[p]) + 1 /\ bh[p] = bh[w] + (1 - t.color[p]) + 0
  <2>1. Short(t, x, p, side) = 1 /\ Short(t, x, p, o) = 0
    BY <1>1, <1>3, <1>6
  <2>2. bh[p] = bh[t.kid[side][p]] + (1 - t.color[p]) + Short(t, x, p, side)
    BY <1>1, <1>2
  <2>3. bh[p] = bh[t.kid[o][p]] + (1 - t.color[p]) + Short(t, x, p, o)
    BY <1>1, <1>2, <1>6
  <2> QED
    BY <1>1, <1>8, <2>1, <2>2, <2>3
<1>11. bh[w] = bh[x] + 1 /\ bh[p] = bh[w] + (1 - t.color[p])
  BY <1>9, <1>10
<1>12. w # x /\ w # Sentinel
  BY <1>2, <1>9, <1>11
<1>13. w \in T /\ w # p /\ w # t.root
  BY <1>1, <1>6, <1>8, <1>12, KidFacts
<1>14. t.color[t.root] = 0
  <2>1. t.root \in Nodes
    BY <1>1 DEF Shape, Trees
  <2> QED
    BY <1>1, <1>7, <2>1
<1>15. t.parent[x] = p /\ SideOf(t, x) = side
  BY DEF p, side
<1>16. Beside(t, T, sub, bh, x, p, side, w)
  BY <1>1, <1>4, <1>5, <1>6, <1>8, <1>9, <1>11, <1>12, <1>13, <1>14, <1>15 DEF Beside, o
<1> QED
  BY <1>16 DEF p, side, o, w

\* With a black sibling whose children are black, the shortage moves up.
LEMMA DeleteRecolours ==
    ASSUME NEW t, NEW T, NEW sub, NEW bh, NEW x, NEW p, NEW side, NEW w,
           Beside(t, T, sub, bh, x, p, side, w), t.color[w] = 0,
           \A s \in Sides : t.color[t.kid[s][w]] = 0, NEW u, Painted(u, t, w, 1)
    PROVE  \E new : DeleteGood(u, T, sub, new, p)
<1>1. /\ Shape(t, T, sub) /\ Ordered(t, T, sub) /\ Heights(t, T, bh, p, side) /\ Clean(t, T)
      /\ x \in T \cup {Sentinel} /\ p \in T /\ w \in T
      /\ side \in Sides /\ Opposite(side) \in Sides /\ Opposite(side) # side
      /\ t.kid[side][p] = x /\ t.kid[Opposite(side)][p] = w
      /\ x # p /\ w # p /\ w # x /\ w # t.root /\ t.color[x] = 0 /\ t.color[t.root] = 0
      /\ bh[w] = bh[x] + 1 /\ bh[p] = bh[w] + (1 - t.color[p])
      /\ bh[x] \in Nat /\ bh[w] \in Nat /\ bh[p] \in Nat
  BY DEF Beside
<1>2. /\ T \subseteq Nodes /\ Sentinel \in Nodes /\ Sentinel \notin T
      /\ \A z \in T, s \in Sides : t.kid[s][z] \in Nodes
      /\ \A z \in Nodes : t.color[z] \in {0, 1}
      /\ w \in Nodes /\ p \in Nodes /\ x \in Nodes /\ t.root \in Nodes
  <2>1. t.root \in Nodes
    BY <1>1 DEF Shape, Trees
  <2> QED
    BY <1>1, <2>1, ShapeNodes
<1>3. /\ u \in Trees /\ u.key = t.key /\ u.root = t.root /\ u.parent = t.parent /\ u.kid = t.kid
      /\ \A z \in Nodes : u.color[z] = IF z = w THEN 1 ELSE t.color[z]
  BY DEF Painted
<1>4. Shape(u, T, sub) /\ Ordered(u, T, sub) /\ \A z : SideOf(u, z) = SideOf(t, z)
  BY <1>1, PaintShape
<1>5. /\ bh \in [Nodes -> Nat] /\ bh[Sentinel] = 0 /\ t.color[Sentinel] = 0
      /\ \A z \in T, s \in Sides :
           bh[z] = bh[t.kid[s][z]] + (1 - t.color[z]) + (IF z = p /\ s = side THEN 1 ELSE 0)
  BY <1>1 DEF Heights, Clean
<1> DEFINE new == [z \in Nodes |-> IF z \in {p, w} THEN bh[z] - 1 ELSE bh[z]]
<1>6. bh[p] - 1 \in Nat /\ bh[w] - 1 \in Nat /\ t.color[p] \in {0, 1}
  BY <1>1, <1>2
<1>7. /\ new \in [Nodes -> Nat] /\ new[Sentinel] = 0 /\ new[p] = bh[p] - 1 /\ new[w] = bh[w] - 1
      /\ \A z \in Nodes \ {p, w} : new[z] = bh[z]
  BY <1>1, <1>2, <1>5, <1>6
<1> HIDE DEF new
<1>8. p # t.root => /\ t.parent[p] \in T /\ SideOf(t, p) \in Sides /\ t.kid[SideOf(t, p)][t.parent[p]] = p
                    /\ t.parent[p] # p
  BY <1>1, ParentFacts
<1>9. \A z \in T, s \in Sides : /\ t.kid[s][z] = p => p # t.root /\ z = t.parent[p] /\ s = SideOf(t, p) /\ z # p
                                /\ t.kid[s][z] = w => z = p /\ s = Opposite(side)
  <2>1. p # Sentinel /\ w # Sentinel
    BY <1>1, <1>2
  <2> QED
    BY <1>1, <2>1, KidFacts
<1>10. ASSUME NEW z \in T, NEW s \in Sides
       PROVE  new[z] = new[u.kid[s][z]] + (1 - u.color[z]) + Short(u, p, z, s)
  <2>0. /\ bh[z] = bh[t.kid[s][z]] + (1 - t.color[z]) + (IF z = p /\ s = side THEN 1 ELSE 0)
        /\ z \in Nodes /\ t.kid[s][z] \in Nodes /\ u.kid[s][z] = t.kid[s][z]
    BY <1>2, <1>3, <1>5
  <2>1. bh[z] \in Nat /\ bh[t.kid[s][z]] \in Nat /\ t.color[z] \in {0, 1}
    BY <1>2, <1>5, <2>0
  <2>2. CASE z = p
    <3>1. Short(u, p, z, s) = 0
      BY <1>3, <1>8, <2>2 DEF Short
    <3>2. u.color[z] = t.color[z] /\ new[z] = bh[p] - 1
      BY <1>1, <1>2, <1>3, <1>7, <2>2
    <3>3. CASE s = side
      <4>1. new[u.kid[s][z]] = bh[x] /\ u.color[z] = t.color[p]
        BY <1>1, <1>2, <1>7, <2>0, <2>2, <3>2, <3>3
      <4> QED
        BY <1>1, <1>6, <2>2, <3>1, <3>2, <4>1
    <3>4. CASE s # side
      <4>1. new[u.kid[s][z]] = bh[w] - 1 /\ u.color[z] = t.color[p]
        <5>1. s = Opposite(side)
          BY <1>1, <3>4, SideFacts
        <5> QED
          BY <1>1, <1>7, <2>0, <2>2, <3>2, <5>1
      <4> QED
        BY <1>1, <1>6, <2>2, <3>1, <3>2, <4>1
    <3> QED
      BY <3>3, <3>4
  <2>3. CASE z = w
    <3>1. t.kid[s][z] # p /\ t.kid[s][z] # w
      <4>1. w \in sub[p] /\ p # Sentinel
        BY <1>1, <1>2, KidFacts
      <4>2. t.kid[s][w] = p => w \notin sub[p]
        BY <1>1, <4>1, KidFacts
      <4> QED
        BY <1>1, <1>9, <2>3, <4>1, <4>2
    <3>2. Short(u, p, z, s) = 0
      BY <1>3, <1>4, <1>8, <3>1 DEF Short
    <3>3. new[u.kid[s][z]] = bh[t.kid[s][z]] /\ u.color[z] = 1 /\ new[z] = bh[z] - 1
      BY <1>2, <1>3, <1>7, <2>0, <2>3, <3>1
    <3> QED
      BY <1>1, <2>0, <2>1, <2>3, <3>2, <3>3
  <2>4. CASE z \notin {p, w}
    <3>1. t.kid[s][z] # w
      BY <1>9, <2>4
    <3>2. u.color[z] = t.color[z] /\ new[z] = bh[z]
      BY <1>3, <1>7, <2>0, <2>4
    <3>3. CASE t.kid[s][z] = p
      <4>1. Short(u, p, z, s) = 1
        BY <1>3, <1>4, <1>9, <3>3 DEF Short
      <4>2. new[u.kid[s][z]] = bh[p] - 1
        BY <1>7, <2>0, <3>3
      <4> QED
        BY <1>1, <2>0, <2>1, <2>4, <3>2, <3>3, <4>1, <4>2
    <3>4. CASE t.kid[s][z] # p
      <4>1. Short(u, p, z, s) = 0
        BY <1>3, <1>4, <1>8, <3>4 DEF Short
      <4>2. new[u.kid[s][z]] = bh[t.kid[s][z]]
        BY <1>7, <2>0, <3>1, <3>4
      <4> QED
        BY <2>0, <2>1, <2>4, <3>2, <4>1, <4>2
    <3> QED
      BY <3>3, <3>4
  <2> QED
    BY <2>2, <2>3, <2>4
<1>11. Even(u, T, new, p)
  BY <1>7, <1>10 DEF Even
<1>12. Reds(u, T, {p}, {p})
  <2>1. u.color[Sentinel] = 0
    BY <1>1, <1>2, <1>3, <1>5
  <2>2. ASSUME NEW z \in T, NEW s \in Sides, u.color[z] = 1, u.color[u.kid[s][z]] = 1, z # p
        PROVE  FALSE
    <3>1. u.kid[s][z] = t.kid[s][z] /\ t.kid[s][z] # w /\ t.kid[s][z] \in Nodes /\ z \in Nodes
      BY <1>2, <1>3, <1>9, <2>2
    <3>2. t.color[t.kid[s][z]] = 1
      BY <1>3, <2>2, <3>1
    <3>3. CASE z = w
      BY <3>2, <3>3
    <3>4. CASE z # w
      BY <1>1, <1>3, <2>2, <3>1, <3>2, <3>4 DEF Clean
    <3> QED
      BY <3>3, <3>4
  <2> QED
    BY <2>1, <2>2 DEF Reds
<1>13. u.color[u.root] = 0
  BY <1>1, <1>2, <1>3
<1>14. p # u.root => /\ u.parent[p] \in T /\ u.parent[p] # p /\ u.kid[SideOf(u, p)][u.parent[p]] = p
                     /\ SideOf(u, p) \in Sides
  BY <1>3, <1>4, <1>8
<1>15. DeleteGood(u, T, sub, new, p)
  BY <1>1, <1>4, <1>11, <1>12, <1>13, <1>14 DEF DeleteGood
<1> QED
  BY <1>15

\* A child knows its side when the other child is another node.
LEMMA SideIs ==
    ASSUME NEW u, NEW x, NEW p, NEW side \in Sides, u.parent[x] = p, u.kid[side][p] = x,
           u.kid[Opposite(side)][p] # x
    PROVE  SideOf(u, x) = side
BY DEF SideOf, Sides, Opposite

\* What is around the sibling.
LEMMA BesideNodes ==
    ASSUME NEW t, NEW T, NEW sub, NEW bh, NEW x, NEW p, NEW side, NEW w,
           Beside(t, T, sub, bh, x, p, side, w)
    PROVE  /\ T \subseteq Nodes /\ Sentinel \in Nodes /\ Sentinel \notin T /\ t.root \in Nodes
           /\ x \in Nodes /\ p \in Nodes /\ w \in Nodes
           /\ \A z \in T, s \in Sides : t.kid[s][z] \in Nodes /\ t.kid[s][z] \in T \cup {Sentinel}
           /\ \A z \in Nodes : t.color[z] \in {0, 1} /\ bh[z] \in Nat
           /\ \A s \in Sides : s = side \/ s = Opposite(side)
           /\ \A z \in T, s \in Sides : t.kid[s][z] = w => z = p
           /\ \A s \in Sides : bh[w] = bh[t.kid[s][w]] + (1 - t.color[w])
           /\ \A s \in Sides : t.kid[s][w] # p /\ t.kid[s][w] # w
<1>1. /\ Shape(t, T, sub) /\ Heights(t, T, bh, p, side) /\ x \in T \cup {Sentinel} /\ p \in T /\ w \in T
      /\ side \in Sides /\ Opposite(side) \in Sides /\ t.kid[Opposite(side)][p] = w /\ w # p
  BY DEF Beside
<1>2. /\ T \subseteq Nodes /\ Sentinel \in Nodes /\ Sentinel \notin T
      /\ \A z \in T, s \in Sides : t.kid[s][z] \in Nodes
      /\ \A z \in Nodes : t.color[z] \in {0, 1}
  BY <1>1, ShapeNodes
<1>3. t.root \in Nodes /\ \A z \in T, s \in Sides : t.kid[s][z] \in T \cup {Sentinel}
  BY <1>1 DEF Shape, Linked, Trees
<1>4. \A z \in T, s \in Sides : t.kid[s][z] = w => z = p
  <2>1. w # Sentinel
    BY <1>1, <1>2
  <2> QED
    BY <1>1, <2>1, KidFacts
<1>5. /\ bh \in [Nodes -> Nat]
      /\ \A z \in T, s \in Sides :
           bh[z] = bh[t.kid[s][z]] + (1 - t.color[z]) + (IF z = p /\ s = side THEN 1 ELSE 0)
  BY <1>1 DEF Heights
<1>6. ASSUME NEW s \in Sides PROVE bh[w] = bh[t.kid[s][w]] + (1 - t.color[w])
  <2>1. bh[w] = bh[t.kid[s][w]] + (1 - t.color[w]) + 0
    BY <1>1, <1>5
  <2>2. bh[t.kid[s][w]] \in Nat /\ t.color[w] \in {0, 1}
    BY <1>1, <1>2, <1>5
  <2> QED
    BY <2>1, <2>2
<1>7. ASSUME NEW s \in Sides PROVE t.kid[s][w] # p /\ t.kid[s][w] # w
  <2>1. w \in sub[p] /\ p # Sentinel
    BY <1>1, <1>2, KidFacts
  <2>2. t.kid[s][w] = p => w \notin sub[p]
    BY <1>1, <2>1, KidFacts
  <2> QED
    BY <1>1, <1>4, <2>1, <2>2
<1>8. \A s \in Sides : s = side \/ s = Opposite(side)
  BY <1>1, SideFacts
<1> QED
  BY <1>1, <1>2, <1>3, <1>4, <1>5, <1>6, <1>7, <1>8

\* A red sibling goes up, black; x has a black sibling then, and a red parent.
LEMMA DeleteLifts ==
    ASSUME NEW t, NEW T, NEW sub, NEW bh, NEW x, NEW p, NEW side, NEW w,
           Beside(t, T, sub, bh, x, p, side, w), t.color[w] = 1,
           NEW t1, Painted(t1, t, w, 0), NEW t2, Painted(t2, t1, p, 1),
           NEW u, u = rotate(t2, side, p)
    PROVE  /\ \E s2, b2 : Beside(u, T, s2, b2, x, p, side, u.kid[Opposite(side)][p])
           /\ u.color[p] = 1 /\ u.color[u.kid[Opposite(side)][p]] = 0
<1> DEFINE o == Opposite(side)
           i == t.kid[side][w]
           f == t.kid[o][w]
           new == RotatedSub(t2, sub, side, p, w)
<1>1. /\ Shape(t, T, sub) /\ Ordered(t, T, sub) /\ Heights(t, T, bh, p, side) /\ Clean(t, T)
      /\ x \in T \cup {Sentinel} /\ p \in T /\ w \in T /\ side \in Sides /\ o \in Sides /\ o # side
      /\ t.kid[side][p] = x /\ t.kid[o][p] = w /\ t.parent[x] = p
      /\ x # t.root /\ x # p /\ w # p /\ w # x /\ w # t.root
      /\ t.color[x] = 0 /\ t.color[t.root] = 0
      /\ bh[w] = bh[x] + 1 /\ bh[p] = bh[w] + (1 - t.color[p])
      /\ bh[x] \in Nat /\ bh[w] \in Nat /\ bh[p] \in Nat
  BY DEF Beside
<1>2. /\ T \subseteq Nodes /\ Sentinel \in Nodes /\ Sentinel \notin T /\ t.root \in Nodes
      /\ x \in Nodes /\ p \in Nodes /\ w \in Nodes
      /\ \A z \in T, s \in Sides : t.kid[s][z] \in Nodes /\ t.kid[s][z] \in T \cup {Sentinel}
      /\ \A z \in Nodes : t.color[z] \in {0, 1} /\ bh[z] \in Nat
      /\ \A s \in Sides : s = side \/ s = o
      /\ \A z \in T, s \in Sides : t.kid[s][z] = w => z = p
      /\ \A s \in Sides : bh[w] = bh[t.kid[s][w]] + (1 - t.color[w])
      /\ \A s \in Sides : t.kid[s][w] # p /\ t.kid[s][w] # w
  BY BesideNodes
<1>3. /\ t.color[Sentinel] = 0 /\ t.color[p] = 0 /\ t.color[i] = 0 /\ t.color[f] = 0
      /\ \A z \in T, s \in Sides : ~(t.color[z] = 1 /\ t.color[t.kid[s][z]] = 1)
  <2>1. /\ t.color[Sentinel] = 0
        /\ \A z \in T, s \in Sides : ~(t.color[z] = 1 /\ t.color[t.kid[s][z]] = 1)
    BY <1>1 DEF Clean
  <2>2. t.color[p] \in {0, 1} /\ t.color[i] \in {0, 1} /\ t.color[f] \in {0, 1}
    BY <1>1, <1>2
  <2> QED
    BY <1>1, <2>1, <2>2
<1>4. /\ bh \in [Nodes -> Nat] /\ bh[Sentinel] = 0
      /\ \A z \in T, s \in Sides :
           bh[z] = bh[t.kid[s][z]] + (1 - t.color[z]) + (IF z = p /\ s = side THEN 1 ELSE 0)
  BY <1>1 DEF Heights
<1>5. bh[i] = bh[w] /\ bh[f] = bh[w] /\ i \in T /\ f \in Nodes /\ i # p /\ i # w /\ f # p /\ f # w
  <2>1. bh[i] \in Nat /\ bh[f] \in Nat /\ i \in T \cup {Sentinel} /\ f \in Nodes
    BY <1>1, <1>2
  <2>2. bh[w] = bh[i] + (1 - t.color[w]) /\ bh[w] = bh[f] + (1 - t.color[w])
    BY <1>1, <1>2
  <2>3. bh[i] = bh[w] /\ bh[f] = bh[w]
    BY <1>1, <2>1, <2>2
  <2>4. i # Sentinel
    BY <1>1, <1>4, <2>3
  <2> QED
    BY <1>1, <1>2, <2>1, <2>3, <2>4
<1>6. i # x
  BY <1>1, <1>5
<1>7. /\ Shape(t2, T, sub) /\ Ordered(t2, T, sub)
      /\ t2.root = t.root /\ t2.kid = t.kid /\ t2.parent = t.parent
      /\ t2.color[w] = 0 /\ t2.color[p] = 1 /\ \A z \in Nodes \ {p, w} : t2.color[z] = t.color[z]
  <2>1. Shape(t1, T, sub) /\ Ordered(t1, T, sub)
    BY <1>1, PaintShape
  <2>2. Shape(t2, T, sub) /\ Ordered(t2, T, sub)
    BY <2>1, PaintShape
  <2> QED
    BY <1>1, <1>2, <2>2 DEF Painted
<1>8. Turned(u, t2, T, side, p, w) /\ Shape(u, T, new) /\ Ordered(u, T, new)
  <2>1. w = t2.kid[Opposite(side)][p]
    BY <1>1, <1>7
  <2> QED
    BY <1>1, <1>7, <2>1, RotateTurns
<1> HIDE DEF new
<1>9. /\ u.color = t2.color /\ u.root = IF p = t.root THEN w ELSE t.root
      /\ u.kid[side][p] = x /\ u.kid[o][p] = i /\ u.kid[side][w] = p /\ u.kid[o][w] = f
      /\ \A z \in T : z \notin {p, w} /\ z # i => u.parent[z] = t.parent[z]
      /\ u.parent[Sentinel] = t.parent[Sentinel]
      /\ \A z \in T \ {p, w}, s \in Sides :
           u.kid[s][z] = IF t.kid[s][z] = p THEN w ELSE t.kid[s][z]
  BY <1>1, <1>7, <1>8 DEF Turned
<1>10. u.parent[x] = p
  BY <1>1, <1>6, <1>9
<1> HIDE DEF i, f, o
<1>11. SideOf(u, x) = side
  BY <1>1, <1>6, <1>9, <1>10, SideIs DEF o
<1> DEFINE nb == [z \in Nodes |-> IF z = p THEN bh[w] ELSE IF z = w THEN bh[p] ELSE bh[z]]
<1>12. /\ nb \in [Nodes -> Nat] /\ nb[Sentinel] = 0 /\ nb[p] = bh[w] /\ nb[w] = bh[p]
       /\ \A z \in Nodes \ {p, w} : nb[z] = bh[z]
  BY <1>1, <1>2, <1>4
<1> HIDE DEF nb
<1>13. nb[i] = bh[w] /\ nb[f] = bh[w] /\ nb[x] = bh[x] /\ i \in Nodes
  BY <1>1, <1>2, <1>5, <1>12
<1>14. u.color[p] = 1 /\ u.color[w] = 0 /\ u.color[i] = 0 /\ u.color[f] = 0 /\ u.color[x] = 0
       /\ u.color[Sentinel] = 0
  BY <1>1, <1>2, <1>3, <1>5, <1>7, <1>9, <1>13
<1>15. bh[p] = bh[w] + 1
  BY <1>1, <1>3
<1>16. ASSUME NEW z \in T, NEW s \in Sides
       PROVE  nb[z] = nb[u.kid[s][z]] + (1 - u.color[z]) + (IF z = p /\ s = side THEN 1 ELSE 0)
  <2>1. CASE z = p
    <3>1. CASE s = side
      <4>1. nb[u.kid[s][z]] = bh[x] /\ nb[z] = bh[w] /\ u.color[z] = 1
        BY <1>9, <1>12, <1>13, <1>14, <2>1, <3>1
      <4> QED
        BY <1>1, <2>1, <3>1, <4>1
    <3>2. CASE s = o
      <4>1. nb[u.kid[s][z]] = bh[w] /\ nb[z] = bh[w] /\ u.color[z] = 1
        BY <1>9, <1>12, <1>13, <1>14, <2>1, <3>2
      <4> QED
        BY <1>1, <2>1, <3>2, <4>1
    <3> QED
      BY <1>2, <3>1, <3>2
  <2>2. CASE z = w
    <3>1. nb[u.kid[s][z]] = bh[w] /\ nb[z] = bh[w] + 1 /\ u.color[z] = 0
      BY <1>2, <1>9, <1>12, <1>13, <1>14, <1>15, <2>2
    <3> QED
      BY <1>1, <2>2, <3>1
  <2>3. CASE z \notin {p, w}
    <3>1. nb[u.kid[s][z]] = bh[t.kid[s][z]]
      <4>1. t.kid[s][z] # w /\ t.kid[s][z] \in Nodes
        BY <1>2, <2>3
      <4> QED
        BY <1>9, <1>12, <2>3, <4>1
    <3>2. nb[z] = bh[z] /\ u.color[z] = t.color[z]
      BY <1>2, <1>7, <1>9, <1>12, <2>3
    <3> QED
      BY <1>4, <2>3, <3>1, <3>2
  <2> QED
    BY <2>1, <2>2, <2>3
<1>17. Heights(u, T, nb, p, side)
  BY <1>12, <1>16 DEF Heights
<1>18. Clean(u, T)
  <2>1. ASSUME NEW z \in T, NEW s \in Sides, u.color[z] = 1, u.color[u.kid[s][z]] = 1
        PROVE  FALSE
    <3>1. CASE z = p
      BY <1>2, <1>9, <1>14, <2>1, <3>1
    <3>2. CASE z = w
      BY <1>14, <2>1, <3>2
    <3>3. CASE z \notin {p, w}
      <4>1. t.kid[s][z] # w /\ t.kid[s][z] \in Nodes /\ z \in Nodes
        BY <1>2, <3>3
      <4>2. t.kid[s][z] # p
        BY <1>9, <1>14, <2>1, <3>3
      <4>3. u.kid[s][z] = t.kid[s][z] /\ t.color[z] = 1 /\ t.color[t.kid[s][z]] = 1
        BY <1>7, <1>9, <2>1, <3>3, <4>1, <4>2
      <4> QED
        BY <1>3, <4>3
    <3> QED
      BY <3>1, <3>2, <3>3
  <2> QED
    BY <1>14, <2>1 DEF Clean
<1>19. u.color[u.root] = 0 /\ x # u.root /\ i # u.root
  <2>1. u.color[u.root] = 0 /\ x # u.root
    BY <1>1, <1>2, <1>7, <1>9, <1>14
  <2>2. i # t.root
    <3>1. i # Sentinel
      BY <1>2, <1>5
    <3> QED
      BY <1>1, <3>1, KidFacts DEF i
  <2> QED
    BY <1>5, <1>9, <2>1, <2>2
<1>20. nb[i] = nb[x] + 1 /\ nb[p] = nb[i] + (1 - u.color[p]) /\ nb[x] \in Nat /\ nb[i] \in Nat /\ nb[p] \in Nat
  BY <1>1, <1>12, <1>13, <1>14
<1>21. Beside(u, T, new, nb, x, p, side, i)
  BY <1>1, <1>5, <1>6, <1>8, <1>9, <1>10, <1>11, <1>14, <1>17, <1>18, <1>19, <1>20 DEF Beside, o
<1> QED
  BY <1>9, <1>14, <1>21 DEF o

\* A red near child of the sibling takes the sibling's place; the far child of x's
\* sibling is red then.
LEMMA DeleteRedFar ==
    ASSUME NEW t, NEW T, NEW sub, NEW bh, NEW x, NEW p, NEW side, NEW w,
           Beside(t, T, sub, bh, x, p, side, w), t.color[w] = 0,
           NEW n, n = t.kid[side][w], t.color[n] = 1, t.color[t.kid[Opposite(side)][w]] = 0,
           NEW t1, Painted(t1, t, n, 0), NEW t2, Painted(t2, t1, w, 1),
           NEW u, u = rotate(t2, Opposite(side), w)
    PROVE  /\ \E s2, b2 : Beside(u, T, s2, b2, x, p, side, n)
           /\ n = u.kid[Opposite(side)][p] /\ u.color[n] = 0
           /\ u.color[u.kid[Opposite(side)][n]] = 1
<1> DEFINE o == Opposite(side)
           f == t.kid[o][w]
           a == t.kid[o][n]
           b == t.kid[side][n]
           new == RotatedSub(t2, sub, o, w, n)
<1>1. /\ Shape(t, T, sub) /\ Ordered(t, T, sub) /\ Heights(t, T, bh, p, side) /\ Clean(t, T)
      /\ x \in T \cup {Sentinel} /\ p \in T /\ w \in T /\ side \in Sides /\ o \in Sides /\ o # side
      /\ t.kid[side][p] = x /\ t.kid[o][p] = w /\ t.parent[x] = p
      /\ x # t.root /\ x # p /\ w # p /\ w # x /\ w # t.root
      /\ t.color[x] = 0 /\ t.color[t.root] = 0
      /\ bh[w] = bh[x] + 1 /\ bh[p] = bh[w] + (1 - t.color[p])
      /\ bh[x] \in Nat /\ bh[w] \in Nat /\ bh[p] \in Nat
  BY DEF Beside
<1>2. /\ T \subseteq Nodes /\ Sentinel \in Nodes /\ Sentinel \notin T /\ t.root \in Nodes
      /\ x \in Nodes /\ p \in Nodes /\ w \in Nodes
      /\ \A z \in T, s \in Sides : t.kid[s][z] \in Nodes /\ t.kid[s][z] \in T \cup {Sentinel}
      /\ \A z \in Nodes : t.color[z] \in {0, 1} /\ bh[z] \in Nat
      /\ \A s \in Sides : s = side \/ s = o
      /\ \A z \in T, s \in Sides : t.kid[s][z] = w => z = p
      /\ \A s \in Sides : bh[w] = bh[t.kid[s][w]] + (1 - t.color[w])
      /\ \A s \in Sides : t.kid[s][w] # p /\ t.kid[s][w] # w
  BY BesideNodes
<1>e. x # Sentinel => \A z \in T, r \in Sides : t.kid[r][z] = x => z = p
  <2> HIDE DEF o, f, a, b, new
  <2>1. p \in T /\ side \in Sides /\ x = t.kid[side][p] /\ Shape(t, T, sub)
    BY <1>1
  <2> QED
    BY <2>1, KidFacts
<1>3. /\ t.color[Sentinel] = 0
      /\ \A z \in T, s \in Sides : ~(t.color[z] = 1 /\ t.color[t.kid[s][z]] = 1)
  BY <1>1 DEF Clean
<1>4. /\ bh \in [Nodes -> Nat] /\ bh[Sentinel] = 0
      /\ \A z \in T, s \in Sides :
           bh[z] = bh[t.kid[s][z]] + (1 - t.color[z]) + (IF z = p /\ s = side THEN 1 ELSE 0)
  BY <1>1 DEF Heights
<1>5. n \in T /\ n # Sentinel /\ n # p /\ n # w /\ n # x /\ n # f
  BY <1>1, <1>2, <1>3
<1>6. n # t.root /\ \A z \in T, s \in Sides : t.kid[s][z] = n => z = w
  BY <1>1, <1>5, KidFacts
<1>7. Opposite(o) = side
  BY <1>1, SideFacts
<1>8. /\ Shape(t2, T, sub) /\ Ordered(t2, T, sub)
      /\ t2.root = t.root /\ t2.kid = t.kid /\ t2.parent = t.parent
      /\ t2.color[n] = 0 /\ t2.color[w] = 1 /\ \A z \in Nodes \ {n, w} : t2.color[z] = t.color[z]
  <2>1. Shape(t1, T, sub) /\ Ordered(t1, T, sub)
    BY <1>1, PaintShape
  <2>2. Shape(t2, T, sub) /\ Ordered(t2, T, sub)
    BY <2>1, PaintShape
  <2> QED
    BY <1>2, <1>5, <2>2 DEF Painted
<1>9. Turned(u, t2, T, o, w, n) /\ Shape(u, T, new) /\ Ordered(u, T, new)
  <2>1. n = t2.kid[Opposite(o)][w]
    BY <1>7, <1>8
  <2> QED
    BY <1>1, <1>5, <1>8, <2>1, RotateTurns
<1> HIDE DEF new
<1>10. /\ u.color = t2.color /\ u.root = t.root
       /\ u.kid[o][w] = f /\ u.kid[side][w] = a /\ u.kid[o][n] = w /\ u.kid[side][n] = b
       /\ a \notin {w, n} /\ b \notin {w, n} /\ f \notin {w, n}
       /\ \A z \in T : z \notin {w, n} /\ z # a => u.parent[z] = t.parent[z]
       /\ u.parent[Sentinel] = t.parent[Sentinel]
       /\ \A z \in T \ {w, n}, s \in Sides :
            u.kid[s][z] = IF t.kid[s][z] = w THEN n ELSE t.kid[s][z]
  BY <1>1, <1>7, <1>8, <1>9 DEF Turned
<1>11. u.kid[side][p] = x /\ u.kid[o][p] = n
  BY <1>1, <1>5, <1>10
<1>12. u.parent[x] = p
  <2>1. x \in T => x # a
    <3> SUFFICES ASSUME x \in T, x = a PROVE FALSE
      OBVIOUS
    <3>1. x # Sentinel
      BY <1>2
    <3>2. \A z \in T, r \in Sides : t.kid[r][z] = x => z = p
      BY <1>e, <3>1
    <3>3. t.kid[o][n] = x
      OBVIOUS
    <3> QED
      BY <1>1, <1>5, <3>2, <3>3
  <2> QED
    BY <1>1, <1>5, <1>10, <2>1
<1>a. a \in Nodes /\ b \in Nodes /\ f \in Nodes
  BY <1>1, <1>2, <1>5
<1>b. /\ t.color[a] = 0 /\ t.color[b] = 0
  BY <1>1, <1>2, <1>3, <1>5, <1>a
<1>c. bh[w] = bh[n] + 1 /\ bh[f] = bh[n] /\ bh[a] = bh[n] /\ bh[b] = bh[n] /\ bh[n] \in Nat
  <2>1. bh[n] \in Nat /\ bh[f] \in Nat /\ bh[a] \in Nat /\ bh[b] \in Nat
    BY <1>2, <1>5, <1>a
  <2>2. bh[w] = bh[n] + (1 - t.color[w]) /\ bh[w] = bh[f] + (1 - t.color[w])
    BY <1>1, <1>2
  <2>3. bh[n] = bh[a] + (1 - t.color[n]) + 0 /\ bh[n] = bh[b] + (1 - t.color[n]) + 0
    BY <1>1, <1>4, <1>5
  <2> QED
    BY <1>1, <2>1, <2>2, <2>3
<1>d. t.color[f] = 0
  OBVIOUS
<1> HIDE DEF f, a, b, o
<1>13. SideOf(u, x) = side
  BY <1>1, <1>5, <1>11, <1>12, SideIs DEF o
<1> DEFINE nb == [z \in Nodes |-> IF z = n THEN bh[w] ELSE IF z = w THEN bh[n] ELSE bh[z]]
<1>14. /\ nb \in [Nodes -> Nat] /\ nb[Sentinel] = 0 /\ nb[n] = bh[w] /\ nb[w] = bh[n]
       /\ \A z \in Nodes \ {n, w} : nb[z] = bh[z]
  BY <1>1, <1>2, <1>4, <1>5, <1>c
<1> HIDE DEF nb
<1>15. nb[a] = bh[n] /\ nb[b] = bh[n] /\ nb[f] = bh[n] /\ nb[x] = bh[x] /\ nb[p] = bh[p]
  BY <1>1, <1>2, <1>5, <1>10, <1>14, <1>a, <1>c
<1>16. u.color[n] = 0 /\ u.color[w] = 1 /\ u.color[a] = 0 /\ u.color[f] = 0 /\ u.color[x] = 0
       /\ u.color[p] = t.color[p] /\ u.color[Sentinel] = 0 /\ u.color[u.root] = 0
  BY <1>1, <1>2, <1>3, <1>5, <1>6, <1>8, <1>10, <1>a, <1>b, <1>d
<1>17. ASSUME NEW z \in T, NEW s \in Sides
       PROVE  nb[z] = nb[u.kid[s][z]] + (1 - u.color[z]) + (IF z = p /\ s = side THEN 1 ELSE 0)
  <2>1. CASE z = n
    <3>1. nb[u.kid[s][z]] = bh[n] /\ nb[z] = bh[n] + 1 /\ u.color[z] = 0 /\ z # p
      BY <1>2, <1>5, <1>10, <1>14, <1>15, <1>16, <1>c, <2>1
    <3> QED
      BY <1>c, <3>1
  <2>2. CASE z = w
    <3>1. nb[u.kid[s][z]] = bh[n] /\ nb[z] = bh[n] /\ u.color[z] = 1 /\ z # p
      BY <1>1, <1>2, <1>10, <1>14, <1>15, <1>16, <2>2
    <3> QED
      BY <1>c, <3>1
  <2>3. CASE z \notin {n, w}
    <3>1. nb[u.kid[s][z]] = bh[t.kid[s][z]]
      <4>1. t.kid[s][z] # n /\ t.kid[s][z] \in Nodes
        BY <1>2, <1>6, <2>3
      <4> QED
        BY <1>10, <1>14, <2>3, <4>1
    <3>2. nb[z] = bh[z] /\ u.color[z] = t.color[z]
      BY <1>2, <1>8, <1>10, <1>14, <2>3
    <3> QED
      BY <1>4, <2>3, <3>1, <3>2
  <2> QED
    BY <2>1, <2>2, <2>3
<1>18. Heights(u, T, nb, p, side)
  BY <1>14, <1>17 DEF Heights
<1>19. Clean(u, T)
  <2>1. ASSUME NEW z \in T, NEW s \in Sides, u.color[z] = 1, u.color[u.kid[s][z]] = 1
        PROVE  FALSE
    <3>1. CASE z = n
      BY <1>16, <2>1, <3>1
    <3>2. CASE z = w
      BY <1>2, <1>10, <1>16, <2>1, <3>2
    <3>3. CASE z \notin {n, w}
      <4>1. t.kid[s][z] # n /\ t.kid[s][z] \in Nodes /\ z \in Nodes
        BY <1>2, <1>6, <3>3
      <4>2. t.kid[s][z] # w
        BY <1>10, <1>16, <2>1, <3>3
      <4>3. u.kid[s][z] = t.kid[s][z] /\ t.color[z] = 1 /\ t.color[t.kid[s][z]] = 1
        BY <1>8, <1>10, <2>1, <3>3, <4>1, <4>2
      <4> QED
        BY <1>3, <4>3
    <3> QED
      BY <3>1, <3>2, <3>3
  <2> QED
    BY <1>16, <2>1 DEF Clean
<1>20. nb[n] = nb[x] + 1 /\ nb[p] = nb[n] + (1 - u.color[p]) /\ nb[x] \in Nat /\ nb[n] \in Nat /\ nb[p] \in Nat
  BY <1>1, <1>14, <1>15, <1>16
<1>21. Beside(u, T, new, nb, x, p, side, n)
  BY <1>1, <1>5, <1>6, <1>9, <1>10, <1>11, <1>12, <1>13, <1>16, <1>18, <1>19, <1>20 DEF Beside, o
<1> QED
  BY <1>10, <1>11, <1>16, <1>21 DEF o

\* The sibling goes up, p and the red far child are painted black, and nothing is
\* short any more.
LEMMA DeleteRefills ==
    ASSUME NEW t, NEW T, NEW sub, NEW bh, NEW x, NEW p, NEW side, NEW w,
           Beside(t, T, sub, bh, x, p, side, w), t.color[w] = 0,
           NEW f, f = t.kid[Opposite(side)][w], t.color[f] = 1,
           NEW t1, Painted(t1, t, w, t.color[p]), NEW t2, Painted(t2, t1, p, 0),
           NEW t3, Painted(t3, t2, f, 0), NEW u, u = rotate(t3, side, p)
    PROVE  \E s2, b2 : DeleteGood(u, T, s2, b2, u.root)
<1> DEFINE o == Opposite(side)
           i == t.kid[side][w]
           new == RotatedSub(t3, sub, side, p, w)
<1>1. /\ Shape(t, T, sub) /\ Ordered(t, T, sub) /\ Heights(t, T, bh, p, side) /\ Clean(t, T)
      /\ x \in T \cup {Sentinel} /\ p \in T /\ w \in T /\ side \in Sides /\ o \in Sides /\ o # side
      /\ t.kid[side][p] = x /\ t.kid[o][p] = w
      /\ x # p /\ w # p /\ w # x /\ t.color[x] = 0
      /\ bh[w] = bh[x] + 1 /\ bh[p] = bh[w] + (1 - t.color[p])
      /\ bh[x] \in Nat /\ bh[w] \in Nat /\ bh[p] \in Nat
  BY DEF Beside
<1>2. /\ T \subseteq Nodes /\ Sentinel \in Nodes /\ Sentinel \notin T
      /\ x \in Nodes /\ p \in Nodes /\ w \in Nodes
      /\ \A z \in T, s \in Sides : t.kid[s][z] \in Nodes /\ t.kid[s][z] \in T \cup {Sentinel}
      /\ \A z \in Nodes : t.color[z] \in {0, 1} /\ bh[z] \in Nat
      /\ \A s \in Sides : s = side \/ s = o
      /\ \A z \in T, s \in Sides : t.kid[s][z] = w => z = p
      /\ \A s \in Sides : bh[w] = bh[t.kid[s][w]] + (1 - t.color[w])
      /\ \A s \in Sides : t.kid[s][w] # p /\ t.kid[s][w] # w
  BY BesideNodes
<1>3. /\ t.color[Sentinel] = 0
      /\ \A z \in T, s \in Sides : ~(t.color[z] = 1 /\ t.color[t.kid[s][z]] = 1)
  BY <1>1 DEF Clean
<1>4. /\ bh \in [Nodes -> Nat] /\ bh[Sentinel] = 0
      /\ \A z \in T, s \in Sides :
           bh[z] = bh[t.kid[s][z]] + (1 - t.color[z]) + (IF z = p /\ s = side THEN 1 ELSE 0)
  BY <1>1 DEF Heights
<1>5. f \in T /\ f # Sentinel /\ f # p /\ f # w /\ f # x /\ f \in Nodes
  BY <1>1, <1>2, <1>3
<1>6. /\ \A z \in T, s \in Sides : t.kid[s][z] = f => z = w /\ s = o
      /\ f # i
  BY <1>1, <1>5, KidFacts
<1>7. /\ Shape(t3, T, sub) /\ Ordered(t3, T, sub)
      /\ t3.root = t.root /\ t3.kid = t.kid /\ t3.parent = t.parent
      /\ t3.color[w] = t.color[p] /\ t3.color[p] = 0 /\ t3.color[f] = 0
      /\ \A z \in Nodes \ {p, w, f} : t3.color[z] = t.color[z]
  <2>1. Shape(t1, T, sub) /\ Ordered(t1, T, sub)
    BY <1>1, PaintShape
  <2>2. Shape(t2, T, sub) /\ Ordered(t2, T, sub)
    BY <2>1, PaintShape
  <2>3. Shape(t3, T, sub) /\ Ordered(t3, T, sub)
    BY <2>2, PaintShape
  <2> QED
    BY <1>1, <1>2, <1>5, <2>3 DEF Painted
<1>8. Turned(u, t3, T, side, p, w) /\ Shape(u, T, new) /\ Ordered(u, T, new)
  <2>1. w = t3.kid[Opposite(side)][p]
    BY <1>1, <1>7
  <2> QED
    BY <1>1, <1>7, <2>1, RotateTurns
<1> HIDE DEF new
<1>9. /\ u.color = t3.color
      /\ u.kid[side][p] = x /\ u.kid[o][p] = i /\ u.kid[side][w] = p /\ u.kid[o][w] = f
      /\ \A z \in T \ {p, w}, s \in Sides :
           u.kid[s][z] = IF t.kid[s][z] = p THEN w ELSE t.kid[s][z]
  BY <1>1, <1>7, <1>8 DEF Turned
<1>10. i \in Nodes /\ i # p /\ i # w
  BY <1>1, <1>2
<1>11. bh[w] = bh[i] + 1 /\ bh[w] = bh[f] + 1 /\ bh[i] \in Nat /\ bh[f] \in Nat /\ t.color[p] \in {0, 1}
  <2>1. bh[i] \in Nat /\ bh[f] \in Nat
    BY <1>2, <1>5, <1>10
  <2>2. bh[w] = bh[i] + (1 - t.color[w]) /\ bh[w] = bh[f] + (1 - t.color[w])
    BY <1>1, <1>2
  <2> QED
    BY <1>2, <2>1, <2>2
<1> HIDE DEF i, o
<1> DEFINE nb == [z \in Nodes |-> IF z = p THEN bh[w] ELSE IF z = w THEN bh[p]
                                  ELSE IF z = f THEN bh[f] + 1 ELSE bh[z]]
<1>12. /\ nb \in [Nodes -> Nat] /\ nb[Sentinel] = 0 /\ nb[p] = bh[w] /\ nb[w] = bh[p] /\ nb[f] = bh[f] + 1
       /\ \A z \in Nodes \ {p, w, f} : nb[z] = bh[z]
  BY <1>1, <1>2, <1>4, <1>5, <1>11
<1> HIDE DEF nb
<1>13. nb[i] = bh[i] /\ nb[x] = bh[x]
  BY <1>1, <1>2, <1>5, <1>6, <1>10, <1>12
<1>14. u.color[w] = t.color[p] /\ u.color[p] = 0 /\ u.color[f] = 0
       /\ \A z \in Nodes \ {p, w, f} : u.color[z] = t.color[z]
  BY <1>7, <1>9
<1>15. ASSUME NEW z \in T, NEW s \in Sides PROVE nb[z] = nb[u.kid[s][z]] + (1 - u.color[z])
  <2>1. CASE z = p
    <3>1. nb[u.kid[s][z]] + 1 = bh[w] /\ nb[z] = bh[w] /\ u.color[z] = 0
      BY <1>1, <1>2, <1>9, <1>11, <1>12, <1>13, <1>14, <2>1
    <3>2. nb[u.kid[s][z]] \in Nat
      BY <1>1, <1>2, <1>9, <1>11, <1>13, <2>1
    <3> QED
      BY <3>1, <3>2
  <2>2. CASE z = w
    <3>1. nb[u.kid[s][z]] = bh[w] /\ nb[z] = bh[p] /\ u.color[z] = t.color[p]
      BY <1>2, <1>9, <1>11, <1>12, <1>14, <2>2
    <3> QED
      BY <1>1, <1>11, <3>1
  <2>3. CASE z \notin {p, w}
    <3>1. t.kid[s][z] \notin {w, f} /\ t.kid[s][z] \in Nodes /\ z \in Nodes
      BY <1>2, <1>6, <2>3
    <3>2. nb[u.kid[s][z]] = bh[t.kid[s][z]]
      BY <1>9, <1>12, <2>3, <3>1
    <3>3. bh[z] = bh[t.kid[s][z]] + (1 - t.color[z]) + 0 /\ bh[t.kid[s][z]] \in Nat /\ t.color[z] \in {0, 1}
      BY <1>2, <1>4, <2>3, <3>1
    <3>4. CASE z = f
      <4>1. nb[z] = bh[z] + 1 /\ u.color[z] = 0 /\ t.color[z] = 1
        BY <1>12, <1>14, <3>4
      <4> QED
        BY <3>2, <3>3, <4>1
    <3>5. CASE z # f
      <4>1. nb[z] = bh[z] /\ u.color[z] = t.color[z]
        BY <1>12, <1>14, <2>3, <3>1, <3>5
      <4> QED
        BY <3>2, <3>3, <4>1
    <3> QED
      BY <3>4, <3>5
  <2> QED
    BY <2>1, <2>2, <2>3
<1>16. Even(u, T, nb, u.root)
  BY <1>8, <1>12, <1>15, EvenOf, ShapeNodes
<1>17. Reds(u, T, {u.root}, {u.root})
  <2>1. ASSUME NEW z \in T, NEW s \in Sides, u.color[z] = 1, u.color[u.kid[s][z]] = 1
        PROVE  FALSE
    <3>1. CASE z = p
      BY <1>14, <2>1, <3>1
    <3>2. CASE z = w
      BY <1>2, <1>9, <1>14, <2>1, <3>2
    <3>3. CASE z \notin {p, w}
      <4>1. t.kid[s][z] \notin {w, f} /\ t.kid[s][z] \in Nodes /\ z \in Nodes /\ z # f
        BY <1>2, <1>6, <1>14, <2>1, <3>3
      <4>2. t.color[z] = 1
        BY <1>14, <2>1, <3>3, <4>1
      <4>3. t.color[t.kid[s][z]] = 1
        <5>1. CASE t.kid[s][z] = p
          BY <1>9, <1>14, <2>1, <3>3, <5>1
        <5>2. CASE t.kid[s][z] # p
          BY <1>9, <1>14, <2>1, <3>3, <4>1, <5>2
        <5> QED
          BY <5>1, <5>2
      <4> QED
        BY <1>3, <4>2, <4>3
    <3> QED
      BY <3>1, <3>2, <3>3
  <2>2. u.color[Sentinel] = 0
    BY <1>1, <1>2, <1>3, <1>5, <1>14
  <2> QED
    BY <2>1, <2>2 DEF Reds
<1>18. u.root \in T \cup {Sentinel}
  BY <1>8 DEF Shape, Linked
<1>19. DeleteGood(u, T, new, nb, u.root)
  BY <1>8, <1>16, <1>17, <1>18 DEF DeleteGood
<1> QED
  BY <1>19

\* LiftSibling leaves x with a black sibling.
LEMMA LiftGood ==
    ASSUME NEW t, NEW T, NEW sub, NEW bh, NEW x, NEW p, NEW side, NEW w,
           Beside(t, T, sub, bh, x, p, side, w), NEW u, u = LiftSibling(t, p, side)
    PROVE  /\ \E s2, b2 : Beside(u, T, s2, b2, x, p, side, u.kid[Opposite(side)][p])
           /\ u.color[u.kid[Opposite(side)][p]] = 0
           /\ u = t \/ u.color[p] = 1
<1>1. w = t.kid[Opposite(side)][p] /\ Shape(t, T, sub)
  BY DEF Beside
<1>2. t \in Trees /\ p \in Nodes /\ w \in Nodes /\ t.color[w] \in {0, 1}
  BY <1>1, BesideNodes DEF Shape
<1>3. CASE t.color[w] = 1
  <2> DEFINE t1 == Paint(t, w, Black)
             t2 == Paint(t1, p, Red)
  <2>1. u = rotate(t2, side, p)
    BY <1>1, <1>3, Zenon DEF LiftSibling, IsRed, Red
  <2>2. Painted(t1, t, w, 0)
    BY <1>2, PaintWrites DEF Black
  <2> HIDE DEF t1
  <2>3. Painted(t2, t1, p, 1)
    BY <1>2, <2>2, PaintWrites DEF Painted, Red
  <2> HIDE DEF t2
  <2> QED
    BY <1>3, <2>1, <2>2, <2>3, DeleteLifts
<1>4. CASE t.color[w] = 0
  <2>0. t.color[w] # 1
    BY <1>4
  <2>1. u = t
    BY <1>1, <2>0, Zenon DEF LiftSibling, IsRed, Red
  <2> QED
    BY <1>1, <1>4, <2>1
<1> QED
  BY <1>2, <1>3, <1>4

\* RedFar leaves x's sibling black and its far child red.
LEMMA RedFarGood ==
    ASSUME NEW t, NEW T, NEW sub, NEW bh, NEW x, NEW p, NEW side, NEW w,
           Beside(t, T, sub, bh, x, p, side, w), t.color[w] = 0,
           \E s \in Sides : t.color[t.kid[s][w]] = 1, NEW u, u = RedFar(t, p, side)
    PROVE  /\ \E s2, b2 : Beside(u, T, s2, b2, x, p, side, u.kid[Opposite(side)][p])
           /\ u.color[u.kid[Opposite(side)][p]] = 0
           /\ u.color[u.kid[Opposite(side)][u.kid[Opposite(side)][p]]] = 1
<1> DEFINE o == Opposite(side)
           f == t.kid[o][w]
           n == t.kid[side][w]
<1>1. /\ w = t.kid[o][p] /\ Shape(t, T, sub) /\ side \in Sides /\ o \in Sides /\ w \in T
      /\ \A s \in Sides : s = side \/ s = o
  <2>1. /\ w = t.kid[o][p] /\ Shape(t, T, sub) /\ side \in Sides /\ o \in Sides /\ w \in T
    BY DEF Beside
  <2> QED
    BY <2>1, SideFacts
<1>2. t \in Trees /\ p \in Nodes /\ w \in Nodes /\ t.color[f] \in {0, 1} /\ n \in Nodes /\ t.color[n] \in {0, 1}
  BY <1>1, BesideNodes DEF Shape
<1>3. CASE t.color[f] = 1
  <2>1. u = t
    BY <1>1, <1>3, Zenon DEF RedFar, IsRed, Red
  <2> QED
    BY <1>1, <1>3, <2>1
<1>4. CASE t.color[f] = 0
  <2> DEFINE t1 == Paint(t, n, Black)
             t2 == Paint(t1, w, Red)
  <2>0. t.color[f] # 1
    BY <1>4
  <2>1. u = rotate(t2, o, w)
    BY <1>1, <2>0, Zenon DEF RedFar, IsRed, Red
  <2>2. t.color[n] = 1
    BY <1>1, <1>2, <1>4
  <2>3. Painted(t1, t, n, 0)
    BY <1>2, PaintWrites DEF Black
  <2> HIDE DEF t1
  <2>4. Painted(t2, t1, w, 1)
    BY <1>2, <2>3, PaintWrites DEF Painted, Red
  <2> HIDE DEF t2, n
  <2>5. n = t.kid[side][w] /\ t.color[t.kid[Opposite(side)][w]] = 0 /\ u = rotate(t2, Opposite(side), w)
    BY <1>4, <2>1 DEF n
  <2> HIDE DEF o, f
  <2>6. /\ \E s2, b2 : Beside(u, T, s2, b2, x, p, side, n)
        /\ n = u.kid[Opposite(side)][p] /\ u.color[n] = 0
        /\ u.color[u.kid[Opposite(side)][n]] = 1
    BY <2>2, <2>3, <2>4, <2>5, DeleteRedFar
  <2> QED
    BY <2>6
<1> QED
  BY <1>2, <1>3, <1>4

\* Refill leaves nothing short.
LEMMA RefillGood ==
    ASSUME NEW t, NEW T, NEW sub, NEW bh, NEW x, NEW p, NEW side, NEW w,
           Beside(t, T, sub, bh, x, p, side, w), t.color[w] = 0,
           t.color[t.kid[Opposite(side)][w]] = 1, NEW u, u = Refill(t, p, side)
    PROVE  \E s2, b2 : DeleteGood(u, T, s2, b2, u.root)
<1> DEFINE f == t.kid[Opposite(side)][w]
           t1 == Paint(t, w, t.color[p])
           t2 == Paint(t1, p, Black)
           t3 == Paint(t2, f, Black)
<1>1. w = t.kid[Opposite(side)][p] /\ Shape(t, T, sub) /\ w \in T /\ Opposite(side) \in Sides
  BY DEF Beside
<1>2. t \in Trees /\ p \in Nodes /\ w \in Nodes /\ f \in Nodes /\ t.color[p] \in {0, 1}
  BY <1>1, BesideNodes DEF Shape
<1>3. t2.kid = t.kid
  BY <1>2 DEF Paint, Trees
<1>4. u = rotate(Paint(t2, t2.kid[Opposite(side)][w], Black), side, p)
  BY <1>1, Zenon DEF Refill
<1>5. u = rotate(t3, side, p)
  BY <1>3, <1>4
<1>6. Painted(t1, t, w, t.color[p])
  BY <1>2, PaintWrites
<1> HIDE DEF t1
<1>7. Painted(t2, t1, p, 0)
  BY <1>2, <1>6, PaintWrites DEF Painted, Black
<1> HIDE DEF t2
<1>9. f = t.kid[Opposite(side)][w] /\ t.color[f] = 1
  OBVIOUS
<1> HIDE DEF f
<1>a. t2 \in Trees
  BY <1>7 DEF Painted
<1>8. Painted(t3, t2, f, 0)
  BY <1>2, <1>a, PaintWrites DEF Black
<1> HIDE DEF t3
<1> QED
  BY <1>5, <1>6, <1>7, <1>8, <1>9, DeleteRefills

DeleteStates(T) == {s \in States : \E sub, bh : DeleteGood(s.tree, T, sub, bh, s.node)}
DeleteStop == {s \in States : s.node = s.tree.root \/ s.tree.color[s.node] = 1}

\* What a turn does that is not the last one.
LEMMA DeleteTurnCases ==
    ASSUME NEW s, NEW x, NEW p, NEW side, x = s.node, p = s.tree.parent[x], side = SideOf(s.tree, x),
           x # s.tree.root, s.tree.color[x] # 1,
           NEW t, t = LiftSibling(s.tree, p, side), NEW w, w = t.kid[Opposite(side)][p],
           NEW t1, t1 = Refill(RedFar(t, p, side), p, side)
    PROVE  /\ (\E k \in Sides : t.color[t.kid[k][w]] = 1) =>
                DeleteTurn(s) = [tree |-> t1, node |-> t1.root]
           /\ ~(\E k \in Sides : t.color[t.kid[k][w]] = 1) =>
                DeleteTurn(s) = [tree |-> Paint(t, w, Red), node |-> p]
<1>1. CASE \E k \in Sides : t.color[t.kid[k][w]] = 1
  BY <1>1, Zenon DEF DeleteTurn, IsRed, Red, Sides
<1>2. CASE ~(\E k \in Sides : t.color[t.kid[k][w]] = 1)
  BY <1>2, Zenon DEF DeleteTurn, IsRed, Red, Sides
<1> QED
  BY <1>1, <1>2

\* Every turn keeps the invariant, and ends the loop or goes up.
LEMMA DeleteTurnGood ==
    ASSUME NEW T, NEW s \in DeleteStates(T)
    PROVE  /\ DeleteTurn(s) \in DeleteStates(T)
           /\ s \in DeleteStop => DeleteTurn(s) = s
           /\ Size(s, T) \in Nat /\ Size(s, T) < Turns
           /\ s \notin DeleteStop =>
                DeleteTurn(s) \in DeleteStop \/ Size(s, T) < Size(DeleteTurn(s), T)
<1> DEFINE t0 == s.tree
           x == s.node
<1>1. PICK sub, bh : DeleteGood(t0, T, sub, bh, x)
  BY DEF DeleteStates
<1>2. s = [tree |-> t0, node |-> x] /\ t0 \in Trees /\ x \in Nodes /\ s \in States
  BY DEF DeleteStates, States
<1>3. Shape(t0, T, sub) /\ x \in T \cup {Sentinel}
  BY <1>1 DEF DeleteGood
<1>4. Size(s, T) = Cardinality(sub[x]) /\ Size(s, T) \in Nat /\ Size(s, T) < Turns
  BY <1>2, <1>3, SizeIs
<1>5. CASE s \in DeleteStop
  <2>1. DeleteTurn(s) = s
    BY <1>5, Zenon DEF DeleteTurn, DeleteStop, IsRed, Red
  <2> QED
    BY <1>4, <1>5, <2>1
<1>6. CASE s \notin DeleteStop
  <2> DEFINE p == t0.parent[x]
             side == SideOf(t0, x)
             w0 == t0.kid[Opposite(side)][p]
             t == LiftSibling(t0, p, side)
             w == t.kid[Opposite(side)][p]
             t1 == RedFar(t, p, side)
             t2 == Refill(t1, p, side)
  <2>1. x # t0.root /\ t0.color[x] # 1
    BY <1>2, <1>6 DEF DeleteStop
  <2>2. t0.color[x] = 0
    BY <1>2, <2>1 DEF Trees
  <2>3. Beside(t0, T, sub, bh, x, p, side, w0)
    BY <1>1, <2>1, <2>2, BesideOf
  <2>4. /\ (\E k \in Sides : t.color[t.kid[k][w]] = 1) =>
                DeleteTurn(s) = [tree |-> t2, node |-> t2.root]
        /\ ~(\E k \in Sides : t.color[t.kid[k][w]] = 1) =>
                DeleteTurn(s) = [tree |-> Paint(t, w, Red), node |-> p]
    BY <2>1, DeleteTurnCases
  <2> HIDE DEF t0, x, p, side, w0
  <2>5. /\ \E s2, b2 : Beside(t, T, s2, b2, x, p, side, w)
        /\ t.color[w] = 0 /\ (t = t0 \/ t.color[p] = 1)
    BY <2>3, LiftGood
  <2> HIDE DEF t, w
  <2>6. PICK s2, b2 : Beside(t, T, s2, b2, x, p, side, w)
    BY <2>5
  <2>7. /\ Shape(t, T, s2) /\ t \in Trees /\ p \in T /\ p \in Nodes /\ w \in Nodes /\ w # p
        /\ \A k \in Sides : t.color[t.kid[k][w]] \in {0, 1}
    <3>1. Shape(t, T, s2) /\ p \in T /\ w \in T /\ w # p
      BY <2>6 DEF Beside
    <3>2. p \in Nodes /\ w \in Nodes
      BY <2>6, BesideNodes
    <3>3. /\ t \in Trees /\ \A z \in T, k \in Sides : t.kid[k][z] \in Nodes
          /\ \A z \in Nodes : t.color[z] \in {0, 1}
      BY <3>1, ShapeNodes
    <3> QED
      BY <3>1, <3>2, <3>3
  <2>8. CASE \E k \in Sides : t.color[t.kid[k][w]] = 1
    <3>1. /\ \E s3, b3 : Beside(t1, T, s3, b3, x, p, side, t1.kid[Opposite(side)][p])
          /\ t1.color[t1.kid[Opposite(side)][p]] = 0
          /\ t1.color[t1.kid[Opposite(side)][t1.kid[Opposite(side)][p]]] = 1
      BY <2>5, <2>6, <2>8, RedFarGood
    <3> HIDE DEF t1
    <3>2. PICK s3, b3 : Beside(t1, T, s3, b3, x, p, side, t1.kid[Opposite(side)][p])
      BY <3>1
    <3>3. \E s4, b4 : DeleteGood(t2, T, s4, b4, t2.root)
      BY <3>1, <3>2, RefillGood
    <3> HIDE DEF t2
    <3>4. DeleteTurn(s) = [tree |-> t2, node |-> t2.root]
      BY <2>4, <2>8
    <3>5. t2 \in Trees /\ t2.root \in Nodes
      BY <3>3 DEF DeleteGood, Shape, Trees
    <3>6. DeleteTurn(s) \in DeleteStates(T) /\ DeleteTurn(s) \in DeleteStop
      BY <3>3, <3>4, <3>5 DEF DeleteStates, DeleteStop, States
    <3> QED
      BY <1>4, <1>6, <3>6
  <2>9. CASE ~\E k \in Sides : t.color[t.kid[k][w]] = 1
    <3> DEFINE u == Paint(t, w, Red)
    <3>1. \A k \in Sides : t.color[t.kid[k][w]] = 0
      BY <2>7, <2>9
    <3>2. Painted(u, t, w, 1)
      BY <2>7, PaintWrites DEF Red
    <3>3. DeleteTurn(s) = [tree |-> u, node |-> p]
      BY <2>4, <2>9
    <3> HIDE DEF u
    <3>4. PICK new : DeleteGood(u, T, s2, new, p)
      BY <2>5, <2>6, <3>1, <3>2, DeleteRecolours
    <3>5. u \in Trees /\ Shape(u, T, s2)
      BY <3>4 DEF DeleteGood, Shape
    <3>6. DeleteTurn(s) \in DeleteStates(T)
      BY <2>7, <3>3, <3>4, <3>5 DEF DeleteStates, States
    <3>7. CASE t.color[p] = 1
      <4>1. u.color[p] = 1
        BY <2>7, <3>2, <3>7 DEF Painted
      <4>2. DeleteTurn(s) \in DeleteStop
        BY <2>7, <3>3, <3>5, <4>1 DEF DeleteStop, States
      <4> QED
        BY <1>4, <1>6, <3>6, <4>2
    <3>8. CASE t = t0
      <4>1. Shape(t0, T, s2)
        BY <2>7, <3>8
      <4>2. Size(DeleteTurn(s), T) = Cardinality(s2[p])
        BY <2>7, <3>3, <3>5, SizeIs
      <4>3. Size(s, T) = Cardinality(s2[x]) /\ Cardinality(s2[x]) \in Nat
        BY <1>2, <1>3, <4>1, SizeIs
      <4>4. t.kid[side][p] = x /\ side \in Sides
        BY <2>6 DEF Beside
      <4>5. Cardinality(s2[x]) < Cardinality(s2[p])
        <5>1. CASE x = Sentinel
          <6>1. s2[x] = {}
            BY <2>7, <5>1 DEF Shape, Nested
          <6>2. Cardinality(s2[x]) = 0
            BY <6>1, FS_EmptySet
          <6>3. Cardinality(s2[p]) \in Nat /\ Cardinality(s2[p]) > 0
            BY <2>7, SubSizes
          <6> QED
            BY <6>2, <6>3
        <5>2. CASE x # Sentinel
          BY <2>7, <4>4, <5>2, SubSizes
        <5> QED
          BY <5>1, <5>2
      <4> QED
        BY <1>4, <1>6, <3>6, <4>2, <4>3, <4>5
    <3> QED
      BY <2>5, <3>7, <3>8
  <2> QED
    BY <2>8, <2>9
<1> QED
  BY <1>5, <1>6

\* The loop of night_rbtree_delete.
LEMMA DeleteRuns ==
    ASSUME NEW S, NEW t, NEW x, [tree |-> t, node |-> x] \in S, NEW G, IsTurn(G, S),
           \A y \in S : G[y] = DeleteTurn(y)
    PROVE  \E d : /\ IsRun(d, S, [tree |-> t, node |-> x], G)
                  /\ DeleteFixup(t, x) = Paint(d[Turns].tree, d[Turns].node, Black)
<1> DEFINE x0 == [tree |-> t, node |-> x]
           F(f) == [n \in 0..Turns |-> IF n = 0 THEN x0 ELSE DeleteTurn(f[n - 1])]
           after == CHOOSE f : f = F(f)
<1>1. DeleteFixup(t, x) = Paint(after[Turns].tree, after[Turns].node, Black)
  BY Zenon DEF DeleteFixup, Loop
<1> HIDE DEF x0
<1>0. x0 \in S
  BY DEF x0
<1>2. PICK d : IsRun(d, S, x0, G)
  BY <1>0, LoopRuns
<1>3. d = F(d)
  BY <1>2, TurnsNat DEF IsRun
<1>4. after = F(after)
  <2> HIDE DEF F
  <2> QED
    BY <1>3
<1> HIDE DEF after
<1>5. IsAfter(after, S, x0, G)
  <2>1. \E h : after = [n \in 0..Turns |-> h[n]]
    <3>1. after = [n \in 0..Turns |-> after[n]]
      BY <1>4
    <3> QED
      BY <3>1
  <2>2. after[0] = x0 /\ \A n \in 1..Turns : after[n] = DeleteTurn(after[n - 1])
    BY <1>4, TurnsNat
  <2> QED
    BY <2>1, <2>2 DEF IsAfter
<1>6. IsRun(after, S, x0, G)
  BY <1>0, <1>5, AfterRuns
<1> QED
  BY <1>1, <1>6 DEF x0

\* Once its loop is over, night_rbtree_delete leaves a red-black tree.
LEMMA DeleteFixupGood ==
    ASSUME NEW t, NEW T, NEW sub, NEW bh, NEW x, DeleteGood(t, T, sub, bh, x)
    PROVE  \E sub2, bh2 : Balanced(DeleteFixup(t, x), T, sub2, bh2)
<1> DEFINE S == DeleteStates(T)
           G == [s \in S |-> DeleteTurn(s)]
           m == [s \in S |-> Size(s, T)]
           s0 == [tree |-> t, node |-> x]
<1>1. s0 \in S
  <2>1. t \in Trees /\ x \in Nodes
    BY EventNodes DEF DeleteGood, Shape, Nodes
  <2> QED
    BY <2>1 DEF DeleteStates, States
<1>2. \A s \in S : /\ DeleteTurn(s) \in S /\ (s \in DeleteStop => DeleteTurn(s) = s)
                   /\ Size(s, T) \in Nat /\ Size(s, T) < Turns
                   /\ s \notin DeleteStop =>
                        DeleteTurn(s) \in DeleteStop \/ Size(s, T) < Size(DeleteTurn(s), T)
  BY DeleteTurnGood
<1> HIDE DEF S
<1>3. IsTurn(G, S) /\ \A s \in S : G[s] = DeleteTurn(s)
  BY <1>2 DEF IsTurn
<1>4. m \in [S -> Nat] /\ \A s \in S : m[s] = Size(s, T)
  BY <1>2
<1> HIDE DEF G, m, s0
<1>5. Progress(S, G, m, DeleteStop)
  BY <1>2, <1>3, <1>4 DEF Progress
<1>6. PICK d : IsRun(d, S, s0, G) /\ DeleteFixup(t, x) = Paint(d[Turns].tree, d[Turns].node, Black)
  BY <1>1, <1>3, DeleteRuns DEF s0
<1>7. d[Turns] \in S /\ d[Turns] \in DeleteStop
  BY <1>1, <1>3, <1>5, <1>6, LoopStops
<1> DEFINE w == d[Turns].tree
           y == d[Turns].node
<1>8. w \in Trees /\ y \in Nodes /\ \E s2, b2 : DeleteGood(w, T, s2, b2, y)
  BY <1>7 DEF S, DeleteStates, States
<1>9. y = w.root \/ w.color[y] = 1
  BY <1>7 DEF DeleteStop
<1>10. DeleteFixup(t, x) = Paint(w, y, Black)
  BY <1>6
<1> HIDE DEF w, y
<1>11. PICK s2, b2 : DeleteGood(w, T, s2, b2, y)
  BY <1>8
<1>12. Painted(Paint(w, y, Black), w, y, 0)
  BY <1>8, PaintWrites DEF Black
<1> QED
  BY <1>9, <1>10, <1>11, <1>12, PaintMissing

\* A red-black tree with a black root is one in which nothing is short.
LEMMA BalancedIs ==
    ASSUME NEW t, NEW T, NEW sub, NEW bh
    PROVE  Balanced(t, T, sub, bh) <=> DeleteGood(t, T, sub, bh, t.root) /\ t.color[t.root] = 0
<1>1. ASSUME Balanced(t, T, sub, bh) PROVE DeleteGood(t, T, sub, bh, t.root) /\ t.color[t.root] = 0
  <2>1. Reds(t, T, {t.root}, {t.root})
    BY <1>1 DEF Balanced, Reds
  <2>2. t.root \in T \cup {Sentinel}
    BY <1>1 DEF Balanced, Shape, Linked
  <2> QED
    BY <1>1, <2>1, <2>2 DEF Balanced, DeleteGood
<1>2. ASSUME DeleteGood(t, T, sub, bh, t.root), t.color[t.root] = 0 PROVE Balanced(t, T, sub, bh)
  <2>1. Reds(t, T, {}, {})
    BY <1>2 DEF DeleteGood, Reds
  <2> QED
    BY <1>2, <2>1 DEF Balanced, DeleteGood
<1> QED
  BY <1>1, <1>2

-----------------------------------------------------------------------------
(* Unlinking a node with at most one child *)

\* y, which has no child on a side, is out of the tree, and c, the other child or
\* the sentinel, has its place.
Unlinks(u, t, T, side, y, c) ==
    /\ y \in T /\ side \in Sides /\ t.kid[side][y] = Sentinel /\ c = t.kid[Opposite(side)][y]
    /\ Placed(u, t, y, c)
WithoutSub(sub, y) == [z \in Nodes |-> sub[z] \ {y}]
\* It is what u has below the children of the nodes of t.
Thinned(u, t, T, sub, y) ==
    \A x \in T, s \in Sides : WithoutSub(sub, y)[u.kid[s][x]] = sub[t.kid[s][x]] \ {y}

\* What the unlinking writes, seen from the nodes that stay.
LEMMA UnlinkFacts ==
    ASSUME NEW t, NEW T, NEW sub, Shape(t, T, sub), NEW u, NEW side, NEW y, NEW c,
           Unlinks(u, t, T, side, y, c)
    PROVE  /\ u \in Trees /\ u.key = t.key /\ u.color = t.color
           /\ u.root = IF y = t.root THEN c ELSE t.root
           /\ c \in T \cup {Sentinel} /\ c # y /\ (c # Sentinel => t.parent[c] = y /\ c # t.root)
           /\ c # Sentinel => \A z \in T, s \in Sides : t.kid[s][z] = c => z = y
           /\ u.parent[c] = t.parent[y]
           /\ \A z \in T : z # c => u.parent[z] = t.parent[z]
           /\ \A z \in T, s \in Sides : t.kid[s][z] = y => y # t.root /\ z = t.parent[y] /\ s = SideOf(t, y) /\ z # y
           /\ \A z \in T, s \in Sides : u.kid[s][z] = IF t.kid[s][z] = y THEN c ELSE t.kid[s][z]
           /\ y # t.root => /\ t.parent[y] \in T /\ t.parent[y] # y /\ SideOf(t, y) \in Sides
                            /\ t.kid[SideOf(t, y)][t.parent[y]] = y
           /\ T \subseteq Nodes /\ Sentinel \in Nodes /\ Sentinel \notin T
           /\ \A z \in T, s \in Sides : t.kid[s][z] \in T \cup {Sentinel}
           /\ \A s \in Sides : t.kid[s][y] = IF s = side THEN Sentinel ELSE c
<1>1. /\ y \in T /\ side \in Sides /\ t.kid[side][y] = Sentinel /\ c = t.kid[Opposite(side)][y]
      /\ Placed(u, t, y, c) /\ Opposite(side) \in Sides
  BY SideFacts DEF Unlinks
<1>2. T \subseteq Nodes /\ Sentinel \in Nodes /\ Sentinel \notin T
  BY ShapeNodes
<1>3. \A z \in T, s \in Sides : t.kid[s][z] \in T \cup {Sentinel}
  BY DEF Shape, Linked
<1>4. /\ u \in Trees /\ u.key = t.key /\ u.color = t.color
      /\ u.root = IF y = t.root THEN c ELSE t.root
      /\ \A z \in Nodes : u.parent[z] = IF z = c THEN t.parent[y] ELSE t.parent[z]
      /\ \A s \in Sides, z \in Nodes :
           u.kid[s][z] = IF y # t.root /\ z = t.parent[y] /\ s = SideOf(t, y) THEN c
                         ELSE t.kid[s][z]
  BY <1>1 DEF Placed
<1>5. /\ c \in T \cup {Sentinel} /\ c # y /\ (c # Sentinel => t.parent[c] = y /\ c # t.root)
      /\ c # Sentinel => \A z \in T, s \in Sides : t.kid[s][z] = c => z = y
  <2>1. CASE c = Sentinel
    BY <1>1, <1>2, <2>1
  <2>2. CASE c # Sentinel
    BY <1>1, <1>3, <2>2, KidFacts
  <2> QED
    BY <2>1, <2>2
<1>6. y # t.root => /\ t.parent[y] \in T /\ t.parent[y] # y /\ SideOf(t, y) \in Sides
                    /\ t.kid[SideOf(t, y)][t.parent[y]] = y
  BY <1>1, ParentFacts
<1>7. \A z \in T, s \in Sides : t.kid[s][z] = y => y # t.root /\ z = t.parent[y] /\ s = SideOf(t, y) /\ z # y
  <2>1. y # Sentinel
    BY <1>1, <1>2
  <2> QED
    BY <1>1, <2>1, KidFacts
<1>8. \A z \in T, s \in Sides : u.kid[s][z] = IF t.kid[s][z] = y THEN c ELSE t.kid[s][z]
  BY <1>2, <1>4, <1>6, <1>7
<1>9. \A s \in Sides : t.kid[s][y] = IF s = side THEN Sentinel ELSE c
  BY <1>1, SideFacts
<1>10. c \in Nodes
  BY <1>2, <1>5
<1> QED
  BY <1>2, <1>3, <1>4, <1>5, <1>6, <1>7, <1>8, <1>9, <1>10

\* What stays is a tree.
LEMMA UnlinkLinked ==
    ASSUME NEW t, NEW T, NEW sub, Shape(t, T, sub), NEW u, NEW side, NEW y, NEW c,
           Unlinks(u, t, T, side, y, c)
    PROVE  Linked(u, T \ {y})
<1>1. /\ u.root = IF y = t.root THEN c ELSE t.root
      /\ c \in T \cup {Sentinel} /\ c # y /\ (c # Sentinel => t.parent[c] = y /\ c # t.root)
      /\ u.parent[c] = t.parent[y]
      /\ \A z \in T : z # c => u.parent[z] = t.parent[z]
      /\ \A z \in T, s \in Sides : t.kid[s][z] = y => y # t.root /\ z = t.parent[y] /\ s = SideOf(t, y) /\ z # y
      /\ \A z \in T, s \in Sides : u.kid[s][z] = IF t.kid[s][z] = y THEN c ELSE t.kid[s][z]
      /\ y # t.root => /\ t.parent[y] \in T /\ t.parent[y] # y /\ SideOf(t, y) \in Sides
                       /\ t.kid[SideOf(t, y)][t.parent[y]] = y
      /\ Sentinel \notin T
      /\ \A z \in T, s \in Sides : t.kid[s][z] \in T \cup {Sentinel}
      /\ c # Sentinel => \A z \in T, s \in Sides : t.kid[s][z] = c => z = y
      /\ \A s \in Sides : t.kid[s][y] = IF s = side THEN Sentinel ELSE c
  BY UnlinkFacts
<1>2. /\ t.root \in T \cup {Sentinel}
      /\ \A x \in T, s \in Sides : t.kid[s][x] # Sentinel => t.parent[t.kid[s][x]] = x
      /\ \A x \in T : x # t.root => t.parent[x] \in T /\ \E s \in Sides : t.kid[s][t.parent[x]] = x
  BY DEF Shape, Linked
<1>3. u.root \in (T \ {y}) \cup {Sentinel}
  BY <1>1, <1>2
<1>4. \A x \in T \ {y}, s \in Sides : u.kid[s][x] \in (T \ {y}) \cup {Sentinel}
  BY <1>1
<1>5. ASSUME NEW x \in T \ {y}, NEW s \in Sides, u.kid[s][x] # Sentinel
      PROVE  u.parent[u.kid[s][x]] = x
  <2>1. CASE t.kid[s][x] = y
    BY <1>1, <2>1
  <2>2. CASE t.kid[s][x] # y
    <3>1. u.kid[s][x] = t.kid[s][x] /\ t.kid[s][x] \in T /\ t.kid[s][x] # c
      BY <1>1, <1>5, <2>2
    <3> QED
      BY <1>1, <1>2, <1>5, <3>1
  <2> QED
    BY <2>1, <2>2
<1>6. ASSUME NEW x \in T \ {y}, x # u.root
      PROVE  u.parent[x] \in T \ {y} /\ \E s \in Sides : u.kid[s][u.parent[x]] = x
  <2>1. CASE x = c
    <3>1. y # t.root
      BY <1>1, <1>6, <2>1
    <3>2. u.kid[SideOf(t, y)][t.parent[y]] = c
      BY <1>1, <3>1
    <3> QED
      BY <1>1, <2>1, <3>1, <3>2
  <2>2. CASE x # c
    <3>1. x # t.root
      <4>1. CASE y = t.root
        BY <4>1
      <4>2. CASE y # t.root
        BY <1>1, <1>6, <4>2
      <4> QED
        BY <4>1, <4>2
    <3>2. PICK s \in Sides : t.parent[x] \in T /\ t.kid[s][t.parent[x]] = x
      BY <1>2, <3>1
    <3>3. t.parent[x] # y
      BY <1>1, <2>2, <3>2
    <3>4. u.parent[x] = t.parent[x] /\ u.kid[s][t.parent[x]] = x
      BY <1>1, <2>2, <3>2
    <3> QED
      BY <3>2, <3>3, <3>4
  <2> QED
    BY <2>1, <2>2
<1> QED
  BY <1>3, <1>4, <1>5, <1>6 DEF Linked

\* Below every node is what was there before, but for the node unlinked.
LEMMA UnlinkNested ==
    ASSUME NEW t, NEW T, NEW sub, Shape(t, T, sub), NEW u, NEW side, NEW y, NEW c,
           Unlinks(u, t, T, side, y, c)
    PROVE  /\ Nested(u, T \ {y}, WithoutSub(sub, y))
           /\ Ordered(t, T, sub) => Ordered(u, T \ {y}, WithoutSub(sub, y))
           /\ Thinned(u, t, T, sub, y)
<1> DEFINE new == WithoutSub(sub, y)
<1>1. /\ u.root = IF y = t.root THEN c ELSE t.root
      /\ c \in T \cup {Sentinel} /\ c # y /\ u.key = t.key
      /\ \A z \in T, s \in Sides : u.kid[s][z] = IF t.kid[s][z] = y THEN c ELSE t.kid[s][z]
      /\ Sentinel \notin T /\ T \subseteq Nodes /\ Sentinel \in Nodes
      /\ \A z \in T, s \in Sides : t.kid[s][z] \in T \cup {Sentinel}
      /\ \A s \in Sides : t.kid[s][y] = IF s = side THEN Sentinel ELSE c
      /\ y \in T /\ side \in Sides /\ Opposite(side) \in Sides /\ Opposite(side) # side
  <2>1. y \in T /\ side \in Sides
    BY DEF Unlinks
  <2>2. Opposite(side) \in Sides /\ Opposite(side) # side
    BY <2>1, SideFacts
  <2>3. /\ u.root = IF y = t.root THEN c ELSE t.root
        /\ c \in T \cup {Sentinel} /\ c # y /\ u.key = t.key
        /\ \A z \in T, s \in Sides : u.kid[s][z] = IF t.kid[s][z] = y THEN c ELSE t.kid[s][z]
        /\ Sentinel \notin T /\ T \subseteq Nodes /\ Sentinel \in Nodes
        /\ \A z \in T, s \in Sides : t.kid[s][z] \in T \cup {Sentinel}
        /\ \A s \in Sides : t.kid[s][y] = IF s = side THEN Sentinel ELSE c
    BY UnlinkFacts
  <2> QED
    BY <2>1, <2>2, <2>3
<1>2. /\ sub \in [Nodes -> SUBSET Events]
      /\ sub[Sentinel] = {} /\ sub[t.root] = T
      /\ \A x \in T : \A z \in Events : z \in sub[x] <=> (z = x \/ \E s \in Sides : z \in sub[t.kid[s][x]])
      /\ \A x \in T, s \in Sides : x \notin sub[t.kid[s][x]]
      /\ \A x \in T, s \in Sides : \A z \in sub[t.kid[s][x]] : z \notin sub[t.kid[Opposite(s)][x]]
      /\ T \subseteq Events /\ t.root \in T \cup {Sentinel}
  BY DEF Shape, Nested, Linked
<1>3. new \in [Nodes -> SUBSET Events] /\ \A z \in Nodes : new[z] = sub[z] \ {y}
  BY <1>2 DEF WithoutSub
<1> HIDE DEF new
<1>4. sub[c] = sub[y] \ {y}
  <2>1. c \in Nodes
    BY <1>1
  <2>2. \A z \in Events : z \in sub[y] <=> (z = y \/ z \in sub[c])
    <3>1. \A z : (\E s \in Sides : z \in sub[t.kid[s][y]]) <=> z \in sub[c]
      BY <1>1, <1>2
    <3> QED
      BY <1>1, <1>2, <3>1
  <2>3. y \notin sub[c]
    BY <1>1, <1>2
  <2>4. sub[c] \subseteq Events /\ sub[y] \subseteq Events
    BY <1>1, <1>2, <2>1
  <2> QED
    BY <2>2, <2>3, <2>4
<1>5. \A x \in T, s \in Sides : new[u.kid[s][x]] = sub[t.kid[s][x]] \ {y}
  <2> SUFFICES ASSUME NEW x \in T, NEW s \in Sides PROVE new[u.kid[s][x]] = sub[t.kid[s][x]] \ {y}
    OBVIOUS
  <2>1. CASE t.kid[s][x] = y
    <3>1. u.kid[s][x] = c /\ c \in Nodes
      BY <1>1, <2>1
    <3>2. new[c] = sub[c] \ {y}
      BY <1>3, <3>1
    <3> QED
      BY <1>4, <2>1, <3>1, <3>2
  <2>2. CASE t.kid[s][x] # y
    BY <1>1, <1>3, <2>2
  <2> QED
    BY <2>1, <2>2
<1>6. new[Sentinel] = {}
  BY <1>1, <1>2, <1>3
<1>7. new[u.root] = T \ {y}
  <2>1. CASE y = t.root
    <3>1. new[c] = sub[c] \ {y} /\ sub[y] = T
      BY <1>1, <1>2, <1>3, <2>1
    <3> QED
      BY <1>1, <1>4, <2>1, <3>1
  <2>2. CASE y # t.root
    <3>1. t.root \in Nodes
      BY <1>1, <1>2
    <3> QED
      BY <1>1, <1>2, <1>3, <2>2, <3>1
  <2> QED
    BY <2>1, <2>2
<1>8. ASSUME NEW x \in T \ {y}, NEW z \in Events
      PROVE  z \in new[x] <=> (z = x \/ \E s \in Sides : z \in new[u.kid[s][x]])
  <2>1. z \in new[x] <=> (z \in sub[x] /\ z # y)
    BY <1>1, <1>3
  <2>2. \A s \in Sides : z \in new[u.kid[s][x]] <=> (z \in sub[t.kid[s][x]] /\ z # y)
    BY <1>5
  <2> QED
    BY <1>2, <2>1, <2>2
<1>9. \A x \in T \ {y}, s \in Sides : x \notin new[u.kid[s][x]]
  BY <1>2, <1>5
<1>10. ASSUME NEW x \in T \ {y}, NEW s \in Sides, NEW z \in new[u.kid[s][x]]
       PROVE  z \notin new[u.kid[Opposite(s)][x]]
  <2>1. Opposite(s) \in Sides
    BY SideFacts
  <2> QED
    BY <1>2, <1>5, <1>10, <2>1
<1>11. Nested(u, T \ {y}, new)
  BY <1>3, <1>6, <1>7, <1>8, <1>9, <1>10 DEF Nested
<1>12. ASSUME Ordered(t, T, sub), NEW x \in T \ {y}, NEW s \in Sides, NEW z \in new[u.kid[s][x]]
       PROVE  Sorted(u, s, z, x)
  <2>1. z \in sub[t.kid[s][x]]
    BY <1>5
  <2>2. Sorted(t, s, z, x)
    BY <1>12, <2>1 DEF Ordered
  <2> QED
    BY <1>1, <2>2 DEF Sorted
<1> QED
  BY <1>5, <1>11, <1>12 DEF Ordered, Thinned, new

\* Without a red node the heights are as they were; without a black one the way
\* down to its child is one short.
LEMMA UnlinkGood ==
    ASSUME NEW t, NEW T, NEW sub, NEW bh, Balanced(t, T, sub, bh), NEW u, NEW side, NEW y, NEW c,
           Unlinks(u, t, T, side, y, c)
    PROVE  /\ t.color[y] = 1 => Balanced(u, T \ {y}, WithoutSub(sub, y), bh)
           /\ t.color[y] = 0 => DeleteGood(u, T \ {y}, WithoutSub(sub, y), bh, c)
<1> DEFINE new == WithoutSub(sub, y)
<1>1. Shape(t, T, sub) /\ Ordered(t, T, sub) /\ Even(t, T, bh, t.root) /\ Reds(t, T, {}, {}) /\ t.color[t.root] = 0
  BY DEF Balanced
<1>2. /\ u \in Trees /\ u.key = t.key /\ u.color = t.color
      /\ u.root = IF y = t.root THEN c ELSE t.root
      /\ c \in T \cup {Sentinel} /\ c # y /\ (c # Sentinel => t.parent[c] = y /\ c # t.root)
      /\ c # Sentinel => \A z \in T, s \in Sides : t.kid[s][z] = c => z = y
      /\ u.parent[c] = t.parent[y]
      /\ \A z \in T, s \in Sides : t.kid[s][z] = y => y # t.root /\ z = t.parent[y] /\ s = SideOf(t, y) /\ z # y
      /\ \A z \in T, s \in Sides : u.kid[s][z] = IF t.kid[s][z] = y THEN c ELSE t.kid[s][z]
      /\ y # t.root => /\ t.parent[y] \in T /\ t.parent[y] # y /\ SideOf(t, y) \in Sides
                       /\ t.kid[SideOf(t, y)][t.parent[y]] = y
      /\ T \subseteq Nodes /\ Sentinel \in Nodes /\ Sentinel \notin T
      /\ \A z \in T, s \in Sides : t.kid[s][z] \in T \cup {Sentinel}
      /\ \A s \in Sides : t.kid[s][y] = IF s = side THEN Sentinel ELSE c
  BY <1>1, UnlinkFacts
<1>a. y \in T /\ side \in Sides /\ Opposite(side) \in Sides /\ Opposite(side) # side
  <2>1. y \in T /\ side \in Sides
    BY DEF Unlinks
  <2> QED
    BY <2>1, SideFacts
<1>3. Shape(u, T \ {y}, new) /\ Ordered(u, T \ {y}, new)
  <2>1. T \ {y} \subseteq Events
    BY <1>1 DEF Shape
  <2> QED
    BY <1>1, <1>2, <2>1, UnlinkLinked, UnlinkNested DEF Shape
<1> HIDE DEF new
<1>4. \A z \in T, s \in Sides : bh[z] = bh[t.kid[s][z]] + (1 - t.color[z])
  <2>1. t \in Trees /\ \A z \in T, s \in Sides : t.kid[s][z] \in Nodes
    BY <1>1, ShapeNodes
  <2> QED
    BY <1>1, <1>2, <2>1, EvenSteps
<1>5. /\ bh \in [Nodes -> Nat] /\ bh[Sentinel] = 0 /\ t.color[Sentinel] = 0
      /\ \A z \in T, s \in Sides : ~(t.color[z] = 1 /\ t.color[t.kid[s][z]] = 1)
      /\ \A z \in Nodes : t.color[z] \in {0, 1}
  BY <1>1, ShapeNodes DEF Even, Reds
<1>6. bh[c] = 0 /\ bh[y] = 1 - t.color[y] /\ y \in Nodes /\ c \in Nodes
  <2>1. bh[y] = bh[Sentinel] + (1 - t.color[y]) /\ bh[y] = bh[c] + (1 - t.color[y])
    BY <1>2, <1>4, <1>a
  <2>2. bh[y] \in Nat /\ bh[c] \in Nat /\ t.color[y] \in {0, 1} /\ y \in Nodes /\ c \in Nodes
    BY <1>2, <1>5, <1>a
  <2> QED
    BY <1>5, <2>1, <2>2
<1>7. u.root \in (T \ {y}) \cup {Sentinel} /\ c \in (T \ {y}) \cup {Sentinel}
  BY <1>2, <1>3 DEF Shape, Linked
<1>8. y # t.root => u.color[u.root] = 0
  BY <1>1, <1>2
<1>9. CASE t.color[y] = 1
  <2>1. y # t.root
    BY <1>1, <1>9
  <2>2. ASSUME NEW z \in T \ {y}, NEW s \in Sides
        PROVE  bh[z] = bh[u.kid[s][z]] + (1 - u.color[z])
    BY <1>2, <1>4, <1>6, <1>9
  <2>3. Even(u, T \ {y}, bh, u.root)
    BY <1>2, <1>3, <1>5, <2>2, EvenOf, ShapeNodes
  <2>4. Reds(u, T \ {y}, {}, {})
    <3>1. ASSUME NEW z \in T \ {y}, NEW s \in Sides, u.color[z] = 1, u.color[u.kid[s][z]] = 1
          PROVE  FALSE
      BY <1>2, <1>5, <1>9, <3>1
    <3> QED
      BY <1>2, <1>5, <3>1 DEF Reds
  <2> QED
    BY <1>3, <1>8, <1>9, <2>1, <2>3, <2>4 DEF Balanced, new
<1>10. CASE t.color[y] = 0
  <2>1. y # t.root => SideOf(u, c) = SideOf(t, y) /\ c # u.root
    <3> SUFFICES ASSUME y # t.root PROVE SideOf(u, c) = SideOf(t, y) /\ c # u.root
      OBVIOUS
    <3> DEFINE r == SideOf(t, y)
               p == t.parent[y]
    <3>1. p \in T /\ p # y /\ r \in Sides /\ t.kid[r][p] = y /\ Opposite(r) \in Sides /\ Opposite(r) # r
      BY <1>2, SideFacts
    <3>2. u.kid[r][p] = c /\ u.parent[c] = p
      BY <1>2, <3>1
    <3>3. u.kid[Opposite(r)][p] = t.kid[Opposite(r)][p] /\ t.kid[Opposite(r)][p] # y
      BY <1>2, <3>1
    <3>4. t.kid[Opposite(r)][p] # c
      <4>1. CASE c = Sentinel
        <5>1. bh[p] = bh[y] + (1 - t.color[p]) /\ bh[p] = bh[t.kid[Opposite(r)][p]] + (1 - t.color[p])
          BY <1>4, <3>1
        <5>2. bh[t.kid[Opposite(r)][p]] \in Nat /\ t.color[p] \in {0, 1} /\ bh[p] \in Nat
          BY <1>2, <1>5, <3>1
        <5>3. bh[t.kid[Opposite(r)][p]] = 1
          BY <1>6, <1>10, <5>1, <5>2
        <5> QED
          BY <1>5, <4>1, <5>3
      <4>2. CASE c # Sentinel
        BY <1>2, <3>1, <4>2
      <4> QED
        BY <4>1, <4>2
    <3>5. c # u.root
      <4>1. u.root = t.root
        BY <1>2
      <4>2. t.root # Sentinel
        BY <1>1, <1>2, <1>a DEF Shape, Nested
      <4> QED
        BY <1>2, <4>1, <4>2
    <3> HIDE DEF r, p
    <3>6. SideOf(u, c) = r
      BY <3>1, <3>2, <3>3, <3>4, SideIs
    <3> QED
      BY <3>5, <3>6 DEF r
  <2>2. ASSUME NEW z \in T \ {y}, NEW s \in Sides
        PROVE  bh[z] = bh[u.kid[s][z]] + (1 - u.color[z]) + Short(u, c, z, s)
    <3>0. bh[z] \in Nat /\ t.color[z] \in {0, 1} /\ bh[t.kid[s][z]] \in Nat
      BY <1>2, <1>5
    <3>1. CASE t.kid[s][z] = y
      <4>1. Short(u, c, z, s) = 1
        BY <1>2, <2>1, <3>1 DEF Short
      <4>2. bh[u.kid[s][z]] = 0 /\ bh[z] = 1 + (1 - t.color[z]) /\ u.color[z] = t.color[z]
        BY <1>2, <1>4, <1>6, <1>10, <3>1
      <4> QED
        BY <3>0, <4>1, <4>2
    <3>2. CASE t.kid[s][z] # y
      <4>1. Short(u, c, z, s) = 0
        <5>1. y = t.root => u.root = c
          BY <1>2
        <5>2. y # t.root => ~(z = t.parent[y] /\ s = SideOf(t, y))
          BY <1>2, <3>2
        <5> QED
          BY <1>2, <2>1, <5>1, <5>2 DEF Short
      <4>2. bh[u.kid[s][z]] = bh[t.kid[s][z]] /\ bh[z] = bh[t.kid[s][z]] + (1 - t.color[z]) /\ u.color[z] = t.color[z]
        BY <1>2, <1>4, <3>2
      <4> QED
        BY <3>0, <4>1, <4>2
    <3> QED
      BY <3>1, <3>2
  <2>3. Even(u, T \ {y}, bh, c)
    BY <1>5, <2>2 DEF Even
  <2>4. Reds(u, T \ {y}, {c}, {c})
    <3>1. ASSUME NEW z \in T \ {y}, NEW s \in Sides, u.color[z] = 1, u.color[u.kid[s][z]] = 1
          PROVE  u.kid[s][z] = c
      BY <1>2, <1>5, <3>1
    <3> QED
      BY <1>2, <1>5, <3>1 DEF Reds
  <2>5. u.color[u.root] = 1 => c = u.root
    BY <1>2, <1>8
  <2>6. c # u.root => /\ u.parent[c] \in T \ {y} /\ u.parent[c] # c /\ u.kid[SideOf(u, c)][u.parent[c]] = c
                      /\ SideOf(u, c) \in Sides
    <3> SUFFICES ASSUME c # u.root
                 PROVE  /\ u.parent[c] \in T \ {y} /\ u.parent[c] # c /\ u.kid[SideOf(u, c)][u.parent[c]] = c
                        /\ SideOf(u, c) \in Sides
      OBVIOUS
    <3>1. y # t.root
      BY <1>2
    <3>2. u.parent[c] = t.parent[y] /\ SideOf(u, c) = SideOf(t, y)
      BY <1>2, <2>1, <3>1
    <3>3. t.parent[y] # c
      <4>1. CASE c = Sentinel
        BY <1>2, <3>1, <4>1
      <4>2. CASE c # Sentinel
        <5>1. t.kid[SideOf(t, y)][c] = y => FALSE
          <6>1. c \in T /\ t.kid[Opposite(side)][y] = c
            BY <1>2, <1>a, <4>2
          <6>2. c \in sub[y] /\ y \in sub[y]
            BY <1>1, <1>a, <4>2, <6>1, KidFacts
          <6>3. t.kid[SideOf(t, y)][c] = y => c \notin sub[y]
            BY <1>1, <1>2, <1>a, <3>1, <6>1, KidFacts
          <6> QED
            BY <6>2, <6>3
        <5> QED
          BY <1>2, <3>1, <5>1
      <4> QED
        BY <4>1, <4>2
    <3> QED
      BY <1>2, <3>1, <3>2, <3>3
  <2> QED
    BY <1>3, <1>7, <1>10, <2>3, <2>4, <2>5, <2>6 DEF DeleteGood, new
<1> QED
  BY <1>5, <1>6, <1>9, <1>10

-----------------------------------------------------------------------------
(* Putting a node in the place of another *)

\* What z is called once y has the place of x.
Ren(x, y, z) == IF z = x THEN y ELSE z
\* u is t with y, a node outside the tree, in the place of x.
Renamed(u, t, T, x, y) ==
    /\ x \in T /\ y \in Events /\ y \notin T /\ u \in Trees /\ u.key = t.key
    /\ u.root = Ren(x, y, t.root)
    /\ \A z \in T \cup {Sentinel} : u.color[Ren(x, y, z)] = t.color[z]
    /\ \A z \in T : z # t.root => u.parent[Ren(x, y, z)] = Ren(x, y, t.parent[z])
    /\ \A z \in T, s \in Sides : u.kid[s][Ren(x, y, z)] = Ren(x, y, t.kid[s][z])
\* y belongs where x is.
Between(t, T, sub, x, y) ==
    /\ \A s \in Sides : \A z \in sub[t.kid[s][x]] : Sorted(t, s, z, y)
    /\ \A z \in T, s \in Sides : x \in sub[t.kid[s][z]] => Sorted(t, s, y, z)
RenamedSub(sub, x, y) ==
    [z \in Nodes |-> IF z = y THEN (sub[x] \ {x}) \cup {y}
                     ELSE IF x \in sub[z] THEN (sub[z] \ {x}) \cup {y} ELSE sub[z]]

\* The new names are those of different nodes.
LEMMA RenFacts ==
    ASSUME NEW t, NEW T, NEW sub, Shape(t, T, sub), NEW u, NEW x, NEW y, Renamed(u, t, T, x, y)
    PROVE  /\ \A a, b \in T \cup {Sentinel} : Ren(x, y, a) = Ren(x, y, b) => a = b
           /\ \A a \in T : Ren(x, y, a) \in (T \ {x}) \cup {y}
           /\ Ren(x, y, Sentinel) = Sentinel
           /\ \A a \in T \cup {Sentinel} : Ren(x, y, a) \in Nodes
           /\ \A b \in (T \ {x}) \cup {y} : \E a \in T : b = Ren(x, y, a)
           /\ \A a \in T, s \in Sides : t.kid[s][a] \in T \cup {Sentinel}
<1>1. /\ T \subseteq Nodes /\ Sentinel \in Nodes /\ Sentinel \notin T /\ x \in T /\ y \notin T
      /\ y \in Nodes /\ y # Sentinel
  BY ShapeNodes, TimersAssumption DEF Renamed, Nodes
<1>2. \A a \in T, s \in Sides : t.kid[s][a] \in T \cup {Sentinel}
  BY DEF Shape, Linked
<1>3. \A b \in (T \ {x}) \cup {y} : \E a \in T : b = Ren(x, y, a)
  <2>1. y = Ren(x, y, x)
    BY DEF Ren
  <2>2. \A b \in T \ {x} : b = Ren(x, y, b)
    BY DEF Ren
  <2> QED
    BY <1>1, <2>1, <2>2
<1> QED
  BY <1>1, <1>2, <1>3 DEF Ren

\* A tree in which a node has another's place is a tree.
LEMMA RenameLinked ==
    ASSUME NEW t, NEW T, NEW sub, Shape(t, T, sub), NEW u, NEW x, NEW y, Renamed(u, t, T, x, y)
    PROVE  Linked(u, (T \ {x}) \cup {y})
<1>1. /\ \A a, b \in T \cup {Sentinel} : Ren(x, y, a) = Ren(x, y, b) => a = b
      /\ \A a \in T : Ren(x, y, a) \in (T \ {x}) \cup {y}
      /\ Ren(x, y, Sentinel) = Sentinel
      /\ \A b \in (T \ {x}) \cup {y} : \E a \in T : b = Ren(x, y, a)
      /\ \A a \in T, s \in Sides : t.kid[s][a] \in T \cup {Sentinel}
  BY RenFacts
<1>2. /\ u.root = Ren(x, y, t.root)
      /\ \A z \in T : z # t.root => u.parent[Ren(x, y, z)] = Ren(x, y, t.parent[z])
      /\ \A z \in T, s \in Sides : u.kid[s][Ren(x, y, z)] = Ren(x, y, t.kid[s][z])
  BY DEF Renamed
<1>3. /\ t.root \in T \cup {Sentinel}
      /\ \A a \in T, s \in Sides : t.kid[s][a] # Sentinel => t.parent[t.kid[s][a]] = a
      /\ \A a \in T : a # t.root => t.parent[a] \in T /\ \E s \in Sides : t.kid[s][t.parent[a]] = a
  BY DEF Shape, Linked
<1>4. \A a \in T, s \in Sides : t.kid[s][a] # Sentinel => t.kid[s][a] # t.root
  BY KidFacts
<1>5. u.root \in (T \ {x}) \cup {y} \cup {Sentinel}
  BY <1>1, <1>2, <1>3
<1>6. ASSUME NEW b \in (T \ {x}) \cup {y}, NEW s \in Sides
      PROVE  /\ u.kid[s][b] \in (T \ {x}) \cup {y} \cup {Sentinel}
             /\ u.kid[s][b] # Sentinel => u.parent[u.kid[s][b]] = b
  <2>1. PICK a \in T : b = Ren(x, y, a)
    BY <1>1
  <2> DEFINE k == t.kid[s][a]
  <2>2. u.kid[s][b] = Ren(x, y, k) /\ k \in T \cup {Sentinel}
    BY <1>1, <1>2, <2>1
  <2>3. CASE k = Sentinel
    BY <1>1, <2>2, <2>3
  <2>4. CASE k # Sentinel
    <3>1. k \in T /\ k # t.root /\ t.parent[k] = a
      BY <1>3, <1>4, <2>2, <2>4
    <3>2. u.parent[Ren(x, y, k)] = Ren(x, y, a)
      BY <1>2, <3>1
    <3> QED
      BY <1>1, <2>1, <2>2, <3>1, <3>2
  <2> QED
    BY <2>3, <2>4
<1>7. ASSUME NEW b \in (T \ {x}) \cup {y}, b # u.root
      PROVE  u.parent[b] \in (T \ {x}) \cup {y} /\ \E s \in Sides : u.kid[s][u.parent[b]] = b
  <2>1. PICK a \in T : b = Ren(x, y, a)
    BY <1>1
  <2>2. a # t.root
    BY <1>2, <1>7, <2>1
  <2>3. PICK s \in Sides : t.parent[a] \in T /\ t.kid[s][t.parent[a]] = a
    BY <1>3, <2>2
  <2>4. u.parent[b] = Ren(x, y, t.parent[a])
    BY <1>2, <2>1, <2>2
  <2>5. u.kid[s][u.parent[b]] = b
    BY <1>2, <2>1, <2>3, <2>4
  <2> QED
    BY <1>1, <2>3, <2>4, <2>5
<1> QED
  BY <1>5, <1>6, <1>7 DEF Linked

\* Below every node is what was there before, under the new name, in order.
LEMMA RenameNested ==
    ASSUME NEW t, NEW T, NEW sub, Shape(t, T, sub), NEW u, NEW x, NEW y, Renamed(u, t, T, x, y)
    PROVE  /\ Nested(u, (T \ {x}) \cup {y}, RenamedSub(sub, x, y))
           /\ Ordered(t, T, sub) /\ Between(t, T, sub, x, y) =>
                Ordered(u, (T \ {x}) \cup {y}, RenamedSub(sub, x, y))
<1> DEFINE new == RenamedSub(sub, x, y)
           T2 == (T \ {x}) \cup {y}
<1>1. /\ \A a, b \in T \cup {Sentinel} : Ren(x, y, a) = Ren(x, y, b) => a = b
      /\ \A a \in T : Ren(x, y, a) \in T2
      /\ Ren(x, y, Sentinel) = Sentinel
      /\ \A a \in T \cup {Sentinel} : Ren(x, y, a) \in Nodes
      /\ \A b \in T2 : \E a \in T : b = Ren(x, y, a)
      /\ \A a \in T, s \in Sides : t.kid[s][a] \in T \cup {Sentinel}
  BY RenFacts
<1>2. /\ u.root = Ren(x, y, t.root) /\ u.key = t.key
      /\ \A z \in T, s \in Sides : u.kid[s][Ren(x, y, z)] = Ren(x, y, t.kid[s][z])
      /\ x \in T /\ y \in Events /\ y \notin T
  BY DEF Renamed
<1>3. /\ sub \in [Nodes -> SUBSET Events]
      /\ sub[Sentinel] = {} /\ sub[t.root] = T
      /\ \A a \in T : \A z \in Events : z \in sub[a] <=> (z = a \/ \E s \in Sides : z \in sub[t.kid[s][a]])
      /\ \A a \in T, s \in Sides : a \notin sub[t.kid[s][a]]
      /\ \A a \in T, s \in Sides : \A z \in sub[t.kid[s][a]] : z \notin sub[t.kid[Opposite(s)][a]]
      /\ T \subseteq Events /\ t.root \in T \cup {Sentinel}
  BY DEF Shape, Nested, Linked
<1>4. /\ T \subseteq Nodes /\ Sentinel \in Nodes /\ Sentinel \notin T /\ y \in Nodes /\ y # Sentinel /\ x \in Events
  BY <1>2, <1>3, ShapeNodes, TimersAssumption DEF Nodes
<1>5. \A a \in T \cup {Sentinel} : sub[a] \subseteq T
  <2>1. \A a \in T : sub[a] \subseteq T
    BY SubNested
  <2> QED
    BY <1>3, <2>1
<1>6. /\ new \in [Nodes -> SUBSET Events]
      /\ \A z \in Nodes : new[z] = IF z = y THEN (sub[x] \ {x}) \cup {y}
                                   ELSE IF x \in sub[z] THEN (sub[z] \ {x}) \cup {y} ELSE sub[z]
  <2>1. sub[x] \in SUBSET Events
    BY <1>2, <1>3, <1>4
  <2> QED
    BY <1>2, <1>3, <2>1 DEF RenamedSub
<1>x. x \in sub[x]
  BY <1>2, <1>3, <1>4
<1> HIDE DEF new
\* What is below a node under its new name.
<1>7. ASSUME NEW a \in T \cup {Sentinel}
      PROVE  \A z : z \in new[Ren(x, y, a)] <=> ((z \in sub[a] /\ z # x) \/ (z = y /\ x \in sub[a]))
  <2>1. CASE a = x
    <3>1. Ren(x, y, a) = y
      BY <2>1 DEF Ren
    <3> QED
      BY <1>4, <1>6, <1>x, <2>1, <3>1
  <2>2. CASE a # x
    <3>1. Ren(x, y, a) = a /\ a # y /\ a \in Nodes
      BY <1>2, <1>4, <2>2 DEF Ren
    <3> QED
      BY <1>4, <1>6, <3>1
  <2> QED
    BY <2>1, <2>2
<1>8. \A a \in T, s \in Sides : \A z :
         z \in new[u.kid[s][Ren(x, y, a)]] <=>
           ((z \in sub[t.kid[s][a]] /\ z # x) \/ (z = y /\ x \in sub[t.kid[s][a]]))
  BY <1>1, <1>2, <1>7
<1>9. new[Sentinel] = {} /\ new[u.root] = T2
  <2>1. new[Sentinel] = {}
    BY <1>1, <1>3, <1>7
  <2>2. \A z : z \in new[u.root] <=> ((z \in T /\ z # x) \/ (z = y /\ x \in T))
    BY <1>2, <1>3, <1>7
  <2> QED
    BY <1>2, <2>1, <2>2
<1>10. ASSUME NEW b \in T2, NEW z \in Events
       PROVE  z \in new[b] <=> (z = b \/ \E s \in Sides : z \in new[u.kid[s][b]])
  <2>1. PICK a \in T : b = Ren(x, y, a)
    BY <1>1
  <2>2. z \in new[b] <=> ((z \in sub[a] /\ z # x) \/ (z = y /\ x \in sub[a]))
    BY <1>7, <2>1
  <2>3. \A s \in Sides : z \in new[u.kid[s][b]] <=>
           ((z \in sub[t.kid[s][a]] /\ z # x) \/ (z = y /\ x \in sub[t.kid[s][a]]))
    BY <1>8, <2>1
  <2>4. z \in sub[a] <=> (z = a \/ \E s \in Sides : z \in sub[t.kid[s][a]])
    BY <1>3
  <2>5. x \in sub[a] <=> (x = a \/ \E s \in Sides : x \in sub[t.kid[s][a]])
    BY <1>3, <1>4
  <2>6. b = IF a = x THEN y ELSE a
    BY <2>1 DEF Ren
  <2>7. \A s \in Sides : sub[t.kid[s][a]] \subseteq T
    BY <1>1, <1>5
  <2>8. y \notin sub[a] /\ \A s \in Sides : y \notin sub[t.kid[s][a]]
    BY <1>2, <1>5, <2>7
  <2>9. CASE z = y
    BY <1>2, <2>2, <2>3, <2>5, <2>6, <2>8, <2>9
  <2>10. CASE z = x
    BY <1>2, <2>2, <2>3, <2>6, <2>10
  <2>11. CASE z # x /\ z # y
    BY <2>2, <2>3, <2>4, <2>6, <2>11
  <2> QED
    BY <2>9, <2>10, <2>11
<1>11. ASSUME NEW b \in T2, NEW s \in Sides PROVE b \notin new[u.kid[s][b]]
  <2>1. PICK a \in T : b = Ren(x, y, a)
    BY <1>1
  <2>2. b \in new[u.kid[s][b]] <=>
           ((b \in sub[t.kid[s][a]] /\ b # x) \/ (b = y /\ x \in sub[t.kid[s][a]]))
    BY <1>8, <2>1
  <2>3. a \notin sub[t.kid[s][a]] /\ y \notin sub[t.kid[s][a]]
    BY <1>1, <1>2, <1>3, <1>5
  <2>4. b = IF a = x THEN y ELSE a
    BY <2>1 DEF Ren
  <2> QED
    BY <1>2, <2>2, <2>3, <2>4
<1>12. ASSUME NEW b \in T2, NEW s \in Sides, NEW z \in new[u.kid[s][b]]
       PROVE  z \notin new[u.kid[Opposite(s)][b]]
  <2>0. Opposite(s) \in Sides
    BY SideFacts
  <2>1. PICK a \in T : b = Ren(x, y, a)
    BY <1>1
  <2>2. (z \in sub[t.kid[s][a]] /\ z # x) \/ (z = y /\ x \in sub[t.kid[s][a]])
    BY <1>8, <2>1
  <2>3. z \in new[u.kid[Opposite(s)][b]] <=>
           ((z \in sub[t.kid[Opposite(s)][a]] /\ z # x) \/ (z = y /\ x \in sub[t.kid[Opposite(s)][a]]))
    BY <1>8, <2>0, <2>1
  <2>4. y \notin sub[t.kid[s][a]] /\ y \notin sub[t.kid[Opposite(s)][a]]
    BY <1>1, <1>2, <1>5, <2>0
  <2>5. \A v \in sub[t.kid[s][a]] : v \notin sub[t.kid[Opposite(s)][a]]
    BY <1>3
  <2> QED
    BY <2>2, <2>3, <2>4, <2>5
<1> HIDE DEF T2
<1>13. Nested(u, T2, new)
  BY <1>6, <1>9, <1>10, <1>11, <1>12 DEF Nested
<1>14. ASSUME Ordered(t, T, sub), Between(t, T, sub, x, y),
              NEW b \in T2, NEW s \in Sides, NEW z \in new[u.kid[s][b]]
       PROVE  Sorted(u, s, z, b)
  <2>0. Sorted(u, s, z, b) <=> Sorted(t, s, z, b)
    BY <1>2 DEF Sorted
  <2>1. PICK a \in T : b = Ren(x, y, a)
    BY <1>1
  <2>2. (z \in sub[t.kid[s][a]] /\ z # x) \/ (z = y /\ x \in sub[t.kid[s][a]])
    BY <1>8, <2>1
  <2>3. CASE a = x
    <3>1. b = y /\ z \in sub[t.kid[s][x]]
      BY <1>3, <2>1, <2>2, <2>3 DEF Ren
    <3> QED
      BY <1>14, <2>0, <3>1 DEF Between
  <2>4. CASE a # x /\ z \in sub[t.kid[s][a]]
    <3>1. b = a
      BY <2>1, <2>4 DEF Ren
    <3> QED
      BY <1>14, <2>0, <2>4, <3>1 DEF Ordered
  <2>5. CASE a # x /\ z = y /\ x \in sub[t.kid[s][a]]
    <3>1. b = a
      BY <2>1, <2>5 DEF Ren
    <3> QED
      BY <1>14, <2>0, <2>5, <3>1 DEF Between
  <2> QED
    BY <2>2, <2>3, <2>4, <2>5
<1> QED
  BY <1>13, <1>14 DEF Ordered, new, T2

\* The colours and the heights go with the places.
LEMMA RenameGood ==
    ASSUME NEW t, NEW T, NEW sub, NEW bh, NEW q, DeleteGood(t, T, sub, bh, q),
           NEW u, NEW x, NEW y, Renamed(u, t, T, x, y), Between(t, T, sub, x, y),
           q = Sentinel /\ q # t.root => u.parent[q] = Ren(x, y, t.parent[q])
    PROVE  /\ \E new : DeleteGood(u, (T \ {x}) \cup {y}, RenamedSub(sub, x, y), new, Ren(x, y, q))
           /\ u.color[u.root] = t.color[t.root]
<1> DEFINE T2 == (T \ {x}) \cup {y}
           r == Ren(x, y, q)
           new == [z \in Nodes |-> IF z = y THEN bh[x] ELSE bh[z]]
<1>1. /\ Shape(t, T, sub) /\ Ordered(t, T, sub) /\ Even(t, T, bh, q) /\ Reds(t, T, {q}, {q})
      /\ q \in T \cup {Sentinel} /\ (t.color[t.root] = 1 => q = t.root)
      /\ q # t.root => /\ t.parent[q] \in T /\ t.parent[q] # q /\ t.kid[SideOf(t, q)][t.parent[q]] = q
                       /\ SideOf(t, q) \in Sides
  BY DEF DeleteGood
<1>2. /\ \A a, b \in T \cup {Sentinel} : Ren(x, y, a) = Ren(x, y, b) => a = b
      /\ \A a \in T : Ren(x, y, a) \in T2
      /\ Ren(x, y, Sentinel) = Sentinel
      /\ \A a \in T \cup {Sentinel} : Ren(x, y, a) \in Nodes
      /\ \A b \in T2 : \E a \in T : b = Ren(x, y, a)
      /\ \A a \in T, s \in Sides : t.kid[s][a] \in T \cup {Sentinel}
  BY <1>1, RenFacts
<1>3. /\ u.root = Ren(x, y, t.root) /\ u.key = t.key /\ u \in Trees
      /\ \A z \in T \cup {Sentinel} : u.color[Ren(x, y, z)] = t.color[z]
      /\ \A z \in T : z # t.root => u.parent[Ren(x, y, z)] = Ren(x, y, t.parent[z])
      /\ \A z \in T, s \in Sides : u.kid[s][Ren(x, y, z)] = Ren(x, y, t.kid[s][z])
      /\ x \in T /\ y \in Events /\ y \notin T
  BY DEF Renamed
<1>4. /\ T \subseteq Nodes /\ Sentinel \in Nodes /\ Sentinel \notin T /\ y \in Nodes /\ y # Sentinel
      /\ t.root \in T \cup {Sentinel} /\ T \subseteq Events
  BY <1>1, <1>3, ShapeNodes, TimersAssumption DEF Nodes, Shape, Linked
<1>5. Shape(u, T2, RenamedSub(sub, x, y)) /\ Ordered(u, T2, RenamedSub(sub, x, y))
  <2>1. T2 \subseteq Events
    BY <1>3, <1>4
  <2> QED
    BY <1>1, <1>3, <2>1, RenameLinked, RenameNested DEF Shape
<1>6. q # t.root => u.parent[r] = Ren(x, y, t.parent[q])
  BY <1>1, <1>2, <1>3
<1>7. r \in T2 \cup {Sentinel} /\ (r = u.root <=> q = t.root)
  BY <1>1, <1>2, <1>3, <1>4
<1>8. q # t.root => SideOf(u, r) = SideOf(t, q)
  <2> SUFFICES ASSUME q # t.root PROVE SideOf(u, r) = SideOf(t, q)
    OBVIOUS
  <2>1. "left" \in Sides /\ t.parent[q] \in T
    BY <1>1 DEF Sides
  <2>2. u.kid["left"][u.parent[r]] = Ren(x, y, t.kid["left"][t.parent[q]])
    BY <1>3, <1>6, <2>1
  <2>3. r = u.kid["left"][u.parent[r]] <=> q = t.kid["left"][t.parent[q]]
    BY <1>1, <1>2, <2>1, <2>2
  <2> QED
    BY <2>3 DEF SideOf
<1>9. /\ bh \in [Nodes -> Nat] /\ bh[Sentinel] = 0 /\ t.color[Sentinel] = 0
      /\ \A z \in T, s \in Sides : bh[z] = bh[t.kid[s][z]] + (1 - t.color[z]) + Short(t, q, z, s)
      /\ \A z \in T, s \in Sides :
           t.color[z] = 1 /\ t.color[t.kid[s][z]] = 1 => z = q \/ t.kid[s][z] = q
  BY <1>1 DEF Even, Reds
<1>10. /\ new \in [Nodes -> Nat] /\ new[Sentinel] = 0
       /\ \A z \in T \cup {Sentinel} : new[Ren(x, y, z)] = bh[z]
  <2>1. bh[x] \in Nat
    BY <1>3, <1>4, <1>9
  <2>2. new \in [Nodes -> Nat] /\ new[Sentinel] = 0
    BY <1>4, <1>9, <2>1
  <2>3. \A z \in T \cup {Sentinel} : new[Ren(x, y, z)] = bh[z]
    BY <1>3, <1>4 DEF Ren
  <2> QED
    BY <2>2, <2>3
<1> HIDE DEF new, r, T2
<1>11. ASSUME NEW b \in T2, NEW s \in Sides
       PROVE  /\ new[b] = new[u.kid[s][b]] + (1 - u.color[b]) + Short(u, r, b, s)
              /\ u.color[b] = 1 /\ u.color[u.kid[s][b]] = 1 => b = r \/ u.kid[s][b] = r
  <2>1. PICK a \in T : b = Ren(x, y, a)
    BY <1>2
  <2>2. u.kid[s][b] = Ren(x, y, t.kid[s][a]) /\ t.kid[s][a] \in T \cup {Sentinel}
    BY <1>2, <1>3, <2>1
  <2>3. u.color[b] = t.color[a] /\ u.color[u.kid[s][b]] = t.color[t.kid[s][a]]
    BY <1>3, <2>1, <2>2
  <2>4. new[b] = bh[a] /\ new[u.kid[s][b]] = bh[t.kid[s][a]]
    BY <1>10, <2>1, <2>2
  <2>5. Short(u, r, b, s) = Short(t, q, a, s)
    <3>1. CASE q = t.root
      BY <1>7, <3>1 DEF Short
    <3>2. CASE q # t.root
      <4>1. b = u.parent[r] <=> a = t.parent[q]
        BY <1>1, <1>2, <1>6, <2>1, <3>2
      <4> QED
        BY <1>7, <1>8, <3>2, <4>1 DEF Short
    <3> QED
      BY <3>1, <3>2
  <2>6. bh[a] = bh[t.kid[s][a]] + (1 - t.color[a]) + Short(t, q, a, s)
    BY <1>9
  <2>7. t.color[a] = 1 /\ t.color[t.kid[s][a]] = 1 => a = q \/ t.kid[s][a] = q
    BY <1>9
  <2> QED
    BY <2>1, <2>2, <2>3, <2>4, <2>5, <2>6, <2>7 DEF r
<1>12. Even(u, T2, new, r)
  BY <1>10, <1>11 DEF Even
<1>13. Reds(u, T2, {r}, {r})
  <2>1. u.color[Sentinel] = 0
    BY <1>2, <1>3, <1>9
  <2> QED
    BY <1>11, <2>1 DEF Reds
<1>14. u.color[u.root] = t.color[t.root]
  BY <1>3, <1>4
<1>15. r # u.root => /\ u.parent[r] \in T2 /\ u.parent[r] # r /\ u.kid[SideOf(u, r)][u.parent[r]] = r
                     /\ SideOf(u, r) \in Sides
  <2> SUFFICES ASSUME r # u.root
               PROVE  /\ u.parent[r] \in T2 /\ u.parent[r] # r /\ u.kid[SideOf(u, r)][u.parent[r]] = r
                      /\ SideOf(u, r) \in Sides
    OBVIOUS
  <2>1. q # t.root
    BY <1>7
  <2>2. u.parent[r] = Ren(x, y, t.parent[q]) /\ t.parent[q] \in T /\ t.parent[q] # q
    BY <1>1, <1>6, <2>1
  <2>3. u.kid[SideOf(t, q)][u.parent[r]] = r
    BY <1>1, <1>3, <2>1, <2>2 DEF r
  <2>4. u.parent[r] # r
    BY <1>1, <1>2, <2>2 DEF r
  <2> QED
    BY <1>1, <1>2, <1>8, <2>1, <2>2, <2>3, <2>4
<1>16. DeleteGood(u, T2, RenamedSub(sub, x, y), new, r)
  BY <1>1, <1>5, <1>7, <1>12, <1>13, <1>14, <1>15 DEF DeleteGood
<1> QED
  BY <1>14, <1>16 DEF r, T2

\* v is t but for the parent of temp, which has its new name.
Fixed(v, t, x, y, temp) ==
    /\ v \in Trees /\ v.root = t.root /\ v.key = t.key /\ v.color = t.color /\ v.kid = t.kid
    /\ \A z \in Nodes : v.parent[z] = IF z = temp THEN Ren(x, y, t.parent[z]) ELSE t.parent[z]

\* The links and the colour that night_rbtree_delete gives the node it puts in
\* another's place are those of the other.
LEMMA ReplaceWrites ==
    ASSUME NEW t, NEW T, NEW sub, Shape(t, T, sub), NEW x \in T, NEW y \in Events, y \notin T,
           NEW temp, NEW v, Fixed(v, t, x, y, temp), NEW u, u = Replace(v, x, y)
    PROVE  /\ Renamed(u, t, T, x, y)
           /\ temp = Sentinel => u.parent[Sentinel] = Ren(x, y, t.parent[Sentinel])
<1> DEFINE kl == t.kid["left"][x]
           kr == t.kid["right"][x]
           t1 == Paint(v, y, v.color[x])
           t2 == TakePlace(t1, x, y)
           t3 == Adopt(t2, "left", y, kl)
           r == SideOf(t, x)
<1>1. /\ v \in Trees /\ v.root = t.root /\ v.key = t.key /\ v.color = t.color /\ v.kid = t.kid
      /\ \A z \in Nodes : v.parent[z] = IF z = temp THEN Ren(x, y, t.parent[z]) ELSE t.parent[z]
  BY DEF Fixed
<1>2. u = Adopt(t3, "right", y, kr)
  BY <1>1, Zenon DEF Replace
<1>3. /\ T \subseteq Nodes /\ Sentinel \in Nodes /\ Sentinel \notin T /\ y \in Nodes /\ y # Sentinel
      /\ x \in Nodes /\ "left" \in Sides /\ "right" \in Sides /\ x # y /\ t \in Trees
      /\ \A s \in Sides : s = "left" \/ s = "right"
  BY ShapeNodes, TimersAssumption DEF Nodes, Sides
<1>4. /\ t.root \in T \cup {Sentinel}
      /\ \A z \in T, s \in Sides : t.kid[s][z] \in T \cup {Sentinel}
      /\ \A z \in T, s \in Sides : t.kid[s][z] # Sentinel => t.parent[t.kid[s][z]] = z
      /\ \A z \in T : z # t.root => t.parent[z] \in T /\ \E s \in Sides : t.kid[s][t.parent[z]] = z
  BY DEF Shape, Linked
<1>5. x # t.root => t.parent[x] \in T /\ r \in Sides /\ t.kid[r][t.parent[x]] = x /\ t.parent[x] # x
  BY ParentFacts
<1>6. \A z \in T, s \in Sides : t.kid[s][z] = x => x # t.root /\ z = t.parent[x] /\ s = r /\ z # x
  <2>1. x # Sentinel
    BY <1>3
  <2> QED
    BY <2>1, KidFacts
<1>7. kl \in T \cup {Sentinel} /\ kr \in T \cup {Sentinel} /\ kl # x /\ kr # x
  BY <1>3, <1>4, <1>6
<1> HIDE DEF kl, kr
<1>8. Painted(t1, v, y, t.color[x])
  <2>1. t.color[x] \in {0, 1} /\ v.color[x] = t.color[x]
    BY <1>1, <1>3 DEF Trees
  <2> QED
    BY <1>1, <1>3, <2>1, PaintWrites
<1> HIDE DEF t1
<1>9. /\ t1 \in Trees /\ t1.key = t.key /\ t1.root = t.root /\ t1.parent = v.parent /\ t1.kid = t.kid
      /\ \A z \in Nodes : t1.color[z] = IF z = y THEN t.color[x] ELSE t.color[z]
  BY <1>1, <1>8 DEF Painted
<1>10. x # t.root => t1.parent[x] = t.parent[x] /\ SideOf(t1, x) = r
  <2> SUFFICES ASSUME x # t.root PROVE t1.parent[x] = t.parent[x] /\ SideOf(t1, x) = r
    OBVIOUS
  <2>1. t1.parent[x] = t.parent[x]
    BY <1>1, <1>3, <1>5, <1>9 DEF Ren
  <2> QED
    BY <1>9, <2>1 DEF SideOf
<1>11. Placed(t2, t1, x, y)
  <2>1. x # t1.root => t1.parent[x] \in Nodes
    BY <1>3, <1>5, <1>9, <1>10
  <2> QED
    BY <1>3, <1>9, <2>1, TakePlaceWrites
<1> HIDE DEF t2
<1>12. /\ t2 \in Trees /\ t2.key = t.key /\ t2.root = IF x = t.root THEN y ELSE t.root
       /\ \A z \in Nodes : t2.color[z] = IF z = y THEN t.color[x] ELSE t.color[z]
       /\ \A z \in Nodes : t2.parent[z] = IF z = y THEN t1.parent[x] ELSE v.parent[z]
       /\ \A s \in Sides, z \in Nodes :
            t2.kid[s][z] = IF x # t.root /\ z = t.parent[x] /\ s = r THEN y ELSE t.kid[s][z]
  BY <1>9, <1>10, <1>11 DEF Placed
<1> HIDE DEF r
<1>k. kl \in Nodes /\ kr \in Nodes
  BY <1>3, <1>7
<1>13. Adopted(t3, t2, "left", y, kl)
  BY <1>3, <1>12, <1>k, AdoptWrites
<1> HIDE DEF t3
<1>14. Adopted(u, t3, "right", y, kr)
  <2>1. t3 \in Trees
    BY <1>13 DEF Adopted
  <2> QED
    BY <1>2, <1>3, <1>k, <2>1, AdoptWrites
<1>15. /\ u \in Trees /\ u.key = t.key /\ u.root = IF x = t.root THEN y ELSE t.root
       /\ \A z \in Nodes : u.color[z] = IF z = y THEN t.color[x] ELSE t.color[z]
       /\ \A z \in Nodes : u.parent[z] = IF z \in {kl, kr} /\ z # Sentinel THEN y ELSE t2.parent[z]
       /\ \A s \in Sides, z \in Nodes :
            u.kid[s][z] = IF z = y THEN (IF s = "left" THEN kl ELSE kr) ELSE t2.kid[s][z]
  <2>1. /\ t3.key = t2.key /\ t3.root = t2.root /\ t3.color = t2.color
        /\ \A z \in Nodes : t3.parent[z] = IF z = kl /\ z # Sentinel THEN y ELSE t2.parent[z]
        /\ \A s \in Sides, z \in Nodes : t3.kid[s][z] = IF z = y /\ s = "left" THEN kl ELSE t2.kid[s][z]
    BY <1>13 DEF Adopted
  <2>2. /\ u \in Trees /\ u.key = t3.key /\ u.root = t3.root /\ u.color = t3.color
        /\ \A z \in Nodes : u.parent[z] = IF z = kr /\ z # Sentinel THEN y ELSE t3.parent[z]
        /\ \A s \in Sides, z \in Nodes : u.kid[s][z] = IF z = y /\ s = "right" THEN kr ELSE t3.kid[s][z]
    BY <1>14 DEF Adopted
  <2>3. \A z \in Nodes : u.parent[z] = IF z \in {kl, kr} /\ z # Sentinel THEN y ELSE t2.parent[z]
    BY <2>1, <2>2
  <2>4. \A s \in Sides, z \in Nodes :
            u.kid[s][z] = IF z = y THEN (IF s = "left" THEN kl ELSE kr) ELSE t2.kid[s][z]
    BY <1>3, <2>1, <2>2
  <2> QED
    BY <1>12, <2>1, <2>2, <2>3, <2>4
<1>16. u.root = Ren(x, y, t.root)
  BY <1>15 DEF Ren
<1>17. \A z \in T \cup {Sentinel} : u.color[Ren(x, y, z)] = t.color[z]
  BY <1>3, <1>15 DEF Ren
<1>18. ASSUME NEW z \in T, z # t.root PROVE u.parent[Ren(x, y, z)] = Ren(x, y, t.parent[z])
  <2>1. CASE z = x
    <3>1. u.parent[y] = t1.parent[x]
      BY <1>3, <1>7, <1>12, <1>15
    <3> QED
      BY <1>5, <1>10, <1>18, <2>1, <3>1 DEF Ren
  <2>2. CASE z # x /\ t.parent[z] = x
    <3>1. PICK s \in Sides : t.kid[s][x] = z
      BY <1>4, <1>18, <2>2
    <3>2. z \in {kl, kr} /\ z # Sentinel
      BY <1>3, <3>1 DEF kl, kr
    <3>3. u.parent[z] = y
      BY <1>3, <1>15, <3>2
    <3> QED
      BY <2>2, <3>3 DEF Ren
  <2>3. CASE z # x /\ t.parent[z] # x
    <3>1. z \notin {kl, kr}
      BY <1>3, <1>4, <2>3 DEF kl, kr
    <3>2. u.parent[z] = v.parent[z]
      BY <1>3, <1>12, <1>15, <3>1
    <3>3. v.parent[z] = t.parent[z]
      BY <1>1, <1>3, <2>3 DEF Ren
    <3> QED
      BY <2>3, <3>2, <3>3 DEF Ren
  <2> QED
    BY <2>1, <2>2, <2>3
<1>19. ASSUME NEW z \in T, NEW s \in Sides
       PROVE  u.kid[s][Ren(x, y, z)] = Ren(x, y, t.kid[s][z])
  <2>1. CASE z = x
    <3>1. u.kid[s][y] = t.kid[s][x]
      BY <1>3, <1>15 DEF kl, kr
    <3>2. t.kid[s][x] # x
      BY <1>6
    <3> QED
      BY <2>1, <3>1, <3>2 DEF Ren
  <2>2. CASE z # x
    <3>1. u.kid[s][z] = t2.kid[s][z] /\ z # y /\ z \in Nodes
      BY <1>3, <1>15
    <3>2. t2.kid[s][z] = IF x # t.root /\ z = t.parent[x] /\ s = r THEN y ELSE t.kid[s][z]
      BY <1>12, <3>1
    <3>3. t.kid[s][z] = x <=> (x # t.root /\ z = t.parent[x] /\ s = r)
      BY <1>5, <1>6
    <3> QED
      BY <2>2, <3>1, <3>2, <3>3 DEF Ren
  <2> QED
    BY <2>1, <2>2
<1>20. temp = Sentinel => u.parent[Sentinel] = Ren(x, y, t.parent[Sentinel])
  BY <1>1, <1>3, <1>12, <1>15
<1> QED
  BY <1>15, <1>16, <1>17, <1>18, <1>19, <1>20 DEF Renamed

-----------------------------------------------------------------------------
(* night_rbtree_delete *)

\* What the node taken out holds has no part in the tree.
LEMMA ClearedSame ==
    ASSUME NEW t \in Trees, NEW T, NEW x \in Events, x \notin T, T \subseteq Nodes
    PROVE  Same(Cleared(t, x), t, T)
<1> DEFINE u == Cleared(t, x)
            k == [side \in Sides |-> [t.kid[side] EXCEPT ![x] = Null]]
            p == [t.parent EXCEPT ![x] = Null]
            e == [t.key EXCEPT ![x] = 0]
<1>1. x \in Nodes /\ x # Sentinel /\ Sentinel \in Nodes
  BY TimersAssumption DEF Nodes
<1>2. /\ t.key \in [Nodes -> Int] /\ t.parent \in [Nodes -> Nodes \cup {Null}]
      /\ t.kid \in [Sides -> [Nodes -> Nodes \cup {Null}]]
      /\ t.root \in Nodes /\ t.color \in [Nodes -> {0, 1}]
  BY DEF Trees
<1>3. /\ k \in [Sides -> [Nodes -> Nodes \cup {Null}]]
      /\ \A s \in Sides, z \in Nodes : z # x => k[s][z] = t.kid[s][z]
  BY <1>2
<1>4. /\ p \in [Nodes -> Nodes \cup {Null}] /\ \A z \in Nodes : z # x => p[z] = t.parent[z]
  BY <1>2
<1>5. /\ e \in [Nodes -> Int] /\ \A z \in Nodes : z # x => e[z] = t.key[z]
  <2>1. t.key \in [Nodes -> Int] /\ 0 \in Int
    BY <1>2
  <2> QED
    BY <2>1, Zenon
<1>6. u = [t EXCEPT !.kid = k, !.parent = p, !.key = e]
  BY DEF Cleared, Sides
<1> HIDE DEF u, k, p, e
<1>7. /\ u.root = t.root /\ u.color = t.color /\ u.key = e /\ u.parent = p /\ u.kid = k
      /\ u = [root |-> t.root, key |-> e, color |-> t.color, parent |-> p, kid |-> k]
  BY <1>6 DEF Trees
<1>8. u \in Trees
  BY <1>2, <1>3, <1>4, <1>5, <1>7 DEF Trees
<1>9. \A z \in T : z \in Nodes /\ z # x
  OBVIOUS
<1>10. \A z \in T \cup {Sentinel} : u.parent[z] = t.parent[z] /\ u.key[z] = t.key[z]
  BY <1>1, <1>4, <1>5, <1>7, <1>9
<1>11. \A z \in T, s \in Sides : u.kid[s][z] = t.kid[s][z]
  BY <1>3, <1>7, <1>9
<1>12. Same(u, t, T)
  BY <1>7, <1>8, <1>10, <1>11 DEF Same
<1> QED
  BY <1>12 DEF u

\* subst is the node unlinked for x, temp what gets its place, side the one on
\* which subst has no child.
SubstOf(t, x) == IF Sentinel \in {t.kid["left"][x], t.kid["right"][x]} THEN x
                 ELSE rbtree_min(t, t.kid["right"][x])
TempOf(t, subst) == IF t.kid["left"][subst] = Sentinel THEN t.kid["right"][subst]
                    ELSE t.kid["left"][subst]
Substitute(t, T, sub, x, subst, temp, side) ==
    /\ subst \in T /\ side \in Sides /\ t.kid[side][subst] = Sentinel
    /\ temp = t.kid[Opposite(side)][subst]
    /\ subst # x => /\ subst # t.root /\ subst \in sub[t.kid["right"][x]]
                    /\ \A z \in sub[t.kid["right"][x]] : t.key[subst] <= t.key[z]

\* Such a node there is, whatever children x has.
LEMMA SubstituteIs ==
    ASSUME NEW t, NEW T, NEW sub, Shape(t, T, sub), Ordered(t, T, sub), NEW x \in T,
           NEW subst, subst = SubstOf(t, x), NEW temp, temp = TempOf(t, subst)
    PROVE  \E side : Substitute(t, T, sub, x, subst, temp, side)
<1>1. "left" \in Sides /\ "right" \in Sides /\ Opposite("left") = "right" /\ Opposite("right") = "left"
  BY DEF Sides, Opposite
<1>2. CASE t.kid["left"][x] = Sentinel
  <2>1. subst = x /\ temp = t.kid["right"][x]
    BY <1>2 DEF SubstOf, TempOf
  <2>2. Substitute(t, T, sub, x, subst, temp, "left")
    BY <1>1, <1>2, <2>1 DEF Substitute
  <2> QED
    BY <2>2
<1>3. CASE t.kid["left"][x] # Sentinel /\ t.kid["right"][x] = Sentinel
  <2>1. subst = x /\ temp = t.kid["left"][x]
    BY <1>3 DEF SubstOf, TempOf
  <2>2. Substitute(t, T, sub, x, subst, temp, "right")
    BY <1>1, <1>3, <2>1 DEF Substitute
  <2> QED
    BY <2>2
<1>4. CASE t.kid["left"][x] # Sentinel /\ t.kid["right"][x] # Sentinel
  <2> DEFINE k == t.kid["right"][x]
  <2>1. subst = rbtree_min(t, k)
    BY <1>4 DEF SubstOf
  <2>2. k \in T /\ k # t.root
    BY <1>1, <1>4, KidFacts
  <2>3. /\ subst \in sub[k] /\ t.kid["left"][subst] = Sentinel
        /\ \A z \in sub[k] : t.key[subst] <= t.key[z]
    BY <2>1, <2>2, MinIs
  <2>4. subst \in T /\ subst # t.root
    BY <2>2, <2>3, SubNested
  <2>5. temp = t.kid["right"][subst]
    BY <2>3 DEF TempOf
  <2>6. Substitute(t, T, sub, x, subst, temp, "left")
    BY <1>1, <2>3, <2>4, <2>5 DEF Substitute
  <2> QED
    BY <2>6
<1> QED
  BY <1>2, <1>3, <1>4

\* What night_rbtree_delete does in each case.
LEMMA DeleteCases ==
    ASSUME NEW t, NEW x, NEW subst, subst = SubstOf(t, x), NEW temp, temp = TempOf(t, subst),
           NEW t1, t1 = TakePlace(t, subst, temp),
           NEW v, v = IF t.parent[subst] = x THEN [t1 EXCEPT !.parent[temp] = subst] ELSE t1
    PROVE  /\ subst = t.root =>
                rbtree_delete(t, x) = Cleared(Paint([t EXCEPT !.root = temp], temp, Black), x)
           /\ subst # t.root /\ subst = x /\ t.color[subst] = 1 => rbtree_delete(t, x) = Cleared(t1, x)
           /\ subst # t.root /\ subst = x /\ t.color[subst] # 1 =>
                rbtree_delete(t, x) = DeleteFixup(Cleared(t1, x), temp)
           /\ subst # t.root /\ subst # x /\ t.color[subst] = 1 =>
                rbtree_delete(t, x) = Cleared(Replace(v, x, subst), x)
           /\ subst # t.root /\ subst # x /\ t.color[subst] # 1 =>
                rbtree_delete(t, x) = DeleteFixup(Cleared(Replace(v, x, subst), x), temp)
<1> DEFINE t2 == IF subst = x THEN t1 ELSE Replace(v, x, subst)
<1>1. rbtree_delete(t, x) =
        IF subst = t.root THEN Cleared(Paint([t EXCEPT !.root = temp], temp, Black), x)
        ELSE IF t.color[subst] = 1 THEN Cleared(t2, x) ELSE DeleteFixup(Cleared(t2, x), temp)
  BY Zenon DEF rbtree_delete, SubstOf, TempOf, IsRed, Red
<1>2. (subst = x => t2 = t1) /\ (subst # x => t2 = Replace(v, x, subst))
  OBVIOUS
<1> HIDE DEF t2
<1> QED
  BY <1>1, <1>2

\* The last step of either case.
LEMMA ClearedBalanced ==
    ASSUME NEW t, NEW T, NEW x \in Events, x \notin T
    PROVE  /\ \A sub, bh : Balanced(t, T, sub, bh) => Balanced(Cleared(t, x), T, sub, bh)
           /\ \A sub, bh, q : DeleteGood(t, T, sub, bh, q) =>
                \E sub2, bh2 : Balanced(DeleteFixup(Cleared(t, x), q), T, sub2, bh2)
<1>1. ASSUME NEW sub, NEW bh, Balanced(t, T, sub, bh) PROVE Balanced(Cleared(t, x), T, sub, bh)
  <2>1. t \in Trees /\ T \subseteq Nodes
    BY <1>1, ShapeNodes DEF Balanced
  <2> QED
    BY <1>1, <2>1, ClearedSame, SameGood
<1>2. ASSUME NEW sub, NEW bh, NEW q, DeleteGood(t, T, sub, bh, q)
      PROVE  \E sub2, bh2 : Balanced(DeleteFixup(Cleared(t, x), q), T, sub2, bh2)
  <2>1. t \in Trees /\ T \subseteq Nodes
    BY <1>2, ShapeNodes DEF DeleteGood
  <2>2. DeleteGood(Cleared(t, x), T, sub, bh, q)
    BY <1>2, <2>1, ClearedSame, SameGood
  <2> QED
    BY <2>2, DeleteFixupGood
<1> QED
  BY <1>1, <1>2

\* The node put in the place of x belongs there.
LEMMA SubstituteBetween ==
    ASSUME NEW t, NEW T, NEW sub, Shape(t, T, sub), Ordered(t, T, sub), NEW x \in T,
           NEW subst, NEW temp, NEW side, Substitute(t, T, sub, x, subst, temp, side), subst # x,
           NEW t1, Unlinks(t1, t, T, side, subst, temp)
    PROVE  Between(t1, T \ {subst}, WithoutSub(sub, subst), x, subst) /\ temp # x
<1>1. /\ subst \in T /\ subst \in sub[t.kid["right"][x]]
      /\ \A z \in sub[t.kid["right"][x]] : t.key[subst] <= t.key[z]
      /\ side \in Sides /\ Opposite(side) \in Sides /\ temp = t.kid[Opposite(side)][subst]
  BY SideFacts DEF Substitute
<1>2. \A z \in T, s \in Sides : WithoutSub(sub, subst)[t1.kid[s][z]] = sub[t.kid[s][z]] \ {subst}
  <2>1. Thinned(t1, t, T, sub, subst)
    BY UnlinkNested
  <2> QED
    BY <2>1 DEF Thinned
<1>3. t1.key = t.key /\ t \in Trees /\ T \subseteq Nodes
  BY UnlinkFacts DEF Shape
<1>4. \A z \in T : t.key[z] \in Int
  BY <1>3 DEF Trees
<1>5. "left" \in Sides /\ "right" \in Sides /\ \A s \in Sides : s = "left" \/ s = "right"
  BY DEF Sides
<1>6. \A s \in Sides : sub[t.kid[s][x]] \subseteq T
  <2> SUFFICES ASSUME NEW s \in Sides PROVE sub[t.kid[s][x]] \subseteq T
    OBVIOUS
  <2>1. t.kid[s][x] \in T \cup {Sentinel} /\ sub[Sentinel] = {}
    BY DEF Shape, Linked, Nested
  <2> QED
    BY <2>1, SubNested
<1>7. t.key[x] <= t.key[subst] /\ \A z \in sub[t.kid["left"][x]] : t.key[z] <= t.key[x]
  BY <1>1, <1>5 DEF Ordered, Sorted
<1>8. ASSUME NEW s \in Sides, NEW z \in WithoutSub(sub, subst)[t1.kid[s][x]]
      PROVE  Sorted(t1, s, z, subst)
  <2>1. z \in sub[t.kid[s][x]] /\ z \in T
    BY <1>2, <1>6
  <2>2. CASE s = "left"
    BY <1>1, <1>3, <1>4, <1>7, <2>1, <2>2 DEF Sorted
  <2>3. CASE s = "right"
    BY <1>1, <1>3, <2>1, <2>3 DEF Sorted
  <2> QED
    BY <1>5, <2>2, <2>3
<1>9. subst \in sub[x]
  <2>1. t.kid["right"][x] # Sentinel
    BY <1>1 DEF Shape, Nested
  <2>2. t.kid["right"][x] \in sub[x]
    BY <1>5, <2>1, KidFacts
  <2> QED
    BY <1>1, <2>2, SubNested
<1>10. ASSUME NEW z \in T \ {subst}, NEW s \in Sides, x \in WithoutSub(sub, subst)[t1.kid[s][z]]
       PROVE  Sorted(t1, s, subst, z)
  <2>1. x \in sub[t.kid[s][z]]
    BY <1>2, <1>10
  <2>2. t.kid[s][z] # Sentinel
    BY <2>1 DEF Shape, Nested
  <2>3. t.kid[s][z] \in T
    BY <2>2, KidFacts
  <2>4. subst \in sub[t.kid[s][z]]
    BY <1>9, <2>1, <2>3, SubNested
  <2>5. Sorted(t, s, subst, z)
    BY <2>4 DEF Ordered
  <2> QED
    BY <1>3, <2>5 DEF Sorted
<1>11. temp # x
  <2>1. CASE temp = Sentinel
    BY <2>1, ShapeNodes
  <2>2. CASE temp # Sentinel
    <3>1. temp \in sub[subst]
      BY <1>1, <2>2, KidFacts
    <3>2. t.kid["right"][x] # Sentinel
      BY <1>1 DEF Shape, Nested
    <3>3. t.kid["right"][x] \in T /\ x \notin sub[t.kid["right"][x]]
      BY <1>5, <3>2, KidFacts
    <3> QED
      BY <1>1, <3>1, <3>3, SubNested
  <2> QED
    BY <2>1, <2>2
<1> QED
  BY <1>8, <1>10, <1>11 DEF Between

\* The links that night_rbtree_delete writes before it puts subst in the place of x.
LEMMA FixedIs ==
    ASSUME NEW t, NEW t1 \in Trees, NEW x, NEW subst \in Nodes, NEW temp \in Nodes,
           t1.parent[temp] = t.parent[subst],
           NEW v, v = IF t.parent[subst] = x THEN [t1 EXCEPT !.parent[temp] = subst] ELSE t1
    PROVE  Fixed(v, t1, x, subst, temp)
<1>1. CASE t.parent[subst] = x
  <2> DEFINE p == [t1.parent EXCEPT ![temp] = subst]
  <2>1. t1.parent \in [Nodes -> Nodes \cup {Null}]
    BY DEF Trees
  <2>2. /\ p \in [Nodes -> Nodes \cup {Null}]
        /\ \A z \in Nodes : p[z] = IF z = temp THEN subst ELSE t1.parent[z]
    BY <2>1
  <2>3. v = [t1 EXCEPT !.parent = p]
    BY <1>1
  <2> HIDE DEF p
  <2>4. /\ v \in Trees /\ v.root = t1.root /\ v.key = t1.key /\ v.color = t1.color
        /\ v.kid = t1.kid /\ v.parent = p
    BY <2>2, <2>3 DEF Trees
  <2> QED
    BY <1>1, <2>2, <2>4 DEF Fixed, Ren
<1>2. CASE t.parent[subst] # x
  BY <1>2 DEF Fixed, Ren
<1> QED
  BY <1>1, <1>2

\* The only node of the tree, or one with a single child, is the root.
LEMMA DeleteRoot ==
    ASSUME NEW t, NEW T, NEW sub, NEW bh, Balanced(t, T, sub, bh), NEW x \in T, x = t.root,
           NEW temp, NEW side, NEW t1, t1 = TakePlace(t, x, temp), Unlinks(t1, t, T, side, x, temp)
    PROVE  \E sub2, bh2 : Balanced(Paint([t EXCEPT !.root = temp], temp, Black), T \ {x}, sub2, bh2)
<1> DEFINE a == Paint(t1, temp, Black)
           t0 == [t EXCEPT !.root = temp]
           b == Paint(t0, temp, Black)
           new == WithoutSub(sub, x)
<1>1. /\ Shape(t, T, sub) /\ t.color[x] = 0 /\ t \in Trees /\ T \subseteq Nodes
  BY ShapeNodes DEF Balanced
<1>2. DeleteGood(t1, T \ {x}, new, bh, temp)
  BY <1>1, UnlinkGood
<1>3. t1 \in Trees /\ t1.root = temp /\ temp \in T \cup {Sentinel} /\ temp \in Nodes /\ 0 \in {0, 1}
  BY <1>1, UnlinkFacts
<1>4. Painted(a, t1, temp, 0)
  BY <1>3, PaintWrites DEF Black
<1>5. PICK bh2 : Balanced(a, T \ {x}, new, bh2)
  BY <1>2, <1>3, <1>4, PaintMissing
<1>6. /\ t0 \in Trees /\ t0.root = temp /\ t0.key = t.key /\ t0.color = t.color
      /\ t0.parent = t.parent /\ t0.kid = t.kid
  BY <1>1, <1>3 DEF Trees
<1> HIDE DEF a, t0
<1>7. Painted(b, t0, temp, 0)
  BY <1>3, <1>6, PaintWrites DEF Black
<1> HIDE DEF b, new
<1>8. /\ t1.key = t.key /\ t1.color = t.color
      /\ \A z \in Nodes : z # temp => t1.parent[z] = t.parent[z]
      /\ \A s \in Sides, z \in Nodes : t1.kid[s][z] = t.kid[s][z]
  BY DEF Unlinks, Placed
<1>9. Same(b, a, T \ {x})
  <2>1. b \in Trees /\ b.root = a.root /\ b.key = a.key /\ a.root = temp
    BY <1>3, <1>4, <1>6, <1>7, <1>8 DEF Painted
  <2>2. \A z \in Nodes : b.color[z] = a.color[z]
    BY <1>4, <1>6, <1>7, <1>8 DEF Painted
  <2>3. \A z \in Nodes : z # temp => b.parent[z] = a.parent[z]
    BY <1>4, <1>6, <1>7, <1>8 DEF Painted
  <2>4. \A s \in Sides, z \in Nodes : b.kid[s][z] = a.kid[s][z]
    BY <1>4, <1>6, <1>7, <1>8 DEF Painted
  <2>5. Sentinel \in Nodes
    BY DEF Nodes
  <2> QED
    BY <1>1, <2>1, <2>2, <2>3, <2>4, <2>5 DEF Same
<1>10. Balanced(b, T \ {x}, new, bh2)
  BY <1>5, <1>9, SameGood
<1> QED
  BY <1>10 DEF b, t0

\* night_rbtree_delete keeps the tree a red-black tree and takes out the node it
\* is given, no other.
LEMMA DeleteBalanced ==
    ASSUME NEW t, NEW T, NEW sub, NEW bh, Balanced(t, T, sub, bh), NEW x \in T
    PROVE  \E sub2, bh2 : Balanced(rbtree_delete(t, x), T \ {x}, sub2, bh2)
<1> DEFINE subst == SubstOf(t, x)
           temp == TempOf(t, subst)
           t1 == TakePlace(t, subst, temp)
           v == IF t.parent[subst] = x THEN [t1 EXCEPT !.parent[temp] = subst] ELSE t1
           T1 == T \ {subst}
           s1 == WithoutSub(sub, subst)
<1>1. /\ Shape(t, T, sub) /\ Ordered(t, T, sub) /\ t.color[t.root] = 0
      /\ t \in Trees /\ T \subseteq Nodes /\ Sentinel \in Nodes
      /\ T \subseteq Events /\ \A z \in Nodes : t.color[z] \in {0, 1}
  <2>1. Shape(t, T, sub) /\ Ordered(t, T, sub) /\ t.color[t.root] = 0
    BY DEF Balanced
  <2> QED
    BY <2>1, ShapeNodes DEF Shape
<1>2. \E side : Substitute(t, T, sub, x, subst, temp, side)
  BY <1>1, SubstituteIs
<1>3. PICK side : Substitute(t, T, sub, x, subst, temp, side)
  BY <1>2
<1>4. /\ subst = t.root =>
            rbtree_delete(t, x) = Cleared(Paint([t EXCEPT !.root = temp], temp, Black), x)
      /\ subst # t.root /\ subst = x /\ t.color[subst] = 1 => rbtree_delete(t, x) = Cleared(t1, x)
      /\ subst # t.root /\ subst = x /\ t.color[subst] # 1 =>
            rbtree_delete(t, x) = DeleteFixup(Cleared(t1, x), temp)
      /\ subst # t.root /\ subst # x /\ t.color[subst] = 1 =>
            rbtree_delete(t, x) = Cleared(Replace(v, x, subst), x)
      /\ subst # t.root /\ subst # x /\ t.color[subst] # 1 =>
            rbtree_delete(t, x) = DeleteFixup(Cleared(Replace(v, x, subst), x), temp)
  BY DeleteCases
<1> HIDE DEF subst, temp
<1>5. /\ subst \in T /\ side \in Sides /\ t.kid[side][subst] = Sentinel
      /\ temp = t.kid[Opposite(side)][subst] /\ (subst # x => subst # t.root)
      /\ Opposite(side) \in Sides
  BY <1>3, SideFacts DEF Substitute
<1>6. temp \in Nodes /\ subst \in Nodes /\ subst \in Events /\ (subst # t.root => t.parent[subst] \in Nodes)
  <2>1. temp \in Nodes
    BY <1>1, <1>5, ShapeNodes
  <2>2. subst # t.root => t.parent[subst] \in T
    BY <1>1, <1>5, ParentFacts
  <2> QED
    BY <1>1, <1>5, <2>1, <2>2
<1>7. Unlinks(t1, t, T, side, subst, temp)
  <2>1. Placed(t1, t, subst, temp)
    BY <1>1, <1>6, TakePlaceWrites
  <2> QED
    BY <1>5, <2>1 DEF Unlinks
<1>8. t1 = TakePlace(t, subst, temp)
  OBVIOUS
<1> HIDE DEF t1
<1>9. /\ t.color[subst] = 1 => Balanced(t1, T1, s1, bh)
      /\ t.color[subst] # 1 => DeleteGood(t1, T1, s1, bh, temp)
      /\ t1 \in Trees /\ t1.parent[temp] = t.parent[subst]
  <2>1. /\ t.color[subst] = 1 => Balanced(t1, T1, s1, bh)
        /\ t.color[subst] = 0 => DeleteGood(t1, T1, s1, bh, temp)
    BY <1>7, UnlinkGood
  <2>2. t1 \in Trees /\ t1.parent[temp] = t.parent[subst]
    BY <1>1, <1>7, UnlinkFacts
  <2> QED
    BY <1>1, <1>6, <2>1, <2>2
<1>10. x \in Events /\ x \notin T \ {x}
  BY <1>1
<1>11. CASE subst = t.root
  <2>1. subst = x /\ x = t.root
    BY <1>5, <1>11
  <2>2. \E sub2, bh2 : Balanced(Paint([t EXCEPT !.root = temp], temp, Black), T \ {x}, sub2, bh2)
    BY <1>7, <1>8, <2>1, DeleteRoot
  <2> QED
    BY <1>4, <1>10, <1>11, <2>2, ClearedBalanced
<1>12. CASE subst # t.root /\ subst = x
  <2>1. CASE t.color[subst] = 1
    <3>1. Balanced(t1, T \ {x}, s1, bh) /\ rbtree_delete(t, x) = Cleared(t1, x)
      BY <1>4, <1>9, <1>12, <2>1
    <3> QED
      BY <1>10, <3>1, ClearedBalanced
  <2>2. CASE t.color[subst] # 1
    <3>1. DeleteGood(t1, T \ {x}, s1, bh, temp) /\ rbtree_delete(t, x) = DeleteFixup(Cleared(t1, x), temp)
      BY <1>4, <1>9, <1>12, <2>2
    <3> QED
      BY <1>10, <3>1, ClearedBalanced
  <2> QED
    BY <2>1, <2>2
<1>13. CASE subst # t.root /\ subst # x
  <2> DEFINE u == Replace(v, x, subst)
  <2>1. Between(t1, T1, s1, x, subst) /\ temp # x
    <3> HIDE DEF T1, s1
    <3> QED
      BY <1>1, <1>3, <1>7, <1>13, SubstituteBetween DEF T1, s1
  <2>2. Shape(t1, T1, s1)
    BY <1>9 DEF Balanced, DeleteGood
  <2>3. Fixed(v, t1, x, subst, temp)
    BY <1>6, <1>9, FixedIs
  <2> HIDE DEF v
  <2>4. x \in T1 /\ subst \notin T1 /\ (T1 \ {x}) \cup {subst} = T \ {x}
    BY <1>5, <1>13
  <2> HIDE DEF T1, s1
  <2>5. /\ Renamed(u, t1, T1, x, subst)
        /\ temp = Sentinel => u.parent[Sentinel] = Ren(x, subst, t1.parent[Sentinel])
    BY <1>6, <2>2, <2>3, <2>4, ReplaceWrites
  <2> HIDE DEF u
  <2>6. CASE t.color[subst] = 1
    <3>1. DeleteGood(t1, T1, s1, bh, t1.root) /\ t1.color[t1.root] = 0
      BY <1>9, <2>6, BalancedIs
    <3> DEFINE q == t1.root
    <3>2. DeleteGood(t1, T1, s1, bh, q) /\ ~(q = Sentinel /\ q # t1.root) /\ q = t1.root
      BY <3>1
    <3> HIDE DEF q
    <3>3. /\ \E new : DeleteGood(u, (T1 \ {x}) \cup {subst}, RenamedSub(s1, x, subst), new, Ren(x, subst, q))
          /\ u.color[u.root] = t1.color[t1.root]
      BY <2>1, <2>5, <3>2, RenameGood
    <3>4. u.root = Ren(x, subst, q)
      BY <2>5, <3>2 DEF Renamed
    <3>5. \E new : Balanced(u, (T1 \ {x}) \cup {subst}, RenamedSub(s1, x, subst), new)
      BY <3>1, <3>3, <3>4, BalancedIs
    <3>6. rbtree_delete(t, x) = Cleared(u, x)
      BY <1>4, <1>13, <2>6 DEF u
    <3> QED
      BY <1>10, <2>4, <3>5, <3>6, ClearedBalanced
  <2>7. CASE t.color[subst] # 1
    <3>1. DeleteGood(t1, T1, s1, bh, temp)
      BY <1>9, <2>7
    <3>2. temp = Sentinel /\ temp # t1.root => u.parent[temp] = Ren(x, subst, t1.parent[temp])
      BY <2>5
    <3>3. \E new : DeleteGood(u, (T1 \ {x}) \cup {subst}, RenamedSub(s1, x, subst), new, Ren(x, subst, temp))
      BY <2>1, <2>5, <3>1, <3>2, RenameGood
    <3>4. Ren(x, subst, temp) = temp
      BY <2>1 DEF Ren
    <3>5. rbtree_delete(t, x) = DeleteFixup(Cleared(u, x), temp)
      BY <1>4, <1>13, <2>7 DEF u
    <3> QED
      BY <1>10, <2>4, <3>3, <3>4, <3>5, ClearedBalanced
  <2> QED
    BY <2>6, <2>7
<1> QED
  BY <1>11, <1>12, <1>13

-----------------------------------------------------------------------------
(* The way through the tree *)

\* What the walk through the tree does.
LEMMA WalkRuns ==
    ASSUME NEW S, [y \in Nodes \cup {Null} |-> <<>>] \in S, NEW G, IsTurn(G, S),
           \A f \in S : G[f] = Walk(f), NEW x
    PROVE  \E d : IsRun(d, S, [y \in Nodes \cup {Null} |-> <<>>], G) /\ InOrder(x) = d[Turns][x]
<1> DEFINE f0 == [y \in Nodes \cup {Null} |-> <<>>]
           F(f) == [n \in 0..Turns |-> IF n = 0 THEN f0 ELSE Walk(f[n - 1])]
           after == CHOOSE f : f = F(f)
<1>1. InOrder(x) = after[Turns][x]
  BY Zenon DEF InOrder, Loop
<1> HIDE DEF f0
<1>2. PICK d : IsRun(d, S, f0, G)
  BY LoopRuns DEF f0
<1>3. d = F(d)
  <2>1. /\ d \in [0..Turns -> S] /\ d[0] = f0
        /\ \A n \in 1..Turns : d[n] = G[d[n - 1]]
    BY <1>2 DEF IsRun
  <2>2. \A n \in 1..Turns : n - 1 \in 0..Turns /\ n # 0
    BY TurnsNat
  <2>3. \A n \in 1..Turns : d[n] = Walk(d[n - 1])
    BY <2>1, <2>2
  <2>4. \A n \in 0..Turns : n = 0 \/ n \in 1..Turns
    BY TurnsNat
  <2> QED
    BY <2>1, <2>2, <2>3, <2>4, Zenon
<1>4. after = F(after)
  <2> HIDE DEF F
  <2> QED
    BY <1>3
<1> HIDE DEF after
<1>5. IsAfter(after, S, f0, G)
  <2>1. \E h : after = [n \in 0..Turns |-> h[n]]
    <3>1. after = [n \in 0..Turns |-> after[n]]
      BY <1>4
    <3> QED
      BY <3>1
  <2>2. after[0] = f0 /\ \A n \in 1..Turns : after[n] = Walk(after[n - 1])
    BY <1>4, TurnsNat
  <2> QED
    BY <2>1, <2>2 DEF IsAfter
<1>6. IsRun(after, S, f0, G)
  BY <1>5, AfterRuns DEF f0
<1> QED
  BY <1>1, <1>6 DEF f0

\* What the count of the black nodes does.
LEMMA CountRuns ==
    ASSUME NEW S, [y \in Nodes \cup {Null} |-> 0] \in S, NEW G, IsTurn(G, S),
           \A f \in S : G[f] = Count(f)
    PROVE  \E d : /\ IsRun(d, S, [y \in Nodes \cup {Null} |-> 0], G)
                  /\ \A x : BlackHeight(x) = d[Turns][x]
<1> DEFINE f0 == [y \in Nodes \cup {Null} |-> 0]
           F(f) == [n \in 0..Turns |-> IF n = 0 THEN f0 ELSE Count(f[n - 1])]
           after == CHOOSE f : f = F(f)
<1>1. \A x : BlackHeight(x) = after[Turns][x]
  BY Zenon DEF BlackHeight, Loop
<1> HIDE DEF f0
<1>2. PICK d : IsRun(d, S, f0, G)
  BY LoopRuns DEF f0
<1>3. d = F(d)
  <2>1. /\ d \in [0..Turns -> S] /\ d[0] = f0
        /\ \A n \in 1..Turns : d[n] = G[d[n - 1]]
    BY <1>2 DEF IsRun
  <2>2. \A n \in 1..Turns : n - 1 \in 0..Turns /\ n # 0
    BY TurnsNat
  <2>3. \A n \in 1..Turns : d[n] = Count(d[n - 1])
    BY <2>1, <2>2
  <2>4. \A n \in 0..Turns : n = 0 \/ n \in 1..Turns
    BY TurnsNat
  <2> QED
    BY <2>1, <2>2, <2>3, <2>4, Zenon
<1>4. after = F(after)
  <2> HIDE DEF F
  <2> QED
    BY <1>3
<1> HIDE DEF after
<1>5. IsAfter(after, S, f0, G)
  <2>1. \E h : after = [n \in 0..Turns |-> h[n]]
    <3>1. after = [n \in 0..Turns |-> after[n]]
      BY <1>4
    <3> QED
      BY <3>1
  <2>2. after[0] = f0 /\ \A n \in 1..Turns : after[n] = Count(after[n - 1])
    BY <1>4, TurnsNat
  <2> QED
    BY <2>1, <2>2 DEF IsAfter
<1>6. IsRun(after, S, f0, G)
  BY <1>5, AfterRuns DEF f0
<1> QED
  BY <1>1, <1>6 DEF f0

\* s lists the nodes of A, each once, in the order of their keys.
Ranked(t, s, A) ==
    /\ s \in Seq(Nodes) /\ Len(s) = Cardinality(A)
    /\ \A i \in 1..Len(s) : s[i] \in A
    /\ \A z \in A : \E i \in 1..Len(s) : s[i] = z
    /\ \A i \in 1..Len(s) - 1 : t.key[s[i]] <= t.key[s[i + 1]]

\* A list of what is left of x, x, and one of what is right of it make one list.
LEMMA JoinRanked ==
    ASSUME NEW t \in Trees, NEW A, NEW B, NEW x \in Nodes, IsFiniteSet(A), IsFiniteSet(B),
           A \subseteq Nodes, B \subseteq Nodes, x \notin A, x \notin B, A \cap B = {},
           \A z \in A : t.key[z] <= t.key[x], \A z \in B : t.key[x] <= t.key[z],
           NEW s, NEW r, Ranked(t, s, A), Ranked(t, r, B)
    PROVE  Ranked(t, s \o <<x>> \o r, A \cup {x} \cup B)
<1> DEFINE w == s \o <<x>> \o r
           C == A \cup {x} \cup B
<1>1. /\ s \in Seq(Nodes) /\ r \in Seq(Nodes) /\ <<x>> \in Seq(Nodes)
      /\ Len(s) \in Nat /\ Len(r) \in Nat
  BY DEF Ranked
<1>2. /\ w \in Seq(Nodes) /\ Len(w) = Len(s) + 1 + Len(r)
      /\ \A i \in 1..Len(w) : w[i] = IF i <= Len(s) THEN s[i]
                                     ELSE IF i = Len(s) + 1 THEN x ELSE r[i - Len(s) - 1]
  BY <1>1
<1> HIDE DEF w
<1>3. Cardinality(C) = Cardinality(A) + 1 + Cardinality(B)
  <2>1. /\ IsFiniteSet(A \cup {x}) /\ Cardinality(A \cup {x}) = Cardinality(A) + 1
        /\ Cardinality(A) \in Nat /\ Cardinality(B) \in Nat
    BY FS_AddElement, FS_CardinalityType
  <2>2. (A \cup {x}) \cap B = {}
    OBVIOUS
  <2>3. Cardinality(C) = Cardinality(A \cup {x}) + Cardinality(B) - Cardinality((A \cup {x}) \cap B)
    BY <2>1, FS_Union
  <2>4. Cardinality({}) = 0
    BY FS_EmptySet
  <2> QED
    BY <2>1, <2>2, <2>3, <2>4
<1>4. Len(w) = Cardinality(C)
  BY <1>2, <1>3 DEF Ranked
<1>5. ASSUME NEW i \in 1..Len(w) PROVE w[i] \in C
  <2>1. CASE i <= Len(s)
    <3>1. w[i] = s[i] /\ i \in 1..Len(s)
      BY <1>1, <1>2, <2>1
    <3> QED
      BY <3>1 DEF Ranked
  <2>2. CASE i = Len(s) + 1
    BY <1>1, <1>2, <2>2
  <2>3. CASE i > Len(s) + 1
    <3>1. w[i] = r[i - Len(s) - 1] /\ i - Len(s) - 1 \in 1..Len(r)
      BY <1>1, <1>2, <2>3
    <3> QED
      BY <3>1 DEF Ranked
  <2> QED
    BY <1>1, <1>2, <2>1, <2>2, <2>3
<1>6. ASSUME NEW z \in C PROVE \E i \in 1..Len(w) : w[i] = z
  <2>1. CASE z \in A
    <3>1. PICK i \in 1..Len(s) : s[i] = z
      BY <2>1 DEF Ranked
    <3>2. i \in 1..Len(w) /\ w[i] = z
      BY <1>1, <1>2, <3>1
    <3> QED
      BY <3>2
  <2>2. CASE z = x
    <3>1. Len(s) + 1 \in 1..Len(w) /\ w[Len(s) + 1] = x
      BY <1>1, <1>2
    <3> QED
      BY <2>2, <3>1
  <2>3. CASE z \in B
    <3>1. PICK i \in 1..Len(r) : r[i] = z
      BY <2>3 DEF Ranked
    <3>2. i + Len(s) + 1 \in 1..Len(w) /\ (i + Len(s) + 1) - Len(s) - 1 = i
          /\ ~(i + Len(s) + 1 <= Len(s)) /\ i + Len(s) + 1 # Len(s) + 1
      BY <1>1, <1>2
    <3>3. w[i + Len(s) + 1] = z
      BY <1>2, <3>1, <3>2
    <3> QED
      BY <3>2, <3>3
  <2> QED
    BY <2>1, <2>2, <2>3
<1>7. ASSUME NEW i \in 1..Len(w) - 1 PROVE t.key[w[i]] <= t.key[w[i + 1]]
  <2>0. i \in 1..Len(w) /\ i + 1 \in 1..Len(w)
    BY <1>1, <1>2
  <2>1. CASE i < Len(s)
    <3>1. w[i] = s[i] /\ w[i + 1] = s[i + 1] /\ i \in 1..Len(s) - 1
      BY <1>1, <1>2, <2>0, <2>1
    <3> QED
      BY <3>1 DEF Ranked
  <2>2. CASE i = Len(s)
    <3>1. w[i] = s[i] /\ w[i + 1] = x /\ i \in 1..Len(s)
      BY <1>1, <1>2, <2>0, <2>2
    <3>2. s[i] \in A
      BY <3>1 DEF Ranked
    <3> QED
      BY <3>1, <3>2
  <2>3. CASE i = Len(s) + 1
    <3>1. w[i] = x /\ w[i + 1] = r[1] /\ 1 \in 1..Len(r)
      BY <1>1, <1>2, <2>0, <2>3
    <3>2. r[1] \in B
      BY <3>1 DEF Ranked
    <3> QED
      BY <3>1, <3>2
  <2>4. CASE i > Len(s) + 1
    <3> DEFINE j == i - Len(s) - 1
    <3>1. w[i] = r[j] /\ (i + 1) - Len(s) - 1 = j + 1 /\ j \in 1..Len(r) - 1
      BY <1>1, <1>2, <2>0, <2>4
    <3>2. w[i + 1] = r[j + 1]
      BY <1>1, <1>2, <2>0, <2>4, <3>1
    <3> QED
      BY <3>1, <3>2 DEF Ranked
  <2> QED
    BY <1>1, <2>0, <2>1, <2>2, <2>3, <2>4
<1>8. Ranked(t, w, C)
  BY <1>2, <1>4, <1>5, <1>6, <1>7 DEF Ranked
<1> QED
  BY <1>8 DEF w

\* The walk lists what is below a node, from the nearest deadline to the farthest.
LEMMA InOrderIs ==
    ASSUME NEW T, NEW sub, Shape(tree, T, sub), Ordered(tree, T, sub)
    PROVE  Ranked(tree, InOrder(tree.root), T)
<1> DEFINE N == Nodes \cup {Null}
           S == [N -> Seq(Nodes)]
           f0 == [y \in N |-> <<>>]
           G == [f \in S |-> Walk(f)]
<1>1. /\ tree \in Trees /\ T \subseteq Nodes /\ Sentinel \in Nodes /\ Sentinel \notin T
      /\ \A z \in T, s \in Sides : tree.kid[s][z] \in Nodes
      /\ "left" \in Sides /\ "right" \in Sides
  BY ShapeNodes DEF Sides
<1>2. \A x \in Nodes, s \in Sides : tree.kid[s][x] \in N
  BY <1>1 DEF Trees
<1>3. ASSUME NEW f \in S PROVE Walk(f) \in S
  <2>1. ASSUME NEW x \in N, x \notin {Sentinel, Null}
        PROVE  f[tree.kid["left"][x]] \o <<x>> \o f[tree.kid["right"][x]] \in Seq(Nodes)
    <3>1. x \in Nodes
      BY <2>1
    <3>2. f[tree.kid["left"][x]] \in Seq(Nodes) /\ f[tree.kid["right"][x]] \in Seq(Nodes)
      BY <1>1, <1>2, <3>1
    <3>3. <<x>> \in Seq(Nodes)
      BY <3>1
    <3> QED
      BY <3>2, <3>3
  <2>2. <<>> \in Seq(Nodes)
    OBVIOUS
  <2> QED
    BY <2>1, <2>2 DEF Walk
<1>4. f0 \in S
  <2>1. <<>> \in Seq(Nodes)
    OBVIOUS
  <2> QED
    BY <2>1
<1>5. IsTurn(G, S) /\ \A f \in S : G[f] = Walk(f)
  BY <1>3 DEF IsTurn
<1> HIDE DEF G, S
<1>6. PICK d : IsRun(d, S, f0, G) /\ InOrder(tree.root) = d[Turns][tree.root]
  BY <1>4, <1>5, WalkRuns
<1>7. /\ d[0] = f0 /\ \A n \in 1..Turns : d[n] = Walk(d[n - 1])
  <2>1. /\ d \in [0..Turns -> S] /\ d[0] = f0 /\ \A n \in 1..Turns : d[n] = G[d[n - 1]]
    BY <1>6 DEF IsRun
  <2>2. \A n \in 1..Turns : n - 1 \in 0..Turns
    BY TurnsNat
  <2> QED
    BY <1>5, <2>1, <2>2
<1>8. Turns \in Nat /\ sub[Sentinel] = {} /\ sub[tree.root] = T /\ tree.root \in T \cup {Sentinel}
  BY TurnsNat DEF Shape, Nested, Linked
<1>9. Ranked(tree, <<>>, {}) /\ Cardinality({}) = 0
  <2>1. Cardinality({}) = 0
    BY FS_EmptySet
  <2> QED
    BY <2>1 DEF Ranked
<1>10. /\ \A x \in T : /\ IsFiniteSet(sub[x]) /\ Cardinality(sub[x]) \in Nat
                       /\ Cardinality(sub[x]) < Turns /\ Cardinality(sub[x]) > 0
       /\ \A x \in T, s \in Sides : tree.kid[s][x] # Sentinel =>
            Cardinality(sub[tree.kid[s][x]]) < Cardinality(sub[x])
  BY SubSizes
<1> DEFINE Q == {n \in Nat : n <= Turns => \A y \in T \cup {Sentinel} :
                               Cardinality(sub[y]) <= n => Ranked(tree, d[n][y], sub[y])}
<1>11. 0 \in Q
  <2> SUFFICES ASSUME NEW y \in T \cup {Sentinel}, Cardinality(sub[y]) <= 0
               PROVE  Ranked(tree, d[0][y], sub[y])
    OBVIOUS
  <2>1. y = Sentinel
    BY <1>10
  <2>2. d[0][y] = <<>>
    BY <1>1, <1>7, <2>1
  <2> QED
    BY <1>8, <1>9, <2>1, <2>2
<1>12. ASSUME NEW n \in Nat, n \in Q PROVE n + 1 \in Q
  <2> SUFFICES ASSUME n + 1 <= Turns, NEW y \in T \cup {Sentinel}, Cardinality(sub[y]) <= n + 1
               PROVE  Ranked(tree, d[n + 1][y], sub[y])
    OBVIOUS
  <2>1. d[n + 1] = Walk(d[n])
    <3>1. n + 1 \in 1..Turns /\ (n + 1) - 1 = n
      BY <1>8
    <3> QED
      BY <1>7, <3>1
  <2>2. CASE y = Sentinel
    <3>1. d[n + 1][y] = <<>>
      BY <1>1, <2>1, <2>2 DEF Walk
    <3> QED
      BY <1>8, <1>9, <2>2, <3>1
  <2>3. CASE y \in T
    <3> DEFINE l == tree.kid["left"][y]
               r == tree.kid["right"][y]
               s1 == d[n][l]
               s2 == d[n][r]
    <3>1. d[n + 1][y] = s1 \o <<y>> \o s2
      <4>1. y \in N /\ y \notin {Sentinel, Null}
        BY <2>3, EventNodes DEF Shape
      <4> QED
        BY <2>1, <4>1 DEF Walk
    <3>2. ASSUME NEW s \in Sides
          PROVE  /\ Ranked(tree, d[n][tree.kid[s][y]], sub[tree.kid[s][y]])
                 /\ IsFiniteSet(sub[tree.kid[s][y]]) /\ sub[tree.kid[s][y]] \subseteq T
      <4> DEFINE k == tree.kid[s][y]
      <4>1. k \in T \cup {Sentinel}
        BY <2>3 DEF Shape, Linked
      <4>2. Cardinality(sub[k]) <= n /\ IsFiniteSet(sub[k]) /\ sub[k] \subseteq T
        <5>1. CASE k = Sentinel
          <6>1. IsFiniteSet({})
            BY FS_EmptySet
          <6>2. sub[k] = {}
            BY <1>8, <5>1
          <6>3. Cardinality(sub[k]) = 0 /\ IsFiniteSet(sub[k]) /\ sub[k] \subseteq T
            BY <1>9, <6>1, <6>2
          <6> HIDE DEF k
          <6> QED
            BY <6>3
        <5>2. CASE k # Sentinel
          <6>1. k \in T
            BY <4>1, <5>2
          <6>2. Cardinality(sub[k]) < Cardinality(sub[y]) /\ Cardinality(sub[y]) \in Nat
            BY <1>10, <2>3, <5>2
          <6> HIDE DEF k
          <6>3. IsFiniteSet(sub[k]) /\ Cardinality(sub[k]) \in Nat /\ sub[k] \subseteq T
            BY <1>10, <6>1, SubNested
          <6> QED
            BY <6>2, <6>3
        <5> QED
          BY <5>1, <5>2
      <4> HIDE DEF k
      <4>3. Ranked(tree, d[n][k], sub[k])
        BY <1>8, <1>12, <4>1, <4>2
      <4> QED
        BY <4>2, <4>3 DEF k
    <3>3. /\ Ranked(tree, s1, sub[l]) /\ Ranked(tree, s2, sub[r])
          /\ IsFiniteSet(sub[l]) /\ IsFiniteSet(sub[r]) /\ sub[l] \subseteq Nodes /\ sub[r] \subseteq Nodes
          /\ sub[l] \subseteq T /\ sub[r] \subseteq T
      BY <1>1, <3>2
    <3>4. y \notin sub[l] /\ y \notin sub[r] /\ sub[l] \cap sub[r] = {}
      <4>1. /\ \A s \in Sides : y \notin sub[tree.kid[s][y]]
            /\ \A s \in Sides : \A z \in sub[tree.kid[s][y]] : z \notin sub[tree.kid[Opposite(s)][y]]
        BY <2>3 DEF Shape, Nested
      <4>2. Opposite("left") = "right"
        BY DEF Opposite
      <4> QED
        BY <1>1, <4>1, <4>2
    <3>5. sub[y] = sub[l] \cup {y} \cup sub[r]
      <4>1. /\ \A z \in Events : z \in sub[y] <=> (z = y \/ \E s \in Sides : z \in sub[tree.kid[s][y]])
            /\ T \subseteq Events
        BY <2>3 DEF Shape, Nested
      <4>2. sub[y] \subseteq T
        BY <2>3, SubNested
      <4>3. \A z \in Events : z \in sub[y] <=> (z = y \/ z \in sub[l] \/ z \in sub[r])
        BY <4>1 DEF Sides
      <4> QED
        BY <2>3, <3>3, <4>1, <4>2, <4>3
    <3>6. (\A z \in sub[l] : tree.key[z] <= tree.key[y]) /\ (\A z \in sub[r] : tree.key[y] <= tree.key[z])
      BY <1>1, <2>3 DEF Ordered, Sorted
    <3>7. y \in Nodes
      BY <1>1, <2>3
    <3> HIDE DEF l, r, s1, s2
    <3>8. Ranked(tree, s1 \o <<y>> \o s2, sub[l] \cup {y} \cup sub[r])
      BY <1>1, <3>3, <3>4, <3>6, <3>7, JoinRanked
    <3> QED
      BY <3>1, <3>5, <3>8
  <2> QED
    BY <2>2, <2>3
<1> HIDE DEF Q
<1>13. Turns \in Q
  BY <1>8, <1>11, <1>12, SetInduction
<1>14. Cardinality(sub[tree.root]) <= Turns
  <2>1. CASE tree.root = Sentinel
    <3>1. Cardinality(sub[tree.root]) = 0
      BY <1>8, <1>9, <2>1
    <3> QED
      BY <1>8, <3>1
  <2>2. CASE tree.root \in T
    BY <1>8, <1>10, <2>2
  <2> QED
    BY <1>8, <2>1, <2>2
<1>15. Ranked(tree, d[Turns][tree.root], sub[tree.root])
  BY <1>8, <1>13, <1>14 DEF Q
<1> QED
  BY <1>6, <1>8, <1>15

\* The count is the height that the tree's blackness is stated with.
LEMMA BlackHeightIs ==
    ASSUME NEW T, NEW sub, NEW bh, Balanced(tree, T, sub, bh)
    PROVE  \A y \in T \cup {Sentinel} : BlackHeight(y) = bh[y]
<1> DEFINE N == Nodes \cup {Null}
           S == [N -> Nat]
           f0 == [y \in N |-> 0]
           G == [f \in S |-> Count(f)]
<1>0. Shape(tree, T, sub)
  BY DEF Balanced
<1>1. /\ tree \in Trees /\ T \subseteq Nodes /\ Sentinel \in Nodes /\ Sentinel \notin T
      /\ \A z \in T, s \in Sides : tree.kid[s][z] \in Nodes
      /\ "left" \in Sides /\ "right" \in Sides
  BY <1>0, ShapeNodes DEF Sides
<1>2. \A x \in Nodes, s \in Sides : tree.kid[s][x] \in N
  BY <1>1 DEF Trees
<1>3. ASSUME NEW f \in S PROVE Count(f) \in S
  <2>1. ASSUME NEW x \in N, x \notin {Sentinel, Null}
        PROVE  f[tree.kid["left"][x]] + (IF IsRed(tree, x) THEN 0 ELSE 1) \in Nat
    <3>1. f[tree.kid["left"][x]] \in Nat
      BY <1>1, <1>2, <2>1
    <3> QED
      BY <3>1
  <2> QED
    BY <2>1 DEF Count
<1>4. f0 \in S
  OBVIOUS
<1>5. IsTurn(G, S) /\ \A f \in S : G[f] = Count(f)
  BY <1>3 DEF IsTurn
<1> HIDE DEF G, S
<1>6. PICK d : IsRun(d, S, f0, G) /\ \A x : BlackHeight(x) = d[Turns][x]
  BY <1>4, <1>5, CountRuns
<1>7. /\ d[0] = f0 /\ \A n \in 1..Turns : d[n] = Count(d[n - 1])
  <2>1. /\ d \in [0..Turns -> S] /\ d[0] = f0 /\ \A n \in 1..Turns : d[n] = G[d[n - 1]]
    BY <1>6 DEF IsRun
  <2>2. \A n \in 1..Turns : n - 1 \in 0..Turns
    BY TurnsNat
  <2> QED
    BY <1>5, <2>1, <2>2
<1>8. /\ Turns \in Nat /\ bh[Sentinel] = 0 /\ bh \in [Nodes -> Nat]
      /\ sub[Sentinel] = {} /\ Cardinality({}) = 0
      /\ \A z \in T, s \in Sides : bh[z] = bh[tree.kid[s][z]] + (1 - tree.color[z])
      /\ \A z \in T : tree.color[z] \in {0, 1}
  <2>1. Even(tree, T, bh, tree.root)
    BY DEF Balanced
  <2>2. \A z \in T, s \in Sides : bh[z] = bh[tree.kid[s][z]] + (1 - tree.color[z])
    <3>1. tree \in Trees /\ T \subseteq Nodes /\ \A z \in T, s \in Sides : tree.kid[s][z] \in Nodes
      BY <1>1
    <3> QED
      BY ONLY <2>1, <3>1, EvenSteps
  <2>3. bh[Sentinel] = 0 /\ bh \in [Nodes -> Nat]
    BY <2>1 DEF Even
  <2>4. sub[Sentinel] = {}
    BY <1>0 DEF Shape, Nested
  <2> QED
    BY <1>0, <1>1, <2>2, <2>3, <2>4, TurnsNat, FS_EmptySet, ShapeNodes
<1>10. /\ \A x \in T : /\ Cardinality(sub[x]) \in Nat
                       /\ Cardinality(sub[x]) < Turns /\ Cardinality(sub[x]) > 0
       /\ \A x \in T, s \in Sides : tree.kid[s][x] # Sentinel =>
            Cardinality(sub[tree.kid[s][x]]) < Cardinality(sub[x])
  BY <1>0, SubSizes
<1> DEFINE Q == {n \in Nat : n <= Turns => \A y \in T \cup {Sentinel} :
                               Cardinality(sub[y]) <= n => d[n][y] = bh[y]}
<1>11. 0 \in Q
  <2> SUFFICES ASSUME NEW y \in T \cup {Sentinel}, Cardinality(sub[y]) <= 0
               PROVE  d[0][y] = bh[y]
    OBVIOUS
  <2>1. y = Sentinel
    BY <1>10
  <2>2. d[0][y] = 0
    BY <1>1, <1>7, <2>1
  <2> QED
    BY <1>8, <2>1, <2>2
<1>12. ASSUME NEW n \in Nat, n \in Q PROVE n + 1 \in Q
  <2> SUFFICES ASSUME n + 1 <= Turns, NEW y \in T \cup {Sentinel}, Cardinality(sub[y]) <= n + 1
               PROVE  d[n + 1][y] = bh[y]
    OBVIOUS
  <2>1. d[n + 1] = Count(d[n])
    <3>1. n + 1 \in 1..Turns /\ (n + 1) - 1 = n
      BY <1>8
    <3> QED
      BY <1>7, <3>1
  <2>2. CASE y = Sentinel
    BY <1>1, <1>8, <2>1, <2>2 DEF Count
  <2>3. CASE y \in T
    <3> DEFINE k == tree.kid["left"][y]
    <3>1. d[n + 1][y] = d[n][k] + (IF tree.color[y] = 1 THEN 0 ELSE 1)
      <4>1. y \in N /\ y \notin {Sentinel, Null}
        BY <1>0, <2>3, EventNodes DEF Shape
      <4> QED
        BY <2>1, <4>1 DEF Count, IsRed, Red
    <3>2. k \in T \cup {Sentinel} /\ bh[y] = bh[k] + (1 - tree.color[y]) /\ tree.color[y] \in {0, 1}
      BY <1>0, <1>1, <1>8, <2>3 DEF Shape, Linked
    <3>3. Cardinality(sub[k]) <= n
      <4>1. CASE k = Sentinel
        <5>1. sub[k] = {}
          BY <1>8, <4>1
        <5>2. Cardinality(sub[k]) = 0
          BY <1>8, <5>1
        <5> HIDE DEF k
        <5> QED
          BY <5>2
      <4>2. CASE k # Sentinel
        <5>1. Cardinality(sub[k]) < Cardinality(sub[y]) /\ Cardinality(sub[y]) \in Nat
          BY <1>1, <1>10, <2>3, <4>2
        <5>2. k \in T
          BY <3>2, <4>2
        <5> HIDE DEF k
        <5> QED
          BY <1>10, <5>1, <5>2
      <4> QED
        BY <4>1, <4>2
    <3> HIDE DEF k
    <3>4. d[n][k] = bh[k]
      BY <1>8, <1>12, <3>2, <3>3
    <3>5. bh[k] \in Nat
      BY <1>1, <1>8, <3>2
    <3> QED
      BY <3>1, <3>2, <3>4, <3>5
  <2> QED
    BY <2>2, <2>3
<1> HIDE DEF Q
<1>13. Turns \in Q
  BY <1>8, <1>11, <1>12, SetInduction
<1>14. \A y \in T \cup {Sentinel} : Cardinality(sub[y]) <= Turns
  <2>1. Cardinality(sub[Sentinel]) = 0
    BY <1>8
  <2>2. 0 <= Turns
    BY <1>8
  <2>3. \A y \in T : Cardinality(sub[y]) <= Turns
    BY <1>8, <1>10
  <2> QED
    BY <2>1, <2>2, <2>3
<1> QED
  BY <1>6, <1>8, <1>13, <1>14 DEF Q

-----------------------------------------------------------------------------
(* The invariant *)

\* The timer tree is a red-black tree of the events whose timer is set.
TimersInv == /\ now \in Nat
             /\ \E sub, bh : Balanced(tree, timer_set, sub, bh)

\* night_rbtree_init makes an empty tree.
LEMMA TimersInit == Init => TimersInv
<1> SUFFICES ASSUME Init PROVE TimersInv
  OBVIOUS
<1> DEFINE sub == [x \in Nodes |-> {}]
           bh == [x \in Nodes |-> 0]
<1>1. tree = NewTree /\ timer_set = {} /\ now = 0
  BY DEF Init
<1>2. Sentinel \in Nodes /\ Sentinel # Null
  BY TimersAssumption DEF Nodes
<1>3. tree \in Trees /\ tree.root = Sentinel /\ tree.color[Sentinel] = 0
  BY <1>1, <1>2 DEF NewTree, Trees, Sides, Black
<1>4. sub \in [Nodes -> SUBSET Events] /\ bh \in [Nodes -> Nat] /\ sub[Sentinel] = {} /\ bh[Sentinel] = 0
  BY <1>2
<1> HIDE DEF sub, bh
<1>5. Shape(tree, {}, sub) /\ Ordered(tree, {}, sub)
  BY <1>3, <1>4 DEF Shape, Linked, Nested, Ordered
<1>6. Even(tree, {}, bh, tree.root) /\ Reds(tree, {}, {}, {})
  BY <1>3, <1>4 DEF Even, Reds
<1>7. Balanced(tree, {}, sub, bh)
  BY <1>3, <1>5, <1>6 DEF Balanced
<1> QED
  BY <1>1, <1>7 DEF TimersInv

\* The deadline of an event without a timer has no part in the tree.
LEMMA KeyedBalanced ==
    ASSUME NEW t, NEW T, NEW sub, NEW bh, Balanced(t, T, sub, bh), NEW x \in Events, x \notin T,
           NEW key \in Int
    PROVE  Balanced([t EXCEPT !.key[x] = key], T, sub, bh)
<1> DEFINE e == [t.key EXCEPT ![x] = key]
           u == [t EXCEPT !.key[x] = key]
<1>1. t \in Trees /\ T \subseteq Nodes /\ Sentinel \in Nodes
  BY ShapeNodes DEF Balanced
<1>2. t.key \in [Nodes -> Int]
  BY <1>1 DEF Trees
<1>3. e \in [Nodes -> Int] /\ \A z \in Nodes : z # x => e[z] = t.key[z]
  BY <1>2
<1>4. u = [t EXCEPT !.key = e]
  BY <1>1 DEF Trees
<1> HIDE DEF e, u
<1>5. /\ u \in Trees /\ u.root = t.root /\ u.key = e /\ u.color = t.color
      /\ u.parent = t.parent /\ u.kid = t.kid
  BY <1>1, <1>3, <1>4 DEF Trees
<1>6. \A z \in T : u.key[z] = t.key[z]
  BY <1>1, <1>3, <1>5
<1>7. Same(u, t, T)
  BY <1>5, <1>6 DEF Same
<1>8. Balanced(u, T, sub, bh)
  BY <1>7, SameGood
<1> QED
  BY <1>8 DEF u

\* Setting a timer, whether the event had one or not.
LEMMA AddTimerKeeps ==
    ASSUME TimersInv, NEW ev \in Events, NEW delay \in Delays, AddTimer(ev, delay)
    PROVE  TimersInv'
<1> DEFINE key == now + delay
           t == IF ev \in timer_set THEN rbtree_delete(tree, ev) ELSE tree
           t2 == [t EXCEPT !.key[ev] = key]
<1>1. PICK sub, bh : Balanced(tree, timer_set, sub, bh)
  BY DEF TimersInv
<1>2. /\ tree' = IF ev \in timer_set /\ Lazy(ev, key) THEN tree ELSE rbtree_insert(t2, ev)
      /\ timer_set' = timer_set \cup {ev} /\ now' = now /\ now \in Nat
  BY DEF AddTimer, TimersInv
<1>3. key \in Int
  BY <1>2, TimersAssumption
<1>4. CASE ev \in timer_set /\ Lazy(ev, key)
  <2>1. tree' = tree /\ timer_set' = timer_set
    BY <1>2, <1>4
  <2> QED
    BY <1>1, <1>2, <2>1 DEF TimersInv
<1>5. CASE ~(ev \in timer_set /\ Lazy(ev, key))
  <2> DEFINE T == timer_set \ {ev}
  <2>1. \E s1, b1 : Balanced(t, T, s1, b1)
    <3>1. CASE ev \in timer_set
      <4>1. \E s1, b1 : Balanced(rbtree_delete(tree, ev), T, s1, b1)
        BY <1>1, <3>1, DeleteBalanced
      <4> QED
        BY <3>1, <4>1
    <3>2. CASE ev \notin timer_set
      <4>1. T = timer_set /\ t = tree
        BY <3>2
      <4> QED
        BY <1>1, <4>1
    <3> QED
      BY <3>1, <3>2
  <2>2. ev \notin T
    OBVIOUS
  <2>3. T \cup {ev} = timer_set'
    BY <1>2
  <2> HIDE DEF t, T, key
  <2>4. \E s1, b1 : Balanced(t2, T, s1, b1)
    BY <1>3, <2>1, <2>2, KeyedBalanced
  <2> HIDE DEF t2
  <2>5. \E s2, b2 : Balanced(rbtree_insert(t2, ev), T \cup {ev}, s2, b2)
    BY <2>2, <2>4, InsertBalanced
  <2>6. tree' = rbtree_insert(t2, ev)
    BY <1>2, <1>5
  <2> QED
    BY <1>2, <2>3, <2>5, <2>6 DEF TimersInv
<1> QED
  BY <1>4, <1>5

\* Taking a timer away.
LEMMA DelTimerKeeps ==
    ASSUME TimersInv, NEW ev \in Events, DelTimer(ev)
    PROVE  TimersInv'
<1>1. PICK sub, bh : Balanced(tree, timer_set, sub, bh)
  BY DEF TimersInv
<1>2. /\ ev \in timer_set /\ tree' = rbtree_delete(tree, ev) /\ timer_set' = timer_set \ {ev}
      /\ now' = now /\ now \in Nat
  BY DEF DelTimer, TimersInv
<1>3. \E s2, b2 : Balanced(rbtree_delete(tree, ev), timer_set \ {ev}, s2, b2)
  BY <1>1, <1>2, DeleteBalanced
<1> QED
  BY <1>2, <1>3 DEF TimersInv

\* Every step keeps the invariant.
LEMMA TimersNext == TimersInv /\ [Next]_tvars => TimersInv'
<1> SUFFICES ASSUME TimersInv, [Next]_tvars PROVE TimersInv'
  OBVIOUS
<1>1. ASSUME NEW ev \in Events, DelTimer(ev) PROVE TimersInv'
  BY <1>1, DelTimerKeeps
<1>2. ASSUME NEW ev \in Events, NEW d \in Delays, AddTimer(ev, d) PROVE TimersInv'
  BY <1>2, AddTimerKeeps
<1>3. CASE Tick
  <2>1. now' = now + 1 /\ tree' = tree /\ timer_set' = timer_set
    BY <1>3 DEF Tick
  <2> QED
    BY <2>1 DEF TimersInv
<1>4. CASE UNCHANGED tvars
  BY <1>4 DEF tvars, TimersInv
<1> QED
  BY <1>1, <1>2, <1>3, <1>4 DEF Next

\* Through any sequence of adding, moving and removing timers the tree is a
\* red-black tree, linked both ways, of exactly the events whose timer is set.
THEOREM TimersCorrect == TimersSpec => []TimersInv
<1> QED
  BY TimersInit, TimersNext, PTL DEF TimersSpec

\* What the invariant says of the heights and colours.
LEMMA BalancedTree == TimersInv => TreeBalanced
<1> SUFFICES ASSUME TimersInv PROVE TreeBalanced
  OBVIOUS
<1>1. PICK sub, bh : Balanced(tree, timer_set, sub, bh)
  BY DEF TimersInv
<1>2. /\ Shape(tree, timer_set, sub) /\ Even(tree, timer_set, bh, tree.root)
      /\ tree.color[tree.root] = 0 /\ Reds(tree, timer_set, {}, {})
  BY <1>1 DEF Balanced
<1>3. /\ tree \in Trees /\ timer_set \subseteq Nodes
      /\ \A z \in timer_set, s \in Sides : tree.kid[s][z] \in Nodes
      /\ "left" \in Sides /\ "right" \in Sides
  BY <1>2, ShapeNodes DEF Sides
<1>4. \A z \in timer_set, s \in Sides : bh[z] = bh[tree.kid[s][z]] + (1 - tree.color[z])
  <2>1. tree \in Trees /\ timer_set \subseteq Nodes /\ \A z \in timer_set, s \in Sides : tree.kid[s][z] \in Nodes
    BY <1>3
  <2> QED
    BY ONLY <1>2, <2>1, EvenSteps
<1>5. \A z \in timer_set, s \in Sides : /\ tree.kid[s][z] \in timer_set \cup {Sentinel}
                                        /\ bh[tree.kid[s][z]] \in Int /\ bh[z] \in Int /\ tree.color[z] \in {0, 1}
  <2>1. bh \in [Nodes -> Nat]
    BY <1>2 DEF Even
  <2>2. \A z \in timer_set, s \in Sides : tree.kid[s][z] \in timer_set \cup {Sentinel}
    BY <1>2 DEF Shape, Linked
  <2>3. \A z \in timer_set : tree.color[z] \in {0, 1}
    BY <1>3 DEF Trees
  <2> QED
    BY <1>3, <2>1, <2>2, <2>3
<1>6. \A y \in timer_set \cup {Sentinel} : BlackHeight(y) = bh[y]
  BY <1>1, BlackHeightIs
<1>7. ASSUME NEW x \in timer_set
      PROVE  BlackHeight(tree.kid["left"][x]) = BlackHeight(tree.kid["right"][x])
  <2>1. /\ bh[x] = bh[tree.kid["left"][x]] + (1 - tree.color[x])
        /\ bh[x] = bh[tree.kid["right"][x]] + (1 - tree.color[x])
        /\ bh[tree.kid["left"][x]] \in Int /\ bh[tree.kid["right"][x]] \in Int /\ tree.color[x] \in {0, 1}
    BY <1>3, <1>4, <1>5
  <2>2. bh[tree.kid["left"][x]] = bh[tree.kid["right"][x]]
    BY <2>1
  <2>3. /\ tree.kid["left"][x] \in timer_set \cup {Sentinel}
        /\ tree.kid["right"][x] \in timer_set \cup {Sentinel}
    BY <1>3, <1>5
  <2> QED
    BY <1>6, <2>2, <2>3
<1>8. ASSUME NEW x \in timer_set, IsRed(tree, x), NEW s \in {"left", "right"}
      PROVE  ~IsRed(tree, tree.kid[s][x])
  BY <1>2, <1>8 DEF Reds, Sides, IsRed, Red
<1>9. ~IsRed(tree, tree.root) /\ ~IsRed(tree, Sentinel)
  BY <1>2 DEF Reds, IsRed, Red
<1> QED
  BY <1>7, <1>8, <1>9 DEF TreeBalanced

\* No red node has a red child, all ways down from a node meet equally many
\* black nodes, and the sentinel and the root stay black.
THEOREM TimersBalanced == TimersSpec => []TreeBalanced
<1> QED
  BY TimersCorrect, BalancedTree, PTL

\* What it says of the order.
LEMMA OrderedTree == TimersInv => TreeHoldsTimers
<1> SUFFICES ASSUME TimersInv PROVE TreeHoldsTimers
  OBVIOUS
<1>1. PICK sub, bh : Balanced(tree, timer_set, sub, bh)
  BY DEF TimersInv
<1>2. Shape(tree, timer_set, sub) /\ Ordered(tree, timer_set, sub)
  BY <1>1 DEF Balanced
<1> DEFINE s == InOrder(tree.root)
<1>3. Ranked(tree, s, timer_set)
  BY <1>2, InOrderIs
<1>4. \A x \in timer_set, side \in {"left", "right"} :
         tree.kid[side][x] # Sentinel => tree.parent[tree.kid[side][x]] = x
  BY <1>2 DEF Shape, Linked, Sides
<1> HIDE DEF s
<1>5. /\ s \in Seq(Nodes) /\ Len(s) = Cardinality(timer_set)
      /\ \A i \in 1..Len(s) : s[i] \in timer_set
      /\ \A z \in timer_set : \E i \in 1..Len(s) : s[i] = z
      /\ \A i \in 1..Len(s) - 1 : tree.key[s[i]] <= tree.key[s[i + 1]]
  BY <1>3 DEF Ranked
<1>6. DOMAIN s = 1..Len(s)
  BY <1>5
<1>7. {s[i] : i \in DOMAIN s} = timer_set
  BY <1>5, <1>6
<1> QED
  BY <1>4, <1>5, <1>7 DEF TreeHoldsTimers, s

\* The tree holds exactly the events whose timer is set, each once, in the order
\* of their deadlines, and every node knows its parent.
THEOREM TimersHeld == TimersSpec => []TreeHoldsTimers
<1> QED
  BY TimersCorrect, OrderedTree, PTL

\* And of the nearest deadline.
LEMMA NearestTimer == TimersInv => SleepsUntilNearest
<1> SUFFICES ASSUME TimersInv PROVE SleepsUntilNearest
  OBVIOUS
<1>1. PICK sub, bh : Balanced(tree, timer_set, sub, bh)
  BY DEF TimersInv
<1>2. Shape(tree, timer_set, sub) /\ Ordered(tree, timer_set, sub)
  BY <1>1 DEF Balanced
<1>3. /\ tree.root \in timer_set \cup {Sentinel} /\ sub[tree.root] = timer_set
      /\ sub[Sentinel] = {} /\ Sentinel \notin timer_set
  BY <1>2, ShapeNodes DEF Shape, Linked, Nested
<1>4. CASE tree.root = Sentinel
  BY <1>3, <1>4 DEF SleepsUntilNearest, find_timer
<1>5. CASE tree.root \in timer_set
  <2> DEFINE m == rbtree_min(tree, tree.root)
             K == {tree.key[ev] : ev \in timer_set}
  <2>1. m \in timer_set /\ \A z \in timer_set : tree.key[m] <= tree.key[z]
    BY <1>2, <1>3, <1>5, MinIs
  <2> HIDE DEF m
  <2>2. tree.key[m] \in K /\ \A k \in K : tree.key[m] <= k
    BY <2>1
  <2>3. \A k \in K : k \in Int
    <3>1. tree \in Trees /\ timer_set \subseteq Nodes
      BY <1>2, ShapeNodes
    <3> QED
      BY <3>1 DEF Trees
  <2> HIDE DEF K
  <2>4. Min(K) \in K /\ \A k \in K : Min(K) <= k
    BY <2>2, Zenon DEF Min
  <2>5. Min(K) = tree.key[m]
    BY <2>2, <2>3, <2>4
  <2>6. tree.root # Sentinel /\ timer_set # {}
    BY <1>3, <1>5
  <2> QED
    BY <2>5, <2>6 DEF SleepsUntilNearest, find_timer, m, K
<1> QED
  BY <1>3, <1>4, <1>5

\* The timeout of epoll_wait is the time to the nearest deadline, none when no
\* timer is set.
THEOREM TimersSleep == TimersSpec => []SleepsUntilNearest
<1> QED
  BY TimersCorrect, NearestTimer, PTL
=============================================================================
