----------------------------- MODULE NightTimers -----------------------------
(***************************************************************************)
(* The timers of a worker: a red-black tree of events ordered by deadline  *)
(* (core/night_rbtree.c), to which handlers add events and from which they *)
(* take them (event/night_event_timer.c), and whose leftmost node tells    *)
(* epoll_wait how long it may sleep.                                       *)
(*                                                                         *)
(* A tree is a record of the root and, for every node, its key, colour,    *)
(* parent and children.  The two mirrored halves of the code are one       *)
(* definition with the side as a parameter.                                *)
(***************************************************************************)
EXTENDS Integers, Sequences, FiniteSets, FiniteSetsExt

CONSTANTS Events,      \* events that may have a timer
          Sentinel,    \* night_event_timer_sentinel
          Null,        \* a NULL pointer
          Delays,      \* timeouts the handlers ask for
          LazyDelay,   \* NIGHT_TIMER_LAZY_DELAY
          MaxTime      \* bound: night_current_msec

ASSUME TimersAssumption ==
    /\ Sentinel \notin Events /\ Null \notin Events \cup {Sentinel}
    /\ IsFiniteSet(Events)
    /\ Delays \subseteq Nat /\ LazyDelay \in Nat /\ MaxTime \in Nat

VARIABLES tree,        \* night_event_timer_rbtree and its nodes
          timer_set,   \* the events whose timer_set is 1
          now          \* night_current_msec

tvars == <<tree, timer_set, now>>

Nodes == Events \cup {Sentinel}
Red == 1
Black == 0
Opposite(side) == IF side = "left" THEN "right" ELSE "left"

\* What a loop that starts with s leaves, Turn being one turn of it or, once its
\* condition fails, nothing.  No loop here takes more turns than there are nodes.
Turns == Cardinality(Nodes)
Loop(Turn(_), s) ==
    LET after[n \in 0..Turns] == IF n = 0 THEN s ELSE Turn(after[n - 1])
    IN  after[Turns]

-----------------------------------------------------------------------------
(* Operations on trees *)

\* night_rbtree_init
NewTree == [root |-> Sentinel, key |-> [x \in Nodes |-> 0],
            color |-> [x \in Nodes |-> Black], parent |-> [x \in Nodes |-> Null],
            kid |-> [side \in {"left", "right"} |-> [x \in Nodes |-> Null]]]

Paint(t, x, c) == [t EXCEPT !.color[x] = c]
IsRed(t, x) == t.color[x] = Red
SideOf(t, x) == IF x = t.kid["left"][t.parent[x]] THEN "left" ELSE "right"

\* y becomes the child of x on a side; the sentinel's parent is left alone.
Adopt(t, side, x, y) ==
    LET t1 == [t EXCEPT !.kid[side][x] = y]
    IN  IF y = Sentinel THEN t1 ELSE [t1 EXCEPT !.parent[y] = x]

\* y takes the place of x below x's parent.
TakePlace(t, x, y) ==
    LET t1 == [t EXCEPT !.parent[y] = t.parent[x]]
    IN  IF x = t.root THEN [t1 EXCEPT !.root = y]
        ELSE [t1 EXCEPT !.kid[SideOf(t, x)][t.parent[x]] = y]

\* night_rbtree_left_rotate for "left", night_rbtree_right_rotate for "right"
rotate(t, side, x) ==
    LET o == Opposite(side)
        y == t.kid[o][x]
    IN  Adopt(TakePlace(Adopt(t, o, x, t.kid[side][y]), x, y), side, y, x)

\* night_rbtree_min
Left(t, x) == IF t.kid["left"][x] = Sentinel THEN x ELSE t.kid["left"][x]
rbtree_min(t, x) == Loop(LAMBDA y : Left(t, y), x)

\* Mutant: the deadlines are compared with an off-by-one.
SideFor_swapped(t, temp, x) == IF t.key[x] <= t.key[temp] + 1 THEN "left" ELSE "right"

\* The loop of night_rbtree_insert_timer_value: where x belongs below temp.
SideFor(t, temp, x) == IF t.key[x] - t.key[temp] < 0 THEN "left" ELSE "right"
Down(t, temp, x) == LET below == t.kid[SideFor(t, temp, x)][temp]
                    IN  IF below = Sentinel THEN temp ELSE below

\* night_rbtree_insert_timer_value, for a node whose children are set
insert_timer_value(t, temp, x) ==
    LET last == Loop(LAMBDA y : Down(t, y, x), temp)
    IN  Paint(Adopt(t, SideFor(t, last, x), last, x), x, Red)

\* A turn of the loop of night_rbtree_insert, at s.node of s.tree, which removes
\* two reds in a row.
InsertTurn(s) ==
    LET t == s.tree
        x == s.node
        p == t.parent[x]
        g == t.parent[p]
        side == SideOf(t, p)
        uncle == t.kid[Opposite(side)][g]
        inner == x = t.kid[Opposite(side)][p]
        t1 == IF inner THEN rotate(t, side, p) ELSE t
        y == IF inner THEN p ELSE x
        q == t1.parent[y]
    IN  IF x = t.root \/ ~IsRed(t, p) THEN s
        ELSE IF IsRed(t, uncle)
        THEN [tree |-> Paint(Paint(Paint(t, p, Black), uncle, Black), g, Red), node |-> g]
        ELSE [tree |-> rotate(Paint(Paint(t1, q, Black), t1.parent[q], Red),
                              Opposite(side), t1.parent[q]),
              node |-> y]

InsertFixup(t, x) ==
    LET last == Loop(InsertTurn, [tree |-> t, node |-> x]).tree
    IN  Paint(last, last.root, Black)

rbtree_insert(t0, x) ==
    LET t == Adopt(Adopt(t0, "left", x, Sentinel), "right", x, Sentinel)
    IN  IF t.root = Sentinel
        THEN [t EXCEPT !.root = x, !.parent[x] = Null, !.color[x] = Black]
        ELSE InsertFixup(insert_timer_value(t, t.root, x), x)

\* Mutant: the shortage is passed up without rotating or recolouring.
DeleteTurn_keep(s) ==
    IF s.node = s.tree.root \/ IsRed(s.tree, s.node) THEN s
    ELSE [s EXCEPT !.node = s.tree.parent[s.node]]

\* A red sibling of the child of p on a side goes up; a black one takes its place.
LiftSibling(t, p, side) ==
    LET w == t.kid[Opposite(side)][p]
    IN  IF IsRed(t, w) THEN rotate(Paint(Paint(t, w, Black), p, Red), side, p) ELSE t

\* Of the sibling's children at least the far one is red.
RedFar(t, p, side) ==
    LET o == Opposite(side)
        w == t.kid[o][p]
    IN  IF IsRed(t, t.kid[o][w]) THEN t
        ELSE rotate(Paint(Paint(t, t.kid[side][w], Black), w, Red), o, w)

\* The sibling goes up and makes good the black that is missing.
Refill(t, p, side) ==
    LET o == Opposite(side)
        w == t.kid[o][p]
        t1 == Paint(Paint(t, w, t.color[p]), p, Black)
    IN  rotate(Paint(t1, t1.kid[o][w], Black), side, p)

\* A turn of the loop of night_rbtree_delete: s.node stands one black short.
DeleteTurn(s) ==
    LET x == s.node
        p == s.tree.parent[x]
        side == SideOf(s.tree, x)
        t == LiftSibling(s.tree, p, side)
        w == t.kid[Opposite(side)][p]
        t1 == Refill(RedFar(t, p, side), p, side)
    IN  IF x = s.tree.root \/ IsRed(s.tree, x) THEN s
        ELSE IF \E k \in {"left", "right"} : IsRed(t, t.kid[k][w])
        THEN [tree |-> t1, node |-> t1.root]
        ELSE [tree |-> Paint(t, w, Red), node |-> p]

DeleteFixup(t, x) ==
    LET last == Loop(DeleteTurn, [tree |-> t, node |-> x])
    IN  Paint(last.tree, last.node, Black)

Cleared(t, x) ==
    [t EXCEPT !.kid = [side \in {"left", "right"} |-> [t.kid[side] EXCEPT ![x] = Null]],
              !.parent = [t.parent EXCEPT ![x] = Null],
              !.key = [t.key EXCEPT ![x] = 0]]

\* The node that takes the place of one with two children: subst, unlinked
\* from its own place, gets its links and colour.
Replace(t, x, subst) ==
    Adopt(Adopt(TakePlace(Paint(t, subst, t.color[x]), x, subst),
                "left", subst, t.kid["left"][x]),
          "right", subst, t.kid["right"][x])

rbtree_delete(t, x) ==
    LET subst == IF Sentinel \in {t.kid["left"][x], t.kid["right"][x]} THEN x
                 ELSE rbtree_min(t, t.kid["right"][x])
        temp == IF t.kid["left"][subst] = Sentinel THEN t.kid["right"][subst]
                ELSE t.kid["left"][subst]
        p == t.parent[subst]
    IN  IF subst = t.root THEN Cleared(Paint([t EXCEPT !.root = temp], temp, Black), x)
        ELSE LET t1 == TakePlace(t, subst, temp)
                 t2 == IF subst = x THEN t1
                       ELSE Replace(IF p = x THEN [t1 EXCEPT !.parent[temp] = subst] ELSE t1,
                                    x, subst)
             IN  IF IsRed(t, subst) THEN Cleared(t2, x) ELSE DeleteFixup(Cleared(t2, x), temp)

-----------------------------------------------------------------------------
(* Steps *)

Init == tree = NewTree /\ timer_set = {} /\ now = 0

\* A timer that is set is left alone when it would move only a little.
Lazy(ev, key) == key - tree.key[ev] < LazyDelay /\ tree.key[ev] - key < LazyDelay

\* night_event_add_timer
AddTimer(ev, delay) ==
    LET key == now + delay
        t == IF ev \in timer_set THEN rbtree_delete(tree, ev) ELSE tree
    IN  /\ tree' = IF ev \in timer_set /\ Lazy(ev, key) THEN tree
                   ELSE rbtree_insert([t EXCEPT !.key[ev] = key], ev)
        /\ timer_set' = timer_set \cup {ev}
        /\ UNCHANGED now

\* night_event_del_timer; every caller tests timer_set.
DelTimer(ev) ==
    /\ ev \in timer_set
    /\ tree' = rbtree_delete(tree, ev)
    /\ timer_set' = timer_set \ {ev}
    /\ UNCHANGED now

\* night_time_update, with each return of epoll_wait
Tick == /\ now < MaxTime /\ now' = now + 1
        /\ UNCHANGED <<tree, timer_set>>

\* Mutant: the root stands for the nearest timer.
find_timer_root == IF tree.root = Sentinel THEN -1
                   ELSE Max({tree.key[tree.root] - now, 0})

\* night_event_find_timer: the timeout of the next epoll_wait, -1 for none
find_timer == IF tree.root = Sentinel THEN -1
              ELSE Max({tree.key[rbtree_min(tree, tree.root)] - now, 0})

Next == \/ \E ev \in Events : DelTimer(ev) \/ \E d \in Delays : AddTimer(ev, d)
        \/ Tick

TimersSpec == Init /\ [][Next]_tvars

-----------------------------------------------------------------------------
(* Properties *)

\* The events below x, from the nearest to the farthest.
Walk(f) == [x \in Nodes \cup {Null} |->
              IF x \in {Sentinel, Null} THEN <<>>
              ELSE f[tree.kid["left"][x]] \o <<x>> \o f[tree.kid["right"][x]]]
InOrder(x) == Loop(Walk, [y \in Nodes \cup {Null} |-> <<>>])[x]

\* Through any sequence of adding, moving and removing timers the tree holds
\* exactly the events whose timer is set, each once, in order of their
\* deadlines, and every node knows its parent.
TreeHoldsTimers ==
    LET s == InOrder(tree.root)
    IN  /\ {s[i] : i \in DOMAIN s} = timer_set
        /\ Len(s) = Cardinality(timer_set)
        /\ \A i \in 1..Len(s) - 1 : tree.key[s[i]] <= tree.key[s[i + 1]]
        /\ \A x \in timer_set, side \in {"left", "right"} :
              tree.kid[side][x] # Sentinel => tree.parent[tree.kid[side][x]] = x

\* The black nodes on the leftmost way down from x.
Count(f) == [x \in Nodes \cup {Null} |->
               IF x \in {Sentinel, Null} THEN 0
               ELSE f[tree.kid["left"][x]] + (IF IsRed(tree, x) THEN 0 ELSE 1)]
BlackHeight(x) == Loop(Count, [y \in Nodes \cup {Null} |-> 0])[x]

\* The rotations leave the tree red-black, which is what bounds every later
\* search: no red node has a red child, all ways down meet equally many black
\* ones, and the shared sentinel and the root stay black.
TreeBalanced ==
    /\ ~IsRed(tree, tree.root) /\ ~IsRed(tree, Sentinel)
    /\ \A x \in timer_set :
          /\ BlackHeight(tree.kid["left"][x]) = BlackHeight(tree.kid["right"][x])
          /\ IsRed(tree, x) => \A side \in {"left", "right"} : ~IsRed(tree, tree.kid[side][x])

\* epoll_wait sleeps exactly until the nearest timer: never past a deadline,
\* and for ever only when no timer is set.
SleepsUntilNearest ==
    find_timer = IF timer_set = {} THEN -1
                 ELSE Max({Min({tree.key[ev] : ev \in timer_set}) - now, 0})
=============================================================================
