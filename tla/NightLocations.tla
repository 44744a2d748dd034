---------------------------- MODULE NightLocations ----------------------------
(***************************************************************************)
(* The locations of one server: read from the configuration into queues,   *)
(* sorted, joined, nested and turned into binary trees at start-up         *)
(* (http/night_http_module.c), then searched for every request             *)
(* (http/night_http_core_module.c).                                        *)
(*                                                                         *)
(* A name or a uri is a sequence of character codes, the values of a       *)
(* signed char; a location is known by the position of its declaration,    *)
(* and 0 stands for the server itself (and for a NULL pointer to a         *)
(* location).  A tree is a function of the joined queue it is made from,   *)
(* and is kept as that queue: a subtree is the part lo..hi of the queue    *)
(* whose elements are its nodes.                                           *)
(***************************************************************************)
EXTENDS Integers, Sequences, FiniteSets, SequencesExt, FiniteSetsExt

CONSTANTS Names,          \* names a configuration may give to a location
          Uris,           \* request targets
          MaxLocations    \* bound: locations of one server

ASSUME NamesAssumption ==
    /\ Names \cup Uris \subseteq Seq(-128..127 \ {0}) /\ <<>> \notin Uris
    /\ MaxLocations \in Nat

VARIABLES decl,     \* the locations in the order they are read
          open,     \* the location blocks the reader is in, innermost last
          stage,    \* "reading", "serving", "refused" (start-up failed) or,
                    \* when the reader crashed, "lost"
          trees,    \* static_locations_tree of the server (0) and locations,
                    \* each as the joined queue it is made from
          uri,      \* the request being mapped, <<>> when there is none
          chosen    \* the location its configuration comes from

lvars == <<decl, open, stage, trees, uri, chosen>>

\* What n turns of a loop leave of s, Turn(_, k) being the k-th of them.
After(n, s, Turn(_, _)) ==
    LET after[k \in 0..n] == IF k = 0 THEN s ELSE Turn(after[k - 1], k)
    IN  after[n]

Slash == 47
Lower(c) == IF c \in 65..90 THEN c + 32 ELSE c
CharAt(s, i) == IF i <= Len(s) THEN s[i] ELSE 0

-----------------------------------------------------------------------------
(* Comparing names *)

\* Caseless, and '/' sorts before every other character above the terminating
\* NUL.
filename_cmp(s1, s2, n) ==
    LET c1(i) == Lower(CharAt(s1, i))
        c2(i) == Lower(CharAt(s2, i))
        differ == {i \in 1..n : c1(i) # c2(i)}
        i == Min(differ)
        flat(c) == IF c = Slash THEN 0 ELSE c
    IN  CASE differ = {} -> 0
          [] differ # {} /\ 0 \in {c1(i), c2(i)} -> c1(i) - c2(i)
          [] OTHER -> flat(c1(i)) - flat(c2(i))

\* An element of a queue of locations
LocationQueue(d) ==
    [name |-> decl[d].name,
     exact |-> IF decl[d].exact THEN d ELSE 0,
     inclusive |-> IF decl[d].exact THEN 0 ELSE d]

\* Mutant: the rule for locations of the same name is left out.
cmp_locations_unordered(a, b) ==
    filename_cmp(a.name, b.name, Min({Len(a.name), Len(b.name)}) + 1)

\* An exact location comes before the inclusive one of the same name.
cmp_locations(a, b) ==
    LET rc == filename_cmp(a.name, b.name, Min({Len(a.name), Len(b.name)}) + 1)
    IN  IF rc = 0 /\ a.exact = 0 /\ b.exact # 0 THEN 1 ELSE rc

-----------------------------------------------------------------------------
(* Building the trees *)

\* The insertion step walks back from the tail to the first element that is
\* not greater.
Insert(sorted, x) ==
    LET le == {i \in DOMAIN sorted : cmp_locations(sorted[i], x) <= 0}
    IN  InsertAt(sorted, IF le = {} THEN 1 ELSE Max(le) + 1, x)
queue_sort(queue) == After(Len(queue), <<>>, LAMBDA sorted, k : Insert(sorted, queue[k]))

SameName(a, b) == /\ Len(a.name) = Len(b.name)
                  /\ filename_cmp(a.name, b.name, Len(b.name)) = 0

\* Mutant: only two exact locations clash.
Clash_exact(a, b) == a.exact # 0 /\ b.exact # 0

Clash(a, b) == (a.exact # 0 /\ b.exact # 0) \/ (a.inclusive # 0 /\ b.inclusive # 0)

\* x joins the queue s, or the last element of s when it has the same name.
Join(s, x) ==
    IF s.rc = "ERROR" THEN s
    ELSE IF s.queue = <<>> \/ ~SameName(Last(s.queue), x)
    THEN [s EXCEPT !.queue = Append(s.queue, x)]
    ELSE IF Clash(Last(s.queue), x) THEN [s EXCEPT !.rc = "ERROR"]
    ELSE [s EXCEPT !.queue[Len(s.queue)].inclusive = x.inclusive]
join_exact_locations(queue) ==
    After(Len(queue), [rc |-> "OK", queue |-> <<>>], LAMBDA s, k : Join(s, queue[k]))

Continues(x, name) ==
    Len(name) <= Len(x.name) /\ filename_cmp(name, x.name, Len(name)) = 0

\* An inclusive location takes the run of names that continue its own into its
\* list: the last of them in a part of the queue that ends at hi.
ListEnd(q, i, hi) ==
    LET stop == {k \in i + 1..hi : ~Continues(q[k], q[i].name)}
    IN  IF q[i].inclusive = 0 THEN i ELSE IF stop = {} THEN hi ELSE Min(stop) - 1

\* The locations of a part that remain in its queue.
create_locations_list(q, lo, hi) ==
    {i \in lo..hi : \A j \in lo..i - 1 : ListEnd(q, j, hi) < i}

queue_middle(queue) ==
    CHOOSE i \in queue : Cardinality({j \in queue : j < i}) = Cardinality(queue) \div 2

\* The root of the tree made of a part: it keeps the part of its name below the
\* prefix, and its subtrees are parts again.
create_locations_tree(q, lo, hi, prefix) ==
    LET mid == queue_middle(create_locations_list(q, lo, hi))
        last == ListEnd(q, mid, hi)
    IN  [name |-> SubSeq(q[mid].name, prefix + 1, Len(q[mid].name)),
         exact |-> q[mid].exact, inclusive |-> q[mid].inclusive,
         left |-> [lo |-> lo, hi |-> mid - 1], right |-> [lo |-> last + 1, hi |-> hi],
         tree |-> [lo |-> mid + 1, hi |-> last]]

NoNode == [lo |-> 1, hi |-> 0]

-----------------------------------------------------------------------------
(* Searching *)

\* A turn of the loop: s is the subtree the search is at, the length of
\* the uri that is behind it, the result so far and the inclusive location
\* r->loc_conf holds.
SearchTurn(q, u, s) ==
    LET node == create_locations_tree(q, s.node.lo, s.node.hi, s.prefix)
        len == Len(u) - s.prefix
        n == Min({len, Len(node.name)})
        rc == filename_cmp(SubSeq(u, s.prefix + 1, Len(u)), node.name, n)
    IN  IF s.node.lo > s.node.hi THEN s
        ELSE IF rc # 0 THEN [s EXCEPT !.node = IF rc < 0 THEN node.left ELSE node.right]
        ELSE IF len > Len(node.name)
             THEN IF node.inclusive # 0
                  THEN [node |-> node.tree, prefix |-> s.prefix + n,
                        rc |-> "AGAIN", loc |-> node.inclusive]
                  ELSE [s EXCEPT !.node = node.right]
        ELSE IF len < Len(node.name) THEN [s EXCEPT !.node = node.left]
        ELSE IF node.exact # 0
             THEN [s EXCEPT !.node = NoNode, !.rc = "OK", !.loc = node.exact]
        ELSE [s EXCEPT !.node = NoNode, !.rc = "AGAIN", !.loc = node.inclusive]

\* The loop goes down at least one element of the queue a turn.
find_static_location(q, u) ==
    After(Len(q), [node |-> [lo |-> 1, hi |-> Len(q)], prefix |-> 0,
                   rc |-> "DECLINED", loc |-> 0],
          LAMBDA s, k : SearchTurn(q, u, s))

\* An inclusive match is looked up again among the locations nested in it; when
\* none of them matches, r->loc_conf stays with the outer one.
LookAgain(r, u) ==
    LET found == find_static_location(trees[r.loc], u)
    IN  IF r.rc # "AGAIN" THEN r
        ELSE [rc |-> found.rc, loc |-> IF found.rc = "DECLINED" THEN r.loc ELSE found.loc]
find_location(u) ==
    After(Len(decl) + 1, [rc |-> "AGAIN", loc |-> 0], LAMBDA r, k : LookAgain(r, u)).loc

-----------------------------------------------------------------------------
(* Steps *)

LocationInit == /\ decl = <<>> /\ open = <<>> /\ stage = "reading"
                /\ trees = <<>> /\ uri = <<>> /\ chosen = 0

Parent == IF open = <<>> THEN 0 ELSE Last(open)

\* night_http_location: "location [=] name {" adds to the enclosing queue.
Location(name, exact) ==
    /\ stage = "reading" /\ Len(decl) < MaxLocations
    /\ decl' = Append(decl, [name |-> name, exact |-> exact, parent |-> Parent])
    /\ open' = Append(open, Len(decl) + 1)
    /\ UNCHANGED <<stage, trees, uri, chosen>>

\* "location x name {" with x other than "=": the error is only logged, and the
\* name is read through an uninitialised pointer. What such a pointer may find
\* that can be read is another name (Location); else the reader crashes.
LocationUnnamed ==
    /\ stage = "reading"
    /\ stage' = "lost"
    /\ UNCHANGED <<decl, open, trees, uri, chosen>>

\* The "}" of a location: the nested night_conf_parse returns.
LocationEnd ==
    /\ stage = "reading" /\ open # <<>>
    /\ open' = Front(open)
    /\ UNCHANGED <<decl, stage, trees, uri, chosen>>

\* The locations declared in the block of d, in their order
locations(d) == LET inside == {e \in DOMAIN decl : decl[e].parent = d}
                IN  [i \in 1..Cardinality(inside) |->
                        LocationQueue(CHOOSE e \in inside :
                            Cardinality({f \in inside : f <= e}) = i)]

Joined(d) == join_exact_locations(queue_sort(locations(d)))

\* night_http_init_location_trees for the server and every location in it.
InitLocationTrees ==
    /\ stage = "reading" /\ open = <<>>
    /\ IF \E d \in 0..Len(decl) : Joined(d).rc = "ERROR"
       THEN stage' = "refused" /\ trees' = trees
       ELSE stage' = "serving" /\ trees' = [d \in 0..Len(decl) |-> Joined(d).queue]
    /\ UNCHANGED <<decl, open, uri, chosen>>

\* night_http_core_find_config_phase looks up a request's location.
FindConfig(u) ==
    /\ stage = "serving" /\ uri = <<>>
    /\ uri' = u /\ chosen' = find_location(u)
    /\ UNCHANGED <<decl, open, stage, trees>>

LocationNext == \/ \E name \in Names, exact \in BOOLEAN : Location(name, exact)
                \/ LocationUnnamed
                \/ LocationEnd
                \/ InitLocationTrees
                \/ \E u \in Uris : FindConfig(u)

LocationSpec == LocationInit /\ [][LocationNext]_lvars

-----------------------------------------------------------------------------
(* Properties *)

Folded(s) == [i \in DOMAIN s |-> Lower(s[i])]

Inside(d) == {e \in DOMAIN decl : decl[e].parent = d}
ExactIn(d, u) == {e \in Inside(d) : decl[e].exact /\ Folded(decl[e].name) = Folded(u)}
PrefixIn(d, u) == {e \in Inside(d) : ~decl[e].exact /\ IsPrefix(Folded(decl[e].name), Folded(u))}
Longest(S) == CHOOSE e \in S : \A f \in S : Len(decl[f].name) <= Len(decl[e].name)

\* The choice as nginx documents it, over the declarations themselves: what the
\* block of d gives to the uri.
Best(u) ==
    LET best[d \in 0..Len(decl)] ==
          IF ExactIn(d, u) # {} THEN CHOOSE e \in ExactIn(d, u) : TRUE
          ELSE IF PrefixIn(d, u) = {} THEN d
          ELSE best[Longest(PrefixIn(d, u))]
    IN  best[0]

\* Whatever the order of the declarations and however they nest, the trees
\* give each request the location declared exactly for its uri, else the one
\* with the longest name the uri begins with, level by level.
LongestPrefixChosen == uri # <<>> => chosen = Best(uri)

\* Start-up is refused exactly when some block declares one name twice in the
\* same way; every other configuration gets its trees.
DuplicatesRefused ==
    LET Twice == \E d, e \in DOMAIN decl :
                    /\ d # e /\ decl[d].parent = decl[e].parent
                    /\ decl[d].exact = decl[e].exact
                    /\ Folded(decl[d].name) = Folded(decl[e].name)
    IN  stage \in {"serving", "refused"} => (stage = "refused" <=> Twice)
=============================================================================
