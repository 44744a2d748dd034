-------------------------- MODULE NightPhasesProofs --------------------------
(***************************************************************************)
(* Proofs about NightPhases: however runs of the phases nest, nobody is    *)
(* left with a freed request, they nest no deeper than the limit, and      *)
(* every one of them finalizes its request exactly once, after all checks. *)
(*                                                                         *)
(* The first invariant (PhasesInv) needs nothing of the handlers: it       *)
(* compares two counters the code never compares, the references to the    *)
(* request and the content phases on the stack; the budget of redirects    *)
(* and the stack add up to a constant. The second (RunsInv) makes the      *)
(* first count exact. It needs what the build registers (BuildAssumption)  *)
(* and the shape of the array night_http_init_phase_handlers makes of it.  *)
(***************************************************************************)
EXTENDS NightPhases, NightLemmas

Fields == {"method", "dir", "keepalive", "internal", "uri_changes", "count",
           "phase_handler", "freed"}

\* A request that n runs of the phases beside its own still have to finalize.
Held(q, n) == DOMAIN q = Fields /\ q.count \in Nat /\ q.uri_changes \in Nat
              /\ ~q.freed /\ q.count >= n + 1

\* What is left of it when its own run has finalized it.
Released(q, n) == /\ DOMAIN q = Fields /\ q.count \in Nat /\ q.uri_changes \in Nat
                  /\ q.freed => n = 0
                  /\ ~q.freed => q.count >= n /\ q.count >= 1

\* The inductive invariant.
PhasesInv ==
    /\ calls \in Nat
    /\ pc \in {"idle", "run", "return", "done", "lost"}
    /\ pc = "lost" => ~r.freed
    /\ pc = "idle" => calls = 0 /\ ~r.freed
    /\ pc = "run" => /\ Held(r, calls)
                     /\ r.uri_changes >= 1
                     /\ r.uri_changes + calls = MaxUriChanges + 1
    /\ pc = "return" => Released(r, calls) /\ calls <= MaxUriChanges
    /\ pc = "done" => calls = 0

-----------------------------------------------------------------------------
(* Finalizing *)

\* The part of the assumptions the proofs need.
LEMMA LimitIsPositive == MaxUriChanges \in Nat /\ MaxUriChanges >= 1
  BY PhasesAssumption DEF PhasesAssumption

\* One reference of several is only given back.
LEMMA SharedGivesBack ==
    ASSUME NEW q, DOMAIN q = Fields, q.count \in Nat, q.count >= 2,
           NEW f \in finalize_request(q)
    PROVE  f.r = [q EXCEPT !.count = @ - 1]
  BY DEF finalize_request, close_request, Fields

\* Finalizing takes one reference, and frees the request only if no other run
\* holds it.
LEMMA FinalizeReleases ==
    ASSUME NEW q, NEW n \in Nat, Held(q, n), NEW f \in finalize_request(q)
    PROVE  Released(f.r, n)
<1>1. CASE q.count # 1
  <2>1. q.count >= 2
    BY <1>1 DEF Held
  <2>2. f.r = [q EXCEPT !.count = @ - 1]
    BY <2>1, SharedGivesBack DEF Held
  <2> QED
    BY <2>1, <2>2 DEF Held, Released, Fields
<1>2. CASE q.count = 1
  <2>1. n = 0
    BY <1>2 DEF Held
  <2>2. f.r = q \/ f.r = [q EXCEPT !.keepalive = FALSE, !.freed = TRUE]
    BY <1>2 DEF finalize_request, set_keepalive
  <2>3. CASE f.r = q
    BY <1>2, <2>1, <2>3 DEF Held, Released
  <2>4. CASE f.r = [q EXCEPT !.keepalive = FALSE, !.freed = TRUE]
    <3>1. DOMAIN f.r = Fields /\ f.r.count = q.count /\ f.r.uri_changes = q.uri_changes
      BY <2>4 DEF Held, Fields
    <3>2. f.r.freed = TRUE
      BY <2>4 DEF Held, Fields
    <3> QED
      BY <2>1, <3>1, <3>2 DEF Held, Released
  <2> QED
    BY <2>2, <2>3, <2>4
<1> QED
  BY <1>1, <1>2

-----------------------------------------------------------------------------
(* Steps that several actions are made of, taken while the phases run *)

\* A checker that moves to another entry leaves the counters alone.
LEMMA GotoKeeps ==
    ASSUME PhasesInv, pc = "run", NEW i, Goto(i)
    PROVE  PhasesInv'
<1>1. r' = [r EXCEPT !.phase_handler = i] /\ UNCHANGED <<calls, pc>>
  BY DEF Goto
<1>2. Held(r, calls)
  BY DEF PhasesInv
<1>3. Held(r, calls)' /\ r'.uri_changes = r.uri_changes
  BY <1>1, <1>2 DEF Held, Fields
<1> QED
  BY <1>1, <1>3 DEF PhasesInv

\* A checker that only ends its run leaves the counters alone.
LEMMA StopKeeps ==
    ASSUME PhasesInv, pc = "run", Stop
    PROVE  PhasesInv'
<1>1. pc' = "return" /\ UNCHANGED <<r, calls>>
  BY DEF Stop
<1>2. Held(r, calls) /\ calls <= MaxUriChanges
  BY LimitIsPositive DEF PhasesInv, Held
<1>3. Released(r, calls)
  BY <1>2 DEF Held, Released, PhasesInv
<1> QED
  BY <1>1, <1>2, <1>3 DEF PhasesInv, Released

\* A request that differs from r in other fields than the counters.
LEMMA FinalizeKeeps ==
    ASSUME PhasesInv, pc = "run", NEW q, Held(q, calls), Finalize(q)
    PROVE  PhasesInv'
<1>1. PICK f \in finalize_request(q) : r' = f.r
  BY DEF Finalize
<1>2. pc' = "return" /\ UNCHANGED calls
  BY DEF Finalize
<1>3. calls \in Nat /\ calls <= MaxUriChanges
  BY LimitIsPositive DEF PhasesInv, Held
<1>4. Released(r', calls)
  BY <1>1, <1>3, FinalizeReleases
<1> QED
  BY <1>2, <1>3, <1>4 DEF PhasesInv, Released

-----------------------------------------------------------------------------
(* The invariant *)

\* Before the first request there is nothing to count.
LEMMA PhasesInvInit == Init => PhasesInv
  BY DEF Init, PhasesInv, NoRequest

\* A request enters the phases with one reference and its whole budget.
LEMMA ProcessRequestKeeps ==
    ASSUME PhasesInv, NEW method \in Methods, NEW keepalive \in BOOLEAN,
           ProcessRequest(method, keepalive)
    PROVE  PhasesInv'
<1>1. calls' = 0 /\ pc' = "run"
  BY DEF ProcessRequest, PhasesInv
<1>2. Held(r', 0) /\ r'.uri_changes = MaxUriChanges + 1
  BY LimitIsPositive DEF ProcessRequest, handler, NoRequest, Held, Fields
<1> QED
  BY <1>1, <1>2, LimitIsPositive DEF PhasesInv, Held

\* A content handler that declines, whatever follows.
LEMMA ContentDeclinedKeeps ==
    ASSUME PhasesInv, pc = "run", ContentDeclined
    PROVE  PhasesInv'
  BY StopKeeps, GotoKeeps DEF ContentDeclined

\* The static handler declines or finalizes.
LEMMA StaticHandlerKeeps ==
    ASSUME PhasesInv, StaticHandler
    PROVE  PhasesInv'
<1>1. pc = "run" /\ Held(r, calls)
  BY DEF StaticHandler, At, PhasesInv
<1>2. CASE ContentDeclined
  BY <1>1, <1>2, ContentDeclinedKeeps
<1>3. ASSUME NEW sent, Finalize([r EXCEPT !.keepalive = @ /\ ~(sent /\ stopping)])
      PROVE  PhasesInv'
  <2>1. Held([r EXCEPT !.keepalive = @ /\ ~(sent /\ stopping)], calls)
    BY <1>1 DEF Held, Fields
  <2> QED
    BY <1>1, <1>3, <2>1, FinalizeKeeps
<1> QED
  BY <1>2, <1>3 DEF StaticHandler

\* A redirect takes a reference and one of the budget for the run it starts.
LEMMA IndexRedirectKeeps ==
    ASSUME PhasesInv, NEW i \in 1..Len(Indices), IndexRedirect(i)
    PROVE  PhasesInv'
<1>1. pc = "run" /\ pc' = "run" /\ calls' = calls + 1 /\ calls \in Nat
  BY DEF IndexRedirect, At, PhasesInv
<1>2. Held(r, calls) /\ r.uri_changes >= 1 /\ r.uri_changes + calls = MaxUriChanges + 1
  BY <1>1 DEF PhasesInv
<1> DEFINE q == internal_redirect(Indices[i])
<1>3. r' = handler(q) /\ q.uri_changes # 0
  BY DEF IndexRedirect
<1>4. Held(q, calls + 1) /\ q.uri_changes = r.uri_changes - 1
  <2>1. r.uri_changes - 1 # 0
    BY <1>2, <1>3 DEF internal_redirect, Held, Fields
  <2> QED
    BY <1>1, <1>2, <2>1 DEF internal_redirect, Held, Fields
<1>5. Held(r', calls + 1) /\ r'.uri_changes = q.uri_changes
  BY <1>3, <1>4 DEF handler, Held, Fields
<1>6. q.uri_changes \in Nat /\ r.uri_changes \in Nat
  BY <1>2, <1>4 DEF Held
<1> HIDE DEF q
<1> QED
  BY <1>1, <1>2, <1>3, <1>4, <1>5, <1>6, LimitIsPositive DEF PhasesInv

\* A redirect beyond the limit gives back the reference it took.
LEMMA IndexRedirectLimitKeeps ==
    ASSUME PhasesInv, NEW i \in 1..Len(Indices), IndexRedirectLimit(i)
    PROVE  PhasesInv'
<1>1. pc = "run" /\ pc' = "return" /\ calls' = calls /\ calls \in Nat
  BY DEF IndexRedirectLimit, At, PhasesInv
<1>2. Held(r, calls) /\ calls <= MaxUriChanges
  BY <1>1, LimitIsPositive DEF PhasesInv, Held
<1> DEFINE q == [r EXCEPT !.uri_changes = 0, !.count = @ + 1]
<1>3. PICK f \in finalize_request(q) : \E g \in finalize_request(f.r) : r' = g.r
  BY DEF IndexRedirectLimit
<1>4. DOMAIN q = Fields /\ q.count = r.count + 1 /\ q.count >= 2 /\ q.count \in Nat
      /\ q.uri_changes = 0 /\ ~q.freed
  BY <1>1, <1>2 DEF Held, Fields
<1> HIDE DEF q
<1>5. f.r = [q EXCEPT !.count = @ - 1]
  BY <1>3, <1>4, SharedGivesBack
<1>6. Held(f.r, calls)
  BY <1>1, <1>2, <1>4, <1>5 DEF Held, Fields
<1>7. Released(r', calls)
  BY <1>1, <1>3, <1>6, FinalizeReleases
<1> QED
  BY <1>1, <1>2, <1>7 DEF PhasesInv, Released

\* A content phase gives back a reference when its redirect returns.
LEMMA RedirectReturnsKeeps ==
    ASSUME PhasesInv, RedirectReturns
    PROVE  PhasesInv'
<1>1. /\ pc = "return" /\ pc' = "return" /\ calls \in Nat
      /\ calls > 0 /\ calls' = calls - 1 /\ calls <= MaxUriChanges
  BY DEF RedirectReturns, PhasesInv
<1>2. Held(r, calls - 1)
  BY <1>1 DEF PhasesInv, Released, Held
<1>3. PICK f \in finalize_request(r) : r' = f.r
  BY DEF RedirectReturns
<1>4. calls - 1 \in Nat /\ calls - 1 <= MaxUriChanges
  BY <1>1, LimitIsPositive
<1>5. Released(r', calls - 1)
  BY <1>2, <1>3, <1>4, FinalizeReleases
<1> QED
  BY <1>1, <1>4, <1>5 DEF PhasesInv, Released

\* Every step keeps the invariant.
LEMMA PhasesInvNext == PhasesInv /\ [Next]_pvars => PhasesInv'
<1> SUFFICES ASSUME PhasesInv, [Next]_pvars
             PROVE  PhasesInv'
  OBVIOUS
<1>1. CASE UNCHANGED pvars
  BY <1>1 DEF PhasesInv, Held, Released, pvars
<1>2. ASSUME NEW method \in Methods, NEW keepalive \in BOOLEAN,
             ProcessRequest(method, keepalive)
      PROVE  PhasesInv'
  BY <1>2, ProcessRequestKeeps
<1>4. CASE RewritePhase
  <2>1. pc = "run" /\ Held(r, calls)
    BY <1>4 DEF RewritePhase, At, PhasesInv
  <2>2. (\E i : Goto(i)) \/ Stop \/ Finalize(r)
    BY <1>4 DEF RewritePhase
  <2> QED
    BY <2>1, <2>2, GotoKeeps, StopKeeps, FinalizeKeeps
<1>5. CASE FindConfigPhase
  BY <1>5, GotoKeeps DEF FindConfigPhase, At
<1>6. CASE PostRewritePhase
  BY <1>6, GotoKeeps DEF PostRewritePhase, At
<1>7. CASE AccessPhase
  BY <1>7, GotoKeeps, StopKeeps DEF AccessPhase, At
<1>8. CASE PostAccessPhase
  BY <1>8, GotoKeeps DEF PostAccessPhase, At
<1>9. CASE GenericPhase
  <2>1. pc = "run"
    BY <1>9 DEF GenericPhase, At
  <2>2. (\E i : Goto(i)) \/ Stop
    BY <1>9 DEF GenericPhase
  <2> QED
    BY <2>1, <2>2, GotoKeeps, StopKeeps
<1>10. CASE ContentPhase
  <2>1. pc = "run" /\ Held(r, calls)
    BY <1>10 DEF ContentPhase, At, PhasesInv
  <2>2. ContentDeclined \/ Finalize(r)
    BY <1>10 DEF ContentPhase
  <2> QED
    BY <2>1, <2>2, ContentDeclinedKeeps, FinalizeKeeps
<1>11. CASE StaticHandler
  BY <1>11, StaticHandlerKeeps
<1>12. ASSUME NEW i \in 1..Len(Indices), IndexRedirect(i) \/ IndexRedirectLimit(i)
       PROVE  PhasesInv'
  BY <1>12, IndexRedirectKeeps, IndexRedirectLimitKeeps
<1>13. CASE RedirectReturns
  BY <1>13, RedirectReturnsKeeps
<1>14. CASE HandlerReturns
  BY <1>14 DEF HandlerReturns, PhasesInv
<1>15. CASE StaticCrash
  BY <1>15 DEF StaticCrash, At, PhasesInv, Held
<1>16. CASE Served
  BY <1>16, <1>1 DEF Served
<1> QED
  BY <1>1, <1>2, <1>4, <1>5, <1>6, <1>7, <1>8, <1>9, <1>10, <1>11, <1>12,
     <1>13, <1>14, <1>15, <1>16 DEF Next, Run

\* The invariant holds in every behaviour.
THEOREM PhasesInvariant == PhasesSpec => []PhasesInv
  BY PhasesInvInit, PhasesInvNext, PTL DEF PhasesSpec

\* A request freed by night_http_finalize_request is used by no phase and by
\* no content phase that waits for a redirect to return, for every build's
\* handlers and every index list.
THEOREM NothingUsesFreedHolds == PhasesSpec => []NothingUsesFreed
<1>1. PhasesInv => NothingUsesFreed
  BY DEF PhasesInv, NothingUsesFreed, Held, Released
<1> QED
  BY <1>1, PhasesInvariant, PTL

\* Internal redirects nest no deeper than NIGHT_HTTP_MAX_URI_CHANGES, whatever
\* index names the configuration gives.
THEOREM RedirectsBoundedHolds == PhasesSpec => []RedirectsBounded
<1>1. PhasesInv => RedirectsBounded
  BY LimitIsPositive DEF PhasesInv, RedirectsBounded, Held
<1> QED
  BY <1>1, PhasesInvariant, PTL

-----------------------------------------------------------------------------
(* The array of checkers                                                   *)

Checkers == {"rewrite", "access", "content", "generic", "find_config", "post_rewrite",
             "post_access"}
Entries == [checker : Checkers, handler : STRING \cup {"none"}, next : Nat]
Engines == [handlers : Seq(Entries), n : Nat, server_rewrite : Nat, find_config : Nat]

\* The phases by number.
LEMMA PhaseNames ==
    /\ Phases[1] = "POST_READ" /\ Phases[2] = "SERVER_REWRITE" /\ Phases[3] = "FIND_CONFIG"
    /\ Phases[4] = "REWRITE" /\ Phases[5] = "POST_REWRITE" /\ Phases[6] = "PREACCESS"
    /\ Phases[7] = "ACCESS" /\ Phases[8] = "POST_ACCESS" /\ Phases[9] = "PRECONTENT"
    /\ Phases[10] = "CONTENT"
BY DEF Phases

\* Reversing keeps the length and the elements.
LEMMA ReversedProperties ==
    ASSUME NEW S, NEW s \in Seq(S)
    PROVE  /\ Reversed(s) \in Seq(S) /\ Len(Reversed(s)) = Len(s)
           /\ \A i \in 1..Len(s) : /\ Reversed(s)[i] = s[Len(s) + 1 - i]
                                   /\ Reversed(s)[Len(s) + 1 - i] = s[i]
                                   /\ Len(s) + 1 - i \in 1..Len(s)
<1> DEFINE n == Len(s)
<1>1. n \in Nat /\ \A i \in 1..n : s[i] \in S
  OBVIOUS
<1>2. \A i \in 1..n : n + 1 - i \in 1..n /\ n + 1 - (n + 1 - i) = i
  BY <1>1
<1>3. Reversed(s) = [i \in 1..n |-> s[n + 1 - i]]
  BY DEF Reversed
<1> HIDE DEF n
<1>4. /\ Reversed(s) \in Seq(S) /\ Len(Reversed(s)) = n
      /\ \A i \in 1..n : Reversed(s)[i] = s[n + 1 - i]
  BY <1>1, <1>2, <1>3
<1>5. \A i \in 1..n : Reversed(s)[n + 1 - i] = s[i]
  <2> TAKE i \in 1..n
  <2>1. n + 1 - i \in 1..n /\ n + 1 - (n + 1 - i) = i
    BY <1>2
  <2>2. Reversed(s)[n + 1 - i] = s[n + 1 - (n + 1 - i)]
    BY <1>4, <2>1
  <2> QED
    BY <2>1, <2>2
<1> QED
  BY <1>2, <1>4, <1>5 DEF n

\* What one phase's handlers add to the array: an entry for each, in reverse.
Added(p, next) ==
    [i \in 1..Len(Registered[p]) |-> Entry(Checker(p), Reversed(Registered[p])[i], next)]

\* The entries of a phase's handlers.
LEMMA AddedProperties ==
    ASSUME NEW p, Registered[p] \in Seq(STRING), NEW next \in Nat
    PROVE  /\ Added(p, next) \in Seq(Entries) /\ Len(Added(p, next)) = Len(Registered[p])
           /\ \A i \in 1..Len(Registered[p]) :
                 /\ Added(p, next)[i].checker = Checker(p)
                 /\ Added(p, next)[i].handler = Registered[p][Len(Registered[p]) + 1 - i]
                 /\ Added(p, next)[Len(Registered[p]) + 1 - i].handler = Registered[p][i]
                 /\ Len(Registered[p]) + 1 - i \in 1..Len(Registered[p])
<1> DEFINE s == Registered[p]
           n == Len(s)
           h == Reversed(s)
<1>1. n \in Nat /\ h \in Seq(STRING) /\ Len(h) = n
      /\ \A i \in 1..n : h[i] = s[n + 1 - i] /\ h[n + 1 - i] = s[i] /\ n + 1 - i \in 1..n
  BY ReversedProperties
<1>2. Checker(p) \in Checkers
  BY DEF Checker, Checkers
<1>3. Added(p, next) = [i \in 1..n |-> Entry(Checker(p), h[i], next)]
  BY DEF Added
<1> HIDE DEF s, n, h
<1>4. \A i \in 1..n : /\ Entry(Checker(p), h[i], next) \in Entries
                      /\ Entry(Checker(p), h[i], next).checker = Checker(p)
                      /\ Entry(Checker(p), h[i], next).handler = h[i]
  <2> TAKE i \in 1..n
  <2>1. h[i] \in STRING
    BY <1>1
  <2> QED
    BY <1>2, <2>1 DEF Entry, Entries
<1>5. Added(p, next) \in Seq(Entries) /\ Len(Added(p, next)) = n
  BY <1>1, <1>3, <1>4
<1>6. \A i \in 1..n : /\ Added(p, next)[i].checker = Checker(p)
                      /\ Added(p, next)[i].handler = h[i]
  BY <1>3, <1>4
<1>7. \A i \in 1..n : Added(p, next)[n + 1 - i].handler = s[i]
  BY <1>1, <1>6
<1> QED
  BY <1>1, <1>5, <1>6, <1>7 DEF s, n

\* Adding a phase's handlers appends their entries.
LEMMA AddHandlersProperties ==
    ASSUME NEW e \in Engines, NEW p, Registered[p] \in Seq(STRING), NEW n \in Nat
    PROVE  /\ AddHandlers(e, p, n) \in Engines
           /\ AddHandlers(e, p, n).handlers
                = e.handlers \o Added(p, n + Len(Registered[p]))
           /\ AddHandlers(e, p, n).n = n + Len(Registered[p])
           /\ AddHandlers(e, p, n).server_rewrite = e.server_rewrite
<1> DEFINE k == n + Len(Registered[p])
           d == Added(p, k)
           h == Reversed(Registered[p])
<1>1. k \in Nat /\ Len(h) = Len(Registered[p])
  BY ReversedProperties
<1>2. d \in Seq(Entries)
  BY <1>1, AddedProperties
<1>3. d = [i \in 1..Len(h) |-> Entry(Checker(p), h[i], n + Len(h))]
  BY <1>1 DEF Added
<1>4. AddHandlers(e, p, n)
        = [e EXCEPT !.n = n + Len(h),
                    !.handlers = e.handlers \o [i \in 1..Len(h) |-> Entry(Checker(p), h[i], n + Len(h))]]
  BY Zenon DEF AddHandlers
<1>5. AddHandlers(e, p, n) = [e EXCEPT !.n = k, !.handlers = e.handlers \o d]
  <2> HIDE DEF d, h
  <2> QED
    BY <1>1, <1>3, <1>4
<1> HIDE DEF d, k, h
<1>6. e.handlers \o d \in Seq(Entries)
  BY <1>2, ConcatProperties DEF Engines
<1>7. [e EXCEPT !.n = k, !.handlers = e.handlers \o d] \in Engines
  BY <1>1, <1>6 DEF Engines
<1>8. /\ [e EXCEPT !.n = k, !.handlers = e.handlers \o d].handlers = e.handlers \o d
      /\ [e EXCEPT !.n = k, !.handlers = e.handlers \o d].n = k
      /\ [e EXCEPT !.n = k, !.handlers = e.handlers \o d].server_rewrite = e.server_rewrite
  BY DEF Engines
<1> QED
  BY <1>5, <1>7, <1>8 DEF d, k

\* The phases that take handlers of modules.
Takers == {1, 2, 4, 6, 7, 9, 10}

\* What the entries d of the i-th phase are: all its handlers and, before the
\* content phase, no content checker and no handler that would stop there.
Fresh(i, d) ==
    /\ i # 10 => \A j \in 1..Len(d) : d[j].checker # "content" /\ d[j].handler # "autoindex"
    /\ i \in Takers => \A k \in 1..Len(Registered[Phases[i]]) :
                          \E j \in 1..Len(d) : d[j].handler = Registered[Phases[i]][k]
    /\ i = 3 => \E j \in 1..Len(d) : d[j].checker = "find_config"
    /\ i = 8 => \E j \in 1..Len(d) : d[j].checker = "post_access"
    /\ i = 10 => /\ Len(d) = Len(Registered["CONTENT"])
                 /\ \A j \in 1..Len(d) :
                       /\ d[j].checker = "content"
                       /\ d[j].handler = Registered["CONTENT"][Len(d) + 1 - j]

\* The entries of a phase's handlers are such.
LEMMA AddedFresh ==
    ASSUME NEW i \in Takers, NEW next \in Nat
    PROVE  /\ Registered[Phases[i]] \in Seq(STRING)
           /\ Fresh(i, Added(Phases[i], next)) /\ Added(Phases[i], next) \in Seq(Entries)
           /\ Len(Added(Phases[i], next)) = Len(Registered[Phases[i]])
<1> DEFINE p == Phases[i]
           s == Registered[p]
           n == Len(s)
           d == Added(p, next)
<1>1. s \in Seq(STRING)
  <2>1. i \in 1..10
    BY DEF Takers
  <2> QED
    BY <2>1, PhasesAssumption
<1>2. d \in Seq(Entries) /\ Len(d) = n
      /\ \A j \in 1..n : /\ d[j].checker = Checker(p) /\ d[j].handler = s[n + 1 - j]
                         /\ d[n + 1 - j].handler = s[j] /\ n + 1 - j \in 1..n
  BY <1>1, AddedProperties
<1>3. i # 10 => Checker(p) # "content" /\ i \in 1..9
  BY PhaseNames DEF Checker, Takers
<1>4. i = 10 => Checker(p) = "content" /\ p = "CONTENT"
  BY PhaseNames DEF Checker
<1>5. i # 10 => \A j \in 1..n : s[j] # "autoindex"
  BY <1>3, BuildAssumption
<1> HIDE DEF p, s, n, d
<1>6. i # 10 => \A j \in 1..Len(d) : d[j].checker # "content" /\ d[j].handler # "autoindex"
  BY <1>2, <1>3, <1>5
<1>7. \A k \in 1..n : \E j \in 1..Len(d) : d[j].handler = s[k]
  BY <1>2
<1>8. i = 10 => /\ Len(d) = Len(Registered["CONTENT"])
                /\ \A j \in 1..Len(d) : /\ d[j].checker = "content"
                                        /\ d[j].handler = Registered["CONTENT"][Len(d) + 1 - j]
  BY <1>2, <1>4 DEF n, s
<1>9. i # 3 /\ i # 8
  BY DEF Takers
<1> QED
  BY <1>1, <1>2, <1>6, <1>7, <1>8, <1>9 DEF Fresh, d, p, s, n

\* An entry of its own.
LEMMA OneEntry ==
    ASSUME NEW e \in Engines, NEW i \in {3, 5, 8}, NEW next \in Nat,
           NEW c \in {"find_config", "post_rewrite", "post_access"},
           i = 3 => c = "find_config", i = 8 => c = "post_access",
           NEW x, x = Entry(c, "none", next)
    PROVE  /\ <<x>> \in Seq(Entries) /\ Fresh(i, <<x>>)
           /\ Append(e.handlers, x) = e.handlers \o <<x>>
<1>1. x \in Entries /\ x.checker = c /\ x.handler = "none"
  BY DEF Entry, Entries, Checkers
<1>2. <<x>> \in Seq(Entries) /\ Len(<<x>>) = 1 /\ <<x>>[1] = x
  BY <1>1
<1>3. Fresh(i, <<x>>)
  BY <1>1, <1>2 DEF Fresh, Takers
<1>4. Append(e.handlers, x) = e.handlers \o <<x>>
  BY <1>1 DEF Engines
<1> QED
  BY <1>2, <1>3, <1>4

\* Nothing at all, where the code adds nothing.
LEMMA NoEntry ==
    ASSUME NEW e \in Engines
    PROVE  <<>> \in Seq(Entries) /\ Fresh(5, <<>>) /\ e.handlers \o <<>> = e.handlers
<1>1. e.handlers \in Seq(Entries)
  BY DEF Engines
<1> QED
  BY <1>1, ConcatEmptySeq DEF Fresh, Takers

\* A phase appends its entries; the second one notes where it starts.
LEMMA AddPhaseAppends ==
    ASSUME NEW e \in Engines, NEW i \in 1..10
    PROVE  LET f == AddPhase(e, Phases[i]) IN
           /\ f \in Engines
           /\ \E d \in Seq(Entries) : /\ f.handlers = e.handlers \o d /\ Fresh(i, d)
                                      /\ i = 1 => f.n = e.n + Len(d)
           /\ f.server_rewrite = IF i = 2 THEN e.n ELSE e.server_rewrite
<1> DEFINE f == AddPhase(e, Phases[i])
           OK(g) == /\ g \in Engines
                    /\ \E d \in Seq(Entries) : /\ g.handlers = e.handlers \o d /\ Fresh(i, d)
                                               /\ i = 1 => g.n = e.n + Len(d)
                    /\ g.server_rewrite = IF i = 2 THEN e.n ELSE e.server_rewrite
<1> SUFFICES OK(f)
  OBVIOUS
<1>1. /\ e.n \in Nat /\ e.n + 1 \in Nat /\ e.find_config \in Nat /\ e.server_rewrite \in Nat
      /\ e.handlers \in Seq(Entries)
  BY DEF Engines
<1>2. ASSUME NEW n \in Nat, NEW g \in Engines, i \in Takers, g.handlers = e.handlers,
             g.server_rewrite = (IF i = 2 THEN e.n ELSE e.server_rewrite),
             i = 1 => n = e.n
      PROVE  OK(AddHandlers(g, Phases[i], n))
  <2> DEFINE h == AddHandlers(g, Phases[i], n)
             k == Len(Registered[Phases[i]])
             d == Added(Phases[i], n + k)
  <2>1. Registered[Phases[i]] \in Seq(STRING) /\ k \in Nat /\ n + k \in Nat
    <3>1. Registered[Phases[i]] \in Seq(STRING)
      BY <1>2, AddedFresh
    <3> QED
      BY <3>1
  <2>2. Fresh(i, d) /\ d \in Seq(Entries) /\ Len(d) = k
    BY <1>2, <2>1, AddedFresh
  <2>3. h \in Engines /\ h.handlers = g.handlers \o d /\ h.n = n + k
        /\ h.server_rewrite = g.server_rewrite
    BY <1>2, <2>1, AddHandlersProperties
  <2> HIDE DEF h, d, k
  <2>4. OK(h)
    BY <1>2, <2>2, <2>3
  <2> QED
    BY <2>4 DEF h
<1>3. CASE i \in {1, 4, 6, 9, 10}
  <2>1. f = AddHandlers(e, Phases[i], e.n)
    BY <1>3, PhaseNames DEF AddPhase
  <2>2. i \in Takers /\ e.server_rewrite = (IF i = 2 THEN e.n ELSE e.server_rewrite)
    BY <1>3 DEF Takers
  <2> HIDE DEF OK, f
  <2> QED
    BY <1>1, <1>2, <2>1, <2>2
<1>4. CASE i = 7
  <2>1. f = AddHandlers(e, Phases[i], e.n + 1)
    BY <1>4, PhaseNames DEF AddPhase
  <2>2. i \in Takers /\ e.server_rewrite = (IF i = 2 THEN e.n ELSE e.server_rewrite) /\ i # 1
    BY <1>4 DEF Takers
  <2> HIDE DEF OK, f
  <2> QED
    BY <1>1, <1>2, <2>1, <2>2
<1>5. CASE i = 2
  <2> DEFINE g == [e EXCEPT !.server_rewrite = e.n]
  <2>1. f = AddHandlers(g, Phases[i], e.n)
    BY <1>5, PhaseNames DEF AddPhase
  <2>2. g \in Engines /\ g.handlers = e.handlers /\ g.server_rewrite = e.n
    BY <1>1 DEF Engines
  <2>3. i \in Takers /\ i # 1 /\ e.n = (IF i = 2 THEN e.n ELSE e.server_rewrite)
    BY <1>5 DEF Takers
  <2> HIDE DEF OK, f, g
  <2> QED
    BY <1>1, <1>2, <2>1, <2>2, <2>3
<1>9. ASSUME NEW d \in Seq(Entries), Fresh(i, d), f \in Engines, i \notin {1, 2},
             f.handlers = e.handlers \o d, f.server_rewrite = e.server_rewrite
      PROVE  OK(f)
  <2>1. i # 1 /\ i # 2
    BY <1>9
  <2> HIDE DEF f
  <2> QED
    BY <1>9, <2>1
<1>6. CASE i = 3
  <2> DEFINE x == Entry("find_config", "none", 0)
  <2>1. f = [e EXCEPT !.handlers = Append(e.handlers, x), !.n = e.n + 1, !.find_config = e.n]
    BY <1>6, PhaseNames DEF AddPhase
  <2>2. <<x>> \in Seq(Entries) /\ Fresh(i, <<x>>) /\ Append(e.handlers, x) = e.handlers \o <<x>>
    <3>1. /\ i \in {3, 5, 8} /\ 0 \in Nat /\ i # 8
          /\ "find_config" \in {"find_config", "post_rewrite", "post_access"}
      BY <1>6
    <3> QED
      BY <3>1, OneEntry
  <2> HIDE DEF x, f
  <2>3. e.handlers \o <<x>> \in Seq(Entries)
    BY <1>1, <2>2, ConcatProperties
  <2>4. f \in Engines /\ f.handlers = e.handlers \o <<x>> /\ f.server_rewrite = e.server_rewrite
    BY <1>1, <2>1, <2>2, <2>3 DEF Engines
  <2>5. i \notin {1, 2}
    BY <1>6
  <2> HIDE DEF OK
  <2> QED
    BY <1>9, <2>2, <2>4, <2>5
<1>7. CASE i = 5
  <2>1. CASE Registered["REWRITE"] = <<>>
    <3>1. f = e
      BY <1>7, <2>1, PhaseNames DEF AddPhase
    <3>2. <<>> \in Seq(Entries) /\ Fresh(i, <<>>) /\ f.handlers = e.handlers \o <<>>
      BY <1>7, <3>1, NoEntry
    <3>3. i \notin {1, 2} /\ f \in Engines /\ f.server_rewrite = e.server_rewrite
      BY <1>7, <3>1
    <3> HIDE DEF f, OK
    <3> QED
      BY <1>9, <3>2, <3>3
  <2>2. CASE Registered["REWRITE"] # <<>>
    <3> DEFINE x == Entry("post_rewrite", "none", e.find_config)
    <3>1. f = [e EXCEPT !.handlers = Append(e.handlers, x), !.n = e.n + 1]
      BY <1>7, <2>2, PhaseNames DEF AddPhase
    <3>2. <<x>> \in Seq(Entries) /\ Fresh(i, <<x>>) /\ Append(e.handlers, x) = e.handlers \o <<x>>
      <4>1. /\ i \in {3, 5, 8} /\ i # 3 /\ i # 8
            /\ "post_rewrite" \in {"find_config", "post_rewrite", "post_access"}
        BY <1>7
      <4> QED
        BY <1>1, <4>1, OneEntry
    <3> HIDE DEF x, f
    <3>3. e.handlers \o <<x>> \in Seq(Entries)
      BY <1>1, <3>2, ConcatProperties
    <3>4. f \in Engines /\ f.handlers = e.handlers \o <<x>> /\ f.server_rewrite = e.server_rewrite
      BY <1>1, <3>1, <3>2, <3>3 DEF Engines
    <3>5. i \notin {1, 2}
      BY <1>7
    <3> HIDE DEF OK
    <3> QED
      BY <1>9, <3>2, <3>4, <3>5
  <2> QED
    BY <2>1, <2>2
<1>8. CASE i = 8
  <2> DEFINE x == Entry("post_access", "none", e.n)
  <2>1. f = [e EXCEPT !.handlers = Append(e.handlers, x)]
    BY <1>8, PhaseNames, BuildAssumption DEF AddPhase
  <2>2. <<x>> \in Seq(Entries) /\ Fresh(i, <<x>>) /\ Append(e.handlers, x) = e.handlers \o <<x>>
    <3>1. /\ i \in {3, 5, 8} /\ i # 3
          /\ "post_access" \in {"find_config", "post_rewrite", "post_access"}
      BY <1>8
    <3> QED
      BY <1>1, <3>1, OneEntry
  <2> HIDE DEF x, f
  <2>3. e.handlers \o <<x>> \in Seq(Entries)
    BY <1>1, <2>2, ConcatProperties
  <2>4. f \in Engines /\ f.handlers = e.handlers \o <<x>> /\ f.server_rewrite = e.server_rewrite
    BY <1>1, <2>1, <2>2, <2>3 DEF Engines
  <2>5. i \notin {1, 2}
    BY <1>8
  <2> HIDE DEF OK
  <2> QED
    BY <1>9, <2>2, <2>4, <2>5
<1>10. i \in {1, 4, 6, 9, 10} \/ i \in {2, 3, 5, 7, 8}
  OBVIOUS
<1> HIDE DEF OK, f
<1> QED
  BY <1>3, <1>4, <1>5, <1>6, <1>7, <1>8, <1>10

\* night_http_init_phase_handlers goes through the phases one by one.
LEMMA EngineSteps ==
    /\ Engine[0] = [handlers |-> <<>>, n |-> 0, server_rewrite |-> 0, find_config |-> 0]
    /\ \A i \in 1..10 : Engine[i] = AddPhase(Engine[i - 1], Phases[i])
    /\ \A i \in 0..10 : Engine[i] \in Engines
<1> DEFINE x == [handlers |-> <<>>, n |-> 0, server_rewrite |-> 0, find_config |-> 0]
           g == [i \in 1..10 |-> [e \in Engines |-> AddPhase(e, Phases[i])]]
           F(f) == [i \in 0..10 |-> IF i = 0 THEN x ELSE AddPhase(f[i - 1], Phases[i])]
<1>1. x \in Engines
  BY DEF Engines
<1>2. g \in [1..10 -> [Engines -> Engines]]
  <2>1. \A e \in Engines : \A i \in 1..10 : AddPhase(e, Phases[i]) \in Engines
    BY AddPhaseAppends
  <2> QED
    BY <2>1
<1> HIDE DEF x, g
<1>3. PICK d \in [0..10 -> Engines] : d[0] = x /\ \A i \in 1..10 : d[i] = g[i][d[i - 1]]
  <2> DEFINE m == 10
  <2>1. m \in Nat /\ g \in [1..m -> [Engines -> Engines]]
    BY <1>2
  <2> HIDE DEF m
  <2>2. \E d \in [0..m -> Engines] : d[0] = x /\ \A i \in 1..m : d[i] = g[i][d[i - 1]]
    BY <1>1, <2>1, RecursionExists
  <2> QED
    BY <2>2 DEF m
<1>4. \A i \in 1..10 : d[i - 1] \in Engines /\ d[i] = AddPhase(d[i - 1], Phases[i])
  <2> TAKE i \in 1..10
  <2>1. i - 1 \in 0..10
    OBVIOUS
  <2>2. d[i - 1] \in Engines
    BY <1>3, <2>1
  <2>3. g[i][d[i - 1]] = AddPhase(d[i - 1], Phases[i])
    BY <2>2 DEF g
  <2> QED
    BY <1>3, <2>2, <2>3
<1>5. d = F(d)
  BY <1>3, <1>4
<1>6. Engine = CHOOSE f : f = F(f)
  BY Zenon DEF Engine, x
<1>7. Engine = F(Engine)
  <2> HIDE DEF F
  <2> QED
    BY <1>5, <1>6
<1>8. Engine = [i \in 0..10 |-> IF i = 0 THEN x ELSE AddPhase(Engine[i - 1], Phases[i])]
  BY <1>7
<1>9. Engine[0] = x /\ \A i \in 1..10 : Engine[i] = AddPhase(Engine[i - 1], Phases[i])
  <2>1. Engine[0] = x
    BY <1>8
  <2>2. \A i \in 1..10 : Engine[i] = AddPhase(Engine[i - 1], Phases[i])
    <3> TAKE i \in 1..10
    <3>1. i \in 0..10 /\ i # 0
      OBVIOUS
    <3> QED
      BY <1>8, <3>1
  <2> QED
    BY <2>1, <2>2
<1> DEFINE P == {i \in Nat : i <= 10 => Engine[i] \in Engines}
<1>10. 0 \in P
  BY <1>1, <1>9
<1>11. ASSUME NEW i \in Nat, i \in P PROVE i + 1 \in P
  <2> SUFFICES ASSUME i + 1 <= 10 PROVE Engine[i + 1] \in Engines
    OBVIOUS
  <2>1. i + 1 \in 1..10 /\ (i + 1) - 1 = i /\ i <= 10
    OBVIOUS
  <2>2. Engine[i] \in Engines
    BY <1>11, <2>1
  <2>3. Engine[i + 1] = AddPhase(Engine[i], Phases[i + 1])
    BY <1>9, <2>1
  <2>4. AddPhase(Engine[i], Phases[i + 1]) \in Engines
    BY <2>1, <2>2, AddPhaseAppends
  <2> QED
    BY <2>3, <2>4
<1> HIDE DEF P
<1>12. Nat \subseteq P
  BY <1>10, <1>11, SetInduction
<1>13. \A i \in 0..10 : Engine[i] \in Engines
  <2> TAKE i \in 0..10
  <2>1. i \in P /\ i <= 10
    BY <1>12
  <2> QED
    BY <2>1 DEF P
<1> QED
  BY <1>9, <1>13 DEF x

\* How many entries the array has after i phases.
Filling(i) == Len(Engine[i].handlers)

\* Each phase appends its entries.
LEMMA EngineAppends ==
    ASSUME NEW i \in 1..10
    PROVE  /\ Filling(i) \in Nat /\ Filling(i - 1) \in Nat /\ Filling(i - 1) <= Filling(i)
           /\ \A j \in 1..Filling(i - 1) : Engine[i].handlers[j] = Engine[i - 1].handlers[j]
           /\ \E d \in Seq(Entries) :
                 /\ Fresh(i, d) /\ Filling(i) = Filling(i - 1) + Len(d)
                 /\ \A j \in 1..Len(d) : Engine[i].handlers[Filling(i - 1) + j] = d[j]
                 /\ i = 1 => Engine[i].n = Engine[i - 1].n + Len(d)
           /\ Engine[i].server_rewrite = IF i = 2 THEN Engine[i - 1].n ELSE Engine[i - 1].server_rewrite
<1> DEFINE e == Engine[i - 1]
           f == Engine[i]
<1>1. e \in Engines /\ f \in Engines /\ f = AddPhase(e, Phases[i])
  <2>1. i - 1 \in 0..10 /\ i \in 0..10
    OBVIOUS
  <2> QED
    BY <2>1, EngineSteps
<1> HIDE DEF e, f
<1>2. f.server_rewrite = IF i = 2 THEN e.n ELSE e.server_rewrite
  BY <1>1, AddPhaseAppends
<1>3. PICK d \in Seq(Entries) : /\ f.handlers = e.handlers \o d /\ Fresh(i, d)
                                /\ i = 1 => f.n = e.n + Len(d)
  BY <1>1, AddPhaseAppends
<1> DEFINE k == Len(e.handlers)
           m == Len(d)
<1>4. e.handlers \in Seq(Entries) /\ k \in Nat /\ m \in Nat
  BY <1>1, <1>3 DEF Engines
<1>5. /\ Len(f.handlers) = k + m
      /\ \A j \in 1..k + m : f.handlers[j] = IF j <= k THEN e.handlers[j] ELSE d[j - k]
  BY <1>3, <1>4, ConcatProperties
<1>6. Filling(i) = k + m /\ Filling(i - 1) = k
  BY <1>5 DEF Filling, e, f
<1> HIDE DEF k, m
<1>7. \A j \in 1..k : f.handlers[j] = e.handlers[j]
  BY <1>4, <1>5
<1>8. \A j \in 1..m : f.handlers[k + j] = d[j]
  <2> TAKE j \in 1..m
  <2>1. k + j \in 1..k + m /\ ~(k + j <= k) /\ (k + j) - k = j
    BY <1>4
  <2> QED
    BY <1>5, <2>1
<1>9. /\ Filling(i) \in Nat /\ Filling(i - 1) \in Nat /\ Filling(i - 1) <= Filling(i)
  BY <1>4, <1>6
<1> QED
  BY <1>2, <1>3, <1>6, <1>7, <1>8, <1>9 DEF e, f, m

\* What is in the array stays there.
LEMMA EngineKeeps ==
    ASSUME NEW i \in 0..10, NEW k \in 0..10, i <= k
    PROVE  /\ Filling(i) \in Nat /\ Filling(k) \in Nat /\ Filling(i) <= Filling(k)
           /\ \A j \in 1..Filling(i) : Engine[k].handlers[j] = Engine[i].handlers[j]
<1> DEFINE Q(m) == /\ Filling(m) \in Nat /\ Filling(i) <= Filling(m)
                   /\ \A j \in 1..Filling(i) : Engine[m].handlers[j] = Engine[i].handlers[j]
           P == {n \in Nat : i + n <= 10 => Q(i + n)}
<1>1. Filling(i) \in Nat
  <2>1. Engine[i].handlers \in Seq(Entries)
    BY EngineSteps DEF Engines
  <2> QED
    BY <2>1 DEF Filling
<1>2. 0 \in P
  BY <1>1
<1>3. ASSUME NEW n \in Nat, n \in P PROVE n + 1 \in P
  <2> SUFFICES ASSUME i + (n + 1) <= 10 PROVE Q(i + (n + 1))
    OBVIOUS
  <2> DEFINE m == i + (n + 1)
  <2>1. m \in 1..10 /\ m - 1 = i + n /\ i + n <= 10
    OBVIOUS
  <2>2. Q(m - 1)
    BY <1>3, <2>1
  <2> HIDE DEF m
  <2>3. /\ Filling(m) \in Nat /\ Filling(m - 1) \in Nat /\ Filling(m - 1) <= Filling(m)
        /\ \A j \in 1..Filling(m - 1) : Engine[m].handlers[j] = Engine[m - 1].handlers[j]
    BY <2>1, EngineAppends
  <2>4. \A j \in 1..Filling(i) : j \in 1..Filling(m - 1)
    BY <1>1, <2>2, <2>3
  <2>5. Q(m)
    BY <1>1, <2>2, <2>3, <2>4
  <2> QED
    BY <2>5 DEF m
<1> HIDE DEF P
<1>4. Nat \subseteq P
  BY <1>2, <1>3, SetInduction
<1>5. k - i \in P /\ i + (k - i) = k /\ k <= 10
  BY <1>4
<1>6. Q(k)
  <2> HIDE DEF Q
  <2> QED
    BY <1>5 DEF P
<1> QED
  BY <1>1, <1>6

\* Where the content entries start.
Base == Filling(9)

\* The array as run_phases finds it: the content entries are the last ones,
\* in the reverse of their registration, and before them nothing of a module
\* other than what declines.
LEMMA ArrayShape ==
    LET H == phase_engine.handlers
        C == Registered["CONTENT"]
    IN  /\ H \in Seq(Entries) /\ Base \in Nat /\ C \in Seq(STRING) /\ Len(C) \in Nat \ {0}
        /\ Len(H) = Base + Len(C)
        /\ \A j \in 1..Len(C) : /\ H[Base + j].checker = "content"
                                /\ H[Base + j].handler = C[Len(C) + 1 - j]
        /\ \A j \in 1..Base : H[j].checker # "content" /\ H[j].handler # "autoindex"
        /\ phase_engine.server_rewrite = Filling(1) /\ Filling(1) \in 0..Base
<1> DEFINE H == phase_engine.handlers
           C == Registered["CONTENT"]
<1>1. H \in Seq(Entries) /\ Len(H) = Filling(10) /\ H = Engine[10].handlers
  BY EngineSteps DEF phase_engine, Engines, Filling
<1>2. C \in Seq(STRING) /\ Len(C) \in Nat \ {0}
  <2>1. Registered[Phases[10]] \in Seq(STRING)
    BY PhasesAssumption
  <2>2. C \in Seq(STRING) /\ C # <<>>
    BY <2>1, PhaseNames, PhasesAssumption
  <2> QED
    BY <2>2
<1>3. Base \in Nat /\ Filling(1) \in 0..Base
  <2>1. Filling(1) \in Nat /\ Filling(9) \in Nat /\ Filling(1) <= Filling(9)
    BY EngineKeeps
  <2> QED
    BY <2>1 DEF Base
<1>4. /\ Len(H) = Base + Len(C)
      /\ \A j \in 1..Len(C) : /\ H[Base + j].checker = "content"
                              /\ H[Base + j].handler = C[Len(C) + 1 - j]
  <2> DEFINE i == 10
  <2>1. i \in 1..10 /\ i - 1 = 9
    OBVIOUS
  <2>2. \E d \in Seq(Entries) :
           /\ Fresh(i, d) /\ Filling(i) = Filling(i - 1) + Len(d)
           /\ \A j \in 1..Len(d) : Engine[i].handlers[Filling(i - 1) + j] = d[j]
    <3> HIDE DEF i
    <3> QED
      BY <2>1, EngineAppends
  <2>3. PICK d \in Seq(Entries) :
           /\ Fresh(10, d) /\ Filling(10) = Base + Len(d)
           /\ \A j \in 1..Len(d) : Engine[10].handlers[Base + j] = d[j]
    BY <2>2 DEF Base
  <2>4. /\ Len(d) = Len(C)
        /\ \A j \in 1..Len(d) : d[j].checker = "content" /\ d[j].handler = C[Len(d) + 1 - j]
    BY <2>3 DEF Fresh
  <2> HIDE DEF H, C
  <2> QED
    BY <1>1, <2>3, <2>4
<1> DEFINE Plain(i) == \A j \in 1..Filling(i) : /\ Engine[i].handlers[j].checker # "content"
                                               /\ Engine[i].handlers[j].handler # "autoindex"
           P == {i \in Nat : i <= 9 => Plain(i)}
<1>5. Nat \subseteq P
  <2>1. 0 \in P
    <3>1. Filling(0) = 0
      BY EngineSteps DEF Filling
    <3> QED
      BY <3>1
  <2>2. ASSUME NEW n \in Nat, n \in P PROVE n + 1 \in P
    <3> SUFFICES ASSUME n + 1 <= 9 PROVE Plain(n + 1)
      OBVIOUS
    <3> DEFINE i == n + 1
    <3>1. i \in 1..10 /\ i - 1 = n /\ n <= 9 /\ i # 10
      OBVIOUS
    <3>2. Plain(i - 1)
      BY <2>2, <3>1
    <3> HIDE DEF i
    <3>3. /\ Filling(i) \in Nat /\ Filling(i - 1) \in Nat
          /\ \A j \in 1..Filling(i - 1) : Engine[i].handlers[j] = Engine[i - 1].handlers[j]
      BY <3>1, EngineAppends
    <3>4. PICK d \in Seq(Entries) :
             /\ Fresh(i, d) /\ Filling(i) = Filling(i - 1) + Len(d)
             /\ \A j \in 1..Len(d) : Engine[i].handlers[Filling(i - 1) + j] = d[j]
      BY <3>1, EngineAppends
    <3>5. \A j \in 1..Len(d) : d[j].checker # "content" /\ d[j].handler # "autoindex"
      BY <3>1, <3>4 DEF Fresh
    <3>6. ASSUME NEW j \in 1..Filling(i)
          PROVE  /\ Engine[i].handlers[j].checker # "content"
                 /\ Engine[i].handlers[j].handler # "autoindex"
      <4>1. CASE j \in 1..Filling(i - 1)
        BY <3>2, <3>3, <4>1
      <4>2. CASE j \notin 1..Filling(i - 1)
        <5>1. j - Filling(i - 1) \in 1..Len(d) /\ Filling(i - 1) + (j - Filling(i - 1)) = j
          BY <3>3, <3>4, <4>2
        <5>2. Engine[i].handlers[j] = d[j - Filling(i - 1)]
          BY <3>4, <5>1
        <5> QED
          BY <3>5, <5>1, <5>2
      <4> QED
        BY <4>1, <4>2
    <3>7. Plain(i)
      BY <3>6
    <3> QED
      BY <3>7 DEF i
  <2> HIDE DEF P
  <2> QED
    BY <2>1, <2>2, SetInduction
<1>6. \A j \in 1..Base : H[j].checker # "content" /\ H[j].handler # "autoindex"
  <2>1. Plain(9)
    BY <1>5
  <2>2. \A j \in 1..Filling(9) : Engine[10].handlers[j] = Engine[9].handlers[j]
    BY EngineKeeps
  <2> QED
    BY <1>1, <2>1, <2>2 DEF Base
<1>7. phase_engine.server_rewrite = Filling(1)
  <2>1. \A i \in 1..10 : Engine[i].server_rewrite
           = IF i = 2 THEN Engine[i - 1].n ELSE Engine[i - 1].server_rewrite
    BY EngineAppends
  <2>2. /\ Engine[2].server_rewrite = Engine[1].n
        /\ Engine[3].server_rewrite = Engine[2].server_rewrite
        /\ Engine[4].server_rewrite = Engine[3].server_rewrite
        /\ Engine[5].server_rewrite = Engine[4].server_rewrite
        /\ Engine[6].server_rewrite = Engine[5].server_rewrite
        /\ Engine[7].server_rewrite = Engine[6].server_rewrite
        /\ Engine[8].server_rewrite = Engine[7].server_rewrite
        /\ Engine[9].server_rewrite = Engine[8].server_rewrite
        /\ Engine[10].server_rewrite = Engine[9].server_rewrite
    BY <2>1
  <2>3. Engine[1].n = Filling(1)
    <3> DEFINE i == 1
    <3>1. i \in 1..10 /\ i - 1 = 0
      OBVIOUS
    <3>2. \E d \in Seq(Entries) :
             Filling(i) = Filling(i - 1) + Len(d) /\ (i = 1 => Engine[i].n = Engine[i - 1].n + Len(d))
      <4> HIDE DEF i
      <4> QED
        BY <3>1, EngineAppends
    <3>3. PICK d \in Seq(Entries) : Filling(1) = Filling(0) + Len(d) /\ Engine[1].n = Engine[0].n + Len(d)
      BY <3>2
    <3>4. Filling(0) = 0 /\ Engine[0].n = 0
      BY EngineSteps DEF Filling
    <3> QED
      BY <3>3, <3>4
  <2> QED
    BY <2>2, <2>3 DEF phase_engine
<1> QED
  BY <1>1, <1>2, <1>3, <1>4, <1>6, <1>7

\* Between the entry where a redirected request starts and the content entries
\* are the lookup of the location, the post access entry and every handler of
\* the phases between.
LEMMA ArrayCovers ==
    LET H == phase_engine.handlers
        S == Filling(1) + 1 .. Base
    IN  /\ \E j \in S : H[j].checker = "find_config"
        /\ \E j \in S : H[j].checker = "post_access"
        /\ \A p \in {"SERVER_REWRITE", "REWRITE", "PREACCESS", "ACCESS", "PRECONTENT"} :
              \A k \in 1..Len(Registered[p]) : \E j \in S : H[j].handler = Registered[p][k]
<1> DEFINE H == phase_engine.handlers
           S == Filling(1) + 1 .. Base
<1>1. ASSUME NEW i \in 2..9
      PROVE  \E d \in Seq(Entries) : /\ Fresh(i, d)
                                     /\ \A j \in 1..Len(d) : \E m \in S : H[m] = d[j]
  <2>1. /\ i \in 1..10 /\ i \in 0..10 /\ i - 1 \in 0..10 /\ 1 <= i - 1 /\ i <= 9 /\ i <= 10
        /\ 1 \in 0..10 /\ 9 \in 0..10 /\ 10 \in 0..10
    OBVIOUS
  <2>2. PICK d \in Seq(Entries) :
           /\ Fresh(i, d) /\ Filling(i) = Filling(i - 1) + Len(d)
           /\ \A j \in 1..Len(d) : Engine[i].handlers[Filling(i - 1) + j] = d[j]
    BY <2>1, EngineAppends
  <2>3. Filling(1) \in Nat /\ Filling(i - 1) \in Nat /\ Filling(1) <= Filling(i - 1)
    BY <2>1, EngineKeeps
  <2>4. Filling(i) \in Nat /\ Filling(9) \in Nat /\ Filling(i) <= Filling(9)
    BY <2>1, EngineKeeps
  <2>5. \A j \in 1..Filling(i) : Engine[10].handlers[j] = Engine[i].handlers[j]
    BY <2>1, EngineKeeps
  <2>6. ASSUME NEW j \in 1..Len(d) PROVE \E m \in S : H[m] = d[j]
    <3> DEFINE m == Filling(i - 1) + j
    <3>1. Len(d) \in Nat
      OBVIOUS
    <3>2. m \in S /\ m \in 1..Filling(i)
      BY <2>2, <2>3, <2>4, <3>1 DEF Base
    <3>3. H[m] = Engine[i].handlers[m]
      BY <2>5, <3>2 DEF phase_engine
    <3>4. H[m] = d[j]
      BY <2>2, <3>3
    <3> HIDE DEF m, H
    <3> QED
      BY <3>2, <3>4
  <2> HIDE DEF H, S
  <2> QED
    BY <2>2, <2>6
<1> HIDE DEF H, S
<1>2. \E j \in S : H[j].checker = "find_config"
  <2>1. PICK d \in Seq(Entries) : /\ Fresh(3, d)
                                  /\ \A j \in 1..Len(d) : \E m \in S : H[m] = d[j]
    BY <1>1
  <2>2. PICK j \in 1..Len(d) : d[j].checker = "find_config"
    BY <2>1 DEF Fresh
  <2>3. PICK m \in S : H[m] = d[j]
    BY <2>1, <2>2
  <2> QED
    BY <2>2, <2>3
<1>3. \E j \in S : H[j].checker = "post_access"
  <2>1. PICK d \in Seq(Entries) : /\ Fresh(8, d)
                                  /\ \A j \in 1..Len(d) : \E m \in S : H[m] = d[j]
    BY <1>1
  <2>2. PICK j \in 1..Len(d) : d[j].checker = "post_access"
    BY <2>1 DEF Fresh
  <2>3. PICK m \in S : H[m] = d[j]
    BY <2>1, <2>2
  <2> QED
    BY <2>2, <2>3
<1>4. ASSUME NEW p \in {"SERVER_REWRITE", "REWRITE", "PREACCESS", "ACCESS", "PRECONTENT"},
             NEW k \in 1..Len(Registered[p])
      PROVE  \E j \in S : H[j].handler = Registered[p][k]
  <2>1. PICK i \in {2, 4, 6, 7, 9} : Phases[i] = p
    BY PhaseNames
  <2>2. i \in 2..9 /\ i \in Takers
    BY DEF Takers
  <2>3. PICK d \in Seq(Entries) : /\ Fresh(i, d)
                                  /\ \A j \in 1..Len(d) : \E m \in S : H[m] = d[j]
    BY <1>1, <2>2
  <2>4. PICK j \in 1..Len(d) : d[j].handler = Registered[p][k]
    BY <2>1, <2>2, <2>3 DEF Fresh
  <2>5. PICK m \in S : H[m] = d[j]
    BY <2>3, <2>4
  <2> QED
    BY <2>4, <2>5
<1> QED
  BY <1>2, <1>3, <1>4 DEF H, S

-----------------------------------------------------------------------------
(* Every run of the phases ends by finalizing: the second invariant        *)

H == phase_engine.handlers
N == Len(H)

\* The autoindex entry.
Listing == CHOOSE j \in Base + 1 .. N : H[j].handler = "autoindex"

\* A request that n references hold.
Whole(q, n) == /\ DOMAIN q = Fields /\ q.count = n /\ q.dir \in BOOLEAN
               /\ q.keepalive \in BOOLEAN /\ q.freed = FALSE

\* Where a run is: at an entry of the array, behind autoindex only with a uri
\* that is no directory, and the entries since its start have been seen.
OnWay == /\ r.phase_handler \in 0 .. N - 1
         /\ r.phase_handler >= Listing => ~r.dir
         /\ \A j \in Filling(1) + 1 .. r.phase_handler :
               H[j].handler \in ran /\ H[j].checker \in ran

\* The outermost run has finalized the request.
Decided == r.count = 1 /\ (~stopping => ~r.keepalive) /\ (r.freed <=> conn # "busy")

RunsInv ==
    /\ stopping \in BOOLEAN /\ calls \in Nat /\ pc \in {"idle", "run", "return", "done", "lost"}
    /\ pc = "lost" => r.count = calls + 1
    /\ pc = "idle" => r.count = 0 /\ calls = 0 /\ conn = "busy"
    /\ pc = "run" => Whole(r, calls + 1) /\ conn = "busy" /\ OnWay
    /\ pc = "return" /\ calls > 0 => Whole(r, calls) /\ conn = "busy"
    /\ pc = "return" /\ calls = 0 => Decided
    /\ pc = "done" => calls = 0 /\ Decided

\* autoindex is among the content entries and static is the last.
LEMMA AutoPlace ==
    /\ N \in Nat /\ Base \in Nat /\ Base < N /\ H \in Seq(Entries)
    /\ Listing \in Base + 1 .. N - 1 /\ H[Listing].handler = "autoindex"
    /\ H[N].handler = "static"
    /\ \A j \in 1..Base : H[j].checker # "content" /\ H[j].handler # "autoindex"
    /\ \A j \in Base + 1 .. N : H[j].checker = "content"
    /\ phase_engine.server_rewrite = Filling(1) /\ Filling(1) \in 0..Base
<1> DEFINE C == Registered["CONTENT"]
           k == Len(C)
<1>1. /\ H \in Seq(Entries) /\ Base \in Nat /\ k \in Nat \ {0} /\ N = Base + k
      /\ \A j \in 1..k : H[Base + j].checker = "content" /\ H[Base + j].handler = C[k + 1 - j]
      /\ \A j \in 1..Base : H[j].checker # "content" /\ H[j].handler # "autoindex"
      /\ phase_engine.server_rewrite = Filling(1) /\ Filling(1) \in 0..Base
  BY ArrayShape DEF H, N
<1>2. PICK i \in 1..k : C[i] = "autoindex"
  BY BuildAssumption
<1>3. C[1] = "static"
  BY BuildAssumption
<1> HIDE DEF C, k
<1>4. /\ k + 1 - i \in 1..k /\ k + 1 - (k + 1 - i) = i /\ Base + (k + 1 - i) \in Base + 1 .. N
      /\ k \in 1..k /\ k + 1 - k = 1
  BY <1>1
<1>5. H[Base + (k + 1 - i)].handler = "autoindex" /\ H[N].handler = "static"
  BY <1>1, <1>2, <1>3, <1>4
<1>6. Listing \in Base + 1 .. N /\ H[Listing].handler = "autoindex"
  BY <1>4, <1>5, Zenon DEF Listing
<1>7. Listing # N
  BY <1>5, <1>6
<1>8. \A j \in Base + 1 .. N : H[j].checker = "content"
  <2> TAKE j \in Base + 1 .. N
  <2>1. j - Base \in 1..k /\ Base + (j - Base) = j
    BY <1>1
  <2> QED
    BY <1>1, <2>1
<1>9. Listing \in Base + 1 .. N - 1 /\ N \in Nat /\ Base < N
  BY <1>1, <1>6, <1>7
<1> QED
  BY <1>1, <1>5, <1>6, <1>8, <1>9

\* Finalizing gives one of several references back; the last one decides.
LEMMA FinalizeCounts ==
    ASSUME NEW q, NEW n \in Nat, Whole(q, n + 1), conn = "busy", NEW f \in finalize_request(q)
    PROVE  /\ n > 0 => Whole(f.r, n) /\ f.conn = "busy"
           /\ n = 0 => /\ f.r.count = 1 /\ (~stopping => ~f.r.keepalive)
                       /\ f.r.freed <=> f.conn # "busy"
<1>1. CASE n > 0
  <2>1. q.count # 1 /\ q.count - 1 = n
    BY <1>1 DEF Whole
  <2>2. f = [r |-> [q EXCEPT !.count = @ - 1], conn |-> conn]
    BY <2>1 DEF finalize_request, close_request
  <2>3. f.r = [q EXCEPT !.count = n] /\ f.conn = "busy"
    BY <2>1, <2>2
  <2>4. Whole([q EXCEPT !.count = n], n)
    BY DEF Whole, Fields
  <2> QED
    BY <1>1, <2>3, <2>4
<1>2. CASE n = 0
  <2>1. q.count = 1
    BY <1>2 DEF Whole
  <2>2. CASE ~stopping /\ q.keepalive
    <3>1. f \in set_keepalive(q)
      BY <2>1, <2>2 DEF finalize_request
    <3>2. PICK c \in {"keepalive", "closed"} :
             f = [r |-> [q EXCEPT !.keepalive = FALSE, !.freed = TRUE], conn |-> c]
      BY <3>1 DEF set_keepalive
    <3> DEFINE t == [q EXCEPT !.keepalive = FALSE, !.freed = TRUE]
    <3>3. t.count = 1 /\ t.keepalive = FALSE /\ t.freed = TRUE
      BY <2>1 DEF Whole, Fields
    <3> HIDE DEF t
    <3>4. f.r = t /\ f.conn = c
      BY <3>2 DEF t
    <3> QED
      BY <1>2, <3>2, <3>3, <3>4
  <2>3. CASE ~(~stopping /\ q.keepalive)
    <3>1. f = [r |-> q, conn |-> conn]
      BY <2>1, <2>3 DEF finalize_request
    <3>2. f.r = q /\ f.conn = "busy"
      BY <3>1
    <3> QED
      BY <1>2, <2>1, <2>3, <3>2 DEF Whole
  <2> QED
    BY <2>2, <2>3
<1> QED
  BY <1>1, <1>2

\* A run that finalizes returns in order.
LEMMA FinalizeEnds ==
    ASSUME RunsInv, pc = "run", NEW q, Whole(q, calls + 1), Finalize(q)
    PROVE  RunsInv'
<1>1. PICK f \in finalize_request(q) : r' = f.r /\ conn' = f.conn
  BY DEF Finalize
<1>2. pc' = "return" /\ calls' = calls /\ stopping' = stopping
  BY DEF Finalize
<1>3. calls \in Nat /\ conn = "busy" /\ stopping \in BOOLEAN
  BY DEF RunsInv
<1>4. /\ calls > 0 => Whole(r', calls) /\ conn' = "busy"
      /\ calls = 0 => r'.count = 1 /\ (~stopping => ~r'.keepalive) /\ (r'.freed <=> conn' # "busy")
  BY <1>1, <1>3, FinalizeCounts
<1>5. calls = 0 => Decided'
  BY <1>2, <1>4 DEF Decided
<1>6. calls > 0 => Whole(r, calls)' /\ conn' = "busy"
  BY <1>2, <1>4 DEF Whole
<1> QED
  BY <1>2, <1>3, <1>5, <1>6 DEF RunsInv

\* A checker that declines moves the run on by one entry.
LEMMA GotoAdvances ==
    ASSUME RunsInv, pc = "run", Goto(r.phase_handler + 1),
           r.phase_handler + 1 \in 0 .. N - 1, r.phase_handler + 1 >= Listing => ~r.dir
    PROVE  RunsInv'
<1> DEFINE x == r.phase_handler
<1>1. /\ r' = [r EXCEPT !.phase_handler = x + 1] /\ UNCHANGED <<calls, pc, conn, stopping>>
      /\ ran' = ran \cup {ph(x).handler, ph(x).checker}
  BY DEF Goto
<1>2. Whole(r, calls + 1) /\ conn = "busy" /\ OnWay /\ calls \in Nat /\ stopping \in BOOLEAN
  BY DEF RunsInv
<1>3. /\ Whole(r', calls + 1) /\ r'.phase_handler = x + 1 /\ r'.dir = r.dir
  BY <1>1, <1>2 DEF Whole, Fields
<1>4. x \in 0 .. N - 1 /\ N \in Nat /\ Filling(1) \in Nat
  BY <1>2, AutoPlace DEF OnWay
<1>5. ASSUME NEW j \in Filling(1) + 1 .. x + 1
      PROVE  H[j].handler \in ran' /\ H[j].checker \in ran'
  <2>1. CASE j \in Filling(1) + 1 .. x
    <3>1. H[j].handler \in ran /\ H[j].checker \in ran
      BY <1>2, <2>1 DEF OnWay
    <3> QED
      BY <1>1, <3>1
  <2>2. CASE j = x + 1
    <3>1. ph(x) = H[j]
      BY <2>2 DEF ph, H
    <3> QED
      BY <1>1, <3>1
  <2> QED
    BY <1>4, <2>1, <2>2
<1> HIDE DEF x
<1>6. OnWay'
  <2>1. r'.phase_handler \in 0 .. N - 1 /\ (r'.phase_handler >= Listing => ~r'.dir)
    BY <1>3 DEF x
  <2>2. \A j \in Filling(1) + 1 .. r'.phase_handler : H[j].handler \in ran' /\ H[j].checker \in ran'
    BY <1>3, <1>5
  <2> QED
    BY <2>1, <2>2 DEF OnWay
<1>7. Whole(r, calls + 1)'
  BY <1>1, <1>3 DEF Whole
<1>8. pc' = "run" /\ conn' = "busy" /\ calls' = calls /\ stopping' = stopping
  BY <1>1, <1>2
<1> QED
  BY <1>2, <1>6, <1>7, <1>8 DEF RunsInv

\* Before the content entries every handler declines, so the checker there
\* moves on to the next entry.
LEMMA BeforeContent ==
    ASSUME RunsInv, NEW c, c # "content", At(c)
    PROVE  /\ pc = "run" /\ Result(ph(r.phase_handler).handler) = "DECLINED"
           /\ Goto(r.phase_handler + 1) => RunsInv'
<1>1. pc = "run" /\ ph(r.phase_handler).checker = c
  BY DEF At
<1>2. OnWay
  BY <1>1 DEF RunsInv
<1> DEFINE x == r.phase_handler
<1>3. x \in 0 .. N - 1
  BY <1>2 DEF OnWay
<1>4. ph(x) = H[x + 1]
  BY DEF ph, H
<1> HIDE DEF x
<1>5. x + 1 \in 1..Base
  <2> SUFFICES ASSUME x + 1 \notin 1..Base PROVE FALSE
    OBVIOUS
  <2>1. x + 1 \in Base + 1 .. N
    BY <1>3, AutoPlace
  <2>2. H[x + 1].checker = "content"
    BY <2>1, AutoPlace
  <2> QED
    BY <1>1, <1>4, <2>2 DEF x
<1>6. ph(x).handler # "autoindex"
  BY <1>4, <1>5, AutoPlace
<1>7. x + 1 \in 0 .. N - 1 /\ ~(x + 1 >= Listing)
  BY <1>5, AutoPlace
<1>8. Result(ph(x).handler) = "DECLINED"
  BY <1>6 DEF Result
<1>9. Goto(x + 1) => RunsInv'
  BY <1>1, <1>7, GotoAdvances DEF x
<1> QED
  BY <1>1, <1>8, <1>9 DEF x

\* A content handler that declines is not the last one, and autoindex only
\* declines what is no directory.
LEMMA ContentGoesOn ==
    ASSUME RunsInv, At("content"), ContentDeclined,
           \/ ph(r.phase_handler).handler # "static"
           \/ r.dir,
           ph(r.phase_handler).handler = "autoindex" => ~r.dir
    PROVE  RunsInv'
<1> DEFINE x == r.phase_handler
<1>1. pc = "run" /\ ph(x) = H[x + 1]
  BY DEF At, ph, H
<1>2. OnWay /\ x \in 0 .. N - 1 /\ (x >= Listing => ~r.dir)
  BY <1>1 DEF RunsInv, OnWay
<1>3. /\ N \in Nat /\ Listing \in Base + 1 .. N - 1 /\ H[Listing].handler = "autoindex"
      /\ H[N].handler = "static" /\ Base \in Nat
  BY AutoPlace
<1> HIDE DEF x
<1>4. x # N - 1
  <2> SUFFICES ASSUME x = N - 1 PROVE FALSE
    OBVIOUS
  <2>1. x + 1 = N /\ x >= Listing
    BY <1>2, <1>3
  <2>2. ph(x).handler = "static" /\ ~r.dir
    BY <1>1, <1>2, <1>3, <2>1
  <2> QED
    BY <2>2 DEF x
<1>5. x + 1 \in 0 .. N - 1 /\ ~PastEnd(x + 1)
  BY <1>2, <1>3, <1>4 DEF PastEnd, N, H
<1>6. Goto(x + 1)
  BY <1>5 DEF ContentDeclined, x
<1>7. x + 1 >= Listing => ~r.dir
  <2>1. CASE x >= Listing
    BY <1>2, <2>1
  <2>2. CASE x + 1 = Listing
    <3>1. ph(x).handler = "autoindex"
      BY <1>1, <1>3, <2>2
    <3> QED
      BY <3>1 DEF x
  <2> QED
    BY <1>2, <1>3, <2>1, <2>2
<1> QED
  BY <1>1, <1>5, <1>6, <1>7, GotoAdvances DEF x

\* A request enters the phases.
LEMMA ProcessRequestEnters ==
    ASSUME RunsInv, NEW method \in Methods, NEW keepalive \in BOOLEAN,
           ProcessRequest(method, keepalive)
    PROVE  RunsInv'
<1>1. pc' = "run" /\ UNCHANGED <<calls, conn, stopping, ran>> /\ calls = 0 /\ conn = "busy"
      /\ stopping \in BOOLEAN
  BY DEF ProcessRequest, RunsInv
<1> DEFINE q == [NoRequest EXCEPT !.method = method, !.dir = TRUE, !.keepalive = keepalive,
                                  !.count = 1, !.uri_changes = MaxUriChanges + 1]
<1>2. r' = [q EXCEPT !.phase_handler = IF q.internal THEN phase_engine.server_rewrite ELSE 0]
  BY DEF ProcessRequest, handler
<1>3. /\ DOMAIN q = Fields /\ q.count = 1 /\ q.dir = TRUE /\ q.keepalive = keepalive
      /\ q.freed = FALSE /\ q.internal = FALSE
  BY DEF NoRequest, Fields
<1> HIDE DEF q
<1>4. r' = [q EXCEPT !.phase_handler = 0]
  BY <1>2, <1>3
<1>5. Whole(r', 1) /\ r'.phase_handler = 0
  BY <1>3, <1>4 DEF Whole, Fields
<1>6. OnWay'
  <2>1. 0 \in 0 .. N - 1 /\ ~(0 >= Listing) /\ \A j \in Filling(1) + 1 .. 0 : FALSE
    BY AutoPlace
  <2> QED
    BY <1>5, <2>1 DEF OnWay
<1>7. Whole(r, calls + 1)'
  BY <1>1, <1>5 DEF Whole
<1> QED
  BY <1>1, <1>6, <1>7 DEF RunsInv

\* An internal redirect starts a run of its own.
LEMMA RedirectEnters ==
    ASSUME RunsInv, NEW i \in 1..Len(Indices), IndexRedirect(i)
    PROVE  RunsInv'
<1>1. /\ pc = "run" /\ pc' = "run" /\ calls' = calls + 1 /\ ran' = {}
      /\ conn' = conn /\ stopping' = stopping
  BY DEF IndexRedirect, At
<1>2. Whole(r, calls + 1) /\ conn = "busy" /\ calls \in Nat /\ stopping \in BOOLEAN
  BY <1>1 DEF RunsInv
<1> DEFINE q == internal_redirect(Indices[i])
<1>3. r' = [q EXCEPT !.phase_handler = IF q.internal THEN phase_engine.server_rewrite ELSE 0]
  BY DEF IndexRedirect, handler
<1>4. Indices[i] \in BOOLEAN
  <2>1. Indices \in Seq(BOOLEAN)
    BY PhasesAssumption
  <2>2. Indices \in [1..Len(Indices) -> BOOLEAN]
    BY <2>1, LenProperties
  <2> QED
    BY <2>2
<1>5. /\ DOMAIN q = Fields /\ q.count = r.count + 1 /\ q.dir = Indices[i]
      /\ q.keepalive = r.keepalive /\ q.freed = r.freed /\ q.internal = TRUE
  BY <1>2 DEF internal_redirect, Whole, Fields
<1> HIDE DEF q
<1>6. r' = [q EXCEPT !.phase_handler = Filling(1)]
  BY <1>3, <1>5, AutoPlace
<1>7. Whole(r', calls + 2) /\ r'.phase_handler = Filling(1)
  <2>1. q.count = calls + 2
    BY <1>2, <1>5 DEF Whole
  <2>2. q.keepalive \in BOOLEAN /\ q.freed = FALSE
    BY <1>2, <1>5 DEF Whole
  <2>3. q.dir \in BOOLEAN
    BY <1>4, <1>5
  <2> QED
    BY <1>5, <1>6, <2>1, <2>2, <2>3 DEF Whole, Fields
<1>8. OnWay'
  <2>1. Filling(1) \in 0 .. N - 1 /\ ~(Filling(1) >= Listing)
        /\ \A j \in Filling(1) + 1 .. Filling(1) : FALSE
    BY AutoPlace
  <2> QED
    BY <1>7, <2>1 DEF OnWay
<1>9. Whole(r, calls + 1)'
  <2>1. calls' + 1 = calls + 2
    BY <1>1, <1>2
  <2> QED
    BY <1>7, <2>1 DEF Whole
<1>10. calls' \in Nat
  BY <1>1, <1>2
<1> QED
  BY <1>1, <1>2, <1>8, <1>9, <1>10 DEF RunsInv

\* One redirect too many is finalized twice, for itself and for the run.
LEMMA RedirectRefused ==
    ASSUME RunsInv, NEW i \in 1..Len(Indices), IndexRedirectLimit(i)
    PROVE  RunsInv'
<1>1. pc = "run" /\ pc' = "return" /\ calls' = calls /\ stopping' = stopping
  BY DEF IndexRedirectLimit, At
<1>2. Whole(r, calls + 1) /\ conn = "busy" /\ calls \in Nat /\ stopping \in BOOLEAN
  BY <1>1 DEF RunsInv
<1> DEFINE q == [r EXCEPT !.uri_changes = 0, !.count = @ + 1]
<1>3. PICK f \in finalize_request(q) : \E g \in finalize_request(f.r) : r' = g.r /\ conn' = g.conn
  BY DEF IndexRedirectLimit
<1>4. PICK g \in finalize_request(f.r) : r' = g.r /\ conn' = g.conn
  BY <1>3
<1> DEFINE n == calls + 1
<1>5. n \in Nat /\ n > 0 /\ Whole(q, n + 1)
  <2>1. (calls + 1) + 1 = r.count + 1 /\ n \in Nat /\ n > 0
    BY <1>2 DEF Whole
  <2>2. /\ DOMAIN q = Fields /\ q.count = r.count + 1 /\ q.dir = r.dir
        /\ q.keepalive = r.keepalive /\ q.freed = r.freed
    BY <1>2 DEF Whole, Fields
  <2> QED
    BY <1>2, <2>1, <2>2 DEF Whole
<1> HIDE DEF q, n
<1>6. Whole(f.r, n)
  BY <1>2, <1>3, <1>5, FinalizeCounts
<1>7. Whole(f.r, calls + 1)
  BY <1>6 DEF n
<1>8. /\ calls > 0 => Whole(r', calls) /\ conn' = "busy"
      /\ calls = 0 => r'.count = 1 /\ (~stopping => ~r'.keepalive) /\ (r'.freed <=> conn' # "busy")
  BY <1>2, <1>4, <1>7, FinalizeCounts
<1>9. calls = 0 => Decided'
  BY <1>1, <1>8 DEF Decided
<1>10. calls > 0 => Whole(r, calls)' /\ conn' = "busy"
  BY <1>1, <1>8 DEF Whole
<1> QED
  BY <1>1, <1>2, <1>9, <1>10 DEF RunsInv

\* A nested run returns to the content phase it is nested in.
LEMMA RunReturns ==
    ASSUME RunsInv, RedirectReturns
    PROVE  RunsInv'
<1>1. pc = "return" /\ pc' = "return" /\ calls > 0 /\ calls' = calls - 1 /\ stopping' = stopping
  BY DEF RedirectReturns
<1>2. Whole(r, calls) /\ conn = "busy" /\ calls \in Nat /\ stopping \in BOOLEAN
  BY <1>1 DEF RunsInv
<1>3. PICK f \in finalize_request(r) : r' = f.r /\ conn' = f.conn
  BY DEF RedirectReturns
<1> DEFINE n == calls - 1
<1>4. n \in Nat /\ n + 1 = calls /\ calls' = n
  BY <1>1, <1>2
<1> HIDE DEF n
<1>5. Whole(r, n + 1)
  BY <1>2, <1>4
<1>6. /\ n > 0 => Whole(r', n) /\ conn' = "busy"
      /\ n = 0 => r'.count = 1 /\ (~stopping => ~r'.keepalive) /\ (r'.freed <=> conn' # "busy")
  BY <1>2, <1>3, <1>4, <1>5, FinalizeCounts
<1>7. n = 0 => Decided'
  BY <1>1, <1>6 DEF Decided
<1>8. n > 0 => Whole(r, calls)' /\ conn' = "busy"
  BY <1>4, <1>6 DEF Whole
<1> QED
  BY <1>1, <1>2, <1>4, <1>7, <1>8 DEF RunsInv

\* The handlers of the content phase.
LEMMA ContentSteps ==
    ASSUME RunsInv, ContentPhase \/ StaticHandler
    PROVE  RunsInv'
<1> DEFINE h == ph(r.phase_handler).handler
<1>1. pc = "run" /\ At("content")
  BY DEF ContentPhase, StaticHandler, At
<1>2. Whole(r, calls + 1)
  BY <1>1 DEF RunsInv
<1>3. CASE ContentPhase
  <2>1. h # "static"
    BY <1>3 DEF ContentPhase
  <2>2. CASE h = "index"
    <3>1. ContentDeclined /\ h # "autoindex"
      BY <1>3, <2>2 DEF ContentPhase
    <3> QED
      BY <1>1, <2>1, <3>1, ContentGoesOn
  <2>3. CASE h # "index" /\ Result(h) = "DECLINED"
    <3>1. ContentDeclined
      BY <1>3, <2>3 DEF ContentPhase
    <3>2. h = "autoindex" => ~r.dir
      BY <2>3 DEF Result
    <3> QED
      BY <1>1, <2>1, <3>1, <3>2, ContentGoesOn
  <2>4. CASE h # "index" /\ Result(h) # "DECLINED"
    <3>1. Finalize(r)
      BY <1>3, <2>4 DEF ContentPhase
    <3> QED
      BY <1>1, <1>2, <3>1, FinalizeEnds
  <2> QED
    BY <2>2, <2>3, <2>4
<1>4. CASE StaticHandler
  <2>1. h = "static"
    BY <1>4 DEF StaticHandler
  <2>2. CASE r.dir /\ r.method # "OTHER"
    <3>1. ContentDeclined /\ h # "autoindex"
      BY <1>4, <2>1, <2>2 DEF StaticHandler
    <3> QED
      BY <1>1, <2>2, <3>1, ContentGoesOn
  <2>3. CASE ~(r.dir /\ r.method # "OTHER")
    <3>1. PICK sent \in {FALSE, TRUE} :
             Finalize([r EXCEPT !.keepalive = @ /\ ~(sent /\ stopping)])
      BY <1>4, <2>3 DEF StaticHandler
    <3> DEFINE q == [r EXCEPT !.keepalive = @ /\ ~(sent /\ stopping)]
    <3>2. /\ DOMAIN q = Fields /\ q.count = r.count /\ q.dir = r.dir /\ q.freed = r.freed
          /\ q.keepalive = (r.keepalive /\ ~(sent /\ stopping))
      BY <1>2 DEF Whole, Fields
    <3> HIDE DEF q
    <3>3. Whole(q, calls + 1)
      BY <1>2, <3>2 DEF Whole
    <3>4. Finalize(q)
      BY <3>1 DEF q
    <3> QED
      BY <1>1, <3>3, <3>4, FinalizeEnds
  <2> QED
    BY <2>2, <2>3
<1> QED
  BY <1>3, <1>4

\* Before the first request every run's invariant holds.
LEMMA RunsInvInit == Init => RunsInv
BY DEF Init, RunsInv, NoRequest

\* Every step keeps the invariant of the runs.
LEMMA RunsInvNext == RunsInv /\ [Next]_pvars => RunsInv'
<1> SUFFICES ASSUME RunsInv, [Next]_pvars
             PROVE  RunsInv'
  OBVIOUS
<1>1. CASE UNCHANGED pvars
  <2>1. UNCHANGED <<r, calls, pc, conn, stopping, ran>>
    BY <1>1 DEF pvars
  <2> QED
    BY <2>1 DEF RunsInv, Whole, OnWay, Decided
<1>2. ASSUME NEW method \in Methods, NEW keepalive \in BOOLEAN,
             ProcessRequest(method, keepalive)
      PROVE  RunsInv'
  BY <1>2, ProcessRequestEnters
<1>3. CASE RewritePhase
  <2>1. At("rewrite")
    BY <1>3 DEF RewritePhase
  <2>2. Result(ph(r.phase_handler).handler) = "DECLINED"
    BY <2>1, BeforeContent
  <2>3. Goto(r.phase_handler + 1)
    BY <1>3, <2>2 DEF RewritePhase
  <2> QED
    BY <2>1, <2>3, BeforeContent
<1>4. CASE FindConfigPhase
  BY <1>4, BeforeContent DEF FindConfigPhase
<1>5. CASE PostRewritePhase
  BY <1>5, BeforeContent DEF PostRewritePhase
<1>6. CASE AccessPhase
  <2>1. At("access")
    BY <1>6 DEF AccessPhase
  <2>2. Result(ph(r.phase_handler).handler) = "DECLINED"
    BY <2>1, BeforeContent
  <2>3. Goto(r.phase_handler + 1)
    BY <1>6, <2>2 DEF AccessPhase
  <2> QED
    BY <2>1, <2>3, BeforeContent
<1>7. CASE PostAccessPhase
  BY <1>7, BeforeContent DEF PostAccessPhase
<1>8. CASE GenericPhase
  <2>1. At("generic")
    BY <1>8 DEF GenericPhase
  <2>2. Result(ph(r.phase_handler).handler) = "DECLINED"
    BY <2>1, BeforeContent
  <2>3. Goto(r.phase_handler + 1)
    BY <1>8, <2>2 DEF GenericPhase
  <2> QED
    BY <2>1, <2>3, BeforeContent
<1>9. CASE ContentPhase \/ StaticHandler
  BY <1>9, ContentSteps
<1>10. ASSUME NEW i \in 1..Len(Indices), IndexRedirect(i) \/ IndexRedirectLimit(i)
       PROVE  RunsInv'
  BY <1>10, RedirectEnters, RedirectRefused
<1>11. CASE RedirectReturns
  BY <1>11, RunReturns
<1>12. CASE HandlerReturns
  <2>1. /\ UNCHANGED <<r, calls, conn, stopping>> /\ pc = "return" /\ pc' = "done" /\ calls = 0
    BY <1>12 DEF HandlerReturns
  <2> QED
    BY <2>1 DEF RunsInv, Decided
<1>13. CASE StaticCrash
  <2>1. UNCHANGED <<r, calls, conn, stopping, ran>> /\ pc = "run" /\ pc' = "lost"
    BY <1>13 DEF StaticCrash, At
  <2>2. r.count = calls + 1 /\ calls \in Nat /\ stopping \in BOOLEAN
    BY <2>1 DEF RunsInv, Whole
  <2> QED
    BY <2>1, <2>2 DEF RunsInv
<1>14. CASE Served
  BY <1>14, <1>1 DEF Served
<1> QED
  BY <1>1, <1>2, <1>3, <1>4, <1>5, <1>6, <1>7, <1>8, <1>9, <1>10, <1>11, <1>12, <1>13,
     <1>14 DEF Next, Run

\* The invariant of the runs holds in every behaviour.
THEOREM RunsInvariant == PhasesSpec => []RunsInv
  BY RunsInvInit, RunsInvNext, PTL DEF PhasesSpec

\* However deep index redirects nest and however they end, the request holds
\* one reference for each run of the phases that has yet to finalize it: no
\* run leaves the phases without night_http_finalize_request.
THEOREM CountMatchesRunsHolds == PhasesSpec => []CountMatchesRuns
<1>1. RunsInv => CountMatchesRuns
  <2> SUFFICES ASSUME RunsInv PROVE CountMatchesRuns
    OBVIOUS
  <2>1. calls \in Nat /\ pc \in {"idle", "run", "return", "done", "lost"}
    BY DEF RunsInv
  <2>2. CASE pc = "idle"
    BY <2>2 DEF RunsInv, CountMatchesRuns
  <2>3. CASE pc = "run"
    BY <2>3 DEF RunsInv, CountMatchesRuns, Whole
  <2>4. CASE pc = "return"
    BY <2>1, <2>4 DEF RunsInv, CountMatchesRuns, Whole, Decided
  <2>5. CASE pc = "done"
    BY <2>5 DEF RunsInv, CountMatchesRuns, Decided
  <2>6. CASE pc = "lost"
    BY <2>6 DEF RunsInv, CountMatchesRuns
  <2> QED
    BY <2>1, <2>2, <2>3, <2>4, <2>5, <2>6
<1> QED
  BY <1>1, RunsInvariant, PTL

\* No content handler sees a uri, redirected ones included, before its
\* location has been looked up and every rewrite, preaccess, access and
\* precontent handler of the build has let it pass.
THEOREM CheckedBeforeContentHolds == PhasesSpec => []CheckedBeforeContent
<1>1. RunsInv => CheckedBeforeContent
  <2> SUFFICES ASSUME RunsInv, At("content")
               PROVE  /\ {"find_config", "post_access"} \subseteq ran
                      /\ \A p \in {"SERVER_REWRITE", "REWRITE", "PREACCESS", "ACCESS", "PRECONTENT"} :
                            \A i \in 1..Len(Registered[p]) : Registered[p][i] \in ran
    BY DEF CheckedBeforeContent
  <2> DEFINE x == r.phase_handler
  <2>1. pc = "run" /\ ph(x).checker = "content" /\ ph(x) = H[x + 1]
    BY DEF At, ph, H
  <2>2. OnWay
    BY <2>1 DEF RunsInv
  <2>3. x \in 0 .. N - 1
    BY <2>2 DEF OnWay
  <2>4. x >= Base
    <3> SUFFICES ASSUME x < Base PROVE FALSE
      BY <2>3, AutoPlace
    <3>1. x + 1 \in 1..Base
      BY <2>3, AutoPlace
    <3> QED
      BY <2>1, <3>1, AutoPlace
  <2>5. \A j \in Filling(1) + 1 .. Base : H[j].handler \in ran /\ H[j].checker \in ran
    <3> TAKE j \in Filling(1) + 1 .. Base
    <3>1. j \in Filling(1) + 1 .. x
      BY <2>3, <2>4, AutoPlace
    <3> QED
      BY <2>2, <3>1 DEF OnWay
  <2>6. "find_config" \in ran /\ "post_access" \in ran
    <3>1. PICK j \in Filling(1) + 1 .. Base : H[j].checker = "find_config"
      BY ArrayCovers DEF H
    <3>2. PICK k \in Filling(1) + 1 .. Base : H[k].checker = "post_access"
      BY ArrayCovers DEF H
    <3> QED
      BY <2>5, <3>1, <3>2
  <2>7. ASSUME NEW p \in {"SERVER_REWRITE", "REWRITE", "PREACCESS", "ACCESS", "PRECONTENT"},
               NEW i \in 1..Len(Registered[p])
        PROVE  Registered[p][i] \in ran
    <3>1. PICK j \in Filling(1) + 1 .. Base : H[j].handler = Registered[p][i]
      BY <2>7, ArrayCovers DEF H
    <3> QED
      BY <2>5, <3>1
  <2> QED
    BY <2>6, <2>7
<1> QED
  BY <1>1, RunsInvariant, PTL

\* A client that asked for keepalive has got it, or a closed connection, once
\* its request is through, unless the worker is stopping.
THEOREM KeepaliveHonouredHolds == PhasesSpec => []KeepaliveHonoured
<1>1. RunsInv => KeepaliveHonoured
  BY DEF RunsInv, KeepaliveHonoured, Decided
<1> QED
  BY <1>1, RunsInvariant, PTL
=============================================================================
