----------------------------- MODULE NightPhases -----------------------------
(***************************************************************************)
(* A request's way through the HTTP phases: the array of checkers built at *)
(* start-up (http/night_http_module.c), the checkers, internal redirects   *)
(* and the finalization that counts references to the request              *)
(* (http/night_http_core_module.c, http/night_http_request.c), with the    *)
(* handlers the build registers (http/night_http_*_module.c).              *)
(*                                                                         *)
(* A uri is known by what the handlers ask of it: whether it ends in "/".  *)
(* A redirect runs the phases again inside the content handler that asked  *)
(* for it, so the phases of one request nest; all of it happens in one     *)
(* call of night_http_process_request.                                     *)
(***************************************************************************)
EXTENDS Integers, Sequences

CONSTANTS
    Registered,      \* the handlers of each phase in registration order
    Indices,         \* index names of the location: TRUE if it ends in "/"
    MaxUriChanges    \* NIGHT_HTTP_MAX_URI_CHANGES

Phases == <<"POST_READ", "SERVER_REWRITE", "FIND_CONFIG", "REWRITE",
            "POST_REWRITE", "PREACCESS", "ACCESS", "POST_ACCESS",
            "PRECONTENT", "CONTENT">>

ASSUME PhasesAssumption ==
    /\ \A i \in 1..10 : Registered[Phases[i]] \in Seq(STRING)
    /\ Registered["CONTENT"] # <<>>
    /\ Indices \in Seq(BOOLEAN)
    /\ MaxUriChanges \in Nat \ {0}

\* What the modules of the build register (night_modules): static is the last
\* content handler tried, autoindex comes before it and in no other phase.
ASSUME BuildAssumption ==
    /\ Registered["ACCESS"] # <<>>
    /\ Registered["CONTENT"][1] = "static"
    /\ \E i \in 1..Len(Registered["CONTENT"]) : Registered["CONTENT"][i] = "autoindex"
    /\ \A p \in 1..9 : \A i \in 1..Len(Registered[Phases[p]]) :
          Registered[Phases[p]][i] # "autoindex"

\* What the parser knows of methods (NightParse); all others are one.
Methods == {"GET", "POST", "OTHER"}

VARIABLES
    r,            \* the request
    calls,        \* how many content phases wait for their redirect to return
    pc,           \* "idle", "run", "return" (from run_phases), "done" or,
                  \* when the worker crashed, "lost"
    conn,         \* the connection: "busy", "keepalive" or "closed"
    stopping,     \* night_terminate: a channel command earlier in the batch
    ran           \* for the properties: checks made since the uri was set

pvars == <<r, calls, pc, conn, stopping, ran>>

-----------------------------------------------------------------------------
(* The phase engine.  Positions count from 0, as in the code; an entry     *)
(* past the end has a NULL checker, which only the last content handler    *)
(* looks at, so that run_phases never gets there.                          *)

Reversed(s) == [i \in 1..Len(s) |-> s[Len(s) + 1 - i]]

Checker(p) == CASE p \in {"SERVER_REWRITE", "REWRITE"} -> "rewrite"
                [] p = "ACCESS" -> "access"
                [] p = "CONTENT" -> "content"
                [] OTHER -> "generic"

Entry(checker, handler, next) == [checker |-> checker, handler |-> handler, next |-> next]

\* The entries of a phase that has handlers of modules, last registered first.
AddHandlers(e, p, n) ==
    LET h == Reversed(Registered[p])
        next == n + Len(h)
    IN  [e EXCEPT !.n = next,
                  !.handlers = @ \o [i \in 1..Len(h) |-> Entry(Checker(p), h[i], next)]]

(* night_http_init_phase_handlers, one phase.  The access phase counts the *)
(* post access entry in, whether or not there will be one.                 *)
AddPhase(e, p) ==
    CASE p = "FIND_CONFIG" ->
            [e EXCEPT !.handlers = Append(@, Entry("find_config", "none", 0)),
                      !.n = @ + 1, !.find_config = e.n]
      [] p = "POST_REWRITE" ->
            IF Registered["REWRITE"] = <<>> THEN e
            ELSE [e EXCEPT !.handlers = Append(@, Entry("post_rewrite", "none", e.find_config)),
                           !.n = @ + 1]
      [] p = "POST_ACCESS" ->
            IF Registered["ACCESS"] = <<>> THEN e
            ELSE [e EXCEPT !.handlers = Append(@, Entry("post_access", "none", e.n))]
      [] p = "ACCESS" -> AddHandlers(e, p, e.n + 1)
      [] p = "SERVER_REWRITE" -> AddHandlers([e EXCEPT !.server_rewrite = e.n], p, e.n)
      [] OTHER -> AddHandlers(e, p, e.n)

Engine[i \in 0..10] ==
    IF i = 0
    THEN [handlers |-> <<>>, n |-> 0, server_rewrite |-> 0, find_config |-> 0]
    ELSE AddPhase(Engine[i - 1], Phases[i])

phase_engine == Engine[10]

PastEnd(i) == i >= Len(phase_engine.handlers)
ph(i) == phase_engine.handlers[i + 1]
At(checker) == pc = "run" /\ ~PastEnd(r.phase_handler) /\ ph(r.phase_handler).checker = checker

-----------------------------------------------------------------------------
(* Finalizing.  Each takes the request and gives what becomes of it and of *)
(* the connection.                                                         *)

\* night_http_close_request
close_request(q) ==
    IF q.count = 1 THEN [r |-> [q EXCEPT !.count = 0, !.freed = TRUE], conn |-> "closed"]
                   ELSE [r |-> [q EXCEPT !.count = @ - 1], conn |-> conn]

\* night_http_set_keepalive: event and socket calls may fail at its end.
set_keepalive(q) ==
    {[r |-> [q EXCEPT !.keepalive = FALSE, !.freed = TRUE], conn |-> c] : c \in {"keepalive", "closed"}}

\* Mutant: any reference but one's own is ignored.
finalize_request_uncounted(q) ==
    IF q.keepalive /\ ~stopping THEN set_keepalive(q) ELSE {close_request(q)}

\* night_http_finalize_request and _connection, for every code: when the
\* request is neither shared nor kept alive nothing is done.
finalize_request(q) ==
    IF q.count # 1 THEN {close_request(q)}
    ELSE IF ~stopping /\ q.keepalive THEN set_keepalive(q)
    ELSE {[r |-> q, conn |-> conn]}

-----------------------------------------------------------------------------
(* Steps *)

NoRequest == [method |-> "GET", dir |-> FALSE, keepalive |-> FALSE, internal |-> FALSE,
              uri_changes |-> 0, count |-> 0, phase_handler |-> 0, freed |-> FALSE]

Init ==
    /\ r = NoRequest /\ calls = 0 /\ pc = "idle" /\ conn = "busy"
    /\ stopping \in BOOLEAN /\ ran = {}

\* Mutant: a redirected request skips the lookup of its location.
handler_late(q) == [q EXCEPT !.phase_handler = IF q.internal THEN phase_engine.find_config + 1 ELSE 0]

\* night_http_handler up to the first phase.
handler(q) == [q EXCEPT !.phase_handler = IF q.internal THEN phase_engine.server_rewrite ELSE 0]

\* night_http_process_request, for a request that has just been created.  The
\* only uri night_http_parse_request_line lets through is "/" (NightParse).
ProcessRequest(method, keepalive) ==
    /\ pc = "idle"
    /\ r' = handler([NoRequest EXCEPT !.method = method, !.dir = TRUE, !.keepalive = keepalive,
                                      !.count = 1, !.uri_changes = MaxUriChanges + 1])
    /\ pc' = "run"
    /\ UNCHANGED <<calls, conn, stopping, ran>>

\* The checker moved on to another entry and run_phases calls that one.
Goto(i) == /\ r' = [r EXCEPT !.phase_handler = i]
           /\ ran' = ran \cup {ph(r.phase_handler).handler, ph(r.phase_handler).checker}
           /\ UNCHANGED <<calls, pc, conn, stopping>>

\* The checker returned NIGHT_OK without finalizing.
Stop == pc' = "return" /\ UNCHANGED <<r, calls, conn, stopping, ran>>

Finalize(q) ==
    /\ \E f \in finalize_request(q) : r' = f.r /\ conn' = f.conn
    /\ pc' = "return"
    /\ UNCHANGED <<calls, stopping, ran>>

\* What a handler other than index and static returns: only autoindex does
\* not decline everything, and it has nothing to send.
Result(h) == IF h = "autoindex" /\ r.dir THEN "OK" ELSE "DECLINED"

RewritePhase ==
    /\ At("rewrite")
    /\ LET rc == Result(ph(r.phase_handler).handler)
       IN  CASE rc = "DECLINED" -> Goto(r.phase_handler + 1)
             [] rc = "DONE" -> Stop
             [] OTHER -> Finalize(r)

\* Every search ends with a location, and no directive makes one internal.
FindConfigPhase == At("find_config") /\ Goto(r.phase_handler + 1)

\* uri_changed is never set after the lookup has cleared it.
PostRewritePhase == At("post_rewrite") /\ Goto(r.phase_handler + 1)

\* Only the main request exists: nothing creates subrequests.
AccessPhase ==
    /\ At("access")
    /\ IF Result(ph(r.phase_handler).handler) = "DECLINED" THEN Goto(r.phase_handler + 1) ELSE Stop

\* Mutant: the checker returns without moving on.
PostAccessPhase_stuck == At("post_access") /\ Goto(r.phase_handler)

PostAccessPhase == At("post_access") /\ Goto(r.phase_handler + 1)

GenericPhase ==
    /\ At("generic")
    /\ LET rc == Result(ph(r.phase_handler).handler)
       IN  CASE rc = "OK" -> Goto(ph(r.phase_handler).next)
             [] rc = "DECLINED" -> Goto(r.phase_handler + 1)
             [] OTHER -> Stop

\* The index handler looks for index files; a missing one is passed over.
IndexApplies == ph(r.phase_handler).handler = "index" /\ r.dir /\ r.method # "OTHER"

ContentDeclined ==
    IF PastEnd(r.phase_handler + 1) THEN Stop ELSE Goto(r.phase_handler + 1)

ContentPhase ==
    /\ At("content") /\ ph(r.phase_handler).handler # "static"
    /\ CASE ph(r.phase_handler).handler = "index" -> ContentDeclined
         [] Result(ph(r.phase_handler).handler) = "DECLINED" -> ContentDeclined
         [] OTHER -> Finalize(r)

\* The static handler declines directories; it ends with an error or with the
\* result of the output filters, and sending the header drops keepalive when
\* the worker is stopping.
StaticHandler ==
    /\ At("content") /\ ph(r.phase_handler).handler = "static"
    /\ IF r.dir /\ r.method # "OTHER" THEN ContentDeclined
       ELSE \E sent \in {FALSE} \cup (IF r.method = "GET" THEN {TRUE} ELSE {}) :
               Finalize([r EXCEPT !.keepalive = @ /\ ~(sent /\ stopping)])

\* night_http_set_content_type traces type->data before it looks whether the
\* extension of the file has a type at all.
StaticCrash ==
    /\ At("content") /\ ph(r.phase_handler).handler = "static"
    /\ r.method = "GET" /\ ~r.dir
    /\ pc' = "lost"
    /\ UNCHANGED <<r, calls, conn, stopping, ran>>

\* Mutant: redirects are not counted.
internal_redirect_uncounted(dir) ==
    [r EXCEPT !.dir = dir, !.internal = TRUE, !.count = @ + 1]

\* The request night_http_internal_redirect hands to night_http_handler.
internal_redirect(dir) ==
    [r EXCEPT !.uri_changes = @ - 1, !.dir = dir, !.internal = TRUE, !.count = @ + 1]

\* An index file exists, or cannot be looked at for another reason than its
\* absence: the phases start over for the uri it names, within this call.
IndexRedirect(i) ==
    /\ At("content") /\ IndexApplies
    /\ LET q == internal_redirect(Indices[i])
       IN  /\ q.uri_changes # 0
           /\ r' = handler(q)
           /\ calls' = calls + 1
           /\ ran' = {}
    /\ UNCHANGED <<pc, conn, stopping>>

\* One redirect too many: finalized there with 500, and once more by the
\* content phase whose handler returns NIGHT_DONE.
IndexRedirectLimit(i) ==
    /\ At("content") /\ IndexApplies
    /\ LET q == internal_redirect(Indices[i])
       IN  /\ q.uri_changes = 0
           /\ \E f \in finalize_request([r EXCEPT !.uri_changes = 0, !.count = @ + 1]) :
                 \E g \in finalize_request(f.r) : r' = g.r /\ conn' = g.conn
    /\ pc' = "return"
    /\ UNCHANGED <<calls, stopping, ran>>

\* Mutant: the content phase does not finalize a redirected request.
RedirectReturns_unfinalized ==
    /\ pc = "return" /\ calls > 0
    /\ calls' = calls - 1
    /\ UNCHANGED <<r, pc, conn, stopping, ran>>

\* A nested run is over: its content phase finalizes for NIGHT_DONE.
RedirectReturns ==
    /\ pc = "return" /\ calls > 0
    /\ \E f \in finalize_request(r) : r' = f.r /\ conn' = f.conn
    /\ calls' = calls - 1
    /\ UNCHANGED <<pc, stopping, ran>>

\* night_http_process_request returns to the event loop.
HandlerReturns ==
    /\ pc = "return" /\ calls = 0
    /\ pc' = "done"
    /\ UNCHANGED <<r, calls, conn, stopping, ran>>

\* The event loop serves others, or is no more; this request is not looked at
\* again.
Served == pc \in {"done", "lost"} /\ UNCHANGED pvars

Run == \/ RewritePhase \/ FindConfigPhase \/ PostRewritePhase \/ AccessPhase
       \/ PostAccessPhase \/ GenericPhase \/ ContentPhase \/ StaticHandler \/ StaticCrash
       \/ \E i \in 1..Len(Indices) : IndexRedirect(i) \/ IndexRedirectLimit(i)
       \/ RedirectReturns \/ HandlerReturns

Next == \/ \E method \in Methods, keepalive \in BOOLEAN : ProcessRequest(method, keepalive)
        \/ Run \/ Served

\* The handler runs on the worker's own thread until it returns.
PhasesSpec == Init /\ [][Next]_pvars /\ WF_pvars(Run)

-----------------------------------------------------------------------------
(* Properties *)

\* However deep redirects nest and however they end, the request holds one
\* reference for each run of the phases that has yet to finalize it, so that
\* exactly the outermost one decides about the connection.
CountMatchesRuns ==
    CASE pc = "idle" -> r.count = 0 /\ calls = 0
      [] pc \in {"run", "lost"} -> r.count = calls + 1
      [] pc = "return" -> r.count = IF calls = 0 THEN 1 ELSE calls
      [] OTHER -> r.count = 1 /\ calls = 0

\* A freed request is out of everybody's hands: no phase and no waiting
\* content phase still uses it.
NothingUsesFreed == r.freed => pc \in {"return", "done"} /\ calls = 0

\* An index name that leads back to a directory cannot nest runs without end:
\* at most NIGHT_HTTP_MAX_URI_CHANGES redirects, each paid for.
RedirectsBounded ==
    pc \in {"run", "return"} =>
        /\ calls <= MaxUriChanges
        /\ pc = "run" => r.uri_changes + calls = MaxUriChanges + 1

\* No content handler sees a uri, redirected ones included, before that very
\* uri has had its location looked up and every rewrite, preaccess, access
\* and precontent handler has let it pass.
CheckedBeforeContent ==
    At("content") =>
        /\ {"find_config", "post_access"} \subseteq ran
        /\ \A p \in {"SERVER_REWRITE", "REWRITE", "PREACCESS", "ACCESS", "PRECONTENT"} :
              \A i \in 1..Len(Registered[p]) : Registered[p][i] \in ran

\* A client that asked for keepalive has got it (or a closed connection, when
\* that failed) once its request is through, whatever way it took, unless the
\* worker is stopping: no way through the phases forgets to finalize.
KeepaliveHonoured == pc = "done" /\ ~stopping => ~r.keepalive /\ (r.freed <=> conn # "busy")

\* Every request that enters the phases comes out of them again, unless the
\* worker crashes over its content type.
RequestEnds == pc = "run" ~> pc \in {"done", "lost"}
=============================================================================
