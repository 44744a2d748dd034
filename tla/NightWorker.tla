---------------------------- MODULE NightWorker ----------------------------
(***************************************************************************)
(* The event loop of one worker: it waits for epoll events, accepts        *)
(* clients, reads and handles their requests, keeps connections alive and  *)
(* shuts down when its channel tells it to (event/*.c,                     *)
(* http/night_http_connection.c, http/night_http_request.c and the loop    *)
(* of night_worker_process_cycle). Clients connect, send and close at any  *)
(* time, also between two events of one batch.                             *)
(*                                                                         *)
(* A handler runs to its end within one step; what it may leave behind is  *)
(* a set of records s (see NightConnection). Timers never fire:            *)
(* night_process_events_and_timers does not expire them.                   *)
(***************************************************************************)
EXTENDS NightConnection

CONSTANTS
    BufSize,      \* client_header_buffer_size
    LineLen,      \* length of a request line,
    HeadLen,      \* and of a whole request head,
    Longer,       \* whether longer lines and heads come as well
    Outcomes,     \* what requests may come to, a subset of AllOutcomes
    Faults,       \* whether memory, epoll_ctl and setsockopt may fail
    Commands,     \* shutdown commands that may come over the channel
    MaxClients    \* bound: clients that connect

AllOutcomes ==
    {"keepalive",   \* the response is finalized and the client may go on
     "close",       \* it is finalized and the client wants to close
     "bad",         \* the head is malformed or refused: finalized as an error
     "crash",       \* the uri has an extension without a type: the worker dies
     "host"}        \* a Host line: the uninitialised rc of validate_host

ASSUME WorkerAssumption ==
    /\ BufSize \in Nat
    /\ HeadLen \in Nat
    /\ LineLen \in 1 .. (HeadLen - 1)
    /\ Longer \in BOOLEAN
    /\ Outcomes \subseteq AllOutcomes
    /\ Faults \in BOOLEAN
    /\ Commands \subseteq {"QUIT", "TERMINATE"}
    /\ MaxClients \in Nat

VARIABLES
    s,                \* night_cycle and the worker's descriptors
    pc,               \* "wait", "dispatch", "exiting", "exited" or, when it
                      \* crashed or parses for ever, "lost"
    batch,            \* events of this epoll_wait not yet handled
    night_quit,
    night_terminate,
    clients           \* clients that have connected so far

vars == <<s, pc, batch, night_quit, night_terminate, clients>>

\* stale marks, for the properties, that the connection was closed since.
Event == [conn : Conns, inst : BOOLEAN, stale : BOOLEAN]

AGAIN == -2
ERROR == -1

Init ==
    /\ s = InitCycle
    /\ pc = "wait"
    /\ batch = {}
    /\ night_quit = FALSE
    /\ night_terminate = FALSE
    /\ clients = 0

-----------------------------------------------------------------------------
(* Reading                                                                 *)

\* night_unix_recv: the results and the records they leave. It is only
\* called with available # 0, and always ends with ready = 0 (pending_eof is
\* never set: EPOLLRDHUP is not asked for). When the buffer was filled it
\* goes on to test an errno nobody has set: with EAGAIN the bytes are
\* disowned, with EINTR the next ones are read over them. A client that went
\* away may be seen as an error.
Recv(t, c, size) ==
    LET fd == t.conn[c].fd
        k == t.sock[fd]
        n == IF k.rcv < size THEN k.rcv ELSE size
        took(result, m) ==
          {[n |-> result, s |-> [t EXCEPT !.conn[c].ready = FALSE,
                                          !.sock[fd].rcv = @ - m]]}
        empty(m) == IF k.eof THEN took(0, m) \cup took(ERROR, m)
                    ELSE took(AGAIN, m)
        over == IF k.rcv % size > 0 THEN took(k.rcv % size, k.rcv)
                ELSE empty(k.rcv)
    IN
    IF size = 0 THEN took(0, 0)
    ELSE IF n = size THEN took(n, n) \cup took(AGAIN, n) \cup over
    ELSE IF n > 0 THEN took(n, n)
    ELSE empty(0)

\* A call that may fail, after which the connection is closed.
OrFault(t, c, ok) == IF Faults THEN {ok, HttpClose(t, c)} ELSE {ok}

\* night_http_read_request_header without data: wait for more of it.
AwaitMore(t, c) ==
    LET u == IF t.conn[c].timer_set THEN t ELSE AddTimer(t, c) IN
    OrFault(u, c, HandleReadEvent(u, c))

\* A full buffer without a whole line: after the uninitialised result of
\* night_http_alloc_large_header_buffer the request is closed or finalized,
\* or the loop goes on.
LargeBuffer(t, c) ==
    IF t.conn[c].got >= BufSize THEN {HttpClose(t, c), t} ELSE {}

\* night_http_process_request_line with an incomplete line. What is received
\* is put behind header_in->last, but last is not moved, so the parser is not
\* shown it and asks for more.
ReadMore(t, c) ==
    LET more(r) ==
          CASE r.n = AGAIN -> AwaitMore(r.s, c)
            [] r.n = ERROR -> {r.s}
            [] OTHER       -> LargeBuffer(r.s, c) \cup AwaitMore(r.s, c)
    IN
    IF t.conn[c].ready
    THEN UNION {more(r) : r \in Recv(t, c, BufSize - t.conn[c].got)}
    ELSE AwaitMore(t, c)

-----------------------------------------------------------------------------
(* Requests                                                                *)

\* night_http_set_keepalive
SetKeepalive(t, c) ==
    LET u == HandleReadEvent(t, c)
        idle == [u EXCEPT !.conn[c].handler = "keepalive",
                          !.conn[c].idle = TRUE]
        kept == AddTimer(Reusable(idle, c, TRUE), c)
    IN OrFault(t, c, IF kept.conn[c].ready THEN Post(kept, c) ELSE kept)

\* night_http_finalize_request and night_http_finalize_connection; nothing
\* happens to a connection that is not kept alive.
Finalize(t, c, keepalive) ==
    IF keepalive /\ ~night_terminate THEN SetKeepalive(t, c) ELSE {t}

\* night_http_process_request and the phases it runs.
ProcessRequest(t, c) ==
    LET u == [DelTimer(t, c) EXCEPT !.conn[c].handler = "request"] IN
    UNION {CASE o = "keepalive"  -> Finalize(u, c, TRUE)
             [] o = "close"      -> Finalize(u, c, FALSE)
             [] o = "crash"      -> {[u EXCEPT !.lost = TRUE]}
             [] OTHER            -> {} : o \in Outcomes}

\* night_http_parse_header_line never asks for more: at the end of the buffer
\* it reports a line whose name and value are those of an earlier line or
\* unset. The worker writes through an unset pointer or takes such lines for
\* ever; a wild length closes the request, a second Host finalizes it.
Exhausted(t, c) ==
    {[t EXCEPT !.lost = TRUE], HttpClose(t, c)} \cup Finalize(t, c, FALSE)

\* The same when no header line was ever begun: the pointers are unset, and
\* the worker writes through them unless there is no memory for the line.
NoLineYet(t, c) ==
    {[t EXCEPT !.lost = TRUE]} \cup (IF Faults THEN {HttpClose(t, c)} ELSE {})

\* night_http_process_request_headers, called with what is left of the head:
\* nothing, nothing behind the request line, more lines or one the parser
\* refuses again. A Host line is passed on, finalized or closed after the
\* uninitialised result of night_http_validate_host, and parsing goes on
\* behind it with the next event. The whole head may be refused after its
\* last line.
ProcessHeaders(t, c) ==
    LET rest == t.conn[c].left
        parsed == [t EXCEPT !.conn[c].left = "none"]
        read(r) == CASE r.n = AGAIN -> AwaitMore(r.s, c)
                     [] r.n = ERROR -> {r.s}
                     [] rest = "bare" -> NoLineYet(r.s, c)
                     [] OTHER       -> Exhausted(r.s, c)
    IN
    CASE rest = "bad"  -> Finalize(t, c, FALSE)
      [] rest \in {"none", "bare"} ->
           IF t.conn[c].ready
           THEN UNION {read(r) : r \in Recv(t, c, BufSize - t.conn[c].got)}
           ELSE AwaitMore(t, c)
      [] rest = "more" ->
           UNION { IF Faults THEN {HttpClose(t, c)} ELSE {},
                   IF "bad" \in Outcomes
                   THEN Finalize([t EXCEPT !.conn[c].left = "bad"], c, FALSE) ELSE {},
                   IF "host" \in Outcomes
                   THEN Finalize(t, c, FALSE) \cup {HttpClose(t, c)} ELSE {},
                   IF t.conn[c].got < HeadLen \/ Longer THEN Exhausted(parsed, c) ELSE {},
                   IF t.conn[c].got >= HeadLen
                   THEN ProcessRequest(parsed, c)
                        \cup (IF "bad" \in Outcomes THEN Finalize(parsed, c, FALSE)
                              ELSE {})
                   ELSE {} }

\* night_http_process_request_line; a line that was refused is refused again
\* with every event.
ProcessLine(t, c) ==
    LET n == t.conn[c].got
        headers(left) == [t EXCEPT !.conn[c].handler = "headers", !.conn[c].left = left]
        open == [t EXCEPT !.conn[c].left = "none"]
    IN
    CASE t.conn[c].left = "bad" -> Finalize(t, c, FALSE)
      [] t.conn[c].left \in {"none", "bare"} -> ReadMore(t, c)
      [] t.conn[c].left = "more" ->
           UNION { IF "bad" \in Outcomes
                   THEN Finalize([t EXCEPT !.conn[c].left = "bad"], c, FALSE) ELSE {},
                   IF Faults THEN {HttpClose(t, c)} ELSE {},
                   IF n > LineLen THEN ProcessHeaders(headers("more"), c) ELSE {},
                   IF n = LineLen \/ (n > LineLen /\ Longer)
                   THEN ProcessHeaders(headers("bare"), c) ELSE {},
                   IF n < LineLen \/ Longer
                   THEN LargeBuffer(open, c) \cup ReadMore(open, c) ELSE {} }

\* night_http_wait_request_handler
WaitRequest(t, c) ==
    LET await(u) == IF u.conn[c].timer_set THEN u
                    ELSE Reusable(AddTimer(u, c), c, TRUE)
        begin(r) == [Reusable(r.s, c, FALSE) EXCEPT !.conn[c].handler = "line",
                                                    !.conn[c].got = r.n,
                                                    !.conn[c].left = "more"]
        next(r) ==
          CASE r.n = AGAIN        -> OrFault(await(r.s), c,
                                             HandleReadEvent(await(r.s), c))
            [] r.n \in {ERROR, 0} -> {HttpClose(r.s, c)}
            [] OTHER              -> ProcessLine(begin(r), c)
    IN
    IF t.conn[c].close THEN {HttpClose(t, c)}
    ELSE (UNION {next(r) : r \in Recv(t, c, BufSize)})
         \cup (IF Faults THEN {HttpClose(t, c)} ELSE {})

-----------------------------------------------------------------------------
(* Accepting                                                               *)

FreeFds(t) == {fd \in Fds : t.sock[fd].kind = "closed"}

\* accept4() of a client that has already sent n bytes.
Accepted(t, l, fd, n) ==
    [t EXCEPT !.sock[fd] = [ClosedSocket EXCEPT !.kind = "stream",
                                                !.rcv = n, !.sent = n],
              !.sock[t.conn[l].fd].rcv = @ - 1]

\* night_http_init_connection of a connection just taken; it is ready.
InitConnection(t, c) ==
    WaitRequest([t EXCEPT !.conn[c].ready = TRUE, !.conn[c].handler = "wait"], c)

\* night_disable_accept_events leaves the descriptors in epoll.
DisableAccept(t) ==
    [t EXCEPT !.conn = [c \in Conns |-> IF c \in Listeners
                                        THEN [@[c] EXCEPT !.active = FALSE]
                                        ELSE @[c]]]

\* night_event_accept
Accept(t, l) ==
    LET lfd == t.conn[l].fd
        u == [t EXCEPT !.conn[l].ready = FALSE]
        fd == CHOOSE f \in FreeFds(t) : \A g \in FreeFds(t) : f <= g
        outcome(v) ==
          IF v.free = <<>>
          THEN {[v EXCEPT !.sock[fd] = ClosedSocket]}
          ELSE InitConnection(Take(v, fd), Head(v.free))
               \cup (IF Faults THEN {CloseAccepted(Take(v, fd), Head(v.free))} ELSE {})
        disabled == {AddTimer(DisableAccept(u), l)}
    IN
    IF t.sock[lfd].rcv = 0 THEN {u}                                  \* EAGAIN
    ELSE UNION { IF FreeFds(t) = {} \/ Faults THEN disabled ELSE {},  \* EMFILE
                 IF FreeFds(t) = {} THEN {}
                 ELSE UNION {outcome(Drain(Accepted(u, l, fd, n))) :
                               n \in 0 .. MaxBytes} }

-----------------------------------------------------------------------------
(* The event loop                                                          *)

\* epoll_wait
Wait ==
    LET ready == {fd \in Fds : s.sock[fd].reg # NoConn /\ s.sock[fd].edge} IN
    /\ pc = "wait"
    /\ ready # {}
    /\ batch' = {[conn |-> s.sock[fd].reg, inst |-> s.sock[fd].inst,
                  stale |-> FALSE] : fd \in ready}
    /\ s' = [s EXCEPT !.sock = [fd \in Fds |-> [@[fd] EXCEPT !.edge = FALSE]]]
    /\ pc' = "dispatch"
    /\ UNCHANGED <<night_quit, night_terminate, clients>>

\* The test of night_epoll_process_events before it calls a handler.
Delivered(e) ==
    /\ s.conn[e.conn].active
    /\ s.conn[e.conn].fd # NoFd
    /\ s.conn[e.conn].instance = e.inst

\* The handler of a connection that is not a listening one.
Handle(t, c) ==
    CASE t.conn[c].handler = "wait"    -> WaitRequest(t, c)
      [] t.conn[c].handler = "line"    -> ProcessLine(t, c)
      [] t.conn[c].handler = "headers" -> ProcessHeaders(t, c)
      [] OTHER                         -> {t}

\* A handler from which the worker does not come back ends its loop.
AfterHandler(t) == IF t.lost THEN "lost" ELSE pc

Remaining(e, t) ==
    {[d EXCEPT !.stale = @ \/ t.conn[d.conn].fd # s.conn[d.conn].fd] :
       d \in batch \ {e}}

DispatchAccept(e) ==
    /\ pc = "dispatch" /\ Delivered(e)
    /\ s.conn[e.conn].handler = "accept"
    /\ s' \in Accept(s, e.conn)
    /\ batch' = Remaining(e, s')
    /\ pc' = AfterHandler(s')
    /\ UNCHANGED <<night_quit, night_terminate, clients>>

DispatchRead(e) ==
    /\ pc = "dispatch" /\ Delivered(e)
    /\ s.conn[e.conn].handler # "accept"
    /\ s' \in Handle([s EXCEPT !.conn[e.conn].ready = TRUE], e.conn)
    /\ batch' = Remaining(e, s')
    /\ pc' = AfterHandler(s')
    /\ UNCHANGED <<night_quit, night_terminate, clients>>

Skip(e) ==
    /\ pc = "dispatch" /\ ~Delivered(e)
    /\ batch' = batch \ {e}
    /\ UNCHANGED <<s, pc, night_quit, night_terminate, clients>>

\* The end of a pass of the loop of night_worker_process_cycle.
EndPass ==
    /\ pc = "dispatch" /\ batch = {}
    /\ ~night_quit /\ ~night_terminate
    /\ pc' = "wait"
    /\ UNCHANGED <<s, batch, night_quit, night_terminate, clients>>

Terminate ==
    /\ pc = "dispatch" /\ batch = {}
    /\ night_terminate
    /\ pc' = "exited"
    /\ UNCHANGED <<s, batch, night_quit, night_terminate, clients>>

\* night_close_listening_sockets, night_close_idle_connections and the
\* posted events, of which only those of kept-alive connections exist.
Shutdown ==
    LET listen[l \in 0 .. ListenN] ==
            IF l = 0 THEN s ELSE CloseListener(listen[l - 1], l)
        idle[c \in 0 .. ConnectionN] ==
            IF c = 0 THEN listen[ListenN]
            ELSE IF idle[c - 1].conn[c].fd # NoFd /\ idle[c - 1].conn[c].idle
            THEN AskToClose(idle[c - 1], c)
            ELSE idle[c - 1]
        t == idle[ConnectionN]
    IN
    /\ pc = "dispatch" /\ batch = {}
    /\ night_quit /\ ~night_terminate
    /\ s' = [t EXCEPT !.posted = <<>>,
                      !.conn = [c \in Conns |-> [@[c] EXCEPT !.posted = FALSE]]]
    /\ night_quit' = FALSE
    /\ pc' = "exiting"
    /\ UNCHANGED <<batch, night_terminate, clients>>

\* night_exiting is tested at the head of the next pass.
Exit ==
    /\ pc = "exiting"
    /\ pc' = "exited"
    /\ UNCHANGED <<s, batch, night_quit, night_terminate, clients>>

\* night_channel_handler, between two other events of the batch or in a
\* batch of its own (NightProcess has the channel).
ChannelCommand(cmd) ==
    /\ pc \in {"wait", "dispatch"}
    /\ pc' = "dispatch"
    /\ night_quit' = (night_quit \/ cmd = "QUIT")
    /\ night_terminate' = (night_terminate \/ cmd = "TERMINATE")
    /\ UNCHANGED <<s, batch, clients>>

Loop ==
    \/ Wait
    \/ \E e \in batch : DispatchAccept(e) \/ DispatchRead(e) \/ Skip(e)
    \/ EndPass \/ Terminate \/ Shutdown \/ Exit

-----------------------------------------------------------------------------
(* Clients                                                                 *)

Alive == pc \notin {"exited", "lost"}

Arrives(k) == [k EXCEPT !.edge = k.reg # NoConn]

ClientConnect(fd) ==
    /\ Alive
    /\ clients < MaxClients
    /\ s.sock[fd].kind = "listen"
    /\ clients' = clients + 1
    /\ s' = [s EXCEPT !.sock[fd] = Arrives([s.sock[fd] EXCEPT !.rcv = @ + 1])]
    /\ UNCHANGED <<pc, batch, night_quit, night_terminate>>

\* Without reuseport the workers share the listening sockets.
OtherWorkerAccepts(fd) ==
    /\ Alive
    /\ s.sock[fd].kind = "listen" /\ s.sock[fd].rcv > 0
    /\ s' = [s EXCEPT !.sock[fd].rcv = @ - 1]
    /\ UNCHANGED <<pc, batch, night_quit, night_terminate, clients>>

ClientSend(fd) ==
    /\ Alive
    /\ s.sock[fd].kind = "stream" /\ ~s.sock[fd].eof
    /\ s.sock[fd].sent < MaxBytes
    /\ s' = [s EXCEPT !.sock[fd] = Arrives([s.sock[fd] EXCEPT !.rcv = @ + 1,
                                                              !.sent = @ + 1])]
    /\ UNCHANGED <<pc, batch, night_quit, night_terminate, clients>>

ClientClose(fd) ==
    /\ Alive
    /\ s.sock[fd].kind = "stream" /\ ~s.sock[fd].eof
    /\ s' = [s EXCEPT !.sock[fd] = Arrives([s.sock[fd] EXCEPT !.eof = TRUE])]
    /\ UNCHANGED <<pc, batch, night_quit, night_terminate, clients>>

-----------------------------------------------------------------------------
Next ==
    \/ Loop
    \/ \E cmd \in Commands : ChannelCommand(cmd)
    \/ \E fd \in Fds : \/ ClientConnect(fd) \/ ClientSend(fd) \/ ClientClose(fd)
                       \/ OtherWorkerAccepts(fd)

Spec == Init /\ [][Next]_vars

\* The kernel keeps running the worker; clients and the master owe nothing.
FairSpec == Spec /\ WF_vars(Loop)

-----------------------------------------------------------------------------
(* Properties                                                              *)

\* Type invariant of the table, the sockets and the loop.
WorkerTypeOK ==
    /\ s.conn \in [Conns -> Connection]
    /\ s.free \in Seq(Conns)
    /\ s.free_n \in 0 .. ConnectionN
    /\ s.files \in [Fds -> Conns \cup {NoConn}]
    /\ s.reuse \in Seq(Conns)
    /\ s.reusable_n \in 0 .. ConnectionN
    /\ s.timers \subseteq Conns
    /\ s.posted \in Seq(Conns)
    /\ s.sock \in [Fds -> Socket]
    /\ s.lost = (pc = "lost")
    /\ pc \in {"wait", "dispatch", "exiting", "exited", "lost"}
    /\ batch \subseteq Event
    /\ night_quit \in BOOLEAN
    /\ night_terminate \in BOOLEAN
    /\ clients \in 0 .. MaxClients

\* No slot of the connection table is leaked or freed twice by any
\* sequence of accepts, drains, closes and the shutdown.
PoolConserved == PoolOK(s)

\* files[] and the open descriptors agree with the connections in use.
FilesConsistent == FilesOK(s)

\* The queue of reusable connections agrees with the marks in the table.
ReusableConsistent == ReusableOK(s)

\* While the worker serves, no timer, posted event or epoll registration
\* points at a connection that was closed.
NothingDangles == pc \in {"wait", "dispatch"} => NoDangling(s)

\* With one listening socket the instance bit suffices: an event that was
\* collected for a connection closed, and perhaps taken again, by an
\* earlier handler of the batch is not delivered.
StaleEventsDropped == \A e \in batch : e.stale => ~Delivered(e)

Waiting(c) == s.conn[c].fd # NoFd /\ s.conn[c].handler = "wait"

\* When the worker sleeps, every connection that waits for its request is
\* watched by epoll, and what its client has sent is still to be reported:
\* with edge-triggered events nothing else would wake the worker for it.
NoEdgeLost ==
    pc = "wait" =>
      \A c \in Conns :
        Waiting(c) =>
          LET k == s.sock[s.conn[c].fd] IN
          k.reg = c /\ s.conn[c].active /\ (Readable(k) => k.edge)

\* What a client sends while its connection waits for a request is taken up,
\* unless the worker ends.
RequestsTakenUp ==
    \A fd \in Fds :
      (s.files[fd] # NoConn /\ Waiting(s.files[fd]) /\ s.sock[fd].rcv > 0)
        ~> (s.sock[fd].rcv = 0 \/ ~Alive)

\* Accepting is resumed some time after it was disabled for want of
\* descriptors (comment at night_event_accept.c:35).
AcceptResumes ==
    \A l \in Listeners :
      ~s.conn[l].active ~> (s.conn[l].active \/ ~Alive)

\* A request line that has arrived in full, in however many pieces, from a
\* client that stays is parsed, refused or closed:
\* night_http_process_request_line goes on until it succeeds, fails or has to
\* wait for more data (comment at night_http_request.c:351).
RequestLineCompletes ==
    \A fd \in Fds :
      (/\ s.files[fd] # NoConn
       /\ s.conn[s.files[fd]].handler = "line"
       /\ s.sock[fd].sent >= LineLen)
        ~> (\/ ~Alive
            \/ s.files[fd] = NoConn
            \/ s.conn[s.files[fd]].handler # "line"
            \/ s.conn[s.files[fd]].left = "bad"
            \/ s.sock[fd].eof)
=============================================================================
