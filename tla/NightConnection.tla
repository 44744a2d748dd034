-------------------------- MODULE NightConnection --------------------------
(***************************************************************************)
(* The connection table of one worker (core/night_connection.c) with the   *)
(* structures that point into it: the free list, files[], the queue of     *)
(* reusable connections, the timer tree, the posted events and the epoll   *)
(* set. night_cycle is one C structure that every operation updates in     *)
(* place; here it is a record s and an operation maps s to the record it   *)
(* leaves behind. NightWorker gives the operations their callers.          *)
(*                                                                         *)
(* Only read events appear: no write event is ever added to epoll.         *)
(***************************************************************************)
EXTENDS Integers, Sequences, FiniteSets

CONSTANTS
    ConnectionN,    \* night_cycle->connection_n (worker_connections)
    ListenN,        \* listening sockets of this worker
    FilesN,         \* night_cycle->files_n (RLIMIT_NOFILE)
    MaxBytes        \* bound: bytes a client sends on one connection

ASSUME TableAssumption ==
    /\ ConnectionN \in Nat
    /\ FilesN \in Nat
    /\ ListenN \in 1 .. ConnectionN
    /\ ListenN <= FilesN
    /\ MaxBytes \in Nat

Conns     == 1 .. ConnectionN
Fds       == 0 .. (FilesN - 1)
Listeners == 1 .. ListenN           \* the connections of the listening sockets
NoFd      == -1
NoConn    == 0

\* rev->handler: which function an event of the connection calls.
Handlers == {"none", "accept", "wait", "line", "headers", "request", "keepalive"}

Connection ==
    [fd : Fds \cup {NoFd}, handler : Handlers, instance : BOOLEAN,
     active : BOOLEAN, ready : BOOLEAN, timer_set : BOOLEAN,
     posted : BOOLEAN, reusable : BOOLEAN, close : BOOLEAN, idle : BOOLEAN,
     got : 0 .. MaxBytes,           \* bytes in the header buffer
     left : {"none", "bare", "more", "bad"}] \* what of them is not yet parsed

\* left is "more" when there is something to parse, "bad" when the parser will
\* refuse it again, "none" when all is parsed, and "bare" when that all is a
\* request line and no header line was ever begun.

\* A descriptor as the kernel sees it. rcv counts unread bytes, or the
\* connections waiting to be accepted; reg and inst are what epoll_ctl was
\* given; edge is an event that epoll_wait has not yet reported.
Socket ==
    [kind : {"closed", "listen", "stream"}, rcv : Nat, sent : Nat,
     eof : BOOLEAN, reg : Conns \cup {NoConn}, inst : BOOLEAN, edge : BOOLEAN]

ClosedSocket == [kind |-> "closed", rcv |-> 0, sent |-> 0, eof |-> FALSE,
                 reg |-> NoConn, inst |-> FALSE, edge |-> FALSE]

InUse(s) == {c \in Conns : s.conn[c].fd # NoFd}

Readable(k) == k.rcv > 0 \/ k.eof

\* night_queue_remove: the one link of c is taken out.
Without(q, c) ==
    LET i == CHOOSE i \in 1 .. Len(q) : q[i] = c
    IN SubSeq(q, 1, i - 1) \o SubSeq(q, i + 1, Len(q))

-----------------------------------------------------------------------------
(* Event operations                                                        *)

AddTimer(s, c) == [s EXCEPT !.conn[c].timer_set = TRUE,
                            !.timers = @ \cup {c}]

DelTimer(s, c) == IF s.conn[c].timer_set
                  THEN [s EXCEPT !.conn[c].timer_set = FALSE,
                                 !.timers = @ \ {c}]
                  ELSE s

Post(s, c) == IF s.conn[c].posted THEN s
              ELSE [s EXCEPT !.conn[c].posted = TRUE,
                             !.posted = Append(@, c)]

DelPosted(s, c) == IF s.conn[c].posted
                   THEN [s EXCEPT !.conn[c].posted = FALSE,
                                  !.posted = Without(@, c)]
                   ELSE s

\* epoll_ctl ADD of a descriptor that is already readable reports it.
AddEvent(s, c) ==
    LET fd == s.conn[c].fd IN
    [s EXCEPT !.conn[c].active = TRUE,
              !.sock[fd] = [@ EXCEPT !.reg = c, !.inst = s.conn[c].instance,
                                     !.edge = Readable(s.sock[fd])]]

\* Mutant: the event is added when the socket is still marked ready.
HandleReadEvent_WhenReady(s, c) ==
    IF ~s.conn[c].active /\ s.conn[c].ready THEN AddEvent(s, c) ELSE s

HandleReadEvent(s, c) ==
    IF ~s.conn[c].active /\ ~s.conn[c].ready THEN AddEvent(s, c) ELSE s

-----------------------------------------------------------------------------
(* The table                                                               *)

\* Mutant: a connection that is already queued is queued once more.
Reusable_NoRemove(s, c, reusable) ==
    [s EXCEPT !.conn[c].reusable = reusable,
              !.reuse = IF reusable THEN <<c>> \o @ ELSE @,
              !.reusable_n = IF reusable THEN @ + 1 ELSE @]

\* night_reusable_connection: take c off the queue, then maybe to its head.
Reusable(s, c, reusable) ==
    LET queue == IF s.conn[c].reusable THEN Without(s.reuse, c) ELSE s.reuse
        n == IF s.conn[c].reusable THEN s.reusable_n - 1 ELSE s.reusable_n
    IN [s EXCEPT !.conn[c].reusable = reusable,
                 !.reuse = IF reusable THEN <<c>> \o queue ELSE queue,
                 !.reusable_n = IF reusable THEN n + 1 ELSE n]

\* Mutant: files[] keeps the freed connection.
FreeConnection_KeepFile(s, c) ==
    [s EXCEPT !.free = <<c>> \o @, !.free_n = @ + 1]

FreeConnection(s, c) ==
    LET fd == s.conn[c].fd IN
    [s EXCEPT !.free = <<c>> \o @, !.free_n = @ + 1,
              !.files[fd] = IF @ = c THEN NoConn ELSE @]

\* c->fd = -1 and close(), which also drops the descriptor from epoll.
CloseFd(s, c) ==
    [s EXCEPT !.conn[c].fd = NoFd, !.sock[s.conn[c].fd] = ClosedSocket]

\* Mutant: the timer outlives the connection.
CloseConnection_KeepTimer(s, c) ==
    IF s.conn[c].fd = NoFd THEN s
    ELSE LET t == DelPosted([s EXCEPT !.conn[c].active = FALSE], c)
         IN CloseFd(FreeConnection(Reusable(t, c, FALSE), c), c)

\* night_close_connection
CloseConnection(s, c) ==
    IF s.conn[c].fd = NoFd THEN s
    ELSE LET t == DelPosted([DelTimer(s, c) EXCEPT !.conn[c].active = FALSE], c)
         IN CloseFd(FreeConnection(Reusable(t, c, FALSE), c), c)

\* night_close_accepted_connection: the connection has no event yet.
CloseAccepted(s, c) == CloseFd(FreeConnection(s, c), c)

\* night_http_close_connection; the pools are left out.
HttpClose(s, c) == CloseConnection(s, c)

\* A reusable or idle connection is asked to go: its handler is called with
\* close set. Of the handlers only night_http_wait_request_handler looks at
\* it; night_http_keepalive_handler returns at once.
AskToClose(s, c) ==
    LET t == [s EXCEPT !.conn[c].close = TRUE] IN
    IF s.conn[c].handler = "wait" THEN HttpClose(t, c) ELSE t

Last(q) == q[Len(q)]

\* night_drain_connections, oldest first.
Drain(s) ==
    LET n == IF s.reusable_n \div 8 < 1 THEN 1
             ELSE IF s.reusable_n \div 8 > 8 THEN 8 ELSE s.reusable_n \div 8
        d[i \in 0 .. n] ==
            IF i = 0 THEN s
            ELSE IF d[i - 1].reuse = <<>> THEN d[i - 1]
            ELSE AskToClose(d[i - 1], Last(d[i - 1].reuse))
        again == d[n].free_n = 0 /\ d[n].reuse # <<>>
    IN
    IF s.free_n > ConnectionN \div 16 \/ s.reusable_n = 0 THEN s
    ELSE IF again THEN AskToClose(d[n], Last(d[n].reuse))
    ELSE d[n]

Fresh(fd, instance) ==
    [fd |-> fd, handler |-> "none", instance |-> instance, active |-> FALSE,
     ready |-> FALSE, timer_set |-> FALSE, posted |-> FALSE,
     reusable |-> FALSE, close |-> FALSE, idle |-> FALSE, got |-> 0,
     left |-> "none"]

\* Mutant: the instance bit is not flipped.
Take_SameInstance(s, fd) ==
    LET c == Head(s.free) IN
    [s EXCEPT !.free = Tail(@), !.free_n = @ - 1,
              !.files[fd] = IF @ = NoConn THEN c ELSE @,
              !.conn[c] = Fresh(fd, @.instance)]

\* Mutant: the counter of free connections is not kept.
Take_KeepCount(s, fd) ==
    LET c == Head(s.free) IN
    [s EXCEPT !.free = Tail(@),
              !.files[fd] = IF @ = NoConn THEN c ELSE @,
              !.conn[c] = Fresh(fd, ~@.instance)]

\* night_get_connection after its drain, when the free list is not empty.
Take(s, fd) ==
    LET c == Head(s.free) IN
    [s EXCEPT !.free = Tail(@), !.free_n = @ - 1,
              !.files[fd] = IF @ = NoConn THEN c ELSE @,
              !.conn[c] = Fresh(fd, ~@.instance)]

\* One listening socket of night_close_listening_sockets.
CloseListener(s, l) ==
    CloseFd(FreeConnection([s EXCEPT !.conn[l].active = FALSE], l), l)

-----------------------------------------------------------------------------
(* night_event_core_process_init: the free list in table order, and the    *)
(* first connections taken for the listening sockets.                      *)
InitCycle ==
    LET conn0 == [c \in Conns |-> Fresh(NoFd, TRUE)]
        listening(c) == [Fresh(c - 1, FALSE) EXCEPT !.handler = "accept",
                                                    !.active = TRUE]
    IN
    [conn |-> [c \in Conns |-> IF c \in Listeners THEN listening(c) ELSE conn0[c]],
     free |-> [i \in 1 .. (ConnectionN - ListenN) |-> ListenN + i],
     free_n |-> ConnectionN - ListenN,
     files |-> [fd \in Fds |-> IF fd + 1 \in Listeners THEN fd + 1 ELSE NoConn],
     reuse |-> <<>>,
     reusable_n |-> 0,
     timers |-> {},
     posted |-> <<>>,
     lost |-> FALSE,                \* a handler did not return
     sock |-> [fd \in Fds |->
                 IF fd + 1 \in Listeners
                 THEN [ClosedSocket EXCEPT !.kind = "listen", !.reg = fd + 1]
                 ELSE ClosedSocket]]

-----------------------------------------------------------------------------
(* What the table owes its users.                                          *)

NoRepeats(q) == \A i, j \in 1 .. Len(q) : i # j => q[i] # q[j]

Members(q) == {q[i] : i \in 1 .. Len(q)}

\* Every connection is either in use or exactly once in the free list, the
\* counter night_drain_connections relies on is the length of that list,
\* and no two connections hold the same descriptor: night_close_connection
\* and night_get_connection neither leak a slot nor free it twice.
PoolOK(s) ==
    /\ NoRepeats(s.free)
    /\ Members(s.free) = Conns \ InUse(s)
    /\ s.free_n = Len(s.free)
    /\ \A c, d \in InUse(s) : s.conn[c].fd = s.conn[d].fd => c = d

\* files[] finds exactly the connections in use, and their descriptors are
\* open: a stale entry would hand a new socket the connection of an old one.
FilesOK(s) ==
    /\ \A c \in InUse(s) : /\ s.files[s.conn[c].fd] = c
                           /\ s.sock[s.conn[c].fd].kind # "closed"
    /\ \A fd \in Fds : s.files[fd] # NoConn => s.conn[s.files[fd]].fd = fd

\* The queue that night_drain_connections closes from holds exactly the
\* connections marked reusable, once each, and only ones without a request.
ReusableOK(s) ==
    /\ NoRepeats(s.reuse)
    /\ Members(s.reuse) = {c \in Conns : s.conn[c].reusable}
    /\ s.reusable_n = Len(s.reuse)
    /\ \A c \in Members(s.reuse) :
         c \in InUse(s) /\ s.conn[c].handler \in {"wait", "keepalive"}

\* Nothing points at a freed connection: the timer tree, the posted queue
\* and the epoll set of open descriptors agree with the marks in the table.
NoDangling(s) ==
    /\ s.timers = {c \in InUse(s) : s.conn[c].timer_set}
    /\ NoRepeats(s.posted)
    /\ Members(s.posted) = {c \in InUse(s) : s.conn[c].posted}
    /\ \A fd \in Fds :
         LET k == s.sock[fd] IN
         k.reg # NoConn => /\ s.conn[k.reg].fd = fd
                           /\ s.conn[k.reg].instance = k.inst
=============================================================================
