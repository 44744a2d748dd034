# A verification project for the night server

`night` is a rewrite in C of the core of nginx, kept with an analysis of the
nginx start-up sequence in this repository. The full server is
`src/chapter_1/night/src_2025_11_30` (about 20 000 lines); paths below are
relative to it. `src/chapter_1/night/src` is a later restart of the same
program that so far only starts up, and `src/chapter_1/Nginx` is the unmodified
third-party source the text discusses. Neither is modelled.

The project consists of TLA+ modules for the parts of the server whose
behaviour depends on order (processes, signals, events, connections, phases,
output) and for its algorithms (parsers, configuration reader, location trees,
timer tree), of TLC configurations that check them on small instances, and of
TLAPS proofs.

## Inventory

| Component | State | Operations | Interacts with |
|---|---|---|---|
| process management `core/night_process.c`, `night_process_cycle.c` | `night_processes[]`, `night_last_process`, the flags `night_reap`, `night_quit`, `night_terminate` | spawn, reap, signal the workers, master loop, worker loop, exits | signals, channel, event loop |
| signals `core/night_signal.c`, `night_signal_process.c` | signal table, blocked mask | handler, `-s stop/quit` | sets the flags of the master, marks slots |
| channel `core/night_channel.c` | one socketpair per slot | write, read, handler | master writes, the worker's event loop reads |
| connection table `core/night_connection.c` | free list, `files[]`, reusable queue, instance bits | get, free, close, reusable, drain, close idle | accept, HTTP, channel |
| event loop `event/*.c`, `event/modules/night_epoll_module.c` | epoll interest, timer tree, posted queues | add, delete, process events, timers, posted, accept | calls the handlers of connections |
| HTTP connection and request `http/night_http_connection.c`, `night_http_request.c` | handlers of a connection, request, keep-alive | wait, read and parse, run, finalize, keep-alive, close | connection table, timers, posted events |
| HTTP parsers `http/night_http_parse.c` | automaton state in the request | request line, header line, URI | fed from the header buffer |
| HTTP phases, locations `http/night_http_core_module.c`, `night_http_module.c` and handlers | phase array, location tree | phase checkers, location search | request life cycle |
| output `core/night_output_chain.c`, `night_buf.c`, the `*_filter` modules, `os/unix/*_chain.c` | chains of buffers | header, body, write filters, writev and sendfile | connection |
| data structures `core/night_rbtree.c`, `night_queue.*`, `night_list.c`, `night_array.c`, `night_hash.c`, `night_pool.c` | | insert, delete, sort, lookup, allocate | everything |
| configuration `core/night_conf.c`, `night_cycle.c`, `night_modules.c` | module contexts | tokenise, dispatch directives | start-up only |
| open file cache, time, files, strings | | | helpers |

What is hard: the SIGCHLD handler runs between any two steps of the master;
commands travel over sockets that fill up; workers crash at any point; a
connection is referenced at once from the free list, `files[]`, the reusable
queue, the timer tree, the posted queue and the epoll set, and one handler may
close a connection for which the same batch of events holds another event. A
request runs its phases inside themselves when it is redirected, and each run
finalizes it. A response leaves in pieces the kernel chooses. Much of the input is
read by automata whose fields are set on one path and used on another.

## Modules

### NightProcess (with MCNightProcess, NightProcessProofs)

Models the master from the first `fork()` on, its workers and the channels.

* `proc`, `last` are `night_processes[]` and `night_last_process`; a slot keeps
  `pid`, whether its channel is open, `exited`, `exiting`, `detached`. `mpc` is
  where the master is, `mi` the index of the loop it is in, `live` and `signo`
  the locals of the loops. `wpc`, `wslot`, `wchannel`, `peers` are a worker's
  position, slot, its end of the channel and the other slots' channel ends it
  inherited. `chan` are the bytes in the socket buffers, as messages.
* Each loop iteration of `night_spawn_process` (split at `fork()`),
  `night_reap_children` and `night_signal_worker_processes` is an action, because
  the SIGCHLD handler (`SignalHandler("CHLD")`) may run between them. The blocked
  signals are delivered only in `sigsuspend()` (`"suspended"`), or together with
  the one that ends it (`"woken"`).
* The worker of index i has pid i + 1: pids are never reused, since the code
  never respawns.
* `ch` in `night_reap_children` is uninitialised: the announcement carries any
  command of `Garbage` or, with a bad descriptor, is not sent at all.
* A worker reads its whole channel in one action (the handler loops until
  EAGAIN), then exits on its next pass. `WorkerCrash` covers the `exit()` calls of
  the initialisation and any abnormal death.

Not in the module: what a worker does between channel messages, the process
titles, logs and the pid file.

### NightConnection and NightWorker (with MCNightWorker, NightWorkerProofs)

NightConnection holds the operations on one worker's connection table as
operators on a record `s`, which stands for the structure `night_cycle` and the
worker's descriptors: `conn` (the connections with their read events), `free`
and `free_n` (the free list and its counter), `files`, `reuse` and `reusable_n`
(the queue of reusable connections), `timers`, `posted`, and `sock`, the kernel's
view of each descriptor with its epoll registration. The C code updates one
global structure in place and calls freely between these functions, so an
operator from record to record is the closest image of a function: `Take` is
`night_get_connection` after its drain, `CloseConnection` is
`night_close_connection`, `Drain`, `Reusable`, `HandleReadEvent`, `AddEvent` and so
on keep the code's names.

NightWorker gives them their callers. Its state is `s`, the position of the
worker's loop (`pc`), the events of the current `epoll_wait` that are not handled
yet (`batch`) and the shutdown flags. A handler runs to its end in one step,
since the worker has one thread; clients, other workers and the channel act
between any two handlers. A handler that can end in several ways (a call may
fail, a result is uninitialised, a request may come to different outcomes) is an
operator whose value is a set of records.

* `Wait` is `epoll_wait`; `DispatchAccept`, `DispatchRead` and `Skip` are the body of
  the loop of `night_epoll_process_events`, in any order of the events. The
  epoll set is edge-triggered: an arrival sets `edge`, `Wait` clears it.
* `Accept` takes one client per event, drains the table first, and disables
  accepting when descriptors run out.
* `WaitRequest`, `ProcessLine`, `ProcessHeaders`, `ReadMore`, `ProcessRequest`,
  `Finalize` and `SetKeepalive` follow a request. Bytes are counted, not
  represented: `got` is how many the header buffer holds and `left` says whether
  some of them are still unparsed (`"more"`), all are parsed (`"none"`), they end
  with the request line (`"bare"`), or are known to be malformed (`"bad"`). With
  `Longer`, lines and heads may also be longer than `LineLen` and `HeadLen`. A full
  buffer leads to `LargeBuffer`, whose result the code leaves uninitialised.
* `Exhausted` is the header parser at the end of its buffer: it never answers
  NIGHT_AGAIN and reports a line made of what earlier lines left behind, so that
  the request is finalized, or closed, or the worker is lost to a wild pointer or
  an endless loop (`pc = "lost"`). Behind a request line alone no earlier header
  line has left anything, and a header is written through NULL: `NoLineYet`.
  Where a first header line was begun but not ended, `Exhausted` offers more
  outcomes than the pointers left behind could lead to.
* What parsing and the phases make of a complete head is one of `Outcomes`, which
  NightParse and NightPhases look into; `"crash"` stands for the NULL pointer of
  NightPhases' `StaticCrash`, which takes the worker with it. `Faults` switches
  failing allocations and system calls on.
* `Recv` has the results of `night_unix_recv`, with the errno it tests without
  having set it after a full read: EAGAIN, EINTR or neither.
* `EndPass`, `Terminate`, `Shutdown`, `Exit` are the rest of the loop of
  `night_worker_process_cycle`. `ChannelCommand` stands for the channel handler; which
  commands arrive when is NightProcess's subject.
* Timers never expire because the call is commented out in
  `night_process_events_and_timers`; here `timers` matters only as something that
  may point at a closed connection. The tree itself is NightTimers'.

Left out: pools and buffers, write events (none is ever added to epoll), the
upper limit on the events of one `epoll_wait`, UDP sockets.

### NightPhases (with MCNightPhases, NightPhasesProofs)

What `night_http_process_request` does with a parsed request. `phase_engine` is the
array `night_http_init_phase_handlers` builds from the registered handlers, with the
jumps (`next`) and the post-access entry counted in by the access phase. Each
checker is an action (`RewritePhase` ... `ContentPhase`), taken when the entry at
`r.phase_handler` names it. `IndexRedirect` is `night_http_index_handler` calling
`night_http_internal_redirect`, which starts the phases again below the content
phase that is still on the stack: `calls` counts those, and `RedirectReturns` is
such a content phase finalizing for NIGHT_DONE. `finalize_request`, `close_request`
and `set_keepalive` follow the reference count. Whether the worker is stopping
(`stopping`) is settled when a request begins: signals are blocked in the workers,
and a command over the channel is read by the event loop, before or after it.
`StaticCrash` is `night_http_set_content_type` with an extension it does not know:
it traces the type it did not find, through NULL, and the worker is gone. A uri is
known by whether it ends in "/", the only thing handlers ask of it. Every handler
the build registers besides index, static and autoindex declines whatever it sees;
the engine is modelled for any registration.

### NightOutput and NightStream (with MCNightOutput, NightOutputProofs)

From `night_http_static_handler` to `writev()`. The bytes of a response are
numbered, and a buffer is an interval of them, so that moving, repeating or skipping
a byte shows. `copied` is the chain `night_output_chain` builds, `out` is `r->out`,
and one round of `night_linux_sendfile_chain` is `Writev`, `WritevAgain` or
`WritevFails`. The size of a copy buffer and its recycled flag are uninitialised in
the source and therefore arbitrary. NightStream is what sending promises: the client
sees a growing prefix of the response, and the result NIGHT_OK means all of it was
passed on, NIGHT_AGAIN that some was not. How many buffers a `writev()` is given is
left open above the size of its array (`BufsGiven`), since buffers that adjoin in
memory share an entry of it. NightOutput implements it with `total == header + size`
and its own `wire` and `rc` as the mapping (`ImplementsStream`).

### NightTimers (with MCNightTimers, NightTimersProofs)

`core/night_rbtree.c` with its rotations and `event/night_event_timer.c`. The
left and right halves of the C code are one definition with the side as a
parameter. Parents and children are kept as pointers, the sentinel included,
since deletion works through the sentinel's parent. A loop is one definition for
its turn (`Left`, `Down`, `InsertTurn`, `DeleteTurn`), the identity once the loop's
condition fails, taken as often as there are nodes (`Loop`); that no loop needs more
turns than that is part of what is proved, so nothing is cut off. In the same way
`InOrder` and `BlackHeight`, which only the properties use, are the walks that visit
the whole tree.

### NightParse, NightConf, NightLocations (with MCNightReaders, NightReaderProofs,
NightLocationProofs)

Three sequential algorithms, each checked against a definition of its own.

* NightParse: `night_http_parse_request_line` and `night_http_parse_header_line`, one
  step per character, over classes of characters. `WellFormed` is the language the
  first accepts, written as a grammar rather than an automaton.
* NightConf: `night_conf_parse`, `night_conf_read_token`, `night_conf_handler` with a
  buffer that is filled again in the middle of words. A read may fail (`Refill`), and
  so may what the events and http commands do behind their parse (`BlockFails`). That
  somebody shortens the file while it is read is left out. The reference is a reader
  that has the whole file before it (`Modes`, `WordsOf`, `DepthAt`).
* NightLocations: declaring locations, sorting, joining, nesting and the trees
  (`http/night_http_module.c`), the search of `night_http_core_find_static_location`.
  The reference is nginx's documented rule, over the declarations (`Best`). A loop is
  its turn (`Insert`, `Join`, `SearchTurn`, `LookAgain`), taken as often as needed
  (`After`). A tree depends on nothing but the joined queue it is made from and is
  kept as that queue, a subtree being a part of it; `create_locations_tree` says what
  the root of a part is, and the search asks it for each node it visits. Characters
  are the values of a signed `char`. `LocationUnnamed` is a location of two values
  whose first is not "=": the code says so in its log and goes on with a name it never
  set.

## Runs

| Run | Checks | Instance |
|---|---|---|
| process_safety | `TypeOK`, `NoWorkerForgotten`, `MasterExitsLast`, `SlotsInUse`, `ExitingWasTold` | 3 workers in 3 slots, channels of 2 messages, garbage 1, 2, 4, one operator signal |
| process_live | `ShutdownReachesWorkers` under `FairSpec` | 2 workers, channels of 8 messages, two operator signals, any garbage but OPEN_CHANNEL |
| process_master_exits (violation) | `MasterExits` under `FairSpec` | 1 worker, one SIGQUIT, harmless garbage |
| worker_safety | `WorkerTypeOK`, `PoolConserved`, `FilesConsistent`, `ReusableConsistent`, `NothingDangles`, `StaleEventsDropped` | 3 connections (one listening), 4 descriptors, 3 clients of 2 bytes, buffer of 2, longer heads, heads kept alive, not kept alive, refused or ending the worker, faults, both commands (2.0 million states) |
| worker_live | `RequestsTakenUp` under `FairSpec`, `NoEdgeLost` | the same table, 2 clients, heads of 3 bytes in a buffer of 4, Host lines with their uninitialised result, no faults |
| worker_accept_resumes (violation) | `AcceptResumes` under `FairSpec` | 2 descriptors, 2 clients |
| worker_pieces (violation) | `RequestLineCompletes` under `FairSpec` | 1 client, a line of 2 and a head of 3 bytes in a buffer of 4 |
| phases | `CountMatchesRuns`, `NothingUsesFreed`, `RedirectsBounded`, `CheckedBeforeContent`, `KeepaliveHonoured`, `RequestEnds` | the handlers of the build, two index names of which one is a directory, the limit of 10 redirects the code has, the worker stopping or not |
| output | `BytesConserved`, `ImplementsStream` | headers of 0, 1 or 3 bytes, files of up to 4 in up to 4 buffers, 2 iovecs, a limit of 5, a postpone size of 3 (80 000 states) |
| output_truncated (violation) | `ResponseComplete` | the same |
| timers | `TreeHoldsTimers`, `TreeBalanced`, `SleepsUntilNearest` | 5 events (symmetric), delays 0, 1, 3, lazy delay 2 |
| readers | `LineGrammar`, `FieldsDelimitLine`, `HeaderFields`, `KeyLowered`, `TokensAsWritten`, `BlocksAsBraced`, `LongestPrefixChosen`, `DuplicatesRefused` | request lines of up to 18 and header lines of up to 6 characters, files of up to 7 through a buffer of 3, up to 4 locations of 5 names (2.8 million states) |

process: three workers are the least that leave a live slot on both sides of a
freed one, so that `night_last_process` is lowered once and left alone once; a
channel of two messages fills up with announcements before the command arrives.
In process_live the channels are larger than the number of messages two workers
can cause, and OPEN_CHANNEL is left out of the garbage: with either, a worker can
become deaf (its channel full with only a blocked signal behind it, or closed
after a malformed message), which hazards in PROJECT.json record.

worker: two connections besides the listening one let one be closed and its slot
be taken again while an event for it is in the batch; the third client finds the
table full and makes `night_get_connection` drain it. Four descriptors are one
more than the connections, so that draining, and not the descriptors, is the
limit; exhaustion is then a fault, and the ordinary case in
worker_accept_resumes. Two bytes split a head into its request line and the
rest; a buffer of two is filled by them. `RequestsTakenUp` and `NoEdgeLost` are
claimed for heads smaller than the buffer, as most are: once a read fills it,
`night_unix_recv` may disown what it read. `StaleEventsDropped` is a claim for one
listening socket; with two, two accepts of one batch can take a slot twice, and
the instance bit is back where it was. The handler then finds nothing to read,
so nothing more is claimed.

phases: two index names, one of them a directory, are enough for runs to nest to
the limit and for every depth to end in each way.

output: a limit of 5 is smaller than the largest response of 7, two iovecs fewer
than the largest chain, and 3 postpones a header of 1 but not one of 3; so each of
the loops goes round more than once.

timers: five nodes reach every case of insertion, and of deletion all but one, a
successor that is the deleted node's own child and one that is not included. The one
is a red sibling of the node that is one black short (`night_rbtree.c:349-355` and
its mirror image, `LiftSibling`): it takes six nodes, for which TLC needs longer than
a run is worth with these delays. The theorems about the tree cover it, for any
number of nodes.

readers: 18 characters hold a POST, a blank, "/", and a version of four digits,
one more than is accepted; 6 hold a name longer than the lower-case buffer of 4; a
buffer of 3 is filled again inside words, blanks and comments, and a word of 3 is
too long for it; four locations nest three deep or make a tree with both sides and
a subtree. Names differ in case and in "-", which sorts above "/" in the code and
below it by its character. The names of the readers run are ASCII;
`LongestPrefixChosen` is claimed for those, and fails for others (see Findings).

Deadlock checking is off where the system does stop: when everyone has exited, when
the master sleeps with no worker left, when a worker has no clients, and when a
reader is through with its input.

Fairness. Processes: the kernel schedules every runnable process and delivers
pending unblocked signals, so the steps of the master, of each worker and each
delivery are weakly fair; operators and crashes owe nothing. Worker:
`WF_vars(Loop)`, the scheduler keeps running a worker that has an event to handle;
clients, other workers and the master owe nothing. Phases: `WF_pvars(Run)`, a call that
has begun goes on, on the worker's own thread, until the request is through or the
worker is lost; nothing else acts.

## Proofs

`NightProcessProofs` proves, for any number of slots and workers and any garbage,
that every behaviour of `Spec` satisfies `TypeOK`, `SlotsInUse`,
`NoWorkerForgotten`, `MasterExitsLast` and `ExitingWasTold`. The only assumption is
`ProcessAssumption` on the constants, which TLC evaluates in every run.

None of the five is inductive alone. The proof goes up in four layers, each of
which may use those below it:

* `TypeInv`: `TypeOK`, with `SpawnLoop` and `SpawnSlot`, which say where the master
  can be in its spawning loop and that between `fork()` and the recording of the
  pid the slot it found is still free. Without them `night_last_process` could
  leave its range.
* `TableInv`: `SlotsInUse`, `InUseNotDetached`, `NoWorkerForgotten`. A worker that
  was forked is in a slot below `night_last_process`, or is the one being recorded
  just now; lowering `night_last_process` is harmless because only the topmost slot
  is ever given up.
* `ExitInv`: `ReapLoop` and `MasterExitsLast`. `ReapLoop` relates the local `live` of
  `night_reap_children` to the slots already visited, since the decision to exit is
  made after the loop from that local and not from the table.
* `TellInv`: `FreshWorkers`, `InitChannel`, `ExitingWasTold`. A slot is marked exiting
  only after a message was put into the channel or a signal was sent, and a worker
  that has not started yet finds it there.

Each layer has one lemma for `Init` and one for `Next` with a step per action;
the theorems combine them with PTL.

`NightLemmas` has what several proofs need: induction over the naturals and the
existence of functions defined by recursion, stated with sets and functions
instead of the operator parameters the library's theorems have, which the provers
cannot instantiate (`SetInduction`, `RecursionExists`, from the well-founded order
of the naturals), and least and greatest elements.

The first part of `NightWorkerProofs` is about NightConnection's operators. `TableInv`
says of a
connection table that the free list holds exactly the closed connections, each
once, and `free_n` counts it; that `files[]` and the connections' descriptors name
each other; that the reusable queue holds exactly the connections marked so, and
likewise the posted queue; that a connection registered with epoll is open and has
the instance it was registered with. There is a lemma for each operator, from
`Take` and `CloseConnection` to `Drain`, for any number of connections and
descriptors, from `TableAssumption`. The parts cannot be separated: taking a
connection from the free list is right only because a free connection is in no
queue and in no slot of `files[]`.

The second part puts the worker's loop on top. `LoopInv` (the table's invariant,
timers only on open connections while the worker serves, the events of a batch)
gives `WorkerTypeOK`, `PoolConserved`, `FilesConsistent`, `ReusableConsistent` and
`NothingDangles` for every size of table, buffers and heads, every set of outcomes
and with or without faults. Each handler has a lemma that every record it can
return keeps the invariant. Two properties need an invariant of their own:

* `StaleEventsDropped`, for one listening socket (`ListenN = 1`), by `BatchInv`: while
  the accept event of a batch is pending, a connection closed in this batch is
  still closed; after it, at most one was taken again, with its instance bit
  flipped once. With two sockets the property is false, as said under Runs.
* `NoEdgeLost`, for clients that send less than a header buffer holds
  (`BufSize > MaxBytes`), by `WatchInv`: a connection waiting for its request is
  registered, and data it has not read is announced by an edge or an event of the
  batch. Without the hypothesis a full read may be disowned by `night_unix_recv`,
  and the property is false. The buffer has 1024 bytes unless configured otherwise.

`NightPhasesProofs` proves `NothingUsesFreed` and `RedirectsBounded` for every
registration of handlers, every index list and every limit on redirects, from
`PhasesAssumption`. Neither is inductive: that a nested run does not free what the
outer one uses depends on how many references are left, which the property does
not mention. `PhasesInv` therefore keeps, while the phases run, the reference count
above the number of content phases on the stack, and the redirects left and the
stack adding up to the limit plus one; after a run has finalized, a request that
was freed has nobody waiting for it. `FinalizeReleases` is the lemma about
`finalize_request` everything rests on; then there is one step per action.

It goes on to `CountMatchesRuns`, `CheckedBeforeContent` and `KeepaliveHonoured`. They
depend on what the array looks like: `ArrayShape` and `ArrayCovers` show, through the
recursion that builds it, which entries there are, where each jump leads and that
content entries come last. `RunsInv` then says that a running request has one
reference for itself and one per content phase on the stack, and that it stands at
an entry all of whose predecessors it has passed for this uri, or behind autoindex
only if its uri is no directory. `BuildAssumption` is used here and is what the
build's modules register: an access handler, the static handler called last (the
array is filled from the back), autoindex among the content handlers and nowhere
else. Without it a run could fall off the array without finalizing.

`NightOutputProofs` proves `BytesConserved` and the refinement of NightStream
(`OutputImplementsStream`) for every header, file, cut into buffers, limit and number
of iovecs, from `OutputAssumption`. `OutInv` says that what went out, the queue, the
copied chain and the rest of the file are adjoining intervals that begin at byte 0
and end at the end of the response, that no queued buffer is empty (else a round of
`writev()` might not move), that the last copied buffer is marked, and that nothing is
left behind when the handler is told OK or AGAIN. The work is in the lemmas on
chains (`ChainCut`, `ChainConcat`, `UpdateSent`): what is removed from a chain after n
bytes were written is exactly its first n bytes. Of the refinement, each step is a
step of NightStream or a stutter under the mapping; NightStream has no fairness.

The first part of `NightReaderProofs` proves `LineGrammar`, `FieldsDelimitLine`,
`HeaderFields` and `KeyLowered` for lines of any length and any size of `lowcase_header`
(`ParseAssumption`); `ParseSpec` is the parsers' part of the specification of the
readers run. All four speak of accepted lines only; `ParseInv` says, for each state
of the two automata, what has been read when it is reached and where the pointers
found so far point (`LineInv`, `HeaderInv`). The minor version needs most care: a
number below 1000 may have any number of zeros in front, and the automaton only
sees the value, so `Number` relates value and number of digits. For `KeyLowered` the
index into the wrapping buffer never exceeds the length of the name and equals it
only while nothing has wrapped or been left out.

The second part proves `TokensAsWritten` and `BlocksAsBraced` for every size of the
reader's buffer and of the file (`ConfAssumption`); `ConfSpec` is the reader's part of
the specification of the readers run. The reference is a reader without a buffer,
defined by recursion over the file; that these definitions have the values they say
(`ModesSteps`, `WordsSteps`) and that what is read later does not change what they say
of what was read before (`ModesExtend`, `WordsExtend`, `SplitExtend`) are lemmas of
their own. `ConfInv` says that the buffer holds the end of what was read, from
`word_start` on, and that unless an error was reported the reader is in the mode the
reference is in at its position, with the same unfinished word, the same words of the
directive, the same directives handled and, if braces open blocks, the same depth. The
first half is what makes refilling right: what is moved to the front is exactly the
part of the word already read (`RefillBuffered`). Both properties say nothing once an
error was reported, and `BlocksAsBraced` nothing of a block opened by ";", as the code
does not look at how a directive ended.

`NightLocationProofs` proves `DuplicatesRefused` for any names, bytes above 0x7f
included, and any declarations however they nest, from `NamesAssumption`. It proves
`LongestPrefixChosen` under the hypothesis that no character of a name or a uri is
negative (`PositiveCodes`). The code needs that: `NegativeSortsFirst` proves that a
name which goes on with a byte above 0x7f is sorted before the name it continues,
and the property is false with such names (see Findings). The hypothesis holds in
the instance of the readers run. The invariant is `LocationInv`: every location has
a declared one, or the server, around it; while serving, the queue of every block is
the sorted and joined one; what was chosen for the present uri is what the search
gives. From there the two properties are about the algorithms:

* Comparing: `filename_cmp` is the order of the weights of characters (`CmpSign`), total
  (`Trichotomy`) and transitive (`LessTrans`); transitivity is what insertion sort
  rests on (`SortSorts`), and puts two locations of one name side by side.
* Joining: `join_exact_locations` fails exactly when a name is there twice in the same
  way, and otherwise leaves each name once, in order (`JoinJoins`, `JoinedIs`).
* Lists: names between a name and one that continues it continue it too (`Between`), so
  that the run an inclusive location takes as its list misses none (`ListEndIs`). Here a
  negative character would sort before the end of the shorter name.
* Searching: `SearchOK` says of every turn that whatever matches the uri is in the part
  that is left, or is not longer than what was found (`SearchStep`); the part shrinks
  with every turn (`SearchFinds`).
* Nesting: each look-up goes on in a block declared later (`LookTurn`), so that there
  are turns enough, and the recursion of `Best` has a value (`BestExists`) and is
  followed step by step (`LookupBest`).

`NightTimersProofs` proves `TreeHoldsTimers`, `TreeBalanced` and `SleepsUntilNearest` for
any number of events, any delays and any lazy delay (`TimersAssumption`). None is
inductive. `TimersInv` says that the tree is `Balanced`: there is for each node the set
of nodes at and below it (`Shape`: links and parents agree, siblings share nothing, a
node is not below itself, all timers are below the root), what is left of a node is
not later and what is right not earlier (`Ordered`), and there is a height for each
node that every way down agrees with (`Even`, `Reds`). The sets are what makes a tree
of pointers amenable: a rotation changes two of them, induction goes over their
sizes (`TreeInduction`), and they bound the turns of every loop (`LoopStops`).

* What an operation writes is said once, field by field (`PaintWrites`, `AdoptWrites`,
  `TakePlaceWrites`, `RotateWrites`); all else is about the writes. `RotateShape` and
  `RotateOrdered` are about any rotation in any tree.
* Insertion: `DescentEnds` and `LeafGood` hang the new red node where it belongs; from
  there `InsertGood` holds, the tree but for that node being red below a red parent, and
  `InsertTurnGood` takes it through each of the three cases of a turn.
* Deletion: the node unlinked has at most one child (`UnlinkGood`), and if it was black
  the way to that child, which may be the sentinel, is one black short (`DeleteGood`).
  The code then gives the unlinked node the place of the one deleted; that is a
  renaming of a node of a tree that may be short somewhere (`RenameGood`), and the
  successor of a node may take its place without disturbing the order
  (`SubstituteBetween`). `DeleteTurnGood` takes the shortage through the four cases of a
  turn, which go up or end the loop.
* `SameGood` says that what stands in nodes outside the tree, and the parent of the
  root, do not matter; it is why clearing the node deleted, or setting the key of one
  not yet inserted, harms nothing.
* The properties follow from the invariant by induction over the tree: the walk from
  left to right lists the nodes in order (`InOrderIs`), the count of black nodes is the
  height (`BlackHeightIs`), the leftmost node has the least key (`MinIs`).

TLC checked each of these inductive invariants on a small instance before it was
proved, but for `TimersInv`, whose sets and heights are not for enumerating: what it
says of a state is what `TreeHoldsTimers` and `TreeBalanced` say, which TLC checks.
Assumptions on constants are evaluated by TLC in the runs; the
hypotheses of the two worker theorems and of `LongestPrefixHolds` hold in the
instances of worker_safety, worker_live and readers that check the properties.

Every safety property of the passing runs is stated by a theorem. Only
model-checked are the liveness properties `ShutdownReachesWorkers`, `RequestsTakenUp`
and `RequestEnds`: they need ENABLED and fairness and are out of the prover's reach.

## Findings

Four runs end in a violation; PROJECT.json quotes what a comment or a recorded run
of the repository says and what the code does. SIGCHLD of the last worker can be
handled after the master has tested `night_reap` and before it calls
`sigsuspend()`, which then waits for ever with the flag set (process_master_exits;
`src/chapter_1/night/trace/DaemonMaster_trace:106-177` is a shutdown in which it
arrives in time); accepting is not resumed (worker_accept_resumes); a request line in
two pieces is never completed, since the second piece is read but not added to the
buffer (worker_pieces); a response the socket does not
take at once is cut short (output_truncated).

The models also show the following, each visible in the definition named. No run is
spent on them, since the definition is the whole argument or no document of the
repository says otherwise.

| Where | What the code does | Definition |
|---|---|---|
| `core/night_process.c:154` | the pid of a worker is recorded after `fork()`: one that dies before is collected by the SIGCHLD handler without a slot to mark, and its slot stays taken | `SpawnRecord`, `GetStatus` |
| `core/night_process.c:370` | the announcement of an exited worker carries an uninitialised command, which survivors may take for QUIT or TERMINATE | `Announced` |
| `core/night_signal.c:6` | SIGINT is not in the signal table: it kills the master and leaves the workers | `SigintKills` |
| `core/night_process_cycle.c:198` | QUIT does not wait for requests being read or answered | `Exit` |
| `event/night_event_timer.c:109` | a timer that is due makes `epoll_wait` return at once, and since timers are not expired the loop spins from then on | `find_timer` |
| `event/night_event_accept.c:257` | one client is accepted per edge; a second waits for a third | `Accept` |
| `http/night_http_request.c:1067` | `night_http_keepalive_handler` ignores that the connection is to be closed, so draining frees nothing and clients are refused | `AskToClose` |
| `http/night_http_request.c:905` | a finalized request that is not kept alive leaves its connection open | `Finalize` |
| `os/unix/night_recv.c:98` | after a read that fills the buffer an old errno decides whether it counts | `Recv` |
| `http/night_http_request.c:1343` | a header buffer that ends with the request line is reported as a header line whose start was never set, and a byte is written through NULL | `NoLineYet` |
| `http/night_http_request.c:1439` | the caller handles NIGHT_AGAIN of the header parser, which never returns it | `Exhausted`, `HeaderCut` |
| `http/night_http_parse.c:240` | behind "/" the state becomes sw_check_uri, which the switch has no case for: every uri but "/" is refused | `AfterSlash` |
| `http/night_http_parse.c:129` | HEAD is not recognised; between the method and "/" anything is skipped; an empty header value takes the end of line into the value | `Method`, `LineStep`, `HeaderStep` |
| `core/night_conf.c:90, 100` | an unexpected "}" or end of file is logged and accepted; whether a directive ended in ";" or "{" is not looked at | `Ended`, `Handler` |
| `core/night_file_name.c:80` | names are compared through `char`, signed in gcc's default for x86: with `location /` and `location /é` the longer name is sorted first, stays out of the list of "/", and a request for it is given "/" (in the readers run with the names "/" and <<47, -61, -87>>, TLC refutes `LongestPrefixChosen`) | `filename_cmp`, `NegativeSortsFirst` |
| `event/night_events_module.c:116` | an error inside the events block is overwritten by the result of init_conf | `Return` |
| `http/night_http_core_module.c:1928` | a file whose extension has no type: the trace reads the type through NULL, and the worker crashes | `StaticCrash` |
| `http/night_http_core_module.c:632` | a location of two values whose first is not "=" is logged and then declared with an uninitialised name | `LocationUnnamed` |
| `http/night_http_core_module.c:1427` | the comment calls the comparison of locations case-sensitive; it folds case | `filename_cmp` |
| `core/night_open_file_cache.c:85` | files are opened and never closed | `open_cached_file` |
| `http/night_http_write_filter_module.c:154` | an empty file is answered with an error after its header was queued | `OutputFilter` |

## Not modelled

Opening of listening sockets, daemonising, the pid file, process titles and logs
are one-shot system calls without a later decision. Cycle and module tables are
filled once at start-up. Arrays, lists, the pool and the hash are containers
without an order of events; calendar time and string formatting are conversions no
modelled decision depends on. The handlers of single header fields store what the
line says; the worker sees them as `Outcomes`.

`src/chapter_1/night/src` repeats the start-up of the modelled tree. nginx 1.24.0,
under `src/chapter_1/Nginx`, is third-party code the accompanying text explains; it
is more than nine tenths of the lines of the repository, so the share of all lines
that is modelled stays small however much of `night` itself is covered. Modelling
nginx would say nothing about this repository's own program.

## Plan

Done: the processes, the worker's loop and table, phases, output with its abstract
stream, timers, and the readers; proofs of the safety properties of all of them. Left,
in this order:

1. An abstract supervisor that NightProcess implements, and a composition of
   NightProcess with NightWorker over the channel.
2. The handlers of Host, Connection and Content-Length as the source of `Outcomes`;
   the memory pool and the hash.
