---------------------------- MODULE NightProcess ----------------------------
(***************************************************************************)
(* The process model of the night server: one master that forks            *)
(* worker_processes workers, sleeps in sigsuspend(), and passes shutdown   *)
(* commands to the workers over one socketpair each                        *)
(* (core/night_process_cycle.c, night_process.c, night_signal.c,           *)
(* night_channel.c).                                                       *)
(*                                                                         *)
(* The master blocks SIGINT, SIGQUIT and SIGTERM outside sigsuspend() but  *)
(* not SIGCHLD, so the SIGCHLD handler may run between any two of its      *)
(* steps; this is what most of the interleavings below are about.          *)
(***************************************************************************)
EXTENDS Integers, Sequences, FiniteSets

CONSTANTS
    N,                \* worker_processes
    MaxProcesses,     \* NIGHT_MAX_PROCESSES, the size of night_processes[]
    ChanCap,          \* messages a channel socket buffers before EAGAIN
    Garbage,          \* values the uninitialised ch.command may hold
    OperatorSignals,  \* signals an operator sends to the master
    MaxSignals        \* bound: number of signals the operator sends

CMD_OPEN_CHANNEL  == 1
CMD_CLOSE_CHANNEL == 2
CMD_QUIT          == 3
CMD_TERMINATE     == 4
CMD_REOPEN        == 5

Commands == 0 .. CMD_REOPEN     \* 0 stands for every value without a case

ASSUME ProcessAssumption ==
    /\ N \in Nat
    /\ MaxProcesses \in Nat
    /\ ChanCap \in Nat
    /\ Garbage \subseteq Commands
    /\ OperatorSignals \subseteq {"TERM", "QUIT", "INT"}
    /\ MaxSignals \in Nat

Workers == 1 .. N                   \* the worker of index i has pid i + 1
Slots   == 0 .. (MaxProcesses - 1)
NoPid   == -1                       \* night_processes[s].pid of a freed slot

Message == [command : Commands, slot : Slots \cup {0}]

VARIABLES
    proc,            \* night_processes[]
    last,            \* night_last_process
    mpc,             \* where the master is
    mi,              \* loop index of the master's current loop
    mslot,           \* s of night_spawn_process between fork() and its end
    live,            \* result of night_reap_children so far
    signo,           \* argument of night_signal_worker_processes
    night_reap,
    night_quit,
    night_terminate,
    mpending,        \* signals pending for the master
    wpc,             \* where each worker is
    wslot,           \* night_process_slot in each worker
    wchannel,        \* the worker's end of its channel
    peers,           \* slots whose channel[0] the worker has open
    wpending,        \* signals pending, and blocked for good, in the worker
    chan,            \* messages on the way to each worker
    sent             \* signals the operator has sent

masterVars == <<proc, last, mpc, mi, mslot, live, signo,
                night_reap, night_quit, night_terminate>>
workerVars == <<wpc, wslot, wchannel, peers, wpending>>
vars == <<masterVars, mpending, workerVars, chan, sent>>

MasterPC == {"spawn", "record", "top", "suspended", "woken", "reap",
             "decide", "signal", "exited", "killed"}
WorkerPC == {"none", "init", "poll", "terminating", "exiting",
             "zombie", "reaped"}

MasterUp == mpc \notin {"exited", "killed"}

Slot == [pid : Workers \cup {0, NoPid}, open : BOOLEAN,
         exited : BOOLEAN, exiting : BOOLEAN, detached : BOOLEAN]

-----------------------------------------------------------------------------
(* night_master_process_cycle up to its loop: signals are blocked, the     *)
(* static table is zero and the workers are about to be forked.            *)
Init ==
    /\ proc = [s \in Slots |-> [pid |-> 0, open |-> FALSE, exited |-> FALSE,
                                exiting |-> FALSE, detached |-> FALSE]]
    /\ last = 0
    /\ mpc = IF N = 0 THEN "top" ELSE "spawn"
    /\ mi = 0
    /\ mslot = 0
    /\ live = TRUE
    /\ signo = "QUIT"
    /\ night_reap = FALSE
    /\ night_quit = FALSE
    /\ night_terminate = FALSE
    /\ mpending = {}
    /\ wpc = [w \in Workers |-> "none"]
    /\ wslot = [w \in Workers |-> 0]
    /\ wchannel = [w \in Workers |-> "none"]
    /\ peers = [w \in Workers |-> {}]
    /\ wpending = [w \in Workers |-> {}]
    /\ chan = [w \in Workers |-> <<>>]
    /\ sent = 0

-----------------------------------------------------------------------------
(* night_start_worker_processes / night_spawn_process                      *)

\* The first free slot below night_last_process, else night_last_process.
FreeSlot(s) ==
    /\ s \in 0 .. last
    /\ s < last => proc[s].pid = NoPid
    /\ \A t \in 0 .. (s - 1) : proc[t].pid # NoPid

\* Mutant: the spawning loop runs once too often.
AfterSpawn_OneMore == IF mi >= N THEN "top" ELSE "spawn"

AfterSpawn == IF mi + 1 >= N THEN "top" ELSE "spawn"

\* The table is full, or socketpair, fcntl, ioctl or fork fails.
SpawnFail ==
    /\ mpc = "spawn"
    /\ mi' = mi + 1
    /\ mpc' = AfterSpawn
    /\ UNCHANGED <<proc, last, mslot, live, signo, night_reap, night_quit,
                   night_terminate, mpending, workerVars, chan, sent>>

\* fork() returns in the parent; the table is not yet updated.
SpawnFork ==
    /\ mpc = "spawn"
    /\ \E s \in Slots :
         /\ FreeSlot(s)
         /\ mslot' = s
         /\ proc' = [proc EXCEPT ![s].open = TRUE]
         /\ wpc' = [wpc EXCEPT ![mi + 1] = "init"]
         /\ wslot' = [wslot EXCEPT ![mi + 1] = s]
         /\ peers' = [peers EXCEPT ![mi + 1] =
                         {t \in 0 .. (last - 1) : proc[t].open} \cup {s}]
    /\ mpc' = "record"
    /\ UNCHANGED <<last, mi, live, signo, night_reap, night_quit,
                   night_terminate, mpending, wchannel, wpending, chan, sent>>

SpawnRecord ==
    /\ mpc = "record"
    /\ proc' = [proc EXCEPT ![mslot] =
                  [@ EXCEPT !.pid = mi + 1, !.exited = FALSE,
                            !.exiting = FALSE, !.detached = FALSE]]
    /\ last' = IF mslot = last THEN last + 1 ELSE last
    /\ mi' = mi + 1
    /\ mpc' = AfterSpawn
    /\ UNCHANGED <<mslot, live, signo, night_reap, night_quit,
                   night_terminate, mpending, workerVars, chan, sent>>

-----------------------------------------------------------------------------
(* Signals. sigsuspend() installs the empty mask; elsewhere only SIGCHLD   *)
(* is deliverable. SIGINT has no entry in signals[], so it keeps its       *)
(* default action.                                                         *)

Suspend ==
    /\ mpc = "top"
    /\ mpc' = "suspended"
    /\ UNCHANGED <<proc, last, mi, mslot, live, signo, night_reap, night_quit,
                   night_terminate, mpending, workerVars, chan, sent>>

Deliverable(sig) ==
    /\ sig \in mpending
    /\ IF sig = "CHLD" THEN MasterUp ELSE mpc \in {"suspended", "woken"}

Zombies == {w \in Workers : wpc[w] = "zombie"}

\* night_process_get_status: collect every zombie and mark its slot.
GetStatus ==
    /\ wpc' = [w \in Workers |-> IF w \in Zombies THEN "reaped" ELSE wpc[w]]
    /\ proc' = [s \in Slots |->
                  IF s < last /\ proc[s].pid \in Zombies
                  THEN [proc[s] EXCEPT !.exited = TRUE] ELSE proc[s]]

\* night_signal_handler in the master.
SignalHandler(sig) ==
    /\ Deliverable(sig)
    /\ sig # "INT"
    /\ mpending' = mpending \ {sig}
    /\ night_quit' = (night_quit \/ sig = "QUIT")
    /\ night_terminate' = (night_terminate \/ sig = "TERM")
    /\ night_reap' = (night_reap \/ sig = "CHLD")
    /\ IF sig = "CHLD" THEN GetStatus ELSE UNCHANGED <<wpc, proc>>
    /\ mpc' = IF mpc = "suspended" THEN "woken" ELSE mpc
    /\ UNCHANGED <<last, mi, mslot, live, signo, wslot, wchannel, peers,
                   wpending, chan, sent>>

\* The default action of SIGINT kills the master.
SigintKills ==
    /\ Deliverable("INT")
    /\ mpending' = mpending \ {"INT"}
    /\ mpc' = "killed"
    /\ UNCHANGED <<proc, last, mi, mslot, live, signo, night_reap, night_quit,
                   night_terminate, workerVars, chan, sent>>

\* kill, or night -s stop | quit (night_signal_process).
OperatorSignal(sig) ==
    /\ sent < MaxSignals
    /\ MasterUp
    /\ sent' = sent + 1
    /\ mpending' = mpending \cup {sig}
    /\ UNCHANGED <<masterVars, workerVars, chan>>

-----------------------------------------------------------------------------
(* The body of the master's loop, after sigsuspend() returns.              *)

CheckReap ==
    /\ mpc = "woken"
    /\ IF night_reap
       THEN /\ night_reap' = FALSE
            /\ live' = FALSE
            /\ mi' = 0
            /\ mpc' = "reap"
       ELSE /\ live' = TRUE
            /\ mpc' = "decide"
            /\ UNCHANGED <<night_reap, mi>>
    /\ UNCHANGED <<proc, last, mslot, signo, night_quit, night_terminate,
                   mpending, workerVars, chan, sent>>

\* Slots the exit of another slot is announced to.
Announced ==
    {n \in Slots : n < last /\ ~proc[n].exited
                   /\ proc[n].pid # NoPid /\ proc[n].open}

\* night_write_channel to a set of workers; a full socket drops the message.
Write(targets, m) ==
    [w \in Workers |-> IF w \in targets /\ Len(chan[w]) < ChanCap
                       THEN Append(chan[w], m) ELSE chan[w]]

\* Mutant: night_last_process is lowered whichever slot is freed.
ReapExited_AlwaysLower ==
    /\ mpc = "reap" /\ mi < last
    /\ proc[mi].pid # NoPid /\ proc[mi].exited
    /\ proc' = [proc EXCEPT ![mi].open = FALSE,
                            ![mi].detached = TRUE,
                            ![mi].pid = NoPid]
    /\ last' = last - 1
    /\ mi' = mi + 1
    /\ UNCHANGED <<mpc, mslot, live, signo, night_reap, night_quit,
                   night_terminate, mpending, workerVars, chan, sent>>

\* Mutant: only the last slot is freed, the others keep their pid.
ReapExited_KeepPid ==
    /\ mpc = "reap" /\ mi < last
    /\ proc[mi].pid # NoPid /\ proc[mi].exited
    /\ proc' = [proc EXCEPT ![mi].open = FALSE,
                            ![mi].detached = TRUE,
                            ![mi].pid = IF mi = last - 1 THEN NoPid ELSE @]
    /\ last' = IF mi = last - 1 THEN last - 1 ELSE last
    /\ mi' = mi + 1
    /\ UNCHANGED <<mpc, mslot, live, signo, night_reap, night_quit,
                   night_terminate, mpending, workerVars, chan, sent>>

\* night_reap_children at an exited slot: the announcement is built in a
\* struct whose command and fd are never set, so any command may be sent,
\* and a garbage descriptor makes sendmsg() fail.
ReapExited ==
    /\ mpc = "reap" /\ mi < last
    /\ proc[mi].pid # NoPid /\ proc[mi].exited
    /\ \/ /\ ~proc[mi].detached
          /\ \E g \in Garbage :
               chan' = Write({proc[n].pid : n \in Announced},
                             [command |-> g, slot |-> mi])
       \/ UNCHANGED chan
    /\ proc' = [proc EXCEPT ![mi] =
                  [pid |-> NoPid, open |-> proc[mi].open /\ proc[mi].detached,
                   exited |-> TRUE, exiting |-> proc[mi].exiting,
                   detached |-> TRUE]]
    /\ last' = IF mi = last - 1 THEN last - 1 ELSE last
    /\ mi' = mi + 1
    /\ UNCHANGED <<mpc, mslot, live, signo, night_reap, night_quit,
                   night_terminate, mpending, workerVars, sent>>

\* Mutant: a worker that has not been told to exit does not count as live.
ReapOther_OnlyExiting ==
    /\ mpc = "reap" /\ mi < last
    /\ proc[mi].pid = NoPid \/ ~proc[mi].exited
    /\ live' = (live \/ (proc[mi].pid # NoPid /\ proc[mi].exiting))
    /\ mi' = mi + 1
    /\ UNCHANGED <<proc, last, mpc, mslot, signo, night_reap, night_quit,
                   night_terminate, mpending, workerVars, chan, sent>>

\* night_reap_children at any other slot.
ReapOther ==
    /\ mpc = "reap" /\ mi < last
    /\ proc[mi].pid = NoPid \/ ~proc[mi].exited
    /\ live' = (live \/ (/\ proc[mi].pid # NoPid
                         /\ proc[mi].exiting \/ ~proc[mi].detached))
    /\ mi' = mi + 1
    /\ UNCHANGED <<proc, last, mpc, mslot, signo, night_reap, night_quit,
                   night_terminate, mpending, workerVars, chan, sent>>

ReapDone ==
    /\ mpc = "reap" /\ mi >= last
    /\ mpc' = "decide"
    /\ UNCHANGED <<proc, last, mi, mslot, live, signo, night_reap, night_quit,
                   night_terminate, mpending, workerVars, chan, sent>>

\* Exit, start passing the command to the workers, or sleep again.
Decide ==
    /\ mpc = "decide"
    /\ \/ /\ ~live /\ (night_terminate \/ night_quit)
          /\ mpc' = "exited"
          /\ UNCHANGED <<mi, signo>>
       \/ /\ live /\ (night_terminate \/ night_quit)
          /\ signo' = IF night_terminate THEN "TERM" ELSE "QUIT"
          /\ mi' = 0
          /\ mpc' = "signal"
       \/ /\ ~night_terminate /\ ~night_quit
          /\ mpc' = "top"
          /\ UNCHANGED <<mi, signo>>
    /\ UNCHANGED <<proc, last, mslot, live, night_reap, night_quit,
                   night_terminate, mpending, workerVars, chan, sent>>

\* Mutant: SIGTERM is passed on as a command no worker acts on.
CommandOf_Reopen(sig) == IF sig = "QUIT" THEN CMD_QUIT ELSE CMD_REOPEN

CommandOf(sig) == IF sig = "QUIT" THEN CMD_QUIT ELSE CMD_TERMINATE

\* Mutant: a slot is marked exiting whatever became of the message.
SignalSlot_NoKill ==
    /\ mpc = "signal" /\ mi < last
    /\ LET p == proc[mi].pid IN
       IF p = NoPid \/ (proc[mi].exiting /\ signo = "QUIT")
       THEN UNCHANGED <<proc, chan>>
       ELSE /\ chan' = Write({p}, [command |-> CommandOf(signo), slot |-> 0])
            /\ proc' = [proc EXCEPT ![mi].exiting = TRUE]
    /\ mi' = mi + 1
    /\ UNCHANGED <<last, mpc, mslot, live, signo, night_reap, night_quit,
                   night_terminate, mpending, workerVars, sent>>

\* One slot of night_signal_worker_processes. Workers inherit the blocked
\* mask of the master, so the kill() that backs up a failed write stays
\* pending in the worker.
SignalSlot ==
    /\ mpc = "signal" /\ mi < last
    /\ LET p == proc[mi].pid IN
       \/ /\ p = NoPid \/ (proc[mi].exiting /\ signo = "QUIT")
          /\ UNCHANGED <<proc, chan, wpending>>
       \/ /\ p # NoPid /\ ~(proc[mi].exiting /\ signo = "QUIT")
          /\ \/ /\ Len(chan[p]) < ChanCap
                /\ chan' = [chan EXCEPT ![p] =
                     Append(@, [command |-> CommandOf(signo), slot |-> 0])]
                /\ proc' = [proc EXCEPT ![mi].exiting = TRUE]
                /\ UNCHANGED wpending
             \/ /\ Len(chan[p]) >= ChanCap
                /\ wpc[p] # "reaped"
                /\ wpending' = [wpending EXCEPT ![p] = @ \cup {signo}]
                /\ proc' = [proc EXCEPT ![mi].exiting = TRUE]
                /\ UNCHANGED chan
             \/ /\ Len(chan[p]) >= ChanCap
                /\ wpc[p] = "reaped"                        \* ESRCH
                /\ UNCHANGED <<proc, chan, wpending>>
    /\ mi' = mi + 1
    /\ UNCHANGED <<last, mpc, mslot, live, signo, night_reap, night_quit,
                   night_terminate, mpending, wpc, wslot, wchannel, peers,
                   sent>>

SignalDone ==
    /\ mpc = "signal" /\ mi >= last
    /\ mpc' = "top"
    /\ UNCHANGED <<proc, last, mi, mslot, live, signo, night_reap, night_quit,
                   night_terminate, mpending, workerVars, chan, sent>>

MasterStep ==
    \/ SpawnFail \/ SpawnFork \/ SpawnRecord \/ Suspend \/ CheckReap
    \/ ReapExited \/ ReapOther \/ ReapDone \/ Decide
    \/ SignalSlot \/ SignalDone

-----------------------------------------------------------------------------
(* Workers. Signals stay blocked in them, so a worker only acts on what    *)
(* its event loop reads from the channel.                                  *)

Up(w) == wpc[w] \in {"init", "poll", "terminating", "exiting"}

\* night_worker_process_init: give up the inherited copy of one's own
\* channel[0] and watch channel[1].
WorkerInit(w) ==
    /\ wpc[w] = "init"
    /\ wpc' = [wpc EXCEPT ![w] = "poll"]
    /\ wchannel' = [wchannel EXCEPT ![w] = "open"]
    /\ peers' = [peers EXCEPT ![w] = @ \ {wslot[w]}]
    /\ UNCHANGED <<masterVars, mpending, wslot, wpending, chan, sent>>

\* Some process still has the other end of the worker's channel open.
HasWriter(w) ==
    \/ MasterUp /\ proc[wslot[w]].open
    \/ \E v \in Workers : v # w /\ Up(v) /\ wslot[w] \in peers[v]

\* night_channel_handler followed by the checks of the worker's loop. The
\* handler reads until EAGAIN; an end of file, or an OPEN_CHANNEL message
\* that carries no descriptor, makes it close the channel after the first
\* n messages. (recvmsg leaves the control buffer uninitialised when there
\* is no descriptor, so the malformed message may also be let through.)
WorkerPoll(w) ==
    /\ wpc[w] = "poll"
    /\ wchannel[w] = "open"
    /\ chan[w] # <<>> \/ ~HasWriter(w)
    /\ \E n \in 0 .. Len(chan[w]) :
         LET got   == {chan[w][k] : k \in 1 .. n}
             fatal == \/ n < Len(chan[w])
                      \/ ~HasWriter(w)
         IN
         /\ n < Len(chan[w]) => chan[w][n + 1].command = CMD_OPEN_CHANNEL
         /\ wchannel' = [wchannel EXCEPT ![w] = IF fatal THEN "closed" ELSE @]
         /\ peers' = [peers EXCEPT ![w] =
               @ \ {m.slot : m \in {x \in got : x.command = CMD_CLOSE_CHANNEL}}]
         /\ wpc' = [wpc EXCEPT ![w] =
               IF \E m \in got : m.command = CMD_TERMINATE THEN "terminating"
               ELSE IF \E m \in got : m.command = CMD_QUIT THEN "exiting"
               ELSE @]
    /\ chan' = [chan EXCEPT ![w] = <<>>]
    /\ UNCHANGED <<masterVars, mpending, wslot, wpending, sent>>

Die(w) ==
    /\ wpc' = [wpc EXCEPT ![w] = "zombie"]
    /\ mpending' = IF MasterUp THEN mpending \cup {"CHLD"} ELSE mpending
    /\ UNCHANGED <<masterVars, wslot, wchannel, peers, wpending, chan, sent>>

\* night_worker_process_exit, on the pass of the loop that follows.
WorkerExit(w) ==
    /\ wpc[w] \in {"terminating", "exiting"}
    /\ Die(w)

\* A failed initialisation, or an abnormal death at any point.
WorkerCrash(w) ==
    /\ Up(w)
    /\ Die(w)

WorkerStep(w) == WorkerInit(w) \/ WorkerPoll(w) \/ WorkerExit(w)

-----------------------------------------------------------------------------
Next ==
    \/ MasterStep
    \/ \E sig \in {"TERM", "QUIT", "CHLD"} : SignalHandler(sig)
    \/ SigintKills
    \/ \E sig \in OperatorSignals : OperatorSignal(sig)
    \/ \E w \in Workers : WorkerStep(w) \/ WorkerCrash(w)

\* The kernel keeps scheduling every process and delivering its signals;
\* nothing obliges operators to send signals or workers to crash.
Fairness ==
    /\ WF_vars(MasterStep)
    /\ \A sig \in {"TERM", "QUIT", "CHLD"} : WF_vars(SignalHandler(sig))
    /\ WF_vars(SigintKills)
    /\ \A w \in Workers : WF_vars(WorkerStep(w))

Spec == Init /\ [][Next]_vars

FairSpec == Spec /\ Fairness
-----------------------------------------------------------------------------
(* Properties.                                                             *)

\* Type invariant of the process table, the master and the workers.
TypeOK ==
    /\ proc \in [Slots -> Slot]
    /\ last \in 0 .. MaxProcesses
    /\ mpc \in MasterPC
    /\ mi \in Nat
    /\ mslot \in Slots \cup {0}
    /\ live \in BOOLEAN
    /\ signo \in {"TERM", "QUIT"}
    /\ night_reap \in BOOLEAN
    /\ night_quit \in BOOLEAN
    /\ night_terminate \in BOOLEAN
    /\ mpending \subseteq {"TERM", "QUIT", "INT", "CHLD"}
    /\ wpc \in [Workers -> WorkerPC]
    /\ wslot \in [Workers -> Slots \cup {0}]
    /\ wchannel \in [Workers -> {"none", "open", "closed"}]
    /\ peers \in [Workers -> SUBSET Slots]
    /\ wpending \in [Workers -> SUBSET {"TERM", "QUIT"}]
    /\ chan \in [Workers -> Seq(Message)]
    /\ sent \in 0 .. MaxSignals

Recorded(w) == wslot[w] < last /\ proc[wslot[w]].pid = w

BeingRecorded(w) == mpc = "record" /\ w = mi + 1

\* No forked worker that the master has not yet waited for is missing from
\* the part of night_processes[] below night_last_process, whatever slots
\* night_reap_children has freed and however far it has lowered
\* night_last_process: otherwise no later shutdown would reach the worker.
NoWorkerForgotten ==
    MasterUp =>
      \A w \in Workers :
        (Up(w) \/ wpc[w] = "zombie") => (Recorded(w) \/ BeingRecorded(w))

\* night_master_process_exit is reached only after every worker has died
\* and has been waited for: SIGCHLD handlers that run in the middle of
\* night_reap_children never make it miss a live slot.
MasterExitsLast ==
    mpc = "exited" => \A w \in Workers : wpc[w] \in {"none", "reaped"}

\* A slot is marked exited, and so later closed and freed, only for a
\* worker that waitpid() has returned, and the channel the master writes
\* commands to is open for every slot in use.
SlotsInUse ==
    \A s \in Slots :
      s < last /\ proc[s].pid # NoPid =>
        /\ proc[s].pid \in Workers
        /\ wslot[proc[s].pid] = s
        /\ proc[s].open
        /\ proc[s].exited => wpc[proc[s].pid] = "reaped"

ShutdownCommand(m) == m.command \in {CMD_QUIT, CMD_TERMINATE}

\* When night_signal_worker_processes has marked a slot exiting (and so
\* skips it on later SIGQUITs), the worker has the command in its channel,
\* has acted on it, or has lost the channel or only got a blocked signal:
\* the mark is never set ahead of the message.
ExitingWasTold ==
    \A s \in Slots :
      s < last /\ proc[s].pid # NoPid /\ proc[s].exiting =>
        LET w == proc[s].pid IN
        \/ \E k \in 1 .. Len(chan[w]) : ShutdownCommand(chan[w][k])
        \/ wpc[w] \in {"terminating", "exiting", "zombie", "reaped"}
        \/ wchannel[w] = "closed"
        \/ wpending[w] # {}

\* A shutdown request that reached the master reaches every worker: they
\* all leave their event loops (night_process_cycle.c:143, :153).
ShutdownReachesWorkers ==
    (night_quit \/ night_terminate) ~> (\A w \in Workers : ~Up(w))

Collected(s) == proc[s].pid # NoPid => proc[s].exited

\* Once the SIGCHLD handler has marked the last slot in use, the loop of a
\* master that was told to shut down takes night_reap up and exits, as it does
\* in the run recorded in trace/DaemonMaster_trace:106-177.
MasterExits ==
    (/\ night_quit \/ night_terminate
     /\ night_reap
     /\ last > 0
     /\ \A s \in Slots : s < last => Collected(s)) ~> (mpc = "exited")
=============================================================================
