------------------------- MODULE NightProcessProofs -------------------------
(***************************************************************************)
(* Proofs about NightProcess, for every number of workers, every size of   *)
(* the process table and every channel capacity.                           *)
(***************************************************************************)
EXTENDS NightProcess, TLAPS

-----------------------------------------------------------------------------
(* The inductive invariant.                                                *)

\* While workers are being forked, the loop index is in range and the slots
\* in use belong to workers forked earlier.
SpawnLoop ==
    mpc \in {"spawn", "record"} =>
      /\ mi < N
      /\ \A s \in Slots : s < last /\ proc[s].pid # NoPid => proc[s].pid <= mi

\* Between fork() and the update of the table, the chosen slot is free, its
\* channel is open and the new worker knows its number.
SpawnSlot ==
    mpc = "record" =>
      /\ mslot \in Slots
      /\ mslot <= last
      /\ mslot < last => proc[mslot].pid = NoPid
      /\ wslot[mi + 1] = mslot
      /\ proc[mslot].open

\* Slots in use are not detached.
InUseNotDetached ==
    \A s \in Slots : s < last /\ proc[s].pid # NoPid => ~proc[s].detached

\* As long as night_reap_children has seen nothing live, every slot it has
\* passed is free.
ReapLoop ==
    mpc \in {"reap", "decide"} /\ ~live =>
      \A s \in Slots :
        s < last /\ (mpc = "reap" => s < mi) => proc[s].pid = NoPid

TypeInv == TypeOK /\ SpawnLoop /\ SpawnSlot

TableInv == SlotsInUse /\ InUseNotDetached /\ NoWorkerForgotten

ExitInv == ReapLoop /\ MasterExitsLast

\* Workers that are still to be forked have never run, and a worker opens
\* its channel only at the end of its initialisation.
FreshWorkers ==
    \A w \in Workers :
      (\/ mpc = "spawn" /\ w > mi
       \/ mpc = "record" /\ w > mi + 1)
      => wpc[w] = "none"

InitChannel ==
    \A w \in Workers : wpc[w] \in {"none", "init"} => wchannel[w] = "none"

TellInv == FreshWorkers /\ InitChannel /\ ExitingWasTold

IndInv == TypeInv /\ TableInv /\ ExitInv /\ TellInv

-----------------------------------------------------------------------------
(* Facts about the constants and the types.                                *)

\* The assumption on the constants, one membership each.
LEMMA Constants ==
    /\ N \in Nat /\ MaxProcesses \in Nat /\ ChanCap \in Nat
    /\ Garbage \subseteq Commands /\ MaxSignals \in Nat
    /\ OperatorSignals \subseteq {"TERM", "QUIT", "INT"}
BY ProcessAssumption

\* What TypeOK says of the table, in the form the provers use.
LEMMA TableTypes ==
    ASSUME TypeOK
    PROVE  /\ proc \in [Slots -> Slot]
           /\ \A s \in Slots : /\ proc[s] \in Slot
                               /\ proc[s].pid \in Workers \cup {0, NoPid}
                               /\ proc[s].pid \in Int
                               /\ proc[s].open \in BOOLEAN
                               /\ proc[s].exited \in BOOLEAN
                               /\ proc[s].exiting \in BOOLEAN
                               /\ proc[s].detached \in BOOLEAN
           /\ last \in Nat /\ last <= MaxProcesses
           /\ mi \in Nat
<1>1. proc \in [Slots -> Slot] /\ last \in 0 .. MaxProcesses /\ mi \in Nat
  BY DEF TypeOK
<1> QED BY <1>1, Constants DEF Slot, Workers, NoPid

-----------------------------------------------------------------------------
(* Type correctness. TypeOK alone is not inductive: the pid that           *)
(* SpawnRecord stores is a worker only because the spawning loop is in     *)
(* range, and night_last_process stays within the table only because the   *)
(* slot chosen before fork() was.                                          *)

\* A failed socketpair() or fork() leaves the types and the spawning loop in order.
LEMMA SpawnFailType == ASSUME TypeInv, SpawnFail PROVE TypeInv'
<1>1. TypeOK'
  BY DEF TypeInv, TypeOK, SpawnFail, AfterSpawn, workerVars, MasterPC
<1>2. SpawnLoop'
  BY Constants, TableTypes DEF TypeInv, SpawnLoop, SpawnFail, AfterSpawn
<1>3. SpawnSlot'
  BY DEF SpawnSlot, SpawnFail, AfterSpawn
<1> QED BY <1>1, <1>2, <1>3 DEF TypeInv

\* fork() puts the new worker into the slot that was found free.
LEMMA SpawnForkType == ASSUME TypeInv, SpawnFork PROVE TypeInv'
<1>1. PICK s \in Slots :
        /\ FreeSlot(s)
        /\ mslot' = s
        /\ proc' = [proc EXCEPT ![s].open = TRUE]
        /\ wpc' = [wpc EXCEPT ![mi + 1] = "init"]
        /\ wslot' = [wslot EXCEPT ![mi + 1] = s]
        /\ peers' = [peers EXCEPT ![mi + 1] =
                        {t \in 0 .. (last - 1) : proc[t].open} \cup {s}]
  BY DEF SpawnFork
<1>2. /\ proc \in [Slots -> Slot] /\ last \in 0 .. MaxProcesses /\ mi \in Nat
      /\ mi + 1 \in Workers /\ wslot \in [Workers -> Slots \cup {0}]
      /\ peers \in [Workers -> SUBSET Slots]
  BY Constants DEF TypeInv, TypeOK, SpawnFork, SpawnLoop, Workers
<1>3. proc' \in [Slots -> Slot]
  <2>1. [proc[s] EXCEPT !.open = TRUE] \in Slot
    BY <1>2 DEF Slot
  <2> QED BY <1>1, <1>2, <2>1
<1>4. {t \in 0 .. (last - 1) : proc[t].open} \cup {s} \in SUBSET Slots
  BY <1>2, Constants DEF Slots
<1>5. peers' \in [Workers -> SUBSET Slots]
  BY <1>1, <1>2, <1>4
<1>6. TypeOK'
  BY <1>1, <1>2, <1>3, <1>5 DEF TypeInv, TypeOK, SpawnFork, MasterPC, WorkerPC
<1>7. SpawnLoop'
  <2>1. \A t \in Slots : proc'[t].pid = proc[t].pid
    BY <1>1, <1>2 DEF Slot
  <2> QED BY <2>1 DEF TypeInv, SpawnLoop, SpawnFork
<1>8. SpawnSlot'
  <2>1. proc'[s].open /\ proc'[s].pid = proc[s].pid /\ wslot'[mi + 1] = s
    BY <1>1, <1>2 DEF Slot
  <2> QED BY <1>1, <1>2, <2>1 DEF SpawnSlot, SpawnFork, FreeSlot
<1> QED BY <1>6, <1>7, <1>8 DEF TypeInv

\* The record SpawnRecord stores, and what it leaves alone.
LEMMA SpawnRecordFacts ==
    ASSUME TypeInv, SpawnRecord
    PROVE  /\ mi + 1 \in Workers /\ mslot \in Slots
           /\ last' \in 0 .. MaxProcesses /\ last <= last' /\ mslot < last'
           /\ \A s \in Slots : s # mslot => proc'[s] = proc[s]
           /\ \A s \in Slots : s # mslot => (s < last' <=> s < last)
           /\ proc'[mslot] = [proc[mslot] EXCEPT
                                !.pid = mi + 1, !.exited = FALSE,
                                !.exiting = FALSE, !.detached = FALSE]
           /\ proc'[mslot] \in Slot
           /\ proc' \in [Slots -> Slot]
<1>1. /\ mi + 1 \in Workers /\ mslot \in Slots /\ last' \in 0 .. MaxProcesses
      /\ last <= last' /\ mslot < last'
      /\ \A s \in Slots : s # mslot => (s < last' <=> s < last)
  BY Constants
     DEF TypeInv, TypeOK, SpawnLoop, SpawnSlot, SpawnRecord, Workers, Slots
<1>2. proc \in [Slots -> Slot]
  BY TableTypes DEF TypeInv
<1>3. [proc[mslot] EXCEPT !.pid = mi + 1, !.exited = FALSE,
                          !.exiting = FALSE, !.detached = FALSE] \in Slot
  BY <1>1, <1>2 DEF Slot
<1>4. /\ proc'[mslot] = [proc[mslot] EXCEPT
                            !.pid = mi + 1, !.exited = FALSE,
                            !.exiting = FALSE, !.detached = FALSE]
      /\ \A s \in Slots : s # mslot => proc'[s] = proc[s]
  BY <1>1, <1>2 DEF SpawnRecord
<1>5. proc' \in [Slots -> Slot]
  BY <1>1, <1>2, <1>3 DEF SpawnRecord
<1> QED BY <1>1, <1>3, <1>4, <1>5

\* Recording the pid keeps night_last_process in its range.
LEMMA SpawnRecordType == ASSUME TypeInv, SpawnRecord PROVE TypeInv'
<1>1. mi' \in Nat /\ mpc' \in MasterPC
  BY DEF TypeInv, TypeOK, SpawnRecord, MasterPC, AfterSpawn
<1>2. TypeOK'
  BY <1>1, SpawnRecordFacts DEF TypeInv, TypeOK, SpawnRecord, workerVars
<1>3. proc'[mslot].pid = mi + 1
  BY SpawnRecordFacts, TableTypes DEF TypeInv, Slot
<1>4. SpawnLoop'
  BY <1>3, Constants, SpawnRecordFacts, TableTypes
     DEF TypeInv, SpawnLoop, SpawnRecord, AfterSpawn
<1>5. SpawnSlot'
  BY DEF SpawnSlot, SpawnRecord, AfterSpawn
<1> QED BY <1>2, <1>4, <1>5 DEF TypeInv

\* night_process_get_status only sets exited, and only reaps zombies.
LEMMA GetStatusTable ==
    ASSUME TypeOK, GetStatus
    PROVE  /\ proc' \in [Slots -> Slot]
           /\ \A s \in Slots :
                /\ proc'[s].pid = proc[s].pid
                /\ proc'[s].open <=> proc[s].open
                /\ proc'[s].exiting <=> proc[s].exiting
                /\ proc'[s].detached <=> proc[s].detached
                /\ proc'[s].exited =>
                     (proc[s].exited \/ (s < last /\ proc[s].pid \in Zombies))
<1>1. \A s \in Slots : proc[s] \in Slot
  BY TableTypes
<1>2. \A s \in Slots : [proc[s] EXCEPT !.exited = TRUE] \in Slot
  BY <1>1 DEF Slot
<1> QED BY <1>1, <1>2 DEF GetStatus, Slot

\* waitpid() collects every zombie and touches no other worker.
LEMMA GetStatusWorkers ==
    ASSUME TypeOK, GetStatus
    PROVE  /\ wpc' \in [Workers -> WorkerPC]
           /\ \A w \in Workers :
                wpc'[w] = IF wpc[w] = "zombie" THEN "reaped" ELSE wpc[w]
BY DEF GetStatus, TypeOK, WorkerPC, Zombies

\* The handler may run between any two steps of the spawning loop.
LEMMA SignalHandlerType ==
    ASSUME TypeInv, NEW sig \in {"TERM", "QUIT", "CHLD"}, SignalHandler(sig)
    PROVE  TypeInv'
<1>1. /\ proc' \in [Slots -> Slot]
      /\ wpc' \in [Workers -> WorkerPC]
      /\ \A s \in Slots : /\ proc'[s].pid = proc[s].pid
                          /\ proc'[s].open <=> proc[s].open
  <2>1. CASE sig = "CHLD"
    BY <2>1, GetStatusTable, GetStatusWorkers DEF TypeInv, SignalHandler
  <2>2. CASE sig # "CHLD"
    BY <2>2 DEF TypeInv, TypeOK, SignalHandler
  <2> QED BY <2>1, <2>2
<1>2. /\ mpc' \in MasterPC
      /\ mpc' \in {"spawn", "record"} => mpc' = mpc
  BY DEF TypeInv, TypeOK, SignalHandler, MasterPC
<1>3. TypeOK'
  BY <1>1, <1>2 DEF TypeInv, TypeOK, SignalHandler
<1>4. SpawnLoop' /\ SpawnSlot'
  BY <1>1, <1>2 DEF TypeInv, SpawnLoop, SpawnSlot, SignalHandler
<1> QED BY <1>3, <1>4 DEF TypeInv

\* Messages and slot numbers written by the master are well formed.
LEMMA WriteType ==
    ASSUME TypeOK, NEW T, NEW m \in Message
    PROVE  Write(T, m) \in [Workers -> Seq(Message)]
<1>1. chan \in [Workers -> Seq(Message)]
  BY DEF TypeOK
<1> QED BY <1>1 DEF Write

\* What giving up an exited worker's slot changes.
LEMMA ReapExitedFacts ==
    ASSUME TypeInv, ReapExited
    PROVE  /\ mi \in Slots /\ mi < last
           /\ proc[mi].pid # NoPid /\ proc[mi].exited
           /\ proc' \in [Slots -> Slot]
           /\ proc'[mi].pid = NoPid
           /\ \A s \in Slots : s # mi => proc'[s] = proc[s]
           /\ last' \in 0 .. MaxProcesses /\ last' <= last
           /\ \A s \in Slots : s # mi => (s < last' <=> s < last)
<1>1. /\ mi \in Slots /\ mi < last /\ last' \in 0 .. MaxProcesses
      /\ last' <= last
      /\ \A s \in Slots : s # mi => (s < last' <=> s < last)
  BY TableTypes, Constants DEF TypeInv, ReapExited, Slots
<1>2. /\ proc \in [Slots -> Slot] /\ proc[mi].open \in BOOLEAN
      /\ proc[mi].detached \in BOOLEAN
  BY <1>1, TableTypes DEF TypeInv
<1> DEFINE r == [pid |-> NoPid, open |-> proc[mi].open /\ proc[mi].detached,
                 exited |-> TRUE, exiting |-> proc[mi].exiting,
                 detached |-> TRUE]
<1>3. r \in Slot /\ r.pid = NoPid
  BY <1>1, <1>2, TableTypes DEF Slot, TypeInv
<1>4. proc' = [proc EXCEPT ![mi] = r]
  BY DEF ReapExited
<1> HIDE DEF r
<1>5. /\ proc' \in [Slots -> Slot] /\ proc'[mi] = r
      /\ \A s \in Slots : s # mi => proc'[s] = proc[s]
  BY <1>1, <1>2, <1>3, <1>4
<1>6. proc[mi].pid # NoPid /\ proc[mi].exited
  BY DEF ReapExited
<1> QED BY <1>1, <1>3, <1>5, <1>6

\* Giving up a slot lowers night_last_process at most within its range.
LEMMA ReapExitedType == ASSUME TypeInv, ReapExited PROVE TypeInv'
<1>1. chan' \in [Workers -> Seq(Message)]
  <2>1. \A g \in Garbage : [command |-> g, slot |-> mi] \in Message
    BY ReapExitedFacts, Constants DEF Message
  <2>2. \/ chan' = chan
        \/ \E g \in Garbage, T \in SUBSET Int :
             chan' = Write(T, [command |-> g, slot |-> mi])
    <3>1. {proc[n].pid : n \in Announced} \in SUBSET Int
      BY TableTypes DEF TypeInv, Announced
    <3> QED BY <3>1 DEF ReapExited
  <2>3. CASE chan' = chan
    BY <2>3 DEF TypeInv, TypeOK
  <2>4. ASSUME NEW g \in Garbage, NEW T \in SUBSET Int,
               chan' = Write(T, [command |-> g, slot |-> mi])
        PROVE  chan' \in [Workers -> Seq(Message)]
    BY <2>1, <2>4, WriteType DEF TypeInv
  <2> QED BY <2>2, <2>3, <2>4
<1>2. /\ mi' \in Nat /\ mpc' = mpc
      /\ UNCHANGED <<mslot, live, signo, night_reap, night_quit,
                     night_terminate, mpending, workerVars, sent>>
  BY TableTypes DEF TypeInv, ReapExited
<1>3. TypeOK'
  BY <1>1, <1>2, ReapExitedFacts DEF TypeInv, TypeOK, workerVars
<1>4. SpawnLoop' /\ SpawnSlot'
  BY DEF SpawnLoop, SpawnSlot, ReapExited
<1> QED BY <1>3, <1>4 DEF TypeInv

\* What one step of night_signal_worker_processes may do to the table.
LEMMA SignalSlotFacts ==
    ASSUME TypeInv, SignalSlot
    PROVE  /\ mi \in Slots /\ mi < last
           /\ proc' \in [Slots -> Slot]
           /\ \A s \in Slots : s # mi => proc'[s] = proc[s]
           /\ proc' = proc \/ proc' = [proc EXCEPT ![mi].exiting = TRUE]
           /\ proc'[mi].pid = proc[mi].pid
           /\ proc'[mi].open <=> proc[mi].open
           /\ proc'[mi].exited <=> proc[mi].exited
           /\ proc'[mi].detached <=> proc[mi].detached
<1>1. mi \in Slots /\ mi < last /\ proc \in [Slots -> Slot]
  BY TableTypes, Constants DEF TypeInv, SignalSlot, Slots
<1>2. proc' = proc \/ proc' = [proc EXCEPT ![mi].exiting = TRUE]
  BY DEF SignalSlot
<1>3. [proc[mi] EXCEPT !.exiting = TRUE] \in Slot
  BY <1>1 DEF Slot
<1>4. CASE proc' = proc
  BY <1>1, <1>4
<1>5. CASE proc' = [proc EXCEPT ![mi].exiting = TRUE]
  BY <1>1, <1>3, <1>5 DEF Slot
<1> QED BY <1>2, <1>4, <1>5

\* Telling one slot keeps the types, whether the channel takes the message or not.
LEMMA SignalSlotType == ASSUME TypeInv, SignalSlot PROVE TypeInv'
<1> DEFINE p == proc[mi].pid
           msg == [command |-> CommandOf(signo), slot |-> 0]
<1>1. /\ chan \in [Workers -> Seq(Message)]
      /\ wpending \in [Workers -> SUBSET {"TERM", "QUIT"}]
      /\ signo \in {"TERM", "QUIT"}
  BY DEF TypeInv, TypeOK
<1>2. msg \in Message
  BY DEF Message, CommandOf, Commands, CMD_QUIT, CMD_TERMINATE, CMD_REOPEN
<1>3. \/ chan' = chan
      \/ chan' = [chan EXCEPT ![p] = Append(@, msg)]
  BY DEF SignalSlot
<1>4. \/ wpending' = wpending
      \/ wpending' = [wpending EXCEPT ![p] = @ \cup {signo}]
  BY DEF SignalSlot
<1> HIDE DEF msg, p
<1>5. chan' \in [Workers -> Seq(Message)]
  <2>1. \A w \in Workers : Append(chan[w], msg) \in Seq(Message)
    BY <1>1, <1>2
  <2> QED BY <1>1, <1>3, <2>1
<1>6. wpending' \in [Workers -> SUBSET {"TERM", "QUIT"}]
  BY <1>1, <1>4
<1>7. /\ mi' \in Nat /\ mpc' = mpc
      /\ UNCHANGED <<last, mslot, live, signo, night_reap, night_quit,
                     night_terminate, mpending, wpc, wslot, wchannel, peers,
                     sent>>
  BY TableTypes DEF TypeInv, SignalSlot
<1>8. TypeOK'
  BY <1>5, <1>6, <1>7, SignalSlotFacts DEF TypeInv, TypeOK
<1>9. SpawnLoop' /\ SpawnSlot'
  BY DEF SpawnLoop, SpawnSlot, SignalSlot
<1> QED BY <1>8, <1>9 DEF TypeInv

\* The master's steps that touch neither the table nor a worker.
QuietStep ==
    \/ SpawnFail \/ Suspend \/ CheckReap \/ ReapOther \/ ReapDone \/ Decide
    \/ SignalDone \/ SigintKills
    \/ \E sig \in OperatorSignals : OperatorSignal(sig)

\* The steps of QuietStep change neither the table nor the workers.
LEMMA QuietFrame ==
    ASSUME QuietStep
    PROVE  UNCHANGED <<proc, last, wpc, wslot, wchannel, wpending, chan>>
BY DEF QuietStep, SpawnFail, Suspend, CheckReap, ReapOther, ReapDone, Decide,
   SignalDone, SigintKills, OperatorSignal, masterVars, workerVars

\* They keep the types.
LEMMA QuietType == ASSUME TypeInv, QuietStep PROVE TypeInv'
<1> USE DEF TypeInv, TypeOK, SpawnLoop, SpawnSlot, workerVars, MasterPC
<1>1. CASE Suspend
  BY <1>1 DEF Suspend
<1>2. CASE CheckReap
  <2>1. /\ mpc' \in MasterPC /\ mi' \in Nat /\ live' \in BOOLEAN
        /\ night_reap' \in BOOLEAN /\ mpc' \notin {"spawn", "record"}
        /\ UNCHANGED <<proc, last, mslot, signo, night_quit, night_terminate,
                       mpending, workerVars, chan, sent>>
    <3>1. CASE night_reap
      <4>1. /\ night_reap' = FALSE /\ live' = FALSE /\ mi' = 0 /\ mpc' = "reap"
            /\ UNCHANGED <<proc, last, mslot, signo, night_quit,
                           night_terminate, mpending, workerVars, chan, sent>>
        BY ONLY <1>2, <3>1 DEF CheckReap
      <4> QED BY ONLY <4>1 DEF MasterPC
    <3>2. CASE ~night_reap
      BY <1>2, <3>2 DEF CheckReap
    <3> QED BY <3>1, <3>2
  <2> QED BY <2>1
<1>3. CASE ReapOther
  <2>1. live' \in BOOLEAN
    BY <1>3 DEF ReapOther
  <2> QED BY <1>3, <2>1 DEF ReapOther
<1>4. CASE ReapDone
  BY <1>4 DEF ReapDone
<1>5. CASE Decide
  BY <1>5 DEF Decide
<1>6. CASE SignalDone
  BY <1>6 DEF SignalDone
<1>7. CASE SigintKills
  BY <1>7 DEF SigintKills
<1>8. CASE \E sig \in OperatorSignals : OperatorSignal(sig)
  <2>1. sent' \in 0 .. MaxSignals
    BY <1>8, Constants DEF OperatorSignal
  <2>2. mpending' \subseteq {"TERM", "QUIT", "INT", "CHLD"}
    BY <1>8, Constants DEF OperatorSignal
  <2> QED BY <1>8, <2>1, <2>2 DEF OperatorSignal, masterVars
<1> QED
  BY SpawnFailType, <1>1, <1>2, <1>3, <1>4, <1>5, <1>6, <1>7, <1>8
     DEF QuietStep

\* What a worker's step leaves alone, and where it takes the worker.
LEMMA WorkerFacts ==
    ASSUME TypeOK, NEW w \in Workers, WorkerStep(w) \/ WorkerCrash(w)
    PROVE  /\ UNCHANGED <<masterVars, wslot, wpending, sent>>
           /\ Up(w)
           /\ wpc' \in [Workers -> WorkerPC]
           /\ \A v \in Workers : v # w => wpc'[v] = wpc[v]
           /\ wpc'[w] \in {"poll", "terminating", "exiting", "zombie"}
<1>1. wpc \in [Workers -> WorkerPC]
  BY DEF TypeOK
<1>2. CASE WorkerInit(w)
  BY <1>1, <1>2 DEF WorkerInit, Up, WorkerPC
<1>3. CASE WorkerPoll(w)
  <2>1. PICK n : wpc' = [wpc EXCEPT ![w] =
          IF \E m \in {chan[w][k] : k \in 1 .. n} : m.command = CMD_TERMINATE
          THEN "terminating"
          ELSE IF \E m \in {chan[w][k] : k \in 1 .. n} : m.command = CMD_QUIT
          THEN "exiting" ELSE @]
    BY <1>3 DEF WorkerPoll
  <2> QED BY <1>1, <1>3, <2>1 DEF WorkerPoll, Up, WorkerPC
<1>4. CASE WorkerExit(w) \/ WorkerCrash(w)
  BY <1>1, <1>4 DEF WorkerExit, WorkerCrash, Die, Up, WorkerPC
<1> QED BY <1>2, <1>3, <1>4 DEF WorkerStep

\* A worker's own steps, and its death, keep the types.
LEMMA WorkerType ==
    ASSUME TypeInv, NEW w \in Workers, WorkerStep(w) \/ WorkerCrash(w)
    PROVE  TypeInv'
<1>1. /\ chan \in [Workers -> Seq(Message)]
      /\ peers \in [Workers -> SUBSET Slots]
      /\ wchannel \in [Workers -> {"none", "open", "closed"}]
      /\ mpending \subseteq {"TERM", "QUIT", "INT", "CHLD"}
  BY DEF TypeInv, TypeOK
<1>2. chan' \in [Workers -> Seq(Message)]
  <2>1. chan' = chan \/ chan' = [chan EXCEPT ![w] = <<>>]
    BY DEF WorkerStep, WorkerInit, WorkerPoll, WorkerExit, WorkerCrash, Die
  <2>2. <<>> \in Seq(Message)
    OBVIOUS
  <2> QED BY <1>1, <2>1, <2>2
<1>3. peers' \in [Workers -> SUBSET Slots]
  BY <1>1 DEF WorkerStep, WorkerInit, WorkerPoll, WorkerExit, WorkerCrash, Die
<1>4. wchannel' \in [Workers -> {"none", "open", "closed"}]
  BY <1>1 DEF WorkerStep, WorkerInit, WorkerPoll, WorkerExit, WorkerCrash, Die
<1>5. mpending' \subseteq {"TERM", "QUIT", "INT", "CHLD"}
  BY <1>1 DEF WorkerStep, WorkerInit, WorkerPoll, WorkerExit, WorkerCrash, Die
<1>6. TypeOK'
  BY <1>2, <1>3, <1>4, <1>5, WorkerFacts DEF TypeInv, TypeOK, masterVars
<1>7. SpawnLoop' /\ SpawnSlot'
  BY WorkerFacts DEF TypeInv, SpawnLoop, SpawnSlot, masterVars
<1> QED BY <1>6, <1>7 DEF TypeInv

\* The master starts with an empty table and nothing spawned.
LEMMA InitType == Init => TypeInv
<1> SUFFICES ASSUME Init PROVE TypeInv
  OBVIOUS
<1>1. [pid |-> 0, open |-> FALSE, exited |-> FALSE, exiting |-> FALSE,
       detached |-> FALSE] \in Slot
  BY DEF Slot
<1>2. TypeOK
  <2>1. <<>> \in Seq(Message)
    OBVIOUS
  <2>2. chan \in [Workers -> Seq(Message)] /\ proc \in [Slots -> Slot]
    BY <1>1, <2>1 DEF Init
  <2>3. /\ wpc \in [Workers -> WorkerPC]
        /\ wslot \in [Workers -> Slots \cup {0}]
        /\ wchannel \in [Workers -> {"none", "open", "closed"}]
        /\ peers \in [Workers -> SUBSET Slots]
        /\ wpending \in [Workers -> SUBSET {"TERM", "QUIT"}]
    BY DEF Init, WorkerPC
  <2>4. mpc \in MasterPC /\ last \in 0 .. MaxProcesses /\ sent \in 0 .. MaxSignals
    BY Constants DEF Init, MasterPC
  <2> QED BY <2>2, <2>3, <2>4 DEF Init, TypeOK
<1>3. SpawnLoop /\ SpawnSlot
  BY Constants DEF Init, SpawnLoop, SpawnSlot, Slots
<1> QED BY <1>2, <1>3 DEF TypeInv

\* The cases every invariance proof below goes through.
LEMMA NextCases ==
    ASSUME Next
    PROVE  \/ QuietStep \/ SpawnFork \/ SpawnRecord \/ ReapExited \/ SignalSlot
           \/ \E sig \in {"TERM", "QUIT", "CHLD"} : SignalHandler(sig)
           \/ \E w \in Workers : WorkerStep(w) \/ WorkerCrash(w)
BY DEF Next, MasterStep, QuietStep

\* TypeInv is inductive.
LEMMA TypeStep == TypeInv /\ [Next]_vars => TypeInv'
<1> SUFFICES ASSUME TypeInv, [Next]_vars PROVE TypeInv'
  OBVIOUS
<1>1. CASE Next
  BY <1>1, NextCases, QuietType, SpawnForkType, SpawnRecordType,
     ReapExitedType, SignalSlotType, SignalHandlerType, WorkerType
<1>2. CASE UNCHANGED vars
  BY <1>2 DEF vars, masterVars, workerVars, TypeInv, TypeOK, SpawnLoop,
     SpawnSlot
<1> QED BY <1>1, <1>2

\* The type invariant of the process model holds for every number of
\* workers, table size and channel capacity: in particular the pids stored
\* in night_processes[] are those of workers and night_last_process never
\* leaves the table.
THEOREM TypeCorrect == Spec => []TypeOK
<1>1. TypeInv => TypeOK
  BY DEF TypeInv
<1> QED BY <1>1, InitType, TypeStep, PTL DEF Spec

-----------------------------------------------------------------------------
(* The process table.                                                      *)

\* fork() is done for worker mi + 1 and moves the master to the recording.
LEMMA SpawnForkFrame ==
    ASSUME TypeInv, SpawnFork
    PROVE  /\ mi + 1 \in Workers /\ mpc = "spawn" /\ mpc' = "record"
           /\ UNCHANGED <<last, mi, chan, wchannel, wpending>>
BY Constants DEF TypeInv, TypeOK, SpawnFork, SpawnLoop, Workers

\* Before the pid is recorded only the channel of the slot has changed.
LEMMA SpawnForkSlots ==
    ASSUME TypeInv, SpawnFork
    PROVE  \A t \in Slots : /\ proc'[t].pid = proc[t].pid
                            /\ proc'[t].exited <=> proc[t].exited
                            /\ proc'[t].exiting <=> proc[t].exiting
                            /\ proc'[t].detached <=> proc[t].detached
                            /\ proc[t].open => proc'[t].open
<1>1. PICK s \in Slots : proc' = [proc EXCEPT ![s].open = TRUE]
  BY DEF SpawnFork
<1> QED BY <1>1, TableTypes DEF TypeInv, Slot

\* fork() starts one worker and leaves the others alone.
LEMMA SpawnForkWorkers ==
    ASSUME TypeInv, SpawnFork
    PROVE  /\ \A w \in Workers : w # mi + 1 => /\ wpc'[w] = wpc[w]
                                               /\ wslot'[w] = wslot[w]
           /\ wpc'[mi + 1] = "init"
<1>1. PICK s \in Slots :
        /\ wpc' = [wpc EXCEPT ![mi + 1] = "init"]
        /\ wslot' = [wslot EXCEPT ![mi + 1] = s]
  BY DEF SpawnFork
<1> QED BY <1>1, SpawnForkFrame DEF TypeInv, TypeOK

\* A recorded worker has a slot.
LEMMA RecordedSlot ==
    ASSUME TypeOK, NEW w \in Workers, Recorded(w)
    PROVE  wslot[w] \in Slots /\ w # NoPid
BY TableTypes, Constants DEF TypeOK, Recorded, Slots, Workers, NoPid

\* A worker just forked is the one being recorded, so it is not forgotten.
LEMMA SpawnForkTable == ASSUME TypeInv, TableInv, SpawnFork PROVE TableInv'
<1>1. \A s \in Slots : s < last /\ proc[s].pid # NoPid
                      => proc[s].pid \in Workers /\ proc[s].pid # mi + 1
  BY SpawnForkFrame, SpawnForkSlots, SpawnForkWorkers, TableTypes DEF TypeInv, TableInv, SpawnLoop, SlotsInUse
<1>2. SlotsInUse'
  BY <1>1, SpawnForkFrame, SpawnForkSlots, SpawnForkWorkers DEF TableInv, SlotsInUse
<1>3. InUseNotDetached'
  BY SpawnForkFrame, SpawnForkSlots, SpawnForkWorkers DEF TableInv, InUseNotDetached
<1>4. NoWorkerForgotten'
  <2> SUFFICES ASSUME NEW w \in Workers, Up(w)' \/ wpc'[w] = "zombie"
               PROVE  Recorded(w)' \/ BeingRecorded(w)'
    BY DEF NoWorkerForgotten
  <2>1. CASE w = mi + 1
    BY <2>1, SpawnForkFrame, SpawnForkSlots, SpawnForkWorkers DEF BeingRecorded
  <2>2. CASE w # mi + 1
    <3>1. Recorded(w)
      BY <2>2, SpawnForkFrame, SpawnForkWorkers
         DEF TableInv, NoWorkerForgotten, MasterUp, Up, BeingRecorded
    <3> QED BY <2>2, <3>1, RecordedSlot, SpawnForkFrame, SpawnForkSlots,
               SpawnForkWorkers DEF Recorded, TypeInv
  <2> QED BY <2>1, <2>2
<1> QED BY <1>2, <1>3, <1>4 DEF TableInv

\* Recording the pid makes the new worker's slot one in use.
LEMMA SpawnRecordTable == ASSUME TypeInv, TableInv, SpawnRecord PROVE TableInv'
<1>1. /\ proc'[mslot].pid = mi + 1 /\ proc'[mslot].exited = FALSE
      /\ proc'[mslot].detached = FALSE /\ proc'[mslot].open
      /\ wslot[mi + 1] = mslot /\ wslot' = wslot /\ wpc' = wpc
      /\ mpc = "record"
  BY SpawnRecordFacts, TableTypes
     DEF TypeInv, SpawnSlot, SpawnRecord, Slot, workerVars
<1>2. SlotsInUse'
  <2> SUFFICES ASSUME NEW s \in Slots, s < last', proc'[s].pid # NoPid
               PROVE  /\ proc'[s].pid \in Workers
                      /\ wslot[proc'[s].pid] = s
                      /\ proc'[s].open
                      /\ proc'[s].exited => wpc[proc'[s].pid] = "reaped"
    BY <1>1 DEF SlotsInUse
  <2>1. CASE s = mslot
    BY <1>1, <2>1, SpawnRecordFacts
  <2>2. CASE s # mslot
    BY <1>1, <2>2, SpawnRecordFacts DEF TableInv, SlotsInUse
  <2> QED BY <2>1, <2>2
<1>3. InUseNotDetached'
  BY <1>1, SpawnRecordFacts DEF TableInv, InUseNotDetached
<1>4. NoWorkerForgotten'
  <2> SUFFICES ASSUME NEW w \in Workers, Up(w) \/ wpc[w] = "zombie"
               PROVE  Recorded(w)'
    BY <1>1 DEF NoWorkerForgotten, Up
  <2>1. CASE w = mi + 1
    BY <1>1, <2>1, SpawnRecordFacts DEF Recorded
  <2>2. CASE w # mi + 1
    <3>1. Recorded(w)
      BY <1>1, <2>2 DEF TableInv, NoWorkerForgotten, MasterUp, BeingRecorded
    <3>2. wslot[w] \in Slots /\ wslot[w] # mslot
      <4>1. wslot[w] \in Slots /\ w # NoPid
        BY <3>1, RecordedSlot DEF TypeInv
      <4>2. proc[wslot[w]].pid = w /\ wslot[w] < last
        BY <3>1 DEF Recorded
      <4>3. mslot < last => proc[mslot].pid = NoPid
        BY <1>1 DEF TypeInv, SpawnSlot
      <4> QED BY <4>1, <4>2, <4>3
    <3> QED BY <1>1, <3>1, <3>2, SpawnRecordFacts DEF Recorded
  <2> QED BY <2>1, <2>2
<1> QED BY <1>2, <1>3, <1>4 DEF TableInv

\* The handler marks slots exited but gives none up.
LEMMA SignalHandlerTable ==
    ASSUME TypeInv, TableInv, NEW sig \in {"TERM", "QUIT", "CHLD"},
           SignalHandler(sig)
    PROVE  TableInv'
<1>1. /\ UNCHANGED <<last, wslot, mi>>
      /\ MasterUp' => MasterUp
      /\ mpc = "record" => mpc' = "record"
  BY DEF SignalHandler, MasterUp
<1>2. CASE sig = "CHLD"
  <2>1. GetStatus
    BY <1>2 DEF SignalHandler
  <2>2. SlotsInUse'
    BY <1>1, <2>1, GetStatusTable, GetStatusWorkers, TableTypes
       DEF TypeInv, TableInv, SlotsInUse, Zombies
  <2>3. InUseNotDetached'
    BY <1>1, <2>1, GetStatusTable DEF TypeInv, TableInv, InUseNotDetached
  <2>4. NoWorkerForgotten'
    <3> SUFFICES ASSUME NEW w \in Workers, MasterUp,
                        Up(w)' \/ wpc'[w] = "zombie"
                 PROVE  Recorded(w)' \/ BeingRecorded(w)'
      BY <1>1 DEF NoWorkerForgotten
    <3>1. wpc'[w] = wpc[w]
      BY <2>1, GetStatusWorkers DEF TypeInv, Up
    <3>2. Recorded(w) \/ BeingRecorded(w)
      BY <3>1 DEF TableInv, NoWorkerForgotten, Up
    <3>3. CASE Recorded(w)
      BY <1>1, <2>1, <3>3, RecordedSlot, GetStatusTable DEF TypeInv, Recorded
    <3>4. CASE BeingRecorded(w)
      BY <1>1, <3>4 DEF BeingRecorded
    <3> QED BY <3>2, <3>3, <3>4
  <2> QED BY <2>2, <2>3, <2>4 DEF TableInv
<1>3. CASE sig # "CHLD"
  <2>1. UNCHANGED <<proc, wpc>>
    BY <1>3 DEF SignalHandler
  <2> QED BY <1>1, <2>1 DEF TableInv, SlotsInUse, InUseNotDetached,
             NoWorkerForgotten, Up, Recorded, BeingRecorded
<1> QED BY <1>2, <1>3

\* The heart of the matter: a freed slot belonged to a reaped worker, so no
\* worker the master still has to wait for loses its entry.
LEMMA ReapExitedTable == ASSUME TypeInv, TableInv, ReapExited PROVE TableInv'
<1>1. UNCHANGED <<wslot, wpc, mpc>> /\ mpc = "reap"
  BY DEF ReapExited, workerVars
<1>2. proc[mi].pid \in Workers /\ wpc[proc[mi].pid] = "reaped"
  BY ReapExitedFacts DEF TableInv, SlotsInUse
<1>3. SlotsInUse'
  BY <1>1, ReapExitedFacts DEF TableInv, SlotsInUse
<1>4. InUseNotDetached'
  BY <1>1, ReapExitedFacts DEF TableInv, InUseNotDetached
<1>5. NoWorkerForgotten'
  <2> SUFFICES ASSUME NEW w \in Workers, Up(w) \/ wpc[w] = "zombie"
               PROVE  Recorded(w)'
    BY <1>1 DEF NoWorkerForgotten, Up
  <2>1. Recorded(w)
    BY <1>1 DEF TableInv, NoWorkerForgotten, MasterUp, BeingRecorded
  <2>2. wslot[w] \in Slots /\ wslot[w] # mi
    BY <1>2, <2>1, RecordedSlot DEF TypeInv, Recorded, Up
  <2> QED BY <1>1, <2>1, <2>2, ReapExitedFacts DEF Recorded
<1> QED BY <1>3, <1>4, <1>5 DEF TableInv

\* Telling a slot does not change who owns it.
LEMMA SignalSlotTable == ASSUME TypeInv, TableInv, SignalSlot PROVE TableInv'
<1>1. UNCHANGED <<wslot, wpc, mpc, last>> /\ mpc = "signal"
  BY DEF SignalSlot
<1>2. \A s \in Slots : /\ proc'[s].pid = proc[s].pid
                       /\ proc'[s].open <=> proc[s].open
                       /\ proc'[s].exited <=> proc[s].exited
                       /\ proc'[s].detached <=> proc[s].detached
  BY SignalSlotFacts
<1>3. SlotsInUse' /\ InUseNotDetached'
  BY <1>1, <1>2 DEF TableInv, SlotsInUse, InUseNotDetached
<1>4. NoWorkerForgotten'
  BY <1>1, <1>2, RecordedSlot DEF TypeInv, TableInv, NoWorkerForgotten,
     MasterUp, Up, Recorded, BeingRecorded
<1> QED BY <1>3, <1>4 DEF TableInv

\* The quiet steps leave the table alone.
LEMMA QuietTable == ASSUME TableInv, QuietStep PROVE TableInv'
<1>1. /\ MasterUp' => MasterUp
      /\ MasterUp' /\ mpc = "record" => UNCHANGED <<mpc, mi>>
  BY DEF QuietStep, SpawnFail, Suspend, CheckReap, ReapOther, ReapDone, Decide,
     SignalDone, SigintKills, OperatorSignal, masterVars, MasterUp
<1>2. SlotsInUse' /\ InUseNotDetached'
  BY QuietFrame DEF TableInv, SlotsInUse, InUseNotDetached
<1>3. NoWorkerForgotten'
  BY <1>1, QuietFrame DEF TableInv, NoWorkerForgotten, Up, Recorded,
     BeingRecorded
<1> QED BY <1>2, <1>3 DEF TableInv

\* What a worker does cannot change the master's table.
LEMMA WorkerTable ==
    ASSUME TypeInv, TableInv, NEW w \in Workers, WorkerStep(w) \/ WorkerCrash(w)
    PROVE  TableInv'
<1>1. SlotsInUse'
  BY WorkerFacts DEF TypeInv, TableInv, SlotsInUse, masterVars, Up
<1>2. InUseNotDetached'
  BY WorkerFacts DEF TypeInv, TableInv, InUseNotDetached, masterVars
<1>3. NoWorkerForgotten'
  BY WorkerFacts DEF TypeInv, TableInv, NoWorkerForgotten, masterVars, Up,
     Recorded, BeingRecorded, MasterUp
<1> QED BY <1>1, <1>2, <1>3 DEF TableInv

\* The empty table forgets nobody.
LEMMA InitTable == Init => TableInv
BY DEF Init, TableInv, SlotsInUse, InUseNotDetached, NoWorkerForgotten, Up,
   Slots

\* TableInv is inductive relative to TypeInv.
LEMMA TableStep == TypeInv /\ TableInv /\ [Next]_vars => TableInv'
<1> SUFFICES ASSUME TypeInv, TableInv, [Next]_vars PROVE TableInv'
  OBVIOUS
<1>1. CASE Next
  BY <1>1, NextCases, QuietTable, SpawnForkTable, SpawnRecordTable,
     ReapExitedTable, SignalSlotTable, SignalHandlerTable, WorkerTable
<1>2. CASE UNCHANGED vars
  BY <1>2 DEF vars, masterVars, workerVars, TableInv, SlotsInUse,
     InUseNotDetached, NoWorkerForgotten, MasterUp, Up, Recorded, BeingRecorded
<1> QED BY <1>1, <1>2

\* The table is right in every reachable state.
LEMMA TableInvariant == Spec => [](TypeInv /\ TableInv)
BY InitType, InitTable, TypeStep, TableStep, PTL DEF Spec

\* Whatever the interleaving of SIGCHLD with the spawning, reaping and
\* signalling loops, every slot in use names its own worker over an open
\* channel, and is marked exited only after waitpid() returned the worker.
THEOREM SlotsInUseHolds == Spec => []SlotsInUse
<1>1. TypeInv /\ TableInv => SlotsInUse
  BY DEF TableInv
<1> QED BY <1>1, TableInvariant, PTL

\* The master never loses track of a worker it has not waited for, so a
\* later shutdown finds it in night_processes[].
THEOREM NoWorkerForgottenHolds == Spec => []NoWorkerForgotten
<1>1. TypeInv /\ TableInv => NoWorkerForgotten
  BY DEF TableInv
<1> QED BY <1>1, TableInvariant, PTL

-----------------------------------------------------------------------------
(* The exit of the master.                                                 *)

\* Through night_reap_children, live accounts for the slots visited so far.
LEMMA ReapStepExit ==
    ASSUME TypeInv, TableInv, ExitInv, ReapExited \/ ReapOther \/ ReapDone
    PROVE  ExitInv'
<1>1. MasterExitsLast'
  BY DEF MasterExitsLast, ReapExited, ReapOther, ReapDone
<1>2. CASE ReapExited
  <2>1. UNCHANGED <<mpc, live>> /\ mpc = "reap" /\ mi' = mi + 1
    BY <1>2 DEF ReapExited
  <2>2. ReapLoop'
    <3> SUFFICES ASSUME ~live, NEW s \in Slots, s < last', s < mi + 1
                 PROVE  proc'[s].pid = NoPid
      BY <2>1 DEF ReapLoop
    <3>1. CASE s = mi
      BY <1>2, <3>1, ReapExitedFacts
    <3>2. CASE s # mi
      <4>1. s < mi /\ s < last
        BY <1>2, <3>2, ReapExitedFacts, TableTypes DEF TypeInv, Slots
      <4> QED BY <1>2, <2>1, <3>2, <4>1, ReapExitedFacts DEF ExitInv, ReapLoop
    <3> QED BY <3>1, <3>2
  <2> QED BY <1>1, <2>2 DEF ExitInv
<1>3. CASE ReapOther
  <2>1. UNCHANGED <<mpc, proc, last>> /\ mpc = "reap" /\ mi' = mi + 1 /\ mi < last
    BY <1>3 DEF ReapOther
  <2>2. mi \in Slots
    BY <2>1, TableTypes, Constants DEF TypeInv, Slots
  <2>3. ~live' => ~live /\ proc[mi].pid = NoPid
    BY <1>3, <2>1, <2>2 DEF ReapOther, TableInv, InUseNotDetached
  <2>4. \A s \in Slots : s < mi + 1 => s = mi \/ s < mi
    BY TableTypes DEF TypeInv, Slots
  <2>5. ReapLoop'
    BY <2>1, <2>3, <2>4 DEF ExitInv, ReapLoop
  <2> QED BY <1>1, <2>5 DEF ExitInv
<1>4. CASE ReapDone
  <2>1. UNCHANGED <<live, proc, last>> /\ mpc = "reap" /\ mpc' = "decide"
        /\ mi >= last
    BY <1>4 DEF ReapDone
  <2>2. \A s \in Slots : s < last => s < mi
    BY <2>1, TableTypes DEF TypeInv, Slots
  <2>3. ReapLoop'
    BY <2>1, <2>2 DEF ExitInv, ReapLoop
  <2> QED BY <1>1, <2>3 DEF ExitInv
<1> QED BY <1>2, <1>3, <1>4

\* With no live slot left there is no worker left either.
LEMMA DecideExit ==
    ASSUME TypeInv, TableInv, ExitInv, Decide
    PROVE  ExitInv'
<1>1. UNCHANGED wpc /\ mpc = "decide" /\ mpc' \notin {"reap", "decide"}
  BY DEF Decide, workerVars
<1>2. ReapLoop'
  BY <1>1 DEF ReapLoop
<1>3. MasterExitsLast'
  <2> SUFFICES ASSUME mpc' = "exited", NEW w \in Workers
               PROVE  wpc[w] \in {"none", "reaped"}
    BY <1>1 DEF MasterExitsLast
  <2>1. ~live
    BY DEF Decide
  <2>2. \A s \in Slots : s < last => proc[s].pid = NoPid
    BY <1>1, <2>1 DEF ExitInv, ReapLoop
  <2>3. ~Recorded(w)
    BY <2>2, RecordedSlot DEF TypeInv, Recorded
  <2>4. ~Up(w) /\ wpc[w] # "zombie"
    BY <1>1, <2>3 DEF TableInv, NoWorkerForgotten, MasterUp, BeingRecorded
  <2> QED BY <2>4 DEF TypeInv, TypeOK, WorkerPC, Up
<1> QED BY <1>2, <1>3 DEF ExitInv

\* A SIGCHLD during the reaping loop does not upset what live stands for.
LEMMA SignalHandlerExit ==
    ASSUME TypeInv, ExitInv, NEW sig \in {"TERM", "QUIT", "CHLD"},
           SignalHandler(sig)
    PROVE  ExitInv'
<1>1. /\ UNCHANGED <<last, mi, live>>
      /\ mpc' \in {"reap", "decide"} => mpc' = mpc
      /\ mpc' # "exited"
  BY DEF SignalHandler, Deliverable, MasterUp
<1>2. \A s \in Slots : proc'[s].pid = proc[s].pid
  BY GetStatusTable DEF TypeInv, SignalHandler
<1> QED BY <1>1, <1>2 DEF ExitInv, ReapLoop, MasterExitsLast

\* ExitInv is inductive relative to TypeInv and TableInv.
LEMMA ExitStep == TypeInv /\ TableInv /\ ExitInv /\ [Next]_vars => ExitInv'
<1> SUFFICES ASSUME TypeInv, TableInv, ExitInv, [Next]_vars PROVE ExitInv'
  OBVIOUS
<1>1. CASE SpawnFail \/ SpawnFork \/ SpawnRecord \/ SignalSlot \/ Suspend
           \/ SignalDone \/ SigintKills
  <2>1. mpc' \notin {"reap", "decide", "exited"}
    BY <1>1 DEF SpawnFail, SpawnFork, SpawnRecord, AfterSpawn, SignalSlot,
       Suspend, SignalDone, SigintKills
  <2> QED BY <2>1 DEF ExitInv, ReapLoop, MasterExitsLast
<1>2. CASE CheckReap
  <2>1. \/ mpc' = "reap" /\ mi' = 0
        \/ mpc' = "decide" /\ live'
    BY <1>2 DEF CheckReap
  <2> QED BY <2>1 DEF ExitInv, ReapLoop, MasterExitsLast, Slots
<1>3. CASE ReapExited \/ ReapOther \/ ReapDone
  BY <1>3, ReapStepExit
<1>4. CASE Decide
  BY <1>4, DecideExit
<1>5. CASE \E sig \in OperatorSignals : OperatorSignal(sig)
  BY <1>5 DEF OperatorSignal, masterVars, workerVars, ExitInv, ReapLoop,
     MasterExitsLast
<1>6. CASE \E sig \in {"TERM", "QUIT", "CHLD"} : SignalHandler(sig)
  BY <1>6, SignalHandlerExit
<1>7. ASSUME NEW w \in Workers, WorkerStep(w) \/ WorkerCrash(w)
      PROVE  ExitInv'
  BY <1>7, WorkerFacts DEF TypeInv, masterVars, ExitInv, ReapLoop,
     MasterExitsLast, Up
<1>8. CASE UNCHANGED vars
  BY <1>8 DEF vars, masterVars, workerVars, ExitInv, ReapLoop, MasterExitsLast
<1> QED BY <1>1, <1>2, <1>3, <1>4, <1>5, <1>6, <1>7, <1>8 DEF Next, MasterStep

\* The master leaves through night_master_process_exit only when every
\* worker it forked has died and been waited for.
THEOREM MasterExitsLastHolds == Spec => []MasterExitsLast
<1>1. Init => ExitInv
  BY DEF Init, ExitInv, ReapLoop, MasterExitsLast
<1>2. ExitInv => MasterExitsLast
  BY DEF ExitInv
<1> QED BY <1>1, <1>2, InitType, InitTable, TypeStep, TableStep, ExitStep, PTL
           DEF Spec

-----------------------------------------------------------------------------
(* Telling the workers to exit.                                            *)

\* A message in a channel stays there when another is appended.
LEMMA AppendKeeps ==
    ASSUME NEW q \in Seq(Message), NEW m \in Message, NEW k \in 1 .. Len(q)
    PROVE  k \in 1 .. Len(Append(q, m)) /\ Append(q, m)[k] = q[k]
OBVIOUS

\* Worker w has been told to exit, or cannot be told any more.
Told(w) ==
    \/ \E k \in 1 .. Len(chan[w]) : ShutdownCommand(chan[w][k])
    \/ wpc[w] \in {"terminating", "exiting", "zombie", "reaped"}
    \/ wchannel[w] = "closed"
    \/ wpending[w] # {}

InTable(w) == \E s \in Slots : s < last /\ proc[s].pid = w

\* Enough for a step that marks no slot to preserve ExitingWasTold.
LEMMA ToldPreserved ==
    ASSUME TableInv, ExitingWasTold,
           \A s \in Slots : s < last' /\ proc'[s].pid # NoPid /\ proc'[s].exiting
             => s < last /\ proc[s].pid = proc'[s].pid /\ proc[s].exiting,
           \A w \in Workers : InTable(w) /\ Told(w) => Told(w)'
    PROVE  ExitingWasTold'
<1> SUFFICES ASSUME NEW s \in Slots, s < last', proc'[s].pid # NoPid,
                    proc'[s].exiting, NEW w, w = proc'[s].pid
             PROVE  Told(w)'
  BY DEF ExitingWasTold, Told
<1>1. s < last /\ proc[s].pid = w /\ proc[s].exiting /\ w # NoPid
  OBVIOUS
<1>2. w \in Workers /\ InTable(w)
  BY <1>1 DEF TableInv, SlotsInUse, InTable
<1>3. Told(w)
  BY <1>1 DEF ExitingWasTold, Told
<1> QED BY <1>2, <1>3

\* The channel of a worker keeps its messages when the master writes.
LEMMA WriteKeeps ==
    ASSUME TypeOK, NEW T, NEW m \in Message, NEW w \in Workers,
           NEW k \in 1 .. Len(chan[w])
    PROVE  /\ k \in 1 .. Len(Write(T, m)[w])
           /\ Write(T, m)[w][k] = chan[w][k]
<1>1. chan[w] \in Seq(Message)
  BY DEF TypeOK
<1>2. Write(T, m)[w] = chan[w] \/ Write(T, m)[w] = Append(chan[w], m)
  BY DEF Write
<1> QED BY <1>1, <1>2, AppendKeeps

\* A new worker is not yet told anything, and its slot is not marked.
LEMMA SpawnForkTell ==
    ASSUME TypeInv, TableInv, TellInv, SpawnFork PROVE TellInv'
<1>1. FreshWorkers'
  <2>1. \A w \in Workers : w > mi + 1 => w # mi + 1 /\ w > mi
    BY TableTypes, Constants DEF TypeInv, Workers
  <2> QED BY <2>1, SpawnForkFrame, SpawnForkWorkers DEF TellInv, FreshWorkers
<1>2. InitChannel'
  <2>1. wpc[mi + 1] = "none"
    <3>1. mi + 1 > mi
      BY TableTypes DEF TypeInv
    <3> QED BY <3>1, SpawnForkFrame DEF TellInv, FreshWorkers
  <2> QED BY <2>1, SpawnForkFrame, SpawnForkWorkers DEF TellInv, InitChannel
<1>3. ExitingWasTold'
  <2>1. \A s \in Slots : s < last /\ proc[s].pid # NoPid => proc[s].pid <= mi
    BY SpawnForkFrame DEF TypeInv, SpawnLoop
  <2>2. \A w \in Workers : InTable(w) => w # mi + 1
    <3>1. \A w \in Workers : w # NoPid
      BY Constants DEF Workers, NoPid
    <3>2. ~(mi + 1 <= mi)
      BY TableTypes DEF TypeInv
    <3> QED BY <2>1, <3>1, <3>2 DEF InTable
  <2>3. \A w \in Workers : InTable(w) /\ Told(w) => Told(w)'
    BY <2>2, SpawnForkFrame, SpawnForkWorkers DEF Told
  <2> QED BY <2>3, ToldPreserved, SpawnForkFrame, SpawnForkSlots DEF TellInv
<1> QED BY <1>1, <1>2, <1>3 DEF TellInv

\* Recording the pid clears exiting in the slot.
LEMMA SpawnRecordTell ==
    ASSUME TypeInv, TableInv, TellInv, SpawnRecord PROVE TellInv'
<1>1. UNCHANGED <<wpc, wchannel, wpending, chan>> /\ mpc = "record"
      /\ mi' = mi + 1 /\ mpc' \in {"top", "spawn"}
  BY DEF SpawnRecord, workerVars, AfterSpawn
<1>2. FreshWorkers' /\ InitChannel'
  BY <1>1 DEF TellInv, FreshWorkers, InitChannel
<1>3. ~proc'[mslot].exiting
  BY SpawnRecordFacts, TableTypes DEF TypeInv, Slot
<1>4. \A w \in Workers : Told(w) => Told(w)'
  BY <1>1 DEF Told
<1>5. ExitingWasTold'
  BY <1>3, <1>4, ToldPreserved, SpawnRecordFacts DEF TellInv
<1> QED BY <1>2, <1>5 DEF TellInv

\* The handler marks no slot as exiting and takes no message away.
LEMMA SignalHandlerTell ==
    ASSUME TypeInv, TableInv, TellInv, NEW sig \in {"TERM", "QUIT", "CHLD"},
           SignalHandler(sig)
    PROVE  TellInv'
<1>1. /\ UNCHANGED <<last, mi, wchannel, wpending, chan>>
      /\ mpc' \in {"spawn", "record"} => mpc' = mpc
  BY DEF SignalHandler
<1>2. \A s \in Slots : /\ proc'[s].pid = proc[s].pid
                       /\ proc'[s].exiting <=> proc[s].exiting
  BY GetStatusTable DEF TypeInv, SignalHandler
<1>3. \A w \in Workers : \/ wpc'[w] = wpc[w]
                         \/ wpc[w] = "zombie" /\ wpc'[w] = "reaped"
  BY GetStatusWorkers DEF TypeInv, SignalHandler
<1>4. FreshWorkers' /\ InitChannel'
  BY <1>1, <1>3 DEF TellInv, FreshWorkers, InitChannel
<1>5. \A w \in Workers : Told(w) => Told(w)'
  BY <1>1, <1>3 DEF Told
<1>6. ExitingWasTold'
  BY <1>1, <1>2, <1>5, ToldPreserved DEF TellInv
<1> QED BY <1>4, <1>6 DEF TellInv

\* Announcing an exit adds messages and removes none.
LEMMA ReapExitedTell ==
    ASSUME TypeInv, TableInv, TellInv, ReapExited PROVE TellInv'
<1>1. UNCHANGED <<mpc, wpc, wchannel, wpending>> /\ mpc = "reap"
  BY DEF ReapExited, workerVars
<1>2. FreshWorkers' /\ InitChannel'
  BY <1>1 DEF TellInv, FreshWorkers, InitChannel
<1>3. \A w \in Workers : Told(w) => Told(w)'
  <2>1. \A g \in Garbage : [command |-> g, slot |-> mi] \in Message
    BY ReapExitedFacts, Constants DEF Message
  <2>2. CASE chan' = chan
    BY <1>1, <2>2 DEF Told
  <2>3. ASSUME NEW g \in Garbage,
               chan' = Write({proc[n].pid : n \in Announced},
                             [command |-> g, slot |-> mi])
        PROVE  \A w \in Workers : Told(w) => Told(w)'
    <3>1. \A w \in Workers : \A k \in 1 .. Len(chan[w]) :
            k \in 1 .. Len(chan'[w]) /\ chan'[w][k] = chan[w][k]
      BY <2>1, <2>3, WriteKeeps DEF TypeInv
    <3> QED BY <1>1, <3>1 DEF Told
  <2> QED BY <2>2, <2>3 DEF ReapExited
<1>4. ExitingWasTold'
  BY <1>3, ToldPreserved, ReapExitedFacts DEF TellInv
<1> QED BY <1>2, <1>4 DEF TellInv

\* A slot is marked exiting only with the message written or the signal sent.
LEMMA SignalSlotTell ==
    ASSUME TypeInv, TableInv, TellInv, SignalSlot PROVE TellInv'
<1>0. PICK p : p = proc[mi].pid
  OBVIOUS
<1> DEFINE msg == [command |-> CommandOf(signo), slot |-> 0]
<1>1. UNCHANGED <<last, mpc, wpc, wchannel>> /\ mpc = "signal"
  BY DEF SignalSlot
<1>2. FreshWorkers' /\ InitChannel'
  BY <1>1 DEF TellInv, FreshWorkers, InitChannel
<1>3. msg \in Message /\ ShutdownCommand(msg)
  BY DEF TypeInv, TypeOK, Message, CommandOf, Commands, ShutdownCommand,
     CMD_QUIT, CMD_TERMINATE, CMD_REOPEN
<1>4. \/ UNCHANGED <<proc, chan, wpending>>
      \/ /\ p # NoPid
         /\ chan' = [chan EXCEPT ![p] = Append(@, msg)]
         /\ proc' = [proc EXCEPT ![mi].exiting = TRUE]
         /\ UNCHANGED wpending
      \/ /\ p # NoPid
         /\ wpending' = [wpending EXCEPT ![p] = @ \cup {signo}]
         /\ proc' = [proc EXCEPT ![mi].exiting = TRUE]
         /\ UNCHANGED chan
  BY <1>0 DEF SignalSlot
<1>5. /\ chan \in [Workers -> Seq(Message)]
      /\ wpending \in [Workers -> SUBSET {"TERM", "QUIT"}]
  BY DEF TypeInv, TypeOK
<1>6. p # NoPid => p \in Workers
  BY <1>0, SignalSlotFacts DEF TableInv, SlotsInUse
<1> HIDE DEF msg
<1>7. \A w \in Workers : Told(w) => Told(w)'
  <2>1. CASE UNCHANGED <<chan, wpending>>
    BY <1>1, <2>1 DEF Told
  <2>2. CASE chan' = [chan EXCEPT ![p] = Append(@, msg)] /\ UNCHANGED wpending
    <3>1. \A w \in Workers : \A k \in 1 .. Len(chan[w]) :
            k \in 1 .. Len(chan'[w]) /\ chan'[w][k] = chan[w][k]
      <4> SUFFICES ASSUME NEW w \in Workers, NEW k \in 1 .. Len(chan[w])
                   PROVE  k \in 1 .. Len(chan'[w]) /\ chan'[w][k] = chan[w][k]
        OBVIOUS
      <4>1. chan'[w] = chan[w] \/ chan'[w] = Append(chan[w], msg)
        BY <1>5, <2>2
      <4> QED BY <1>3, <1>5, <4>1, AppendKeeps
    <3> QED BY <1>1, <2>2, <3>1 DEF Told
  <2>3. CASE wpending' = [wpending EXCEPT ![p] = @ \cup {signo}] /\ UNCHANGED chan
    BY <1>1, <1>5, <2>3 DEF Told
  <2> QED BY <1>4, <2>1, <2>2, <2>3
<1>8. CASE UNCHANGED <<proc, chan, wpending>>
  <2>1. ExitingWasTold'
    BY <1>1, <1>7, <1>8, ToldPreserved DEF TellInv
  <2> QED BY <1>2, <2>1 DEF TellInv
<1>9. CASE p # NoPid /\ ~UNCHANGED <<proc, chan, wpending>>
  <2>1. Told(p)'
    <3>1. CASE chan' = [chan EXCEPT ![p] = Append(@, msg)]
      <4>1. chan'[p] = Append(chan[p], msg) /\ chan[p] \in Seq(Message)
        BY <1>5, <1>6, <1>9, <3>1
      <4>2. /\ Len(chan[p]) + 1 \in 1 .. Len(chan'[p])
            /\ chan'[p][Len(chan[p]) + 1] = msg
        BY <1>3, <4>1
      <4> QED BY <1>3, <4>2 DEF Told
    <3>2. CASE wpending' = [wpending EXCEPT ![p] = @ \cup {signo}]
      BY <1>5, <1>6, <1>9, <3>2 DEF Told
    <3> QED BY <1>4, <1>9, <3>1, <3>2
  <2> SUFFICES ASSUME NEW s \in Slots, s < last', proc'[s].pid # NoPid,
                      proc'[s].exiting, NEW w, w = proc'[s].pid
               PROVE  Told(w)'
    <3>1. ExitingWasTold'
      BY DEF ExitingWasTold, Told
    <3> QED BY <1>2, <3>1 DEF TellInv
  <2>2. CASE s = mi
    BY <1>0, <2>1, <2>2, SignalSlotFacts
  <2>3. CASE s # mi
    <3>1. s < last /\ proc[s].pid = w /\ proc[s].exiting /\ w # NoPid
      BY <1>1, <2>3, SignalSlotFacts
    <3>2. w \in Workers /\ Told(w)
      BY <3>1 DEF TableInv, SlotsInUse, TellInv, ExitingWasTold, Told
    <3> QED BY <1>7, <3>2
  <2> QED BY <2>2, <2>3
<1> QED BY <1>4, <1>8, <1>9

\* The quiet steps neither mark slots nor touch channels.
LEMMA QuietTell == ASSUME TypeInv, TableInv, TellInv, QuietStep PROVE TellInv'
<1>1. mpc' \in {"spawn", "record"} =>
        \/ UNCHANGED <<mpc, mi>>
        \/ mpc = "spawn" /\ mpc' = "spawn" /\ mi' = mi + 1
  BY DEF QuietStep, SpawnFail, AfterSpawn, Suspend, CheckReap, ReapOther,
     ReapDone, Decide, SignalDone, SigintKills, OperatorSignal, masterVars
<1>2. FreshWorkers'
  <2>1. \A w \in Workers : w > mi + 1 => w > mi
    BY TableTypes, Constants DEF TypeInv, Workers
  <2> QED BY <1>1, <2>1, QuietFrame DEF TellInv, FreshWorkers
<1>3. InitChannel'
  BY QuietFrame DEF TellInv, InitChannel
<1>4. ExitingWasTold'
  BY QuietFrame DEF TellInv, ExitingWasTold
<1> QED BY <1>2, <1>3, <1>4 DEF TellInv

\* A worker that reads what it was told acts on it or is gone.
LEMMA WorkerTell ==
    ASSUME TypeInv, TableInv, TellInv, NEW w \in Workers,
           WorkerStep(w) \/ WorkerCrash(w)
    PROVE  TellInv'
<1>1. FreshWorkers'
  BY WorkerFacts DEF TypeInv, TellInv, FreshWorkers, masterVars, Up
<1>2. \A v \in Workers : v # w => chan'[v] = chan[v] /\ wchannel'[v] = wchannel[v]
  BY DEF TypeInv, TypeOK, WorkerStep, WorkerInit, WorkerPoll, WorkerExit,
     WorkerCrash, Die
<1>3. InitChannel'
  BY <1>2, WorkerFacts DEF TypeInv, TellInv, InitChannel
<1>4. Told(w) => Told(w)'
  <2>1. CASE WorkerInit(w)
    BY <2>1 DEF WorkerInit, Told, TellInv, InitChannel
  <2>2. CASE WorkerPoll(w)
    <3>1. PICK n \in 0 .. Len(chan[w]) :
            /\ wchannel' = [wchannel EXCEPT ![w] =
                 IF n < Len(chan[w]) \/ ~HasWriter(w) THEN "closed" ELSE @]
            /\ wpc' = [wpc EXCEPT ![w] =
                 IF \E m \in {chan[w][k] : k \in 1 .. n} :
                       m.command = CMD_TERMINATE THEN "terminating"
                 ELSE IF \E m \in {chan[w][k] : k \in 1 .. n} :
                            m.command = CMD_QUIT THEN "exiting"
                 ELSE @]
      BY <2>2 DEF WorkerPoll
    <3>2. wpc[w] = "poll" /\ wchannel[w] = "open" /\ wpending' = wpending
      BY <2>2 DEF WorkerPoll
    <3>3. CASE n < Len(chan[w])
      BY <3>1, <3>3 DEF TypeInv, TypeOK, Told
    <3>4. CASE n = Len(chan[w])
      BY <3>1, <3>2, <3>4 DEF TypeInv, TypeOK, Told, ShutdownCommand
    <3> QED BY <3>1, <3>3, <3>4 DEF TypeInv, TypeOK
  <2>3. CASE WorkerExit(w) \/ WorkerCrash(w)
    BY <2>3 DEF WorkerExit, WorkerCrash, Die, Told, TypeInv, TypeOK
  <2> QED BY <2>1, <2>2, <2>3 DEF WorkerStep
<1>5. \A v \in Workers : Told(v) => Told(v)'
  BY <1>2, <1>4, WorkerFacts DEF Told, TypeInv
<1>6. ExitingWasTold'
  BY <1>5, WorkerFacts, ToldPreserved DEF TypeInv, TellInv, masterVars
<1> QED BY <1>1, <1>3, <1>6 DEF TellInv

\* Nobody is marked exiting at the start.
LEMMA InitTell == Init => TellInv
BY DEF Init, TellInv, FreshWorkers, InitChannel, ExitingWasTold, Slots

\* TellInv is inductive relative to TypeInv and TableInv.
LEMMA TellStep == TypeInv /\ TableInv /\ TellInv /\ [Next]_vars => TellInv'
<1> SUFFICES ASSUME TypeInv, TableInv, TellInv, [Next]_vars PROVE TellInv'
  OBVIOUS
<1>1. CASE Next
  BY <1>1, NextCases, QuietTell, SpawnForkTell, SpawnRecordTell,
     ReapExitedTell, SignalSlotTell, SignalHandlerTell, WorkerTell
<1>2. CASE UNCHANGED vars
  BY <1>2 DEF vars, masterVars, workerVars, TellInv, FreshWorkers, InitChannel,
     ExitingWasTold
<1> QED BY <1>1, <1>2

\* A slot marked exiting, which night_signal_worker_processes skips on every
\* later SIGQUIT, belongs to a worker that was told or cannot be told any
\* more: the mark never hides a worker that still waits for its command.
THEOREM ExitingWasToldHolds == Spec => []ExitingWasTold
<1>1. TellInv => ExitingWasTold
  BY DEF TellInv
<1> QED BY <1>1, InitType, InitTable, InitTell, TypeStep, TableStep, TellStep,
           PTL DEF Spec
=============================================================================
