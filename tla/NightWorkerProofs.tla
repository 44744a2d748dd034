------------------------- MODULE NightWorkerProofs -------------------------
(***************************************************************************)
(* Proofs about one worker: the connection table is kept by every handler, *)
(* stale events are dropped and no edge is lost, for any number of         *)
(* connections, descriptors, clients and bytes.                            *)
(*                                                                         *)
(* The first part is about the operations of the connection table.         *)
(* TableInv is the invariant of the record they work on; it has one lemma  *)
(* for each kind of update (a connection, a socket, a queue, a connection  *)
(* taken, a connection given back), and the operations of NightConnection  *)
(* are instances of those.  The second part is about the handlers they     *)
(* are called from.                                                        *)
(***************************************************************************)
EXTENDS NightWorker, NightLemmas

Cycle ==
    [conn : [Conns -> Connection], free : Seq(Conns), free_n : Nat,
     files : [Fds -> Conns \cup {NoConn}], reuse : Seq(Conns), reusable_n : Nat,
     timers : SUBSET Conns, posted : Seq(Conns), lost : BOOLEAN,
     sock : [Fds -> Socket]]

\* The listening sockets belong to the listeners and to no other connection,
\* and no client's bytes are more than it sent or than the buffer holds.
KindsOK(t) ==
    /\ \A c \in Conns : t.conn[c].handler = "accept" <=> c \in Listeners
    /\ \A c \in InUse(t) :
         t.sock[t.conn[c].fd].kind = IF c \in Listeners THEN "listen" ELSE "stream"
    /\ \A fd \in Fds : t.sock[fd].kind = "stream" =>
         t.sock[fd].rcv <= t.sock[fd].sent /\ t.sock[fd].sent <= MaxBytes
    /\ \A c \in Conns : t.conn[c].got <= BufSize

\* The parts of NoDangling. Listeners are never posted.
TimersOK(t) == t.timers = {c \in InUse(t) : t.conn[c].timer_set}

PostedOK(t) ==
    /\ NoRepeats(t.posted)
    /\ Members(t.posted) = {c \in InUse(t) : t.conn[c].posted}
    /\ \A c \in Listeners : ~t.conn[c].posted

EpollOK(t) ==
    \A fd \in Fds :
      t.sock[fd].reg # NoConn => /\ t.conn[t.sock[fd].reg].fd = fd
                                 /\ t.conn[t.sock[fd].reg].instance = t.sock[fd].inst

\* All of it but the timers, which outlive the listeners in a shutdown.
TableInv(t) ==
    /\ t \in Cycle
    /\ PoolOK(t)
    /\ FilesOK(t)
    /\ ReusableOK(t)
    /\ KindsOK(t)
    /\ PostedOK(t)
    /\ EpollOK(t)

-----------------------------------------------------------------------------
(* Queues                                                                  *)

\* c is put in front of a queue.
LEMMA ConsQueue ==
    ASSUME NEW S, NEW q \in Seq(S), NEW c \in S
    PROVE  /\ <<c>> \o q \in Seq(S)
           /\ Len(<<c>> \o q) = Len(q) + 1
           /\ Members(<<c>> \o q) = Members(q) \cup {c}
           /\ NoRepeats(q) /\ c \notin Members(q) => NoRepeats(<<c>> \o q)
<1> DEFINE p == <<c>> \o q
<1>1. /\ p \in Seq(S) /\ Len(p) = Len(q) + 1 /\ Len(q) \in Nat
      /\ p[1] = c /\ \A i \in 1 .. Len(q) : p[i + 1] = q[i]
  OBVIOUS
<1> HIDE DEF p
<1>2. \A i \in 1 .. Len(p) : i = 1 \/ (i - 1 \in 1 .. Len(q) /\ p[i] = q[i - 1])
  BY <1>1
<1>3. Members(p) = Members(q) \cup {c}
  <2>1. \A i \in 1 .. Len(p) : p[i] = c \/ \E j \in 1 .. Len(q) : p[i] = q[j]
    BY <1>1, <1>2
  <2>2. \A i \in 1 .. Len(q) : \E j \in 1 .. Len(p) : p[j] = q[i]
    BY <1>1
  <2>3. c \in Members(p)
    BY <1>1 DEF Members
  <2> QED
    BY <2>1, <2>2, <2>3 DEF Members
<1>4. NoRepeats(q) /\ c \notin Members(q) => NoRepeats(p)
  BY <1>1, <1>2 DEF NoRepeats, Members
<1> QED
  BY <1>1, <1>3, <1>4 DEF p

\* c is put at the end of a queue.
LEMMA AppendQueue ==
    ASSUME NEW S, NEW q \in Seq(S), NEW c \in S
    PROVE  /\ Append(q, c) \in Seq(S)
           /\ Members(Append(q, c)) = Members(q) \cup {c}
           /\ NoRepeats(q) /\ c \notin Members(q) => NoRepeats(Append(q, c))
<1> DEFINE p == Append(q, c)
<1>1. /\ p \in Seq(S) /\ Len(p) = Len(q) + 1 /\ Len(q) \in Nat
      /\ p[Len(q) + 1] = c /\ \A i \in 1 .. Len(q) : p[i] = q[i]
  OBVIOUS
<1> HIDE DEF p
<1>2. \A i \in 1 .. Len(p) : i = Len(q) + 1 \/ i \in 1 .. Len(q)
  BY <1>1
<1>3. Members(p) = Members(q) \cup {c}
  <2>1. \A x \in Members(p) : x \in Members(q) \cup {c}
    BY <1>1, <1>2 DEF Members
  <2>2. \A x \in Members(q) : x \in Members(p)
    BY <1>1 DEF Members
  <2>3. c \in Members(p)
    BY <1>1 DEF Members
  <2> QED
    BY <2>1, <2>2, <2>3
<1>4. NoRepeats(q) /\ c \notin Members(q) => NoRepeats(p)
  BY <1>1, <1>2 DEF NoRepeats, Members
<1> QED
  BY <1>1, <1>3, <1>4 DEF p

\* The head of a queue is taken.
LEMMA TailQueue ==
    ASSUME NEW S, NEW q \in Seq(S), q # <<>>, NoRepeats(q)
    PROVE  /\ Head(q) \in Members(q) /\ Head(q) \in S
           /\ Tail(q) \in Seq(S)
           /\ Len(Tail(q)) = Len(q) - 1
           /\ Members(Tail(q)) = Members(q) \ {Head(q)}
           /\ NoRepeats(Tail(q))
<1> DEFINE p == Tail(q)
           c == Head(q)
<1>1. /\ p \in Seq(S) /\ Len(p) = Len(q) - 1 /\ Len(q) \in Nat /\ Len(q) >= 1
      /\ q[1] = c /\ c \in S /\ \A i \in 1 .. Len(p) : p[i] = q[i + 1]
  OBVIOUS
<1> HIDE DEF p, c
<1>2. \A i \in 1 .. Len(q) : i = 1 \/ (i - 1 \in 1 .. Len(p) /\ q[i] = p[i - 1])
  BY <1>1
<1>3. \A i \in 1 .. Len(p) : i + 1 \in 1 .. Len(q) /\ i + 1 # 1
  BY <1>1
<1>4. Members(p) = Members(q) \ {c}
  <2>1. \A x \in Members(p) : x \in Members(q) /\ x # c
    BY <1>1, <1>3 DEF Members, NoRepeats
  <2>2. \A x \in Members(q) : x # c => x \in Members(p)
    BY <1>1, <1>2 DEF Members
  <2> QED
    BY <2>1, <2>2
<1>5. NoRepeats(p)
  BY <1>1, <1>3 DEF NoRepeats
<1>6. c \in Members(q)
  BY <1>1 DEF Members
<1> QED
  BY <1>1, <1>4, <1>5, <1>6 DEF p, c

\* The link of c is taken out of a queue that has it once.
LEMMA WithoutQueue ==
    ASSUME NEW S, NEW q \in Seq(S), NoRepeats(q), NEW c \in Members(q)
    PROVE  /\ Without(q, c) \in Seq(S)
           /\ Len(Without(q, c)) = Len(q) - 1
           /\ Members(Without(q, c)) = Members(q) \ {c}
           /\ NoRepeats(Without(q, c))
<1> DEFINE k == CHOOSE i \in 1 .. Len(q) : q[i] = c
           a == SubSeq(q, 1, k - 1)
           b == SubSeq(q, k + 1, Len(q))
           p == a \o b
<1>1. k \in 1 .. Len(q) /\ q[k] = c /\ Len(q) \in Nat
  <2>1. \E i \in 1 .. Len(q) : q[i] = c
    BY DEF Members
  <2> QED
    BY <2>1
<1> HIDE DEF k
<1>2. \A i \in 1 .. Len(q) : q[i] \in S
  OBVIOUS
<1>3. /\ a \in Seq(S) /\ Len(a) = k - 1
      /\ \A i \in 1 .. (k - 1) : a[i] = q[i]
  BY <1>1, <1>2
<1>4. /\ b \in Seq(S) /\ Len(b) = Len(q) - k
      /\ \A i \in 1 .. (Len(q) - k) : b[i] = q[k + i]
  BY <1>1, <1>2
<1>5. /\ p \in Seq(S) /\ Len(p) = Len(q) - 1
      /\ \A i \in 1 .. Len(p) : p[i] = IF i < k THEN q[i] ELSE q[i + 1]
  <2> HIDE DEF a, b
  <2>1. p \in Seq(S) /\ Len(p) = Len(a) + Len(b)
    BY <1>3, <1>4
  <2>2. \A i \in 1 .. (k - 1) : p[i] = a[i]
    BY <1>1, <1>3, <1>4
  <2>3. \A i \in k .. (Len(q) - 1) : p[i] = b[i - (k - 1)] /\ i - (k - 1) \in 1 .. (Len(q) - k)
    BY <1>1, <1>3, <1>4
  <2> QED
    BY <1>1, <1>3, <1>4, <2>1, <2>2, <2>3
<1>6. p = Without(q, c)
  BY DEF Without, k
<1> HIDE DEF a, b, p
<1>7. Members(p) = Members(q) \ {c}
  <2>1. \A x \in Members(p) : x \in Members(q) /\ x # c
    <3> TAKE x \in Members(p)
    <3>1. PICK i \in 1 .. Len(p) : x = p[i]
      BY DEF Members
    <3>2. CASE i < k
      BY <1>1, <1>5, <3>1, <3>2 DEF Members, NoRepeats
    <3>3. CASE i >= k
      BY <1>1, <1>5, <3>1, <3>3 DEF Members, NoRepeats
    <3> QED
      BY <1>1, <1>5, <3>2, <3>3
  <2>2. \A x \in Members(q) : x # c => x \in Members(p)
    <3> SUFFICES ASSUME NEW x \in Members(q), x # c PROVE x \in Members(p)
      OBVIOUS
    <3>1. PICK i \in 1 .. Len(q) : x = q[i]
      BY DEF Members
    <3>2. CASE i < k
      BY <1>1, <1>5, <3>1, <3>2 DEF Members
    <3>3. CASE i > k
      <4>1. i - 1 \in 1 .. Len(p) /\ p[i - 1] = x
        BY <1>1, <1>5, <3>1, <3>3
      <4> QED
        BY <4>1 DEF Members
    <3> QED
      BY <1>1, <3>1, <3>2, <3>3
  <2> QED
    BY <2>1, <2>2
<1>8. NoRepeats(p)
  <2> SUFFICES ASSUME NEW i \in 1 .. Len(p), NEW j \in 1 .. Len(p), i < j
               PROVE  p[i] # p[j]
    BY <1>5 DEF NoRepeats
  <2> DEFINE m == IF i < k THEN i ELSE i + 1
             n == IF j < k THEN j ELSE j + 1
  <2>1. m \in 1 .. Len(q) /\ n \in 1 .. Len(q) /\ m # n /\ p[i] = q[m] /\ p[j] = q[n]
    BY <1>1, <1>5
  <2> QED
    BY <2>1 DEF NoRepeats
<1> QED
  BY <1>5, <1>6, <1>7, <1>8

\* A queue of connections without repetitions is no longer than the table.
LEMMA QueueBound ==
    ASSUME NEW q \in Seq(Conns), NoRepeats(q)
    PROVE  Len(q) <= ConnectionN
<1>1. Len(q) \in Nat /\ q \in [1 .. Len(q) -> Conns]
  OBVIOUS
<1>2. q \in Injection(1 .. Len(q), Conns)
  BY <1>1 DEF NoRepeats, Injection, IsInjective
<1>3. /\ IsFiniteSet(1 .. Len(q)) /\ IsFiniteSet(Conns)
      /\ Cardinality(1 .. Len(q)) = Len(q) /\ Cardinality(Conns) = ConnectionN
  <2>1. 1 \in Int /\ ConnectionN \in Nat /\ Len(q) \in Nat
    BY <1>1, TableAssumption
  <2>2. \A n \in Nat : IsFiniteSet(1 .. n) /\ Cardinality(1 .. n) = n
    BY FS_Interval
  <2> QED
    BY <2>1, <2>2 DEF Conns
<1>4. Cardinality(1 .. Len(q)) <= Cardinality(Conns)
  BY <1>2, <1>3, FS_Injection
<1> QED
  BY <1>3, <1>4

-----------------------------------------------------------------------------
(* Updates that open or close nothing                                      *)

\* What is known of a connection in use.
LEMMA Held ==
    ASSUME NEW t, TableInv(t), NEW c \in InUse(t)
    PROVE  /\ c \in Conns /\ c # NoConn
           /\ t.conn[c] \in Connection
           /\ t.conn[c].fd \in Fds
           /\ t.sock[t.conn[c].fd] \in Socket
           /\ t.files[t.conn[c].fd] = c
           /\ t.conn[c].got \in 0 .. MaxBytes /\ t.conn[c].got <= BufSize
           /\ t.conn[c].handler = "accept" <=> c \in Listeners
           /\ t.conn[c].reusable => t.conn[c].handler \in {"wait", "keepalive"}
<1>1. t \in Cycle /\ c \in Conns /\ t.conn[c].fd # NoFd
  BY DEF TableInv, InUse
<1>2. t.conn[c] \in Connection
  BY <1>1 DEF Cycle
<1>3. t.conn[c].fd \in Fds /\ t.conn[c].got \in 0 .. MaxBytes
  BY <1>1, <1>2 DEF Connection
<1>4. t.sock[t.conn[c].fd] \in Socket
  BY <1>1, <1>3 DEF Cycle
<1>5. t.files[t.conn[c].fd] = c /\ c # NoConn
  BY <1>1 DEF TableInv, FilesOK, Conns, NoConn
<1>6. t.conn[c].reusable => t.conn[c].handler \in {"wait", "keepalive"}
  BY <1>1 DEF TableInv, ReusableOK
<1>7. t.conn[c].got <= BufSize /\ (t.conn[c].handler = "accept" <=> c \in Listeners)
  BY <1>1 DEF TableInv, KindsOK
<1> QED
  BY <1>1, <1>2, <1>3, <1>4, <1>5, <1>6, <1>7

\* u differs from t in nothing that five of its parts speak of.
Framed(u, t) ==
    /\ u \in Cycle /\ u.free = t.free /\ u.free_n = t.free_n
    /\ u.files = t.files /\ u.sock = t.sock
    /\ \A d \in Conns : /\ u.conn[d].fd = t.conn[d].fd
                        /\ u.conn[d].instance = t.conn[d].instance
                        /\ u.conn[d].handler = "accept" <=> d \in Listeners
                        /\ u.conn[d].got <= BufSize

\* A change that leaves the free list, files[] and the sockets alone, and of
\* the connections their descriptors and instances, keeps what is said of
\* those.
LEMMA FrameKeeps ==
    ASSUME NEW t, TableInv(t), NEW u, Framed(u, t)
    PROVE  InUse(u) = InUse(t) /\ PoolOK(u) /\ FilesOK(u) /\ KindsOK(u) /\ EpollOK(u)
<1>0. /\ u \in Cycle /\ u.free = t.free /\ u.free_n = t.free_n
      /\ u.files = t.files /\ u.sock = t.sock
      /\ \A d \in Conns : /\ u.conn[d].fd = t.conn[d].fd
                          /\ u.conn[d].instance = t.conn[d].instance
                          /\ u.conn[d].handler = "accept" <=> d \in Listeners
                          /\ u.conn[d].got <= BufSize
  BY DEF Framed
<1>1. InUse(u) = InUse(t)
  BY <1>0 DEF InUse
<1>2. t \in Cycle
  BY DEF TableInv
<1>3. PoolOK(u)
  BY <1>0, <1>1 DEF TableInv, PoolOK, InUse
<1>4. FilesOK(u)
  <2>1. \A fd \in Fds : t.files[fd] # NoConn => t.files[fd] \in Conns
    BY <1>2 DEF Cycle
  <2> QED
    BY <1>0, <1>1, <2>1 DEF TableInv, FilesOK, InUse
<1>5. KindsOK(u)
  BY <1>0, <1>1 DEF TableInv, KindsOK, InUse
<1>6. EpollOK(u)
  <2>1. \A fd \in Fds : t.sock[fd].reg # NoConn => t.sock[fd].reg \in Conns
    BY <1>2 DEF Cycle, Socket
  <2> QED
    BY <1>0, <2>1 DEF TableInv, EpollOK
<1> QED
  BY <1>1, <1>3, <1>4, <1>5, <1>6

\* The record r replaces connection c and T the timer tree; r keeps what
\* the queues, files[] and epoll know of c.
LEMMA UpdateConnection ==
    ASSUME NEW t, TableInv(t), NEW c \in InUse(t), NEW r \in Connection,
           NEW T \in SUBSET Conns,
           r.fd = t.conn[c].fd, r.instance = t.conn[c].instance,
           r.posted = t.conn[c].posted, r.reusable = t.conn[c].reusable,
           r.reusable => r.handler \in {"wait", "keepalive"},
           r.handler = "accept" <=> c \in Listeners,
           r.got <= BufSize
    PROVE  LET u == [t EXCEPT !.conn[c] = r, !.timers = T] IN
           /\ TableInv(u)
           /\ TimersOK(t) /\ T = (IF r.timer_set THEN t.timers \cup {c}
                                  ELSE t.timers \ {c}) => TimersOK(u)
<1> DEFINE u == [t EXCEPT !.conn[c] = r, !.timers = T]
<1>1. t \in Cycle /\ c \in Conns
  BY Held DEF TableInv
<1>2. u \in Cycle
  BY <1>1 DEF Cycle
<1>3. /\ u.conn = [t.conn EXCEPT ![c] = r] /\ u.timers = T
      /\ u.free = t.free /\ u.free_n = t.free_n /\ u.files = t.files
      /\ u.reuse = t.reuse /\ u.reusable_n = t.reusable_n
      /\ u.posted = t.posted /\ u.sock = t.sock
  BY <1>1 DEF Cycle
<1> HIDE DEF u
<1>4. u.conn[c] = r /\ \A d \in Conns : d # c => u.conn[d] = t.conn[d]
  BY <1>1, <1>3 DEF Cycle
<1>5. \A d \in Conns : /\ u.conn[d].fd = t.conn[d].fd
                       /\ u.conn[d].instance = t.conn[d].instance
                       /\ u.conn[d].posted = t.conn[d].posted
                       /\ u.conn[d].reusable = t.conn[d].reusable
                       /\ u.conn[d].handler = "accept" <=> d \in Listeners
                       /\ u.conn[d].got <= BufSize
  BY <1>4 DEF TableInv, KindsOK
<1>6. InUse(u) = InUse(t) /\ PoolOK(u) /\ FilesOK(u) /\ KindsOK(u) /\ EpollOK(u)
  <2>1. \A d \in Conns : /\ u.conn[d].fd = t.conn[d].fd
                         /\ u.conn[d].instance = t.conn[d].instance
                         /\ u.conn[d].handler = "accept" <=> d \in Listeners
                         /\ u.conn[d].got <= BufSize
    BY <1>5
  <2>2. u.free = t.free /\ u.free_n = t.free_n /\ u.files = t.files /\ u.sock = t.sock
    BY <1>3
  <2>3. Framed(u, t)
    BY <1>2, <2>1, <2>2, Zenon DEF Framed
  <2> QED
    BY <2>3, FrameKeeps
<1>9. ReusableOK(u)
  <2>1. Members(u.reuse) = {d \in Conns : u.conn[d].reusable}
    BY <1>3, <1>5 DEF TableInv, ReusableOK
  <2>2. ASSUME NEW d \in Members(u.reuse)
        PROVE  d \in InUse(u) /\ u.conn[d].handler \in {"wait", "keepalive"}
    BY <1>3, <1>4, <1>6, <2>1, <2>2 DEF TableInv, ReusableOK
  <2> QED
    BY <1>3, <2>1, <2>2 DEF TableInv, ReusableOK
<1>11. PostedOK(u)
  <2>1. \A d \in Listeners : d \in Conns
    BY TableAssumption DEF Listeners, Conns
  <2> QED
    BY <1>3, <1>5, <1>6, <2>1 DEF TableInv, PostedOK, InUse
<1>13. ASSUME TimersOK(t), T = (IF r.timer_set THEN t.timers \cup {c} ELSE t.timers \ {c})
       PROVE  TimersOK(u)
  BY <1>3, <1>4, <1>6, <1>13 DEF TimersOK, InUse
<1> QED
  BY <1>2, <1>6, <1>9, <1>11, <1>13 DEF TableInv, u

\* The socket k replaces the one of a descriptor. It may be registered for
\* the connection that holds the descriptor only, and its kind may change
\* only where no connection holds it.
LEMMA UpdateSocket ==
    ASSUME NEW t, TableInv(t), NEW fd \in Fds, NEW k \in Socket,
           k.kind = t.sock[fd].kind \/ t.files[fd] = NoConn,
           k.kind = "stream" => k.rcv <= k.sent /\ k.sent <= MaxBytes,
           k.reg # NoConn => /\ t.conn[k.reg].fd = fd
                             /\ t.conn[k.reg].instance = k.inst
    PROVE  LET u == [t EXCEPT !.sock[fd] = k] IN
           TableInv(u) /\ (TimersOK(t) => TimersOK(u))
<1> DEFINE u == [t EXCEPT !.sock[fd] = k]
<1>1. t \in Cycle
  BY DEF TableInv
<1>2. u \in Cycle
  BY <1>1 DEF Cycle
<1>3. /\ u.sock = [t.sock EXCEPT ![fd] = k] /\ u.conn = t.conn
      /\ u.timers = t.timers
      /\ u.free = t.free /\ u.free_n = t.free_n /\ u.files = t.files
      /\ u.reuse = t.reuse /\ u.reusable_n = t.reusable_n
      /\ u.posted = t.posted
  BY <1>1 DEF Cycle
<1> HIDE DEF u
<1>4. u.sock[fd] = k /\ \A f \in Fds : f # fd => u.sock[f] = t.sock[f]
  BY <1>1, <1>3 DEF Cycle
<1>5. InUse(u) = InUse(t)
  BY <1>3 DEF InUse
<1>6. PoolOK(u) /\ ReusableOK(u) /\ PostedOK(u)
  BY <1>3, <1>5 DEF TableInv, PoolOK, ReusableOK, PostedOK
<1>7. \A c \in InUse(t) : /\ t.conn[c].fd \in Fds /\ c # NoConn
                          /\ t.conn[c].fd = fd => k.kind = t.sock[fd].kind
  BY Held
<1>8. \A c \in InUse(t) : u.sock[t.conn[c].fd].kind = t.sock[t.conn[c].fd].kind
  BY <1>4, <1>7
<1>9. FilesOK(u)
  BY <1>3, <1>5, <1>8 DEF TableInv, FilesOK
<1>10. KindsOK(u)
  BY <1>3, <1>4, <1>5, <1>8 DEF TableInv, KindsOK
<1>11. EpollOK(u)
  BY <1>3, <1>4 DEF TableInv, EpollOK
<1>12. TimersOK(t) => TimersOK(u)
  BY <1>3, <1>5 DEF TimersOK
<1> QED
  BY <1>2, <1>6, <1>9, <1>10, <1>11, <1>12 DEF TableInv, u

-----------------------------------------------------------------------------
(* The queues                                                              *)

\* night_reusable_connection.
LEMMA ReusableKeeps ==
    ASSUME NEW t, TableInv(t), NEW c \in InUse(t), NEW b \in BOOLEAN,
           b => t.conn[c].handler \in {"wait", "keepalive"}
    PROVE  LET u == Reusable(t, c, b) IN
           /\ TableInv(u)
           /\ TimersOK(t) => TimersOK(u)
           /\ u.conn = [t.conn EXCEPT ![c].reusable = b]
           /\ u.sock = t.sock /\ u.files = t.files /\ u.lost = t.lost
<1> DEFINE u == Reusable(t, c, b)
           r == [t.conn[c] EXCEPT !.reusable = b]
           queue == IF t.conn[c].reusable THEN Without(t.reuse, c) ELSE t.reuse
           n == IF t.conn[c].reusable THEN t.reusable_n - 1 ELSE t.reusable_n
<1>1. t \in Cycle /\ c \in Conns /\ t.conn[c] \in Connection
  BY Held DEF TableInv
<1>2. r \in Connection /\ r.reusable = b /\ r.fd = t.conn[c].fd
      /\ r.instance = t.conn[c].instance /\ r.handler = t.conn[c].handler
      /\ r.posted = t.conn[c].posted /\ r.got = t.conn[c].got
      /\ r.timer_set = t.conn[c].timer_set
  BY <1>1 DEF Connection
<1>3. /\ t.reuse \in Seq(Conns) /\ NoRepeats(t.reuse)
      /\ (c \in Members(t.reuse)) = t.conn[c].reusable
      /\ t.reusable_n = Len(t.reuse)
  BY <1>1 DEF TableInv, ReusableOK, Cycle, Connection
<1>4. /\ queue \in Seq(Conns) /\ NoRepeats(queue) /\ n = Len(queue)
      /\ Members(queue) = Members(t.reuse) \ {c}
  BY <1>3, WithoutQueue
<1> DEFINE p == IF b THEN <<c>> \o queue ELSE queue
           m == IF b THEN n + 1 ELSE n
<1>5. /\ p \in Seq(Conns) /\ NoRepeats(p) /\ m = Len(p) /\ m \in Nat
      /\ Members(p) = IF b THEN Members(t.reuse) \cup {c} ELSE Members(t.reuse) \ {c}
  <2> HIDE DEF queue, n
  <2>1. CASE b
    BY <1>1, <1>4, <2>1, ConsQueue
  <2>2. CASE ~b
    BY <1>4, <2>2
  <2> QED
    BY <2>1, <2>2
<1>6. u = [t EXCEPT !.conn[c] = r, !.reuse = p, !.reusable_n = m]
  BY <1>1 DEF Reusable, Cycle
<1> HIDE DEF u, r, p, m
<1>7. /\ u \in Cycle
      /\ u.conn = [t.conn EXCEPT ![c] = r] /\ u.timers = t.timers
      /\ u.free = t.free /\ u.free_n = t.free_n /\ u.files = t.files
      /\ u.reuse = p /\ u.reusable_n = m
      /\ u.posted = t.posted /\ u.sock = t.sock /\ u.lost = t.lost
  BY <1>1, <1>2, <1>5, <1>6 DEF Cycle
<1>8. u.conn[c] = r /\ \A d \in Conns : d # c => u.conn[d] = t.conn[d]
  BY <1>1, <1>7 DEF Cycle
<1>9. \A d \in Conns :
        /\ u.conn[d].fd = t.conn[d].fd /\ u.conn[d].instance = t.conn[d].instance
        /\ u.conn[d].posted = t.conn[d].posted
        /\ u.conn[d].handler = t.conn[d].handler
        /\ u.conn[d].timer_set = t.conn[d].timer_set
        /\ u.conn[d].handler = "accept" <=> d \in Listeners
        /\ u.conn[d].got <= BufSize
  BY <1>2, <1>8 DEF TableInv, KindsOK
<1>10. InUse(u) = InUse(t) /\ PoolOK(u) /\ FilesOK(u) /\ KindsOK(u) /\ EpollOK(u)
  <2>1. Framed(u, t)
    BY <1>7, <1>9, Zenon DEF Framed
  <2> QED
    BY <2>1, FrameKeeps
<1>13. ReusableOK(u)
  <2>1. Members(t.reuse) = {d \in Conns : t.conn[d].reusable}
    BY DEF TableInv, ReusableOK
  <2>2. Members(p) = {d \in Conns : u.conn[d].reusable}
    BY <1>1, <1>2, <1>5, <1>8, <2>1
  <2>3. ASSUME NEW d \in Members(p)
        PROVE  d \in InUse(u) /\ u.conn[d].handler \in {"wait", "keepalive"}
    BY <1>1, <1>5, <1>9, <1>10, <2>3 DEF TableInv, ReusableOK, InUse
  <2> QED
    BY <1>5, <1>7, <2>2, <2>3 DEF ReusableOK
<1>15. PostedOK(u)
  <2>1. \A d \in Listeners : d \in Conns
    BY TableAssumption DEF Listeners, Conns
  <2> QED
    BY <1>7, <1>9, <1>10, <2>1 DEF TableInv, PostedOK, InUse
<1>17. TimersOK(t) => TimersOK(u)
  BY <1>7, <1>9, <1>10 DEF TimersOK, InUse
<1> QED
  BY <1>7, <1>10, <1>13, <1>15, <1>17 DEF TableInv, u, r

\* The mark posted and the queue of posted events change together.
LEMMA UpdatePosted ==
    ASSUME NEW t, TableInv(t), NEW c \in InUse(t) \ Listeners, NEW b \in BOOLEAN,
           NEW p \in Seq(Conns), NoRepeats(p),
           Members(p) = IF b THEN Members(t.posted) \cup {c} ELSE Members(t.posted) \ {c}
    PROVE  LET u == [t EXCEPT !.conn[c].posted = b, !.posted = p] IN
           /\ TableInv(u)
           /\ TimersOK(t) => TimersOK(u)
<1> DEFINE u == [t EXCEPT !.conn[c].posted = b, !.posted = p]
           r == [t.conn[c] EXCEPT !.posted = b]
<1>1. t \in Cycle /\ c \in Conns /\ t.conn[c] \in Connection
  BY Held DEF TableInv
<1>2. r \in Connection /\ r.reusable = t.conn[c].reusable /\ r.fd = t.conn[c].fd
      /\ r.instance = t.conn[c].instance /\ r.handler = t.conn[c].handler
      /\ r.posted = b /\ r.got = t.conn[c].got
      /\ r.timer_set = t.conn[c].timer_set
  BY <1>1 DEF Connection
<1>3. u = [t EXCEPT !.conn[c] = r, !.posted = p]
  BY <1>1 DEF Cycle
<1> HIDE DEF u, r
<1>4. /\ u \in Cycle
      /\ u.conn = [t.conn EXCEPT ![c] = r] /\ u.timers = t.timers
      /\ u.free = t.free /\ u.free_n = t.free_n /\ u.files = t.files
      /\ u.reuse = t.reuse /\ u.reusable_n = t.reusable_n
      /\ u.posted = p /\ u.sock = t.sock
  BY <1>1, <1>2, <1>3 DEF Cycle
<1>5. u.conn[c] = r /\ \A d \in Conns : d # c => u.conn[d] = t.conn[d]
  BY <1>1, <1>4 DEF Cycle
<1>6. \A d \in Conns :
        /\ u.conn[d].fd = t.conn[d].fd /\ u.conn[d].instance = t.conn[d].instance
        /\ u.conn[d].reusable = t.conn[d].reusable
        /\ u.conn[d].handler = t.conn[d].handler
        /\ u.conn[d].timer_set = t.conn[d].timer_set
        /\ u.conn[d].handler = "accept" <=> d \in Listeners
        /\ u.conn[d].got <= BufSize
  BY <1>2, <1>5 DEF TableInv, KindsOK
<1>7. InUse(u) = InUse(t) /\ PoolOK(u) /\ FilesOK(u) /\ KindsOK(u) /\ EpollOK(u)
  <2>1. /\ u \in Cycle /\ u.free = t.free /\ u.free_n = t.free_n
        /\ u.files = t.files /\ u.sock = t.sock
    BY <1>4
  <2>2. \A d \in Conns : /\ u.conn[d].fd = t.conn[d].fd
                         /\ u.conn[d].instance = t.conn[d].instance
                         /\ u.conn[d].handler = "accept" <=> d \in Listeners
                         /\ u.conn[d].got <= BufSize
    BY <1>6
  <2>3. Framed(u, t)
    BY ONLY <2>1, <2>2, Zenon DEF Framed
  <2> QED
    BY <2>3, FrameKeeps
<1>8. ReusableOK(u)
  BY <1>4, <1>6, <1>7 DEF TableInv, ReusableOK, InUse
<1>9. PostedOK(u)
  <2>1. \A d \in Listeners : d \in Conns /\ d # c
    BY TableAssumption DEF Listeners, Conns
  <2>2. Members(p) = {d \in InUse(u) : u.conn[d].posted}
    BY <1>1, <1>2, <1>5, <1>7 DEF TableInv, PostedOK, InUse
  <2> QED
    BY <1>4, <1>5, <2>1, <2>2 DEF TableInv, PostedOK
<1>10. TimersOK(t) => TimersOK(u)
  BY <1>4, <1>6, <1>7 DEF TimersOK, InUse
<1> QED
  BY <1>4, <1>7, <1>8, <1>9, <1>10 DEF TableInv, u

-----------------------------------------------------------------------------
(* Connections given back and taken                                        *)

\* night_free_connection and close(), for a connection in no queue.
LEMMA GiveBack ==
    ASSUME NEW t, TableInv(t), NEW c \in InUse(t),
           ~t.conn[c].reusable, ~t.conn[c].posted
    PROVE  LET u == CloseFd(FreeConnection(t, c), c)
               fd == t.conn[c].fd
           IN
           /\ TableInv(u)
           /\ TimersOK(t) /\ ~t.conn[c].timer_set => TimersOK(u)
           /\ u.conn = [t.conn EXCEPT ![c].fd = NoFd]
           /\ u.sock = [t.sock EXCEPT ![fd] = ClosedSocket]
           /\ u.files = [t.files EXCEPT ![fd] = NoConn]
           /\ u.lost = t.lost
<1> DEFINE u == CloseFd(FreeConnection(t, c), c)
           fd == t.conn[c].fd
           r == [t.conn[c] EXCEPT !.fd = NoFd]
           q == <<c>> \o t.free
<1>1. /\ t \in Cycle /\ c \in Conns /\ c # NoConn /\ t.conn[c] \in Connection
      /\ fd \in Fds /\ t.files[fd] = c /\ fd # NoFd
  BY Held DEF TableInv, InUse
<1>2. r \in Connection /\ r.reusable = t.conn[c].reusable /\ r.fd = NoFd
      /\ r.instance = t.conn[c].instance /\ r.handler = t.conn[c].handler
      /\ r.posted = t.conn[c].posted /\ r.got = t.conn[c].got
  BY <1>1 DEF Connection
<1>3. ClosedSocket \in Socket /\ ClosedSocket.reg = NoConn /\ ClosedSocket.kind = "closed"
  BY DEF ClosedSocket, Socket, NoConn
<1>4. /\ q \in Seq(Conns) /\ NoRepeats(q) /\ Len(q) = t.free_n + 1
      /\ Members(q) = Members(t.free) \cup {c} /\ t.free_n \in Nat
  <2>1. /\ t.free \in Seq(Conns) /\ NoRepeats(t.free) /\ c \notin Members(t.free)
        /\ t.free_n = Len(t.free) /\ t.free_n \in Nat
    BY <1>1 DEF TableInv, PoolOK, Cycle
  <2> QED
    BY <1>1, <2>1, ConsQueue
<1>5. u = [t EXCEPT !.conn[c] = r, !.sock[fd] = ClosedSocket, !.free = q,
                    !.free_n = t.free_n + 1, !.files[fd] = NoConn]
  BY <1>1 DEF CloseFd, FreeConnection, Cycle
<1> HIDE DEF u, r, q
<1>6. /\ u.conn = [t.conn EXCEPT ![c] = r] /\ u.timers = t.timers
      /\ u.free = q /\ u.free_n = t.free_n + 1
      /\ u.files = [t.files EXCEPT ![fd] = NoConn]
      /\ u.reuse = t.reuse /\ u.reusable_n = t.reusable_n
      /\ u.posted = t.posted /\ u.lost = t.lost
      /\ u.sock = [t.sock EXCEPT ![fd] = ClosedSocket]
  BY <1>1, <1>5 DEF Cycle
<1>18. u \in Cycle
  <2>1. [t.conn EXCEPT ![c] = r] \in [Conns -> Connection]
    BY <1>1, <1>2 DEF Cycle
  <2>2. [t.files EXCEPT ![fd] = NoConn] \in [Fds -> Conns \cup {NoConn}]
    BY <1>1 DEF Cycle
  <2>3. [t.sock EXCEPT ![fd] = ClosedSocket] \in [Fds -> Socket]
    BY <1>1, <1>3 DEF Cycle
  <2>4. t.free_n + 1 \in Nat
    BY <1>4
  <2> QED
    BY <1>1, <1>4, <1>5, <2>1, <2>2, <2>3, <2>4 DEF Cycle
<1>7. u.conn[c] = r /\ \A d \in Conns : d # c => u.conn[d] = t.conn[d]
  BY <1>1, <1>6 DEF Cycle
<1>8. /\ u.sock[fd] = ClosedSocket /\ \A f \in Fds : f # fd => u.sock[f] = t.sock[f]
      /\ u.files[fd] = NoConn /\ \A f \in Fds : f # fd => u.files[f] = t.files[f]
  BY <1>1, <1>6 DEF Cycle
<1>9. InUse(u) = InUse(t) \ {c}
  BY <1>1, <1>2, <1>7 DEF InUse
<1>10. \A d \in InUse(u) : /\ d # c /\ d \in InUse(t) /\ u.conn[d] = t.conn[d]
                           /\ t.conn[d].fd \in Fds /\ t.conn[d].fd # fd
  BY <1>7, <1>9, Held DEF TableInv, PoolOK, InUse
<1>11. PoolOK(u)
  <2>1. Members(q) = Conns \ InUse(u)
    BY <1>1, <1>4, <1>9 DEF TableInv, PoolOK
  <2>2. \A d, e \in InUse(u) : u.conn[d].fd = u.conn[e].fd => d = e
    BY <1>10 DEF TableInv, PoolOK
  <2> QED
    BY <1>4, <1>6, <2>1, <2>2 DEF PoolOK
<1>12. FilesOK(u)
  <2>0. \A d \in InUse(t) : t.files[t.conn[d].fd] = d /\ t.sock[t.conn[d].fd].kind # "closed"
    BY DEF TableInv, FilesOK
  <2>1. \A d \in InUse(u) : u.files[u.conn[d].fd] = d /\ u.sock[u.conn[d].fd].kind # "closed"
    BY <1>8, <1>10, <2>0
  <2>2. ASSUME NEW f \in Fds, u.files[f] # NoConn PROVE u.conn[u.files[f]].fd = f
    <3>1. f # fd /\ u.files[f] = t.files[f] /\ t.files[f] \in Conns
      BY <1>1, <1>8, <2>2 DEF Cycle
    <3>2. t.conn[t.files[f]].fd = f
      BY <2>2, <3>1 DEF TableInv, FilesOK
    <3> QED
      BY <1>7, <3>1, <3>2
  <2> QED
    BY <2>1, <2>2 DEF FilesOK
<1>13. ReusableOK(u)
  <2>1. c \notin Members(t.reuse) /\ \A d \in Conns : u.conn[d].reusable = t.conn[d].reusable
    BY <1>2, <1>7 DEF TableInv, ReusableOK
  <2> QED
    BY <1>6, <1>7, <1>9, <2>1 DEF TableInv, ReusableOK
<1>14. KindsOK(u)
  <2>1. \A d \in Conns : (u.conn[d].handler = "accept" <=> d \in Listeners) /\ u.conn[d].got <= BufSize
    BY <1>2, <1>7 DEF TableInv, KindsOK
  <2>2. \A d \in InUse(u) : u.sock[u.conn[d].fd].kind = IF d \in Listeners THEN "listen" ELSE "stream"
    BY <1>8, <1>10 DEF TableInv, KindsOK
  <2>3. \A f \in Fds : u.sock[f].kind = "stream" =>
          u.sock[f].rcv <= u.sock[f].sent /\ u.sock[f].sent <= MaxBytes
    BY <1>3, <1>8 DEF TableInv, KindsOK
  <2> QED
    BY <2>1, <2>2, <2>3 DEF KindsOK
<1>15. PostedOK(u)
  <2>1. \A d \in Listeners : d \in Conns
    BY TableAssumption DEF Listeners, Conns
  <2>2. \A d \in Conns : u.conn[d].posted = t.conn[d].posted
    BY <1>2, <1>7
  <2> QED
    BY <1>6, <1>9, <2>1, <2>2 DEF TableInv, PostedOK, InUse
<1>16. EpollOK(u)
  <2> SUFFICES ASSUME NEW f \in Fds, u.sock[f].reg # NoConn
               PROVE  /\ u.conn[u.sock[f].reg].fd = f
                      /\ u.conn[u.sock[f].reg].instance = u.sock[f].inst
    BY DEF EpollOK
  <2>1. f # fd /\ u.sock[f] = t.sock[f] /\ t.sock[f] \in Socket
    BY <1>1, <1>3, <1>8 DEF Cycle
  <2>2. t.sock[f].reg \in Conns
    BY <2>1 DEF Socket
  <2> QED
    BY <1>7, <2>1, <2>2 DEF TableInv, EpollOK
<1>17. TimersOK(t) /\ ~t.conn[c].timer_set => TimersOK(u)
  BY <1>6, <1>7, <1>9 DEF TimersOK, InUse
<1> QED
  BY <1>6, <1>11, <1>12, <1>13, <1>14, <1>15, <1>16, <1>17, <1>18 DEF TableInv, u, r

Up(t) == \A l \in Listeners : t.conn[l].fd # NoFd

\* night_get_connection with a free connection, for a descriptor just
\* accepted. The listeners are in use, so that none of them is taken.
LEMMA TakeKeeps ==
    ASSUME NEW t, TableInv(t), Up(t), t.free # <<>>,
           NEW fd \in Fds, t.files[fd] = NoConn, t.sock[fd].kind = "stream"
    PROVE  LET u == Take(t, fd)
               c == Head(t.free)
           IN
           /\ TableInv(u)
           /\ TimersOK(t) => TimersOK(u)
           /\ c \in Conns \ (Listeners \cup InUse(t))
           /\ u.conn = [t.conn EXCEPT ![c] = Fresh(fd, ~t.conn[c].instance)]
           /\ u.sock = t.sock
           /\ u.lost = t.lost
<1> DEFINE u == Take(t, fd)
           c == Head(t.free)
           r == Fresh(fd, ~t.conn[c].instance)
           q == Tail(t.free)
<1>1. t \in Cycle /\ t.free \in Seq(Conns) /\ t.free_n = Len(t.free) /\ NoRepeats(t.free)
      /\ Members(t.free) = Conns \ InUse(t)
  BY DEF TableInv, PoolOK, Cycle
<1>2. /\ c \in Conns /\ c \in Members(t.free)
      /\ q \in Seq(Conns) /\ NoRepeats(q) /\ Len(q) = t.free_n - 1 /\ Len(q) \in Nat
      /\ Members(q) = Members(t.free) \ {c}
  BY <1>1, TailQueue
<1>3. c \notin InUse(t) /\ c \notin Listeners /\ t.conn[c].fd = NoFd /\ c # NoConn
  BY <1>1, <1>2 DEF Up, InUse, Conns, NoConn
<1>4. NoFd \notin Fds
  BY DEF Fds, NoFd
<1>5. t.conn[c].instance \in BOOLEAN
  BY <1>1, <1>2 DEF Cycle, Connection
<1>6. /\ r \in Connection /\ r.fd = fd /\ r.handler = "none" /\ ~r.reusable
      /\ ~r.posted /\ ~r.timer_set /\ r.got = 0
  BY <1>5, TableAssumption DEF Fresh, Connection, Handlers
<1>7. u = [t EXCEPT !.free = q, !.free_n = t.free_n - 1, !.files[fd] = c, !.conn[c] = r]
  BY <1>1, <1>2 DEF Take, Cycle
<1> HIDE DEF u, r, q, c
<1>8. /\ u \in Cycle
      /\ u.conn = [t.conn EXCEPT ![c] = r] /\ u.timers = t.timers
      /\ u.free = q /\ u.free_n = t.free_n - 1
      /\ u.files = [t.files EXCEPT ![fd] = c]
      /\ u.reuse = t.reuse /\ u.reusable_n = t.reusable_n
      /\ u.posted = t.posted /\ u.lost = t.lost /\ u.sock = t.sock
  BY <1>1, <1>2, <1>6, <1>7 DEF Cycle
<1>9. u.conn[c] = r /\ \A d \in Conns : d # c => u.conn[d] = t.conn[d]
  BY <1>1, <1>2, <1>8 DEF Cycle
<1>10. u.files[fd] = c /\ \A f \in Fds : f # fd => u.files[f] = t.files[f]
  BY <1>1, <1>8 DEF Cycle
<1>11. InUse(u) = InUse(t) \cup {c}
  BY <1>2, <1>4, <1>6, <1>9 DEF InUse
<1>12. \A d \in InUse(t) : /\ d \in Conns /\ d # c /\ u.conn[d] = t.conn[d]
                           /\ t.conn[d].fd \in Fds /\ t.conn[d].fd # fd
  BY <1>3, <1>9, Held
<1>13. PoolOK(u)
  <2>1. Members(q) = Conns \ InUse(u)
    BY <1>1, <1>2, <1>11
  <2>2. \A d, e \in InUse(u) : u.conn[d].fd = u.conn[e].fd => d = e
    BY <1>6, <1>9, <1>11, <1>12 DEF TableInv, PoolOK
  <2> QED
    BY <1>2, <1>8, <2>1, <2>2 DEF PoolOK
<1>14. FilesOK(u)
  <2>1. \A d \in InUse(u) : u.files[u.conn[d].fd] = d /\ u.sock[u.conn[d].fd].kind # "closed"
    BY <1>6, <1>8, <1>9, <1>10, <1>11, <1>12 DEF TableInv, FilesOK
  <2>2. ASSUME NEW f \in Fds, u.files[f] # NoConn PROVE u.conn[u.files[f]].fd = f
    <3>1. CASE f = fd
      BY <1>6, <1>9, <1>10, <3>1
    <3>2. CASE f # fd
      <4>1. u.files[f] = t.files[f] /\ t.files[f] \in Conns /\ t.conn[t.files[f]].fd = f
        BY <1>1, <1>10, <2>2, <3>2 DEF Cycle, TableInv, FilesOK
      <4> QED
        BY <1>3, <1>4, <1>9, <4>1
    <3> QED
      BY <3>1, <3>2
  <2> QED
    BY <2>1, <2>2 DEF FilesOK
<1>15. ReusableOK(u)
  <2>1. c \notin Members(t.reuse)
    BY <1>3 DEF TableInv, ReusableOK
  <2>2. Members(u.reuse) = {d \in Conns : u.conn[d].reusable}
    BY <1>6, <1>8, <1>9, <2>1 DEF TableInv, ReusableOK
  <2> QED
    BY <1>8, <1>11, <1>12, <2>2 DEF TableInv, ReusableOK
<1>16. KindsOK(u)
  <2>1. \A d \in Conns : (u.conn[d].handler = "accept" <=> d \in Listeners) /\ u.conn[d].got <= BufSize
    BY <1>3, <1>6, <1>9, WorkerAssumption DEF TableInv, KindsOK
  <2>2. \A d \in InUse(u) : u.sock[u.conn[d].fd].kind = IF d \in Listeners THEN "listen" ELSE "stream"
    BY <1>3, <1>6, <1>8, <1>9, <1>11, <1>12 DEF TableInv, KindsOK
  <2> QED
    BY <1>8, <2>1, <2>2 DEF TableInv, KindsOK
<1>17. PostedOK(u)
  <2>1. \A d \in Listeners : d \in Conns
    BY TableAssumption DEF Listeners, Conns
  <2>2. {d \in InUse(u) : u.conn[d].posted} = {d \in InUse(t) : t.conn[d].posted}
    BY <1>6, <1>9, <1>11, <1>12
  <2> QED
    BY <1>3, <1>8, <1>9, <2>1, <2>2 DEF TableInv, PostedOK
<1>18. EpollOK(u)
  <2> SUFFICES ASSUME NEW f \in Fds, t.sock[f].reg # NoConn
               PROVE  /\ u.conn[t.sock[f].reg].fd = f
                      /\ u.conn[t.sock[f].reg].instance = t.sock[f].inst
    BY <1>8 DEF EpollOK
  <2>1. t.sock[f] \in Socket
    BY <1>1 DEF Cycle
  <2>2. t.sock[f].reg \in Conns
    BY <2>1 DEF Socket
  <2>3. t.conn[t.sock[f].reg].fd = f /\ t.conn[t.sock[f].reg].instance = t.sock[f].inst
    BY DEF TableInv, EpollOK
  <2> QED
    BY <1>3, <1>4, <1>9, <2>2, <2>3
<1>19. TimersOK(t) => TimersOK(u)
  BY <1>6, <1>8, <1>9, <1>11, <1>12 DEF TimersOK
<1> QED
  BY <1>2, <1>3, <1>8, <1>13, <1>14, <1>15, <1>16, <1>17, <1>18, <1>19 DEF TableInv, u, r, c

-----------------------------------------------------------------------------
(* The operations on one connection                                        *)

\* Nothing but connection c and its descriptor changed, c was at most
\* closed, and it did not begin to wait for a request.
Within(t, u, c) ==
    /\ \A d \in Conns : d # c => u.conn[d] = t.conn[d]
    /\ u.conn[c].instance = t.conn[c].instance
    /\ u.conn[c].fd \in {t.conn[c].fd, NoFd}
    /\ u.conn[c].handler = "wait" => t.conn[c].handler = "wait"
    /\ \A fd \in Fds : fd # t.conn[c].fd => /\ u.sock[fd] = t.sock[fd]
                                            /\ u.files[fd] = t.files[fd]

Step(t, u, c) ==
    /\ TableInv(u)
    /\ TimersOK(t) => TimersOK(u)
    /\ Within(t, u, c)

\* Doing nothing is a step.
LEMMA StepSame ==
    ASSUME NEW t, TableInv(t), NEW c \in Conns
    PROVE  Step(t, t, c)
BY DEF Step, Within

\* Steps of the same connection compose.
LEMMA StepTwice ==
    ASSUME NEW t, NEW u, NEW v, NEW c, Step(t, u, c), Step(u, v, c)
    PROVE  Step(t, v, c)
<1>1. NoFd \notin Fds
  BY DEF Fds, NoFd
<1>2. Within(t, v, c)
  BY <1>1 DEF Step, Within
<1> QED
  BY <1>2 DEF Step

\* What the updates of one connection below leave alone in its record.
Alike(r, x) ==
    /\ r.fd = x.fd /\ r.instance = x.instance /\ r.posted = x.posted
    /\ r.reusable = x.reusable /\ r.timer_set = x.timer_set

\* A connection in use gets a new record that agrees with the old one where the
\* queues, the timers and epoll look at it.
LEMMA SetConnection ==
    ASSUME NEW t, TableInv(t), NEW c \in InUse(t), NEW r \in Connection,
           Alike(r, t.conn[c]),
           r.reusable => r.handler \in {"wait", "keepalive"},
           r.handler = "accept" <=> c \in Listeners,
           r.handler = "wait" => t.conn[c].handler = "wait",
           r.got <= BufSize
    PROVE  LET u == [t EXCEPT !.conn[c] = r] IN
           /\ Step(t, u, c)
           /\ c \in InUse(u) /\ u.conn[c] = r
           /\ u.sock = t.sock /\ u.files = t.files /\ u.lost = t.lost
<1> DEFINE u == [t EXCEPT !.conn[c] = r]
<1>1. t \in Cycle /\ c \in Conns /\ t.conn[c] \in Connection
  BY Held DEF TableInv
<1>2. t.timers \in SUBSET Conns
  BY <1>1 DEF Cycle
<1>3. u = [t EXCEPT !.conn[c] = r, !.timers = t.timers]
  BY <1>1 DEF Cycle
<1>4. /\ u.conn = [t.conn EXCEPT ![c] = r]
      /\ u.sock = t.sock /\ u.files = t.files /\ u.lost = t.lost
  BY <1>1 DEF Cycle
<1> HIDE DEF u
<1>5. /\ TableInv(u)
      /\ TimersOK(t) /\ t.timers = (IF r.timer_set THEN t.timers \cup {c}
                                    ELSE t.timers \ {c}) => TimersOK(u)
  BY <1>2, <1>3, UpdateConnection DEF Alike
<1>6. TimersOK(t) => t.timers = (IF r.timer_set THEN t.timers \cup {c} ELSE t.timers \ {c})
  BY DEF TimersOK, Alike
<1>7. u.conn[c] = r /\ \A d \in Conns : d # c => u.conn[d] = t.conn[d]
  BY <1>1, <1>4 DEF Cycle
<1>8. Within(t, u, c)
  BY <1>4, <1>7 DEF Within, Alike
<1>9. c \in InUse(u)
  BY <1>1, <1>7 DEF InUse, Alike
<1> QED
  BY <1>4, <1>5, <1>6, <1>7, <1>8, <1>9 DEF Step, u

\* night_event_add_timer, and night_event_del_timer below.
LEMMA AddTimerStep ==
    ASSUME NEW t, TableInv(t), NEW c \in InUse(t)
    PROVE  LET u == AddTimer(t, c) IN
           /\ Step(t, u, c)
           /\ u.conn = [t.conn EXCEPT ![c].timer_set = TRUE]
           /\ u.sock = t.sock /\ u.files = t.files /\ u.lost = t.lost
<1> DEFINE u == AddTimer(t, c)
           r == [t.conn[c] EXCEPT !.timer_set = TRUE]
           T == t.timers \cup {c}
<1>1. t \in Cycle /\ c \in Conns /\ t.conn[c] \in Connection
  BY Held DEF TableInv
<1>2. /\ r \in Connection /\ r.timer_set /\ T \in SUBSET Conns
      /\ r.fd = t.conn[c].fd /\ r.instance = t.conn[c].instance
      /\ r.posted = t.conn[c].posted /\ r.reusable = t.conn[c].reusable
      /\ r.handler = t.conn[c].handler /\ r.got = t.conn[c].got
  BY <1>1 DEF Connection, Cycle
<1>3. u = [t EXCEPT !.conn[c] = r, !.timers = T]
  BY <1>1 DEF AddTimer, Cycle
<1>4. /\ u.conn = [t.conn EXCEPT ![c] = r]
      /\ u.sock = t.sock /\ u.files = t.files /\ u.lost = t.lost
  BY <1>1 DEF AddTimer, Cycle
<1> HIDE DEF u, r, T
<1>5. /\ r.reusable => r.handler \in {"wait", "keepalive"}
      /\ r.handler = "accept" <=> c \in Listeners
      /\ r.got <= BufSize
  BY <1>2, Held
<1>6. /\ TableInv(u)
      /\ TimersOK(t) /\ T = (IF r.timer_set THEN t.timers \cup {c}
                             ELSE t.timers \ {c}) => TimersOK(u)
  BY <1>2, <1>3, <1>5, UpdateConnection
<1>7. u.conn[c] = r /\ \A d \in Conns : d # c => u.conn[d] = t.conn[d]
  BY <1>1, <1>4 DEF Cycle
<1>8. Within(t, u, c)
  BY <1>2, <1>4, <1>7 DEF Within
<1> QED
  BY <1>2, <1>4, <1>6, <1>8 DEF Step, u, r, T

\* night_event_del_timer.
LEMMA DelTimerStep ==
    ASSUME NEW t, TableInv(t), NEW c \in InUse(t)
    PROVE  LET u == DelTimer(t, c) IN
           /\ Step(t, u, c)
           /\ u.conn = [t.conn EXCEPT ![c].timer_set = FALSE]
           /\ u.sock = t.sock /\ u.files = t.files /\ u.lost = t.lost
<1> DEFINE u == DelTimer(t, c)
           r == [t.conn[c] EXCEPT !.timer_set = FALSE]
           T == t.timers \ {c}
<1>1. t \in Cycle /\ c \in Conns /\ t.conn[c] \in Connection
  BY Held DEF TableInv
<1>2. CASE ~t.conn[c].timer_set
  <2>1. u = t /\ r = t.conn[c]
    BY <1>1, <1>2 DEF DelTimer, Connection
  <2>2. t.conn = [t.conn EXCEPT ![c] = r]
    BY <1>1, <2>1 DEF Cycle
  <2> QED
    BY <1>1, <2>1, <2>2, StepSame
<1>3. CASE t.conn[c].timer_set
  <2>2. /\ r \in Connection /\ ~r.timer_set /\ T \in SUBSET Conns
        /\ r.fd = t.conn[c].fd /\ r.instance = t.conn[c].instance
        /\ r.posted = t.conn[c].posted /\ r.reusable = t.conn[c].reusable
        /\ r.handler = t.conn[c].handler /\ r.got = t.conn[c].got
    BY <1>1 DEF Connection, Cycle
  <2>3. u = [t EXCEPT !.conn[c] = r, !.timers = T]
    BY <1>1, <1>3 DEF DelTimer, Cycle
  <2>4. /\ u.conn = [t.conn EXCEPT ![c] = r]
        /\ u.sock = t.sock /\ u.files = t.files /\ u.lost = t.lost
    BY <1>1, <1>3 DEF DelTimer, Cycle
  <2> HIDE DEF u, r, T
  <2>5. /\ r.reusable => r.handler \in {"wait", "keepalive"}
        /\ r.handler = "accept" <=> c \in Listeners
        /\ r.got <= BufSize
    BY <2>2, Held
  <2>6. /\ TableInv(u)
        /\ TimersOK(t) /\ T = (IF r.timer_set THEN t.timers \cup {c}
                               ELSE t.timers \ {c}) => TimersOK(u)
    BY <2>2, <2>3, <2>5, UpdateConnection
  <2>7. u.conn[c] = r /\ \A d \in Conns : d # c => u.conn[d] = t.conn[d]
    BY <1>1, <2>4 DEF Cycle
  <2>8. Within(t, u, c)
    BY <2>2, <2>4, <2>7 DEF Within
  <2> QED
    BY <2>2, <2>4, <2>6, <2>8 DEF Step, u, r, T
<1> QED
  BY <1>2, <1>3

\* The posted events.
LEMMA PostStep ==
    ASSUME NEW t, TableInv(t), NEW c \in InUse(t) \ Listeners
    PROVE  LET u == Post(t, c) IN Step(t, u, c) /\ u.lost = t.lost
<1> DEFINE u == Post(t, c)
<1>1. t \in Cycle /\ c \in Conns /\ t.conn[c] \in Connection
  BY Held DEF TableInv
<1>2. CASE t.conn[c].posted
  BY <1>1, <1>2, StepSame DEF Post
<1>3. CASE ~t.conn[c].posted
  <2>1. t.posted \in Seq(Conns) /\ NoRepeats(t.posted) /\ c \notin Members(t.posted)
    BY <1>1, <1>3 DEF TableInv, PostedOK, Cycle
  <2>2. /\ Append(t.posted, c) \in Seq(Conns) /\ NoRepeats(Append(t.posted, c))
        /\ Members(Append(t.posted, c)) = Members(t.posted) \cup {c}
    BY <1>1, <2>1, AppendQueue
  <2> DEFINE p == Append(t.posted, c)
  <2>3. u = [t EXCEPT !.conn[c].posted = TRUE, !.posted = p]
    BY <1>1, <1>3 DEF Post, Cycle
  <2>4. TableInv(u) /\ (TimersOK(t) => TimersOK(u))
    <3>1. /\ p \in Seq(Conns) /\ NoRepeats(p)
          /\ Members(p) = IF TRUE THEN Members(t.posted) \cup {c} ELSE Members(t.posted) \ {c}
      BY <2>2
    <3> HIDE DEF p, u
    <3> QED
      BY <2>3, <3>1, UpdatePosted
  <2>5. /\ u.conn = [t.conn EXCEPT ![c].posted = TRUE]
        /\ u.sock = t.sock /\ u.files = t.files /\ u.lost = t.lost
    BY <1>1, <1>3 DEF Post, Cycle
  <2> HIDE DEF u
  <2>6. Within(t, u, c)
    BY <1>1, <2>5 DEF Within, Cycle, Connection
  <2> QED
    BY <2>4, <2>5, <2>6 DEF Step, u
<1> QED
  BY <1>2, <1>3

\* night_delete_posted_event.
LEMMA DelPostedStep ==
    ASSUME NEW t, TableInv(t), NEW c \in InUse(t) \ Listeners
    PROVE  LET u == DelPosted(t, c) IN
           /\ Step(t, u, c)
           /\ u.conn = [t.conn EXCEPT ![c].posted = FALSE]
           /\ u.sock = t.sock /\ u.files = t.files /\ u.lost = t.lost
<1> DEFINE u == DelPosted(t, c)
<1>1. t \in Cycle /\ c \in Conns /\ t.conn[c] \in Connection
  BY Held DEF TableInv
<1>2. CASE ~t.conn[c].posted
  <2>1. u = t /\ t.conn = [t.conn EXCEPT ![c].posted = FALSE]
    BY <1>1, <1>2 DEF DelPosted, Connection, Cycle
  <2> QED
    BY <1>1, <2>1, StepSame
<1>3. CASE t.conn[c].posted
  <2>1. t.posted \in Seq(Conns) /\ NoRepeats(t.posted) /\ c \in Members(t.posted)
    BY <1>1, <1>3 DEF TableInv, PostedOK, Cycle
  <2>2. /\ Without(t.posted, c) \in Seq(Conns) /\ NoRepeats(Without(t.posted, c))
        /\ Members(Without(t.posted, c)) = Members(t.posted) \ {c}
    BY <2>1, WithoutQueue
  <2> DEFINE p == Without(t.posted, c)
  <2>3. u = [t EXCEPT !.conn[c].posted = FALSE, !.posted = p]
    BY <1>1, <1>3 DEF DelPosted, Cycle
  <2>4. TableInv(u) /\ (TimersOK(t) => TimersOK(u))
    <3>1. /\ p \in Seq(Conns) /\ NoRepeats(p)
          /\ Members(p) = IF FALSE THEN Members(t.posted) \cup {c} ELSE Members(t.posted) \ {c}
      BY <2>2
    <3> HIDE DEF p, u
    <3> QED
      BY <2>3, <3>1, UpdatePosted
  <2>5. /\ u.conn = [t.conn EXCEPT ![c].posted = FALSE]
        /\ u.sock = t.sock /\ u.files = t.files /\ u.lost = t.lost
    BY <1>1, <1>3 DEF DelPosted, Cycle
  <2> HIDE DEF u
  <2>6. Within(t, u, c)
    BY <1>1, <2>5 DEF Within, Cycle, Connection
  <2> QED
    BY <2>4, <2>5, <2>6 DEF Step, u
<1> QED
  BY <1>2, <1>3

\* night_reusable_connection.
LEMMA ReusableStep ==
    ASSUME NEW t, TableInv(t), NEW c \in InUse(t), NEW b \in BOOLEAN,
           b => t.conn[c].handler \in {"wait", "keepalive"}
    PROVE  LET u == Reusable(t, c, b) IN
           /\ Step(t, u, c)
           /\ u.conn = [t.conn EXCEPT ![c].reusable = b]
           /\ u.sock = t.sock /\ u.files = t.files /\ u.lost = t.lost
<1> DEFINE u == Reusable(t, c, b)
<1>1. t \in Cycle /\ c \in Conns /\ t.conn[c] \in Connection
  BY Held DEF TableInv
<1>2. /\ TableInv(u) /\ (TimersOK(t) => TimersOK(u))
      /\ u.conn = [t.conn EXCEPT ![c].reusable = b]
      /\ u.sock = t.sock /\ u.files = t.files /\ u.lost = t.lost
  BY ReusableKeeps
<1> HIDE DEF u
<1>3. Within(t, u, c)
  BY <1>1, <1>2 DEF Within, Cycle, Connection
<1> QED
  BY <1>2, <1>3 DEF Step, u

\* night_handle_read_event: c is active afterwards, and where it was not
\* epoll knows what is there to read.
LEMMA HandleReadEventStep ==
    ASSUME NEW t, TableInv(t), NEW c \in InUse(t)
    PROVE  LET u == HandleReadEvent(t, c)
               fd == t.conn[c].fd
           IN
           /\ Step(t, u, c)
           /\ c \in InUse(u) /\ u.lost = t.lost
           /\ u.conn = [t.conn EXCEPT ![c].active = u.conn[c].active]
           /\ IF ~t.conn[c].active /\ ~t.conn[c].ready
              THEN /\ u.conn[c].active /\ u.sock[fd].reg = c
                   /\ u.sock[fd].edge = Readable(t.sock[fd])
                   /\ u.sock[fd].rcv = t.sock[fd].rcv /\ u.sock[fd].eof = t.sock[fd].eof
              ELSE u = t
<1> DEFINE u == HandleReadEvent(t, c)
           fd == t.conn[c].fd
<1>1. /\ t \in Cycle /\ c \in Conns /\ t.conn[c] \in Connection
      /\ fd \in Fds /\ t.sock[fd] \in Socket /\ c # NoConn
  BY Held DEF TableInv
<1>2. CASE ~(~t.conn[c].active /\ ~t.conn[c].ready)
  <2>1. u = t /\ t.conn = [t.conn EXCEPT ![c].active = t.conn[c].active]
    BY <1>1, <1>2 DEF HandleReadEvent, Cycle, Connection
  <2> QED
    BY <1>1, <1>2, <2>1, StepSame
<1>3. CASE ~t.conn[c].active /\ ~t.conn[c].ready
  <2> DEFINE r == [t.conn[c] EXCEPT !.active = TRUE]
             v == [t EXCEPT !.conn[c] = r]
             edge == Readable(t.sock[fd])
             k == [t.sock[fd] EXCEPT !.reg = c, !.inst = t.conn[c].instance,
                                     !.edge = edge]
  <2>1. /\ r \in Connection /\ Alike(r, t.conn[c]) /\ r.handler = t.conn[c].handler
        /\ r.got = t.conn[c].got /\ r.active /\ r.instance = t.conn[c].instance
        /\ r.fd = fd
    BY <1>1 DEF Connection, Alike
  <2>2. /\ Step(t, v, c) /\ c \in InUse(v) /\ v.conn[c] = r
        /\ v.sock = t.sock /\ v.files = t.files /\ v.lost = t.lost
    <3> HIDE DEF r
    <3>1. /\ r.reusable => r.handler \in {"wait", "keepalive"}
          /\ r.handler = "accept" <=> c \in Listeners
          /\ r.handler = "wait" => t.conn[c].handler = "wait"
          /\ r.got <= BufSize
      BY <2>1, Held DEF Alike
    <3> QED
      BY <2>1, <3>1, SetConnection
  <2>3. edge \in BOOLEAN /\ t.conn[c].instance \in BOOLEAN
    BY <1>1 DEF Readable, Socket, Connection
  <2>4. /\ k \in Socket /\ k.kind = t.sock[fd].kind /\ k.rcv = t.sock[fd].rcv
        /\ k.sent = t.sock[fd].sent /\ k.reg = c /\ k.inst = t.conn[c].instance
        /\ k.edge = edge /\ k.eof = t.sock[fd].eof
    <3> HIDE DEF edge
    <3> QED
      BY <1>1, <2>3 DEF Socket
  <2>5. u = [v EXCEPT !.sock[fd] = k]
    BY <1>1, <1>3 DEF HandleReadEvent, AddEvent, Cycle
  <2>6. u.conn = [t.conn EXCEPT ![c].active = TRUE]
    BY <1>1, <1>3 DEF HandleReadEvent, AddEvent, Cycle
  <2> HIDE DEF u, v, k, r
  <2>7. k.kind = "stream" => k.rcv <= k.sent /\ k.sent <= MaxBytes
    BY <1>1, <2>4 DEF TableInv, KindsOK
  <2>8. TableInv(v) /\ v \in Cycle
    BY <2>2 DEF Step, TableInv
  <2>9. TableInv(u) /\ (TimersOK(v) => TimersOK(u))
    BY <1>1, <2>1, <2>2, <2>4, <2>5, <2>7, <2>8, UpdateSocket
  <2>10. /\ u.conn = v.conn /\ u.files = v.files /\ u.lost = v.lost
         /\ u.sock[fd] = k /\ \A f \in Fds : f # fd => u.sock[f] = v.sock[f]
    BY <1>1, <2>5, <2>8 DEF Cycle
  <2>11. Within(v, u, c)
    BY <2>1, <2>2, <2>10 DEF Within
  <2>12. Step(v, u, c)
    BY <2>9, <2>11 DEF Step
  <2>13. Step(t, u, c)
    BY <2>2, <2>12, StepTwice
  <2>14. c \in InUse(u)
    BY <2>2, <2>10 DEF InUse
  <2>15. u.conn = [t.conn EXCEPT ![c].active = u.conn[c].active] /\ u.conn[c].active
    BY <2>1, <2>2, <2>6, <2>10
  <2> QED
    BY <1>3, <2>2, <2>4, <2>10, <2>13, <2>14, <2>15 DEF u
<1> QED
  BY <1>2, <1>3

\* night_free_connection and close(), as a step.
LEMMA GiveBackStep ==
    ASSUME NEW t, TableInv(t), NEW c \in InUse(t),
           ~t.conn[c].reusable, ~t.conn[c].posted, ~t.conn[c].timer_set
    PROVE  LET u == CloseFd(FreeConnection(t, c), c) IN
           /\ Step(t, u, c)
           /\ u.conn = [t.conn EXCEPT ![c].fd = NoFd]
           /\ u.lost = t.lost
<1> DEFINE u == CloseFd(FreeConnection(t, c), c)
           fd == t.conn[c].fd
<1>1. t \in Cycle /\ c \in Conns /\ t.conn[c] \in Connection /\ fd \in Fds
  BY Held DEF TableInv
<1>2. /\ TableInv(u)
      /\ TimersOK(t) /\ ~t.conn[c].timer_set => TimersOK(u)
      /\ u.conn = [t.conn EXCEPT ![c].fd = NoFd]
      /\ u.sock = [t.sock EXCEPT ![fd] = ClosedSocket]
      /\ u.files = [t.files EXCEPT ![fd] = NoConn]
      /\ u.lost = t.lost
  BY GiveBack
<1> HIDE DEF u
<1>3. /\ \A d \in Conns : d # c => u.conn[d] = t.conn[d]
      /\ u.conn[c] = [t.conn[c] EXCEPT !.fd = NoFd]
      /\ \A f \in Fds : f # fd => u.sock[f] = t.sock[f] /\ u.files[f] = t.files[f]
  BY <1>1, <1>2 DEF Cycle
<1>4. Within(t, u, c)
  BY <1>1, <1>3 DEF Within, Connection
<1> QED
  BY <1>2, <1>4 DEF Step, u

\* night_close_connection of a connection that is not a listener.
LEMMA CloseStep ==
    ASSUME NEW t, TableInv(t), NEW c \in InUse(t) \ Listeners
    PROVE  LET u == HttpClose(t, c) IN
           Step(t, u, c) /\ u.conn[c].fd = NoFd /\ u.lost = t.lost
<1> DEFINE t1 == DelTimer(t, c)
           r == [t1.conn[c] EXCEPT !.active = FALSE]
           t2 == [t1 EXCEPT !.conn[c].active = FALSE]
           t3 == DelPosted(t2, c)
           t4 == Reusable(t3, c, FALSE)
           u == CloseFd(FreeConnection(t4, c), c)
<1>0. t \in Cycle /\ c \in Conns /\ t.conn[c] \in Connection /\ t.conn[c].fd # NoFd
  BY Held DEF TableInv, InUse
<1>1. /\ Step(t, t1, c) /\ TableInv(t1) /\ t1.lost = t.lost
      /\ t1.conn = [t.conn EXCEPT ![c].timer_set = FALSE]
  BY DelTimerStep DEF Step
<1> HIDE DEF t1
<1>2. c \in InUse(t1) \ Listeners /\ ~t1.conn[c].timer_set
  BY <1>0, <1>1 DEF InUse, Cycle, Connection
<1>3. t1 \in Cycle /\ t1.conn[c] \in Connection
  BY <1>1, <1>2, Held DEF TableInv
<1>4. /\ r \in Connection /\ Alike(r, t1.conn[c])
      /\ r.handler = t1.conn[c].handler /\ r.got = t1.conn[c].got
  BY <1>3 DEF Connection, Alike
<1>5. t2 = [t1 EXCEPT !.conn[c] = r]
  BY <1>3 DEF Cycle
<1>6. /\ r.reusable => r.handler \in {"wait", "keepalive"}
      /\ r.handler = "accept" <=> c \in Listeners
      /\ r.handler = "wait" => t1.conn[c].handler = "wait"
      /\ r.got <= BufSize
  BY <1>1, <1>2, <1>4, Held DEF Alike
<1> HIDE DEF r, t2
<1>7. /\ Step(t1, t2, c) /\ TableInv(t2) /\ t2.lost = t1.lost /\ c \in InUse(t2)
      /\ t2.conn[c] = r
  <2>0. TableInv(t1) /\ c \in InUse(t1)
    BY <1>1, <1>2
  <2>1. /\ Step(t1, t2, c) /\ t2.lost = t1.lost /\ c \in InUse(t2) /\ t2.conn[c] = r
    BY <2>0, <1>4, <1>5, <1>6, SetConnection
  <2> QED
    BY <2>1 DEF Step
<1>8. /\ Step(t2, t3, c) /\ TableInv(t3) /\ t3.lost = t2.lost
      /\ t3.conn = [t2.conn EXCEPT ![c].posted = FALSE]
  BY <1>2, <1>7, DelPostedStep DEF Step
<1> HIDE DEF t3
<1>9. /\ c \in InUse(t3) /\ ~t3.conn[c].timer_set /\ ~t3.conn[c].posted
  <2>1. t2 \in Cycle /\ t2.conn[c] \in Connection /\ t2.conn[c].fd # NoFd
    BY <1>7, Held DEF TableInv, InUse
  <2> QED
    BY <1>0, <1>2, <1>4, <1>7, <1>8, <2>1 DEF InUse, Cycle, Connection, Alike
<1>10. /\ Step(t3, t4, c) /\ TableInv(t4) /\ t4.lost = t3.lost
       /\ t4.conn = [t3.conn EXCEPT ![c].reusable = FALSE]
  BY <1>8, <1>9, ReusableStep DEF Step
<1> HIDE DEF t4
<1>11. c \in InUse(t4) /\ ~t4.conn[c].timer_set /\ ~t4.conn[c].posted /\ ~t4.conn[c].reusable
  <2>1. t3 \in Cycle /\ t3.conn[c] \in Connection /\ t3.conn[c].fd # NoFd
    BY <1>8, <1>9, Held DEF TableInv, InUse
  <2> QED
    BY <1>0, <1>9, <1>10, <2>1 DEF InUse, Cycle, Connection
<1>12. /\ Step(t4, u, c) /\ u.lost = t4.lost
       /\ u.conn = [t4.conn EXCEPT ![c].fd = NoFd]
  BY <1>10, <1>11, GiveBackStep
<1> HIDE DEF u
<1>13. u.conn[c].fd = NoFd
  <2>1. t4 \in Cycle /\ t4.conn[c] \in Connection
    BY <1>10, <1>11, Held DEF TableInv
  <2> QED
    BY <1>0, <1>12, <2>1 DEF Cycle, Connection
<1>14. u = HttpClose(t, c)
  BY <1>0 DEF HttpClose, CloseConnection, u, t4, t3, t2, t1
<1>15. Step(t, u, c)
  BY <1>1, <1>7, <1>8, <1>10, <1>12, StepTwice
<1> QED
  BY <1>1, <1>7, <1>8, <1>10, <1>12, <1>13, <1>14, <1>15

\* A connection asked to go: closed if it waits for a request.
LEMMA AskToCloseStep ==
    ASSUME NEW t, TableInv(t), NEW c \in InUse(t) \ Listeners
    PROVE  LET u == AskToClose(t, c) IN
           /\ Step(t, u, c) /\ u.lost = t.lost
           /\ t.conn[c].handler = "wait" => u.conn[c].fd = NoFd
<1> DEFINE r == [t.conn[c] EXCEPT !.close = TRUE]
           v == [t EXCEPT !.conn[c].close = TRUE]
           u == AskToClose(t, c)
<1>1. t \in Cycle /\ c \in Conns /\ t.conn[c] \in Connection
  BY Held DEF TableInv
<1>2. /\ r \in Connection /\ Alike(r, t.conn[c])
      /\ r.handler = t.conn[c].handler /\ r.got = t.conn[c].got
  BY <1>1 DEF Connection, Alike
<1>3. v = [t EXCEPT !.conn[c] = r]
  BY <1>1 DEF Cycle
<1>4. /\ r.reusable => r.handler \in {"wait", "keepalive"}
      /\ r.handler = "accept" <=> c \in Listeners
      /\ r.handler = "wait" => t.conn[c].handler = "wait"
      /\ r.got <= BufSize
  BY <1>2, Held DEF Alike
<1>5. u = IF t.conn[c].handler = "wait" THEN HttpClose(v, c) ELSE v
  BY DEF AskToClose
<1> HIDE DEF r, v, u
<1>6. Step(t, v, c) /\ v.lost = t.lost /\ c \in InUse(v) \ Listeners /\ TableInv(v)
  <2>1. Step(t, v, c) /\ v.lost = t.lost /\ c \in InUse(v)
    BY <1>2, <1>3, <1>4, SetConnection
  <2> QED
    BY <2>1 DEF Step
<1>7. LET w == HttpClose(v, c) IN Step(v, w, c) /\ w.conn[c].fd = NoFd /\ w.lost = v.lost
  BY <1>6, CloseStep
<1>8. Step(t, HttpClose(v, c), c)
  BY <1>6, <1>7, StepTwice
<1> QED
  BY <1>5, <1>6, <1>7, <1>8 DEF u

-----------------------------------------------------------------------------
(* night_drain_connections                                                 *)

\* Connections were only closed, no listener was touched, one that still
\* waits for a request is as it was, and so are descriptors nobody holds.
Closing(t, u) ==
    /\ \A d \in Conns : u.conn[d].instance = t.conn[d].instance
    /\ \A d \in Conns : u.conn[d].fd \in {t.conn[d].fd, NoFd}
    /\ \A d \in Conns : u.conn[d].fd # NoFd /\ u.conn[d].handler = "wait" =>
         u.conn[d] = t.conn[d] /\ u.sock[u.conn[d].fd] = t.sock[u.conn[d].fd]
    /\ \A d \in Listeners : u.conn[d] = t.conn[d]
    /\ \A fd \in Fds : t.files[fd] = NoConn =>
         u.files[fd] = NoConn /\ u.sock[fd] = t.sock[fd]
    /\ u.lost = t.lost

\* Closing more connections is closing connections.
LEMMA ClosingTwice ==
    ASSUME NEW t, NEW u, NEW v, Closing(t, u), Closing(u, v)
    PROVE  Closing(t, v)
BY DEF Closing

\* A connection asked to close, seen from the others.
LEMMA AskToCloseCloses ==
    ASSUME NEW t, TableInv(t), NEW c \in InUse(t) \ Listeners
    PROVE  Closing(t, AskToClose(t, c))
<1> DEFINE u == AskToClose(t, c)
<1>1. /\ Within(t, u, c) /\ u.lost = t.lost /\ TableInv(u)
      /\ t.conn[c].handler = "wait" => u.conn[c].fd = NoFd
  BY AskToCloseStep DEF Step
<1> HIDE DEF u
<1>2. c \in Conns /\ t.files[t.conn[c].fd] = c /\ c # NoConn
  BY Held
<1>3. \A fd \in Fds : t.files[fd] = NoConn => u.files[fd] = NoConn /\ u.sock[fd] = t.sock[fd]
  BY <1>1, <1>2 DEF Within
<1>4. \A d \in Listeners : u.conn[d] = t.conn[d]
  BY <1>1, TableAssumption DEF Within, Listeners, Conns
<1>5. ASSUME NEW d \in Conns, u.conn[d].fd # NoFd, u.conn[d].handler = "wait"
      PROVE  u.conn[d] = t.conn[d] /\ u.sock[u.conn[d].fd] = t.sock[u.conn[d].fd]
  <2>1. d # c
    BY <1>1, <1>5 DEF Within
  <2>2. u.conn[d] = t.conn[d] /\ d \in InUse(t)
    BY <1>1, <1>5, <2>1 DEF Within, InUse
  <2>3. t.conn[d].fd \in Fds /\ t.conn[d].fd # t.conn[c].fd
    BY <2>1, <2>2, Held DEF TableInv, PoolOK
  <2> QED
    BY <1>1, <2>2, <2>3 DEF Within
<1>6. \A d \in Conns : /\ u.conn[d].instance = t.conn[d].instance
                       /\ u.conn[d].fd \in {t.conn[d].fd, NoFd}
  BY <1>1 DEF Within
<1> QED
  BY <1>1, <1>3, <1>4, <1>5, <1>6 DEF Closing, u

\* night_drain_connections closes connections and keeps the table in order,
\* however many rounds its loop takes.
LEMMA DrainCloses ==
    ASSUME NEW t, TableInv(t), TimersOK(t)
    PROVE  LET u == Drain(t) IN TableInv(u) /\ TimersOK(u) /\ Closing(t, u)
<1> DEFINE n == IF t.reusable_n \div 8 < 1 THEN 1
                ELSE IF t.reusable_n \div 8 > 8 THEN 8 ELSE t.reusable_n \div 8
           next(v) == IF v.reuse = <<>> THEN v ELSE AskToClose(v, Last(v.reuse))
           T == {v \in Cycle : TableInv(v) /\ TimersOK(v) /\ Closing(t, v)}
           F(f) == [i \in 0 .. n |->
                      IF i = 0 THEN t
                      ELSE IF f[i - 1].reuse = <<>> THEN f[i - 1]
                      ELSE AskToClose(f[i - 1], Last(f[i - 1].reuse))]
           d == CHOOSE f : f = F(f)
           g == [i \in 1 .. n |-> [v \in T |-> next(v)]]
<1>1. t \in T
  BY DEF Closing, TableInv
<1>2. n \in Nat
  <2>1. t.reusable_n \in Nat
    BY DEF TableInv, Cycle
  <2> QED
    BY <2>1
<1>3. ASSUME NEW v \in T PROVE next(v) \in T
  <2>1. CASE v.reuse = <<>>
    BY <2>1
  <2>2. CASE v.reuse # <<>>
    <3> DEFINE c == Last(v.reuse)
               w == AskToClose(v, c)
    <3>1. v.reuse \in Seq(Conns) /\ TableInv(v) /\ TimersOK(v) /\ Closing(t, v)
      BY DEF Cycle
    <3>2. c \in Members(v.reuse)
      BY <2>2, <3>1 DEF Last, Members
    <3>3. c \in InUse(v) \ Listeners
      <4>1. c \in InUse(v) /\ v.conn[c].handler \in {"wait", "keepalive"}
        BY <3>1, <3>2 DEF TableInv, ReusableOK
      <4> QED
        BY <3>1, <4>1, Held
    <3>4. TableInv(w) /\ TimersOK(w)
      BY <3>1, <3>3, AskToCloseStep DEF Step
    <3>5. Closing(v, w)
      BY <3>1, <3>3, AskToCloseCloses
    <3>6. Closing(t, w)
      BY <3>1, <3>5, ClosingTwice
    <3> QED
      BY <2>2, <3>4, <3>6 DEF TableInv
  <2> QED
    BY <2>1, <2>2
<1>4. PICK f \in [0 .. n -> T] : f[0] = t /\ \A i \in 1 .. n : f[i] = g[i][f[i - 1]]
  <2>1. g \in [1 .. n -> [T -> T]]
    BY <1>3
  <2> HIDE DEF g, n, T
  <2> QED
    BY <1>1, <1>2, <2>1, RecursionExists
<1>5. f = F(f)
  <2>1. \A i \in 1 .. n : f[i - 1] \in T
    BY <1>2
  <2>2. \A i \in 1 .. n : f[i] = next(f[i - 1])
    <3> HIDE DEF next, T, n
    <3> QED
      BY <1>4, <2>1
  <2>3. f = [i \in 0 .. n |-> IF i = 0 THEN t ELSE next(f[i - 1])]
    <3> HIDE DEF T, n, next
    <3> QED
      BY <1>2, <1>4, <2>2
  <2> QED
    BY <2>3
<1>6. d = F(d)
  <2> HIDE DEF F
  <2> QED
    BY <1>5
<1> HIDE DEF d
<1>7. \A i \in 0 .. n : d[i] \in T
  <2> DEFINE P == {i \in Nat : i <= n => d[i] \in T}
  <2>1. d[0] = t /\ \A i \in 1 .. n : d[i] = next(d[i - 1])
    <3> HIDE DEF n
    <3> QED
      BY <1>2, <1>6
  <2> HIDE DEF T, next, n
  <2>2. 0 \in P
    BY <1>1, <2>1
  <2>3. ASSUME NEW i \in Nat, i \in P PROVE i + 1 \in P
    <3> SUFFICES ASSUME i + 1 <= n PROVE d[i + 1] \in T
      OBVIOUS
    <3>1. d[i] \in T /\ d[i + 1] = next(d[i])
      BY <1>2, <2>1, <2>3
    <3> QED
      BY <1>3, <3>1
  <2> HIDE DEF P
  <2>4. Nat \subseteq P
    BY <2>2, <2>3, SetInduction
  <2> QED
    BY <2>4, <1>2 DEF P
<1>8. Drain(t) \in T
  <2>1. d[n] \in T
    <3> HIDE DEF n, T
    <3> QED
      BY <1>2, <1>7
  <2>2. Drain(t) = IF t.free_n > ConnectionN \div 16 \/ t.reusable_n = 0 THEN t
                   ELSE IF d[n].free_n = 0 /\ d[n].reuse # <<>>
                   THEN AskToClose(d[n], Last(d[n].reuse)) ELSE d[n]
    BY Zenon DEF Drain, d
  <2>3. Drain(t) \in {t, d[n], next(d[n])}
    BY <2>2
  <2> HIDE DEF n, T, next
  <2> QED
    BY <1>1, <1>3, <2>1, <2>3
<1> QED
  BY <1>8

-----------------------------------------------------------------------------
(* Fields the handlers set                                                 *)

\* A field of a connection that nothing else depends on.
LEMMA SetReady ==
    ASSUME NEW t, TableInv(t), NEW c \in InUse(t), NEW b \in BOOLEAN
    PROVE  LET u == [t EXCEPT !.conn[c].ready = b] IN
           /\ Step(t, u, c) /\ c \in InUse(u)
           /\ u.conn = [t.conn EXCEPT ![c].ready = b]
           /\ u.sock = t.sock /\ u.files = t.files /\ u.lost = t.lost
<1> DEFINE u == [t EXCEPT !.conn[c].ready = b]
           r == [t.conn[c] EXCEPT !.ready = b]
<1>1. t \in Cycle /\ c \in Conns /\ t.conn[c] \in Connection
  BY Held DEF TableInv
<1>2. /\ r \in Connection /\ Alike(r, t.conn[c])
      /\ r.handler = t.conn[c].handler /\ r.got = t.conn[c].got
  BY <1>1 DEF Connection, Alike
<1>3. u = [t EXCEPT !.conn[c] = r] /\ u.conn = [t.conn EXCEPT ![c] = r]
  BY <1>1 DEF Cycle
<1>4. /\ r.reusable => r.handler \in {"wait", "keepalive"}
      /\ r.handler = "accept" <=> c \in Listeners
      /\ r.handler = "wait" => t.conn[c].handler = "wait"
      /\ r.got <= BufSize
  BY <1>2, Held DEF Alike
<1> HIDE DEF u, r
<1>5. /\ Step(t, u, c) /\ c \in InUse(u)
      /\ u.sock = t.sock /\ u.files = t.files /\ u.lost = t.lost
  BY <1>2, <1>3, <1>4, SetConnection
<1> QED
  BY <1>3, <1>5 DEF u, r

\* What is left to parse, in the handlers of a request.
LEMMA SetLeft ==
    ASSUME NEW t, TableInv(t), NEW c \in InUse(t), NEW x \in {"none", "bare", "more", "bad"}
    PROVE  LET u == [t EXCEPT !.conn[c].left = x] IN
           /\ Step(t, u, c) /\ c \in InUse(u)
           /\ u.conn[c].handler = t.conn[c].handler
<1> DEFINE u == [t EXCEPT !.conn[c].left = x]
           r == [t.conn[c] EXCEPT !.left = x]
<1>1. t \in Cycle /\ c \in Conns /\ t.conn[c] \in Connection
  BY Held DEF TableInv
<1>2. /\ r \in Connection /\ Alike(r, t.conn[c])
      /\ r.handler = t.conn[c].handler /\ r.got = t.conn[c].got
  BY <1>1 DEF Connection, Alike
<1>3. u = [t EXCEPT !.conn[c] = r]
  BY <1>1 DEF Cycle
<1>4. /\ r.reusable => r.handler \in {"wait", "keepalive"}
      /\ r.handler = "accept" <=> c \in Listeners
      /\ r.handler = "wait" => t.conn[c].handler = "wait"
      /\ r.got <= BufSize
  BY <1>2, Held DEF Alike
<1> HIDE DEF u, r
<1>5. Step(t, u, c) /\ c \in InUse(u) /\ u.conn[c] = r
  BY <1>2, <1>3, <1>4, SetConnection
<1> QED
  BY <1>2, <1>5 DEF u

\* The head of a request begins.
LEMMA SetHeaders ==
    ASSUME NEW t, TableInv(t), NEW c \in InUse(t) \ Listeners,
           t.conn[c].handler = "line", NEW x \in {"none", "bare", "more", "bad"}
    PROVE  LET u == [t EXCEPT !.conn[c].handler = "headers", !.conn[c].left = x] IN
           /\ Step(t, u, c) /\ c \in InUse(u)
           /\ u.conn[c].handler = "headers"
<1> DEFINE u == [t EXCEPT !.conn[c].handler = "headers", !.conn[c].left = x]
           r == [t.conn[c] EXCEPT !.handler = "headers", !.left = x]
<1>1. t \in Cycle /\ c \in Conns /\ t.conn[c] \in Connection
  BY Held DEF TableInv
<1>2. /\ r \in Connection /\ Alike(r, t.conn[c])
      /\ r.handler = "headers" /\ r.got = t.conn[c].got
  BY <1>1 DEF Connection, Alike, Handlers
<1>3. u = [t EXCEPT !.conn[c] = r]
  BY <1>1 DEF Cycle
<1>4. /\ r.reusable => r.handler \in {"wait", "keepalive"}
      /\ r.handler = "accept" <=> c \in Listeners
      /\ r.handler = "wait" => t.conn[c].handler = "wait"
      /\ r.got <= BufSize
  BY <1>2, Held DEF Alike
<1> HIDE DEF u, r
<1>5. Step(t, u, c) /\ c \in InUse(u) /\ u.conn[c] = r
  BY <1>2, <1>3, <1>4, SetConnection
<1> QED
  BY <1>2, <1>5 DEF u

\* The request is processed, or finished and the connection kept.
LEMMA SetHandler ==
    ASSUME NEW t, TableInv(t), NEW c \in InUse(t) \ Listeners,
           NEW h \in {"request", "keepalive"}, NEW b \in BOOLEAN,
           ~t.conn[c].reusable \/ h = "keepalive"
    PROVE  LET u == [t EXCEPT !.conn[c].handler = h, !.conn[c].idle = b] IN
           /\ Step(t, u, c) /\ c \in InUse(u)
           /\ u.conn[c].handler = h
<1> DEFINE u == [t EXCEPT !.conn[c].handler = h, !.conn[c].idle = b]
           r == [t.conn[c] EXCEPT !.handler = h, !.idle = b]
<1>1. t \in Cycle /\ c \in Conns /\ t.conn[c] \in Connection
  BY Held DEF TableInv
<1>2. /\ r \in Connection /\ Alike(r, t.conn[c])
      /\ r.handler = h /\ r.got = t.conn[c].got
  BY <1>1 DEF Connection, Alike, Handlers
<1>3. u = [t EXCEPT !.conn[c] = r]
  BY <1>1 DEF Cycle
<1>4. /\ r.reusable => r.handler \in {"wait", "keepalive"}
      /\ r.handler = "accept" <=> c \in Listeners
      /\ r.handler = "wait" => t.conn[c].handler = "wait"
      /\ r.got <= BufSize
  BY <1>2, Held DEF Alike
<1> HIDE DEF u, r
<1>5. Step(t, u, c) /\ c \in InUse(u) /\ u.conn[c] = r
  BY <1>2, <1>3, <1>4, SetConnection
<1> QED
  BY <1>2, <1>5 DEF u

\* A line begins: the connection is no longer reusable and has n bytes.
LEMMA SetLine ==
    ASSUME NEW t, TableInv(t), NEW c \in InUse(t) \ Listeners, ~t.conn[c].reusable,
           NEW n \in 0 .. MaxBytes, n <= BufSize
    PROVE  LET u == [t EXCEPT !.conn[c].handler = "line", !.conn[c].got = n,
                              !.conn[c].left = "more"] IN
           /\ Step(t, u, c) /\ c \in InUse(u)
           /\ u.conn[c].handler = "line"
<1> DEFINE u == [t EXCEPT !.conn[c].handler = "line", !.conn[c].got = n,
                          !.conn[c].left = "more"]
           r == [t.conn[c] EXCEPT !.handler = "line", !.got = n, !.left = "more"]
<1>1. t \in Cycle /\ c \in Conns /\ t.conn[c] \in Connection
  BY Held DEF TableInv
<1>2. /\ r \in Connection /\ Alike(r, t.conn[c])
      /\ r.handler = "line" /\ r.got = n
  BY <1>1 DEF Connection, Alike, Handlers
<1>3. u = [t EXCEPT !.conn[c] = r]
  BY <1>1 DEF Cycle
<1>4. /\ r.reusable => r.handler \in {"wait", "keepalive"}
      /\ r.handler = "accept" <=> c \in Listeners
      /\ r.handler = "wait" => t.conn[c].handler = "wait"
      /\ r.got <= BufSize
  BY <1>2, Held DEF Alike
<1> HIDE DEF u, r
<1>5. Step(t, u, c) /\ c \in InUse(u) /\ u.conn[c] = r
  BY <1>2, <1>3, <1>4, SetConnection
<1> QED
  BY <1>2, <1>5 DEF u

\* A handler that does not return.
LEMMA SetLost ==
    ASSUME NEW t, TableInv(t), NEW c \in Conns
    PROVE  Step(t, [t EXCEPT !.lost = TRUE], c)
<1> DEFINE u == [t EXCEPT !.lost = TRUE]
<1>1. t \in Cycle
  BY DEF TableInv
<1>2. /\ u \in Cycle
      /\ u.conn = t.conn /\ u.timers = t.timers /\ u.sock = t.sock
      /\ u.free = t.free /\ u.free_n = t.free_n /\ u.files = t.files
      /\ u.reuse = t.reuse /\ u.reusable_n = t.reusable_n /\ u.posted = t.posted
  BY <1>1 DEF Cycle
<1> HIDE DEF u
<1>3. InUse(u) = InUse(t)
  BY <1>2 DEF InUse
<1>4. TableInv(u)
  BY <1>2, <1>3 DEF TableInv, PoolOK, FilesOK, ReusableOK, KindsOK, PostedOK, EpollOK
<1>5. TimersOK(t) => TimersOK(u)
  BY <1>2, <1>3 DEF TimersOK
<1> QED
  BY <1>2, <1>4, <1>5 DEF Step, Within, u

-----------------------------------------------------------------------------
(* Reading                                                                 *)

\* m bytes are taken from the socket of c.
Took(t, c, m) ==
    [t EXCEPT !.conn[c].ready = FALSE, !.sock[t.conn[c].fd].rcv = @ - m]

\* recv() takes m bytes from the socket of c.
LEMMA TakeBytes ==
    ASSUME NEW t, TableInv(t), NEW c \in InUse(t) \ Listeners,
           NEW m \in 0 .. t.sock[t.conn[c].fd].rcv
    PROVE  LET fd == t.conn[c].fd
               u == Took(t, c, m)
           IN
           /\ Step(t, u, c) /\ c \in InUse(u) /\ u.lost = t.lost
           /\ u.conn = [t.conn EXCEPT ![c].ready = FALSE]
           /\ u.sock[fd] = [t.sock[fd] EXCEPT !.rcv = @ - m]
<1> DEFINE fd == t.conn[c].fd
           v == [t EXCEPT !.conn[c].ready = FALSE]
           k == [t.sock[fd] EXCEPT !.rcv = @ - m]
           u == Took(t, c, m)
<1>1. t \in Cycle /\ c \in Conns /\ fd \in Fds /\ t.sock[fd] \in Socket /\ t.conn[c] \in Connection
  BY Held DEF TableInv
<1>2. /\ Step(t, v, c) /\ c \in InUse(v)
      /\ v.conn = [t.conn EXCEPT ![c].ready = FALSE]
      /\ v.sock = t.sock /\ v.files = t.files /\ v.lost = t.lost
  BY SetReady
<1>3. t.sock[fd].rcv \in Nat /\ t.sock[fd].sent \in Nat
  BY <1>1 DEF Socket
<1>4. /\ k \in Socket /\ k.kind = t.sock[fd].kind /\ k.rcv = t.sock[fd].rcv - m
      /\ k.sent = t.sock[fd].sent /\ k.reg = t.sock[fd].reg /\ k.inst = t.sock[fd].inst
  BY <1>1, <1>3 DEF Socket
<1>5. u = [v EXCEPT !.sock[fd] = k]
  BY <1>1 DEF Cycle, Took
<1> HIDE DEF u, v, k
<1>6. TableInv(v) /\ v \in Cycle
  BY <1>2 DEF Step, TableInv
<1>7. k.kind = "stream" => k.rcv <= k.sent /\ k.sent <= MaxBytes
  <2>1. k.kind = "stream" => t.sock[fd].rcv <= t.sock[fd].sent /\ t.sock[fd].sent <= MaxBytes
    BY <1>1, <1>4 DEF TableInv, KindsOK
  <2> QED
    BY <1>3, <1>4, <2>1, TableAssumption
<1>8. k.reg # NoConn => v.conn[k.reg].fd = fd /\ v.conn[k.reg].instance = k.inst
  <2>1. EpollOK(v) /\ v.sock = t.sock
    BY <1>2, <1>6 DEF TableInv
  <2>2. fd \in Fds /\ v.sock[fd].reg = k.reg /\ v.sock[fd].inst = k.inst
    BY <1>1, <1>4, <2>1
  <2> HIDE DEF fd
  <2> QED
    BY <2>1, <2>2 DEF EpollOK
<1>9. TableInv(u) /\ (TimersOK(v) => TimersOK(u))
  BY <1>1, <1>2, <1>4, <1>5, <1>6, <1>7, <1>8, UpdateSocket
<1>10. /\ u.conn = v.conn /\ u.files = v.files /\ u.lost = v.lost
       /\ u.sock[fd] = k /\ \A f \in Fds : f # fd => u.sock[f] = v.sock[f]
  BY <1>1, <1>5, <1>6, <1>2 DEF Cycle
<1>11. v.conn[c].fd = fd
  BY <1>1, <1>2 DEF Cycle, Connection
<1>12. Step(v, u, c)
  BY <1>9, <1>10, <1>11 DEF Step, Within
<1>13. Step(t, u, c)
  BY <1>2, <1>12, StepTwice
<1>14. c \in InUse(u)
  BY <1>2, <1>10 DEF InUse
<1> QED
  BY <1>2, <1>10, <1>13, <1>14 DEF u, k

\* night_unix_recv. When the buffer is larger than what a client may send,
\* AGAIN means that there is nothing to read.
LEMMA RecvSteps ==
    ASSUME NEW t, TableInv(t), NEW c \in InUse(t) \ Listeners, NEW size \in 0 .. BufSize,
           NEW r \in Recv(t, c, size)
    PROVE  LET fd == t.conn[c].fd IN
           /\ Step(t, r.s, c) /\ c \in InUse(r.s)
           /\ r.s.conn = [t.conn EXCEPT ![c].ready = FALSE]
           /\ r.n \in {AGAIN, ERROR, 0} \/ (r.n \in 1 .. MaxBytes /\ r.n <= size)
           /\ r.s.sock[fd].reg = t.sock[fd].reg
           /\ r.n = AGAIN /\ size > MaxBytes => ~Readable(r.s.sock[fd])
<1> DEFINE fd == t.conn[c].fd
           k == t.sock[fd]
           left(m) == Took(t, c, m)
           N == k.rcv
           W(x, m) == /\ m \in 0 .. N
                      /\ x \in {AGAIN, ERROR, 0} \/ (x \in 1 .. MaxBytes /\ x <= size)
                      /\ x = AGAIN /\ size > MaxBytes => N = 0 /\ ~k.eof
<1>1. /\ t \in Cycle /\ fd \in Fds /\ k \in Socket /\ N \in Nat /\ N <= MaxBytes
      /\ k.eof \in BOOLEAN /\ BufSize \in Nat /\ MaxBytes \in Nat
  <2>1. t \in Cycle /\ fd \in Fds /\ k \in Socket /\ c \in InUse(t) /\ c \notin Listeners
    BY Held DEF TableInv
  <2>2. k.rcv \in Nat /\ k.sent \in Nat /\ k.eof \in BOOLEAN
    BY <2>1 DEF Socket
  <2>3. k.kind = "stream" /\ k.rcv <= k.sent /\ k.sent <= MaxBytes
    BY <2>1 DEF TableInv, KindsOK
  <2> QED
    BY <2>1, <2>2, <2>3, TableAssumption, WorkerAssumption
<1>2. \E m, x : r = [n |-> x, s |-> left(m)] /\ W(x, m)
  <2> DEFINE took(x, m) == {[n |-> x, s |-> left(m)]}
             empty(m) == IF k.eof THEN took(0, m) \cup took(ERROR, m) ELSE took(AGAIN, m)
             n == IF N < size THEN N ELSE size
             over == IF N % size > 0 THEN took(N % size, N) ELSE empty(N)
  <2>1. r \in (IF size = 0 THEN took(0, 0)
               ELSE IF n = size THEN took(n, n) \cup took(AGAIN, n) \cup over
               ELSE IF n > 0 THEN took(n, n) ELSE empty(0))
    BY Zenon DEF Recv, Took
  <2> HIDE DEF left
  <2>2. CASE size = 0
    <3>1. r = [n |-> 0, s |-> left(0)]
      BY <2>1, <2>2
    <3>2. W(0, 0)
      BY <1>1 DEF AGAIN
    <3> QED
      BY <3>1, <3>2
  <2>3. CASE size # 0 /\ n = size
    <3>1. size \in 1 .. N /\ size <= MaxBytes /\ N % size \in 0 .. (size - 1)
      BY <1>1, <2>3
    <3> DEFINE z == N % size
    <3>2. \/ r = [n |-> size, s |-> left(size)]
          \/ r = [n |-> AGAIN, s |-> left(size)]
          \/ z > 0 /\ r = [n |-> z, s |-> left(N)]
          \/ \E x \in {0, ERROR, AGAIN} : r = [n |-> x, s |-> left(N)]
      BY <2>1, <2>3
    <3>3. W(size, size) /\ W(AGAIN, size) /\ (z > 0 => W(z, N))
      <4> HIDE DEF z
      <4>1. z \in 0 .. (size - 1)
        BY <3>1 DEF z
      <4> QED
        BY <1>1, <3>1, <4>1
    <3>4. \A x \in {0, ERROR, AGAIN} : W(x, N)
      BY <1>1, <3>1
    <3> HIDE DEF n, z, W
    <3> QED
      BY <3>2, <3>3, <3>4
  <2>4. CASE size # 0 /\ n # size /\ n > 0
    <3>0. n = N /\ N \in 1 .. MaxBytes /\ N <= size
      BY <1>1, <2>4
    <3>1. n = N /\ W(N, N)
      <4> HIDE DEF n, N, k
      <4> QED
        BY <3>0 DEF AGAIN
    <3>2. r = [n |-> N, s |-> left(N)]
      BY <2>1, <2>4, <3>1
    <3> HIDE DEF n, W
    <3> QED
      BY <3>1, <3>2
  <2>5. CASE size # 0 /\ n # size /\ ~(n > 0)
    <3>1. N = 0 /\ 0 \in 0 .. N
      BY <1>1, <2>5
    <3>2. \E x \in {0, ERROR, AGAIN} : r = [n |-> x, s |-> left(0)] /\ (x = AGAIN => ~k.eof)
      BY <2>1, <2>5 DEF AGAIN, ERROR
    <3>3. \A x \in {0, ERROR, AGAIN} : (x = AGAIN => ~k.eof) => W(x, 0)
      BY <3>1
    <3> HIDE DEF n, W
    <3> QED
      BY <3>2, <3>3
  <2> QED
    BY <2>2, <2>3, <2>4, <2>5
<1>3. PICK m, x : r = [n |-> x, s |-> left(m)] /\ W(x, m)
  BY <1>2
<1> DEFINE u == left(m)
<1>4. /\ Step(t, u, c) /\ c \in InUse(u)
      /\ u.conn = [t.conn EXCEPT ![c].ready = FALSE]
      /\ u.sock[fd] = [t.sock[fd] EXCEPT !.rcv = @ - m]
  BY <1>3, TakeBytes
<1>5. r.s = u /\ r.n = x
  BY <1>3
<1> HIDE DEF u
<1>6. /\ u.sock[fd].reg = k.reg /\ u.sock[fd].eof = k.eof /\ u.sock[fd].rcv = N - m
  BY <1>1, <1>4 DEF Socket
<1>7. N = 0 /\ ~k.eof => ~Readable(u.sock[fd])
  <2>1. N = 0 => m = 0 /\ u.sock[fd].rcv = 0
    <3>1. m \in 0 .. N
      BY <1>3
    <3>2. u.sock[fd].rcv = N - m
      BY <1>6
    <3>3. N = 0 => m = 0
      BY <3>1
    <3> HIDE DEF N, k, fd
    <3> QED
      BY <3>2, <3>3
  <2> QED
    BY <1>6, <2>1 DEF Readable
<1> QED
  BY <1>3, <1>4, <1>5, <1>6, <1>7

-----------------------------------------------------------------------------
(* Handlers of a connection: each leaves the table in order, and changes   *)
(* only the connection it was called for.                                  *)

Serving(t, c) == TableInv(t) /\ c \in InUse(t) \ Listeners

\* A step that leaves the connection open goes on serving it.
LEMMA StepServes ==
    ASSUME NEW t, NEW c, NEW u, Serving(t, c), Step(t, u, c), u.conn[c].fd # NoFd
    PROVE  Serving(u, c)
BY DEF Serving, Step, InUse

\* night_http_close_connection of the connection served.
LEMMA CloseSteps ==
    ASSUME NEW t, NEW c, Serving(t, c)
    PROVE  Step(t, HttpClose(t, c), c)
BY CloseStep DEF Serving

\* A call that may fail.
LEMMA OrFaultSteps ==
    ASSUME NEW t, NEW c, Serving(t, c), NEW ok, Step(t, ok, c)
    PROVE  \A u \in OrFault(t, c, ok) : Step(t, u, c)
BY CloseSteps DEF OrFault

\* night_handle_read_event of the connection served.
LEMMA HandleReadEventSteps ==
    ASSUME NEW t, NEW c, Serving(t, c)
    PROVE  Step(t, HandleReadEvent(t, c), c) /\ Serving(HandleReadEvent(t, c), c)
BY HandleReadEventStep DEF Serving, Step

\* night_event_add_timer of the connection served.
LEMMA AddTimerSteps ==
    ASSUME NEW t, NEW c, Serving(t, c)
    PROVE  Step(t, AddTimer(t, c), c) /\ Serving(AddTimer(t, c), c)
<1> DEFINE u == AddTimer(t, c)
<1>1. Step(t, u, c) /\ u.conn = [t.conn EXCEPT ![c].timer_set = TRUE]
  BY AddTimerStep DEF Serving
<1> HIDE DEF u
<1>2. t \in Cycle /\ t.conn[c] \in Connection /\ t.conn[c].fd # NoFd /\ c \in Conns
  BY Held DEF Serving, TableInv, InUse
<1>3. u.conn[c].fd # NoFd
  BY <1>1, <1>2 DEF Cycle, Connection
<1> QED
  BY <1>1, <1>3, StepServes DEF u

\* night_http_read_request_header without data.
LEMMA AwaitMoreSteps ==
    ASSUME NEW t, NEW c, Serving(t, c)
    PROVE  \A u \in AwaitMore(t, c) : Step(t, u, c)
<1> DEFINE v == IF t.conn[c].timer_set THEN t ELSE AddTimer(t, c)
<1>1. Step(t, v, c) /\ Serving(v, c)
  BY AddTimerSteps, StepSame DEF Serving, InUse
<1>2. AwaitMore(t, c) = OrFault(v, c, HandleReadEvent(v, c))
  BY DEF AwaitMore
<1> HIDE DEF v
<1>3. \A u \in OrFault(v, c, HandleReadEvent(v, c)) : Step(v, u, c)
  BY <1>1, HandleReadEventSteps, OrFaultSteps
<1> QED
  BY <1>1, <1>2, <1>3, StepTwice

\* A full header buffer.
LEMMA LargeBufferSteps ==
    ASSUME NEW t, NEW c, Serving(t, c)
    PROVE  \A u \in LargeBuffer(t, c) : Step(t, u, c)
BY CloseSteps, StepSame DEF LargeBuffer, Serving, InUse

\* What is received before a handler goes on; the rest of the buffer is
\* never negative.
LEMMA RecvServes ==
    ASSUME NEW t, NEW c, Serving(t, c), NEW size \in 0 .. BufSize,
           NEW r \in Recv(t, c, size)
    PROVE  Step(t, r.s, c) /\ Serving(r.s, c)
<1>1. Step(t, r.s, c) /\ c \in InUse(r.s)
  BY RecvSteps DEF Serving
<1> QED
  BY <1>1 DEF Serving, Step

\* The header buffer never holds more than it has room for, so the size given
\* to night_unix_recv is not negative.
LEMMA BufferLeft ==
    ASSUME NEW t, NEW c, Serving(t, c)
    PROVE  BufSize - t.conn[c].got \in 0 .. BufSize
<1>1. t.conn[c].got \in 0 .. MaxBytes /\ t.conn[c].got <= BufSize
  BY Held DEF Serving
<1> QED
  BY <1>1, WorkerAssumption, TableAssumption

\* The rest of a request line is awaited.
LEMMA ReadMoreSteps ==
    ASSUME NEW t, NEW c, Serving(t, c)
    PROVE  \A u \in ReadMore(t, c) : Step(t, u, c)
<1> SUFFICES ASSUME NEW u \in ReadMore(t, c) PROVE Step(t, u, c)
  OBVIOUS
<1>1. \/ u \in AwaitMore(t, c)
      \/ \E r \in Recv(t, c, BufSize - t.conn[c].got) :
           u \in AwaitMore(r.s, c) \/ u = r.s \/ u \in LargeBuffer(r.s, c)
  BY DEF ReadMore, AGAIN, ERROR
<1>2. CASE u \in AwaitMore(t, c)
  BY <1>2, AwaitMoreSteps
<1>3. ASSUME NEW r \in Recv(t, c, BufSize - t.conn[c].got),
             u \in AwaitMore(r.s, c) \/ u = r.s \/ u \in LargeBuffer(r.s, c)
      PROVE  Step(t, u, c)
  <2>1. Step(t, r.s, c) /\ Serving(r.s, c)
    BY BufferLeft, RecvServes
  <2>2. u # r.s => Step(r.s, u, c)
    BY <1>3, <2>1, AwaitMoreSteps, LargeBufferSteps
  <2> QED
    BY <2>1, <2>2, StepTwice
<1> QED
  BY <1>1, <1>2, <1>3

\* night_http_set_keepalive.
LEMMA SetKeepaliveSteps ==
    ASSUME NEW t, NEW c, Serving(t, c)
    PROVE  \A u \in SetKeepalive(t, c) : Step(t, u, c)
<1> DEFINE v == HandleReadEvent(t, c)
           idle == [v EXCEPT !.conn[c].handler = "keepalive", !.conn[c].idle = TRUE]
           queued == Reusable(idle, c, TRUE)
           kept == AddTimer(queued, c)
           ok == IF kept.conn[c].ready THEN Post(kept, c) ELSE kept
<1>1. Step(t, v, c) /\ Serving(v, c)
  BY HandleReadEventSteps
<1>2. SetKeepalive(t, c) = OrFault(t, c, ok)
  BY DEF SetKeepalive
<1> HIDE DEF v
<1>3. Step(v, idle, c) /\ Serving(idle, c) /\ idle.conn[c].handler = "keepalive"
  <2>1. TableInv(v) /\ c \in InUse(v) \ Listeners
    BY <1>1 DEF Serving
  <2>2. Step(v, idle, c) /\ c \in InUse(idle) /\ idle.conn[c].handler = "keepalive"
    BY <2>1, SetHandler
  <2> HIDE DEF idle
  <2> QED
    BY <2>1, <2>2 DEF Serving, Step
<1> HIDE DEF idle
<1>4. Step(idle, queued, c) /\ Serving(queued, c)
  <2>1. TableInv(idle) /\ c \in InUse(idle)
    BY <1>3 DEF Serving
  <2>2. /\ Step(idle, queued, c)
        /\ queued.conn = [idle.conn EXCEPT ![c].reusable = TRUE]
    BY <1>3, <2>1, ReusableStep
  <2>3. idle \in Cycle /\ idle.conn[c] \in Connection /\ idle.conn[c].fd # NoFd /\ c \in Conns
    BY <2>1, Held DEF TableInv, InUse
  <2> HIDE DEF queued
  <2>4. queued.conn[c].fd # NoFd
    BY <2>2, <2>3 DEF Cycle, Connection
  <2> QED
    BY <1>3, <2>2, <2>4, StepServes
<1> HIDE DEF queued
<1>5. Step(queued, kept, c) /\ Serving(kept, c)
  BY <1>4, AddTimerSteps
<1> HIDE DEF kept
<1>6. Step(kept, Post(kept, c), c) /\ Step(kept, kept, c)
  BY <1>5, PostStep, StepSame DEF Serving, InUse
<1>7. Step(t, kept, c)
  BY <1>1, <1>3, <1>4, <1>5, StepTwice
<1>8. Step(t, ok, c)
  BY <1>6, <1>7, StepTwice
<1> HIDE DEF ok
<1> QED
  BY <1>2, <1>8, OrFaultSteps

\* night_http_finalize_request.
LEMMA FinalizeSteps ==
    ASSUME NEW t, NEW c, Serving(t, c), NEW keepalive
    PROVE  \A u \in Finalize(t, c, keepalive) : Step(t, u, c)
BY SetKeepaliveSteps, StepSame DEF Finalize, Serving, InUse

\* night_http_process_request, whatever the request comes to.
LEMMA ProcessRequestSteps ==
    ASSUME NEW t, NEW c, Serving(t, c), t.conn[c].handler = "headers"
    PROVE  \A u \in ProcessRequest(t, c) : Step(t, u, c)
<1> DEFINE v == DelTimer(t, c)
           w == [v EXCEPT !.conn[c].handler = "request"]
<1>0. t \in Cycle /\ t.conn[c] \in Connection /\ t.conn[c].fd # NoFd /\ c \in Conns
      /\ ~t.conn[c].reusable
  BY Held DEF Serving, TableInv, InUse
<1>1. Step(t, v, c) /\ v.conn = [t.conn EXCEPT ![c].timer_set = FALSE]
  BY DelTimerStep DEF Serving
<1> HIDE DEF v
<1>2. v.conn[c].fd # NoFd /\ ~v.conn[c].reusable
  BY <1>0, <1>1 DEF Cycle, Connection
<1>3. Serving(v, c)
  BY <1>1, <1>2, StepServes
<1>4. Step(v, w, c) /\ Serving(w, c)
  <2> DEFINE b == v.conn[c].idle
  <2>1. TableInv(v) /\ c \in InUse(v) \ Listeners /\ v \in Cycle /\ v.conn[c] \in Connection
    BY <1>3, Held DEF Serving, TableInv
  <2>2. b \in BOOLEAN /\ w = [v EXCEPT !.conn[c].handler = "request", !.conn[c].idle = b]
    <3> DEFINE x == v.conn[c]
               r == [x EXCEPT !.handler = "request"]
               q == [x EXCEPT !.handler = "request", !.idle = x.idle]
    <3>1. b \in BOOLEAN /\ r = q
      BY <2>1 DEF Connection
    <3>2. w = [v EXCEPT !.conn[c] = r]
      BY <2>1 DEF Cycle
    <3>3. [v EXCEPT !.conn[c].handler = "request", !.conn[c].idle = b] = [v EXCEPT !.conn[c] = q]
      BY <2>1 DEF Cycle
    <3> QED
      BY <3>1, <3>2, <3>3
  <2> HIDE DEF b, w
  <2>3. Step(v, w, c) /\ c \in InUse(w)
    BY <1>2, <2>1, <2>2, SetHandler
  <2> QED
    BY <2>1, <2>3 DEF Serving, Step
<1>5. ASSUME NEW u \in ProcessRequest(t, c)
      PROVE  \/ u \in Finalize(w, c, TRUE) \cup Finalize(w, c, FALSE)
             \/ u = [w EXCEPT !.lost = TRUE]
  BY DEF ProcessRequest, v
<1> HIDE DEF w
<1>6. \A u \in ProcessRequest(t, c) : Step(w, u, c)
  <2>1. Step(w, [w EXCEPT !.lost = TRUE], c)
    BY <1>4, SetLost DEF Serving, InUse
  <2> QED
    BY <1>4, <1>5, <2>1, FinalizeSteps
<1> QED
  BY <1>1, <1>4, <1>6, StepTwice

\* A header parsed past the end of the buffer.
LEMMA ExhaustedSteps ==
    ASSUME NEW t, NEW c, Serving(t, c)
    PROVE  \A u \in Exhausted(t, c) : Step(t, u, c)
<1>1. c \in Conns /\ TableInv(t)
  BY DEF Serving, InUse
<1>2. Step(t, [t EXCEPT !.lost = TRUE], c)
  BY <1>1, SetLost
<1> QED
  BY <1>2, CloseSteps, FinalizeSteps DEF Exhausted

\* What the worker may do of it before any header line was begun.
LEMMA NoLineYetSteps ==
    ASSUME NEW t, NEW c, Serving(t, c)
    PROVE  \A u \in NoLineYet(t, c) : Step(t, u, c)
BY ExhaustedSteps DEF NoLineYet, Exhausted

\* night_http_process_request_headers.
LEMMA ProcessHeadersSteps ==
    ASSUME NEW t, NEW c, Serving(t, c), t.conn[c].handler = "headers"
    PROVE  \A u \in ProcessHeaders(t, c) : Step(t, u, c)
<1> SUFFICES ASSUME NEW u \in ProcessHeaders(t, c) PROVE Step(t, u, c)
  OBVIOUS
<1> DEFINE parsed == [t EXCEPT !.conn[c].left = "none"]
           bad == [t EXCEPT !.conn[c].left = "bad"]
<1>0. t.conn[c].left \in {"none", "bare", "more", "bad"} /\ TableInv(t) /\ c \in InUse(t)
  BY Held DEF Serving, Connection
<1>1. \/ \E b \in BOOLEAN : u \in Finalize(t, c, b)
      \/ u \in AwaitMore(t, c)
      \/ \E r \in Recv(t, c, BufSize - t.conn[c].got) :
           u \in AwaitMore(r.s, c) \/ u = r.s \/ u \in Exhausted(r.s, c) \cup NoLineYet(r.s, c)
      \/ u = HttpClose(t, c)
      \/ u \in Finalize(bad, c, FALSE)
      \/ u \in Exhausted(parsed, c) \cup ProcessRequest(parsed, c) \cup Finalize(parsed, c, FALSE)
  <2>1. CASE t.conn[c].left = "bad"
    BY <2>1 DEF ProcessHeaders
  <2>2. CASE t.conn[c].left \in {"none", "bare"}
    <3>1. CASE ~t.conn[c].ready
      BY <2>2, <3>1 DEF ProcessHeaders
    <3>2. CASE t.conn[c].ready
      BY <2>2, <3>2 DEF ProcessHeaders, AGAIN, ERROR
    <3> QED
      BY <3>1, <3>2
  <2>3. CASE t.conn[c].left = "more"
    <3>1. \/ Faults /\ u = HttpClose(t, c)
          \/ u \in Finalize(bad, c, FALSE)
          \/ u \in Finalize(t, c, FALSE) \cup {HttpClose(t, c)}
          \/ u \in Exhausted(parsed, c)
          \/ u \in ProcessRequest(parsed, c) \cup Finalize(parsed, c, FALSE)
      BY <2>3 DEF ProcessHeaders
    <3> QED
      BY <3>1
  <2> QED
    BY <1>0, <2>1, <2>2, <2>3
<1>2. \A x \in {"none", "bad"} :
        LET v == [t EXCEPT !.conn[c].left = x] IN
        Step(t, v, c) /\ Serving(v, c) /\ v.conn[c].handler = "headers"
  <2> SUFFICES ASSUME NEW x \in {"none", "bad"}
               PROVE  LET v == [t EXCEPT !.conn[c].left = x] IN
                      Step(t, v, c) /\ Serving(v, c) /\ v.conn[c].handler = "headers"
    OBVIOUS
  <2> DEFINE v == [t EXCEPT !.conn[c].left = x]
  <2>1. Step(t, v, c) /\ c \in InUse(v) /\ v.conn[c].handler = "headers"
    BY <1>0, SetLeft
  <2> HIDE DEF v
  <2>2. Serving(v, c)
    BY <2>1 DEF Serving, Step
  <2> QED
    BY <2>1, <2>2 DEF v
<1>3. /\ Step(t, parsed, c) /\ Serving(parsed, c) /\ parsed.conn[c].handler = "headers"
      /\ Step(t, bad, c) /\ Serving(bad, c)
  BY <1>2
<1> HIDE DEF parsed, bad
<1>4. ASSUME NEW r \in Recv(t, c, BufSize - t.conn[c].got),
             u \in AwaitMore(r.s, c) \/ u = r.s \/ u \in Exhausted(r.s, c) \cup NoLineYet(r.s, c)
      PROVE  Step(t, u, c)
  <2>1. Step(t, r.s, c) /\ Serving(r.s, c)
    BY BufferLeft, RecvServes
  <2>2. u # r.s => Step(r.s, u, c)
    BY <1>4, <2>1, AwaitMoreSteps, ExhaustedSteps, NoLineYetSteps
  <2> QED
    BY <2>1, <2>2, StepTwice
<1>5. CASE u \in Finalize(bad, c, FALSE)
  BY <1>3, <1>5, FinalizeSteps, StepTwice
<1>6. CASE u \in Exhausted(parsed, c) \cup ProcessRequest(parsed, c) \cup Finalize(parsed, c, FALSE)
  <2>1. Step(parsed, u, c)
    BY <1>3, <1>6, ExhaustedSteps, ProcessRequestSteps, FinalizeSteps
  <2> QED
    BY <1>3, <2>1, StepTwice
<1> QED
  BY <1>1, <1>4, <1>5, <1>6, FinalizeSteps, AwaitMoreSteps, CloseSteps

\* night_http_process_request_line.
LEMMA ProcessLineSteps ==
    ASSUME NEW t, NEW c, Serving(t, c), t.conn[c].handler = "line"
    PROVE  \A u \in ProcessLine(t, c) : Step(t, u, c)
<1> SUFFICES ASSUME NEW u \in ProcessLine(t, c) PROVE Step(t, u, c)
  OBVIOUS
<1> DEFINE headers(x) == [t EXCEPT !.conn[c].handler = "headers", !.conn[c].left = x]
           open == [t EXCEPT !.conn[c].left = "none"]
           bad == [t EXCEPT !.conn[c].left = "bad"]
<1>0. /\ t.conn[c].left \in {"none", "bare", "more", "bad"} /\ TableInv(t)
      /\ c \in InUse(t) \ Listeners
  BY Held DEF Serving, Connection
<1>1. \/ u \in Finalize(t, c, FALSE)
      \/ u \in ReadMore(t, c)
      \/ u = HttpClose(t, c)
      \/ u \in Finalize(bad, c, FALSE)
      \/ \E x \in {"more", "bare"} : u \in ProcessHeaders(headers(x), c)
      \/ u \in LargeBuffer(open, c) \cup ReadMore(open, c)
  <2>1. CASE t.conn[c].left = "bad"
    BY <2>1 DEF ProcessLine
  <2>2. CASE t.conn[c].left \in {"none", "bare"}
    BY <2>2 DEF ProcessLine
  <2>3. CASE t.conn[c].left = "more"
    BY <2>3 DEF ProcessLine
  <2> QED
    BY <1>0, <2>1, <2>2, <2>3
<1>2. \A x \in {"none", "bad"} :
        LET v == [t EXCEPT !.conn[c].left = x] IN Step(t, v, c) /\ Serving(v, c)
  <2> SUFFICES ASSUME NEW x \in {"none", "bad"}
               PROVE  LET v == [t EXCEPT !.conn[c].left = x] IN
                      Step(t, v, c) /\ Serving(v, c)
    OBVIOUS
  <2> DEFINE v == [t EXCEPT !.conn[c].left = x]
  <2>1. Step(t, v, c) /\ c \in InUse(v)
    BY <1>0, SetLeft
  <2> HIDE DEF v
  <2>2. Serving(v, c)
    BY <2>1 DEF Serving, Step
  <2> QED
    BY <2>1, <2>2 DEF v
<1>3. /\ Step(t, open, c) /\ Serving(open, c)
      /\ Step(t, bad, c) /\ Serving(bad, c)
  BY <1>2
<1>4. ASSUME NEW x \in {"more", "bare"}
      PROVE  /\ Step(t, headers(x), c) /\ Serving(headers(x), c)
             /\ headers(x).conn[c].handler = "headers"
  <2> DEFINE v == headers(x)
  <2>1. Step(t, v, c) /\ c \in InUse(v) /\ v.conn[c].handler = "headers"
    <3>1. x \in {"none", "bare", "more", "bad"} /\ TableInv(t) /\ c \in InUse(t) \ Listeners
      BY <1>0
    <3> HIDE DEF v
    <3>2. v = [t EXCEPT !.conn[c].handler = "headers", !.conn[c].left = x]
      BY DEF v
    <3> QED
      BY <3>1, <3>2, SetHeaders
  <2> HIDE DEF v
  <2>2. Serving(v, c)
    BY <2>1 DEF Serving, Step
  <2> QED
    BY <2>1, <2>2 DEF v
<1> HIDE DEF headers, open, bad
<1>5. CASE u \in Finalize(bad, c, FALSE)
  BY <1>3, <1>5, FinalizeSteps, StepTwice
<1>6. CASE u \in LargeBuffer(open, c) \cup ReadMore(open, c)
  <2>1. Step(open, u, c)
    BY <1>3, <1>6, LargeBufferSteps, ReadMoreSteps
  <2> QED
    BY <1>3, <2>1, StepTwice
<1>7. ASSUME NEW x \in {"more", "bare"}, u \in ProcessHeaders(headers(x), c)
      PROVE  Step(t, u, c)
  <2>1. Step(headers(x), u, c)
    BY <1>4, <1>7, ProcessHeadersSteps
  <2> QED
    BY <1>4, <2>1, StepTwice
<1> QED
  BY <1>1, <1>5, <1>6, <1>7, FinalizeSteps, ReadMoreSteps, CloseSteps

\* If c still waits for a request, epoll watches it and will report what
\* there is to read.
Settled(u, c) ==
    u.conn[c].fd # NoFd /\ u.conn[c].handler = "wait" =>
      LET k == u.sock[u.conn[c].fd] IN
      k.reg = c /\ u.conn[c].active /\ (Readable(k) => k.edge)

\* A connection without data is given its timer and may be reused.
LEMMA AwaitRequest ==
    ASSUME NEW t, NEW c, Serving(t, c), t.conn[c].handler = "wait"
    PROVE  LET u == IF t.conn[c].timer_set THEN t
                    ELSE Reusable(AddTimer(t, c), c, TRUE)
           IN
           /\ Step(t, u, c) /\ Serving(u, c)
           /\ u.conn[c].ready = t.conn[c].ready /\ u.conn[c].active = t.conn[c].active
           /\ u.conn[c].fd = t.conn[c].fd /\ u.sock = t.sock
<1> DEFINE v == AddTimer(t, c)
           w == Reusable(v, c, TRUE)
<1>0. t \in Cycle /\ t.conn[c] \in Connection /\ t.conn[c].fd # NoFd /\ c \in Conns
  BY Held DEF Serving, TableInv, InUse
<1>1. Step(t, v, c) /\ v.conn = [t.conn EXCEPT ![c].timer_set = TRUE] /\ v.sock = t.sock
  BY AddTimerStep DEF Serving
<1>2. Serving(v, c)
  BY AddTimerSteps
<1> HIDE DEF v
<1>3. /\ v.conn[c].handler = "wait" /\ v.conn[c].ready = t.conn[c].ready
      /\ v.conn[c].active = t.conn[c].active /\ v.conn[c].fd = t.conn[c].fd
  BY <1>0, <1>1 DEF Cycle, Connection
<1>4. Step(v, w, c) /\ w.conn = [v.conn EXCEPT ![c].reusable = TRUE] /\ w.sock = v.sock
  BY <1>2, <1>3, ReusableStep DEF Serving
<1> HIDE DEF w
<1>5. v \in Cycle /\ v.conn[c] \in Connection
  BY <1>2, Held DEF Serving, TableInv
<1>6. /\ w.conn[c].ready = t.conn[c].ready /\ w.conn[c].active = t.conn[c].active
      /\ w.conn[c].fd = t.conn[c].fd
  BY <1>0, <1>3, <1>4, <1>5 DEF Cycle, Connection
<1>7. Step(t, w, c)
  BY <1>1, <1>4, StepTwice
<1>8. Serving(w, c)
  BY <1>0, <1>6, <1>7, StepServes
<1>9. Step(t, t, c)
  BY <1>0, StepSame DEF Serving
<1> QED
  BY <1>1, <1>4, <1>6, <1>7, <1>8, <1>9 DEF w, v

\* The first bytes of a request take the connection out of the reusable ones.
LEMMA BeginLine ==
    ASSUME NEW t, NEW c, Serving(t, c), NEW n \in 1 .. MaxBytes, n <= BufSize
    PROVE  LET u == [Reusable(t, c, FALSE) EXCEPT !.conn[c].handler = "line",
                                                  !.conn[c].got = n,
                                                  !.conn[c].left = "more"]
           IN Step(t, u, c) /\ Serving(u, c) /\ u.conn[c].handler = "line"
<1> DEFINE v == Reusable(t, c, FALSE)
           u == [v EXCEPT !.conn[c].handler = "line", !.conn[c].got = n,
                          !.conn[c].left = "more"]
<1>0. t \in Cycle /\ t.conn[c] \in Connection /\ t.conn[c].fd # NoFd /\ c \in Conns
  BY Held DEF Serving, TableInv, InUse
<1>1. Step(t, v, c) /\ v.conn = [t.conn EXCEPT ![c].reusable = FALSE]
  BY ReusableStep DEF Serving
<1> HIDE DEF v
<1>2. v.conn[c].fd # NoFd /\ ~v.conn[c].reusable
  BY <1>0, <1>1 DEF Cycle, Connection
<1>3. TableInv(v) /\ c \in InUse(v) \ Listeners
  BY <1>1, <1>2, StepServes DEF Serving
<1>4. n \in 0 .. MaxBytes
  BY TableAssumption
<1>5. Step(v, u, c) /\ c \in InUse(u) /\ u.conn[c].handler = "line"
  BY <1>2, <1>3, <1>4, SetLine
<1> HIDE DEF u
<1>6. Step(t, u, c)
  BY <1>1, <1>5, StepTwice
<1>7. Serving(u, c)
  BY <1>5, <1>6 DEF Serving, Step
<1> QED
  BY <1>5, <1>6, <1>7 DEF u, v

\* night_http_wait_request_handler: a connection that goes on waiting has read
\* all there was and is registered, if what a client sends fits the buffer.
LEMMA WaitRequestSteps ==
    ASSUME NEW t, NEW c, Serving(t, c), t.conn[c].handler = "wait",
           NEW u \in WaitRequest(t, c)
    PROVE  /\ Step(t, u, c)
           /\ /\ BufSize > MaxBytes
              /\ t.conn[c].active => t.sock[t.conn[c].fd].reg = c
              => Settled(u, c)
<1> DEFINE fd == t.conn[c].fd
           await(v) == IF v.conn[c].timer_set THEN v
                       ELSE Reusable(AddTimer(v, c), c, TRUE)
           begin(r) == [Reusable(r.s, c, FALSE) EXCEPT !.conn[c].handler = "line",
                                                       !.conn[c].got = r.n,
                                                       !.conn[c].left = "more"]
<1>0. /\ t \in Cycle /\ t.conn[c] \in Connection /\ fd # NoFd /\ c \in Conns
      /\ c \in InUse(t) \ Listeners /\ TableInv(t) /\ BufSize \in 0 .. BufSize
  BY Held, WorkerAssumption DEF Serving, TableInv, InUse
<1>1. \/ u = HttpClose(t, c)
      \/ \E r \in Recv(t, c, BufSize) :
           \/ /\ r.n = AGAIN
              /\ u \in OrFault(await(r.s), c, HandleReadEvent(await(r.s), c))
           \/ u = HttpClose(r.s, c)
           \/ r.n \notin {AGAIN, ERROR, 0} /\ u \in ProcessLine(begin(r), c)
  <2> DEFINE next(r) ==
               CASE r.n = AGAIN        -> OrFault(await(r.s), c,
                                                  HandleReadEvent(await(r.s), c))
                 [] r.n \in {ERROR, 0} -> {HttpClose(r.s, c)}
                 [] OTHER              -> ProcessLine(begin(r), c)
  <2>1. \/ u = HttpClose(t, c)
        \/ \E r \in Recv(t, c, BufSize) : u \in next(r)
    <3> DEFINE all == UNION {next(r) : r \in Recv(t, c, BufSize)}
    <3>1. WaitRequest(t, c) =
            IF t.conn[c].close THEN {HttpClose(t, c)}
            ELSE all \cup (IF Faults THEN {HttpClose(t, c)} ELSE {})
      BY Zenon DEF WaitRequest
    <3>4. u \in all => \E r \in Recv(t, c, BufSize) : u \in next(r)
      <4> HIDE DEF next
      <4> QED
        BY Zenon
    <3> HIDE DEF all
    <3>2. u \in all \/ u = HttpClose(t, c)
      BY <3>1
    <3> QED
      BY <3>2, <3>4
  <2>2. ASSUME NEW r, u \in next(r)
        PROVE  \/ /\ r.n = AGAIN
                  /\ u \in OrFault(await(r.s), c, HandleReadEvent(await(r.s), c))
               \/ u = HttpClose(r.s, c)
               \/ r.n \notin {AGAIN, ERROR, 0} /\ u \in ProcessLine(begin(r), c)
    <3> HIDE DEF await, begin
    <3>1. CASE r.n = AGAIN
      BY <2>2, <3>1 DEF AGAIN, ERROR
    <3>2. CASE r.n # AGAIN /\ r.n \in {ERROR, 0}
      BY <2>2, <3>2
    <3>3. CASE r.n # AGAIN /\ r.n \notin {ERROR, 0}
      BY <2>2, <3>3
    <3> QED
      BY <3>1, <3>2, <3>3
  <2> HIDE DEF next, await, begin
  <2> QED
    BY <2>1, <2>2
<1>2. ASSUME NEW v, Serving(v, c) PROVE Step(v, HttpClose(v, c), c) /\ Settled(HttpClose(v, c), c)
  BY <1>2, CloseStep DEF Serving, Settled
<1>3. CASE u = HttpClose(t, c)
  BY <1>2, <1>3
<1>4. ASSUME NEW r \in Recv(t, c, BufSize)
      PROVE  /\ Step(t, r.s, c) /\ Serving(r.s, c)
             /\ ~r.s.conn[c].ready /\ r.s.conn[c].active = t.conn[c].active
             /\ r.s.conn[c].fd = fd /\ r.s.conn[c].handler = "wait"
             /\ r.n \in {AGAIN, ERROR, 0} \/ (r.n \in 1 .. MaxBytes /\ r.n <= BufSize)
             /\ r.s.sock[fd].reg = t.sock[fd].reg
             /\ r.n = AGAIN /\ BufSize > MaxBytes => ~Readable(r.s.sock[fd])
  <2>1. /\ Step(t, r.s, c) /\ r.s.conn = [t.conn EXCEPT ![c].ready = FALSE]
        /\ r.n \in {AGAIN, ERROR, 0} \/ (r.n \in 1 .. MaxBytes /\ r.n <= BufSize)
        /\ r.s.sock[fd].reg = t.sock[fd].reg
        /\ r.n = AGAIN /\ BufSize > MaxBytes => ~Readable(r.s.sock[fd])
    BY <1>0, RecvSteps
  <2>2. Serving(r.s, c)
    BY <1>0, RecvServes
  <2>3. /\ ~r.s.conn[c].ready /\ r.s.conn[c].active = t.conn[c].active
        /\ r.s.conn[c].fd = fd /\ r.s.conn[c].handler = "wait"
    BY <1>0, <2>1 DEF Cycle, Connection
  <2> QED
    BY <2>1, <2>2, <2>3
<1>5. ASSUME NEW r \in Recv(t, c, BufSize), u = HttpClose(r.s, c)
      PROVE  Step(t, u, c) /\ Settled(u, c)
  BY <1>2, <1>4, <1>5, StepTwice
<1>6. ASSUME NEW r \in Recv(t, c, BufSize), r.n \notin {AGAIN, ERROR, 0},
             u \in ProcessLine(begin(r), c)
      PROVE  Step(t, u, c) /\ Settled(u, c)
  <2> DEFINE v == begin(r)
  <2>1. r.n \in 1 .. MaxBytes /\ r.n <= BufSize
    BY <1>4, <1>6
  <2>2. Step(r.s, v, c) /\ Serving(v, c) /\ v.conn[c].handler = "line"
    BY <1>4, <2>1, BeginLine
  <2>4. u \in ProcessLine(v, c)
    BY <1>6
  <2> HIDE DEF v
  <2>3. Step(v, u, c)
    BY <2>2, <2>4, ProcessLineSteps
  <2>5. u.conn[c].handler # "wait"
    BY <2>2, <2>3 DEF Step, Within
  <2> QED
    BY <1>4, <2>2, <2>3, <2>5, StepTwice DEF Settled
<1>7. ASSUME NEW r \in Recv(t, c, BufSize), r.n = AGAIN,
             u \in OrFault(await(r.s), c, HandleReadEvent(await(r.s), c))
      PROVE  /\ Step(t, u, c)
             /\ /\ BufSize > MaxBytes
                /\ t.conn[c].active => t.sock[fd].reg = c
                => Settled(u, c)
  <2> DEFINE v == await(r.s)
             w == HandleReadEvent(v, c)
  <2>1. /\ Step(r.s, v, c) /\ Serving(v, c)
        /\ ~v.conn[c].ready /\ v.conn[c].active = t.conn[c].active
        /\ v.conn[c].fd = fd /\ v.sock = r.s.sock
    <3> DEFINE x == r.s
    <3>1. /\ Serving(x, c) /\ x.conn[c].handler = "wait" /\ ~x.conn[c].ready
          /\ x.conn[c].active = t.conn[c].active /\ x.conn[c].fd = fd
      BY <1>4
    <3>2. v = IF x.conn[c].timer_set THEN x ELSE Reusable(AddTimer(x, c), c, TRUE)
      OBVIOUS
    <3> HIDE DEF x, v
    <3>3. /\ Step(x, v, c) /\ Serving(v, c)
          /\ v.conn[c].ready = x.conn[c].ready /\ v.conn[c].active = x.conn[c].active
          /\ v.conn[c].fd = x.conn[c].fd /\ v.sock = x.sock
      BY <3>1, <3>2, AwaitRequest
    <3> QED
      BY <3>1, <3>3 DEF x
  <2>2. u \in OrFault(v, c, w)
    BY <1>7
  <2> HIDE DEF v
  <2>3. Step(v, w, c)
    BY <2>1, HandleReadEventSteps
  <2>4. Step(v, u, c)
    BY <2>1, <2>2, <2>3, OrFaultSteps
  <2>5. Step(t, u, c)
    BY <1>4, <2>1, <2>4, StepTwice
  <2>6. u = w \/ u = HttpClose(v, c)
    BY <2>2 DEF OrFault
  <2>7. CASE u = HttpClose(v, c)
    BY <1>2, <2>1, <2>5, <2>7
  <2>8. ASSUME u = w, BufSize > MaxBytes, t.conn[c].active => t.sock[fd].reg = c
        PROVE  Settled(u, c)
    <3>1. ~Readable(v.sock[fd]) /\ v.sock[fd].reg = t.sock[fd].reg
      BY <1>4, <1>7, <2>1, <2>8
    <3>2. /\ IF ~v.conn[c].active /\ ~v.conn[c].ready
             THEN /\ w.conn[c].active /\ w.sock[v.conn[c].fd].reg = c
                  /\ w.sock[v.conn[c].fd].edge = Readable(v.sock[v.conn[c].fd])
                  /\ w.sock[v.conn[c].fd].rcv = v.sock[v.conn[c].fd].rcv
                  /\ w.sock[v.conn[c].fd].eof = v.sock[v.conn[c].fd].eof
             ELSE w = v
          /\ w.conn[c].fd \in {v.conn[c].fd, NoFd}
      BY <2>1, <2>3, HandleReadEventStep DEF Serving, Step, Within
    <3> HIDE DEF w
    <3>3. CASE t.conn[c].active
      <4>1. w = v /\ v.sock[fd].reg = c /\ v.conn[c].active
        BY <2>1, <2>8, <3>1, <3>2, <3>3
      <4> QED
        BY <2>1, <2>8, <3>1, <4>1 DEF Settled
    <3>4. CASE ~t.conn[c].active
      <4>1. /\ w.conn[c].active /\ w.sock[fd].reg = c
            /\ w.sock[fd].rcv = v.sock[fd].rcv /\ w.sock[fd].eof = v.sock[fd].eof
        BY <2>1, <3>2, <3>4
      <4>2. ~Readable(w.sock[fd])
        BY <3>1, <4>1 DEF Readable
      <4> QED
        BY <2>1, <2>8, <3>2, <4>1, <4>2 DEF Settled
    <3> QED
      BY <3>3, <3>4
  <2> QED
    BY <2>5, <2>6, <2>7, <2>8, <1>2, <2>1
<1> QED
  BY <1>1, <1>3, <1>5, <1>6, <1>7

-----------------------------------------------------------------------------
(* Accepting                                                               *)

\* night_disable_accept_events.
LEMMA DisableAcceptKeeps ==
    ASSUME NEW t, TableInv(t), TimersOK(t)
    PROVE  LET u == DisableAccept(t) IN
           /\ TableInv(u) /\ TimersOK(u) /\ u.sock = t.sock
           /\ \A d \in Conns : d \notin Listeners => u.conn[d] = t.conn[d]
           /\ \A d \in Conns : /\ u.conn[d].fd = t.conn[d].fd
                               /\ u.conn[d].instance = t.conn[d].instance
                               /\ u.conn[d].handler = t.conn[d].handler
<1> DEFINE u == DisableAccept(t)
           f == [c \in Conns |-> IF c \in Listeners THEN [t.conn[c] EXCEPT !.active = FALSE]
                                 ELSE t.conn[c]]
<1>1. t \in Cycle
  BY DEF TableInv
<1>2. \A c \in Conns : t.conn[c] \in Connection
  BY <1>1 DEF Cycle
<1>3. \A c \in Conns : /\ f[c] \in Connection /\ (c \notin Listeners => f[c] = t.conn[c])
                       /\ f[c].fd = t.conn[c].fd /\ f[c].instance = t.conn[c].instance
                       /\ f[c].handler = t.conn[c].handler /\ f[c].got = t.conn[c].got
                       /\ f[c].posted = t.conn[c].posted
                       /\ f[c].reusable = t.conn[c].reusable
                       /\ f[c].timer_set = t.conn[c].timer_set
  BY <1>2 DEF Connection
<1>4. f \in [Conns -> Connection]
  BY <1>3
<1>5. u = [t EXCEPT !.conn = f]
  BY DEF DisableAccept
<1> HIDE DEF f, u
<1>6. /\ u \in Cycle /\ u.conn = f /\ u.timers = t.timers
      /\ u.free = t.free /\ u.free_n = t.free_n /\ u.files = t.files
      /\ u.reuse = t.reuse /\ u.reusable_n = t.reusable_n
      /\ u.posted = t.posted /\ u.sock = t.sock
  BY <1>1, <1>4, <1>5 DEF Cycle
<1>7. \A d \in Conns : /\ u.conn[d].fd = t.conn[d].fd
                       /\ u.conn[d].instance = t.conn[d].instance
                       /\ u.conn[d].handler = "accept" <=> d \in Listeners
                       /\ u.conn[d].got <= BufSize
  BY <1>3, <1>6 DEF TableInv, KindsOK
<1>8. InUse(u) = InUse(t) /\ PoolOK(u) /\ FilesOK(u) /\ KindsOK(u) /\ EpollOK(u)
  <2>1. Framed(u, t)
    BY <1>6, <1>7, Zenon DEF Framed
  <2> QED
    BY <2>1, FrameKeeps
<1>9. ReusableOK(u)
  BY <1>3, <1>6, <1>8 DEF TableInv, ReusableOK, InUse
<1>10. PostedOK(u)
  <2>1. \A d \in Listeners : d \in Conns
    BY TableAssumption DEF Listeners, Conns
  <2> QED
    BY <1>3, <1>6, <1>8, <2>1 DEF TableInv, PostedOK, InUse
<1>11. TimersOK(u)
  BY <1>3, <1>6, <1>8 DEF TimersOK, InUse
<1> QED
  BY <1>3, <1>6, <1>8, <1>9, <1>10, <1>11 DEF TableInv, u

\* A descriptor that is closed, or was just accepted, belongs to nobody.
LEMMA Unowned ==
    ASSUME NEW t, TableInv(t), NEW fd \in Fds, t.sock[fd].kind = "closed"
    PROVE  t.files[fd] = NoConn
<1> SUFFICES ASSUME t.files[fd] # NoConn PROVE FALSE
  OBVIOUS
<1>1. t \in Cycle /\ t.files[fd] \in Conns
  BY DEF TableInv, Cycle
<1>2. t.conn[t.files[fd]].fd = fd
  BY DEF TableInv, FilesOK
<1>3. t.files[fd] \in InUse(t)
  BY <1>1, <1>2 DEF InUse, Fds, NoFd
<1> QED
  BY <1>2, <1>3 DEF TableInv, FilesOK

\* accept4().
LEMMA AcceptedKeeps ==
    ASSUME NEW t, TableInv(t), TimersOK(t), NEW l \in InUse(t) \cap Listeners,
           NEW fd \in Fds, t.sock[fd].kind = "closed", t.sock[t.conn[l].fd].rcv # 0,
           NEW n \in 0 .. MaxBytes
    PROVE  LET u == Accepted(t, l, fd, n) IN
           /\ TableInv(u) /\ TimersOK(u)
           /\ u.conn = t.conn /\ u.files = t.files
           /\ t.files[fd] = NoConn /\ u.sock[fd].kind = "stream" /\ u.sock[fd].reg = NoConn
           /\ \A f \in Fds : f # fd /\ f # t.conn[l].fd => u.sock[f] = t.sock[f]
<1> DEFINE u == Accepted(t, l, fd, n)
           lfd == t.conn[l].fd
           k == [ClosedSocket EXCEPT !.kind = "stream", !.rcv = n, !.sent = n]
           v == [t EXCEPT !.sock[fd] = k]
           j == [t.sock[lfd] EXCEPT !.rcv = @ - 1]
<1>1. /\ t \in Cycle /\ lfd \in Fds /\ t.sock[lfd] \in Socket
      /\ t.sock[lfd].kind = "listen" /\ lfd # fd
  <2>1. t \in Cycle /\ lfd \in Fds /\ t.sock[lfd] \in Socket
    BY Held DEF TableInv
  <2>2. t.sock[lfd].kind = "listen"
    BY DEF TableInv, KindsOK
  <2> QED
    BY <2>1, <2>2
<1>2. t.files[fd] = NoConn
  BY Unowned
<1>3. k \in Socket /\ k.kind = "stream" /\ k.rcv = n /\ k.sent = n /\ k.reg = NoConn
  <2>1. n \in Nat
    BY TableAssumption
  <2>2. ClosedSocket \in Socket /\ ClosedSocket.reg = NoConn
    BY DEF ClosedSocket, Socket
  <2>3. k \in Socket
    BY <2>1, <2>2 DEF Socket
  <2> QED
    BY <2>2, <2>3 DEF Socket
<1>4. /\ j \in Socket /\ j.kind = "listen" /\ j.reg = t.sock[lfd].reg /\ j.inst = t.sock[lfd].inst
  <2>1. t.sock[lfd].rcv \in Nat
    BY <1>1 DEF Socket
  <2>2. t.sock[lfd].rcv - 1 \in Nat
    BY <2>1
  <2> QED
    BY <1>1, <2>2 DEF Socket
<1>5. u = [v EXCEPT !.sock[lfd] = j]
  BY <1>1 DEF Accepted, Cycle
<1> HIDE DEF k, j, u
<1>6. TableInv(v) /\ TimersOK(v)
  <2>1. k.rcv <= k.sent /\ k.sent <= MaxBytes
    BY <1>3, TableAssumption
  <2> QED
    BY <1>2, <1>3, <2>1, UpdateSocket
<1>7. /\ v.conn = t.conn /\ v.files = t.files /\ v.sock[fd] = k
      /\ \A f \in Fds : f # fd => v.sock[f] = t.sock[f]
  BY <1>1 DEF Cycle
<1> HIDE DEF v
<1>8. TableInv(u) /\ TimersOK(u)
  <2>1. j.reg # NoConn => v.conn[j.reg].fd = lfd /\ v.conn[j.reg].instance = j.inst
    BY <1>1, <1>4, <1>7 DEF TableInv, EpollOK
  <2>2. j.kind = v.sock[lfd].kind
    BY <1>1, <1>4, <1>7
  <2> QED
    BY <1>1, <1>4, <1>5, <1>6, <2>1, <2>2, UpdateSocket
<1>9. /\ u.conn = v.conn /\ u.files = v.files
      /\ \A f \in Fds : f # lfd => u.sock[f] = v.sock[f]
  <2>1. v \in Cycle
    BY <1>6 DEF TableInv
  <2> QED
    BY <1>1, <1>5, <2>1 DEF Cycle
<1> QED
  BY <1>1, <1>2, <1>3, <1>7, <1>8, <1>9 DEF u

\* Connection d does not wait for a request, or nothing happened to it.
Unmoved(t, u, d) ==
    u.conn[d].fd # NoFd /\ u.conn[d].handler = "wait" =>
      u.conn[d] = t.conn[d] /\ u.sock[u.conn[d].fd] = t.sock[u.conn[d].fd]

\* Connections were at most closed, and no listener was.
Kept(t, u) ==
    /\ \A d \in Conns : u.conn[d].instance = t.conn[d].instance
    /\ \A d \in Conns : u.conn[d].fd \in {t.conn[d].fd, NoFd}
    /\ \A d \in Listeners : u.conn[d].fd = t.conn[d].fd
    /\ \A d \in Conns : Unmoved(t, u, d)

\* night_event_accept up to night_get_connection: the client's descriptor is
\* open and nobody has it.
LEMMA AdmittedKeeps ==
    ASSUME NEW t, TableInv(t), TimersOK(t), NEW l \in InUse(t) \cap Listeners,
           NEW fd \in Fds, t.sock[fd].kind = "closed", t.sock[t.conn[l].fd].rcv # 0,
           NEW n \in 0 .. MaxBytes
    PROVE  LET v == Drain(Accepted([t EXCEPT !.conn[l].ready = FALSE], l, fd, n)) IN
           /\ TableInv(v) /\ TimersOK(v) /\ Kept(t, v)
           /\ v.files[fd] = NoConn /\ v.sock[fd].kind = "stream"
           /\ \A d \in Conns : t.conn[d].fd # fd
<1> DEFINE u == [t EXCEPT !.conn[l].ready = FALSE]
           a == Accepted(u, l, fd, n)
           v == Drain(a)
<1>1. /\ Step(t, u, l) /\ l \in InUse(u)
      /\ u.conn = [t.conn EXCEPT ![l].ready = FALSE]
      /\ u.sock = t.sock /\ u.files = t.files
  BY SetReady
<1>2. TableInv(u) /\ TimersOK(u)
  BY <1>1 DEF Step
<1>3. /\ \A d \in Conns : d # l => u.conn[d] = t.conn[d]
      /\ \A d \in Conns : /\ u.conn[d].fd = t.conn[d].fd
                          /\ u.conn[d].instance = t.conn[d].instance
                          /\ u.conn[d].handler = t.conn[d].handler
  <2>1. t \in Cycle /\ l \in Conns
    BY DEF TableInv, InUse
  <2> QED
    BY <1>1, <2>1 DEF Cycle, Connection
<1> HIDE DEF u
<1>4. /\ TableInv(a) /\ TimersOK(a)
      /\ a.conn = u.conn /\ a.files = u.files
      /\ u.files[fd] = NoConn /\ a.sock[fd].kind = "stream"
      /\ \A f \in Fds : f # fd /\ f # u.conn[l].fd => a.sock[f] = u.sock[f]
  <2>1. u.sock[fd].kind = "closed" /\ u.sock[u.conn[l].fd].rcv # 0 /\ l \in InUse(u) \cap Listeners
    BY <1>1, <1>3 DEF InUse
  <2> QED
    BY <1>2, <2>1, AcceptedKeeps
<1> HIDE DEF a
<1>5. TableInv(v) /\ TimersOK(v) /\ Closing(a, v)
  BY <1>4, DrainCloses
<1> HIDE DEF v
<1>6. v.files[fd] = NoConn /\ v.sock[fd].kind = "stream"
  BY <1>4, <1>5 DEF Closing
<1>7. \A d \in Conns : t.conn[d].fd # fd
  <2> SUFFICES ASSUME NEW d \in Conns, t.conn[d].fd = fd PROVE FALSE
    OBVIOUS
  <2>1. d \in InUse(t)
    BY DEF InUse, Fds, NoFd
  <2> QED
    BY <1>1, <1>4, <2>1, Held
<1>8. ASSUME NEW d \in Conns, v.conn[d].fd # NoFd, v.conn[d].handler = "wait"
      PROVE  v.conn[d] = t.conn[d] /\ v.sock[v.conn[d].fd] = t.sock[v.conn[d].fd]
  <2>1. v.conn[d] = u.conn[d] /\ v.sock[v.conn[d].fd] = a.sock[v.conn[d].fd]
    BY <1>4, <1>5, <1>8 DEF Closing
  <2>2. u.conn[d].handler = "wait" /\ d \in InUse(u) /\ d \notin Listeners
    BY <1>2, <1>8, <2>1, Held DEF InUse
  <2>3. v.conn[d] = t.conn[d] /\ d \in InUse(t)
    BY <1>3, <1>8, <2>1, <2>2 DEF InUse
  <2>4. t.conn[d].fd \in Fds /\ t.conn[d].fd # fd /\ t.conn[d].fd # t.conn[l].fd
    <3>1. t.files[t.conn[d].fd] = d /\ t.files[t.conn[l].fd] = l /\ t.conn[d].fd \in Fds /\ d # NoConn
      BY <2>3, Held
    <3> QED
      BY <1>1, <1>4, <2>2, <3>1
  <2> QED
    BY <1>1, <1>3, <1>4, <2>1, <2>3, <2>4
<1>9. Kept(t, v)
  <2>1. \A d \in Conns : Unmoved(t, v, d)
    BY <1>8 DEF Unmoved
  <2>2. \A d \in Conns : /\ v.conn[d].instance = t.conn[d].instance
                         /\ v.conn[d].fd \in {t.conn[d].fd, NoFd}
    BY <1>3, <1>4, <1>5 DEF Closing
  <2>3. \A d \in Listeners : v.conn[d].fd = t.conn[d].fd
    BY <1>3, <1>4, <1>5, TableAssumption DEF Closing, Listeners, Conns
  <2> QED
    BY <2>1, <2>2, <2>3 DEF Kept
<1> QED
  BY <1>5, <1>6, <1>7, <1>9 DEF v, a, u

\* A free connection was taken for the descriptor fd and served or given
\* back; nothing else changed.
Taken(t, u, fd) ==
    LET c == Head(t.free) IN
    /\ TableInv(u) /\ TimersOK(u)
    /\ c \in Conns \ (Listeners \cup InUse(t))
    /\ u.conn[c].instance # t.conn[c].instance
    /\ u.conn[c].fd \in {fd, NoFd}
    /\ \A d \in Conns : d # c => u.conn[d] = t.conn[d]
    /\ \A f \in Fds : f # fd => u.sock[f] = t.sock[f]
    /\ BufSize > MaxBytes => Settled(u, c)

\* night_get_connection followed by night_http_init_connection or, when
\* something fails, night_close_accepted_connection.
LEMMA TakenKeeps ==
    ASSUME NEW t, TableInv(t), TimersOK(t), Up(t), t.free # <<>>,
           NEW fd \in Fds, t.files[fd] = NoConn, t.sock[fd].kind = "stream",
           NEW u, \/ u \in InitConnection(Take(t, fd), Head(t.free))
                  \/ u = CloseAccepted(Take(t, fd), Head(t.free))
    PROVE  Taken(t, u, fd)
<1> DEFINE c == Head(t.free)
           v == Take(t, fd)
           x == Fresh(fd, ~t.conn[c].instance)
           r == [x EXCEPT !.ready = TRUE, !.handler = "wait"]
           w == [v EXCEPT !.conn[c].ready = TRUE, !.conn[c].handler = "wait"]
<1>1. /\ TableInv(v) /\ TimersOK(v)
      /\ c \in Conns \ (Listeners \cup InUse(t))
      /\ v.conn = [t.conn EXCEPT ![c] = x]
      /\ v.sock = t.sock
  BY TakeKeeps
<1> HIDE DEF c, v
<1>2. t \in Cycle /\ v \in Cycle /\ t.conn[c] \in Connection /\ t.conn[c].instance \in BOOLEAN
  <2>1. t \in Cycle /\ v \in Cycle
    BY <1>1 DEF TableInv
  <2>2. t.conn[c] \in Connection
    BY <1>1, <2>1 DEF Cycle
  <2> QED
    BY <2>1, <2>2 DEF Connection
<1>3. /\ x.fd = fd /\ x.instance = ~t.conn[c].instance /\ ~x.active /\ ~x.reusable
      /\ ~x.posted /\ ~x.timer_set /\ ~x.close /\ x.got = 0
  BY DEF Fresh
<1> HIDE DEF x
<1>4. v.conn[c] = x /\ \A d \in Conns : d # c => v.conn[d] = t.conn[d]
  BY <1>1, <1>2 DEF Cycle
<1>5. c \in InUse(v) /\ c \in InUse(v) \ Listeners
  BY <1>1, <1>3, <1>4 DEF InUse, Fds, NoFd
<1>6. x.instance # t.conn[c].instance
  BY <1>2, <1>3
<1>7. CASE u = CloseAccepted(v, c)
  <2>1. Step(v, u, c) /\ u.conn = [v.conn EXCEPT ![c].fd = NoFd]
    <3>1. ~v.conn[c].reusable /\ ~v.conn[c].posted /\ ~v.conn[c].timer_set
      BY <1>3, <1>4
    <3>2. u = CloseFd(FreeConnection(v, c), c)
      BY <1>7 DEF CloseAccepted
    <3> QED
      BY <1>1, <1>5, <3>1, <3>2, GiveBackStep
  <2>2. u.conn[c].fd = NoFd
    BY <1>1, <1>2, <2>1 DEF Cycle, Connection
  <2>3. Settled(u, c)
    BY <2>2 DEF Settled
  <2>4. /\ TableInv(u) /\ TimersOK(u) /\ u.conn[c].instance = x.instance
        /\ \A d \in Conns : d # c => u.conn[d] = t.conn[d]
        /\ \A f \in Fds : f # fd => u.sock[f] = t.sock[f]
    BY <1>1, <1>3, <1>4, <2>1 DEF Step, Within
  <2> QED
    BY <1>1, <1>6, <2>2, <2>3, <2>4 DEF Taken, c
<1>8. CASE u \in InitConnection(v, c)
  <2>1. x \in Connection
    BY <1>1, <1>2, <1>4 DEF Cycle
  <2>2. /\ r \in Connection /\ r.fd = fd /\ r.instance = x.instance /\ ~r.active
        /\ ~r.reusable /\ ~r.posted /\ ~r.timer_set /\ r.handler = "wait" /\ r.got = 0
    BY <1>3, <2>1 DEF Connection, Handlers
  <2>3. v.timers \in SUBSET Conns /\ w = [v EXCEPT !.conn[c] = r, !.timers = v.timers]
    <3>1. c \in Conns /\ v.conn[c] = x
      BY <1>1, <1>4
    <3>2. w = [v EXCEPT !.conn[c] = r]
      BY <1>2, <2>1, <3>1 DEF Cycle, Connection
    <3> HIDE DEF w, r
    <3>3. v.timers \in SUBSET Conns
      BY <1>2 DEF Cycle
    <3>4. [v EXCEPT !.conn[c] = r] = [v EXCEPT !.conn[c] = r, !.timers = v.timers]
      BY <1>2 DEF Cycle
    <3> QED
      BY <3>2, <3>3, <3>4
  <2>4. v.timers = v.timers \ {c}
    BY <1>1, <1>3, <1>4 DEF TimersOK
  <2>5. BufSize \in Nat
    BY WorkerAssumption
  <2>6. w.conn = [v.conn EXCEPT ![c] = r] /\ w.sock = v.sock /\ w.files = v.files
    BY <1>2, <2>3 DEF Cycle
  <2> HIDE DEF w, r
  <2>7. TableInv(w) /\ TimersOK(w)
    <3>1. /\ r.fd = v.conn[c].fd /\ r.instance = v.conn[c].instance
          /\ r.posted = v.conn[c].posted /\ r.reusable = v.conn[c].reusable
          /\ ~(r.handler = "accept" \/ c \in Listeners) /\ r.got <= BufSize
      BY <1>1, <1>2, <1>3, <1>4, <2>1, <2>2, <2>5 DEF Connection
    <3>2. /\ TableInv(w)
          /\ TimersOK(v) /\ v.timers = (IF r.timer_set THEN v.timers \cup {c}
                                        ELSE v.timers \ {c}) => TimersOK(w)
      BY <1>1, <1>5, <2>2, <2>3, <3>1, UpdateConnection
    <3> QED
      BY <1>1, <2>2, <2>4, <3>2
  <2>8. w.conn[c] = r /\ \A d \in Conns : d # c => w.conn[d] = t.conn[d]
    BY <1>1, <1>2, <1>4, <2>6 DEF Cycle
  <2>9. Serving(w, c)
    BY <1>1, <2>2, <2>7, <2>8 DEF Serving, InUse, Fds, NoFd
  <2>10. u \in WaitRequest(w, c)
    BY <1>8 DEF InitConnection, w
  <2>11. Step(w, u, c) /\ (BufSize > MaxBytes => Settled(u, c))
    BY <2>2, <2>8, <2>9, <2>10, WaitRequestSteps
  <2>12. /\ TableInv(u) /\ TimersOK(u) /\ u.conn[c].instance = x.instance
         /\ u.conn[c].fd \in {fd, NoFd}
         /\ \A d \in Conns : d # c => u.conn[d] = t.conn[d]
    BY <2>2, <2>7, <2>8, <2>11 DEF Step, Within
  <2>13. \A f \in Fds : f # fd => u.sock[f] = t.sock[f]
    BY <1>1, <2>2, <2>6, <2>8, <2>11 DEF Step, Within
  <2> QED
    BY <1>1, <1>6, <2>11, <2>12, <2>13 DEF Taken, c
<1> QED
  BY <1>7, <1>8 DEF v, c

\* What a handler may have done to a connection, its record being x before
\* and y after: nothing, closed it, or closed it and taken it again, which
\* flips the instance bit and finds another descriptor.
Fate(x, y) ==
    \/ y.instance = x.instance /\ y.fd \in {x.fd, NoFd}
    \/ y.instance # x.instance /\ (y.fd = NoFd \/ y.fd # x.fd)

Accepting(t, u) ==
    /\ TableInv(u) /\ TimersOK(u)
    /\ \A d \in Listeners : /\ u.conn[d].fd = t.conn[d].fd
                            /\ u.conn[d].instance = t.conn[d].instance
    /\ \A d \in Conns : Fate(t.conn[d], u.conn[d])
    /\ BufSize > MaxBytes => \A d \in Conns : Unmoved(t, u, d) \/ Settled(u, d)

\* A table in which connections were at most closed.
LEMMA KeptAccepting ==
    ASSUME NEW t, NEW u, TableInv(u), TimersOK(u), Kept(t, u)
    PROVE  Accepting(t, u)
<1>1. Listeners \subseteq Conns
  BY TableAssumption DEF Listeners, Conns
<1> QED
  BY <1>1 DEF Accepting, Kept, Fate

\* The client's descriptor is closed again when no connection is free.
LEMMA RefusedKeeps ==
    ASSUME NEW t, NEW v, TableInv(v), TimersOK(v), Kept(t, v), NEW fd \in Fds,
           v.files[fd] = NoConn, \A d \in Conns : t.conn[d].fd # fd
    PROVE  Accepting(t, [v EXCEPT !.sock[fd] = ClosedSocket])
<1> DEFINE u == [v EXCEPT !.sock[fd] = ClosedSocket]
<1>1. v \in Cycle
  BY DEF TableInv
<1>2. ClosedSocket \in Socket /\ ClosedSocket.kind = "closed" /\ ClosedSocket.reg = NoConn
  BY DEF ClosedSocket, Socket
<1>3. TableInv(u) /\ TimersOK(u)
  BY <1>2, UpdateSocket
<1>4. u.conn = v.conn /\ \A f \in Fds : f # fd => u.sock[f] = v.sock[f]
  BY <1>1 DEF Cycle
<1> HIDE DEF u
<1>5. ASSUME NEW d \in Conns PROVE Unmoved(t, u, d)
  <2>1. Unmoved(t, v, d)
    BY DEF Kept
  <2>2. v.conn[d].fd # NoFd => v.conn[d].fd \in Fds /\ v.conn[d].fd # fd
    BY <1>1 DEF Cycle, Connection, Kept
  <2> QED
    BY <1>4, <2>1, <2>2 DEF Unmoved
<1>6. Kept(t, u)
  BY <1>4, <1>5 DEF Kept
<1> QED
  BY <1>3, <1>6, KeptAccepting DEF u

\* A connection is taken for it otherwise.
LEMMA TakenAccepting ==
    ASSUME NEW t, NEW v, TableInv(v), Kept(t, v), NEW fd \in Fds,
           \A d \in Conns : t.conn[d].fd # fd, NEW u, Taken(v, u, fd)
    PROVE  Accepting(t, u)
<1> DEFINE c == Head(v.free)
<1>1. /\ TableInv(u) /\ TimersOK(u)
      /\ c \in Conns \ (Listeners \cup InUse(v))
      /\ u.conn[c].instance # v.conn[c].instance
      /\ u.conn[c].fd \in {fd, NoFd}
      /\ \A d \in Conns : d # c => u.conn[d] = v.conn[d]
      /\ \A f \in Fds : f # fd => u.sock[f] = v.sock[f]
      /\ BufSize > MaxBytes => Settled(u, c)
  BY DEF Taken
<1> HIDE DEF c
<1>2. Listeners \subseteq Conns
  BY TableAssumption DEF Listeners, Conns
<1>3. \A d \in Listeners : /\ u.conn[d].fd = t.conn[d].fd
                           /\ u.conn[d].instance = t.conn[d].instance
  BY <1>1, <1>2 DEF Kept
<1>4. ASSUME NEW d \in Conns PROVE Fate(t.conn[d], u.conn[d])
  <2>1. CASE d = c
    <3>1. v.conn[c].instance = t.conn[c].instance
      BY <1>1 DEF Kept
    <3>2. u.conn[c].fd = NoFd \/ u.conn[c].fd # t.conn[c].fd
      BY <1>1
    <3> QED
      BY <1>1, <2>1, <3>1, <3>2 DEF Fate
  <2>2. CASE d # c
    BY <1>1, <2>2 DEF Kept, Fate
  <2> QED
    BY <2>1, <2>2
<1>5. ASSUME BufSize > MaxBytes, NEW d \in Conns PROVE Unmoved(t, u, d) \/ Settled(u, d)
  <2>1. CASE d = c
    BY <1>1, <1>5, <2>1
  <2>2. CASE d # c
    <3>1. Unmoved(t, v, d) /\ u.conn[d] = v.conn[d]
      BY <1>1, <2>2 DEF Kept
    <3>2. v.conn[d].fd # NoFd => v.conn[d].fd \in Fds /\ v.conn[d].fd # fd
      BY DEF TableInv, Cycle, Connection, Kept
    <3> QED
      BY <1>1, <3>1, <3>2 DEF Unmoved
  <2> QED
    BY <2>1, <2>2
<1> QED
  BY <1>1, <1>3, <1>4, <1>5 DEF Accepting

\* night_event_accept
LEMMA AcceptSteps ==
    ASSUME NEW t, TableInv(t), TimersOK(t), Up(t), NEW l \in Listeners,
           NEW w \in Accept(t, l)
    PROVE  Accepting(t, w)
<1> DEFINE lfd == t.conn[l].fd
           u == [t EXCEPT !.conn[l].ready = FALSE]
           fd == CHOOSE f \in FreeFds(t) : \A g \in FreeFds(t) : f <= g
           outcome(v) ==
             IF v.free = <<>>
             THEN {[v EXCEPT !.sock[fd] = ClosedSocket]}
             ELSE InitConnection(Take(v, fd), Head(v.free))
                  \cup (IF Faults THEN {CloseAccepted(Take(v, fd), Head(v.free))} ELSE {})
<1>1. l \in InUse(t) \cap Listeners
  BY TableAssumption DEF Up, InUse, Listeners, Conns
<1>2. \/ w = u
      \/ w = AddTimer(DisableAccept(u), l)
      \/ /\ t.sock[lfd].rcv # 0 /\ FreeFds(t) # {}
         /\ \E n \in 0 .. MaxBytes : w \in outcome(Drain(Accepted(u, l, fd, n)))
  <2> HIDE DEF outcome, fd
  <2>1. w \in (IF t.sock[lfd].rcv = 0 THEN {u}
               ELSE UNION { IF FreeFds(t) = {} \/ Faults THEN {AddTimer(DisableAccept(u), l)} ELSE {},
                            IF FreeFds(t) = {} THEN {}
                            ELSE UNION {outcome(Drain(Accepted(u, l, fd, n))) :
                                          n \in 0 .. MaxBytes} })
    BY Zenon DEF Accept, outcome, fd
  <2> HIDE DEF u, lfd
  <2> QED
    BY <2>1
<1>3. Step(t, u, l) /\ u.conn = [t.conn EXCEPT ![l].ready = FALSE] /\ u.sock = t.sock
  BY <1>1, SetReady
<1>4. TableInv(u) /\ TimersOK(u)
  BY <1>3 DEF Step
<1>5. \A d \in Conns : /\ u.conn[d].fd = t.conn[d].fd
                       /\ u.conn[d].instance = t.conn[d].instance
                       /\ u.conn[d].handler = t.conn[d].handler
                       /\ d \notin Listeners => u.conn[d] = t.conn[d]
  BY <1>3 DEF TableInv, Cycle, Connection
<1> HIDE DEF u
<1>6. Listeners \subseteq Conns /\ \A d \in Listeners : t.conn[d].handler # "wait"
  BY TableAssumption DEF TableInv, KindsOK, Listeners, Conns
<1>7. CASE w = u
  <2>1. Kept(t, u)
    BY <1>3, <1>5, <1>6 DEF Kept, Unmoved
  <2> QED
    BY <1>4, <1>7, <2>1, KeptAccepting
<1>8. CASE w = AddTimer(DisableAccept(u), l)
  <2> DEFINE v == DisableAccept(u)
  <2>1. /\ TableInv(v) /\ TimersOK(v) /\ v.sock = u.sock
        /\ \A d \in Conns : d \notin Listeners => v.conn[d] = u.conn[d]
        /\ \A d \in Conns : /\ v.conn[d].fd = u.conn[d].fd
                            /\ v.conn[d].instance = u.conn[d].instance
                            /\ v.conn[d].handler = u.conn[d].handler
    BY <1>4, DisableAcceptKeeps
  <2> HIDE DEF v
  <2>2. l \in InUse(v)
    BY <1>1, <1>5, <2>1 DEF InUse
  <2>3. /\ Step(v, w, l) /\ w.conn = [v.conn EXCEPT ![l].timer_set = TRUE] /\ w.sock = v.sock
    BY <1>8, <2>1, <2>2, AddTimerStep DEF v
  <2>4. \A d \in Conns : /\ w.conn[d].fd = v.conn[d].fd
                         /\ w.conn[d].instance = v.conn[d].instance
                         /\ w.conn[d].handler = v.conn[d].handler
                         /\ d \notin Listeners => w.conn[d] = v.conn[d]
    BY <2>1, <2>3 DEF TableInv, Cycle, Connection
  <2>5. Kept(t, w)
    BY <1>3, <1>5, <1>6, <2>1, <2>3, <2>4 DEF Kept, Unmoved
  <2>6. TableInv(w) /\ TimersOK(w)
    BY <2>1, <2>3 DEF Step
  <2> QED
    BY <2>5, <2>6, KeptAccepting
<1>9. ASSUME t.sock[lfd].rcv # 0, FreeFds(t) # {}, NEW n \in 0 .. MaxBytes,
             w \in outcome(Drain(Accepted(u, l, fd, n)))
      PROVE  Accepting(t, w)
  <2> DEFINE v == Drain(Accepted(u, l, fd, n))
  <2>1. fd \in FreeFds(t)
    <3>1. FreeFds(t) \subseteq Nat
      BY DEF FreeFds, Fds
    <3>2. \E f \in FreeFds(t) : \A g \in FreeFds(t) : f <= g
      BY <1>9, <3>1, LeastNat
    <3> QED
      BY <3>2
  <2> HIDE DEF fd
  <2>2. fd \in Fds /\ t.sock[fd].kind = "closed"
    BY <2>1 DEF FreeFds
  <2>3. /\ TableInv(v) /\ TimersOK(v) /\ Kept(t, v)
        /\ v.files[fd] = NoConn /\ v.sock[fd].kind = "stream"
        /\ \A d \in Conns : t.conn[d].fd # fd
    BY <1>1, <1>9, <2>2, AdmittedKeeps DEF u
  <2>4. w \in outcome(v)
    BY <1>9
  <2> HIDE DEF v
  <2>5. CASE v.free = <<>>
    <3>1. w = [v EXCEPT !.sock[fd] = ClosedSocket]
      BY <2>4, <2>5
    <3> QED
      BY <2>2, <2>3, <3>1, RefusedKeeps
  <2>6. CASE v.free # <<>>
    <3>1. \/ w \in InitConnection(Take(v, fd), Head(v.free))
          \/ w = CloseAccepted(Take(v, fd), Head(v.free))
      BY <2>4, <2>6
    <3>2. Up(v)
      BY <2>3 DEF Up, Kept
    <3>3. Taken(v, w, fd)
      BY <2>2, <2>3, <2>6, <3>1, <3>2, TakenKeeps
    <3> QED
      BY <2>2, <2>3, <3>3, TakenAccepting
  <2> QED
    BY <2>5, <2>6
<1> HIDE DEF outcome, fd
<1> QED
  BY <1>2, <1>7, <1>8, <1>9

\* The handler of a connection that epoll reported.
LEMMA HandleSteps ==
    ASSUME NEW t, NEW c, Serving(t, c), NEW u \in Handle([t EXCEPT !.conn[c].ready = TRUE], c)
    PROVE  /\ Step(t, u, c)
           /\ /\ BufSize > MaxBytes
              /\ t.conn[c].handler = "wait" => t.sock[t.conn[c].fd].reg = c
              => Settled(u, c)
<1> DEFINE v == [t EXCEPT !.conn[c].ready = TRUE]
<1>1. /\ Step(t, v, c) /\ c \in InUse(v) /\ v.conn = [t.conn EXCEPT ![c].ready = TRUE]
      /\ v.sock = t.sock
  BY SetReady DEF Serving
<1>2. v.conn[c].handler = t.conn[c].handler /\ v.conn[c].fd = t.conn[c].fd
  <2>1. t \in Cycle /\ c \in Conns
    BY DEF Serving, TableInv, InUse
  <2> QED
    BY <1>1, <2>1 DEF Cycle, Connection
<1> HIDE DEF v
<1>3. Serving(v, c)
  BY <1>1 DEF Serving, Step
<1>4. u \in Handle(v, c)
  BY DEF v
<1>5. CASE v.conn[c].handler = "wait"
  <2>1. u \in WaitRequest(v, c)
    BY <1>4, <1>5 DEF Handle
  <2> QED
    <3>1. /\ Step(v, u, c)
          /\ /\ BufSize > MaxBytes
             /\ v.conn[c].active => v.sock[v.conn[c].fd].reg = c
             => Settled(u, c)
      BY <1>3, <1>5, <2>1, WaitRequestSteps
    <3>2. Step(t, u, c)
      BY <1>1, <3>1, StepTwice
    <3> QED
      BY <1>1, <1>2, <1>5, <3>1, <3>2
<1>6. CASE v.conn[c].handler # "wait"
  <2>1. Step(v, u, c)
    <3>1. CASE v.conn[c].handler = "line"
      BY <1>3, <1>4, <3>1, ProcessLineSteps DEF Handle
    <3>2. CASE v.conn[c].handler = "headers"
      BY <1>3, <1>4, <3>2, ProcessHeadersSteps DEF Handle
    <3>3. CASE v.conn[c].handler \notin {"wait", "line", "headers"}
      <4>1. u = v
        BY <1>4, <3>3 DEF Handle
      <4> QED
        BY <1>3, <4>1, StepSame DEF Serving, InUse
    <3> QED
      BY <1>6, <3>1, <3>2, <3>3
  <2>2. Settled(u, c)
    BY <1>6, <2>1 DEF Step, Within, Settled
  <2> QED
    BY <1>1, <2>1, <2>2, StepTwice
<1> QED
  BY <1>5, <1>6

-----------------------------------------------------------------------------
(* The shutdown                                                            *)

\* One round of night_close_listening_sockets.
LEMMA CloseListenerKeeps ==
    ASSUME NEW t, TableInv(t), NEW l \in InUse(t) \cap Listeners
    PROVE  LET u == CloseListener(t, l) IN
           /\ TableInv(u) /\ u.lost = t.lost
           /\ u.conn[l].fd = NoFd
           /\ \A d \in Conns : d # l => u.conn[d].fd = t.conn[d].fd
<1> DEFINE v == [t EXCEPT !.conn[l].active = FALSE]
           r == [t.conn[l] EXCEPT !.active = FALSE]
           u == CloseListener(t, l)
<1>1. t \in Cycle /\ l \in Conns /\ t.conn[l] \in Connection
  BY Held DEF TableInv
<1>2. /\ r \in Connection /\ Alike(r, t.conn[l])
      /\ r.handler = t.conn[l].handler /\ r.got = t.conn[l].got
  BY <1>1 DEF Connection, Alike
<1>3. v = [t EXCEPT !.conn[l] = r]
  BY <1>1 DEF Cycle
<1>4. /\ r.reusable => r.handler \in {"wait", "keepalive"}
      /\ r.handler = "accept" <=> l \in Listeners
      /\ r.handler = "wait" => t.conn[l].handler = "wait"
      /\ r.got <= BufSize
  BY <1>2, Held DEF Alike
<1> HIDE DEF r, v, u
<1>5. Step(t, v, l) /\ l \in InUse(v) /\ v.conn[l] = r /\ v.lost = t.lost
  BY <1>2, <1>3, <1>4, SetConnection
<1>6. TableInv(v) /\ \A d \in Conns : d # l => v.conn[d] = t.conn[d]
  BY <1>5 DEF Step, Within
<1>7. ~v.conn[l].reusable /\ ~v.conn[l].posted
  <2>1. ~v.conn[l].posted
    BY <1>6 DEF TableInv, PostedOK
  <2>2. ~v.conn[l].reusable
    BY <1>5, <1>6, Held
  <2> QED
    BY <2>1, <2>2
<1>8. /\ TableInv(u) /\ u.conn = [v.conn EXCEPT ![l].fd = NoFd] /\ u.lost = v.lost
  BY <1>5, <1>6, <1>7, GiveBack DEF CloseListener, v, u
<1>9. /\ u.conn[l].fd = NoFd
      /\ \A d \in Conns : d # l => u.conn[d].fd = v.conn[d].fd
  BY <1>1, <1>6, <1>8 DEF TableInv, Cycle, Connection
<1> QED
  BY <1>5, <1>6, <1>8, <1>9 DEF u

\* The posted events were called.
LEMMA PostedDrained ==
    ASSUME NEW t, TableInv(t)
    PROVE  LET u == [t EXCEPT !.posted = <<>>,
                              !.conn = [c \in Conns |-> [@[c] EXCEPT !.posted = FALSE]]]
           IN TableInv(u) /\ u.lost = t.lost
<1> DEFINE u == [t EXCEPT !.posted = <<>>,
                          !.conn = [c \in Conns |-> [@[c] EXCEPT !.posted = FALSE]]]
<1>1. t \in Cycle
  BY DEF TableInv
<1>2. /\ u.conn = [c \in Conns |-> [t.conn[c] EXCEPT !.posted = FALSE]]
      /\ u.posted = <<>> /\ u.free = t.free /\ u.free_n = t.free_n
      /\ u.files = t.files /\ u.reuse = t.reuse /\ u.reusable_n = t.reusable_n
      /\ u.timers = t.timers /\ u.lost = t.lost /\ u.sock = t.sock
  BY <1>1 DEF Cycle
<1>3. \A c \in Conns : t.conn[c] \in Connection
  BY <1>1 DEF Cycle
<1>4. \A c \in Conns : /\ u.conn[c] \in Connection /\ ~u.conn[c].posted
                       /\ u.conn[c].fd = t.conn[c].fd
                       /\ u.conn[c].instance = t.conn[c].instance
                       /\ u.conn[c].handler = t.conn[c].handler
                       /\ u.conn[c].got = t.conn[c].got
                       /\ u.conn[c].reusable = t.conn[c].reusable
  <2> HIDE DEF u
  <2> TAKE c \in Conns
  <2>1. u.conn[c] = [t.conn[c] EXCEPT !.posted = FALSE] /\ t.conn[c] \in Connection
    BY <1>2, <1>3
  <2> QED
    BY <2>1 DEF Connection
<1>5. u \in Cycle
  <2>1. u.conn \in [Conns -> Connection]
    BY <1>2, <1>4
  <2>2. u = [t EXCEPT !.posted = <<>>, !.conn = u.conn] /\ <<>> \in Seq(Conns)
    BY <1>1, <1>2 DEF Cycle
  <2> HIDE DEF u
  <2> QED
    BY <1>1, <2>1, <2>2 DEF Cycle
<1> HIDE DEF u
<1>6. InUse(u) = InUse(t) /\ PoolOK(u) /\ FilesOK(u) /\ KindsOK(u) /\ EpollOK(u)
  <2>1. \A c \in Conns : /\ u.conn[c].handler = "accept" <=> c \in Listeners
                         /\ u.conn[c].got <= BufSize
    BY <1>4 DEF TableInv, KindsOK
  <2>3. Framed(u, t)
    BY <1>2, <1>4, <1>5, <2>1, Zenon DEF Framed
  <2> QED
    BY <2>3, FrameKeeps
<1>7. ReusableOK(u)
  <2>1. Members(t.reuse) \subseteq Conns
    BY DEF TableInv, ReusableOK
  <2> QED
    BY <1>2, <1>4, <1>6, <2>1 DEF TableInv, ReusableOK
<1>8. PostedOK(u)
  <2>1. Members(u.posted) = {} /\ NoRepeats(u.posted)
    BY <1>2 DEF Members, NoRepeats
  <2>2. Listeners \subseteq Conns
    BY TableAssumption DEF Listeners, Conns
  <2> QED
    BY <1>4, <2>1, <2>2 DEF PostedOK, InUse
<1> QED
  BY <1>2, <1>5, <1>6, <1>7, <1>8 DEF TableInv, u

\* night_close_listening_sockets.
LEMMA ListenersClosed ==
    ASSUME NEW t, TableInv(t), Up(t)
    PROVE  LET listen == CHOOSE f : f = [l \in 0 .. ListenN |->
                                          IF l = 0 THEN t ELSE CloseListener(f[l - 1], l)]
               u == listen[ListenN]
           IN
           /\ TableInv(u) /\ u.lost = t.lost
           /\ \A l \in Listeners : u.conn[l].fd = NoFd
<1> DEFINE T == {v \in Cycle : TableInv(v) /\ v.lost = t.lost}
           F(f) == [l \in 0 .. ListenN |-> IF l = 0 THEN t ELSE CloseListener(f[l - 1], l)]
           listen == CHOOSE f : f = F(f)
           next(v, l) == IF v.conn[l].fd # NoFd THEN CloseListener(v, l) ELSE v
           g == [l \in 1 .. ListenN |-> [v \in T |-> next(v, l)]]
           Done(v, i) == \A l \in Listeners : IF l <= i THEN v.conn[l].fd = NoFd
                                              ELSE v.conn[l].fd # NoFd
<1>1. t \in T /\ ListenN \in Nat
  BY TableAssumption DEF TableInv
<1>2. \A l \in 1 .. ListenN : l \in Listeners /\ l \in Conns
  BY TableAssumption DEF Listeners, Conns
<1>3. ASSUME NEW v \in T, NEW l \in 1 .. ListenN, v.conn[l].fd # NoFd
      PROVE  LET w == CloseListener(v, l) IN
             /\ w \in T
             /\ w.conn[l].fd = NoFd
             /\ \A d \in Conns : d # l => w.conn[d].fd = v.conn[d].fd
  <2>1. l \in InUse(v) \cap Listeners
    BY <1>2, <1>3 DEF InUse
  <2> QED
    BY <2>1, CloseListenerKeeps DEF TableInv
<1>4. g \in [1 .. ListenN -> [T -> T]]
  <2>1. \A v \in T, l \in 1 .. ListenN : next(v, l) \in T
    BY <1>3
  <2> HIDE DEF T, next
  <2> QED
    BY <2>1
<1>5. PICK f \in [0 .. ListenN -> T] :
        f[0] = t /\ \A i \in 1 .. ListenN : f[i] = g[i][f[i - 1]]
  <2> HIDE DEF g, T
  <2> QED
    BY <1>1, <1>4, RecursionExists
<1>6. \A i \in 1 .. ListenN : f[i - 1] \in T /\ f[i] = next(f[i - 1], i)
  <2>1. \A i \in 1 .. ListenN : f[i - 1] \in T
    BY <1>1
  <2> HIDE DEF next, T
  <2> QED
    BY <1>5, <2>1
<1>7. \A i \in 0 .. ListenN : Done(f[i], i)
  <2> DEFINE P == {i \in Nat : i <= ListenN => Done(f[i], i)}
  <2>1. 0 \in P
    BY <1>5 DEF Up, Listeners
  <2>2. ASSUME NEW i \in Nat, i \in P PROVE i + 1 \in P
    <3> SUFFICES ASSUME i + 1 <= ListenN PROVE Done(f[i + 1], i + 1)
      OBVIOUS
    <3>1. i + 1 \in 1 .. ListenN /\ (i + 1) - 1 = i /\ Done(f[i], i)
      BY <1>1, <2>2
    <3>2. f[i] \in T /\ f[i + 1] = next(f[i], i + 1)
      BY <1>6, <3>1
    <3>3. f[i].conn[i + 1].fd # NoFd
      BY <1>2, <3>1
    <3>4. /\ f[i + 1].conn[i + 1].fd = NoFd
          /\ \A d \in Conns : d # i + 1 => f[i + 1].conn[d].fd = f[i].conn[d].fd
      <4> HIDE DEF T
      <4> QED
        BY <1>3, <3>1, <3>2, <3>3
    <3> HIDE DEF T, next, g
    <3> QED
      BY <1>2, <3>1, <3>4 DEF Listeners
  <2> HIDE DEF P
  <2>3. Nat \subseteq P
    BY <2>1, <2>2, SetInduction
  <2> QED
    BY <1>1, <2>3 DEF P
<1>8. f = F(f)
  <2>1. ASSUME NEW i \in 1 .. ListenN PROVE f[i] = CloseListener(f[i - 1], i)
    <3>1. i - 1 \in 0 .. ListenN /\ ~(i <= i - 1) /\ i \in Listeners
      BY <1>1, <1>2
    <3>2. f[i - 1].conn[i].fd # NoFd
      BY <1>7, <3>1
    <3> QED
      BY <1>6, <3>2
  <2> HIDE DEF T
  <2> QED
    BY <1>1, <1>5, <2>1
<1>9. listen = F(listen)
  <2> HIDE DEF F
  <2> QED
    BY <1>8
<1> HIDE DEF listen
<1>10. \A i \in 0 .. ListenN : listen[i] = f[i]
  <2> DEFINE P == {i \in Nat : i <= ListenN => listen[i] = f[i]}
  <2>1. listen[0] = t /\ \A i \in 1 .. ListenN : listen[i] = CloseListener(listen[i - 1], i)
    BY <1>1, <1>9
  <2>2. f[0] = t /\ \A i \in 1 .. ListenN : f[i] = CloseListener(f[i - 1], i)
    <3> HIDE DEF T
    <3> QED
      BY <1>1, <1>8
  <2>3. 0 \in P
    BY <2>1, <2>2
  <2>4. ASSUME NEW i \in Nat, i \in P PROVE i + 1 \in P
    <3> SUFFICES ASSUME i + 1 <= ListenN PROVE listen[i + 1] = f[i + 1]
      OBVIOUS
    <3>1. i + 1 \in 1 .. ListenN /\ (i + 1) - 1 = i /\ listen[i] = f[i]
      BY <1>1, <2>4
    <3> QED
      BY <2>1, <2>2, <3>1
  <2> HIDE DEF P
  <2>5. Nat \subseteq P
    BY <2>3, <2>4, SetInduction
  <2> QED
    BY <1>1, <2>5 DEF P
<1>11. listen[ListenN] = f[ListenN] /\ f[ListenN] \in T /\ Done(f[ListenN], ListenN)
  <2> HIDE DEF T, Done
  <2> QED
    BY <1>1, <1>5, <1>7, <1>10
<1>12. /\ TableInv(listen[ListenN]) /\ listen[ListenN].lost = t.lost
       /\ \A l \in Listeners : listen[ListenN].conn[l].fd = NoFd
  BY <1>1, <1>11 DEF Listeners
<1> QED
  BY Zenon, <1>12 DEF listen

\* night_close_idle_connections.
LEMMA IdleClosed ==
    ASSUME NEW t, TableInv(t), \A l \in Listeners : t.conn[l].fd = NoFd
    PROVE  LET idle == CHOOSE f : f = [c \in 0 .. ConnectionN |->
                         IF c = 0 THEN t
                         ELSE IF f[c - 1].conn[c].fd # NoFd /\ f[c - 1].conn[c].idle
                         THEN AskToClose(f[c - 1], c)
                         ELSE f[c - 1]]
               u == idle[ConnectionN]
           IN TableInv(u) /\ u.lost = t.lost
<1> DEFINE next(v, c) == IF v.conn[c].fd # NoFd /\ v.conn[c].idle THEN AskToClose(v, c) ELSE v
           T == {v \in Cycle : /\ TableInv(v) /\ v.lost = t.lost
                               /\ \A l \in Listeners : v.conn[l].fd = NoFd}
           F(f) == [c \in 0 .. ConnectionN |->
                      IF c = 0 THEN t
                      ELSE IF f[c - 1].conn[c].fd # NoFd /\ f[c - 1].conn[c].idle
                      THEN AskToClose(f[c - 1], c)
                      ELSE f[c - 1]]
           idle == CHOOSE f : f = F(f)
           g == [c \in 1 .. ConnectionN |-> [v \in T |-> next(v, c)]]
<1>1. t \in T /\ ConnectionN \in Nat
  BY TableAssumption DEF TableInv
<1>2. ASSUME NEW v \in T, NEW c \in 1 .. ConnectionN PROVE next(v, c) \in T
  <2>1. CASE v.conn[c].fd # NoFd /\ v.conn[c].idle
    <3> DEFINE w == AskToClose(v, c)
    <3>1. TableInv(v) /\ c \in InUse(v) \ Listeners
      BY <2>1 DEF InUse, Conns
    <3>2. Step(v, w, c) /\ w.lost = v.lost
      BY <3>1, AskToCloseStep
    <3>3. \A l \in Listeners : w.conn[l].fd = v.conn[l].fd
      BY <3>1, <3>2, TableAssumption DEF Step, Within, Listeners, Conns
    <3> HIDE DEF w
    <3>4. w \in T
      BY <3>2, <3>3 DEF Step, TableInv
    <3> QED
      BY <2>1, <3>4 DEF w
  <2>2. CASE ~(v.conn[c].fd # NoFd /\ v.conn[c].idle)
    BY <2>2
  <2> QED
    BY <2>1, <2>2
<1>3. PICK f \in [0 .. ConnectionN -> T] :
        f[0] = t /\ \A i \in 1 .. ConnectionN : f[i] = g[i][f[i - 1]]
  <2>1. g \in [1 .. ConnectionN -> [T -> T]]
    <3> HIDE DEF T, next
    <3> QED
      BY <1>2
  <2> HIDE DEF g, T
  <2> QED
    BY <1>1, <2>1, RecursionExists
<1>4. f = F(f)
  <2>1. \A i \in 1 .. ConnectionN : f[i - 1] \in T
    BY <1>1
  <2>2. \A i \in 1 .. ConnectionN : f[i] = next(f[i - 1], i)
    <3> HIDE DEF next, T
    <3> QED
      BY <1>3, <2>1
  <2>3. f = [i \in 0 .. ConnectionN |-> IF i = 0 THEN t ELSE next(f[i - 1], i)]
    <3> HIDE DEF T, next
    <3> QED
      BY <1>1, <1>3, <2>2
  <2> QED
    BY <2>3
<1>5. idle = F(idle)
  <2> HIDE DEF F
  <2> QED
    BY <1>4
<1> HIDE DEF idle
<1>6. \A i \in 0 .. ConnectionN : idle[i] \in T
  <2> DEFINE P == {i \in Nat : i <= ConnectionN => idle[i] \in T}
  <2>1. idle[0] = t /\ \A i \in 1 .. ConnectionN : idle[i] = next(idle[i - 1], i)
    <3>1. idle = [i \in 0 .. ConnectionN |-> IF i = 0 THEN t ELSE next(idle[i - 1], i)]
      BY Zenon, <1>5
    <3>2. ConnectionN \in Nat
      BY <1>1
    <3> HIDE DEF T, next
    <3> QED
      BY <3>1, <3>2
  <2> HIDE DEF T, next
  <2>2. 0 \in P
    BY <1>1, <2>1
  <2>3. ASSUME NEW i \in Nat, i \in P PROVE i + 1 \in P
    <3> SUFFICES ASSUME i + 1 <= ConnectionN PROVE idle[i + 1] \in T
      OBVIOUS
    <3>1. i + 1 \in 1 .. ConnectionN /\ (i + 1) - 1 = i /\ idle[i] \in T
      BY <1>1, <2>3
    <3> QED
      BY <1>2, <2>1, <3>1
  <2> HIDE DEF P
  <2>4. Nat \subseteq P
    BY <2>2, <2>3, SetInduction
  <2> QED
    BY <1>1, <2>4 DEF P
<1>7. idle[ConnectionN] \in T
  <2> HIDE DEF T
  <2> QED
    BY <1>1, <1>6
<1>8. TableInv(idle[ConnectionN]) /\ idle[ConnectionN].lost = t.lost
  BY <1>7
<1> QED
  BY Zenon, <1>8 DEF idle

\* The whole of the shutdown.
LEMMA ShutdownKeeps ==
    ASSUME TableInv(s), Up(s), Shutdown
    PROVE  TableInv(s') /\ s'.lost = s.lost
<1> DEFINE listen == CHOOSE f : f = [l \in 0 .. ListenN |->
                                       IF l = 0 THEN s ELSE CloseListener(f[l - 1], l)]
           t == listen[ListenN]
           idle == CHOOSE f : f = [c \in 0 .. ConnectionN |->
                         IF c = 0 THEN t
                         ELSE IF f[c - 1].conn[c].fd # NoFd /\ f[c - 1].conn[c].idle
                         THEN AskToClose(f[c - 1], c)
                         ELSE f[c - 1]]
           u == idle[ConnectionN]
<1>1. /\ TableInv(t) /\ t.lost = s.lost
      /\ \A l \in Listeners : t.conn[l].fd = NoFd
  BY Zenon, ListenersClosed
<1>2. s' = [u EXCEPT !.posted = <<>>,
                     !.conn = [c \in Conns |-> [@[c] EXCEPT !.posted = FALSE]]]
  BY Zenon DEF Shutdown
<1> HIDE DEF t
<1>3. TableInv(u) /\ u.lost = t.lost
  BY Zenon, <1>1, IdleClosed
<1> HIDE DEF u
<1> QED
  BY <1>1, <1>2, <1>3, PostedDrained

-----------------------------------------------------------------------------
(* The kernel and the clients                                              *)

\* The table night_event_core_process_init leaves.
LEMMA InitTable ==
    ASSUME NEW t, t = InitCycle
    PROVE  TableInv(t) /\ TimersOK(t) /\ Up(t)
<1> DEFINE n == ConnectionN - ListenN
           q == [i \in 1 .. n |-> ListenN + i]
<1>1. /\ ConnectionN \in Nat /\ FilesN \in Nat /\ ListenN \in Nat /\ ListenN >= 1
      /\ ListenN <= ConnectionN /\ ListenN <= FilesN /\ MaxBytes \in Nat /\ BufSize \in Nat
  BY TableAssumption, WorkerAssumption
<1>0. n \in Nat
  BY <1>1
<1>1a. /\ t.free = q /\ t.free_n = n /\ t.reuse = <<>> /\ t.reusable_n = 0
      /\ t.timers = {} /\ t.posted = <<>> /\ t.lost = FALSE
  BY DEF InitCycle
<1>2. /\ t.files = [fd \in Fds |-> IF fd + 1 \in Listeners THEN fd + 1 ELSE NoConn]
      /\ t.sock = [fd \in Fds |->
                     IF fd + 1 \in Listeners
                     THEN [ClosedSocket EXCEPT !.kind = "listen", !.reg = fd + 1]
                     ELSE ClosedSocket]
      /\ t.conn = [c \in Conns |->
                     IF c \in Listeners
                     THEN [Fresh(c - 1, FALSE) EXCEPT !.handler = "accept", !.active = TRUE]
                     ELSE Fresh(NoFd, TRUE)]
  BY DEF InitCycle
<1>3. ASSUME NEW c \in Conns
      PROVE  /\ t.conn[c] \in Connection
             /\ t.conn[c].fd = IF c \in Listeners THEN c - 1 ELSE NoFd
             /\ t.conn[c].handler = "accept" <=> c \in Listeners
             /\ t.conn[c].got = 0 /\ ~t.conn[c].reusable /\ ~t.conn[c].posted
             /\ c \in Listeners => t.conn[c].instance = FALSE
  <2>1. CASE c \in Listeners
    <3>1. t.conn[c] = [Fresh(c - 1, FALSE) EXCEPT !.handler = "accept", !.active = TRUE]
      BY <1>2, <2>1
    <3>2. c - 1 \in Fds
      BY <1>1, <2>1 DEF Listeners, Fds
    <3>3. Fresh(c - 1, FALSE) \in Connection
      BY <1>1, <3>2 DEF Fresh, Connection, Handlers
    <3>4. /\ Fresh(c - 1, FALSE).fd = c - 1 /\ Fresh(c - 1, FALSE).got = 0
          /\ ~Fresh(c - 1, FALSE).reusable /\ ~Fresh(c - 1, FALSE).posted
          /\ Fresh(c - 1, FALSE).instance = FALSE
      BY DEF Fresh
    <3> QED
      BY <2>1, <3>1, <3>3, <3>4 DEF Connection, Handlers
  <2>2. CASE c \notin Listeners
    <3>1. t.conn[c] = Fresh(NoFd, TRUE)
      BY <1>2, <2>2
    <3> QED
      BY <1>1, <2>2, <3>1 DEF Fresh, Connection, Handlers
  <2> QED
    BY <2>1, <2>2
<1>4. ASSUME NEW fd \in Fds
      PROVE  /\ t.sock[fd] \in Socket
             /\ t.sock[fd].kind = IF fd + 1 \in Listeners THEN "listen" ELSE "closed"
             /\ t.sock[fd].reg = IF fd + 1 \in Listeners THEN fd + 1 ELSE NoConn
             /\ t.sock[fd].inst = FALSE
             /\ t.files[fd] = IF fd + 1 \in Listeners THEN fd + 1 ELSE NoConn
  <2>1. /\ ClosedSocket \in Socket /\ ClosedSocket.kind = "closed" /\ ClosedSocket.reg = NoConn
        /\ ClosedSocket.inst = FALSE
    BY DEF ClosedSocket, Socket
  <2>2. fd + 1 \in Listeners => fd + 1 \in Conns
    BY <1>1 DEF Listeners, Conns
  <2>3. CASE fd + 1 \in Listeners
    <3>1. /\ t.sock[fd] = [ClosedSocket EXCEPT !.kind = "listen", !.reg = fd + 1]
          /\ t.files[fd] = fd + 1
      BY <1>2, <2>3
    <3> QED
      BY <2>1, <2>2, <2>3, <3>1 DEF Socket
  <2>4. CASE fd + 1 \notin Listeners
    <3>1. t.sock[fd] = ClosedSocket /\ t.files[fd] = NoConn
      BY <1>2, <2>4
    <3> QED
      BY <2>1, <2>4, <3>1
  <2> QED
    BY <2>3, <2>4
<1>5. q \in Seq(Conns) /\ Len(q) = n /\ \A i \in 1 .. n : q[i] = ListenN + i
  <2>1. \A i \in 1 .. n : ListenN + i \in Conns
    BY <1>1 DEF Conns
  <2> QED
    BY <1>0, <2>1
<1> HIDE DEF q, n
<1>6. t \in Cycle
  <2>1. t.conn \in [Conns -> Connection]
    BY <1>2, <1>3
  <2>2. t.sock \in [Fds -> Socket]
    BY <1>2, <1>4
  <2>3. t.files \in [Fds -> Conns \cup {NoConn}]
    <3>1. \A fd \in Fds : fd + 1 \in Listeners => fd + 1 \in Conns
      BY <1>1 DEF Listeners, Conns
    <3> QED
      BY <1>2, <3>1
  <2>4. t.free \in Seq(Conns) /\ <<>> \in Seq(Conns) /\ t.timers \in SUBSET Conns
    <3>1. t.free = q /\ t.timers = {}
      BY <1>1a
    <3> QED
      BY <1>5, <3>1
  <2>5. t = [conn |-> t.conn, free |-> t.free, free_n |-> t.free_n, files |-> t.files,
             reuse |-> t.reuse, reusable_n |-> t.reusable_n, timers |-> t.timers,
             posted |-> t.posted, lost |-> t.lost, sock |-> t.sock]
    BY DEF InitCycle
  <2> QED
    <3>1. t.free_n \in Nat /\ t.reuse = <<>> /\ t.reusable_n = 0 /\ t.posted = <<>>
      BY Zenon, <1>0, <1>1a
    <3>2. t.lost \in BOOLEAN
      BY Zenon, <1>1a
    <3>3. t.reuse \in Seq(Conns) /\ t.posted \in Seq(Conns) /\ t.reusable_n \in Nat
      BY <2>4, <3>1
    <3>4. t.free_n \in Nat /\ t.free \in Seq(Conns) /\ t.timers \in SUBSET Conns
      BY Zenon, <2>4, <3>1
    <3> QED
      BY Zenon, <2>1, <2>2, <2>3, <2>5, <3>2, <3>3, <3>4 DEF Cycle
<1>7. InUse(t) = Listeners
  <2>1. \A c \in Conns : t.conn[c].fd = (IF c \in Listeners THEN c - 1 ELSE NoFd)
    BY <1>3
  <2>2. \A c \in Listeners : c \in Conns /\ c - 1 # NoFd
    BY <1>1 DEF Listeners, Conns, NoFd
  <2> QED
    BY <2>1, <2>2 DEF InUse
<1>8. PoolOK(t)
  <2>1. NoRepeats(t.free)
    <3>1. t.free = q
      BY <1>1a
    <3> QED
      BY <1>0, <1>1, <1>5, <3>1 DEF NoRepeats
  <2>2. Members(t.free) = Conns \ InUse(t)
    <3>1. \A x \in Members(q) : x \in Conns \ Listeners
      BY <1>1, <1>5 DEF Members, Conns, Listeners
    <3>2. ASSUME NEW x \in Conns \ Listeners PROVE x \in Members(q)
      <4>1. x - ListenN \in 1 .. n /\ q[x - ListenN] = x
        BY <1>1, <1>5 DEF Conns, Listeners, n
      <4> QED
        BY <1>5, <4>1 DEF Members
    <3> QED
      BY <1>1a, <1>7, <3>1, <3>2
  <2>3. \A c, d \in InUse(t) : t.conn[c].fd = t.conn[d].fd => c = d
    <3>1. \A c \in Listeners : c \in Conns /\ c \in Int
      BY <1>1 DEF Listeners, Conns
    <3>2. \A c \in Listeners : t.conn[c].fd = c - 1
      BY <1>3, <3>1
    <3> QED
      BY <1>7, <3>1, <3>2
  <2> QED
    BY <1>1a, <1>5, <2>1, <2>2, <2>3 DEF PoolOK
<1>9. FilesOK(t)
  <2>1. \A c \in Listeners : c \in Conns /\ c - 1 \in Fds /\ (c - 1) + 1 = c
    BY <1>1 DEF Listeners, Conns, Fds
  <2>2. \A c \in InUse(t) : t.files[t.conn[c].fd] = c /\ t.sock[t.conn[c].fd].kind # "closed"
    BY <1>3, <1>4, <1>7, <2>1
  <2>3. \A fd \in Fds : t.files[fd] # NoConn => t.conn[t.files[fd]].fd = fd
    <3> TAKE fd \in Fds
    <3>1. fd + 1 \in Listeners => fd + 1 \in Conns /\ (fd + 1) - 1 = fd
      BY <1>1 DEF Listeners, Conns, Fds
    <3> QED
      BY <1>3, <1>4, <3>1
  <2> QED
    BY <2>2, <2>3 DEF FilesOK
<1>10. ReusableOK(t)
  <2>1. t.reuse = <<>> /\ t.reusable_n = 0
    BY <1>1a
  <2>2. NoRepeats(t.reuse) /\ Members(t.reuse) = {} /\ Len(t.reuse) = 0
    BY <2>1 DEF NoRepeats, Members
  <2> QED
    BY <1>3, <2>1, <2>2 DEF ReusableOK
<1>11. PostedOK(t)
  <2>1. Listeners \subseteq Conns
    BY <1>1 DEF Listeners, Conns
  <2> QED
    <3>1. t.posted = <<>>
      BY <1>1a
    <3>2. NoRepeats(t.posted) /\ Members(t.posted) = {}
      BY <3>1 DEF NoRepeats, Members
    <3> QED
      BY <1>3, <2>1, <3>2 DEF PostedOK, InUse
<1>12. KindsOK(t)
  <2>1. \A c \in Listeners : c \in Conns /\ c - 1 \in Fds /\ (c - 1) + 1 = c
    BY <1>1 DEF Listeners, Conns, Fds
  <2>2. \A c \in InUse(t) :
          t.sock[t.conn[c].fd].kind = IF c \in Listeners THEN "listen" ELSE "stream"
    BY <1>3, <1>4, <1>7, <2>1
  <2>3. \A fd \in Fds : t.sock[fd].kind # "stream"
    BY <1>4
  <2>4. \A c \in Conns : t.conn[c].got <= BufSize
    <3>1. BufSize \in Nat /\ \A c \in Conns : t.conn[c].got = 0
      BY <1>1, <1>3
    <3> QED
      BY <3>1
  <2> QED
    BY <1>3, <2>2, <2>3, <2>4 DEF KindsOK
<1>13. EpollOK(t)
  <2> SUFFICES ASSUME NEW fd \in Fds, t.sock[fd].reg # NoConn
               PROVE  /\ t.conn[t.sock[fd].reg].fd = fd
                      /\ t.conn[t.sock[fd].reg].instance = t.sock[fd].inst
    BY DEF EpollOK
  <2>1. fd + 1 \in Listeners /\ t.sock[fd].reg = fd + 1
    BY <1>4
  <2>2. fd + 1 \in Conns /\ (fd + 1) - 1 = fd
    BY <1>1, <2>1 DEF Listeners, Conns, Fds
  <2> QED
    BY <1>3, <1>4, <2>1, <2>2
<1>14. TimersOK(t)
  <2>1. \A c \in Conns : ~t.conn[c].timer_set
    <3> TAKE c \in Conns
    <3>1. CASE c \in Listeners
      <4>1. t.conn[c] = [Fresh(c - 1, FALSE) EXCEPT !.handler = "accept", !.active = TRUE]
        BY <1>2, <3>1
      <4> QED
        BY <4>1 DEF Fresh
    <3>2. CASE c \notin Listeners
      <4>1. t.conn[c] = Fresh(NoFd, TRUE)
        BY <1>2, <3>2
      <4> QED
        BY <4>1 DEF Fresh
    <3> QED
      BY <3>1, <3>2
  <2> QED
    BY <1>1a, <2>1 DEF TimersOK, InUse
<1>15. Up(t)
  BY <1>7 DEF Up, InUse
<1> QED
  BY <1>6, <1>8, <1>9, <1>10, <1>11, <1>12, <1>13, <1>14, <1>15 DEF TableInv

\* epoll_wait reports every edge once.
LEMMA EdgesTaken ==
    ASSUME NEW t, TableInv(t)
    PROVE  LET u == [t EXCEPT !.sock = [fd \in Fds |-> [@[fd] EXCEPT !.edge = FALSE]]] IN
           /\ TableInv(u) /\ (TimersOK(t) => TimersOK(u))
           /\ u.conn = t.conn /\ u.lost = t.lost
           /\ \A fd \in Fds : /\ u.sock[fd].reg = t.sock[fd].reg
                              /\ u.sock[fd].rcv = t.sock[fd].rcv
                              /\ u.sock[fd].eof = t.sock[fd].eof
<1> DEFINE u == [t EXCEPT !.sock = [fd \in Fds |-> [@[fd] EXCEPT !.edge = FALSE]]]
<1>1. t \in Cycle
  BY DEF TableInv
<1>2. /\ u.conn = t.conn /\ u.free = t.free /\ u.free_n = t.free_n /\ u.files = t.files
      /\ u.reuse = t.reuse /\ u.reusable_n = t.reusable_n /\ u.timers = t.timers
      /\ u.posted = t.posted /\ u.lost = t.lost
      /\ u.sock = [fd \in Fds |-> [t.sock[fd] EXCEPT !.edge = FALSE]]
  BY <1>1 DEF Cycle
<1>3. ASSUME NEW fd \in Fds
      PROVE  /\ u.sock[fd] \in Socket /\ u.sock[fd].kind = t.sock[fd].kind
             /\ u.sock[fd].reg = t.sock[fd].reg /\ u.sock[fd].inst = t.sock[fd].inst
             /\ u.sock[fd].rcv = t.sock[fd].rcv /\ u.sock[fd].sent = t.sock[fd].sent
             /\ u.sock[fd].eof = t.sock[fd].eof
  <2>1. t.sock[fd] \in Socket /\ u.sock[fd] = [t.sock[fd] EXCEPT !.edge = FALSE]
    BY <1>1, <1>2 DEF Cycle
  <2> HIDE DEF u
  <2> QED
    BY <2>1 DEF Socket
<1>4. u \in Cycle
  <2>1. u.sock \in [Fds -> Socket]
    BY <1>2, <1>3
  <2>2. u = [t EXCEPT !.sock = u.sock]
    BY <1>1, <1>2 DEF Cycle
  <2> HIDE DEF u
  <2> QED
    BY <1>1, <2>1, <2>2 DEF Cycle
<1> HIDE DEF u
<1>5. InUse(u) = InUse(t) /\ \A c \in InUse(t) : t.conn[c].fd \in Fds
  BY <1>2, Held DEF InUse
<1>6. PoolOK(u) /\ ReusableOK(u) /\ PostedOK(u)
  BY <1>2, <1>5 DEF TableInv, PoolOK, ReusableOK, PostedOK
<1>7. FilesOK(u)
  BY <1>2, <1>3, <1>5 DEF TableInv, FilesOK
<1>8. KindsOK(u)
  BY <1>2, <1>3, <1>5 DEF TableInv, KindsOK
<1>9. EpollOK(u)
  BY <1>2, <1>3 DEF TableInv, EpollOK
<1>10. TimersOK(t) => TimersOK(u)
  BY <1>2, <1>5 DEF TimersOK
<1> QED
  BY <1>2, <1>3, <1>4, <1>6, <1>7, <1>8, <1>9, <1>10 DEF TableInv, u

\* A descriptor as a client's step leaves it.
Moved(x, k) ==
    /\ k \in Socket
    /\ k.kind = x.kind /\ k.reg = x.reg /\ k.inst = x.inst
    /\ k.kind = "stream" => k.rcv <= k.sent /\ k.sent <= MaxBytes
    /\ k.kind # "listen" => (k.reg # NoConn => k.edge)

\* A client's step touches one descriptor and no connection.
LEMMA MovedKeeps ==
    ASSUME NEW t, TableInv(t), NEW fd \in Fds, NEW k, Moved(t.sock[fd], k)
    PROVE  LET u == [t EXCEPT !.sock[fd] = k] IN
           /\ TableInv(u) /\ (TimersOK(t) => TimersOK(u))
           /\ u.conn = t.conn /\ u.lost = t.lost
           /\ u.sock[fd] = k /\ \A f \in Fds : f # fd => u.sock[f] = t.sock[f]
<1>1. t \in Cycle
  BY DEF TableInv
<1>2. k.reg # NoConn => t.conn[k.reg].fd = fd /\ t.conn[k.reg].instance = k.inst
  BY DEF TableInv, EpollOK, Moved
<1> DEFINE u == [t EXCEPT !.sock[fd] = k]
<1>3. TableInv(u) /\ (TimersOK(t) => TimersOK(u))
  BY <1>2, UpdateSocket DEF Moved
<1>4. /\ u.conn = t.conn /\ u.lost = t.lost
      /\ u.sock[fd] = k /\ \A f \in Fds : f # fd => u.sock[f] = t.sock[f]
  BY <1>1 DEF Cycle
<1> QED
  BY <1>3, <1>4

Client(fd) == \/ ClientConnect(fd) \/ ClientSend(fd) \/ ClientClose(fd)
              \/ OtherWorkerAccepts(fd)

\* Every step of a client is such an update.
LEMMA ClientMoves ==
    ASSUME TableInv(s), NEW fd \in Fds, Client(fd)
    PROVE  /\ \E k : Moved(s.sock[fd], k) /\ s' = [s EXCEPT !.sock[fd] = k]
           /\ Alive /\ UNCHANGED <<pc, batch, night_quit, night_terminate>>
<1> DEFINE x == s.sock[fd]
<1>1. s \in Cycle /\ x \in Socket
  BY DEF TableInv, Cycle
<1>2. MaxBytes \in Nat
  BY TableAssumption
<1>3. x.kind = "stream" => x.rcv <= x.sent /\ x.sent <= MaxBytes
  BY DEF TableInv, KindsOK
<1>4. Alive /\ UNCHANGED <<pc, batch, night_quit, night_terminate>>
  BY DEF Client, ClientConnect, ClientSend, ClientClose, OtherWorkerAccepts
<1>5. CASE ClientConnect(fd)
  <2> DEFINE y == [x EXCEPT !.rcv = @ + 1]
             k == Arrives(y)
  <2>1. s' = [s EXCEPT !.sock[fd] = k] /\ x.kind = "listen"
    BY Zenon, <1>5 DEF ClientConnect
  <2>2. y \in Socket /\ y.kind = x.kind /\ y.reg = x.reg /\ y.inst = x.inst
    BY <1>1 DEF Socket
  <2> HIDE DEF y
  <2>3. Moved(x, k)
    BY <2>1, <2>2 DEF Moved, Arrives, Socket
  <2> QED
    BY <1>4, <2>1, <2>3
<1>6. CASE ClientSend(fd)
  <2> DEFINE y == [x EXCEPT !.rcv = @ + 1, !.sent = @ + 1]
             k == Arrives(y)
  <2>1. s' = [s EXCEPT !.sock[fd] = k] /\ x.kind = "stream" /\ x.sent < MaxBytes
    BY Zenon, <1>6 DEF ClientSend
  <2>2. /\ y \in Socket /\ y.kind = x.kind /\ y.reg = x.reg /\ y.inst = x.inst
        /\ y.rcv = x.rcv + 1 /\ y.sent = x.sent + 1
    <3>1. x.rcv + 1 \in Nat /\ x.sent + 1 \in Nat /\ x \in Socket
      BY <1>1 DEF Socket
    <3> HIDE DEF x
    <3> QED
      BY <3>1 DEF Socket
  <2>3. y.rcv <= y.sent /\ y.sent <= MaxBytes
    <3>1. x.rcv \in Nat /\ x.sent \in Nat
      BY <1>1 DEF Socket
    <3> HIDE DEF x, y
    <3> QED
      BY <1>2, <1>3, <2>1, <2>2, <3>1
  <2> HIDE DEF y
  <2>4. Moved(x, k)
    BY <2>1, <2>2, <2>3 DEF Moved, Arrives, Socket
  <2> QED
    BY <1>4, <2>1, <2>4
<1>7. CASE ClientClose(fd)
  <2> DEFINE k == Arrives([x EXCEPT !.eof = TRUE])
  <2>1. s' = [s EXCEPT !.sock[fd] = k] /\ x.kind = "stream"
    BY <1>1, <1>7 DEF ClientClose, Cycle
  <2>2. Moved(x, k)
    BY <1>1, <1>3, <2>1 DEF Moved, Arrives, Socket
  <2> QED
    BY <1>4, <2>1, <2>2
<1>8. CASE OtherWorkerAccepts(fd)
  <2> DEFINE k == [x EXCEPT !.rcv = @ - 1]
  <2>1. s' = [s EXCEPT !.sock[fd] = k] /\ x.kind = "listen" /\ x.rcv > 0
    BY <1>1, <1>8 DEF OtherWorkerAccepts, Cycle
  <2>2. Moved(x, k)
    BY <1>1, <2>1 DEF Moved, Socket
  <2> QED
    BY <1>4, <2>1, <2>2
<1> QED
  BY <1>5, <1>6, <1>7, <1>8 DEF Client

-----------------------------------------------------------------------------
(* The inductive invariant of the loop                                     *)

\* The table is consistent; while the worker serves, no timer is left behind
\* and its listening sockets are open.
LoopInv ==
    /\ TableInv(s)
    /\ pc \in {"wait", "dispatch"} => TimersOK(s) /\ Up(s)
    /\ s.lost = (pc = "lost")
    /\ pc \in {"wait", "dispatch", "exiting", "exited", "lost"}
    /\ pc \in {"wait", "exiting", "exited"} => batch = {}
    /\ batch \subseteq Event
    /\ night_quit \in BOOLEAN
    /\ night_terminate \in BOOLEAN
    /\ clients \in 0 .. MaxClients

\* The events that are left of a batch when a handler has returned.
LEMMA RemainingEvents ==
    ASSUME batch \subseteq Event, NEW e, NEW t
    PROVE  /\ Remaining(e, t) \subseteq Event
           /\ \A f \in Remaining(e, t) : \E d \in batch \ {e} :
                /\ f = [d EXCEPT !.stale = @ \/ t.conn[d.conn].fd # s.conn[d.conn].fd]
                /\ f.conn = d.conn /\ f.inst = d.inst
                /\ f.stale <=> d.stale \/ t.conn[d.conn].fd # s.conn[d.conn].fd
           /\ \A d \in batch \ {e} : \E f \in Remaining(e, t) :
                f.conn = d.conn /\ f.inst = d.inst
<1> DEFINE g(d) == [d EXCEPT !.stale = @ \/ t.conn[d.conn].fd # s.conn[d.conn].fd]
<1>1. ASSUME NEW d \in Event
      PROVE  /\ g(d) \in Event /\ g(d).conn = d.conn /\ g(d).inst = d.inst
             /\ g(d).stale <=> d.stale \/ t.conn[d.conn].fd # s.conn[d.conn].fd
  BY DEF Event
<1>2. Remaining(e, t) = {g(d) : d \in batch \ {e}}
  BY DEF Remaining
<1>3. \A f \in Remaining(e, t) : \E d \in batch \ {e} : f = g(d)
  BY <1>2
<1>4. \A d \in batch \ {e} : g(d) \in Remaining(e, t) /\ d \in Event
  BY <1>2
<1> HIDE DEF g
<1>5. Remaining(e, t) \subseteq Event
  BY <1>1, <1>3, <1>4
<1>6. \A f \in Remaining(e, t) : \E d \in batch \ {e} :
        /\ f = g(d)
        /\ f.conn = d.conn /\ f.inst = d.inst
        /\ f.stale <=> d.stale \/ t.conn[d.conn].fd # s.conn[d.conn].fd
  BY <1>1, <1>3, <1>4
<1>7. \A d \in batch \ {e} : \E f \in Remaining(e, t) : f.conn = d.conn /\ f.inst = d.inst
  BY <1>1, <1>4
<1> QED
  BY <1>5, <1>6, <1>7 DEF g

\* What a delivered event does to the table.
LEMMA DispatchAcceptSteps ==
    ASSUME LoopInv, NEW e \in batch, DispatchAccept(e)
    PROVE  Accepting(s, s') /\ e.conn \in Listeners
<1>1. TableInv(s) /\ TimersOK(s) /\ Up(s) /\ e \in Event
  BY DEF LoopInv, DispatchAccept
<1>2. e.conn \in Listeners
  BY <1>1 DEF DispatchAccept, TableInv, KindsOK, Event
<1>3. s' \in Accept(s, e.conn)
  BY DEF DispatchAccept
<1> QED
  BY <1>1, <1>2, <1>3, AcceptSteps

\* The same for an event of a client's connection.
LEMMA DispatchReadSteps ==
    ASSUME LoopInv, NEW e \in batch, DispatchRead(e)
    PROVE  /\ Serving(s, e.conn) /\ Step(s, s', e.conn)
           /\ /\ BufSize > MaxBytes
              /\ s.conn[e.conn].handler = "wait" => s.sock[s.conn[e.conn].fd].reg = e.conn
              => Settled(s', e.conn)
<1>1. TableInv(s) /\ e \in Event /\ e.conn \in Conns
  BY DEF LoopInv, Event
<1>2. e.conn \in InUse(s) \ Listeners
  BY <1>1 DEF DispatchRead, Delivered, TableInv, KindsOK, InUse
<1>3. s' \in Handle([s EXCEPT !.conn[e.conn].ready = TRUE], e.conn)
  BY DEF DispatchRead
<1>4. Serving(s, e.conn)
  BY <1>1, <1>2 DEF Serving
<1> QED
  BY <1>3, <1>4, HandleSteps

\* The listening sockets stay open while a client's connection is served.
LEMMA StepUp ==
    ASSUME NEW t, NEW u, NEW c, Serving(t, c), Up(t), Step(t, u, c)
    PROVE  Up(u)
<1>1. \A l \in Listeners : l \in Conns /\ l # c
  BY TableAssumption DEF Serving, Listeners, Conns
<1> QED
  BY <1>1 DEF Step, Within, Up

\* LoopInv holds at the start.
LEMMA LoopInit == Init => LoopInv
<1> SUFFICES ASSUME Init PROVE LoopInv
  OBVIOUS
<1>1. s = InitCycle
  BY DEF Init
<1>2. TableInv(s) /\ TimersOK(s) /\ Up(s)
  BY <1>1, InitTable
<1>3. s.lost = FALSE
  BY <1>1 DEF InitCycle
<1>4. pc = "wait" /\ batch = {} /\ night_quit = FALSE /\ night_terminate = FALSE /\ clients = 0
  BY DEF Init
<1>5. s.lost = (pc = "lost") /\ night_quit \in BOOLEAN /\ night_terminate \in BOOLEAN
  <2>1. pc # "lost"
    BY <1>4
  <2> QED
    BY Zenon, <1>3, <1>4, <2>1
<1>6. clients \in 0 .. MaxClients /\ batch \subseteq Event
  BY <1>4, WorkerAssumption
<1> QED
  BY <1>2, <1>4, <1>5, <1>6 DEF LoopInv

\* Every step of the loop, the channel and the clients preserves LoopInv.
LEMMA LoopStep == LoopInv /\ [Next]_vars => LoopInv'
<1> SUFFICES ASSUME LoopInv, [Next]_vars PROVE LoopInv'
  OBVIOUS
<1>1. /\ TableInv(s) /\ s.lost = (pc = "lost")
      /\ pc \in {"wait", "dispatch", "exiting", "exited", "lost"}
      /\ batch \subseteq Event
      /\ night_quit \in BOOLEAN /\ night_terminate \in BOOLEAN
      /\ clients \in 0 .. MaxClients
  BY DEF LoopInv
<1>2. CASE Wait
  <2>1. /\ TableInv(s') /\ (TimersOK(s) => TimersOK(s'))
        /\ s'.conn = s.conn /\ s'.lost = s.lost
    BY <1>1, <1>2, EdgesTaken DEF Wait
  <2>2. batch' \subseteq Event
    <3> DEFINE ready == {fd \in Fds : s.sock[fd].reg # NoConn /\ s.sock[fd].edge}
    <3>1. batch' = {[conn |-> s.sock[fd].reg, inst |-> s.sock[fd].inst,
                     stale |-> FALSE] : fd \in ready}
      BY <1>2 DEF Wait
    <3>2. \A fd \in ready : s.sock[fd].reg \in Conns /\ s.sock[fd].inst \in BOOLEAN
      BY <1>1 DEF TableInv, Cycle, Socket
    <3> HIDE DEF ready
    <3>3. \A fd \in ready : [conn |-> s.sock[fd].reg, inst |-> s.sock[fd].inst,
                             stale |-> FALSE] \in Event
      BY <3>2 DEF Event
    <3> QED
      BY <3>1, <3>3
  <2>3. pc = "wait" /\ pc' = "dispatch" /\ UNCHANGED <<night_quit, night_terminate, clients>>
    BY <1>2 DEF Wait
  <2>4. TimersOK(s) /\ Up(s)
    BY <2>3 DEF LoopInv
  <2> QED
    BY <1>1, <2>1, <2>2, <2>3, <2>4 DEF LoopInv, Up
<1>3. ASSUME NEW e \in batch, DispatchAccept(e) PROVE LoopInv'
  <2>1. /\ pc = "dispatch" /\ pc' = AfterHandler(s') /\ batch' = Remaining(e, s')
        /\ UNCHANGED <<night_quit, night_terminate, clients>>
    BY <1>3 DEF DispatchAccept
  <2>2. Accepting(s, s')
    BY <1>3, DispatchAcceptSteps
  <2>3. TableInv(s') /\ TimersOK(s') /\ Up(s')
    BY <2>1, <2>2 DEF Accepting, LoopInv, Up
  <2>4. s'.lost \in BOOLEAN
    BY <2>3 DEF TableInv, Cycle
  <2>5. batch' \subseteq Event
    BY <1>1, <2>1, RemainingEvents
  <2> QED
    BY <1>1, <2>1, <2>3, <2>4, <2>5 DEF LoopInv, AfterHandler
<1>4. ASSUME NEW e \in batch, DispatchRead(e) PROVE LoopInv'
  <2>1. /\ pc = "dispatch" /\ pc' = AfterHandler(s') /\ batch' = Remaining(e, s')
        /\ UNCHANGED <<night_quit, night_terminate, clients>>
    BY <1>4 DEF DispatchRead
  <2>2. Serving(s, e.conn) /\ Step(s, s', e.conn)
    BY <1>4, DispatchReadSteps
  <2>3. TimersOK(s) /\ Up(s)
    BY <2>1 DEF LoopInv
  <2>4. TableInv(s') /\ TimersOK(s') /\ Up(s')
    BY <2>2, <2>3, StepUp DEF Step
  <2>5. s'.lost \in BOOLEAN
    BY <2>4 DEF TableInv, Cycle
  <2>6. batch' \subseteq Event
    BY <1>1, <2>1, RemainingEvents
  <2> QED
    BY <1>1, <2>1, <2>4, <2>5, <2>6 DEF LoopInv, AfterHandler
<1>5. ASSUME NEW e \in batch, Skip(e) PROVE LoopInv'
  BY <1>1, <1>5 DEF LoopInv, Skip
<1>6. CASE EndPass \/ Terminate \/ Exit
  BY <1>1, <1>6 DEF LoopInv, EndPass, Terminate, Exit
<1>7. CASE Shutdown
  <2>1. /\ pc = "dispatch" /\ pc' = "exiting" /\ batch = {} /\ night_quit' = FALSE
        /\ UNCHANGED <<batch, night_terminate, clients>>
    BY <1>7 DEF Shutdown
  <2>2. TableInv(s') /\ s'.lost = s.lost
    BY <1>1, <1>7, <2>1, ShutdownKeeps DEF LoopInv
  <2> QED
    BY <1>1, <2>1, <2>2 DEF LoopInv
<1>8. ASSUME NEW cmd \in Commands, ChannelCommand(cmd) PROVE LoopInv'
  BY <1>1, <1>8 DEF LoopInv, ChannelCommand
<1>9. ASSUME NEW fd \in Fds, Client(fd) PROVE LoopInv'
  <2>1. PICK k : Moved(s.sock[fd], k) /\ s' = [s EXCEPT !.sock[fd] = k]
    BY <1>1, <1>9, ClientMoves
  <2>2. Alive /\ UNCHANGED <<pc, batch, night_quit, night_terminate>>
    BY <1>1, <1>9, ClientMoves
  <2>3. /\ TableInv(s') /\ (TimersOK(s) => TimersOK(s'))
        /\ s'.conn = s.conn /\ s'.lost = s.lost
    BY <1>1, <2>1, MovedKeeps
  <2>4. clients' \in 0 .. MaxClients
    BY <1>1, <1>9, WorkerAssumption
       DEF Client, ClientConnect, ClientSend, ClientClose, OtherWorkerAccepts
  <2> QED
    BY <1>1, <2>2, <2>3, <2>4 DEF LoopInv, Up
<1>10. CASE UNCHANGED vars
  BY <1>1, <1>10 DEF LoopInv, vars
<1> QED
  BY <1>2, <1>3, <1>4, <1>5, <1>6, <1>7, <1>8, <1>9, <1>10 DEF Next, Loop, Client

-----------------------------------------------------------------------------
(* The table's theorems                                                    *)

\* LoopInv is an invariant of the worker.
THEOREM LoopInvariant == Spec => []LoopInv
<1>1. Init => LoopInv
  BY LoopInit
<1>2. LoopInv /\ [Next]_vars => LoopInv'
  BY LoopStep
<1> QED
  BY <1>1, <1>2, PTL DEF Spec

\* Every value the worker's table, its descriptors and its loop ever hold is
\* of its type; the two counters stay within worker_connections.
THEOREM WorkerTypes == Spec => []WorkerTypeOK
<1>1. LoopInv => WorkerTypeOK
  <2> SUFFICES ASSUME LoopInv PROVE WorkerTypeOK
    OBVIOUS
  <2>1. s \in Cycle /\ PoolOK(s) /\ ReusableOK(s)
    BY DEF LoopInv, TableInv
  <2>2. /\ s.conn \in [Conns -> Connection] /\ s.free \in Seq(Conns)
        /\ s.files \in [Fds -> Conns \cup {NoConn}] /\ s.reuse \in Seq(Conns)
        /\ s.timers \subseteq Conns /\ s.posted \in Seq(Conns)
        /\ s.sock \in [Fds -> Socket] /\ s.free_n \in Nat /\ s.reusable_n \in Nat
    BY <2>1 DEF Cycle
  <2>3. Len(s.free) <= ConnectionN /\ Len(s.reuse) <= ConnectionN
    BY <2>1, <2>2, QueueBound DEF PoolOK, ReusableOK
  <2>4. s.free_n = Len(s.free) /\ s.reusable_n = Len(s.reuse)
    BY <2>1 DEF PoolOK, ReusableOK
  <2>5. s.free_n \in 0 .. ConnectionN /\ s.reusable_n \in 0 .. ConnectionN
    BY <2>2, <2>3, <2>4, TableAssumption
  <2> QED
    BY <2>2, <2>5 DEF LoopInv, WorkerTypeOK
<1> QED
  BY <1>1, LoopInvariant, PTL

\* No sequence of accepts, drains, closes, failures and the shutdown leaks a
\* slot of the connection table or frees one twice.
THEOREM PoolIsConserved == Spec => []PoolConserved
<1>1. LoopInv => PoolConserved
  BY DEF LoopInv, TableInv, PoolConserved
<1> QED
  BY <1>1, LoopInvariant, PTL

\* files[] always finds exactly the connections in use.
THEOREM FilesAreConsistent == Spec => []FilesConsistent
<1>1. LoopInv => FilesConsistent
  BY DEF LoopInv, TableInv, FilesConsistent
<1> QED
  BY <1>1, LoopInvariant, PTL

\* The queue night_drain_connections closes from holds the connections that
\* are marked reusable, and none with a request.
THEOREM ReusableIsConsistent == Spec => []ReusableConsistent
<1>1. LoopInv => ReusableConsistent
  BY DEF LoopInv, TableInv, ReusableConsistent
<1> QED
  BY <1>1, LoopInvariant, PTL

\* While the worker serves, no timer, posted event or epoll registration
\* points at a connection that was closed.
THEOREM NothingEverDangles == Spec => []NothingDangles
<1>1. LoopInv => NothingDangles
  BY DEF LoopInv, TableInv, NothingDangles, NoDangling, TimersOK, PostedOK, EpollOK
<1> QED
  BY <1>1, LoopInvariant, PTL

-----------------------------------------------------------------------------
(* Stale events                                                            *)

\* An event of a listening socket is still to be handled: a connection may
\* yet be taken.
AcceptPending == \E e \in batch : e.conn \in Listeners

\* Every connection has at most one event. One whose connection was closed
\* finds it closed or, once a connection may have been taken for it again,
\* with the other instance; the others find theirs open and unchanged.
BatchInv ==
    /\ \A e, f \in batch : e.conn = f.conn => e = f
    /\ \A e \in batch :
         LET r == s.conn[e.conn] IN
         /\ ~e.stale => r.fd # NoFd /\ r.instance = e.inst
         /\ e.stale => r.fd = NoFd \/ r.instance # e.inst
         /\ e.stale /\ AcceptPending => r.fd = NoFd /\ r.instance = e.inst
         /\ e.conn \in Listeners => ~e.stale

\* With one listening socket a batch takes at most one connection.
LEMMA BatchStep ==
    ASSUME ListenN = 1
    PROVE  LoopInv /\ BatchInv /\ [Next]_vars => BatchInv'
<1> SUFFICES ASSUME LoopInv, BatchInv, [Next]_vars PROVE BatchInv'
  OBVIOUS
<1>1. TableInv(s) /\ batch \subseteq Event /\ \A e \in batch : e.conn \in Conns
  BY DEF LoopInv, Event
<1>2. Listeners = {1}
  BY DEF Listeners
<1>3. CASE Wait
  <2> DEFINE ready == {fd \in Fds : s.sock[fd].reg # NoConn /\ s.sock[fd].edge}
             ev(fd) == [conn |-> s.sock[fd].reg, inst |-> s.sock[fd].inst, stale |-> FALSE]
  <2>1. batch' = {ev(fd) : fd \in ready}
    BY <1>3 DEF Wait
  <2>2. s'.conn = s.conn
    BY <1>1, <1>3, EdgesTaken DEF Wait
  <2>3. \A fd \in ready : /\ ev(fd).conn = s.sock[fd].reg /\ ev(fd).inst = s.sock[fd].inst
                          /\ ~ev(fd).stale
    OBVIOUS
  <2>4. \A fd \in ready : /\ s.conn[s.sock[fd].reg].fd = fd /\ fd # NoFd
                          /\ s.conn[s.sock[fd].reg].instance = s.sock[fd].inst
    BY <1>1 DEF TableInv, EpollOK, Fds, NoFd
  <2> HIDE DEF ready, ev
  <2>5. \A e \in batch' : \E fd \in ready : e = ev(fd)
    BY <2>1
  <2>6. ASSUME NEW e \in batch', NEW f \in batch', e.conn = f.conn PROVE e = f
    BY <2>3, <2>4, <2>5, <2>6
  <2>7. ASSUME NEW e \in batch'
        PROVE  ~e.stale /\ s'.conn[e.conn].fd # NoFd /\ s'.conn[e.conn].instance = e.inst
    BY <2>2, <2>3, <2>4, <2>5
  <2> QED
    BY <2>6, <2>7 DEF BatchInv
<1>4. ASSUME NEW e \in batch, DispatchAccept(e) PROVE BatchInv'
  <2>1. batch' = Remaining(e, s')
    BY <1>4 DEF DispatchAccept
  <2>2. /\ e.conn \in Listeners
        /\ \A d \in Conns : Fate(s.conn[d], s'.conn[d])
    BY <1>4, DispatchAcceptSteps DEF Accepting
  <2>3. AcceptPending
    BY <2>2 DEF AcceptPending
  <2>4. ASSUME NEW f \in batch'
        PROVE  \E d \in batch \ {e} :
                 /\ f = [d EXCEPT !.stale = @ \/ s'.conn[d.conn].fd # s.conn[d.conn].fd]
                 /\ f.conn = d.conn /\ f.inst = d.inst
                 /\ f.stale <=> d.stale \/ s'.conn[d.conn].fd # s.conn[d.conn].fd
    BY <1>1, <2>1, RemainingEvents
  <2>5. \A f \in batch' : f.conn \notin Listeners
    <3> TAKE f \in batch'
    <3>1. PICK d \in batch \ {e} : f.conn = d.conn
      BY <2>4
    <3> QED
      BY <1>2, <2>2, <3>1 DEF BatchInv
  <2>6. ASSUME NEW f \in batch', NEW g \in batch', f.conn = g.conn PROVE f = g
    <3>1. PICK d \in batch \ {e} :
            /\ f = [d EXCEPT !.stale = @ \/ s'.conn[d.conn].fd # s.conn[d.conn].fd]
            /\ f.conn = d.conn
      BY <2>4
    <3>2. PICK c \in batch \ {e} :
            /\ g = [c EXCEPT !.stale = @ \/ s'.conn[c.conn].fd # s.conn[c.conn].fd]
            /\ g.conn = c.conn
      BY <2>4
    <3>3. c = d
      BY <2>6, <3>1, <3>2 DEF BatchInv
    <3> QED
      BY <3>1, <3>2, <3>3
  <2>7. ASSUME NEW f \in batch'
        PROVE  LET r == s'.conn[f.conn] IN
               /\ ~f.stale => r.fd # NoFd /\ r.instance = f.inst
               /\ f.stale => r.fd = NoFd \/ r.instance # f.inst
    <3>1. PICK d \in batch \ {e} :
            /\ f.conn = d.conn /\ f.inst = d.inst
            /\ f.stale <=> d.stale \/ s'.conn[d.conn].fd # s.conn[d.conn].fd
      BY <2>4
    <3>2. Fate(s.conn[d.conn], s'.conn[d.conn])
      BY <1>1, <2>2
    <3>3. /\ ~d.stale => s.conn[d.conn].fd # NoFd /\ s.conn[d.conn].instance = d.inst
          /\ d.stale => s.conn[d.conn].fd = NoFd /\ s.conn[d.conn].instance = d.inst
      BY <2>3 DEF BatchInv
    <3> QED
      BY <3>1, <3>2, <3>3 DEF Fate
  <2>8. ~AcceptPending'
    BY <2>5 DEF AcceptPending
  <2> QED
    BY <2>5, <2>6, <2>7, <2>8 DEF BatchInv
<1>5. ASSUME NEW e \in batch, DispatchRead(e) PROVE BatchInv'
  <2>1. batch' = Remaining(e, s')
    BY <1>5 DEF DispatchRead
  <2>2. e.conn \notin Listeners /\ Within(s, s', e.conn)
    BY <1>5, DispatchReadSteps DEF Step, Serving
  <2>3. \A d \in batch \ {e} : d.conn # e.conn /\ s'.conn[d.conn] = s.conn[d.conn]
    BY <1>1, <2>2 DEF Within, BatchInv
  <2>4. \A f \in batch' : f \in batch
    <3> TAKE f \in batch'
    <3>1. PICK d \in batch \ {e} :
            /\ f = [d EXCEPT !.stale = @ \/ s'.conn[d.conn].fd # s.conn[d.conn].fd]
      BY <1>1, <2>1, RemainingEvents
    <3>2. f = [d EXCEPT !.stale = @ \/ FALSE] /\ d \in Event
      BY <1>1, <2>3, <3>1
    <3>3. f = d
      BY <3>2 DEF Event
    <3> QED
      BY <3>3
  <2>5. \A f \in batch' : f \in batch \ {e}
    <3> TAKE f \in batch'
    <3>1. PICK d \in batch \ {e} : f.conn = d.conn
      BY <1>1, <2>1, RemainingEvents
    <3> QED
      BY <2>3, <2>4, <3>1
  <2>6. AcceptPending' => AcceptPending
    BY <2>4 DEF AcceptPending
  <2> QED
    BY <2>3, <2>5, <2>6 DEF BatchInv
<1>6. ASSUME NEW e \in batch, Skip(e) PROVE BatchInv'
  <2>1. s' = s /\ batch' \subseteq batch
    BY <1>6 DEF Skip
  <2>2. AcceptPending' => AcceptPending
    BY <2>1 DEF AcceptPending
  <2> QED
    BY <2>1, <2>2 DEF BatchInv
<1>7. CASE EndPass \/ Terminate \/ Exit \/ (\E cmd \in Commands : ChannelCommand(cmd))
  <2>1. s' = s /\ batch' = batch
    BY <1>7 DEF EndPass, Terminate, Exit, ChannelCommand
  <2> QED
    BY <2>1 DEF BatchInv, AcceptPending
<1>8. CASE Shutdown
  <2>1. batch' = {}
    BY <1>8 DEF Shutdown
  <2> QED
    BY <2>1 DEF BatchInv
<1>9. ASSUME NEW fd \in Fds, Client(fd) PROVE BatchInv'
  <2>1. PICK k : Moved(s.sock[fd], k) /\ s' = [s EXCEPT !.sock[fd] = k]
    BY <1>1, <1>9, ClientMoves
  <2>2. s'.conn = s.conn
    BY <1>1, <2>1, MovedKeeps
  <2>3. batch' = batch
    BY <1>1, <1>9, ClientMoves
  <2> QED
    BY <2>2, <2>3 DEF BatchInv, AcceptPending
<1>10. CASE UNCHANGED vars
  BY <1>10 DEF BatchInv, AcceptPending, vars
<1> QED
  BY <1>3, <1>4, <1>5, <1>6, <1>7, <1>8, <1>9, <1>10 DEF Next, Loop, Client

\* With one listening socket the instance bit suffices: an event collected for
\* a connection that an earlier handler of the batch closed, and perhaps took
\* again, is not delivered, however many connections and events there are.
THEOREM StaleEventsAreDropped ==
    ASSUME ListenN = 1
    PROVE  Spec => []StaleEventsDropped
<1>1. Init => LoopInv /\ BatchInv
  BY LoopInit DEF Init, BatchInv
<1>2. LoopInv /\ BatchInv /\ [Next]_vars => (LoopInv /\ BatchInv)'
  BY LoopStep, BatchStep
<1>3. LoopInv /\ BatchInv => StaleEventsDropped
  BY DEF BatchInv, StaleEventsDropped, Delivered
<1> QED
  BY <1>1, <1>2, <1>3, PTL DEF Spec

-----------------------------------------------------------------------------
(* Edges                                                                   *)

\* Connection c is watched by epoll, and what its client has sent is still to
\* be reported or has been, in this batch.
Watched(c) ==
    LET k == s.sock[s.conn[c].fd] IN
    /\ k.reg = c /\ s.conn[c].active
    /\ Readable(k) => k.edge \/ \E e \in batch : /\ e.conn = c
                                                /\ e.inst = s.conn[c].instance

WatchInv == pc \in {"wait", "dispatch"} => \A c \in Conns : Waiting(c) => Watched(c)

\* A connection to which nothing happens stays watched, unless it loses its
\* event.
LEMMA StillWatched ==
    ASSUME NEW c \in Conns, Waiting(c) => Watched(c), Unmoved(s, s', c), Waiting(c)',
           \A e \in batch : e.conn = c /\ e.inst = s.conn[c].instance =>
             \E f \in batch' : f.conn = c /\ f.inst = e.inst
    PROVE  Watched(c)'
<1>1. s'.conn[c] = s.conn[c] /\ s'.sock[s.conn[c].fd] = s.sock[s.conn[c].fd]
  BY DEF Unmoved, Waiting
<1>2. Watched(c)
  BY <1>1 DEF Waiting
<1>3. (\E e \in batch : e.conn = c /\ e.inst = s.conn[c].instance) =>
        \E f \in batch' : f.conn = c /\ f.inst = s.conn[c].instance
  OBVIOUS
<1> QED
  BY <1>1, <1>2, <1>3 DEF Watched

\* A connection that a handler has settled is watched.
LEMMA SettledWatched ==
    ASSUME NEW c \in Conns, Settled(s', c), Waiting(c)'
    PROVE  Watched(c)'
BY DEF Settled, Waiting, Watched

\* Within one buffer a client's bytes are all read before the worker waits.
LEMMA WatchStep ==
    ASSUME BufSize > MaxBytes
    PROVE  LoopInv /\ WatchInv /\ [Next]_vars => WatchInv'
<1> SUFFICES ASSUME LoopInv, WatchInv, [Next]_vars, pc' \in {"wait", "dispatch"},
                    NEW c \in Conns, Waiting(c)'
             PROVE  Watched(c)'
  BY DEF WatchInv
<1>1. TableInv(s) /\ batch \subseteq Event
  BY DEF LoopInv
<1>2. ASSUME pc \in {"wait", "dispatch"} PROVE Waiting(c) => Watched(c)
  BY <1>2 DEF WatchInv
<1>3. Waiting(c) => c \in InUse(s) /\ c \notin Listeners
  BY <1>1, Held DEF Waiting, InUse
<1>4. CASE Wait
  <2> DEFINE ready == {fd \in Fds : s.sock[fd].reg # NoConn /\ s.sock[fd].edge}
             fd == s.conn[c].fd
  <2>1. batch' = {[conn |-> s.sock[x].reg, inst |-> s.sock[x].inst,
                   stale |-> FALSE] : x \in ready}
    BY <1>4 DEF Wait
  <2>2. /\ s'.conn = s.conn
        /\ \A x \in Fds : /\ s'.sock[x].reg = s.sock[x].reg
                          /\ s'.sock[x].rcv = s.sock[x].rcv
                          /\ s'.sock[x].eof = s.sock[x].eof
    BY <1>1, <1>4, EdgesTaken DEF Wait
  <2>3. pc = "wait" /\ batch = {}
    BY <1>4 DEF Wait, LoopInv
  <2>4. Waiting(c) /\ Watched(c)
    BY <1>2, <2>2, <2>3 DEF Waiting
  <2>5. c \in InUse(s) /\ fd \in Fds /\ c # NoConn
    BY <1>1, <1>3, <2>4, Held
  <2>6. s.sock[fd].reg = c /\ s.conn[c].active /\ (Readable(s.sock[fd]) => s.sock[fd].edge)
    BY <2>3, <2>4 DEF Watched
  <2>7. s.sock[fd].inst = s.conn[c].instance
    BY <1>1, <2>5, <2>6 DEF TableInv, EpollOK
  <2>8. Readable(s.sock[fd]) =>
          [conn |-> s.sock[fd].reg, inst |-> s.sock[fd].inst, stale |-> FALSE] \in batch'
    BY <2>1, <2>5, <2>6
  <2>9. Readable(s.sock[fd]) => \E e \in batch' : e.conn = c /\ e.inst = s.conn[c].instance
    BY <2>6, <2>7, <2>8
  <2>10. Readable(s'.sock[fd]) <=> Readable(s.sock[fd])
    BY <2>2, <2>5 DEF Readable
  <2> QED
    BY <2>2, <2>5, <2>6, <2>9, <2>10 DEF Watched
<1>5. ASSUME NEW e \in batch, DispatchAccept(e) PROVE Watched(c)'
  <2>1. pc = "dispatch" /\ batch' = Remaining(e, s')
    BY <1>5 DEF DispatchAccept
  <2>2. (Unmoved(s, s', c) \/ Settled(s', c)) /\ e.conn \in Listeners
    BY <1>5, DispatchAcceptSteps DEF Accepting
  <2>3. CASE Settled(s', c)
    BY <2>3, SettledWatched
  <2>4. CASE Unmoved(s, s', c)
    <3>1. Waiting(c) /\ c # e.conn
      BY <1>3, <2>2, <2>4 DEF Unmoved, Waiting
    <3>2. \A d \in batch : d.conn = c /\ d.inst = s.conn[c].instance =>
            \E f \in batch' : f.conn = c /\ f.inst = d.inst
      BY <1>1, <2>1, <3>1, RemainingEvents
    <3> QED
      BY <1>2, <2>1, <2>4, <3>2, StillWatched
  <2> QED
    BY <2>2, <2>3, <2>4
<1>6. ASSUME NEW e \in batch, DispatchRead(e) PROVE Watched(c)'
  <2>1. pc = "dispatch" /\ batch' = Remaining(e, s')
    BY <1>6 DEF DispatchRead
  <2>2. /\ Serving(s, e.conn) /\ Step(s, s', e.conn)
        /\ (s.conn[e.conn].handler = "wait" => s.sock[s.conn[e.conn].fd].reg = e.conn)
           => Settled(s', e.conn)
    BY <1>6, DispatchReadSteps
  <2>3. e.conn \in Conns /\ e.conn \in InUse(s)
    BY <2>2 DEF Serving, InUse
  <2>4. CASE c = e.conn
    <3>1. s.conn[e.conn].handler = "wait" => s.sock[s.conn[e.conn].fd].reg = e.conn
      BY <1>2, <2>1, <2>3, <2>4 DEF Waiting, Watched, InUse
    <3>2. Settled(s', c)
      BY <2>2, <2>4, <3>1
    <3> QED
      BY <3>2, SettledWatched
  <2>5. CASE c # e.conn
    <3>1. s'.conn[c] = s.conn[c] /\ Within(s, s', e.conn)
      BY <2>2, <2>5 DEF Step, Within
    <3>2. c \in InUse(s) /\ s.conn[c].fd \in Fds /\ s.conn[c].fd # s.conn[e.conn].fd
      <4>1. c \in InUse(s)
        BY <1>3, <3>1 DEF Waiting
      <4>2. s.conn[c].fd \in Fds
        BY <1>1, <4>1, Held
      <4> QED
        BY <1>1, <2>3, <2>5, <4>1, <4>2 DEF TableInv, PoolOK
    <3>3. Unmoved(s, s', c)
      BY <3>1, <3>2 DEF Within, Unmoved
    <3>4. \A d \in batch : d.conn = c /\ d.inst = s.conn[c].instance =>
            \E f \in batch' : f.conn = c /\ f.inst = d.inst
      BY <1>1, <2>1, <2>5, RemainingEvents
    <3> QED
      BY <1>2, <2>1, <3>3, <3>4, StillWatched
  <2> QED
    BY <2>4, <2>5
<1>7. ASSUME NEW e \in batch, Skip(e) PROVE Watched(c)'
  <2>1. pc = "dispatch" /\ s' = s /\ batch' = batch \ {e} /\ ~Delivered(e)
    BY <1>7 DEF Skip
  <2>2. Waiting(c) /\ Watched(c) /\ Unmoved(s, s', c)
    BY <1>2, <2>1 DEF Waiting, Unmoved
  <2>3. ~(e.conn = c /\ e.inst = s.conn[c].instance)
    BY <2>1, <2>2 DEF Delivered, Waiting, Watched
  <2> QED
    BY <2>1, <2>2, <2>3, StillWatched
<1>8. CASE EndPass \/ Terminate \/ Exit \/ (\E cmd \in Commands : ChannelCommand(cmd))
  <2>1. s' = s /\ batch' = batch /\ pc \in {"wait", "dispatch"}
    BY <1>8 DEF EndPass, Terminate, Exit, ChannelCommand
  <2>2. Waiting(c) /\ Watched(c)
    BY <1>2, <2>1 DEF Waiting
  <2> QED
    BY <2>1, <2>2 DEF Watched
<1>9. CASE Shutdown
  BY <1>9 DEF Shutdown
<1>10. ASSUME NEW fd \in Fds, Client(fd) PROVE Watched(c)'
  <2>1. PICK k : Moved(s.sock[fd], k) /\ s' = [s EXCEPT !.sock[fd] = k]
    BY <1>1, <1>10, ClientMoves
  <2>2. /\ s'.conn = s.conn
        /\ s'.sock[fd] = k /\ \A f \in Fds : f # fd => s'.sock[f] = s.sock[f]
    <3> DEFINE u == [s EXCEPT !.sock[fd] = k]
    <3>1. /\ u.conn = s.conn /\ u.sock[fd] = k
          /\ \A f \in Fds : f # fd => u.sock[f] = s.sock[f]
      BY <1>1 DEF TableInv, Cycle
    <3>2. s' = u
      BY <2>1
    <3> HIDE DEF u
    <3> QED
      BY <3>1, <3>2
  <2>3. pc' = pc /\ batch' = batch
    BY <1>1, <1>10, ClientMoves
  <2>4. Waiting(c) /\ Watched(c)
    BY <1>2, <2>2, <2>3 DEF Waiting
  <2>5. s.conn[c].fd \in Fds /\ c # NoConn /\ s.sock[s.conn[c].fd].kind = "stream"
    BY <1>1, <1>3, <2>4, Held DEF TableInv, KindsOK
  <2>6. CASE s.conn[c].fd = fd
    <3>1. k.reg = c /\ k.edge
      BY <2>1, <2>4, <2>5, <2>6 DEF Moved, Watched
    <3> QED
      BY <2>2, <2>4, <2>6, <3>1 DEF Watched
  <2>7. CASE s.conn[c].fd # fd
    BY <2>2, <2>3, <2>4, <2>5, <2>7 DEF Watched
  <2> QED
    BY <2>6, <2>7
<1>11. CASE UNCHANGED vars
  <2>1. s' = s /\ batch' = batch /\ pc' = pc
    BY <1>11 DEF vars
  <2>2. Waiting(c) /\ Watched(c)
    BY <1>2, <2>1 DEF Waiting
  <2> QED
    BY <2>1, <2>2 DEF Watched
<1> QED
  BY <1>4, <1>5, <1>6, <1>7, <1>8, <1>9, <1>10, <1>11 DEF Next, Loop, Client

\* When a client never sends more than a header buffer holds, no wake-up is
\* lost: a connection that waits for its request while the worker sleeps is
\* registered, active, and unread data is reported by the next epoll_wait.
THEOREM NoEdgeIsLost ==
    ASSUME BufSize > MaxBytes
    PROVE  Spec => []NoEdgeLost
<1>1. Init => LoopInv /\ WatchInv
  <2> SUFFICES ASSUME Init PROVE LoopInv /\ WatchInv
    OBVIOUS
  <2>1. LoopInv
    BY LoopInit
  <2>2. \A c \in Conns : s.conn[c].handler # "wait"
    <3>1. s.conn = [c \in Conns |->
                     IF c \in Listeners
                     THEN [Fresh(c - 1, FALSE) EXCEPT !.handler = "accept", !.active = TRUE]
                     ELSE Fresh(NoFd, TRUE)]
      BY DEF Init, InitCycle
    <3>2. \A c \in Conns : c \in Listeners => s.conn[c].handler = "accept"
      BY <2>1 DEF LoopInv, TableInv, KindsOK
    <3>3. \A c \in Conns : c \notin Listeners => s.conn[c] = Fresh(NoFd, TRUE)
      BY <3>1
    <3>4. Fresh(NoFd, TRUE).handler = "none"
      BY DEF Fresh
    <3> QED
      BY <3>2, <3>3, <3>4
  <2> QED
    BY <2>1, <2>2 DEF WatchInv, Waiting
<1>2. LoopInv /\ WatchInv /\ [Next]_vars => (LoopInv /\ WatchInv)'
  BY LoopStep, WatchStep
<1>3. LoopInv /\ WatchInv => NoEdgeLost
  BY DEF LoopInv, WatchInv, Watched, NoEdgeLost
<1> QED
  BY <1>1, <1>2, <1>3, PTL DEF Spec
=============================================================================
