----------------------------- MODULE NightOutput -----------------------------
(***************************************************************************)
(* Sending a static file: the static handler opens the file and sends the  *)
(* header (http/night_http_static_module.c, night_http_header_filter), the *)
(* copy filter reads the file into buffers (core/night_output_chain.c),    *)
(* the write filter collects them behind what is still queued and hands    *)
(* the queue to writev (http/night_http_write_filter_module.c,             *)
(* os/unix/night_linux_sendfile_chain.c, os/unix/night_writev_chain.c).    *)
(*                                                                         *)
(* The bytes of a response are numbered 1, 2, ... with the header first; a *)
(* buffer holds the interval of them from pos up to last. Requests follow  *)
(* each other in one worker, each on a connection of its own.              *)
(***************************************************************************)
EXTENDS Naturals, Sequences, SequencesExt, FiniteSetsExt

CONSTANTS
    HeaderLens,      \* lengths a response header may have
    MaxSize,         \* bound: size of a file
    Postpone,        \* bytes the write filter waits for (1460)
    Limit,           \* bytes one call of send_chain may take (2097152)
    MaxIovs,         \* NIGHT_IOVS_PREALLOCATE
    MaxBufs,         \* bound: buffers a file is read into
    FilesN           \* descriptors the worker may open

ASSUME OutputAssumption ==
    /\ HeaderLens \subseteq Nat \ {0} /\ HeaderLens # {} /\ IsFiniteSet(HeaderLens)
    /\ {MaxSize, Postpone, FilesN, MaxBufs} \subseteq Nat
    /\ {Limit, MaxIovs} \subseteq Nat \ {0}

VARIABLES
    pc,          \* where the handler is: "idle", "open", "copy", "header" and
                 \* "body" while sending it, "header sent", "body sent"
    header,      \* length of the header, 0 for HTTP/0.9
    size,        \* of.size
    fd,          \* whether of.fd can be read
    file_pos,    \* bytes of the file read so far
    copied,      \* output_chain's out: buffers not yet seen by the write filter
    out,         \* r->out: what the write filter has not sent yet
    send,        \* bytes this call of send_chain has asked writev to take
    ready,       \* wev->ready
    wire,        \* bytes passed to the socket, for the properties
    rc,          \* the static handler's result, "busy" while it runs
    fds          \* files the worker has open

ovars == <<pc, header, size, fd, file_pos, copied, out, send, ready, wire, rc, fds>>

total == header + size

Buf(from, to, last_buf, recycled) ==
    [pos |-> from, last |-> to, last_buf |-> last_buf, recycled |-> recycled]
buf_size(b) == b.last - b.pos
Bytes(chain) == FlattenSeq([i \in DOMAIN chain |->
                              [j \in 1..buf_size(chain[i]) |-> chain[i].pos + j]])

-----------------------------------------------------------------------------
(* Chains *)

\* Mutant: a buffer sent in part starts over.
chain_update_sent_whole(in, sent) ==
    LET before(i) == Len(Bytes(SubSeq(in, 1, i)))
        whole == {i \in 0..Len(in) : before(i) <= sent}
    IN  SubSeq(in, Max(whole) + 1, Len(in))

(* What is left of a chain once its first bytes have been sent: buffers    *)
(* that are through drop out, the next one continues where it stopped.     *)
chain_update_sent(in, sent) ==
    LET before(i) == Len(Bytes(SubSeq(in, 1, i)))
        i == Max({k \in 0..Len(in) : before(k) <= sent})
        rest == SubSeq(in, i + 1, Len(in))
    IN  IF rest = <<>> THEN <<>>
        ELSE <<[rest[1] EXCEPT !.pos = @ + sent - before(i)]>> \o Tail(rest)

\* What one writev is asked for: so many buffers, and at most limit bytes.
output_chain_to_iovec(in, bufs, limit) ==
    LET bytes == Bytes(SubSeq(in, 1, bufs))
    IN  SubSeq(bytes, 1, Min({limit, Len(bytes)}))

-----------------------------------------------------------------------------
(* Steps *)

Init ==
    /\ pc = "idle" /\ header = 0 /\ size = 0 /\ fd = FALSE
    /\ file_pos = 0 /\ copied = <<>> /\ out = <<>> /\ send = 0 /\ ready = TRUE
    /\ wire = <<>> /\ rc = "none" /\ fds = 0

\* The handler returns; the request and what it still queues go away with it.
Return(result) == pc' = "idle" /\ rc' = result

\* night_open_cached_file without a cache, which is never made: what the file
\* is decides whether it is opened and whether of.fd is set. A directory is
\* opened and its descriptor forgotten; nothing registers a cleanup.
open_cached_file(file, bytes) ==
    [opened |-> file # "missing", fd |-> file = "file",
     size |-> IF file = "missing" THEN 0 ELSE bytes]

\* A GET (the parser knows no HEAD). An error of night_open_cached_file, for
\* want of descriptors too, is passed over.
StaticHandler(h, file, bytes) ==
    LET of == open_cached_file(file, bytes)
    IN  /\ pc = "idle"
        /\ of.opened => fds < FilesN
        /\ header' = h /\ size' = of.size /\ fd' = of.fd
        /\ fds' = IF of.opened THEN fds + 1 ELSE fds
        /\ file_pos' = 0 /\ copied' = <<>> /\ out' = <<>> /\ send' = 0
        /\ ready' = TRUE /\ wire' = <<>>
        /\ rc' = "busy" /\ pc' = "open"

\* night_http_write_filter refuses a buffer without bytes.
Empty(in) == \E i \in DOMAIN in : buf_size(in[i]) = 0

\* What it puts on r->out otherwise.
Queued(in) == out \o in

\* Mutant: the last buffer is held back like any other.
Hold_last(queue) == /\ \A i \in DOMAIN queue : ~queue[i].recycled
                    /\ Len(Bytes(queue)) < Postpone

\* Small pieces are held until more comes, unless the response ends.
Hold(queue) == /\ \A i \in DOMAIN queue : ~queue[i].last_buf /\ ~queue[i].recycled
               /\ Len(Bytes(queue)) < Postpone

\* night_http_send_header; HTTP/0.9 has none. A result below NIGHT_OK other
\* than NIGHT_ERROR lets the handler go on.
SendHeader ==
    /\ pc = "open"
    /\ IF header = 0 THEN pc' = "copy" /\ out' = out
       ELSE /\ out' = Queued(<<Buf(0, header, FALSE, FALSE)>>)
            /\ pc' = IF Hold(out') THEN "copy" ELSE "header"
    /\ send' = 0
    /\ UNCHANGED <<header, size, fd, file_pos, copied, ready, wire, rc, fds>>

SendHeaderFails ==
    /\ pc = "open" /\ header > 0 /\ Return("ERROR")
    /\ UNCHANGED <<header, size, fd, file_pos, copied, out, send, ready, wire, fds>>

(* night_output_chain, one round: night_output_chain_get_buf takes the     *)
(* rest of the file or less, since its size is compared and used before it *)
(* is set, and so is recycled; copy_buf fills the buffer from the file.    *)
CopyBuf(n, recycled) ==
    /\ pc = "copy" /\ Len(copied) < MaxBufs
    /\ IF size > 0 THEN fd /\ file_pos < size ELSE copied = <<>>
    /\ n <= size - file_pos
    /\ file_pos' = file_pos + n
    /\ copied' = Append(copied, Buf(header + file_pos, header + file_pos + n,
                                    size > 0 /\ file_pos' = size, recycled))
    /\ UNCHANGED <<pc, header, size, fd, out, send, ready, wire, rc, fds>>

\* The read fails or comes back short, or memory runs out.
CopyFails ==
    /\ pc = "copy" /\ (file_pos < size \/ copied = <<>>)
    /\ Return("ERROR")
    /\ UNCHANGED <<header, size, fd, file_pos, copied, out, send, ready, wire, fds>>

\* Everything is copied and goes to the write filter at once; output_chain
\* passes its result on.
OutputFilter ==
    /\ pc = "copy" /\ file_pos = size /\ copied # <<>>
    /\ IF Empty(copied) THEN Return("ERROR") /\ UNCHANGED <<out, send, copied>>
       ELSE /\ out' = Queued(copied) /\ send' = 0 /\ copied' = <<>>
            /\ IF Hold(out') THEN Return("OK") ELSE pc' = "body" /\ rc' = rc
    /\ UNCHANGED <<header, size, fd, file_pos, ready, wire, fds>>

\* How many buffers the next writev is given: MaxIovs if there are so many,
\* or more, since buffers that adjoin in memory share an entry.
BufsGiven == Min({MaxIovs, Len(out)})..Len(out)

Iovec(bufs) == output_chain_to_iovec(out, bufs, Limit - send)

\* After a round: another one while there is more and the limit allows it,
\* else back to the write filter.
After(chain, asked) ==
    pc' = IF chain # <<>> /\ asked < Limit THEN pc
          ELSE IF pc = "header" THEN "header sent" ELSE "body sent"

\* writev takes all or a part of what it is given.
Writev(n) ==
    /\ pc \in {"header", "body"} /\ ready
    /\ \E bufs \in BufsGiven :
          /\ n \in 1..Len(Iovec(bufs))
          /\ out' = chain_update_sent(out, n)
          /\ send' = send + Len(Iovec(bufs))
          /\ wire' = wire \o SubSeq(Iovec(bufs), 1, n)
    /\ After(out', send')
    /\ UNCHANGED <<header, size, fd, file_pos, copied, ready, rc, fds>>

\* The socket is full, or was full before.
WritevAgain ==
    /\ pc \in {"header", "body"}
    /\ ready' = FALSE
    /\ After(out, Limit)
    /\ UNCHANGED <<header, size, fd, file_pos, copied, out, send, wire, rc, fds>>

WritevFails ==
    /\ pc \in {"header", "body"} /\ ready /\ Return("ERROR")
    /\ UNCHANGED <<header, size, fd, file_pos, copied, out, send, ready, wire, fds>>

\* The write filter returns NIGHT_AGAIN when something is left. After the
\* header the handler goes on to the body either way.
WriteFilterReturns ==
    /\ pc \in {"header sent", "body sent"}
    /\ IF pc = "header sent" THEN pc' = "copy" /\ rc' = rc
       ELSE Return(IF out = <<>> THEN "OK" ELSE "AGAIN")
    /\ UNCHANGED <<header, size, fd, file_pos, copied, out, send, ready, wire, fds>>

Next == \/ \E h \in HeaderLens \cup {0}, n \in 0..MaxSize,
              file \in {"file", "directory", "missing"} : StaticHandler(h, file, n)
        \/ SendHeader \/ SendHeaderFails
        \/ \E n \in 0..MaxSize, recycled \in BOOLEAN : CopyBuf(n, recycled)
        \/ CopyFails \/ OutputFilter
        \/ \E n \in 1..MaxSize + Max(HeaderLens) : Writev(n)
        \/ WritevAgain \/ WritevFails \/ WriteFilterReturns

OutputSpec == Init /\ [][Next]_ovars

-----------------------------------------------------------------------------
(* Properties *)

ByteRange(from, to) == [i \in 1..to - from |-> from + i]

\* However writev splits what it is given and however the file is cut into
\* buffers, what went out, what is queued, what is copied and what is still
\* in the file are together the response: each byte once and in its place.
BytesConserved ==
    rc \in {"busy", "AGAIN", "OK"} /\ pc # "open" =>
        wire \o Bytes(out) \o Bytes(copied)
            \o ByteRange(header + file_pos, header + size)
        = ByteRange(0, total)

\* The output path implements NightStream: the client never sees a byte out
\* of order, and NIGHT_OK is only returned for a response sent completely.
Stream == INSTANCE NightStream WITH MaxTotal <- MaxSize + Max(HeaderLens)
ImplementsStream == Stream!StreamSpec

\* A response the handler did not give up on is on the wire when it returns:
\* night_http_write_filter's comment keeps a buffered flag for the rest.
ResponseComplete == rc \in {"OK", "AGAIN"} => Len(wire) = total
=============================================================================
