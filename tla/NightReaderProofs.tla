-------------------------- MODULE NightReaderProofs --------------------------
(***************************************************************************)
(* Proofs about what the server reads.                                     *)
(*                                                                         *)
(* The two parsers of a request head, for lines of any length and any      *)
(* buffer for the name: what the automata accept is well formed as a       *)
(* whole, and the pointers they leave behind cut it where its parts end.   *)
(* The invariants say, state by state, what has been read so far.          *)
(*                                                                         *)
(* The configuration reader, whatever the sizes of the buffer and of the   *)
(* file: the handlers are given the words and the blocks that stand in it. *)
(***************************************************************************)
EXTENDS NightParse, NightConf, NightLemmas

-----------------------------------------------------------------------------
(* A request head: states and characters                                   *)

LineStates == {"start", "method", "blanks", "slash", "check_uri", "http_09", "H", "HT", "HTT",
               "HTTP", "first_major", "major", "first_minor", "minor", "almost_done"}
HeaderStates == {"start", "name", "before_value", "value", "after_value", "almost_done",
                 "header_almost_done"}

\* What a parser may return when it does not go on.
Codes == {"OK", "INVALID_09_METHOD", "INVALID_METHOD", "INVALID_REQUEST", "INVALID_VERSION",
          "ERROR", "HEADER_DONE", "INVALID_HEADER"}

Requests ==
    [state : LineStates \cup HeaderStates, word : DOMAIN WordLen,
     method : DOMAIN WordLen \cup {"UNKNOWN"}, http_major : Nat, http_minor : Nat,
     method_end : Int, uri_start : Int, uri_end : Int, http_protocol : Int, request_end : Int,
     invalid_header : BOOLEAN, header_name_end : Int, header_start : Int, header_end : Int,
     lowcase_index : Nat,
     lowcase_header : [0 .. LcHeaderLen - 1 -> HeaderChars \cup {"NUL"}]]

\* The words a line may begin with have one to five letters.
LEMMA WordLengths ==
    \A w \in DOMAIN WordLen : WordLen[w] \in 1 .. 5
BY DEF WordLen

\* What the digits stand for.
LEMMA DigitValues ==
    /\ DOMAIN Digits = {"0", "1", "9"} /\ \A d \in DOMAIN Digits : Digits[d] \in 0 .. 9
    /\ Digits["0"] = 0 /\ Digits["1"] = 1 /\ Digits["9"] = 9
BY DEF Digits

\* A line with one more character.
LEMMA OneMore ==
    ASSUME NEW S, NEW l \in Seq(S), NEW ch \in S
    PROVE  /\ Append(l, ch) \in Seq(S) /\ Len(Append(l, ch)) = Len(l) + 1 /\ Len(l) \in Nat
           /\ \A i \in 1 .. Len(l) : Append(l, ch)[i] = l[i]
           /\ Append(l, ch)[Len(l) + 1] = ch
OBVIOUS

\* Going on changes the state and nothing else of the request.
LEMMA GoOn ==
    ASSUME NEW q \in Requests, NEW x \in LineStates \cup HeaderStates
    PROVE  /\ Go(q, x).rc = "AGAIN" /\ Go(q, x).r \in Requests /\ Go(q, x).r.state = x
           /\ Go(q, x).r.word = q.word /\ Go(q, x).r.method = q.method
           /\ Go(q, x).r.http_major = q.http_major /\ Go(q, x).r.http_minor = q.http_minor
           /\ Go(q, x).r.method_end = q.method_end /\ Go(q, x).r.uri_start = q.uri_start
           /\ Go(q, x).r.uri_end = q.uri_end /\ Go(q, x).r.http_protocol = q.http_protocol
           /\ Go(q, x).r.request_end = q.request_end
           /\ Go(q, x).r.invalid_header = q.invalid_header
           /\ Go(q, x).r.header_name_end = q.header_name_end
           /\ Go(q, x).r.header_start = q.header_start /\ Go(q, x).r.header_end = q.header_end
           /\ Go(q, x).r.lowcase_index = q.lowcase_index
           /\ Go(q, x).r.lowcase_header = q.lowcase_header
BY DEF Go, Requests

-----------------------------------------------------------------------------
(* What the request-line automaton has read, state by state.               *)

IsBlank(l, from, to) == \A i \in from .. to : l[i] = "SP"

Letters == <<"H", "T", "T", "P", "/", "1", ".">>

\* The states inside "HTTP/1.", with the number of its characters read.
Reached == [H |-> 1, HT |-> 2, HTT |-> 3, HTTP |-> 4, first_major |-> 5, major |-> 6,
            first_minor |-> 7]

Spelled(l, hp, k) == \A j \in 1 .. k : l[hp + j] = Letters[j]

\* The characters from..to are zeros and then one to three digits, worth m.
Number(m, l, from, to) ==
    \E i \in from .. to :
        /\ \A k \in from .. i - 1 : l[k] = "0"
        /\ \A k \in i .. to : l[k] \in DOMAIN Digits
        /\ \/ to = i /\ m = Digits[l[i]]
           \/ to = i + 1 /\ m \in 10 .. 99
           \/ to = i + 2 /\ m \in 100 .. 999

MethodRead(q, l) ==
    /\ q.method_end = WordLen[q.word] /\ q.method_end \in {3, 4}
    /\ q.method_end + 1 <= Len(l) /\ l[q.method_end + 1] = "SP"
    /\ q.method = "GET" => q.word = "GET"

UriFound(q, l) ==
    /\ q.uri_start \in q.method_end + 1 .. Len(l) - 1 /\ l[q.uri_start + 1] = "/"
    /\ \A k \in q.method_end + 2 .. q.uri_start : l[k] # "/"

UriRead(q, l) ==
    /\ MethodRead(q, l) /\ UriFound(q, l)
    /\ q.uri_end = q.uri_start + 1 /\ q.uri_end + 1 <= Len(l)

\* What lies between the uri and the end e of the line's text.
Tail09(q, l, e) ==
    /\ q.http_protocol = None /\ q.http_major = 0 /\ q.http_minor = 9
    /\ q.uri_end + 1 <= e /\ IsBlank(l, q.uri_end + 1, e)

ProtocolFound(q, l, e) ==
    q.http_protocol \in q.uri_end + 1 .. e - 1 /\ IsBlank(l, q.uri_end + 1, q.http_protocol)

TailVersion(q, l, e) ==
    /\ ProtocolFound(q, l, e) /\ q.http_major = 1 /\ Spelled(l, q.http_protocol, 7)
    /\ q.http_protocol + 8 <= e /\ Number(q.http_minor, l, q.http_protocol + 8, e)

LineInv(q, l) ==
    /\ q \in Requests /\ l \in Seq(LineChars) /\ q.request_end = None /\ q.state \in LineStates
    /\ q.state = "start" => Len(l) = 0
    /\ q.state \in {"start", "method"} =>
          q.method_end = None /\ q.method = "UNKNOWN" /\ Len(l) <= WordLen[q.word]
    /\ q.state \in {"start", "method", "blanks", "slash", "http_09"} =>
          q.http_protocol = None /\ q.http_major = 0 /\ q.http_minor = 0
    /\ q.state \in {"blanks", "slash"} => MethodRead(q, l)
    /\ q.state = "blanks" => \A k \in q.method_end + 2 .. Len(l) : l[k] # "/"
    /\ q.state = "slash" => UriFound(q, l) /\ Len(l) = q.uri_start + 1
    /\ q.state = "http_09" => UriRead(q, l) /\ IsBlank(l, q.uri_end + 1, Len(l))
    /\ q.state \in DOMAIN Reached =>
          /\ UriRead(q, l) /\ ProtocolFound(q, l, Len(l))
          /\ Len(l) = q.http_protocol + Reached[q.state]
          /\ Spelled(l, q.http_protocol, Reached[q.state])
          /\ q.http_major = IF q.state \in {"major", "first_minor"} THEN 1 ELSE 0
    /\ q.state = "minor" => UriRead(q, l) /\ TailVersion(q, l, Len(l))
    /\ q.state = "almost_done" =>
          /\ UriRead(q, l) /\ l[Len(l)] = "CR"
          /\ Tail09(q, l, Len(l) - 1) \/ TailVersion(q, l, Len(l) - 1)

\* An accepted line.
LineDone(q, l) ==
    /\ q \in Requests /\ l \in Seq(LineChars) /\ UriRead(q, l) /\ l[Len(l)] = "LF"
    /\ \/ q.request_end = Len(l) - 1 /\ l[Len(l) - 1] # "CR"
       \/ q.request_end = Len(l) - 2 /\ l[Len(l) - 1] = "CR"
    /\ \/ Tail09(q, l, q.request_end) /\ q.word = "GET"
       \/ TailVersion(q, l, q.request_end)

-----------------------------------------------------------------------------
(* What the header-line automaton has read.                                *)

\* The name ends before position k; lowcase_header holds it when the lengths
\* agree.
NameRead(q, l, k) ==
    /\ k >= 1 /\ k <= Len(l) /\ q.lowcase_index <= k
    /\ q.lowcase_index = k => \A i \in 0 .. k - 1 : q.lowcase_header[i] = l[i + 1]
    /\ \A i \in 1 .. k : l[i] # ":"

ValueStarted(q, l) ==
    /\ q.header_start \in q.header_name_end + 1 .. Len(l) - 1
    /\ l[q.header_name_end + 1] = ":" /\ l[q.header_start + 1] # "SP"
    /\ IsBlank(l, q.header_name_end + 2, q.header_start)

ValueEnded(q, l) ==
    /\ q.header_end \in q.header_start + 1 .. Len(l) /\ l[q.header_end] # "SP"
    /\ \A i \in q.header_end + 1 .. Len(l) : l[i] \in {"SP", "CR", "LF"}

HeaderRead(q, l) ==
    /\ q \in Requests /\ l \in Seq(HeaderChars) /\ q.method_end = None
    /\ NameRead(q, l, q.header_name_end)
    /\ \/ q.header_start = q.header_name_end
       \/ ValueStarted(q, l) /\ ValueEnded(q, l)

HeaderInv(q, l) ==
    /\ q \in Requests /\ l \in Seq(HeaderChars) /\ q.method_end = None
    /\ q.state \in HeaderStates
    /\ q.state = "start" => Len(l) = 0 /\ q.lowcase_index = 0
    /\ q.state = "name" => NameRead(q, l, Len(l))
    /\ q.state \in {"before_value", "value", "after_value"} =>
          NameRead(q, l, q.header_name_end)
    /\ q.state = "before_value" =>
          /\ q.header_name_end + 1 <= Len(l) /\ l[q.header_name_end + 1] = ":"
          /\ IsBlank(l, q.header_name_end + 2, Len(l))
    /\ q.state = "value" => ValueStarted(q, l) /\ l[Len(l)] # "SP"
    /\ q.state = "after_value" => ValueStarted(q, l) /\ ValueEnded(q, l)
    /\ q.state = "almost_done" => HeaderRead(q, l)

-----------------------------------------------------------------------------
(* The invariant of the parsers.                                           *)

ParseInv ==
    /\ parsed \in {"idle", "line", "header", "CUT"} \cup Codes
    /\ parsed = "idle" => r = NewRequest /\ line = <<>>
    /\ parsed = "line" => LineInv(r, line)
    /\ parsed = "header" => HeaderInv(r, line)
    /\ parsed = "OK" => LineDone(r, line) \/ HeaderRead(r, line)

-----------------------------------------------------------------------------
(* The steps of the request-line automaton.                                *)

\* What LineInv asks in each state.
LEMMA LineInvAt ==
    ASSUME NEW q \in Requests, NEW l \in Seq(LineChars), q.request_end = None
    PROVE  /\ q.state = "start" =>
                (LineInv(q, l) <=> /\ Len(l) = 0 /\ q.method_end = None /\ q.method = "UNKNOWN"
                                   /\ Len(l) <= WordLen[q.word] /\ q.http_protocol = None
                                   /\ q.http_major = 0 /\ q.http_minor = 0)
           /\ q.state = "method" =>
                (LineInv(q, l) <=> /\ q.method_end = None /\ q.method = "UNKNOWN"
                                   /\ Len(l) <= WordLen[q.word] /\ q.http_protocol = None
                                   /\ q.http_major = 0 /\ q.http_minor = 0)
           /\ q.state = "blanks" =>
                (LineInv(q, l) <=> /\ MethodRead(q, l) /\ q.http_protocol = None
                                   /\ q.http_major = 0 /\ q.http_minor = 0
                                   /\ \A k \in q.method_end + 2 .. Len(l) : l[k] # "/")
           /\ q.state = "slash" =>
                (LineInv(q, l) <=> /\ MethodRead(q, l) /\ q.http_protocol = None
                                   /\ q.http_major = 0 /\ q.http_minor = 0
                                   /\ UriFound(q, l) /\ Len(l) = q.uri_start + 1)
           /\ q.state = "check_uri" => LineInv(q, l)
           /\ q.state = "http_09" =>
                (LineInv(q, l) <=> /\ q.http_protocol = None /\ q.http_major = 0 /\ q.http_minor = 0
                                   /\ UriRead(q, l) /\ IsBlank(l, q.uri_end + 1, Len(l)))
           /\ q.state \in DOMAIN Reached =>
                (LineInv(q, l) <=>
                    /\ UriRead(q, l) /\ ProtocolFound(q, l, Len(l))
                    /\ Len(l) = q.http_protocol + Reached[q.state]
                    /\ Spelled(l, q.http_protocol, Reached[q.state])
                    /\ q.http_major = IF q.state \in {"major", "first_minor"} THEN 1 ELSE 0)
           /\ q.state = "minor" => (LineInv(q, l) <=> UriRead(q, l) /\ TailVersion(q, l, Len(l)))
           /\ q.state = "almost_done" =>
                (LineInv(q, l) <=> /\ UriRead(q, l) /\ l[Len(l)] = "CR"
                                   /\ Tail09(q, l, Len(l) - 1) \/ TailVersion(q, l, Len(l) - 1))
BY DEF LineInv, LineStates, Reached

\* t is l with one more character.
Longer(t, l, ch) ==
    /\ Len(t) = Len(l) + 1 /\ Len(l) \in Nat
    /\ \A i \in 1 .. Len(l) : t[i] = l[i]
    /\ t[Len(l) + 1] = ch

\* What has been found in a line stays where it was found: the method.
LEMMA KeepsMethod ==
    ASSUME NEW q \in Requests, NEW g, NEW l, NEW t, NEW ch, Longer(t, l, ch), MethodRead(q, l),
           g.method_end = q.method_end, g.word = q.word, g.method = q.method
    PROVE  MethodRead(g, t)
<1>1. q.method_end \in Nat /\ q.method_end + 1 \in 1 .. Len(l) /\ Len(l) \in Nat
  BY DEF MethodRead, Longer
<1> QED
  BY <1>1 DEF MethodRead, Longer

\* The uri too.
LEMMA KeepsUri ==
    ASSUME NEW q \in Requests, NEW g, NEW l, NEW t, NEW ch, Longer(t, l, ch), MethodRead(q, l),
           UriFound(q, l),
           g.method_end = q.method_end, g.word = q.word, g.method = q.method,
           g.uri_start = q.uri_start
    PROVE  MethodRead(g, t) /\ UriFound(g, t)
<1>1. MethodRead(g, t)
  BY KeepsMethod
<1>2. q.method_end \in {3, 4}
  BY DEF MethodRead
<1>4. Len(l) \in Nat /\ Len(t) = Len(l) + 1
  BY DEF Longer
<1>5. q.uri_start \in q.method_end + 1 .. Len(l) - 1
  BY DEF UriFound
<1>3. UriFound(g, t)
  <2>1. /\ l[q.uri_start + 1] = "/"
        /\ \A k \in q.method_end + 2 .. q.uri_start : l[k] # "/"
    BY DEF UriFound
  <2>2. \A i \in 1 .. Len(l) : t[i] = l[i]
    BY DEF Longer
  <2>3. \A k \in q.method_end + 2 .. q.uri_start : t[k] # "/"
    <3> TAKE k \in q.method_end + 2 .. q.uri_start
    <3>1. k \in 1 .. Len(l)
      BY <1>2, <1>4, <1>5
    <3> QED
      BY <2>1, <2>2, <3>1
  <2>4. t[q.uri_start + 1] = "/" /\ q.uri_start \in q.method_end + 1 .. Len(t) - 1
    BY <1>2, <1>4, <1>5, <2>1, <2>2
  <2> QED
    BY <2>3, <2>4 DEF UriFound
<1> QED
  BY <1>1, <1>3

\* The uri and its end.
LEMMA KeepsUriRead ==
    ASSUME NEW q \in Requests, NEW g, NEW l, NEW t, NEW ch, Longer(t, l, ch), UriRead(q, l),
           g.method_end = q.method_end, g.word = q.word, g.method = q.method,
           g.uri_start = q.uri_start, g.uri_end = q.uri_end
    PROVE  UriRead(g, t)
<1>1. MethodRead(g, t) /\ UriFound(g, t)
  BY KeepsUri DEF UriRead
<1> QED
  BY <1>1 DEF UriRead, Longer, UriFound, MethodRead

\* Where the pieces of a line may lie, once its uri has been read.
LEMMA UriPlaces ==
    ASSUME NEW q \in Requests, NEW l, Len(l) \in Nat, UriRead(q, l)
    PROVE  /\ q.method_end \in Nat /\ q.uri_start \in Nat /\ q.uri_end \in Nat
           /\ q.uri_end >= 5 /\ q.uri_end + 1 <= Len(l)
<1>1. q.method_end \in {3, 4}
  BY DEF UriRead, MethodRead
<1>2. q.uri_start \in q.method_end + 1 .. Len(l) - 1
  BY DEF UriRead, UriFound
<1>3. q.uri_end = q.uri_start + 1 /\ q.uri_end + 1 <= Len(l)
  BY DEF UriRead
<1> QED
  BY <1>1, <1>2, <1>3

\* Blanks.
LEMMA KeepsBlank ==
    ASSUME NEW l, NEW t, NEW ch, Longer(t, l, ch), NEW i \in Nat, i >= 1, NEW j \in Int, j <= Len(l),
           IsBlank(l, i, j)
    PROVE  IsBlank(t, i, j)
BY DEF Longer, IsBlank

\* The characters of "HTTP/1." read so far.
LEMMA KeepsSpelled ==
    ASSUME NEW l, NEW t, NEW ch, Longer(t, l, ch), NEW hp \in Nat, NEW k \in Nat,
           hp + k <= Len(l), Spelled(l, hp, k)
    PROVE  Spelled(t, hp, k)
BY DEF Longer, Spelled

\* The minor version.
LEMMA KeepsNumber ==
    ASSUME NEW l, NEW t, NEW ch, Longer(t, l, ch), NEW m \in Nat, NEW from \in Nat, from >= 1,
           NEW to \in Nat, to <= Len(l), Number(m, l, from, to)
    PROVE  Number(m, t, from, to)
<1>1. PICK i \in from .. to :
        /\ \A k \in from .. i - 1 : l[k] = "0"
        /\ \A k \in i .. to : l[k] \in DOMAIN Digits
        /\ \/ to = i /\ m = Digits[l[i]]
           \/ to = i + 1 /\ m \in 10 .. 99
           \/ to = i + 2 /\ m \in 100 .. 999
  BY DEF Number
<1>2. \A k \in from .. to : t[k] = l[k]
  BY DEF Longer
<1>3. /\ \A k \in from .. i - 1 : t[k] = "0"
      /\ \A k \in i .. to : t[k] \in DOMAIN Digits
      /\ t[i] = l[i]
  BY <1>1, <1>2
<1> QED
  BY <1>1, <1>3 DEF Number

\* What lies behind the uri.
LEMMA KeepsTail ==
    ASSUME NEW q \in Requests, NEW g, NEW l, NEW t, NEW ch, Longer(t, l, ch), UriRead(q, l),
           g.uri_end = q.uri_end, g.http_protocol = q.http_protocol,
           g.http_major = q.http_major, g.http_minor = q.http_minor,
           NEW e \in Nat, e <= Len(l)
    PROVE  /\ Tail09(q, l, e) => Tail09(g, t, e)
           /\ TailVersion(q, l, e) => TailVersion(g, t, e)
<1>1. /\ q.uri_end \in Nat /\ q.uri_end + 1 <= Len(l) /\ Len(l) \in Nat /\ q.http_minor \in Nat
      /\ q.uri_end + 1 \in Nat /\ q.uri_end + 1 >= 1
  <2>1. Len(l) \in Nat
    BY DEF Longer
  <2>2. q.uri_end \in Nat /\ q.uri_end + 1 <= Len(l)
    BY <2>1, UriPlaces
  <2> QED
    BY <2>1, <2>2 DEF Requests
<1>2. ASSUME Tail09(q, l, e) PROVE Tail09(g, t, e)
  <2>1. IsBlank(t, q.uri_end + 1, e)
    BY <1>1, <1>2, KeepsBlank DEF Tail09
  <2> QED
    BY <1>2, <2>1 DEF Tail09
<1>3. ASSUME TailVersion(q, l, e) PROVE TailVersion(g, t, e)
  <2>1. /\ q.http_protocol \in Nat /\ q.http_protocol + 8 <= e /\ q.http_protocol >= q.uri_end + 1
        /\ q.http_protocol + 8 \in Nat /\ q.http_protocol + 8 >= 1
        /\ q.http_protocol <= Len(l) /\ q.http_protocol + 7 <= Len(l) /\ q.http_protocol \in Int
    BY <1>1, <1>3 DEF TailVersion, ProtocolFound
  <2>2. IsBlank(t, q.uri_end + 1, q.http_protocol)
    BY <1>1, <1>3, <2>1, KeepsBlank DEF TailVersion, ProtocolFound
  <2>3. Spelled(t, q.http_protocol, 7)
    BY <1>3, <2>1, KeepsSpelled DEF TailVersion
  <2>4. Number(q.http_minor, t, q.http_protocol + 8, e)
    BY <1>1, <1>3, <2>1, KeepsNumber DEF TailVersion
  <2> QED
    BY <1>3, <2>2, <2>3, <2>4 DEF TailVersion, ProtocolFound
<1> QED
  BY <1>2, <1>3

-----------------------------------------------------------------------------
(* The steps of the request-line automaton.                                *)

\* What is to be shown of a step that gives s behind the characters t.
LineStepped(s, t) ==
    /\ s.rc \in Codes \cup {"AGAIN"}
    /\ s.rc = "AGAIN" => LineInv(s.r, t)
    /\ s.rc = "OK" => LineDone(s.r, t)

\* A refusal leaves nothing to be shown.
LEMMA Refused ==
    ASSUME NEW q, NEW t, NEW rc \in Codes \ {"OK"}
    PROVE  LineStepped(Fail(q, rc), t)
BY DEF LineStepped, Fail, Codes

\* Going on leaves the invariant of the next state to be shown.
LEMMA Continued ==
    ASSUME NEW q, NEW x, NEW t, LineInv(Go(q, x).r, t)
    PROVE  LineStepped(Go(q, x), t)
BY DEF LineStepped, Go

\* A request whose method has been read.
LEMMA NamedMethod ==
    ASSUME NEW q \in Requests, NEW p \in Nat, NEW w \in DOMAIN WordLen \cup {"UNKNOWN"}
    PROVE  [q EXCEPT !.method_end = p, !.method = w] \in Requests
<1> DEFINE u == [q EXCEPT !.method_end = p]
<1>0. p \in Int
  OBVIOUS
<1>1. u \in Requests
  BY <1>0 DEF Requests
<1> HIDE DEF u
<1>2. [u EXCEPT !.method = w] \in Requests
  BY <1>1 DEF Requests
<1>3. [u EXCEPT !.method = w] = [q EXCEPT !.method_end = p, !.method = w]
  BY DEF u, Requests
<1> QED
  BY <1>2, <1>3

\* sw_start
LEMMA LineStart ==
    ASSUME NEW q, NEW l, NEW ch \in LineChars, NEW t \in Seq(LineChars), LineInv(q, l),
           Longer(t, l, ch), q.state = "start"
    PROVE  LineStepped(LineStep(q, Len(l), ch), t)
<1>0. q \in Requests /\ l \in Seq(LineChars) /\ q.request_end = None
  BY DEF LineInv
<1>1. CASE Capital(ch)
  <2>1. LineStep(q, Len(l), ch) = Go(q, "method")
    BY <1>1 DEF LineStep
  <2>2. "method" \in LineStates \cup HeaderStates
    BY DEF LineStates
  <2> DEFINE g == Go(q, "method").r
  <2>3. /\ g \in Requests /\ g.state = "method" /\ g.request_end = None /\ g.word = q.word
        /\ g.method_end = q.method_end /\ g.method = q.method /\ g.http_protocol = q.http_protocol
        /\ g.http_major = q.http_major /\ g.http_minor = q.http_minor
    BY <1>0, <2>2, GoOn
  <2> HIDE DEF g
  <2>4. Len(t) = 1 /\ WordLen[q.word] \in 1 .. 5
    BY <1>0, WordLengths DEF LineInv, Longer, Requests
  <2>5. /\ q.method_end = None /\ q.method = "UNKNOWN" /\ q.http_protocol = None
        /\ q.http_major = 0 /\ q.http_minor = 0
    BY <1>0, LineInvAt
  <2>6. LineInv(g, t)
    BY <2>3, <2>4, <2>5, LineInvAt
  <2> QED
    BY <2>1, <2>6, Continued DEF g
<1>2. CASE ~Capital(ch)
  <2>1. LineStep(q, Len(l), ch) = Fail(q, "INVALID_METHOD")
    BY <1>2 DEF LineStep
  <2> QED
    BY <2>1, Refused DEF Codes
<1> QED
  BY <1>1, <1>2

\* sw_method
LEMMA LineMethod ==
    ASSUME NEW q, NEW l, NEW ch \in LineChars, NEW t \in Seq(LineChars), LineInv(q, l),
           Longer(t, l, ch), q.state = "method",
           Len(l) < WordLen[q.word] => ch = "A",
           Len(l) = WordLen[q.word] => ~Capital(ch)
    PROVE  LineStepped(LineStep(q, Len(l), ch), t)
<1> DEFINE p == Len(l)
<1>0. q \in Requests /\ l \in Seq(LineChars) /\ q.request_end = None
  BY DEF LineInv
<1>1. LineStep(q, p, ch) = Method(q, p, ch)
  BY DEF LineStep
<1>2. {"method", "blanks"} \subseteq LineStates \cup HeaderStates
  BY DEF LineStates
<1>6. /\ q.method_end = None /\ q.method = "UNKNOWN" /\ q.http_protocol = None
      /\ q.http_major = 0 /\ q.http_minor = 0 /\ p <= WordLen[q.word]
  BY <1>0, LineInvAt
<1>7. /\ p \in Nat /\ Len(t) = p + 1 /\ WordLen[q.word] \in 1 .. 5
      /\ \A i \in 1 .. p : t[i] = l[i]
      /\ t[p + 1] = ch
      /\ p < WordLen[q.word] => ch = "A"
      /\ p = WordLen[q.word] => ~Capital(ch)
  BY <1>0, WordLengths DEF Longer, Requests
<1> HIDE DEF p
<1>3. CASE ch = "SP" /\ p \in {3, 4}
  <2> DEFINE m == [q EXCEPT !.method_end = p,
                            !.method = IF q.word \in {"GET", "PUT", "POST"} THEN q.word ELSE @]
             g == Go(m, "blanks").r
  <2>1. Method(q, p, ch) = Go(m, "blanks")
    BY <1>3, Zenon DEF Method
  <2>2. m \in Requests
    <3>1. (IF q.word \in {"GET", "PUT", "POST"} THEN q.word ELSE q.method)
              \in DOMAIN WordLen \cup {"UNKNOWN"}
      BY <1>0 DEF Requests
    <3> QED
      BY <1>0, <1>7, <3>1, NamedMethod
  <2>3. /\ m.method_end = p /\ m.word = q.word /\ m.http_protocol = q.http_protocol
        /\ m.http_major = q.http_major /\ m.http_minor = q.http_minor
        /\ m.request_end = q.request_end
        /\ m.method = IF q.word \in {"GET", "PUT", "POST"} THEN q.word ELSE q.method
    BY <1>0 DEF Requests
  <2>6. /\ g \in Requests /\ g.state = "blanks" /\ g.request_end = None /\ g.word = m.word
        /\ g.method_end = m.method_end /\ g.method = m.method /\ g.http_protocol = m.http_protocol
        /\ g.http_major = m.http_major /\ g.http_minor = m.http_minor
    <3>1. "blanks" \in LineStates \cup HeaderStates
      BY <1>2
    <3> HIDE DEF m
    <3> QED
      BY <1>0, <2>2, <2>3, <3>1, GoOn
  <2> HIDE DEF m, g
  <2>4. p = WordLen[q.word]
    BY <1>3, <1>6, <1>7
  <2>5. g.method = "GET" => g.word = "GET"
    BY <1>6, <2>3, <2>6
  <2>7. MethodRead(g, t)
    BY <1>3, <1>7, <2>3, <2>4, <2>5, <2>6 DEF MethodRead
  <2>8. \A k \in g.method_end + 2 .. Len(t) : t[k] # "/"
    BY <1>7, <2>3, <2>6
  <2>9. LineInv(g, t)
    BY <1>6, <2>3, <2>6, <2>7, <2>8, LineInvAt
  <2> QED
    BY <1>1, <2>1, <2>9, Continued DEF g, p
<1>4. CASE ch # "SP" /\ Capital(ch)
  <2> DEFINE g == Go(q, "method").r
  <2>1. Method(q, p, ch) = Go(q, "method")
    BY <1>4, Zenon DEF Method
  <2>2. /\ g \in Requests /\ g.state = "method" /\ g.request_end = None /\ g.word = q.word
        /\ g.method_end = q.method_end /\ g.method = q.method /\ g.http_protocol = q.http_protocol
        /\ g.http_major = q.http_major /\ g.http_minor = q.http_minor
    BY <1>0, <1>2, GoOn
  <2> HIDE DEF g
  <2>3. Len(t) <= WordLen[q.word]
    BY <1>4, <1>6, <1>7
  <2>4. LineInv(g, t)
    BY <1>6, <2>2, <2>3, LineInvAt
  <2> QED
    BY <1>1, <2>1, <2>4, Continued DEF g, p
<1>5. CASE ~(ch = "SP" /\ p \in {3, 4}) /\ ~(ch # "SP" /\ Capital(ch))
  <2>1. Method(q, p, ch) = Fail(q, "INVALID_METHOD")
    BY <1>5, Zenon DEF Method
  <2> QED
    BY <1>1, <2>1, Refused DEF Codes, p
<1> QED
  BY <1>3, <1>4, <1>5

\* sw_spaces_before_uri
LEMMA LineBlanks ==
    ASSUME NEW q, NEW l, NEW ch \in LineChars, NEW t \in Seq(LineChars), LineInv(q, l),
           Longer(t, l, ch), q.state = "blanks"
    PROVE  LineStepped(LineStep(q, Len(l), ch), t)
<1> DEFINE p == Len(l)
<1>0. q \in Requests /\ l \in Seq(LineChars) /\ q.request_end = None
  BY DEF LineInv
<1>1. "blanks" \in LineStates \cup HeaderStates /\ "slash" \in LineStates \cup HeaderStates
  BY DEF LineStates
<1>2. /\ p \in Nat /\ p \in Int /\ Len(t) = p + 1 /\ t[p + 1] = ch
      /\ \A i \in 1 .. p : t[i] = l[i]
  BY DEF Longer
<1>3. /\ MethodRead(q, l) /\ q.http_protocol = None /\ q.http_major = 0 /\ q.http_minor = 0
      /\ \A k \in q.method_end + 2 .. p : l[k] # "/"
  BY <1>0, LineInvAt
<1>4. q.method_end \in {3, 4} /\ q.method_end + 1 <= p
  BY <1>3 DEF MethodRead
<1>5. \A k \in q.method_end + 2 .. p : t[k] # "/"
  BY <1>2, <1>3, <1>4
<1> HIDE DEF p
<1>6. CASE ch = "/"
  <2> DEFINE m == [q EXCEPT !.uri_start = p]
             g == Go(m, "slash").r
  <2>1. LineStep(q, p, ch) = Go(m, "slash")
    BY <1>6, Zenon DEF LineStep
  <2>2. /\ m \in Requests /\ m.method_end = q.method_end /\ m.word = q.word
        /\ m.http_protocol = q.http_protocol /\ m.http_major = q.http_major
        /\ m.http_minor = q.http_minor /\ m.request_end = q.request_end
        /\ m.method = q.method /\ m.uri_start = p
    BY <1>0, <1>2 DEF Requests
  <2> HIDE DEF m
  <2>3. /\ g \in Requests /\ g.state = "slash" /\ g.method_end = q.method_end /\ g.word = q.word
        /\ g.http_protocol = None /\ g.http_major = 0
        /\ g.http_minor = 0 /\ g.request_end = None
        /\ g.method = q.method /\ g.uri_start = p
    BY <1>0, <1>1, <1>3, <2>2, GoOn
  <2> HIDE DEF g
  <2>4. MethodRead(g, t)
    BY <1>0, <1>3, <2>3, KeepsMethod
  <2>5. UriFound(g, t)
    BY <1>2, <1>4, <1>5, <1>6, <2>3 DEF UriFound
  <2>6. LineInv(g, t)
    BY <1>2, <2>3, <2>4, <2>5, LineInvAt
  <2> QED
    BY <2>1, <2>6, Continued DEF g, p
<1>7. CASE ch # "/"
  <2> DEFINE g == Go(q, "blanks").r
  <2>1. LineStep(q, p, ch) = Go(q, "blanks")
    BY <1>7, Zenon DEF LineStep
  <2>3. /\ g \in Requests /\ g.state = "blanks" /\ g.method_end = q.method_end /\ g.word = q.word
        /\ g.http_protocol = None /\ g.http_major = 0
        /\ g.http_minor = 0 /\ g.request_end = None
        /\ g.method = q.method
    BY <1>0, <1>1, <1>3, GoOn
  <2> HIDE DEF g
  <2>4. MethodRead(g, t)
    BY <1>0, <1>3, <2>3, KeepsMethod
  <2>5. \A k \in g.method_end + 2 .. Len(t) : t[k] # "/"
    BY <1>2, <1>4, <1>5, <1>7, <2>3
  <2>6. LineInv(g, t)
    BY <2>3, <2>4, <2>5, LineInvAt
  <2> QED
    BY <2>1, <2>6, Continued DEF g, p
<1> QED
  BY <1>6, <1>7

\* sw_after_slash_in_uri
LEMMA LineSlash ==
    ASSUME NEW q, NEW l, NEW ch \in LineChars, NEW t \in Seq(LineChars), LineInv(q, l),
           Longer(t, l, ch), q.state = "slash"
    PROVE  LineStepped(LineStep(q, Len(l), ch), t)
<1> DEFINE p == Len(l)
<1>0. q \in Requests /\ l \in Seq(LineChars) /\ q.request_end = None
  BY DEF LineInv
<1>1. "http_09" \in LineStates \cup HeaderStates /\ "check_uri" \in LineStates \cup HeaderStates
  BY DEF LineStates
<1>2. /\ p \in Nat /\ p \in Int /\ Len(t) = p + 1 /\ t[p + 1] = ch
      /\ \A i \in 1 .. p : t[i] = l[i]
  BY DEF Longer
<1>3. /\ MethodRead(q, l) /\ q.http_protocol = None /\ q.http_major = 0 /\ q.http_minor = 0
      /\ UriFound(q, l) /\ p = q.uri_start + 1
  BY <1>0, LineInvAt
<1>4. LineStep(q, p, ch) = AfterSlash(q, p, ch)
  BY Zenon DEF LineStep
<1> HIDE DEF p
<1>5. CASE ch = "SP"
  <2> DEFINE m == [q EXCEPT !.uri_end = p]
             g == Go(m, "http_09").r
  <2>1. AfterSlash(q, p, ch) = Go(m, "http_09")
    BY <1>5, Zenon DEF AfterSlash
  <2>2. /\ m \in Requests /\ m.method_end = q.method_end /\ m.word = q.word
        /\ m.http_protocol = q.http_protocol /\ m.http_major = q.http_major
        /\ m.http_minor = q.http_minor /\ m.request_end = q.request_end
        /\ m.method = q.method /\ m.uri_start = q.uri_start /\ m.uri_end = p
    BY <1>0, <1>2 DEF Requests
  <2> HIDE DEF m
  <2>3. /\ g \in Requests /\ g.state = "http_09" /\ g.method_end = q.method_end /\ g.word = q.word
        /\ g.http_protocol = None /\ g.http_major = 0
        /\ g.http_minor = 0 /\ g.request_end = None
        /\ g.method = q.method /\ g.uri_start = q.uri_start /\ g.uri_end = p
    BY <1>0, <1>1, <1>3, <2>2, GoOn
  <2> HIDE DEF g
  <2>4. MethodRead(g, t) /\ UriFound(g, t)
    BY <1>0, <1>3, <2>3, KeepsUri
  <2>5. UriRead(g, t)
    BY <1>2, <1>3, <2>3, <2>4 DEF UriRead
  <2>6. IsBlank(t, g.uri_end + 1, Len(t))
    BY <1>2, <1>5, <2>3 DEF IsBlank
  <2>7. LineInv(g, t)
    BY <2>3, <2>5, <2>6, LineInvAt
  <2> QED
    BY <1>4, <2>1, <2>7, Continued DEF g, p
<1>6. CASE ch \in {"ctl", "CR", "LF"}
  <2>1. AfterSlash(q, p, ch) = Fail(q, "INVALID_REQUEST")
    BY <1>6 DEF AfterSlash
  <2> QED
    BY <1>4, <2>1, Refused DEF Codes, p
<1>7. CASE ch # "SP" /\ ch \notin {"ctl", "CR", "LF"}
  <2> DEFINE g == Go(q, "check_uri").r
  <2>1. AfterSlash(q, p, ch) = Go(q, "check_uri")
    BY <1>7 DEF AfterSlash
  <2>2. g \in Requests /\ g.state = "check_uri" /\ g.request_end = None
    BY <1>0, <1>1, GoOn
  <2> HIDE DEF g
  <2>3. LineInv(g, t)
    BY <2>2, LineInvAt
  <2> QED
    BY <1>4, <2>1, <2>3, Continued DEF g, p
<1> QED
  BY <1>5, <1>6, <1>7

\* done: of night_http_parse_request_line.
LEMMA Finished ==
    ASSUME NEW q \in Requests, NEW t \in Seq(LineChars), NEW p \in Nat, NEW e \in Nat,
           (q.request_end = None /\ e = p) \/ q.request_end = e,
           UriRead(q, t), t[Len(t)] = "LF",
           \/ e = Len(t) - 1 /\ t[Len(t) - 1] # "CR"
           \/ e = Len(t) - 2 /\ t[Len(t) - 1] = "CR",
           Tail09(q, t, e) \/ TailVersion(q, t, e)
    PROVE  LineStepped(Done(q, p), t)
<1> DEFINE s == [q EXCEPT !.request_end = e]
           rc == IF s.http_major = 0 /\ s.http_minor = 9 /\ s.method # "GET"
                 THEN "INVALID_09_METHOD" ELSE "OK"
<1>1. (IF q.request_end = None THEN p ELSE q.request_end) = e
  BY DEF None
<1>2. Done(q, p) = [r |-> s, rc |-> rc]
  BY <1>1 DEF Done
<1>9. e \in Int
  OBVIOUS
<1>3. /\ s \in Requests /\ s.method_end = q.method_end /\ s.word = q.word
      /\ s.http_protocol = q.http_protocol /\ s.http_major = q.http_major
      /\ s.http_minor = q.http_minor /\ s.request_end = e
      /\ s.method = q.method /\ s.uri_start = q.uri_start /\ s.uri_end = q.uri_end
  BY <1>9 DEF Requests
<1> HIDE DEF s
<1>4. UriRead(s, t)
  BY <1>3 DEF UriRead, UriFound, MethodRead
<1>5. Tail09(s, t, e) \/ TailVersion(s, t, e)
  BY <1>3 DEF Tail09, TailVersion, ProtocolFound
<1>6. Tail09(s, t, e) /\ rc = "OK" => s.word = "GET"
  BY <1>4 DEF Tail09, UriRead, MethodRead
<1>7. rc = "OK" => LineDone(s, t)
  BY <1>3, <1>4, <1>5, <1>6 DEF LineDone
<1>8. rc \in Codes /\ rc # "AGAIN"
  BY DEF Codes
<1> HIDE DEF rc
<1> QED
  BY <1>2, <1>7, <1>8 DEF LineStepped

\* sw_check_uri, which the switch does not handle
LEMMA LineCheckUri ==
    ASSUME NEW q, NEW l, NEW ch, NEW t, q.state = "check_uri"
    PROVE  LineStepped(LineStep(q, Len(l), ch), t)
<1>1. LineStep(q, Len(l), ch) = Fail(q, "ERROR")
  BY DEF LineStep
<1> QED
  BY <1>1, Refused DEF Codes

\* sw_http_09
LEMMA LineHttp09 ==
    ASSUME NEW q, NEW l, NEW ch \in LineChars, NEW t \in Seq(LineChars), LineInv(q, l),
           Longer(t, l, ch), q.state = "http_09"
    PROVE  LineStepped(LineStep(q, Len(l), ch), t)
<1> DEFINE p == Len(l)
<1>0. q \in Requests /\ l \in Seq(LineChars) /\ q.request_end = None
  BY DEF LineInv
<1>1. /\ "http_09" \in LineStates \cup HeaderStates /\ "H" \in LineStates \cup HeaderStates
      /\ "almost_done" \in LineStates \cup HeaderStates
  BY DEF LineStates
<1>2. /\ p \in Nat /\ p \in Int /\ Len(t) = p + 1 /\ t[p + 1] = ch
      /\ \A i \in 1 .. p : t[i] = l[i]
  BY DEF Longer
<1>3. /\ q.http_protocol = None /\ q.http_major = 0 /\ q.http_minor = 0
      /\ UriRead(q, l) /\ IsBlank(l, q.uri_end + 1, p)
  BY <1>0, LineInvAt
<1>4. LineStep(q, p, ch) = Http09(q, p, ch)
  BY Zenon DEF LineStep
<1>5. q.uri_end \in Nat /\ q.uri_end + 1 <= p /\ q.uri_end >= 5
  BY <1>0, <1>2, <1>3, UriPlaces
<1>6. IsBlank(t, q.uri_end + 1, p)
  BY <1>2, <1>3, <1>5 DEF IsBlank
<1> HIDE DEF p
<1>10. CASE ch = "SP"
  <2> DEFINE g == Go(q, "http_09").r
  <2>1. Http09(q, p, ch) = Go(q, "http_09")
    BY <1>10, Zenon DEF Http09
  <2>3. /\ g \in Requests /\ g.state = "http_09" /\ g.method_end = q.method_end /\ g.word = q.word
        /\ g.http_protocol = None /\ g.http_major = 0
        /\ g.http_minor = 0 /\ g.request_end = None
        /\ g.method = q.method /\ g.uri_start = q.uri_start /\ g.uri_end = q.uri_end
    BY <1>0, <1>1, <1>3, GoOn
  <2> HIDE DEF g
  <2>4. UriRead(g, t)
    BY <1>0, <1>3, <2>3, KeepsUriRead
  <2>5. IsBlank(t, g.uri_end + 1, Len(t))
    BY <1>2, <1>5, <1>6, <1>10, <2>3 DEF IsBlank
  <2>6. LineInv(g, t)
    BY <2>3, <2>4, <2>5, LineInvAt
  <2> QED
    BY <1>4, <2>1, <2>6, Continued DEF g, p
<1>11. CASE ch \in {"CR", "LF"}
  <2> DEFINE m == [q EXCEPT !.http_minor = 9]
             g == Go(m, "almost_done").r
  <2>2. /\ m \in Requests /\ m.method_end = q.method_end /\ m.word = q.word
        /\ m.http_protocol = q.http_protocol /\ m.http_major = q.http_major
        /\ m.http_minor = 9 /\ m.request_end = q.request_end
        /\ m.method = q.method /\ m.uri_start = q.uri_start /\ m.uri_end = q.uri_end
    BY <1>0 DEF Requests
  <2>7. ch = "CR" => Http09(q, p, ch) = Go(m, "almost_done")
    BY Zenon DEF Http09
  <2>8. ch = "LF" => Http09(q, p, ch) = Done(m, p)
    BY Zenon DEF Http09
  <2> HIDE DEF m
  <2>3. /\ g \in Requests /\ g.state = "almost_done" /\ g.method_end = q.method_end
        /\ g.word = q.word /\ g.http_protocol = None /\ g.http_major = 0
        /\ g.http_minor = 9 /\ g.request_end = None
        /\ g.method = q.method /\ g.uri_start = q.uri_start /\ g.uri_end = q.uri_end
    BY <1>0, <1>1, <1>3, <2>2, GoOn
  <2> HIDE DEF g
  <2>4. UriRead(g, t) /\ UriRead(m, t)
    BY <1>0, <1>3, <2>2, <2>3, KeepsUriRead
  <2>5. Tail09(g, t, p) /\ Tail09(m, t, p)
    BY <1>3, <1>5, <1>6, <2>2, <2>3 DEF Tail09
  <2>6. CASE ch = "CR"
    <3>1. LineInv(g, t)
      <4>1. Tail09(g, t, Len(t) - 1) /\ t[Len(t)] = "CR"
        BY <1>2, <2>5, <2>6
      <4> QED
        BY <2>3, <2>4, <4>1, LineInvAt
    <3> QED
      BY <1>4, <2>6, <2>7, <3>1, Continued DEF g, p
  <2>9. CASE ch = "LF"
    <3>1. t[p] = "SP" /\ t[Len(t)] = "LF" /\ Len(t) - 1 = p
      BY <1>2, <1>5, <1>6, <2>9 DEF IsBlank
    <3>2. m.request_end = None
      BY <1>0, <2>2
    <3>3. LineStepped(Done(m, p), t)
      BY <1>2, <2>2, <2>4, <2>5, <3>1, <3>2, Finished
    <3> QED
      BY <1>4, <2>8, <2>9, <3>3 DEF p
  <2> QED
    BY <1>11, <2>6, <2>9
<1>12. CASE ch = "H"
  <2> DEFINE m == [q EXCEPT !.http_protocol = p]
             g == Go(m, "H").r
  <2>1. Http09(q, p, ch) = Go(m, "H")
    BY <1>12, Zenon DEF Http09
  <2>2. /\ m \in Requests /\ m.method_end = q.method_end /\ m.word = q.word
        /\ m.http_protocol = p /\ m.http_major = q.http_major
        /\ m.http_minor = q.http_minor /\ m.request_end = q.request_end
        /\ m.method = q.method /\ m.uri_start = q.uri_start /\ m.uri_end = q.uri_end
    BY <1>0, <1>2 DEF Requests
  <2> HIDE DEF m
  <2>3. /\ g \in Requests /\ g.state = "H" /\ g.method_end = q.method_end
        /\ g.word = q.word /\ g.http_protocol = p /\ g.http_major = 0
        /\ g.request_end = None
        /\ g.method = q.method /\ g.uri_start = q.uri_start /\ g.uri_end = q.uri_end
    BY <1>0, <1>1, <1>3, <2>2, GoOn
  <2> HIDE DEF g
  <2>4. UriRead(g, t)
    BY <1>0, <1>3, <2>3, KeepsUriRead
  <2>5. ProtocolFound(g, t, Len(t))
    BY <1>2, <1>5, <1>6, <2>3 DEF ProtocolFound
  <2>6. Reached["H"] = 1 /\ "H" \in DOMAIN Reached /\ Letters[1] = "H"
    BY DEF Reached, Letters
  <2>7. Spelled(t, g.http_protocol, 1)
    BY <1>2, <1>12, <2>3, <2>6 DEF Spelled
  <2>8. Len(t) = g.http_protocol + 1
    BY <1>2, <2>3
  <2>9. LineInv(g, t)
    BY <2>3, <2>4, <2>5, <2>6, <2>7, <2>8, LineInvAt
  <2> QED
    BY <1>4, <2>1, <2>9, Continued DEF g, p
<1>13. CASE ch \notin {"SP", "CR", "LF", "H"}
  <2>1. Http09(q, p, ch) = Fail(q, "INVALID_REQUEST")
    BY <1>13 DEF Http09
  <2> QED
    BY <1>4, <2>1, Refused DEF Codes, p
<1> QED
  BY <1>10, <1>11, <1>12, <1>13

\* One more of the characters of "HTTP/1.".
LEMMA NextLetter ==
    ASSUME NEW q \in Requests, NEW l, NEW ch, NEW t \in Seq(LineChars), LineInv(q, l),
           Longer(t, l, ch), q.state \in DOMAIN Reached, NEW x \in DOMAIN Reached,
           Reached[x] = Reached[q.state] + 1, ch = Letters[Reached[x]], NEW m \in Requests,
           m.method_end = q.method_end, m.word = q.word, m.method = q.method,
           m.uri_start = q.uri_start, m.uri_end = q.uri_end,
           m.http_protocol = q.http_protocol, m.request_end = q.request_end,
           m.http_major = IF x \in {"major", "first_minor"} THEN 1 ELSE 0
    PROVE  LineStepped(Go(m, x), t)
<1> DEFINE p == Len(l)
           hp == q.http_protocol
           k == Reached[q.state]
           g == Go(m, x).r
<1>0. l \in Seq(LineChars) /\ q.request_end = None
  BY DEF LineInv
<1>1. x \in LineStates \cup HeaderStates /\ k \in 1 .. 7
  BY DEF LineStates, Reached
<1>2. /\ p \in Nat /\ Len(t) = p + 1 /\ t[p + 1] = ch
      /\ \A i \in 1 .. p : t[i] = l[i]
  BY DEF Longer
<1>3. /\ UriRead(q, l) /\ ProtocolFound(q, l, p) /\ p = hp + k /\ Spelled(l, hp, k)
  BY <1>0, LineInvAt
<1>4. q.uri_end \in Nat /\ q.uri_end + 1 <= p /\ q.uri_end >= 5
  BY <1>2, <1>3, UriPlaces
<1>5. /\ g \in Requests /\ g.state = x /\ g.method_end = q.method_end
      /\ g.word = q.word /\ g.http_protocol = hp /\ g.http_major = m.http_major
      /\ g.request_end = None
      /\ g.method = q.method /\ g.uri_start = q.uri_start /\ g.uri_end = q.uri_end
  BY <1>0, <1>1, GoOn
<1> HIDE DEF p, hp, k, g
<1>6. hp \in q.uri_end + 1 .. p - 1 /\ IsBlank(l, q.uri_end + 1, hp)
  BY <1>3 DEF ProtocolFound, hp
<1>7. UriRead(g, t)
  BY <1>3, <1>5, KeepsUriRead
<1>8. IsBlank(t, q.uri_end + 1, hp)
  BY <1>2, <1>4, <1>6 DEF IsBlank
<1>9. ProtocolFound(g, t, Len(t))
  BY <1>2, <1>4, <1>5, <1>6, <1>8 DEF ProtocolFound
<1>10. Reached[x] = k + 1 /\ ch = Letters[k + 1]
  BY DEF k
<1>11. Spelled(t, hp, k + 1)
  <2> SUFFICES ASSUME NEW j \in 1 .. k + 1 PROVE t[hp + j] = Letters[j]
    BY DEF Spelled
  <2>1. CASE j = k + 1
    <3>1. p = hp + k /\ hp \in Int /\ k \in Int
      BY <1>1, <1>3, <1>4, <1>6
    <3>2. hp + j = p + 1
      BY <2>1, <3>1
    <3> QED
      BY <1>2, <1>10, <2>1, <3>2
  <2>2. CASE j \in 1 .. k
    <3>1. hp + j \in 1 .. p
      BY <1>1, <1>2, <1>3, <1>4, <1>6, <2>2
    <3>2. l[hp + j] = Letters[j]
      BY <1>3, <2>2 DEF Spelled
    <3> QED
      BY <1>2, <3>1, <3>2
  <2> QED
    BY <1>1, <2>1, <2>2
<1>12. Len(t) = hp + (k + 1)
  BY <1>1, <1>2, <1>3, <1>4, <1>6
<1>13. LineInv(g, t)
  BY <1>5, <1>7, <1>9, <1>10, <1>11, <1>12, LineInvAt
<1> QED
  BY <1>13, Continued DEF g

\* sw_http_H to sw_http_HTTP: the letters of "HTTP/".
LEMMA LineLetters ==
    ASSUME NEW q, NEW l, NEW ch \in LineChars, NEW t \in Seq(LineChars), LineInv(q, l),
           Longer(t, l, ch), q.state \in {"H", "HT", "HTT", "HTTP"}
    PROVE  LineStepped(LineStep(q, Len(l), ch), t)
<1> DEFINE wanted == CASE q.state \in {"H", "HT"} -> "T" [] q.state = "HTT" -> "P"
                       [] q.state = "HTTP" -> "/"
           x == CASE q.state = "H" -> "HT" [] q.state = "HT" -> "HTT" [] q.state = "HTT" -> "HTTP"
                  [] q.state = "HTTP" -> "first_major"
<1>0. q \in Requests /\ q.request_end = None /\ l \in Seq(LineChars)
  BY DEF LineInv
<1>1. LineStep(q, Len(l), ch) = Expect(q, ch, wanted, x)
  BY DEF LineStep
<1>2. /\ q.state \in DOMAIN Reached /\ x \in DOMAIN Reached
      /\ Reached[x] = Reached[q.state] + 1 /\ wanted = Letters[Reached[x]]
      /\ x \notin {"major", "first_minor"} /\ q.state \notin {"major", "first_minor"}
  BY DEF Reached, Letters
<1>3. q.http_major = 0
  BY <1>0, <1>2, LineInvAt
<1> HIDE DEF wanted, x
<1>4. CASE ch = wanted
  BY <1>0, <1>1, <1>2, <1>3, <1>4, NextLetter DEF Expect
<1>5. CASE ch # wanted
  BY <1>1, <1>5, Refused DEF Expect, Codes
<1> QED
  BY <1>4, <1>5

\* sw_first_major_digit
LEMMA LineFirstMajor ==
    ASSUME NEW q, NEW l, NEW ch \in LineChars, NEW t \in Seq(LineChars), LineInv(q, l),
           Longer(t, l, ch), q.state = "first_major"
    PROVE  LineStepped(LineStep(q, Len(l), ch), t)
<1>0. q \in Requests /\ q.request_end = None /\ l \in Seq(LineChars)
  BY DEF LineInv
<1>1. CASE ch = "1"
  <2> DEFINE m == [q EXCEPT !.http_major = 1]
  <2>1. LineStep(q, Len(l), ch) = Major(q, ch, 1)
    BY <1>1, DigitValues DEF LineStep
  <2>2. Major(q, ch, 1) = Go(m, "major")
    BY DEF Major
  <2>3. /\ m \in Requests /\ m.method_end = q.method_end /\ m.word = q.word
        /\ m.http_protocol = q.http_protocol /\ m.http_major = 1
        /\ m.request_end = q.request_end
        /\ m.method = q.method /\ m.uri_start = q.uri_start /\ m.uri_end = q.uri_end
    BY <1>0 DEF Requests
  <2> HIDE DEF m
  <2>4. /\ q.state \in DOMAIN Reached /\ "major" \in DOMAIN Reached
        /\ Reached["major"] = Reached[q.state] + 1 /\ ch = Letters[Reached["major"]]
    BY <1>1 DEF Reached, Letters
  <2> QED
    BY <1>0, <2>1, <2>2, <2>3, <2>4, NextLetter
<1>2. CASE ch = "9"
  <2>1. LineStep(q, Len(l), ch) = Major(q, ch, 9)
    BY <1>2, DigitValues DEF LineStep
  <2> QED
    BY <2>1, Refused DEF Major, Codes
<1>3. CASE ch \notin {"1", "9"}
  <2>1. LineStep(q, Len(l), ch) = Fail(q, "INVALID_REQUEST")
    BY <1>3, DigitValues DEF LineStep
  <2> QED
    BY <2>1, Refused DEF Codes
<1> QED
  BY <1>1, <1>2, <1>3

\* sw_major_digit
LEMMA LineMajor ==
    ASSUME NEW q, NEW l, NEW ch \in LineChars, NEW t \in Seq(LineChars), LineInv(q, l),
           Longer(t, l, ch), q.state = "major"
    PROVE  LineStepped(LineStep(q, Len(l), ch), t)
<1>0. q \in Requests /\ q.request_end = None /\ l \in Seq(LineChars)
  BY DEF LineInv
<1>4. /\ q.state \in DOMAIN Reached /\ "first_minor" \in DOMAIN Reached
      /\ Reached["first_minor"] = Reached[q.state] + 1
      /\ Letters[Reached["first_minor"]] = "."
  BY DEF Reached, Letters
<1>5. q.http_major = 1
  BY <1>0, <1>4, LineInvAt
<1>1. CASE ch = "."
  <2>1. LineStep(q, Len(l), ch) = Go(q, "first_minor")
    BY <1>1 DEF LineStep
  <2> QED
    BY <1>0, <1>1, <1>4, <1>5, <2>1, NextLetter
<1>2. CASE ch \in DOMAIN Digits
  <2>1. LineStep(q, Len(l), ch) = Major(q, ch, q.http_major * 10 + Digits[ch])
    BY <1>2, DigitValues DEF LineStep
  <2>2. q.http_major * 10 + Digits[ch] > 1
    BY <1>2, <1>5, DigitValues
  <2> QED
    BY <2>1, <2>2, Refused DEF Major, Codes
<1>3. CASE ch # "." /\ ch \notin DOMAIN Digits
  <2>1. LineStep(q, Len(l), ch) = Fail(q, "INVALID_REQUEST")
    BY <1>3 DEF LineStep
  <2> QED
    BY <2>1, Refused DEF Codes
<1> QED
  BY <1>1, <1>2, <1>3

\* A version in front of which the line is as it should be.
LEMMA VersionGoesOn ==
    ASSUME NEW q \in Requests, NEW l, NEW ch, NEW t \in Seq(LineChars), Longer(t, l, ch),
           NEW m \in Requests, q.request_end = None, UriRead(q, l),
           m.method_end = q.method_end, m.word = q.word, m.method = q.method,
           m.uri_start = q.uri_start, m.uri_end = q.uri_end,
           m.http_protocol = q.http_protocol, m.request_end = q.request_end,
           m.http_major = 1, ProtocolFound(q, l, Len(l)), Spelled(l, q.http_protocol, 7),
           q.http_protocol + 7 <= Len(l),
           Number(m.http_minor, t, q.http_protocol + 8, Len(t))
    PROVE  LineStepped(Go(m, "minor"), t)
<1> DEFINE p == Len(l)
           hp == q.http_protocol
           g == Go(m, "minor").r
<1>1. "minor" \in LineStates \cup HeaderStates
  BY DEF LineStates
<1>2. /\ p \in Nat /\ Len(t) = p + 1 /\ \A i \in 1 .. p : t[i] = l[i]
  BY DEF Longer
<1>3. q.uri_end \in Nat /\ q.uri_end + 1 <= p /\ q.uri_end >= 5
  BY <1>2, UriPlaces
<1>4. /\ g \in Requests /\ g.state = "minor" /\ g.method_end = q.method_end
      /\ g.word = q.word /\ g.http_protocol = hp /\ g.http_major = 1
      /\ g.http_minor = m.http_minor /\ g.request_end = None
      /\ g.method = q.method /\ g.uri_start = q.uri_start /\ g.uri_end = q.uri_end
  BY <1>1, GoOn
<1>5. /\ hp \in q.uri_end + 1 .. p - 1 /\ IsBlank(l, q.uri_end + 1, hp)
      /\ hp + 7 <= p /\ Spelled(l, hp, 7) /\ Number(m.http_minor, t, hp + 8, Len(t))
  BY DEF ProtocolFound
<1> HIDE DEF p, hp, g
<1>6. UriRead(g, t)
  BY <1>4, KeepsUriRead
<1>7. IsBlank(t, q.uri_end + 1, hp)
  BY <1>2, <1>3, <1>5 DEF IsBlank
<1>8. ProtocolFound(g, t, Len(t))
  BY <1>2, <1>3, <1>4, <1>5, <1>7 DEF ProtocolFound
<1>9. Spelled(t, hp, 7)
  <2>1. hp \in Nat /\ 7 \in Nat /\ hp + 7 <= Len(l)
    BY <1>2, <1>3, <1>5 DEF p
  <2> QED
    BY <1>5, <2>1, KeepsSpelled
<1>10. hp + 8 <= Len(t)
  BY <1>2, <1>3, <1>5
<1>11. TailVersion(g, t, Len(t))
  BY <1>4, <1>5, <1>8, <1>9, <1>10 DEF TailVersion
<1>12. LineInv(g, t)
  BY <1>4, <1>6, <1>11, LineInvAt
<1> QED
  BY <1>12, Continued DEF g

\* sw_first_minor_digit
LEMMA LineFirstMinor ==
    ASSUME NEW q, NEW l, NEW ch \in LineChars, NEW t \in Seq(LineChars), LineInv(q, l),
           Longer(t, l, ch), q.state = "first_minor"
    PROVE  LineStepped(LineStep(q, Len(l), ch), t)
<1>0. q \in Requests /\ q.request_end = None /\ l \in Seq(LineChars)
  BY DEF LineInv
<1>4. q.state \in DOMAIN Reached /\ Reached[q.state] = 7
  BY DEF Reached
<1>5. /\ q.http_major = 1 /\ UriRead(q, l) /\ ProtocolFound(q, l, Len(l))
      /\ Len(l) = q.http_protocol + 7 /\ Spelled(l, q.http_protocol, 7)
  BY <1>0, <1>4, LineInvAt
<1>1. CASE ch \in DOMAIN Digits
  <2> DEFINE m == [q EXCEPT !.http_minor = Digits[ch]]
  <2>1. LineStep(q, Len(l), ch) = Go(m, "minor")
    BY <1>1 DEF LineStep
  <2>2. Digits[ch] \in 0 .. 9 /\ Digits[ch] \in Nat
    BY <1>1, DigitValues
  <2>3. /\ m \in Requests /\ m.method_end = q.method_end /\ m.word = q.word
        /\ m.http_protocol = q.http_protocol /\ m.http_major = 1 /\ m.http_minor = Digits[ch]
        /\ m.request_end = q.request_end
        /\ m.method = q.method /\ m.uri_start = q.uri_start /\ m.uri_end = q.uri_end
    BY <1>0, <1>5, <2>2 DEF Requests
  <2> HIDE DEF m
  <2>4. Len(l) \in Nat /\ Len(t) = Len(l) + 1 /\ t[Len(l) + 1] = ch /\ q.http_protocol \in Int
    BY <1>0 DEF Longer, Requests
  <2>5. Len(t) = q.http_protocol + 8 /\ t[q.http_protocol + 8] = ch
    BY <1>5, <2>4
  <2>6. Number(m.http_minor, t, q.http_protocol + 8, Len(t))
    <3> DEFINE i == q.http_protocol + 8
    <3>1. i \in Int /\ Len(t) = i /\ t[i] = ch /\ m.http_minor = Digits[t[i]]
      BY <2>3, <2>4, <2>5
    <3> HIDE DEF i
    <3>2. i \in i .. Len(t)
      BY <3>1
    <3>3. \A k \in i .. i - 1 : t[k] = "0"
      BY <3>1
    <3>4. \A k \in i .. Len(t) : t[k] \in DOMAIN Digits
      BY <1>1, <3>1
    <3>5. Number(m.http_minor, t, i, Len(t))
      BY <3>1, <3>2, <3>3, <3>4 DEF Number
    <3> QED
      BY <3>5 DEF i
  <2>7. q.http_protocol + 7 <= Len(l)
    BY <1>5, <2>4
  <2> QED
    BY <1>0, <1>5, <2>1, <2>3, <2>6, <2>7, VersionGoesOn
<1>2. CASE ch \notin DOMAIN Digits
  <2>1. LineStep(q, Len(l), ch) = Fail(q, "INVALID_REQUEST")
    BY <1>2 DEF LineStep
  <2> QED
    BY <2>1, Refused DEF Codes
<1> QED
  BY <1>1, <1>2

\* Where the zeros in front of a number end.
LEMMA NumberFrom ==
    ASSUME NEW v, NEW l, NEW from, NEW to, NEW i \in from .. to,
           \A k \in from .. i - 1 : l[k] = "0",
           \A k \in i .. to : l[k] \in DOMAIN Digits,
           \/ to = i /\ v = Digits[l[i]]
           \/ to = i + 1 /\ v \in 10 .. 99
           \/ to = i + 2 /\ v \in 100 .. 999
    PROVE  Number(v, l, from, to)
<1> DEFINE Worth(j) == \/ to = j /\ v = Digits[l[j]]
                       \/ to = j + 1 /\ v \in 10 .. 99
                       \/ to = j + 2 /\ v \in 100 .. 999
<1>1. Worth(i)
  OBVIOUS
<1>2. \E j \in from .. to : /\ \A k \in from .. j - 1 : l[k] = "0"
                            /\ \A k \in j .. to : l[k] \in DOMAIN Digits
                            /\ Worth(j)
  <2> HIDE DEF Worth
  <2> QED
    BY <1>1
<1> QED
  BY <1>2 DEF Number

\* One more digit behind a number of at most two.
LEMMA MoreDigits ==
    ASSUME NEW l, NEW t, NEW ch \in DOMAIN Digits, Longer(t, l, ch), NEW m \in 0 .. 99,
           NEW from \in Nat, from >= 1, from <= Len(l), Number(m, l, from, Len(l))
    PROVE  Number(m * 10 + Digits[ch], t, from, Len(t))
<1> DEFINE to == Len(l)
           d == Digits[ch]
<1>0. /\ to \in Nat /\ Len(t) = to + 1 /\ t[to + 1] = ch /\ from <= to
      /\ \A k \in 1 .. to : t[k] = l[k]
  BY DEF Longer
<1>1. PICK i \in from .. to :
        /\ \A k \in from .. i - 1 : l[k] = "0"
        /\ \A k \in i .. to : l[k] \in DOMAIN Digits
        /\ \/ to = i /\ m = Digits[l[i]]
           \/ to = i + 1 /\ m \in 10 .. 99
           \/ to = i + 2 /\ m \in 100 .. 999
  BY DEF Number
<1>2. d \in 0 .. 9
  BY DigitValues
<1> HIDE DEF to, d
<1>3. /\ \A k \in from .. i - 1 : t[k] = "0"
      /\ \A k \in i .. to + 1 : t[k] \in DOMAIN Digits
  BY <1>0, <1>1
<1>4. CASE to = i /\ m = 0
  <2>1. l[i] = "0"
    BY <1>1, <1>4, DigitValues
  <2>2. \A k \in from .. to : t[k] = "0"
    BY <1>0, <1>1, <1>4, <2>1
  <2>3. to + 1 \in from .. to + 1 /\ (to + 1) - 1 = to
    BY <1>0
  <2>4. m * 10 + d = Digits[t[to + 1]]
    BY <1>0, <1>2, <1>4 DEF d
  <2>5. \A k \in to + 1 .. to + 1 : t[k] \in DOMAIN Digits
    BY <1>0
  <2>6. Number(m * 10 + d, t, from, to + 1)
    <3> DEFINE v == m * 10 + d
               n == to + 1
    <3>1. /\ v = Digits[t[n]] /\ n \in from .. n
          /\ \A k \in from .. n - 1 : t[k] = "0"
          /\ \A k \in n .. n : t[k] \in DOMAIN Digits
      BY <2>2, <2>3, <2>4, <2>5
    <3> HIDE DEF v, n
    <3>2. Number(v, t, from, n)
      BY <3>1, NumberFrom
    <3> QED
      BY <3>2 DEF v, n
  <2> QED
    BY <1>0, <2>6 DEF d
<1>5. CASE ~(to = i /\ m = 0)
  <2>1. \/ to + 1 = i + 1 /\ m * 10 + d \in 10 .. 99
        \/ to + 1 = i + 2 /\ m * 10 + d \in 100 .. 999
    <3>1. CASE to = i /\ m = Digits[l[i]]
      <4>1. m \in 1 .. 9
        BY <1>1, <1>5, <3>1, DigitValues
      <4>2. \A a \in 1 .. 9, b \in 0 .. 9 : a * 10 + b \in 10 .. 99
        OBVIOUS
      <4>3. m * 10 + d \in 10 .. 99
        BY <1>2, <4>1, <4>2
      <4> QED
        BY <3>1, <4>3
    <3>2. CASE to = i + 1 /\ m \in 10 .. 99
      BY <1>2, <3>2
    <3> QED
      BY <1>1, <3>1, <3>2
  <2>2. i \in from .. to + 1
    BY <1>0, <1>1
  <2> DEFINE v == m * 10 + d
             n == to + 1
  <2>3. /\ i \in from .. n
        /\ \A k \in from .. i - 1 : t[k] = "0"
        /\ \A k \in i .. n : t[k] \in DOMAIN Digits
        /\ (n = i + 1 /\ v \in 10 .. 99) \/ (n = i + 2 /\ v \in 100 .. 999)
    BY <1>3, <2>1, <2>2
  <2> HIDE DEF v, n
  <2>4. Number(v, t, from, n)
    BY <2>3, NumberFrom
  <2> QED
    BY <1>0, <2>4 DEF d, v, n
<1> QED
  BY <1>4, <1>5

\* A number ends in a digit.
LEMMA NumberEnds ==
    ASSUME NEW m, NEW l, NEW from \in Nat, NEW to \in Nat, Number(m, l, from, to)
    PROVE  l[to] \in DOMAIN Digits
BY DEF Number

\* sw_minor_digit
LEMMA LineMinor ==
    ASSUME NEW q, NEW l, NEW ch \in LineChars, NEW t \in Seq(LineChars), LineInv(q, l),
           Longer(t, l, ch), q.state = "minor"
    PROVE  LineStepped(LineStep(q, Len(l), ch), t)
<1> DEFINE p == Len(l)
<1>0. q \in Requests /\ q.request_end = None /\ l \in Seq(LineChars)
  BY DEF LineInv
<1>1. "almost_done" \in LineStates \cup HeaderStates
  BY DEF LineStates
<1>2. p \in Nat /\ p <= Len(l) /\ Len(t) = p + 1 /\ t[p + 1] = ch /\ \A i \in 1 .. p : t[i] = l[i]
  BY DEF Longer
<1>3. UriRead(q, l) /\ TailVersion(q, l, p)
  BY <1>0, LineInvAt
<1>4. LineStep(q, p, ch) = Minor(q, p, ch)
  BY Zenon DEF LineStep
<1>5. TailVersion(q, t, p) /\ UriRead(q, t)
  BY <1>0, <1>2, <1>3, KeepsTail, KeepsUriRead
<1>6. q.uri_end \in Nat /\ q.uri_end + 1 <= p /\ q.uri_end >= 5
  BY <1>0, <1>2, <1>3, UriPlaces
<1> HIDE DEF p
<1>10. CASE ch = "CR"
  <2> DEFINE g == Go(q, "almost_done").r
  <2>1. Minor(q, p, ch) = Go(q, "almost_done")
    <3>1. ch # "LF" /\ ch \notin DOMAIN Digits
      BY <1>10, DigitValues
    <3> QED
      BY <1>10, <3>1, Zenon DEF Minor
  <2>2. /\ g \in Requests /\ g.state = "almost_done" /\ g.method_end = q.method_end
        /\ g.word = q.word /\ g.http_protocol = q.http_protocol /\ g.http_major = q.http_major
        /\ g.http_minor = q.http_minor /\ g.request_end = None
        /\ g.method = q.method /\ g.uri_start = q.uri_start /\ g.uri_end = q.uri_end
    BY <1>0, <1>1, GoOn
  <2> HIDE DEF g
  <2>3. UriRead(g, t) /\ TailVersion(g, t, p)
    BY <1>0, <1>2, <1>3, <2>2, KeepsUriRead, KeepsTail DEF p
  <2>4. t[Len(t)] = "CR" /\ TailVersion(g, t, Len(t) - 1)
    BY <1>2, <1>10, <2>3
  <2>5. LineInv(g, t)
    BY <2>2, <2>3, <2>4, LineInvAt
  <2> QED
    BY <1>4, <2>1, <2>5, Continued DEF g, p
<1>11. CASE ch = "LF"
  <2>1. Minor(q, p, ch) = Done(q, p)
    <3>1. ch # "CR" /\ ch \notin DOMAIN Digits
      BY <1>11, DigitValues
    <3> QED
      BY <1>11, <3>1, Zenon DEF Minor
  <2>2. t[Len(t)] = "LF" /\ p = Len(t) - 1
    BY <1>2, <1>11
  <2>3. t[p] # "CR"
    <3>1. q.http_protocol + 8 \in Nat /\ Number(q.http_minor, t, q.http_protocol + 8, p)
      BY <1>2, <1>5, <1>6 DEF TailVersion, ProtocolFound
    <3> QED
      BY <1>2, <3>1, NumberEnds, DigitValues
  <2>4. LineStepped(Done(q, p), t)
    BY <1>0, <1>2, <1>5, <2>2, <2>3, Finished
  <2> QED
    BY <1>4, <2>1, <2>4 DEF p
<1>12. CASE ch \in DOMAIN Digits /\ q.http_minor <= 99
  <2> DEFINE v == q.http_minor * 10 + Digits[ch]
             m == [q EXCEPT !.http_minor = v]
  <2>1. ch # "CR" /\ ch # "LF"
    BY <1>12, DigitValues
  <2>2. Minor(q, p, ch) = Go(m, "minor")
    BY <1>12, <2>1 DEF Minor
  <2>3. q.http_minor \in 0 .. 99 /\ Digits[ch] \in 0 .. 9 /\ v \in Nat
    <3>1. q.http_minor \in Nat
      BY <1>0 DEF Requests
    <3>2. Digits[ch] \in 0 .. 9
      BY <1>12, DigitValues
    <3>3. \A a \in Nat, b \in 0 .. 9 : a * 10 + b \in Nat
      OBVIOUS
    <3>4. v \in Nat
      BY <3>1, <3>2, <3>3
    <3>5. q.http_minor \in 0 .. 99
      <4>1. q.http_minor <= 99
        BY <1>12
      <4>2. \A a \in Nat : a <= 99 => a \in 0 .. 99
        OBVIOUS
      <4> QED
        BY <3>1, <4>1, <4>2
    <3> QED
      BY <3>2, <3>4, <3>5
  <2>4. /\ m \in Requests /\ m.method_end = q.method_end /\ m.word = q.word
        /\ m.http_protocol = q.http_protocol /\ m.http_major = q.http_major /\ m.http_minor = v
        /\ m.request_end = q.request_end
        /\ m.method = q.method /\ m.uri_start = q.uri_start /\ m.uri_end = q.uri_end
    <3> HIDE DEF v
    <3> QED
      BY <1>0, <2>3 DEF Requests
  <2> HIDE DEF m
  <2>5. /\ q.http_protocol + 8 \in Nat /\ q.http_protocol + 8 >= 1 /\ q.http_protocol + 8 <= Len(l)
        /\ q.http_protocol + 7 <= Len(l)
        /\ Number(q.http_minor, l, q.http_protocol + 8, Len(l))
        /\ q.http_major = 1 /\ ProtocolFound(q, l, Len(l)) /\ Spelled(l, q.http_protocol, 7)
    BY <1>2, <1>3, <1>6 DEF TailVersion, ProtocolFound, p
  <2>6. Number(v, t, q.http_protocol + 8, Len(t))
    BY <1>12, <2>3, <2>5, MoreDigits
  <2> HIDE DEF v
  <2>7. LineStepped(Go(m, "minor"), t)
    BY <1>0, <1>3, <2>4, <2>5, <2>6, VersionGoesOn
  <2> QED
    BY <1>4, <2>2, <2>7 DEF p
<1>13. CASE ch # "CR" /\ ch # "LF" /\ ~(ch \in DOMAIN Digits /\ q.http_minor <= 99)
  <2>1. Minor(q, p, ch) = Fail(q, "INVALID_REQUEST")
    BY <1>13 DEF Minor
  <2> QED
    BY <1>4, <2>1, Refused DEF Codes, p
<1> QED
  BY <1>10, <1>11, <1>12, <1>13

\* sw_almost_done
LEMMA LineAlmostDone ==
    ASSUME NEW q, NEW l, NEW ch \in LineChars, NEW t \in Seq(LineChars), LineInv(q, l),
           Longer(t, l, ch), q.state = "almost_done"
    PROVE  LineStepped(LineStep(q, Len(l), ch), t)
<1> DEFINE p == Len(l)
           e == p - 1
           s == [q EXCEPT !.request_end = e]
<1>0. q \in Requests /\ q.request_end = None /\ l \in Seq(LineChars)
  BY DEF LineInv
<1>2. p \in Nat /\ Len(t) = p + 1 /\ t[p + 1] = ch /\ \A i \in 1 .. p : t[i] = l[i]
  BY DEF Longer
<1>3. /\ UriRead(q, l) /\ l[p] = "CR"
      /\ Tail09(q, l, e) \/ TailVersion(q, l, e)
  BY <1>0, LineInvAt
<1>4. LineStep(q, p, ch) = IF ch = "LF" THEN Done(s, p) ELSE Fail(s, "INVALID_REQUEST")
  BY Zenon DEF LineStep
<1>6. q.uri_end \in Nat /\ q.uri_end + 1 <= p /\ q.uri_end >= 5
  BY <1>0, <1>2, <1>3, UriPlaces
<1>7. e \in Nat /\ e \in Int /\ e <= p /\ p \in 1 .. p
  BY <1>2, <1>6
<1> HIDE DEF e
<1>8. /\ s \in Requests /\ s.method_end = q.method_end /\ s.word = q.word
      /\ s.http_protocol = q.http_protocol /\ s.http_major = q.http_major
      /\ s.http_minor = q.http_minor /\ s.request_end = e
      /\ s.method = q.method /\ s.uri_start = q.uri_start /\ s.uri_end = q.uri_end
  BY <1>0, <1>7 DEF Requests
<1> HIDE DEF s
<1>9. /\ UriRead(s, t)
      /\ Tail09(s, t, e) \/ TailVersion(s, t, e)
  BY <1>0, <1>3, <1>7, <1>8, KeepsUriRead, KeepsTail
<1> HIDE DEF p
<1>10. CASE ch = "LF"
  <2>1. /\ t[Len(t)] = "LF" /\ e = Len(t) - 2 /\ t[Len(t) - 1] = "CR"
    BY <1>2, <1>3, <1>7, <1>10 DEF e
  <2>2. LineStepped(Done(s, p), t)
    BY <1>2, <1>7, <1>8, <1>9, <2>1, Finished
  <2> QED
    BY <1>4, <1>10, <2>2 DEF p
<1>11. CASE ch # "LF"
  BY <1>4, <1>11, Refused DEF Codes, p
<1> QED
  BY <1>10, <1>11

\* Every step of the request-line automaton.
LEMMA LineStepHolds ==
    ASSUME NEW q, NEW l, NEW ch \in LineChars, LineInv(q, l),
           Len(l) < WordLen[q.word] => ch = "A",
           Len(l) = WordLen[q.word] => ~Capital(ch)
    PROVE  LineStepped(LineStep(q, Len(l), ch), Append(l, ch))
<1> DEFINE t == Append(l, ch)
<1>1. l \in Seq(LineChars) /\ q.state \in LineStates
  BY DEF LineInv
<1>2. t \in Seq(LineChars) /\ Longer(t, l, ch)
  BY <1>1, OneMore DEF Longer
<1> HIDE DEF t
<1> SUFFICES LineStepped(LineStep(q, Len(l), ch), t)
  BY DEF t
<1> QED
  BY <1>1, <1>2, LineStart, LineMethod, LineBlanks, LineSlash, LineCheckUri, LineHttp09,
     LineLetters, LineFirstMajor, LineMajor, LineFirstMinor, LineMinor, LineAlmostDone
  DEF LineStates

-----------------------------------------------------------------------------
(* An accepted line as a whole.                                            *)

\* A piece of a line.
LEMMA Piece ==
    ASSUME NEW S, NEW l \in Seq(S), NEW a \in Nat, NEW b \in Nat, a >= 1, a <= b + 1, b <= Len(l)
    PROVE  /\ SubSeq(l, a, b) \in Seq(S) /\ Len(SubSeq(l, a, b)) = b - a + 1
           /\ DOMAIN SubSeq(l, a, b) = 1 .. b - a + 1
           /\ \A i \in 1 .. b - a + 1 : SubSeq(l, a, b)[i] = l[a + i - 1]
<1>1. \A i \in a .. b : l[i] \in S
  OBVIOUS
<1>2. /\ SubSeq(l, a, b) \in Seq(S)
      /\ Len(SubSeq(l, a, b)) = IF a <= b THEN b - a + 1 ELSE 0
      /\ \A i \in 1 .. b - a + 1 : SubSeq(l, a, b)[i] = l[a + i - 1]
  BY <1>1, SubSeqProperties
<1> QED
  BY <1>2

\* A piece that is blank.
LEMMA BlankPiece ==
    ASSUME NEW S, NEW l \in Seq(S), NEW a \in Nat, NEW b \in Nat, a >= 1, a <= b + 1, b <= Len(l),
           IsBlank(l, a, b)
    PROVE  Blanks(SubSeq(l, a, b))
<1> SUFFICES ASSUME NEW i \in DOMAIN SubSeq(l, a, b) PROVE SubSeq(l, a, b)[i] = "SP"
  BY DEF Blanks
<1>1. i \in 1 .. b - a + 1 /\ SubSeq(l, a, b)[i] = l[a + i - 1]
  BY Piece
<1>2. a + i - 1 \in a .. b
  BY <1>1
<1> QED
  BY <1>1, <1>2 DEF IsBlank

\* "HTTP/1." and a number are a version.
LEMMA VersionPiece ==
    ASSUME NEW l \in Seq(LineChars), NEW hp \in Nat, NEW e \in Nat, e <= Len(l), hp + 8 <= e,
           Spelled(l, hp, 7), NEW m, Number(m, l, hp + 8, e)
    PROVE  Version(SubSeq(l, hp + 1, e))
<1> DEFINE s == SubSeq(l, hp + 1, e)
           n == e - hp
<1>1. hp + 1 \in Nat /\ hp + 1 >= 1 /\ hp + 1 <= e + 1 /\ n \in Nat /\ n >= 8
  OBVIOUS
<1>2. /\ s \in Seq(LineChars) /\ Len(s) = e - (hp + 1) + 1
      /\ \A i \in 1 .. e - (hp + 1) + 1 : s[i] = l[(hp + 1) + i - 1]
  BY <1>1, Piece
<1>3. Len(s) = n /\ \A i \in 1 .. n : s[i] = l[hp + i]
  <2>1. e - (hp + 1) + 1 = n /\ \A i \in 1 .. n : (hp + 1) + i - 1 = hp + i
    OBVIOUS
  <2> HIDE DEF s, n
  <2> QED
    BY <1>2, <2>1
<1> HIDE DEF s
<1>4. SubSeq(s, 1, 7) = Letters
  <2> DEFINE u == SubSeq(s, 1, 7)
  <2>1. 1 \in Nat /\ 7 \in Nat /\ 7 <= Len(s)
    BY <1>1, <1>3
  <2>2. /\ u \in Seq(LineChars) /\ Len(u) = 7
        /\ \A i \in 1 .. 7 : u[i] = s[1 + i - 1]
    <3>1. Len(u) = 7 - 1 + 1 /\ u \in Seq(LineChars)
          /\ \A i \in 1 .. 7 - 1 + 1 : u[i] = s[1 + i - 1]
      BY <1>2, <2>1, Piece
    <3> HIDE DEF u
    <3> QED
      BY <3>1
  <2> HIDE DEF u
  <2>3. \A i \in 1 .. 7 : u[i] = Letters[i]
    <3> SUFFICES ASSUME NEW i \in 1 .. 7 PROVE u[i] = Letters[i]
      OBVIOUS
    <3>1. u[i] = s[i]
      BY <2>2
    <3>2. s[i] = l[hp + i]
      BY <1>1, <1>3
    <3> QED
      BY <3>1, <3>2 DEF Spelled
  <2>4. Letters \in Seq(LineChars) /\ Len(Letters) = 7
    BY DigitValues DEF Letters, LineChars
  <2>5. u = Letters
    BY <2>2, <2>3, <2>4, SeqEqual
  <2> QED
    BY <2>5 DEF u
<1>5. \E i \in 8 .. n : /\ \A k \in 8 .. i - 1 : s[k] = "0"
                        /\ \A k \in i .. n : s[k] \in DOMAIN Digits
                        /\ n - i < 3
  <2>1. PICK j \in hp + 8 .. e :
          /\ \A k \in hp + 8 .. j - 1 : l[k] = "0"
          /\ \A k \in j .. e : l[k] \in DOMAIN Digits
          /\ \/ e = j /\ m = Digits[l[j]]
             \/ e = j + 1 /\ m \in 10 .. 99
             \/ e = j + 2 /\ m \in 100 .. 999
    BY DEF Number
  <2>2. j - hp \in 8 .. n /\ n - (j - hp) < 3
    BY <2>1
  <2>3. \A k \in 8 .. (j - hp) - 1 : s[k] = "0"
    <3> SUFFICES ASSUME NEW k \in 8 .. (j - hp) - 1 PROVE s[k] = "0"
      OBVIOUS
    <3>1. k \in 1 .. n /\ hp + k \in hp + 8 .. j - 1
      BY <2>1
    <3> QED
      BY <1>3, <2>1, <3>1
  <2>4. \A k \in j - hp .. n : s[k] \in DOMAIN Digits
    <3> SUFFICES ASSUME NEW k \in j - hp .. n PROVE s[k] \in DOMAIN Digits
      OBVIOUS
    <3>1. k \in 1 .. n /\ hp + k \in j .. e
      BY <2>1
    <3> QED
      BY <1>3, <2>1, <3>1
  <2> QED
    BY <2>2, <2>3, <2>4
<1> HIDE DEF n
<1>6. Version(s)
  BY <1>1, <1>3, <1>4, <1>5 DEF Version, Letters
<1> QED
  BY <1>6 DEF s

\* The pieces of an accepted line, and where they lie.
LEMMA LineDoneParts ==
    ASSUME NEW q, NEW l, LineDone(q, l)
    PROVE  /\ q.method_end = WordLen[q.word] /\ q.method_end \in {3, 4}
           /\ q.request_end = IF Len(l) > 1 /\ l[Len(l) - 1] = "CR" THEN Len(l) - 2 ELSE Len(l) - 1
           /\ q.request_end = IF l[Len(l) - 1] = "CR" THEN Len(l) - 2 ELSE Len(l) - 1
           /\ SubSeq(l, q.uri_start + 1, q.uri_end) = <<"/">>
           /\ q.uri_start \in q.method_end + 1 .. Len(l) /\ q.uri_end = q.uri_start + 1
           /\ q.request_end \in Nat /\ q.uri_end + 1 <= q.request_end
           /\ \/ /\ q.http_protocol = None /\ q.word = "GET"
                 /\ Blanks(SubSeq(l, q.uri_end + 1, q.request_end))
              \/ /\ q.http_protocol \in q.uri_end + 1 .. q.request_end
                 /\ Blanks(SubSeq(l, q.uri_end + 1, q.http_protocol))
                 /\ Version(SubSeq(l, q.http_protocol + 1, q.request_end))
<1> DEFINE n == Len(l)
           e == q.request_end
           u == q.uri_end
           us == q.uri_start
           hp == q.http_protocol
<1>0. q \in Requests /\ l \in Seq(LineChars) /\ UriRead(q, l) /\ n \in Nat
  BY DEF LineDone
<1>1. /\ q.method_end \in {3, 4} /\ q.method_end = WordLen[q.word]
      /\ us \in q.method_end + 1 .. n - 1 /\ l[us + 1] = "/" /\ u = us + 1
  BY <1>0 DEF UriRead, MethodRead, UriFound
<1>2. u \in Nat /\ u >= 5 /\ u + 1 <= n /\ us \in Nat
  BY <1>0, UriPlaces
<1>3. \/ e = n - 1 /\ l[n - 1] # "CR"
      \/ e = n - 2 /\ l[n - 1] = "CR"
  BY DEF LineDone
<1>4. e \in Nat /\ e <= n /\ n > 1
  BY <1>0, <1>2, <1>3
<1>5. /\ e = IF n > 1 /\ l[n - 1] = "CR" THEN n - 2 ELSE n - 1
      /\ e = IF l[n - 1] = "CR" THEN n - 2 ELSE n - 1
  BY <1>3, <1>4
<1>6. SubSeq(l, us + 1, u) = <<"/">>
  <2>1. u >= 1 /\ u <= u + 1 /\ u <= Len(l) /\ u - u + 1 = 1 /\ u + 1 - 1 = u /\ us + 1 = u
    <3>1. us + 1 = u
      BY <1>1
    <3> HIDE DEF u, us
    <3>2. u >= 1 /\ u <= u + 1 /\ u <= n /\ u - u + 1 = 1 /\ u + 1 - 1 = u
      <4> HIDE DEF n
      <4> QED
        BY <1>0, <1>2
    <3> QED
      BY <3>1, <3>2
  <2>2. l[u] = "/"
    BY <1>1, <2>1
  <2> HIDE DEF u, us
  <2> DEFINE s == SubSeq(l, u, u)
  <2>3. /\ s \in Seq(LineChars) /\ Len(s) = u - u + 1
        /\ \A i \in 1 .. u - u + 1 : s[i] = l[u + i - 1]
    BY <1>0, <1>2, <2>1, Piece
  <2> HIDE DEF s
  <2>4. Len(s) = 1 /\ s[1] = "/"
    BY <2>1, <2>2, <2>3
  <2>5. <<"/">> \in Seq(LineChars) /\ Len(<<"/">>) = 1 /\ <<"/">>[1] = "/"
    BY DEF LineChars
  <2>6. \A i \in 1 .. Len(s) : s[i] = <<"/">>[i]
    BY <2>4, <2>5
  <2>7. s = <<"/">>
    BY <2>3, <2>4, <2>5, <2>6, SeqEqual
  <2> QED
    BY <2>1, <2>7 DEF s
<1>7. CASE Tail09(q, l, e) /\ q.word = "GET"
  <2>1. hp = None /\ u + 1 <= e /\ IsBlank(l, u + 1, e)
    BY <1>7 DEF Tail09
  <2>2. Blanks(SubSeq(l, u + 1, e))
    BY <1>0, <1>2, <1>4, <2>1, BlankPiece
  <2>3. us \in q.method_end + 1 .. Len(l)
    BY <1>0, <1>1
  <2> QED
    BY <1>1, <1>4, <1>5, <1>6, <1>7, <2>1, <2>2, <2>3
<1>8. CASE TailVersion(q, l, e)
  <2>1. /\ hp \in u + 1 .. e - 1 /\ IsBlank(l, u + 1, hp) /\ Spelled(l, hp, 7)
        /\ hp + 8 <= e /\ Number(q.http_minor, l, hp + 8, e)
    BY <1>8 DEF TailVersion, ProtocolFound
  <2>2. hp \in Nat /\ hp \in u + 1 .. e /\ u + 1 <= hp + 1 /\ hp <= n /\ u + 1 <= e
    <3>1. hp \in u + 1 .. e - 1
      BY <2>1
    <3> HIDE DEF n, e, u, hp
    <3>2. hp \in Int /\ u + 1 <= hp /\ hp <= e - 1
      BY <3>1
    <3> QED
      BY <1>0, <1>2, <1>4, <3>2
  <2>3. Blanks(SubSeq(l, u + 1, hp))
    BY <1>0, <1>2, <2>1, <2>2, BlankPiece
  <2>4. Version(SubSeq(l, hp + 1, e))
    BY <1>0, <1>4, <2>1, <2>2, VersionPiece
  <2>5. us \in q.method_end + 1 .. Len(l)
    BY <1>0, <1>1
  <2> QED
    BY <1>1, <1>4, <1>5, <1>6, <2>2, <2>3, <2>4, <2>5
<1> QED
  BY <1>7, <1>8 DEF LineDone

\* An accepted line is well formed.
LEMMA LineDoneWellFormed ==
    ASSUME NEW q, NEW l, LineDone(q, l)
    PROVE  WellFormed(q.word, l)
<1> DEFINE n == Len(l)
           w == WordLen[q.word]
           e == IF l[n - 1] = "CR" THEN n - 2 ELSE n - 1
           i == q.uri_end
           hp == q.http_protocol
<1>1. /\ q.method_end = w /\ w \in {3, 4} /\ q.request_end = e /\ e \in Nat
      /\ i = q.uri_start + 1 /\ i + 1 <= e /\ q.uri_start \in w + 1 .. n
      /\ \/ hp = None /\ q.word = "GET" /\ Blanks(SubSeq(l, i + 1, e))
         \/ hp \in i + 1 .. e /\ Blanks(SubSeq(l, i + 1, hp)) /\ Version(SubSeq(l, hp + 1, e))
  BY LineDoneParts
<1>2. /\ l[n] = "LF" /\ l[w + 1] = "SP" /\ l[i] = "/"
      /\ \A k \in w + 2 .. i - 1 : l[k] # "/"
  <2>1. /\ l[n] = "LF" /\ l[q.method_end + 1] = "SP" /\ l[q.uri_start + 1] = "/"
        /\ \A k \in q.method_end + 2 .. q.uri_start : l[k] # "/"
    BY DEF LineDone, UriRead, MethodRead, UriFound
  <2>2. i - 1 = q.uri_start
    BY <1>1
  <2> QED
    BY <1>1, <2>1, <2>2
<1>3. n \in Nat
  BY DEF LineDone
<1> HIDE DEF n, w, e, i, hp
<1>4. i \in w + 2 .. e
  BY <1>1, <1>3
<1>5. \E j \in i + 1 .. e : /\ Blanks(SubSeq(l, i + 1, j))
                            /\ \/ j = e /\ q.word = "GET"
                               \/ Version(SubSeq(l, j + 1, e))
  <2>1. e \in i + 1 .. e
    BY <1>1, <1>4
  <2> QED
    BY <1>1, <2>1
<1> QED
  BY <1>1, <1>2, <1>4, <1>5 DEF WellFormed, n, w, e

-----------------------------------------------------------------------------
(* The steps of the header-line automaton.                                 *)

\* What is to be shown of a step of the header-line automaton.
HeaderStepped(s, t) ==
    /\ s.rc \in Codes \cup {"AGAIN"}
    /\ s.rc = "AGAIN" => HeaderInv(s.r, t)
    /\ s.rc = "OK" => HeaderRead(s.r, t)

\* A refusal leaves nothing to be shown.
LEMMA HeaderRefused ==
    ASSUME NEW q, NEW t, NEW rc \in Codes \ {"OK"}
    PROVE  HeaderStepped(Fail(q, rc), t)
BY DEF HeaderStepped, Fail, Codes

\* Going on leaves the invariant of the next state to be shown.
LEMMA HeaderContinued ==
    ASSUME NEW q, NEW x, NEW t, HeaderInv(Go(q, x).r, t)
    PROVE  HeaderStepped(Go(q, x), t)
BY DEF HeaderStepped, Go

\* Accepting leaves to be shown that the line has been read.
LEMMA HeaderAccepted ==
    ASSUME NEW q, NEW t, HeaderRead(q, t)
    PROVE  HeaderStepped(Fail(q, "OK"), t)
BY DEF HeaderStepped, Fail, Codes

\* What HeaderInv asks in each state.
LEMMA HeaderInvAt ==
    ASSUME NEW q \in Requests, NEW l \in Seq(HeaderChars), q.method_end = None
    PROVE  /\ q.state = "start" => (HeaderInv(q, l) <=> Len(l) = 0 /\ q.lowcase_index = 0)
           /\ q.state = "name" => (HeaderInv(q, l) <=> NameRead(q, l, Len(l)))
           /\ q.state = "before_value" =>
                (HeaderInv(q, l) <=>
                    /\ NameRead(q, l, q.header_name_end)
                    /\ q.header_name_end + 1 <= Len(l) /\ l[q.header_name_end + 1] = ":"
                    /\ IsBlank(l, q.header_name_end + 2, Len(l)))
           /\ q.state = "value" =>
                (HeaderInv(q, l) <=>
                    NameRead(q, l, q.header_name_end) /\ ValueStarted(q, l) /\ l[Len(l)] # "SP")
           /\ q.state = "after_value" =>
                (HeaderInv(q, l) <=>
                    NameRead(q, l, q.header_name_end) /\ ValueStarted(q, l) /\ ValueEnded(q, l))
           /\ q.state = "almost_done" => (HeaderInv(q, l) <=> HeaderRead(q, l))
           /\ q.state = "header_almost_done" => HeaderInv(q, l)
BY DEF HeaderInv, HeaderStates

\* A name that has been read stays read.
LEMMA KeepsName ==
    ASSUME NEW q \in Requests, NEW g, NEW l, NEW t, NEW ch, Longer(t, l, ch), NEW k \in Int,
           NameRead(q, l, k), g.lowcase_index = q.lowcase_index,
           g.lowcase_header = q.lowcase_header
    PROVE  NameRead(g, t, k)
BY DEF Longer, NameRead

\* So does the start of its value,
LEMMA KeepsValue ==
    ASSUME NEW q \in Requests, NEW g, NEW l, NEW t, NEW ch, Longer(t, l, ch),
           NameRead(q, l, q.header_name_end), ValueStarted(q, l),
           g.header_name_end = q.header_name_end, g.header_start = q.header_start
    PROVE  ValueStarted(g, t)
<1> DEFINE k == q.header_name_end
           h == q.header_start
<1>1. Len(l) \in Nat /\ Len(t) = Len(l) + 1 /\ \A i \in 1 .. Len(l) : t[i] = l[i]
  BY DEF Longer
<1>2. k \in Int /\ k >= 1
  BY DEF NameRead, Requests
<1>3. h \in k + 1 .. Len(l) - 1 /\ l[k + 1] = ":" /\ l[h + 1] # "SP" /\ IsBlank(l, k + 2, h)
  BY DEF ValueStarted
<1> HIDE DEF k, h
<1>4. h \in k + 1 .. Len(t) - 1 /\ t[k + 1] = ":" /\ t[h + 1] # "SP"
  BY <1>1, <1>2, <1>3
<1>5. IsBlank(t, k + 2, h)
  BY <1>1, <1>2, <1>3 DEF IsBlank
<1> QED
  BY <1>4, <1>5 DEF ValueStarted, k, h

\* and its end, as long as nothing but blanks and the end of the line follow.
LEMMA KeepsEnd ==
    ASSUME NEW q \in Requests, NEW g, NEW l, NEW t, NEW ch \in {"SP", "CR", "LF"}, Longer(t, l, ch),
           NameRead(q, l, q.header_name_end), ValueStarted(q, l), ValueEnded(q, l),
           g.header_start = q.header_start, g.header_end = q.header_end
    PROVE  ValueEnded(g, t)
<1> DEFINE h == q.header_start
           e == q.header_end
<1>1. /\ Len(l) \in Nat /\ Len(t) = Len(l) + 1 /\ t[Len(l) + 1] = ch
      /\ \A i \in 1 .. Len(l) : t[i] = l[i]
  BY DEF Longer
<1>2. h \in Int /\ h >= 1
  <2>1. q.header_name_end \in Int /\ q.header_name_end >= 1
    BY DEF NameRead, Requests
  <2>2. h \in q.header_name_end + 1 .. Len(l) - 1
    BY DEF ValueStarted
  <2> QED
    BY <1>1, <2>1, <2>2
<1>3. /\ e \in h + 1 .. Len(l) /\ l[e] # "SP"
      /\ \A i \in e + 1 .. Len(l) : l[i] \in {"SP", "CR", "LF"}
  BY DEF ValueEnded
<1> HIDE DEF h, e
<1>4. e \in h + 1 .. Len(t) /\ t[e] # "SP"
  BY <1>1, <1>2, <1>3
<1>5. \A i \in e + 1 .. Len(t) : t[i] \in {"SP", "CR", "LF"}
  <2> SUFFICES ASSUME NEW i \in e + 1 .. Len(t) PROVE t[i] \in {"SP", "CR", "LF"}
    OBVIOUS
  <2>1. CASE i = Len(l) + 1
    BY <1>1, <2>1
  <2>2. CASE i # Len(l) + 1
    <3>1. i \in e + 1 .. Len(l) /\ i \in 1 .. Len(l)
      BY <1>1, <1>2, <1>3, <2>2
    <3> QED
      BY <1>1, <1>3, <3>1
  <2> QED
    BY <2>1, <2>2
<1> QED
  BY <1>4, <1>5 DEF ValueEnded, h, e

\* The index of the buffer for a name wraps around, and never grows faster
\* than the name.
LEMMA Wraps ==
    ASSUME NEW x \in Nat, NEW L \in Nat \ {0}
    PROVE  /\ x % L \in 0 .. L - 1 /\ x % L <= x
           /\ x % L = x => x < L
<1>1. x % L \in 0 .. L - 1
  OBVIOUS
<1>2. CASE x >= L
  BY <1>1, <1>2
<1>3. CASE x < L
  <2>1. x % L = x
    BY <1>3
  <2> QED
    BY <1>1, <1>3, <2>1
<1> QED
  BY <1>2, <1>3

\* sw_start
LEMMA HeaderAtStart ==
    ASSUME NEW q, NEW l, NEW ch \in HeaderChars, NEW t \in Seq(HeaderChars), HeaderInv(q, l),
           Longer(t, l, ch), q.state = "start"
    PROVE  HeaderStepped(HeaderStep(q, Len(l), ch), t)
<1> DEFINE p == Len(l)
<1>0. q \in Requests /\ l \in Seq(HeaderChars) /\ q.method_end = None
  BY DEF HeaderInv
<1>1. "name" \in LineStates \cup HeaderStates /\ "header_almost_done" \in LineStates \cup HeaderStates
  BY DEF HeaderStates
<1>2. p = 0 /\ q.lowcase_index = 0
  BY <1>0, HeaderInvAt
<1>3. Len(t) = 1 /\ t[1] = ch
  BY <1>2 DEF Longer
<1>4. HeaderStep(q, p, ch) = HeaderStart(q, p, ch)
  BY Zenon DEF HeaderStep
<1>9. p \in Int
  BY <1>2
<1> HIDE DEF p
<1>5. CASE ch = "CR"
  <2> DEFINE m == [q EXCEPT !.header_end = p]
             g == Go(m, "header_almost_done").r
  <2>1. HeaderStart(q, p, ch) = Go(m, "header_almost_done")
    BY <1>5 DEF HeaderStart
  <2>2. m \in Requests /\ m.method_end = None
    BY <1>0, <1>9 DEF Requests
  <2> HIDE DEF m
  <2>3. g \in Requests /\ g.state = "header_almost_done" /\ g.method_end = None
    BY <1>1, <2>2, GoOn
  <2> HIDE DEF g
  <2>4. HeaderInv(g, t)
    BY <2>3, HeaderInvAt
  <2> QED
    BY <1>4, <2>1, <2>4, HeaderContinued DEF g, p
<1>6. CASE ch = "LF"
  <2>1. HeaderStart(q, p, ch) = Fail([q EXCEPT !.header_end = p], "HEADER_DONE")
    BY <1>6 DEF HeaderStart
  <2> QED
    BY <1>4, <2>1, HeaderRefused DEF Codes, p
<1>7. CASE ch \in {"SP", "ctl", ":"}
  <2>1. HeaderStart(q, p, ch) = Fail([q EXCEPT !.header_end = p], "INVALID_HEADER")
    BY <1>7 DEF HeaderStart
  <2> QED
    BY <1>4, <2>1, HeaderRefused DEF Codes, p
<1>8. CASE ch \notin {"CR", "LF", "SP", "ctl", ":"}
  <2> DEFINE c == IF Lowcase(ch) THEN ch ELSE q.lowcase_header[0]
             n == IF Lowcase(ch) THEN 1 ELSE 0
             b == ~Lowcase(ch)
             f == [q.lowcase_header EXCEPT ![0] = c]
             m == [q EXCEPT !.invalid_header = b, !.lowcase_header = f, !.lowcase_index = n]
             g == Go(m, "name").r
  <2>1. HeaderStart(q, p, ch) = Go(m, "name")
    <3> DEFINE s == [q EXCEPT !.invalid_header = ~Lowcase(ch),
                              !.lowcase_header[0] = IF Lowcase(ch) THEN ch ELSE @,
                              !.lowcase_index = IF Lowcase(ch) THEN 1 ELSE 0]
    <3>1. HeaderStart(q, p, ch) = Go(s, "name")
      BY <1>8 DEF HeaderStart
    <3>2. s = m
      BY <1>0 DEF Requests
    <3> QED
      BY <3>1, <3>2
  <2>2. 0 \in 0 .. LcHeaderLen - 1
    BY ParseAssumption
  <2>3. c \in HeaderChars \cup {"NUL"} /\ (Lowcase(ch) => c = ch) /\ n \in Nat /\ b \in BOOLEAN
    BY <1>0, <2>2 DEF Requests
  <2>4. f \in [0 .. LcHeaderLen - 1 -> HeaderChars \cup {"NUL"}] /\ f[0] = c
    <3>1. q.lowcase_header \in [0 .. LcHeaderLen - 1 -> HeaderChars \cup {"NUL"}]
      BY <1>0 DEF Requests
    <3> HIDE DEF c
    <3> QED
      BY <2>2, <2>3, <3>1
  <2>9. n <= 1 /\ (n = 1 => Lowcase(ch))
    OBVIOUS
  <2> HIDE DEF c, n, b, f
  <2>5. /\ m \in Requests /\ m.method_end = None /\ m.lowcase_index = n /\ m.lowcase_header = f
    BY <1>0, <2>3, <2>4 DEF Requests
  <2> HIDE DEF m
  <2>6. /\ g \in Requests /\ g.state = "name" /\ g.method_end = None /\ g.lowcase_index = n
        /\ g.lowcase_header = f
    BY <1>1, <2>5, GoOn
  <2> HIDE DEF g
  <2>7. NameRead(g, t, Len(t))
    BY <1>3, <1>8, <2>3, <2>4, <2>6, <2>9 DEF NameRead
  <2>8. HeaderInv(g, t)
    BY <2>6, <2>7, HeaderInvAt
  <2> QED
    BY <1>4, <2>1, <2>8, HeaderContinued DEF g, p
<1> QED
  BY <1>5, <1>6, <1>7, <1>8

\* A further character of a name.
LEMMA NameGrows ==
    ASSUME NEW q \in Requests, NEW l, NEW t, NEW ch \in HeaderChars \ {":"}, Longer(t, l, ch),
           NameRead(q, l, Len(l)), q.method_end = None
    PROVE  /\ NameChar(q, ch) \in Requests /\ NameChar(q, ch).method_end = None
           /\ NameRead(NameChar(q, ch), t, Len(t))
<1> DEFINE p == Len(l)
           x == q.lowcase_index
           f == q.lowcase_header
<1>1. p \in Nat /\ Len(t) = p + 1 /\ t[p + 1] = ch /\ \A i \in 1 .. p : t[i] = l[i]
  BY DEF Longer
<1>2. x \in Nat /\ f \in [0 .. LcHeaderLen - 1 -> HeaderChars \cup {"NUL"}] /\ LcHeaderLen \in Nat \ {0}
  BY ParseAssumption DEF Requests
<1>3. /\ p >= 1 /\ x <= p
      /\ x = p => \A i \in 0 .. p - 1 : f[i] = l[i + 1]
      /\ \A i \in 1 .. p : l[i] # ":"
  BY DEF NameRead
<1> HIDE DEF p, x, f
<1>4. \A i \in 1 .. p + 1 : t[i] # ":"
  BY <1>1, <1>3
<1>5. CASE Lowcase(ch)
  <2> DEFINE y == (x + 1) % LcHeaderLen
             h == [f EXCEPT ![x] = ch]
             g == [q EXCEPT !.lowcase_header = h, !.lowcase_index = y]
  <2>1. NameChar(q, ch) = g
    BY <1>5 DEF NameChar, x, f, Requests
  <2>2. x + 1 \in Nat
    BY <1>2
  <2>3. y \in 0 .. LcHeaderLen - 1 /\ y <= x + 1 /\ (y = x + 1 => x + 1 < LcHeaderLen)
    BY <1>2, <2>2, Wraps
  <2>4. h \in [0 .. LcHeaderLen - 1 -> HeaderChars \cup {"NUL"}]
    BY <1>2
  <2>5. y \in Nat
    BY <1>2, <2>3
  <2>6. ASSUME y = p + 1 PROVE \A i \in 0 .. p : h[i] = t[i + 1]
    <3>1. x = p /\ x \in 0 .. LcHeaderLen - 1
      <4> HIDE DEF y
      <4> QED
        BY <1>1, <1>2, <1>3, <2>3, <2>6
    <3>2. h[p] = t[p + 1]
      BY <1>1, <1>2, <3>1
    <3>3. ASSUME NEW i \in 0 .. p - 1 PROVE h[i] = t[i + 1]
      <4>1. i # x /\ i \in 0 .. LcHeaderLen - 1 /\ i + 1 \in 1 .. p
        BY <1>1, <1>2, <3>1
      <4>2. h[i] = f[i]
        BY <1>2, <4>1
      <4> QED
        BY <1>1, <1>3, <3>1, <4>1, <4>2
    <3> HIDE DEF h
    <3> QED
      BY <1>1, <3>2, <3>3
  <2> HIDE DEF y, h
  <2>7. g \in Requests /\ g.method_end = None /\ g.lowcase_index = y /\ g.lowcase_header = h
    BY <2>4, <2>5 DEF Requests
  <2> HIDE DEF g
  <2>8. NameRead(g, t, p + 1)
    <3>1. p + 1 >= 1 /\ p + 1 <= Len(t) /\ y <= p + 1 /\ (p + 1) - 1 = p
      BY <1>1, <1>2, <1>3, <2>3, <2>5
    <3> QED
      BY <1>4, <2>6, <2>7, <3>1 DEF NameRead
  <2> QED
    BY <1>1, <2>1, <2>7, <2>8
<1>6. CASE ~Lowcase(ch)
  <2>1. NameChar(q, ch) = q
    BY <1>6 DEF NameChar
  <2>2. p + 1 >= 1 /\ p + 1 <= Len(t) /\ x <= p + 1 /\ x # p + 1
    BY <1>1, <1>2, <1>3
  <2>3. NameRead(q, t, p + 1)
    BY <1>4, <2>2 DEF NameRead, x
  <2> QED
    BY <1>1, <2>1, <2>3
<1> QED
  BY <1>5, <1>6

\* sw_name
LEMMA HeaderAtName ==
    ASSUME NEW q, NEW l, NEW ch \in HeaderChars, NEW t \in Seq(HeaderChars), HeaderInv(q, l),
           Longer(t, l, ch), q.state = "name"
    PROVE  HeaderStepped(HeaderStep(q, Len(l), ch), t)
<1> DEFINE p == Len(l)
<1>0. q \in Requests /\ l \in Seq(HeaderChars) /\ q.method_end = None
  BY DEF HeaderInv
<1>1. /\ "name" \in LineStates \cup HeaderStates /\ "almost_done" \in LineStates \cup HeaderStates
      /\ "before_value" \in LineStates \cup HeaderStates
  BY DEF HeaderStates
<1>2. /\ p \in Nat /\ p \in Int /\ Len(t) = p + 1 /\ t[p + 1] = ch
      /\ \A i \in 1 .. p : t[i] = l[i]
  BY DEF Longer
<1>3. NameRead(q, l, p)
  BY <1>0, HeaderInvAt
<1>4. HeaderStep(q, p, ch) = Name(q, p, ch)
  BY Zenon DEF HeaderStep
<1> HIDE DEF p
<1>5. CASE ch = ":"
  <2> DEFINE m == [q EXCEPT !.header_name_end = p]
             g == Go(m, "before_value").r
  <2>1. Name(q, p, ch) = Go(m, "before_value")
    BY <1>5 DEF Name
  <2>2. /\ m \in Requests /\ m.method_end = None /\ m.header_name_end = p
        /\ m.lowcase_index = q.lowcase_index /\ m.lowcase_header = q.lowcase_header
    BY <1>0, <1>2 DEF Requests
  <2> HIDE DEF m
  <2>3. /\ g \in Requests /\ g.state = "before_value" /\ g.method_end = None
        /\ g.header_name_end = p
        /\ g.lowcase_index = q.lowcase_index /\ g.lowcase_header = q.lowcase_header
    BY <1>1, <2>2, GoOn
  <2> HIDE DEF g
  <2>4. NameRead(g, t, p)
    BY <1>0, <1>2, <1>3, <2>3, KeepsName
  <2>5. g.header_name_end + 1 <= Len(t) /\ t[g.header_name_end + 1] = ":"
    BY <1>2, <1>5, <2>3
  <2>6. IsBlank(t, g.header_name_end + 2, Len(t))
    BY <1>2, <2>3 DEF IsBlank
  <2>7. HeaderInv(g, t)
    BY <2>3, <2>4, <2>5, <2>6, HeaderInvAt
  <2> QED
    BY <1>4, <2>1, <2>7, HeaderContinued DEF g, p
<1>6. CASE ch \in {"CR", "LF"}
  <2> DEFINE m == [q EXCEPT !.header_name_end = p, !.header_start = p, !.header_end = p]
             g == Go(m, "almost_done").r
  <2>1. /\ ch = "CR" => Name(q, p, ch) = Go(m, "almost_done")
        /\ ch = "LF" => Name(q, p, ch) = Fail(m, "OK")
    BY DEF Name
  <2>2. /\ m \in Requests /\ m.method_end = None /\ m.header_name_end = p /\ m.header_start = p
        /\ m.lowcase_index = q.lowcase_index /\ m.lowcase_header = q.lowcase_header
    BY <1>0, <1>2 DEF Requests
  <2> HIDE DEF m
  <2>3. /\ g \in Requests /\ g.state = "almost_done" /\ g.method_end = None
        /\ g.header_name_end = p /\ g.header_start = p
        /\ g.lowcase_index = q.lowcase_index /\ g.lowcase_header = q.lowcase_header
    BY <1>1, <2>2, GoOn
  <2> HIDE DEF g
  <2>4. NameRead(g, t, p) /\ NameRead(m, t, p)
    BY <1>0, <1>2, <1>3, <2>2, <2>3, KeepsName
  <2>5. HeaderRead(g, t) /\ HeaderRead(m, t)
    BY <2>2, <2>3, <2>4 DEF HeaderRead
  <2>6. HeaderInv(g, t)
    BY <2>3, <2>5, HeaderInvAt
  <2>7. CASE ch = "CR"
    BY <1>4, <2>1, <2>6, <2>7, HeaderContinued DEF g, p
  <2>8. CASE ch = "LF"
    BY <1>4, <2>1, <2>5, <2>8, HeaderAccepted DEF p
  <2> QED
    BY <1>6, <2>7, <2>8
<1>7. CASE ch \notin {":", "CR", "LF"}
  <2> DEFINE m == NameChar(q, ch)
             g == Go(m, "name").r
  <2>1. Name(q, p, ch) = Go(m, "name")
    BY <1>7 DEF Name
  <2>2. m \in Requests /\ m.method_end = None /\ NameRead(m, t, Len(t))
    BY <1>0, <1>3, <1>7, NameGrows DEF p
  <2> HIDE DEF m
  <2>3. /\ g \in Requests /\ g.state = "name" /\ g.method_end = None
        /\ g.lowcase_index = m.lowcase_index /\ g.lowcase_header = m.lowcase_header
    BY <1>1, <2>2, GoOn
  <2> HIDE DEF g
  <2>4. NameRead(g, t, Len(t))
    BY <2>2, <2>3 DEF NameRead
  <2>5. HeaderInv(g, t)
    BY <2>3, <2>4, HeaderInvAt
  <2> QED
    BY <1>4, <2>1, <2>5, HeaderContinued DEF g, p
<1> QED
  BY <1>5, <1>6, <1>7

\* sw_space_before_value
LEMMA HeaderAtBefore ==
    ASSUME NEW q, NEW l, NEW ch \in HeaderChars, NEW t \in Seq(HeaderChars), HeaderInv(q, l),
           Longer(t, l, ch), q.state = "before_value"
    PROVE  HeaderStepped(HeaderStep(q, Len(l), ch), t)
<1> DEFINE p == Len(l)
           k == q.header_name_end
<1>0. q \in Requests /\ l \in Seq(HeaderChars) /\ q.method_end = None
  BY DEF HeaderInv
<1>1. "before_value" \in LineStates \cup HeaderStates /\ "value" \in LineStates \cup HeaderStates
  BY DEF HeaderStates
<1>2. /\ p \in Nat /\ p \in Int /\ Len(t) = p + 1 /\ t[p + 1] = ch
      /\ \A i \in 1 .. p : t[i] = l[i]
  BY DEF Longer
<1>3. NameRead(q, l, k) /\ k + 1 <= p /\ l[k + 1] = ":" /\ IsBlank(l, k + 2, p)
  BY <1>0, HeaderInvAt
<1>4. k \in Int /\ k >= 1
  BY <1>0, <1>3 DEF NameRead, Requests
<1> HIDE DEF p, k
<1>5. t[k + 1] = ":" /\ IsBlank(t, k + 2, p)
  BY <1>2, <1>3, <1>4 DEF IsBlank
<1>6. CASE ch = "SP"
  <2> DEFINE g == Go(q, "before_value").r
  <2>1. HeaderStep(q, p, ch) = Go(q, "before_value")
    BY <1>6 DEF HeaderStep
  <2>3. /\ g \in Requests /\ g.state = "before_value" /\ g.method_end = None
        /\ g.header_name_end = k
        /\ g.lowcase_index = q.lowcase_index /\ g.lowcase_header = q.lowcase_header
    BY <1>0, <1>1, GoOn DEF k
  <2> HIDE DEF g
  <2>4. NameRead(g, t, k)
    BY <1>0, <1>3, <1>4, <2>3, KeepsName
  <2>5. g.header_name_end + 1 <= Len(t) /\ t[g.header_name_end + 1] = ":"
    BY <1>2, <1>3, <1>4, <1>5, <2>3
  <2>6. IsBlank(t, g.header_name_end + 2, Len(t))
    BY <1>2, <1>4, <1>5, <1>6, <2>3 DEF IsBlank
  <2>7. HeaderInv(g, t)
    BY <2>3, <2>4, <2>5, <2>6, HeaderInvAt
  <2> QED
    BY <2>1, <2>7, HeaderContinued DEF g, p
<1>7. CASE ch # "SP"
  <2> DEFINE m == [q EXCEPT !.header_start = p]
             g == Go(m, "value").r
  <2>1. HeaderStep(q, p, ch) = Go(m, "value")
    BY <1>7 DEF HeaderStep
  <2>2. /\ m \in Requests /\ m.method_end = None /\ m.header_name_end = k /\ m.header_start = p
        /\ m.lowcase_index = q.lowcase_index /\ m.lowcase_header = q.lowcase_header
    BY <1>0, <1>2 DEF Requests, k
  <2> HIDE DEF m
  <2>3. /\ g \in Requests /\ g.state = "value" /\ g.method_end = None
        /\ g.header_name_end = k /\ g.header_start = p
        /\ g.lowcase_index = q.lowcase_index /\ g.lowcase_header = q.lowcase_header
    BY <1>1, <2>2, GoOn
  <2> HIDE DEF g
  <2>4. NameRead(g, t, k)
    BY <1>0, <1>3, <1>4, <2>3, KeepsName
  <2>5. p \in k + 1 .. Len(t) - 1 /\ t[p + 1] # "SP" /\ t[Len(t)] # "SP"
    BY <1>2, <1>3, <1>4, <1>7
  <2>6. ValueStarted(g, t)
    BY <1>5, <2>3, <2>5 DEF ValueStarted
  <2>7. HeaderInv(g, t)
    BY <2>3, <2>4, <2>5, <2>6, HeaderInvAt
  <2> QED
    BY <2>1, <2>7, HeaderContinued DEF g, p
<1> QED
  BY <1>6, <1>7

\* sw_value
LEMMA HeaderAtValue ==
    ASSUME NEW q, NEW l, NEW ch \in HeaderChars, NEW t \in Seq(HeaderChars), HeaderInv(q, l),
           Longer(t, l, ch), q.state = "value"
    PROVE  HeaderStepped(HeaderStep(q, Len(l), ch), t)
<1> DEFINE p == Len(l)
           k == q.header_name_end
           h == q.header_start
<1>0. q \in Requests /\ l \in Seq(HeaderChars) /\ q.method_end = None
  BY DEF HeaderInv
<1>1. /\ "value" \in LineStates \cup HeaderStates /\ "after_value" \in LineStates \cup HeaderStates
      /\ "almost_done" \in LineStates \cup HeaderStates
  BY DEF HeaderStates
<1>2. /\ p \in Nat /\ p \in Int /\ Len(t) = p + 1 /\ t[p + 1] = ch
      /\ \A i \in 1 .. p : t[i] = l[i]
  BY DEF Longer
<1>3. NameRead(q, l, k) /\ ValueStarted(q, l) /\ l[p] # "SP"
  BY <1>0, HeaderInvAt
<1>4. k \in Int /\ k >= 1 /\ h \in k + 1 .. p - 1
  BY <1>0, <1>3 DEF NameRead, Requests, ValueStarted
<1>5. HeaderStep(q, p, ch) = Value(q, p, ch)
  BY Zenon DEF HeaderStep
<1> HIDE DEF p, k, h
<1>6. CASE ch \in {"SP", "CR", "LF"}
  <2> DEFINE m == [q EXCEPT !.header_end = p]
             x == IF ch = "SP" THEN "after_value" ELSE "almost_done"
             g == Go(m, x).r
  <2>1. /\ ch # "LF" => Value(q, p, ch) = Go(m, x)
        /\ ch = "LF" => Value(q, p, ch) = Fail(m, "OK")
    BY <1>6 DEF Value
  <2>2. /\ m \in Requests /\ m.method_end = None /\ m.header_name_end = k /\ m.header_start = h
        /\ m.header_end = p
        /\ m.lowcase_index = q.lowcase_index /\ m.lowcase_header = q.lowcase_header
    BY <1>0, <1>2 DEF Requests, k, h
  <2>8. x \in LineStates \cup HeaderStates
    BY <1>1
  <2> HIDE DEF m
  <2>3. /\ g \in Requests /\ g.state = x /\ g.method_end = None
        /\ g.header_name_end = k /\ g.header_start = h /\ g.header_end = p
        /\ g.lowcase_index = q.lowcase_index /\ g.lowcase_header = q.lowcase_header
    <3> HIDE DEF x
    <3> QED
      BY <2>2, <2>8, GoOn
  <2> HIDE DEF g
  <2>4. NameRead(g, t, k) /\ NameRead(m, t, k)
    BY <1>0, <1>3, <1>4, <2>2, <2>3, KeepsName
  <2>5. ValueStarted(g, t) /\ ValueStarted(m, t)
    BY <1>0, <1>3, <2>2, <2>3, KeepsValue DEF k, h
  <2>6. ValueEnded(g, t) /\ ValueEnded(m, t)
    <3>1. p \in h + 1 .. Len(t) /\ t[p] # "SP"
      BY <1>2, <1>3, <1>4
    <3>2. \A i \in p + 1 .. Len(t) : t[i] \in {"SP", "CR", "LF"}
      BY <1>2, <1>6
    <3> QED
      BY <2>2, <2>3, <3>1, <3>2 DEF ValueEnded
  <2>7. HeaderRead(g, t) /\ HeaderRead(m, t)
    BY <2>2, <2>3, <2>4, <2>5, <2>6 DEF HeaderRead
  <2>9. CASE ch # "LF"
    <3>1. g.state \in {"after_value", "almost_done"}
      BY <2>3
    <3>2. HeaderInv(g, t)
      BY <2>3, <2>4, <2>5, <2>6, <2>7, <3>1, HeaderInvAt
    <3> QED
      BY <1>5, <2>1, <2>9, <3>2, HeaderContinued DEF g, p
  <2>10. CASE ch = "LF"
    BY <1>5, <2>1, <2>7, <2>10, HeaderAccepted DEF p
  <2> QED
    BY <2>9, <2>10
<1>7. CASE ch \notin {"SP", "CR", "LF"}
  <2> DEFINE g == Go(q, "value").r
  <2>1. Value(q, p, ch) = Go(q, "value")
    BY <1>7 DEF Value
  <2>3. /\ g \in Requests /\ g.state = "value" /\ g.method_end = None
        /\ g.header_name_end = k /\ g.header_start = h
        /\ g.lowcase_index = q.lowcase_index /\ g.lowcase_header = q.lowcase_header
    BY <1>0, <1>1, GoOn DEF k, h
  <2> HIDE DEF g
  <2>4. NameRead(g, t, k)
    BY <1>0, <1>3, <1>4, <2>3, KeepsName
  <2>5. ValueStarted(g, t)
    BY <1>0, <1>3, <2>3, KeepsValue DEF k, h
  <2>6. t[Len(t)] # "SP"
    BY <1>2, <1>7
  <2>7. HeaderInv(g, t)
    BY <2>3, <2>4, <2>5, <2>6, HeaderInvAt
  <2> QED
    BY <1>5, <2>1, <2>7, HeaderContinued DEF g, p
<1> QED
  BY <1>6, <1>7

\* sw_space_after_value
LEMMA HeaderAtAfter ==
    ASSUME NEW q, NEW l, NEW ch \in HeaderChars, NEW t \in Seq(HeaderChars), HeaderInv(q, l),
           Longer(t, l, ch), q.state = "after_value"
    PROVE  HeaderStepped(HeaderStep(q, Len(l), ch), t)
<1> DEFINE p == Len(l)
           k == q.header_name_end
           h == q.header_start
           x == CASE ch = "SP" -> "after_value" [] ch = "CR" -> "almost_done" [] OTHER -> "value"
           g == Go(q, x).r
<1>0. q \in Requests /\ l \in Seq(HeaderChars) /\ q.method_end = None
  BY DEF HeaderInv
<1>1. x \in LineStates \cup HeaderStates
  BY DEF HeaderStates
<1>2. p \in Nat /\ Len(t) = p + 1 /\ t[p + 1] = ch
  BY DEF Longer
<1>3. NameRead(q, l, k) /\ ValueStarted(q, l) /\ ValueEnded(q, l)
  BY <1>0, HeaderInvAt
<1>4. k \in Int
  BY <1>0 DEF Requests
<1>5. HeaderStep(q, p, ch) = IF ch = "LF" THEN Fail(q, "OK") ELSE Go(q, x)
  BY DEF HeaderStep
<1>6. /\ ch = "SP" => x = "after_value"
      /\ ch = "CR" => x = "almost_done"
      /\ ch \notin {"SP", "CR"} => x = "value"
  OBVIOUS
<1> HIDE DEF x
<1>7. /\ g \in Requests /\ g.state = x /\ g.method_end = None
      /\ g.header_name_end = k /\ g.header_start = h /\ g.header_end = q.header_end
      /\ g.lowcase_index = q.lowcase_index /\ g.lowcase_header = q.lowcase_header
  BY <1>0, <1>1, GoOn
<1> HIDE DEF p, k, h, g
<1>8. NameRead(g, t, k) /\ NameRead(q, t, k)
  BY <1>0, <1>3, <1>4, <1>7, KeepsName
<1>9. ValueStarted(g, t) /\ ValueStarted(q, t)
  BY <1>0, <1>3, <1>7, KeepsValue DEF k, h
<1>10. CASE ch \in {"SP", "CR", "LF"}
  <2>1. ValueEnded(g, t) /\ ValueEnded(q, t)
    BY <1>0, <1>3, <1>7, <1>10, KeepsEnd DEF k, h
  <2>2. HeaderRead(g, t) /\ HeaderRead(q, t)
    BY <1>0, <1>7, <1>8, <1>9, <2>1 DEF HeaderRead, k
  <2>3. CASE ch = "LF"
    BY <1>5, <2>2, <2>3, HeaderAccepted DEF p
  <2>4. CASE ch # "LF"
    <3>1. HeaderInv(g, t)
      BY <1>6, <1>7, <1>8, <1>9, <1>10, <2>1, <2>2, <2>4, HeaderInvAt
    <3> QED
      BY <1>5, <2>4, <3>1, HeaderContinued DEF p, g
  <2> QED
    BY <2>3, <2>4
<1>11. CASE ch \notin {"SP", "CR", "LF"}
  <2>1. t[Len(t)] # "SP" /\ g.state = "value"
    BY <1>2, <1>6, <1>7, <1>11
  <2>2. HeaderInv(g, t)
    BY <1>7, <1>8, <1>9, <2>1, HeaderInvAt
  <2> QED
    BY <1>5, <1>11, <2>2, HeaderContinued DEF p, g
<1> QED
  BY <1>10, <1>11

\* sw_almost_done
LEMMA HeaderAtAlmostDone ==
    ASSUME NEW q, NEW l, NEW ch \in HeaderChars, NEW t \in Seq(HeaderChars), HeaderInv(q, l),
           Longer(t, l, ch), q.state = "almost_done"
    PROVE  HeaderStepped(HeaderStep(q, Len(l), ch), t)
<1> DEFINE g == Go(q, "almost_done").r
<1>0. q \in Requests /\ l \in Seq(HeaderChars) /\ q.method_end = None
  BY DEF HeaderInv
<1>1. "almost_done" \in LineStates \cup HeaderStates
  BY DEF HeaderStates
<1>2. HeaderRead(q, l)
  BY <1>0, HeaderInvAt
<1>3. /\ g \in Requests /\ g.state = "almost_done" /\ g.method_end = None
      /\ g.header_name_end = q.header_name_end /\ g.header_start = q.header_start
      /\ g.header_end = q.header_end
      /\ g.lowcase_index = q.lowcase_index /\ g.lowcase_header = q.lowcase_header
  BY <1>0, <1>1, GoOn
<1> HIDE DEF g
<1>4. NameRead(q, l, q.header_name_end) /\ q.header_name_end \in Int
  BY <1>0, <1>2 DEF HeaderRead, Requests
<1>5. NameRead(g, t, q.header_name_end) /\ NameRead(q, t, q.header_name_end)
  BY <1>0, <1>3, <1>4, KeepsName
<1>6. CASE ch \in {"CR", "LF"}
  <2>1. ASSUME q.header_start # q.header_name_end
        PROVE  ValueStarted(g, t) /\ ValueStarted(q, t) /\ ValueEnded(g, t) /\ ValueEnded(q, t)
    <3>1. ValueStarted(q, l) /\ ValueEnded(q, l)
      BY <1>2, <2>1 DEF HeaderRead
    <3>2. ValueStarted(g, t) /\ ValueStarted(q, t)
      BY <1>0, <1>3, <1>4, <3>1, KeepsValue
    <3>3. ch \in {"SP", "CR", "LF"}
      BY <1>6
    <3>4. ValueEnded(g, t) /\ ValueEnded(q, t)
      BY <1>0, <1>3, <1>4, <3>1, <3>3, KeepsEnd
    <3> QED
      BY <3>2, <3>4
  <2>2. HeaderRead(g, t) /\ HeaderRead(q, t)
    BY <1>0, <1>3, <1>5, <2>1 DEF HeaderRead
  <2>3. HeaderInv(g, t)
    BY <1>3, <2>2, HeaderInvAt
  <2>4. HeaderStep(q, Len(l), ch) = IF ch = "LF" THEN Fail(q, "OK") ELSE Go(q, "almost_done")
    BY <1>6 DEF HeaderStep
  <2> QED
    BY <2>2, <2>3, <2>4, HeaderAccepted, HeaderContinued DEF g
<1>7. CASE ch \notin {"CR", "LF"}
  <2>1. HeaderStep(q, Len(l), ch) = Fail(q, "INVALID_HEADER")
    BY <1>7 DEF HeaderStep
  <2> QED
    BY <2>1, HeaderRefused DEF Codes
<1> QED
  BY <1>6, <1>7

\* sw_header_almost_done
LEMMA HeaderAtEnd ==
    ASSUME NEW q, NEW l, NEW ch, NEW t, q.state = "header_almost_done"
    PROVE  HeaderStepped(HeaderStep(q, Len(l), ch), t)
<1>1. HeaderStep(q, Len(l), ch) = Fail(q, IF ch = "LF" THEN "HEADER_DONE" ELSE "INVALID_HEADER")
  BY DEF HeaderStep
<1> QED
  BY <1>1, HeaderRefused DEF Codes

\* Every step of the header-line automaton.
LEMMA HeaderStepHolds ==
    ASSUME NEW q, NEW l, NEW ch \in HeaderChars, HeaderInv(q, l)
    PROVE  HeaderStepped(HeaderStep(q, Len(l), ch), Append(l, ch))
<1> DEFINE t == Append(l, ch)
<1>1. l \in Seq(HeaderChars) /\ q.state \in HeaderStates
  BY DEF HeaderInv
<1>2. t \in Seq(HeaderChars) /\ Longer(t, l, ch)
  BY <1>1, OneMore DEF Longer
<1> HIDE DEF t
<1> SUFFICES HeaderStepped(HeaderStep(q, Len(l), ch), t)
  BY DEF t
<1> QED
  BY <1>1, <1>2, HeaderAtStart, HeaderAtName, HeaderAtBefore, HeaderAtValue, HeaderAtAfter,
     HeaderAtAlmostDone, HeaderAtEnd
  DEF HeaderStates

-----------------------------------------------------------------------------
(* The theorems.                                                           *)

\* A request before anything is read.
LEMMA NewRequestTypes ==
    /\ NewRequest \in Requests /\ NewRequest.state = "start" /\ NewRequest.method = "UNKNOWN"
    /\ NewRequest.method_end = None /\ NewRequest.http_protocol = None
    /\ NewRequest.request_end = None /\ NewRequest.http_major = 0 /\ NewRequest.http_minor = 0
    /\ NewRequest.lowcase_index = 0
BY ParseAssumption DEF NewRequest, Requests, None, LineStates, WordLen

\* The inductive invariant of the parsers: whatever has been read, the state
\* the automaton is in tells what the line holds up to here and where the
\* pointers point.
THEOREM ParseInvariant == ParseSpec => []ParseInv
<1>1. ParseInit => ParseInv
  BY DEF ParseInit, ParseInv, Codes
<1>2. ParseInv /\ [ParseNext]_qvars => ParseInv'
  <2> SUFFICES ASSUME ParseInv, [ParseNext]_qvars PROVE ParseInv'
    OBVIOUS
  <2>1. ASSUME NEW w \in DOMAIN WordLen, StartLine(w) PROVE ParseInv'
    <3> DEFINE g == [NewRequest EXCEPT !.word = w]
    <3>1. r' = g /\ line' = <<>> /\ parsed' = "line"
      BY <2>1 DEF StartLine, ParseInv
    <3>2. /\ g \in Requests /\ g.state = "start" /\ g.method = "UNKNOWN" /\ g.word = w
          /\ g.method_end = None /\ g.http_protocol = None /\ g.request_end = None
          /\ g.http_major = 0 /\ g.http_minor = 0
      BY NewRequestTypes DEF Requests
    <3> HIDE DEF g
    <3> DEFINE l == <<>>
    <3>3. l \in Seq(LineChars) /\ Len(l) = 0 /\ WordLen[w] \in 1 .. 5 /\ line' = l
      BY <3>1, WordLengths
    <3> HIDE DEF l
    <3>4. LineInv(g, l)
      <4>1. Len(l) <= WordLen[g.word]
        BY <3>2, <3>3
      <4> QED
        BY <3>2, <3>3, <4>1, LineInvAt
    <3> QED
      BY <3>1, <3>3, <3>4 DEF ParseInv, Codes
  <2>2. ASSUME StartHeader PROVE ParseInv'
    <3>1. r' = NewRequest /\ line' = <<>> /\ parsed' = "header"
      BY <2>2 DEF StartHeader, ParseInv
    <3>2. <<>> \in Seq(HeaderChars) /\ Len(<<>>) = 0
      OBVIOUS
    <3>3. HeaderInv(NewRequest, <<>>)
      BY <3>2, NewRequestTypes, HeaderInvAt
    <3> QED
      BY <3>1, <3>3 DEF ParseInv, Codes
  <2>3. ASSUME NEW ch \in LineChars, ParseLine(ch) PROVE ParseInv'
    <3> DEFINE s == LineStep(r, Len(line), ch)
               t == Append(line, ch)
    <3>1. LineInv(r, line)
      BY <2>3 DEF ParseLine, ParseInv
    <3>2. r' = s.r /\ parsed' = (IF s.rc = "AGAIN" THEN "line" ELSE s.rc) /\ line' = t
      BY <2>3 DEF ParseLine
    <3>3. LineStepped(s, t)
      BY <2>3, <3>1, LineStepHolds DEF ParseLine, Possible
    <3> HIDE DEF s, t
    <3>4. s.rc \in Codes \cup {"AGAIN"} /\ (s.rc = "AGAIN" => LineInv(s.r, t))
          /\ (s.rc = "OK" => LineDone(s.r, t))
      BY <3>3 DEF LineStepped
    <3> QED
      BY <3>2, <3>4 DEF ParseInv, Codes
  <2>4. ASSUME NEW ch \in HeaderChars, ParseHeader(ch) PROVE ParseInv'
    <3> DEFINE s == HeaderStep(r, Len(line), ch)
               t == Append(line, ch)
    <3>1. HeaderInv(r, line)
      BY <2>4 DEF ParseHeader, ParseInv
    <3>2. r' = s.r /\ parsed' = (IF s.rc = "AGAIN" THEN "header" ELSE s.rc) /\ line' = t
      BY <2>4 DEF ParseHeader
    <3>3. HeaderStepped(s, t)
      BY <3>1, HeaderStepHolds
    <3> HIDE DEF s, t
    <3>4. s.rc \in Codes \cup {"AGAIN"} /\ (s.rc = "AGAIN" => HeaderInv(s.r, t))
          /\ (s.rc = "OK" => HeaderRead(s.r, t))
      BY <3>3 DEF HeaderStepped
    <3> QED
      BY <3>2, <3>4 DEF ParseInv, Codes
  <2>5. CASE HeaderCut
    BY <2>5 DEF HeaderCut, ParseInv, Codes
  <2>6. CASE UNCHANGED qvars
    BY <2>6 DEF qvars, ParseInv
  <2> QED
    BY <2>1, <2>2, <2>3, <2>4, <2>5, <2>6 DEF ParseNext
<1> QED
  BY <1>1, <1>2, PTL DEF ParseSpec

\* What has been accepted is a line or a header, and method_end tells which.
LEMMA AcceptedWhich ==
    ASSUME ParseInv, parsed = "OK"
    PROVE  (IsLine => LineDone(r, line)) /\ (~IsLine => HeaderRead(r, line))
<1>1. LineDone(r, line) => IsLine
  BY LineDoneParts DEF IsLine, None
<1>2. HeaderRead(r, line) => ~IsLine
  BY DEF HeaderRead, IsLine
<1> QED
  BY <1>1, <1>2 DEF ParseInv

\* The request-line automaton accepts no line that is not well formed as a
\* whole, for lines of any length.
THEOREM LineGrammarHolds == ParseSpec => []LineGrammar
<1>1. ParseInv => LineGrammar
  BY AcceptedWhich, LineDoneWellFormed DEF LineGrammar
<1> QED
  BY <1>1, ParseInvariant, PTL

\* The pointers it leaves behind cut an accepted line where its parts end.
THEOREM FieldsDelimitLineHolds == ParseSpec => []FieldsDelimitLine
<1>1. ParseInv => FieldsDelimitLine
  <2> SUFFICES ASSUME ParseInv, parsed = "OK", IsLine
               PROVE  /\ r.request_end = EndOfLine
                      /\ r.method_end = WordLen[r.word]
                      /\ Part(r.uri_start, r.uri_end) = <<"/">>
                      /\ IF r.http_protocol = None THEN Blanks(Part(r.uri_end, r.request_end))
                         ELSE /\ Blanks(Part(r.uri_end, r.http_protocol))
                              /\ Version(Part(r.http_protocol, r.request_end))
    BY DEF FieldsDelimitLine
  <2>1. LineDone(r, line)
    BY AcceptedWhich
  <2>2. r.http_protocol \in r.uri_end + 1 .. r.request_end => r.http_protocol # None
    BY <2>1, LineDoneParts DEF None
  <2> QED
    BY <2>1, <2>2, LineDoneParts DEF Part, EndOfLine
<1> QED
  BY <1>1, ParseInvariant, PTL

\* A header line with a value is cut into its name and its value without the
\* blanks around it.
THEOREM HeaderFieldsHolds == ParseSpec => []HeaderFields
<1>1. ParseInv => HeaderFields
  <2> DEFINE rest == SubSeq(line, r.header_end + 1, Len(line))
  <2> SUFFICES ASSUME ParseInv, parsed = "OK", ~IsLine, r.header_start > r.header_name_end
               PROVE  /\ \A i \in DOMAIN Part(0, r.header_name_end) : line[i] # ":"
                      /\ line[r.header_name_end + 1] = ":"
                      /\ Blanks(Part(r.header_name_end + 1, r.header_start))
                      /\ r.header_end > r.header_start
                      /\ line[r.header_start + 1] # "SP" /\ line[r.header_end] # "SP"
                      /\ \A i \in DOMAIN rest : rest[i] \in {"SP", "CR", "LF"}
    BY Zenon DEF HeaderFields
  <2> DEFINE k == r.header_name_end
             h == r.header_start
             e == r.header_end
             n == Len(line)
  <2>1. HeaderRead(r, line)
    BY AcceptedWhich
  <2>2. r \in Requests /\ line \in Seq(HeaderChars) /\ n \in Nat /\ NameRead(r, line, k)
    BY <2>1 DEF HeaderRead
  <2>3. k \in Int /\ h \in Int /\ e \in Int
    BY <2>2 DEF Requests
  <2>4. ValueStarted(r, line) /\ ValueEnded(r, line)
    <3>1. h # k
      BY <2>3
    <3> QED
      BY <2>1, <3>1 DEF HeaderRead
  <2>5. k >= 1 /\ k <= n /\ \A i \in 1 .. k : line[i] # ":"
    BY <2>2 DEF NameRead
  <2>6. /\ h \in k + 1 .. n - 1 /\ line[k + 1] = ":" /\ line[h + 1] # "SP"
        /\ IsBlank(line, k + 2, h)
    BY <2>4 DEF ValueStarted
  <2>7. /\ e \in h + 1 .. n /\ line[e] # "SP"
        /\ \A i \in e + 1 .. n : line[i] \in {"SP", "CR", "LF"}
    BY <2>4 DEF ValueEnded
  <2>8. \A i \in DOMAIN Part(0, k) : line[i] # ":"
    <3>1. 1 \in Nat /\ k \in Nat /\ 1 <= k + 1 /\ k - 1 + 1 = k /\ 0 + 1 = 1
      BY <2>3, <2>5
    <3>2. DOMAIN SubSeq(line, 1, k) = 1 .. k - 1 + 1
      BY <2>2, <2>5, <3>1, Piece
    <3> QED
      BY <2>5, <3>1, <3>2 DEF Part
  <2>9. Blanks(Part(k + 1, h))
    <3>1. /\ k + 2 \in Nat /\ h \in Nat /\ k + 2 >= 1 /\ k + 2 <= h + 1 /\ h <= Len(line)
          /\ (k + 1) + 1 = k + 2
      BY <2>2, <2>3, <2>5, <2>6
    <3>2. Blanks(SubSeq(line, k + 2, h))
      BY <2>2, <2>6, <3>1, BlankPiece
    <3> QED
      BY <3>1, <3>2 DEF Part
  <2>10. \A i \in DOMAIN rest : rest[i] \in {"SP", "CR", "LF"}
    <3> DEFINE a == e + 1
    <3>1. a \in Nat /\ a >= 1 /\ a <= n + 1
      BY <2>2, <2>3, <2>5, <2>6, <2>7
    <3>2. \A i \in a .. n : line[i] \in {"SP", "CR", "LF"}
      BY <2>7
    <3> HIDE DEF a
    <3>3. /\ DOMAIN SubSeq(line, a, n) = 1 .. n - a + 1
          /\ \A i \in 1 .. n - a + 1 : SubSeq(line, a, n)[i] = line[a + i - 1]
      BY <2>2, <3>1, Piece
    <3>4. \A i \in 1 .. n - a + 1 : a + i - 1 \in a .. n
      BY <2>2, <3>1
    <3>5. \A i \in DOMAIN SubSeq(line, a, n) : SubSeq(line, a, n)[i] \in {"SP", "CR", "LF"}
      BY <3>2, <3>3, <3>4
    <3> QED
      BY <3>5 DEF a
  <2>11. e > h
    BY <2>3, <2>7
  <2> QED
    BY <2>6, <2>7, <2>8, <2>9, <2>10, <2>11
<1> QED
  BY <1>1, ParseInvariant, PTL

\* lowcase_header holds the name whenever its length agrees, however long the
\* name and however small the buffer it wraps around in.
THEOREM KeyLoweredHolds == ParseSpec => []KeyLowered
<1>1. ParseInv => KeyLowered
  <2> SUFFICES ASSUME ParseInv, parsed = "OK", ~IsLine, r.header_name_end = r.lowcase_index
               PROVE  \A i \in 0 .. r.lowcase_index - 1 : r.lowcase_header[i] = line[i + 1]
    BY DEF KeyLowered
  <2>1. NameRead(r, line, r.header_name_end)
    BY AcceptedWhich DEF HeaderRead
  <2> QED
    BY <2>1 DEF NameRead
<1> QED
  BY <1>1, ParseInvariant, PTL

-----------------------------------------------------------------------------
(* The reader without a buffer                                             *)

ModeSet == {"blank", "word", "comment"}

\* The cases of NextMode in one expression
LEMMA NextModeIs ==
    ASSUME NEW mode \in ModeSet, NEW ch \in Chars
    PROVE  NextMode(mode, ch) =
             IF mode = "comment" THEN IF ch = "LF" THEN "blank" ELSE "comment"
             ELSE IF ch \in {"LF", "semi", "open"} THEN "blank"
             ELSE IF mode = "word" THEN "word"
             ELSE IF ch = "close" THEN "blank"
             ELSE IF ch = "#" THEN "comment" ELSE "word"
<1>1. mode = "comment" \/ mode = "word" \/ mode = "blank"
  BY DEF ModeSet
<1>2. ch \in {"LF", "semi", "open", "close", "#"} \/ ch \notin {"LF", "semi", "open", "close", "#"}
  OBVIOUS
<1> QED
  BY <1>1, <1>2 DEF NextMode

\* A mode follows a mode.
LEMMA NextModeType ==
    \A mode \in ModeSet : \A ch \in Chars : NextMode(mode, ch) \in ModeSet
<1> TAKE mode \in ModeSet
<1> TAKE ch \in Chars
<1> QED
  BY NextModeIs DEF ModeSet

\* The definition of the modes is one by recursion over the characters.
LEMMA ModesSteps ==
    ASSUME NEW f \in Seq(Chars)
    PROVE  /\ Modes(f) \in [0 .. Len(f) -> ModeSet]
           /\ Modes(f)[0] = "blank"
           /\ \A i \in 1 .. Len(f) : Modes(f)[i] = NextMode(Modes(f)[i - 1], f[i])
<1> DEFINE n == Len(f)
           g == [i \in 1 .. n |-> [mode \in ModeSet |-> NextMode(mode, f[i])]]
           F(m) == [i \in 0 .. n |-> IF i = 0 THEN "blank" ELSE NextMode(m[i - 1], f[i])]
<1>1. n \in Nat /\ \A i \in 1 .. n : f[i] \in Chars
  OBVIOUS
<1>2. Modes(f) = CHOOSE m : m = F(m)
  BY Zenon DEF Modes
<1> HIDE DEF n
<1>3. g \in [1 .. n -> [ModeSet -> ModeSet]]
  BY <1>1, NextModeType
<1> HIDE DEF g
<1>4. "blank" \in ModeSet
  BY DEF ModeSet
<1>5. PICK d \in [0 .. n -> ModeSet] : d[0] = "blank" /\ \A i \in 1 .. n : d[i] = g[i][d[i - 1]]
  <2> DEFINE x == "blank"
  <2>1. x \in ModeSet /\ n \in Nat
    BY <1>1, <1>4
  <2> HIDE DEF x, F
  <2>2. \E d \in [0 .. n -> ModeSet] : d[0] = x /\ \A i \in 1 .. n : d[i] = g[i][d[i - 1]]
    BY <1>3, <2>1, RecursionExists
  <2> QED
    BY <2>2 DEF x
<1>6. \A i \in 1 .. n : d[i] = NextMode(d[i - 1], f[i])
  <2> TAKE i \in 1 .. n
  <2>1. d[i - 1] \in ModeSet
    BY <1>1, <1>5
  <2> QED
    BY <2>1, <1>5 DEF g
<1>7. d = F(d)
  BY <1>1, <1>5, <1>6
<1>8. Modes(f) = F(Modes(f))
  <2> HIDE DEF F
  <2> QED
    BY <1>2, <1>7
<1>9. Modes(f)[0] = "blank" /\ \A i \in 1 .. n : Modes(f)[i] = NextMode(Modes(f)[i - 1], f[i])
  BY <1>1, <1>8
<1>10. \A i \in 0 .. n : Modes(f)[i] \in ModeSet
  <2> DEFINE P == {i \in Nat : i <= n => Modes(f)[i] \in ModeSet}
  <2>1. 0 \in P
    BY <1>4, <1>9
  <2>2. ASSUME NEW i \in Nat, i \in P PROVE i + 1 \in P
    <3> SUFFICES ASSUME i + 1 <= n PROVE Modes(f)[i + 1] \in ModeSet
      OBVIOUS
    <3>1. i + 1 \in 1 .. n /\ (i + 1) - 1 = i /\ Modes(f)[i] \in ModeSet
      BY <1>1, <2>2
    <3> QED
      BY <1>1, <1>9, <3>1, NextModeType
  <2> HIDE DEF P
  <2>3. Nat \subseteq P
    BY <2>1, <2>2, SetInduction
  <2> QED
    BY <1>1, <2>3 DEF P
<1>11. Modes(f) \in [0 .. n -> ModeSet]
  BY <1>8, <1>10
<1> QED
  BY <1>9, <1>11 DEF n

\* f is the beginning of g.
Begins(f, g) == Len(f) <= Len(g) /\ \A i \in 1 .. Len(f) : f[i] = g[i]

\* What is read later does not change the modes.
LEMMA ModesExtend ==
    ASSUME NEW f \in Seq(Chars), NEW g \in Seq(Chars), Begins(f, g)
    PROVE  \A i \in 0 .. Len(f) : Modes(g)[i] = Modes(f)[i]
<1> DEFINE n == Len(f)
           P == {i \in Nat : i <= n => Modes(g)[i] = Modes(f)[i]}
<1>1. n \in Nat /\ Len(g) \in Nat /\ n <= Len(g) /\ \A i \in 1 .. n : f[i] = g[i]
  BY DEF Begins
<1>2. /\ Modes(f)[0] = "blank" /\ Modes(g)[0] = "blank"
      /\ \A i \in 1 .. n : Modes(f)[i] = NextMode(Modes(f)[i - 1], f[i])
      /\ \A i \in 1 .. Len(g) : Modes(g)[i] = NextMode(Modes(g)[i - 1], g[i])
  BY ModesSteps
<1> HIDE DEF n
<1>3. 0 \in P
  BY <1>2
<1>4. ASSUME NEW i \in Nat, i \in P PROVE i + 1 \in P
  <2> SUFFICES ASSUME i + 1 <= n PROVE Modes(g)[i + 1] = Modes(f)[i + 1]
    OBVIOUS
  <2>1. i + 1 \in 1 .. n /\ i + 1 \in 1 .. Len(g) /\ (i + 1) - 1 = i
    BY <1>1
  <2>2. Modes(g)[i] = Modes(f)[i]
    BY <1>1, <1>4
  <2> QED
    BY <1>1, <1>2, <2>1, <2>2
<1> HIDE DEF P
<1>5. Nat \subseteq P
  BY <1>3, <1>4, SetInduction
<1> QED
  BY <1>1, <1>5 DEF P, n

-----------------------------------------------------------------------------
(* Words                                                                   *)

\* The word before position i of f begins behind position w.
WordFrom(f, w, i) == /\ w \in Nat /\ w < i - 1 /\ Modes(f)[w] # "word"
                     /\ \A j \in w + 1 .. i - 1 : Modes(f)[j] = "word"

\* A word has one beginning.
LEMMA WordStartIs ==
    ASSUME NEW f \in Seq(Chars), NEW i \in 1 .. Len(f), NEW w, WordFrom(f, w, i)
    PROVE  WordStarts(f, i) = {w + 1}
<1>1. w \in Nat /\ w < i - 1 /\ i \in Nat
  BY DEF WordFrom
<1>2. w + 1 \in WordStarts(f, i)
  <2>1. w + 1 \in 1 .. i - 1 /\ (w + 1) - 1 = w
    BY <1>1
  <2> QED
    BY <2>1 DEF WordStarts, WordFrom
<1>3. ASSUME NEW k \in WordStarts(f, i) PROVE k = w + 1
  <2>1. k \in 1 .. i - 1 /\ Modes(f)[k - 1] # "word" /\ \A n \in k .. i - 1 : Modes(f)[n] = "word"
    BY <1>3 DEF WordStarts
  <2>2. ~(k - 1 > w)
    <3> SUFFICES ASSUME k - 1 > w PROVE FALSE
      OBVIOUS
    <3>1. k - 1 \in w + 1 .. i - 1
      BY <1>1, <2>1
    <3> QED
      BY <2>1, <3>1 DEF WordFrom
  <2>3. ~(k - 1 < w)
    <3> SUFFICES ASSUME k - 1 < w PROVE FALSE
      OBVIOUS
    <3>1. w \in k .. i - 1
      BY <1>1, <2>1
    <3> QED
      BY <2>1, <3>1 DEF WordFrom
  <2> QED
    BY <1>1, <2>1, <2>2, <2>3
<1> QED
  BY <1>2, <1>3

\* A word has a beginning.
LEMMA WordStartExists ==
    ASSUME NEW f \in Seq(Chars), NEW i \in 1 .. Len(f), Modes(f)[i - 1] = "word"
    PROVE  \E w : WordFrom(f, w, i)
<1> DEFINE T == {k \in 0 .. i - 1 : Modes(f)[k] # "word"}
<1>1. i - 1 \in Nat /\ T \subseteq 0 .. i - 1
  OBVIOUS
<1>2. T # {}
  <2>1. 0 \in 0 .. i - 1 /\ Modes(f)[0] # "word"
    BY ModesSteps, <1>1
  <2> QED
    BY <2>1
<1>3. PICK w \in T : \A y \in T : w >= y
  <2> HIDE DEF T
  <2> QED
    BY <1>1, <1>2, GreatestNat
<1>4. w \in 0 .. i - 1 /\ Modes(f)[w] # "word"
  OBVIOUS
<1>5. w # i - 1
  BY <1>4
<1>6. ASSUME NEW j \in w + 1 .. i - 1 PROVE Modes(f)[j] = "word"
  <2>1. j \in 0 .. i - 1 /\ ~(w >= j)
    BY <1>4
  <2> QED
    BY <1>3, <2>1
<1> HIDE DEF T
<1>7. WordFrom(f, w, i)
  BY <1>1, <1>4, <1>5, <1>6 DEF WordFrom
<1> QED
  BY <1>7

\* What is read later does not change where a word begins.
LEMMA WordFromExtend ==
    ASSUME NEW f \in Seq(Chars), NEW g \in Seq(Chars), Begins(f, g), NEW k \in 0 .. Len(f),
           NEW v, WordFrom(f, v, k + 1)
    PROVE  WordFrom(g, v, k + 1)
<1>1. v \in Nat /\ v < k + 1 - 1 /\ k + 1 - 1 = k
  BY DEF WordFrom
<1>2. v \in 0 .. Len(f) /\ \A j \in v + 1 .. k + 1 - 1 : j \in 0 .. Len(f)
  BY <1>1
<1>3. \A j \in 0 .. Len(f) : Modes(g)[j] = Modes(f)[j]
  BY ModesExtend
<1> QED
  BY <1>2, <1>3 DEF WordFrom

\* A word goes on.
LEMMA WordFromNext ==
    ASSUME NEW f \in Seq(Chars), NEW k \in Nat, NEW v, WordFrom(f, v, k + 1),
           Modes(f)[k + 1] = "word"
    PROVE  WordFrom(f, v, k + 2)
<1>1. v \in Nat /\ v < k + 1 - 1 /\ v < k + 2 - 1
  BY DEF WordFrom
<1>2. \A j \in v + 1 .. k + 2 - 1 : j \in v + 1 .. k + 1 - 1 \/ j = k + 1
  BY <1>1
<1>3. \A j \in v + 1 .. k + 2 - 1 : Modes(f)[j] = "word"
  BY <1>2 DEF WordFrom
<1> QED
  BY <1>1, <1>3 DEF WordFrom

WordEnds(f, i) == Modes(f)[i - 1] = "word" /\ Modes(f)[i] # "word"
WordAt(f, i) == SubSeq(f, CHOOSE k \in WordStarts(f, i) : TRUE, i - 1)

\* The word that ends before position i, character by character
LEMMA WordAtIs ==
    ASSUME NEW f \in Seq(Chars), NEW i \in 1 .. Len(f), NEW w, WordFrom(f, w, i)
    PROVE  /\ WordAt(f, i) = SubSeq(f, w + 1, i - 1)
           /\ WordAt(f, i) \in Seq(Chars)
           /\ Len(WordAt(f, i)) = i - 1 - w
           /\ \A j \in 1 .. i - 1 - w : WordAt(f, i)[j] = f[w + j]
<1>1. w \in Nat /\ w < i - 1 /\ i \in Nat /\ i <= Len(f) /\ Len(f) \in Nat
  BY DEF WordFrom
<1>2. WordStarts(f, i) = {w + 1}
  BY WordStartIs
<1>3. (CHOOSE k \in WordStarts(f, i) : TRUE) = w + 1
  BY <1>2
<1>4. WordAt(f, i) = SubSeq(f, w + 1, i - 1)
  BY <1>3 DEF WordAt
<1>5. w + 1 \in 1 .. Len(f) + 1 /\ i - 1 \in w + 1 - 1 .. Len(f)
  BY <1>1
<1>6. /\ SubSeq(f, w + 1, i - 1) \in Seq(Chars)
      /\ Len(SubSeq(f, w + 1, i - 1)) = i - 1 - w
      /\ \A j \in 1 .. i - 1 - w : SubSeq(f, w + 1, i - 1)[j] = f[w + j]
  BY <1>1, <1>5
<1> QED
  BY <1>4, <1>6

\* What ends is a word.
LEMMA WordAtType ==
    ASSUME NEW f \in Seq(Chars), NEW i \in 1 .. Len(f), Modes(f)[i - 1] = "word"
    PROVE  WordAt(f, i) \in Seq(Chars)
BY WordStartExists, WordAtIs

\* The definition of the words is one by recursion over the characters.
LEMMA WordsSteps ==
    ASSUME NEW f \in Seq(Chars), NEW from \in Nat
    PROVE  /\ WordsOf(f, from) \in [0 .. Len(f) -> Seq(Seq(Chars))]
           /\ \A i \in 0 .. Len(f) : i <= from => WordsOf(f, from)[i] = <<>>
           /\ \A i \in 1 .. Len(f) : i > from =>
                WordsOf(f, from)[i] =
                  IF WordEnds(f, i) THEN Append(WordsOf(f, from)[i - 1], WordAt(f, i))
                  ELSE WordsOf(f, from)[i - 1]
<1> DEFINE n == Len(f)
           S == Seq(Seq(Chars))
           After(i, w) == IF i <= from THEN <<>>
                          ELSE IF WordEnds(f, i) THEN Append(w, WordAt(f, i)) ELSE w
           g == [i \in 1 .. n |-> [w \in S |-> After(i, w)]]
           F(d) == [i \in 0 .. n |-> After(i, d[i - 1])]
           W == WordsOf(f, from)
<1>1. n \in Nat
  OBVIOUS
<1>2. W = CHOOSE d : d = F(d)
  BY Zenon DEF WordsOf, WordEnds, WordAt
<1> HIDE DEF n, W
<1>3. \A i \in 1 .. n : \A w \in S : After(i, w) \in S
  <2> TAKE i \in 1 .. n
  <2> TAKE w \in S
  <2>1. CASE i > from /\ WordEnds(f, i)
    <3>1. WordAt(f, i) \in Seq(Chars)
      BY <2>1, WordAtType DEF n, WordEnds
    <3> QED
      BY <2>1, <3>1
  <2>2. CASE ~(i > from /\ WordEnds(f, i))
    BY <2>2
  <2> QED
    BY <2>1, <2>2
<1>4. g \in [1 .. n -> [S -> S]]
  <2> HIDE DEF After, S
  <2> QED
    BY <1>3
<1>5. PICK d \in [0 .. n -> S] : d[0] = <<>> /\ \A i \in 1 .. n : d[i] = g[i][d[i - 1]]
  <2> DEFINE x == <<>>
  <2>1. x \in S
    OBVIOUS
  <2> HIDE DEF x, F, S, g
  <2>2. \E d \in [0 .. n -> S] : d[0] = x /\ \A i \in 1 .. n : d[i] = g[i][d[i - 1]]
    BY <1>1, <1>4, <2>1, RecursionExists
  <2> QED
    BY <2>2 DEF x
<1>6. \A i \in 1 .. n : d[i] = After(i, d[i - 1])
  <2> TAKE i \in 1 .. n
  <2> HIDE DEF After, S
  <2>1. d[i - 1] \in S
    BY <1>1, <1>5
  <2> QED
    BY <2>1, <1>5
<1>7. \A w : After(0, w) = <<>>
  OBVIOUS
<1>8. d = F(d)
  <2> HIDE DEF After, S, g
  <2>1. \A i \in 0 .. n : d[i] = After(i, d[i - 1])
    BY <1>1, <1>5, <1>6, <1>7
  <2> QED
    BY <2>1
<1>9. W = F(W)
  <2> HIDE DEF F
  <2> QED
    BY <1>2, <1>8
<1>10. \A i \in 0 .. n : W[i] = After(i, W[i - 1])
  <2> HIDE DEF After
  <2> QED
    BY <1>9
<1>11. \A i \in 0 .. n : W[i] \in S
  <2> DEFINE P == {i \in Nat : i <= n => W[i] \in S}
  <2>1. 0 \in P
    <3>1. W[0] = <<>>
      BY <1>1, <1>7, <1>10
    <3>2. <<>> \in S
      OBVIOUS
    <3> HIDE DEF S
    <3> QED
      BY <3>1, <3>2
  <2>2. ASSUME NEW i \in Nat, i \in P PROVE i + 1 \in P
    <3> SUFFICES ASSUME i + 1 <= n PROVE W[i + 1] \in S
      OBVIOUS
    <3>1. i + 1 \in 1 .. n /\ i + 1 \in 0 .. n /\ (i + 1) - 1 = i /\ W[i] \in S
      BY <1>1, <2>2
    <3> HIDE DEF After, S
    <3> QED
      BY <1>3, <1>10, <3>1
  <2> HIDE DEF P, S
  <2>3. Nat \subseteq P
    BY <2>1, <2>2, SetInduction
  <2> QED
    BY <1>1, <2>3 DEF P
<1>12. W \in [0 .. n -> S]
  <2> HIDE DEF After, S
  <2> QED
    BY <1>9, <1>11
<1>13. \A i \in 0 .. n : i <= from => W[i] = <<>>
  BY <1>10
<1>14. \A i \in 1 .. n : i > from =>
         W[i] = IF WordEnds(f, i) THEN Append(W[i - 1], WordAt(f, i)) ELSE W[i - 1]
  <2> TAKE i \in 1 .. n
  <2>1. i \in 0 .. n /\ (i > from => ~(i <= from))
    BY <1>1
  <2> QED
    BY <1>10, <2>1
<1> QED
  BY <1>12, <1>13, <1>14 DEF n, W

\* What is read later does not change which words have ended.
LEMMA WordEndsExtend ==
    ASSUME NEW f \in Seq(Chars), NEW g \in Seq(Chars), Begins(f, g), NEW i \in 1 .. Len(f)
    PROVE  /\ WordEnds(g, i) <=> WordEnds(f, i)
           /\ WordEnds(f, i) => WordAt(g, i) = WordAt(f, i)
<1>1. /\ Len(f) \in Nat /\ Len(g) \in Nat /\ Len(f) <= Len(g) /\ \A j \in 1 .. Len(f) : f[j] = g[j]
      /\ \A j \in 0 .. Len(f) : Modes(g)[j] = Modes(f)[j]
  BY ModesExtend DEF Begins
<1>2. i \in 1 .. Len(g) /\ i - 1 \in 0 .. Len(f) /\ i \in 0 .. Len(f)
  BY <1>1
<1>3. WordEnds(g, i) <=> WordEnds(f, i)
  BY <1>1, <1>2 DEF WordEnds
<1>4. ASSUME WordEnds(f, i) PROVE WordAt(g, i) = WordAt(f, i)
  <2>1. PICK w : WordFrom(f, w, i)
    BY <1>4, WordStartExists DEF WordEnds
  <2>2. w \in Nat /\ w < i - 1 /\ w \in 0 .. Len(f) /\ \A j \in w + 1 .. i - 1 : j \in 0 .. Len(f)
    BY <2>1, <1>1, <1>2 DEF WordFrom
  <2>3. WordFrom(g, w, i)
    BY <2>1, <2>2, <1>1 DEF WordFrom
  <2>4. /\ WordAt(f, i) \in Seq(Chars) /\ Len(WordAt(f, i)) = i - 1 - w
        /\ \A j \in 1 .. i - 1 - w : WordAt(f, i)[j] = f[w + j]
    BY <2>1, WordAtIs
  <2>5. /\ WordAt(g, i) \in Seq(Chars) /\ Len(WordAt(g, i)) = i - 1 - w
        /\ \A j \in 1 .. i - 1 - w : WordAt(g, i)[j] = g[w + j]
    BY <2>3, <1>2, WordAtIs
  <2>6. \A j \in 1 .. i - 1 - w : w + j \in 1 .. Len(f)
    BY <2>2, <1>1, <1>2
  <2>7. \A j \in 1 .. Len(WordAt(f, i)) : WordAt(g, i)[j] = WordAt(f, i)[j]
    BY <2>4, <2>5, <2>6, <1>1
  <2> QED
    BY <2>4, <2>5, <2>7, SeqEqual
<1> QED
  BY <1>3, <1>4

\* What is read later does not change the words before it.
LEMMA WordsExtend ==
    ASSUME NEW f \in Seq(Chars), NEW g \in Seq(Chars), Begins(f, g), NEW from \in Nat
    PROVE  \A i \in 0 .. Len(f) : WordsOf(g, from)[i] = WordsOf(f, from)[i]
<1> DEFINE n == Len(f)
           V == WordsOf(f, from)
           W == WordsOf(g, from)
           P == {i \in Nat : i <= n => W[i] = V[i]}
<1>1. n \in Nat /\ Len(g) \in Nat /\ n <= Len(g)
  BY DEF Begins
<1>2. /\ \A i \in 0 .. n : i <= from => V[i] = <<>>
      /\ \A i \in 1 .. n : i > from =>
           V[i] = IF WordEnds(f, i) THEN Append(V[i - 1], WordAt(f, i)) ELSE V[i - 1]
      /\ \A i \in 0 .. Len(g) : i <= from => W[i] = <<>>
      /\ \A i \in 1 .. Len(g) : i > from =>
           W[i] = IF WordEnds(g, i) THEN Append(W[i - 1], WordAt(g, i)) ELSE W[i - 1]
  BY WordsSteps
<1>3. \A i \in 1 .. n : /\ WordEnds(g, i) <=> WordEnds(f, i)
                        /\ WordEnds(f, i) => WordAt(g, i) = WordAt(f, i)
  BY WordEndsExtend
<1> HIDE DEF n, V, W
<1>4. 0 \in P
  <2>1. 0 \in 0 .. n /\ 0 \in 0 .. Len(g) /\ 0 <= from
    BY <1>1
  <2> QED
    BY <1>2, <2>1
<1>5. ASSUME NEW i \in Nat, i \in P PROVE i + 1 \in P
  <2> SUFFICES ASSUME i + 1 <= n PROVE W[i + 1] = V[i + 1]
    OBVIOUS
  <2>1. i + 1 \in 1 .. n /\ i + 1 \in 1 .. Len(g) /\ (i + 1) - 1 = i
        /\ i + 1 \in 0 .. n /\ i + 1 \in 0 .. Len(g)
    BY <1>1
  <2>2. W[i] = V[i]
    BY <1>1, <1>5
  <2>3. CASE i + 1 <= from
    BY <1>2, <2>1, <2>3
  <2>4. CASE i + 1 > from
    <3>1. /\ V[i + 1] = IF WordEnds(f, i + 1) THEN Append(V[i], WordAt(f, i + 1)) ELSE V[i]
          /\ W[i + 1] = IF WordEnds(g, i + 1) THEN Append(W[i], WordAt(g, i + 1)) ELSE W[i]
      BY <1>2, <2>1, <2>4
    <3>2. /\ WordEnds(g, i + 1) <=> WordEnds(f, i + 1)
          /\ WordEnds(f, i + 1) => WordAt(g, i + 1) = WordAt(f, i + 1)
      BY <1>3, <2>1
    <3> QED
      BY <3>1, <3>2, <2>2
  <2> QED
    BY <2>3, <2>4
<1> HIDE DEF P
<1>6. Nat \subseteq P
  BY <1>4, <1>5, SetInduction
<1> QED
  BY <1>1, <1>6 DEF P, n, V, W

-----------------------------------------------------------------------------
(* Directives and blocks                                                   *)

\* A set of positions of a file is finite.
LEMMA UptoFinite ==
    ASSUME NEW f \in Seq(Chars), NEW S, S \subseteq DOMAIN f
    PROVE  IsFiniteSet(S) /\ Cardinality(S) \in Nat
<1>1. IsFiniteSet(1 .. Len(f))
  BY FS_Interval
<1>2. S \in SUBSET (1 .. Len(f))
  OBVIOUS
<1> QED
  BY <1>1, <1>2, FS_Subset, FS_CardinalityType

\* The ends of directives and blocks are positions, and can be counted.
LEMMA EndsFacts ==
    ASSUME NEW f \in Seq(Chars)
    PROVE  /\ Ends(f) \subseteq 1 .. Len(f) /\ Closes(f) \subseteq 1 .. Len(f)
           /\ \A k : /\ IsFiniteSet(Upto(Ends(f), k)) /\ Cardinality(Upto(Ends(f), k)) \in Nat
                     /\ IsFiniteSet(Upto(Closes(f), k)) /\ Cardinality(Upto(Closes(f), k)) \in Nat
<1>1. Ends(f) \subseteq DOMAIN f /\ Closes(f) \subseteq DOMAIN f /\ DOMAIN f = 1 .. Len(f)
  BY DEF Ends, Closes
<1>2. \A k : Upto(Ends(f), k) \subseteq DOMAIN f /\ Upto(Closes(f), k) \subseteq DOMAIN f
  BY <1>1 DEF Upto
<1> QED
  BY <1>1, <1>2, UptoFinite

\* What is read later does not change where directives and blocks end.
LEMMA EndsExtend ==
    ASSUME NEW f \in Seq(Chars), NEW g \in Seq(Chars), Begins(f, g)
    PROVE  /\ \A i \in 1 .. Len(f) : (i \in Ends(g) <=> i \in Ends(f))
                                     /\ (i \in Closes(g) <=> i \in Closes(f))
           /\ \A k \in 0 .. Len(f) : /\ Upto(Ends(g), k) = Upto(Ends(f), k)
                                     /\ Upto(Closes(g), k) = Upto(Closes(f), k)
<1>1. /\ Len(f) \in Nat /\ Len(g) \in Nat /\ Len(f) <= Len(g) /\ \A j \in 1 .. Len(f) : f[j] = g[j]
      /\ DOMAIN f = 1 .. Len(f) /\ DOMAIN g = 1 .. Len(g)
  BY DEF Begins
<1>2. \A j \in 0 .. Len(f) : Modes(g)[j] = Modes(f)[j]
  BY ModesExtend
<1>3. \A i \in 1 .. Len(f) : (i \in Ends(g) <=> i \in Ends(f)) /\ (i \in Closes(g) <=> i \in Closes(f))
  <2> TAKE i \in 1 .. Len(f)
  <2>1. i \in 0 .. Len(f) /\ i \in DOMAIN f /\ i \in DOMAIN g
    BY <1>1
  <2> QED
    BY <1>1, <1>2, <2>1 DEF Ends, Closes
<1>4. \A k \in 0 .. Len(f) : \A i \in 1 .. Len(g) : i <= k => i \in 1 .. Len(f)
  BY <1>1
<1>5. \A i \in 1 .. Len(f) : i \in 1 .. Len(g)
  BY <1>1
<1> QED
  BY <1>3, <1>4, <1>5, EndsFacts DEF Upto

\* A position is the n-th end by the number of ends up to it.
LEMMA NthEndIs ==
    ASSUME NEW f \in Seq(Chars), NEW n \in Nat \ {0}, NEW i \in Ends(f),
           Cardinality(Upto(Ends(f), i)) = n
    PROVE  NthEnd(f, n) = i
<1>1. \A j \in Ends(f) : j \in Nat
  BY EndsFacts
<1>2. ASSUME NEW a \in Ends(f), NEW b \in Ends(f), a < b
      PROVE  Cardinality(Upto(Ends(f), a)) # Cardinality(Upto(Ends(f), b))
  <2>1. Upto(Ends(f), a) \in SUBSET Upto(Ends(f), b)
    BY <1>1, <1>2 DEF Upto
  <2>2. b \in Upto(Ends(f), b) /\ b \notin Upto(Ends(f), a)
    BY <1>1, <1>2 DEF Upto
  <2>3. IsFiniteSet(Upto(Ends(f), b))
    BY EndsFacts
  <2> QED
    BY <2>1, <2>2, <2>3, FS_Subset
<1>3. \A j \in Ends(f) : Cardinality(Upto(Ends(f), j)) = n => j = i
  <2> TAKE j \in Ends(f)
  <2>1. j < i \/ i < j \/ i = j
    BY <1>1
  <2> QED
    BY <1>2, <2>1
<1>4. (CHOOSE j \in Ends(f) : Cardinality(Upto(Ends(f), j)) = n) = i
  BY <1>3
<1> QED
  BY <1>4 DEF NthEnd

\* Counting goes up by one at each of the positions counted.
LEMMA UptoStep ==
    ASSUME NEW S, S \subseteq Nat, NEW k \in Nat, IsFiniteSet(Upto(S, k))
    PROVE  Cardinality(Upto(S, k + 1)) = IF k + 1 \in S THEN Cardinality(Upto(S, k)) + 1
                                         ELSE Cardinality(Upto(S, k))
<1>1. \A x \in S : x <= k + 1 <=> x <= k \/ x = k + 1
  OBVIOUS
<1>2. CASE k + 1 \in S
  <2>1. Upto(S, k + 1) = Upto(S, k) \cup {k + 1}
    <3> DEFINE x == k + 1
    <3>1. x \in S /\ x <= x /\ \A y \in S : y <= x <=> y <= k \/ y = x
      BY <1>1, <1>2
    <3> HIDE DEF x
    <3>2. Upto(S, x) = Upto(S, k) \cup {x}
      BY <3>1 DEF Upto
    <3> QED
      BY <3>2 DEF x
  <2>2. k + 1 \notin Upto(S, k)
    BY DEF Upto
  <2> QED
    BY <1>2, <2>1, <2>2, FS_AddElement
<1>3. CASE k + 1 \notin S
  <2>1. Upto(S, k + 1) = Upto(S, k)
    BY <1>1, <1>3 DEF Upto
  <2> QED
    BY <1>3, <2>1
<1> QED
  BY <1>2, <1>3

\* The ends that open a block
OpenEnds(f) == {k \in Ends(f) : f[k] = "open"}

\* The depth is a difference of two counts.
LEMMA DepthIs ==
    ASSUME NEW f \in Seq(Chars), NEW k \in Nat
    PROVE  /\ DepthAt(f, k + 1) = Cardinality(Upto(OpenEnds(f), k)) - Cardinality(Upto(Closes(f), k))
           /\ IsFiniteSet(Upto(OpenEnds(f), k)) /\ Cardinality(Upto(OpenEnds(f), k)) \in Nat
           /\ IsFiniteSet(Upto(Closes(f), k)) /\ Cardinality(Upto(Closes(f), k)) \in Nat
           /\ OpenEnds(f) \subseteq Nat /\ Closes(f) \subseteq Nat
<1>1. (k + 1) - 1 = k
  OBVIOUS
<1>2. {j \in Upto(Ends(f), k) : f[j] = "open"} = Upto(OpenEnds(f), k)
  BY DEF Upto, OpenEnds
<1>3. DepthAt(f, k + 1) = Cardinality(Upto(OpenEnds(f), k)) - Cardinality(Upto(Closes(f), k))
  BY <1>1, <1>2 DEF DepthAt
<1>4. Upto(OpenEnds(f), k) \subseteq DOMAIN f /\ Upto(Closes(f), k) \subseteq DOMAIN f
  BY DEF Upto, OpenEnds, Ends, Closes
<1>5. Ends(f) \subseteq Nat /\ Closes(f) \subseteq Nat
  BY EndsFacts
<1> QED
  BY <1>3, <1>4, <1>5, UptoFinite DEF OpenEnds

\* It changes where a block is opened or closed, and nowhere else.
LEMMA DepthStep ==
    ASSUME NEW f \in Seq(Chars), NEW k \in Nat
    PROVE  /\ DepthAt(f, k + 1) \in Int
           /\ k + 1 \in Ends(f) /\ f[k + 1] = "open" => DepthAt(f, k + 2) = DepthAt(f, k + 1) + 1
           /\ k + 1 \in Closes(f) => DepthAt(f, k + 2) = DepthAt(f, k + 1) - 1
           /\ k + 1 \notin Closes(f) /\ ~(k + 1 \in Ends(f) /\ f[k + 1] = "open") =>
                DepthAt(f, k + 2) = DepthAt(f, k + 1)
<1> DEFINE a == Cardinality(Upto(OpenEnds(f), k))
           b == Cardinality(Upto(Closes(f), k))
           c == Cardinality(Upto(OpenEnds(f), k + 1))
           d == Cardinality(Upto(Closes(f), k + 1))
<1>1. DepthAt(f, k + 1) = a - b /\ a \in Nat /\ b \in Nat
  BY DepthIs
<1>2. DepthAt(f, k + 2) = c - d
  <2>1. k + 1 \in Nat /\ (k + 1) + 1 = k + 2
    OBVIOUS
  <2>2. DepthAt(f, (k + 1) + 1) = c - d
    BY <2>1, DepthIs
  <2> QED
    BY <2>1, <2>2
<1>3. c = IF k + 1 \in OpenEnds(f) THEN a + 1 ELSE a
  BY DepthIs, UptoStep
<1>4. d = IF k + 1 \in Closes(f) THEN b + 1 ELSE b
  BY DepthIs, UptoStep
<1>5. k + 1 \in OpenEnds(f) <=> k + 1 \in Ends(f) /\ f[k + 1] = "open"
  BY DEF OpenEnds
<1>6. k + 1 \in Closes(f) => f[k + 1] = "close"
  BY DEF Closes
<1> HIDE DEF a, b, c, d
<1> QED
  BY <1>1, <1>2, <1>3, <1>4, <1>5, <1>6

\* What is read later does not change the depth before it.
LEMMA DepthExtend ==
    ASSUME NEW f \in Seq(Chars), NEW g \in Seq(Chars), Begins(f, g), NEW k \in 0 .. Len(f)
    PROVE  DepthAt(g, k + 1) = DepthAt(f, k + 1)
<1>1. Upto(Ends(g), k) = Upto(Ends(f), k) /\ Upto(Closes(g), k) = Upto(Closes(f), k)
  BY EndsExtend
<1>2. \A j \in Upto(Ends(f), k) : g[j] = f[j]
  <2>1. \A j \in Upto(Ends(f), k) : j \in 1 .. Len(f)
    BY EndsFacts DEF Upto
  <2> QED
    BY <2>1 DEF Begins
<1>3. Upto(OpenEnds(g), k) = Upto(OpenEnds(f), k)
  <2>1. \A h : Upto(OpenEnds(h), k) = {j \in Upto(Ends(h), k) : h[j] = "open"}
    BY DEF Upto, OpenEnds
  <2> QED
    BY <1>1, <1>2, <2>1
<1>4. k \in Nat
  OBVIOUS
<1> QED
  BY <1>1, <1>3, <1>4, DepthIs

-----------------------------------------------------------------------------
(* What has been handed to the handlers                                    *)

\* The first k characters of f hold the directives h, and no others.
Split(f, h, k) ==
    /\ Cardinality(Upto(Ends(f), k)) = Len(h)
    /\ \A n \in 1 .. Len(h) :
        /\ NthEnd(f, n) \in Ends(f) /\ NthEnd(f, n) <= k
        /\ Cardinality(Upto(Ends(f), NthEnd(f, n))) = n
        /\ h[n].args = WordsOf(f, NthEnd(f, n - 1))[NthEnd(f, n)]
        /\ h[n].last = f[NthEnd(f, n)]

\* Every directive of h was handled in the block its braces put it in.
Nested(f, h) == \A n \in 1 .. Len(h) : h[n].depth = DepthAt(f, NthEnd(f, n))

Entries == [args : Seq(Seq(Chars)), depth : Int, last : Chars]

\* The ends of the directives handled lie in what was read.
LEMMA NthEndType ==
    ASSUME NEW f \in Seq(Chars), NEW h \in Seq(Entries), NEW k \in 0 .. Len(f), Split(f, h, k),
           NEW n \in 0 .. Len(h)
    PROVE  NthEnd(f, n) \in 0 .. k /\ NthEnd(f, n) \in Nat
<1>1. CASE n = 0
  BY <1>1 DEF NthEnd
<1>2. CASE n # 0
  <2>1. n \in 1 .. Len(h)
    BY <1>2
  <2>2. NthEnd(f, n) \in Ends(f) /\ NthEnd(f, n) <= k
    BY <2>1 DEF Split
  <2>3. NthEnd(f, n) \in Nat
    BY <2>2, EndsFacts
  <2> QED
    BY <2>2, <2>3
<1> QED
  BY <1>1, <1>2

\* What is read later does not change which directives were handled, and how.
LEMMA SplitExtend ==
    ASSUME NEW f \in Seq(Chars), NEW g \in Seq(Chars), Begins(f, g),
           NEW h \in Seq(Entries), NEW k \in 0 .. Len(f), Split(f, h, k)
    PROVE  /\ Split(g, h, k)
           /\ \A n \in 0 .. Len(h) : NthEnd(g, n) = NthEnd(f, n)
           /\ Nested(f, h) => Nested(g, h)
<1>1. /\ Len(f) \in Nat /\ Len(g) \in Nat /\ Len(f) <= Len(g) /\ \A j \in 1 .. Len(f) : f[j] = g[j]
      /\ Len(h) \in Nat
  BY DEF Begins
<1>2. /\ \A i \in 1 .. Len(f) : (i \in Ends(g) <=> i \in Ends(f))
      /\ \A i \in 0 .. Len(f) : Upto(Ends(g), i) = Upto(Ends(f), i)
  BY EndsExtend
<1>3. ASSUME NEW n \in 1 .. Len(h)
      PROVE  /\ NthEnd(f, n) \in Ends(f) /\ NthEnd(f, n) \in 1 .. Len(f) /\ NthEnd(f, n) <= k
             /\ Cardinality(Upto(Ends(f), NthEnd(f, n))) = n
             /\ NthEnd(g, n) = NthEnd(f, n)
  <2> DEFINE i == NthEnd(f, n)
  <2>1. i \in Ends(f) /\ i <= k /\ Cardinality(Upto(Ends(f), i)) = n
    BY DEF Split
  <2>2. i \in 1 .. Len(f) /\ i \in 0 .. Len(f)
    BY <2>1, EndsFacts
  <2>3. i \in Ends(g) /\ Cardinality(Upto(Ends(g), i)) = n
    BY <1>2, <2>1, <2>2
  <2>4. n \in Nat \ {0}
    OBVIOUS
  <2> HIDE DEF i
  <2>5. NthEnd(g, n) = i
    BY <2>3, <2>4, NthEndIs
  <2> QED
    BY <2>1, <2>2, <2>5 DEF i
<1>4. \A n \in 0 .. Len(h) : NthEnd(g, n) = NthEnd(f, n)
  <2> TAKE n \in 0 .. Len(h)
  <2>1. n = 0 \/ n \in 1 .. Len(h)
    BY <1>1
  <2> QED
    BY <1>3, <2>1 DEF NthEnd
<1>5. ASSUME NEW n \in 1 .. Len(h)
      PROVE  /\ NthEnd(g, n) \in Ends(g) /\ NthEnd(g, n) <= k
             /\ Cardinality(Upto(Ends(g), NthEnd(g, n))) = n
             /\ h[n].args = WordsOf(g, NthEnd(g, n - 1))[NthEnd(g, n)]
             /\ h[n].last = g[NthEnd(g, n)]
             /\ Nested(f, h) => h[n].depth = DepthAt(g, NthEnd(g, n))
  <2> DEFINE i == NthEnd(f, n)
             j == NthEnd(f, n - 1)
  <2>1. n - 1 \in 0 .. Len(h)
    BY <1>1
  <2>2. j \in Nat /\ NthEnd(g, n - 1) = j
    BY <2>1, <1>4, NthEndType
  <2>3. i \in Ends(f) /\ i \in 1 .. Len(f) /\ i <= k /\ NthEnd(g, n) = i
    BY <1>3
  <2>4. /\ Cardinality(Upto(Ends(f), i)) = n
        /\ h[n].args = WordsOf(f, j)[i] /\ h[n].last = f[i]
    BY DEF Split
  <2> HIDE DEF i, j
  <2>5. i \in 0 .. Len(f) /\ i - 1 \in 0 .. Len(f) /\ (i - 1) + 1 = i
    BY <2>3, <1>1
  <2>6. WordsOf(g, j)[i] = WordsOf(f, j)[i]
    BY <2>2, <2>5, WordsExtend
  <2>7. DepthAt(g, i) = DepthAt(f, i)
    <3>1. DepthAt(g, (i - 1) + 1) = DepthAt(f, (i - 1) + 1)
      BY <2>5, DepthExtend
    <3> QED
      BY <3>1, <2>5
  <2>8. Nested(f, h) => h[n].depth = DepthAt(f, i)
    BY DEF Nested, i
  <2> QED
    BY <1>1, <1>2, <2>2, <2>3, <2>4, <2>5, <2>6, <2>7, <2>8
<1>6. Cardinality(Upto(Ends(g), k)) = Len(h)
  BY <1>2 DEF Split
<1>7. Split(g, h, k)
  BY <1>5, <1>6 DEF Split
<1>8. Nested(f, h) => Nested(g, h)
  BY <1>5 DEF Nested
<1> QED
  BY <1>4, <1>7, <1>8

\* A character that does not end a directive
LEMMA SplitSkip ==
    ASSUME NEW f \in Seq(Chars), NEW h \in Seq(Entries), NEW k \in 0 .. Len(f), Split(f, h, k),
           k + 1 \notin Ends(f)
    PROVE  Split(f, h, k + 1)
<1>1. Ends(f) \subseteq Nat /\ k \in Nat /\ IsFiniteSet(Upto(Ends(f), k))
  BY EndsFacts
<1>2. Cardinality(Upto(Ends(f), k + 1)) = Cardinality(Upto(Ends(f), k))
  BY <1>1, UptoStep
<1>3. \A n \in 1 .. Len(h) : NthEnd(f, n) <= k + 1
  <2> TAKE n \in 1 .. Len(h)
  <2>1. NthEnd(f, n) \in Ends(f) /\ NthEnd(f, n) <= k
    BY DEF Split
  <2> QED
    BY <1>1, <2>1
<1> QED
  BY <1>2, <1>3 DEF Split

\* A character that does
LEMMA SplitEnd ==
    ASSUME NEW f \in Seq(Chars), NEW h \in Seq(Entries), NEW k \in 0 .. Len(f), Split(f, h, k),
           k + 1 \in Ends(f), NEW e \in Entries,
           e.args = WordsOf(f, NthEnd(f, Len(h)))[k + 1], e.last = f[k + 1]
    PROVE  /\ Split(f, Append(h, e), k + 1)
           /\ NthEnd(f, Len(h) + 1) = k + 1
           /\ Nested(f, h) /\ e.depth = DepthAt(f, k + 1) => Nested(f, Append(h, e))
<1> DEFINE m == Len(h)
           s == Append(h, e)
<1>1. Ends(f) \subseteq Nat /\ k \in Nat /\ IsFiniteSet(Upto(Ends(f), k))
  BY EndsFacts
<1>2. m \in Nat /\ Len(s) = m + 1 /\ s[m + 1] = e /\ \A n \in 1 .. m : s[n] = h[n]
  OBVIOUS
<1>3. Cardinality(Upto(Ends(f), k)) = m
  BY DEF Split
<1>4. Cardinality(Upto(Ends(f), k + 1)) = m + 1
  BY <1>1, <1>3, UptoStep
<1>5. m + 1 \in Nat \ {0}
  BY <1>2
<1>6. NthEnd(f, m + 1) = k + 1
  BY <1>4, <1>5, NthEndIs
<1>7. ASSUME NEW n \in 1 .. m
      PROVE  /\ NthEnd(f, n) \in Ends(f) /\ NthEnd(f, n) <= k + 1
             /\ Cardinality(Upto(Ends(f), NthEnd(f, n))) = n
             /\ s[n].args = WordsOf(f, NthEnd(f, n - 1))[NthEnd(f, n)]
             /\ s[n].last = f[NthEnd(f, n)]
  <2>1. NthEnd(f, n) \in Ends(f) /\ NthEnd(f, n) <= k
    BY DEF Split
  <2>2. NthEnd(f, n) <= k + 1
    BY <1>1, <2>1
  <2>3. s[n] = h[n]
    BY <1>2
  <2> HIDE DEF s
  <2> QED
    BY <2>1, <2>2, <2>3 DEF Split
<1>8. /\ NthEnd(f, m + 1) \in Ends(f) /\ NthEnd(f, m + 1) <= k + 1
      /\ Cardinality(Upto(Ends(f), NthEnd(f, m + 1))) = m + 1
      /\ s[m + 1].args = WordsOf(f, NthEnd(f, m + 1 - 1))[NthEnd(f, m + 1)]
      /\ s[m + 1].last = f[NthEnd(f, m + 1)]
  <2>1. m + 1 - 1 = m
    BY <1>2
  <2> HIDE DEF s
  <2> QED
    BY <1>1, <1>2, <1>4, <1>6, <2>1
<1>9. \A n \in 1 .. m + 1 : n \in 1 .. m \/ n = m + 1
  BY <1>2
<1> HIDE DEF m, s
<1>10. Split(f, s, k + 1)
  BY <1>2, <1>4, <1>7, <1>8, <1>9 DEF Split
<1>11. ASSUME Nested(f, h), e.depth = DepthAt(f, k + 1) PROVE Nested(f, s)
  <2>1. \A n \in 1 .. m : s[n].depth = DepthAt(f, NthEnd(f, n))
    BY <1>2, <1>11 DEF Nested, m
  <2>2. s[m + 1].depth = DepthAt(f, NthEnd(f, m + 1))
    BY <1>2, <1>6, <1>11
  <2> QED
    BY <1>2, <1>9, <2>1, <2>2 DEF Nested
<1> QED
  BY <1>6, <1>10, <1>11 DEF m, s

-----------------------------------------------------------------------------
(* The inductive invariant                                                 *)

Readers == [rc : {"idle", "read", "OK", "ERROR", "lost"}, size : Nat,
            buffer : [0 .. BufferSize - 1 -> Chars], pos : Nat, last : Nat, word_start : Nat,
            last_space : BOOLEAN, sharp_comment : BOOLEAN, args : Seq(Seq(Chars)),
            blocks : Seq({"file", "events", "http"}), opened : SUBSET {"events", "http"},
            failed : BOOLEAN]

\* How much of the file f lies before pos and before word_start
At(c, f) == Len(f) - c.last + c.pos
Start(c, f) == Len(f) - c.last + c.word_start

\* The buffer holds the end of what was read, from the beginning of the word on.
Buffered(c, f) ==
    /\ c.word_start <= c.pos /\ c.pos <= c.last /\ c.last <= BufferSize /\ c.last <= Len(f)
    /\ \A i \in c.word_start .. c.last - 1 : c.buffer[i] = f[Len(f) - c.last + i + 1]
    /\ c.sharp_comment => c.last_space
    /\ c.rc = "read" => Len(c.blocks) >= 1

ModeOf(c) == IF c.sharp_comment THEN "comment" ELSE IF c.last_space THEN "blank" ELSE "word"

BracedIn(h) == \A n \in DOMAIN h : (h[n].last = "open") = (h[n].args[1] # <<"s">>)

\* The reader is where the reader without a buffer is.
Follows(c, f, h) ==
    /\ Split(f, h, At(c, f))
    /\ c.rc = "read" =>
        /\ Modes(f)[At(c, f)] = ModeOf(c)
        /\ c.last_space \/ WordFrom(f, Start(c, f), At(c, f) + 1)
        /\ c.args = WordsOf(f, NthEnd(f, Len(h)))[At(c, f)]
    /\ BracedIn(h) => /\ Nested(f, h)
                      /\ c.rc = "read" => Len(c.blocks) - 1 = DepthAt(f, At(c, f) + 1)
    /\ c.rc = "OK" => Len(f) = c.size /\ At(c, f) = Len(f)

ConfInv ==
    /\ cf \in Readers /\ file \in Seq(Chars) /\ handled \in Seq(Entries)
    /\ Buffered(cf, file)
    /\ cf.rc = "idle" => file = <<>> /\ handled = <<>>
    /\ ~cf.failed => Follows(cf, file, handled)

\* The reader's position lies in what was read, behind the beginning of its word.
LEMMA AtType ==
    ASSUME NEW c \in Readers, NEW f \in Seq(Chars), Buffered(c, f)
    PROVE  /\ At(c, f) \in 0 .. Len(f) /\ At(c, f) \in Nat
           /\ Start(c, f) \in 0 .. Len(f) /\ Start(c, f) <= At(c, f)
           /\ c.pos = c.last => At(c, f) = Len(f)
           /\ c.pos < c.last => At(c, f) + 1 \in 1 .. Len(f)
           /\ Len(f) \in Nat /\ c.pos \in Nat /\ c.last \in Nat /\ c.word_start \in Nat
<1>1. c.pos \in Nat /\ c.last \in Nat /\ c.word_start \in Nat /\ Len(f) \in Nat
  BY DEF Readers
<1>2. c.word_start <= c.pos /\ c.pos <= c.last /\ c.last <= Len(f)
  BY DEF Buffered
<1> QED
  BY <1>1, <1>2 DEF At, Start

\* The beginning of a token
LEMMA NextTokenFacts ==
    ASSUME NEW c \in Readers
    PROVE  /\ NextToken(c) \in Readers
           /\ NextToken(c).rc = c.rc /\ NextToken(c).size = c.size
           /\ NextToken(c).buffer = c.buffer /\ NextToken(c).pos = c.pos
           /\ NextToken(c).last = c.last /\ NextToken(c).word_start = c.pos
           /\ NextToken(c).last_space /\ ~NextToken(c).sharp_comment
           /\ NextToken(c).args = <<>> /\ NextToken(c).blocks = c.blocks
           /\ NextToken(c).failed = c.failed
<1>1. <<>> \in Seq(Seq(Chars)) /\ TRUE \in BOOLEAN /\ FALSE \in BOOLEAN
  OBVIOUS
<1>2. c.pos \in Nat
  BY DEF Readers
<1> QED
  BY <1>1, <1>2 DEF NextToken, Readers

\* Starting a token gives up what is before it in the buffer.
LEMMA NextTokenBuffered ==
    ASSUME NEW c \in Readers, NEW f \in Seq(Chars), Buffered(c, f)
    PROVE  Buffered(NextToken(c), f)
<1> DEFINE d == NextToken(c)
<1>1. /\ d.pos = c.pos /\ d.last = c.last /\ d.word_start = c.pos /\ d.buffer = c.buffer
      /\ d.rc = c.rc /\ d.blocks = c.blocks /\ d.last_space
  BY NextTokenFacts
<1>2. c.pos \in Nat /\ c.last \in Nat /\ c.word_start \in Nat
  BY DEF Readers
<1> HIDE DEF d
<1>3. \A i \in d.word_start .. d.last - 1 : i \in c.word_start .. c.last - 1
  BY <1>1, <1>2 DEF Buffered
<1>4. d.word_start <= d.pos /\ d.pos <= d.last /\ d.last <= BufferSize /\ d.last <= Len(f)
  BY <1>1, <1>2 DEF Buffered
<1>5. \A i \in d.word_start .. d.last - 1 : d.buffer[i] = f[Len(f) - d.last + i + 1]
  BY <1>1, <1>3 DEF Buffered
<1> QED
  BY <1>1, <1>4, <1>5 DEF Buffered, d

\* An error, or the end of a block
LEMMA ReturnFacts ==
    ASSUME NEW c \in Readers, NEW f \in Seq(Chars), Buffered(c, f), c.rc = "read",
           NEW rc \in {"OK", "ERROR"}
    PROVE  /\ Return(c, rc) \in Readers /\ Buffered(Return(c, rc), f)
           /\ Return(c, rc).failed = c.failed /\ Return(c, rc).rc # "idle"
<1> DEFINE events == {i \in DOMAIN c.blocks : c.blocks[i] = "events"}
           level == IF rc = "OK" THEN Len(c.blocks)
                    ELSE IF events = {} THEN 1 ELSE CHOOSE i \in events : \A k \in events : k <= i
           done == [c EXCEPT !.rc = rc, !.blocks = <<>>]
           b == [c EXCEPT !.blocks = SubSeq(@, 1, level - 1)]
           n == Len(c.blocks)
           B == {"file", "events", "http"}
<1>1. Return(c, rc) = IF level = 1 THEN done ELSE NextToken(b)
  BY Zenon DEF Return
<1>2. c.blocks \in Seq(B) /\ n \in Nat /\ n >= 1 /\ DOMAIN c.blocks = 1 .. n
  BY DEF Readers, Buffered
<1>3. level \in 1 .. n
  <2>1. CASE rc = "OK"
    BY <2>1, <1>2
  <2>2. CASE rc # "OK" /\ events = {}
    BY <2>2, <1>2
  <2>3. CASE rc # "OK" /\ events # {}
    <3>1. events \subseteq 0 .. n /\ events \subseteq 1 .. n
      BY <1>2
    <3>2. PICK x \in events : \A y \in events : x >= y
      <4> HIDE DEF events, n
      <4> QED
        BY <1>2, <2>3, <3>1, GreatestNat
    <3>3. \A y \in events : y <= x
      BY <3>1, <3>2
    <3>4. (CHOOSE i \in events : \A k \in events : k <= i) \in events
      <4> HIDE DEF events
      <4> QED
        BY <3>2, <3>3
    <3> QED
      BY <2>3, <3>1, <3>4
  <2> QED
    BY <2>1, <2>2, <2>3
<1> HIDE DEF level
<1>4. CASE level = 1
  <2>1. done \in Readers
    <3>1. <<>> \in Seq(B)
      OBVIOUS
    <3> QED
      BY <3>1 DEF Readers
  <2>2. /\ done.pos = c.pos /\ done.last = c.last /\ done.word_start = c.word_start /\ done.buffer = c.buffer
        /\ done.sharp_comment = c.sharp_comment /\ done.last_space = c.last_space /\ done.rc = rc
        /\ done.failed = c.failed
    BY DEF Readers
  <2> HIDE DEF done
  <2>3. Buffered(done, f)
    BY <2>2 DEF Buffered
  <2> QED
    BY <1>1, <1>4, <2>1, <2>2, <2>3
<1>5. CASE level # 1
  <2> DEFINE t == SubSeq(c.blocks, 1, level - 1)
  <2>1. level - 1 \in 1 .. n
    BY <1>2, <1>3, <1>5
  <2>2. t \in Seq(B) /\ Len(t) = level - 1
    <3> HIDE DEF n, B
    <3>1. level - 1 \in 1 - 1 .. Len(c.blocks) /\ 1 \in 1 .. Len(c.blocks) + 1
      BY <2>1, <1>2 DEF n
    <3> QED
      BY <1>2, <2>1, <3>1, SubSeqProperties
  <2> HIDE DEF t
  <2>3. b = [c EXCEPT !.blocks = t]
    BY DEF t
  <2>4. b \in Readers
    BY <2>2, <2>3 DEF Readers
  <2>5. /\ b.pos = c.pos /\ b.last = c.last /\ b.word_start = c.word_start /\ b.buffer = c.buffer
        /\ b.sharp_comment = c.sharp_comment /\ b.last_space = c.last_space /\ b.rc = c.rc
        /\ b.failed = c.failed /\ b.blocks = t
    BY <2>3 DEF Readers
  <2> HIDE DEF b
  <2>6. Len(b.blocks) >= 1
    BY <2>1, <2>2, <2>5
  <2>7. Buffered(b, f)
    BY <2>5, <2>6 DEF Buffered
  <2>8. /\ NextToken(b) \in Readers /\ Buffered(NextToken(b), f)
        /\ NextToken(b).failed = b.failed /\ NextToken(b).rc = b.rc
    BY <2>4, <2>7, NextTokenFacts, NextTokenBuffered
  <2> QED
    BY <1>1, <1>5, <2>5, <2>8
<1> QED
  BY <1>4, <1>5

\* An error leaves a reader that reports failure.
LEMMA ErrorFacts ==
    ASSUME NEW c \in Readers, NEW f \in Seq(Chars), Buffered(c, f), c.rc = "read"
    PROVE  /\ Error(c) \in Readers /\ Buffered(Error(c), f)
           /\ Error(c).failed /\ Error(c).rc # "idle"
<1> DEFINE b == [c EXCEPT !.failed = TRUE]
<1>1. b \in Readers /\ b.failed = TRUE
  BY DEF Readers
<1>2. /\ b.pos = c.pos /\ b.last = c.last /\ b.word_start = c.word_start /\ b.buffer = c.buffer
      /\ b.sharp_comment = c.sharp_comment /\ b.last_space = c.last_space /\ b.rc = c.rc
      /\ b.blocks = c.blocks
  BY DEF Readers
<1>3. Error(c) = Return(b, "ERROR")
  BY DEF Error
<1> HIDE DEF b
<1>4. Buffered(b, f) /\ b.rc = "read"
  BY <1>2 DEF Buffered
<1> QED
  BY <1>1, <1>3, <1>4, ReturnFacts

\* The end of a parse: in the innermost call of night_conf_parse, if expected.
LEMMA EndedFacts ==
    ASSUME NEW c \in Readers, NEW f \in Seq(Chars), Buffered(c, f), c.rc = "read",
           NEW expected \in BOOLEAN
    PROVE  /\ Ended(c, expected) \in Readers /\ Buffered(Ended(c, expected), f)
           /\ Ended(c, expected).rc # "idle"
           /\ ~Ended(c, expected).failed => ~c.failed /\ expected
           /\ expected /\ ~c.failed /\ Len(c.blocks) = 1 =>
                Ended(c, expected) = [c EXCEPT !.rc = "OK", !.blocks = <<>>]
           /\ expected /\ ~c.failed /\ Len(c.blocks) # 1 =>
                Ended(c, expected) = NextToken([c EXCEPT !.blocks = SubSeq(@, 1, Len(c.blocks) - 1)])
<1> DEFINE b == [c EXCEPT !.failed = c.failed \/ ~expected]
<1>1. b \in Readers /\ b.failed = (c.failed \/ ~expected)
  BY DEF Readers
<1>2. /\ b.pos = c.pos /\ b.last = c.last /\ b.word_start = c.word_start /\ b.buffer = c.buffer
      /\ b.sharp_comment = c.sharp_comment /\ b.last_space = c.last_space /\ b.rc = c.rc
      /\ b.blocks = c.blocks
  BY DEF Readers
<1>3. Ended(c, expected) = Return(b, "OK")
  BY DEF Ended
<1>4. expected /\ ~c.failed => b = c
  <2> SUFFICES ASSUME expected, ~c.failed PROVE b = c
    OBVIOUS
  <2>1. c.failed = FALSE /\ (c.failed \/ ~expected) = FALSE
    BY DEF Readers
  <2>2. b = [c EXCEPT !.failed = FALSE]
    BY <2>1
  <2> QED
    BY <2>1, <2>2 DEF Readers
<1>5. Return(c, "OK") = IF Len(c.blocks) = 1 THEN [c EXCEPT !.rc = "OK", !.blocks = <<>>]
                        ELSE NextToken([c EXCEPT !.blocks = SubSeq(@, 1, Len(c.blocks) - 1)])
  BY DEF Return
<1> HIDE DEF b
<1>6. Buffered(b, f) /\ b.rc = "read"
  BY <1>2 DEF Buffered
<1>7. /\ Return(b, "OK") \in Readers /\ Buffered(Return(b, "OK"), f)
      /\ Return(b, "OK").failed = b.failed /\ Return(b, "OK").rc # "idle"
  BY <1>1, <1>6, ReturnFacts
<1> QED
  BY <1>1, <1>3, <1>4, <1>5, <1>7

-----------------------------------------------------------------------------
(* One character                                                           *)

\* The words up to the next character
LEMMA WordsNext ==
    ASSUME NEW f \in Seq(Chars), NEW h \in Seq(Entries), NEW k \in 0 .. Len(f), Split(f, h, k),
           k + 1 \in 1 .. Len(f)
    PROVE  LET W == WordsOf(f, NthEnd(f, Len(h)))
           IN  W[k + 1] = IF WordEnds(f, k + 1) THEN Append(W[k], WordAt(f, k + 1)) ELSE W[k]
<1> DEFINE from == NthEnd(f, Len(h))
<1>1. Len(h) \in 0 .. Len(h)
  OBVIOUS
<1>2. from \in 0 .. k /\ from \in Nat
  BY <1>1, NthEndType
<1> HIDE DEF from
<1>3. k + 1 > from /\ (k + 1) - 1 = k
  BY <1>2
<1>4. WordsOf(f, from)[k + 1] = IF WordEnds(f, k + 1)
                                THEN Append(WordsOf(f, from)[(k + 1) - 1], WordAt(f, k + 1))
                                ELSE WordsOf(f, from)[(k + 1) - 1]
  BY <1>2, <1>3, WordsSteps
<1> QED
  BY <1>3, <1>4 DEF from

\* A character that ends neither a directive nor a block
LEMMA FollowsSkip ==
    ASSUME NEW c \in Readers, NEW d \in Readers, NEW f \in Seq(Chars), NEW h \in Seq(Entries),
           Buffered(c, f), Follows(c, f, h), c.rc = "read", d.rc = "read",
           At(d, f) = At(c, f) + 1, At(c, f) + 1 \in 1 .. Len(f),
           At(c, f) + 1 \notin Ends(f), At(c, f) + 1 \notin Closes(f), d.blocks = c.blocks,
           Modes(f)[At(c, f) + 1] = ModeOf(d),
           d.last_space \/ WordFrom(f, Start(d, f), At(c, f) + 2),
           d.args = IF WordEnds(f, At(c, f) + 1) THEN Append(c.args, WordAt(f, At(c, f) + 1))
                    ELSE c.args
    PROVE  Follows(d, f, h)
<1> DEFINE k == At(c, f)
           j == At(d, f)
<1>1. k \in 0 .. Len(f) /\ k \in Nat /\ j = k + 1 /\ (k + 1) + 1 = k + 2 /\ k + 1 \in 1 .. Len(f)
  BY AtType
<1>2. Split(f, h, k) /\ c.args = WordsOf(f, NthEnd(f, Len(h)))[k]
  BY DEF Follows
<1>3. BracedIn(h) => Nested(f, h) /\ Len(c.blocks) - 1 = DepthAt(f, k + 1)
  BY DEF Follows
<1>4. k + 1 \notin Ends(f) /\ k + 1 \notin Closes(f)
  OBVIOUS
<1>5. /\ Modes(f)[k + 1] = ModeOf(d)
      /\ d.last_space \/ WordFrom(f, Start(d, f), k + 2)
      /\ d.args = IF WordEnds(f, k + 1) THEN Append(c.args, WordAt(f, k + 1)) ELSE c.args
  OBVIOUS
<1> HIDE DEF k, j
<1>6. Split(f, h, k + 1)
  BY <1>1, <1>2, <1>4, SplitSkip
<1>7. WordsOf(f, NthEnd(f, Len(h)))[k + 1] = d.args
  BY <1>1, <1>2, <1>5, WordsNext
<1>8. DepthAt(f, k + 2) = DepthAt(f, k + 1)
  BY <1>1, <1>4, DepthStep
<1>9. Modes(f)[j] = ModeOf(d) /\ d.args = WordsOf(f, NthEnd(f, Len(h)))[j] /\ Split(f, h, j)
  BY <1>1, <1>5, <1>6, <1>7
<1>10. d.last_space \/ WordFrom(f, Start(d, f), j + 1)
  BY <1>1, <1>5
<1>11. BracedIn(h) => Nested(f, h) /\ Len(d.blocks) - 1 = DepthAt(f, j + 1)
  BY <1>1, <1>3, <1>8
<1> QED
  BY <1>9, <1>10, <1>11 DEF Follows, j

\* A closing brace between directives
LEMMA FollowsClose ==
    ASSUME NEW c \in Readers, NEW d \in Readers, NEW f \in Seq(Chars), NEW h \in Seq(Entries),
           Buffered(c, f), Follows(c, f, h), c.rc = "read", d.rc = "read",
           At(d, f) = At(c, f) + 1, At(c, f) + 1 \in Closes(f),
           d.blocks = SubSeq(c.blocks, 1, Len(c.blocks) - 1), Len(c.blocks) > 1,
           ModeOf(c) = "blank", ModeOf(d) = "blank", d.last_space, c.args = <<>>, d.args = <<>>
    PROVE  Follows(d, f, h)
<1> DEFINE k == At(c, f)
           j == At(d, f)
           n == Len(c.blocks)
           B == {"file", "events", "http"}
<1>1. k \in 0 .. Len(f) /\ k \in Nat /\ j = k + 1 /\ (k + 1) + 1 = k + 2 /\ k + 1 \in 1 .. Len(f)
  BY AtType, EndsFacts
<1>2. /\ Split(f, h, k) /\ c.args = WordsOf(f, NthEnd(f, Len(h)))[k]
      /\ Modes(f)[k] = "blank"
  BY DEF Follows
<1>3. BracedIn(h) => Nested(f, h) /\ Len(c.blocks) - 1 = DepthAt(f, k + 1)
  BY DEF Follows
<1>4. k + 1 \in Closes(f) /\ k + 1 \notin Ends(f) /\ Modes(f)[k + 1] = "blank"
  BY DEF Ends, Closes
<1>5. Len(d.blocks) = n - 1 /\ n \in Nat
  <2>1. c.blocks \in Seq(B) /\ n \in Nat /\ n > 1
    BY DEF Readers
  <2>2. n - 1 \in 1 - 1 .. Len(c.blocks) /\ 1 \in 1 .. Len(c.blocks) + 1
    BY <2>1
  <2> HIDE DEF B
  <2> QED
    BY <2>1, <2>2, SubSeqProperties
<1> HIDE DEF k, j
<1>6. Split(f, h, k + 1)
  BY <1>1, <1>2, <1>4, SplitSkip
<1>7. WordsOf(f, NthEnd(f, Len(h)))[k + 1] = <<>>
  <2>1. ~WordEnds(f, k + 1)
    BY <1>1, <1>2 DEF WordEnds
  <2> QED
    BY <1>1, <1>2, <2>1, WordsNext
<1>8. DepthAt(f, k + 2) = DepthAt(f, k + 1) - 1 /\ DepthAt(f, k + 1) \in Int
  BY <1>1, <1>4, DepthStep
<1>9. Modes(f)[j] = ModeOf(d) /\ d.args = WordsOf(f, NthEnd(f, Len(h)))[j] /\ Split(f, h, j)
  BY <1>1, <1>4, <1>6, <1>7
<1>10. BracedIn(h) => Nested(f, h) /\ Len(d.blocks) - 1 = DepthAt(f, j + 1)
  BY <1>1, <1>3, <1>5, <1>8
<1> QED
  BY <1>9, <1>10 DEF Follows, j

\* night_conf_handler
LEMMA HandlerFacts ==
    ASSUME NEW s \in Readers, NEW f \in Seq(Chars), Buffered(s, f), s.rc = "read"
    PROVE  /\ Handler(s) \in Readers /\ Buffered(Handler(s), f) /\ Handler(s).rc # "idle"
           /\ ~Handler(s).failed =>
                /\ ~s.failed /\ Handler(s).pos = s.pos /\ Handler(s).last = s.last
                /\ \/ Handler(s).rc = "lost"
                   \/ /\ Handler(s).rc = "read" /\ Handler(s).last_space
                      /\ ~Handler(s).sharp_comment /\ Handler(s).args = <<>>
                      /\ \/ s.args[1] = <<"s">> /\ Handler(s).blocks = s.blocks
                         \/ /\ s.args[1] # <<"s">>
                            /\ Len(Handler(s).blocks) = Len(s.blocks) + 1
<1> DEFINE B == {"file", "events", "http"}
           add == NextToken([s EXCEPT !.blocks = Append(@, Opens(s)),
                                      !.opened = IF Len(s.blocks) = 1 THEN @ \cup {Opens(s)} ELSE @])
           lost == [s EXCEPT !.rc = "lost"]
<1>1. /\ s.blocks \in Seq(B) /\ Len(s.blocks) \in Nat /\ Len(s.blocks) >= 1
      /\ s.opened \subseteq {"events", "http"}
  BY DEF Readers, Buffered
<1>2. Opens(s) \in {"events", "http"}
  BY DEF Opens
<1>3. CASE s.args[1] = <<"s">>
  <2>1. Handler(s) = NextToken(s)
    <3>1. <<"s">> # <<"e">> /\ <<"s">> # <<"h">>
      OBVIOUS
    <3> QED
      BY <1>3, <3>1 DEF Handler
  <2> QED
    BY <1>3, <2>1, NextTokenFacts, NextTokenBuffered
<1>4. CASE s.args[1] # <<"s">> /\ Handler(s) = lost
  <2>1. lost \in Readers
    BY DEF Readers
  <2>2. /\ lost.pos = s.pos /\ lost.last = s.last /\ lost.word_start = s.word_start
        /\ lost.buffer = s.buffer /\ lost.sharp_comment = s.sharp_comment
        /\ lost.last_space = s.last_space /\ lost.rc = "lost" /\ lost.failed = s.failed
    BY DEF Readers
  <2> HIDE DEF lost
  <2>3. Buffered(lost, f)
    BY <2>2 DEF Buffered
  <2> QED
    BY <1>4, <2>1, <2>2, <2>3
<1>5. CASE s.args[1] # <<"s">> /\ Handler(s) = add
  <2> DEFINE t == Append(s.blocks, Opens(s))
             o == IF Len(s.blocks) = 1 THEN s.opened \cup {Opens(s)} ELSE s.opened
             b == [s EXCEPT !.blocks = t, !.opened = o]
  <2>1. t \in Seq(B) /\ Len(t) = Len(s.blocks) + 1 /\ o \in SUBSET {"events", "http"}
    BY <1>1, <1>2
  <2>2. add = NextToken(b)
    OBVIOUS
  <2> HIDE DEF t, o, add
  <2>3. b \in Readers
    BY <2>1 DEF Readers
  <2>4. /\ b.pos = s.pos /\ b.last = s.last /\ b.word_start = s.word_start /\ b.buffer = s.buffer
        /\ b.sharp_comment = s.sharp_comment /\ b.last_space = s.last_space /\ b.rc = s.rc
        /\ b.failed = s.failed /\ b.blocks = t
    BY DEF Readers
  <2> HIDE DEF b
  <2>5. Len(b.blocks) >= 1
    BY <1>1, <2>1, <2>4
  <2>6. Buffered(b, f)
    BY <2>4, <2>5 DEF Buffered
  <2>7. /\ add \in Readers /\ Buffered(add, f) /\ add.rc = "read" /\ add.failed = s.failed
        /\ add.pos = s.pos /\ add.last = s.last /\ add.last_space /\ ~add.sharp_comment
        /\ add.args = <<>> /\ Len(add.blocks) = Len(s.blocks) + 1
    BY <2>1, <2>2, <2>3, <2>4, <2>6, NextTokenFacts, NextTokenBuffered
  <2> QED
    BY <1>5, <2>7
<1>6. CASE Handler(s) = Error(s)
  BY <1>6, ErrorFacts
<1>7. s.args[1] = <<"s">> \/ (s.args[1] # <<"s">> /\ Handler(s) \in {lost, add, Error(s)})
  <2> SUFFICES ASSUME s.args[1] # <<"s">> PROVE Handler(s) \in {lost, add, Error(s)}
    OBVIOUS
  <2> DEFINE a == s.args[1] \in {<<"e">>, <<"h">>} /\ Misplaced(s)
             p == s.args[1] \in {<<"e">>, <<"h">>} /\ ~(Len(s.blocks) = 1 /\ Opens(s) \in s.opened)
             e == Error(s)
             x == NextToken(s)
  <2>1. Handler(s) = CASE s.args[1] = <<"s">> -> x [] a -> lost [] p -> add [] OTHER -> e
    BY DEF Handler
  <2> HIDE DEF a, p, e, x, lost, add
  <2> QED
    BY <2>1 DEF e
<1> QED
  BY <1>3, <1>4, <1>5, <1>6, <1>7

\* A character that ends a directive
LEMMA FollowsEnd ==
    ASSUME NEW s \in Readers, NEW f \in Seq(Chars), NEW h \in Seq(Entries), Buffered(s, f),
           s.rc = "read", NEW k \in 0 .. Len(f), At(s, f) = k + 1, Split(f, h, k),
           k + 1 \in Ends(f), s.args = WordsOf(f, NthEnd(f, Len(h)))[k + 1],
           BracedIn(h) => Nested(f, h) /\ Len(s.blocks) - 1 = DepthAt(f, k + 1),
           ~Handler(s).failed
    PROVE  Follows(Handler(s), f,
                   Append(h, [args |-> s.args, depth |-> Len(s.blocks) - 1, last |-> f[k + 1]]))
<1> DEFINE d == Handler(s)
           e == [args |-> s.args, depth |-> Len(s.blocks) - 1, last |-> f[k + 1]]
           g == Append(h, e)
           n == Len(h)
<1>1. k \in Nat /\ k + 1 \in 1 .. Len(f) /\ (k + 1) + 1 = k + 2 /\ n \in Nat
  BY EndsFacts
<1>2. /\ d.pos = s.pos /\ d.last = s.last
      /\ \/ d.rc = "lost"
         \/ /\ d.rc = "read" /\ d.last_space
            /\ ~d.sharp_comment /\ d.args = <<>>
            /\ \/ s.args[1] = <<"s">> /\ d.blocks = s.blocks
               \/ s.args[1] # <<"s">> /\ Len(d.blocks) = Len(s.blocks) + 1
  BY HandlerFacts
<1>3. At(d, f) = k + 1
  <2> HIDE DEF d
  <2> QED
    BY <1>2 DEF At
<1>4. e \in Entries /\ e.args = s.args /\ e.depth = Len(s.blocks) - 1 /\ e.last = f[k + 1]
  <2>1. s.args \in Seq(Seq(Chars)) /\ Len(s.blocks) \in Nat /\ f[k + 1] \in Chars
    BY <1>1 DEF Readers
  <2> QED
    BY <2>1 DEF Entries
<1>5. Len(s.blocks) \in Nat
  BY DEF Readers
<1> HIDE DEF d, e
<1>6. /\ Split(f, g, k + 1) /\ NthEnd(f, n + 1) = k + 1
      /\ Nested(f, h) /\ e.depth = DepthAt(f, k + 1) => Nested(f, g)
  BY <1>4, SplitEnd
<1>7. Len(g) = n + 1 /\ g[n + 1] = e /\ DOMAIN g = 1 .. n + 1 /\ DOMAIN h = 1 .. n
      /\ \A i \in 1 .. n : g[i] = h[i]
  BY <1>4
<1> HIDE DEF g, n
<1>8. BracedIn(g) => BracedIn(h) /\ ((f[k + 1] = "open") = (s.args[1] # <<"s">>))
  <2>1. n + 1 \in 1 .. n + 1 /\ \A i \in 1 .. n : i \in 1 .. n + 1
    BY <1>1
  <2> QED
    BY <1>4, <1>7, <2>1 DEF BracedIn
<1>9. BracedIn(g) => Nested(f, g)
  BY <1>4, <1>6, <1>8
<1>10. ASSUME BracedIn(g), d.rc = "read" PROVE Len(d.blocks) - 1 = DepthAt(f, k + 2)
  <2>1. Len(s.blocks) - 1 = DepthAt(f, k + 1)
    BY <1>8, <1>10
  <2>2. k + 1 \notin Closes(f)
    BY DEF Ends, Closes
  <2>3. CASE s.args[1] = <<"s">>
    <3>1. f[k + 1] # "open" /\ d.blocks = s.blocks
      BY <1>2, <1>8, <1>10, <2>3
    <3>2. DepthAt(f, k + 2) = DepthAt(f, k + 1)
      BY <1>1, <2>2, <3>1, DepthStep
    <3> QED
      BY <2>1, <3>1, <3>2
  <2>4. CASE s.args[1] # <<"s">>
    <3>1. f[k + 1] = "open" /\ Len(d.blocks) = Len(s.blocks) + 1
      BY <1>2, <1>8, <1>10, <2>4
    <3>2. DepthAt(f, k + 2) = DepthAt(f, k + 1) + 1
      BY <1>1, <3>1, DepthStep
    <3> QED
      BY <1>5, <2>1, <3>1, <3>2
  <2> QED
    BY <2>3, <2>4
<1>11. ASSUME d.rc = "read"
       PROVE  /\ Modes(f)[k + 1] = ModeOf(d) /\ d.last_space
              /\ d.args = WordsOf(f, NthEnd(f, Len(g)))[k + 1]
  <2>1. Modes(f)[k + 1] = "blank"
    BY DEF Ends
  <2>2. d.last_space /\ ~d.sharp_comment /\ d.args = <<>>
    BY <1>2, <1>11
  <2>3. k + 1 \in Nat /\ k + 1 \in 0 .. Len(f) /\ k + 1 <= k + 1
    BY <1>1
  <2>4. WordsOf(f, k + 1)[k + 1] = <<>>
    BY <2>3, WordsSteps
  <2> QED
    BY <1>6, <1>7, <2>1, <2>2, <2>4 DEF ModeOf
<1>12. d.rc # "OK"
  BY <1>2
<1>13. Follows(d, f, g)
  BY <1>1, <1>3, <1>6, <1>9, <1>10, <1>11, <1>12 DEF Follows
<1> QED
  BY <1>13 DEF d, e, g

-----------------------------------------------------------------------------
(* The steps of the reader                                                 *)

\* Nothing was read, nothing was handled.
LEMMA EmptyFile ==
    /\ Split(<<>>, <<>>, 0) /\ Nested(<<>>, <<>>)
    /\ Modes(<<>>)[0] = "blank" /\ WordsOf(<<>>, NthEnd(<<>>, 0))[0] = <<>>
    /\ DepthAt(<<>>, 1) = 0
<1> DEFINE f == <<>>
<1>1. f \in Seq(Chars) /\ Len(f) = 0 /\ Len(<<>>) = 0
  OBVIOUS
<1>2. Modes(f)[0] = "blank"
  BY <1>1, ModesSteps
<1>3. WordsOf(f, 0)[0] = <<>>
  <2>1. 0 \in Nat /\ 0 \in 0 .. Len(f) /\ 0 <= 0
    BY <1>1
  <2> QED
    BY <1>1, <2>1, WordsSteps
<1> HIDE DEF f
<1>4. Ends(f) = {} /\ Closes(f) = {}
  <2>1. Ends(f) \subseteq 1 .. Len(f) /\ Closes(f) \subseteq 1 .. Len(f)
    BY <1>1, EndsFacts
  <2>2. \A x \in 1 .. Len(f) : FALSE
    BY <1>1
  <2> QED
    BY <2>1, <2>2
<1>5. Upto(Ends(f), 0) = {} /\ Upto(OpenEnds(f), 0) = {} /\ Upto(Closes(f), 0) = {}
  BY <1>4 DEF Upto, OpenEnds
<1>6. Cardinality({}) = 0
  BY FS_EmptySet
<1>7. DepthAt(f, 0 + 1) = Cardinality(Upto(OpenEnds(f), 0)) - Cardinality(Upto(Closes(f), 0))
  BY <1>1, DepthIs
<1>8. DepthAt(f, 1) = 0
  <2>1. 0 + 1 = 1
    OBVIOUS
  <2>2. DepthAt(f, 0 + 1) = 0
    BY <1>5, <1>6, <1>7
  <2> QED
    BY <2>1, <2>2
<1>9. NthEnd(f, 0) = 0
  BY DEF NthEnd
<1>10. Split(f, <<>>, 0) /\ Nested(f, <<>>)
  <2>1. \A n \in 1 .. Len(<<>>) : FALSE
    BY <1>1
  <2>2. Cardinality(Upto(Ends(f), 0)) = Len(<<>>)
    BY <1>1, <1>5, <1>6
  <2> QED
    BY <2>1, <2>2, Zenon DEF Split, Nested
<1> QED
  BY <1>2, <1>3, <1>8, <1>9, <1>10 DEF f

\* The initial state satisfies the invariant.
LEMMA ConfInit_Inv ==
    ConfInit => ConfInv
<1> SUFFICES ASSUME ConfInit PROVE ConfInv
  OBVIOUS
<1>1. /\ cf = [rc |-> "idle", size |-> 0, buffer |-> [i \in 0..BufferSize - 1 |-> "LF"],
               pos |-> 0, last |-> 0, word_start |-> 0, last_space |-> TRUE,
               sharp_comment |-> FALSE, args |-> <<>>, blocks |-> <<>>,
               opened |-> {}, failed |-> FALSE]
      /\ file = <<>> /\ handled = <<>>
  BY DEF ConfInit
<1>2. [i \in 0..BufferSize - 1 |-> "LF"] \in [0 .. BufferSize - 1 -> Chars]
  BY DEF Chars
<1>3. cf \in Readers
  BY <1>1, <1>2 DEF Readers
<1>4. /\ cf.rc = "idle" /\ cf.pos = 0 /\ cf.last = 0 /\ cf.word_start = 0
      /\ cf.last_space /\ Len(file) = 0
  BY <1>1
<1>5. Buffered(cf, file)
  BY <1>4, ConfAssumption DEF Buffered
<1>6. At(cf, file) = 0
  BY <1>4 DEF At
<1>7. Follows(cf, file, handled)
  BY <1>1, <1>4, <1>6, EmptyFile DEF Follows
<1>8. file \in Seq(Chars) /\ handled \in Seq(Entries)
  BY <1>1
<1> QED
  BY <1>1, <1>3, <1>5, <1>7, <1>8 DEF ConfInv

\* Opening the file keeps it.
LEMMA ConfOpen_Inv ==
    ASSUME ConfInv, NEW size \in 0 .. MaxFile, ConfOpen(size)
    PROVE  ConfInv'
<1> DEFINE b == NextToken(cf)
<1>1. /\ cf \in Readers /\ file = <<>> /\ handled = <<>> /\ Buffered(cf, file) /\ cf.rc = "idle"
      /\ ~cf.failed => Follows(cf, file, handled)
  BY DEF ConfInv, ConfOpen
<1>2. cf' = [b EXCEPT !.rc = "read", !.size = size, !.blocks = <<"file">>]
  BY DEF ConfOpen
<1>3. file' = <<>> /\ handled' = <<>> /\ file' = file
  BY <1>1 DEF ConfOpen
<1>4. file \in Seq(Chars) /\ file' \in Seq(Chars) /\ handled' \in Seq(Entries) /\ Len(file) = 0 /\ Len(handled') = 0
  BY <1>1, <1>3
<1>5. /\ b \in Readers /\ Buffered(b, file) /\ b.failed = cf.failed
      /\ b.last_space /\ ~b.sharp_comment /\ b.args = <<>>
  BY <1>1, <1>4, NextTokenFacts, NextTokenBuffered
<1> HIDE DEF b
<1>6. cf' \in Readers
  <2>1. <<"file">> \in Seq({"file", "events", "http"}) /\ size \in Nat
    BY ConfAssumption
  <2> QED
    BY <1>2, <1>5, <2>1 DEF Readers
<1>7. /\ cf'.rc = "read" /\ cf'.pos = b.pos /\ cf'.last = b.last /\ cf'.word_start = b.word_start
      /\ cf'.buffer = b.buffer /\ cf'.last_space = b.last_space
      /\ cf'.sharp_comment = b.sharp_comment /\ cf'.args = b.args /\ cf'.blocks = <<"file">>
  BY <1>2, <1>5 DEF Readers
<1>8. Len(cf'.blocks) = 1
  BY <1>7
<1>9. Buffered(cf', file')
  BY <1>3, <1>5, <1>7, <1>8 DEF Buffered
<1>10. At(cf', file') = 0
  <2>1. At(cf', file') \in 0 .. Len(file') /\ Len(file') = 0
    BY <1>3, <1>4, <1>6, <1>9, AtType
  <2> QED
    BY <2>1
<1>11. Follows(cf', file', handled')
  <2>1. /\ Split(file', handled', 0) /\ Nested(file', handled')
        /\ Modes(file')[0] = "blank" /\ WordsOf(file', NthEnd(file', 0))[0] = <<>>
        /\ DepthAt(file', 1) = 0
    BY <1>3, EmptyFile
  <2>2. ModeOf(cf') = "blank" /\ cf'.args = <<>> /\ cf'.last_space /\ cf'.rc = "read"
    BY <1>5, <1>7 DEF ModeOf
  <2> QED
    BY <1>4, <1>8, <1>10, <2>1, <2>2 DEF Follows
<1> QED
  BY <1>4, <1>6, <1>7, <1>9, <1>11 DEF ConfInv

\* The fields that filling the buffer changes
LEMMA BufferType ==
    ASSUME NEW c \in Readers, NEW b \in [0 .. BufferSize - 1 -> Chars], NEW p \in Nat, NEW l \in Nat
    PROVE  [c EXCEPT !.buffer = b, !.pos = p, !.last = l, !.word_start = 0] \in Readers
BY DEF Readers

Refilled(c, chunk, size) ==
    [c EXCEPT !.buffer = Carried(c, chunk, c.pos - c.word_start), !.pos = c.pos - c.word_start,
              !.last = c.pos - c.word_start + size, !.word_start = 0]

\* Filling the buffer again keeps what was read of the word.
LEMMA RefillBuffered ==
    ASSUME NEW c \in Readers, NEW f \in Seq(Chars), Buffered(c, f), c.rc = "read", c.pos = c.last,
           NEW size \in Nat, size <= BufferSize - (c.pos - c.word_start),
           NEW chunk \in [1 .. size -> Chars]
    PROVE  LET d == Refilled(c, chunk, size)
               g == f \o chunk
           IN  /\ d \in Readers /\ g \in Seq(Chars) /\ Begins(f, g) /\ Buffered(d, g)
               /\ At(d, g) = At(c, f) /\ Start(d, g) = Start(c, f)
               /\ d.rc = c.rc /\ d.last_space = c.last_space /\ d.sharp_comment = c.sharp_comment
               /\ d.args = c.args /\ d.blocks = c.blocks /\ d.failed = c.failed
<1> DEFINE d == Refilled(c, chunk, size)
<1> DEFINE len == c.pos - c.word_start
           buf == Carried(c, chunk, len)
           g == f \o chunk
           m == Len(f)
<1>1. /\ c.pos \in Nat /\ c.last \in Nat /\ c.word_start \in Nat /\ m \in Nat
      /\ c.buffer \in [0 .. BufferSize - 1 -> Chars]
  BY DEF Readers
<1>2. c.word_start <= c.pos /\ c.last <= BufferSize /\ c.last <= m
  BY DEF Buffered
<1>3. len \in Nat /\ BufferSize \in Nat /\ len <= BufferSize /\ len + size <= BufferSize
  BY <1>1, <1>2, ConfAssumption
<1>4. chunk \in Seq(Chars) /\ Len(chunk) = size
  <2>1. DOMAIN chunk = 1 .. size
    OBVIOUS
  <2> QED
    BY <2>1
<1>5. /\ g \in Seq(Chars) /\ Len(g) = m + size
      /\ \A i \in 1 .. m : g[i] = f[i]
      /\ \A i \in 1 .. size : g[m + i] = chunk[i]
  BY <1>1, <1>4
<1>6. Begins(f, g)
  BY <1>1, <1>5 DEF Begins
<1>7. ASSUME NEW i \in 0 .. BufferSize - 1
      PROVE  /\ i < len => buf[i] = c.buffer[c.word_start + i]
             /\ i \in len .. len + size - 1 => buf[i] = chunk[i - len + 1]
             /\ buf[i] \in Chars
  <2>1. buf[i] = IF i < len THEN c.buffer[c.word_start + i]
                 ELSE IF i < len + Len(chunk) THEN chunk[i - len + 1] ELSE c.buffer[i]
    BY DEF Carried
  <2> HIDE DEF buf
  <2>2. i < len => c.word_start + i \in 0 .. BufferSize - 1
    BY <1>1, <1>2, <1>3
  <2>3. i \in len .. len + size - 1 <=> ~(i < len) /\ i < len + Len(chunk)
    BY <1>3, <1>4
  <2>4. i \in len .. len + size - 1 => i - len + 1 \in 1 .. size
    BY <1>3
  <2> HIDE DEF len
  <2> QED
    BY <1>1, <2>1, <2>2, <2>3, <2>4
<1>8. buf \in [0 .. BufferSize - 1 -> Chars]
  <2>1. DOMAIN buf = 0 .. BufferSize - 1 /\ buf = [i \in 0 .. BufferSize - 1 |-> buf[i]]
    BY DEF Carried
  <2> HIDE DEF buf
  <2> QED
    BY <1>7, <2>1
<1>9. d = [c EXCEPT !.buffer = buf, !.pos = len, !.last = len + size, !.word_start = 0]
  BY DEF Refilled
<1> HIDE DEF buf, g, d
<1>10. d \in Readers
  <2> DEFINE end == len + size
  <2>1. len \in Nat /\ end \in Nat
    BY <1>3
  <2>2. d = [c EXCEPT !.buffer = buf, !.pos = len, !.last = end, !.word_start = 0]
    BY <1>9
  <2> HIDE DEF len, end
  <2>3. [c EXCEPT !.buffer = buf, !.pos = len, !.last = end, !.word_start = 0] \in Readers
    BY <1>8, <2>1, BufferType, Zenon
  <2> QED
    BY <2>2, <2>3, Zenon
<1>11. /\ d.buffer = buf /\ d.pos = len /\ d.last = len + size /\ d.word_start = 0
       /\ d.rc = c.rc /\ d.last_space = c.last_space /\ d.sharp_comment = c.sharp_comment
       /\ d.args = c.args /\ d.blocks = c.blocks /\ d.failed = c.failed
  <2> HIDE DEF len
  <2> QED
    BY <1>9 DEF Readers
<1>12. At(d, g) = At(c, f) /\ Start(d, g) = Start(c, f)
  BY <1>1, <1>5, <1>11 DEF At, Start
<1>13. ASSUME NEW i \in d.word_start .. d.last - 1 PROVE d.buffer[i] = g[Len(g) - d.last + i + 1]
  <2>1. i \in 0 .. len + size - 1 /\ i \in 0 .. BufferSize - 1 /\ i \in Nat
    BY <1>3, <1>11
  <2>2. Len(g) - d.last + i + 1 = m - len + i + 1
    BY <1>1, <1>3, <1>5, <1>11, <2>1
  <2>3. CASE i < len
    <3>1. c.word_start + i \in c.word_start .. c.last - 1
      BY <1>1, <2>1, <2>3
    <3>2. c.buffer[c.word_start + i] = f[m - c.last + (c.word_start + i) + 1]
      BY <3>1 DEF Buffered
    <3>a. m - c.last + (c.word_start + i) + 1 = m - len + i + 1
      BY <1>1, <2>1
    <3>b. len <= m
      BY <1>1, <1>2
    <3>c. m - len + i + 1 \in 1 .. m
      <4>1. \A a \in Nat, b \in Nat, j \in Nat : b <= a /\ j < b => a - b + j + 1 \in 1 .. a
        OBVIOUS
      <4> HIDE DEF len, m
      <4> QED
        BY <1>1, <1>3, <2>1, <2>3, <3>b, <4>1
    <3>3. m - c.last + (c.word_start + i) + 1 = m - len + i + 1 /\ m - len + i + 1 \in 1 .. m
      BY <3>a, <3>c
    <3>4. buf[i] = c.buffer[c.word_start + i]
      BY <1>7, <2>1, <2>3
    <3> QED
      BY <1>5, <1>11, <2>2, <3>2, <3>3, <3>4
  <2>4. CASE ~(i < len)
    <3>1. i \in len .. len + size - 1 /\ i - len + 1 \in 1 .. size
      BY <1>3, <2>1, <2>4
    <3>2. m + (i - len + 1) = m - len + i + 1
      BY <1>1, <1>3, <2>1
    <3>3. buf[i] = chunk[i - len + 1]
      BY <1>7, <2>1, <3>1
    <3>4. g[m + (i - len + 1)] = chunk[i - len + 1]
      BY <1>5, <3>1
    <3> QED
      BY <1>11, <2>2, <3>2, <3>3, <3>4
  <2> QED
    BY <2>3, <2>4
<1>14. d.word_start <= d.pos /\ d.pos <= d.last /\ d.last <= BufferSize /\ d.last <= Len(g)
  BY <1>1, <1>2, <1>3, <1>5, <1>11
<1>15. Buffered(d, g)
  <2>1. d.sharp_comment => d.last_space
    BY <1>11 DEF Buffered
  <2>2. d.rc = "read" => Len(d.blocks) >= 1
    BY <1>11 DEF Buffered
  <2> QED
    BY <1>13, <1>14, <2>1, <2>2 DEF Buffered
<1> QED
  BY <1>5, <1>6, <1>10, <1>11, <1>12, <1>15 DEF g, d

\* Refill keeps the invariant: it moves the unfinished word and reads on, or ends.
LEMMA Refill_Inv ==
    ASSUME ConfInv, Refill
    PROVE  ConfInv'
<1> DEFINE len == cf.pos - cf.word_start
           left == cf.size - Len(file)
           size == IF left > BufferSize - len THEN BufferSize - len ELSE left
<1>1. /\ cf \in Readers /\ file \in Seq(Chars) /\ handled \in Seq(Entries)
      /\ Buffered(cf, file) /\ cf.rc = "read" /\ handled' = handled
      /\ ~cf.failed => Follows(cf, file, handled)
  BY DEF ConfInv, Refill
<1>2. /\ cf.pos \in Nat /\ cf.last \in Nat /\ cf.word_start \in Nat /\ Len(file) \in Nat
      /\ cf.size \in Nat
  BY <1>1 DEF Readers
<1>3. /\ cf.pos = cf.last /\ cf.word_start <= cf.pos /\ cf.last <= BufferSize
      /\ At(cf, file) = Len(file) /\ BufferSize \in Nat
  <2>1. cf.pos >= cf.last
    BY DEF Refill
  <2>2. cf.pos <= cf.last /\ cf.word_start <= cf.pos /\ cf.last <= BufferSize
    BY <1>1 DEF Buffered
  <2>3. cf.pos = cf.last
    BY <1>2, <2>1, <2>2
  <2> QED
    BY <1>1, <2>2, <2>3, AtType, ConfAssumption
<1>4. ASSUME cf' = Error(cf), file' = file PROVE ConfInv'
  BY <1>1, <1>4, ErrorFacts DEF ConfInv
<1>5. ASSUME left = 0, cf.args = <<>>, cf.last_space, cf' = FileDone(cf), file' = file
      PROVE  ConfInv'
  <2> DEFINE e == (Len(cf.blocks) = 1)
  <2>1. cf' = Ended(cf, e) /\ e \in BOOLEAN
    BY <1>5 DEF FileDone
  <2> HIDE DEF e
  <2>2. /\ cf' \in Readers /\ Buffered(cf', file) /\ cf'.rc # "idle"
        /\ ~cf'.failed => ~cf.failed /\ e
        /\ e /\ ~cf.failed /\ Len(cf.blocks) = 1 => cf' = [cf EXCEPT !.rc = "OK", !.blocks = <<>>]
    BY <1>1, <2>1, EndedFacts
  <2>3. ASSUME ~cf'.failed PROVE Follows(cf', file, handled)
    <3>1. ~cf.failed /\ cf' = [cf EXCEPT !.rc = "OK", !.blocks = <<>>]
      BY <2>2, <2>3 DEF e
    <3>2. cf'.rc = "OK" /\ cf'.pos = cf.pos /\ cf'.last = cf.last /\ cf'.size = cf.size
      BY <1>1, <3>1 DEF Readers
    <3>3. At(cf', file) = At(cf, file)
      BY <3>2 DEF At
    <3>4. Len(file) = cf.size
      BY <1>2, <1>5
    <3>5. Follows(cf, file, handled)
      BY <1>1, <3>1
    <3> QED
      BY <1>3, <3>2, <3>3, <3>4, <3>5 DEF Follows
  <2> QED
    BY <1>1, <1>5, <2>2, <2>3 DEF ConfInv
<1>6. ASSUME left > 0, len # BufferSize, NEW chunk \in [1 .. size -> Chars], file' = file \o chunk,
             cf' = [cf EXCEPT !.buffer = Carried(cf, chunk, len), !.pos = len,
                              !.last = len + size, !.word_start = 0]
      PROVE  ConfInv'
  <2>1. size \in Nat /\ size <= BufferSize - (cf.pos - cf.word_start)
    BY <1>2, <1>3, <1>6
  <2>2. cf' = [cf EXCEPT !.buffer = Carried(cf, chunk, cf.pos - cf.word_start),
                         !.pos = cf.pos - cf.word_start,
                         !.last = cf.pos - cf.word_start + size, !.word_start = 0]
    BY <1>6
  <2> HIDE DEF size
  <2>3. /\ cf' \in Readers /\ file' \in Seq(Chars) /\ Begins(file, file')
        /\ Buffered(cf', file')
        /\ At(cf', file') = At(cf, file) /\ Start(cf', file') = Start(cf, file)
        /\ cf'.rc = cf.rc /\ cf'.last_space = cf.last_space /\ cf'.sharp_comment = cf.sharp_comment
        /\ cf'.args = cf.args /\ cf'.blocks = cf.blocks /\ cf'.failed = cf.failed
    <3>1. /\ cf \in Readers /\ file \in Seq(Chars) /\ Buffered(cf, file) /\ cf.rc = "read"
          /\ cf.pos = cf.last /\ chunk \in [1 .. size -> Chars]
      BY <1>1, <1>3, <1>6
    <3>2. cf' = Refilled(cf, chunk, size) /\ file' = file \o chunk
      BY <1>6, <2>2, Zenon DEF Refilled
    <3> QED
      BY <2>1, <3>1, <3>2, RefillBuffered
  <2>4. ASSUME ~cf'.failed PROVE Follows(cf', file', handled)
    <3> DEFINE k == At(cf, file)
               n == Len(handled)
    <3>1. Follows(cf, file, handled)
      BY <1>1, <2>3, <2>4
    <3>2. k \in 0 .. Len(file) /\ Split(file, handled, k) /\ n \in 0 .. n /\ k = Len(file) /\ k \in Nat
      BY <1>1, <1>2, <1>3, <3>1 DEF Follows
    <3>3. /\ Modes(file)[k] = ModeOf(cf)
          /\ cf.last_space \/ WordFrom(file, Start(cf, file), k + 1)
          /\ cf.args = WordsOf(file, NthEnd(file, n))[k]
      BY <1>1, <3>1 DEF Follows
    <3>4. BracedIn(handled) => Nested(file, handled) /\ Len(cf.blocks) - 1 = DepthAt(file, k + 1)
      BY <1>1, <3>1 DEF Follows
    <3>5. ModeOf(cf') = ModeOf(cf)
      BY <2>3 DEF ModeOf
    <3> HIDE DEF k, n
    <3>6. /\ Split(file', handled, k) /\ NthEnd(file', n) = NthEnd(file, n)
          /\ Nested(file, handled) => Nested(file', handled)
      BY <1>1, <2>3, <3>2, SplitExtend DEF n
    <3>7. Modes(file')[k] = Modes(file)[k]
      BY <1>1, <2>3, <3>2, ModesExtend
    <3>8. WordsOf(file', NthEnd(file, n))[k] = WordsOf(file, NthEnd(file, n))[k]
      <4>1. NthEnd(file, n) \in Nat
        BY <1>1, <3>2, NthEndType DEF n
      <4> QED
        BY <1>1, <2>3, <3>2, <4>1, WordsExtend
    <3>9. DepthAt(file', k + 1) = DepthAt(file, k + 1)
      BY <1>1, <2>3, <3>2, DepthExtend
    <3>10. WordFrom(file, Start(cf, file), k + 1) => WordFrom(file', Start(cf, file), k + 1)
      BY <1>1, <2>3, <3>2, WordFromExtend
    <3>11. /\ Split(file', handled, At(cf', file')) /\ Modes(file')[At(cf', file')] = ModeOf(cf')
           /\ cf'.last_space \/ WordFrom(file', Start(cf', file'), At(cf', file') + 1)
           /\ cf'.args = WordsOf(file', NthEnd(file', Len(handled)))[At(cf', file')]
           /\ BracedIn(handled) => /\ Nested(file', handled)
                                   /\ Len(cf'.blocks) - 1 = DepthAt(file', At(cf', file') + 1)
      <4>1. At(cf', file') = k /\ Start(cf', file') = Start(cf, file) /\ Len(handled) = n
        BY <2>3 DEF k, n
      <4> QED
        BY <2>3, <3>3, <3>4, <3>5, <3>6, <3>7, <3>8, <3>9, <3>10, <4>1
    <3>12. cf'.rc = "read"
      BY <1>1, <2>3
    <3> QED
      BY <3>11, <3>12 DEF Follows
  <2> QED
    BY <1>1, <2>3, <2>4 DEF ConfInv
<1>7. \/ left = 0 /\ cf' = (IF cf.args # <<>> \/ ~cf.last_space THEN Error(cf) ELSE FileDone(cf))
         /\ file' = file
      \/ cf' = Error(cf) /\ file' = file
      \/ /\ left > 0 /\ len # BufferSize
         /\ \E chunk \in [1..size -> Chars] :
               /\ file' = file \o chunk
               /\ cf' = [cf EXCEPT !.buffer = Carried(cf, chunk, len), !.pos = len,
                                   !.last = len + size, !.word_start = 0]
  BY Zenon DEF Refill
<1> HIDE DEF len, left, size
<1> QED
  BY <1>4, <1>5, <1>6, <1>7

\* The reader behind the next character, before it is looked at
Took(c) == [c EXCEPT !.pos = @ + 1, !.sharp_comment = @ /\ c.buffer[c.pos] # "LF"]

\* The next character is the next one of the file.
LEMMA TookFacts ==
    ASSUME NEW c \in Readers, NEW f \in Seq(Chars), Buffered(c, f), c.rc = "read", c.pos < c.last
    PROVE  LET d == Took(c)
               k == At(c, f)
           IN  /\ d \in Readers /\ Buffered(d, f) /\ At(d, f) = k + 1 /\ Start(d, f) = Start(c, f)
               /\ c.buffer[c.pos] = f[k + 1] /\ f[k + 1] \in Chars
               /\ d.rc = "read" /\ d.failed = c.failed /\ d.blocks = c.blocks /\ d.args = c.args
               /\ d.last_space = c.last_space /\ d.pos = c.pos + 1
               /\ d.word_start = c.word_start /\ d.buffer = c.buffer
               /\ d.sharp_comment = (c.sharp_comment /\ f[k + 1] # "LF")
<1> DEFINE d == Took(c)
           k == At(c, f)
           ch == c.buffer[c.pos]
           p == c.pos + 1
           m == (c.sharp_comment /\ ch # "LF")
<1>1. /\ k \in Nat /\ k + 1 \in 1 .. Len(f) /\ Len(f) \in Nat
      /\ c.pos \in Nat /\ c.last \in Nat /\ c.word_start \in Nat
  BY AtType
<1>2. c.pos \in c.word_start .. c.last - 1
  BY <1>1 DEF Buffered
<1>3. ch = f[Len(f) - c.last + c.pos + 1]
  BY <1>2 DEF Buffered
<1>4. ch = f[k + 1] /\ f[k + 1] \in Chars
  BY <1>1, <1>3 DEF At
<1>5. d = [c EXCEPT !.pos = p, !.sharp_comment = m] /\ p \in Nat /\ m \in BOOLEAN
  BY <1>1 DEF Took
<1> HIDE DEF d, p, m
<1>6. d \in Readers
  BY <1>5 DEF Readers
<1>7. /\ d.pos = p /\ d.last = c.last /\ d.word_start = c.word_start /\ d.buffer = c.buffer
      /\ d.sharp_comment = m /\ d.last_space = c.last_space /\ d.rc = c.rc
      /\ d.failed = c.failed /\ d.blocks = c.blocks /\ d.args = c.args
  BY <1>5 DEF Readers
<1>8. At(d, f) = k + 1 /\ Start(d, f) = Start(c, f)
  BY <1>1, <1>7 DEF At, Start, p
<1>9. d.word_start <= d.pos /\ d.pos <= d.last
  BY <1>1, <1>7 DEF Buffered, p
<1>10. d.sharp_comment => d.last_space
  BY <1>7 DEF Buffered, m
<1>11. Buffered(d, f)
  BY <1>7, <1>9, <1>10 DEF Buffered
<1> QED
  BY <1>4, <1>6, <1>7, <1>8, <1>11 DEF d, m, p

\* A character that may begin a word
LEMMA StartedFacts ==
    ASSUME NEW c \in Readers, NEW f \in Seq(Chars), Buffered(c, f), c.word_start < c.pos,
           c.rc = "read"
    PROVE  LET s == [c EXCEPT !.word_start = c.pos - 1]
           IN  /\ s \in Readers /\ Buffered(s, f) /\ At(s, f) = At(c, f) /\ Start(s, f) = At(c, f) - 1
               /\ s.rc = "read" /\ s.failed = c.failed /\ s.blocks = c.blocks /\ s.args = c.args
               /\ s.last_space = c.last_space /\ s.sharp_comment = c.sharp_comment
<1> DEFINE w == c.pos - 1
           s == [c EXCEPT !.word_start = w]
<1>1. /\ c.pos \in Nat /\ c.last \in Nat /\ c.word_start \in Nat /\ w \in Nat /\ Len(f) \in Nat
      /\ c.word_start <= w /\ w <= c.pos
  BY AtType
<1> HIDE DEF w
<1>2. s \in Readers
  BY <1>1 DEF Readers
<1>3. /\ s.pos = c.pos /\ s.last = c.last /\ s.word_start = w /\ s.buffer = c.buffer
      /\ s.sharp_comment = c.sharp_comment /\ s.last_space = c.last_space /\ s.rc = c.rc
      /\ s.failed = c.failed /\ s.blocks = c.blocks /\ s.args = c.args
  BY DEF Readers
<1> HIDE DEF s
<1>4. At(s, f) = At(c, f)
  BY <1>3 DEF At
<1>5. Start(s, f) = At(c, f) - 1
  BY <1>1, <1>3 DEF At, Start, w
<1>6. \A i \in s.word_start .. s.last - 1 : i \in c.word_start .. c.last - 1
  BY <1>1, <1>3
<1>7. Buffered(s, f)
  BY <1>1, <1>3, <1>6 DEF Buffered
<1> QED
  BY <1>2, <1>3, <1>4, <1>5, <1>7 DEF s, w

\* The other fields say nothing about the buffer.
LEMMA MarkedFacts ==
    ASSUME NEW c \in Readers, NEW f \in Seq(Chars), Buffered(c, f), c.rc = "read", NEW s \in Readers,
           s.pos = c.pos, s.last = c.last, s.word_start = c.word_start, s.buffer = c.buffer,
           s.blocks = c.blocks, s.sharp_comment => s.last_space
    PROVE  Buffered(s, f) /\ At(s, f) = At(c, f) /\ Start(s, f) = Start(c, f)
BY DEF Buffered, At, Start

\* What the next character means to the reader without a buffer
LEMMA CharMeans ==
    ASSUME NEW f \in Seq(Chars), NEW k \in Nat, k + 1 \in 1 .. Len(f)
    PROVE  /\ k + 1 \in Ends(f) <=> f[k + 1] \in {"semi", "open"} /\ Modes(f)[k + 1] = "blank"
           /\ k + 1 \in Closes(f) <=> f[k + 1] = "close" /\ Modes(f)[k + 1] = "blank"
           /\ WordEnds(f, k + 1) <=> Modes(f)[k] = "word" /\ Modes(f)[k + 1] # "word"
           /\ Modes(f)[k] \in ModeSet
           /\ Modes(f)[k + 1] =
                IF Modes(f)[k] = "comment" THEN IF f[k + 1] = "LF" THEN "blank" ELSE "comment"
                ELSE IF f[k + 1] \in {"LF", "semi", "open"} THEN "blank"
                ELSE IF Modes(f)[k] = "word" THEN "word"
                ELSE IF f[k + 1] = "close" THEN "blank"
                ELSE IF f[k + 1] = "#" THEN "comment" ELSE "word"
<1>1. k + 1 \in DOMAIN f /\ (k + 1) - 1 = k /\ k \in 0 .. Len(f) /\ f[k + 1] \in Chars
  OBVIOUS
<1>2. Modes(f)[k] \in ModeSet /\ Modes(f)[k + 1] = NextMode(Modes(f)[k], f[k + 1])
  BY <1>1, ModesSteps
<1>3. WordEnds(f, k + 1) <=> Modes(f)[k] = "word" /\ Modes(f)[k + 1] # "word"
  BY <1>1 DEF WordEnds
<1>4. /\ k + 1 \in Ends(f) <=> f[k + 1] \in {"semi", "open"} /\ Modes(f)[k + 1] = "blank"
      /\ k + 1 \in Closes(f) <=> f[k + 1] = "close" /\ Modes(f)[k + 1] = "blank"
  BY <1>1 DEF Ends, Closes
<1> QED
  BY <1>1, <1>2, <1>3, <1>4, NextModeIs

\* A character that is only passed over
LEMMA PassedOver ==
    ASSUME ConfInv, cf.rc = "read", cf.pos < cf.last, file' = file, handled' = handled,
           cf' \in Readers, Buffered(cf', file), cf'.rc = "read", cf'.failed = cf.failed,
           cf'.blocks = cf.blocks, At(cf', file) = At(cf, file) + 1,
           ~cf.failed => LET k == At(cf, file)
                         IN  /\ k + 1 \notin Ends(file) /\ k + 1 \notin Closes(file)
                             /\ Modes(file)[k + 1] = ModeOf(cf')
                             /\ cf'.last_space \/ WordFrom(file, Start(cf', file), k + 2)
                             /\ cf'.args = IF WordEnds(file, k + 1)
                                           THEN Append(cf.args, WordAt(file, k + 1)) ELSE cf.args
    PROVE  ConfInv'
<1>1. /\ cf \in Readers /\ file \in Seq(Chars) /\ handled \in Seq(Entries) /\ Buffered(cf, file)
      /\ ~cf.failed => Follows(cf, file, handled)
  BY DEF ConfInv
<1>2. At(cf, file) + 1 \in 1 .. Len(file)
  BY <1>1, AtType
<1>3. ASSUME ~cf'.failed PROVE Follows(cf', file, handled)
  <2>1. ~cf.failed /\ Follows(cf, file, handled)
    BY <1>1, <1>3
  <2> QED
    BY <1>1, <1>2, <2>1, FollowsSkip
<1> QED
  BY <1>1, <1>3 DEF ConfInv

\* A character that ends a directive
LEMMA HandedOver ==
    ASSUME ConfInv, cf.rc = "read", cf.pos < cf.last, file' = file,
           NEW s \in Readers, Buffered(s, file), s.rc = "read", s.failed = cf.failed,
           s.blocks = cf.blocks, At(s, file) = At(cf, file) + 1,
           NEW ch, ch = file[At(cf, file) + 1], Handle(s, ch),
           ~cf.failed => LET k == At(cf, file)
                         IN  /\ k + 1 \in Ends(file)
                             /\ s.args = IF WordEnds(file, k + 1)
                                         THEN Append(cf.args, WordAt(file, k + 1)) ELSE cf.args
    PROVE  ConfInv'
<1> DEFINE k == At(cf, file)
           e == [args |-> s.args, depth |-> Len(s.blocks) - 1, last |-> file[k + 1]]
<1>1. /\ cf \in Readers /\ file \in Seq(Chars) /\ handled \in Seq(Entries) /\ Buffered(cf, file)
      /\ ~cf.failed => Follows(cf, file, handled)
  BY DEF ConfInv
<1>2. k + 1 \in 1 .. Len(file) /\ k \in 0 .. Len(file) /\ k \in Nat
  BY <1>1, AtType
<1>3. cf' = Handler(s) /\ handled' = Append(handled, e)
  BY DEF Handle
<1>4. e \in Entries
  <2>1. s.args \in Seq(Seq(Chars)) /\ Len(s.blocks) \in Nat /\ file[k + 1] \in Chars
    BY <1>1, <1>2 DEF Readers
  <2> QED
    BY <2>1 DEF Entries
<1>5. handled' \in Seq(Entries)
  BY <1>1, <1>3, <1>4
<1>6. /\ cf' \in Readers /\ Buffered(cf', file) /\ cf'.rc # "idle"
      /\ ~cf'.failed => ~s.failed
  BY <1>1, <1>3, HandlerFacts
<1>7. ASSUME ~cf'.failed PROVE Follows(cf', file, handled')
  <2>1. ~cf.failed /\ Follows(cf, file, handled)
    BY <1>1, <1>6, <1>7
  <2>2. /\ k + 1 \in Ends(file)
        /\ s.args = IF WordEnds(file, k + 1) THEN Append(cf.args, WordAt(file, k + 1)) ELSE cf.args
    BY <2>1
  <2>3. /\ Split(file, handled, k) /\ cf.args = WordsOf(file, NthEnd(file, Len(handled)))[k]
        /\ BracedIn(handled) => Nested(file, handled) /\ Len(s.blocks) - 1 = DepthAt(file, k + 1)
    BY <2>1 DEF Follows
  <2>4. At(s, file) = k + 1
    OBVIOUS
  <2> HIDE DEF k
  <2>5. s.args = WordsOf(file, NthEnd(file, Len(handled)))[k + 1]
    BY <1>1, <1>2, <2>2, <2>3, WordsNext
  <2>6. ~Handler(s).failed
    BY <1>3, <1>7
  <2>7. Follows(Handler(s), file, Append(handled, e))
    BY <1>1, <1>2, <2>2, <2>3, <2>4, <2>5, <2>6, FollowsEnd
  <2> QED
    BY <1>3, <2>7
<1> QED
  BY <1>1, <1>5, <1>6, <1>7 DEF ConfInv

\* A character in front of a word keeps the invariant.
LEMMA FirstChar_Inv ==
    ASSUME ConfInv, cf.rc = "read", cf.pos < cf.last, file' = file, cf.last_space,
           ~Took(cf).sharp_comment, FirstChar(Took(cf), cf.buffer[cf.pos])
    PROVE  ConfInv'
<1> DEFINE c == Took(cf)
           k == At(cf, file)
           ch == file[k + 1]
           s == [c EXCEPT !.word_start = c.pos - 1]
<1>1. /\ cf \in Readers /\ file \in Seq(Chars) /\ handled \in Seq(Entries) /\ Buffered(cf, file)
      /\ ~cf.failed => Follows(cf, file, handled)
  BY DEF ConfInv
<1>2. k + 1 \in 1 .. Len(file) /\ k \in 0 .. Len(file) /\ k \in Nat /\ cf.pos \in Nat
      /\ cf.word_start \in Nat /\ cf.word_start <= cf.pos
  BY <1>1, AtType DEF Buffered
<1>3. /\ c \in Readers /\ Buffered(c, file) /\ At(c, file) = k + 1 /\ cf.buffer[cf.pos] = ch
      /\ ch \in Chars /\ c.rc = "read" /\ c.failed = cf.failed /\ c.blocks = cf.blocks
      /\ c.args = cf.args /\ c.last_space = cf.last_space /\ c.pos = cf.pos + 1
      /\ c.word_start = cf.word_start /\ c.sharp_comment = (cf.sharp_comment /\ ch # "LF")
  BY <1>1, TookFacts
<1> HIDE DEF c
<1>4. c.word_start < c.pos
  BY <1>2, <1>3
<1>5. /\ s \in Readers /\ Buffered(s, file) /\ At(s, file) = k + 1 /\ Start(s, file) = k
      /\ s.rc = "read" /\ s.failed = cf.failed /\ s.blocks = cf.blocks /\ s.args = cf.args
      /\ s.last_space = cf.last_space /\ s.sharp_comment = c.sharp_comment
  <2>1. (k + 1) - 1 = k
    BY <1>2
  <2> HIDE DEF k
  <2> QED
    BY <1>1, <1>3, <1>4, <2>1, StartedFacts
<1>6. ~c.sharp_comment /\ FirstChar(c, ch)
  BY <1>3 DEF c
<1>7. ASSUME ~cf.failed
      PROVE  /\ Modes(file)[k] = IF cf.sharp_comment THEN "comment" ELSE "blank"
             /\ cf.sharp_comment => ch = "LF"
             /\ ~WordEnds(file, k + 1)
  <2>1. Modes(file)[k] = ModeOf(cf)
    BY <1>1, <1>7 DEF Follows
  <2>2. cf.sharp_comment \in BOOLEAN
    BY <1>1 DEF Readers
  <2>3. cf.sharp_comment => ch = "LF"
    BY <1>3, <1>6, <2>2
  <2>4. Modes(file)[k] = IF cf.sharp_comment THEN "comment" ELSE "blank"
    BY <2>1 DEF ModeOf
  <2> QED
    BY <1>1, <1>2, <2>3, <2>4, CharMeans
<1> HIDE DEF s
<1>8. CASE ch = "LF" /\ cf' = c /\ handled' = handled
  <2>1. ASSUME ~cf.failed
        PROVE  k + 1 \notin Ends(file) /\ k + 1 \notin Closes(file) /\ Modes(file)[k + 1] = ModeOf(c)
    <3>1. Modes(file)[k + 1] = "blank"
      BY <1>1, <1>2, <1>7, <1>8, <2>1, CharMeans
    <3>2. ModeOf(c) = "blank"
      BY <1>3, <1>6 DEF ModeOf
    <3> QED
      BY <1>1, <1>2, <1>8, <3>1, <3>2, CharMeans
  <2> QED
    BY <1>1, <1>3, <1>7, <1>8, <2>1, PassedOver
<1>9. CASE ch \in {"semi", "open"} /\ s.args = <<>> /\ cf' = Error(s) /\ handled' = handled
  BY <1>1, <1>5, <1>9, ErrorFacts DEF ConfInv
<1>10. CASE ch \in {"semi", "open"} /\ Handle(s, ch)
  <2>1. ASSUME ~cf.failed PROVE k + 1 \in Ends(file)
    <3>1. Modes(file)[k + 1] = "blank"
      BY <1>1, <1>2, <1>7, <1>10, <2>1, CharMeans
    <3> QED
      BY <1>1, <1>2, <1>10, <3>1, CharMeans
  <2> QED
    BY <1>1, <1>5, <1>7, <1>10, <2>1, HandedOver
<1>11. CASE ch = "close" /\ s.args # <<>> /\ cf' = Error(s) /\ handled' = handled
  BY <1>1, <1>5, <1>11, ErrorFacts DEF ConfInv
<1>12. CASE ch = "close" /\ s.args = <<>> /\ cf' = BlockDone(s) /\ handled' = handled
  <2> DEFINE e == (Len(s.blocks) > 1)
             b == [s EXCEPT !.blocks = SubSeq(@, 1, Len(s.blocks) - 1)]
  <2>1. cf' = Ended(s, e) /\ e \in BOOLEAN
    BY <1>12 DEF BlockDone
  <2> HIDE DEF e
  <2>2. /\ cf' \in Readers /\ Buffered(cf', file) /\ cf'.rc # "idle"
        /\ ~cf'.failed => ~s.failed /\ e
        /\ e /\ ~s.failed /\ Len(s.blocks) # 1 => cf' = NextToken(b)
    BY <1>1, <1>5, <2>1, EndedFacts
  <2>3. ASSUME ~cf'.failed PROVE Follows(cf', file, handled)
    <3>1. ~cf.failed /\ Follows(cf, file, handled) /\ Len(s.blocks) > 1 /\ cf' = NextToken(b)
      <4>1. e /\ ~s.failed
        BY <2>2, <2>3
      <4>2. Len(s.blocks) # 1
        <5>1. Len(s.blocks) \in Nat
          BY <1>5 DEF Readers
        <5>2. Len(s.blocks) > 1
          BY <4>1, Zenon DEF e
        <5>3. \A x \in Nat : x > 1 => x # 1
          OBVIOUS
        <5> QED
          BY <5>1, <5>2, <5>3, Zenon
      <4> QED
        BY <1>1, <1>5, <2>2, <4>1, <4>2 DEF e
    <3> DEFINE t == SubSeq(s.blocks, 1, Len(s.blocks) - 1)
    <3>2. t \in Seq({"file", "events", "http"})
      <4> DEFINE B == {"file", "events", "http"}
      <4>1. s.blocks \in Seq(B)
        BY <1>5 DEF Readers
      <4> HIDE DEF B
      <4>2. Len(s.blocks) - 1 \in 1 - 1 .. Len(s.blocks) /\ 1 \in 1 .. Len(s.blocks) + 1
        BY <3>1, <4>1
      <4>3. t \in Seq(B)
        BY <4>1, <4>2, SubSeqProperties
      <4> QED
        BY <4>3 DEF B
    <3>3. b = [s EXCEPT !.blocks = t]
      OBVIOUS
    <3> HIDE DEF t
    <3>4. b \in Readers
      BY <1>5, <3>2, <3>3 DEF Readers
    <3>5. b.rc = s.rc /\ b.pos = s.pos /\ b.last = s.last /\ b.blocks = t
      BY <1>5, <3>3 DEF Readers
    <3> HIDE DEF b
    <3>6. /\ cf'.rc = "read" /\ cf'.pos = s.pos /\ cf'.last = s.last /\ cf'.last_space
          /\ ~cf'.sharp_comment /\ cf'.args = <<>> /\ cf'.blocks = t
      BY <1>5, <3>1, <3>4, <3>5, NextTokenFacts
    <3>7. At(cf', file) = k + 1
      BY <1>5, <3>6 DEF At
    <3>8. ModeOf(cf) = "blank" /\ ModeOf(cf') = "blank"
      <4>1. cf.sharp_comment \in BOOLEAN /\ ~cf.sharp_comment
        BY <1>1, <1>7, <1>12, <3>1 DEF Readers
      <4> QED
        BY <3>6, <4>1 DEF ModeOf
    <3>9. k + 1 \in Closes(file)
      <4>1. Modes(file)[k + 1] = "blank"
        BY <1>1, <1>2, <1>7, <1>12, <3>1, CharMeans
      <4> QED
        BY <1>1, <1>2, <1>12, <4>1, CharMeans
    <3>10. cf'.blocks = SubSeq(cf.blocks, 1, Len(cf.blocks) - 1) /\ Len(cf.blocks) > 1
           /\ cf.args = <<>>
      BY <1>5, <1>12, <3>1, <3>6 DEF t
    <3> QED
      BY <1>1, <2>2, <3>1, <3>6, <3>7, <3>8, <3>9, <3>10, FollowsClose
  <2> QED
    BY <1>1, <1>12, <2>2, <2>3 DEF ConfInv
<1>13. CASE ch = "#" /\ cf' = [s EXCEPT !.sharp_comment = TRUE] /\ handled' = handled
  <2>1. cf' \in Readers
    BY <1>5, <1>13 DEF Readers
  <2>2. /\ cf'.pos = s.pos /\ cf'.last = s.last /\ cf'.word_start = s.word_start
        /\ cf'.buffer = s.buffer /\ cf'.rc = s.rc /\ cf'.failed = s.failed /\ cf'.args = s.args
        /\ cf'.blocks = s.blocks /\ cf'.last_space = s.last_space /\ cf'.sharp_comment
    BY <1>5, <1>13 DEF Readers
  <2>3. Buffered(cf', file) /\ At(cf', file) = k + 1
    BY <1>1, <1>5, <2>1, <2>2, MarkedFacts
  <2>4. ASSUME ~cf.failed
        PROVE  k + 1 \notin Ends(file) /\ k + 1 \notin Closes(file) /\ Modes(file)[k + 1] = ModeOf(cf')
    <3>1. Modes(file)[k + 1] = "comment"
      BY <1>1, <1>2, <1>7, <1>13, <2>4, CharMeans
    <3>2. ModeOf(cf') = "comment"
      BY <2>2 DEF ModeOf
    <3> QED
      BY <1>1, <1>2, <3>1, <3>2, CharMeans
  <2> QED
    BY <1>1, <1>5, <1>7, <1>13, <2>1, <2>2, <2>3, <2>4, PassedOver
<1>14. CASE /\ ch \notin {"LF", "semi", "open", "close", "#"}
            /\ cf' = [s EXCEPT !.last_space = FALSE] /\ handled' = handled
  <2>1. cf' \in Readers
    BY <1>5, <1>14 DEF Readers
  <2>2. /\ cf'.pos = s.pos /\ cf'.last = s.last /\ cf'.word_start = s.word_start
        /\ cf'.buffer = s.buffer /\ cf'.rc = s.rc /\ cf'.failed = s.failed /\ cf'.args = s.args
        /\ cf'.blocks = s.blocks /\ ~cf'.last_space /\ cf'.sharp_comment = s.sharp_comment
    BY <1>5, <1>14 DEF Readers
  <2>3. ~cf'.sharp_comment
    BY <1>5, <1>6, <2>2
  <2>4. Buffered(cf', file) /\ At(cf', file) = k + 1 /\ Start(cf', file) = k
    BY <1>1, <1>5, <2>1, <2>2, <2>3, MarkedFacts
  <2>5. ASSUME ~cf.failed
        PROVE  /\ k + 1 \notin Ends(file) /\ k + 1 \notin Closes(file)
               /\ Modes(file)[k + 1] = ModeOf(cf') /\ WordFrom(file, k, k + 2)
    <3>0. ~cf.sharp_comment /\ Modes(file)[k] = "blank"
      BY <1>7, <1>14, <2>5
    <3>1. Modes(file)[k + 1] = "word"
      BY <1>1, <1>2, <1>14, <3>0, CharMeans
    <3>2. ModeOf(cf') = "word"
      BY <2>2, <2>3 DEF ModeOf
    <3>3. k + 1 \notin Ends(file) /\ k + 1 \notin Closes(file)
      BY <1>1, <1>2, <3>1, CharMeans
    <3>4. \A j \in k + 1 .. k + 2 - 1 : j = k + 1
      BY <1>2
    <3>5. WordFrom(file, k, k + 2)
      <4>1. k < k + 2 - 1
        BY <1>2
      <4> HIDE DEF k
      <4> QED
        BY <1>2, <3>0, <3>1, <3>4, <4>1 DEF WordFrom
    <3> QED
      BY <3>1, <3>2, <3>3, <3>5
  <2> QED
    BY <1>1, <1>5, <1>7, <1>14, <2>1, <2>2, <2>4, <2>5, PassedOver
<1>15. \/ ch = "LF" /\ cf' = c /\ handled' = handled
       \/ ch \in {"semi", "open"} /\ s.args = <<>> /\ cf' = Error(s) /\ handled' = handled
       \/ ch \in {"semi", "open"} /\ Handle(s, ch)
       \/ ch = "close" /\ s.args # <<>> /\ cf' = Error(s) /\ handled' = handled
       \/ ch = "close" /\ s.args = <<>> /\ cf' = BlockDone(s) /\ handled' = handled
       \/ ch = "#" /\ cf' = [s EXCEPT !.sharp_comment = TRUE] /\ handled' = handled
       \/ /\ ch \notin {"LF", "semi", "open", "close", "#"}
          /\ cf' = [s EXCEPT !.last_space = FALSE] /\ handled' = handled
  <2> HIDE DEF ch, k
  <2>1. \/ ch = "LF" /\ cf' = c /\ handled' = handled
        \/ /\ ch \in {"semi", "open"}
           /\ IF s.args = <<>> THEN cf' = Error(s) /\ handled' = handled ELSE Handle(s, ch)
        \/ /\ ch = "close" /\ handled' = handled
           /\ cf' = IF s.args # <<>> THEN Error(s) ELSE BlockDone(s)
        \/ ch = "#" /\ cf' = [s EXCEPT !.sharp_comment = TRUE] /\ handled' = handled
        \/ /\ ch # "LF" /\ ch \notin {"semi", "open", "close", "#"}
           /\ cf' = [s EXCEPT !.last_space = FALSE] /\ handled' = handled
    BY <1>6, Zenon DEF FirstChar, Blank, s
  <2> QED
    BY <2>1
<1> HIDE DEF ch, k
<1> QED
  BY <1>8, <1>9, <1>10, <1>11, <1>12, <1>13, <1>14, <1>15

\* The characters of a word lie in the buffer.
LEMMA OffsetInWord ==
    ASSUME NEW start \in Nat, NEW pos \in Nat, NEW last \in Nat, pos < last, last <= BufferSize,
           BufferSize \in Nat, NEW i \in 1 .. pos - start
    PROVE  start + i - 1 \in start .. last - 1 /\ start + i - 1 \in 0 .. BufferSize - 1
OBVIOUS

\* A character in or behind a word keeps it.
LEMMA NextChar_Inv ==
    ASSUME ConfInv, cf.rc = "read", cf.pos < cf.last, file' = file, ~cf.last_space,
           NextChar(Took(cf), cf.buffer[cf.pos])
    PROVE  ConfInv'
<1> DEFINE c == Took(cf)
           k == At(cf, file)
           ch == file[k + 1]
           word == Word(c)
           args == Append(c.args, word)
           s == [c EXCEPT !.last_space = TRUE, !.args = args]
<1>1. /\ cf \in Readers /\ file \in Seq(Chars) /\ handled \in Seq(Entries) /\ Buffered(cf, file)
      /\ ~cf.failed => Follows(cf, file, handled)
  BY DEF ConfInv
<1>2. /\ k + 1 \in 1 .. Len(file) /\ k \in 0 .. Len(file) /\ k \in Nat /\ cf.pos \in Nat
      /\ cf.word_start \in Nat /\ cf.last \in Nat /\ Len(file) \in Nat
      /\ cf.word_start <= cf.pos /\ cf.last <= BufferSize /\ BufferSize \in Nat
      /\ Start(cf, file) \in Nat /\ Start(cf, file) <= k
  BY <1>1, AtType, ConfAssumption DEF Buffered
<1>3. /\ c \in Readers /\ Buffered(c, file) /\ At(c, file) = k + 1 /\ cf.buffer[cf.pos] = ch
      /\ ch \in Chars /\ c.rc = "read" /\ c.failed = cf.failed /\ c.blocks = cf.blocks
      /\ c.args = cf.args /\ c.last_space = cf.last_space /\ c.pos = cf.pos + 1
      /\ c.word_start = cf.word_start /\ c.sharp_comment = (cf.sharp_comment /\ ch # "LF")
      /\ c.buffer = cf.buffer /\ Start(c, file) = Start(cf, file)
  BY <1>1, TookFacts
<1> HIDE DEF c
<1>4. ~cf.sharp_comment /\ ~c.sharp_comment
  BY <1>1, <1>3 DEF Buffered
<1>5. /\ word \in Seq(Chars) /\ Len(word) = cf.pos - cf.word_start
      /\ \A i \in 1 .. cf.pos - cf.word_start : word[i] = file[Start(cf, file) + i]
  <2> DEFINE n == cf.pos - cf.word_start
  <2>1. n \in Nat /\ c.pos - 1 - c.word_start = n
    BY <1>2, <1>3
  <2>2. word = [i \in 1 .. n |-> cf.buffer[cf.word_start + i - 1]]
    BY <1>3, <2>1 DEF Word
  <2> HIDE DEF word
  <2>3. ASSUME NEW i \in 1 .. n
        PROVE  /\ cf.word_start + i - 1 \in cf.word_start .. cf.last - 1
               /\ cf.word_start + i - 1 \in 0 .. BufferSize - 1
               /\ Len(file) - cf.last + (cf.word_start + i - 1) + 1 = Start(cf, file) + i
    <3>1. i \in 1 .. cf.pos - cf.word_start
      OBVIOUS
    <3>2. Len(file) - cf.last + (cf.word_start + i - 1) + 1 = Start(cf, file) + i
      BY <1>2, <3>1 DEF Start
    <3> QED
      BY <1>2, <3>1, <3>2, OffsetInWord
  <2>4. \A i \in 1 .. n : cf.buffer[cf.word_start + i - 1] \in Chars
    <3>1. cf.buffer \in [0 .. BufferSize - 1 -> Chars]
      BY <1>1 DEF Readers
    <3> QED
      BY <2>3, <3>1
  <2>5. \A i \in 1 .. n : cf.buffer[cf.word_start + i - 1] = file[Start(cf, file) + i]
    <3>1. \A i \in cf.word_start .. cf.last - 1 : cf.buffer[i] = file[Len(file) - cf.last + i + 1]
      BY <1>1 DEF Buffered
    <3> QED
      BY <2>3, <3>1
  <2> HIDE DEF n
  <2>6. word \in Seq(Chars) /\ Len(word) = n /\ \A i \in 1 .. n : word[i] = file[Start(cf, file) + i]
    BY <2>1, <2>2, <2>4, <2>5
  <2> QED
    BY <2>6 DEF n
<1> HIDE DEF word
<1>6. ASSUME ~cf.failed
      PROVE  /\ Modes(file)[k] = "word" /\ WordFrom(file, Start(cf, file), k + 1)
             /\ WordAt(file, k + 1) = word
  <2>1. Modes(file)[k] = ModeOf(cf) /\ WordFrom(file, Start(cf, file), k + 1)
    BY <1>1, <1>6 DEF Follows
  <2>2. Modes(file)[k] = "word"
    BY <1>4, <2>1 DEF ModeOf
  <2> DEFINE v == Start(cf, file)
             n == cf.pos - cf.word_start
             x == WordAt(file, k + 1)
  <2>3. (k + 1) - 1 - v = n /\ n \in Nat
    <3>1. \A l \in Nat, a \in Nat, p \in Nat, w \in Nat :
            w <= p => (l - a + p + 1) - 1 - (l - a + w) = p - w /\ p - w \in Nat
      OBVIOUS
    <3>2. k = Len(file) - cf.last + cf.pos /\ v = Len(file) - cf.last + cf.word_start
      BY DEF At, Start
    <3>3. /\ Len(file) \in Nat /\ cf.last \in Nat /\ cf.pos \in Nat /\ cf.word_start \in Nat
          /\ cf.word_start <= cf.pos
      BY <1>2
    <3> HIDE DEF k, v
    <3>4. /\ (Len(file) - cf.last + cf.pos + 1) - 1 - (Len(file) - cf.last + cf.word_start)
                = cf.pos - cf.word_start
          /\ cf.pos - cf.word_start \in Nat
      BY <3>1, <3>3
    <3> QED
      BY <3>2, <3>4, Zenon
  <2>4. x \in Seq(Chars) /\ Len(x) = n /\ \A j \in 1 .. n : x[j] = file[v + j]
    <3>1. /\ x \in Seq(Chars) /\ Len(x) = (k + 1) - 1 - v
          /\ \A j \in 1 .. (k + 1) - 1 - v : x[j] = file[v + j]
      BY <1>1, <1>2, <2>1, WordAtIs
    <3> HIDE DEF x, v, n, k
    <3> QED
      BY <2>3, <3>1
  <2>5. x = word
    <3>1. Len(x) = Len(word) /\ \A j \in 1 .. Len(x) : x[j] = word[j]
      BY <1>5, <2>4
    <3> HIDE DEF x
    <3> QED
      BY <1>5, <2>4, <3>1, SeqEqual
  <2> QED
    BY <2>1, <2>2, <2>5
<1>7. s \in Readers
  <2>1. args \in Seq(Seq(Chars))
    BY <1>3, <1>5 DEF Readers
  <2> HIDE DEF args
  <2> QED
    BY <1>3, <2>1 DEF Readers
<1>8. /\ s.pos = c.pos /\ s.last = c.last /\ s.word_start = c.word_start
      /\ s.buffer = c.buffer /\ s.rc = c.rc /\ s.failed = c.failed /\ s.args = args
      /\ s.blocks = c.blocks /\ s.last_space /\ s.sharp_comment = c.sharp_comment
  <2> HIDE DEF args
  <2> QED
    BY <1>3 DEF Readers
<1> HIDE DEF s
<1>9. Buffered(s, file) /\ At(s, file) = k + 1
  BY <1>1, <1>3, <1>7, <1>8, MarkedFacts
<1>10. s.args = Append(cf.args, word)
  BY <1>3, <1>8
<1> HIDE DEF args
<1>11. CASE ch \in {"semi", "open"} /\ Handle(s, ch)
  <2>1. ASSUME ~cf.failed
        PROVE  k + 1 \in Ends(file) /\ WordEnds(file, k + 1)
    <3>1. Modes(file)[k + 1] = "blank"
      BY <1>1, <1>2, <1>6, <1>11, <2>1, CharMeans
    <3> QED
      BY <1>1, <1>2, <1>6, <1>11, <2>1, <3>1, CharMeans
  <2> QED
    BY <1>1, <1>3, <1>6, <1>7, <1>8, <1>9, <1>10, <1>11, <2>1, HandedOver
<1>12. CASE ch = "LF" /\ cf' = s /\ handled' = handled
  <2>1. ASSUME ~cf.failed
        PROVE  /\ k + 1 \notin Ends(file) /\ k + 1 \notin Closes(file) /\ WordEnds(file, k + 1)
               /\ Modes(file)[k + 1] = ModeOf(s)
    <3>1. Modes(file)[k + 1] = "blank"
      BY <1>1, <1>2, <1>6, <1>12, <2>1, CharMeans
    <3>2. ModeOf(s) = "blank"
      BY <1>4, <1>8 DEF ModeOf
    <3> QED
      BY <1>1, <1>2, <1>6, <1>12, <2>1, <3>1, <3>2, CharMeans
  <2> QED
    BY <1>1, <1>3, <1>6, <1>7, <1>8, <1>9, <1>10, <1>12, <2>1, PassedOver
<1>13. CASE ch \notin {"LF", "semi", "open"} /\ cf' = c /\ handled' = handled
  <2>1. ASSUME ~cf.failed
        PROVE  /\ k + 1 \notin Ends(file) /\ k + 1 \notin Closes(file) /\ ~WordEnds(file, k + 1)
               /\ Modes(file)[k + 1] = ModeOf(c) /\ WordFrom(file, Start(c, file), k + 2)
    <3>1. Modes(file)[k + 1] = "word"
      BY <1>1, <1>2, <1>6, <1>13, <2>1, CharMeans
    <3>2. ModeOf(c) = "word"
      BY <1>3, <1>4 DEF ModeOf
    <3>3. k + 1 \notin Ends(file) /\ k + 1 \notin Closes(file) /\ ~WordEnds(file, k + 1)
      BY <1>1, <1>2, <1>6, <2>1, <3>1, CharMeans
    <3>4. WordFrom(file, Start(c, file), k + 2)
      BY <1>1, <1>2, <1>3, <1>6, <2>1, <3>1, WordFromNext
    <3> QED
      BY <3>1, <3>2, <3>3, <3>4
  <2> QED
    BY <1>1, <1>3, <1>13, <2>1, PassedOver
<1>14. \/ ch \in {"semi", "open"} /\ Handle(s, ch)
       \/ ch = "LF" /\ cf' = s /\ handled' = handled
       \/ ch \notin {"LF", "semi", "open"} /\ cf' = c /\ handled' = handled
  <2>1. NextChar(c, ch)
    BY <1>3 DEF c
  <2> HIDE DEF ch, k
  <2>2. \/ ch \in {"semi", "open"} /\ Handle(s, ch)
        \/ ch = "LF" /\ cf' = s /\ handled' = handled
        \/ ch # "LF" /\ ch \notin {"semi", "open"} /\ cf' = c /\ handled' = handled
    BY <2>1, Zenon DEF NextChar, Blank, s, args, word
  <2> QED
    BY <2>2
<1> HIDE DEF ch, k
<1> QED
  BY <1>11, <1>12, <1>13, <1>14

\* ReadChar keeps it: in a comment, in front of a word, or in or behind one.
LEMMA ReadChar_Inv ==
    ASSUME ConfInv, ReadChar
    PROVE  ConfInv'
<1> DEFINE c == Took(cf)
           ch == cf.buffer[cf.pos]
           k == At(cf, file)
<1>1. /\ cf \in Readers /\ file \in Seq(Chars) /\ Buffered(cf, file)
      /\ cf.rc = "read" /\ cf.pos < cf.last /\ file' = file
      /\ ~cf.failed => Follows(cf, file, handled)
  BY DEF ConfInv, ReadChar
<1>2. /\ c \in Readers /\ Buffered(c, file) /\ At(c, file) = k + 1 /\ ch = file[k + 1]
      /\ c.rc = "read" /\ c.failed = cf.failed /\ c.blocks = cf.blocks
      /\ c.args = cf.args /\ c.last_space = cf.last_space
      /\ c.sharp_comment = (cf.sharp_comment /\ file[k + 1] # "LF")
  BY <1>1, TookFacts
<1>3. IF c.sharp_comment THEN cf' = c /\ handled' = handled
      ELSE IF c.last_space THEN FirstChar(c, ch) ELSE NextChar(c, ch)
  BY Zenon DEF ReadChar, Took
<1>4. CASE c.sharp_comment
  <2>1. cf' = c /\ handled' = handled /\ cf.sharp_comment /\ ch # "LF" /\ cf.last_space
    BY <1>1, <1>2, <1>3, <1>4 DEF Buffered
  <2>2. ASSUME ~cf.failed
        PROVE  /\ k + 1 \notin Ends(file) /\ k + 1 \notin Closes(file) /\ ~WordEnds(file, k + 1)
               /\ Modes(file)[k + 1] = ModeOf(c)
    <3>1. k \in Nat /\ k + 1 \in 1 .. Len(file)
      BY <1>1, AtType
    <3>2. Modes(file)[k] = "comment"
      BY <1>1, <2>1, <2>2 DEF Follows, ModeOf
    <3>3. Modes(file)[k + 1] = "comment"
      BY <1>1, <1>2, <2>1, <3>1, <3>2, CharMeans
    <3>4. ModeOf(c) = "comment"
      BY <1>4 DEF ModeOf
    <3> HIDE DEF k
    <3> QED
      BY <1>1, <3>1, <3>2, <3>3, <3>4, CharMeans
  <2> HIDE DEF c
  <2> QED
    BY <1>1, <1>2, <2>1, <2>2, PassedOver
<1>5. CASE ~c.sharp_comment /\ c.last_space
  BY <1>1, <1>2, <1>3, <1>5, FirstChar_Inv
<1>6. CASE ~c.sharp_comment /\ ~c.last_space
  BY <1>1, <1>2, <1>3, <1>6, NextChar_Inv
<1> QED
  BY <1>4, <1>5, <1>6

\* BlockFails keeps the invariant: an error is reported.
LEMMA BlockFails_Inv ==
    ASSUME ConfInv, BlockFails
    PROVE  ConfInv'
<1> DEFINE c == [cf EXCEPT !.blocks = <<"file">>]
<1>1. /\ cf \in Readers /\ file \in Seq(Chars) /\ handled \in Seq(Entries)
      /\ Buffered(cf, file) /\ cf.rc = "read"
  BY DEF ConfInv, BlockFails
<1>2. cf' = Error(c) /\ file' = file /\ handled' = handled
  BY DEF BlockFails
<1>3. /\ c \in Readers /\ c.rc = "read" /\ c.blocks = <<"file">>
      /\ c.pos = cf.pos /\ c.last = cf.last /\ c.word_start = cf.word_start
      /\ c.buffer = cf.buffer /\ c.sharp_comment = cf.sharp_comment
      /\ c.last_space = cf.last_space
  <2>1. <<"file">> \in Seq({"file", "events", "http"})
    OBVIOUS
  <2> QED
    BY <1>1, <2>1 DEF Readers
<1> HIDE DEF c
<1>4. Buffered(c, file)
  <2>1. Len(c.blocks) >= 1
    BY <1>3
  <2> QED
    BY <1>1, <1>3, <2>1 DEF Buffered
<1>5. /\ Error(c) \in Readers /\ Buffered(Error(c), file)
      /\ Error(c).failed /\ Error(c).rc # "idle"
  BY <1>1, <1>3, <1>4, ErrorFacts
<1> QED
  BY <1>1, <1>2, <1>5 DEF ConfInv

-----------------------------------------------------------------------------
(* Theorems                                                                *)

\* The reader with its buffer is, unless an error was reported, where a reader
\* that has the whole file before it would be: in a comment, between words or
\* in a word whose beginning is still in the buffer, with the words of the
\* directive read so far, and as deep in blocks as the braces say.
THEOREM ReaderInvariant == ConfSpec => []ConfInv
<1>1. ConfInit => ConfInv
  BY ConfInit_Inv
<1>2. ConfInv /\ [ConfNext]_cvars => ConfInv'
  <2> SUFFICES ASSUME ConfInv, [ConfNext]_cvars PROVE ConfInv'
    OBVIOUS
  <2>1. CASE \E size \in 0 .. MaxFile : ConfOpen(size)
    BY <2>1, ConfOpen_Inv
  <2>2. CASE Refill
    BY <2>2, Refill_Inv
  <2>3. CASE ReadChar
    BY <2>3, ReadChar_Inv
  <2>4. CASE BlockFails
    BY <2>4, BlockFails_Inv
  <2>5. CASE UNCHANGED cvars
    <3>1. cf' = cf /\ file' = file /\ handled' = handled
      BY <2>5 DEF cvars
    <3> QED
      BY <3>1 DEF ConfInv
  <2> QED
    BY <2>1, <2>2, <2>3, <2>4, <2>5 DEF ConfNext
<1> QED
  BY <1>1, <1>2, PTL DEF ConfSpec

\* For every size of the buffer and of the file, night_conf_read_token gives
\* the handlers the words as they are written, split into directives as they
\* are there.
THEOREM TokensAsWrittenHolds == ConfSpec => []TokensAsWritten
<1>1. ConfInv => TokensAsWritten
  <2> SUFFICES ASSUME ConfInv, ~cf.failed, NEW n \in DOMAIN handled
               PROVE  /\ handled[n].args = WordsOf(file, NthEnd(file, n - 1))[NthEnd(file, n)]
                      /\ handled[n].last = file[NthEnd(file, n)]
    BY DEF TokensAsWritten
  <2>1. Split(file, handled, At(cf, file)) /\ n \in 1 .. Len(handled)
    BY DEF ConfInv, Follows
  <2> QED
    BY <2>1 DEF Split
<1> QED
  BY <1>1, ReaderInvariant, PTL

\* For every size of the buffer and of the file, night_conf_parse handles
\* every directive in the block its braces put it in and, where it ends well,
\* has handled every directive of the file.
THEOREM BlocksAsBracedHolds == ConfSpec => []BlocksAsBraced
<1>1. ConfInv => BlocksAsBraced
  <2> SUFFICES ASSUME ConfInv, ~cf.failed, Braced
               PROVE  /\ \A n \in DOMAIN handled : handled[n].depth = DepthAt(file, NthEnd(file, n))
                      /\ cf.rc = "OK" => Len(file) = cf.size /\ Len(handled) = Cardinality(Ends(file))
    BY DEF BlocksAsBraced
  <2>1. /\ cf \in Readers /\ file \in Seq(Chars) /\ handled \in Seq(Entries)
        /\ Follows(cf, file, handled) /\ BracedIn(handled)
    BY DEF ConfInv, Braced, BracedIn
  <2>2. Nested(file, handled) /\ Split(file, handled, At(cf, file))
    BY <2>1 DEF Follows
  <2>3. ASSUME cf.rc = "OK"
        PROVE  Len(file) = cf.size /\ Len(handled) = Cardinality(Ends(file))
    <3>1. Len(file) = cf.size /\ At(cf, file) = Len(file)
      BY <2>1, <2>3 DEF Follows
    <3>2. Upto(Ends(file), Len(file)) = Ends(file)
      <4>1. \A i \in Ends(file) : i <= Len(file)
        BY <2>1, EndsFacts
      <4> QED
        BY <4>1 DEF Upto
    <3> QED
      BY <2>2, <3>1, <3>2 DEF Split
  <2>4. DOMAIN handled = 1 .. Len(handled)
    BY <2>1
  <2> QED
    BY <2>2, <2>3, <2>4 DEF Nested
<1> QED
  BY <1>1, ReaderInvariant, PTL
=============================================================================
