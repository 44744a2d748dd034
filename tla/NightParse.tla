----------------------------- MODULE NightParse -----------------------------
(***************************************************************************)
(* The two parsers of a request head (http/night_http_parse.c): the        *)
(* request line and one header line, each an automaton that is shown one   *)
(* character after the other.                                              *)
(*                                                                         *)
(* Characters stand for their class: "A" is a capital letter, "a" and "b"  *)
(* are small ones, "0", "1" and "9" digits, "SP" is a blank, "under" an    *)
(* underscore, "!" any other printable character, "ctl" a control          *)
(* character other than "CR" and "LF". What the method spells is kept      *)
(* apart in a word. Positions count from 0 at the start of the line; None  *)
(* is a NULL pointer, "NUL" a byte never written.                          *)
(***************************************************************************)
EXTENDS Integers, Sequences

CONSTANTS
    MaxLine,        \* bound: length of a request line
    MaxBlanks,      \* bound: characters between the method and the uri
    MaxHeader,      \* bound: length of a header line
    LcHeaderLen     \* NIGHT_HTTP_LC_HEADER_LEN, a power of two

ASSUME ParseAssumption ==
    {MaxLine, MaxBlanks, MaxHeader, LcHeaderLen} \subseteq Nat \ {0}

VARIABLES
    r,              \* the request: state, positions found so far, and the word
                    \* its line begins with
    line,           \* the characters seen so far
    parsed          \* "idle", which parser runs, or the result of the last one

qvars == <<r, line, parsed>>

None == -1
WordLen == [GET |-> 3, PUT |-> 3, POST |-> 4, A |-> 1, ABC |-> 3, ABCD |-> 4, ABCDE |-> 5]
Digits == [d \in {"0", "1", "9"} |-> CASE d = "0" -> 0 [] d = "1" -> 1 [] d = "9" -> 9]
LineChars == {"A", "H", "T", "P", "/", "SP", ".", "a", "ctl", "CR", "LF"} \cup DOMAIN Digits
HeaderChars == {"a", "b", "under", "!", ":", "SP", "ctl", "CR", "LF"}
Capital(ch) == ch \in {"A", "H", "T", "P"}

NewRequest ==
    [state |-> "start", word |-> "A", method |-> "UNKNOWN", http_major |-> 0, http_minor |-> 0,
     method_end |-> None, uri_start |-> None, uri_end |-> None,
     http_protocol |-> None, request_end |-> None,
     invalid_header |-> FALSE, header_name_end |-> None, header_start |-> None,
     header_end |-> None, lowcase_index |-> 0,
     lowcase_header |-> [i \in 0..LcHeaderLen - 1 |-> "NUL"]]

ParseInit == r = NewRequest /\ line = <<>> /\ parsed = "idle"

-----------------------------------------------------------------------------
(* The automata. A step gives the request after a character and whether    *)
(* the parser goes on ("AGAIN") or how it ended.                           *)

Go(q, state) == [r |-> [q EXCEPT !.state = state], rc |-> "AGAIN"]
Fail(q, rc) == [r |-> q, rc |-> rc]

\* Mutant: the end of a line without CR is one character late.
Done_late(q, p) ==
    LET s == [q EXCEPT !.request_end = IF @ = None THEN p + 1 ELSE @]
    IN  [r |-> s, rc |-> IF s.http_major = 0 /\ s.http_minor = 9 /\ s.method # "GET"
                         THEN "INVALID_09_METHOD" ELSE "OK"]

\* done: of night_http_parse_request_line
Done(q, p) ==
    LET s == [q EXCEPT !.request_end = IF @ = None THEN p ELSE @]
    IN  [r |-> s, rc |-> IF s.http_major = 0 /\ s.http_minor = 9 /\ s.method # "GET"
                         THEN "INVALID_09_METHOD" ELSE "OK"]

Method(q, p, ch) ==
    CASE ch = "SP" /\ p \in {3, 4} ->
            Go([q EXCEPT !.method_end = p,
                         !.method = IF q.word \in {"GET", "PUT", "POST"} THEN q.word ELSE @], "blanks")
      [] ch # "SP" /\ Capital(ch) -> Go(q, "method")
      [] OTHER -> Fail(q, "INVALID_METHOD")

\* Behind the slash: a blank ends the uri; for any other character the next
\* state is sw_check_uri, which no case of the switch handles.
AfterSlash(q, p, ch) ==
    CASE ch = "SP" -> Go([q EXCEPT !.uri_end = p], "http_09")
      [] ch \in {"ctl", "CR", "LF"} -> Fail(q, "INVALID_REQUEST")
      [] OTHER -> Go(q, "check_uri")

Http09(q, p, ch) ==
    CASE ch = "SP" -> Go(q, "http_09")
      [] ch = "CR" -> Go([q EXCEPT !.http_minor = 9], "almost_done")
      [] ch = "LF" -> Done([q EXCEPT !.http_minor = 9], p)
      [] ch = "H" -> Go([q EXCEPT !.http_protocol = p], "H")
      [] OTHER -> Fail(q, "INVALID_REQUEST")

\* "HTTP/", letter by letter
Expect(q, ch, wanted, state) == IF ch = wanted THEN Go(q, state) ELSE Fail(q, "INVALID_REQUEST")

Major(q, ch, major) ==
    IF major > 1 THEN Fail([q EXCEPT !.http_major = major], "INVALID_VERSION")
                 ELSE Go([q EXCEPT !.http_major = major], "major")

\* Mutant: the minor version grows without a bound.
Minor_unbounded(q, p, ch) ==
    CASE ch = "CR" -> Go(q, "almost_done")
      [] ch = "LF" -> Done(q, p)
      [] ch \in DOMAIN Digits -> Go([q EXCEPT !.http_minor = @ * 10 + Digits[ch]], "minor")
      [] OTHER -> Fail(q, "INVALID_REQUEST")

Minor(q, p, ch) ==
    CASE ch = "CR" -> Go(q, "almost_done")
      [] ch = "LF" -> Done(q, p)
      [] ch \in DOMAIN Digits /\ q.http_minor <= 99 ->
            Go([q EXCEPT !.http_minor = @ * 10 + Digits[ch]], "minor")
      [] OTHER -> Fail(q, "INVALID_REQUEST")

\* night_http_parse_request_line, one character
LineStep(q, p, ch) ==
    CASE q.state = "start" ->
            IF Capital(ch) THEN Go(q, "method") ELSE Fail(q, "INVALID_METHOD")
      [] q.state = "method" -> Method(q, p, ch)
      [] q.state = "blanks" ->
            IF ch = "/" THEN Go([q EXCEPT !.uri_start = p], "slash") ELSE Go(q, "blanks")
      [] q.state = "slash" -> AfterSlash(q, p, ch)
      [] q.state = "http_09" -> Http09(q, p, ch)
      [] q.state = "H" -> Expect(q, ch, "T", "HT")
      [] q.state = "HT" -> Expect(q, ch, "T", "HTT")
      [] q.state = "HTT" -> Expect(q, ch, "P", "HTTP")
      [] q.state = "HTTP" -> Expect(q, ch, "/", "first_major")
      [] q.state = "first_major" ->
            IF ch \in DOMAIN Digits \ {"0"} THEN Major(q, ch, Digits[ch])
            ELSE Fail(q, "INVALID_REQUEST")
      [] q.state = "major" ->
            IF ch = "." THEN Go(q, "first_minor")
            ELSE IF ch \in DOMAIN Digits THEN Major(q, ch, q.http_major * 10 + Digits[ch])
            ELSE Fail(q, "INVALID_REQUEST")
      [] q.state = "first_minor" ->
            IF ch \in DOMAIN Digits THEN Go([q EXCEPT !.http_minor = Digits[ch]], "minor")
            ELSE Fail(q, "INVALID_REQUEST")
      [] q.state = "minor" -> Minor(q, p, ch)
      [] q.state = "almost_done" ->
            LET s == [q EXCEPT !.request_end = p - 1]
            IN  IF ch = "LF" THEN Done(s, p) ELSE Fail(s, "INVALID_REQUEST")
      [] OTHER -> Fail(q, "ERROR")

Lowcase(ch) == ch \in {"a", "b", "under"}

\* Mutant: a character that is not part of a name is counted, though not kept.
NameChar_counted(q, ch) ==
    [q EXCEPT !.lowcase_header[q.lowcase_index] = IF Lowcase(ch) THEN ch ELSE @,
              !.lowcase_index = (@ + 1) % LcHeaderLen]

\* A further character of a name, folded into a buffer that wraps around.
NameChar(q, ch) ==
    IF Lowcase(ch) THEN [q EXCEPT !.lowcase_header[q.lowcase_index] = ch,
                                  !.lowcase_index = (@ + 1) % LcHeaderLen]
    ELSE q

HeaderStart(q, p, ch) ==
    LET s == [q EXCEPT !.invalid_header = ~Lowcase(ch),
                       !.lowcase_header[0] = IF Lowcase(ch) THEN ch ELSE @,
                       !.lowcase_index = IF Lowcase(ch) THEN 1 ELSE 0]
    IN  CASE ch = "CR" -> Go([q EXCEPT !.header_end = p], "header_almost_done")
          [] ch = "LF" -> Fail([q EXCEPT !.header_end = p], "HEADER_DONE")
          [] ch \in {"SP", "ctl", ":"} -> Fail([q EXCEPT !.header_end = p], "INVALID_HEADER")
          [] OTHER -> Go(s, "name")

Name(q, p, ch) ==
    LET bare == [q EXCEPT !.header_name_end = p, !.header_start = p, !.header_end = p]
    IN  CASE ch = ":" -> Go([q EXCEPT !.header_name_end = p], "before_value")
          [] ch = "CR" -> Go(bare, "almost_done")
          [] ch = "LF" -> Fail(bare, "OK")
          [] OTHER -> Go(NameChar(q, ch), "name")

\* Mutant: blanks behind a value belong to it.
Value_untrimmed(q, p, ch) ==
    LET ended == [q EXCEPT !.header_end = p]
    IN  CASE ch = "CR" -> Go(ended, "almost_done")
          [] ch = "LF" -> Fail(ended, "OK")
          [] OTHER -> Go(q, "value")

Value(q, p, ch) ==
    LET ended == [q EXCEPT !.header_end = p]
    IN  CASE ch = "SP" -> Go(ended, "after_value")
          [] ch = "CR" -> Go(ended, "almost_done")
          [] ch = "LF" -> Fail(ended, "OK")
          [] OTHER -> Go(q, "value")

\* night_http_parse_header_line, one character
HeaderStep(q, p, ch) ==
    CASE q.state = "start" -> HeaderStart(q, p, ch)
      [] q.state = "name" -> Name(q, p, ch)
      [] q.state = "before_value" ->
            IF ch = "SP" THEN Go(q, "before_value") ELSE Go([q EXCEPT !.header_start = p], "value")
      [] q.state = "value" -> Value(q, p, ch)
      [] q.state = "after_value" ->
            CASE ch = "SP" -> Go(q, "after_value")
              [] ch = "CR" -> Go(q, "almost_done")
              [] ch = "LF" -> Fail(q, "OK")
              [] OTHER -> Go(q, "value")
      [] q.state = "almost_done" ->
            CASE ch = "LF" -> Fail(q, "OK")
              [] ch = "CR" -> Go(q, "almost_done")
              [] OTHER -> Fail(q, "INVALID_HEADER")
      [] q.state = "header_almost_done" ->
            Fail(q, IF ch = "LF" THEN "HEADER_DONE" ELSE "INVALID_HEADER")

-----------------------------------------------------------------------------
(* Steps *)

\* A buffer with a new line is given to one of the parsers.
StartLine(w) == /\ parsed = "idle" /\ parsed' = "line"
                /\ r' = [r EXCEPT !.word = w] /\ UNCHANGED line

StartHeader == /\ parsed = "idle" /\ parsed' = "header"
               /\ UNCHANGED <<r, line>>

\* The characters a line that begins with the method word may go on with.
Possible(ch) ==
    /\ Len(line) < WordLen[r.word] => ch = "A"
    /\ Len(line) = WordLen[r.word] => ~Capital(ch)
    /\ r.state = "blanks" /\ ch # "/" => Len(line) - r.method_end <= MaxBlanks

ParseLine(ch) ==
    /\ parsed = "line" /\ Len(line) < MaxLine /\ Possible(ch)
    /\ LET s == LineStep(r, Len(line), ch)
       IN  r' = s.r /\ parsed' = IF s.rc = "AGAIN" THEN "line" ELSE s.rc
    /\ line' = Append(line, ch)

ParseHeader(ch) ==
    /\ parsed = "header" /\ Len(line) < MaxHeader
    /\ LET s == HeaderStep(r, Len(line), ch)
       IN  r' = s.r /\ parsed' = IF s.rc = "AGAIN" THEN "header" ELSE s.rc
    /\ line' = Append(line, ch)

\* The header parser meets the end of the buffer: its loop is over and it
\* falls through to done:.
HeaderCut == parsed = "header" /\ parsed' = "CUT" /\ UNCHANGED <<r, line>>

ParseNext == \/ \E w \in DOMAIN WordLen : StartLine(w)
             \/ StartHeader
             \/ \E ch \in LineChars : ParseLine(ch)
             \/ \E ch \in HeaderChars : ParseHeader(ch)
             \/ HeaderCut

ParseSpec == ParseInit /\ [][ParseNext]_qvars

-----------------------------------------------------------------------------
(* Properties *)

Part(from, to) == SubSeq(line, from + 1, to)      \* positions from .. to - 1
IsLine == r.method_end # None
EndOfLine == IF Len(line) > 1 /\ line[Len(line) - 1] = "CR" THEN Len(line) - 2
             ELSE Len(line) - 1
Blanks(s) == \A i \in DOMAIN s : s[i] = "SP"

\* "HTTP/1." and a number below 1000, which zeros may precede
Version(s) ==
    /\ Len(s) >= 8 /\ SubSeq(s, 1, 7) = <<"H", "T", "T", "P", "/", "1", ".">>
    /\ \E i \in 8..Len(s) : /\ \A k \in 8..i - 1 : s[k] = "0"
                           /\ \A k \in i..Len(s) : s[k] \in DOMAIN Digits
                           /\ Len(s) - i < 3

\* The lines that may be accepted: a method of three or four capitals, one
\* blank, anything without a slash, "/", blanks, and a version unless it is
\* a GET, ended by LF or CR LF.
WellFormed(w, l) ==
    LET n == Len(l)
        m == WordLen[w]
        end == IF l[n - 1] = "CR" THEN n - 2 ELSE n - 1
    IN  /\ l[n] = "LF" /\ m \in {3, 4} /\ l[m + 1] = "SP"
        /\ \E i \in m + 2..end :
              /\ l[i] = "/" /\ \A k \in m + 2..i - 1 : l[k] # "/"
              /\ \E j \in i + 1..end :
                    /\ Blanks(SubSeq(l, i + 1, j))
                    /\ \/ j = end /\ w = "GET"
                       \/ Version(SubSeq(l, j + 1, end))

\* The request-line automaton lets no other line through, whatever the way
\* its states were reached: a line that is accepted is well formed as a whole.
LineGrammar == parsed = "OK" /\ IsLine => WellFormed(r.word, line)

\* The pointers left behind cut the line where its parts end, whether it ends
\* in LF or CR LF: what is logged and looked up is the line's own text.
FieldsDelimitLine ==
    parsed = "OK" /\ IsLine =>
        /\ r.request_end = EndOfLine
        /\ r.method_end = WordLen[r.word]
        /\ Part(r.uri_start, r.uri_end) = <<"/">>
        /\ IF r.http_protocol = None THEN Blanks(Part(r.uri_end, r.request_end))
           ELSE /\ Blanks(Part(r.uri_end, r.http_protocol))
                /\ Version(Part(r.http_protocol, r.request_end))

\* A header line with a colon and a value is cut into name and value, without
\* the blanks around the value or the end of the line.
HeaderFields ==
    parsed = "OK" /\ ~IsLine /\ r.header_start > r.header_name_end /\ line[r.header_start + 1] # "CR"
      /\ line[r.header_start + 1] # "LF" =>
        LET rest == SubSeq(line, r.header_end + 1, Len(line))
        IN  /\ \A i \in DOMAIN Part(0, r.header_name_end) : line[i] # ":"
            /\ line[r.header_name_end + 1] = ":"
            /\ Blanks(Part(r.header_name_end + 1, r.header_start))
            /\ r.header_end > r.header_start
            /\ line[r.header_start + 1] # "SP" /\ line[r.header_end] # "SP"
            /\ \A i \in DOMAIN rest : rest[i] \in {"SP", "CR", "LF"}

\* When night_http_process_request_headers copies lowcase_header for a name
\* because the lengths agree, it copies that name: the buffer has not wrapped
\* around and no character was left out.
KeyLowered ==
    parsed = "OK" /\ ~IsLine /\ ~r.invalid_header /\ r.header_name_end = r.lowcase_index =>
        \A i \in 0..r.lowcase_index - 1 : r.lowcase_header[i] = line[i + 1]
=============================================================================
