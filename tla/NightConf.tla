------------------------------ MODULE NightConf ------------------------------
(***************************************************************************)
(* The configuration reader (core/night_conf.c): a file is read through a  *)
(* small buffer, cut into words, and every directive is handed to its      *)
(* command, which for a block parses on to the closing brace.              *)
(*                                                                         *)
(* Words are sequences of characters. <<"s">> is a simple directive of any *)
(* block, <<"h">> opens a block of http, server or location, <<"e">> the   *)
(* events block; every other name is unknown. "semi", "open" and "close"   *)
(* are the semicolon and the braces. A directive whose command refuses its *)
(* values ends like an unknown one. What the file holds is decided when it *)
(* is read.                                                                *)
(***************************************************************************)
EXTENDS Integers, Sequences, FiniteSets

CONSTANTS
    BufferSize,     \* size of the reader's buffer, NIGHT_DEFAULT_POOL_LIMIT
    MaxFile         \* bound: size of a configuration file

ASSUME ConfAssumption == BufferSize \in Nat \ {0} /\ MaxFile \in Nat

VARIABLES
    cf,             \* the reader
    file,           \* what has been read of the file
    handled         \* history: directives handled, [args, depth, last]

cvars == <<cf, file, handled>>

Chars == {"s", "h", "e", "LF", "semi", "open", "close", "#"}
Blank(ch) == ch = "LF"

\* word_start, pos and last are offsets into buffer. blocks is the stack of
\* night_conf_parse calls, the innermost last. failed: an error was reported.
ConfInit ==
    /\ cf = [rc |-> "idle", size |-> 0, buffer |-> [i \in 0..BufferSize - 1 |-> "LF"],
             pos |-> 0, last |-> 0, word_start |-> 0, last_space |-> TRUE,
             sharp_comment |-> FALSE, args |-> <<>>, blocks |-> <<>>,
             opened |-> {}, failed |-> FALSE]
    /\ file = <<>> /\ handled = <<>>

-----------------------------------------------------------------------------
(* night_conf_parse *)

\* The next call of night_conf_read_token.
NextToken(c) == [c EXCEPT !.args = <<>>, !.word_start = c.pos,
                          !.last_space = TRUE, !.sharp_comment = FALSE]

\* night_conf_parse opens the file and reads its first token.
ConfOpen(size) ==
    /\ cf.rc = "idle"
    /\ cf' = [NextToken(cf) EXCEPT !.rc = "read", !.size = size, !.blocks = <<"file">>]
    /\ UNCHANGED <<file, handled>>

\* An error ends the parse of every block around it, up to an events block:
\* night_events_block replaces the result by that of init_conf, and the block
\* around it goes on.
Return(c, rc) ==
    LET events == {i \in DOMAIN c.blocks : c.blocks[i] = "events"}
        level == IF rc = "OK" THEN Len(c.blocks)
                 ELSE IF events = {} THEN 1 ELSE CHOOSE i \in events : \A k \in events : k <= i
    IN  IF level = 1 THEN [c EXCEPT !.rc = rc, !.blocks = <<>>]
        ELSE NextToken([c EXCEPT !.blocks = SubSeq(@, 1, level - 1)])

Error(c) == Return([c EXCEPT !.failed = TRUE], "ERROR")

\* The end of a parse is accepted wherever it comes; where it is not expected,
\* the error log says so.
Ended(c, expected) == Return([c EXCEPT !.failed = @ \/ ~expected], "OK")

\* Mutant: a closing brace ends the parse of the file.
BlockDone_all(c) == Ended([c EXCEPT !.blocks = <<"file">>], Len(c.blocks) > 1)

BlockDone(c) == Ended(c, Len(c.blocks) > 1)

FileDone(c) == Ended(c, Len(c.blocks) = 1)

Opens(c) == IF c.args[1] = <<"e">> THEN "events" ELSE "http"

\* A block directive in a block it does not belong to: night_conf_handler does
\* not look at the context, and the command takes another module's memory for
\* its own.
Misplaced(c) == Len(c.blocks) > 1 /\ (c.args[1] = <<"e">> \/ c.blocks[Len(c.blocks)] = "events")

\* night_conf_handler and the commands: how the directive ended, ; or {, does
\* not matter; events and http are refused a second time.
Handler(c) ==
    CASE c.args[1] = <<"s">> -> NextToken(c)
      [] c.args[1] \in {<<"e">>, <<"h">>} /\ Misplaced(c) -> [c EXCEPT !.rc = "lost"]
      [] c.args[1] \in {<<"e">>, <<"h">>} /\ ~(Len(c.blocks) = 1 /\ Opens(c) \in c.opened) ->
            NextToken([c EXCEPT !.blocks = Append(@, Opens(c)),
                                !.opened = IF Len(c.blocks) = 1 THEN @ \cup {Opens(c)} ELSE @])
      [] OTHER -> Error(c)

Handle(c, ch) ==
    /\ cf' = Handler(c)
    /\ handled' = Append(handled, [args |-> c.args, depth |-> Len(c.blocks) - 1, last |-> ch])

-----------------------------------------------------------------------------
(* night_conf_read_token *)

\* Mutant: the part of a word already read is left behind.
Carried_none(c, chunk, len) ==
    [i \in 0..BufferSize - 1 |-> IF i \in len..len + Len(chunk) - 1 THEN chunk[i - len + 1]
                                 ELSE c.buffer[i]]

\* The unfinished part is moved to the front, and the file read in behind it.
Carried(c, chunk, len) ==
    [i \in 0..BufferSize - 1 |->
        IF i < len THEN c.buffer[c.word_start + i]
        ELSE IF i < len + Len(chunk) THEN chunk[i - len + 1]
        ELSE c.buffer[i]]

\* The buffer is used up: it is filled again, or the file has ended. Nobody
\* shortens the file meanwhile, so that a read gives what is asked for.
Refill ==
    /\ cf.rc = "read" /\ cf.pos >= cf.last
    /\ LET len == cf.pos - cf.word_start
           left == cf.size - Len(file)
           size == IF left > BufferSize - len THEN BufferSize - len ELSE left
       IN  \/ /\ left = 0
              /\ cf' = IF cf.args # <<>> \/ ~cf.last_space THEN Error(cf) ELSE FileDone(cf)
              /\ UNCHANGED file
           \/ /\ left > 0                          \* too long token, or read() fails
              /\ cf' = Error(cf) /\ UNCHANGED file
           \/ /\ left > 0 /\ len # BufferSize
              /\ \E chunk \in [1..size -> Chars] :
                    /\ file' = file \o chunk
                    /\ cf' = [cf EXCEPT !.buffer = Carried(cf, chunk, len), !.pos = len,
                                        !.last = len + size, !.word_start = 0]
    /\ UNCHANGED handled

Word(c) == [i \in 1..c.pos - 1 - c.word_start |-> c.buffer[c.word_start + i - 1]]

\* The next character is in front of a word.
FirstChar(c, ch) ==
    LET s == [c EXCEPT !.word_start = c.pos - 1]
    IN  \/ Blank(ch) /\ cf' = c /\ UNCHANGED handled
        \/ /\ ch \in {"semi", "open"}
           /\ IF s.args = <<>> THEN cf' = Error(s) /\ UNCHANGED handled ELSE Handle(s, ch)
        \/ /\ ch = "close" /\ UNCHANGED handled
           /\ cf' = IF s.args # <<>> THEN Error(s) ELSE BlockDone(s)
        \/ ch = "#" /\ cf' = [s EXCEPT !.sharp_comment = TRUE] /\ UNCHANGED handled
        \/ /\ ~Blank(ch) /\ ch \notin {"semi", "open", "close", "#"}
           /\ cf' = [s EXCEPT !.last_space = FALSE] /\ UNCHANGED handled

\* The next character is in a word or behind it.
NextChar(c, ch) ==
    LET s == [c EXCEPT !.last_space = TRUE, !.args = Append(@, Word(c))]
    IN  \/ ch \in {"semi", "open"} /\ Handle(s, ch)
        \/ Blank(ch) /\ cf' = s /\ UNCHANGED handled
        \/ ~Blank(ch) /\ ch \notin {"semi", "open"} /\ cf' = c /\ UNCHANGED handled

ReadChar ==
    /\ cf.rc = "read" /\ cf.pos < cf.last
    /\ LET ch == cf.buffer[cf.pos]
           c == [cf EXCEPT !.pos = @ + 1, !.sharp_comment = @ /\ ch # "LF"]
       IN  IF c.sharp_comment THEN cf' = c /\ UNCHANGED handled
           ELSE IF c.last_space THEN FirstChar(c, ch)
           ELSE NextChar(c, ch)
    /\ UNCHANGED file

\* The brace that ends the events or the http block, behind which the command
\* itself fails: init_conf of an event module, or one of the steps that follow
\* the parse in night_http_block.
BlockFails ==
    /\ cf.rc = "read" /\ cf.pos < cf.last /\ cf.buffer[cf.pos] = "close"
    /\ cf.last_space /\ ~cf.sharp_comment /\ cf.args = <<>> /\ Len(cf.blocks) = 2
    /\ cf' = Error([cf EXCEPT !.blocks = <<"file">>])
    /\ UNCHANGED <<file, handled>>

ConfNext ==
    (\E size \in 0..MaxFile : ConfOpen(size)) \/ Refill \/ ReadChar \/ BlockFails

ConfSpec == ConfInit /\ [][ConfNext]_cvars

-----------------------------------------------------------------------------
(* Properties *)

\* What a reader without a buffer is in, before and after a character
NextMode(mode, ch) ==
    CASE mode = "comment" -> IF ch = "LF" THEN "blank" ELSE "comment"
      [] mode # "comment" /\ ch \in {"LF", "semi", "open"} -> "blank"
      [] mode = "word" /\ ch \notin {"LF", "semi", "open"} -> "word"
      [] mode = "blank" /\ ch = "close" -> "blank"
      [] mode = "blank" /\ ch = "#" -> "comment"
      [] mode = "blank" /\ ch \notin {"LF", "semi", "open", "close", "#"} -> "word"

\* and after each of the characters of f
Modes(f) ==
    LET mode[i \in 0..Len(f)] == IF i = 0 THEN "blank" ELSE NextMode(mode[i - 1], f[i])
    IN  mode

\* The positions at which directives end, and the braces that close blocks
Ends(f) == {i \in DOMAIN f : f[i] \in {"semi", "open"} /\ Modes(f)[i] = "blank"}
Closes(f) == {i \in DOMAIN f : f[i] = "close" /\ Modes(f)[i] = "blank"}
Upto(S, i) == {k \in S : k <= i}

\* Where the word that ends in front of position i of f may begin
WordStarts(f, i) == {k \in 1..i - 1 : /\ Modes(f)[k - 1] # "word"
                                       /\ \A n \in k..i - 1 : Modes(f)[n] = "word"}

\* The words that end behind position from and not behind i, in order
WordsOf(f, from) ==
    LET words[i \in 0..Len(f)] ==
            IF i <= from THEN <<>>
            ELSE IF Modes(f)[i - 1] = "word" /\ Modes(f)[i] # "word"
            THEN Append(words[i - 1], SubSeq(f, CHOOSE k \in WordStarts(f, i) : TRUE, i - 1))
            ELSE words[i - 1]
    IN  words

\* The n-th place at which a directive ends, 0 in front of the first
NthEnd(f, n) == IF n = 0 THEN 0 ELSE CHOOSE i \in Ends(f) : Cardinality(Upto(Ends(f), i)) = n

\* Blocks open in front of position i, by the braces of f alone
DepthAt(f, i) == Cardinality({k \in Upto(Ends(f), i - 1) : f[k] = "open"})
                 - Cardinality(Upto(Closes(f), i - 1))

\* Unless an error was reported, the handlers were given the words that stand
\* in the file, split into directives as they are there: nothing is lost or
\* glued together where the buffer was filled again in the middle of a word,
\* of blanks or of a comment.
TokensAsWritten ==
    ~cf.failed => \A n \in DOMAIN handled :
        /\ handled[n].args = WordsOf(file, NthEnd(file, n - 1))[NthEnd(file, n)]
        /\ handled[n].last = file[NthEnd(file, n)]

\* Every block directive ends in a brace and no other one does.
Braced == \A n \in DOMAIN handled : (handled[n].last = "open") = (handled[n].args[1] # <<"s">>)

\* If blocks are opened by braces and no error was reported, every directive
\* was handled in the block its braces put it in, and none of the file is
\* skipped: the nested calls of night_conf_parse share one buffer and come
\* back at the right brace.
BlocksAsBraced ==
    ~cf.failed /\ Braced =>
        /\ \A n \in DOMAIN handled : handled[n].depth = DepthAt(file, NthEnd(file, n))
        /\ cf.rc = "OK" => Len(file) = cf.size /\ Len(handled) = Cardinality(Ends(file))
=============================================================================
