-------------------------------- MODULE CfgLex --------------------------------
(***************************************************************************)
(* The scanner of the configuration (cfg-lex.c, generated from cfg-lex.l): *)
(* its buffer, which read() fills by any number of characters at a time,   *)
(* the longest match, the start conditions and the buffer of strings.      *)
(* yyrestart empties the buffer for the next file, but keeps the start     *)
(* condition and the last string.                                          *)
(*                                                                         *)
(* Characters: n and _ stand for those of a word, bs is the backslash, dq  *)
(* and sq the quotes, nl the newline, ; every other token of one           *)
(* character, and # begins a comment.  A string is shorter than buf.       *)
(***************************************************************************)
EXTENDS Naturals, Sequences, SequencesExt

CONSTANTS
  Char,         \* the characters in use
  Keyword,      \* the reserved words, spelled with _
  YY_BUF_SIZE,  \* the first size of the buffer
  MaxChars,     \* bound: characters of the first file; the n-th has the n-th part
  MaxFiles      \* bound: files scanned

VARIABLES
  file,         \* history: what was read of the file
  at_eof,       \* read() returned no character (YY_BUFFER_EOF_PENDING)
  yy_ch_buf,    \* the characters from yytext on
  yy_buf_size,
  yy_start,     \* the start condition
  buf,          \* the last string, or what there is of the one being scanned
  str,          \* where in buf the next character goes
  tokens,       \* what yylex returned for this file
  scanning,     \* the end of the file was not yet returned
  files,        \* how many files were scanned
  began         \* history: the start condition at the begin of the file

lex_vars == <<file, at_eof, yy_ch_buf, yy_buf_size, yy_start, buf, str, tokens,
              scanning, files, began>>

CfgLexInit ==
  /\ file = <<>> /\ at_eof = FALSE /\ yy_ch_buf = <<>> /\ yy_buf_size = YY_BUF_SIZE
  /\ yy_start = "INITIAL" /\ buf = <<>> /\ str = 0 /\ tokens = <<>>
  /\ scanning = TRUE /\ files = 1 /\ began = "INITIAL"

Word == {"n", "_", "-"} \cap Char

-----------------------------------------------------------------------------
(* The patterns.  Run(s, C): the length of the longest prefix of s in C.   *)

Run(s, C) == LET i == SelectInSeq(s, LAMBDA c : c \notin C) IN IF i = 0 THEN Len(s) ELSE i - 1

\* How many characters of s the longest match takes, in the start condition.
\* A comment needs its newline; without one, # is matched by the default rule.
Longest(start, s) ==
  CASE start = "string"  -> IF s[1] = "bs" THEN IF Len(s) > 1 THEN 2 ELSE 1
                            ELSE IF s[1] = "dq" THEN 1 ELSE Run(s, Char \ {"dq", "bs"})
    [] start = "qstring" -> IF s[1] = "sq" THEN 1 ELSE Run(s, Char \ {"sq"})
    [] OTHER             -> IF s[1] \in Word THEN Run(s, Word)
                            ELSE IF s[1] = "#" /\ Run(s, Char \ {"nl"}) < Len(s)
                            THEN Run(s, Char \ {"nl"}) ELSE 1

\* Mutant: a match that ends with the buffer is taken.
OpenAtEndNever(start, s) == s = <<>>
\* The scanner runs into the end of the buffer before it has decided.
OpenAtEnd(start, s) ==
  s # <<>> =>
     CASE start = "string"  -> s = <<"bs">> \/ Run(s, Char \ {"dq", "bs"}) = Len(s)
       [] start = "qstring" -> Run(s, Char \ {"sq"}) = Len(s)
       [] OTHER             -> \/ s[1] \in Word /\ Run(s, Word) = Len(s)
                               \/ s[1] = "#" /\ Run(s, Char \ {"nl"}) = Len(s)

-----------------------------------------------------------------------------
(* yy_get_next_buffer: the begun token is moved to the start of the buffer, *)
(* which is doubled until there is room, and filled by what is read.        *)

RECURSIVE Grown(_, _)
Grown(size, moved) == IF size - 1 > moved THEN size ELSE Grown(2 * size, moved)

Refill(new) ==
  /\ scanning /\ ~at_eof /\ OpenAtEnd(yy_start, yy_ch_buf)
  /\ files * (Len(file) + Len(new)) <= MaxChars
  /\ yy_buf_size' = Grown(yy_buf_size, Len(yy_ch_buf))
  /\ Len(yy_ch_buf) + Len(new) < yy_buf_size'
  /\ yy_ch_buf' = yy_ch_buf \o new /\ file' = file \o new
  /\ UNCHANGED <<at_eof, yy_start, buf, str, tokens, scanning, files, began>>

\* Nothing more is read: what was begun is matched as it is.
ReadEof ==
  /\ scanning /\ ~at_eof /\ OpenAtEnd(yy_start, yy_ch_buf)
  /\ at_eof' = TRUE
  /\ UNCHANGED <<file, yy_ch_buf, yy_buf_size, yy_start, buf, str, tokens, scanning, files, began>>

-----------------------------------------------------------------------------
(* The actions of the patterns. *)

\* check_reserved_words: - is read as the _ of a keyword.
Reads(token, keyword) ==
  /\ Len(token) = Len(keyword)
  /\ \A j \in DOMAIN token : IF token[j] \in {"-", "_"} THEN keyword[j] = "_"
                             ELSE token[j] = keyword[j]
WordToken(t) ==
  IF \E k \in Keyword : Reads(t, k) THEN <<"KW", CHOOSE k \in Keyword : Reads(t, k)>>
  ELSE <<"IDENTIFIER", t>>

\* append_string and append_char: after str, the rest of buf is cut off.
Appended(s) == /\ buf' = SubSeq(buf, 1, str) \o s
               /\ str' = str + Len(s)

\* \n, like \a, \r, \t and \v, is a control character; a \ before any other
\* character of a string is dropped.
ControlChar(c) == IF c = "n" THEN "nl" ELSE c
Escaping(t) == IF t[1] = "bs" /\ Len(t) > 1 THEN <<ControlChar(t[2])>> ELSE t

InInitial(t) ==
  \/ /\ t[1] \in Word
     /\ tokens' = Append(tokens, WordToken(t)) /\ UNCHANGED <<yy_start, buf, str>>
  \/ /\ t = <<";">>
     /\ tokens' = Append(tokens, <<";", <<>>>>) /\ UNCHANGED <<yy_start, buf, str>>
  \/ /\ t[1] \in {"#", "nl", "bs"}   \* the default rule writes a \ out
     /\ UNCHANGED <<tokens, yy_start, buf, str>>
  \/ /\ t[1] \in {"dq", "sq"}
     /\ str' = 0 /\ yy_start' = IF t[1] = "dq" THEN "string" ELSE "qstring"
     /\ UNCHANGED <<tokens, buf>>

InString(t, quote) ==
  \/ /\ t = <<quote>>
     /\ tokens' = Append(tokens, <<"STRING", buf>>) /\ yy_start' = "INITIAL"
     /\ UNCHANGED <<buf, str>>
  \/ /\ t = <<"bs">> /\ quote = "dq"
     /\ UNCHANGED <<tokens, yy_start, buf, str>>
  \/ /\ t # <<quote>> /\ ~(t = <<"bs">> /\ quote = "dq")
     /\ Appended(IF quote = "dq" THEN Escaping(t) ELSE t)
     /\ UNCHANGED <<tokens, yy_start>>

Match ==
  /\ scanning /\ yy_ch_buf # <<>>
  /\ at_eof \/ ~OpenAtEnd(yy_start, yy_ch_buf)
  /\ LET n == Longest(yy_start, yy_ch_buf)
         t == SubSeq(yy_ch_buf, 1, n)
     IN  /\ yy_ch_buf' = SubSeq(yy_ch_buf, n + 1, Len(yy_ch_buf))
         /\ CASE yy_start = "INITIAL" -> InInitial(t)
              [] yy_start = "string"  -> InString(t, "dq")
              [] yy_start = "qstring" -> InString(t, "sq")
  /\ UNCHANGED <<file, at_eof, yy_buf_size, scanning, files, began>>

\* yyterminate, in every start condition.
EndOfFile ==
  /\ scanning /\ at_eof /\ yy_ch_buf = <<>> /\ scanning' = FALSE
  /\ UNCHANGED <<file, at_eof, yy_ch_buf, yy_buf_size, yy_start, buf, str, tokens, files, began>>

\* lex_init for the next file, whether or not the last was read to its end.
Restart ==
  /\ files < MaxFiles /\ files' = files + 1
  /\ yy_ch_buf' = <<>> /\ at_eof' = FALSE /\ scanning' = TRUE
  /\ file' = <<>> /\ tokens' = <<>> /\ began' = yy_start
  /\ UNCHANGED <<yy_buf_size, yy_start, buf, str>>

CfgLexNext ==
  \/ \E new \in {<<c>> : c \in Char} \cup {<<c, d>> : c, d \in Char} : Refill(new)
  \/ ReadEof \/ Match \/ EndOfFile \/ Restart

-----------------------------------------------------------------------------
(* The tokens of a file, character by character. *)

\* The scan of a prefix: in what it ends, what there is of it, the tokens.
Ended(w) == IF w.in = "word" THEN [w EXCEPT !.in = "blank", !.part = <<>>,
                                   !.tokens = Append(@, WordToken(w.part))] ELSE w
Began(w, c) ==
  CASE c \in Word -> [w EXCEPT !.in = "word", !.part = <<c>>]
    [] c = ";"    -> [w EXCEPT !.tokens = Append(@, <<";", <<>>>>)]
    [] c = "dq"   -> [w EXCEPT !.in = "string"]
    [] c = "sq"   -> [w EXCEPT !.in = "qstring"]
    [] c = "#"    -> [w EXCEPT !.in = "comment"]
    [] OTHER      -> w
Closed(w) == [w EXCEPT !.in = "blank", !.part = <<>>, !.empty = @ \/ w.part = <<>>,
                       !.tokens = Append(@, <<"STRING", w.part>>)]
More(w, c) == [w EXCEPT !.part = Append(@, c)]
Next1(w, c) ==
  CASE w.in = "blank"   -> Began(w, c)
    [] w.in = "word"    -> IF c \in Word THEN More(w, c) ELSE Began(Ended(w), c)
    [] w.in = "comment" -> IF c = "nl" THEN [w EXCEPT !.in = "blank"] ELSE w
    [] w.in = "string"  -> IF c = "dq" THEN Closed(w)
                           ELSE IF c = "bs" THEN [w EXCEPT !.in = "escape"] ELSE More(w, c)
    [] w.in = "escape"  -> [More(w, ControlChar(c)) EXCEPT !.in = "string"]
    [] w.in = "qstring" -> IF c = "sq" THEN Closed(w) ELSE More(w, c)
Written(s) ==
  Ended(FoldLeft(Next1, [in |-> "blank", part |-> <<>>, tokens |-> <<>>, empty |-> FALSE], s))

\* However read() cuts the file into pieces, and whatever was scanned before,
\* yylex returns the tokens of the file: words up to their longest, - read as
\* _ in keywords, strings without their quotes and escapes, no comments.
\* Three kinds of files are not scanned like this: one after a file that
\* ended inside a string, one with an empty string (which has the content of
\* the string before it), and one whose last line is a comment with no newline.
TokensAsWritten ==
  LET w == Written(file)
  IN  ~scanning /\ began = "INITIAL" /\ ~w.empty /\ w.in # "comment"
        => tokens = w.tokens
=============================================================================
