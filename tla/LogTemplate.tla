------------------------------ MODULE LogTemplate ------------------------------
(***************************************************************************)
(* Templates: log_template_compile and log_template_format (templates.c)   *)
(* and the values log_macro_expand puts in for macros (macros.c).  The     *)
(* compiler looks at one character at a time, so a template is written one *)
(* character at a time here.                                               *)
(***************************************************************************)
EXTENDS Naturals, Sequences, SequencesExt

CONSTANTS
  Letter,           \* the characters of macro names
  DigitValue,       \* the value of each digit in use
  Text,             \* other characters of templates, but $, { and }
  MacroValue,       \* the value of each macro the program knows, by its name
  ReMatches,        \* the matches of the last regular expression, by their number
  MaxTemplateChars  \* bound

VARIABLES
  template,     \* history: what was read of the template
  reading,      \* where the compiler is in it
  name,         \* what it has read of a macro name, or between { and }
  last_text,    \* the text after the last macro
  compiled,     \* the elements: a text, and the macro after it
  escape        \* of the template, or of the destination it is used in

log_template_vars == <<template, reading, name, last_text, compiled, escape>>

LogTemplateInit ==
  /\ template = <<>> /\ reading = "text" /\ name = <<>>
  /\ last_text = <<>> /\ compiled = <<>>
  /\ escape \in BOOLEAN

-----------------------------------------------------------------------------
(* log_template_compile. *)

Digit == DOMAIN DigitValue
NumberOf(digits) == FoldLeft(LAMBDA n, d : 10 * n + DigitValue[d], 0, digits)

\* The number of a match, the name of a macro, or neither.
Lookup(n) ==
  IF n # <<>> /\ \A i \in DOMAIN n : n[i] \in Digit THEN <<"match", NumberOf(n)>>
  ELSE IF n \in DOMAIN MacroValue THEN <<"macro", n>> ELSE <<"none">>

\* Mutant: the text before a macro stays for the next element, too.
TextAfterKept(text, ref) == text
TextAfter(text, ref) == IF ref = <<"none">> THEN text ELSE <<>>

\* An element is made for a macro that is known; a reference to an unknown one
\* leaves nothing, and the text around it is one text.
Add(n) ==
  LET ref == Lookup(n)
  IN  /\ compiled' = IF ref = <<"none">> THEN compiled
                     ELSE Append(compiled, [text |-> last_text, ref |-> ref])
      /\ last_text' = TextAfter(last_text, ref)

ReadsChar(c) == /\ Len(template) < MaxTemplateChars
            /\ template' = Append(template, c)
            /\ UNCHANGED escape

\* A character of the text, or the $ of a macro.
Plain(c) ==
  /\ reading \in {"text", "named"} /\ ReadsChar(c)
  /\ reading = "named" => c \notin Letter
  /\ reading' = IF c = "$" THEN "macro" ELSE "text"
  /\ last_text' = IF c = "$" THEN last_text ELSE Append(last_text, c)
  /\ UNCHANGED <<name, compiled>>

\* After the $: a digit is a macro of its own, a { begins any name.
MatchDigit(c) ==
  /\ reading = "macro" /\ c \in Digit /\ ReadsChar(c)
  /\ Add(<<c>>) /\ reading' = "text" /\ UNCHANGED name

Brace ==
  /\ reading = "macro" /\ ReadsChar("{")
  /\ reading' = "brace" /\ name' = <<>>
  /\ UNCHANGED <<last_text, compiled>>

InBrace(c) ==
  /\ reading = "brace" /\ ReadsChar(c)
  /\ IF c = "}" THEN Add(name) /\ reading' = "text" /\ UNCHANGED name
     ELSE name' = Append(name, c) /\ UNCHANGED <<reading, last_text, compiled>>

\* A name without braces ends before the first other character, which is
\* then a character of the text, or another $.
Named(c) ==
  /\ reading = "macro" /\ c \in Letter /\ ReadsChar(c)
  /\ reading' = "name" /\ name' = <<c>> /\ UNCHANGED <<last_text, compiled>>

InName(c) ==
  /\ reading = "name" /\ c \in Letter /\ ReadsChar(c)
  /\ name' = Append(name, c) /\ UNCHANGED <<reading, last_text, compiled>>

NameEnds ==
  /\ reading = "name"
  /\ Add(name) /\ reading' = "named"
  /\ UNCHANGED <<template, name, escape>>

\* A $ before anything else is dropped.
NoName(c) ==
  /\ reading = "macro" /\ c \notin Digit \cup Letter \cup {"{"} /\ ReadsChar(c)
  /\ reading' = IF c = "$" THEN "macro" ELSE "text"
  /\ last_text' = IF c = "$" THEN last_text ELSE Append(last_text, c)
  /\ UNCHANGED <<name, compiled>>

TemplateChar == Letter \cup Digit \cup Text \cup {"$", "{", "}"}

LogTemplateNext ==
  \/ Brace \/ NameEnds
  \/ \E c \in TemplateChar :
       \/ Plain(c) \/ MatchDigit(c) \/ InBrace(c) \/ NoName(c)
       \/ Named(c) \/ InName(c)

-----------------------------------------------------------------------------
(* log_template_format. *)

\* result_append: quotes and backslashes after a backslash, control characters
\* as three octal digits after one.
EscapedValue(value) ==
  FlattenSeq([i \in DOMAIN value |->
    CASE value[i] \in {"'", "dq", "bs"} -> <<"bs", value[i]>>
      [] value[i] = "nl" -> <<"bs", "012">>
      [] OTHER -> <<value[i]>>])

Value(ref) ==
  CASE ref[1] = "match" -> IF ref[2] \in DOMAIN ReMatches THEN ReMatches[ref[2]] ELSE <<>>
    [] ref[1] = "macro" -> MacroValue[ref[2]]
    [] OTHER            -> <<>>
Expand(ref) == IF escape THEN EscapedValue(Value(ref)) ELSE Value(ref)

Format ==
  FlattenSeq([i \in DOMAIN compiled |-> compiled[i].text \o Expand(compiled[i].ref)])
    \o last_text

-----------------------------------------------------------------------------
(* What a template says: the references are found from the left, and each is *)
(* as long as it can be.                                                     *)

\* How long the reference at the beginning of s is.
ReferenceLength(s) ==
  IF Len(s) > 1 /\ s[2] \in Digit THEN 2
  ELSE IF Len(s) > 1 /\ s[2] = "{" THEN SelectInSeq(s, LAMBDA c : c = "}")
  ELSE LET i == SelectInSeq(Tail(s), LAMBDA c : c \notin Letter) IN IF i = 0 THEN Len(s) ELSE i
Inner(ref) == IF Len(ref) > 1 /\ ref[2] = "{" THEN SubSeq(ref, 3, Len(ref) - 1) ELSE Tail(ref)

RECURSIVE Says(_)
Says(s) ==
  IF s = <<>> THEN <<>>
  ELSE IF s[1] # "$" THEN <<s[1]>> \o Says(Tail(s))
  ELSE Expand(Lookup(Inner(SubSeq(s, 1, ReferenceLength(s))))) \o Says(SubSeq(s, ReferenceLength(s) + 1, Len(s)))

\* A message formatted by a template is the text of the template, in its order,
\* with the value of each macro in its place and nothing for one that is not
\* known, whatever the references are written next to.  A template that ends
\* inside ${ is not covered: the compiler then reads beyond its end.
TemplateAsWritten ==
  reading \in {"text", "named"} => Format = Says(template)
=============================================================================
