------------------------------ MODULE CfgGrammar ------------------------------
(***************************************************************************)
(* The configuration parser (cfg-grammar.c, generated from cfg-grammar.y): *)
(* its LALR(1) stack, the semantic actions, and the pointers through which *)
(* these act: last_driver, last_reader_options, last_writer_options,       *)
(* last_sock_options, last_template and last_addr_family are globals that  *)
(* no parse resets (nothing calls yyparser_reset).                         *)
(*                                                                         *)
(* The value of an option is its rank in the text.  The options set        *)
(* through one pointer are one slot of a driver.                           *)
(***************************************************************************)
EXTENDS Naturals, FiniteSets, Sequences, SequencesExt

CONSTANTS
  Name,          \* of groups, filters and templates
  Kind,          \* the kinds of drivers in use, out of DOMAIN DriverKind
  YYMAXDEPTH,    \* bound of the parser's stack
  MaxDrivers, MaxStatements, MaxWritten, \* bounds: of the text
  MaxParses      \* bound: texts

VARIABLES
  yystack,       \* the parser's stack: its symbols and their values
  last,          \* the global pointers
  heap,          \* the drivers made in this parse
  configuration, \* what the statements so far have made of it
  yyresult,      \* "parsing", "accepted" or "failed"
  text,          \* history: the statements as written, the last may be open
  written,       \* history: how many options were written
  parses

grammar_vars == <<yystack, last, heap, configuration, yyresult, text, written, parses>>

Pointer == {"driver", "reader", "writer", "sock"}
NoDriver == 0  \* NULL
NoTemplate == [ref |-> "none", body |-> 0, escape |-> FALSE]

-----------------------------------------------------------------------------
(* What the action before the options of a driver makes last_* point to    *)
(* (points), what its options go through (takes), and whether their list   *)
(* stays on the stack until it ends (right recursion).                     *)

D(group, points, takes, inet, right) ==
  [group |-> group, points |-> points, takes |-> takes, inet |-> inet, right |-> right]

AfinterSd   == D("source", {}, {}, FALSE, FALSE)
AffileSd    == D("source", {"driver", "reader"}, {"reader"}, FALSE, TRUE)
AffilePipeSd == D("source", {"driver", "reader"}, {"driver", "reader"}, FALSE, TRUE)
AfunixSd    == D("source", {"driver", "reader", "sock"}, {"driver", "reader", "sock"}, FALSE, TRUE)
AfinetSd    == D("source", {"driver", "reader", "sock"}, {"driver", "reader", "sock"}, TRUE, TRUE)
AfstreamsSd == D("source", {"driver"}, {"driver"}, FALSE, TRUE)
AffileDd    == D("destination", {"driver", "writer"}, {"driver", "writer"}, FALSE, TRUE)
AffilePipeDd == D("destination", {"driver", "writer"}, {"driver", "writer"}, FALSE, TRUE)
AfunixDd    == D("destination", {"driver", "writer", "sock"}, {"writer", "sock"}, FALSE, FALSE)
AfinetDd    == D("destination", {"driver", "writer", "sock"}, {"driver", "writer", "sock"}, TRUE, FALSE)
AfuserDd    == D("destination", {}, {}, FALSE, FALSE)
\* Mutant: the options of a program driver go to the writer before it.
AfprogramDdStale == D("destination", {"driver"}, {"writer"}, FALSE, TRUE)
AfprogramDd == D("destination", {"driver", "writer"}, {"writer"}, FALSE, TRUE)

DriverKind ==
  [internal |-> AfinterSd, file_sd |-> AffileSd, pipe_sd |-> AffilePipeSd,
   unix_sd |-> AfunixSd, inet_sd |-> AfinetSd, streams_sd |-> AfstreamsSd,
   file_dd |-> AffileDd, pipe_dd |-> AffilePipeDd, unix_dd |-> AfunixDd,
   inet_dd |-> AfinetDd, user_dd |-> AfuserDd, program_dd |-> AfprogramDd]

ASSUME CfgGrammarAssumption == Kind \subseteq DOMAIN DriverKind

NewDriver(k, family) ==
  [kind |-> k, family |-> family, opts |-> [p \in Pointer |-> 0], template |-> NoTemplate]

NewConfiguration ==
  [source |-> <<>>, destination |-> <<>>, filter |-> <<>>, template |-> <<>>,
   connections |-> <<>>, options |-> <<>>]

CfgGrammarInit ==
  /\ yystack = <<>> /\ heap = <<>> /\ text = <<>>
  /\ last = [driver |-> NoDriver, reader |-> NoDriver, writer |-> NoDriver,
             sock |-> NoDriver, family |-> 0]
  /\ configuration = NewConfiguration /\ yyresult = "parsing"
  /\ written = 0 /\ parses = 1

-----------------------------------------------------------------------------
(* The stack. *)

\* The terminals and nonterminals that a symbol here stands for.
Width == [stmt |-> 2, source |-> 3, destination |-> 3, log |-> 2,
          options |-> 2, params |-> 4, option |-> 1, item |-> 2, endpoint |-> 2,
          flags |-> 1, option_item |-> 2]
Depth(stack) == FoldLeft(LAMBDA n, e : n + Width[e.sym], 1, stack)

Sym(s, v) == [sym |-> s, val |-> v]
Top == IF yystack = <<>> THEN "stmt" ELSE Last(yystack).sym
AtStatement == yyresult = "parsing" /\ Top = "stmt"

\* The index of the open symbol s, the last one on the stack.
Open(s) == SelectLastInSubSeq(yystack, 1, Len(yystack), LAMBDA e : e.sym = s)
Within(s) == \E i \in DOMAIN yystack : yystack[i].sym = s

\* yynewstate: the symbol is pushed if the stack has room.
Fits(stack) == Depth(stack) < YYMAXDEPTH
Shift(s, v) ==
  /\ yyresult = "parsing" /\ Fits(Append(yystack, Sym(s, v)))
  /\ yystack' = Append(yystack, Sym(s, v))

\* yyreduce: from symbol i on, the stack is replaced by the symbol s.
Reduce(i, s, v) ==
  /\ yyresult = "parsing"
  /\ yystack' = Append(SubSeq(yystack, 1, i - 1), Sym(s, v))

\* The values behind symbol i, up to symbol end.
Values(i, end) == [j \in 1 .. end - i |-> yystack[i + j].val]

\* A function changed or extended at n.
Put(f, n, v) == [m \in DOMAIN f \cup {n} |-> IF m = n THEN v ELSE f[m]]

OpenStatement(st) ==
  /\ Len(text) < MaxStatements /\ text' = Append(text, st)
InText(st) == text' = Append(Front(text), st)

-----------------------------------------------------------------------------
(* source s { ... };  destination d { ... }; *)

OpenGroup(g, n) ==
  /\ AtStatement /\ Shift(g, n)
  /\ OpenStatement([kind |-> g, name |-> n, items |-> <<>>])
  /\ UNCHANGED <<last, heap, configuration, yyresult, written, parses>>

\* tcp, tcp6, udp and udp6 set last_addr_family before their parameters.
LastFamily(k, family) == IF DriverKind[k].inet THEN family ELSE last.family

\* The pointers after the action at the driver's name.
Pointed(k, d) == [x \in DOMAIN last |-> IF x \in DriverKind[k].points THEN d ELSE last[x]]

StartDriver(k, family) ==
  /\ yyresult = "parsing" /\ Len(heap) < MaxDrivers
  /\ Top \in {DriverKind[k].group, "item"} /\ Within(DriverKind[k].group)
  /\ LET d == Len(heap) + 1
         l == [Pointed(k, d) EXCEPT !.family = LastFamily(k, family)]
     IN /\ last' = l
        /\ heap' = Append(heap, NewDriver(k, IF DriverKind[k].inet THEN l.family ELSE 0))
        /\ Shift(IF DriverKind[k].points = {} THEN "item" ELSE "params", d)
  /\ InText([Last(text) EXCEPT !.items =
       Append(@, [kind |-> k, family |-> IF DriverKind[k].inet THEN family ELSE 0, opts |-> <<>>])])
  /\ UNCHANGED <<configuration, yyresult, written, parses>>

\* The grammar of pipe() in a source has either optional() or reader options.
Takes(k, opts, p) ==
  /\ p \in DriverKind[k].takes
  /\ k = "pipe_sd" => IF p = "driver" THEN opts = <<>> ELSE \A i \in DOMAIN opts : opts[i].to # "driver"

OpenDriver == Last(Last(text).items)
OptionTo(p) ==
  /\ Top \in {"params", "option"} /\ written < MaxWritten
  /\ Takes(OpenDriver.kind, OpenDriver.opts, p)
  /\ written' = written + 1
  /\ IF DriverKind[OpenDriver.kind].right
     THEN Shift("option", 0)
     ELSE yyresult = "parsing" /\ Fits(Append(yystack, Sym("option", 0))) /\ yystack' = yystack
OptionInText(p, v) ==
  LET i == Len(Last(text).items)
  IN  InText([Last(text) EXCEPT !.items[i].opts = Append(@, [to |-> p, val |-> v])])

\* An option of the driver, the reader, the writer or the socket.
Option(p) ==
  /\ OptionTo(p)
  /\ heap' = [heap EXCEPT ![last[p]].opts[p] = written']
  /\ OptionInText(p, written')
  /\ UNCHANGED <<last, configuration, yyresult, parses>>

\* template(): a template of the configuration so far, or else the text itself.
Looked(n) ==
  IF n \in DOMAIN configuration.template
  THEN [ref |-> "named", body |-> configuration.template[n], escape |-> FALSE]
  ELSE [ref |-> "inline", body |-> 0, escape |-> FALSE]
TemplateOption(n) ==
  /\ OptionTo("writer")
  /\ heap' = [heap EXCEPT ![last.writer].template = Looked(n)]
  /\ OptionInText("template", n)
  /\ UNCHANGED <<last, configuration, yyresult, parses>>

\* log_writer_options_set_template_escape: only an inline template is changed.
EscapeIfInline(t) == IF t.ref = "inline" THEN [t EXCEPT !.escape = TRUE] ELSE t
EscapeOption ==
  /\ OptionTo("writer")
  /\ heap' = [heap EXCEPT ![last.writer].template = EscapeIfInline(@)]
  /\ OptionInText("escape", 0)
  /\ UNCHANGED <<last, configuration, yyresult, parses>>

\* ')': the value of the parameters is last_driver.
EndDriver ==
  /\ Top \in {"params", "option"}
  /\ Reduce(Open("params"), "item", last.driver)
  /\ UNCHANGED <<last, heap, configuration, yyresult, text, written, parses>>

\* Mutant: the driver comes after those behind it.
LinkedBehind(d, drivers) == drivers \o <<d>>
\* log_drv_append and log_endpoint_append: the item before those behind it.
Linked(d, drivers) == <<d>> \o drivers
Items(v) ==
  LET from[j \in 1 .. Len(v) + 1] ==
        IF j > Len(v) THEN <<>> ELSE Linked(v[j], from[j + 1])
  IN  from[1]

\* '}': the items are linked from the last to the first; the group replaces
\* one with its name.
EndGroup(g) ==
  /\ Top \in {g, "item"} /\ Within(g)
  /\ configuration' = [configuration EXCEPT ![g] =
       Put(@, yystack[Open(g)].val, Items(Values(Open(g), Len(yystack))))]
  /\ Reduce(Open(g), "stmt", 0)
  /\ UNCHANGED <<last, heap, yyresult, text, written, parses>>

-----------------------------------------------------------------------------
(* template t { ... };  filter f { ... };  options { ... }; *)

\* last_template is the new template until its statement ends.
Template(n) ==
  /\ AtStatement /\ written < MaxWritten /\ written' = written + 1
  /\ Shift("stmt", 0)
  /\ OpenStatement([kind |-> "template", name |-> n, items |-> <<written'>>])
  /\ configuration' = [configuration EXCEPT !.template = Put(@, n, written')]
  /\ UNCHANGED <<last, heap, yyresult, parses>>

\* The expression is built by module Filter.
FilterStatement(n) ==
  /\ AtStatement /\ written < MaxWritten /\ written' = written + 1
  /\ Shift("stmt", 0)
  /\ OpenStatement([kind |-> "filter", name |-> n, items |-> <<written'>>])
  /\ configuration' = [configuration EXCEPT !.filter = Put(@, n, written')]
  /\ UNCHANGED <<last, heap, yyresult, parses>>

OpenOptions ==
  /\ AtStatement /\ Shift("options", 0)
  /\ OpenStatement([kind |-> "options", name |-> "", items |-> <<>>])
  /\ UNCHANGED <<last, heap, configuration, yyresult, written, parses>>

\* configuration->o = v, at once.
GlobalOption(o) ==
  /\ Top \in {"options", "option_item"} /\ written < MaxWritten /\ written' = written + 1
  /\ Shift("option_item", 0)
  /\ configuration' = [configuration EXCEPT !.options = Put(@, o, written')]
  /\ InText([Last(text) EXCEPT !.items = Append(@, [option |-> o, val |-> written'])])
  /\ UNCHANGED <<last, heap, yyresult, parses>>

EndOptions ==
  /\ Top \in {"options", "option_item"} /\ Reduce(Open("options"), "stmt", 0)
  /\ UNCHANGED <<last, heap, configuration, yyresult, text, written, parses>>

-----------------------------------------------------------------------------
(* log { ... }; *)

OpenLog ==
  /\ AtStatement /\ Shift("log", 0)
  /\ OpenStatement([kind |-> "log", name |-> "", items |-> <<>>, flags |-> {}])
  /\ UNCHANGED <<last, heap, configuration, yyresult, written, parses>>

Endpoint(type, n) ==
  /\ Top \in {"log", "endpoint"} /\ written < MaxWritten /\ written' = written + 1
  /\ Shift("endpoint", <<type, n>>)
  /\ InText([Last(text) EXCEPT !.items = Append(@, <<type, n>>)])
  /\ UNCHANGED <<last, heap, configuration, yyresult, parses>>

\* flags(f1 ... fn) is the disjunction of its flags.
LogFlags(flags) ==
  /\ Top \in {"log", "endpoint"}
  /\ Shift("flags", flags)
  /\ InText([Last(text) EXCEPT !.flags = flags])
  /\ UNCHANGED <<last, heap, configuration, yyresult, written, parses>>

EndLog ==
  /\ Top \in {"log", "endpoint", "flags"} /\ Within("log")
  /\ LET end == IF Top = "flags" THEN Len(yystack) - 1 ELSE Len(yystack)
     IN configuration' = [configuration EXCEPT !.connections =
          Append(@, [items |-> Items(Values(Open("log"), end)),
                     flags |-> IF Top = "flags" THEN Last(yystack).val ELSE {}])]
  /\ Reduce(Open("log"), "stmt", 0)
  /\ UNCHANGED <<last, heap, yyresult, text, written, parses>>

-----------------------------------------------------------------------------
(* The end of the parse. *)

\* The end of the file after a statement: cfg_new returns the configuration.
Accept ==
  /\ AtStatement
  /\ yyresult' = "accepted" /\ yystack' = <<>>
  /\ UNCHANGED <<last, heap, configuration, text, written, parses>>

\* A syntax error, a filter that cannot be made, or a symbol that does not
\* fit: no rule recovers, the stack is unwound and the configuration freed.
Abort ==
  /\ yyresult = "parsing"
  /\ yyresult' = "failed" /\ yystack' = <<>>
  /\ configuration' = NewConfiguration
  /\ UNCHANGED <<last, heap, text, written, parses>>

\* cfg_new for the next configuration file.
Parse ==
  /\ yyresult # "parsing" /\ parses < MaxParses
  /\ parses' = parses + 1 /\ yyresult' = "parsing"
  /\ yystack' = <<>> /\ heap' = <<>> /\ configuration' = NewConfiguration
  /\ text' = <<>> /\ written' = 0
  \* The pointers stay: what they point to is not of this parse.
  /\ last' = [x \in DOMAIN last |-> IF x = "family" THEN last[x] ELSE NoDriver]

CfgGrammarNext ==
  \/ \E g \in {"source", "destination"} : (\E n \in Name : OpenGroup(g, n)) \/ EndGroup(g)
  \/ \E k \in Kind, family \in {4, 6} : StartDriver(k, family)
  \/ \E p \in Pointer : Option(p)
  \/ \E n \in Name : TemplateOption(n) \/ Template(n) \/ FilterStatement(n) \/ GlobalOption(n)
  \/ EscapeOption
  \/ EndDriver
  \/ OpenOptions \/ EndOptions
  \/ OpenLog \/ EndLog
  \/ \E type \in {"source", "filter", "destination"}, n \in Name : Endpoint(type, n)
  \/ \E flags \in SUBSET {"final", "fallback"} : LogFlags(flags)
  \/ Accept \/ Abort \/ Parse

CfgGrammarSpec == CfgGrammarInit /\ [][CfgGrammarNext]_grammar_vars

-----------------------------------------------------------------------------
(* What a text means, from the text alone. *)

\* The last value of an option of a driver as written, 0 if there is none.
LastOf(opts, to) == LET i == SelectLastInSeq(opts, LAMBDA o : o.to = to)
                    IN  IF i = 0 THEN 0 ELSE opts[i].val

\* The statement that gives the name n to a kind of object before statement s.
Declares(kind, n, s) ==
  SelectLastInSubSeq(text, 1, s - 1, LAMBDA st : st.kind = kind /\ st.name = n)

MeansTemplate(opts, s) ==
  LET t == SelectLastInSeq(opts, LAMBDA o : o.to = "template")
      d == Declares("template", opts[t].val, s)
  IN  IF t = 0 THEN NoTemplate
      ELSE [ref    |-> IF d = 0 THEN "inline" ELSE "named",
            body   |-> IF d = 0 THEN 0 ELSE text[d].items[1],
            escape |-> d = 0 /\ \E e \in t .. Len(opts) : opts[e].to = "escape"]

MeansDriver(w, s) ==
  [kind |-> w.kind, family |-> w.family,
   opts |-> [p \in Pointer |-> LastOf(w.opts, p)], template |-> MeansTemplate(w.opts, s)]

\* What the name n of a kind stands for at the end.
Means(kind, n) ==
  LET s == Declares(kind, n, Len(text) + 1)
  IN  IF kind \in {"source", "destination"}
      THEN [i \in DOMAIN text[s].items |-> MeansDriver(text[s].items[i], s)]
      ELSE text[s].items[1]

\* The log statements among the first s statements.
Logs(s) == {t \in 1 .. s : text[t].kind = "log"}

\* A configuration that was accepted is what its text means: every option is
\* in the driver inside whose parentheses it stands, whatever drivers came
\* before it, in this text or an earlier one; drivers, endpoints and log
\* statements are in their order, a name stands for its last statement and a
\* template option for the template declared before it.
ConfigurationAsWritten ==
  yyresult = "accepted" =>
    /\ \A kind \in {"source", "destination", "filter", "template"} :
         LET objects == configuration[kind]
         IN  /\ DOMAIN objects = {text[s].name : s \in {t \in DOMAIN text : text[t].kind = kind}}
             /\ \A n \in DOMAIN objects :
                  Means(kind, n) = IF kind \in {"source", "destination"}
                                   THEN [i \in DOMAIN objects[n] |-> heap[objects[n][i]]]
                                   ELSE objects[n]
    /\ Len(configuration.connections) = Cardinality(Logs(Len(text)))
    /\ \A s \in Logs(Len(text)) :
         configuration.connections[Cardinality(Logs(s))] =
           [items |-> text[s].items, flags |-> text[s].flags]
=============================================================================
