-------------------------------- MODULE MCText --------------------------------
(***************************************************************************)
(* The texts that syslog-ng reads and writes, one kind at a time: the part *)
(* is chosen at the start, and the state of the others stays as it is.     *)
(***************************************************************************)
EXTENDS CfgGrammar, CfgLex, Filter, LogMsg, LogTemplate, TLC

VARIABLE part

Part == {"grammar", "scanner", "filter", "message", "template"}

-----------------------------------------------------------------------------
\* Scanner: one reserved word.
Keywords == {<<"n", "_", "n">>}

\* Filters: two names and a range, with the range either way round, and calls of
\* a rule that comes later and of one that does not exist.
Leaves ==
  {[w |-> "leaf", leaf |-> l[1], valid |-> l[2]] :
     l \in {<<"facility", {<<1, 1>>, <<3, 3>>}>>, <<"level", {<<4, 2>>, <<7, 7>>}>>}}
  \cup {[w |-> "leaf", leaf |-> l[1], valid |-> l[2]] :
          l \in {<<"match", "re">>, <<"netmask", "net">>, <<"call", "g">>, <<"call", "h">>}}
  \cup {[w |-> "leaf", leaf |-> "number", valid |-> 4]}
Rules == <<"f", "g">>
Messages == [fac : {1, 4}, level : {0, 3}, matches : {{}, {"re"}}, networks : {{}, {"net"}}]

Tokens ==
  {"sp", "nl", "<", ">", ":", "/", "@", "[", "!", ".", "+", "h", "0", "5", "13", "43",
   "bsd", "iso", "pix", "linksys", "last", "message_repeated", "Message_forwarded_from",
   "unparseable_log_message", "none", "group", "kernel", "r1", "R2", "r2", "v6"}

\* A host that one relay was appended to fits, unless its name is long; a second
\* one never does.
TokenLens == [t \in Tokens |-> IF t \in {"group", "r1", "R2", "r2", "v6", "last"} THEN 2 ELSE 1]
Lowers == [t \in Tokens |-> IF t = "R2" THEN "r2" ELSE t]

\* Messages: a priority, a date and what may follow it, and three more tokens.
Priorities == {<<>>, <<"<", "13", ">">>, <<"<", "5", ">">>, <<"<", "h", ">">>, <<"<", "13">>}
Dates ==
  {<<>>, <<"bsd">>, <<"bsd", ".", "13">>, <<"iso", "+">>, <<"pix">>,
   <<"bsd", "sp", "last", "sp", "message_repeated">>, <<"bsd", "sp", "message_repeated">>,
   <<"linksys", "sp", "Message_forwarded_from", "sp">>}
Ends == UNION {[1..n -> {"sp", ":", "[", "h", "@", "/", "!", "nl"}] : n \in 0..2}
          \cup [1..3 -> {"sp", ":", "h", "!"}]
Lines == {p \o d \o e : p \in Priorities, d \in Dates, e \in Ends}
Source == [keep_hostname |-> FALSE, chain_hostnames |-> FALSE, check_hostname |-> FALSE,
           normalize_hostnames |-> FALSE, kernel |-> FALSE, local |-> FALSE, noparse |-> FALSE,
           host_from |-> <<"r1">>]
Sources ==
  {[Source EXCEPT !.local = TRUE, !.kernel = TRUE, !.chain_hostnames = TRUE],
   [Source EXCEPT !.local = TRUE, !.noparse = TRUE],
   [Source EXCEPT !.chain_hostnames = TRUE, !.check_hostname = TRUE, !.host_from = <<"R2">>],
   [Source EXCEPT !.keep_hostname = TRUE, !.normalize_hostnames = TRUE],
   [Source EXCEPT !.keep_hostname = TRUE, !.host_from = <<"last">>],
   [Source EXCEPT !.host_from = <<"v6", ":">>]}
BadHostnames == {<<"h", "h">>}

\* Templates: a name that begins another one, and one that only braces make one.
Digits == ("0" :> 0) @@ ("1" :> 1)
MacroValues == (<<"M">> :> <<"'", "bs", "dq", "nl", "v">>) @@ (<<"M", "N">> :> <<"w">>)
            @@ (<<"1", "M">> :> <<"u">>)
Matches == (0 :> <<"all">>) @@ (1 :> <<"'">>)

-----------------------------------------------------------------------------
others(p) ==
  /\ p # "grammar" => UNCHANGED grammar_vars
  /\ p # "scanner" => UNCHANGED lex_vars
  /\ p # "filter" => UNCHANGED filter_vars
  /\ p # "message" => UNCHANGED log_msg_vars
  /\ p # "template" => UNCHANGED log_template_vars

Init ==
  /\ part \in Part
  /\ CfgGrammarInit /\ CfgLexInit /\ FilterInit /\ LogTemplateInit
  /\ LogMsgInit
  /\ part # "message" => line = <<>>
  /\ part # "template" => ~escape

Next ==
  /\ UNCHANGED part
  /\ others(part)
  /\ \/ part = "grammar" /\ CfgGrammarNext
     \/ part = "scanner" /\ CfgLexNext
     \/ part = "filter" /\ FilterNext
     \/ part = "message" /\ LogMsgNext
     \/ part = "template" /\ LogTemplateNext

vars == <<part, grammar_vars, lex_vars, filter_vars, log_msg_vars, log_template_vars>>

Spec == Init /\ [][Next]_vars
=============================================================================
