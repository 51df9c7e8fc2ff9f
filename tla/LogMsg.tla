-------------------------------- MODULE LogMsg --------------------------------
(***************************************************************************)
(* A line that one syslog-ng parses (log_msg_parse, logmsg.c), whose host  *)
(* the source group rewrites (log_source_group_queue, sgroup.c), and that  *)
(* a writer without a template formats for the next syslog-ng              *)
(* (log_writer_format_log, logwriter.c), and so on.                        *)
(*                                                                         *)
(* A line is a sequence of tokens: the characters the parser looks at (sp  *)
(* a space, nl the end of a line), a word for a run of the others, and a   *)
(* date as one token, since the parser tells one by its length and         *)
(* separators.                                                             *)
(***************************************************************************)
EXTENDS Naturals, Sequences, SequencesExt

CONSTANTS
  Token,        \* what the lines are made of, and what is written around it
  Line,         \* the lines that may come
  Hop,          \* the sources a line may come in by: the records ParseLine and
                \* Rewritten take their options from
  Number,       \* the tokens that are digits
  KernPri,      \* those of them whose facility is kern
  BadHostname,  \* the host names that match bad_hostname()
  TokenLen,     \* how many characters a token has
  MaxHostname,  \* sizeof(hostname_buf) - 1: 255 characters
  Lower,        \* g_strdown on each token
  MaxHops       \* bound

VARIABLES
  line,     \* what is on the wire
  msg,      \* the message made of the last line
  hop,      \* how many syslog-ngs parsed it
  first,    \* history: the message of the first of them
  plain,    \* history: each of the others could tell the host from the message
  chained,  \* history: each of the others kept the host or appended to it
  lowered   \* history: one of the others normalized the host

log_msg_vars == <<line, msg, hop, first, plain, chained, lowered>>

aix_fwd_string == <<"Message_forwarded_from", "sp">>
repeat_msg_string == <<"last", "sp", "message_repeated">>
Date == {"bsd", "iso", "pix", "linksys"}

SourceOptions ==
  [keep_hostname : BOOLEAN, chain_hostnames : BOOLEAN, check_hostname : BOOLEAN,
   normalize_hostnames : BOOLEAN, kernel : BOOLEAN, local : BOOLEAN, noparse : BOOLEAN,
   host_from : Seq(Token)]

\* resolve_hostname finds a name or writes the address.
ASSUME LogMsgAssumption ==
  /\ Line \subseteq Seq(Token)
  /\ {"sp", "nl", "<", ">", ":", "/", "@", "bsd", "none", "group", "kernel",
      "unparseable_log_message"} \subseteq Token
  /\ Hop \subseteq SourceOptions /\ \A h \in Hop : h.host_from # <<>>
  /\ {"0", "5", "13", "43"} \subseteq Number /\ Number \subseteq Token
  /\ {">", "bad"} \cap Number = {}
  /\ TokenLen \in [Token -> Nat] /\ MaxHostname \in Nat
  /\ Lower \in [Token -> Token]
  /\ \A t \in Token : Lower[Lower[t]] = Lower[t]
  /\ \A t \in Token, c \in {"@", "/"} : Lower[t] = c <=> t = c

NoMessage == [pri |-> "0", date |-> "none", host |-> <<>>, program |-> <<>>, msg |-> <<>>]

LogMsgInit ==
  /\ line \in Line
  /\ msg = NoMessage /\ first = NoMessage
  /\ hop = 0 /\ plain = TRUE /\ chained = TRUE /\ lowered = FALSE

-----------------------------------------------------------------------------
(* Runs of tokens. *)

\* s without its longest prefix of tokens in C, and that prefix.
After(s, C) == LET i == SelectInSeq(s, LAMBDA t : t \notin C)
               IN  IF i = 0 THEN <<>> ELSE SubSeq(s, i, Len(s))
UpTo(s, Stop) == LET i == SelectInSeq(s, LAMBDA t : t \in Stop)
                 IN  IF i = 0 THEN s ELSE SubSeq(s, 1, i - 1)
From(s, Stop) == SubSeq(s, Len(UpTo(s, Stop)) + 1, Len(s))

Trimmed(s) == LET i == SelectLastInSeq(s, LAMBDA t : t # "nl") IN SubSeq(s, 1, i)
Blanked(s) == [i \in DOMAIN s |-> IF s[i] = "nl" THEN "sp" ELSE s[i]]

\* Mutant: the space before the message is left in it.
SpaceKept(s) == s
SpaceSkipped(s) == After(s, {"sp"})

-----------------------------------------------------------------------------
(* log_msg_parse, in the order it takes the line apart. *)

\* <number>: the number, and the rest; "bad" if it is not one.
Priority(s, kernel) ==
  IF s # <<>> /\ s[1] = "<"
  THEN LET number == UpTo(Tail(s), {">"})
           rest == From(Tail(s), {">"})
       IN  IF \E i \in DOMAIN number : number[i] \notin Number
           THEN [pri |-> "bad", rest |-> <<>>]
           ELSE [pri |-> IF number = <<>> THEN "0" ELSE number[1],
                 rest |-> IF rest = <<>> THEN <<>> ELSE Tail(rest)]
  ELSE [pri |-> IF kernel THEN "5" ELSE "13", rest |-> s]

\* An RFC3339 date lasts until the next space, the zone is in it; a BSD date may
\* have a fraction after it.
AfterDate(s) ==
  CASE s[1] = "iso" -> From(s, {"sp"})
    [] s[1] = "bsd" /\ Len(s) > 1 /\ s[2] = "." -> After(SubSeq(s, 3, Len(s)), Number)
    [] OTHER -> Tail(s)

\* The host of a message that AIX forwarded, and the rest.
AixForwarded(s) ==
  IF IsPrefix(aix_fwd_string, s)
  THEN LET rest == SubSeq(s, Len(aix_fwd_string) + 1, Len(s))
       IN  [host |-> UpTo(rest, {":"}), rest |-> After(From(rest, {":"}), {"sp", ":"})]
  ELSE [host |-> <<>>, rest |-> s]

IsRepeat(s) == Len(s) > Len(repeat_msg_string) /\ IsPrefix(repeat_msg_string, s)

\* The parser looks for the end of the host in the first MaxHostname characters.
HostFits(name) == FoldSeq(LAMBDA t, n : TokenLen[t] + n, 0, name) <= MaxHostname

\* A run of characters is the host if it fits and a space comes right after it.
HostStop(check_hostname) == {"sp", ":", "["} \cup (IF check_hostname THEN {"!", "nl"} ELSE {})
HostName(s, check_hostname) ==
  LET name == UpTo(s, HostStop(check_hostname))
      rest == From(s, HostStop(check_hostname))
  IN  IF rest # <<>> /\ rest[1] = "sp" /\ HostFits(name) /\ name \notin BadHostname
      THEN [host |-> name, rest |-> rest] ELSE [host |-> <<>>, rest |-> s]

\* It is the program if anything comes after it.
Program(s) == IF From(s, {"sp", "[", ":"}) = <<>> THEN <<>> ELSE UpTo(s, {"sp", "[", ":"})

ParseHost(m, s, check_hostname) ==
  LET aix == AixForwarded(SpaceSkipped(s))
      named == HostName(aix.rest, check_hostname)
      rest == SpaceSkipped(named.rest)
  IN  IF IsRepeat(aix.rest) THEN [m EXCEPT !.host = aix.host, !.msg = Blanked(aix.rest)]
      ELSE [m EXCEPT !.host = IF named.host # <<>> THEN named.host ELSE aix.host,
                     !.program = Program(rest), !.msg = Blanked(rest)]

ParseLine(data, h) ==
  LET s == Trimmed(data)
      p == Priority(s, h.kernel)
      rest == After(p.rest, {"sp"})
      m == [NoMessage EXCEPT !.pri = p.pri]
  IN  IF h.noparse THEN [NoMessage EXCEPT !.msg = s]
      ELSE IF p.pri = "bad"
      THEN [NoMessage EXCEPT !.pri = "43", !.msg = <<"unparseable_log_message", ":", "sp">> \o s]
      ELSE IF rest # <<>> /\ rest[1] \in Date
      THEN ParseHost([m EXCEPT !.date = rest[1]], AfterDate(rest), h.check_hostname)
      ELSE [m EXCEPT !.program = IF m.pri \in KernPri THEN <<"kernel">> ELSE Program(rest),
                     !.msg = Blanked(rest)]

-----------------------------------------------------------------------------
(* The source group, the macro $HOST and the line of the writer. *)

\* Mutant: a relayed host is replaced by the name of the relay, as without chains.
ChainReplaced(host, from) == from
Chain(host, from) == IF host = <<>> THEN from \o <<"/">> \o from ELSE host \o <<"/">> \o from

HostNamed(host, h) ==
  IF h.keep_hostname /\ host # <<>> THEN host
  ELSE IF ~h.chain_hostnames THEN h.host_from
  ELSE IF h.local /\ ~h.noparse THEN <<"group", "@">> \o h.host_from
  ELSE Chain(host, h.host_from)

Lowered(s) == [i \in DOMAIN s |-> Lower[s[i]]]

Rewritten(m, h) ==
  LET host == HostNamed(m.host, h)
  IN  [m EXCEPT !.host = IF h.normalize_hostnames THEN Lowered(host) ELSE host]

\* M_HOST: from behind the @ up to the next /.
MacroHost(host) ==
  LET behind == From(host, {"@"}) IN UpTo(IF behind = <<>> THEN host ELSE Tail(behind), {"/"})

FormatLog(m) ==
  <<"<", m.pri, ">", "bsd", "sp">> \o m.host \o <<"sp">> \o m.msg \o <<"nl">>

\* The host ends where the next hop takes it to end, and is not too long for it;
\* the message begins and ends with what it does not skip; and the two do not read
\* like a repeat message (of a host called "last") or one that AIX forwarded.
Distinct(m, h) ==
  /\ ~h.noparse
  /\ \A i \in DOMAIN m.host : m.host[i] \notin HostStop(h.check_hostname)
  /\ HostFits(m.host) /\ m.host \notin BadHostname
  /\ m.msg # <<>> => m.msg[1] # "sp"
  /\ \A i \in DOMAIN m.msg : m.msg[i] # "nl"
  /\ LET s == m.host \o <<"sp">> \o m.msg IN ~IsRepeat(s) /\ ~IsPrefix(aix_fwd_string, s)

\* The name that is appended does not look like a group's.
Appends(h) == h.chain_hostnames /\ \A i \in DOMAIN h.host_from : h.host_from[i] # "@"

Relay(h) ==
  /\ hop < MaxHops
  /\ h.local => hop = 0            \* a relay sends over the network
  /\ msg' = Rewritten(ParseLine(line, h), h)
  /\ line' = FormatLog(msg')
  /\ hop' = hop + 1
  /\ first' = IF hop = 0 THEN msg' ELSE first
  /\ plain' = (plain /\ (hop = 0 \/ Distinct(msg, h)))
  /\ chained' = (chained /\ (hop = 0 \/ h.keep_hostname \/ Appends(h)))
  /\ lowered' = (lowered \/ (hop # 0 /\ h.normalize_hostnames))

LogMsgNext == \E h \in Hop : Relay(h)

LogMsgSpec == LogMsgInit /\ [][LogMsgNext]_log_msg_vars

-----------------------------------------------------------------------------
\* A message is the same, and has the same priority, behind any number of
\* relays, as long as each of them wrote a host that the next one takes for one:
\* one with a colon (an IPv6 address), a [ or a space is not recognised, nor "last"
\* before what then reads like a repeat message, nor a chain of hosts that came to
\* be longer than the parser's buffer.  And if each of them kept the host or
\* appended its own, $HOST is that of the first, in lower case if one of the others
\* has normalize_hostnames().
RelayKeepsMessage ==
  /\ plain => msg.msg = first.msg /\ msg.pri = first.pri
  /\ plain /\ chained =>
       MacroHost(msg.host) = LET host == MacroHost(first.host)
                             IN  IF lowered THEN Lowered(host) ELSE host
=============================================================================
