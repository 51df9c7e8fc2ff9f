-------------------------------- MODULE Filter --------------------------------
(***************************************************************************)
(* Filter rules: the expressions as the parser puts them together          *)
(* (cfg-grammar.c), the nodes they become (filter.c) and their evaluation, *)
(* of the right operand before the left.  A word of a rule is an operator, *)
(* a parenthesis, or a leaf:                                               *)
(* a record with w = "leaf", the kind of the leaf, and its argument:       *)
(*   facility, level: the names and ranges, as pairs of values;            *)
(*   number: the number of a facility;                                     *)
(*   match: a regular expression, of the host, program or message;         *)
(*   netmask: a network; call: a rule.                                     *)
(***************************************************************************)
EXTENDS Integers, Sequences, SequencesExt

CONSTANTS
  Leaf,      \* the leaves in use
  Rule,      \* the names of the rules, in the order they are written
  Message,   \* records of fac, level, matches (regular expressions), networks
  MaxWords   \* bound: words of all rules

VARIABLES
  rule_text,  \* history: the words of each rule
  stack,   \* the parser's: words and nodes
  next,    \* its lookahead: no word, or one
  filters  \* the rules of the configuration: the roots of their nodes

filter_vars == <<rule_text, stack, next, filters>>

FilterInit == rule_text = <<>> /\ stack = <<>> /\ next = <<>> /\ filters = <<>>

Words == FoldLeft(LAMBDA n, t : n + Len(t), 0, rule_text)

-----------------------------------------------------------------------------
(* The nodes.  A set of bits is the set of their positions.                *)

\* syslog_make_range, of the values of the two names.
MakeRange(v1, v2) == IF v1 > v2 THEN v2 .. v1 ELSE v1 .. v2

\* The bits of the names and ranges of facility() and level().
Bits(items) == UNION {MakeRange(item[1], item[2]) : item \in items}

LeafNode(word) ==
  [w |-> "node", type |-> word.leaf, comp |-> FALSE,
   valid |-> IF word.leaf \in {"facility", "level"} THEN Bits(word.valid) ELSE word.valid]

\* Mutant: not does nothing.
NotNone(n) == n
Not(n) == [n EXCEPT !.comp = ~@]
Op(type, left, right) ==
  [w |-> "node", type |-> type, comp |-> FALSE, left |-> left, right |-> right]

-----------------------------------------------------------------------------
(* The parser. *)

FromTop(i) == stack[Len(stack) + 1 - i]
Kept(n) == SubSeq(stack, 1, Len(stack) - n)
OnTop(i, w) == Len(stack) >= i /\ FromTop(i).w = w
Binary == {"and", "or"}

\* A rule that calls itself is never evaluated to its end; rules only call
\* later ones here, which are looked up at evaluation.
Acyclic(word) ==
  (word.w = "leaf" /\ word.leaf = "call") => \A i \in 1 .. Len(rule_text) : Rule[i] # word.valid

\* The next word, or the end of the statement, if it may come here: anything
\* else is a syntax error.
Read(word) ==
  /\ Len(rule_text) > Len(filters) /\ next = <<>>
  /\ Words < MaxWords
  /\ IF word.w \in Binary \cup {")"} THEN OnTop(1, "node") ELSE ~OnTop(1, "node")
  /\ word.w = ")" => \E i \in DOMAIN stack : stack[i].w = "("
  /\ Acyclic(word)
  /\ next' = <<word>>
  /\ rule_text' = [rule_text EXCEPT ![Len(rule_text)] = Append(@, word)]
  /\ UNCHANGED <<stack, filters>>

ReadEnd ==
  /\ next = <<>> /\ OnTop(1, "node")
  /\ \A i \in DOMAIN stack : stack[i].w # "("
  /\ next' = <<[w |-> ";"]>>
  /\ UNCHANGED <<rule_text, stack, filters>>

\* Mutant: "or" does not wait for an "and".
WaitsNever == FALSE
\* "and" binds stronger than the "or" before it, which waits for its operand.
Waits == OnTop(2, "or") /\ next[1].w = "and"

ReduceBy(n, node) ==
  /\ stack' = Append(Kept(n), node)
  /\ UNCHANGED <<rule_text, next, filters>>

ReduceNot == next # <<>> /\ OnTop(1, "node") /\ OnTop(2, "not") /\ ReduceBy(2, Not(FromTop(1)))
ReduceAnd == next # <<>> /\ OnTop(1, "node") /\ OnTop(2, "and") /\ ReduceBy(3, Op("AND", FromTop(3), FromTop(1)))
ReduceOr == /\ next # <<>> /\ OnTop(1, "node") /\ OnTop(2, "or") /\ ~Waits
            /\ ReduceBy(3, Op("OR", FromTop(3), FromTop(1)))
ReduceParens == OnTop(1, ")") /\ ReduceBy(3, FromTop(2))

\* A leaf is made a node at once.
ShiftWord ==
  /\ next # <<>> /\ next[1].w # ";" /\ ~OnTop(1, ")")
  /\ OnTop(1, "node") => (~OnTop(2, "not") /\ ~OnTop(2, "and") /\ (OnTop(2, "or") => Waits))
  /\ stack' = Append(stack, IF next[1].w = "leaf" THEN LeafNode(next[1]) ELSE next[1])
  /\ next' = <<>>
  /\ UNCHANGED <<rule_text, filters>>

BeginRule ==
  /\ Len(rule_text) = Len(filters) /\ Len(rule_text) < Len(Rule)
  /\ rule_text' = Append(rule_text, <<>>)
  /\ UNCHANGED <<stack, next, filters>>

\* log_filter_rule_new and cfg_add_filter.
EndRule ==
  /\ next # <<>> /\ next[1].w = ";" /\ Len(stack) = 1
  /\ filters' = Append(filters, FromTop(1))
  /\ stack' = <<>> /\ next' = <<>>
  /\ UNCHANGED rule_text

FilterNext ==
  \/ BeginRule \/ EndRule \/ ShiftWord \/ ReadEnd
  \/ ReduceNot \/ ReduceAnd \/ ReduceOr \/ ReduceParens
  \/ \E w \in Binary \cup {"not", "(", ")"} : Read([w |-> w])
  \/ \E l \in Leaf : Read(l)

-----------------------------------------------------------------------------
(* filter_expr_eval. *)

Known(name) == \E i \in DOMAIN filters : Rule[i] = name
RuleOf(name) == filters[CHOOSE i \in DOMAIN filters : Rule[i] = name]

\* 1 << n shifts by n modulo 32, on the processors it is built for.
Bit(n) == n % 32

RECURSIVE Eval(_, _)
Eval(n, m) ==
  LET res ==
        CASE n.type = "OR"       -> Eval(n.right, m) \/ Eval(n.left, m)
          [] n.type = "AND"      -> Eval(n.right, m) /\ Eval(n.left, m)
          [] n.type = "facility" -> Bit(m.fac) \in n.valid
          [] n.type = "number"   -> n.valid = m.fac
          [] n.type = "level"    -> Bit(m.level) \in n.valid
          [] n.type = "match"    -> n.valid \in m.matches
          [] n.type = "netmask"  -> n.valid \in m.networks
          [] n.type = "call"     -> Known(n.valid) => Eval(RuleOf(n.valid), m)
  IN  res # n.comp

-----------------------------------------------------------------------------
(* What a rule says. *)

Nesting(s, i) == Len(SelectSeq(SubSeq(s, 1, i), LAMBDA w : w.w = "("))
             - Len(SelectSeq(SubSeq(s, 1, i), LAMBDA w : w.w = ")"))
Splits(s, w) == {i \in DOMAIN s : s[i].w = w /\ Nesting(s, i) = 0}
RuleText(name) == rule_text[CHOOSE i \in DOMAIN Rule : Rule[i] = name]

LeafHolds(w, m) ==
  CASE w.leaf = "facility" -> \E r \in w.valid : m.fac \in r[1] .. r[2] \cup r[2] .. r[1]
    [] w.leaf = "level"    -> \E r \in w.valid : m.level \in r[1] .. r[2] \cup r[2] .. r[1]
    [] w.leaf = "number"   -> m.fac = w.valid
    [] w.leaf = "match"    -> w.valid \in m.matches
    [] w.leaf = "netmask"  -> w.valid \in m.networks

RECURSIVE Meaning(_, _)
Meaning(s, m) ==
  IF Splits(s, "or") # {}
  THEN LET i == CHOOSE i \in Splits(s, "or") : TRUE
       IN  Meaning(SubSeq(s, 1, i - 1), m) \/ Meaning(SubSeq(s, i + 1, Len(s)), m)
  ELSE IF Splits(s, "and") # {}
  THEN LET i == CHOOSE i \in Splits(s, "and") : TRUE
       IN  Meaning(SubSeq(s, 1, i - 1), m) /\ Meaning(SubSeq(s, i + 1, Len(s)), m)
  ELSE IF s[1].w = "not" THEN ~Meaning(Tail(s), m)
  ELSE IF s[1].w = "(" THEN Meaning(SubSeq(s, 2, Len(s) - 1), m)
  ELSE IF s[1].leaf = "call"
  THEN (\E i \in DOMAIN filters : Rule[i] = s[1].valid) => Meaning(RuleText(s[1].valid), m)
  ELSE LeafHolds(s[1], m)

\* Whatever a rule is made of, a message passes it if the rule says so: "not"
\* binds strongest, then "and", then "or", and an unknown rule matches.  For a
\* facility above 31, which a priority of 256 and more has, this does not hold.
FilterAsWritten ==
  \A i \in DOMAIN filters, m \in Message : Eval(filters[i], m) <=> Meaning(rule_text[i], m)
=============================================================================
