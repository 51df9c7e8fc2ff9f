------------------------------ MODULE LogCenter ------------------------------
(***************************************************************************)
(* log_center_queue: which destination groups a message is sent to, and    *)
(* which of these deliveries are flow-controlled.  The log statements are  *)
(* walked in the order of the configuration, first those without the       *)
(* fallback flag and, if none of them matched, those with it.              *)
(*                                                                         *)
(* RouteOf is the same answer without the loops.  LogPath takes its        *)
(* deliveries from it.                                                     *)
(***************************************************************************)
EXTENDS Naturals, Sequences, SequencesExt

CONSTANTS
  Configuration, \* the sequences of log statements considered
  Message        \* the messages: source group, and the filters they pass

\* A configuration is a sequence, and so are the destinations of a statement.
ASSUME LogCenterAssumption ==
  \A cs \in Configuration :
    /\ cs \in Seq(ToSet(cs))
    /\ \A i \in DOMAIN cs : cs[i].dests \in Seq(ToSet(cs[i].dests))

Flag == {"catchall", "fallback", "final", "flow-control"}

VARIABLES
  conns,          \* cfg->connections
  lm,             \* the message
  fallbacks,      \* the pass over the statements: 0, then 1
  have_fallbacks, \* this pass skipped a fallback statement
  match,          \* a statement has accepted the message
  ci,             \* the statement the inner loop is at
  sent,           \* the deliveries made so far
  done            \* log_center_queue has left the loops

vars == <<conns, lm, fallbacks, have_fallbacks, match, ci, sent, done>>

IsFallback(c) == "fallback" \in c.flags

\* The source is listed in the statement, unless any source will do, and
\* every filter of the statement accepts the message.
Accepts(c, m) ==
  /\ "catchall" \in c.flags \/ m.source \in c.sources
  /\ \A i \in DOMAIN c.filters : c.filters[i] \in m.passes

\* One delivery for each destination of the statement.
Deliveries(c) ==
  [i \in DOMAIN c.dests |->
     [group |-> c.dests[i], flow |-> "flow-control" \in c.flags]]

-----------------------------------------------------------------------------
(***************************************************************************)
(* The deliveries, without the loops.                                      *)
(***************************************************************************)

\* The statements of one kind that dispatch the message: those that accept
\* it, up to the first that is final.
Dispatching(cs, m, kind) ==
  LET hits == {i \in DOMAIN cs : IsFallback(cs[i]) = kind /\ Accepts(cs[i], m)}
  IN {i \in hits : \A j \in hits : j < i => "final" \notin cs[j].flags}

RouteOf(cs, m) ==
  LET plain == Dispatching(cs, m, FALSE)
      used  == IF plain # {} THEN plain ELSE Dispatching(cs, m, TRUE)
  IN FlattenSeq([i \in DOMAIN cs |->
                   IF i \in used THEN Deliveries(cs[i]) ELSE <<>>])

-----------------------------------------------------------------------------
Init ==
  /\ conns \in Configuration
  /\ lm \in Message
  /\ fallbacks = 0
  /\ have_fallbacks = FALSE
  /\ match = FALSE
  /\ ci = 1
  /\ sent = <<>>
  /\ done = FALSE

AtStatement == ~done /\ ci <= Len(conns)

\* A fallback statement in the first pass is only taken note of.
PostponeFallback ==
  /\ AtStatement
  /\ fallbacks = 0
  /\ IsFallback(conns[ci])
  /\ have_fallbacks' = TRUE
  /\ ci' = ci + 1
  /\ UNCHANGED <<conns, lm, fallbacks, match, sent, done>>

\* The statement belongs to the pass that is running.
ThisPass == IsFallback(conns[ci]) = (fallbacks = 1)

\* A plain statement in the second pass, or one that does not accept the
\* message.
NextConnection ==
  /\ AtStatement
  /\ ~(fallbacks = 0 /\ IsFallback(conns[ci]))
  /\ ~ThisPass \/ ~Accepts(conns[ci], lm)
  /\ ci' = ci + 1
  /\ UNCHANGED <<conns, lm, fallbacks, have_fallbacks, match, sent, done>>

\* Mutant: the flag final is ignored.
DispatchNotFinal ==
  /\ AtStatement
  /\ ThisPass
  /\ Accepts(conns[ci], lm)
  /\ match' = TRUE
  /\ sent' = sent \o Deliveries(conns[ci])
  /\ ci' = ci + 1
  /\ UNCHANGED <<conns, lm, fallbacks, have_fallbacks, done>>
\* The statement accepts the message: it goes to every destination, and a
\* final statement ends the inner loop.
Dispatch ==
  /\ AtStatement
  /\ ThisPass
  /\ Accepts(conns[ci], lm)
  /\ match' = TRUE
  /\ sent' = sent \o Deliveries(conns[ci])
  /\ ci' = IF "final" \in conns[ci].flags THEN Len(conns) + 1 ELSE ci + 1
  /\ UNCHANGED <<conns, lm, fallbacks, have_fallbacks, done>>

\* The inner loop has ended.  A second pass is made when nothing matched and
\* there are fallback statements.
EndPass ==
  /\ ~done
  /\ ci > Len(conns)
  /\ fallbacks' = fallbacks + 1
  /\ IF ~match /\ have_fallbacks /\ fallbacks' <= 1
     THEN /\ have_fallbacks' = FALSE
          /\ ci' = 1
          /\ UNCHANGED done
     ELSE /\ done' = TRUE
          /\ UNCHANGED <<have_fallbacks, ci>>
  /\ UNCHANGED <<conns, lm, match, sent>>

Next == PostponeFallback \/ NextConnection \/ Dispatch \/ EndPass

Spec == Init /\ [][Next]_vars

-----------------------------------------------------------------------------
TypeOK ==
  /\ lm \in Message
  /\ fallbacks \in 0..2
  /\ have_fallbacks \in BOOLEAN /\ match \in BOOLEAN /\ done \in BOOLEAN
  /\ ci \in 1..(Len(conns) + 1)

\* What the loops of log_center_queue have sent when they end is what the
\* flags of the statements mean taken one by one: nothing is sent twice by a
\* second pass, lost by a final statement of the wrong pass, or left out
\* because a fallback statement was seen too late.
SentIsRoute == done => sent = RouteOf(conns, lm)
=============================================================================
