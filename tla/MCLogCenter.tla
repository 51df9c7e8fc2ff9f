----------------------------- MODULE MCLogCenter -----------------------------
(***************************************************************************)
(* Every configuration of up to MaxStatements log statements, each with    *)
(* any of the flags.  Filtered statements take messages of one source      *)
(* group that pass a filter, wide ones any message of either source group; *)
(* both kinds may be followed by either.                                   *)
(***************************************************************************)
EXTENDS LogCenter

CONSTANT MaxStatements

Filtered ==
  [flags : SUBSET Flag, sources : {{"s1"}}, filters : {<<"f1", "f2">>},
   dests : {<<"g1">>}]

Wide ==
  [flags : SUBSET (Flag \ {"catchall"}), sources : {{"s1", "s2"}},
   filters : {<<>>}, dests : {<<"g1", "g2">>}]

MCConfiguration ==
  UNION {[1..n -> Filtered \cup Wide] : n \in 1..MaxStatements}

\* From the listed source and not, passing both filters and only one.
MCMessage == [source : {"s1", "s2"}, passes : {{"f1"}, {"f1", "f2"}}]
=============================================================================
