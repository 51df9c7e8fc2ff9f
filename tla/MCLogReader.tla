----------------------------- MODULE MCLogReader -----------------------------
(***************************************************************************)
(* Every stream of up to MaxLength bytes: two different letters and the    *)
(* three characters that end lines.                                        *)
(***************************************************************************)
EXTENDS LogReader

CONSTANT MaxLength

MCStream == UNION {[1..n -> {"a", "b"} \cup Ends] : n \in 0..MaxLength}
=============================================================================
