-------------------------------- MODULE MCStats --------------------------------
(***************************************************************************)
(* A group with a counter of its own, and two writers that share one: two  *)
(* file destinations of one name.                                          *)
(***************************************************************************)
EXTENDS Stats

MCCounterOf(user) == IF user \in Group THEN "source(s)" ELSE "pipe(p)"
=============================================================================
