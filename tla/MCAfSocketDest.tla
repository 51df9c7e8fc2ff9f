---------------------------- MODULE MCAfSocketDest ----------------------------
(***************************************************************************)
(* Three messages, one of a single byte, through a queue for two.          *)
(***************************************************************************)
EXTENDS AfSocketDest

CONSTANTS short, m1, m2

MCSize == (short :> 1) @@ (m1 :> 2) @@ (m2 :> 2)
=============================================================================
