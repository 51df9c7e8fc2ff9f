------------------------------ MODULE MCLogPath ------------------------------
(***************************************************************************)
(* Two source drivers, one of them with two readers; two writers and a     *)
(* usertty() destination in three groups that overlap; and log statements  *)
(* that send a message to the same writer twice, with and without flow     *)
(* control.                                                                *)
(***************************************************************************)
EXTENDS LogPath

CONSTANTS m1, m2, m3, r1, r2, d1, d2, w1, w2, tty

MCDriverOf == (r1 :> d1) @@ (r2 :> d2)
MCInitWindow == (d1 :> 1) @@ (d2 :> 2)
MCFifo == (w1 :> 2) @@ (w2 :> 1) @@ (tty :> 1)
MCMembers == [g \in {"g1", "g2", "g3"} |->
                CASE g = "g1" -> <<w1, w2>>
                  [] g = "g2" -> <<w2, tty>>
                  [] g = "g3" -> <<>>]

Center == INSTANCE LogCenter WITH
  Configuration <- {}, Message <- {}, conns <- 0, lm <- 0, fallbacks <- 0,
  have_fallbacks <- 0, match <- 0, ci <- 0, sent <- 0, done <- 0

Statement(flags, filters, dests) ==
  [flags |-> flags, sources |-> {"s"}, filters |-> filters, dests |-> dests]

MCConns ==
  <<Statement({"flow-control"}, <<"auth">>, <<"g1", "g2">>),
    Statement({"final"}, <<"mail">>, <<"g1", "g3">>),
    Statement({"flow-control"}, <<"mail">>, <<"g3">>),
    Statement({"flow-control", "fallback"}, <<>>, <<"g2">>)>>

\* What the statements make of the messages that pass each set of filters.
MCRoute ==
  {Center!RouteOf(MCConns, [source |-> s, passes |-> p]) :
     s \in {"s", "other"}, p \in SUBSET {"auth", "mail"}}
=============================================================================
