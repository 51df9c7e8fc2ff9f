-------------------------------- MODULE MCReload --------------------------------
(***************************************************************************)
(* Two file sources that read one file and so share the key of a position, *)
(* a third with a file of its own, and two destinations of one file, whose *)
(* writer is handed on under one key, in configurations that add, drop and *)
(* double them.                                                            *)
(***************************************************************************)
EXTENDS Reload

MCPersistKey(d) ==
  IF d \in {"s1", "s2"} THEN "pos(f)" ELSE IF d = "s3" THEN "pos(g)" ELSE "writer(o)"

MCConfig == {{"s1", "d1"}, {"s1", "s2", "d1"}, {"s3", "d1", "d2"}, {"s2", "s3"}}
=============================================================================
