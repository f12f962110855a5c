-------------------------------- MODULE MCPanel --------------------------------
(***************************************************************************)
(* Panel with two web threads, two queued programs and two received ones,  *)
(* of two sizes each.                                                      *)
(***************************************************************************)
EXTENDS Panel, TLC
CONSTANTS q1, q2, p1, p2

MCSize == (q1 :> 1) @@ (q2 :> 2) @@ (p1 :> 1) @@ (p2 :> 2)
=============================================================================
