----------------------------- MODULE MCConsole -----------------------------
(***************************************************************************)
(* A screen for Console                                                    *)
(***************************************************************************)
EXTENDS Console

(* Two characters of 9 pixels and 8 pixels more, as a screen of 800 pixels  *)
(* has 88 characters and 8 pixels more                                      *)
EightLeft == {[width |-> 26, height |-> 32, bytes_per_pixel |-> 4, bytes_per_row |-> 104]}
=============================================================================
