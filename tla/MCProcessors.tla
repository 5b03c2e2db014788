---------------------------- MODULE MCProcessors ----------------------------
(***************************************************************************)
(* The boot loader's lists of processors for Processors                    *)
(***************************************************************************)
EXTENDS Processors

(* One whose ids are all in bounds; one with a gap in the ids and an id     *)
(* beyond PERCPUS, and beyond the list when that processor boots            *)
TwoLists == {<<1, 0>>, <<3, 0>>}
=============================================================================
