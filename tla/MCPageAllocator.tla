-------------------------- MODULE MCPageAllocator --------------------------
(***************************************************************************)
(* PageAllocator on a machine with tables of two entries: 16 pages, of     *)
(* which 0..7 are the lower half.  The bootloader's tables are three:      *)
(* the root, and the two that map half of the higher half (pages 8..11,    *)
(* the direct map) with huge pages.                                        *)
(***************************************************************************)
EXTENDS PageAllocator

CONSTANTS L3Boot, L2Boot

HugeEntry(f) == [present |-> TRUE, huge |-> TRUE, addr |-> f]

MCTable(l, e0, e1) == [level |-> l, entries |-> [i \in 0 .. 1 |-> IF i = 0 THEN e0 ELSE e1]]

MCBootTables ==
  [f \in {ROOT, L3Boot, L2Boot} |->
     CASE f = ROOT   -> MCTable(4, ClearEntry, PresentEntry(L3Boot))
       [] f = L3Boot -> MCTable(3, PresentEntry(L2Boot), ClearEntry)
       [] f = L2Boot -> MCTable(2, HugeEntry(OFFSET), HugeEntry(OFFSET + 1))]
=============================================================================
