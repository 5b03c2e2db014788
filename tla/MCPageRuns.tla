----------------------------- MODULE MCPageRuns -----------------------------
(***************************************************************************)
(* PageRuns, with tables of two entries (16 pages).  A memory is given     *)
(* by the set P of 4 KiB pages present in it and the set H of level-2      *)
(* entries that are huge pages: it has just the tables these need, in      *)
(* frames 1 (root), 2..3 (level 3), 4..7 (level 2) and 8..15 (level 1).    *)
(***************************************************************************)
EXTENDS PageRuns

CONSTANTS Loose, Fixed, Huge   \* pages that may and that must be present; huge entries

HugeEntry == [present |-> TRUE, huge |-> TRUE, addr |-> 100]
Or(b, e) == IF b THEN e ELSE ClearEntry

(* The tables by level and position: table k of level l covers the pages   *)
(* p with p \div 2^l = k.                                                  *)
Below(P, H, l, k) == {p \in P \cup UNION {{2 * h, 2 * h + 1} : h \in H} : p \div 2 ^ l = k}

Frame(l, k) == 2 ^ (4 - l) + k

TableAt(P, H, l, k) ==
  [level |-> l,
   entries |-> [i \in 0 .. 1 |->
     LET child == 2 * k + i IN
     CASE l = 1 -> Or(child \in P, PresentEntry(200 + child))
       [] l = 2 /\ child \in H -> HugeEntry
       [] OTHER -> Or(Below(P, H, l - 1, child) # {}, PresentEntry(Frame(l - 1, child)))]]

MemoryOf(P, H) ==
  LET Positions == {lk \in (1 .. 4) \X (0 .. 7) :
                      /\ lk[2] < 2 ^ (4 - lk[1])
                      /\ lk[1] = 4 \/ Below(P, H, lk[1], lk[2]) # {}
                      /\ ~ (lk[1] = 1 /\ lk[2] \in H)}
      At(f) == CHOOSE lk \in Positions : Frame(lk[1], lk[2]) = f
  IN  [f \in {Frame(lk[1], lk[2]) : lk \in Positions} |-> TableAt(P, H, At(f)[1], At(f)[2])]

MCMemories == {MemoryOf(P \cup Fixed, Huge) : P \in SUBSET Loose}
MCBootTables == MemoryOf({}, {})
MCStarts == 0 .. 15

MCLayouts == [size : {1, 3, 4, 5, 8}, align : {1, 2, 4}]

(* At the start, in the middle and at the end of a page; two tables that   *)
(* share a page; one that spans three pages.                               *)
MCRegions ==
  {[addr |-> 8, size |-> 4, align |-> 4],
   [addr |-> 10, size |-> 3, align |-> 2],
   [addr |-> 23, size |-> 6, align |-> 1]}
=============================================================================
