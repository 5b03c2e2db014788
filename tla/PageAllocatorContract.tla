----------------------- MODULE PageAllocatorContract -----------------------
(***************************************************************************)
(* What the PageAllocator trait (src/src/memory/virt.rs) promises its      *)
(* callers, without lock, bitmap or page table: an allocation is a run of  *)
(* pages, each backed by a frame of its own, that overlaps no allocation   *)
(* still held, and that stays as it is until it is given back.             *)
(***************************************************************************)
EXTENDS Integers, Functions

VARIABLE owned  \* the allocations callers hold: [first, amount, frame]

PagesOf(a) == a.first .. a.first + a.amount - 1

Overlap(a, b) ==
  \/ PagesOf(a) \cap PagesOf(b) # {}
  \/ Range(a.frame) \cap Range(b.frame) # {}

Init == owned = {}

Grant ==
  \E a \in owned' :
    /\ a \notin owned
    /\ a.amount > 0
    /\ a.frame \in Injection(PagesOf(a), Range(a.frame))
    /\ \A b \in owned : ~ Overlap(a, b)
    /\ owned' = owned \cup {a}

Release == \E a \in owned : owned' = owned \ {a}

Next == Grant \/ Release

Spec == Init /\ [][Next]_owned
=============================================================================
