--------------------------- MODULE FindFreePages ---------------------------
(***************************************************************************)
(* PageTable::find_free_pages (src/src/memory/paging.rs), the linear       *)
(* search for a run of free pages, one iteration of its loop at a time.    *)
(* PageAllocator takes its result from found_free_pages and free_pages_end *)
(* of PageTable; this module shows that the loop returns just that.        *)
(***************************************************************************)
EXTENDS PageTable

CONSTANTS
  Memories,   \* page tables to search
  Starts,     \* values of start_page
  NumPages    \* values of num_pages

ASSUME SearchAssumption ==
  /\ \A m \in Memories : IsMemory(m)
  /\ Starts \subseteq Page
  /\ NumPages \subseteq Nat \ {0}

VARIABLES
  mem, start_page, num_pages,          \* the arguments
  first_page, free_page_count, page,   \* the locals
  returned                             \* the function has returned

vars == <<mem, start_page, num_pages, first_page, free_page_count, page, returned>>

Init ==
  /\ mem \in Memories /\ start_page \in Starts /\ num_pages \in NumPages
  /\ first_page = start_page
  /\ free_page_count = IF is_present(mem, start_page) THEN 0 ELSE 1
  /\ page = start_page
  /\ returned = FALSE

(* The condition of the while loop. *)
Searching == free_page_count < num_pages /\ has_next_by(page, 1)

(* Mutant: the search does not move on. *)
next_page_free_stuck ==
  /\ ~ returned /\ Searching
  /\ ~ is_present(mem, page + 1)
  /\ first_page' = page + 1
  /\ UNCHANGED <<mem, start_page, num_pages, free_page_count, page, returned>>

next_page_free ==
  /\ ~ returned /\ Searching
  /\ ~ is_present(mem, page + 1)
  /\ first_page' = IF free_page_count = 0 THEN page + 1 ELSE first_page
  /\ free_page_count' = free_page_count + 1
  /\ page' = page + 1
  /\ UNCHANGED <<mem, start_page, num_pages, returned>>

(* Mutant: the count is not reset at a present page. *)
next_page_present_counting ==
  /\ ~ returned /\ Searching
  /\ is_present(mem, page + 1)
  /\ page' = page + 1
  /\ UNCHANGED <<mem, start_page, num_pages, first_page, free_page_count, returned>>

next_page_present ==
  /\ ~ returned /\ Searching
  /\ is_present(mem, page + 1)
  /\ free_page_count' = 0
  /\ page' = page + 1
  /\ UNCHANGED <<mem, start_page, num_pages, first_page, returned>>

return ==
  /\ ~ returned /\ ~ Searching
  /\ returned' = TRUE
  /\ UNCHANGED <<mem, start_page, num_pages, first_page, free_page_count, page>>

Next == next_page_free \/ next_page_present \/ return

Spec == Init /\ [][Next]_vars

(* `Some(PageIter { start: first_page, end: page })` was returned. *)
ReturnedSome == returned /\ free_page_count = num_pages

-----------------------------------------------------------------------------
(* find_free_pages returns None only if there is no run of num_pages free  *)
(* pages from start_page on; else it returns the first one, all of it and  *)
(* nothing else.                                                           *)
ReturnsFirstRun ==
  returned =>
    /\ ReturnedSome <=> found_free_pages(mem, start_page, num_pages)
    /\ ReturnedSome => /\ page = free_pages_end(mem, start_page, num_pages)
                       /\ first_page = page - num_pages + 1
=============================================================================
