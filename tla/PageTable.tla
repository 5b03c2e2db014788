----------------------------- MODULE PageTable -----------------------------
(***************************************************************************)
(* The four-level page table (src/src/memory/paging.rs).                   *)
(*                                                                         *)
(* `mem` is physical memory as the page tables in it: a function from the  *)
(* frames that hold a table to its entries (and, for the record, the level *)
(* it was made for).  Any other frame holds data; read as a table it is    *)
(* garbage whose entries look present.  A Page is its number; an entry     *)
(* keeps the PRESENT and HUGE_PAGE bits and the frame of its address (the  *)
(* other flags are never tested).                                          *)
(***************************************************************************)
EXTENDS PhysicalAllocator

CONSTANTS
  PAGE_TABLE_ENTRY_NUM,  \* entries per table (512 in the kernel)
  ROOT,                  \* the frame cr3 points at
  BootTables,            \* the page tables the bootloader left
  BootFrames             \* their frames, and those they map as 4 KiB pages

E == PAGE_TABLE_ENTRY_NUM
Idx == 0 .. E - 1
MAX_PAGE_CANONICAL_NUM == E * E * E * E
Page == 0 .. MAX_PAGE_CANONICAL_NUM - 1

Entry == [present : BOOLEAN, huge : BOOLEAN, addr : Nat]
Table == [level : 1 .. 4, entries : [Idx -> Entry]]

ClearEntry == [present |-> FALSE, huge |-> FALSE, addr |-> NullFrame]
PresentEntry(frame) == [present |-> TRUE, huge |-> FALSE, addr |-> frame]

IsMemory(mem) ==
  /\ mem = [f \in DOMAIN mem |-> mem[f]]
  /\ DOMAIN mem \subseteq Nat
  /\ \A f \in DOMAIN mem : mem[f] \in Table

(* Entry i of the table in frame f refers to a table or a 4 KiB page. *)
Refers(mem, f, i) == mem[f].entries[i].present /\ ~ mem[f].entries[i].huge

(* The tables below the root have the level their position asks for, and   *)
(* huge pages are 2 MiB ones.                                              *)
WellLevelled(mem) ==
  /\ ROOT \in DOMAIN mem /\ mem[ROOT].level = 4
  /\ \A f \in DOMAIN mem, i \in Idx :
       /\ mem[f].entries[i].huge => mem[f].level = 2
       /\ Refers(mem, f, i) /\ mem[f].level > 1 =>
            /\ mem[f].entries[i].addr \in DOMAIN mem
            /\ mem[mem[f].entries[i].addr].level = mem[f].level - 1

(* An entry that is not present is zero. *)
AbsentClear(mem) ==
  \A f \in DOMAIN mem, i \in Idx :
    ~ mem[f].entries[i].present => mem[f].entries[i] = ClearEntry

(* No two entries lead to the same table. *)
OneParent(mem) ==
  \A f, g \in DOMAIN mem, i, j \in Idx :
    /\ Refers(mem, f, i) /\ mem[f].level > 1
    /\ Refers(mem, g, j) /\ mem[g].level > 1
    /\ mem[f].entries[i].addr = mem[g].entries[j].addr
    => f = g /\ i = j

(* The frames that only the bitmap speaks for. *)
OwnFrames == Managed \ BootFrames

(* What the bootloader guarantees: its tables are a tree, well formed and  *)
(* zero where they map nothing, and they and the 4 KiB pages they map lie in    *)
(* memory it does not report as usable (only the huge pages of the direct  *)
(* map cover usable memory).                                               *)
ASSUME PageTableAssumption ==
  /\ E \in Nat \ {0, 1}
  /\ IsMemory(BootTables)
  /\ WellLevelled(BootTables)
  /\ OneParent(BootTables)
  /\ AbsentClear(BootTables)
  /\ DOMAIN BootTables \subseteq BootFrames
  /\ \A f \in DOMAIN BootTables, i \in Idx :
       Refers(BootTables, f, i) => BootTables[f].entries[i].addr \in BootFrames
  /\ BootFrames \cap UsableFrames = {}

(* Page::canonical_num masks the page number to the bits a walk uses. *)
canonical_num(page) == page % MAX_PAGE_CANONICAL_NUM
level4_idx(page) == canonical_num(page) \div (E * E * E)
level3_idx(page) == (canonical_num(page) \div (E * E)) % E
level2_idx(page) == (canonical_num(page) \div E) % E
level1_idx(page) == canonical_num(page) % E

(* Page::next_by returns None when the canonical number would overflow. *)
has_next_by(page, n) == canonical_num(page) + n < MAX_PAGE_CANONICAL_NUM

(* Physical memory read and written as a page table through the direct map. *)
EntryAt(mem, f, i) ==
  IF f \in DOMAIN mem THEN mem[f].entries[i] ELSE PresentEntry(ROOT)

write_entry(mem, f, i, e) ==
  IF f \in DOMAIN mem THEN [mem EXCEPT ![f].entries[i] = e] ELSE mem

(* Mutant: the loop clears one entry too many. *)
clear_all_entries_past_end(mem, f, level) ==
  [g \in DOMAIN mem \cup {f} |->
     IF g = f THEN [level |-> level, entries |-> [i \in 0 .. E |-> ClearEntry]]
     ELSE mem[g]]

clear_all_entries(mem, f, level) ==
  [g \in DOMAIN mem \cup {f} |->
     IF g = f THEN [level |-> level, entries |-> [i \in Idx |-> ClearEntry]]
     ELSE mem[g]]

(* The entry each level of the walk looks at. *)
Entry4(mem, page) == EntryAt(mem, ROOT, level4_idx(page))
Entry3(mem, page) == EntryAt(mem, Entry4(mem, page).addr, level3_idx(page))
Entry2(mem, page) == EntryAt(mem, Entry3(mem, page).addr, level2_idx(page))
Entry1(mem, page) == EntryAt(mem, Entry2(mem, page).addr, level1_idx(page))

(* is_present, with the page_entry walk it does: HUGE_PAGE is looked at in *)
(* the level-2 entry only, before that entry's PRESENT bit.                *)
is_present(mem, page) ==
  /\ Entry4(mem, page).present
  /\ Entry3(mem, page).present
  /\ \/ Entry2(mem, page).huge
     \/ Entry2(mem, page).present /\ Entry1(mem, page).present

(* page_entry_mut finds a level-1 entry (it ignores HUGE_PAGE, and does not *)
(* ask whether the level-1 entry itself is present).                        *)
has_page_entry_mut(mem, page) ==
  Entry4(mem, page).present /\ Entry3(mem, page).present /\ Entry2(mem, page).present

(* Mutant: dealloc_pages forgets to clear the entry. *)
clear_page_entry_kept(mem, page) == mem

(* Mutant: the entry cleared is the one that refers to the level-1 table. *)
clear_page_entry_table(mem, page) ==
  write_entry(mem, Entry3(mem, page).addr, level2_idx(page), ClearEntry)

(* PageTableEntry::clear on the entry page_entry_mut returned. *)
clear_page_entry(mem, page) ==
  write_entry(mem, Entry2(mem, page).addr, level1_idx(page), ClearEntry)

(* Mutant: a new table is made whether or not there is one. *)
ensure_table_always(st, f, i, level) ==
  LET new == allocated_frame(st.bitmap) IN
  [bitmap |-> bitmap_after_allocate(st.bitmap),
   mem |-> clear_all_entries(write_entry(st.mem, f, i, PresentEntry(new)), new, level)]

(* One `if !entry.present()` block of map_page_unchecked: allocate a frame, *)
(* store it in entry i of table f, and clear the new table.                 *)
ensure_table(st, f, i, level) ==
  IF EntryAt(st.mem, f, i).present THEN st
  ELSE LET new == allocated_frame(st.bitmap) IN
       [bitmap |-> bitmap_after_allocate(st.bitmap),
        mem |-> clear_all_entries(write_entry(st.mem, f, i, PresentEntry(new)), new, level)]

(* map_page_unchecked: make the three lower tables exist, then write the   *)
(* level-1 entry whatever it held.                                         *)
map_page_unchecked(st, page, frame) ==
  LET st4 == ensure_table(st, ROOT, level4_idx(page), 3)
      f3  == EntryAt(st4.mem, ROOT, level4_idx(page)).addr
      st3 == ensure_table(st4, f3, level3_idx(page), 2)
      f2  == EntryAt(st3.mem, f3, level3_idx(page)).addr
      st2 == ensure_table(st3, f2, level2_idx(page), 1)
      f1  == EntryAt(st2.mem, f2, level2_idx(page)).addr
  IN  [bitmap |-> st2.bitmap,
       mem |-> write_entry(st2.mem, f1, level1_idx(page), PresentEntry(frame))]

(* The last pages of the runs of n free pages that start at `start` or later. *)
FreeRunEnds(mem, start, n) ==
  {e \in start + n - 1 .. MAX_PAGE_CANONICAL_NUM - 1 :
     \A p \in e - n + 1 .. e : ~ is_present(mem, p)}

(* find_free_pages: the first such run, or None.  The loop of the source   *)
(* is in module FindFreePages, which shows that it computes this.          *)
found_free_pages(mem, start, n) == FreeRunEnds(mem, start, n) # {}
free_pages_end(mem, start, n) == Min(FreeRunEnds(mem, start, n))
=============================================================================
