--------------------------- MODULE HeapAllocator ---------------------------
(***************************************************************************)
(* The two layers above the page allocator that turn sizes and addresses   *)
(* into pages and back: the global allocator (src/src/memory/allocator.rs) *)
(* and the ACPI table handler (src/src/acpi.rs).  Below them is not the    *)
(* page allocator itself but its contract, which PageAllocator implements. *)
(*                                                                         *)
(* Addresses are byte addresses; page p is the bytes p * PAGE_SIZE up to   *)
(* (p + 1) * PAGE_SIZE - 1.  A null result changes nothing and is left out. *)
(***************************************************************************)
EXTENDS Integers, FiniteSets

CONSTANTS
  PAGE_SIZE,    \* bytes in a page (4096)
  Layouts,      \* layouts asked of the global allocator: [size, align]
  Regions,      \* tables the acpi crate maps: [addr, size, align]
  FirstPages,   \* pages an allocation may start at
  MaxLive       \* bound: allocations held at a time

(* No layout in the kernel is aligned to more than a page, and alignments  *)
(* are powers of two, so they divide it.  A table is where its type may be. *)
HeapConstants ==
  /\ PAGE_SIZE \in Nat \ {0} /\ FirstPages \subseteq Nat
  /\ \A l \in Layouts \cup Regions :
       l.size \in Nat \ {0} /\ l.align \in Nat \ {0} /\ PAGE_SIZE % l.align = 0
  /\ \A r \in Regions : r.addr \in Nat /\ r.addr % r.align = 0

VARIABLES
  owned,      \* page allocations held, as in PageAllocatorContract
  blocks,     \* blocks the global allocator gave out: [ptr, size, align]
  mappings,   \* PhysicalMappings of the acpi crate
  panicked    \* an expect failed

vars == <<owned, blocks, mappings, panicked>>

Trait == INSTANCE PageAllocatorContract

Init == owned = {} /\ blocks = {} /\ mappings = {} /\ panicked = FALSE

(* Mutant: the page that makes up for the rounding is missing. *)
page_amount_short(size, align) == (size + (PAGE_SIZE % align)) \div PAGE_SIZE

(* The pages both layers ask for. *)
page_amount(size, align) == (size + (PAGE_SIZE % align)) \div PAGE_SIZE + 1

next_multiple_of(x, align) == ((x + align - 1) \div align) * align

CanAsk == ~ panicked /\ Cardinality(owned) < MaxLive

(* An allocation of n pages from `first` on, backed by frames `base` on. *)
Allocation(first, n, base) ==
  [first |-> first, amount |-> n, frame |-> [p \in first .. first + n - 1 |-> base + p - first]]

Granted(a) == owned' = owned \cup {a} /\ Trait!Grant

(* dealloc_pages gives back the allocation with this first page and amount. *)
GiveBack(first, n) ==
  \E a \in owned : a.first = first /\ a.amount = n /\ owned' = owned \ {a}

-----------------------------------------------------------------------------
(* Frames of RAM are numbered apart from those of the tables. *)
RamFrame(page) == 1000 + page

alloc(layout) ==
  /\ CanAsk
  /\ \E first \in FirstPages :
       /\ Granted(Allocation(first, page_amount(layout.size, layout.align), RamFrame(first)))
       /\ blocks' = blocks \cup {[ptr |-> next_multiple_of(first * PAGE_SIZE, layout.align),
                                  size |-> layout.size, align |-> layout.align]}
  /\ UNCHANGED <<mappings, panicked>>

(* Page::from(VirtAddr) divides; the amount is computed again from the layout. *)
DeallocFirst(b) == b.ptr \div PAGE_SIZE
(* Mutant: dealloc rounds up instead of adding a page. *)
DeallocAmount_rounded(b) == (b.size + PAGE_SIZE - 1) \div PAGE_SIZE

DeallocAmount(b) == page_amount(b.size, b.align)

dealloc(b) ==
  /\ ~ panicked
  /\ GiveBack(DeallocFirst(b), DeallocAmount(b))
  /\ blocks' = blocks \ {b}
  /\ UNCHANGED <<mappings, panicked>>

-----------------------------------------------------------------------------
(* Mutant: an address in the middle of a page gets no additional page. *)
MapPages_short(r) == page_amount(r.size, r.align)

(* map_physical rounds the address down and adds a page if it was not aligned. *)
MapPages(r) == page_amount(r.size, r.align) + (IF r.addr % PAGE_SIZE = 0 THEN 0 ELSE 1)
MapFrames(r) == r.addr \div PAGE_SIZE .. r.addr \div PAGE_SIZE + MapPages(r) - 1

(* alloc_phy_addr finds one of the frames taken. *)
FramesTaken(r) == \E a \in owned : \E p \in DOMAIN a.frame : a.frame[p] \in MapFrames(r)

map_physical_region(r) ==
  /\ CanAsk /\ ~ FramesTaken(r)
  /\ \E first \in FirstPages :
       /\ Granted(Allocation(first, MapPages(r), r.addr \div PAGE_SIZE))
       /\ mappings' = mappings \cup
            {[physical_start |-> r.addr,
              virtual_start |-> next_multiple_of(first * PAGE_SIZE + (r.addr % PAGE_SIZE), r.align),
              region_length |-> r.size,
              mapped_length |-> MapPages(r) * PAGE_SIZE]}
  /\ UNCHANGED <<blocks, panicked>>

(* No run of pages is free for the table. *)
NoRoom(r) ==
  \A first \in FirstPages : \E a \in owned :
    (first .. first + MapPages(r) - 1) \cap Trait!PagesOf(a) # {}

(* The expect on a None of map_physical. *)
map_physical_region_panic(r) ==
  /\ CanAsk /\ (FramesTaken(r) \/ NoRoom(r))
  /\ panicked' = TRUE
  /\ UNCHANGED <<owned, blocks, mappings>>

UnmapFirst(m) == m.virtual_start \div PAGE_SIZE
UnmapAmount(m) == m.mapped_length \div PAGE_SIZE

unmap_physical_region(m) ==
  /\ ~ panicked
  /\ GiveBack(UnmapFirst(m), UnmapAmount(m))
  /\ mappings' = mappings \ {m}
  /\ UNCHANGED <<blocks, panicked>>

Next ==
  \/ \E l \in Layouts : alloc(l)
  \/ \E b \in blocks : dealloc(b)
  \/ \E r \in Regions : map_physical_region(r) \/ map_physical_region_panic(r)
  \/ \E m \in mappings : unmap_physical_region(m)

Spec == Init /\ [][Next]_vars

-----------------------------------------------------------------------------
Bytes(start, size) == start .. start + size - 1

(* Every block and every mapping will give back an allocation that is held, *)
(* and no two the same: dealloc_pages is called as the page allocator       *)
(* assumes, once for each allocation, with the pages it returned.           *)
GivesBackOwned ==
  /\ \A b \in blocks : \E a \in owned : a.first = DeallocFirst(b) /\ a.amount = DeallocAmount(b)
  /\ \A m \in mappings : \E a \in owned : a.first = UnmapFirst(m) /\ a.amount = UnmapAmount(m)
  /\ Cardinality(owned) = Cardinality(blocks) + Cardinality(mappings)

(* The bytes of a block lie in the pages allocated for it: page_amount is  *)
(* enough for every size and alignment, sizes of whole pages included.  No *)
(* byte belongs to two blocks, or to a block and a mapping.                *)
BlocksBacked ==
  /\ \A b \in blocks : \E a \in owned :
       /\ a.first = DeallocFirst(b)
       /\ Bytes(b.ptr, b.size) \subseteq Bytes(a.first * PAGE_SIZE, a.amount * PAGE_SIZE)
  /\ \A b, d \in blocks : b # d => Bytes(b.ptr, b.size) \cap Bytes(d.ptr, d.size) = {}
  /\ \A b \in blocks, m \in mappings :
       Bytes(b.ptr, b.size) \cap Bytes(m.virtual_start, m.region_length) = {}

(* Byte k of a mapped table is byte k of the physical table, up to its     *)
(* last byte, wherever in its page the table starts.                       *)
MappingsExact ==
  \A m \in mappings : \E a \in owned : \A k \in 0 .. m.region_length - 1 :
    LET v == m.virtual_start + k IN
    /\ v \div PAGE_SIZE \in DOMAIN a.frame
    /\ a.frame[v \div PAGE_SIZE] * PAGE_SIZE + (v % PAGE_SIZE) = m.physical_start + k
=============================================================================
