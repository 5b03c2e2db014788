--------------------------- MODULE PageAllocator ---------------------------
(***************************************************************************)
(* BasicPageAllocator (src/src/memory/virt.rs) used by several CPUs: its   *)
(* spin lock, the search for free pages, and alloc_pages, dealloc_pages    *)
(* and map_physical one loop iteration at a time, over the bitmap of       *)
(* PhysicalAllocator and the memory of PageTable.                          *)
(*                                                                         *)
(* A panic never returns and drops no guard: a CPU that panics inside the  *)
(* critical section keeps the lock for ever.                               *)
(***************************************************************************)
EXTENDS PageTable, FiniteSets

CONSTANTS
  CPU,            \* the CPUs that run kernel code
  NoCPU,          \* the value of a lock nobody holds
  Amounts,        \* page amounts the callers ask for
  DeviceFrames,   \* frames (ACPI tables, MMIO) the callers map
  MaxLive,        \* bound: no new request while callers hold this many allocations
  MaxCursor,      \* bound: nor once the search starts past this page
  TlbSize         \* bound: translations one CPU caches at a time

(* Every caller asks for at least one page: Allocator::alloc and the ACPI  *)
(* handler add one to a quotient, the device drivers pass 1.               *)
ASSUME AllocatorAssumption ==
  /\ NoCPU \notin CPU
  /\ Amounts \subseteq Nat \ {0}
  /\ DeviceFrames \subseteq Nat
  /\ MaxLive \in Nat /\ MaxCursor \in Nat /\ TlbSize \in Nat

VARIABLES
  bitmap,            \* inner.physical_allocator.bitmap
  last_page_alloc,   \* inner.last_page_alloc
  mem,               \* physical memory, read as page tables
  lock,              \* inner: the CPU holding the spin lock, or NoCPU
  pc,                \* what each CPU is executing
  req,               \* the arguments and the page iterator of that call
  allocs,            \* PageAllocations returned to callers and not given back
  tlb                \* translations cached by each CPU

vars == <<bitmap, last_page_alloc, mem, lock, pc, req, allocs, tlb>>

(* A call: the first page and the amount, `next` the start of the PageIter, *)
(* `phy` the frame of map_physical, `unaligned` whether its address is one. *)
Request == [first : Nat, amount : Nat, next : Nat, phy : Nat, unaligned : BOOLEAN]
NoRequest == [first |-> 0, amount |-> 0, next |-> 0, phy |-> 0, unaligned |-> FALSE]
PageAllocation == [first : Nat, amount : Nat \ {0}]
Translation == [page : Page, frame : Nat]

Waiting == {"alloc_pages", "dealloc_pages", "map_physical"}
Looping == {"allocating", "freeing", "mapping"}

TypeOK ==
  /\ bitmap \subseteq BitIndex
  /\ last_page_alloc \in Page
  /\ IsMemory(mem)
  /\ lock \in CPU \cup {NoCPU}
  /\ pc \in [CPU -> {"idle", "panic"} \cup Waiting \cup Looping]
  /\ req \in [CPU -> Request]
  /\ allocs \subseteq PageAllocation
  /\ tlb \in [CPU -> SUBSET Translation]

(* BasicPageAllocator::new_const, after virt::init configured the region. *)
Init ==
  /\ bitmap = {}
  /\ last_page_alloc = 1
  /\ mem = BootTables
  /\ lock = NoCPU
  /\ pc = [c \in CPU |-> "idle"]
  /\ req = [c \in CPU |-> NoRequest]
  /\ allocs = {}
  /\ tlb = [c \in CPU |-> {}]

-----------------------------------------------------------------------------
(* Steps shared by the three operations. *)

LastPage(r) == r.first + r.amount - 1

AllocatedPages(a) == a.first .. a.first + a.amount - 1

(* PageIter::next: nothing after the last page; the unwrap on start.next() *)
(* panics on the last page of the address space.                           *)
IterDone(c) == req[c].next > LastPage(req[c])
iter_next_panics(c) == ~ has_next_by(req[c].next, 1)

(* Mutant: the translation is not invalidated. *)
invlpg_missing(c, page) == tlb

(* invlpg on the CPU that executes it. *)
invlpg(c, page) == [tlb EXCEPT ![c] = {t \in @ : t.page # page}]

Panic(c) == pc' = [pc EXCEPT ![c] = "panic"]

Call(c, operation, r) ==
  /\ pc[c] = "idle"
  /\ pc' = [pc EXCEPT ![c] = operation]
  /\ req' = [req EXCEPT ![c] = r]

(* Return without a result, the lock free again. *)
ReturnNone(c) ==
  /\ pc' = [pc EXCEPT ![c] = "idle"]
  /\ req' = [req EXCEPT ![c] = NoRequest]
  /\ UNCHANGED lock

(* Mutant: the guard is leaked. *)
Unlock_forgotten(c) ==
  /\ pc' = [pc EXCEPT ![c] = "idle"]
  /\ req' = [req EXCEPT ![c] = NoRequest]
  /\ UNCHANGED lock

Unlock(c) ==
  /\ lock' = NoCPU
  /\ pc' = [pc EXCEPT ![c] = "idle"]
  /\ req' = [req EXCEPT ![c] = NoRequest]

(* Mutant: the operation runs without waiting for the lock. *)
CanLock_unguarded(c, operation) == pc[c] = operation

CanLock(c, operation) == pc[c] = operation /\ lock = NoCPU

Advance(c) == req' = [req EXCEPT ![c].next = @ + 1]

-----------------------------------------------------------------------------
(* alloc_pages *)

WithinBounds == Cardinality(allocs) < MaxLive /\ last_page_alloc <= MaxCursor

alloc_pages_call(c, n) ==
  /\ WithinBounds
  /\ Call(c, "alloc_pages", [NoRequest EXCEPT !.amount = n])
  /\ UNCHANGED <<bitmap, last_page_alloc, mem, lock, allocs, tlb>>

alloc_pages_none(c) ==
  /\ CanLock(c, "alloc_pages")
  /\ ~ found_free_pages(mem, last_page_alloc, req[c].amount)
  /\ ReturnNone(c)
  /\ UNCHANGED <<bitmap, last_page_alloc, mem, allocs, tlb>>

alloc_pages_lock(c) ==
  LET n == req[c].amount
      end == free_pages_end(mem, last_page_alloc, n)
  IN  /\ CanLock(c, "alloc_pages")
      /\ found_free_pages(mem, last_page_alloc, n)
      /\ lock' = c
      /\ last_page_alloc' = end
      /\ pc' = [pc EXCEPT ![c] = "allocating"]
      /\ req' = [req EXCEPT ![c].first = end - n + 1, ![c].next = end - n + 1]
      /\ UNCHANGED <<bitmap, mem, allocs, tlb>>

alloc_pages_step(c) ==
  /\ pc[c] = "allocating" /\ ~ IterDone(c)
  /\ ~ iter_next_panics(c)
  /\ LET st == map_page_unchecked(
                 [bitmap |-> bitmap_after_allocate(bitmap), mem |-> mem],
                 req[c].next, allocated_frame(bitmap))
     IN bitmap' = st.bitmap /\ mem' = st.mem
  /\ tlb' = invlpg(c, req[c].next)
  /\ Advance(c)
  /\ UNCHANGED <<last_page_alloc, lock, pc, allocs>>

alloc_pages_return(c) ==
  /\ pc[c] = "allocating" /\ IterDone(c)
  /\ Unlock(c)
  /\ allocs' = allocs \cup {[first |-> req[c].first, amount |-> req[c].amount]}
  /\ UNCHANGED <<bitmap, last_page_alloc, mem, tlb>>

-----------------------------------------------------------------------------
(* dealloc_pages: the caller gives back an allocation it holds. *)

dealloc_pages_call(c, a) ==
  /\ Call(c, IF has_next_by(a.first, a.amount - 1) THEN "dealloc_pages" ELSE "panic",
          [NoRequest EXCEPT !.first = a.first, !.amount = a.amount, !.next = a.first])
  /\ allocs' = allocs \ {a}
  /\ UNCHANGED <<bitmap, last_page_alloc, mem, lock, tlb>>

dealloc_pages_lock(c) ==
  /\ CanLock(c, "dealloc_pages")
  /\ lock' = c
  /\ pc' = [pc EXCEPT ![c] = "freeing"]
  /\ UNCHANGED <<bitmap, last_page_alloc, mem, req, allocs, tlb>>

(* page_entry_mut(page).unwrap() and the assertions of free_frame. *)
free_page_panics(page) ==
  \/ ~ has_page_entry_mut(mem, page)
  \/ free_frame_panics(bitmap, Entry1(mem, page).addr)

dealloc_pages_step(c) ==
  LET page == req[c].next IN
  /\ pc[c] = "freeing" /\ ~ IterDone(c)
  /\ ~ iter_next_panics(c) /\ ~ free_page_panics(page)
  /\ bitmap' = bitmap_after_free(bitmap, Entry1(mem, page).addr)
  /\ mem' = clear_page_entry(mem, page)
  /\ tlb' = invlpg(c, page)
  /\ Advance(c)
  /\ UNCHANGED <<last_page_alloc, lock, pc, allocs>>

dealloc_pages_panic(c) ==
  /\ pc[c] = "freeing" /\ ~ IterDone(c)
  /\ iter_next_panics(c) \/ free_page_panics(req[c].next)
  /\ Panic(c)
  /\ UNCHANGED <<bitmap, last_page_alloc, mem, lock, req, allocs, tlb>>

dealloc_pages_return(c) ==
  /\ pc[c] = "freeing" /\ IterDone(c)
  /\ Unlock(c)
  /\ UNCHANGED <<bitmap, last_page_alloc, mem, allocs, tlb>>

-----------------------------------------------------------------------------
(* map_physical: its address is frame `f`, plus an offset if `unaligned`. *)

map_physical_call(c, f, unaligned, n) ==
  /\ WithinBounds
  /\ Call(c, "map_physical",
          [NoRequest EXCEPT !.amount = n, !.phy = f, !.unaligned = unaligned])
  /\ UNCHANGED <<bitmap, last_page_alloc, mem, lock, allocs, tlb>>

(* page_amount + add_page: an unaligned address spills into one more page. *)
MapAmount(r) == r.amount + (IF r.unaligned THEN 1 ELSE 0)

map_physical_panic(c) ==
  /\ CanLock(c, "map_physical")
  /\ alloc_phy_addr_panics(bitmap, req[c].phy, MapAmount(req[c]))
  /\ lock' = c
  /\ Panic(c)
  /\ UNCHANGED <<bitmap, last_page_alloc, mem, req, allocs, tlb>>

map_physical_taken(c) ==
  /\ CanLock(c, "map_physical")
  /\ ~ alloc_phy_addr_panics(bitmap, req[c].phy, MapAmount(req[c]))
  /\ alloc_phy_addr_taken(bitmap, req[c].phy, MapAmount(req[c]))
  /\ ReturnNone(c)
  /\ UNCHANGED <<bitmap, last_page_alloc, mem, allocs, tlb>>

(* alloc_phy_addr takes the frames. *)
MapReserves(c) ==
  /\ CanLock(c, "map_physical")
  /\ ~ alloc_phy_addr_panics(bitmap, req[c].phy, MapAmount(req[c]))
  /\ ~ alloc_phy_addr_taken(bitmap, req[c].phy, MapAmount(req[c]))

(* Mutant: map_physical returns None with the frames still marked. *)
bitmap_after_release_kept(bits, f, n) == bits

(* The loop that gives the frames back when no run of pages is free. *)
bitmap_after_release(bits, f, n) == bits \ PhyIndices(f, n)

map_physical_none(c) ==
  LET n == MapAmount(req[c])
      f == req[c].phy
  IN  /\ MapReserves(c)
      /\ ~ found_free_pages(mem, last_page_alloc, n)
      /\ bitmap' = bitmap_after_release(bitmap_after_alloc_phy(bitmap, f, n), f, n)
      /\ ReturnNone(c)
      /\ UNCHANGED <<last_page_alloc, mem, allocs, tlb>>

(* last_page_alloc stays: the next search starts before these pages. *)
map_physical_lock(c) ==
  LET n == MapAmount(req[c])
      end == free_pages_end(mem, last_page_alloc, n)
  IN  /\ MapReserves(c)
      /\ found_free_pages(mem, last_page_alloc, n)
      /\ lock' = c
      /\ bitmap' = bitmap_after_alloc_phy(bitmap, req[c].phy, n)
      /\ pc' = [pc EXCEPT ![c] = "mapping"]
      /\ req' = [req EXCEPT ![c] = [@ EXCEPT !.first = end - n + 1, !.amount = n,
                                             !.next = end - n + 1, !.unaligned = FALSE]]
      /\ UNCHANGED <<last_page_alloc, mem, allocs, tlb>>

(* No invlpg here.  The zeroing of the local APIC page is a data write. *)
map_physical_step(c) ==
  /\ pc[c] = "mapping" /\ ~ IterDone(c)
  /\ ~ iter_next_panics(c)
  /\ LET st == map_page_unchecked([bitmap |-> bitmap, mem |-> mem],
                                  req[c].next, req[c].phy)
     IN bitmap' = st.bitmap /\ mem' = st.mem
  /\ req' = [req EXCEPT ![c].next = @ + 1, ![c].phy = @ + 1]
  /\ UNCHANGED <<last_page_alloc, lock, pc, allocs, tlb>>

map_physical_return(c) ==
  /\ pc[c] = "mapping" /\ IterDone(c)
  /\ Unlock(c)
  /\ allocs' = allocs \cup {[first |-> req[c].first, amount |-> req[c].amount]}
  /\ UNCHANGED <<bitmap, last_page_alloc, mem, tlb>>

(* The loops of alloc_pages and map_physical reach the last page. *)
map_loop_panic(c) ==
  /\ pc[c] \in {"allocating", "mapping"} /\ ~ IterDone(c)
  /\ iter_next_panics(c)
  /\ Panic(c)
  /\ UNCHANGED <<bitmap, last_page_alloc, mem, lock, req, allocs, tlb>>

-----------------------------------------------------------------------------
(* The MMU: any CPU may cache a present translation, and drop one, at any time. *)

PageFrame(page) == Entry1(mem, page).addr

tlb_fill(c, page) ==
  /\ Cardinality(tlb[c]) < TlbSize
  /\ is_present(mem, page) /\ ~ Entry2(mem, page).huge
  /\ tlb' = [tlb EXCEPT ![c] = @ \cup {[page |-> page, frame |-> PageFrame(page)]}]
  /\ UNCHANGED <<bitmap, last_page_alloc, mem, lock, pc, req, allocs>>

tlb_evict(c, t) ==
  /\ tlb' = [tlb EXCEPT ![c] = @ \ {t}]
  /\ UNCHANGED <<bitmap, last_page_alloc, mem, lock, pc, req, allocs>>

-----------------------------------------------------------------------------
CallStep(c) ==
  \/ \E n \in Amounts : alloc_pages_call(c, n)
  \/ \E a \in allocs : dealloc_pages_call(c, a)
  \/ \E f \in DeviceFrames, u \in BOOLEAN, n \in Amounts : map_physical_call(c, f, u, n)

LockStep(c) ==
  \/ alloc_pages_none(c) \/ alloc_pages_lock(c)
  \/ dealloc_pages_lock(c)
  \/ map_physical_panic(c) \/ map_physical_taken(c)
  \/ map_physical_none(c) \/ map_physical_lock(c)

LoopStep(c) ==
  \/ alloc_pages_step(c) \/ alloc_pages_return(c)
  \/ dealloc_pages_step(c) \/ dealloc_pages_panic(c) \/ dealloc_pages_return(c)
  \/ map_physical_step(c) \/ map_physical_return(c)
  \/ map_loop_panic(c)

TlbStep(c) ==
  \/ \E p \in Page : tlb_fill(c, p)
  \/ \E t \in tlb[c] : tlb_evict(c, t)

(* The callers may ask for nothing more. *)
Rest == (\A c \in CPU : pc[c] = "idle") /\ UNCHANGED vars

Next ==
  \/ \E c \in CPU : CallStep(c) \/ LockStep(c) \/ LoopStep(c) \/ TlbStep(c)
  \/ Rest

Spec == Init /\ [][Next]_vars

(* A CPU inside the critical section runs.  This is weak fairness of       *)
(* LoopStep(c), which is enabled just when pc[c] is one of Looping, with   *)
(* ENABLED written out.  Nothing is assumed of the CPUs that spin: the     *)
(* spin lock promises no order among them.                                 *)
Fairness ==
  \A c \in CPU : []<>(pc[c] \notin Looping) \/ []<><<LoopStep(c)>>_vars

FairSpec == Spec /\ Fairness
-----------------------------------------------------------------------------
(* Properties *)

(* Entry i of the table in f refers to `frame`, as a table or a 4 KiB page. *)
RefersTo(f, i, frame) == Refers(mem, f, i) /\ mem[f].entries[i].addr = frame

OwnRef(f, i) == Refers(mem, f, i) /\ mem[f].entries[i].addr \in OwnFrames

(* allocate_frame gave the PhyAddr(0) of a full bitmap to some entry. *)
Exhausted == \E f \in DOMAIN mem, i \in Idx : RefersTo(f, i, NullFrame)

(* The frames map_physical has reserved and not yet mapped. *)
Pending(c) ==
  IF pc[c] = "mapping" THEN req[c].phy .. req[c].phy + LastPage(req[c]) - req[c].next
  ELSE {}

(* The lock excludes: only its holder is inside a loop of the allocator. *)
LockInv ==
  \A c \in CPU : /\ pc[c] \in Looping => lock = c
                 /\ lock = c => pc[c] \in Looping \cup {"panic"}

(* Use after free: every frame that holds a page table of the kernel, or   *)
(* that a table entry refers to, is marked in the bitmap, so that          *)
(* allocate_frame and alloc_phy_addr cannot hand it out.                   *)
MappedFramesMarked ==
  /\ \A f \in DOMAIN mem \cap OwnFrames : f - OFFSET \in bitmap
  /\ \A f \in DOMAIN mem, i \in Idx :
       OwnRef(f, i) => mem[f].entries[i].addr - OFFSET \in bitmap

(* Aliasing: no frame is referred to by two entries of the page     *)
(* tables; so no frame is two pages, two tables, or a page and a table.    *)
NoFrameShared ==
  \A f \in DOMAIN mem, i \in Idx : OwnRef(f, i) =>
    \A g \in DOMAIN mem, j \in Idx :
      RefersTo(g, j, mem[f].entries[i].addr) => f = g /\ i = j

(* The frames map_physical took with alloc_phy_addr are marked, and nothing *)
(* refers to them, until its loop maps them.                                *)
PendingReserved ==
  \A c \in CPU : \A u \in Pending(c) \cap OwnFrames :
    /\ u - OFFSET \in bitmap
    /\ \A f \in DOMAIN mem, i \in Idx : ~ RefersTo(f, i, u)

(* Leaks: a frame marked in the bitmap is referred to by an entry or is    *)
(* about to be mapped by map_physical, unless the bitmap was exhausted or  *)
(* a CPU panicked halfway.                                                 *)
NoFrameLeaked ==
  Exhausted \/ (\E c \in CPU : pc[c] = "panic") \/
    \A b \in bitmap :
      \/ \E f \in DOMAIN mem, i \in Idx : RefersTo(f, i, b + OFFSET)
      \/ \E c \in CPU : b + OFFSET \in Pending(c)

(* Every page of an allocation a caller holds is mapped, whatever the other *)
(* CPUs allocate, map and free, unless the bitmap was exhausted.            *)
LivePagesMapped ==
  ~ Exhausted => \A a \in allocs : \A p \in AllocatedPages(a) :
                   is_present(mem, p) /\ ~ Entry2(mem, p).huge

(* map_physical was asked for a frame the bitmap has no bool for. *)
OutsideBitmap(r) == r.phy # NullFrame /\ ~ (PhyIndices(r.phy, MapAmount(r)) \subseteq BitIndex)

(* No unwrap, index or assertion of the allocator fails for callers that   *)
(* give back only what they hold, once, as long as there are frames, the   *)
(* run of pages does not end with the last one of the address space, which *)
(* PageIter cannot step past, and the device is within reach of the bitmap. *)
NoPanic ==
  \A c \in CPU : pc[c] = "panic" =>
    \/ Exhausted
    \/ LastPage(req[c]) = MAX_PAGE_CANONICAL_NUM - 1
    \/ OutsideBitmap(req[c])

(* "Returns None if it is not possible to allocate them": every page of an *)
(* allocation that was returned has a frame behind it, not the PhyAddr(0)  *)
(* of a full bitmap.                                                       *)
AllocationsBacked ==
  \A a \in allocs : \A p \in AllocatedPages(a) : PageFrame(p) # NullFrame

(* The allocator gives out memory of the usable region it was configured   *)
(* with (no device is mapped in the run that checks this).                 *)
AllocationsUsable ==
  \A a \in allocs : \A p \in AllocatedPages(a) : PageFrame(p) \in UsableFrames \cup {NullFrame}

(* The pages handed out have canonical addresses: a page number below      *)
(* MAX_PAGE_CANONICAL_NUM is turned into an address without extending its  *)
(* sign, so it has to lie in the lower half.                               *)
AllocationsCanonical ==
  \A a \in allocs : \A p \in AllocatedPages(a) : p < MAX_PAGE_CANONICAL_NUM \div 2

(* A translation a CPU has cached is the one the page table holds. *)
TlbCoherent ==
  \A c \in CPU : \A t \in tlb[c] :
    is_present(mem, t.page) /\ PageFrame(t.page) = t.frame

(* A page table, once there, is never taken away: the unwrap in            *)
(* dealloc_pages relies on it.                                             *)
TablesPersist ==
  [][\A p \in Page : has_page_entry_mut(mem, p) => has_page_entry_mut(mem', p)]_vars

(* The spin lock is released after every operation, unless its holder      *)
(* panicked.                                                               *)
LockReleased ==
  lock # NoCPU ~> (lock = NoCPU \/ \E c \in CPU : pc[c] = "panic")

(* What the trait has promised the callers: the frame behind each page. *)
Granted(a) == [first |-> a.first, amount |-> a.amount,
               frame |-> [p \in AllocatedPages(a) |-> PageFrame(p)]]
Owned == {Granted(a) : a \in allocs}

Contract == INSTANCE PageAllocatorContract WITH owned <- Owned

(* The allocator keeps the promise of the trait: live allocations are      *)
(* disjoint in pages and frames, and their frames never change.            *)
ImplementsContract == Contract!Spec
=============================================================================
