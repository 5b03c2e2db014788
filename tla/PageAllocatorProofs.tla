------------------------ MODULE PageAllocatorProofs -------------------------
(***************************************************************************)
(* Type correctness of PageAllocator, the exclusion of its spin lock, its  *)
(* frame safety, and what its callers may rely on: the pages they hold     *)
(* stay mapped, a panic has one of two causes, no frame leaks, and the     *)
(* allocator implements its contract; for every number of CPUs, table      *)
(* size, bitmap size, memory map and set of requests.                      *)
(***************************************************************************)
EXTENDS PageAllocator, PageTableProofs

(* The provers get half a minute for a leaf that names none. *)
USE SMTT(30)

(* Type correctness *)

(* A call in progress asks for at least one page. *)
AmountInv == \A c \in CPU : pc[c] # "idle" => req[c].amount > 0

TInv == TypeOK /\ AmountInv

(* The boot state is typed. *)
LEMMA TypeInit == Init => TInv
<1> SUFFICES ASSUME Init PROVE TInv
  OBVIOUS
<1>1. last_page_alloc \in Page
  <2>1. E \in Nat /\ E > 1
    BY PageTableAssumption
  <2>2. E * E \in Nat /\ E * E > 1
    BY <2>1
  <2>3. E * E * E \in Nat /\ E * E * E > 1
    BY <2>1, <2>2
  <2>4. E * E * E * E \in Nat /\ E * E * E * E > 1
    BY <2>1, <2>3
  <2> QED BY <2>4 DEF Init, Page, MAX_PAGE_CANONICAL_NUM
<1>2. NoRequest \in Request
  BY Zenon DEF NoRequest, Request
<1> QED BY <1>1, <1>2, PageTableAssumption, PhysicalAssumption, Zenon
        DEF Init, TInv, TypeOK, AmountInv, BitIndex

(* A call keeps the types. *)
LEMMA TypeCall ==
  ASSUME TInv, NEW c \in CPU, CallStep(c)
  PROVE  TInv'
<1> USE DEF TInv, TypeOK, AmountInv, Waiting, Looping, Request, NoRequest, Call
<1>1. ASSUME NEW n \in Amounts, alloc_pages_call(c, n) PROVE TInv'
  <2>1. n \in Nat /\ n > 0
    BY AllocatorAssumption
  <2> QED BY <1>1, <2>1, Zenon DEF alloc_pages_call
<1>2. ASSUME NEW a \in allocs, dealloc_pages_call(c, a) PROVE TInv'
  <2>1. a.first \in Nat /\ a.amount \in Nat /\ a.amount > 0
    BY DEF PageAllocation
  <2> QED BY <1>2, <2>1, Zenon DEF dealloc_pages_call
<1>3. ASSUME NEW f \in DeviceFrames, NEW u \in BOOLEAN, NEW n \in Amounts,
             map_physical_call(c, f, u, n)
      PROVE  TInv'
  <2>1. n \in Nat /\ n > 0 /\ f \in Nat
    BY AllocatorAssumption
  <2> QED BY <1>3, <2>1, Zenon DEF map_physical_call
<1> QED BY <1>1, <1>2, <1>3, Zenon DEF CallStep

(* A step that takes the lock keeps the types. *)
LEMMA TypeLock ==
  ASSUME TInv, NEW c \in CPU, LockStep(c)
  PROVE  TInv'
<1> USE DEF TInv, TypeOK, AmountInv, Waiting, Looping
<1>1. req[c] \in Request /\ NoRequest \in Request
  BY Zenon DEF Request, NoRequest
<1>2. Page \subseteq Nat
  BY DEF Page
<1>3. CASE alloc_pages_none(c)
  BY <1>1, <1>3, Zenon DEF alloc_pages_none, ReturnNone
<1>4. CASE alloc_pages_lock(c)
  <2> DEFINE n == req[c].amount
             end == free_pages_end(mem, last_page_alloc, n)
  <2>1. n \in Nat \ {0}
    BY <1>4 DEF alloc_pages_lock, CanLock, Request
  <2>2. end \in Page /\ end - n + 1 \in Nat
    BY <1>2, <1>4, <2>1, FindFreePages, Zenon DEF alloc_pages_lock
  <2> HIDE DEF end
  <2>3. /\ last_page_alloc' = end /\ lock' = c
        /\ pc' = [pc EXCEPT ![c] = "allocating"]
        /\ req' = [req EXCEPT ![c].first = end - n + 1, ![c].next = end - n + 1]
        /\ UNCHANGED <<bitmap, mem, allocs, tlb>>
    BY <1>4, Zenon DEF alloc_pages_lock, end
  <2>4. req' \in [CPU -> Request] /\ \A d \in CPU : req'[d].amount = req[d].amount
    BY <2>2, <2>3, ZenonT(30) DEF Request
  <2> QED BY <2>1, <2>2, <2>3, <2>4
<1>5. CASE dealloc_pages_lock(c)
  BY <1>5, Zenon DEF dealloc_pages_lock, CanLock
<1>6. CASE map_physical_panic(c)
  BY <1>6, Zenon DEF map_physical_panic, CanLock, Panic
<1>7. CASE map_physical_taken(c)
  BY <1>1, <1>7, Zenon DEF map_physical_taken, ReturnNone
<1>8. CASE map_physical_none(c)
  <2>1. bitmap' \subseteq BitIndex
    <3>1. MapAmount(req[c]) \in Nat /\ req[c].phy \in Nat
      BY <1>1 DEF MapAmount, Request
    <3>2. PhyIndices(req[c].phy, MapAmount(req[c])) \subseteq BitIndex
      BY <1>8, <3>1, ReservePhy, Zenon DEF map_physical_none, MapReserves
    <3> QED BY <1>8, <3>2, Zenon DEF map_physical_none, bitmap_after_release, bitmap_after_alloc_phy
  <2> QED BY <1>1, <1>8, <2>1, Zenon DEF map_physical_none, ReturnNone
<1>9. CASE map_physical_lock(c)
  <2> DEFINE n == MapAmount(req[c])
             end == free_pages_end(mem, last_page_alloc, n)
  <2>1. n \in Nat \ {0} /\ req[c].phy \in Nat
    BY <1>1, <1>9 DEF map_physical_lock, MapReserves, CanLock, MapAmount, Request
  <2> HIDE DEF n
  <2>2. end \in Page /\ end - n + 1 \in Nat
    BY <1>2, <1>9, <2>1, FindFreePages, Zenon DEF map_physical_lock, n
  <2>3. PhyIndices(req[c].phy, n) \subseteq BitIndex
    BY <1>9, <2>1, ReservePhy, Zenon DEF map_physical_lock, MapReserves, n
  <2> HIDE DEF end
  <2>4. /\ lock' = c /\ bitmap' = bitmap \cup PhyIndices(req[c].phy, n)
        /\ pc' = [pc EXCEPT ![c] = "mapping"]
        /\ req' = [req EXCEPT ![c] = [@ EXCEPT !.first = end - n + 1, !.amount = n,
                                               !.next = end - n + 1, !.unaligned = FALSE]]
        /\ UNCHANGED <<last_page_alloc, mem, allocs, tlb>>
    BY <1>9, Zenon DEF map_physical_lock, bitmap_after_alloc_phy, n, end
  <2>5. /\ req' \in [CPU -> Request]
        /\ \A d \in CPU : req'[d].amount = IF d = c THEN n ELSE req[d].amount
    BY <2>1, <2>2, <2>4, ZenonT(30) DEF Request
  <2> QED BY <2>1, <2>3, <2>4, <2>5
<1> QED BY <1>3, <1>4, <1>5, <1>6, <1>7, <1>8, <1>9, Zenon DEF LockStep

(* An iteration of a loop keeps the types, and so does the MMU. *)
LEMMA TypeLoop ==
  ASSUME TInv, NEW c \in CPU, LoopStep(c)
  PROVE  TInv'
<1> USE DEF TInv, TypeOK, AmountInv, Waiting, Looping
<1>1. req[c] \in Request /\ NoRequest \in Request
  BY Zenon DEF Request, NoRequest
<1>2. ASSUME NEW page PROVE invlpg(c, page) \in [CPU -> SUBSET Translation]
  BY Zenon DEF invlpg
<1>3. CASE alloc_pages_step(c)
  <2> DEFINE st0 == [bitmap |-> bitmap_after_allocate(bitmap), mem |-> mem]
             st1 == map_page_unchecked(st0, req[c].next, allocated_frame(bitmap))
  <2>1. Typed(st0) /\ allocated_frame(bitmap) \in Nat /\ req[c].next \in Nat
    BY <1>1, AllocateFrame, Zenon DEF Typed, Request
  <2>2. Typed(st1)
    BY <2>1, MapPageType, Zenon
  <2>3. bitmap' = st1.bitmap /\ mem' = st1.mem
    BY <1>3, Zenon DEF alloc_pages_step
  <2> HIDE DEF st1
  <2>4. /\ req' = [req EXCEPT ![c].next = @ + 1]
        /\ tlb' = invlpg(c, req[c].next)
        /\ UNCHANGED <<last_page_alloc, lock, pc, allocs>>
    BY <1>3, Zenon DEF alloc_pages_step, Advance
  <2>5. req' \in [CPU -> Request] /\ \A d \in CPU : req'[d].amount = req[d].amount
    BY <2>4 DEF Request
  <2> QED BY <1>2, <2>2, <2>3, <2>4, <2>5, Zenon DEF Typed
<1>4. CASE map_physical_step(c)
  <2> DEFINE st0 == [bitmap |-> bitmap, mem |-> mem]
             st1 == map_page_unchecked(st0, req[c].next, req[c].phy)
  <2>1. Typed(st0) /\ req[c].phy \in Nat /\ req[c].next \in Nat
    BY <1>1, Zenon DEF Typed, Request
  <2>2. Typed(st1)
    BY <2>1, MapPageType, Zenon
  <2>3. bitmap' = st1.bitmap /\ mem' = st1.mem
    BY <1>4, Zenon DEF map_physical_step
  <2> HIDE DEF st1
  <2>4. /\ req' = [req EXCEPT ![c].next = @ + 1, ![c].phy = @ + 1]
        /\ UNCHANGED <<last_page_alloc, lock, pc, allocs, tlb>>
    BY <1>4, Zenon DEF map_physical_step
  <2>5. req' \in [CPU -> Request] /\ \A d \in CPU : req'[d].amount = req[d].amount
    BY <2>4 DEF Request
  <2> QED BY <2>2, <2>3, <2>4, <2>5, Zenon DEF Typed
<1>5. CASE alloc_pages_return(c) \/ map_physical_return(c)
  <2>1. [first |-> req[c].first, amount |-> req[c].amount] \in PageAllocation
    BY <1>1, <1>5 DEF alloc_pages_return, map_physical_return, Request, PageAllocation
  <2> QED BY <1>1, <1>5, <2>1, Zenon DEF alloc_pages_return, map_physical_return, Unlock
<1>6. CASE dealloc_pages_step(c)
  <2>1. ClearEntry \in Entry /\ req[c].next \in Nat
    BY <1>1, Zenon DEF ClearEntry, Entry, NullFrame, Request
  <2>2. IsMemory(clear_page_entry(mem, req[c].next))
    BY <2>1, LevelIdx, WriteEntryType, Zenon DEF clear_page_entry
  <2>3. /\ req' = [req EXCEPT ![c].next = @ + 1]
        /\ tlb' = invlpg(c, req[c].next)
        /\ bitmap' \subseteq bitmap
        /\ mem' = clear_page_entry(mem, req[c].next)
        /\ UNCHANGED <<last_page_alloc, lock, pc, allocs>>
    BY <1>6, Zenon DEF dealloc_pages_step, Advance, bitmap_after_free
  <2>4. req' \in [CPU -> Request] /\ \A d \in CPU : req'[d].amount = req[d].amount
    BY <2>3 DEF Request
  <2> QED BY <1>2, <2>2, <2>3, <2>4, Zenon
<1>7. CASE dealloc_pages_panic(c) \/ map_loop_panic(c)
  BY <1>7, Zenon DEF dealloc_pages_panic, map_loop_panic, Panic
<1>8. CASE dealloc_pages_return(c)
  BY <1>1, <1>8, Zenon DEF dealloc_pages_return, Unlock
<1> QED BY <1>3, <1>4, <1>5, <1>6, <1>7, <1>8, Zenon DEF LoopStep

(* The MMU caches translations of pages to frames only. *)
LEMMA TypeTlb ==
  ASSUME TInv, NEW c \in CPU, TlbStep(c)
  PROVE  TInv'
<1> USE DEF TInv, TypeOK, AmountInv
<1>1. ASSUME NEW p \in Page, tlb_fill(c, p) PROVE TInv'
  <2>1. PageFrame(p) \in Nat
    <3>1. Entry1(mem, p) \in Entry
      BY LevelIdx, EntryAtType DEF Entry1, Page
    <3> QED BY <3>1, Zenon DEF PageFrame, Entry
  <2> QED BY <1>1, <2>1 DEF tlb_fill, Translation
<1>2. ASSUME NEW t \in tlb[c], tlb_evict(c, t) PROVE TInv'
  BY <1>2, Zenon DEF tlb_evict
<1> QED BY <1>1, <1>2, Zenon DEF TlbStep

(* Every step keeps the types. *)
LEMMA TypePreserved == TInv /\ [Next]_vars => TInv'
<1> SUFFICES ASSUME TInv, [Next]_vars PROVE TInv'
  OBVIOUS
<1>1. CASE UNCHANGED vars
  BY <1>1, Zenon DEF vars, TInv, TypeOK, AmountInv
<1>2. CASE Next
  BY <1>1, <1>2, TypeCall, TypeLock, TypeLoop, TypeTlb, Zenon DEF Next, Rest
<1> QED BY <1>1, <1>2, Zenon

(* Every reachable state is typed, whatever the callers ask for and even   *)
(* when the bitmap is full.                                                *)
THEOREM TypeCorrect == Spec => []TypeOK
<1>1. TInv => TypeOK
  BY Zenon DEF TInv
<1> QED BY <1>1, TypeInit, TypePreserved, PTL DEF Spec
-----------------------------------------------------------------------------
(* The lock *)

(* Nobody holds the lock when the system starts. *)
LEMMA LockInit == Init => LockInv
BY AllocatorAssumption, Zenon DEF Init, LockInv, Looping

(* The spin lock excludes. *)
LEMMA LockPreserved ==
  ASSUME TInv, LockInv, [Next]_vars
  PROVE  LockInv'
<1> USE DEF TInv, TypeOK, LockInv, Looping, Waiting
<1>1. CASE UNCHANGED vars
  BY <1>1, Zenon DEF vars
<1>2. ASSUME NEW c \in CPU, CallStep(c) PROVE LockInv'
  BY <1>2, ZenonT(30) DEF CallStep, alloc_pages_call, dealloc_pages_call, map_physical_call, Call
<1>3. ASSUME NEW c \in CPU, LockStep(c) PROVE LockInv'
  <2> USE AllocatorAssumption DEF CanLock
  <2>1. CASE alloc_pages_none(c) \/ map_physical_taken(c) \/ map_physical_none(c)
    BY <2>1, Zenon DEF alloc_pages_none, map_physical_taken, map_physical_none, MapReserves, ReturnNone
  <2>2. CASE alloc_pages_lock(c)
    BY <2>2, Zenon DEF alloc_pages_lock
  <2>3. CASE dealloc_pages_lock(c)
    BY <2>3, Zenon DEF dealloc_pages_lock
  <2>4. CASE map_physical_panic(c)
    BY <2>4, Zenon DEF map_physical_panic, Panic
  <2>5. CASE map_physical_lock(c)
    BY <2>5, Zenon DEF map_physical_lock, MapReserves
  <2> QED BY <1>3, <2>1, <2>2, <2>3, <2>4, <2>5, Zenon DEF LockStep
<1>4. ASSUME NEW c \in CPU, LoopStep(c) PROVE LockInv'
  <2> USE AllocatorAssumption
  <2>1. CASE alloc_pages_step(c) \/ dealloc_pages_step(c) \/ map_physical_step(c)
    BY <2>1, Zenon DEF alloc_pages_step, dealloc_pages_step, map_physical_step
  <2>2. CASE alloc_pages_return(c) \/ dealloc_pages_return(c) \/ map_physical_return(c)
    BY <2>2, Zenon DEF alloc_pages_return, dealloc_pages_return, map_physical_return, Unlock
  <2>3. CASE dealloc_pages_panic(c) \/ map_loop_panic(c)
    BY <2>3, Zenon DEF dealloc_pages_panic, map_loop_panic, Panic
  <2> QED BY <1>4, <2>1, <2>2, <2>3, Zenon DEF LoopStep
<1>5. ASSUME NEW c \in CPU, TlbStep(c) PROVE LockInv'
  BY <1>5, Zenon DEF TlbStep, tlb_fill, tlb_evict
<1> QED BY <1>1, <1>2, <1>3, <1>4, <1>5, Zenon DEF Next, Rest

(* Only the holder of the spin lock is inside a loop of the allocator, on  *)
(* any number of CPUs.                                                     *)
THEOREM LockExcludes == Spec => []LockInv
<1>1. Init => TInv /\ LockInv
  BY TypeInit, LockInit, Zenon
<1>2. TInv /\ LockInv /\ [Next]_vars => TInv' /\ LockInv'
  BY LockPreserved, TypePreserved, Zenon
<1> QED BY <1>1, <1>2, PTL DEF Spec

-----------------------------------------------------------------------------
(* Frame safety.  FInv is the inductive invariant: the frame invariant     *)
(* with the pages map_physical has reserved, and, for the unwrap and the   *)
(* writes of the loops, that every page handed out has its level-1 table   *)
(* and that the pages still to be mapped are not part of a huge page.      *)

PendingFrames == UNION {Pending(c) : c \in CPU}

Mapping == {"allocating", "mapping"}

(* The pages of c's call that have been mapped, or not yet been freed. *)
CallPages(c) ==
  IF pc[c] \in {"dealloc_pages", "freeing"} THEN req[c].next .. LastPage(req[c])
  ELSE IF pc[c] \in Mapping THEN req[c].first .. req[c].next - 1
  ELSE {}

(* The pages c's call has still to map. *)
PagesToMap(c) ==
  IF pc[c] \in Mapping THEN req[c].next .. LastPage(req[c]) ELSE {}

PathInv ==
  /\ \A a \in allocs : \A p \in AllocatedPages(a) : Path(mem, p)
  /\ \A c \in CPU : \A p \in CallPages(c) : Path(mem, p)
  /\ \A c \in CPU : \A p \in PagesToMap(c) : ~ HugeAt(mem, p)

FInv ==
  /\ TInv /\ LockInv
  /\ Good([bitmap |-> bitmap, mem |-> mem], PendingFrames)
  /\ PathInv

(* A usable frame is left. *)
MemoryAvailable == FrameLeft(bitmap)
(* Init establishes the invariant: what the boot tables refer to is not    *)
(* the bitmap's to give.                                                   *)
LEMMA FrameInit == Init => FInv
<1> SUFFICES ASSUME Init PROVE FInv
  OBVIOUS
<1> DEFINE st == [bitmap |-> bitmap, mem |-> mem]
<1>1. TInv
  BY TypeInit, Zenon
<1>2. LockInv
  BY LockInit, Zenon
<1>3. PendingFrames = {} /\ PathInv
  BY Zenon DEF Init, PendingFrames, Pending, PathInv, CallPages, PagesToMap, Mapping
<1>4. Good(st, {})
  <2>1. Typed(st) /\ st.mem = BootTables
    BY <1>1, Zenon DEF TInv, TypeOK, Typed, Init
  <2> HIDE DEF st
  <2>2. \A f \in DOMAIN BootTables, i \in Idx, u \in OwnFrames : ~ Points(BootTables, f, i, u)
    BY PageTableAssumption, Zenon DEF Points, OwnFrames
  <2>3. DOMAIN BootTables \cap OwnFrames = {}
    BY PageTableAssumption, Zenon DEF OwnFrames
  <2> QED BY <2>1, <2>2, <2>3, PageTableAssumption, Zenon
          DEF Good, TablesReferred, TablesMarked, Marked, Unshared, Reserved
<1> QED BY <1>1, <1>2, <1>3, <1>4, Zenon DEF FInv

(* The pages and frames of a CPU that takes no step stay as they are. *)
LEMMA Others ==
  ASSUME NEW d \in CPU, pc'[d] = pc[d], req'[d] = req[d]
  PROVE  /\ CallPages(d)' = CallPages(d)
         /\ PagesToMap(d)' = PagesToMap(d)
         /\ Pending(d)' = Pending(d)
BY Zenon DEF CallPages, PagesToMap, Pending

(* While c holds the lock, or nobody does, no other CPU is mapping. *)
LEMMA Alone ==
  ASSUME LockInv, NEW c, lock \in {c, NoCPU}, NEW d \in CPU, d # c
  PROVE  pc[d] \notin Looping /\ Pending(d) = {} /\ PagesToMap(d) = {}
BY AllocatorAssumption, Zenon DEF LockInv, Looping, Pending, PagesToMap, Mapping

(* The walks a step keeps, and the ones it adds. *)
LEMMA PathStep ==
  ASSUME TInv, PathInv, Keeps(mem, mem'),
         \A a \in allocs' : a \in allocs \/ \A p \in AllocatedPages(a) : Path(mem', p),
         \A d \in CPU : \A p \in CallPages(d)' : p \in CallPages(d) \/ Path(mem', p),
         \A d \in CPU : \A p \in PagesToMap(d)' : p \in PagesToMap(d) \/ ~ HugeAt(mem', p)
  PROVE  PathInv'
<1>1. \A a \in allocs : AllocatedPages(a) \subseteq Nat
  BY DEF TInv, TypeOK, PageAllocation, AllocatedPages
<1>2. \A d \in CPU : CallPages(d) \subseteq Nat /\ PagesToMap(d) \subseteq Nat
  BY DEF TInv, TypeOK, Request, CallPages, PagesToMap, LastPage
<1>3. \A a \in allocs' : \A p \in AllocatedPages(a) : Path(mem', p)
  BY <1>1, Zenon DEF PathInv, Keeps
<1>4. \A d \in CPU : \A p \in CallPages(d)' : Path(mem', p)
  BY <1>2, Zenon DEF PathInv, Keeps
<1>5. \A d \in CPU : \A p \in PagesToMap(d)' : ~ HugeAt(mem', p)
  BY <1>2, Zenon DEF PathInv, Keeps
<1> QED BY <1>3, <1>4, <1>5, Zenon DEF PathInv, AllocatedPages

(* Tables that did not change were kept. *)
LEMMA KeepsRefl == \A m : Keeps(m, m)
BY Zenon DEF Keeps

(* A step of c that leaves the bitmap and the tables alone keeps the       *)
(* invariant if the pages and frames of its call do.                       *)
LEMMA QuietStep ==
  ASSUME FInv, TInv', LockInv', NEW c \in CPU,
         bitmap' = bitmap, mem' = mem,
         \A d \in CPU : d # c => pc'[d] = pc[d] /\ req'[d] = req[d],
         Pending(c)' \subseteq Pending(c),
         \A a \in allocs' : a \in allocs \/ \A p \in AllocatedPages(a) : Path(mem, p),
         \A p \in CallPages(c)' : p \in CallPages(c) \/ Path(mem, p),
         \A p \in PagesToMap(c)' : p \in PagesToMap(c) \/ ~ HugeAt(mem, p)
  PROVE  FInv'
<1>1. PendingFrames' \subseteq PendingFrames
  BY Others, Zenon DEF PendingFrames
<1>2. Good([bitmap |-> bitmap', mem |-> mem'], PendingFrames')
  BY <1>1, GoodWeaken, Zenon DEF FInv
<1>3. PathInv'
  BY Others, KeepsRefl, PathStep, Zenon DEF FInv
<1> QED BY <1>2, <1>3, Zenon DEF FInv

(* Calls *)
LEMMA FrameCall ==
  ASSUME FInv, TInv', LockInv', NEW c \in CPU, CallStep(c)
  PROVE  FInv'
<1>1. /\ pc[c] = "idle" /\ bitmap' = bitmap /\ mem' = mem
      /\ \A d \in CPU : d # c => pc'[d] = pc[d] /\ req'[d] = req[d]
  BY ZenonT(30) DEF CallStep, alloc_pages_call, dealloc_pages_call, map_physical_call, Call,
         FInv, TInv, TypeOK
<1>2. pc'[c] \notin Mapping
  BY ZenonT(30) DEF CallStep, alloc_pages_call, dealloc_pages_call, map_physical_call, Call,
         FInv, TInv, TypeOK, Mapping
<1>3. Pending(c)' = {} /\ PagesToMap(c)' = {}
  BY <1>2, Zenon DEF Pending, PagesToMap, Mapping
<1>4. allocs' \subseteq allocs
  BY ZenonT(30) DEF CallStep, alloc_pages_call, dealloc_pages_call, map_physical_call
<1>5. \A p \in CallPages(c)' : Path(mem, p)
  <2>1. CASE pc'[c] = "dealloc_pages"
    <3>1. PICK a \in allocs : dealloc_pages_call(c, a)
      BY <2>1, Zenon DEF CallStep, alloc_pages_call, map_physical_call, Call, FInv, TInv, TypeOK
    <3>2. /\ req'[c].first = a.first /\ req'[c].next = a.first
          /\ req'[c].amount = a.amount
      BY <3>1, Zenon DEF dealloc_pages_call, Call, NoRequest, FInv, TInv, TypeOK
    <3>3. CallPages(c)' = AllocatedPages(a)
      BY <2>1, <3>2, Zenon DEF CallPages, LastPage, AllocatedPages
    <3> QED BY <3>1, <3>3, Zenon DEF FInv, PathInv
  <2>2. CASE pc'[c] # "dealloc_pages"
    <3>1. pc'[c] # "freeing"
      BY ZenonT(30) DEF CallStep, alloc_pages_call, dealloc_pages_call, map_physical_call, Call,
             FInv, TInv, TypeOK
    <3> QED BY <1>2, <2>2, <3>1, Zenon DEF CallPages
  <2> QED BY <2>1, <2>2, Zenon
<1> QED BY <1>1, <1>3, <1>4, <1>5, QuietStep, Zenon

(* The arithmetic of a run of n pages that ends in e. *)
LEMMA RunArithmetic ==
  ASSUME NEW e \in Nat, NEW n \in Nat
  PROVE  /\ (e - n + 1) + n - 1 = e
         /\ (e - n + 1) .. (e - n + 1) - 1 = {}
         /\ \A u \in Nat : u + e - (e - n + 1) = u + n - 1
<1>1. \A k \in Int : k .. k - 1 = {}
  OBVIOUS
<1>2. e - n + 1 \in Int
  OBVIOUS
<1>3. (e - n + 1) + n - 1 = e
  OBVIOUS
<1>4. \A u \in Nat : u + e - (e - n + 1) = u + n - 1
  OBVIOUS
<1> QED BY <1>1, <1>2, <1>3, <1>4, Zenon

(* map_physical reserves the frames it is about to map. *)
LEMMA MapLocks ==
  ASSUME FInv, NEW c \in CPU, map_physical_lock(c)
  PROVE  LET n == MapAmount(req[c])
             u == req[c].phy
         IN  Pending(c)' = u .. u + n - 1 /\ bitmap' = bitmap \cup PhyIndices(u, n)
<1> DEFINE n == MapAmount(req[c])
           u == req[c].phy
           end == free_pages_end(mem, last_page_alloc, n)
<1>1. /\ pc \in [CPU -> {"idle", "panic"} \cup Waiting \cup Looping]
      /\ req \in [CPU -> Request] /\ Page \subseteq Nat /\ last_page_alloc \in Page /\ TInv
  BY DEF FInv, TInv, TypeOK, Page
<1>2. n \in Nat \ {0} /\ u \in Nat
  BY <1>1 DEF map_physical_lock, MapReserves, CanLock, MapAmount, Request, TInv, AmountInv
<1> HIDE DEF n
<1>3. end \in Page
  <2>1. found_free_pages(mem, last_page_alloc, n)
    BY Zenon DEF map_physical_lock, n
  <2> QED BY <1>1, <1>2, <2>1, FindFreePages, Zenon
<1> HIDE DEF end
<1>4. /\ bitmap' = bitmap \cup PhyIndices(u, n)
      /\ pc' = [pc EXCEPT ![c] = "mapping"]
      /\ req' = [req EXCEPT ![c] = [@ EXCEPT !.first = end - n + 1, !.amount = n,
                                             !.next = end - n + 1, !.unaligned = FALSE]]
  BY Zenon DEF map_physical_lock, bitmap_after_alloc_phy, n, end
<1>5. /\ pc'[c] = "mapping" /\ req'[c].first = end - n + 1
      /\ req'[c].next = end - n + 1 /\ req'[c].amount = n /\ req'[c].phy = u
  BY <1>1, <1>4, Zenon DEF Request
<1> HIDE DEF u
<1>6. (end - n + 1) + n - 1 = end /\ u + end - (end - n + 1) = u + n - 1
  BY <1>1, <1>2, <1>3, RunArithmetic
<1>7. Pending(c)' = u .. u + n - 1
  BY <1>5, <1>6, Zenon DEF Pending, LastPage
<1> QED BY <1>4, <1>7, Zenon DEF n, u

(* Steps that take the lock *)
LEMMA FrameLock ==
  ASSUME FInv, TInv', LockInv', NEW c \in CPU, LockStep(c)
  PROVE  FInv'
<1> USE DEF CanLock, MapReserves
<1>1. TInv /\ LockInv /\ pc \in [CPU -> {"idle", "panic"} \cup Waiting \cup Looping]
      /\ req \in [CPU -> Request] /\ bitmap \subseteq BitIndex
  BY Zenon DEF FInv, TInv, TypeOK
<1>2. \A d \in CPU : d # c => pc'[d] = pc[d] /\ req'[d] = req[d]
  BY <1>1, Zenon DEF LockStep, alloc_pages_none, alloc_pages_lock, dealloc_pages_lock,
         map_physical_panic, map_physical_taken, map_physical_none, map_physical_lock,
         ReturnNone, Panic
<1>3. lock = NoCPU
  BY Zenon DEF LockStep, alloc_pages_none, alloc_pages_lock, dealloc_pages_lock,
         map_physical_panic, map_physical_taken, map_physical_none, map_physical_lock
<1>4. CASE alloc_pages_none(c) \/ map_physical_taken(c) \/ map_physical_none(c)
  <2>1. pc'[c] = "idle" /\ mem' = mem /\ allocs' = allocs
    BY <1>1, <1>4, Zenon DEF alloc_pages_none, map_physical_taken, map_physical_none, ReturnNone
  <2>2. bitmap' = bitmap
    <3>1. CASE map_physical_none(c)
      <4> DEFINE N == PhyIndices(req[c].phy, MapAmount(req[c]))
      <4>1. MapAmount(req[c]) \in Nat /\ req[c].phy \in Nat
        BY <1>1 DEF MapAmount, Request
      <4>2. N \cap bitmap = {}
        BY <1>1, <3>1, <4>1, ReservePhy, Zenon DEF map_physical_none
      <4>3. bitmap' = (bitmap \cup N) \ N
        BY <3>1, Zenon DEF map_physical_none, bitmap_after_release, bitmap_after_alloc_phy
      <4> HIDE DEF N
      <4> QED BY <4>2, <4>3, Zenon
    <3>2. CASE alloc_pages_none(c) \/ map_physical_taken(c)
      BY <3>2, Zenon DEF alloc_pages_none, map_physical_taken
    <3> QED BY <1>4, <3>1, <3>2, Zenon
  <2>3. Pending(c)' = {} /\ CallPages(c)' = {} /\ PagesToMap(c)' = {}
    BY <2>1, Zenon DEF Pending, CallPages, PagesToMap, Mapping
  <2> QED BY <1>2, <2>1, <2>2, <2>3, QuietStep, Zenon
<1>5. CASE map_physical_panic(c)
  <2>1. pc'[c] = "panic" /\ bitmap' = bitmap /\ mem' = mem /\ allocs' = allocs
    BY <1>1, <1>5, Zenon DEF map_physical_panic, Panic
  <2>2. Pending(c)' = {} /\ CallPages(c)' = {} /\ PagesToMap(c)' = {}
    BY <2>1, Zenon DEF Pending, CallPages, PagesToMap, Mapping
  <2> QED BY <1>2, <2>1, <2>2, QuietStep, Zenon
<1>6. CASE dealloc_pages_lock(c)
  <2>1. /\ pc[c] = "dealloc_pages" /\ pc'[c] = "freeing" /\ req' = req
        /\ bitmap' = bitmap /\ mem' = mem /\ allocs' = allocs
    BY <1>1, <1>6, Zenon DEF dealloc_pages_lock
  <2>2. Pending(c)' = {} /\ CallPages(c)' = CallPages(c) /\ PagesToMap(c)' = {}
    BY <2>1, Zenon DEF Pending, CallPages, PagesToMap, Mapping
  <2> QED BY <1>2, <2>1, <2>2, QuietStep, Zenon
<1>7. ASSUME NEW p, ~ is_present(mem, p) PROVE ~ HugeAt(mem, p)
  BY <1>7, Zenon DEF is_present, HugeAt
<1>8. Page \subseteq Nat /\ last_page_alloc \in Page
  BY <1>1 DEF Page, TInv, TypeOK
<1>9. CASE alloc_pages_lock(c)
  <2> DEFINE n == req[c].amount
             end == free_pages_end(mem, last_page_alloc, n)
  <2>1. n \in Nat \ {0}
    BY <1>1, <1>9 DEF alloc_pages_lock, Request, TInv, AmountInv
  <2>2. /\ end \in Page /\ end - n + 1 \in Nat
        /\ \A p \in end - n + 1 .. end : ~ is_present(mem, p)
    BY <1>8, <1>9, <2>1, FindFreePages, Zenon DEF alloc_pages_lock
  <2> HIDE DEF end
  <2>3. /\ pc' = [pc EXCEPT ![c] = "allocating"]
        /\ req' = [req EXCEPT ![c].first = end - n + 1, ![c].next = end - n + 1]
        /\ UNCHANGED <<bitmap, mem, allocs>>
    BY <1>9, Zenon DEF alloc_pages_lock, end
  <2>4. /\ pc'[c] = "allocating" /\ req'[c].first = end - n + 1
        /\ req'[c].next = end - n + 1 /\ req'[c].amount = n
    BY <1>1, <2>3, Zenon DEF Request
  <2>5. Pending(c)' = {} /\ CallPages(c)' = {} /\ PagesToMap(c)' = end - n + 1 .. end
    <3>1. (end - n + 1) + n - 1 = end /\ (end - n + 1) .. (end - n + 1) - 1 = {}
      <4>1. n \in Nat /\ end \in Nat
        BY <1>8, <2>1, <2>2, Zenon
      <4> HIDE DEF n
      <4> QED BY <4>1, RunArithmetic, Zenon
    <3> QED BY <2>4, <3>1, Zenon DEF Pending, CallPages, PagesToMap, Mapping, LastPage
  <2> QED BY <1>2, <1>7, <2>2, <2>3, <2>5, QuietStep, Zenon
<1>10. CASE map_physical_lock(c)
  <2> DEFINE n == MapAmount(req[c])
             u == req[c].phy
             end == free_pages_end(mem, last_page_alloc, n)
             N == PhyIndices(u, n)
             st == [bitmap |-> bitmap, mem |-> mem]
             st1 == [bitmap |-> bitmap \cup N, mem |-> mem]
  <2>1. n \in Nat \ {0} /\ u \in Nat
    BY <1>1, <1>10 DEF map_physical_lock, MapAmount, Request, TInv, AmountInv
  <2> HIDE DEF n
  <2>2. /\ end \in Page /\ end - n + 1 \in Nat
        /\ \A p \in end - n + 1 .. end : ~ is_present(mem, p)
    BY <1>8, <1>10, <2>1, FindFreePages, Zenon DEF map_physical_lock, n
  <2>3. N \subseteq BitIndex /\ N \cap bitmap = {}
    BY <1>1, <1>10, <2>1, ReservePhy, Zenon DEF map_physical_lock, n
  <2> HIDE DEF end
  <2>4. /\ bitmap' = bitmap \cup N
        /\ pc' = [pc EXCEPT ![c] = "mapping"]
        /\ req' = [req EXCEPT ![c] = [@ EXCEPT !.first = end - n + 1, !.amount = n,
                                               !.next = end - n + 1, !.unaligned = FALSE]]
        /\ UNCHANGED <<mem, allocs>>
    BY <1>10, Zenon DEF map_physical_lock, bitmap_after_alloc_phy, n, end
  <2>5. /\ pc'[c] = "mapping" /\ req'[c].first = end - n + 1
        /\ req'[c].next = end - n + 1 /\ req'[c].amount = n /\ req'[c].phy = u
    BY <1>1, <2>4, Zenon DEF Request
  <2>6. /\ Pending(c)' = u .. u + n - 1
        /\ CallPages(c)' = {} /\ PagesToMap(c)' = end - n + 1 .. end
    <3>1. /\ (end - n + 1) + n - 1 = end /\ (end - n + 1) .. (end - n + 1) - 1 = {}
          /\ u + end - (end - n + 1) = u + n - 1
      <4>1. n \in Nat /\ end \in Nat
        BY <1>8, <2>1, <2>2, Zenon
      <4> HIDE DEF u
      <4> QED BY <4>1, <2>1, RunArithmetic
    <3> HIDE DEF u
    <3>2. /\ LastPage(req[c])' = end
          /\ PagesToMap(c)' = end - n + 1 .. end /\ CallPages(c)' = {}
      BY <2>5, <3>1, Zenon DEF CallPages, PagesToMap, Mapping, LastPage
    <3> QED BY <2>5, <3>1, <3>2, Zenon DEF Pending
  <2>7. PendingFrames' = u .. u + n - 1
    <3>1. ASSUME NEW d \in CPU, d # c PROVE Pending(d)' = {}
      <4>1. Pending(d) = {}
        <5>1. LockInv /\ lock \in {c, NoCPU}
          BY <1>1, <1>3, Zenon
        <5> QED BY <3>1, <5>1, Alone
      <4> QED BY <1>2, <3>1, <4>1, Others, Zenon
    <3> HIDE DEF u
    <3> QED BY <2>6, <3>1, Zenon DEF PendingFrames
  <2>8. Good(st1, u .. u + n - 1)
    <3>1. Typed(st1) /\ st1.mem = mem /\ st1.bitmap = bitmap \cup N
      BY <1>1, <2>3, Zenon DEF Typed, TInv, TypeOK
    <3>2. \A v \in u .. u + n - 1 : v - OFFSET \in N
      BY <2>1, PhysicalAssumption DEF PhyIndices
    <3>3. Good(st, {}) /\ st.mem = mem /\ st.bitmap = bitmap
      BY GoodWeaken DEF FInv
    <3> HIDE DEF st, st1, N, u
    <3>4. \A v \in (u .. u + n - 1) \cap OwnFrames :
            \A f \in DOMAIN mem, i \in Idx : ~ Points(mem, f, i, v)
      BY <2>3, <3>2, <3>3, Zenon DEF Good, Marked
    <3>5. Reserved(st1, u .. u + n - 1)
      BY <3>1, <3>2, <3>4, Zenon DEF Reserved
    <3>6. /\ TablesReferred(st1) /\ TablesMarked(st1) /\ Marked(st1) /\ Unshared(st1)
          /\ WellLevelled(mem) /\ OneParent(mem) /\ AbsentClear(mem)
      BY <3>1, <3>3, Zenon DEF Good, TablesReferred, TablesMarked, Marked, Unshared
    <3> QED BY <3>1, <3>5, <3>6, Zenon DEF Good
  <2>9. PathInv'
    <3>1. mem' = mem /\ allocs' = allocs /\ PathInv
      BY <2>4, Zenon DEF FInv
    <3> QED BY <1>1, <1>2, <1>7, <2>2, <2>6, <3>1, Others, KeepsRefl, PathStep, Zenon
  <2> HIDE DEF N, u
  <2> QED BY <2>4, <2>7, <2>8, <2>9, Zenon DEF FInv
<1> QED BY <1>4, <1>5, <1>6, <1>9, <1>10, Zenon DEF LockStep

(* The loop of one CPU runs alone. *)
LEMMA LoopAlone ==
  ASSUME FInv, NEW c \in CPU, LoopStep(c), NEW d \in CPU, d # c
  PROVE  /\ pc'[d] = pc[d] /\ req'[d] = req[d]
         /\ Pending(d) = {} /\ PagesToMap(d) = {}
         /\ Pending(d)' = {} /\ CallPages(d)' = CallPages(d) /\ PagesToMap(d)' = {}
<1>1. TInv /\ LockInv /\ pc \in [CPU -> {"idle", "panic"} \cup Waiting \cup Looping]
      /\ req \in [CPU -> Request]
  BY Zenon DEF FInv, TInv, TypeOK
<1>2. pc[c] \in Looping
  BY Zenon DEF LoopStep, alloc_pages_step, alloc_pages_return, dealloc_pages_step,
         dealloc_pages_panic, dealloc_pages_return, map_physical_step,
         map_physical_return, map_loop_panic, Looping
<1>3. pc'[d] = pc[d] /\ req'[d] = req[d]
  BY <1>1, Zenon DEF LoopStep, alloc_pages_step, alloc_pages_return, dealloc_pages_step,
         dealloc_pages_panic, dealloc_pages_return, map_physical_step,
         map_physical_return, map_loop_panic, Advance, Unlock, Panic
<1>4. lock \in {c, NoCPU}
  BY <1>1, <1>2, Zenon DEF LockInv
<1>5. Pending(d) = {} /\ PagesToMap(d) = {}
  <2>1. LockInv
    BY <1>1, Zenon
  <2> QED BY <1>4, <2>1, Alone
<1> QED BY <1>3, <1>5, Others, Zenon

(* alloc_pages maps the next page to a frame it takes from the bitmap. *)
LEMMA AllocMaps ==
  ASSUME FInv, MemoryAvailable', NEW c \in CPU, alloc_pages_step(c)
  PROVE  /\ PendingFrames = {} /\ PendingFrames' = {}
         /\ Good([bitmap |-> bitmap', mem |-> mem'], {})
         /\ Keeps(mem, mem') /\ Path(mem', req[c].next)
         /\ req[c].next \in Page =>
              MapsOnly(mem, mem', req[c].next, allocated_frame(bitmap))
         /\ bitmap \subseteq bitmap'
         /\ allocated_frame(bitmap) - OFFSET \in bitmap' \ bitmap
         /\ Covered([bitmap |-> bitmap, mem |-> mem], {}) /\ ~ Backed(mem, req[c].next) =>
              Covered([bitmap |-> bitmap', mem |-> mem'], {})
<1> DEFINE r == req[c]
           st == [bitmap |-> bitmap, mem |-> mem]
           u == allocated_frame(bitmap)
           st0 == [bitmap |-> bitmap_after_allocate(bitmap), mem |-> mem]
           st1 == map_page_unchecked(st0, r.next, u)
<1>1. /\ TInv /\ r \in Request /\ bitmap \subseteq BitIndex
      /\ r.next \in Nat /\ r.first \in Nat /\ r.amount \in Nat
  BY Zenon DEF FInv, TInv, TypeOK, Request
<1>2. LoopStep(c)
  BY Zenon DEF LoopStep
<1>3. /\ bitmap' = st1.bitmap /\ mem' = st1.mem
      /\ pc[c] = "allocating" /\ pc' = pc /\ r.next <= LastPage(r)
  BY <1>1 DEF alloc_pages_step, IterDone, LastPage
<1>4. PendingFrames = {} /\ PendingFrames' = {}
  BY <1>2, <1>3, LoopAlone DEF PendingFrames, Pending
<1>5. Good(st, {})
  BY <1>4, Zenon DEF FInv
<1>6. Typed(st0) /\ u \in Nat
  BY <1>1, AllocateFrame, Zenon DEF Typed, TInv, TypeOK
<1>7. Typed(st1) /\ bitmap_after_allocate(bitmap) \subseteq st1.bitmap
  BY <1>1, <1>6, MapPageType, Zenon
<1>8. FrameLeft(st1.bitmap) /\ FrameLeft(bitmap_after_allocate(bitmap))
  <2> HIDE DEF st1
  <2> QED BY <1>3, <1>7, Zenon DEF MemoryAvailable, FrameLeft, FreeBits
<1>9. Good(st0, {} \cup {u})
  BY <1>5, <1>8, ReserveFrame
<1>10. Good(st0, {u})
  BY <1>9, Zenon
<1>11. ~ HugeAt(mem, r.next)
  BY <1>1, <1>3 DEF FInv, PathInv, PagesToMap, LastPage, Mapping
<1>12. /\ Good(st1, {u} \ {u}) /\ Keeps(mem, st1.mem) /\ Path(st1.mem, r.next)
       /\ r.next \in Page => MapsOnly(mem, st1.mem, r.next, u)
       /\ Covered(st0, {u}) /\ ~ Backed(mem, r.next) => Covered(st1, {u} \ {u})
  <2>1. st0.mem = mem
    OBVIOUS
  <2> HIDE DEF st0, u, r
  <2> QED BY <1>1, <1>6, <1>8, <1>10, <1>11, <2>1, MapPage, Zenon
<1>13. /\ bitmap \subseteq bitmap_after_allocate(bitmap)
       /\ u - OFFSET \in bitmap_after_allocate(bitmap) \ bitmap
  BY <1>1, <1>8, AllocateFrame, Zenon
<1>16. Covered(st, {}) => Covered(st0, {u})
  <2>1. Typed(st) /\ st.bitmap = bitmap /\ st.mem = mem
    BY <1>5, Zenon DEF Good
  <2>2. Covered(st, {}) => Covered(st0, {} \cup {u})
    <3> HIDE DEF st
    <3> QED BY <2>1, ReserveCovered, Zenon
  <2> QED BY <2>2, Zenon
<1> HIDE DEF st1, u
<1>14. st1 = [bitmap |-> bitmap', mem |-> mem']
  BY <1>3, <1>7, Zenon DEF Typed
<1>15. Good([bitmap |-> bitmap', mem |-> mem'], {})
  BY <1>12, <1>14, GoodWeaken, Zenon
<1>17. Covered(st, {}) /\ ~ Backed(mem, r.next) =>
         Covered([bitmap |-> bitmap', mem |-> mem'], {})
  <2>1. {u} \ {u} = {}
    OBVIOUS
  <2> QED BY <1>12, <1>14, <1>16, <2>1, Zenon
<1> QED BY <1>3, <1>4, <1>7, <1>12, <1>13, <1>15, <1>17, Zenon DEF u

(* map_physical maps the next page to the next of the frames it reserved. *)
LEMMA DeviceMaps ==
  ASSUME FInv, MemoryAvailable', NEW c \in CPU, map_physical_step(c)
  PROVE  /\ req[c].phy \in PendingFrames /\ PendingFrames' = PendingFrames \ {req[c].phy}
         /\ Good([bitmap |-> bitmap', mem |-> mem'], PendingFrames')
         /\ Keeps(mem, mem') /\ Path(mem', req[c].next)
         /\ req[c].next \in Page => MapsOnly(mem, mem', req[c].next, req[c].phy)
         /\ bitmap \subseteq bitmap'
         /\ Covered([bitmap |-> bitmap, mem |-> mem], PendingFrames)
            /\ ~ Backed(mem, req[c].next) =>
              Covered([bitmap |-> bitmap', mem |-> mem'], PendingFrames')
<1> DEFINE r == req[c]
           st == [bitmap |-> bitmap, mem |-> mem]
           u == r.phy
           X == u .. u + LastPage(r) - r.next
           st1 == map_page_unchecked(st, r.next, u)
<1>1. /\ TInv /\ req \in [CPU -> Request] /\ r \in Request /\ bitmap \subseteq BitIndex
      /\ r.next \in Nat /\ r.phy \in Nat /\ r.first \in Nat /\ r.amount \in Nat
  BY Zenon DEF FInv, TInv, TypeOK, Request
<1>2. LoopStep(c)
  BY Zenon DEF LoopStep
<1>3. /\ bitmap' = st1.bitmap /\ mem' = st1.mem
      /\ pc[c] = "mapping" /\ pc' = pc
      /\ req' = [req EXCEPT ![c].next = @ + 1, ![c].phy = @ + 1]
      /\ r.next <= LastPage(r)
  BY <1>1 DEF map_physical_step, IterDone, LastPage
<1>4. /\ req'[c].next = r.next + 1 /\ req'[c].first = r.first
      /\ req'[c].amount = r.amount /\ req'[c].phy = u + 1 /\ pc'[c] = "mapping"
  BY <1>1, <1>3, Zenon DEF Request
<1>5. PendingFrames = X /\ PendingFrames' = X \ {u} /\ u \in X
  <2>1. PendingFrames = Pending(c) /\ PendingFrames' = Pending(c)'
    BY <1>2, LoopAlone DEF PendingFrames
  <2>2. Pending(c) = X
    BY <1>3, Zenon DEF Pending
  <2>3. Pending(c)' = u + 1 .. (u + 1) + LastPage(r) - (r.next + 1)
    <3>1. LastPage(req[c])' = LastPage(r)
      BY <1>4, Zenon DEF LastPage
    <3> QED BY <1>4, <3>1, Zenon DEF Pending
  <2>4. LastPage(r) \in Int
    BY <1>1 DEF LastPage
  <2> HIDE DEF r
  <2>5. u + 1 .. (u + 1) + LastPage(r) - (r.next + 1) = X \ {u} /\ u \in X
    BY <1>1, <1>3, <2>4
  <2> QED BY <2>1, <2>2, <2>3, <2>5, Zenon
<1>6. Good(st, X)
  BY <1>5, Zenon DEF FInv
<1>7. Typed(st) /\ Typed(st1) /\ bitmap \subseteq st1.bitmap
  BY <1>1, <1>6, MapPageType, Zenon DEF Good
<1>8. FrameLeft(st1.bitmap) /\ ~ HugeAt(mem, r.next)
  BY <1>1, <1>3 DEF MemoryAvailable, FInv, PathInv, PagesToMap, LastPage, Mapping
<1>9. /\ Good(st1, X \ {u}) /\ Keeps(mem, st1.mem) /\ Path(st1.mem, r.next)
      /\ r.next \in Page => MapsOnly(mem, st1.mem, r.next, u)
      /\ Covered(st, X) /\ ~ Backed(mem, r.next) => Covered(st1, X \ {u})
  <2>1. st.mem = mem
    OBVIOUS
  <2> HIDE DEF st, X, r
  <2> QED BY <1>1, <1>5, <1>6, <1>8, <2>1, MapPage, Zenon
<1> HIDE DEF st1, X
<1>10. st1 = [bitmap |-> bitmap', mem |-> mem']
  BY <1>3, <1>7, Zenon DEF Typed
<1>11. Covered(st, PendingFrames) /\ ~ Backed(mem, r.next) =>
         Covered([bitmap |-> bitmap', mem |-> mem'], PendingFrames')
  BY <1>5, <1>9, <1>10, Zenon
<1> QED BY <1>3, <1>5, <1>7, <1>9, <1>10, <1>11, Zenon

(* dealloc_pages unmaps the next page and frees its frame. *)
LEMMA DeallocUnmaps ==
  ASSUME FInv, NEW c \in CPU, dealloc_pages_step(c)
  PROVE  /\ PendingFrames = {} /\ PendingFrames' = {}
         /\ Good([bitmap |-> bitmap', mem |-> mem'], {})
         /\ Keeps(mem, mem')
         /\ req[c].next \in Page => OnlyPage(mem, mem', req[c].next)
         /\ bitmap' = bitmap \ {PageFrame(req[c].next) - OFFSET}
         /\ Covered([bitmap |-> bitmap, mem |-> mem], {}) =>
              Covered([bitmap |-> bitmap', mem |-> mem'], {})
<1> DEFINE r == req[c]
           st == [bitmap |-> bitmap, mem |-> mem]
           p == r.next
           f == Entry2(mem, p).addr
           i == level1_idx(p)
           u == mem[f].entries[i].addr
           m1 == write_entry(mem, f, i, ClearEntry)
           st1 == [bitmap |-> bitmap_after_free(bitmap, u), mem |-> m1]
<1>1. /\ TInv /\ r \in Request
      /\ r.next \in Nat /\ r.first \in Nat /\ r.amount \in Nat
  BY Zenon DEF FInv, TInv, TypeOK, Request
<1>2. LoopStep(c)
  BY Zenon DEF LoopStep
<1>3. /\ pc[c] = "freeing" /\ pc' = pc
      /\ r.next <= LastPage(r)
      /\ Entry1(mem, p).addr - OFFSET \in bitmap
      /\ bitmap' = bitmap_after_free(bitmap, Entry1(mem, p).addr)
      /\ mem' = m1
  BY <1>1 DEF dealloc_pages_step, IterDone, LastPage, free_page_panics,
              free_frame_panics, clear_page_entry
<1>4. /\ Good(st, {}) /\ st.mem = mem /\ st.bitmap = bitmap
      /\ IsMemory(mem) /\ WellLevelled(mem) /\ OneParent(mem)
  BY GoodWeaken, Zenon DEF FInv, Good, Typed
<1>5. Path(mem, p)
  <2> HIDE DEF st, f, i, u, m1, st1
  <2>1. p \in p .. LastPage(r)
    BY <1>1, <1>3 DEF LastPage
  <2>2. p \in CallPages(c)
    BY <1>3, <2>1, Zenon DEF CallPages
  <2> QED BY <2>2, Zenon DEF FInv, PathInv
<1>6. /\ f \in DOMAIN mem /\ mem[f].level = 1 /\ i \in Idx
      /\ Entry1(mem, p) = mem[f].entries[i]
  BY <1>1, <1>4, <1>5, PathLeaf, Zenon
<1>7. Good(st1, {})
  <2> HIDE DEF st, f, i
  <2> QED BY <1>3, <1>4, <1>6, ClearLeaf, Zenon
<1>8. PendingFrames = {} /\ PendingFrames' = {}
  <2>1. Pending(c) = {} /\ Pending(c)' = {}
    BY <1>3, Zenon DEF Pending
  <2>2. \A d \in CPU : Pending(d) = {} /\ Pending(d)' = {}
    BY <1>2, <2>1, LoopAlone, Zenon
  <2> QED BY <2>2, Zenon DEF PendingFrames
<1>9. Good([bitmap |-> bitmap', mem |-> mem'], {})
  BY <1>3, <1>6, <1>7, Zenon
<1>10. Keeps(mem, m1)
  <2>1. SameUpper(mem, m1)
    <3> HIDE DEF f, i
    <3> QED BY <1>4, <1>6, SameUpperWrite, Zenon
  <2> HIDE DEF m1
  <2>2. IsMemory(m1) /\ WellLevelled(m1)
    BY <1>7, Zenon DEF Good, Typed
  <2> QED BY <1>4, <2>1, <2>2, SameUpperWalk, Zenon DEF Keeps
<1>11. p \in Page => OnlyPage(mem, m1, p)
  <2>1. ClearEntry \in Entry /\ ~ ClearEntry.huge
    BY Zenon DEF ClearEntry, Entry, NullFrame
  <2> HIDE DEF p
  <2> QED BY <1>4, <1>5, <2>1, LeafWrite, Zenon
<1>12. Covered(st, {}) => Covered(st1, {})
  <2>1. Typed(st)
    BY <1>4, GoodMemory, Zenon
  <2> HIDE DEF st, f, i
  <2> QED BY <1>4, <1>6, <2>1, ClearCovered, Zenon
<1>13. Covered(st, {}) => Covered([bitmap |-> bitmap', mem |-> mem'], {})
  BY <1>3, <1>6, <1>12, Zenon
<1> HIDE DEF m1
<1> QED BY <1>3, <1>8, <1>9, <1>10, <1>11, <1>13, Zenon DEF bitmap_after_free, PageFrame

(* Iterations of the loops *)
LEMMA FrameLoop ==
  ASSUME FInv, TInv', LockInv', MemoryAvailable', NEW c \in CPU, LoopStep(c)
  PROVE  FInv' /\ Keeps(mem, mem')
<1> DEFINE r == req[c]
<1>1. TInv /\ LockInv /\ pc \in [CPU -> {"idle", "panic"} \cup Waiting \cup Looping]
      /\ req \in [CPU -> Request] /\ r \in Request /\ bitmap \subseteq BitIndex
  BY Zenon DEF FInv, TInv, TypeOK
<1>2. r.next \in Nat /\ r.phy \in Nat /\ r.first \in Nat /\ r.amount \in Nat
      /\ LastPage(r) \in Int
  BY <1>1 DEF Request, LastPage
<1>3. ASSUME NEW d \in CPU, d # c
      PROVE  /\ pc'[d] = pc[d] /\ req'[d] = req[d]
             /\ CallPages(d)' = CallPages(d) /\ PagesToMap(d)' = {}
  BY <1>3, LoopAlone, Zenon
<1>4. CASE alloc_pages_return(c) \/ map_physical_return(c)
  <2>1. /\ pc[c] \in Mapping /\ pc'[c] = "idle" /\ bitmap' = bitmap /\ mem' = mem
        /\ r.next > LastPage(r)
        /\ allocs' = allocs \cup {[first |-> r.first, amount |-> r.amount]}
    BY <1>1, <1>4, Zenon DEF alloc_pages_return, map_physical_return, IterDone, Unlock, Mapping
  <2>2. AllocatedPages([first |-> r.first, amount |-> r.amount]) \subseteq CallPages(c)
    BY <1>1, <2>1 DEF AllocatedPages, CallPages, Mapping, LastPage, Request
  <2>3. \A a \in allocs' : a \in allocs \/ \A p \in AllocatedPages(a) : Path(mem, p)
    BY <2>1, <2>2, Zenon DEF FInv, PathInv
  <2>4. Pending(c)' = {} /\ CallPages(c)' = {} /\ PagesToMap(c)' = {}
    BY <2>1, Zenon DEF Pending, CallPages, PagesToMap, Mapping
  <2>5. FInv'
    BY <1>3, <2>1, <2>3, <2>4, QuietStep, Zenon
  <2> QED BY <2>1, <2>5, KeepsRefl, Zenon
<1>5. CASE dealloc_pages_panic(c) \/ map_loop_panic(c) \/ dealloc_pages_return(c)
  <2>1. pc'[c] \in {"panic", "idle"} /\ bitmap' = bitmap /\ mem' = mem /\ allocs' = allocs
    BY <1>1, <1>5, Zenon DEF dealloc_pages_panic, map_loop_panic, dealloc_pages_return, Panic, Unlock
  <2>2. Pending(c)' = {} /\ CallPages(c)' = {} /\ PagesToMap(c)' = {}
    BY <2>1, Zenon DEF Pending, CallPages, PagesToMap, Mapping
  <2>3. FInv'
    BY <1>3, <2>1, <2>2, QuietStep, Zenon
  <2> QED BY <2>1, <2>3, KeepsRefl, Zenon
<1>6. CASE alloc_pages_step(c) \/ map_physical_step(c)
  <2>1. /\ Keeps(mem, mem') /\ Path(mem', r.next)
        /\ Good([bitmap |-> bitmap', mem |-> mem'], PendingFrames')
    <3>1. CASE alloc_pages_step(c)
      BY <3>1, AllocMaps, Zenon
    <3>2. CASE map_physical_step(c)
      BY <3>2, DeviceMaps, Zenon
    <3> QED BY <1>6, <3>1, <3>2, Zenon
  <2>2. /\ allocs' = allocs /\ pc' = pc /\ pc[c] \in Mapping
        /\ req'[c].next = r.next + 1 /\ req'[c].first = r.first
        /\ req'[c].amount = r.amount
    BY <1>1, <1>6, ZenonT(60) DEF alloc_pages_step, map_physical_step, Advance, Mapping, Request
  <2>3. /\ \A p \in CallPages(c)' : p \in CallPages(c) \/ p = r.next
        /\ PagesToMap(c)' \subseteq PagesToMap(c)
    <3>1. /\ CallPages(c) = r.first .. r.next - 1 /\ PagesToMap(c) = r.next .. LastPage(r)
          /\ CallPages(c)' = r.first .. (r.next + 1) - 1
          /\ PagesToMap(c)' = r.next + 1 .. LastPage(r)
      BY <2>2, Zenon DEF CallPages, PagesToMap, Mapping, LastPage
    <3> HIDE DEF r
    <3> QED BY <1>2, <3>1
  <2>4. PathInv'
    <3>1. PathInv
      BY Zenon DEF FInv
    <3> HIDE DEF r
    <3> QED BY <1>1, <1>3, <2>1, <2>2, <2>3, <3>1, PathStep, Zenon
  <2> QED BY <2>1, <2>4, Zenon DEF FInv
<1>7. CASE dealloc_pages_step(c)
  <2>1. Keeps(mem, mem') /\ Good([bitmap |-> bitmap', mem |-> mem'], PendingFrames')
    BY <1>7, DeallocUnmaps, Zenon
  <2>2. /\ allocs' = allocs /\ pc' = pc /\ pc[c] = "freeing"
        /\ req'[c].next = r.next + 1 /\ req'[c].first = r.first
        /\ req'[c].amount = r.amount
    BY <1>1, <1>7, Zenon DEF dealloc_pages_step, Advance, Request
  <2>3. CallPages(c)' \subseteq CallPages(c) /\ PagesToMap(c)' = {}
    <3>1. /\ CallPages(c) = r.next .. LastPage(r) /\ CallPages(c)' = r.next + 1 .. LastPage(r)
          /\ PagesToMap(c)' = {}
      BY <2>2, Zenon DEF CallPages, PagesToMap, Mapping, LastPage
    <3> HIDE DEF r
    <3> QED BY <1>2, <3>1
  <2>4. PathInv'
    <3>1. PathInv
      BY Zenon DEF FInv
    <3> HIDE DEF r
    <3> QED BY <1>1, <1>3, <2>1, <2>2, <2>3, <3>1, PathStep, Zenon
  <2> QED BY <2>1, <2>4, Zenon DEF FInv
<1> QED BY <1>4, <1>5, <1>6, <1>7, Zenon DEF LoopStep

(* What the frame invariant says of a state. *)
LEMMA FrameInvariantImplies ==
  FInv => MappedFramesMarked /\ NoFrameShared /\ PendingReserved
<1> SUFFICES ASSUME FInv PROVE MappedFramesMarked /\ NoFrameShared /\ PendingReserved
  OBVIOUS
<1> DEFINE st == [bitmap |-> bitmap, mem |-> mem]
<1>1. Good(st, PendingFrames) /\ st.mem = mem /\ st.bitmap = bitmap
  BY Zenon DEF FInv
<1> HIDE DEF st
<1>2. MappedFramesMarked
  BY <1>1, Zenon DEF Good, TablesMarked, Marked, Points, MappedFramesMarked, OwnRef
<1>3. NoFrameShared
  BY <1>1 DEF Good, Unshared, Points, NoFrameShared, OwnRef, RefersTo
<1>4. PendingReserved
  BY <1>1, Zenon DEF Good, Reserved, Points, PendingReserved, RefersTo, PendingFrames
<1> QED BY <1>2, <1>3, <1>4, Zenon

(* A step keeps the invariant, and the tables that were there. *)
LEMMA FrameStep ==
  FInv /\ MemoryAvailable' /\ [Next]_vars => FInv' /\ Keeps(mem, mem')
<1> SUFFICES ASSUME FInv, MemoryAvailable', [Next]_vars PROVE FInv' /\ Keeps(mem, mem')
  OBVIOUS
<1>1. TInv' /\ LockInv'
  BY TypePreserved, LockPreserved, Zenon DEF FInv
<1>2. ASSUME UNCHANGED vars PROVE FInv' /\ mem' = mem
  BY <1>2, Zenon DEF vars, FInv, TInv, TypeOK, AmountInv, LockInv, PathInv, PendingFrames,
              Pending, CallPages, PagesToMap
<1>3. ASSUME NEW c \in CPU, TlbStep(c) PROVE FInv' /\ mem' = mem
  <2>1. UNCHANGED <<bitmap, mem, pc, req, allocs>>
    BY <1>3, Zenon DEF TlbStep, tlb_fill, tlb_evict
  <2>2. Pending(c)' = Pending(c) /\ CallPages(c)' = CallPages(c)
        /\ PagesToMap(c)' = PagesToMap(c)
    BY <2>1, Others, Zenon
  <2> QED BY <1>1, <2>1, <2>2, QuietStep, Zenon
<1>4. ASSUME NEW c \in CPU, CallStep(c) \/ LockStep(c) PROVE FInv' /\ mem' = mem
  <2>1. FInv'
    BY <1>1, <1>4, FrameCall, FrameLock, Zenon
  <2>2. CallStep(c) => mem' = mem
    BY ZenonT(30) DEF CallStep, alloc_pages_call, dealloc_pages_call, map_physical_call
  <2>3. LockStep(c) => mem' = mem
    BY ZenonT(30) DEF LockStep, alloc_pages_none, alloc_pages_lock, dealloc_pages_lock,
         map_physical_panic, map_physical_taken, map_physical_none, map_physical_lock
  <2> QED BY <1>4, <2>1, <2>2, <2>3, Zenon
<1>5. ASSUME NEW c \in CPU, LoopStep(c) PROVE FInv' /\ Keeps(mem, mem')
  BY <1>1, <1>5, FrameLoop, Zenon
<1> QED BY <1>2, <1>3, <1>4, <1>5, KeepsRefl, Zenon DEF Next, Rest

(* As long as a frame of the usable region is free, whatever the CPUs      *)
(* allocate, map and free: no frame is mapped twice, no frame in use can   *)
(* be handed out, and what map_physical reserved stays reserved.           *)
THEOREM FramesSafe ==
  Spec /\ []MemoryAvailable => [](MappedFramesMarked /\ NoFrameShared /\ PendingReserved)
BY FrameInit, FrameStep, FrameInvariantImplies, PTL DEF Spec

(* As long as a frame of the usable region is free, no step of any CPU     *)
(* takes a page table away: where page_entry_mut finds an entry, as the    *)
(* unwrap in dealloc_pages expects, it finds one from then on.             *)
THEOREM TablesKept == Spec /\ []MemoryAvailable => TablesPersist
<1>1. FInv /\ MemoryAvailable' /\ [Next]_vars =>
        [\A p \in Page : has_page_entry_mut(mem, p) => has_page_entry_mut(mem', p)]_vars
  <2>1. Page \subseteq Nat
    BY PageTableAssumption DEF Page, MAX_PAGE_CANONICAL_NUM
  <2> QED BY <2>1, FrameStep, Zenon DEF Keeps
<1> QED BY <1>1, FrameInit, FrameStep, PTL DEF Spec, TablesPersist
-----------------------------------------------------------------------------
(* Who holds which page.  LInv is the inductive invariant, given FInv: no   *)
(* page is held twice; a page that is held is mapped to a frame of its own, *)
(* marked and not reserved; a page still to be mapped is not mapped.        *)

HeldByCallers == UNION {AllocatedPages(a) : a \in allocs}
HeldByCalls == UNION {CallPages(c) : c \in CPU}
Held == HeldByCallers \cup HeldByCalls

Apart ==
  /\ \A a, b \in allocs : a # b => AllocatedPages(a) \cap AllocatedPages(b) = {}
  /\ \A a \in allocs, c \in CPU : AllocatedPages(a) \cap CallPages(c) = {}
  /\ \A c, d \in CPU : c # d => CallPages(c) \cap CallPages(d) = {}

HeldInv ==
  /\ \A p \in Held : /\ p \in Page /\ Backed(mem, p)
                     /\ PageFrame(p) - OFFSET \in bitmap
                     /\ PageFrame(p) \notin PendingFrames
  /\ \A p, q \in Held : PageFrame(p) = PageFrame(q) => p = q
  /\ \A u \in PendingFrames : u - OFFSET \in bitmap

FreshInv == \A c \in CPU : \A p \in PagesToMap(c) : p \in Page /\ ~ Backed(mem, p)

LInv == Apart /\ HeldInv /\ FreshInv

(* A page is held by a caller or by a call. *)
LEMMA HeldBy ==
  /\ \A p : p \in Held <=> \/ \E a \in allocs : p \in AllocatedPages(a)
                           \/ \E c \in CPU : p \in CallPages(c)
  /\ \A p : p \in Held' <=> \/ \E a \in allocs' : p \in AllocatedPages(a)
                            \/ \E c \in CPU : p \in CallPages(c)'
<1>1. \A p : p \in Held <=> \/ \E a \in allocs : p \in AllocatedPages(a)
                            \/ \E c \in CPU : p \in CallPages(c)
  <2>1. \A p : p \in HeldByCallers <=> \E a \in allocs : p \in AllocatedPages(a)
    BY Zenon DEF HeldByCallers
  <2>2. \A p : p \in HeldByCalls <=> \E c \in CPU : p \in CallPages(c)
    BY Zenon DEF HeldByCalls
  <2> QED BY <2>1, <2>2, Zenon DEF Held
<1>2. \A p : p \in Held' <=> \/ \E a \in allocs' : p \in AllocatedPages(a)'
                             \/ \E c \in CPU : p \in CallPages(c)'
  <2>1. \A p : p \in HeldByCallers' <=> \E a \in allocs' : p \in AllocatedPages(a)'
    BY Zenon DEF HeldByCallers
  <2>2. \A p : p \in HeldByCalls' <=> \E c \in CPU : p \in CallPages(c)'
    BY Zenon DEF HeldByCalls
  <2> QED BY <2>1, <2>2, Zenon DEF Held
<1>3. \A a : AllocatedPages(a)' = AllocatedPages(a)
  BY Zenon DEF AllocatedPages
<1> QED BY <1>1, <1>2, <1>3, Zenon

(* What is held before and after a step is mapped as it was. *)
HeldSame == \A p \in Held \cap Held' : Entry1(mem', p) = Entry1(mem, p)

(* Init establishes it: nobody holds a page. *)
LEMMA HeldInit == Init => LInv
<1> SUFFICES ASSUME Init PROVE LInv
  OBVIOUS
<1>1. /\ \A c \in CPU : CallPages(c) = {} /\ PagesToMap(c) = {} /\ Pending(c) = {}
      /\ allocs = {}
  BY Zenon DEF Init, CallPages, PagesToMap, Pending, Mapping
<1> QED BY <1>1 DEF LInv, Apart, HeldInv, FreshInv, Held, HeldByCallers, HeldByCalls, PendingFrames

(* A step after which fewer pages are held, each mapped as it was. *)
LEMMA HeldKept ==
  ASSUME HeldInv, Held' \subseteq Held,
         \A p \in Held' : /\ Backed(mem', p) /\ Entry1(mem', p) = Entry1(mem, p)
                          /\ PageFrame(p) - OFFSET \in bitmap',
         \A u \in PendingFrames' : /\ u - OFFSET \in bitmap'
                                   /\ u \in PendingFrames \/ u - OFFSET \notin bitmap
  PROVE  HeldInv'
<1>1. \A p \in Held' : p \in Held /\ PageFrame(p)' = PageFrame(p)
  BY Zenon DEF PageFrame
<1>2. \A p \in Held' : /\ p \in Page /\ Backed(mem', p)
                       /\ PageFrame(p)' - OFFSET \in bitmap'
                       /\ PageFrame(p)' \notin PendingFrames'
  BY <1>1 DEF HeldInv
<1>3. \A p, q \in Held' : PageFrame(p)' = PageFrame(q)' => p = q
  BY <1>1, Zenon DEF HeldInv
<1> QED BY <1>2, <1>3, Zenon DEF HeldInv

(* A step after which one more page is held, mapped to a frame that was    *)
(* free or reserved.                                                       *)
LEMMA HeldMapped ==
  ASSUME HeldInv, NEW x \in Page, x \notin Held, Held' \subseteq Held \cup {x},
         NEW u, MapsOnly(mem, mem', x, u), bitmap \subseteq bitmap', u - OFFSET \in bitmap',
         u \in PendingFrames \/ u - OFFSET \notin bitmap,
         PendingFrames' \subseteq PendingFrames \ {u}
  PROVE  HeldInv'
<1>1. \A p \in Held' : p # x =>
        p \in Held /\ Backed(mem', p) /\ PageFrame(p)' = PageFrame(p)
  BY Zenon DEF PageFrame, MapsOnly, OnlyPage, HeldInv
<1>2. Backed(mem', x) /\ PageFrame(x)' = u
  BY Zenon DEF MapsOnly, PageFrame
<1>3. \A p \in Held : PageFrame(p) # u
  BY Zenon DEF HeldInv
<1>4. \A p \in Held' : /\ p \in Page /\ Backed(mem', p)
                       /\ PageFrame(p)' - OFFSET \in bitmap'
                       /\ PageFrame(p)' \notin PendingFrames'
  BY <1>1, <1>2 DEF HeldInv
<1>5. \A p, q \in Held' : PageFrame(p)' = PageFrame(q)' => p = q
  BY <1>1, <1>2, <1>3, Zenon DEF HeldInv
<1>6. \A v \in PendingFrames' : v - OFFSET \in bitmap'
  BY Zenon DEF HeldInv
<1> QED BY <1>4, <1>5, <1>6, Zenon DEF HeldInv

(* No page is held twice after a step in which no page changes hands, *)
LEMMA ApartKept ==
  ASSUME Apart, allocs' \subseteq allocs,
         \A d \in CPU : CallPages(d)' \subseteq CallPages(d)
  PROVE  Apart' /\ Held' \subseteq Held
<1>1. \A a : AllocatedPages(a)' = AllocatedPages(a)
  BY Zenon DEF AllocatedPages
<1>2. Apart'
  BY <1>1, Zenon DEF Apart
<1>3. Held' \subseteq Held
  BY HeldBy, Zenon
<1> QED BY <1>2, <1>3, Zenon

(* or a caller gives the pages of an allocation to its dealloc_pages, *)
LEMMA ApartTaken ==
  ASSUME Apart, NEW c \in CPU, NEW a \in allocs, allocs' = allocs \ {a},
         CallPages(c)' \subseteq AllocatedPages(a),
         \A d \in CPU : d # c => CallPages(d)' = CallPages(d)
  PROVE  Apart' /\ Held' \subseteq Held
<1>1. \A b : AllocatedPages(b)' = AllocatedPages(b)
  BY Zenon DEF AllocatedPages
<1>2. Apart'
  BY <1>1 DEF Apart
<1>3. Held' \subseteq Held
  BY HeldBy, Zenon
<1> QED BY <1>2, <1>3, Zenon

(* or alloc_pages or map_physical returns its pages to the caller, *)
LEMMA ApartGiven ==
  ASSUME Apart, NEW c \in CPU, NEW a, allocs' = allocs \cup {a},
         AllocatedPages(a) \subseteq CallPages(c), CallPages(c)' = {},
         \A d \in CPU : d # c => CallPages(d)' = CallPages(d)
  PROVE  Apart' /\ Held' \subseteq Held
<1>1. \A b : AllocatedPages(b)' = AllocatedPages(b)
  BY Zenon DEF AllocatedPages
<1>2. Apart'
  BY <1>1 DEF Apart
<1>3. Held' \subseteq Held
  BY HeldBy, Zenon
<1> QED BY <1>2, <1>3, Zenon

(* or a loop maps one page nobody held. *)
LEMMA ApartGrown ==
  ASSUME Apart, NEW c \in CPU, allocs' = allocs, NEW x, x \notin Held,
         CallPages(c)' \subseteq CallPages(c) \cup {x},
         \A d \in CPU : d # c => CallPages(d)' = CallPages(d)
  PROVE  Apart' /\ Held' \subseteq Held \cup {x}
<1>1. \A b : AllocatedPages(b)' = AllocatedPages(b)
  BY Zenon DEF AllocatedPages
<1>2. /\ \A b \in allocs : x \notin AllocatedPages(b)
      /\ \A d \in CPU : x \notin CallPages(d)
  BY HeldBy, Zenon
<1>3. Apart'
  BY <1>1, <1>2 DEF Apart
<1>4. Held' \subseteq Held \cup {x}
  BY HeldBy
<1> QED BY <1>3, <1>4, Zenon

(* A step that leaves the tables alone. *)
LEMMA QuietHeld ==
  ASSUME LInv, Apart', Held' \subseteq Held, mem' = mem, bitmap \subseteq bitmap',
         \A u \in PendingFrames' : /\ u - OFFSET \in bitmap'
                                   /\ u \in PendingFrames \/ u - OFFSET \notin bitmap,
         \A d \in CPU : \A p \in PagesToMap(d)' :
           p \in PagesToMap(d) \/ (p \in Page /\ ~ Backed(mem, p))
  PROVE  LInv'
<1>1. HeldInv'
  BY HeldKept, Zenon DEF LInv, HeldInv
<1>2. FreshInv'
  BY Zenon DEF LInv, FreshInv
<1> QED BY <1>1, <1>2, Zenon DEF LInv

(* Calls *)
LEMMA HeldCall ==
  ASSUME FInv, LInv, NEW c \in CPU, CallStep(c)
  PROVE  LInv'
<1>1. /\ pc[c] = "idle" /\ bitmap' = bitmap /\ mem' = mem
      /\ \A d \in CPU : d # c => pc'[d] = pc[d] /\ req'[d] = req[d]
  BY ZenonT(30) DEF CallStep, alloc_pages_call, dealloc_pages_call, map_physical_call, Call,
         FInv, TInv, TypeOK
<1>2. pc'[c] \notin Mapping /\ pc'[c] # "freeing"
  BY ZenonT(30) DEF CallStep, alloc_pages_call, dealloc_pages_call, map_physical_call, Call,
         FInv, TInv, TypeOK, Mapping
<1>3. Pending(c)' = {} /\ PagesToMap(c)' = {}
  BY <1>2, Zenon DEF Pending, PagesToMap, Mapping
<1>4. /\ PendingFrames' \subseteq PendingFrames
      /\ \A d \in CPU : PagesToMap(d)' \subseteq PagesToMap(d)
      /\ \A d \in CPU : d # c => CallPages(d)' = CallPages(d)
  BY <1>1, <1>3, Others, Zenon DEF PendingFrames
<1>5. Apart' /\ Held' \subseteq Held
  <2>1. CASE \E a \in allocs : dealloc_pages_call(c, a)
    <3>1. PICK a \in allocs : dealloc_pages_call(c, a)
      BY <2>1, Zenon
    <3>2. /\ req'[c].first = a.first /\ req'[c].next = a.first
          /\ req'[c].amount = a.amount /\ allocs' = allocs \ {a}
      BY <3>1, Zenon DEF dealloc_pages_call, Call, NoRequest, FInv, TInv, TypeOK
    <3>3. CallPages(c)' \subseteq AllocatedPages(a)
      BY <1>2, <3>2, Zenon DEF CallPages, LastPage, AllocatedPages
    <3> QED BY <1>4, <3>2, <3>3, ApartTaken, Zenon DEF LInv
  <2>2. CASE ~ \E a \in allocs : dealloc_pages_call(c, a)
    <3>1. allocs' = allocs /\ pc'[c] # "dealloc_pages"
      BY <2>2, ZenonT(30) DEF CallStep, alloc_pages_call, map_physical_call, Call,
             FInv, TInv, TypeOK
    <3>2. CallPages(c)' = {}
      BY <1>2, <3>1, Zenon DEF CallPages
    <3> QED BY <1>4, <3>1, <3>2, ApartKept, Zenon DEF LInv
  <2> QED BY <2>1, <2>2, Zenon
<1>6. \A u \in PendingFrames' : u - OFFSET \in bitmap
  BY <1>4, Zenon DEF LInv, HeldInv
<1> QED BY <1>1, <1>4, <1>5, <1>6, QuietHeld, Zenon

(* Steps that take the lock *)
LEMMA HeldLock ==
  ASSUME FInv, LInv, NEW c \in CPU, LockStep(c)
  PROVE  LInv'
<1> USE DEF CanLock, MapReserves
<1>1. TInv /\ LockInv /\ pc \in [CPU -> {"idle", "panic"} \cup Waiting \cup Looping]
      /\ req \in [CPU -> Request] /\ bitmap \subseteq BitIndex
  BY Zenon DEF FInv, TInv, TypeOK
<1>2. \A d \in CPU : d # c => pc'[d] = pc[d] /\ req'[d] = req[d]
  BY <1>1, Zenon DEF LockStep, alloc_pages_none, alloc_pages_lock, dealloc_pages_lock,
         map_physical_panic, map_physical_taken, map_physical_none, map_physical_lock,
         ReturnNone, Panic
<1>3. mem' = mem /\ allocs' = allocs
  BY ZenonT(30) DEF LockStep, alloc_pages_none, alloc_pages_lock, dealloc_pages_lock,
         map_physical_panic, map_physical_taken, map_physical_none, map_physical_lock
<1>4. ASSUME CallPages(c)' \subseteq CallPages(c), bitmap \subseteq bitmap',
             \A u \in Pending(c)' : u - OFFSET \in bitmap' /\ u - OFFSET \notin bitmap,
             \A p \in PagesToMap(c)' : p \in Page /\ ~ is_present(mem, p)
      PROVE  LInv'
  <2>1. \A d \in CPU : d # c => /\ CallPages(d)' = CallPages(d)
                                /\ PagesToMap(d)' = PagesToMap(d)
                                /\ Pending(d)' = Pending(d)
    BY <1>2, Others, Zenon
  <2>2. Apart' /\ Held' \subseteq Held
    BY <1>3, <1>4, <2>1, ApartKept, Zenon DEF LInv
  <2>3. \A u \in PendingFrames' : /\ u - OFFSET \in bitmap'
                                  /\ u \in PendingFrames \/ u - OFFSET \notin bitmap
    <3>1. ASSUME NEW u \in PendingFrames'
          PROVE  /\ u - OFFSET \in bitmap'
                 /\ u \in PendingFrames \/ u - OFFSET \notin bitmap
      <4>1. PICK d \in CPU : u \in Pending(d)'
        BY Zenon DEF PendingFrames
      <4>2. d # c => u \in PendingFrames /\ u - OFFSET \in bitmap
        BY <2>1, <4>1, Zenon DEF PendingFrames, LInv, HeldInv
      <4> QED BY <1>4, <4>1, <4>2, Zenon
    <3> QED BY <3>1, Zenon
  <2>4. \A p : Backed(mem, p) => is_present(mem, p)
    BY Zenon DEF Backed, Path, is_present
  <2> QED BY <1>3, <1>4, <2>1, <2>2, <2>3, <2>4, QuietHeld, Zenon
<1>5. CASE alloc_pages_none(c) \/ map_physical_taken(c) \/ map_physical_none(c)
           \/ map_physical_panic(c)
  <2>1. pc'[c] \in {"idle", "panic"}
    BY <1>1, <1>5, Zenon DEF alloc_pages_none, map_physical_taken, map_physical_none,
                      map_physical_panic, ReturnNone, Panic
  <2>2. bitmap' = bitmap
    <3>1. CASE map_physical_none(c)
      <4> DEFINE N == PhyIndices(req[c].phy, MapAmount(req[c]))
      <4>1. MapAmount(req[c]) \in Nat /\ req[c].phy \in Nat
        BY <1>1 DEF MapAmount, Request
      <4>2. N \cap bitmap = {}
        BY <1>1, <3>1, <4>1, ReservePhy, Zenon DEF map_physical_none
      <4>3. bitmap' = (bitmap \cup N) \ N
        BY <3>1, Zenon DEF map_physical_none, bitmap_after_release, bitmap_after_alloc_phy
      <4> HIDE DEF N
      <4> QED BY <4>2, <4>3, Zenon
    <3>2. CASE alloc_pages_none(c) \/ map_physical_taken(c) \/ map_physical_panic(c)
      BY <3>2, Zenon DEF alloc_pages_none, map_physical_taken, map_physical_panic
    <3> QED BY <1>5, <3>1, <3>2, Zenon
  <2>3. Pending(c)' = {} /\ CallPages(c)' = {} /\ PagesToMap(c)' = {}
    BY <2>1, Zenon DEF Pending, CallPages, PagesToMap, Mapping
  <2> QED BY <1>4, <2>2, <2>3, Zenon
<1>6. CASE dealloc_pages_lock(c)
  <2>1. /\ pc[c] = "dealloc_pages" /\ pc'[c] = "freeing" /\ req' = req
        /\ bitmap' = bitmap
    BY <1>1, <1>6, Zenon DEF dealloc_pages_lock
  <2>2. Pending(c)' = {} /\ CallPages(c)' = CallPages(c) /\ PagesToMap(c)' = {}
    BY <2>1, Zenon DEF Pending, CallPages, PagesToMap, Mapping
  <2> QED BY <1>4, <2>1, <2>2, Zenon
<1>7. Page \subseteq Nat /\ last_page_alloc \in Page
  BY <1>1 DEF Page, TInv, TypeOK
<1>8. ASSUME NEW end \in Page, NEW n \in Nat, end - n + 1 \in Nat
      PROVE  end - n + 1 .. end \subseteq Page
  <2>1. MAX_PAGE_CANONICAL_NUM \in Nat
    BY PageTableAssumption DEF MAX_PAGE_CANONICAL_NUM
  <2>2. end \in Nat /\ end <= MAX_PAGE_CANONICAL_NUM - 1
    BY <2>1 DEF Page
  <2> QED BY <1>8, <2>1, <2>2 DEF Page
<1>9. CASE alloc_pages_lock(c)
  <2> DEFINE n == req[c].amount
             end == free_pages_end(mem, last_page_alloc, n)
  <2>1. n \in Nat \ {0}
    BY <1>1, <1>9 DEF alloc_pages_lock, Request, TInv, AmountInv
  <2>2. /\ end \in Page /\ end - n + 1 \in Nat
        /\ \A p \in end - n + 1 .. end : ~ is_present(mem, p)
    BY <1>7, <1>9, <2>1, FindFreePages, Zenon DEF alloc_pages_lock
  <2> HIDE DEF end
  <2>3. /\ pc' = [pc EXCEPT ![c] = "allocating"]
        /\ req' = [req EXCEPT ![c].first = end - n + 1, ![c].next = end - n + 1]
        /\ bitmap' = bitmap
    BY <1>9, Zenon DEF alloc_pages_lock, end
  <2>4. /\ pc'[c] = "allocating" /\ req'[c].first = end - n + 1
        /\ req'[c].next = end - n + 1 /\ req'[c].amount = n
    BY <1>1, <2>3, Zenon DEF Request
  <2>5. n \in Nat /\ end \in Nat
    BY <1>7, <2>1, <2>2, Zenon
  <2> HIDE DEF n
  <2>6. (end - n + 1) + n - 1 = end /\ (end - n + 1) .. (end - n + 1) - 1 = {}
    BY <2>5, RunArithmetic, Zenon
  <2>7. Pending(c)' = {} /\ CallPages(c)' = {} /\ PagesToMap(c)' = end - n + 1 .. end
    BY <2>4, <2>6, Zenon DEF Pending, CallPages, PagesToMap, Mapping, LastPage
  <2>8. end - n + 1 .. end \subseteq Page
    BY <1>8, <2>2, <2>5, Zenon
  <2> QED BY <1>4, <2>2, <2>3, <2>7, <2>8, Zenon
<1>10. CASE map_physical_lock(c)
  <2> DEFINE n == MapAmount(req[c])
             u == req[c].phy
             end == free_pages_end(mem, last_page_alloc, n)
             N == PhyIndices(u, n)
  <2>1. n \in Nat \ {0} /\ u \in Nat
    BY <1>1, <1>10 DEF map_physical_lock, MapAmount, Request, TInv, AmountInv
  <2> HIDE DEF n
  <2>2. /\ end \in Page /\ end - n + 1 \in Nat
        /\ \A p \in end - n + 1 .. end : ~ is_present(mem, p)
    BY <1>7, <1>10, <2>1, FindFreePages, Zenon DEF map_physical_lock, n
  <2>3. N \cap bitmap = {}
    BY <1>1, <1>10, <2>1, ReservePhy, Zenon DEF map_physical_lock, n
  <2> HIDE DEF end
  <2>4. /\ bitmap' = bitmap \cup N
        /\ pc' = [pc EXCEPT ![c] = "mapping"]
        /\ req' = [req EXCEPT ![c] = [@ EXCEPT !.first = end - n + 1, !.amount = n,
                                               !.next = end - n + 1, !.unaligned = FALSE]]
    BY <1>10, Zenon DEF map_physical_lock, bitmap_after_alloc_phy, n, end
  <2>5. /\ pc'[c] = "mapping" /\ req'[c].first = end - n + 1
        /\ req'[c].next = end - n + 1 /\ req'[c].amount = n /\ req'[c].phy = u
    BY <1>1, <2>4, Zenon DEF Request
  <2>6. \A v \in u .. u + n - 1 : v - OFFSET \in N
    BY <2>1, PhysicalAssumption DEF PhyIndices
  <2> HIDE DEF u
  <2>7. n \in Nat /\ end \in Nat
    BY <1>7, <2>1, <2>2, Zenon
  <2>8. /\ (end - n + 1) + n - 1 = end /\ (end - n + 1) .. (end - n + 1) - 1 = {}
        /\ u + end - (end - n + 1) = u + n - 1
    BY <2>1, <2>7, RunArithmetic
  <2>9. /\ LastPage(req[c])' = end
        /\ PagesToMap(c)' = end - n + 1 .. end /\ CallPages(c)' = {}
    BY <2>5, <2>8, Zenon DEF CallPages, PagesToMap, Mapping, LastPage
  <2>10. Pending(c)' = u .. u + n - 1
    BY <2>5, <2>8, <2>9, Zenon DEF Pending
  <2> HIDE DEF N
  <2>11. end - n + 1 .. end \subseteq Page
    BY <1>8, <2>2, <2>7, Zenon
  <2>12. \A v \in Pending(c)' : v - OFFSET \in bitmap' /\ v - OFFSET \notin bitmap
    BY <2>3, <2>4, <2>6, <2>10, Zenon
  <2> QED BY <1>4, <2>2, <2>4, <2>9, <2>11, <2>12, Zenon
<1> QED BY <1>5, <1>6, <1>9, <1>10, Zenon DEF LockStep

(* Iterations of the loops *)
LEMMA HeldLoop ==
  ASSUME FInv, LInv, MemoryAvailable', NEW c \in CPU, LoopStep(c)
  PROVE  LInv' /\ HeldSame
<1> DEFINE r == req[c]
<1>1. TInv /\ pc \in [CPU -> {"idle", "panic"} \cup Waiting \cup Looping]
      /\ req \in [CPU -> Request] /\ r \in Request
  BY Zenon DEF FInv, TInv, TypeOK
<1>2. r.next \in Nat /\ r.phy \in Nat /\ r.first \in Nat /\ r.amount \in Nat
      /\ LastPage(r) \in Int
  BY <1>1 DEF Request, LastPage
<1>3. \A d \in CPU : d # c => /\ CallPages(d)' = CallPages(d) /\ PagesToMap(d)' = {}
                              /\ Pending(d)' = {}
  BY LoopAlone, Zenon
<1>4. ASSUME Apart', Held' \subseteq Held, mem' = mem, bitmap' = bitmap,
             Pending(c)' = {}, PagesToMap(c)' = {}
      PROVE  LInv' /\ HeldSame
  <2>1. PendingFrames' = {}
    BY <1>3, <1>4, Zenon DEF PendingFrames
  <2>2. \A d \in CPU : PagesToMap(d)' = {}
    BY <1>3, <1>4, Zenon
  <2> QED BY <1>4, <2>1, <2>2, QuietHeld, Zenon DEF HeldSame
<1>5. CASE alloc_pages_return(c) \/ map_physical_return(c)
  <2> DEFINE a == [first |-> r.first, amount |-> r.amount]
  <2>1. /\ pc[c] \in Mapping /\ pc'[c] = "idle" /\ bitmap' = bitmap /\ mem' = mem
        /\ r.next > LastPage(r) /\ allocs' = allocs \cup {a}
    BY <1>1, <1>5, Zenon DEF alloc_pages_return, map_physical_return, IterDone, Unlock, Mapping
  <2>2. AllocatedPages(a) \subseteq CallPages(c)
    BY <1>1, <2>1 DEF AllocatedPages, CallPages, Mapping, LastPage, Request
  <2>3. Pending(c)' = {} /\ CallPages(c)' = {} /\ PagesToMap(c)' = {}
    BY <2>1, Zenon DEF Pending, CallPages, PagesToMap, Mapping
  <2> HIDE DEF a
  <2>4. Apart' /\ Held' \subseteq Held
    BY <1>3, <2>1, <2>2, <2>3, ApartGiven, Zenon DEF LInv
  <2> QED BY <1>4, <2>1, <2>3, <2>4, Zenon
<1>6. CASE dealloc_pages_panic(c) \/ map_loop_panic(c) \/ dealloc_pages_return(c)
  <2>1. pc'[c] \in {"panic", "idle"} /\ bitmap' = bitmap /\ mem' = mem /\ allocs' = allocs
    BY <1>1, <1>6, Zenon DEF dealloc_pages_panic, map_loop_panic, dealloc_pages_return, Panic, Unlock
  <2>2. Pending(c)' = {} /\ CallPages(c)' = {} /\ PagesToMap(c)' = {}
    BY <2>1, Zenon DEF Pending, CallPages, PagesToMap, Mapping
  <2>3. Apart' /\ Held' \subseteq Held
    BY <1>3, <2>1, <2>2, ApartKept, Zenon DEF LInv
  <2> QED BY <1>4, <2>1, <2>2, <2>3, Zenon
<1>7. CASE alloc_pages_step(c) \/ map_physical_step(c)
  <2>1. /\ allocs' = allocs /\ pc' = pc /\ pc[c] \in Mapping
        /\ req'[c].next = r.next + 1 /\ req'[c].first = r.first
        /\ req'[c].amount = r.amount /\ r.next <= LastPage(r)
    BY <1>1, <1>2, <1>7 DEF alloc_pages_step, map_physical_step, Advance, Mapping, Request,
                            IterDone
  <2>2. /\ CallPages(c) = r.first .. r.next - 1 /\ PagesToMap(c) = r.next .. LastPage(r)
        /\ CallPages(c)' = r.first .. (r.next + 1) - 1
        /\ PagesToMap(c)' = r.next + 1 .. LastPage(r)
    BY <2>1, Zenon DEF CallPages, PagesToMap, Mapping, LastPage
  <2> HIDE DEF r
  <2>3. /\ CallPages(c)' \subseteq CallPages(c) \cup {r.next}
        /\ PagesToMap(c)' \subseteq PagesToMap(c) \ {r.next} /\ r.next \in PagesToMap(c)
    BY <1>2, <2>1, <2>2
  <2>4. r.next \in Page /\ r.next \notin Held
    BY <2>3, Zenon DEF LInv, FreshInv, HeldInv
  <2>5. Apart' /\ Held' \subseteq Held \cup {r.next}
    BY <1>3, <2>1, <2>3, <2>4, ApartGrown DEF LInv
  <2>6. PICK u : /\ MapsOnly(mem, mem', r.next, u)
                 /\ bitmap \subseteq bitmap' /\ u - OFFSET \in bitmap'
                 /\ u \in PendingFrames \/ u - OFFSET \notin bitmap
                 /\ PendingFrames' \subseteq PendingFrames \ {u}
    <3>1. CASE alloc_pages_step(c)
      BY <2>4, <3>1, AllocMaps, Zenon DEF r
    <3>2. CASE map_physical_step(c)
      BY <2>4, <3>2, DeviceMaps, Zenon DEF r, LInv, HeldInv
    <3> QED BY <1>7, <3>1, <3>2, Zenon
  <2>7. HeldInv'
    BY <2>4, <2>5, <2>6, HeldMapped, Zenon DEF LInv
  <2>8. FreshInv'
    BY <1>3, <2>3, <2>6, Zenon DEF LInv, FreshInv, MapsOnly, OnlyPage
  <2>9. HeldSame
    BY <2>4, <2>6, Zenon DEF HeldSame, MapsOnly, OnlyPage, LInv, HeldInv
  <2> QED BY <2>5, <2>7, <2>8, <2>9, Zenon DEF LInv
<1>8. CASE dealloc_pages_step(c)
  <2>1. /\ allocs' = allocs /\ pc' = pc /\ pc[c] = "freeing"
        /\ req'[c].next = r.next + 1 /\ req'[c].first = r.first
        /\ req'[c].amount = r.amount /\ r.next <= LastPage(r)
    BY <1>1, <1>2, <1>8 DEF dealloc_pages_step, Advance, Request, IterDone
  <2>2. /\ CallPages(c) = r.next .. LastPage(r) /\ CallPages(c)' = r.next + 1 .. LastPage(r)
        /\ PagesToMap(c)' = {}
    BY <2>1, Zenon DEF CallPages, PagesToMap, Mapping, LastPage
  <2> HIDE DEF r
  <2>3. CallPages(c)' \subseteq CallPages(c) \ {r.next} /\ r.next \in CallPages(c)
    BY <1>2, <2>1, <2>2
  <2>4. Apart' /\ Held' \subseteq Held
    BY <1>3, <2>1, <2>3, ApartKept, Zenon DEF LInv
  <2>5. r.next \in Held /\ r.next \notin Held'
    BY <1>3, <2>1, <2>3, HeldBy DEF LInv, Apart
  <2>6. r.next \in Page
    BY <2>5, Zenon DEF LInv, HeldInv
  <2>7. /\ PendingFrames' = {} /\ OnlyPage(mem, mem', r.next)
        /\ bitmap' = bitmap \ {PageFrame(r.next) - OFFSET}
    BY <1>8, <2>6, DeallocUnmaps, Zenon DEF r
  <2>8. \A p \in Held' : Backed(mem', p) /\ Entry1(mem', p) = Entry1(mem, p)
    BY <2>4, <2>5, <2>7, Zenon DEF OnlyPage, LInv, HeldInv
  <2>9. \A p \in Held' : PageFrame(p) - OFFSET \in bitmap'
    <3>1. \A p \in Page : PageFrame(p) \in Nat
      <4>1. IsMemory(mem) /\ Page \subseteq Nat
        BY <1>1 DEF TInv, TypeOK, Page
      <4>2. \A p \in Page : Entry1(mem, p) \in Entry
        BY <4>1, LevelIdx, EntryAtType, Zenon DEF Entry1
      <4> QED BY <4>2, Zenon DEF PageFrame, Entry
    <3>2. \A p \in Held' : PageFrame(p) # PageFrame(r.next) /\ p \in Page
      BY <2>4, <2>5, Zenon DEF LInv, HeldInv
    <3> QED BY <2>4, <2>6, <2>7, <3>1, <3>2, PhysicalAssumption DEF LInv, HeldInv
  <2>10. HeldInv'
    BY <2>4, <2>7, <2>8, <2>9, HeldKept, Zenon DEF LInv
  <2>11. FreshInv'
    BY <1>3, <2>2, Zenon DEF FreshInv
  <2> QED BY <2>4, <2>8, <2>10, <2>11, Zenon DEF LInv, HeldSame
<1> QED BY <1>5, <1>6, <1>7, <1>8, Zenon DEF LoopStep

(* Every step keeps it. *)
LEMMA HeldStep ==
  FInv /\ LInv /\ MemoryAvailable' /\ [Next]_vars => LInv' /\ HeldSame
<1> SUFFICES ASSUME FInv, LInv, MemoryAvailable', [Next]_vars PROVE LInv' /\ HeldSame
  OBVIOUS
<1>1. ASSUME UNCHANGED <<bitmap, mem, pc, req, allocs>> PROVE LInv' /\ HeldSame
  <2>1. \A d \in CPU : /\ CallPages(d)' = CallPages(d) /\ PagesToMap(d)' = PagesToMap(d)
                       /\ Pending(d)' = Pending(d)
    BY <1>1, Others, Zenon
  <2>2. PendingFrames' = PendingFrames
    BY <2>1, Zenon DEF PendingFrames
  <2>3. Apart' /\ Held' \subseteq Held
    BY <1>1, <2>1, ApartKept, Zenon DEF LInv
  <2>4. \A u \in PendingFrames : u - OFFSET \in bitmap
    BY Zenon DEF LInv, HeldInv
  <2> QED BY <1>1, <2>1, <2>2, <2>3, <2>4, QuietHeld, Zenon DEF HeldSame
<1>2. ASSUME NEW c \in CPU, TlbStep(c) PROVE LInv' /\ HeldSame
  BY <1>1, <1>2, Zenon DEF TlbStep, tlb_fill, tlb_evict
<1>3. ASSUME NEW c \in CPU, CallStep(c) \/ LockStep(c) \/ LoopStep(c)
      PROVE  LInv' /\ HeldSame
  <2>1. CallStep(c) => mem' = mem
    BY ZenonT(30) DEF CallStep, alloc_pages_call, dealloc_pages_call, map_physical_call
  <2>2. LockStep(c) => mem' = mem
    BY ZenonT(30) DEF LockStep, alloc_pages_none, alloc_pages_lock, dealloc_pages_lock,
         map_physical_panic, map_physical_taken, map_physical_none, map_physical_lock
  <2>3. CASE CallStep(c) \/ LockStep(c)
    BY <2>1, <2>2, <2>3, HeldCall, HeldLock, Zenon DEF HeldSame
  <2>4. CASE LoopStep(c)
    BY <2>4, HeldLoop, Zenon
  <2> QED BY <1>3, <2>3, <2>4, Zenon
<1>4. CASE UNCHANGED vars
  BY <1>1, <1>4, Zenon DEF vars
<1> QED BY <1>2, <1>3, <1>4, Zenon DEF Next, Rest

(* As long as a frame of the usable region is free, every page a caller    *)
(* holds stays mapped, whatever the other CPUs allocate, map and free.     *)
THEOREM PagesStayMapped == Spec /\ []MemoryAvailable => []LivePagesMapped
<1>1. FInv /\ LInv => LivePagesMapped
  <2> SUFFICES ASSUME LInv, NEW a \in allocs, NEW p \in AllocatedPages(a)
               PROVE  is_present(mem, p) /\ ~ Entry2(mem, p).huge
    BY Zenon DEF LivePagesMapped
  <2>1. Backed(mem, p)
    BY HeldBy, Zenon DEF LInv, HeldInv
  <2> QED BY <2>1, Zenon DEF Backed, Path, is_present
<1> QED BY <1>1, FrameInit, FrameStep, HeldInit, HeldStep, PTL DEF Spec

(* dealloc_pages reaches the free of a page it was given back. *)
FreeSucceeds ==
  \A c \in CPU : pc[c] = "freeing" /\ ~ IterDone(c) => ~ free_page_panics(req[c].next)

(* The invariants imply it. *)
LEMMA FreeReaches == FInv /\ LInv => FreeSucceeds
<1> SUFFICES ASSUME FInv, LInv, NEW c \in CPU, pc[c] = "freeing", ~ IterDone(c)
             PROVE  ~ free_page_panics(req[c].next)
  BY Zenon DEF FreeSucceeds
<1>1. req[c] \in Request
  BY Zenon DEF FInv, TInv, TypeOK
<1>2. req[c].next \in CallPages(c)
  BY <1>1 DEF CallPages, IterDone, LastPage, Request
<1>3. Backed(mem, req[c].next) /\ PageFrame(req[c].next) - OFFSET \in bitmap
  BY <1>2, HeldBy, Zenon DEF LInv, HeldInv
<1> QED BY <1>3, Zenon DEF free_page_panics, free_frame_panics, has_page_entry_mut, Backed,
                    Path, PageFrame

(* As long as a frame of the usable region is free, neither the unwrap on  *)
(* page_entry_mut nor the assertions of free_frame fail in dealloc_pages:  *)
(* the table is there, and the frame is marked and freed once.             *)
THEOREM FreesNeverPanic == Spec /\ []MemoryAvailable => []FreeSucceeds
BY FreeReaches, FrameInit, FrameStep, HeldInit, HeldStep, PTL DEF Spec
-----------------------------------------------------------------------------
(* Panics *)

(* PanicInv is the inductive invariant, given FInv and LInv: a device that  *)
(* map_physical waits to reserve is one of DeviceFrames, and a CPU that     *)
(* panicked did so for one of two causes.                                   *)
LastRun(r) == LastPage(r) = MAX_PAGE_CANONICAL_NUM - 1

PanicInv ==
  \A c \in CPU :
    /\ pc[c] = "map_physical" => req[c].phy \in DeviceFrames
    /\ pc[c] = "panic" => LastRun(req[c]) \/ OutsideBitmap(req[c])

(* The address space has a first page. *)
LEMMA PageBound == MAX_PAGE_CANONICAL_NUM \in Nat \ {0}
<1>1. E \in Nat \ {0}
  BY PageTableAssumption, Zenon
<1>2. E * E \in Nat \ {0}
  BY <1>1
<1>3. E * E * E \in Nat \ {0}
  BY <1>1, <1>2
<1>4. E * E * E * E \in Nat \ {0}
  BY <1>1, <1>3
<1> QED BY <1>4, Zenon DEF MAX_PAGE_CANONICAL_NUM

(* The iterator panics only at the last page of the address space. *)
LEMMA IterPanics ==
  ASSUME NEW r \in Request, r.next <= LastPage(r), LastPage(r) \in Page,
         ~ has_next_by(r.next, 1)
  PROVE  LastRun(r)
<1>1. MAX_PAGE_CANONICAL_NUM \in Nat \ {0}
  BY PageBound, Zenon
<1>2. r.next \in Nat /\ LastPage(r) \in Nat /\ LastPage(r) < MAX_PAGE_CANONICAL_NUM
  BY <1>1 DEF Page, Request
<1>3. canonical_num(r.next) = r.next
  BY <1>1, <1>2 DEF canonical_num
<1> QED BY <1>1, <1>2, <1>3 DEF has_next_by, LastRun

(* Calls: no allocation that is held ends past the last page. *)
LEMMA PanicCall ==
  ASSUME FInv, LInv, PanicInv, NEW c \in CPU, CallStep(c)
  PROVE  PanicInv'
<1>1. pc \in [CPU -> {"idle", "panic"} \cup Waiting \cup Looping] /\ req \in [CPU -> Request]
      /\ allocs \subseteq PageAllocation
  BY Zenon DEF FInv, TInv, TypeOK
<1>2. \A d \in CPU : d # c => pc'[d] = pc[d] /\ req'[d] = req[d]
  BY <1>1, ZenonT(30) DEF CallStep, alloc_pages_call, dealloc_pages_call, map_physical_call, Call
<1>3. ASSUME NEW a \in allocs PROVE has_next_by(a.first, a.amount - 1)
  <2>1. a.first \in Nat /\ a.amount \in Nat \ {0}
    BY <1>1, Zenon DEF PageAllocation
  <2>2. a.first \in AllocatedPages(a) /\ a.first + a.amount - 1 \in AllocatedPages(a)
    BY <2>1 DEF AllocatedPages
  <2>3. a.first \in Page /\ a.first + a.amount - 1 \in Page
    BY <2>2, HeldBy, Zenon DEF LInv, HeldInv
  <2> QED BY <2>1, <2>3, PageBound DEF has_next_by, canonical_num, Page
<1>4. pc'[c] # "panic" /\ (pc'[c] = "map_physical" => req'[c].phy \in DeviceFrames)
  <2>1. ASSUME NEW n \in Amounts, alloc_pages_call(c, n)
        PROVE  pc'[c] = "alloc_pages"
    BY <1>1, <2>1, Zenon DEF alloc_pages_call, Call
  <2>2. ASSUME NEW a \in allocs, dealloc_pages_call(c, a)
        PROVE  pc'[c] = "dealloc_pages"
    BY <1>1, <1>3, <2>2, Zenon DEF dealloc_pages_call, Call
  <2>3. ASSUME NEW f \in DeviceFrames, NEW u \in BOOLEAN, NEW n \in Amounts,
               map_physical_call(c, f, u, n)
        PROVE  pc'[c] = "map_physical" /\ req'[c].phy = f
    BY <1>1, <2>3, Zenon DEF map_physical_call, Call, NoRequest
  <2> QED BY <2>1, <2>2, <2>3, Zenon DEF CallStep
<1> QED BY <1>2, <1>4, Zenon DEF PanicInv

(* Steps that take the lock: alloc_phy_addr panics. *)
LEMMA PanicLock ==
  ASSUME FInv, PanicInv, NullFrame \notin DeviceFrames, NEW c \in CPU, LockStep(c)
  PROVE  PanicInv'
<1>1. pc \in [CPU -> {"idle", "panic"} \cup Waiting \cup Looping] /\ req \in [CPU -> Request]
      /\ AmountInv
  BY Zenon DEF FInv, TInv, TypeOK
<1>2. \A d \in CPU : d # c => pc'[d] = pc[d] /\ req'[d] = req[d]
  BY <1>1, Zenon DEF LockStep, alloc_pages_none, alloc_pages_lock, dealloc_pages_lock,
         map_physical_panic, map_physical_taken, map_physical_none, map_physical_lock,
         ReturnNone, Panic, CanLock, MapReserves
<1>3. CASE map_physical_panic(c)
  <2>1. /\ pc[c] = "map_physical" /\ pc'[c] = "panic" /\ req' = req
        /\ alloc_phy_addr_panics(bitmap, req[c].phy, MapAmount(req[c]))
    BY <1>1, <1>3, Zenon DEF map_physical_panic, Panic, CanLock
  <2>2. /\ req[c].phy # NullFrame
        /\ req[c].phy \in Nat /\ MapAmount(req[c]) \in Nat \ {0}
    BY <1>1, <2>1 DEF PanicInv, AmountInv, MapAmount, Request
  <2>3. OutsideBitmap(req[c])
    <3> DEFINE f == req[c].phy
               N == PhyIndices(f, MapAmount(req[c]))
    <3>1. OFFSET \in Nat /\ BITMAP_SIZE \in Nat /\ BitIndex = 0 .. BITMAP_SIZE - 1
      BY PhysicalAssumption, Zenon DEF BitIndex
    <3>2. f - OFFSET \in N /\ N \subseteq Int
      BY <2>2, <3>1 DEF PhyIndices
    <3>3. f < OFFSET \/ \E i \in N : i >= BITMAP_SIZE
      BY <2>1, Zenon DEF alloc_phy_addr_panics
    <3> HIDE DEF N
    <3>4. ~ (N \subseteq BitIndex)
      BY <2>2, <3>1, <3>2, <3>3
    <3> QED BY <2>2, <3>4, Zenon DEF OutsideBitmap, N
  <2> QED BY <1>2, <2>1, <2>3, Zenon DEF PanicInv
<1>4. CASE ~ map_physical_panic(c)
  <2>1. pc'[c] \notin {"panic", "map_physical"}
    BY <1>1, <1>4, Zenon DEF LockStep, alloc_pages_none, alloc_pages_lock, dealloc_pages_lock,
           map_physical_taken, map_physical_none, map_physical_lock, ReturnNone, CanLock,
           MapReserves
  <2> QED BY <1>2, <2>1, Zenon DEF PanicInv
<1> QED BY <1>3, <1>4, Zenon

(* The loops: PageIter panics, and nothing else does. *)
LEMMA PanicLoop ==
  ASSUME FInv, LInv, PanicInv, NEW c \in CPU, LoopStep(c)
  PROVE  PanicInv'
<1>1. pc \in [CPU -> {"idle", "panic"} \cup Waiting \cup Looping] /\ req \in [CPU -> Request]
      /\ req[c] \in Request
  BY Zenon DEF FInv, TInv, TypeOK
<1>2. \A d \in CPU : d # c => pc'[d] = pc[d] /\ req'[d] = req[d]
  BY LoopAlone, Zenon
<1>3. CASE dealloc_pages_panic(c) \/ map_loop_panic(c)
  <2>1. /\ pc[c] \in Looping /\ pc'[c] = "panic" /\ req' = req /\ ~ IterDone(c)
        /\ iter_next_panics(c) \/ (pc[c] = "freeing" /\ free_page_panics(req[c].next))
    BY <1>1, <1>3, Zenon DEF dealloc_pages_panic, map_loop_panic, Panic, Looping
  <2>2. ~ has_next_by(req[c].next, 1)
    BY <2>1, FreeReaches, Zenon DEF FreeSucceeds, iter_next_panics
  <2>3. /\ req[c].next <= LastPage(req[c])
        /\ LastPage(req[c]) \in PagesToMap(c) \cup CallPages(c)
    BY <1>1, <2>1 DEF IterDone, LastPage, Request, PagesToMap, CallPages, Looping, Mapping
  <2>4. LastPage(req[c]) \in Page
    BY <2>3, HeldBy, Zenon DEF LInv, HeldInv, FreshInv
  <2>5. LastRun(req[c])
    BY <1>1, <2>2, <2>3, <2>4, IterPanics, Zenon
  <2> QED BY <1>2, <2>1, <2>5, Zenon DEF PanicInv
<1>4. CASE ~ (dealloc_pages_panic(c) \/ map_loop_panic(c))
  <2>1. pc'[c] \notin {"panic", "map_physical"}
    BY <1>1, <1>4, Zenon DEF LoopStep, alloc_pages_step, alloc_pages_return, dealloc_pages_step,
             dealloc_pages_return, map_physical_step, map_physical_return, Unlock
  <2> QED BY <1>2, <2>1, Zenon DEF PanicInv
<1> QED BY <1>3, <1>4, Zenon

(* As long as a frame of the usable region is free, and with no device at   *)
(* address 0, a CPU panics in the allocator only for a run of pages that    *)
(* ends with the last one, or for a device the bitmap has no bool for.      *)
THEOREM PanicsExplained ==
  NullFrame \notin DeviceFrames => (Spec /\ []MemoryAvailable => []NoPanic)
<1> SUFFICES ASSUME NullFrame \notin DeviceFrames
             PROVE  Spec /\ []MemoryAvailable => []NoPanic
  OBVIOUS
<1>1. Init => PanicInv
  BY Zenon DEF Init, PanicInv
<1>2. FInv /\ LInv /\ PanicInv /\ MemoryAvailable' /\ [Next]_vars => PanicInv'
  <2> SUFFICES ASSUME FInv, LInv, PanicInv, [Next]_vars PROVE PanicInv'
    OBVIOUS
  <2>1. ASSUME UNCHANGED <<pc, req>> PROVE PanicInv'
    BY <2>1, Zenon DEF PanicInv, LastRun, LastPage, OutsideBitmap, MapAmount
  <2>2. ASSUME NEW c \in CPU, TlbStep(c) PROVE UNCHANGED <<pc, req>>
    BY <2>2, Zenon DEF TlbStep, tlb_fill, tlb_evict
  <2>3. UNCHANGED vars => UNCHANGED <<pc, req>>
    BY Zenon DEF vars
  <2> QED BY <2>1, <2>2, <2>3, PanicCall, PanicLock, PanicLoop, Zenon DEF Next, Rest
<1>3. PanicInv => NoPanic
  BY Zenon DEF PanicInv, NoPanic, LastRun
<1> QED BY <1>1, <1>2, <1>3, FrameInit, FrameStep, HeldInit, HeldStep, PTL DEF Spec
-----------------------------------------------------------------------------
(* Translations.  On one CPU, a translation in the cache is the one in the  *)
(* tables, of a page that is mapped with a level-1 entry.                   *)
TlbInv ==
  \A c \in CPU : \A t \in tlb[c] : Backed(mem, t.page) /\ PageFrame(t.page) = t.frame

(* A loop: a page that is unmapped is invalidated, and one that is mapped   *)
(* had no translation, so that map_physical need not invalidate it.         *)
LEMMA TlbLoop ==
  ASSUME FInv, LInv, TlbInv, MemoryAvailable', \A c, d \in CPU : c = d,
         NEW c \in CPU, LoopStep(c)
  PROVE  TlbInv'
<1>1. /\ tlb \in [CPU -> SUBSET Translation] /\ req[c] \in Request
      /\ \A t \in tlb[c] : t.page \in Page
  BY DEF FInv, TInv, TypeOK, Translation
<1>2. ASSUME NEW q, OnlyPage(mem, mem', q),
             tlb'[c] \subseteq {t \in tlb[c] : t.page # q}
      PROVE  TlbInv'
  BY <1>1, <1>2, Zenon DEF TlbInv, OnlyPage, PageFrame
<1>3. CASE alloc_pages_step(c) \/ map_physical_step(c)
  <2>1. pc[c] \in Mapping /\ ~ IterDone(c)
    BY <1>3, Zenon DEF alloc_pages_step, map_physical_step, Mapping
  <2>2. req[c].next \in PagesToMap(c)
    BY <1>1, <2>1 DEF PagesToMap, IterDone, LastPage, Request
  <2>3. req[c].next \in Page /\ ~ Backed(mem, req[c].next)
    BY <2>2, Zenon DEF LInv, FreshInv
  <2>4. OnlyPage(mem, mem', req[c].next)
    BY <1>3, <2>3, AllocMaps, DeviceMaps, Zenon DEF MapsOnly
  <2>5. tlb'[c] \subseteq tlb[c]
    BY <1>1, <1>3, Zenon DEF alloc_pages_step, map_physical_step, invlpg
  <2> QED BY <1>2, <2>3, <2>4, <2>5, Zenon DEF TlbInv
<1>4. CASE dealloc_pages_step(c)
  <2>1. pc[c] = "freeing" /\ ~ IterDone(c) /\ tlb' = invlpg(c, req[c].next)
    BY <1>4, Zenon DEF dealloc_pages_step
  <2>2. req[c].next \in CallPages(c)
    BY <1>1, <2>1 DEF CallPages, IterDone, LastPage, Request
  <2>3. req[c].next \in Page
    BY <2>2, HeldBy, Zenon DEF LInv, HeldInv
  <2>4. OnlyPage(mem, mem', req[c].next)
    BY <1>4, <2>3, DeallocUnmaps, Zenon
  <2>5. tlb'[c] \subseteq {t \in tlb[c] : t.page # req[c].next}
    BY <1>1, <2>1, Zenon DEF invlpg
  <2> QED BY <1>2, <2>4, <2>5, Zenon
<1>5. CASE ~ (alloc_pages_step(c) \/ map_physical_step(c) \/ dealloc_pages_step(c))
  <2>1. UNCHANGED <<mem, tlb>>
    BY <1>5, Zenon DEF LoopStep, alloc_pages_return, dealloc_pages_panic, dealloc_pages_return,
         map_physical_return, map_loop_panic
  <2> QED BY <2>1, Zenon DEF TlbInv, PageFrame
<1> QED BY <1>3, <1>4, <1>5, Zenon

(* On a single CPU, as long as a frame of the usable region is free, every  *)
(* translation the MMU has cached is the one in the page tables: alloc_pages *)
(* and dealloc_pages invalidate what they change, and map_physical, which   *)
(* does not, never changes a page that was mapped.                          *)
THEOREM TranslationsCurrent ==
  (\A c, d \in CPU : c = d) => (Spec /\ []MemoryAvailable => []TlbCoherent)
<1> SUFFICES ASSUME \A c, d \in CPU : c = d
             PROVE  Spec /\ []MemoryAvailable => []TlbCoherent
  OBVIOUS
<1>1. Init => TlbInv
  BY Zenon DEF Init, TlbInv
<1>2. FInv /\ LInv /\ TlbInv /\ MemoryAvailable' /\ [Next]_vars => TlbInv'
  <2> SUFFICES ASSUME FInv, LInv, TlbInv, MemoryAvailable', [Next]_vars PROVE TlbInv'
    OBVIOUS
  <2>1. ASSUME UNCHANGED <<mem, tlb>> PROVE TlbInv'
    BY <2>1, Zenon DEF TlbInv, PageFrame
  <2>2. ASSUME NEW c \in CPU, CallStep(c) PROVE UNCHANGED <<mem, tlb>>
    BY <2>2, ZenonT(30) DEF CallStep, alloc_pages_call, dealloc_pages_call, map_physical_call
  <2>3. ASSUME NEW c \in CPU, LockStep(c) PROVE UNCHANGED <<mem, tlb>>
    BY <2>3, ZenonT(30) DEF LockStep, alloc_pages_none, alloc_pages_lock, dealloc_pages_lock,
         map_physical_panic, map_physical_taken, map_physical_none, map_physical_lock
  <2>4. ASSUME NEW c \in CPU, TlbStep(c) PROVE TlbInv'
    <3>1. mem' = mem /\ tlb \in [CPU -> SUBSET Translation]
      BY <2>4, Zenon DEF TlbStep, tlb_fill, tlb_evict, FInv, TInv, TypeOK
    <3>2. ASSUME NEW p \in Page, tlb_fill(c, p) PROVE TlbInv'
      <4>1. Backed(mem, p)
        BY <3>2, Zenon DEF tlb_fill, is_present, Backed, Path
      <4>2. tlb'[c] = tlb[c] \cup {[page |-> p, frame |-> PageFrame(p)]}
        BY <3>1, <3>2, Zenon DEF tlb_fill
      <4> QED BY <3>1, <4>1, <4>2 DEF TlbInv, PageFrame
    <3>3. ASSUME NEW t \in tlb[c], tlb_evict(c, t) PROVE TlbInv'
      BY <3>1, <3>3, Zenon DEF TlbInv, tlb_evict, PageFrame
    <3> QED BY <2>4, <3>2, <3>3, Zenon DEF TlbStep
  <2>5. UNCHANGED vars => UNCHANGED <<mem, tlb>>
    BY Zenon DEF vars
  <2> QED BY <2>1, <2>2, <2>3, <2>4, <2>5, TlbLoop, Zenon DEF Next, Rest
<1>3. FInv /\ TlbInv => TlbCoherent
  BY Zenon DEF TlbInv, TlbCoherent, Backed, Path, is_present
<1> QED BY <1>1, <1>2, <1>3, FrameInit, FrameStep, HeldInit, HeldStep, PTL DEF Spec
-----------------------------------------------------------------------------
(* Frames are not lost: unless a CPU panicked halfway, a marked frame is    *)
(* referred to by an entry or reserved by map_physical.                     *)

Panicked == \E c \in CPU : pc[c] = "panic"

Traced == Panicked \/ Covered([bitmap |-> bitmap, mem |-> mem], PendingFrames)

(* The bitmap starts empty. *)
LEMMA TracedInit == Init => Traced
BY Zenon DEF Init, Traced, Covered

(* A panic never returns. *)
LEMMA PanicStays ==
  ASSUME FInv, NEW c \in CPU, CallStep(c) \/ LockStep(c) \/ LoopStep(c), Panicked
  PROVE  Panicked'
<1>1. pc \in [CPU -> {"idle", "panic"} \cup Waiting \cup Looping]
  BY Zenon DEF FInv, TInv, TypeOK
<1>2. pc[c] # "panic" /\ \A d \in CPU : d # c => pc'[d] = pc[d]
  <2>1. CASE CallStep(c)
    BY <1>1, <2>1, ZenonT(30) DEF CallStep, alloc_pages_call, dealloc_pages_call,
           map_physical_call, Call
  <2>2. CASE LockStep(c)
    BY <1>1, <2>2, Zenon DEF LockStep, alloc_pages_none, alloc_pages_lock, dealloc_pages_lock,
           map_physical_panic, map_physical_taken, map_physical_none, map_physical_lock,
           ReturnNone, Panic, CanLock, MapReserves
  <2>3. CASE LoopStep(c)
    <3>1. pc[c] # "panic"
      BY <2>3, Zenon DEF LoopStep, alloc_pages_step, alloc_pages_return, dealloc_pages_step,
             dealloc_pages_panic, dealloc_pages_return, map_physical_step,
             map_physical_return, map_loop_panic
    <3> QED BY <2>3, <3>1, LoopAlone, Zenon
  <2> QED BY <2>1, <2>2, <2>3, Zenon
<1> QED BY <1>2, Zenon DEF Panicked

(* A step that leaves the bitmap, the tables and the reserved frames alone. *)
LEMMA QuietTraced ==
  ASSUME Covered([bitmap |-> bitmap, mem |-> mem], PendingFrames),
         bitmap' = bitmap, mem' = mem, NEW c \in CPU, Pending(c) = {},
         \A d \in CPU : d # c => pc'[d] = pc[d] /\ req'[d] = req[d]
  PROVE  Traced'
<1>1. PendingFrames \subseteq PendingFrames'
  BY Others, Zenon DEF PendingFrames
<1> QED BY <1>1, Zenon DEF Traced, Covered

(* Calls and the steps that take the lock *)
LEMMA TracedCall ==
  ASSUME FInv, NEW c \in CPU, CallStep(c) \/ LockStep(c),
         Covered([bitmap |-> bitmap, mem |-> mem], PendingFrames)
  PROVE  Traced'
<1>1. /\ pc \in [CPU -> {"idle", "panic"} \cup Waiting \cup Looping]
      /\ req \in [CPU -> Request] /\ bitmap \subseteq BitIndex /\ TInv
  BY Zenon DEF FInv, TInv, TypeOK
<1>2. CASE CallStep(c)
  <2>1. /\ pc[c] = "idle" /\ bitmap' = bitmap /\ mem' = mem
        /\ \A d \in CPU : d # c => pc'[d] = pc[d] /\ req'[d] = req[d]
    BY <1>1, <1>2, ZenonT(30) DEF CallStep, alloc_pages_call, dealloc_pages_call,
           map_physical_call, Call
  <2>2. Pending(c) = {}
    BY <2>1, Zenon DEF Pending
  <2> QED BY <2>1, <2>2, QuietTraced, Zenon
<1>3. CASE LockStep(c)
  <2> USE DEF CanLock, MapReserves
  <2>1. \A d \in CPU : d # c => pc'[d] = pc[d] /\ req'[d] = req[d]
    BY <1>1, <1>3, Zenon DEF LockStep, alloc_pages_none, alloc_pages_lock, dealloc_pages_lock,
           map_physical_panic, map_physical_taken, map_physical_none, map_physical_lock,
           ReturnNone, Panic
  <2>2. pc[c] \in Waiting /\ mem' = mem
    BY <1>3, Zenon DEF LockStep, alloc_pages_none, alloc_pages_lock, dealloc_pages_lock,
           map_physical_panic, map_physical_taken, map_physical_none, map_physical_lock,
           Waiting
  <2>3. Pending(c) = {}
    BY <2>2, Zenon DEF Pending, Waiting
  <2>4. CASE alloc_pages_none(c) \/ alloc_pages_lock(c) \/ dealloc_pages_lock(c)
             \/ map_physical_panic(c) \/ map_physical_taken(c)
    <3>1. bitmap' = bitmap
      BY <2>4, Zenon DEF alloc_pages_none, alloc_pages_lock, dealloc_pages_lock,
             map_physical_panic, map_physical_taken
    <3> QED BY <2>1, <2>2, <2>3, <3>1, QuietTraced, Zenon
  <2> DEFINE n == MapAmount(req[c])
             u == req[c].phy
             N == PhyIndices(u, n)
  <2>5. n \in Nat /\ u \in Nat
    BY <1>1 DEF MapAmount, Request
  <2>6. CASE map_physical_none(c)
    <3>1. N \cap bitmap = {}
      BY <1>1, <2>5, <2>6, ReservePhy, Zenon DEF map_physical_none
    <3>2. bitmap' = (bitmap \cup N) \ N
      BY <2>6, Zenon DEF map_physical_none, bitmap_after_release, bitmap_after_alloc_phy
    <3> HIDE DEF N
    <3>3. bitmap' = bitmap
      BY <3>1, <3>2, Zenon
    <3> QED BY <2>1, <2>2, <2>3, <3>3, QuietTraced, Zenon
  <2>7. CASE map_physical_lock(c)
    <3>1. Pending(c)' = u .. u + n - 1 /\ bitmap' = bitmap \cup N
      BY <2>7, MapLocks, Zenon
    <3>2. \A b \in N : b + OFFSET \in u .. u + n - 1
      BY <2>5, PhysicalAssumption DEF PhyIndices
    <3> HIDE DEF N, n, u
    <3>3. \A d \in CPU : d # c => Pending(d)' = Pending(d)
      BY <2>1, Others, Zenon
    <3>4. PendingFrames \subseteq PendingFrames'
      BY <2>3, <3>3, Zenon DEF PendingFrames
    <3>5. Pending(c)' \subseteq PendingFrames'
      BY Zenon DEF PendingFrames
    <3>6. \A b \in N : b + OFFSET \in PendingFrames'
      BY <3>1, <3>2, <3>5, Zenon
    <3> QED BY <2>2, <3>1, <3>4, <3>6, Zenon DEF Traced, Covered
  <2> QED BY <1>3, <2>4, <2>6, <2>7, Zenon DEF LockStep
<1> QED BY <1>2, <1>3, Zenon

(* Iterations of the loops *)
LEMMA TracedLoop ==
  ASSUME FInv, LInv, MemoryAvailable', NEW c \in CPU, LoopStep(c),
         Covered([bitmap |-> bitmap, mem |-> mem], PendingFrames)
  PROVE  Traced'
<1> DEFINE r == req[c]
<1>1. /\ pc \in [CPU -> {"idle", "panic"} \cup Waiting \cup Looping]
      /\ r \in Request /\ r.next \in Nat /\ r.phy \in Nat /\ LastPage(r) \in Int
  BY DEF FInv, TInv, TypeOK, Request, LastPage
<1>2. ASSUME pc[c] \in Mapping, ~ IterDone(c) PROVE ~ Backed(mem, r.next)
  <2>1. r.next \in PagesToMap(c)
    BY <1>1, <1>2 DEF PagesToMap, IterDone
  <2> QED BY <2>1, Zenon DEF LInv, FreshInv
<1>3. CASE alloc_pages_step(c)
  <2>1. ~ Backed(mem, r.next)
    BY <1>2, <1>3, Zenon DEF alloc_pages_step, Mapping
  <2> QED BY <1>3, <2>1, AllocMaps, Zenon DEF Traced
<1>4. CASE map_physical_step(c)
  <2>1. ~ Backed(mem, r.next)
    BY <1>2, <1>4, Zenon DEF map_physical_step, Mapping
  <2> QED BY <1>4, <2>1, DeviceMaps, Zenon DEF Traced
<1>5. CASE dealloc_pages_step(c)
  BY <1>5, DeallocUnmaps, Zenon DEF Traced
<1>6. CASE dealloc_pages_panic(c) \/ map_loop_panic(c)
  <2>1. pc' = [pc EXCEPT ![c] = "panic"]
    BY <1>6, Zenon DEF dealloc_pages_panic, map_loop_panic, Panic
  <2>2. pc'[c] = "panic"
    BY <1>1, <2>1, Zenon
  <2> QED BY <2>2, Zenon DEF Traced, Panicked
<1>7. CASE alloc_pages_return(c) \/ map_physical_return(c) \/ dealloc_pages_return(c)
  <2>1. /\ bitmap' = bitmap /\ mem' = mem /\ IterDone(c)
    BY <1>7, Zenon DEF alloc_pages_return, map_physical_return, dealloc_pages_return
  <2>2. Pending(c) = {}
    <3>1. r.phy .. r.phy + LastPage(r) - r.next = {}
      <4>1. r.next > LastPage(r)
        BY <2>1, Zenon DEF IterDone
      <4> HIDE DEF r
      <4> QED BY <1>1, <4>1
    <3> QED BY <3>1, Zenon DEF Pending
  <2> QED BY <2>1, <2>2, LoopAlone, QuietTraced, Zenon
<1> QED BY <1>3, <1>4, <1>5, <1>6, <1>7, Zenon DEF LoopStep

(* Every step keeps it. *)
LEMMA TracedStep ==
  FInv /\ LInv /\ Traced /\ MemoryAvailable' /\ [Next]_vars => Traced'
<1> SUFFICES ASSUME FInv, LInv, Traced, MemoryAvailable', [Next]_vars PROVE Traced'
  OBVIOUS
<1>1. ASSUME UNCHANGED <<bitmap, mem, pc, req>> PROVE Traced'
  <2>1. PendingFrames' = PendingFrames
    BY <1>1, Others, Zenon DEF PendingFrames
  <2> QED BY <1>1, <2>1, Zenon DEF Traced, Panicked
<1>2. ASSUME NEW c \in CPU, TlbStep(c) PROVE Traced'
  BY <1>1, <1>2, Zenon DEF TlbStep, tlb_fill, tlb_evict
<1>3. ASSUME NEW c \in CPU, CallStep(c) \/ LockStep(c) \/ LoopStep(c) PROVE Traced'
  <2>1. CASE Panicked
    BY <1>3, <2>1, PanicStays, Zenon DEF Traced
  <2>2. CASE ~ Panicked
    BY <1>3, <2>2, TracedCall, TracedLoop, Zenon DEF Traced
  <2> QED BY <2>1, <2>2, Zenon
<1>4. CASE UNCHANGED vars
  BY <1>1, <1>4, Zenon DEF vars
<1> QED BY <1>2, <1>3, <1>4, Zenon DEF Next, Rest

(* As long as a frame of the usable region is free and no CPU panicked,    *)
(* alloc_pages, dealloc_pages and map_physical lose no frame: a marked one *)
(* backs a page or a table, or is about to be mapped.                      *)
THEOREM NothingLeaks == Spec /\ []MemoryAvailable => []NoFrameLeaked
<1>1. Traced => NoFrameLeaked
  BY Zenon DEF Traced, Panicked, Covered, NoFrameLeaked, PendingFrames, Points, RefersTo
<1> QED BY <1>1, FrameInit, FrameStep, HeldInit, HeldStep, TracedInit, TracedStep, PTL DEF Spec
-----------------------------------------------------------------------------
(* The contract of the trait *)

(* What a step does to the allocations callers hold. *)
LEMMA AllocsStep ==
  ASSUME FInv, [Next]_vars
  PROVE  \/ allocs' = allocs
         \/ mem' = mem /\ \E a \in allocs : allocs' = allocs \ {a}
         \/ mem' = mem /\ \E c \in CPU, a \in PageAllocation :
              allocs' = allocs \cup {a} /\ AllocatedPages(a) \subseteq CallPages(c)
<1>1. ASSUME NEW c \in CPU, NEW a \in allocs, dealloc_pages_call(c, a)
      PROVE  mem' = mem /\ allocs' = allocs \ {a}
  BY <1>1, Zenon DEF dealloc_pages_call
<1>2. ASSUME NEW c \in CPU, alloc_pages_return(c) \/ map_physical_return(c)
      PROVE  mem' = mem /\ \E a \in PageAllocation :
               allocs' = allocs \cup {a} /\ AllocatedPages(a) \subseteq CallPages(c)
  <2> DEFINE r == req[c]
             a == [first |-> r.first, amount |-> r.amount]
  <2>1. r \in Request /\ (pc[c] # "idle" => r.amount > 0)
    BY Zenon DEF FInv, TInv, TypeOK, AmountInv
  <2>2. /\ pc[c] \in Mapping /\ mem' = mem /\ r.next > LastPage(r)
        /\ allocs' = allocs \cup {a}
    BY <1>2, <2>1, Zenon DEF alloc_pages_return, map_physical_return, IterDone, Mapping
  <2>3. AllocatedPages(a) \subseteq CallPages(c)
    BY <2>1, <2>2 DEF AllocatedPages, CallPages, Mapping, LastPage, Request
  <2>4. a \in PageAllocation
    BY <2>1, <2>2 DEF PageAllocation, Request, Mapping
  <2> QED BY <2>2, <2>3, <2>4, Zenon
<1>3. ASSUME NEW c \in CPU, CallStep(c), ~ \E a \in allocs : dealloc_pages_call(c, a)
      PROVE  allocs' = allocs
  BY <1>3, ZenonT(30) DEF CallStep, alloc_pages_call, map_physical_call
<1>4. ASSUME NEW c \in CPU, LockStep(c) \/ TlbStep(c) PROVE allocs' = allocs
  BY <1>4, ZenonT(30) DEF LockStep, alloc_pages_none, alloc_pages_lock, dealloc_pages_lock,
         map_physical_panic, map_physical_taken, map_physical_none, map_physical_lock,
         TlbStep, tlb_fill, tlb_evict
<1>5. ASSUME NEW c \in CPU, LoopStep(c), ~ (alloc_pages_return(c) \/ map_physical_return(c))
      PROVE  allocs' = allocs
  BY <1>5, ZenonT(30) DEF LoopStep, alloc_pages_step, dealloc_pages_step, dealloc_pages_panic,
         dealloc_pages_return, map_physical_step, map_loop_panic
<1>6. ASSUME UNCHANGED vars PROVE allocs' = allocs
  BY <1>6, Zenon DEF vars
<1>7. ASSUME NEW c \in CPU, CallStep(c) \/ LockStep(c) \/ LoopStep(c) \/ TlbStep(c)
      PROVE  \/ allocs' = allocs
             \/ mem' = mem /\ \E a \in allocs : allocs' = allocs \ {a}
             \/ mem' = mem /\ \E d \in CPU, a \in PageAllocation :
                  allocs' = allocs \cup {a} /\ AllocatedPages(a) \subseteq CallPages(d)
  BY <1>1, <1>2, <1>3, <1>4, <1>5, <1>7, ZenonT(30)
<1> QED BY <1>6, <1>7, ZenonT(30) DEF Next, Rest

(* Two allocations look different to the contract. *)
LEMMA GrantedFacts ==
  /\ \A a, b \in PageAllocation : Granted(a) = Granted(b) => a = b
  /\ \A a : /\ Granted(a).first = a.first /\ Granted(a).amount = a.amount
            /\ Granted(a).frame = [p \in AllocatedPages(a) |-> PageFrame(p)]
            /\ Contract!PagesOf(Granted(a)) = AllocatedPages(a)
<1>1. \A a : /\ Granted(a).first = a.first /\ Granted(a).amount = a.amount
             /\ Granted(a).frame = [p \in AllocatedPages(a) |-> PageFrame(p)]
  BY Zenon DEF Granted
<1>2. \A a, b \in PageAllocation : Granted(a) = Granted(b) => a = b
  <2>1. ASSUME NEW a \in PageAllocation, NEW b \in PageAllocation, Granted(a) = Granted(b)
        PROVE  a = b
    <3>1. a.first = b.first /\ a.amount = b.amount
      BY <1>1, <2>1, Zenon
    <3> QED BY <3>1 DEF PageAllocation
  <2> QED BY <2>1, Zenon
<1>3. \A a : Contract!PagesOf(Granted(a)) = AllocatedPages(a)
  BY <1>1, Zenon DEF Contract!PagesOf, AllocatedPages
<1> QED BY <1>1, <1>2, <1>3, Zenon

(* Pages held before and after a step show the contract the same frames. *)
LEMMA GrantedSame ==
  ASSUME HeldSame, NEW a \in allocs, a \in allocs'
  PROVE  Granted(a)' = Granted(a)
<1>1. \A p \in AllocatedPages(a) : PageFrame(p)' = PageFrame(p)
  BY HeldBy, Zenon DEF HeldSame, PageFrame
<1>2. AllocatedPages(a)' = AllocatedPages(a)
  BY Zenon DEF AllocatedPages
<1>3. [p \in AllocatedPages(a) |-> PageFrame(p)'] = [p \in AllocatedPages(a) |-> PageFrame(p)]
  BY <1>1, Zenon
<1> QED BY <1>2, <1>3, Zenon DEF Granted

(* Two allocations share no page and no frame. *)
LEMMA NoOverlap ==
  ASSUME LInv, NEW S, NEW T, S \subseteq Held, T \subseteq Held, S \cap T = {}
  PROVE  {PageFrame(p) : p \in S} \cap {PageFrame(p) : p \in T} = {}
BY Zenon DEF LInv, HeldInv

(* Every step is a step of the contract, or none. *)
LEMMA ContractStep ==
  ASSUME FInv, LInv, LInv', HeldSame, [Next]_vars
  PROVE  [Contract!Next]_Owned
<1>1. allocs \subseteq PageAllocation
  BY Zenon DEF FInv, TInv, TypeOK
<1>2. CASE allocs' = allocs
  <2>1. \A a \in allocs : Granted(a)' = Granted(a)
    BY <1>2, GrantedSame, Zenon
  <2>2. Owned' = Owned
    BY <1>2, <2>1, Zenon DEF Owned
  <2> QED BY <2>2, Zenon
<1>3. ASSUME NEW a \in allocs, allocs' = allocs \ {a}
      PROVE  Contract!Next
  <2>1. \A b \in allocs' : Granted(b)' = Granted(b)
    BY <1>3, GrantedSame, Zenon
  <2>2. Owned' = Owned \ {Granted(a)}
    <3>1. Owned' = {Granted(b) : b \in allocs \ {a}}
      BY <1>3, <2>1, Zenon DEF Owned
    <3>2. \A b \in allocs \ {a} : Granted(b) # Granted(a)
      BY <1>1, GrantedFacts, Zenon
    <3>3. {Granted(b) : b \in allocs \ {a}} = {Granted(b) : b \in allocs} \ {Granted(a)}
      BY <3>2, ZenonT(30)
    <3> QED BY <3>1, <3>3, Zenon DEF Owned
  <2>3. Granted(a) \in Owned
    BY Zenon DEF Owned
  <2> QED BY <2>2, <2>3, Zenon DEF Contract!Next, Contract!Release
<1>4. ASSUME mem' = mem, NEW c \in CPU, NEW a \in PageAllocation,
             allocs' = allocs \cup {a}, AllocatedPages(a) \subseteq CallPages(c)
      PROVE  Contract!Next
  <2>1. AllocatedPages(a) # {}
    BY DEF AllocatedPages, PageAllocation
  <2>2. \A b \in allocs : AllocatedPages(a) \cap AllocatedPages(b) = {}
    BY <1>4, Zenon DEF LInv, Apart
  <2>3. a \notin allocs
    BY <2>1, <2>2, Zenon
  <2>4. Granted(a)' = Granted(a)
    BY <1>4, Zenon DEF Granted, PageFrame, AllocatedPages
  <2>5. Owned' = Owned \cup {Granted(a)}
    <3>1. \A b \in allocs' : Granted(b)' = Granted(b)
      BY <1>4, <2>4, GrantedSame, Zenon
    <3> QED BY <1>4, <3>1, ZenonT(30) DEF Owned
  <2>6. Granted(a) \notin Owned /\ Granted(a) \in Owned'
    <3>1. \A b \in allocs : Granted(b) # Granted(a)
      BY <1>1, <2>3, GrantedFacts, Zenon
    <3> QED BY <2>5, <3>1, Zenon DEF Owned
  <2>7. Granted(a).amount > 0
    BY GrantedFacts DEF PageAllocation
  <2>8. AllocatedPages(a) \subseteq Held /\ \A b \in allocs : AllocatedPages(b) \subseteq Held
    BY <1>4, HeldBy, Zenon
  <2>9. \A b : Contract!Range(Granted(b).frame) = {PageFrame(p) : p \in AllocatedPages(b)}
    <3>1. ASSUME NEW b
          PROVE  Contract!Range(Granted(b).frame) = {PageFrame(p) : p \in AllocatedPages(b)}
      <4>1. PICK F : F = Granted(b).frame /\ F = [p \in AllocatedPages(b) |-> PageFrame(p)]
        BY GrantedFacts, Zenon
      <4>2. DOMAIN F = AllocatedPages(b) /\ \A p \in AllocatedPages(b) : F[p] = PageFrame(p)
        BY <4>1, Zenon
      <4>3. {F[x] : x \in DOMAIN F} = {PageFrame(p) : p \in AllocatedPages(b)}
        BY <4>2, Zenon
      <4> QED BY <4>1, <4>3, Zenon DEF Contract!Range
    <3> QED BY <3>1, Zenon
  <2>10. Granted(a).frame \in Contract!Injection(Contract!PagesOf(Granted(a)),
                                                 Contract!Range(Granted(a).frame))
    <3>1. \A p, q \in AllocatedPages(a) : PageFrame(p) = PageFrame(q) => p = q
      BY <2>8, Zenon DEF LInv, HeldInv
    <3>2. [p \in AllocatedPages(a) |-> PageFrame(p)] \in
            [AllocatedPages(a) -> {PageFrame(p) : p \in AllocatedPages(a)}]
      OBVIOUS
    <3>3. PICK F : F = [p \in AllocatedPages(a) |-> PageFrame(p)]
      BY Zenon
    <3>4. DOMAIN F = AllocatedPages(a) /\ \A p \in AllocatedPages(a) : F[p] = PageFrame(p)
      BY <3>3, Zenon
    <3>5. Contract!IsInjective(F)
      BY <3>1, <3>4, Zenon DEF Contract!IsInjective
    <3>6. F \in Contract!Injection(AllocatedPages(a), {PageFrame(p) : p \in AllocatedPages(a)})
      BY <3>2, <3>3, <3>5, Zenon DEF Contract!Injection
    <3> QED BY <2>9, <3>3, <3>6, GrantedFacts, Zenon
  <2>11. \A b \in Owned : ~ Contract!Overlap(Granted(a), b)
    <3>1. ASSUME NEW b \in allocs PROVE ~ Contract!Overlap(Granted(a), Granted(b))
      <4>1. {PageFrame(p) : p \in AllocatedPages(a)}
              \cap {PageFrame(p) : p \in AllocatedPages(b)} = {}
        BY <2>2, <2>8, NoOverlap, Zenon
      <4> QED BY <2>2, <2>9, <4>1, GrantedFacts, Zenon DEF Contract!Overlap
    <3> QED BY <3>1, Zenon DEF Owned
  <2> QED BY <2>5, <2>6, <2>7, <2>10, <2>11, Zenon DEF Contract!Next, Contract!Grant
<1> QED BY <1>2, <1>3, <1>4, AllocsStep, Zenon

(* As long as a frame of the usable region is free, the allocator refines  *)
(* the contract of the PageAllocator trait: what it hands out overlaps     *)
(* nothing that is held, in pages or in frames, and no other CPU's call    *)
(* changes it before it is given back.                                     *)
THEOREM ContractKept == Spec /\ []MemoryAvailable => ImplementsContract
<1>1. Init => Contract!Init
  BY Zenon DEF Init, Contract!Init, Owned
<1>2. FInv /\ LInv /\ MemoryAvailable' /\ [Next]_vars => [Contract!Next]_Owned
  BY HeldStep, ContractStep, Zenon
<1> QED BY <1>1, <1>2, FrameInit, FrameStep, HeldInit, HeldStep, PTL
        DEF Spec, ImplementsContract, Contract!Spec
=============================================================================
