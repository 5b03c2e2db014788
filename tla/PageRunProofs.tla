--------------------------- MODULE PageRunProofs ----------------------------
(***************************************************************************)
(* Runs of pages: the loop of find_free_pages returns the first free run,  *)
(* in every page table, from every start page and for every number of      *)
(* pages; and the allocators above it give back just the pages they took,  *)
(* for every page size, layout and region.                                 *)
(***************************************************************************)
EXTENDS PageRuns, FiniteSetTheorems, PageTableProofs

(* The size of the address space is a natural, and page numbers within it  *)
(* are canonical.                                                          *)
LEMMA AddressSpace ==
  /\ MAX_PAGE_CANONICAL_NUM \in Nat
  /\ \A p \in Page : p \in Nat /\ canonical_num(p) = p
<1>1. MAX_PAGE_CANONICAL_NUM \in Nat
  BY PageTableAssumption DEF MAX_PAGE_CANONICAL_NUM
<1> QED BY <1>1 DEF Page, canonical_num

(* The loop invariant: the last free_page_count pages are free, the page   *)
(* before them is not, and no run ended before `page`.                     *)
LoopInv ==
  /\ mem \in Memories /\ start_page \in Page /\ num_pages \in Nat \ {0}
  /\ page \in start_page .. MAX_PAGE_CANONICAL_NUM - 1
  /\ free_page_count \in 0 .. num_pages
  /\ free_page_count <= page - start_page + 1
  /\ free_page_count > 0 => first_page = page - free_page_count + 1
  /\ \A p \in page - free_page_count + 1 .. page : ~ is_present(mem, p)
  /\ free_page_count < page - start_page + 1 => is_present(mem, page - free_page_count)
  /\ \A e \in FreeRunEnds(mem, start_page, num_pages) :
       page <= e /\ (free_page_count < num_pages => page < e)
  /\ returned \in BOOLEAN
  /\ returned => ~ Searching

(* The values before the first iteration satisfy the loop invariant. *)
LEMMA LoopInit == Init => LoopInv
<1> SUFFICES ASSUME Init PROVE LoopInv
  OBVIOUS
<1>1. /\ start_page \in Page /\ start_page \in Nat /\ num_pages \in Nat \ {0}
      /\ MAX_PAGE_CANONICAL_NUM \in Nat /\ start_page < MAX_PAGE_CANONICAL_NUM
      /\ page = start_page
  BY AddressSpace, SearchAssumption DEF Init, Page
<1>2. \A e \in FreeRunEnds(mem, start_page, num_pages) :
        /\ e \in Nat /\ e >= start_page + num_pages - 1
        /\ \A p \in e - num_pages + 1 .. e : ~ is_present(mem, p)
  BY <1>1 DEF FreeRunEnds
<1>3. CASE is_present(mem, start_page)
  <2>1. free_page_count = 0
    BY <1>3, Zenon DEF Init
  <2>2. ASSUME NEW e \in FreeRunEnds(mem, start_page, num_pages)
        PROVE  start_page < e
    <3>1. CASE e = start_page
      <4>1. start_page \in e - num_pages + 1 .. e
        BY <1>1, <1>2, <3>1
      <4> QED BY <1>2, <1>3, <4>1, Zenon
    <3> QED BY <1>1, <1>2, <3>1
  <2>3. /\ page - 0 = page /\ page - start_page + 1 = 1
        /\ \A p \in page - 0 + 1 .. page : ~ is_present(mem, p)
        /\ page \in start_page .. MAX_PAGE_CANONICAL_NUM - 1 /\ 0 \in 0 .. num_pages
    BY <1>1
  <2>4. mem \in Memories /\ returned \in BOOLEAN /\ ~ returned
    BY Zenon DEF Init
  <2>5. \A e \in FreeRunEnds(mem, start_page, num_pages) : page <= e /\ page < e
    BY <1>1, <1>2, <2>2
  <2> QED BY <1>1, <1>3, <2>1, <2>3, <2>4, <2>5 DEF LoopInv
<1>4. CASE ~ is_present(mem, start_page)
  <2>1. free_page_count = 1 /\ first_page = start_page
    BY <1>4, Zenon DEF Init
  <2>2. \A p \in page - 1 + 1 .. page : ~ is_present(mem, p)
    BY <1>1, <1>4
  <2>3. /\ page - 1 + 1 = page /\ page - start_page + 1 = 1
        /\ page \in start_page .. MAX_PAGE_CANONICAL_NUM - 1 /\ 1 \in 0 .. num_pages
    BY <1>1
  <2>4. mem \in Memories /\ returned \in BOOLEAN /\ ~ returned
    BY Zenon DEF Init
  <2>5. \A e \in FreeRunEnds(mem, start_page, num_pages) :
          page <= e /\ (1 < num_pages => page < e)
    BY <1>1, <1>2
  <2> QED BY <1>1, <2>1, <2>2, <2>3, <2>4, <2>5 DEF LoopInv
<1> QED BY <1>3, <1>4, Zenon

(* An iteration over a free page extends the run. *)
LEMMA LoopFree == LoopInv /\ next_page_free => LoopInv'
<1> SUFFICES ASSUME LoopInv, next_page_free PROVE LoopInv'
  OBVIOUS
<1> DEFINE R == FreeRunEnds(mem, start_page, num_pages)
           n == free_page_count
<1>1. /\ page \in Page /\ page \in Nat /\ start_page \in Nat /\ start_page <= page
      /\ num_pages \in Nat \ {0} /\ n \in Nat /\ n < num_pages /\ n <= page - start_page + 1
      /\ MAX_PAGE_CANONICAL_NUM \in Nat /\ page + 1 < MAX_PAGE_CANONICAL_NUM
      /\ page' = page + 1 /\ free_page_count' = n + 1
      /\ ~ is_present(mem, page + 1)
      /\ UNCHANGED <<mem, start_page, num_pages, returned>> /\ ~ returned
  BY AddressSpace DEF LoopInv, next_page_free, Searching, has_next_by, Page
<1>2. first_page' = (page + 1) - (n + 1) + 1
  <2>1. CASE n = 0
    BY <1>1, <2>1 DEF next_page_free
  <2>2. CASE n > 0
    <3>1. first_page = page - n + 1 /\ first_page' = first_page
      BY <1>1, <2>2 DEF LoopInv, next_page_free
    <3> QED BY <1>1, <3>1
  <2> QED BY <1>1, <2>1, <2>2
<1>3. \A p \in (page + 1) - (n + 1) + 1 .. page + 1 : ~ is_present(mem, p)
  <2>1. \A p \in page - n + 1 .. page : ~ is_present(mem, p)
    BY Zenon DEF LoopInv
  <2> QED BY <1>1, <2>1
<1>4. n + 1 < (page + 1) - start_page + 1 => is_present(mem, (page + 1) - (n + 1))
  <2>1. (page + 1) - (n + 1) = page - n
    BY <1>1
  <2>2. n < page - start_page + 1 => is_present(mem, page - n)
    BY Zenon DEF LoopInv
  <2> QED BY <1>1, <2>1, <2>2
<1>5. ASSUME NEW e \in R
      PROVE  page + 1 <= e /\ (n + 1 < num_pages => page + 1 < e)
  <2>1. /\ e \in Nat /\ e >= start_page + num_pages - 1 /\ page < e
        /\ \A p \in e - num_pages + 1 .. e : ~ is_present(mem, p)
    BY <1>1 DEF LoopInv, FreeRunEnds
  <2>2. ASSUME n + 1 < num_pages, e = page + 1 PROVE FALSE
    <3>1. page - n \in e - num_pages + 1 .. e
      BY <1>1, <2>1, <2>2
    <3>2. n < page - start_page + 1
      BY <1>1, <2>1, <2>2
    <3> QED BY <2>1, <3>1, <3>2, Zenon DEF LoopInv
  <2> QED BY <1>1, <2>1, <2>2
<1>6. mem \in Memories /\ start_page \in Page
  BY Zenon DEF LoopInv
<1> QED BY <1>1, <1>2, <1>3, <1>4, <1>5, <1>6 DEF LoopInv

(* An iteration over a present page starts again. *)
LEMMA LoopPresent == LoopInv /\ next_page_present => LoopInv'
<1> SUFFICES ASSUME LoopInv, next_page_present PROVE LoopInv'
  OBVIOUS
<1>1. /\ page \in Page /\ page \in Nat /\ start_page \in Nat /\ start_page <= page
      /\ num_pages \in Nat \ {0} /\ free_page_count < num_pages
      /\ MAX_PAGE_CANONICAL_NUM \in Nat /\ page + 1 < MAX_PAGE_CANONICAL_NUM
      /\ page' = page + 1 /\ free_page_count' = 0
      /\ is_present(mem, page + 1)
      /\ UNCHANGED <<mem, start_page, num_pages, returned>> /\ ~ returned
  BY AddressSpace DEF LoopInv, next_page_present, Searching, has_next_by, Page
<1>2. ASSUME NEW e \in FreeRunEnds(mem, start_page, num_pages) PROVE page + 1 < e
  <2>1. /\ e \in Nat /\ page < e
        /\ \A p \in e - num_pages + 1 .. e : ~ is_present(mem, p)
    BY <1>1 DEF LoopInv, FreeRunEnds
  <2>2. e # page + 1
    <3>1. e \in e - num_pages + 1 .. e
      BY <1>1, <2>1
    <3> QED BY <1>1, <2>1, <3>1, Zenon
  <2> QED BY <1>1, <2>1, <2>2
<1>3. mem \in Memories /\ start_page \in Page
  BY Zenon DEF LoopInv
<1>4. /\ (page + 1) - 0 = page + 1 /\ 0 <= (page + 1) - start_page + 1
      /\ \A p \in (page + 1) - 0 + 1 .. page + 1 : ~ is_present(mem, p)
      /\ page + 1 \in start_page .. MAX_PAGE_CANONICAL_NUM - 1 /\ 0 \in 0 .. num_pages
  BY <1>1
<1>5. \A e \in FreeRunEnds(mem, start_page, num_pages) : page + 1 <= e /\ page + 1 < e
  <2>1. \A e \in FreeRunEnds(mem, start_page, num_pages) : e \in Nat
    BY <1>1 DEF FreeRunEnds
  <2> QED BY <1>1, <1>2, <2>1
<1> QED BY <1>1, <1>3, <1>4, <1>5 DEF LoopInv

(* The invariant, when the loop has ended, says what was returned. *)
LEMMA LoopResult == LoopInv => ReturnsFirstRun
<1> SUFFICES ASSUME LoopInv, returned PROVE ReturnsFirstRun
  BY Zenon DEF ReturnsFirstRun
<1> DEFINE R == FreeRunEnds(mem, start_page, num_pages)
<1>1. /\ page \in Page /\ page \in Nat /\ start_page \in Nat /\ start_page <= page
      /\ num_pages \in Nat \ {0} /\ free_page_count \in Nat /\ free_page_count <= num_pages
      /\ MAX_PAGE_CANONICAL_NUM \in Nat /\ page < MAX_PAGE_CANONICAL_NUM
      /\ free_page_count < num_pages => page + 1 >= MAX_PAGE_CANONICAL_NUM
  BY AddressSpace DEF LoopInv, Searching, has_next_by, Page
<1>2. R \in SUBSET Nat /\ \A e \in R : e < MAX_PAGE_CANONICAL_NUM
  BY <1>1 DEF FreeRunEnds
<1>3. CASE free_page_count = num_pages
  <2>1. page \in R
    BY <1>1, <1>3 DEF LoopInv, FreeRunEnds
  <2>2. \A e \in R : page <= e
    BY Zenon DEF LoopInv
  <2> HIDE DEF R
  <2>3. PICK x : x = Min(R)
    OBVIOUS
  <2>4. x \in R /\ \A e \in R : x <= e
    BY <1>2, <2>1, <2>3, MinNat, Zenon
  <2>5. x = page
    BY <1>1, <1>2, <2>1, <2>2, <2>4
  <2>6. first_page = page - num_pages + 1
    BY <1>1, <1>3 DEF LoopInv
  <2> QED BY <1>3, <2>1, <2>3, <2>5, <2>6, Zenon
          DEF ReturnsFirstRun, ReturnedSome, found_free_pages, free_pages_end, R
<1>4. CASE free_page_count < num_pages
  <2>1. R = {}
    <3>1. \A e \in R : page < e
      BY <1>4, Zenon DEF LoopInv
    <3> HIDE DEF R
    <3> QED BY <1>1, <1>2, <1>4, <3>1
  <2> QED BY <1>1, <1>4, <2>1 DEF ReturnsFirstRun, ReturnedSome, found_free_pages
<1> QED BY <1>1, <1>3, <1>4

(* find_free_pages returns the first run of free pages, for every page     *)
(* table, start page and number of pages; None only if there is none.      *)
THEOREM FindFreePagesCorrect == Spec => []ReturnsFirstRun
<1>1. LoopInv /\ [Next]_vars => LoopInv'
  <2> SUFFICES ASSUME LoopInv, [Next]_vars PROVE LoopInv'
    OBVIOUS
  <2>1. CASE return
    BY <2>1, Zenon DEF return, LoopInv, Searching
  <2>2. CASE UNCHANGED vars
    BY <2>2, Zenon DEF vars, LoopInv, Searching
  <2> QED BY <2>1, <2>2, LoopFree, LoopPresent, Zenon DEF Next
<1> QED BY <1>1, LoopInit, LoopResult, PTL DEF Spec

-----------------------------------------------------------------------------
(* HeapAllocator *)

(* Division by a positive number rounds down, and % is what remains. *)
LEMMA Quotient ==
  ASSUME NEW a \in Nat, NEW d \in Nat \ {0}
  PROVE  \E q \in Nat, r \in 0 .. d - 1 : q = a \div d /\ r = a % d /\ a = d * q + r
<1>1. a % d \in 0 .. d - 1
  OBVIOUS
<1>2. a \div d \in Nat
  OBVIOUS
<1>3. PICK q \in Nat, r \in 0 .. d - 1 : q = a \div d /\ r = a % d
  BY <1>1, <1>2, Zenon
<1>4. a = d * q + r
  BY <1>3
<1> QED BY <1>3, <1>4, Zenon

(* There is one quotient. *)
LEMMA DivIs ==
  ASSUME NEW d \in Nat \ {0}, NEW q \in Nat, NEW r \in 0 .. d - 1
  PROVE  (d * q + r) \div d = q /\ (d * q + r) % d = r
<1> DEFINE a == d * q + r
<1>1. a \in Nat
  OBVIOUS
<1>2. PICK k \in Nat, m \in 0 .. d - 1 : k = a \div d /\ m = a % d /\ a = d * k + m
  BY <1>1, Quotient, Zenon
<1>3. d * q + r = d * k + m
  BY <1>2, Zenon
<1>4. k = q
  <2>1. d * (k - q) = r - m
    BY <1>3
  <2>2. CASE k - q >= 1
    <3>1. d * (k - q) >= d
      BY <2>2
    <3> QED BY <2>1, <3>1
  <2>3. CASE q - k >= 1
    <3>1. d * (q - k) >= d
      BY <2>3
    <3> QED BY <2>1, <3>1
  <2> QED BY <2>2, <2>3
<1>5. m = r
  BY <1>3, <1>4
<1> QED BY <1>2, <1>4, <1>5, Zenon

(* Rounding a multiple up leaves it. *)
LEMMA RoundUpMultiple ==
  ASSUME NEW d \in Nat \ {0}, NEW q \in Nat
  PROVE  Heap!next_multiple_of(d * q, d) = d * q
<1>1. d - 1 \in 0 .. d - 1 /\ d * q + d - 1 = d * q + (d - 1)
  OBVIOUS
<1>2. (d * q + (d - 1)) \div d = q
  BY <1>1, DivIs, Zenon
<1> QED BY <1>1, <1>2 DEF Heap!next_multiple_of

(* An address in a page that an alignment divides is aligned in the page if *)
(* it is aligned, and stays so wherever the page is.                        *)
LEMMA AlignedInPage ==
  ASSUME NEW align \in Nat \ {0}, PAGE_SIZE \in Nat \ {0}, PAGE_SIZE % align = 0,
         NEW addr \in Nat, addr % align = 0, NEW first \in Nat
  PROVE  Heap!next_multiple_of(first * PAGE_SIZE + (addr % PAGE_SIZE), align)
           = first * PAGE_SIZE + (addr % PAGE_SIZE)
<1>1. PICK q \in Nat : PAGE_SIZE = align * q
  BY Quotient
<1>2. PICK s \in Nat : addr = align * s
  BY Quotient
<1>3. PICK t \in Nat, o \in 0 .. PAGE_SIZE - 1 : o = addr % PAGE_SIZE /\ addr = PAGE_SIZE * t + o
  BY Quotient
<1> DEFINE n == first * q + s - q * t
<1>4. first * PAGE_SIZE + o = align * n
  <2>1. o = align * s - (align * q) * t
    BY <1>1, <1>2, <1>3
  <2>2. (align * q) * t = align * (q * t) /\ first * (align * q) = align * (first * q)
    OBVIOUS
  <2>3. q * t \in Nat /\ first * q \in Nat
    OBVIOUS
  <2>4. align * n = align * (first * q) + align * s - align * (q * t)
    BY <2>3
  <2> QED BY <1>1, <2>1, <2>2, <2>4, Zenon
<1>5. n \in Int
  OBVIOUS
<1>6. n \in Nat
  <2>1. first * PAGE_SIZE + o >= 0
    BY <1>3
  <2> HIDE DEF n
  <2>2. CASE n <= -1
    <3>1. align * n <= -align
      BY <1>5, <2>2
    <3> QED BY <1>4, <2>1, <3>1
  <2> QED BY <1>5, <2>2
<1> HIDE DEF n
<1>7. Heap!next_multiple_of(align * n, align) = align * n
  BY <1>6, RoundUpMultiple, Zenon
<1> QED BY <1>3, <1>4, <1>7, Zenon
-----------------------------------------------------------------------------
Pages(a) == a.first .. a.first + a.amount - 1

(* What stands behind a block and behind a mapping *)
Backs(a, b) ==
  /\ b.size \in Nat \ {0} /\ b.size <= a.amount * PAGE_SIZE
  /\ b.ptr = a.first * PAGE_SIZE
  /\ a.first = Heap!DeallocFirst(b) /\ a.amount = Heap!DeallocAmount(b)

Maps(a, m) ==
  /\ m.physical_start \in Nat /\ m.region_length \in Nat \ {0}
  /\ (m.physical_start % PAGE_SIZE) + m.region_length <= a.amount * PAGE_SIZE
  /\ m.virtual_start = a.first * PAGE_SIZE + (m.physical_start % PAGE_SIZE)
  /\ a.first = Heap!UnmapFirst(m) /\ a.amount = Heap!UnmapAmount(m)
  /\ a.frame = [p \in Pages(a) |-> m.physical_start \div PAGE_SIZE + p - a.first]

(* The allocations that are held lie apart, and there is just one for each  *)
(* block and each mapping.                                                  *)
HeldApart ==
  /\ \A a \in owned : a.first \in Nat /\ a.amount \in Nat \ {0}
  /\ \A a, b \in owned : a # b => Pages(a) \cap Pages(b) = {}

OneEach ==
  /\ \A b \in blocks : \E a \in owned : Backs(a, b)
  /\ \A m \in mappings : \E a \in owned : Maps(a, m)
  /\ \A b, d \in blocks : Heap!DeallocFirst(b) = Heap!DeallocFirst(d) => b = d
  /\ \A m, n \in mappings : Heap!UnmapFirst(m) = Heap!UnmapFirst(n) => m = n
  /\ \A b \in blocks, m \in mappings : Heap!DeallocFirst(b) # Heap!UnmapFirst(m)

Counted ==
  /\ IsFiniteSet(owned) /\ IsFiniteSet(blocks) /\ IsFiniteSet(mappings)
  /\ Cardinality(owned) = Cardinality(blocks) + Cardinality(mappings)

HeapInv == HeldApart /\ OneEach /\ Counted

(* Nothing is held at first. *)
LEMMA HeapInit == Heap!Init => HeapInv
BY FS_EmptySet DEF Heap!Init, HeapInv, HeldApart, OneEach, Counted

(* What is granted lies apart from what is held. *)
LEMMA GrantedApart ==
  ASSUME HeldApart, NEW a, a.first \in Nat, a.amount \in Nat, Heap!Granted(a)
  PROVE  /\ owned' = owned \cup {a} /\ a \notin owned /\ a.amount > 0
         /\ \A b \in owned : Pages(a) \cap Pages(b) = {}
         /\ \A b \in owned : a.first # b.first
         /\ HeldApart'
<1>1. owned' = owned \cup {a} /\ a \notin owned /\ a.amount > 0
      /\ \A b \in owned : Pages(a) \cap Pages(b) = {}
  BY Zenon DEF Heap!Granted, Heap!Trait!Grant, Heap!Trait!Overlap, Heap!Trait!PagesOf, Pages
<1>2. ASSUME NEW b \in owned PROVE a.first # b.first
  <2>1. a.first \in Pages(a) /\ (a.first = b.first => a.first \in Pages(b))
    BY <1>1 DEF HeldApart, Pages
  <2> QED BY <1>1, <2>1, Zenon
<1> QED BY <1>1, <1>2 DEF HeldApart

(* An allocation is known by its first page. *)
LEMMA FirstUnique ==
  ASSUME HeldApart, NEW a \in owned, NEW b \in owned, a.first = b.first
  PROVE  a = b
<1>1. a.first \in Pages(a) /\ a.first \in Pages(b)
  BY DEF HeldApart, Pages
<1> QED BY <1>1, Zenon DEF HeldApart

(* page_amount is enough for a size, and an amount that is computed again   *)
(* is the same.                                                             *)
LEMMA PageAmount ==
  ASSUME PAGE_SIZE \in Nat \ {0}, NEW align \in Nat \ {0}, PAGE_SIZE % align = 0,
         NEW size \in Nat \ {0}
  PROVE  /\ Heap!page_amount(size, align) \in Nat \ {0}
         /\ size < Heap!page_amount(size, align) * PAGE_SIZE
<1>1. PICK q \in Nat, r \in 0 .. PAGE_SIZE - 1 : q = size \div PAGE_SIZE /\ size = PAGE_SIZE * q + r
  BY Quotient
<1>2. Heap!page_amount(size, align) = q + 1
  BY <1>1 DEF Heap!page_amount
<1>3. (q + 1) * PAGE_SIZE = PAGE_SIZE * q + PAGE_SIZE
  OBVIOUS
<1> QED BY <1>1, <1>2, <1>3

(* alloc takes as many pages as the block needs, and puts it into them. *)
LEMMA AllocStep ==
  ASSUME Heap!HeapConstants, HeapInv, NEW l \in Layouts, Heap!alloc(l)
  PROVE  HeapInv'
<1>1. /\ PAGE_SIZE \in Nat \ {0} /\ l.size \in Nat \ {0} /\ l.align \in Nat \ {0}
      /\ PAGE_SIZE % l.align = 0
  BY Zenon DEF Heap!HeapConstants
<1> DEFINE n == Heap!page_amount(l.size, l.align)
<1>2. n \in Nat \ {0} /\ l.size < n * PAGE_SIZE
  BY <1>1, PageAmount, Zenon
<1>3. PICK first \in FirstPages :
        /\ Heap!Granted(Heap!Allocation(first, n, Heap!RamFrame(first)))
        /\ blocks' = blocks \cup {[ptr |-> Heap!next_multiple_of(first * PAGE_SIZE, l.align),
                                   size |-> l.size, align |-> l.align]}
        /\ mappings' = mappings
  BY Zenon DEF Heap!alloc
<1>4. first \in Nat
  BY Zenon DEF Heap!HeapConstants
<1>5. Heap!next_multiple_of(first * PAGE_SIZE, l.align) = first * PAGE_SIZE
  <2>1. 0 % PAGE_SIZE = 0 /\ 0 % l.align = 0
    BY <1>1
  <2>2. Heap!next_multiple_of(first * PAGE_SIZE + 0, l.align) = first * PAGE_SIZE + 0
    BY <1>1, <1>4, <2>1, AlignedInPage
  <2> QED BY <1>1, <1>4, <2>2
<1> DEFINE a == Heap!Allocation(first, n, Heap!RamFrame(first))
           b == [ptr |-> first * PAGE_SIZE, size |-> l.size, align |-> l.align]
<1>6. a.first = first /\ a.amount = n
  BY Zenon DEF Heap!Allocation
<1>7. b.ptr = first * PAGE_SIZE /\ b.size = l.size /\ b.align = l.align
  OBVIOUS
<1>8. blocks' = blocks \cup {b}
  BY <1>3, <1>5, Zenon
<1>9. Heap!Granted(a)
  BY <1>3, Zenon
<1> HIDE DEF a, b, n
<1>10. Heap!DeallocFirst(b) = first /\ Heap!DeallocAmount(b) = n
  <2>1. (PAGE_SIZE * first + 0) \div PAGE_SIZE = first
    BY <1>1, <1>4, DivIs
  <2>2. first * PAGE_SIZE = PAGE_SIZE * first + 0
    BY <1>1, <1>4
  <2> QED BY <1>7, <2>1, <2>2, Zenon DEF Heap!DeallocFirst, Heap!DeallocAmount, n
<1>11. Backs(a, b)
  BY <1>1, <1>2, <1>6, <1>7, <1>10 DEF Backs
<1>12. /\ owned' = owned \cup {a} /\ a \notin owned /\ HeldApart'
       /\ \A c \in owned : c.first # first
  BY <1>2, <1>4, <1>6, <1>9, GrantedApart, Zenon DEF HeapInv
<1>13. /\ \A d \in blocks : Heap!DeallocFirst(d) # first
       /\ \A m \in mappings : Heap!UnmapFirst(m) # first
  BY <1>12, Zenon DEF HeapInv, OneEach, Backs, Maps
<1>14. OneEach'
  BY <1>3, <1>8, <1>10, <1>11, <1>12, <1>13 DEF HeapInv, OneEach
<1>15. Counted'
  <2>1. b \notin blocks
    BY <1>10, <1>13, Zenon
  <2>2. /\ IsFiniteSet(owned') /\ Cardinality(owned') = Cardinality(owned) + 1
        /\ IsFiniteSet(blocks') /\ Cardinality(blocks') = Cardinality(blocks) + 1
    BY <1>8, <1>12, <2>1, FS_AddElement, Zenon DEF HeapInv, Counted
  <2>3. Cardinality(blocks) \in Nat /\ Cardinality(mappings) \in Nat /\ Cardinality(owned) \in Nat
    BY FS_CardinalityType, Zenon DEF HeapInv, Counted
  <2> QED BY <1>3, <2>2, <2>3 DEF HeapInv, Counted
<1> QED BY <1>12, <1>14, <1>15, Zenon DEF HeapInv

(* map_physical_region asks for enough pages, wherever the table starts. *)
LEMMA MapAmount ==
  ASSUME Heap!HeapConstants, NEW r \in Regions
  PROVE  /\ Heap!MapPages(r) \in Nat \ {0}
         /\ r.addr % PAGE_SIZE \in 0 .. PAGE_SIZE - 1
         /\ (r.addr % PAGE_SIZE) + r.size <= Heap!MapPages(r) * PAGE_SIZE
         /\ r.addr \div PAGE_SIZE \in Nat
<1>1. /\ PAGE_SIZE \in Nat \ {0} /\ r.size \in Nat \ {0} /\ r.align \in Nat \ {0}
      /\ PAGE_SIZE % r.align = 0 /\ r.addr \in Nat
  BY Zenon DEF Heap!HeapConstants
<1>2. PICK n : n = Heap!page_amount(r.size, r.align)
  OBVIOUS
<1>3. n \in Nat \ {0} /\ r.size < n * PAGE_SIZE
  BY <1>1, <1>2, PageAmount, Zenon
<1>4. PICK q \in Nat, o \in 0 .. PAGE_SIZE - 1 : q = r.addr \div PAGE_SIZE /\ o = r.addr % PAGE_SIZE
  BY <1>1, Quotient
<1>5. Heap!MapPages(r) = n + (IF o = 0 THEN 0 ELSE 1)
  BY <1>2, <1>4, Zenon DEF Heap!MapPages
<1>6. (n + 1) * PAGE_SIZE = n * PAGE_SIZE + PAGE_SIZE /\ (n + 0) * PAGE_SIZE = n * PAGE_SIZE
      /\ n * PAGE_SIZE \in Nat
  BY <1>1, <1>3
<1>7. o + r.size <= Heap!MapPages(r) * PAGE_SIZE
  BY <1>1, <1>3, <1>5, <1>6
<1> QED BY <1>3, <1>4, <1>5, <1>7

(* A mapped table has the allocation of its pages. *)
LEMMA MapStep ==
  ASSUME Heap!HeapConstants, HeapInv, NEW r \in Regions, Heap!map_physical_region(r)
  PROVE  HeapInv'
<1>1. /\ PAGE_SIZE \in Nat \ {0} /\ r.size \in Nat \ {0} /\ r.align \in Nat \ {0}
      /\ PAGE_SIZE % r.align = 0 /\ r.addr \in Nat /\ r.addr % r.align = 0
  BY Zenon DEF Heap!HeapConstants
<1>2. PICK n, o, q : n = Heap!MapPages(r) /\ o = r.addr % PAGE_SIZE /\ q = r.addr \div PAGE_SIZE
  OBVIOUS
<1>3. n \in Nat \ {0} /\ o \in 0 .. PAGE_SIZE - 1 /\ o + r.size <= n * PAGE_SIZE /\ q \in Nat
  BY <1>2, MapAmount, Zenon
<1>4. PICK first \in FirstPages :
        /\ Heap!Granted(Heap!Allocation(first, n, q))
        /\ mappings' = mappings \cup
             {[physical_start |-> r.addr,
               virtual_start |-> Heap!next_multiple_of(first * PAGE_SIZE + o, r.align),
               region_length |-> r.size, mapped_length |-> n * PAGE_SIZE]}
        /\ blocks' = blocks
  BY <1>2, Zenon DEF Heap!map_physical_region
<1>5. first \in Nat
  BY Zenon DEF Heap!HeapConstants
<1>6. Heap!next_multiple_of(first * PAGE_SIZE + o, r.align) = first * PAGE_SIZE + o
  BY <1>1, <1>2, <1>5, AlignedInPage, Zenon
<1> DEFINE a == Heap!Allocation(first, n, q)
           m == [physical_start |-> r.addr, virtual_start |-> first * PAGE_SIZE + o,
                 region_length |-> r.size, mapped_length |-> n * PAGE_SIZE]
<1>7. /\ a.first = first /\ a.amount = n
      /\ a.frame = [p \in Pages(a) |-> q + p - first]
  BY Zenon DEF Heap!Allocation, Pages
<1>8. /\ m.physical_start = r.addr /\ m.virtual_start = first * PAGE_SIZE + o
      /\ m.region_length = r.size /\ m.mapped_length = n * PAGE_SIZE
  OBVIOUS
<1>9. mappings' = mappings \cup {m} /\ Heap!Granted(a)
  BY <1>4, <1>6, Zenon
<1> HIDE DEF a, m
<1>10. Heap!UnmapFirst(m) = first /\ Heap!UnmapAmount(m) = n
  <2>1. (PAGE_SIZE * first + o) \div PAGE_SIZE = first /\ (PAGE_SIZE * n + 0) \div PAGE_SIZE = n
    BY <1>1, <1>3, <1>5, DivIs
  <2>2. first * PAGE_SIZE + o = PAGE_SIZE * first + o /\ n * PAGE_SIZE = PAGE_SIZE * n + 0
    BY <1>1, <1>3, <1>5
  <2> QED BY <1>8, <2>1, <2>2, Zenon DEF Heap!UnmapFirst, Heap!UnmapAmount
<1>11. Maps(a, m)
  BY <1>1, <1>2, <1>3, <1>7, <1>8, <1>10, Zenon DEF Maps
<1>12. /\ owned' = owned \cup {a} /\ a \notin owned /\ HeldApart'
       /\ \A c \in owned : c.first # first
  BY <1>3, <1>5, <1>7, <1>9, GrantedApart, Zenon DEF HeapInv
<1>13. /\ \A d \in blocks : Heap!DeallocFirst(d) # first
       /\ \A k \in mappings : Heap!UnmapFirst(k) # first
  BY <1>12, Zenon DEF HeapInv, OneEach, Backs, Maps
<1>14. OneEach'
  BY <1>4, <1>9, <1>10, <1>11, <1>12, <1>13 DEF HeapInv, OneEach
<1>15. Counted'
  <2>1. m \notin mappings
    BY <1>10, <1>13, Zenon
  <2>2. /\ IsFiniteSet(owned') /\ Cardinality(owned') = Cardinality(owned) + 1
        /\ IsFiniteSet(mappings') /\ Cardinality(mappings') = Cardinality(mappings) + 1
    BY <1>9, <1>12, <2>1, FS_AddElement, Zenon DEF HeapInv, Counted
  <2>3. Cardinality(blocks) \in Nat /\ Cardinality(mappings) \in Nat /\ Cardinality(owned) \in Nat
    BY FS_CardinalityType, Zenon DEF HeapInv, Counted
  <2> QED BY <1>4, <2>2, <2>3 DEF HeapInv, Counted
<1> QED BY <1>12, <1>14, <1>15, Zenon DEF HeapInv

(* dealloc gives back the allocation of its block, and no other. *)
LEMMA DeallocStep ==
  ASSUME HeapInv, NEW b \in blocks, Heap!dealloc(b)
  PROVE  HeapInv'
<1>1. PICK a \in owned : /\ a.first = Heap!DeallocFirst(b) /\ owned' = owned \ {a}
                         /\ blocks' = blocks \ {b} /\ mappings' = mappings
  BY Zenon DEF Heap!dealloc, Heap!GiveBack
<1>2. HeldApart'
  BY <1>1, Zenon DEF HeapInv, HeldApart
<1>3. OneEach'
  <2>1. ASSUME NEW d \in blocks \ {b}, NEW c \in owned, Backs(c, d) PROVE c # a
    BY <1>1, <2>1, Zenon DEF HeapInv, OneEach, Backs
  <2>2. ASSUME NEW m \in mappings, NEW c \in owned, Maps(c, m) PROVE c # a
    BY <1>1, <2>2, Zenon DEF HeapInv, OneEach, Maps
  <2> QED BY <1>1, <2>1, <2>2, Zenon DEF HeapInv, OneEach
<1>4. Counted'
  <2>1. /\ IsFiniteSet(owned') /\ Cardinality(owned') = Cardinality(owned) - 1
        /\ IsFiniteSet(blocks') /\ Cardinality(blocks') = Cardinality(blocks) - 1
    BY <1>1, FS_RemoveElement, Zenon DEF HeapInv, Counted
  <2>2. Cardinality(blocks) \in Nat /\ Cardinality(mappings) \in Nat /\ Cardinality(owned) \in Nat
    BY FS_CardinalityType, Zenon DEF HeapInv, Counted
  <2> QED BY <1>1, <2>1, <2>2 DEF HeapInv, Counted
<1> QED BY <1>2, <1>3, <1>4, Zenon DEF HeapInv

(* So does unmap_physical_region with the one of its mapping. *)
LEMMA UnmapStep ==
  ASSUME HeapInv, NEW m \in mappings, Heap!unmap_physical_region(m)
  PROVE  HeapInv'
<1>1. PICK a \in owned : /\ a.first = Heap!UnmapFirst(m) /\ owned' = owned \ {a}
                         /\ mappings' = mappings \ {m} /\ blocks' = blocks
  BY Zenon DEF Heap!unmap_physical_region, Heap!GiveBack
<1>2. HeldApart'
  BY <1>1, Zenon DEF HeapInv, HeldApart
<1>3. OneEach'
  <2>1. ASSUME NEW d \in blocks, NEW c \in owned, Backs(c, d) PROVE c # a
    BY <1>1, <2>1, Zenon DEF HeapInv, OneEach, Backs
  <2>2. ASSUME NEW k \in mappings \ {m}, NEW c \in owned, Maps(c, k) PROVE c # a
    BY <1>1, <2>2, Zenon DEF HeapInv, OneEach, Maps
  <2> QED BY <1>1, <2>1, <2>2, Zenon DEF HeapInv, OneEach
<1>4. Counted'
  <2>1. /\ IsFiniteSet(owned') /\ Cardinality(owned') = Cardinality(owned) - 1
        /\ IsFiniteSet(mappings') /\ Cardinality(mappings') = Cardinality(mappings) - 1
    BY <1>1, FS_RemoveElement, Zenon DEF HeapInv, Counted
  <2>2. Cardinality(blocks) \in Nat /\ Cardinality(mappings) \in Nat /\ Cardinality(owned) \in Nat
    BY FS_CardinalityType, Zenon DEF HeapInv, Counted
  <2> QED BY <1>1, <2>1, <2>2 DEF HeapInv, Counted
<1> QED BY <1>2, <1>3, <1>4, Zenon DEF HeapInv

(* Every step keeps one allocation for each block and each mapping. *)
LEMMA HeapStep == Heap!HeapConstants /\ HeapInv /\ [Heap!Next]_Heap!vars => HeapInv'
<1> SUFFICES ASSUME Heap!HeapConstants, HeapInv, [Heap!Next]_Heap!vars PROVE HeapInv'
  OBVIOUS
<1>1. ASSUME NEW r \in Regions, Heap!map_physical_region_panic(r) PROVE HeapInv'
  BY <1>1, Zenon DEF Heap!map_physical_region_panic, HeapInv, HeldApart, OneEach, Counted
<1>2. CASE UNCHANGED Heap!vars
  BY <1>2, Zenon DEF Heap!vars, HeapInv, HeldApart, OneEach, Counted
<1> QED BY <1>1, <1>2, AllocStep, MapStep, DeallocStep, UnmapStep, Zenon DEF Heap!Next
-----------------------------------------------------------------------------
(* A byte of an allocation is in one of its pages. *)
LEMMA ByteInPages ==
  ASSUME PAGE_SIZE \in Nat \ {0}, NEW a, a.first \in Nat, a.amount \in Nat \ {0},
         NEW x \in Heap!Bytes(a.first * PAGE_SIZE, a.amount * PAGE_SIZE)
  PROVE  x \in Nat /\ x \div PAGE_SIZE \in Pages(a)
<1>1. PICK f \in Nat, n \in Nat : f = a.first /\ n = a.amount
  OBVIOUS
<1>2. f * PAGE_SIZE \in Nat /\ n * PAGE_SIZE \in Nat /\ f * PAGE_SIZE + n * PAGE_SIZE = (f + n) * PAGE_SIZE
  OBVIOUS
<1>3. x \in Nat /\ x >= f * PAGE_SIZE /\ x < (f + n) * PAGE_SIZE
  BY <1>1, <1>2 DEF Heap!Bytes
<1>4. PICK q \in Nat, r \in 0 .. PAGE_SIZE - 1 :
        q = x \div PAGE_SIZE /\ r = x % PAGE_SIZE /\ x = PAGE_SIZE * q + r
  <2>1. PICK y \in Nat : y = x
    BY <1>3, Zenon
  <2>2. \E q \in Nat, r \in 0 .. PAGE_SIZE - 1 :
          q = y \div PAGE_SIZE /\ r = y % PAGE_SIZE /\ y = PAGE_SIZE * q + r
    BY Quotient, Zenon
  <2> QED BY <2>1, <2>2, Zenon
<1>5. q >= f
  <2>1. CASE q + 1 <= f
    <3>1. (q + 1) * PAGE_SIZE <= f * PAGE_SIZE
      BY <2>1
    <3> QED BY <1>3, <1>4, <3>1
  <2> QED BY <2>1
<1>6. q < f + n
  <2>1. CASE f + n <= q
    <3>1. (f + n) * PAGE_SIZE <= q * PAGE_SIZE
      BY <2>1
    <3> QED BY <1>3, <1>4, <3>1
  <2> QED BY <2>1
<1> QED BY <1>1, <1>3, <1>4, <1>5, <1>6 DEF Pages

(* The bytes of a block, and of a mapping, are bytes of its allocation. *)
LEMMA BytesWithin ==
  ASSUME PAGE_SIZE \in Nat \ {0}, NEW a, a.first \in Nat, a.amount \in Nat \ {0}
  PROVE  /\ \A b : Backs(a, b) =>
              Heap!Bytes(b.ptr, b.size) \subseteq Heap!Bytes(a.first * PAGE_SIZE, a.amount * PAGE_SIZE)
         /\ \A m : Maps(a, m) =>
              Heap!Bytes(m.virtual_start, m.region_length)
                \subseteq Heap!Bytes(a.first * PAGE_SIZE, a.amount * PAGE_SIZE)
<1>1. PICK s \in Nat, t \in Nat : s = a.first * PAGE_SIZE /\ t = a.amount * PAGE_SIZE
  OBVIOUS
<1>2. ASSUME NEW b, Backs(a, b)
      PROVE  Heap!Bytes(b.ptr, b.size) \subseteq Heap!Bytes(s, t)
  BY <1>1, <1>2 DEF Backs, Heap!Bytes
<1>3. ASSUME NEW m, Maps(a, m)
      PROVE  Heap!Bytes(m.virtual_start, m.region_length) \subseteq Heap!Bytes(s, t)
  <2>1. PICK o \in Nat : o = m.physical_start % PAGE_SIZE
    BY <1>3 DEF Maps
  <2> QED BY <1>1, <1>3, <2>1 DEF Maps, Heap!Bytes
<1> QED BY <1>1, <1>2, <1>3, Zenon

(* Allocations that lie apart have no byte in common. *)
LEMMA BytesApart ==
  ASSUME PAGE_SIZE \in Nat \ {0}, HeldApart, NEW a \in owned, NEW c \in owned, a # c
  PROVE  Heap!Bytes(a.first * PAGE_SIZE, a.amount * PAGE_SIZE)
           \cap Heap!Bytes(c.first * PAGE_SIZE, c.amount * PAGE_SIZE) = {}
<1>1. ASSUME NEW x \in Heap!Bytes(a.first * PAGE_SIZE, a.amount * PAGE_SIZE),
             x \in Heap!Bytes(c.first * PAGE_SIZE, c.amount * PAGE_SIZE)
      PROVE  FALSE
  <2>1. x \div PAGE_SIZE \in Pages(a) /\ x \div PAGE_SIZE \in Pages(c)
    BY <1>1, ByteInPages, Zenon DEF HeldApart
  <2> QED BY <2>1, Zenon DEF HeldApart
<1> QED BY <1>1, Zenon

(* HeapAllocator counts as this module does. *)
LEMMA SameCount == \A S : Heap!Cardinality(S) = Cardinality(S)
BY Zenon DEF Heap!Cardinality, Cardinality, Heap!IsFiniteSet, IsFiniteSet

(* The invariant says what is asked of the two layers. *)
LEMMA HeapInvMeans ==
  ASSUME Heap!HeapConstants, HeapInv
  PROVE  Heap!GivesBackOwned /\ Heap!BlocksBacked /\ Heap!MappingsExact
<1>1. PAGE_SIZE \in Nat \ {0}
  BY Zenon DEF Heap!HeapConstants
<1>2. Heap!GivesBackOwned
  <2>1. /\ \A b \in blocks : \E a \in owned :
             a.first = Heap!DeallocFirst(b) /\ a.amount = Heap!DeallocAmount(b)
        /\ \A m \in mappings : \E a \in owned :
             a.first = Heap!UnmapFirst(m) /\ a.amount = Heap!UnmapAmount(m)
    BY Zenon DEF HeapInv, OneEach, Backs, Maps
  <2>2. Heap!Cardinality(owned) = Heap!Cardinality(blocks) + Heap!Cardinality(mappings)
    BY SameCount, Zenon DEF HeapInv, Counted
  <2> QED BY <2>1, <2>2, Zenon DEF Heap!GivesBackOwned
<1>3. Heap!BlocksBacked
  <2>1. ASSUME NEW b \in blocks
        PROVE  \E a \in owned :
                 /\ a.first = Heap!DeallocFirst(b)
                 /\ Heap!Bytes(b.ptr, b.size) \subseteq Heap!Bytes(a.first * PAGE_SIZE, a.amount * PAGE_SIZE)
    <3>1. PICK a \in owned : Backs(a, b)
      BY Zenon DEF HeapInv, OneEach
    <3>2. a.first \in Nat /\ a.amount \in Nat \ {0} /\ a.first = Heap!DeallocFirst(b)
      BY <3>1, Zenon DEF HeapInv, HeldApart, Backs
    <3> QED BY <1>1, <3>1, <3>2, BytesWithin, Zenon
  <2>2. ASSUME NEW b \in blocks, NEW d \in blocks, b # d
        PROVE  Heap!Bytes(b.ptr, b.size) \cap Heap!Bytes(d.ptr, d.size) = {}
    <3>1. PICK a \in owned, c \in owned :
            /\ a.first = Heap!DeallocFirst(b) /\ c.first = Heap!DeallocFirst(d)
            /\ Heap!Bytes(b.ptr, b.size) \subseteq Heap!Bytes(a.first * PAGE_SIZE, a.amount * PAGE_SIZE)
            /\ Heap!Bytes(d.ptr, d.size) \subseteq Heap!Bytes(c.first * PAGE_SIZE, c.amount * PAGE_SIZE)
      BY <2>1, Zenon
    <3>2. a # c
      BY <2>2, <3>1, Zenon DEF HeapInv, OneEach
    <3>3. Heap!Bytes(a.first * PAGE_SIZE, a.amount * PAGE_SIZE)
            \cap Heap!Bytes(c.first * PAGE_SIZE, c.amount * PAGE_SIZE) = {}
      BY <1>1, <3>2, BytesApart, Zenon DEF HeapInv
    <3> QED BY <3>1, <3>3, Zenon
  <2>3. ASSUME NEW b \in blocks, NEW m \in mappings
        PROVE  Heap!Bytes(b.ptr, b.size) \cap Heap!Bytes(m.virtual_start, m.region_length) = {}
    <3>1. PICK a \in owned :
            /\ a.first = Heap!DeallocFirst(b)
            /\ Heap!Bytes(b.ptr, b.size) \subseteq Heap!Bytes(a.first * PAGE_SIZE, a.amount * PAGE_SIZE)
      BY <2>1, Zenon
    <3>2. PICK c \in owned : Maps(c, m)
      BY Zenon DEF HeapInv, OneEach
    <3>3. c.first \in Nat /\ c.amount \in Nat \ {0} /\ c.first = Heap!UnmapFirst(m)
      BY <3>2, Zenon DEF HeapInv, HeldApart, Maps
    <3>4. a # c
      BY <3>1, <3>3, Zenon DEF HeapInv, OneEach
    <3>5. Heap!Bytes(a.first * PAGE_SIZE, a.amount * PAGE_SIZE)
            \cap Heap!Bytes(c.first * PAGE_SIZE, c.amount * PAGE_SIZE) = {}
      BY <1>1, <3>4, BytesApart, Zenon DEF HeapInv
    <3>6. Heap!Bytes(m.virtual_start, m.region_length)
            \subseteq Heap!Bytes(c.first * PAGE_SIZE, c.amount * PAGE_SIZE)
      BY <1>1, <3>2, <3>3, BytesWithin, Zenon
    <3> QED BY <3>1, <3>5, <3>6, Zenon
  <2> QED BY <2>1, <2>2, <2>3, Zenon DEF Heap!BlocksBacked
<1>4. Heap!MappingsExact
  <2> SUFFICES ASSUME NEW m \in mappings
      PROVE  \E a \in owned : \A k \in 0 .. m.region_length - 1 :
               LET v == m.virtual_start + k IN
               /\ v \div PAGE_SIZE \in DOMAIN a.frame
               /\ a.frame[v \div PAGE_SIZE] * PAGE_SIZE + (v % PAGE_SIZE) = m.physical_start + k
    BY Zenon DEF Heap!MappingsExact
  <2>1. PICK a \in owned : Maps(a, m)
    BY Zenon DEF HeapInv, OneEach
  <2> SUFFICES ASSUME NEW k \in 0 .. m.region_length - 1
      PROVE  /\ (m.virtual_start + k) \div PAGE_SIZE \in DOMAIN a.frame
             /\ a.frame[(m.virtual_start + k) \div PAGE_SIZE] * PAGE_SIZE
                  + ((m.virtual_start + k) % PAGE_SIZE) = m.physical_start + k
    OBVIOUS
  <2>2. PICK f \in Nat : f = a.first
    BY Zenon DEF HeapInv, HeldApart
  <2>3. PICK q \in Nat, o \in 0 .. PAGE_SIZE - 1 :
          /\ q = m.physical_start \div PAGE_SIZE /\ o = m.physical_start % PAGE_SIZE
          /\ m.physical_start = PAGE_SIZE * q + o
    BY <1>1, <2>1, Quotient, Zenon DEF Maps
  <2>4. k \in Nat /\ m.virtual_start = f * PAGE_SIZE + o /\ m.region_length \in Nat
    BY <2>1, <2>2, <2>3 DEF Maps
  <2>5. PICK i \in Nat, j \in 0 .. PAGE_SIZE - 1 : o + k = PAGE_SIZE * i + j
    <3>1. o + k \in Nat
      BY <1>1, <2>4
    <3> QED BY <1>1, <3>1, Quotient, Zenon
  <2>6. m.virtual_start + k = PAGE_SIZE * (f + i) + j
    BY <1>1, <2>4, <2>5
  <2>7. (m.virtual_start + k) \div PAGE_SIZE = f + i /\ (m.virtual_start + k) % PAGE_SIZE = j
    <3>1. f + i \in Nat
      OBVIOUS
    <3>2. (PAGE_SIZE * (f + i) + j) \div PAGE_SIZE = f + i /\ (PAGE_SIZE * (f + i) + j) % PAGE_SIZE = j
      BY <1>1, <3>1, DivIs, Zenon
    <3> QED BY <2>6, <3>2, Zenon
  <2>8. f + i \in Pages(a)
    <3>1. m.virtual_start + k \in Heap!Bytes(m.virtual_start, m.region_length)
      BY <1>1, <2>4 DEF Heap!Bytes
    <3>2. m.virtual_start + k \in Heap!Bytes(a.first * PAGE_SIZE, a.amount * PAGE_SIZE)
      BY <1>1, <2>1, <3>1, BytesWithin, Zenon DEF HeapInv, HeldApart
    <3> QED BY <1>1, <2>7, <3>2, ByteInPages DEF HeapInv, HeldApart
  <2>9. DOMAIN a.frame = Pages(a) /\ a.frame[f + i] = q + (f + i) - f
    BY <2>1, <2>2, <2>3, <2>8, Zenon DEF Maps
  <2>10. (q + i) * PAGE_SIZE + j = m.physical_start + k
    BY <1>1, <2>3, <2>4, <2>5, SMTT(30)
  <2>11. q + (f + i) - f = q + i
    OBVIOUS
  <2> QED BY <2>7, <2>8, <2>9, <2>10, <2>11, Zenon
<1> QED BY <1>2, <1>3, <1>4, Zenon

(* dealloc and unmap_physical_region give back an allocation that is held,  *)
(* with the pages it has, and each its own: whatever the layouts and tables *)
(* asked for, page_amount computed from a layout when it is freed is what   *)
(* alloc asked for, and the address returned divides to the first page.     *)
THEOREM PagesGivenBack == Heap!Spec => []GivesBackOwned
<1>1. HeapInv /\ [Heap!Next]_Heap!vars => HeapInv'
  BY HeapStep, HeapAssumption, Zenon
<1>2. HeapInv => GivesBackOwned
  BY HeapInvMeans, HeapAssumption, Zenon DEF GivesBackOwned
<1> QED BY HeapInit, <1>1, <1>2, PTL DEF Heap!Spec

(* Every block the global allocator gives out lies in its own pages and     *)
(* overlaps no other block and no mapped table, for every page size, layout *)
(* and table.                                                               *)
THEOREM BlocksApart == Heap!Spec => []BlocksBacked
<1>1. HeapInv /\ [Heap!Next]_Heap!vars => HeapInv'
  BY HeapStep, HeapAssumption, Zenon
<1>2. HeapInv => BlocksBacked
  BY HeapInvMeans, HeapAssumption, Zenon DEF BlocksBacked
<1> QED BY HeapInit, <1>1, <1>2, PTL DEF Heap!Spec

(* Reading byte k of a table that map_physical_region mapped reads byte k   *)
(* of the physical table, wherever in its page the table starts and however *)
(* many pages it spans.                                                     *)
THEOREM TablesMapped == Heap!Spec => []MappingsExact
<1>1. HeapInv /\ [Heap!Next]_Heap!vars => HeapInv'
  BY HeapStep, HeapAssumption, Zenon
<1>2. HeapInv => MappingsExact
  BY HeapInvMeans, HeapAssumption, Zenon DEF MappingsExact
<1> QED BY HeapInit, <1>1, <1>2, PTL DEF Heap!Spec
=============================================================================
