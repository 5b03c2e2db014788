-------------------------- MODULE PageTableProofs ---------------------------
(***************************************************************************)
(* What the operations of PageTable and PhysicalAllocator leave: the types *)
(* and the walks, and who holds which frame, for every table size, bitmap  *)
(* size and memory map.                                                    *)
(* First, facts about the naturals: a set of them has a minimum, as the    *)
(* first free bit and the first free run are; and dividing twice is        *)
(* dividing once, since the indices of a walk are digits of the page.      *)
(***************************************************************************)
EXTENDS PageTable, WellFoundedInduction, TLAPS

(* The order of the naturals as a set of pairs. *)
NatLess == {ss \in Nat \X Nat : ss[1] < ss[2]}

(* The order of the naturals is well founded, as a set of pairs. *)
LEMMA NatLessWellFounded == IsWellFoundedOn(NatLess, Nat)
<1>1. OpToRel(<, Nat) = NatLess
  BY Zenon DEF OpToRel, NatLess
<1> QED BY <1>1, NatLessThanWellFounded, Zenon

(* A non-empty set of naturals has the minimum that Min chooses. *)
LEMMA MinNat ==
  ASSUME NEW S \in SUBSET Nat, S # {}
  PROVE  /\ Min(S) \in S
         /\ \A y \in S : Min(S) <= y
<1>1. PICK x \in S : \A y \in S : ~ (<<y, x>> \in NatLess)
  BY NatLessWellFounded, WFMin, Zenon
<1>2. ASSUME NEW y \in S PROVE x <= y
  <2>1. x \in Nat /\ y \in Nat
    OBVIOUS
  <2>2. ~ (y < x)
    BY <1>1, <2>1, Zenon DEF NatLess
  <2> QED BY <2>1, <2>2
<1> QED BY <1>2, Zenon DEF Min
(* The provers get half a minute for a leaf that names none. *)
USE SMTT(30)

(* Quotient and remainder. *)
LEMMA DivMod ==
  ASSUME NEW n \in Nat, NEW d \in Nat, d > 0
  PROVE  n \div d \in Nat /\ n % d \in Nat /\ n % d < d /\ n = d * (n \div d) + (n % d)
OBVIOUS

(* There is one quotient. *)
LEMMA DivUnique ==
  ASSUME NEW d \in Nat, NEW q \in Nat, NEW r \in Nat, r < d,
         NEW k \in Nat, NEW s \in Nat, s < d, d * q + r = d * k + s
  PROVE  q = k
<1>1. ASSUME NEW x \in Nat, NEW y \in Nat, x < y PROVE d * x + d <= d * y
  <2>1. PICK z \in Nat : y = x + 1 + z
    <3>1. y - x - 1 \in Nat /\ y = x + 1 + (y - x - 1)
      BY <1>1
    <3> QED BY <3>1, Zenon
  <2>2. d * y = d * x + d + d * z
    BY <2>1
  <2>3. d * z \in Nat /\ d * x \in Nat
    OBVIOUS
  <2> QED BY <2>2, <2>3
<1>2. d * q \in Nat /\ d * k \in Nat
  OBVIOUS
<1>3. ~ q < k
  BY <1>1, <1>2
<1>4. ~ k < q
  BY <1>1, <1>2
<1> QED BY <1>3, <1>4

(* Dividing twice is dividing by the product. *)
LEMMA DivDiv ==
  ASSUME NEW n \in Nat, NEW d \in Nat, d > 0, NEW k \in Nat, k > 0
  PROVE  (n \div d) \div k = n \div (d * k)
<1>1. PICK x \in Nat, r \in Nat : x = n \div d /\ r < d /\ n = d * x + r
  BY DivMod
<1>2. PICK y \in Nat, s \in Nat : y = x \div k /\ s < k /\ x = k * y + s
  BY DivMod
<1>3. d * k \in Nat /\ d * k > 0
  OBVIOUS
<1>4. PICK z \in Nat, t \in Nat : z = n \div (d * k) /\ t < d * k /\ n = (d * k) * z + t
  BY <1>3, DivMod
<1>5. n = (d * k) * y + (d * s + r)
  BY <1>1, <1>2
<1>6. d * s + r \in Nat /\ d * s + r < d * k
  <2>1. PICK w \in Nat : k = s + 1 + w
    <3>1. k - s - 1 \in Nat /\ k = s + 1 + (k - s - 1)
      BY <1>2
    <3> QED BY <3>1, Zenon
  <2>2. d * k = d * s + d + d * w /\ d * w \in Nat /\ d * s \in Nat
    BY <2>1
  <2> QED BY <1>1, <2>2
<1>7. y = z
  <2>1. PICK D \in Nat, v \in Nat : D = d * k /\ v = d * s + r
    BY <1>3, <1>6, Zenon
  <2> QED BY <2>1, <1>3, <1>4, <1>5, <1>6, DivUnique, Zenon
<1> QED BY <1>1, <1>2, <1>4, <1>7, Zenon
-----------------------------------------------------------------------------
(* Every index of a walk is an index of a table. *)
LEMMA LevelIdx ==
  ASSUME NEW page \in Nat
  PROVE  /\ level4_idx(page) \in Idx
         /\ level3_idx(page) \in Idx
         /\ level2_idx(page) \in Idx
         /\ level1_idx(page) \in Idx
<1> DEFINE K == E * E * E
           cn == canonical_num(page)
<1>1. E \in Nat /\ E > 0
  BY PageTableAssumption
<1>2. K \in Nat /\ K > 0 /\ MAX_PAGE_CANONICAL_NUM = K * E
  BY <1>1 DEF MAX_PAGE_CANONICAL_NUM
<1>3. K * E \in Nat /\ K * E > 0
  BY <1>1, <1>2
<1>4. cn \in Nat /\ cn < K * E
  BY <1>2, <1>3 DEF canonical_num
<1>5. E * E \in Nat /\ E * E > 0
  BY <1>1
<1>6. level4_idx(page) \in Idx
  <2>1. level4_idx(page) = cn \div K
    BY Zenon DEF level4_idx
  <2> HIDE DEF K, cn
  <2>2. cn \div K \in Nat /\ K * (cn \div K) <= cn
    BY <1>2, <1>4
  <2>3. cn \div K < E
    BY <2>2, <1>1, <1>2, <1>4
  <2> QED BY <2>1, <2>2, <2>3, <1>1 DEF Idx
<1>7. \A n \in Nat : n % E \in Idx
  BY <1>1 DEF Idx
<1>8. cn \div (E * E) \in Nat /\ cn \div E \in Nat
  BY <1>1, <1>4, <1>5
<1> QED BY <1>4, <1>6, <1>7, <1>8, Zenon DEF level3_idx, level2_idx, level1_idx

-----------------------------------------------------------------------------
(* Writing page tables *)

(* What write_entry leaves, entry by entry. *)
LEMMA WriteEntryFacts ==
  ASSUME NEW m, IsMemory(m), NEW f \in DOMAIN m, NEW i \in Idx, NEW e \in Entry,
         NEW m2, m2 = write_entry(m, f, i, e)
  PROVE  /\ IsMemory(m2)
         /\ DOMAIN m2 = DOMAIN m
         /\ \A g \in DOMAIN m :
              /\ m2[g].level = m[g].level
              /\ \A j \in Idx : m2[g].entries[j] =
                                IF g = f /\ j = i THEN e ELSE m[g].entries[j]
<1>1. m2 = [m EXCEPT ![f].entries[i] = e]
  BY Zenon DEF write_entry
<1>2. \A g \in DOMAIN m : m[g] \in Table
  BY Zenon DEF IsMemory
<1>3. DOMAIN m2 = DOMAIN m /\ m2 = [g \in DOMAIN m2 |-> m2[g]]
  BY <1>1, Zenon DEF IsMemory
<1>4. \A g \in DOMAIN m : g # f => m2[g] = m[g]
  BY <1>1, Zenon DEF IsMemory
<1>5. m2[f] = [m[f] EXCEPT !.entries = [m[f].entries EXCEPT ![i] = e]]
  BY <1>1, Zenon DEF IsMemory
<1>6. /\ m2[f] \in Table
      /\ m2[f].level = m[f].level
      /\ \A j \in Idx : m2[f].entries[j] = IF j = i THEN e ELSE m[f].entries[j]
  BY <1>2, <1>5 DEF Table
<1>7. IsMemory(m2)
  BY <1>2, <1>3, <1>4, <1>6, Zenon DEF IsMemory
<1> QED BY <1>3, <1>4, <1>6, <1>7, Zenon

(* What clear_all_entries leaves. *)
LEMMA ClearFacts ==
  ASSUME NEW m, IsMemory(m), NEW f \in Nat, NEW l \in 1 .. 4
  PROVE  LET m2 == clear_all_entries(m, f, l)
         IN  /\ IsMemory(m2)
             /\ DOMAIN m2 = DOMAIN m \cup {f}
             /\ m2[f].level = l
             /\ \A j \in Idx : m2[f].entries[j] = ClearEntry
             /\ \A g \in DOMAIN m : g # f => m2[g] = m[g]
<1>1. ClearEntry \in Entry
  BY Zenon DEF ClearEntry, Entry, NullFrame
<1>2. [level |-> l, entries |-> [i \in Idx |-> ClearEntry]] \in Table
  BY <1>1, Zenon DEF Table
<1> QED BY <1>2, Zenon DEF IsMemory, clear_all_entries

(* The walk for a page ends in a level-1 entry; or in a huge page. *)
Path(m, p) ==
  /\ Entry4(m, p).present
  /\ Entry3(m, p).present
  /\ Entry2(m, p).present /\ ~ Entry2(m, p).huge

HugeAt(m, p) ==
  Entry4(m, p).present /\ Entry3(m, p).present /\ Entry2(m, p).huge

(* From m to m2 no walk loses its level-1 table or gains a huge page, and   *)
(* page_entry_mut finds an entry where it found one.                        *)
Keeps(m, m2) ==
  \A p \in Nat : /\ Path(m, p) => Path(m2, p)
                 /\ HugeAt(m2, p) => HugeAt(m, p)
                 /\ has_page_entry_mut(m, p) => has_page_entry_mut(m2, p)

(* The walk in well-levelled tables. *)
LEMMA WalkFacts ==
  ASSUME NEW m, IsMemory(m), WellLevelled(m), NEW p \in Nat
  PROVE  /\ Entry4(m, p) = m[ROOT].entries[level4_idx(p)]
         /\ Entry4(m, p).present =>
              /\ Entry4(m, p).addr \in DOMAIN m
              /\ m[Entry4(m, p).addr].level = 3
              /\ Entry3(m, p) = m[Entry4(m, p).addr].entries[level3_idx(p)]
         /\ Entry4(m, p).present /\ Entry3(m, p).present =>
              /\ Entry3(m, p).addr \in DOMAIN m
              /\ m[Entry3(m, p).addr].level = 2
              /\ Entry2(m, p) = m[Entry3(m, p).addr].entries[level2_idx(p)]
         /\ Path(m, p) =>
              /\ Entry2(m, p).addr \in DOMAIN m
              /\ m[Entry2(m, p).addr].level = 1
              /\ Entry1(m, p) = m[Entry2(m, p).addr].entries[level1_idx(p)]
<1>1. /\ level4_idx(p) \in Idx /\ level3_idx(p) \in Idx
      /\ level2_idx(p) \in Idx /\ level1_idx(p) \in Idx
  BY LevelIdx, Zenon
<1>2. ROOT \in DOMAIN m /\ m[ROOT].level = 4
  BY Zenon DEF WellLevelled
<1>3. ASSUME NEW f \in DOMAIN m, NEW i \in Idx, m[f].level > 1,
             m[f].entries[i].present, ~ m[f].entries[i].huge
      PROVE  /\ m[f].entries[i].addr \in DOMAIN m
             /\ m[m[f].entries[i].addr].level = m[f].level - 1
  BY <1>3, Zenon DEF WellLevelled, Refers
<1>4. ASSUME NEW f \in DOMAIN m, NEW i \in Idx, m[f].level # 2
      PROVE  ~ m[f].entries[i].huge
  BY <1>4, Zenon DEF WellLevelled
<1>5. Entry4(m, p) = m[ROOT].entries[level4_idx(p)]
  BY <1>2, Zenon DEF Entry4, EntryAt
<1>6. ASSUME Entry4(m, p).present
      PROVE  /\ Entry4(m, p).addr \in DOMAIN m
             /\ m[Entry4(m, p).addr].level = 3
             /\ Entry3(m, p) = m[Entry4(m, p).addr].entries[level3_idx(p)]
  BY <1>1, <1>2, <1>3, <1>4, <1>5, <1>6 DEF Entry3, EntryAt
<1>7. ASSUME Entry4(m, p).present, Entry3(m, p).present
      PROVE  /\ Entry3(m, p).addr \in DOMAIN m
             /\ m[Entry3(m, p).addr].level = 2
             /\ Entry2(m, p) = m[Entry3(m, p).addr].entries[level2_idx(p)]
  BY <1>1, <1>3, <1>4, <1>6, <1>7 DEF Entry2, EntryAt
<1>8. ASSUME Path(m, p)
      PROVE  /\ Entry2(m, p).addr \in DOMAIN m
             /\ m[Entry2(m, p).addr].level = 1
             /\ Entry1(m, p) = m[Entry2(m, p).addr].entries[level1_idx(p)]
  BY <1>1, <1>3, <1>7, <1>8 DEF Path, Entry1, EntryAt
<1> QED BY <1>5, <1>6, <1>7, <1>8, Zenon

(* A walk that has its level-1 table ends in an entry of it. *)
LEMMA PathLeaf ==
  ASSUME NEW m, IsMemory(m), WellLevelled(m), NEW p \in Nat, Path(m, p)
  PROVE  /\ Entry2(m, p).addr \in DOMAIN m /\ m[Entry2(m, p).addr].level = 1
         /\ level1_idx(p) \in Idx
         /\ Entry1(m, p) = m[Entry2(m, p).addr].entries[level1_idx(p)]
BY WalkFacts, LevelIdx, Zenon DEF Path

-----------------------------------------------------------------------------
(* Types: what the operators return is a bitmap and a memory, whatever the *)
(* bitmap holds.                                                           *)

Typed(st) ==
  /\ st = [bitmap |-> st.bitmap, mem |-> st.mem]
  /\ st.bitmap \subseteq BitIndex
  /\ IsMemory(st.mem)

(* A frame is left in the usable region. *)
FrameLeft(b) == \E i \in FreeBits(b) : i < LIMIT

(* allocate_frame marks at most one more bit; if a usable frame is left    *)
(* afterwards, the frame it returned is usable and was free.               *)
LEMMA AllocateFrame ==
  ASSUME NEW b, b \subseteq BitIndex
  PROVE  /\ allocated_frame(b) \in Nat
         /\ bitmap_after_allocate(b) \subseteq BitIndex
         /\ b \subseteq bitmap_after_allocate(b)
         /\ bitmap_after_allocate(b) \subseteq b \cup {allocated_frame(b) - OFFSET}
         /\ FrameLeft(bitmap_after_allocate(b)) =>
              /\ allocated_frame(b) \in UsableFrames
              /\ allocated_frame(b) - OFFSET \notin b
              /\ allocated_frame(b) - OFFSET \in bitmap_after_allocate(b)
              /\ FrameLeft(b)
<1>1. CASE FreeBits(b) = {}
  <2>1. allocated_frame(b) = 0 /\ bitmap_after_allocate(b) = b
    BY <1>1, Zenon DEF allocated_frame, bitmap_after_allocate, NullFrame
  <2> QED BY <1>1, <2>1 DEF FrameLeft
<1>2. CASE FreeBits(b) # {}
  <2>1. FreeBits(b) \in SUBSET Nat
    BY PhysicalAssumption DEF FreeBits, BitIndex
  <2>2. PICK k : k = Min(FreeBits(b))
    OBVIOUS
  <2>3. k \in BitIndex /\ k \notin b /\ \A i \in FreeBits(b) : k <= i
    BY <1>2, <2>1, <2>2, MinNat, Zenon DEF FreeBits
  <2>4. allocated_frame(b) = OFFSET + k /\ bitmap_after_allocate(b) = b \cup {k}
    BY <1>2, <2>2, Zenon DEF allocated_frame, bitmap_after_allocate
  <2>5. OFFSET + k \in Nat /\ (OFFSET + k) - OFFSET = k
    BY <2>3, PhysicalAssumption DEF BitIndex
  <2>6. ASSUME FrameLeft(b \cup {k})
        PROVE  OFFSET + k \in UsableFrames /\ FrameLeft(b)
    <3>1. PICK i \in FreeBits(b) : i < LIMIT
      BY <2>6, Zenon DEF FrameLeft, FreeBits
    <3>2. k < LIMIT
      BY <2>1, <2>3, <3>1, PhysicalAssumption DEF BitIndex
    <3> QED BY <2>3, <3>1, <3>2, PhysicalAssumption
            DEF UsableFrames, Managed, BitIndex, FrameLeft
  <2> QED BY <2>3, <2>4, <2>5, <2>6, Zenon
<1> QED BY <1>1, <1>2, Zenon

(* Reading a table entry, of a table or of any other frame, gives an entry. *)
LEMMA EntryAtType ==
  ASSUME NEW m, IsMemory(m), NEW f, NEW i \in Idx
  PROVE  EntryAt(m, f, i) \in Entry
<1>1. PresentEntry(ROOT) \in Entry
  BY PageTableAssumption, Zenon DEF PresentEntry, Entry, IsMemory, WellLevelled
<1> QED BY <1>1, Zenon DEF EntryAt, IsMemory, Table

(* set_addr makes a present entry with the address it was given. *)
LEMMA PresentEntryType ==
  ASSUME NEW u \in Nat
  PROVE  /\ PresentEntry(u) \in Entry
         /\ PresentEntry(u).present /\ ~ PresentEntry(u).huge /\ PresentEntry(u).addr = u
BY Zenon DEF PresentEntry, Entry

(* Writing an entry through the direct map leaves tables of entries. *)
LEMMA WriteEntryType ==
  ASSUME NEW m, IsMemory(m), NEW f, NEW i \in Idx, NEW e \in Entry
  PROVE  IsMemory(write_entry(m, f, i, e))
<1>1. CASE f \in DOMAIN m
  BY <1>1, WriteEntryFacts, Zenon
<1>2. CASE f \notin DOMAIN m
  BY <1>2, Zenon DEF write_entry
<1> QED BY <1>1, <1>2, Zenon

(* Making a missing table keeps the types and frees no frame, whether or   *)
(* not allocate_frame still has one to give.                               *)
LEMMA EnsureTableType ==
  ASSUME NEW st, Typed(st), NEW f, NEW i \in Idx, NEW l \in 1 .. 4
  PROVE  /\ Typed(ensure_table(st, f, i, l))
         /\ st.bitmap \subseteq ensure_table(st, f, i, l).bitmap
<1>1. CASE EntryAt(st.mem, f, i).present
  BY <1>1, Zenon DEF ensure_table
<1>2. CASE ~ EntryAt(st.mem, f, i).present
  <2> DEFINE new == allocated_frame(st.bitmap)
             m1 == write_entry(st.mem, f, i, PresentEntry(new))
             m2 == clear_all_entries(m1, new, l)
  <2>1. /\ new \in Nat
        /\ bitmap_after_allocate(st.bitmap) \subseteq BitIndex
        /\ st.bitmap \subseteq bitmap_after_allocate(st.bitmap)
    BY AllocateFrame, Zenon DEF Typed
  <2>2. IsMemory(m1)
    BY <2>1, PresentEntryType, WriteEntryType, Zenon DEF Typed
  <2>3. IsMemory(m2)
    BY <2>1, <2>2, ClearFacts, Zenon
  <2>4. ensure_table(st, f, i, l) = [bitmap |-> bitmap_after_allocate(st.bitmap), mem |-> m2]
    BY <1>2, Zenon DEF ensure_table
  <2> HIDE DEF m2
  <2> QED BY <2>1, <2>3, <2>4 DEF Typed
<1> QED BY <1>1, <1>2, Zenon

(* map_page_unchecked keeps the types and frees no frame. *)
LEMMA MapPageType ==
  ASSUME NEW st, Typed(st), NEW page \in Nat, NEW u \in Nat
  PROVE  /\ Typed(map_page_unchecked(st, page, u))
         /\ st.bitmap \subseteq map_page_unchecked(st, page, u).bitmap
<1> DEFINE st4 == ensure_table(st, ROOT, level4_idx(page), 3)
           f3  == EntryAt(st4.mem, ROOT, level4_idx(page)).addr
           st3 == ensure_table(st4, f3, level3_idx(page), 2)
           f2  == EntryAt(st3.mem, f3, level3_idx(page)).addr
           st2 == ensure_table(st3, f2, level2_idx(page), 1)
           f1  == EntryAt(st2.mem, f2, level2_idx(page)).addr
           m1  == write_entry(st2.mem, f1, level1_idx(page), PresentEntry(u))
<1>1. map_page_unchecked(st, page, u) = [bitmap |-> st2.bitmap, mem |-> m1]
  BY Zenon DEF map_page_unchecked
<1>2. Typed(st4) /\ st.bitmap \subseteq st4.bitmap
  BY LevelIdx, EnsureTableType
<1>3. Typed(st3) /\ st4.bitmap \subseteq st3.bitmap
  BY <1>2, LevelIdx, EnsureTableType
<1>4. Typed(st2) /\ st3.bitmap \subseteq st2.bitmap
  BY <1>3, LevelIdx, EnsureTableType
<1> HIDE DEF st2
<1>5. IsMemory(m1)
  BY <1>4, LevelIdx, PresentEntryType, WriteEntryType, Zenon DEF Typed
<1> HIDE DEF m1, st3, st4
<1> QED BY <1>1, <1>2, <1>3, <1>4, <1>5 DEF Typed
-----------------------------------------------------------------------------
(* Levels, before and after a write *)

(* Only level-2 entries are huge. *)
LEMMA NotHuge ==
  ASSUME NEW m, WellLevelled(m), NEW f \in DOMAIN m, NEW i \in Idx, m[f].level # 2
  PROVE  ~ EntryAt(m, f, i).huge
BY Zenon DEF WellLevelled, EntryAt

(* What WellLevelled says of one entry. *)
LevelledAt(m, g, j) ==
  /\ m[g].entries[j].huge => m[g].level = 2
  /\ Refers(m, g, j) /\ m[g].level > 1 =>
       /\ m[g].entries[j].addr \in DOMAIN m
       /\ m[m[g].entries[j].addr].level = m[g].level - 1

(* The levels are in order when they are at every entry. *)
LEMMA Levelled ==
  ASSUME NEW m
  PROVE  WellLevelled(m) <=> /\ ROOT \in DOMAIN m /\ m[ROOT].level = 4
                             /\ \A g \in DOMAIN m, j \in Idx : LevelledAt(m, g, j)
BY Zenon DEF WellLevelled, LevelledAt

(* An entry that did not change, in tables that are still there, is as     *)
(* well levelled as it was.                                                *)
LEMMA LevelledKept ==
  ASSUME NEW m, NEW m1, NEW g \in DOMAIN m, NEW j \in Idx, LevelledAt(m, g, j),
         m1[g].entries[j] = m[g].entries[j],
         \A h \in DOMAIN m : h \in DOMAIN m1 /\ m1[h].level = m[h].level
  PROVE  LevelledAt(m1, g, j)
BY Zenon DEF LevelledAt, Refers

(* A write to a level-1 entry that is not huge leaves the levels in order. *)
LEMMA WriteLevelled ==
  ASSUME NEW m, IsMemory(m), WellLevelled(m), NEW f \in DOMAIN m, m[f].level = 1,
         NEW i \in Idx, NEW e \in Entry, ~ e.huge
  PROVE  WellLevelled(write_entry(m, f, i, e))
<1>1. PICK m1 : m1 = write_entry(m, f, i, e)
  BY Zenon
<1>2. /\ DOMAIN m1 = DOMAIN m
      /\ \A g \in DOMAIN m :
           /\ m1[g].level = m[g].level
           /\ \A j \in Idx : m1[g].entries[j] = IF g = f /\ j = i THEN e ELSE m[g].entries[j]
  BY <1>1, WriteEntryFacts
<1>3. ROOT \in DOMAIN m1 /\ m1[ROOT].level = 4
  BY <1>2, Levelled, Zenon
<1>4. ASSUME NEW g \in DOMAIN m1, NEW j \in Idx PROVE LevelledAt(m1, g, j)
  <2>1. CASE g = f /\ j = i
    <3>1. m1[g].level = 1 /\ m1[g].entries[j] = e
      BY <2>1, <1>2, Zenon
    <3> QED BY <3>1 DEF LevelledAt
  <2>2. CASE ~ (g = f /\ j = i)
    <3>1. m1[g].entries[j] = m[g].entries[j]
      BY <2>2, <1>2, Zenon
    <3>2. LevelledAt(m, g, j)
      BY <1>2, Levelled, Zenon
    <3> QED BY <3>1, <3>2, <1>2, LevelledKept, Zenon
  <2> QED BY <2>1, <2>2, Zenon
<1>5. WellLevelled(m1)
  BY <1>3, <1>4, Levelled, Zenon
<1> QED BY <1>1, <1>5, Zenon
-----------------------------------------------------------------------------
(* Walks, before and after a step *)

(* m1 has the tables of m and perhaps empty new ones; only absent entries  *)
(* of m above level 1 changed, and they now refer to new tables.           *)
Extends(m, m1) ==
  /\ DOMAIN m \subseteq DOMAIN m1
  /\ \A g \in DOMAIN m :
       /\ m1[g].level = m[g].level
       /\ \A j \in Idx :
            \/ m1[g].entries[j] = m[g].entries[j]
            \/ ~ m[g].entries[j].present /\ m1[g].entries[j].addr \notin DOMAIN m
               /\ ~ m1[g].entries[j].huge /\ m[g].level > 1
  /\ \A g \in DOMAIN m1 \ DOMAIN m, j \in Idx :
       ~ m1[g].entries[j].present /\ ~ m1[g].entries[j].huge

(* m1 differs from m in level-1 tables only. *)
SameUpper(m, m1) ==
  /\ DOMAIN m = DOMAIN m1
  /\ \A g \in DOMAIN m : /\ m1[g].level = m[g].level
                         /\ m[g].level # 1 => m1[g] = m[g]

(* The entries that were present are still the same. *)
LEMMA ExtendsEntry ==
  ASSUME NEW m, NEW m1, Extends(m, m1), NEW g \in DOMAIN m, NEW j \in Idx,
         EntryAt(m, g, j).present
  PROVE  EntryAt(m1, g, j) = EntryAt(m, g, j)
BY Zenon DEF Extends, EntryAt

(* What a walk of m1 finds in a table of m, and in a new one. *)
LEMMA ExtendsBack ==
  ASSUME NEW m, NEW m1, Extends(m, m1), NEW g \in DOMAIN m1, NEW j \in Idx
  PROVE  /\ m1[g].entries[j].present \/ m1[g].entries[j].huge => g \in DOMAIN m
         /\ g \in DOMAIN m /\ (m1[g].entries[j].addr \in DOMAIN m \/ m1[g].entries[j].huge)
              => m[g].entries[j] = m1[g].entries[j]
BY Zenon DEF Extends

(* A new table takes no walk its level-1 table, and adds no huge page. *)
LEMMA ExtendsKeeps ==
  ASSUME NEW m, IsMemory(m), WellLevelled(m), NEW m1, IsMemory(m1), WellLevelled(m1),
         Extends(m, m1)
  PROVE  Keeps(m, m1)
<1> SUFFICES ASSUME NEW p \in Nat
             PROVE  /\ Path(m, p) => Path(m1, p)
                    /\ HugeAt(m1, p) => HugeAt(m, p)
                    /\ has_page_entry_mut(m, p) => has_page_entry_mut(m1, p)
  BY Zenon DEF Keeps
<1> DEFINE i4 == level4_idx(p)
           i3 == level3_idx(p)
           i2 == level2_idx(p)
<1>1. i4 \in Idx /\ i3 \in Idx /\ i2 \in Idx
  BY LevelIdx, Zenon
<1>2. ROOT \in DOMAIN m /\ ROOT \in DOMAIN m1
  BY Zenon DEF WellLevelled
<1>3. /\ Entry4(m, p) = m[ROOT].entries[i4]
      /\ Entry4(m, p).present =>
           Entry4(m, p).addr \in DOMAIN m /\ Entry3(m, p) = m[Entry4(m, p).addr].entries[i3]
      /\ Entry4(m, p).present /\ Entry3(m, p).present =>
           Entry3(m, p).addr \in DOMAIN m /\ Entry2(m, p) = m[Entry3(m, p).addr].entries[i2]
  BY WalkFacts, Zenon
<1>4. /\ Entry4(m1, p) = m1[ROOT].entries[i4]
      /\ Entry4(m1, p).present =>
           Entry4(m1, p).addr \in DOMAIN m1 /\ Entry3(m1, p) = m1[Entry4(m1, p).addr].entries[i3]
      /\ Entry4(m1, p).present /\ Entry3(m1, p).present =>
           Entry3(m1, p).addr \in DOMAIN m1 /\ Entry2(m1, p) = m1[Entry3(m1, p).addr].entries[i2]
  BY WalkFacts, Zenon
<1> HIDE DEF i4, i3, i2
<1>5. \A g \in DOMAIN m, j \in Idx :
        m[g].entries[j].present => m1[g].entries[j] = m[g].entries[j]
  BY Zenon DEF Extends
<1>6. \A g \in DOMAIN m1, j \in Idx :
        /\ m1[g].entries[j].present \/ m1[g].entries[j].huge => g \in DOMAIN m
        /\ g \in DOMAIN m /\ (m1[g].entries[j].addr \in DOMAIN m \/ m1[g].entries[j].huge)
             => m[g].entries[j] = m1[g].entries[j]
  BY ExtendsBack
<1>7. PICK a4, a3, a2 : a4 = Entry4(m, p) /\ a3 = Entry3(m, p) /\ a2 = Entry2(m, p)
  BY Zenon
<1>8. PICK b4, b3, b2 : b4 = Entry4(m1, p) /\ b3 = Entry3(m1, p) /\ b2 = Entry2(m1, p)
  BY Zenon
<1>9. /\ a4 = m[ROOT].entries[i4]
      /\ a4.present => a4.addr \in DOMAIN m /\ a3 = m[a4.addr].entries[i3]
      /\ a4.present /\ a3.present => a3.addr \in DOMAIN m /\ a2 = m[a3.addr].entries[i2]
  BY <1>3, <1>7, Zenon
<1>10. /\ b4 = m1[ROOT].entries[i4]
       /\ b4.present => b4.addr \in DOMAIN m1 /\ b3 = m1[b4.addr].entries[i3]
       /\ b4.present /\ b3.present => b3.addr \in DOMAIN m1 /\ b2 = m1[b3.addr].entries[i2]
  BY <1>4, <1>8, Zenon
<1>11. ASSUME has_page_entry_mut(m, p)
       PROVE  has_page_entry_mut(m1, p) /\ (Path(m, p) => Path(m1, p))
  <2>1. a4.present /\ a3.present /\ a2.present
    BY <1>7, <1>11, Zenon DEF has_page_entry_mut
  <2>2. b4 = a4
    BY <2>1, <1>1, <1>2, <1>5, <1>9, <1>10, Zenon
  <2>3. b3 = a3
    BY <2>1, <2>2, <1>1, <1>5, <1>9, <1>10, ZenonT(60)
  <2>4. b2 = a2
    BY <2>1, <2>2, <2>3, <1>1, <1>5, <1>9, <1>10, Zenon
  <2> QED BY <2>1, <2>2, <2>3, <2>4, <1>7, <1>8, Zenon DEF Path, has_page_entry_mut
<1>12. ASSUME HugeAt(m1, p) PROVE HugeAt(m, p)
  <2>1. b4.present /\ b3.present /\ b2.huge
    BY <1>8, <1>12, Zenon DEF HugeAt
  <2>2. b4.addr \in DOMAIN m
    BY <2>1, <1>1, <1>6, <1>10, Zenon
  <2>3. b3.addr \in DOMAIN m
    BY <2>1, <1>1, <1>6, <1>10, Zenon
  <2>4. a4 = b4
    BY <2>2, <1>1, <1>2, <1>6, <1>9, <1>10, Zenon
  <2>5. a3 = b3
    BY <2>1, <2>2, <2>3, <2>4, <1>1, <1>6, <1>9, <1>10, ZenonT(60)
  <2>6. a2 = b2
    BY <2>1, <2>3, <2>4, <2>5, <1>1, <1>6, <1>9, <1>10, Zenon
  <2> QED BY <2>1, <2>4, <2>5, <2>6, <1>7, Zenon DEF HugeAt
<1>13. Path(m, p) => has_page_entry_mut(m, p)
  BY Zenon DEF Path, has_page_entry_mut
<1> QED BY <1>11, <1>12, <1>13, Zenon

(* A write to a level-1 table changes nothing above it. *)
LEMMA SameUpperWalk ==
  ASSUME NEW m, IsMemory(m), WellLevelled(m), NEW m1, IsMemory(m1), WellLevelled(m1),
         SameUpper(m, m1), NEW p \in Nat
  PROVE  /\ Path(m, p) => Path(m1, p)
         /\ HugeAt(m1, p) => HugeAt(m, p)
         /\ has_page_entry_mut(m, p) => has_page_entry_mut(m1, p)
         /\ Path(m, p) => Entry2(m1, p) = Entry2(m, p)
<1>1. ROOT \in DOMAIN m /\ m[ROOT].level = 4
  BY Zenon DEF WellLevelled
<1>2. Entry4(m1, p) = Entry4(m, p)
  BY <1>1, WalkFacts DEF SameUpper
<1>3. Entry4(m, p).present => Entry3(m1, p) = Entry3(m, p)
  BY <1>2, WalkFacts DEF SameUpper
<1>4. Entry4(m, p).present /\ Entry3(m, p).present => Entry2(m1, p) = Entry2(m, p)
  BY <1>2, <1>3, WalkFacts DEF SameUpper
<1> QED BY <1>2, <1>3, <1>4, Zenon DEF Path, HugeAt, has_page_entry_mut
(* A write to an entry of a level-1 table is such a change. *)
LEMMA SameUpperWrite ==
  ASSUME NEW m, IsMemory(m), NEW f \in DOMAIN m, m[f].level = 1, NEW i, NEW e
  PROVE  SameUpper(m, write_entry(m, f, i, e))
<1> DEFINE m1 == write_entry(m, f, i, e)
<1>1. m1 = [m EXCEPT ![f].entries[i] = e]
  BY Zenon DEF write_entry
<1>2. DOMAIN m1 = DOMAIN m /\ \A g \in DOMAIN m : g # f => m1[g] = m[g]
  BY <1>1, Zenon
<1>3. m1[f] = [m[f] EXCEPT !.entries = [m[f].entries EXCEPT ![i] = e]]
  BY <1>1, Zenon
<1>4. m[f] \in Table
  BY Zenon DEF IsMemory
<1>5. m1[f].level = m[f].level
  BY <1>3, <1>4, Zenon DEF Table
<1> HIDE DEF m1
<1> QED BY <1>2, <1>5, Zenon DEF SameUpper, m1

(* It leaves the tables a tree. *)
LEMMA SameUpperTree ==
  ASSUME NEW m, IsMemory(m), OneParent(m), NEW m1, SameUpper(m, m1)
  PROVE  OneParent(m1)
<1>1. \A g \in DOMAIN m1 : m1[g].level > 1 => g \in DOMAIN m /\ m1[g] = m[g]
  BY DEF SameUpper
<1> QED BY <1>1 DEF OneParent, Refers
-----------------------------------------------------------------------------
(* Pages, before and after a step *)

(* The walk for p ends in a present level-1 entry. *)
Backed(m, p) == Path(m, p) /\ Entry1(m, p).present

(* From m to m1 the pages other than p are mapped as they were, or not mapped. *)
OnlyPage(m, m1, p) ==
  \A q \in Page \ {p} : /\ Backed(m1, q) <=> Backed(m, q)
                        /\ Backed(m, q) => Entry1(m1, q) = Entry1(m, q)

(* A page is what the four indices of its walk say. *)
LEMMA PageIndices ==
  ASSUME NEW p \in Page, NEW q \in Page,
         level4_idx(p) = level4_idx(q), level3_idx(p) = level3_idx(q),
         level2_idx(p) = level2_idx(q), level1_idx(p) = level1_idx(q)
  PROVE  p = q
<1>1. E \in Nat /\ E > 0
  BY PageTableAssumption
<1>2. E * E \in Nat /\ E * E > 0
  BY <1>1
<1>3. MAX_PAGE_CANONICAL_NUM \in Nat
  BY <1>1, <1>2 DEF MAX_PAGE_CANONICAL_NUM
<1>4. ASSUME NEW x \in Page
      PROVE  /\ x \in Nat /\ x \div E \in Nat /\ x \div (E * E) \in Nat
             /\ x = E * (x \div E) + level1_idx(x)
             /\ x \div E = E * (x \div (E * E)) + level2_idx(x)
             /\ x \div (E * E) = E * level4_idx(x) + level3_idx(x)
  <2>1. x \in Nat /\ canonical_num(x) = x
    BY <1>3 DEF Page, canonical_num
  <2>2. x \div E \in Nat /\ x = E * (x \div E) + (x % E)
    BY <1>1, <2>1, DivMod, Zenon
  <2>3. x \div (E * E) \in Nat /\ (x \div E) \div E = x \div (E * E)
    BY <1>1, <1>2, <2>1, DivMod, DivDiv, Zenon
  <2>4. (x \div (E * E)) \div E = x \div (E * E * E)
    BY <1>1, <1>2, <2>1, DivDiv, Zenon
  <2>5. x \div E = E * ((x \div E) \div E) + ((x \div E) % E)
    BY <1>1, <2>2, DivMod, Zenon
  <2>6. x \div (E * E) = E * ((x \div (E * E)) \div E) + ((x \div (E * E)) % E)
    BY <1>1, <2>3, DivMod, Zenon
  <2> QED BY <2>1, <2>2, <2>3, <2>4, <2>5, <2>6, Zenon
          DEF level4_idx, level3_idx, level2_idx, level1_idx
<1>5. p \div (E * E) = q \div (E * E)
  BY <1>4, Zenon
<1>6. p \div E = q \div E
  BY <1>4, <1>5, Zenon
<1> QED BY <1>4, <1>6, Zenon

(* Two pages have two level-1 entries. *)
LEMMA OwnEntry ==
  ASSUME NEW m, IsMemory(m), WellLevelled(m), OneParent(m),
         NEW p \in Page, NEW q \in Page, Path(m, p), Path(m, q),
         Entry2(m, p).addr = Entry2(m, q).addr, level1_idx(p) = level1_idx(q)
  PROVE  p = q
<1>1. ROOT \in DOMAIN m /\ m[ROOT].level = 4
  BY Zenon DEF WellLevelled
<1>2. ASSUME NEW x \in Page, Path(m, x)
      PROVE  /\ level4_idx(x) \in Idx /\ level3_idx(x) \in Idx /\ level2_idx(x) \in Idx
             /\ Entry4(m, x) = m[ROOT].entries[level4_idx(x)]
             /\ Entry4(m, x).addr \in DOMAIN m /\ m[Entry4(m, x).addr].level = 3
             /\ Entry3(m, x) = m[Entry4(m, x).addr].entries[level3_idx(x)]
             /\ Entry3(m, x).addr \in DOMAIN m /\ m[Entry3(m, x).addr].level = 2
             /\ Entry2(m, x) = m[Entry3(m, x).addr].entries[level2_idx(x)]
             /\ Refers(m, ROOT, level4_idx(x))
             /\ Refers(m, Entry4(m, x).addr, level3_idx(x))
             /\ Refers(m, Entry3(m, x).addr, level2_idx(x))
  <2>1. x \in Nat
    BY DEF Page
  <2>2. level4_idx(x) \in Idx /\ level3_idx(x) \in Idx /\ level2_idx(x) \in Idx
    BY <2>1, LevelIdx, Zenon
  <2>3. /\ Entry4(m, x) = m[ROOT].entries[level4_idx(x)]
        /\ Entry4(m, x).addr \in DOMAIN m /\ m[Entry4(m, x).addr].level = 3
        /\ Entry3(m, x) = m[Entry4(m, x).addr].entries[level3_idx(x)]
        /\ Entry3(m, x).addr \in DOMAIN m /\ m[Entry3(m, x).addr].level = 2
        /\ Entry2(m, x) = m[Entry3(m, x).addr].entries[level2_idx(x)]
    BY <1>2, <2>1, WalkFacts, Zenon DEF Path
  <2>4. ~ Entry4(m, x).huge /\ ~ Entry3(m, x).huge
    <3>1. \A f \in DOMAIN m, i \in Idx : m[f].level # 2 => ~ m[f].entries[i].huge
      BY Zenon DEF WellLevelled
    <3>2. 4 # 2 /\ 3 # 2
      OBVIOUS
    <3> QED BY <1>1, <2>2, <2>3, <3>1, <3>2, Zenon
  <2> QED BY <1>2, <2>2, <2>3, <2>4, Zenon DEF Path, Refers
<1>3. Entry3(m, p).addr = Entry3(m, q).addr /\ level2_idx(p) = level2_idx(q)
  BY <1>2 DEF OneParent
<1>4. Entry4(m, p).addr = Entry4(m, q).addr /\ level3_idx(p) = level3_idx(q)
  BY <1>2, <1>3 DEF OneParent
<1>5. level4_idx(p) = level4_idx(q)
  BY <1>1, <1>2, <1>4 DEF OneParent
<1> QED BY <1>3, <1>4, <1>5, PageIndices, Zenon

(* A write to the level-1 entry of a page changes that page only. *)
LEMMA LeafWrite ==
  ASSUME NEW m, IsMemory(m), WellLevelled(m), OneParent(m),
         NEW p \in Page, Path(m, p), NEW e \in Entry, ~ e.huge,
         NEW m1, m1 = write_entry(m, Entry2(m, p).addr, level1_idx(p), e)
  PROVE  Path(m1, p) /\ Entry1(m1, p) = e /\ OnlyPage(m, m1, p)
<1> DEFINE f == Entry2(m, p).addr
           i == level1_idx(p)
<1>1. Page \subseteq Nat
  BY DEF Page
<1>2. f \in DOMAIN m /\ m[f].level = 1 /\ i \in Idx
  BY <1>1, PathLeaf, Zenon
<1>3. /\ IsMemory(m1) /\ DOMAIN m1 = DOMAIN m
      /\ \A g \in DOMAIN m :
           /\ m1[g].level = m[g].level
           /\ \A j \in Idx : m1[g].entries[j] = IF g = f /\ j = i THEN e ELSE m[g].entries[j]
  BY <1>2, WriteEntryFacts
<1>4. WellLevelled(m1)
  BY <1>2, WriteLevelled, Zenon
<1>5. SameUpper(m, m1)
  BY <1>2, SameUpperWrite, Zenon
<1>6. SameUpper(m1, m)
  BY <1>5, Zenon DEF SameUpper
<1>7. ASSUME NEW q \in Page
      PROVE  /\ Path(m1, q) <=> Path(m, q)
             /\ Path(m, q) => Entry2(m1, q) = Entry2(m, q)
  <2>1. q \in Nat
    BY <1>1, Zenon
  <2> QED BY <2>1, <1>3, <1>4, <1>5, <1>6, SameUpperWalk, Zenon
<1>8. ASSUME NEW q \in Page, Path(m, q)
      PROVE  Entry1(m1, q) = IF q = p THEN e ELSE Entry1(m, q)
  <2>1. /\ Entry2(m, q).addr \in DOMAIN m /\ level1_idx(q) \in Idx
        /\ Entry1(m, q) = m[Entry2(m, q).addr].entries[level1_idx(q)]
    BY <1>1, <1>8, PathLeaf, Zenon
  <2>2. Entry1(m1, q) = m1[Entry2(m, q).addr].entries[level1_idx(q)]
    BY <1>1, <1>3, <1>4, <1>7, <1>8, PathLeaf
  <2>3. q # p => ~ (Entry2(m, q).addr = f /\ level1_idx(q) = i)
    BY <1>8, OwnEntry, Zenon
  <2> QED BY <2>1, <2>2, <2>3, <1>3, Zenon
<1>9. OnlyPage(m, m1, p)
  BY <1>7, <1>8, Zenon DEF OnlyPage, Backed
<1> QED BY <1>7, <1>8, <1>9, Zenon

(* A new table backs no page. *)
LEMMA ExtendsBacked ==
  ASSUME NEW m, IsMemory(m), WellLevelled(m), NEW m1, IsMemory(m1), WellLevelled(m1),
         Extends(m, m1), NEW p \in Nat
  PROVE  /\ Backed(m1, p) <=> Backed(m, p)
         /\ Backed(m, p) => Entry1(m1, p) = Entry1(m, p)
<1>1. PICK i4 \in Idx, i3 \in Idx, i2 \in Idx, i1 \in Idx :
        /\ i4 = level4_idx(p) /\ i3 = level3_idx(p)
        /\ i2 = level2_idx(p) /\ i1 = level1_idx(p)
  BY LevelIdx, Zenon
<1>2. ROOT \in DOMAIN m /\ ROOT \in DOMAIN m1
  BY Zenon DEF WellLevelled
<1>3. PICK a4, a3, a2, a1 : /\ a4 = Entry4(m, p) /\ a3 = Entry3(m, p)
                            /\ a2 = Entry2(m, p) /\ a1 = Entry1(m, p)
  BY Zenon
<1>4. PICK b4, b3, b2, b1 : /\ b4 = Entry4(m1, p) /\ b3 = Entry3(m1, p)
                            /\ b2 = Entry2(m1, p) /\ b1 = Entry1(m1, p)
  BY Zenon
<1>5. /\ a4 = m[ROOT].entries[i4]
      /\ a4.present => a4.addr \in DOMAIN m /\ a3 = m[a4.addr].entries[i3]
      /\ a4.present /\ a3.present => a3.addr \in DOMAIN m /\ a2 = m[a3.addr].entries[i2]
      /\ a4.present /\ a3.present /\ a2.present /\ ~ a2.huge =>
           a2.addr \in DOMAIN m /\ a1 = m[a2.addr].entries[i1]
  BY <1>1, <1>3, WalkFacts, ZenonT(30) DEF Path
<1>6. /\ b4 = m1[ROOT].entries[i4]
      /\ b4.present => b4.addr \in DOMAIN m1 /\ b3 = m1[b4.addr].entries[i3]
      /\ b4.present /\ b3.present => b3.addr \in DOMAIN m1 /\ b2 = m1[b3.addr].entries[i2]
      /\ b4.present /\ b3.present /\ b2.present /\ ~ b2.huge =>
           b2.addr \in DOMAIN m1 /\ b1 = m1[b2.addr].entries[i1]
  BY <1>1, <1>4, WalkFacts, ZenonT(30) DEF Path
<1>7. \A g \in DOMAIN m, j \in Idx :
        m[g].entries[j].present => m1[g].entries[j] = m[g].entries[j]
  BY Zenon DEF Extends
<1>8. \A g \in DOMAIN m1, j \in Idx :
        /\ m1[g].entries[j].present \/ m1[g].entries[j].huge => g \in DOMAIN m
        /\ g \in DOMAIN m /\ (m1[g].entries[j].addr \in DOMAIN m \/ m1[g].entries[j].huge)
             => m[g].entries[j] = m1[g].entries[j]
  BY ExtendsBack
<1>9. Backed(m, p) <=> a4.present /\ a3.present /\ a2.present /\ ~ a2.huge /\ a1.present
  BY <1>3, Zenon DEF Backed, Path
<1>10. Backed(m1, p) <=> b4.present /\ b3.present /\ b2.present /\ ~ b2.huge /\ b1.present
  BY <1>4, Zenon DEF Backed, Path
<1>11. ASSUME Backed(m, p) PROVE Backed(m1, p) /\ b1 = a1
  <2>1. b4 = a4
    BY <1>2, <1>5, <1>6, <1>7, <1>9, <1>11, Zenon
  <2>2. b3 = a3
    <3>1. a4.addr \in DOMAIN m /\ a3 = m[a4.addr].entries[i3] /\ a3.present
      BY <1>5, <1>9, <1>11, Zenon
    <3>2. b3 = m1[a4.addr].entries[i3]
      BY <2>1, <1>6, <1>9, <1>11, Zenon
    <3> QED BY <3>1, <3>2, <1>7, Zenon
  <2>3. b2 = a2
    BY <2>1, <2>2, <1>5, <1>6, <1>7, <1>9, <1>11, Zenon
  <2>4. b1 = a1
    BY <2>1, <2>2, <2>3, <1>5, <1>6, <1>7, <1>9, <1>11, Zenon
  <2> QED BY <2>1, <2>2, <2>3, <2>4, <1>9, <1>10, <1>11, Zenon
<1>12. ASSUME Backed(m1, p) PROVE Backed(m, p)
  <2>1. b4.addr \in DOMAIN m /\ b3.addr \in DOMAIN m /\ b2.addr \in DOMAIN m
    BY <1>6, <1>8, <1>10, <1>12, ZenonT(60)
  <2>2. a4 = b4
    BY <2>1, <1>2, <1>5, <1>6, <1>8, Zenon
  <2>3. a3 = b3
    BY <2>1, <2>2, <1>5, <1>6, <1>8, <1>10, <1>12
  <2>4. a2 = b2
    BY <2>1, <2>2, <2>3, <1>5, <1>6, <1>8, <1>10, <1>12, Zenon
  <2>5. a1.present
    <3>1. b2.addr \in DOMAIN m1 /\ m1[b2.addr].level = 1
      BY <1>4, <1>10, <1>12, WalkFacts, Zenon DEF Backed
    <3>2. b2.addr \in DOMAIN m /\ b1 = m1[b2.addr].entries[i1] /\ a1 = m[b2.addr].entries[i1]
      BY <2>1, <2>2, <2>3, <2>4, <1>5, <1>6, <1>10, <1>12, Zenon
    <3>3. m1[b2.addr].entries[i1] = m[b2.addr].entries[i1]
      BY <3>1, <3>2 DEF Extends
    <3> QED BY <3>2, <3>3, <1>10, <1>12, Zenon
  <2> QED BY <2>2, <2>3, <2>4, <2>5, <1>9, <1>10, <1>12, Zenon
<1> QED BY <1>3, <1>4, <1>11, <1>12, Zenon
-----------------------------------------------------------------------------
(* What the two searches return *)

(* find_free_pages returns pages of the address space, none of them present. *)
LEMMA FindFreePages ==
  ASSUME NEW m, NEW start \in Nat, NEW n \in Nat \ {0}, found_free_pages(m, start, n)
  PROVE  LET end == free_pages_end(m, start, n)
         IN  /\ end \in Page /\ end - n + 1 \in Nat
             /\ \A p \in end - n + 1 .. end : ~ is_present(m, p)
<1> DEFINE S == FreeRunEnds(m, start, n)
<1>1. MAX_PAGE_CANONICAL_NUM \in Nat
  BY PageTableAssumption DEF MAX_PAGE_CANONICAL_NUM
<1>2. S \in SUBSET Nat /\ S # {}
  BY <1>1 DEF FreeRunEnds, found_free_pages
<1>3. PICK e : e = Min(S)
  OBVIOUS
<1>4. e \in S
  BY <1>2, <1>3, MinNat, Zenon
<1>5. free_pages_end(m, start, n) = e
  BY <1>3, Zenon DEF free_pages_end
<1>6. /\ e \in start + n - 1 .. MAX_PAGE_CANONICAL_NUM - 1
      /\ \A p \in e - n + 1 .. e : ~ is_present(m, p)
  BY <1>4, Zenon DEF FreeRunEnds
<1>7. e \in Page /\ e - n + 1 \in Nat
  BY <1>1, <1>6 DEF Page
<1> QED BY <1>5, <1>6, <1>7, Zenon

(* alloc_phy_addr, when it returns Some, marks frames it has bools for. *)
LEMMA ReservePhy ==
  ASSUME NEW b, b \subseteq BitIndex, NEW u \in Nat, NEW n \in Nat,
         ~ alloc_phy_addr_panics(b, u, n), ~ alloc_phy_addr_taken(b, u, n)
  PROVE  PhyIndices(u, n) \subseteq BitIndex /\ PhyIndices(u, n) \cap b = {}
<1>1. PhyIndices(u, n) \cap b = {} /\ u >= OFFSET
  BY PhysicalAssumption DEF alloc_phy_addr_panics, alloc_phy_addr_taken
<1>2. \A i \in PhyIndices(u, n) : ~ (i >= BITMAP_SIZE)
  BY <1>1, Zenon DEF alloc_phy_addr_panics
<1> QED BY <1>1, <1>2, PhysicalAssumption DEF PhyIndices, BitIndex

-----------------------------------------------------------------------------
(* The provers get half a minute for a leaf that names none. *)
USE SMTT(30)

(* The frame invariant of a bitmap and a memory.  X is a set of frames     *)
(* taken from the bitmap that no entry refers to yet.                      *)

Points(m, f, i, u) == Refers(m, f, i) /\ m[f].entries[i].addr = u

TablesMarked(st) == \A f \in DOMAIN st.mem \cap OwnFrames : f - OFFSET \in st.bitmap

Marked(st) ==
  \A f \in DOMAIN st.mem, i \in Idx, u \in OwnFrames :
    Points(st.mem, f, i, u) => u - OFFSET \in st.bitmap

Unshared(st) ==
  \A f, g \in DOMAIN st.mem, i, j \in Idx, u \in OwnFrames :
    Points(st.mem, f, i, u) /\ Points(st.mem, g, j, u) => f = g /\ i = j

Reserved(st, X) ==
  \A u \in X \cap OwnFrames :
    /\ u - OFFSET \in st.bitmap
    /\ \A f \in DOMAIN st.mem, i \in Idx : ~ Points(st.mem, f, i, u)

TablesReferred(st) ==
  \A t \in DOMAIN st.mem \cap OwnFrames :
    \E f \in DOMAIN st.mem, i \in Idx : st.mem[f].level > 1 /\ Points(st.mem, f, i, t)

Good(st, X) ==
  /\ Typed(st) /\ WellLevelled(st.mem) /\ OneParent(st.mem)
  /\ AbsentClear(st.mem) /\ TablesReferred(st)
  /\ TablesMarked(st) /\ Marked(st) /\ Unshared(st) /\ Reserved(st, X)

(* Every marked frame is referred to, or in X. *)
Covered(st, X) ==
  \A b \in st.bitmap :
    \/ b + OFFSET \in X
    \/ \E f \in DOMAIN st.mem, i \in Idx : Points(st.mem, f, i, b + OFFSET)

(* What the frame invariant says of the tables alone. *)
LEMMA GoodMemory ==
  ASSUME NEW st, NEW X, Good(st, X)
  PROVE  /\ Typed(st) /\ IsMemory(st.mem) /\ WellLevelled(st.mem) /\ OneParent(st.mem)
         /\ ROOT \in DOMAIN st.mem /\ st.mem[ROOT].level = 4
BY Zenon DEF Good, Typed, WellLevelled

(* Taking a frame from the bitmap reserves it. *)
LEMMA ReserveFrame ==
  ASSUME NEW st, NEW X, Good(st, X), FrameLeft(bitmap_after_allocate(st.bitmap))
  PROVE  Good([bitmap |-> bitmap_after_allocate(st.bitmap), mem |-> st.mem],
              X \cup {allocated_frame(st.bitmap)})
<1> DEFINE b == st.bitmap
           b1 == bitmap_after_allocate(b)
           new == allocated_frame(b)
           st1 == [bitmap |-> b1, mem |-> st.mem]
<1>1. /\ b1 \subseteq BitIndex /\ b \subseteq b1
      /\ new - OFFSET \notin b /\ new - OFFSET \in b1
  BY AllocateFrame, Zenon DEF Good, Typed
<1> HIDE DEF b1, new
<1>2. Typed(st1) /\ st1.mem = st.mem /\ st1.bitmap = b1
  BY <1>1, Zenon DEF Good, Typed
<1> HIDE DEF st1
<1>3. /\ WellLevelled(st1.mem) /\ OneParent(st1.mem)
      /\ AbsentClear(st1.mem) /\ TablesReferred(st1)
      /\ TablesMarked(st1) /\ Marked(st1) /\ Unshared(st1)
  BY <1>1, <1>2, Zenon DEF Good, TablesReferred, TablesMarked, Marked, Unshared
<1>4. Reserved(st1, X \cup {new})
  BY <1>1, <1>2, Zenon DEF Good, Marked, Reserved
<1> QED BY <1>2, <1>3, <1>4, Zenon DEF Good, st1, b1, new

(* Fewer reserved frames are reserved too. *)
LEMMA GoodWeaken ==
  ASSUME NEW st, NEW X, NEW Y, Good(st, X), Y \cap OwnFrames \subseteq X
  PROVE  Good(st, Y)
BY Zenon DEF Good, Reserved

(* Writing a reserved frame into a level-1 entry. *)
LEMMA WriteLeaf ==
  ASSUME NEW st, NEW X, Good(st, X),
         NEW f \in DOMAIN st.mem, st.mem[f].level = 1, NEW i \in Idx,
         NEW u \in Nat, u \in X \/ u \notin OwnFrames
  PROVE  Good([bitmap |-> st.bitmap, mem |-> write_entry(st.mem, f, i, PresentEntry(u))],
              X \ {u})
<1> DEFINE m == st.mem
           m1 == write_entry(m, f, i, PresentEntry(u))
           st1 == [bitmap |-> st.bitmap, mem |-> m1]
<1>1. IsMemory(m) /\ st.bitmap \subseteq BitIndex
  BY Zenon DEF Good, Typed
<1>2. /\ PresentEntry(u) \in Entry
      /\ PresentEntry(u).present /\ ~ PresentEntry(u).huge /\ PresentEntry(u).addr = u
  BY PresentEntryType, Zenon
<1>3. /\ IsMemory(m1)
      /\ DOMAIN m1 = DOMAIN m
      /\ \A g \in DOMAIN m :
           /\ m1[g].level = m[g].level
           /\ \A j \in Idx : m1[g].entries[j] =
                             IF g = f /\ j = i THEN PresentEntry(u) ELSE m[g].entries[j]
  BY <1>1, <1>2, WriteEntryFacts
<1> HIDE DEF m1
<1>4. Typed(st1) /\ st1.mem = m1 /\ st1.bitmap = st.bitmap
  BY <1>1, <1>3, Zenon DEF Typed
<1> HIDE DEF st1
<1>5. \A g \in DOMAIN m, j \in Idx, v \in OwnFrames :
        Points(m1, g, j, v) <=> IF g = f /\ j = i THEN v = u ELSE Points(m, g, j, v)
  BY <1>2, <1>3, Zenon DEF Points, Refers
<1>6. WellLevelled(m1)
  <2>1. WellLevelled(m)
    BY GoodMemory, Zenon
  <2> QED BY <2>1, <1>1, <1>2, WriteLevelled, Zenon DEF m1
<1>7. TablesMarked(st1) /\ Marked(st1)
  BY <1>3, <1>4, <1>5, ZenonT(60) DEF Good, TablesMarked, Marked, Reserved
<1>8. Unshared(st1)
  BY <1>3, <1>4, <1>5 DEF Good, Unshared, Reserved
<1>9. Reserved(st1, X \ {u})
  BY <1>3, <1>4, <1>5 DEF Good, Reserved
<1>10. AbsentClear(m1)
  BY <1>2, <1>3 DEF Good, AbsentClear
<1>11. TablesReferred(st1)
  BY <1>3, <1>4, <1>5 DEF Good, TablesReferred
<1>12. OneParent(m1)
  <2>1. OneParent(m)
    BY GoodMemory, Zenon
  <2>2. SameUpper(m, m1)
    BY <1>1, SameUpperWrite, Zenon DEF m1
  <2> QED BY <1>1, <2>1, <2>2, SameUpperTree, Zenon
<1>13. Good(st1, X \ {u})
  BY <1>4, <1>6, <1>7, <1>8, <1>9, <1>10, <1>11, <1>12, Zenon DEF Good
<1> QED BY <1>13, Zenon DEF st1, m1

(* free_frame and PageTableEntry::clear on a present level-1 entry. *)
LEMMA ClearLeaf ==
  ASSUME NEW st, NEW X, Good(st, X),
         NEW f \in DOMAIN st.mem, st.mem[f].level = 1, NEW i \in Idx,
         st.mem[f].entries[i].addr - OFFSET \in st.bitmap
  PROVE  Good([bitmap |-> bitmap_after_free(st.bitmap, st.mem[f].entries[i].addr),
               mem |-> write_entry(st.mem, f, i, ClearEntry)], X)
<1> DEFINE m == st.mem
           u == m[f].entries[i].addr
           b1 == bitmap_after_free(st.bitmap, u)
           m1 == write_entry(m, f, i, ClearEntry)
           st1 == [bitmap |-> b1, mem |-> m1]
<1>1. IsMemory(m) /\ st.bitmap \subseteq BitIndex
  BY Zenon DEF Good, Typed
<1>2. ClearEntry \in Entry /\ ~ ClearEntry.present /\ ~ ClearEntry.huge
  BY Zenon DEF ClearEntry, Entry, NullFrame
<1>3. /\ IsMemory(m1)
      /\ DOMAIN m1 = DOMAIN m
      /\ \A g \in DOMAIN m :
           /\ m1[g].level = m[g].level
           /\ \A j \in Idx : m1[g].entries[j] =
                             IF g = f /\ j = i THEN ClearEntry ELSE m[g].entries[j]
  BY <1>1, <1>2, WriteEntryFacts
<1>4. u \in Nat /\ u \in Managed
  <2>1. u \in Nat
    BY <1>1, Zenon DEF IsMemory, Table, Entry
  <2> QED BY <2>1, <1>1, PhysicalAssumption DEF Managed, BitIndex
<1>5. m[f].entries[i].present
  BY <1>4, PhysicalAssumption DEF Good, AbsentClear, ClearEntry, NullFrame, Managed
<1>6. Points(m, f, i, u)
  BY <1>5 DEF Good, WellLevelled, Points, Refers
<1>7. b1 \subseteq st.bitmap /\ \A v \in Managed : v # u => (v - OFFSET \in st.bitmap => v - OFFSET \in b1)
  BY <1>4, PhysicalAssumption DEF bitmap_after_free, Managed
<1> HIDE DEF m1, b1
<1>8. Typed(st1) /\ st1.mem = m1 /\ st1.bitmap = b1
  BY <1>1, <1>3, <1>7, Zenon DEF Typed
<1> HIDE DEF st1, u
<1>9. \A g \in DOMAIN m, j \in Idx, v \in OwnFrames :
        Points(m1, g, j, v) <=> ~ (g = f /\ j = i) /\ Points(m, g, j, v)
  BY <1>2, <1>3, Zenon DEF Points, Refers
<1>10. \A g \in DOMAIN m, j \in Idx, v \in OwnFrames : Points(m1, g, j, v) => v # u
  BY <1>6, <1>9 DEF Good, Unshared
<1>11. WellLevelled(m1) /\ AbsentClear(m1)
  <2>1. WellLevelled(m1)
    <3>1. WellLevelled(m)
      BY GoodMemory, Zenon
    <3> QED BY <3>1, <1>1, <1>2, WriteLevelled, Zenon DEF m1
  <2>2. AbsentClear(m1)
    BY <1>2, <1>3 DEF Good, AbsentClear
  <2> QED BY <2>1, <2>2, Zenon
<1>12. TablesReferred(st1)
  BY <1>3, <1>8, <1>9 DEF Good, TablesReferred
<1>13. TablesMarked(st1)
  <2>1. \A t \in DOMAIN m \cap OwnFrames : t # u
    BY <1>3, <1>8, <1>10, <1>12, Zenon DEF TablesReferred
  <2> QED BY <2>1, <1>3, <1>7, <1>8, Zenon DEF Good, TablesMarked, OwnFrames
<1>14. Marked(st1)
  BY <1>3, <1>7, <1>8, <1>9, <1>10, Zenon DEF Good, Marked, OwnFrames
<1>15. Unshared(st1)
  BY <1>3, <1>8, <1>9 DEF Good, Unshared
<1>16. Reserved(st1, X)
  <2>1. \A v \in X \cap OwnFrames : v # u
    BY <1>6, Zenon DEF Good, Reserved
  <2> QED BY <2>1, <1>3, <1>7, <1>8, <1>9, Zenon DEF Good, Reserved, OwnFrames
<1>17. OneParent(m1)
  <2>1. OneParent(m)
    BY GoodMemory, Zenon
  <2>2. SameUpper(m, m1)
    BY <1>1, SameUpperWrite, Zenon DEF m1
  <2> QED BY <1>1, <2>1, <2>2, SameUpperTree, Zenon
<1>18. Good(st1, X)
  BY <1>8, <1>11, <1>12, <1>13, <1>14, <1>15, <1>16, <1>17, Zenon DEF Good
<1> QED BY <1>18, Zenon DEF st1, m1, b1, u

(* No frame is lost when one is taken from the bitmap, *)
LEMMA ReserveCovered ==
  ASSUME NEW st, Typed(st), NEW X, Covered(st, X)
  PROVE  Covered([bitmap |-> bitmap_after_allocate(st.bitmap), mem |-> st.mem],
                 X \cup {allocated_frame(st.bitmap)})
<1> DEFINE b1 == bitmap_after_allocate(st.bitmap)
           new == allocated_frame(st.bitmap)
<1>1. new \in Nat /\ b1 \subseteq st.bitmap \cup {new - OFFSET}
  BY AllocateFrame, Zenon DEF Typed
<1>2. (new - OFFSET) + OFFSET = new
  BY <1>1, PhysicalAssumption
<1> HIDE DEF new, b1
<1>3. Covered([bitmap |-> b1, mem |-> st.mem], X \cup {new})
  BY <1>1, <1>2, Zenon DEF Covered
<1> QED BY <1>3, Zenon DEF b1, new

(* when one is written into a level-1 entry that is not present, *)
LEMMA LeafCovered ==
  ASSUME NEW st, Typed(st), NEW X, Covered(st, X),
         NEW f \in DOMAIN st.mem, NEW i \in Idx, ~ st.mem[f].entries[i].present, NEW u \in Nat
  PROVE  Covered([bitmap |-> st.bitmap, mem |-> write_entry(st.mem, f, i, PresentEntry(u))],
                 X \ {u})
<1> DEFINE m == st.mem
           m1 == write_entry(m, f, i, PresentEntry(u))
<1>1. IsMemory(m)
  BY Zenon DEF Typed
<1>2. /\ PresentEntry(u) \in Entry
      /\ PresentEntry(u).present /\ ~ PresentEntry(u).huge /\ PresentEntry(u).addr = u
  BY PresentEntryType, Zenon
<1>3. /\ DOMAIN m1 = DOMAIN m
      /\ \A g \in DOMAIN m :
           \A j \in Idx : m1[g].entries[j] =
                          IF g = f /\ j = i THEN PresentEntry(u) ELSE m[g].entries[j]
  BY <1>1, <1>2, WriteEntryFacts
<1> HIDE DEF m1
<1>4. Points(m1, f, i, u)
  BY <1>2, <1>3, Zenon DEF Points, Refers
<1>5. \A g \in DOMAIN m, j \in Idx : \A v : Points(m, g, j, v) => Points(m1, g, j, v)
  BY <1>3, Zenon DEF Points, Refers
<1>6. Covered([bitmap |-> st.bitmap, mem |-> m1], X \ {u})
  BY <1>3, <1>4, <1>5 DEF Covered
<1> QED BY <1>6, Zenon DEF m1

(* and when the frame of an entry is freed and the entry cleared. *)
LEMMA ClearCovered ==
  ASSUME NEW st, Typed(st), NEW X, Covered(st, X), NEW f \in DOMAIN st.mem, NEW i \in Idx
  PROVE  Covered([bitmap |-> bitmap_after_free(st.bitmap, st.mem[f].entries[i].addr),
                  mem |-> write_entry(st.mem, f, i, ClearEntry)], X)
<1> DEFINE m == st.mem
           u == m[f].entries[i].addr
           b1 == bitmap_after_free(st.bitmap, u)
           m1 == write_entry(m, f, i, ClearEntry)
<1>1. IsMemory(m) /\ st.bitmap \subseteq BitIndex
  BY Zenon DEF Typed
<1>2. ClearEntry \in Entry
  BY Zenon DEF ClearEntry, Entry, NullFrame
<1>3. /\ DOMAIN m1 = DOMAIN m
      /\ \A g \in DOMAIN m :
           \A j \in Idx : m1[g].entries[j] =
                          IF g = f /\ j = i THEN ClearEntry ELSE m[g].entries[j]
  BY <1>1, <1>2, WriteEntryFacts
<1>4. \A b \in b1 : b \in st.bitmap /\ b + OFFSET # u
  BY <1>1, PhysicalAssumption DEF bitmap_after_free, BitIndex
<1> HIDE DEF m1, b1
<1>5. \A g \in DOMAIN m, j \in Idx : \A v : Points(m, g, j, v) /\ v # u => Points(m1, g, j, v)
  BY <1>3, Zenon DEF Points, Refers
<1> HIDE DEF u
<1>6. Covered([bitmap |-> b1, mem |-> m1], X)
  BY <1>3, <1>4, <1>5, Zenon DEF Covered
<1> QED BY <1>6, Zenon DEF b1, m1, u

(* m1 is m with an empty table of level l in frame `new`, below (f, i). *)
TableAdded(m, m1, f, i, l, new) ==
  /\ new \in Nat /\ new \notin DOMAIN m
  /\ DOMAIN m1 = DOMAIN m \cup {new}
  /\ m1[new].level = l
  /\ \A j \in Idx : m1[new].entries[j] = ClearEntry
  /\ \A g \in DOMAIN m :
       /\ m1[g].level = m[g].level
       /\ \A j \in Idx : m1[g].entries[j] =
             IF g = f /\ j = i THEN PresentEntry(new) ELSE m[g].entries[j]

(* There is a table of level l below entry i of table f. *)
TableBelow(m, f, i, l) ==
  LET e == EntryAt(m, f, i)
  IN  /\ f \in DOMAIN m
      /\ e.present /\ ~ e.huge
      /\ e.addr \in DOMAIN m /\ m[e.addr].level = l

(* A new table: its frame is written into an absent entry of a table one   *)
(* level up, and cleared.                                                  *)
LEMMA NewTable ==
  ASSUME NEW st, NEW X, Good(st, X), NEW f \in DOMAIN st.mem, NEW i \in Idx,
         ~ EntryAt(st.mem, f, i).present,
         NEW l \in 1 .. 3, st.mem[f].level = l + 1,
         FrameLeft(ensure_table(st, f, i, l).bitmap)
  PROVE  /\ Good(ensure_table(st, f, i, l), X)
         /\ TableAdded(st.mem, ensure_table(st, f, i, l).mem, f, i, l,
                       allocated_frame(st.bitmap))
<1> DEFINE m == st.mem
           b == st.bitmap
           b1 == bitmap_after_allocate(b)
           new == allocated_frame(b)
           mw == write_entry(m, f, i, PresentEntry(new))
           m1 == clear_all_entries(mw, new, l)
           st1 == [bitmap |-> b1, mem |-> m1]
<1>1. ensure_table(st, f, i, l) = st1
  BY Zenon DEF ensure_table
<1>2. FrameLeft(b1)
  BY <1>1
<1>3. IsMemory(m) /\ b \subseteq BitIndex
  BY Zenon DEF Good, Typed
<1>4. /\ new \in Nat /\ new \in UsableFrames
      /\ b1 \subseteq BitIndex /\ b \subseteq b1
      /\ new - OFFSET \notin b /\ new - OFFSET \in b1
  BY <1>2, <1>3, AllocateFrame, Zenon
<1>5. new \in OwnFrames
  BY <1>4, PageTableAssumption, Zenon DEF OwnFrames, UsableFrames
<1>6. new \notin DOMAIN m
  BY <1>4, <1>5, Zenon DEF Good, TablesMarked
<1> HIDE DEF new, b1
<1>7. /\ PresentEntry(new) \in Entry
      /\ PresentEntry(new).present /\ ~ PresentEntry(new).huge
      /\ PresentEntry(new).addr = new
  BY <1>4, PresentEntryType, Zenon
<1>8. /\ IsMemory(mw)
      /\ DOMAIN mw = DOMAIN m
      /\ \A g \in DOMAIN m :
           /\ mw[g].level = m[g].level
           /\ \A j \in Idx : mw[g].entries[j] =
                             IF g = f /\ j = i THEN PresentEntry(new) ELSE m[g].entries[j]
  BY <1>3, <1>7, WriteEntryFacts
<1> HIDE DEF mw
<1>9. /\ IsMemory(m1)
      /\ DOMAIN m1 = DOMAIN m \cup {new}
      /\ m1[new].level = l
      /\ \A j \in Idx : m1[new].entries[j] = ClearEntry
      /\ \A g \in DOMAIN m : m1[g] = mw[g]
  <2>1. l \in 1 .. 4 /\ new \in Nat /\ IsMemory(mw)
    BY <1>4, <1>8
  <2>2. /\ IsMemory(m1)
        /\ DOMAIN m1 = DOMAIN mw \cup {new}
        /\ m1[new].level = l
        /\ \A j \in Idx : m1[new].entries[j] = ClearEntry
        /\ \A g \in DOMAIN mw : g # new => m1[g] = mw[g]
    BY <2>1, ClearFacts, ZenonT(30)
  <2> HIDE DEF m1
  <2> QED BY <2>2, <1>6, <1>8, Zenon
<1> HIDE DEF m1
<1>10. Typed(st1) /\ st1.mem = m1 /\ st1.bitmap = b1
  BY <1>4, <1>9, Zenon DEF Typed
<1>11. ~ ClearEntry.present /\ ~ ClearEntry.huge
  BY Zenon DEF ClearEntry
<1> HIDE DEF st1
<1>12. \A g \in DOMAIN m1, j \in Idx, v \in OwnFrames :
         Points(m1, g, j, v) <=>
           \/ g = f /\ j = i /\ v = new
           \/ g \in DOMAIN m /\ ~ (g = f /\ j = i) /\ Points(m, g, j, v)
  BY <1>6, <1>7, <1>8, <1>9, <1>11 DEF Points, Refers
<1>13. WellLevelled(m1)
  <2>1. /\ ROOT \in DOMAIN m /\ m[ROOT].level = 4
        /\ \A g \in DOMAIN m, j \in Idx : LevelledAt(m, g, j)
    BY GoodMemory, Levelled, Zenon
  <2>2. \A h \in DOMAIN m : h \in DOMAIN m1 /\ m1[h].level = m[h].level
    BY <1>8, <1>9, Zenon
  <2>3. ASSUME NEW g \in DOMAIN m1, NEW j \in Idx PROVE LevelledAt(m1, g, j)
    <3>1. CASE g = new
      BY <3>1, <1>9, <1>11, Zenon DEF LevelledAt, Refers
    <3>2. CASE g = f /\ j = i
      <4>1. m1[g].entries[j] = PresentEntry(new) /\ m1[g].level = l + 1
        BY <3>2, <1>8, <1>9, Zenon
      <4>2. (l + 1) - 1 = l
        OBVIOUS
      <4> QED BY <4>1, <4>2, <1>7, <1>9, Zenon DEF LevelledAt
    <3>3. CASE g \in DOMAIN m /\ ~ (g = f /\ j = i)
      <4>1. m1[g].entries[j] = m[g].entries[j]
        BY <3>3, <1>8, <1>9, Zenon
      <4> QED BY <3>3, <4>1, <2>1, <2>2, LevelledKept, Zenon
    <3> QED BY <3>1, <3>2, <3>3, <1>9, Zenon
  <2> QED BY <2>1, <2>2, <2>3, Levelled, Zenon
<1>14. TablesMarked(st1) /\ Marked(st1)
  <2>1. TablesMarked(st) /\ Marked(st)
    BY Zenon DEF Good
  <2>2. TablesMarked(st1)
    BY <2>1, <1>4, <1>9, <1>10, Zenon DEF TablesMarked
  <2>3. ASSUME NEW g \in DOMAIN m1, NEW j \in Idx, NEW v \in OwnFrames, Points(m1, g, j, v)
        PROVE  v - OFFSET \in b1
    <3>1. CASE v = new
      BY <3>1, <1>4, Zenon
    <3>2. CASE g \in DOMAIN m /\ Points(m, g, j, v)
      BY <3>2, <2>1, <1>4, Zenon DEF Marked
    <3> QED BY <2>3, <3>1, <3>2, <1>12, Zenon
  <2> QED BY <2>2, <2>3, <1>10, Zenon DEF Marked
<1>15. Unshared(st1)
  <2>1. \A g \in DOMAIN m, j \in Idx : ~ Points(m, g, j, new)
    BY <1>4, <1>5, Zenon DEF Good, Marked
  <2> QED BY <2>1, <1>10, <1>12 DEF Good, Unshared
<1>16. Reserved(st1, X)
  BY <1>4, <1>10, <1>12, Zenon DEF Good, Reserved
<1>17. AbsentClear(m1)
  BY <1>7, <1>8, <1>9 DEF Good, AbsentClear
<1>18. TablesReferred(st1)
  <2>1. ASSUME NEW t \in DOMAIN m1 \cap OwnFrames
        PROVE  \E g \in DOMAIN m1, j \in Idx : m1[g].level > 1 /\ Points(m1, g, j, t)
    <3>1. CASE t = new
      <4>1. m1[f].level > 1 /\ Points(m1, f, i, t)
        BY <3>1, <1>5, <1>8, <1>9, <1>12
      <4> QED BY <4>1, <1>9, Zenon
    <3>2. CASE t \in DOMAIN m
      <4>1. PICK g \in DOMAIN m, j \in Idx : m[g].level > 1 /\ Points(m, g, j, t)
        BY <3>2, Zenon DEF Good, TablesReferred
      <4>2. ~ (g = f /\ j = i)
        BY <4>1, Zenon DEF Points, Refers, EntryAt
      <4> QED BY <4>1, <4>2, <1>8, <1>9, <1>12, ZenonT(60)
    <3> QED BY <3>1, <3>2, <1>9, Zenon
  <2> QED BY <2>1, <1>10, Zenon DEF TablesReferred
<1>19. OneParent(m1)
  <2>1. \A g \in DOMAIN m, j \in Idx :
          Refers(m, g, j) /\ m[g].level > 1 => m[g].entries[j].addr # new
    BY <1>6, GoodMemory, Zenon DEF WellLevelled
  <2>2. \A g \in DOMAIN m1, j \in Idx : Refers(m1, g, j) =>
          \/ g = f /\ j = i /\ m1[g].entries[j].addr = new
          \/ g \in DOMAIN m /\ ~ (g = f /\ j = i) /\ Refers(m, g, j)
             /\ m1[g].entries[j].addr = m[g].entries[j].addr /\ m1[g].level = m[g].level
    BY <1>7, <1>8, <1>9, <1>11 DEF Refers
  <2> QED BY <2>1, <2>2 DEF Good, OneParent
<1>20. Good(st1, X)
  BY <1>10, <1>13, <1>14, <1>15, <1>16, <1>17, <1>18, <1>19, Zenon DEF Good
<1>21. TableAdded(m, m1, f, i, l, new)
  BY <1>4, <1>6, <1>8, <1>9, ZenonT(60) DEF TableAdded
<1> QED BY <1>1, <1>10, <1>20, <1>21, Zenon DEF new

(* One `if !entry.present()` block leaves a table below the entry. *)
LEMMA EnsureTable ==
  ASSUME NEW st, NEW X, Good(st, X), NEW f \in DOMAIN st.mem, NEW i \in Idx,
         NEW l \in 1 .. 3, st.mem[f].level = l + 1,
         EntryAt(st.mem, f, i).present => ~ EntryAt(st.mem, f, i).huge,
         FrameLeft(ensure_table(st, f, i, l).bitmap)
  PROVE  /\ Good(ensure_table(st, f, i, l), X)
         /\ Extends(st.mem, ensure_table(st, f, i, l).mem)
         /\ TableBelow(ensure_table(st, f, i, l).mem, f, i, l)
<1>1. CASE EntryAt(st.mem, f, i).present
  <2>1. ensure_table(st, f, i, l) = st
    BY <1>1, Zenon DEF ensure_table
  <2>2. Extends(st.mem, st.mem)
    BY Zenon DEF Extends
  <2>3. EntryAt(st.mem, f, i) = st.mem[f].entries[i]
    BY Zenon DEF EntryAt
  <2>4. Refers(st.mem, f, i) /\ st.mem[f].level > 1 /\ st.mem[f].level - 1 = l
    BY <1>1, <2>3 DEF Refers
  <2>5. /\ st.mem[f].entries[i].addr \in DOMAIN st.mem
        /\ st.mem[st.mem[f].entries[i].addr].level = l
    BY <2>4, GoodMemory, Levelled, Zenon DEF LevelledAt
  <2> QED BY <1>1, <2>1, <2>2, <2>3, <2>5, Zenon DEF TableBelow
<1>2. CASE ~ EntryAt(st.mem, f, i).present
  <2> DEFINE st1 == ensure_table(st, f, i, l)
             new == allocated_frame(st.bitmap)
  <2> HIDE DEF st1, new
  <2>1. Good(st1, X) /\ TableAdded(st.mem, st1.mem, f, i, l, new)
    BY <1>2, NewTable, Zenon DEF st1, new
  <2>2. /\ new \in Nat /\ new \notin DOMAIN st.mem
        /\ DOMAIN st1.mem = DOMAIN st.mem \cup {new}
        /\ st1.mem[new].level = l
        /\ \A j \in Idx : st1.mem[new].entries[j] = ClearEntry
        /\ \A g \in DOMAIN st.mem :
             /\ st1.mem[g].level = st.mem[g].level
             /\ \A j \in Idx : st1.mem[g].entries[j] =
                   IF g = f /\ j = i THEN PresentEntry(new) ELSE st.mem[g].entries[j]
    BY <2>1, Zenon DEF TableAdded
  <2>3. /\ PresentEntry(new).present /\ ~ PresentEntry(new).huge
        /\ PresentEntry(new).addr = new
    BY <2>2, PresentEntryType, Zenon
  <2>4. ~ ClearEntry.present /\ ~ ClearEntry.huge
    BY Zenon DEF ClearEntry
  <2>5. EntryAt(st.mem, f, i) = st.mem[f].entries[i]
    BY Zenon DEF EntryAt
  <2>6. EntryAt(st1.mem, f, i) = PresentEntry(new)
    BY <2>2, Zenon DEF EntryAt
  <2>7. Extends(st.mem, st1.mem)
    BY <1>2, <2>2, <2>3, <2>4, <2>5 DEF Extends
  <2>8. TableBelow(st1.mem, f, i, l)
    BY <2>2, <2>3, <2>6, Zenon DEF TableBelow
  <2> QED BY <2>7, <2>1, <2>8, Zenon DEF st1
<1> QED BY <1>1, <1>2, Zenon

(* No frame is lost when a table is made. *)
LEMMA EnsureCovered ==
  ASSUME NEW st, NEW X, Good(st, X), NEW f \in DOMAIN st.mem, NEW i \in Idx,
         NEW l \in 1 .. 3, st.mem[f].level = l + 1,
         FrameLeft(ensure_table(st, f, i, l).bitmap), Covered(st, X)
  PROVE  Covered(ensure_table(st, f, i, l), X)
<1>1. CASE EntryAt(st.mem, f, i).present
  BY <1>1, Zenon DEF ensure_table
<1>2. CASE ~ EntryAt(st.mem, f, i).present
  <2> DEFINE st1 == ensure_table(st, f, i, l)
             new == allocated_frame(st.bitmap)
  <2>1. TableAdded(st.mem, st1.mem, f, i, l, new)
    BY <1>2, NewTable, Zenon
  <2>2. /\ new \in Nat /\ new - OFFSET + OFFSET = new
        /\ st1.bitmap \subseteq st.bitmap \cup {new - OFFSET}
    <3>1. Typed(st)
      BY GoodMemory, Zenon
    <3>2. st1.bitmap = bitmap_after_allocate(st.bitmap)
      BY <1>2, Zenon DEF ensure_table
    <3>3. new \in Nat /\ bitmap_after_allocate(st.bitmap) \subseteq st.bitmap \cup {new - OFFSET}
      BY <3>1, AllocateFrame, Zenon DEF Typed
    <3> HIDE DEF new, st1
    <3> QED BY <3>2, <3>3, PhysicalAssumption
  <2> HIDE DEF st1, new
  <2>3. /\ PresentEntry(new).present /\ ~ PresentEntry(new).huge
        /\ PresentEntry(new).addr = new
    BY <2>2, PresentEntryType, Zenon
  <2>4. ~ st.mem[f].entries[i].present
    BY <1>2, Zenon DEF EntryAt
  <2>5. /\ DOMAIN st.mem \subseteq DOMAIN st1.mem
        /\ Points(st1.mem, f, i, new)
        /\ \A g \in DOMAIN st.mem, j \in Idx : \A v :
             Points(st.mem, g, j, v) => Points(st1.mem, g, j, v)
    BY <2>1, <2>3, <2>4, ZenonT(60) DEF TableAdded, Points, Refers
  <2>6. Covered(st1, X)
    BY <2>2, <2>5, Zenon DEF Covered
  <2> QED BY <2>6, Zenon DEF st1
<1> QED BY <1>1, <1>2, Zenon

(* From m to m1 page p is mapped to frame u, and no other page changes. *)
MapsOnly(m, m1, p, u) ==
  Backed(m1, p) /\ Entry1(m1, p).addr = u /\ OnlyPage(m, m1, p)

(* map_page_unchecked, given frames: the frame invariant holds again, the  *)
(* frame it maps is no longer reserved, the page is mapped to it, and the   *)
(* other pages are mapped as they were; no frame is lost if the page was    *)
(* not mapped.                                                              *)
LEMMA MapPage ==
  ASSUME NEW st, NEW X, Good(st, X), NEW p \in Nat, ~ HugeAt(st.mem, p),
         NEW u \in Nat, u \in X \/ u \notin OwnFrames,
         FrameLeft(map_page_unchecked(st, p, u).bitmap)
  PROVE  LET st1 == map_page_unchecked(st, p, u)
         IN  /\ Good(st1, X \ {u})
             /\ Keeps(st.mem, st1.mem)
             /\ Path(st1.mem, p)
             /\ p \in Page => MapsOnly(st.mem, st1.mem, p, u)
             /\ Covered(st, X) /\ ~ Backed(st.mem, p) => Covered(st1, X \ {u})
<1>1. PICK i4 \in Idx, i3 \in Idx, i2 \in Idx, i1 \in Idx :
        /\ i4 = level4_idx(p) /\ i3 = level3_idx(p)
        /\ i2 = level2_idx(p) /\ i1 = level1_idx(p)
  BY LevelIdx, Zenon
<1>2. Typed(st) /\ IsMemory(st.mem) /\ WellLevelled(st.mem)
  BY GoodMemory, Zenon
<1>3. PICK st4 : st4 = ensure_table(st, ROOT, i4, 3)
  OBVIOUS
<1>4. PICK e4 : e4 = EntryAt(st4.mem, ROOT, i4)
  OBVIOUS
<1>5. Typed(st4)
  BY <1>2, <1>3, EnsureTableType
<1>6. PICK st3 : st3 = ensure_table(st4, e4.addr, i3, 2)
  OBVIOUS
<1>7. PICK e3 : e3 = EntryAt(st3.mem, e4.addr, i3)
  OBVIOUS
<1>8. Typed(st3) /\ st4.bitmap \subseteq st3.bitmap
  BY <1>5, <1>6, EnsureTableType
<1>9. PICK st2 : st2 = ensure_table(st3, e3.addr, i2, 1)
  OBVIOUS
<1>10. PICK e2 : e2 = EntryAt(st2.mem, e3.addr, i2)
  OBVIOUS
<1>11. st3.bitmap \subseteq st2.bitmap
  BY <1>8, <1>9, EnsureTableType
<1>12. map_page_unchecked(st, p, u) =
        [bitmap |-> st2.bitmap, mem |-> write_entry(st2.mem, e2.addr, i1, PresentEntry(u))]
  BY <1>1, <1>3, <1>4, <1>6, <1>7, <1>9, <1>10, Zenon DEF map_page_unchecked
<1>13. FrameLeft(st2.bitmap) /\ FrameLeft(st3.bitmap) /\ FrameLeft(st4.bitmap)
  <2>1. map_page_unchecked(st, p, u).bitmap = st2.bitmap
    BY <1>12
  <2>2. FrameLeft(st2.bitmap)
    BY <2>1, Zenon
  <2> QED BY <2>2, <1>8, <1>11, Zenon DEF FrameLeft, FreeBits
<1>14. ROOT \in DOMAIN st.mem /\ st.mem[ROOT].level = 3 + 1
  BY GoodMemory
<1>15. /\ Good(st4, X) /\ Extends(st.mem, st4.mem) /\ ROOT \in DOMAIN st4.mem
       /\ e4.present /\ ~ e4.huge /\ e4.addr \in DOMAIN st4.mem
       /\ st4.mem[e4.addr].level = 3
  <2>1. 3 \in 1 .. 3 /\ ~ EntryAt(st.mem, ROOT, i4).huge
    BY <1>2, <1>14, NotHuge
  <2>2. FrameLeft(st4.bitmap)
    BY <1>13, Zenon
  <2>3. Good(st4, X) /\ Extends(st.mem, st4.mem) /\ TableBelow(st4.mem, ROOT, i4, 3)
    BY <2>1, <2>2, <1>3, <1>14, EnsureTable, Zenon
  <2> QED BY <2>3, <1>4, Zenon DEF TableBelow
<1>16. IsMemory(st4.mem) /\ WellLevelled(st4.mem)
  BY <1>15, GoodMemory, Zenon
<1>17. /\ Good(st3, X) /\ Extends(st4.mem, st3.mem) /\ e4.addr \in DOMAIN st3.mem
       /\ e3.present /\ ~ e3.huge /\ e3.addr \in DOMAIN st3.mem
       /\ st3.mem[e3.addr].level = 2
  <2>1. 2 \in 1 .. 3 /\ st4.mem[e4.addr].level = 2 + 1 /\ ~ EntryAt(st4.mem, e4.addr, i3).huge
    BY <1>16, <1>15, NotHuge
  <2>2. Good(st4, X) /\ e4.addr \in DOMAIN st4.mem /\ FrameLeft(st3.bitmap)
    BY <1>13, <1>15, Zenon
  <2>3. Good(st3, X) /\ Extends(st4.mem, st3.mem) /\ TableBelow(st3.mem, e4.addr, i3, 2)
    BY <2>1, <2>2, <1>6, EnsureTable, Zenon
  <2> QED BY <2>3, <1>7, Zenon DEF TableBelow
<1>18. Keeps(st.mem, st4.mem)
  BY <1>2, <1>16, <1>15, ExtendsKeeps, Zenon
<1>19. IsMemory(st3.mem) /\ WellLevelled(st3.mem) /\ ROOT \in DOMAIN st3.mem
  BY <1>17, GoodMemory, Zenon
<1>20. Keeps(st4.mem, st3.mem)
  BY <1>16, <1>17, <1>19, ExtendsKeeps, Zenon
<1>21. ~ HugeAt(st3.mem, p)
  BY <1>18, <1>20, Zenon DEF Keeps
<1>22. EntryAt(st3.mem, ROOT, i4) = e4
  BY <1>4, <1>15, <1>17, ExtendsEntry, ZenonT(60)
<1>23. /\ Entry4(st3.mem, p) = e4
       /\ Entry3(st3.mem, p) = e3
       /\ Entry2(st3.mem, p) = EntryAt(st3.mem, e3.addr, i2)
  BY <1>1, <1>7, <1>22, Zenon DEF Entry4, Entry3, Entry2
<1>24. ~ EntryAt(st3.mem, e3.addr, i2).huge
  BY <1>15, <1>17, <1>21, <1>23, Zenon DEF HugeAt
<1>25. /\ Good(st2, X) /\ Extends(st3.mem, st2.mem)
       /\ e2.present /\ ~ e2.huge /\ e2.addr \in DOMAIN st2.mem
       /\ st2.mem[e2.addr].level = 1
  <2>1. 1 \in 1 .. 3 /\ st3.mem[e3.addr].level = 1 + 1
    BY <1>17
  <2>2. Good(st3, X) /\ e3.addr \in DOMAIN st3.mem /\ FrameLeft(st2.bitmap)
    BY <1>13, <1>17, Zenon
  <2>3. Good(st2, X) /\ Extends(st3.mem, st2.mem) /\ TableBelow(st2.mem, e3.addr, i2, 1)
    BY <2>1, <2>2, <1>9, <1>24, EnsureTable, Zenon
  <2> QED BY <2>3, <1>10, Zenon DEF TableBelow
<1>26. EntryAt(st2.mem, ROOT, i4) = e4
  BY <1>15, <1>22, <1>25, <1>19, ExtendsEntry, Zenon
<1>27. EntryAt(st2.mem, e4.addr, i3) = e3
  BY <1>7, <1>17, <1>25, ExtendsEntry, ZenonT(60)
<1>28. /\ Entry4(st2.mem, p) = e4
       /\ Entry3(st2.mem, p) = e3
       /\ Entry2(st2.mem, p) = e2
  BY <1>1, <1>10, <1>26, <1>27, Zenon DEF Entry4, Entry3, Entry2
<1>29. Path(st2.mem, p)
  BY <1>15, <1>17, <1>25, <1>28, Zenon DEF Path
<1>30. IsMemory(st2.mem) /\ WellLevelled(st2.mem)
  BY <1>25, GoodMemory, Zenon
<1>31. Keeps(st3.mem, st2.mem)
  BY <1>25, <1>19, <1>30, ExtendsKeeps, Zenon
<1>32. PICK m1 : m1 = write_entry(st2.mem, e2.addr, i1, PresentEntry(u))
  OBVIOUS
<1>33. PICK st1 : st1 = [bitmap |-> st2.bitmap, mem |-> m1]
  BY Zenon
<1>34. Good(st1, X \ {u})
  BY <1>25, <1>32, <1>33, WriteLeaf, Zenon
<1>35. SameUpper(st2.mem, m1)
  BY <1>25, <1>32, <1>30, SameUpperWrite, Zenon
<1>36. IsMemory(m1) /\ WellLevelled(m1) /\ st1.mem = m1
  <2>1. st1.mem = m1
    BY <1>33, Zenon
  <2> QED BY <2>1, <1>34, GoodMemory, Zenon
<1>37. Keeps(st2.mem, m1)
  BY <1>35, <1>36, <1>30, SameUpperWalk, Zenon DEF Keeps
<1>38. Path(m1, p)
  BY <1>29, <1>37, Zenon DEF Keeps
<1>39. Keeps(st.mem, m1)
  BY <1>18, <1>20, <1>31, <1>37, Zenon DEF Keeps
<1>40. map_page_unchecked(st, p, u) = st1
  BY <1>12, <1>32, <1>33, Zenon
<1>41. ASSUME p \in Page PROVE MapsOnly(st.mem, m1, p, u)
  <2>1. /\ PresentEntry(u) \in Entry /\ PresentEntry(u).present
        /\ ~ PresentEntry(u).huge /\ PresentEntry(u).addr = u
    BY PresentEntryType, Zenon
  <2>2. OneParent(st2.mem)
    BY <1>25, GoodMemory, Zenon
  <2>3. Path(m1, p) /\ Entry1(m1, p) = PresentEntry(u) /\ OnlyPage(st2.mem, m1, p)
    BY <1>1, <1>28, <1>29, <1>30, <1>32, <1>41, <2>1, <2>2, LeafWrite
  <2>4. \A q \in Page : /\ Backed(st2.mem, q) <=> Backed(st.mem, q)
                        /\ Backed(st.mem, q) => Entry1(st2.mem, q) = Entry1(st.mem, q)
    <3>1. Page \subseteq Nat
      BY DEF Page
    <3>2. \A q \in Page : /\ Backed(st4.mem, q) <=> Backed(st.mem, q)
                          /\ Backed(st.mem, q) => Entry1(st4.mem, q) = Entry1(st.mem, q)
      BY <3>1, <1>2, <1>15, <1>16, ExtendsBacked, Zenon
    <3>3. \A q \in Page : /\ Backed(st3.mem, q) <=> Backed(st4.mem, q)
                          /\ Backed(st4.mem, q) => Entry1(st3.mem, q) = Entry1(st4.mem, q)
      BY <3>1, <1>16, <1>17, <1>19, ExtendsBacked, Zenon
    <3>4. \A q \in Page : /\ Backed(st2.mem, q) <=> Backed(st3.mem, q)
                          /\ Backed(st3.mem, q) => Entry1(st2.mem, q) = Entry1(st3.mem, q)
      BY <3>1, <1>19, <1>25, <1>30, ExtendsBacked, Zenon
    <3> QED BY <3>2, <3>3, <3>4, Zenon
  <2> QED BY <2>1, <2>3, <2>4, Zenon DEF MapsOnly, OnlyPage, Backed
<1>42. ASSUME Covered(st, X), ~ Backed(st.mem, p) PROVE Covered(st1, X \ {u})
  <2>1. Covered(st4, X)
    <3>1. 3 \in 1 .. 3
      OBVIOUS
    <3>2. FrameLeft(st4.bitmap)
      BY <1>13, Zenon
    <3> QED BY <3>1, <3>2, <1>3, <1>14, <1>42, EnsureCovered, Zenon
  <2>2. Covered(st3, X)
    <3>1. 2 \in 1 .. 3 /\ st4.mem[e4.addr].level = 2 + 1
      BY <1>15
    <3>2. Good(st4, X) /\ e4.addr \in DOMAIN st4.mem /\ FrameLeft(st3.bitmap)
      BY <1>13, <1>15, Zenon
    <3> QED BY <3>1, <3>2, <1>6, <2>1, EnsureCovered, Zenon
  <2>3. Covered(st2, X)
    <3>1. 1 \in 1 .. 3 /\ st3.mem[e3.addr].level = 1 + 1
      BY <1>17
    <3>2. Good(st3, X) /\ e3.addr \in DOMAIN st3.mem /\ FrameLeft(st2.bitmap)
      BY <1>13, <1>17, Zenon
    <3> QED BY <3>1, <3>2, <1>9, <2>2, EnsureCovered, Zenon
  <2>4. ~ Backed(st2.mem, p)
    <3>1. ~ Backed(st4.mem, p)
      BY <1>2, <1>15, <1>16, <1>42, ExtendsBacked, Zenon
    <3>2. ~ Backed(st3.mem, p)
      BY <3>1, <1>16, <1>17, <1>19, ExtendsBacked, Zenon
    <3> QED BY <3>2, <1>19, <1>25, <1>30, ExtendsBacked, Zenon
  <2>5. ~ st2.mem[e2.addr].entries[i1].present
    BY <2>4, <1>1, <1>28, <1>29, <1>30, PathLeaf, Zenon DEF Backed
  <2>6. Typed(st2)
    BY <1>25, GoodMemory, Zenon
  <2> QED BY <2>3, <2>5, <2>6, <1>25, <1>32, <1>33, LeafCovered, Zenon
<1> QED BY <1>34, <1>36, <1>38, <1>39, <1>40, <1>41, <1>42, Zenon
=============================================================================
