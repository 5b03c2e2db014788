------------------------- MODULE PhysicalAllocator -------------------------
(***************************************************************************)
(* BasicPhysicalAllocator (src/src/memory/physical.rs): a bitmap with one  *)
(* bool per 4 KiB frame, starting at the base of the largest usable region *)
(* of the boot memory map.                                                 *)
(*                                                                         *)
(* A frame-aligned PhyAddr is its frame number (address / 4096): set_addr, *)
(* free_frame and alloc_phy_addr all refuse an unaligned address, and the  *)
(* callers hand over aligned ones only.  The bitmap is the set of indices  *)
(* whose bool is true.  The operators take the bitmap as a parameter since *)
(* map_page_unchecked allocates up to three frames within one step.        *)
(***************************************************************************)
EXTENDS Integers, FiniteSetsExt

CONSTANTS
  BITMAP_SIZE,  \* number of bools in BITMAP (8388608 in the kernel)
  OFFSET,       \* frame number of the `offset` set by configure_physical_area
  LIMIT         \* `limit` set by configure_physical_area, in frames

(* The kernel's bitmap is a fixed non-empty array.  The boot protocol never *)
(* reports the page at physical address 0 as usable, and the chosen region  *)
(* is not empty.                                                            *)
ASSUME PhysicalAssumption ==
  /\ BITMAP_SIZE \in Nat \ {0}
  /\ OFFSET \in Nat \ {0}
  /\ LIMIT \in Nat \ {0}

BitIndex == 0 .. BITMAP_SIZE - 1

(* Frames the bitmap has a bool for, and those of the usable region.  The  *)
(* two differ: the bitmap has a fixed size and `limit` is never read.      *)
Managed == OFFSET .. OFFSET + BITMAP_SIZE - 1
UsableFrames == {f \in Managed : f < OFFSET + LIMIT}

(* PhyAddr(0), what allocate_frame returns when every bool is true. *)
NullFrame == 0

FreeBits(bitmap) == BitIndex \ bitmap

(* The frame allocate_frame returns: the first false bool of the bitmap. *)
allocated_frame(bitmap) ==
  IF FreeBits(bitmap) = {} THEN NullFrame ELSE OFFSET + Min(FreeBits(bitmap))

(* Mutant: allocate_frame does not mark the frame it returns. *)
bitmap_after_allocate_unmarked(bitmap) == bitmap

(* The bitmap allocate_frame leaves. *)
bitmap_after_allocate(bitmap) ==
  IF FreeBits(bitmap) = {} THEN bitmap ELSE bitmap \cup {Min(FreeBits(bitmap))}

(* free_frame panics when `frame - offset` underflows, when the index is   *)
(* past the bitmap, and when the bool is already false.                    *)
free_frame_panics(bitmap, frame) == frame - OFFSET \notin bitmap

bitmap_after_free(bitmap, frame) == bitmap \ {frame - OFFSET}

(* The indices alloc_phy_addr looks at, in the order of its loop. *)
PhyIndices(frame, count) == frame - OFFSET .. frame - OFFSET + count - 1

(* Mutant: the last frame of the bitmap is taken to be out of bounds. *)
alloc_phy_addr_panics_early(bitmap, frame, count) ==
  \/ frame < OFFSET
  \/ \E i \in PhyIndices(frame, count) : i >= BITMAP_SIZE - 1

alloc_phy_addr_panics(bitmap, frame, count) ==
  \/ frame < OFFSET
  \/ \E i \in PhyIndices(frame, count) :
        /\ i >= BITMAP_SIZE
        /\ \A j \in PhyIndices(frame, count) : j < i => j \notin bitmap

(* alloc_phy_addr returns None when one of the frames is taken. *)
alloc_phy_addr_taken(bitmap, frame, count) ==
  PhyIndices(frame, count) \cap bitmap # {}

(* Mutant: the second loop of alloc_phy_addr misses the last frame. *)
bitmap_after_alloc_phy_short(bitmap, frame, count) ==
  bitmap \cup PhyIndices(frame, count - 1)

bitmap_after_alloc_phy(bitmap, frame, count) ==
  bitmap \cup PhyIndices(frame, count)
=============================================================================
