------------------------------- MODULE Alloc --------------------------------
(***************************************************************************)
(* The frame allocator of kernel/src/alloc.c: a pointer that moves up      *)
(* through physical memory and skips to the next page of the colour asked  *)
(* for.  Addresses and sizes are in pages; the colour of page p is         *)
(* p % NumColors.  alloc_free only clears the capability it is given, and  *)
(* frames[] is never read.                                                 *)
(***************************************************************************)
EXTENDS Integers, FiniteSetsExt

CONSTANTS
  NumColors,           \* NUM_COLORS (16)
  ColorsPerPartition   \* COLORS_PER_PARTITION (2)

ASSUME AllocAssumption ==
  /\ NumColors \in Nat \ {0}
  /\ ColorsPerPartition \in Nat \ {0}

alloc_color_for_partition(p) == (p * ColorsPerPartition) % NumColors

alloc_color_is_valid(p, color) ==
  color \in {alloc_color_for_partition(p), alloc_color_for_partition(p) + 1}

\* Slip: the search stops at any page.
FrameUncoloured(next, p) == next

\* The first page at or above next that has the colour of partition p.
FrameFor(next, p) ==
  CHOOSE x \in next .. (next + NumColors - 1) : x % NumColors = alloc_color_for_partition(p)

\* Slip: the end of the frame is not compared.
CanAllocStart(next, top, p, pages) == FrameFor(next, p) <= top

\* Otherwise ERR_NO_MEM.
CanAlloc(next, top, p, pages) == FrameFor(next, p) + pages <= top
=============================================================================
