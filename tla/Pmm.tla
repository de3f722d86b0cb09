--------------------------------- MODULE Pmm ---------------------------------
(***************************************************************************)
(* The physical memory manager, kernel/pmm.c: a bitmap with a bit for each *)
(* block of memory, set when the block is in use.  init_pmm builds it from *)
(* the boot loader's memory map, behind the kernel.  The bitmap is the set *)
(* of blocks whose bit is set.                                             *)
(***************************************************************************)
EXTENDS Integers, FiniteSets

CONSTANTS
  PMM_BLOCK_SIZE,        \* 4096 bytes
  ByteBits, WordBytes,   \* 8 and 4: the bitmap is set and searched by words
  AddrMod,               \* 2^32: addresses wrap at this value
  MemSizes,              \* the sizes of memory, in bytes, there may be
  KernelEnds,            \* the addresses the kernel may end at
  Maps                   \* the memory maps there may be: sets of regions

\* A region of the map is one of type 1, available, with its base and length.
ASSUME PmmAssumption ==
  /\ PMM_BLOCK_SIZE \in Nat \ {0} /\ AddrMod \in Nat \ {0}
  /\ ByteBits \in Nat \ {0} /\ WordBytes \in Nat \ {0}
  /\ MemSizes \subseteq Nat /\ KernelEnds \subseteq Nat
  /\ \A map \in Maps : map \subseteq [base : Nat, length : Nat]

VARIABLES
  mem_size, kernel_end, map,   \* the machine booted on
  bitmap,                      \* the blocks whose bit is set
  owned                        \* the blocks callers hold

machine == <<mem_size, kernel_end, map>>
vars == <<machine, bitmap, owned>>

WordBits == ByteBits * WordBytes
Block(addr) == addr \div PMM_BLOCK_SIZE
pmm_max_blocks == Block(mem_size)
bitmap_bytes == pmm_max_blocks \div ByteBits

\* The blocks up to a last word of the bitmap that is not a whole one.
InWholeWords == 0 .. (pmm_max_blocks \div WordBits) * WordBits - 1

\* Fault: the block a region ends in is opened, too.
OpenedToEnd(r) == Block(r.base % AddrMod) .. Block((r.base + r.length) % AddrMod)

\* The blocks a region opens: from the one its first byte is in to the last one
\* it holds whole.  Only the low words of the map's numbers are read.
Opened(r) == Block(r.base % AddrMod) .. Block((r.base + r.length) % AddrMod) - 1

\* Fault: the bitmap behind the kernel is not counted.
KernelOnly == 0 .. Block(kernel_end)

KernelBlocks == 0 .. Block(kernel_end + bitmap_bytes)

\* init_pmm: the bits behind the last whole word are what memory held before.
BitmapOf(junk) ==
  (((0 .. (bitmap_bytes \div WordBytes) * WordBits - 1) \cup junk)
     \ UNION {Opened(r) : r \in map}) \cup KernelBlocks

Init ==
  /\ mem_size \in MemSizes /\ kernel_end \in KernelEnds /\ map \in Maps
  /\ \E junk \in SUBSET ((0 .. pmm_max_blocks - 1) \ InWholeWords) :
       bitmap = BitmapOf(junk)
  /\ owned = {}

\* Fault: one word too many is looked at.
FreeBeyond == (0 .. (pmm_max_blocks \div WordBits + 1) * WordBits - 1) \ bitmap

\* The blocks pmm_find_first_free looks at and finds free.
FreeFound == InWholeWords \ bitmap

pmm_find_first_free == CHOOSE b \in FreeFound : \A c \in FreeFound : b <= c

\* pmm_alloc_block; without a free block it returns 0 and changes nothing.
pmm_alloc_block ==
  /\ FreeFound # {}
  /\ bitmap' = bitmap \cup {pmm_find_first_free}
  /\ owned' = owned \cup {pmm_find_first_free}
  /\ UNCHANGED machine

\* Fault: the block after the one freed is marked free.
FreeNext(b) ==
  /\ bitmap' = bitmap \ {b + 1}
  /\ owned' = owned \ {b}
  /\ UNCHANGED machine

\* Callers give back blocks they hold.
pmm_free_block(b) ==
  /\ bitmap' = bitmap \ {b}
  /\ owned' = owned \ {b}
  /\ UNCHANGED machine

Next == pmm_alloc_block \/ \E b \in owned : pmm_free_block(b)

Spec == Init /\ [][Next]_vars

pmm_get_free_block_count == Cardinality((0 .. pmm_max_blocks - 1) \ bitmap)

-----------------------------------------------------------------------------
(* Properties.                                                             *)

Bytes(b) == b * PMM_BLOCK_SIZE .. (b + 1) * PMM_BLOCK_SIZE - 1

TypeOK ==
  /\ mem_size \in MemSizes /\ kernel_end \in KernelEnds /\ map \in Maps
  /\ bitmap \subseteq Nat /\ owned \subseteq InWholeWords

\* A block that is handed out lies in memory, holds no byte of the kernel or of
\* the bitmap, is marked used until it is given back, and so is handed out to
\* one caller at a time (pmm.c:46-68).
HandsOutFree ==
  \A b \in owned :
    /\ b \in bitmap /\ b < pmm_max_blocks
    /\ b * PMM_BLOCK_SIZE >= kernel_end + bitmap_bytes

\* ... and every byte of it is memory the map calls available.  This takes a map
\* whose regions start at a block's first byte and lie below AddrMod.
HandsOutRam ==
  \A b \in owned : \E r \in map : Bytes(b) \subseteq r.base .. r.base + r.length - 1

\* What is free and what callers hold is always the same memory together: no
\* block gets lost and none appears (pmm.c:71-85).
KeepsBlocks ==
  [][pmm_get_free_block_count' + Cardinality(owned')
       = pmm_get_free_block_count + Cardinality(owned)]_vars

\* A bit that is clear, or was when its block was handed out, is one that the map
\* opened.
CameFromMap ==
  \A b \in InWholeWords :
    b \notin bitmap \/ b \in owned => \E r \in map : b \in Opened(r)

\* What every state is, in the form each step preserves: the kernel's blocks are
\* never handed out.
IInv ==
  /\ TypeOK
  /\ owned \subseteq bitmap
  /\ KernelBlocks \subseteq bitmap /\ owned \cap KernelBlocks = {}
  /\ CameFromMap
=============================================================================
