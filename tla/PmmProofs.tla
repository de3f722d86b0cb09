------------------------------ MODULE PmmProofs ------------------------------
(***************************************************************************)
(* Proofs about Pmm for every memory, memory map and size of block.        *)
(***************************************************************************)
EXTENDS Pmm, FiniteSetTheorems, WellFoundedInduction, TLAPS

-----------------------------------------------------------------------------
(* Arithmetic.                                                             *)

LEMMA MulMono ==
  ASSUME NEW a \in Int, NEW b \in Int, a <= b, NEW n \in Nat
  PROVE  a * n <= b * n
  <1>1. (b - a) * n >= 0
    BY SMT
  <1>2. QED
    BY <1>1, SMT

\* Division by a positive number: the quotient's multiple and the rest.
LEMMA DivRest ==
  ASSUME NEW m \in Nat, NEW n \in Nat \ {0}
  PROVE  /\ m \div n \in Nat /\ m % n \in 0 .. n - 1
         /\ (m \div n) * n + (m % n) = m
         /\ (m \div n) * n <= m /\ m < (m \div n + 1) * n
  BY SMT

\* A quotient is the only number whose multiple is that near.
LEMMA DivUnique ==
  ASSUME NEW m \in Nat, NEW n \in Nat \ {0}, NEW q \in Nat,
         q * n <= m, m < (q + 1) * n
  PROVE  m \div n = q
  <1> DEFINE p == m \div n
  <1>1. p \in Nat /\ p * n <= m /\ m < (p + 1) * n
    BY DivRest
  <1>2. ~(p < q)
    <2>1. SUFFICES ASSUME p + 1 <= q PROVE FALSE
      BY <1>1
    <2>2. (p + 1) * n <= q * n
      BY <1>1, <2>1, MulMono
    <2>3. QED
      BY <1>1, <2>2, SMT
  <1>3. ~(q < p)
    <2>1. SUFFICES ASSUME q + 1 <= p PROVE FALSE
      BY <1>1
    <2>2. (q + 1) * n <= p * n
      BY <1>1, <2>1, MulMono
    <2>3. QED
      BY <1>1, <2>2, SMT
  <1>4. QED
    BY <1>1, <1>2, <1>3

\* Dividing twice is dividing by the product.
LEMMA DivTwice ==
  ASSUME NEW m \in Nat, NEW a \in Nat \ {0}, NEW b \in Nat \ {0}
  PROVE  m \div (a * b) = (m \div a) \div b
  <1> DEFINE p == m \div a
             q == p \div b
  <1>1. p \in Nat /\ p * a <= m /\ m < (p + 1) * a
    BY DivRest
  <1>2. q \in Nat /\ q * b <= p /\ p < (q + 1) * b
    BY <1>1, DivRest
  <1>3. a * b \in Nat \ {0}
    BY SMT
  <1>4. (q * b) * a <= m
    <2>1. (q * b) * a <= p * a
      BY <1>1, <1>2, MulMono
    <2>2. QED
      BY <1>1, <1>2, <2>1
  <1>5. m < ((q + 1) * b) * a
    <2>1. (p + 1) * a <= ((q + 1) * b) * a
      BY <1>1, <1>2, MulMono
    <2>2. QED
      BY <1>1, <1>2, <2>1
  <1>6. q * (a * b) <= m /\ m < (q + 1) * (a * b)
    BY <1>2, <1>4, <1>5, SMT
  <1>7. QED
    BY <1>2, <1>3, <1>6, DivUnique

\* A set of natural numbers that is not empty has a least one.
LEMMA Least ==
  ASSUME NEW T \in SUBSET Nat, T # {}
  PROVE  \E x \in T : \A y \in T : x <= y
  <1> DEFINE R == OpToRel(<, Nat)
  <1>1. IsWellFoundedOn(R, Nat)
    BY NatLessThanWellFounded
  <1>2. PICK x \in T : \A y \in T : ~(<<y, x>> \in R)
    <2> HIDE DEF R
    <2>1. QED
      BY <1>1, WFMin
  <1>3. \A y \in T : y < x => <<y, x>> \in R
    BY DEF OpToRel
  <1> HIDE DEF R
  <1>4. x \in Nat /\ \A y \in T : y \in Nat /\ ~(y < x)
    BY <1>2, <1>3
  <1>5. \A y \in T : x <= y
    BY <1>4, SMT
  <1>6. QED
    BY <1>5

-----------------------------------------------------------------------------
(* The invariant.                                                          *)

LEMMA Sizes ==
  ASSUME TypeOK
  PROVE  /\ mem_size \in Nat /\ kernel_end \in Nat
         /\ pmm_max_blocks \in Nat /\ bitmap_bytes \in Nat
         /\ WordBits \in Nat \ {0} /\ WordBits = ByteBits * WordBytes
         /\ (pmm_max_blocks \div WordBits) * WordBits \in 0 .. pmm_max_blocks
         /\ (bitmap_bytes \div WordBytes) * WordBits
              = (pmm_max_blocks \div WordBits) * WordBits
         /\ InWholeWords \subseteq 0 .. pmm_max_blocks - 1
  <1>1. mem_size \in Nat /\ kernel_end \in Nat
    BY PmmAssumption DEF TypeOK
  <1>2. pmm_max_blocks \in Nat
    BY <1>1, PmmAssumption, DivRest DEF pmm_max_blocks, Block
  <1>3. bitmap_bytes \in Nat
    BY <1>2, PmmAssumption, DivRest DEF bitmap_bytes
  <1>4. WordBits \in Nat \ {0} /\ WordBits = ByteBits * WordBytes
    <2>1. \A a, b \in Nat \ {0} : a * b \in Nat \ {0}
      BY SMT
    <2>2. QED
      BY <2>1, PmmAssumption DEF WordBits
  <1>5. /\ pmm_max_blocks \div WordBits \in Nat
        /\ (pmm_max_blocks \div WordBits) * WordBits <= pmm_max_blocks
    BY <1>2, <1>4, DivRest
  <1>6. (pmm_max_blocks \div WordBits) * WordBits \in 0 .. pmm_max_blocks
    <2> HIDE DEF pmm_max_blocks, WordBits
    <2>1. \A a, b \in Nat : a * b \in Nat
      BY SMT
    <2>2. (pmm_max_blocks \div WordBits) * WordBits \in Nat
      BY <1>4, <1>5, <2>1
    <2>3. QED
      BY <1>2, <1>5, <2>2
  <1>7. pmm_max_blocks \div WordBits = bitmap_bytes \div WordBytes
    BY <1>2, <1>4, PmmAssumption, DivTwice DEF bitmap_bytes
  <1>8. InWholeWords \subseteq 0 .. pmm_max_blocks - 1
    BY <1>2, <1>6 DEF InWholeWords
  <1>9. QED
    BY <1>1, <1>2, <1>3, <1>4, <1>6, <1>7, <1>8

LEMMA OpenedNat ==
  ASSUME TypeOK, NEW r \in map
  PROVE  /\ r.base \in Nat /\ r.length \in Nat
         /\ r.base % AddrMod \in Nat /\ (r.base + r.length) % AddrMod \in Nat
         /\ Block(r.base % AddrMod) \in Nat
         /\ Block((r.base + r.length) % AddrMod) \in Nat
  <1>1. r.base \in Nat /\ r.length \in Nat
    BY PmmAssumption DEF TypeOK
  <1>2. r.base % AddrMod \in Nat
    BY <1>1, PmmAssumption, DivRest
  <1>3. (r.base + r.length) % AddrMod \in Nat
    <2>1. r.base + r.length \in Nat
      BY <1>1
    <2>2. QED
      BY <2>1, PmmAssumption, DivRest
  <1>4. QED
    BY <1>1, <1>2, <1>3, PmmAssumption, DivRest DEF Block

LEMMA InitInv == Init => IInv
  <1> SUFFICES ASSUME Init PROVE IInv
    OBVIOUS
  <1>1. PICK junk \in SUBSET ((0 .. pmm_max_blocks - 1) \ InWholeWords) :
          bitmap = BitmapOf(junk)
    BY DEF Init
  <1>2. mem_size \in MemSizes /\ kernel_end \in KernelEnds /\ map \in Maps /\ owned = {}
    BY DEF Init
  <1>3. TypeOK
    <2> DEFINE whole == 0 .. (bitmap_bytes \div WordBytes) * WordBits - 1
               opened == UNION {Opened(r) : r \in map}
    <2>1. bitmap = ((whole \cup junk) \ opened) \cup KernelBlocks
      BY <1>1 DEF BitmapOf
    <2>2. whole \subseteq Nat /\ junk \subseteq Nat /\ KernelBlocks \subseteq Nat
      <3>1. whole \subseteq Nat
        OBVIOUS
      <3>2. 0 .. pmm_max_blocks - 1 \subseteq Nat
        OBVIOUS
      <3>3. KernelBlocks \subseteq Nat
        BY DEF KernelBlocks
      <3>4. QED
        BY <3>1, <3>2, <3>3
    <2> HIDE DEF whole, opened
    <2>3. bitmap \subseteq Nat
      BY <2>1, <2>2
    <2>4. QED
      BY <1>2, <2>3 DEF TypeOK
  <1>4. KernelBlocks \subseteq bitmap
    BY <1>1 DEF BitmapOf
  <1>5. CameFromMap
    <2> SUFFICES ASSUME NEW b \in InWholeWords, b \notin bitmap
                 PROVE  \E r \in map : b \in Opened(r)
      BY <1>2 DEF CameFromMap
    <2>1. b \in 0 .. (bitmap_bytes \div WordBytes) * WordBits - 1
      BY <1>3, Sizes DEF InWholeWords
    <2>2. QED
      BY <1>1, <2>1 DEF BitmapOf
  <1>6. QED
    BY <1>2, <1>3, <1>4, <1>5 DEF IInv

\* The block handed out is the least of those found free.
LEMMA FirstFree ==
  ASSUME TypeOK, FreeFound # {}
  PROVE  pmm_find_first_free \in InWholeWords /\ pmm_find_first_free \notin bitmap
  <1>1. FreeFound \subseteq Nat
    BY Sizes DEF FreeFound
  <1>2. \E b \in FreeFound : \A c \in FreeFound : b <= c
    BY <1>1, Least
  <1>3. pmm_find_first_free \in FreeFound
    BY <1>2 DEF pmm_find_first_free
  <1>4. QED
    BY <1>3 DEF FreeFound

\* The machine is the one booted on.
LEMMA SameMachine ==
  ASSUME UNCHANGED machine
  PROVE  /\ InWholeWords' = InWholeWords /\ KernelBlocks' = KernelBlocks
         /\ map' = map /\ mem_size' = mem_size /\ kernel_end' = kernel_end
         /\ pmm_max_blocks' = pmm_max_blocks /\ bitmap_bytes' = bitmap_bytes
  BY DEF machine, InWholeWords, KernelBlocks, pmm_max_blocks, bitmap_bytes, WordBits, Block

LEMMA AllocInv == IInv /\ pmm_alloc_block => IInv'
  <1> SUFFICES ASSUME IInv, pmm_alloc_block PROVE IInv'
    OBVIOUS
  <1> DEFINE b == pmm_find_first_free
  <1>1. b \in InWholeWords /\ b \notin bitmap /\ b \in Nat
    BY FirstFree, Sizes DEF IInv, pmm_alloc_block
  <1>2. /\ bitmap' = bitmap \cup {b} /\ owned' = owned \cup {b}
        /\ UNCHANGED machine
    BY DEF pmm_alloc_block
  <1> HIDE DEF b
  <1>3. TypeOK'
    BY <1>1, <1>2, SameMachine DEF IInv, TypeOK
  <1>4. owned' \subseteq bitmap' /\ KernelBlocks' \subseteq bitmap' /\ owned' \cap KernelBlocks' = {}
    BY <1>1, <1>2, SameMachine DEF IInv
  <1>5. CameFromMap'
    <2> SUFFICES ASSUME NEW c \in InWholeWords, c \notin bitmap' \/ c \in owned'
                 PROVE  \E r \in map : c \in Opened(r)
      BY <1>2, SameMachine DEF CameFromMap, Opened, Block
    <2>1. c \notin bitmap \/ c \in owned
      BY <1>1, <1>2
    <2>2. QED
      BY <2>1 DEF IInv, CameFromMap
  <1>6. QED
    BY <1>3, <1>4, <1>5 DEF IInv

LEMMA FreeInv == ASSUME IInv, NEW b \in owned, pmm_free_block(b) PROVE IInv'
  <1>1. /\ bitmap' = bitmap \ {b} /\ owned' = owned \ {b}
        /\ UNCHANGED machine
    BY DEF pmm_free_block
  <1>2. TypeOK'
    BY <1>1, SameMachine DEF IInv, TypeOK
  <1>3. owned' \subseteq bitmap' /\ KernelBlocks' \subseteq bitmap' /\ owned' \cap KernelBlocks' = {}
    BY <1>1, SameMachine DEF IInv
  <1>4. CameFromMap'
    <2> SUFFICES ASSUME NEW c \in InWholeWords, c \notin bitmap' \/ c \in owned'
                 PROVE  \E r \in map : c \in Opened(r)
      BY <1>1, SameMachine DEF CameFromMap, Opened, Block
    <2>1. c \notin bitmap \/ c \in owned
      BY <1>1
    <2>2. QED
      BY <2>1 DEF IInv, CameFromMap
  <1>5. QED
    BY <1>2, <1>3, <1>4 DEF IInv

LEMMA NextInv == IInv /\ [Next]_vars => IInv'
  <1> SUFFICES ASSUME IInv, [Next]_vars PROVE IInv'
    OBVIOUS
  <1>1. CASE UNCHANGED vars
    <2>1. UNCHANGED machine /\ bitmap' = bitmap /\ owned' = owned
      BY <1>1 DEF vars
    <2>2. CameFromMap'
      BY <2>1, SameMachine DEF IInv, CameFromMap, Opened, Block
    <2>3. QED
      BY <2>1, <2>2, SameMachine DEF IInv, TypeOK
  <1>2. CASE pmm_alloc_block
    BY <1>2, AllocInv
  <1>3. CASE \E b \in owned : pmm_free_block(b)
    BY <1>3, FreeInv
  <1>4. QED
    BY <1>1, <1>2, <1>3 DEF Next

\* In every state of every machine the inductive invariant holds.
THEOREM Invariance == Spec => []IInv
  BY InitInv, NextInv, PTL DEF Spec

-----------------------------------------------------------------------------
(* The properties.                                                         *)

\* The bitmap holds blocks, and callers hold blocks it has room for.
THEOREM TypeCorrect == Spec => []TypeOK
  <1>1. IInv => TypeOK
    BY DEF IInv
  <1>2. QED
    BY <1>1, Invariance, PTL

\* A block above those of the kernel and the bitmap begins behind them.
LEMMA AboveKernel ==
  ASSUME TypeOK, NEW b \in Nat, b \notin KernelBlocks
  PROVE  b * PMM_BLOCK_SIZE >= kernel_end + bitmap_bytes
  <1> DEFINE e == kernel_end + bitmap_bytes
             q == Block(e)
  <1>1. e \in Nat
    BY Sizes
  <1>2. q \in Nat /\ e < (q + 1) * PMM_BLOCK_SIZE
    BY <1>1, PmmAssumption, DivRest DEF Block
  <1>3. q + 1 <= b
    BY <1>2 DEF KernelBlocks
  <1>4. (q + 1) * PMM_BLOCK_SIZE <= b * PMM_BLOCK_SIZE
    BY <1>2, <1>3, PmmAssumption, MulMono
  <1> HIDE DEF q, e
  <1>5. (q + 1) * PMM_BLOCK_SIZE \in Int /\ b * PMM_BLOCK_SIZE \in Int
    BY <1>2, PmmAssumption
  <1>6. e <= b * PMM_BLOCK_SIZE
    BY <1>1, <1>2, <1>4, <1>5
  <1>7. QED
    BY <1>6 DEF e

\* What callers hold is memory, nothing of it the kernel's or the bitmap's, and
\* it stays marked used: no block has two holders.
THEOREM KeepsKernelOut == Spec => []HandsOutFree
  <1>1. IInv => HandsOutFree
    <2> SUFFICES ASSUME IInv, NEW b \in owned
                 PROVE  /\ b \in bitmap /\ b < pmm_max_blocks
                        /\ b * PMM_BLOCK_SIZE >= kernel_end + bitmap_bytes
      BY DEF HandsOutFree
    <2>1. b \in InWholeWords /\ b \in bitmap /\ b \notin KernelBlocks
      BY DEF IInv, TypeOK
    <2>2. b \in 0 .. pmm_max_blocks - 1 /\ pmm_max_blocks \in Nat
      BY <2>1, Sizes DEF IInv
    <2>3. QED
      BY <2>1, <2>2, AboveKernel DEF IInv
  <1>2. QED
    BY <1>1, Invariance, PTL

\* The regions of the memory map start below the address at which addresses wrap.
BelowWrap == \A regions \in Maps : \A r \in regions : r.base < AddrMod

\* What HandsOutRam asks of the memory map: they start at a block's first byte, too.
Aligned ==
  /\ BelowWrap
  /\ \A regions \in Maps : \A r \in regions : Block(r.base) * PMM_BLOCK_SIZE = r.base

\* The blocks a region opens end in it, and begin with or behind the block that
\* its first byte is in.
LEMMA OpenedEnds ==
  ASSUME BelowWrap, TypeOK, NEW r \in map, NEW b \in Opened(r), b \in Nat
  PROVE  /\ r.base \in Nat /\ r.length \in Nat /\ Block(r.base) \in Nat
         /\ Block(r.base) <= b /\ (b + 1) * PMM_BLOCK_SIZE \in Int
         /\ (b + 1) * PMM_BLOCK_SIZE <= r.base + r.length
  <1> DEFINE e == r.base + r.length
             last == Block(e % AddrMod)
  <1>1. r.base \in Nat /\ r.length \in Nat /\ e \in Nat
    BY OpenedNat
  <1>2. r.base < AddrMod
    BY DEF BelowWrap, TypeOK
  <1>3. r.base % AddrMod = r.base
    <2>1. \A x, y \in Nat : x < y => x % y = x
      BY SMT
    <2>2. QED
      BY <1>1, <1>2, <2>1, PmmAssumption
  <1>4. Block(r.base) \in Nat /\ last \in Nat
    BY <1>3, OpenedNat
  <1>5. Block(r.base) <= b /\ b + 1 <= last
    <2>1. b \in Block(r.base) .. last - 1
      BY <1>3 DEF Opened
    <2>2. QED
      BY <1>4, <2>1
  <1>6. e % AddrMod \in Nat /\ e % AddrMod <= e
    <2>1. \A x \in Nat, y \in Nat \ {0} : x % y \in Nat /\ x % y <= x
      <3> SUFFICES ASSUME NEW x \in Nat, NEW y \in Nat \ {0}
                   PROVE  x % y \in Nat /\ x % y <= x
        OBVIOUS
      <3>1. (x \div y) * y + (x % y) = x /\ x \div y \in Nat /\ x % y \in Nat
        BY DivRest
      <3>2. (x \div y) * y \in Nat
        BY <3>1
      <3>3. QED
        BY <3>1, <3>2
    <2>2. QED
      BY <1>1, <2>1, PmmAssumption
  <1>7. last * PMM_BLOCK_SIZE <= e % AddrMod
    BY <1>6, PmmAssumption, DivRest DEF Block
  <1>8. (b + 1) * PMM_BLOCK_SIZE <= last * PMM_BLOCK_SIZE
    BY <1>4, <1>5, PmmAssumption, MulMono
  <1> HIDE DEF last
  <1>9. (b + 1) * PMM_BLOCK_SIZE \in Int /\ last * PMM_BLOCK_SIZE \in Int
    BY <1>4, PmmAssumption
  <1> HIDE DEF e
  <1>10. (b + 1) * PMM_BLOCK_SIZE <= e
    BY <1>1, <1>6, <1>7, <1>8, <1>9
  <1>11. QED
    BY <1>1, <1>4, <1>5, <1>9, <1>10 DEF e

\* In a region that starts at a block's first byte they are made of its bytes.
LEMMA OpenedInside ==
  ASSUME Aligned, TypeOK, NEW r \in map, NEW b \in Opened(r), b \in Nat
  PROVE  Bytes(b) \subseteq r.base .. r.base + r.length - 1
  <1>1. Block(r.base) * PMM_BLOCK_SIZE = r.base
    BY DEF Aligned, TypeOK
  <1>2. /\ r.base \in Nat /\ r.length \in Nat /\ Block(r.base) \in Nat
        /\ Block(r.base) <= b /\ (b + 1) * PMM_BLOCK_SIZE \in Int
        /\ (b + 1) * PMM_BLOCK_SIZE <= r.base + r.length
    BY OpenedEnds DEF Aligned
  <1>3. r.base <= b * PMM_BLOCK_SIZE /\ b * PMM_BLOCK_SIZE \in Int
    BY <1>1, <1>2, PmmAssumption, MulMono
  <1>4. QED
    BY <1>2, <1>3 DEF Bytes

\* Every byte of a block handed out is memory the map calls available.
THEOREM HandsOutAvailable ==
  ASSUME Aligned PROVE Spec => []HandsOutRam
  <1>1. IInv => HandsOutRam
    <2> SUFFICES ASSUME IInv, NEW b \in owned
                 PROVE  \E r \in map : Bytes(b) \subseteq r.base .. r.base + r.length - 1
      BY DEF HandsOutRam
    <2>1. b \in InWholeWords
      BY DEF IInv, TypeOK
    <2>2. PICK r \in map : b \in Opened(r)
      BY <2>1 DEF IInv, CameFromMap
    <2>3. b \in Nat
      BY <2>1 DEF InWholeWords
    <2>4. QED
      BY <2>2, <2>3, OpenedInside DEF IInv
  <1>2. QED
    BY <1>1, Invariance, PTL

\* The last byte of every block handed out is memory the map calls available.
EndsInRam ==
  \A b \in owned : \E r \in map :
    (b + 1) * PMM_BLOCK_SIZE - 1 \in r.base .. r.base + r.length - 1

\* Wherever the regions of the map start and end, a block handed out ends in one
\* of them: only the first block of a region that does not start at a block's
\* first byte can reach out of it, downwards (pmm.c:55-58).
THEOREM HandsOutEnds ==
  ASSUME BelowWrap PROVE Spec => []EndsInRam
  <1>1. IInv => EndsInRam
    <2> SUFFICES ASSUME IInv, NEW b \in owned
                 PROVE  \E r \in map :
                          (b + 1) * PMM_BLOCK_SIZE - 1 \in r.base .. r.base + r.length - 1
      BY DEF EndsInRam
    <2>1. b \in InWholeWords
      BY DEF IInv, TypeOK
    <2>2. PICK r \in map : b \in Opened(r)
      BY <2>1 DEF IInv, CameFromMap
    <2>3. b \in Nat
      BY <2>1 DEF InWholeWords
    <2>4. /\ r.base \in Nat /\ r.length \in Nat /\ Block(r.base) \in Nat
          /\ Block(r.base) <= b /\ (b + 1) * PMM_BLOCK_SIZE \in Int
          /\ (b + 1) * PMM_BLOCK_SIZE <= r.base + r.length
      BY <2>2, <2>3, OpenedEnds DEF IInv
    <2>5. r.base < (b + 1) * PMM_BLOCK_SIZE
      <3> DEFINE first == Block(r.base)
      <3>1. /\ first * PMM_BLOCK_SIZE + (r.base % PMM_BLOCK_SIZE) = r.base
            /\ r.base % PMM_BLOCK_SIZE \in 0 .. PMM_BLOCK_SIZE - 1
        BY <2>4, PmmAssumption, DivRest DEF Block
      <3>2. first \in Nat /\ first <= b
        BY <2>4
      <3> HIDE DEF first
      <3>3. first * PMM_BLOCK_SIZE <= b * PMM_BLOCK_SIZE
        BY <2>3, <3>2, PmmAssumption, MulMono
      <3>4. (b + 1) * PMM_BLOCK_SIZE = b * PMM_BLOCK_SIZE + PMM_BLOCK_SIZE
            /\ b * PMM_BLOCK_SIZE \in Int /\ first * PMM_BLOCK_SIZE \in Int
        BY <2>3, <3>2, PmmAssumption
      <3>5. QED
        BY <2>4, <3>1, <3>3, <3>4, PmmAssumption
    <2>6. QED
      BY <2>4, <2>5
  <1>2. QED
    BY <1>1, Invariance, PTL

LEMMA AllocKeeps ==
  ASSUME IInv, pmm_alloc_block
  PROVE  pmm_get_free_block_count' + Cardinality(owned')
           = pmm_get_free_block_count + Cardinality(owned)
  <1> DEFINE b == pmm_find_first_free
             All == 0 .. pmm_max_blocks - 1
  <1>1. b \in All /\ b \notin bitmap /\ b \notin owned
    BY FirstFree, Sizes DEF IInv, pmm_alloc_block
  <1>2. /\ bitmap' = bitmap \cup {b} /\ owned' = owned \cup {b}
        /\ pmm_max_blocks' = pmm_max_blocks
    BY SameMachine DEF pmm_alloc_block
  <1> HIDE DEF b
  <1>3. IsFiniteSet(All \ bitmap) /\ IsFiniteSet(owned)
    <2>1. IsFiniteSet(All)
      BY Sizes, FS_Interval DEF IInv
    <2>2. All \ bitmap \in SUBSET All /\ owned \in SUBSET All
      BY Sizes DEF IInv, TypeOK
    <2> HIDE DEF All
    <2>3. QED
      BY <2>1, <2>2, FS_Subset
  <1>4. Cardinality((All \ bitmap) \ {b}) = Cardinality(All \ bitmap) - 1
    BY <1>1, <1>3, FS_RemoveElement
  <1>5. Cardinality(owned') = Cardinality(owned) + 1
    BY <1>1, <1>2, <1>3, FS_AddElement
  <1>6. (0 .. pmm_max_blocks' - 1) \ bitmap' = (All \ bitmap) \ {b}
    BY <1>2
  <1>7. Cardinality(All \ bitmap) \in Nat /\ Cardinality(owned) \in Nat
    BY <1>3, FS_CardinalityType
  <1>8. QED
    <2>1. pmm_get_free_block_count = Cardinality(All \ bitmap)
      BY DEF pmm_get_free_block_count
    <2>2. pmm_get_free_block_count' = Cardinality((0 .. pmm_max_blocks' - 1) \ bitmap')
      BY DEF pmm_get_free_block_count
    <2> HIDE DEF All
    <2>3. QED
      BY <1>4, <1>5, <1>6, <1>7, <2>1, <2>2

LEMMA FreeKeeps ==
  ASSUME IInv, NEW b \in owned, pmm_free_block(b)
  PROVE  pmm_get_free_block_count' + Cardinality(owned')
           = pmm_get_free_block_count + Cardinality(owned)
  <1> DEFINE All == 0 .. pmm_max_blocks - 1
  <1>1. b \in All /\ b \in bitmap
    BY Sizes DEF IInv, TypeOK
  <1>2. /\ bitmap' = bitmap \ {b} /\ owned' = owned \ {b}
        /\ pmm_max_blocks' = pmm_max_blocks
    BY SameMachine DEF pmm_free_block
  <1>3. IsFiniteSet(All \ bitmap) /\ IsFiniteSet(owned)
    <2>1. IsFiniteSet(All)
      BY Sizes, FS_Interval DEF IInv
    <2>2. All \ bitmap \in SUBSET All /\ owned \in SUBSET All
      BY Sizes DEF IInv, TypeOK
    <2> HIDE DEF All
    <2>3. QED
      BY <2>1, <2>2, FS_Subset
  <1>4. Cardinality((All \ bitmap) \cup {b}) = Cardinality(All \ bitmap) + 1
    BY <1>1, <1>3, FS_AddElement
  <1>5. Cardinality(owned') = Cardinality(owned) - 1
    BY <1>2, <1>3, FS_RemoveElement
  <1>6. (0 .. pmm_max_blocks' - 1) \ bitmap' = (All \ bitmap) \cup {b}
    BY <1>1, <1>2
  <1>7. Cardinality(All \ bitmap) \in Nat /\ Cardinality(owned) \in Nat
    BY <1>3, FS_CardinalityType
  <1>8. QED
    <2>1. pmm_get_free_block_count = Cardinality(All \ bitmap)
      BY DEF pmm_get_free_block_count
    <2>2. pmm_get_free_block_count' = Cardinality((0 .. pmm_max_blocks' - 1) \ bitmap')
      BY DEF pmm_get_free_block_count
    <2> HIDE DEF All
    <2>3. pmm_get_free_block_count' = pmm_get_free_block_count + 1
      BY <1>4, <1>6, <2>1, <2>2, Zenon
    <2>4. pmm_get_free_block_count \in Nat
      BY <1>7, <2>1
    <2>5. QED
      BY <1>5, <1>7, <2>3, <2>4

\* What is free and what is held are the same memory together in every step.
THEOREM LosesNoBlock == Spec => KeepsBlocks
  <1> DEFINE Kept == pmm_get_free_block_count' + Cardinality(owned')
                       = pmm_get_free_block_count + Cardinality(owned)
  <1>1. IInv /\ [Next]_vars => [Kept]_vars
    <2>1. IInv /\ pmm_alloc_block => Kept
      BY AllocKeeps
    <2>2. ASSUME IInv, NEW b \in owned, pmm_free_block(b) PROVE Kept
      BY <2>2, FreeKeeps
    <2> HIDE DEF Kept
    <2>3. QED
      BY <2>1, <2>2 DEF Next
  <1>2. QED
    BY <1>1, Invariance, PTL DEF Spec, KeepsBlocks
===============================================================================
