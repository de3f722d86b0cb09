----------------------------- MODULE HeapProofs -----------------------------
(***************************************************************************)
(* Proofs about Heap for every arena, header size and request size.        *)
(***************************************************************************)
EXTENDS Heap, TLAPS

\* A size_t sum below 2^32 does not wrap.
LEMMA ModSmall == ASSUME NEW x \in Nat, NEW w \in Nat, x < w PROVE x % w = x
  BY SMT

\* What the invariant says of one block: its record, its place in the arena and
\* the block after it.
LEMMA BlockFacts ==
  ASSUME TypeOK, Tiling, NEW a \in Blocks
  PROVE  /\ a \in Nat /\ a > 0 /\ a >= HeapStart /\ a < HeapEnd
         /\ hdr[a].size \in Nat /\ hdr[a].is_free \in BOOLEAN
         /\ End(a) \in Nat /\ End(a) > a /\ End(a) <= HeapEnd
         /\ End(a) = a + HeaderSize + hdr[a].size
         /\ hdr[a].next \in Blocks \cup {NULL}
         /\ hdr[a].next = NULL => End(a) = HeapEnd
         /\ hdr[a].next # NULL => hdr[a].next = End(a) /\ hdr[a].next > a
  <1>1. hdr[a] \in [size : Nat, is_free : BOOLEAN, next : Blocks \cup {NULL}]
    BY DEF TypeOK
  <1>2. a \in HeapStart .. HeapEnd - 1
    BY DEF TypeOK
  <1>3. hdr[a].next = IF End(a) = HeapEnd THEN NULL ELSE End(a)
    BY DEF Tiling
  <1>4. hdr[a].next # NULL => hdr[a].next \in HeapStart .. HeapEnd - 1
    BY <1>1 DEF TypeOK
  <1>5. QED
    BY <1>1, <1>2, <1>3, <1>4, HeapAssumption DEF End, HeapEnd, NULL

LEMMA InitInv == Init => IInv
  <1> SUFFICES ASSUME Init PROVE IInv
    OBVIOUS
  <1> USE HeapAssumption DEF Init, NULL, HeapEnd, Blocks
  <1>1. TypeOK
    BY DEF TypeOK
  <1>2. Blocks = {HeapStart} /\ End(HeapStart) = HeapEnd
    BY DEF End
  <1>3. Tiling
    BY <1>2 DEF Tiling, End
  <1>4. Coalesced
    BY DEF Coalesced, NeighboursFree
  <1>5. Honoured
    BY DEF Honoured
  <1>6. Progress
    BY DEF Progress
  <1>7. QED
    BY <1>1, <1>3, <1>4, <1>5, <1>6 DEF IInv

\* Steps that leave the list alone.
LEMMA CallKmallocInv ==
  ASSUME IInv, NEW n \in Sizes, CallKmalloc(n) PROVE IInv'
  <1> USE HeapAssumption DEF CallKmalloc, IInv, Blocks
  <1>1. n \in 0 .. SizeMod - 1 /\ n # 0
    OBVIOUS
  <1>2. TypeOK'
    BY <1>1 DEF TypeOK
  <1>3. Tiling'
    BY DEF Tiling, End
  <1>4. Coalesced'
    BY DEF Coalesced, NeighboursFree
  <1>5. Honoured'
    BY DEF Honoured
  <1>6. Progress'
    <2>1. \A a \in Blocks : ~ (a < HeapStart)
      BY DEF TypeOK
    <2>2. QED
      BY <1>1, <2>1 DEF Progress, NULL
  <1>7. QED
    BY <1>2, <1>3, <1>4, <1>5, <1>6

LEMMA SkipInv == ASSUME IInv, Skip PROVE IInv'
  <1> USE DEF Skip, IInv, Blocks
  <1> DEFINE c == hdr[curr].next
  <1>1. curr \in Blocks
    BY DEF TypeOK
  <1>2. c \in Blocks \cup {NULL} /\ (c # NULL => c = End(curr))
    BY <1>1, BlockFacts
  <1>3. TypeOK'
    BY <1>2 DEF TypeOK
  <1>4. Tiling'
    BY DEF Tiling, End
  <1>5. Coalesced'
    BY DEF Coalesced, NeighboursFree
  <1>6. Honoured'
    BY DEF Honoured
  <1>7. ASSUME NEW a \in Blocks, c = NULL \/ a < c
        PROVE  a < curr \/ a = curr
    <2>1. a \in Nat /\ End(a) <= HeapEnd /\ curr \in Nat /\ End(curr) \in Nat
      BY <1>1, BlockFacts
    <2>2. curr < a => End(curr) <= a
      BY <1>1 DEF Tiling
    <2>3. c = NULL => End(curr) = HeapEnd /\ a < HeapEnd /\ HeapEnd \in Int
      BY <1>1, BlockFacts, HeapAssumption DEF HeapEnd
    <2>4. QED
      BY <1>2, <1>7, <2>1, <2>2, <2>3
  <1>8. Progress'
    BY <1>1, <1>7 DEF Progress, Fits
  <1>9. QED
    BY <1>3, <1>4, <1>5, <1>6, <1>8

LEMMA OutOfMemoryInv == ASSUME IInv, OutOfMemory PROVE IInv'
  <1> USE HeapAssumption DEF OutOfMemory, Return, IInv, Blocks
  <1>1. TypeOK'
    BY DEF TypeOK
  <1>2. Tiling'
    BY DEF Tiling, End
  <1>3. Coalesced'
    BY DEF Coalesced, NeighboursFree
  <1>4. Honoured'
    BY DEF Honoured
  <1>5. Progress'
    BY DEF Progress
  <1>6. QED
    BY <1>1, <1>2, <1>3, <1>4, <1>5

LEMMA AdvanceInv == ASSUME IInv, Advance PROVE IInv'
  <1> USE DEF Advance, AtEnd, IInv, Blocks
  <1> DEFINE c == hdr[curr].next
  <1>1. curr \in Blocks /\ c \in Blocks /\ c = End(curr) /\ c # NULL
    BY BlockFacts DEF TypeOK
  <1>2. TypeOK'
    BY <1>1 DEF TypeOK
  <1>3. Tiling'
    BY DEF Tiling, End
  <1>4. Coalesced'
    BY DEF Coalesced, NeighboursFree
  <1>5. Honoured'
    BY DEF Honoured
  <1>6. ASSUME NEW a \in Blocks, a < c
        PROVE  a < curr \/ a = curr
    <2>1. a \in Nat /\ curr \in Nat /\ End(curr) \in Nat
      BY <1>1, BlockFacts
    <2>2. QED
      BY <1>1, <1>6, <2>1 DEF Tiling
  <1>7. Progress'
    BY <1>1, <1>6 DEF Progress, BothFree, NeighboursFree
  <1>8. QED
    BY <1>2, <1>3, <1>4, <1>5, <1>7

LEMMA EndKfreeInv == ASSUME IInv, EndKfree PROVE IInv'
  <1> USE HeapAssumption DEF EndKfree, Return, AtEnd, IInv, Blocks
  <1>1. curr \in Blocks /\ hdr[curr].next = NULL /\ End(curr) = HeapEnd
    BY BlockFacts DEF TypeOK, Progress
  <1>2. TypeOK'
    BY DEF TypeOK
  <1>3. Tiling'
    BY DEF Tiling, End
  <1>4. ASSUME NEW a \in Blocks
        PROVE  a < curr \/ a = curr
    <2>1. a \in Nat /\ curr \in Nat /\ a < HeapEnd /\ HeapEnd \in Int
      BY <1>1, BlockFacts DEF HeapEnd
    <2>2. QED
      BY <1>1, <2>1 DEF Tiling
  <1>5. Coalesced'
    BY <1>1, <1>4 DEF Coalesced, NeighboursFree, Progress
  <1>6. Honoured'
    BY DEF Honoured
  <1>7. Progress'
    BY DEF Progress
  <1>8. QED
    BY <1>2, <1>3, <1>5, <1>6, <1>7

\* Changing only the flags keeps the list a tiling.
LEMMA SameShape ==
  ASSUME Tiling, Blocks' = Blocks,
         \A a \in Blocks : hdr'[a].next = hdr[a].next /\ End(a)' = End(a)
  PROVE  Tiling'
  BY DEF Tiling, HeapEnd

\* kfree marks the block free and starts its pass at the head of the list.
LEMMA CallKfreeInv ==
  ASSUME IInv, NEW p \in DOMAIN live, CallKfree(p) PROVE IInv'
  <1> USE HeapAssumption DEF CallKfree, IInv
  <1> DEFINE b == p - HeaderSize
  <1>1. /\ b \in Blocks /\ p = b + HeaderSize /\ b \in Nat /\ ~hdr[b].is_free
        /\ hdr[b].next # b
    <2>1. PICK d \in Blocks : p = d + HeaderSize /\ ~hdr[d].is_free
      BY DEF Honoured
    <2>2. d \in Nat /\ hdr[d].next # d
      BY <2>1, BlockFacts DEF NULL
    <2>3. QED
      BY <2>1, <2>2
  <1>2. /\ Blocks' = Blocks
        /\ \A a \in Blocks : /\ hdr'[a].size = hdr[a].size
                             /\ hdr'[a].next = hdr[a].next
                             /\ hdr'[a].is_free = (a = b \/ hdr[a].is_free)
                             /\ End(a)' = End(a)
        /\ hdr' \in [Blocks -> [size : Nat, is_free : BOOLEAN, next : Blocks \cup {NULL}]]
    <2>1. hdr \in [Blocks -> [size : Nat, is_free : BOOLEAN, next : Blocks \cup {NULL}]]
      BY DEF TypeOK
    <2>2. QED
      BY <1>1, <2>1 DEF Blocks, End
  <1>3. TypeOK'
    <2>1. live' \in [DOMAIN live' -> Nat \ {0}] /\ DOMAIN live' \subseteq Nat
      BY DEF TypeOK
    <2>2. QED
      BY <1>2, <2>1 DEF TypeOK
  <1>4. Tiling'
    BY <1>2, SameShape
  <1>5. Coalesced'
    BY DEF Coalesced
  <1>6. Honoured'
    <2>1. DOMAIN live' = DOMAIN live \ {p} /\ \A q \in DOMAIN live' : live'[q] = live[q]
      OBVIOUS
    <2>2. \A q \in DOMAIN live : q - HeaderSize \in Blocks
      <3>1. \A q \in DOMAIN live : \E d \in Blocks : q = d + HeaderSize
        BY DEF Honoured
      <3>2. QED
        BY <3>1, BlockFacts
    <2>3. {a + HeaderSize : a \in {d \in Blocks' : ~hdr'[d].is_free}} = DOMAIN live'
      <3>1. {d \in Blocks' : ~hdr'[d].is_free} = {d \in Blocks : ~hdr[d].is_free} \ {b}
        BY <1>2
      <3>2. \A d \in Blocks : d + HeaderSize = p => d = b
        BY BlockFacts
      <3>3. QED
        BY <1>1, <2>1, <3>1, <3>2 DEF Honoured
    <2>4. QED
      BY <1>2, <2>1, <2>2, <2>3 DEF Honoured
  <1>7. Progress'
    <2>1. \A a \in Blocks : ~ (a < HeapStart)
      BY DEF TypeOK
    <2>2. size = 0
      BY DEF Progress, TypeOK
    <2>3. QED
      BY <1>2, <2>1, <2>2 DEF Progress, NULL
  <1>8. QED
    BY <1>3, <1>4, <1>5, <1>6, <1>7

\* Merging drops the block after curr and gives curr its bytes.
LEMMA MergeInv == ASSUME IInv, Merge PROVE IInv'
  <1> USE HeapAssumption DEF Merge, MergeList, AtEnd, BothFree, IInv
  <1> DEFINE n == hdr[curr].next
  <1>1. /\ curr \in Blocks /\ n \in Blocks /\ n = End(curr) /\ n > curr
        /\ hdr[curr].is_free /\ hdr[n].is_free
        /\ curr \in Nat /\ n \in Nat /\ curr # NULL /\ n # NULL
    BY BlockFacts DEF TypeOK
  <1>2. End(n) \in Nat /\ hdr[n].next \in Blocks \cup {NULL} /\ hdr[n].next # n
    BY <1>1, BlockFacts
  <1>3. /\ Blocks' = Blocks \ {n}
        /\ hdr'[curr] = [size |-> hdr[curr].size + HeaderSize + hdr[n].size,
                         is_free |-> TRUE, next |-> hdr[n].next]
        /\ \A a \in Blocks' : a # curr => hdr'[a] = hdr[a]
        /\ hdr' = [a \in Blocks' |-> hdr'[a]]
    BY <1>1 DEF Blocks
  <1>4. /\ End(curr)' = End(n)
        /\ \A a \in Blocks' : a # curr => End(a)' = End(a)
    <2>1. hdr[curr].size \in Nat /\ hdr[n].size \in Nat
      BY <1>1, BlockFacts
    <2>2. QED
      BY <1>1, <1>3, <2>1 DEF End
  <1>5. \A a \in Blocks' : a # curr => hdr[a].next # n
    <2> SUFFICES ASSUME NEW a \in Blocks', a # curr, hdr[a].next = n PROVE FALSE
      OBVIOUS
    <2>1. a \in Blocks /\ a \in Nat /\ End(a) \in Nat /\ End(a) = n /\ a < n
      BY <1>1, <1>3, BlockFacts
    <2>2. a < curr => End(a) <= curr
      BY <1>1, <2>1 DEF Tiling
    <2>3. curr < a => End(curr) <= a
      BY <1>1, <2>1 DEF Tiling
    <2>4. QED
      BY <1>1, <2>1, <2>2, <2>3
  <1>6. TypeOK'
    <2>1. hdr' \in [Blocks' -> [size : Nat, is_free : BOOLEAN, next : Blocks' \cup {NULL}]]
      <3>1. ASSUME NEW a \in Blocks'
            PROVE  hdr'[a] \in [size : Nat, is_free : BOOLEAN, next : Blocks' \cup {NULL}]
        <4>1. CASE a = curr
          <5>1. hdr[curr].size \in Nat /\ hdr[n].size \in Nat
            BY <1>1, BlockFacts
          <5>2. QED
            BY <1>2, <1>3, <4>1, <5>1
        <4>2. CASE a # curr
          <5>1. hdr[a] \in [size : Nat, is_free : BOOLEAN, next : Blocks \cup {NULL}]
            BY <1>3 DEF TypeOK
          <5>2. QED
            BY <1>3, <1>5, <4>2, <5>1
        <4>3. QED
          BY <4>1, <4>2
      <3>2. QED
        BY <1>3, <3>1
    <2>2. HeapStart \in Blocks'
      BY <1>1, <1>3 DEF TypeOK
    <2>3. QED
      BY <1>1, <1>3, <2>1, <2>2 DEF TypeOK, HeapEnd
  <1>7. Tiling'
    <2>1. ASSUME NEW a \in Blocks'
          PROVE  hdr'[a].next = IF End(a)' = HeapEnd THEN NULL ELSE End(a)'
      <3>1. CASE a = curr
        <4>1. hdr'[a].next = hdr[n].next /\ End(a)' = End(n)
          BY <1>3, <1>4, <3>1
        <4>2. QED
          BY <1>1, <4>1 DEF Tiling
      <3>2. CASE a # curr
        <4>1. hdr'[a].next = hdr[a].next /\ End(a)' = End(a) /\ a \in Blocks
          BY <1>3, <1>4, <3>2
        <4>2. QED
          BY <4>1 DEF Tiling
      <3>3. QED
        BY <3>1, <3>2
    <2>2. \A a, b \in Blocks' : a < b => End(a)' <= b
      <3> SUFFICES ASSUME NEW a \in Blocks', NEW b \in Blocks', a < b PROVE End(a)' <= b
        OBVIOUS
      <3>1. a \in Blocks /\ b \in Blocks /\ b # n /\ b \in Nat /\ a \in Nat
        BY <1>3, BlockFacts
      <3>2. CASE a # curr
        BY <1>3, <1>4, <3>1, <3>2 DEF Tiling
      <3>3. CASE a = curr
        <4>1. n <= b
          BY <1>1, <3>1, <3>3 DEF Tiling
        <4>2. n < b
          BY <1>1, <3>1, <4>1
        <4>3. QED
          BY <1>1, <1>4, <3>1, <3>3, <4>2 DEF Tiling
      <3>4. QED
        BY <3>2, <3>3
    <2>3. ASSUME NEW x \in HeapStart .. HeapEnd - 1
          PROVE  \E a \in Blocks' : a <= x /\ x < End(a)'
      <3>1. PICK a \in Blocks : a <= x /\ x < End(a)
        BY DEF Tiling
      <3>2. x \in Int /\ a \in Nat /\ End(a) \in Nat
        BY <3>1, BlockFacts DEF HeapEnd
      <3>3. CASE a = n
        BY <1>1, <1>3, <1>4, <3>1, <3>2, <3>3
      <3>4. CASE a = curr
        <4>1. End(n) > n
          BY <1>1, BlockFacts
        <4>2. QED
          BY <1>1, <1>2, <1>3, <1>4, <3>1, <3>2, <3>4, <4>1
      <3>5. CASE a # n /\ a # curr
        BY <1>3, <1>4, <3>1, <3>5
      <3>6. QED
        BY <3>3, <3>4, <3>5
    <2>4. QED
      BY <2>1, <2>2, <2>3 DEF Tiling, HeapEnd
  <1>8. Coalesced'
    BY DEF Coalesced
  <1>9. Honoured'
    <2>1. {d \in Blocks' : ~hdr'[d].is_free} = {d \in Blocks : ~hdr[d].is_free}
      BY <1>1, <1>3
    <2>2. \A p \in DOMAIN live : p - HeaderSize \in Blocks /\ ~hdr[p - HeaderSize].is_free
      <3>1. \A p \in DOMAIN live : \E d \in Blocks : p = d + HeaderSize /\ ~hdr[d].is_free
        BY DEF Honoured
      <3>2. QED
        BY <3>1, BlockFacts
    <2>3. \A p \in DOMAIN live : hdr'[p - HeaderSize] = hdr[p - HeaderSize]
      BY <1>1, <1>3, <2>2
    <2>4. QED
      BY <2>1, <2>3 DEF Honoured
  <1>10. Progress'
    <2>1. \A a \in Blocks' : a < curr => ~NeighboursFree(a)'
      <3> SUFFICES ASSUME NEW a \in Blocks', a < curr, NeighboursFree(a)' PROVE FALSE
        OBVIOUS
      <3>1. a \in Blocks /\ a \in Nat /\ a # curr /\ hdr'[a] = hdr[a]
        <4>1. a \in Blocks /\ a \in Nat
          BY <1>3, BlockFacts
        <4>2. a # curr
          BY <1>1, <4>1
        <4>3. QED
          BY <1>3, <4>1, <4>2
      <3>2. hdr[a].next # NULL => hdr[a].next \in Blocks /\ hdr[a].next # n
        BY <1>3, <1>5, <3>1, BlockFacts
      <3>3. hdr[a].next # NULL => hdr'[hdr[a].next].is_free = hdr[hdr[a].next].is_free
        BY <1>1, <1>3, <3>2
      <3>4. NeighboursFree(a)
        BY <3>1, <3>3 DEF NeighboursFree
      <3>5. QED
        BY <3>1, <3>4 DEF Progress
    <2>2. QED
      BY <2>1 DEF Progress
  <1>11. QED
    BY <1>6, <1>7, <1>8, <1>9, <1>10

\* The pointers the callers hold, seen from the blocks.
LEMMA LiveFacts ==
  ASSUME TypeOK, Tiling, Honoured, NEW p \in DOMAIN live
  PROVE  p - HeaderSize \in Blocks /\ ~hdr[p - HeaderSize].is_free /\ p \in Nat
  <1>1. PICK d \in Blocks : p = d + HeaderSize /\ ~hdr[d].is_free
    BY DEF Honoured
  <1>2. QED
    BY <1>1, BlockFacts, HeapAssumption

\* The test of kmalloc's split never wraps, since a size that fits is smaller
\* than the arena.
LEMMA SplitsExact ==
  ASSUME TypeOK, Tiling, curr \in Blocks, Fits
  PROVE  Splits <=> hdr[curr].size >= size + HeaderSize + SplitSlack
  <1>1. /\ hdr[curr].size \in Nat /\ size \in Nat /\ size <= hdr[curr].size
        /\ hdr[curr].size + HeaderSize <= HeapMaxSize
    BY BlockFacts, HeapAssumption DEF HeapEnd, Fits, TypeOK
  <1>2. /\ size + HeaderSize + SplitSlack \in Nat /\ SizeMod \in Nat
        /\ size + HeaderSize + SplitSlack < SizeMod
    BY <1>1, HeapAssumption
  <1>3. (size + HeaderSize + SplitSlack) % SizeMod = size + HeaderSize + SplitSlack
    BY <1>2, ModSmall
  <1>4. QED
    BY <1>3 DEF Splits

\* kmalloc hands out the block found, whole: only its flag changes.
LEMMA TakeWholeInv == ASSUME IInv, Take, ~Splits PROVE IInv'
  <1> USE HeapAssumption DEF Take, Fits, WholeList, Return, IInv
  <1> DEFINE q == curr + HeaderSize
  <1>1. /\ curr \in Blocks /\ curr \in Nat /\ curr # NULL /\ q \in Nat /\ q # 0
        /\ hdr[curr].is_free /\ hdr[curr].size \in Nat /\ hdr[curr].size >= size
        /\ size \in Nat /\ size > 0
    BY BlockFacts DEF TypeOK, Progress
  <1>2. /\ Blocks' = Blocks
        /\ \A a \in Blocks : /\ hdr'[a].size = hdr[a].size
                             /\ hdr'[a].next = hdr[a].next
                             /\ hdr'[a].is_free = (a # curr /\ hdr[a].is_free)
                             /\ End(a)' = End(a)
        /\ hdr' \in [Blocks -> [size : Nat, is_free : BOOLEAN, next : Blocks \cup {NULL}]]
    <2>1. hdr \in [Blocks -> [size : Nat, is_free : BOOLEAN, next : Blocks \cup {NULL}]]
      BY DEF TypeOK
    <2>2. QED
      BY <1>1, <2>1 DEF Blocks, End
  <1>3. /\ DOMAIN live' = DOMAIN live \cup {q}
        /\ live'[q] = size
        /\ \A p \in DOMAIN live : p # q /\ live'[p] = live[p]
    <2>1. q \notin DOMAIN live
      BY <1>1, LiveFacts
    <2>2. QED
      BY <2>1
  <1>4. TypeOK'
    <2>1. live' \in [DOMAIN live' -> Nat \ {0}] /\ DOMAIN live' \subseteq Nat
      BY <1>1, <1>3 DEF TypeOK
    <2>2. QED
      BY <1>2, <2>1 DEF TypeOK
  <1>5. Tiling'
    BY <1>2, SameShape
  <1>6. Coalesced'
    BY <1>1, <1>2 DEF Coalesced, NeighboursFree, TypeOK
  <1>7. Honoured'
    <2>1. {a + HeaderSize : a \in {d \in Blocks' : ~hdr'[d].is_free}} = DOMAIN live'
      <3>1. {d \in Blocks' : ~hdr'[d].is_free} = {d \in Blocks : ~hdr[d].is_free} \cup {curr}
        BY <1>1, <1>2
      <3>2. QED
        BY <1>3, <3>1 DEF Honoured
    <2>2. \A p \in DOMAIN live' :
             /\ hdr'[p - HeaderSize].size >= live'[p]
             /\ hdr'[p - HeaderSize].size < live'[p] + HeaderSize + SplitSlack
      <3>1. hdr[curr].size < size + HeaderSize + SplitSlack
        BY <1>1, SplitsExact
      <3>2. q - HeaderSize = curr
        BY <1>1
      <3>3. \A p \in DOMAIN live : p - HeaderSize \in Blocks
        BY LiveFacts
      <3>4. QED
        BY <1>1, <1>2, <1>3, <3>1, <3>2, <3>3 DEF Honoured
    <2>3. QED
      BY <2>1, <2>2 DEF Honoured
  <1>8. Progress'
    BY DEF Progress, NULL
  <1>9. QED
    BY <1>4, <1>5, <1>6, <1>7, <1>8

\* kmalloc keeps the front of the block found and the rest becomes a free block.
LEMMA TakeSplitInv == ASSUME IInv, Take, Splits PROVE IInv'
  <1> USE HeapAssumption DEF Take, Fits, Return, IInv
  <1> SUFFICES ASSUME NEW c, NEW m, c = curr, m = curr + HeaderSize + size PROVE IInv'
    OBVIOUS
  <1> DEFINE q == c + HeaderSize
  <1>1. /\ c \in Blocks /\ c \in Nat /\ c # NULL /\ q \in Nat /\ q # 0
        /\ hdr[c].is_free /\ hdr[c].size \in Nat
        /\ size \in Nat /\ size > 0
        /\ hdr[c].size >= size + HeaderSize + SplitSlack
    BY BlockFacts, SplitsExact DEF TypeOK, Progress
  <1>2. /\ m \in Nat /\ m > c /\ m < End(c) /\ m \notin Blocks
        /\ End(c) <= HeapEnd /\ End(c) \in Nat /\ m # NULL
    <2>1. m \in Nat /\ m > c /\ m < End(c) /\ m # NULL
      BY <1>1, BlockFacts DEF NULL
    <2>2. m \notin Blocks
      BY <1>1, <2>1, BlockFacts DEF Tiling
    <2>3. QED
      BY <1>1, <2>1, <2>2, BlockFacts
  <1>3. /\ Blocks' = Blocks \cup {m}
        /\ hdr'[c] = [size |-> size, is_free |-> FALSE, next |-> m]
        /\ hdr'[m] = [size |-> hdr[c].size - size - HeaderSize, is_free |-> TRUE,
                      next |-> hdr[c].next]
        /\ \A a \in Blocks : a # c => hdr'[a] = hdr[a]
        /\ hdr' = [a \in Blocks' |-> hdr'[a]]
    BY <1>1, <1>2 DEF Blocks, SplitList
  <1>4. /\ End(c)' = m /\ End(m)' = End(c)
        /\ \A a \in Blocks : a # c => End(a)' = End(a)
    BY <1>1, <1>2, <1>3 DEF End
  <1>5. TypeOK'
    <2>1. hdr' \in [Blocks' -> [size : Nat, is_free : BOOLEAN, next : Blocks' \cup {NULL}]]
      <3>1. ASSUME NEW a \in Blocks'
            PROVE  hdr'[a] \in [size : Nat, is_free : BOOLEAN, next : Blocks' \cup {NULL}]
        <4>1. CASE a = c
          <5>1. size \in Nat /\ m \in Blocks'
            BY <1>1, <1>3
          <5>2. [size |-> size, is_free |-> FALSE, next |-> m]
                  \in [size : Nat, is_free : BOOLEAN, next : Blocks' \cup {NULL}]
            BY ONLY <5>1
          <5>3. QED
            BY <1>3, <4>1, <5>2
        <4>2. CASE a = m
          <5> DEFINE s == hdr[c].size - size - HeaderSize
          <5>1. s \in Nat /\ hdr[c].next \in Blocks' \cup {NULL}
            BY <1>1, <1>3, BlockFacts
          <5>2. [size |-> s, is_free |-> TRUE, next |-> hdr[c].next]
                  \in [size : Nat, is_free : BOOLEAN, next : Blocks' \cup {NULL}]
            <6> HIDE DEF s
            <6>1. QED
              BY ONLY <5>1
          <5>3. QED
            BY <1>3, <4>2, <5>2
        <4>3. CASE a # c /\ a # m
          <5>1. hdr[a] \in [size : Nat, is_free : BOOLEAN, next : Blocks \cup {NULL}]
            BY <1>3, <4>3 DEF TypeOK
          <5>2. QED
            BY <1>3, <4>3, <5>1
        <4>4. QED
          BY <4>1, <4>2, <4>3
      <3>2. QED
        BY <1>3, <3>1
    <2>2. live' \in [DOMAIN live' -> Nat \ {0}] /\ DOMAIN live' \subseteq Nat
      BY <1>1 DEF TypeOK
    <2>3. HeapStart \in Blocks' /\ Blocks' \subseteq HeapStart .. HeapEnd - 1
      BY <1>1, <1>2, <1>3 DEF TypeOK, HeapEnd
    <2>4. QED
      BY <2>1, <2>2, <2>3 DEF TypeOK, HeapEnd, NULL
  <1>6. Tiling'
    <2>1. ASSUME NEW a \in Blocks'
          PROVE  hdr'[a].next = IF End(a)' = HeapEnd THEN NULL ELSE End(a)'
      <3>1. CASE a = c
        BY <1>2, <1>3, <1>4, <3>1 DEF HeapEnd
      <3>2. CASE a = m
        BY <1>1, <1>3, <1>4, <3>2 DEF Tiling
      <3>3. CASE a # c /\ a # m
        BY <1>3, <1>4, <3>3 DEF Tiling
      <3>4. QED
        BY <3>1, <3>2, <3>3
    <2>2. ASSUME NEW a \in Blocks', NEW b \in Blocks', a < b
          PROVE  End(a)' <= b
      <3>1. /\ a \in Nat /\ b \in Nat
            /\ a # m => a \in Blocks /\ End(a) \in Nat /\ End(a) > a
            /\ b # m => b \in Blocks
        BY <1>2, <1>3, BlockFacts
      <3>2. CASE a = m
        <4>1. b \in Blocks /\ b > c
          BY <1>1, <1>2, <2>2, <3>1, <3>2
        <4>2. QED
          BY <1>1, <1>4, <3>2, <4>1 DEF Tiling
      <3>3. CASE a = c
        <4>1. b # m => End(c) <= b
          BY <1>1, <2>2, <3>1, <3>3 DEF Tiling
        <4>2. QED
          BY <1>2, <1>4, <3>1, <3>3, <4>1
      <3>4. CASE a # m /\ a # c
        <4>1. CASE b # m
          BY <1>4, <2>2, <3>1, <3>4, <4>1 DEF Tiling
        <4>2. CASE b = m
          <5>1. a < c
            <6>1. a < m /\ a < End(c) /\ a \in Blocks
              BY <1>2, <2>2, <3>1, <3>4, <4>2
            <6>2. ~ (c < a)
              BY <1>1, <1>2, <3>1, <6>1 DEF Tiling
            <6>3. QED
              BY <1>1, <3>1, <3>4, <6>2
          <5>2. End(a) <= c
            BY <1>1, <3>1, <3>4, <5>1 DEF Tiling
          <5>3. QED
            BY <1>1, <1>2, <1>4, <3>1, <3>4, <4>2, <5>2
        <4>3. QED
          BY <4>1, <4>2
      <3>5. QED
        BY <3>2, <3>3, <3>4
    <2>3. ASSUME NEW x \in HeapStart .. HeapEnd - 1
          PROVE  \E a \in Blocks' : a <= x /\ x < End(a)'
      <3>1. PICK a \in Blocks : a <= x /\ x < End(a)
        BY DEF Tiling
      <3>2. x \in Int /\ a \in Nat
        BY <3>1, BlockFacts DEF HeapEnd
      <3>3. CASE a = c
        <4>1. c <= x /\ x < End(c) /\ c \in Blocks' /\ m \in Blocks'
          BY <1>1, <1>3, <3>1, <3>3
        <4>2. CASE x < m
          BY <1>4, <4>1, <4>2
        <4>3. CASE m <= x
          BY <1>4, <4>1, <4>3
        <4>4. QED
          BY <1>2, <3>2, <4>2, <4>3
      <3>4. CASE a # c
        BY <1>3, <1>4, <3>1, <3>4
      <3>5. QED
        BY <3>3, <3>4
    <2>4. QED
      BY <2>1, <2>2, <2>3 DEF Tiling, HeapEnd
  <1>7. Coalesced'
    <2> SUFFICES ASSUME NEW a \in Blocks', NeighboursFree(a)' PROVE FALSE
      BY DEF Coalesced
    <2>1. CASE a = c
      BY <1>3, <2>1 DEF NeighboursFree
    <2>2. CASE a = m
      <3>1. hdr[c].next # NULL => hdr[c].next \in Blocks /\ hdr[c].next # c
        BY <1>1, BlockFacts
      <3>2. NeighboursFree(c)
        BY <1>1, <1>3, <2>2, <3>1 DEF NeighboursFree
      <3>3. QED
        BY <1>1, <3>2 DEF Coalesced
    <2>3. CASE a # c /\ a # m
      <3>1. a \in Blocks /\ hdr'[a] = hdr[a]
        BY <1>3, <2>3
      <3>2. hdr[a].next # NULL => hdr[a].next \in Blocks
        BY <3>1, BlockFacts
      <3>3. NeighboursFree(a)
        BY <1>1, <1>3, <3>1, <3>2 DEF NeighboursFree
      <3>4. QED
        BY <3>1, <3>3 DEF Coalesced
    <2>4. QED
      BY <2>1, <2>2, <2>3
  <1>8. Honoured'
    <2>1. /\ DOMAIN live' = DOMAIN live \cup {q} /\ live'[q] = size
          /\ \A p \in DOMAIN live : p # q /\ live'[p] = live[p]
      <3>1. q \notin DOMAIN live
        BY <1>1, LiveFacts
      <3>2. QED
        BY <3>1
    <2>2. {a + HeaderSize : a \in {d \in Blocks' : ~hdr'[d].is_free}} = DOMAIN live'
      <3>1. {d \in Blocks' : ~hdr'[d].is_free} = {d \in Blocks : ~hdr[d].is_free} \cup {c}
        BY <1>1, <1>2, <1>3
      <3>2. QED
        BY <2>1, <3>1 DEF Honoured
    <2>3. \A p \in DOMAIN live : /\ p - HeaderSize \in Blocks
                                 /\ hdr'[p - HeaderSize] = hdr[p - HeaderSize]
      BY <1>1, <1>3, LiveFacts
    <2>4. hdr'[q - HeaderSize].size = size
      <3>1. q - HeaderSize = c
        BY <1>1
      <3>2. QED
        BY <1>3, <3>1
    <2>5. \A p \in DOMAIN live' :
             /\ hdr'[p - HeaderSize].size >= live'[p]
             /\ hdr'[p - HeaderSize].size < live'[p] + HeaderSize + SplitSlack
      BY <1>1, <2>1, <2>3, <2>4 DEF Honoured
    <2>6. QED
      BY <2>2, <2>5 DEF Honoured
  <1>9. Progress'
    BY DEF Progress, NULL
  <1>10. QED
    BY <1>5, <1>6, <1>7, <1>8, <1>9

LEMMA NextInv == ASSUME IInv, [Next]_vars PROVE IInv'
  <1>1. CASE UNCHANGED vars
    BY <1>1 DEF vars, IInv, TypeOK, Tiling, Coalesced, NeighboursFree, Honoured, Progress,
                Blocks, End
  <1>2. ASSUME NEW n \in Sizes, CallKmalloc(n) PROVE IInv'
    BY <1>2, CallKmallocInv
  <1>3. ASSUME NEW p \in DOMAIN live, CallKfree(p) PROVE IInv'
    BY <1>3, CallKfreeInv
  <1>4. CASE Take
    BY <1>4, TakeWholeInv, TakeSplitInv
  <1>5. CASE Skip
    BY <1>5, SkipInv
  <1>6. CASE OutOfMemory
    BY <1>6, OutOfMemoryInv
  <1>7. CASE Merge
    BY <1>7, MergeInv
  <1>8. CASE Advance
    BY <1>8, AdvanceInv
  <1>9. CASE EndKfree
    BY <1>9, EndKfreeInv
  <1>10. QED
    BY <1>1, <1>2, <1>3, <1>4, <1>5, <1>6, <1>7, <1>8, <1>9 DEF Next, Step

\* In every state of every heap the inductive invariant holds.
THEOREM Invariance == Spec => []IInv
  <1>1. QED
    BY InitInv, NextInv, PTL DEF Spec

\* The variables of heap.c keep their types and the loops stay on the list.
THEOREM TypeCorrect == Spec => []TypeOK
  <1>1. IInv => TypeOK
    BY DEF IInv
  <1>2. QED
    BY <1>1, Invariance, PTL

\* The blocks cut the arena into adjoining pieces whatever kmalloc splits and
\* kfree merges.
THEOREM TilesArena == Spec => []Tiling
  <1>1. IInv => Tiling
    BY DEF IInv
  <1>2. QED
    BY <1>1, Invariance, PTL

\* One pass of kfree leaves no two neighbouring free blocks.
THEOREM KeepsCoalesced == Spec => []Coalesced
  <1>1. IInv => Coalesced
    BY DEF IInv
  <1>2. QED
    BY <1>1, Invariance, PTL

\* Every pointer handed out by kmalloc keeps a block of its own, large enough.
THEOREM HonoursCallers == Spec => []Honoured
  <1>1. IInv => Honoured
    BY DEF IInv
  <1>2. QED
    BY <1>1, Invariance, PTL

\* A heap whose callers have freed everything is the heap init_heap made.
THEOREM RestoresHeap == Spec => []Restored
  <1>1. IInv => Restored
    <2> SUFFICES ASSUME IInv, op = "idle", live = [p \in {} |-> 0]
                 PROVE  hdr = [a \in {HeapStart} |->
                                [size |-> HeapMaxSize - HeaderSize, is_free |-> TRUE,
                                 next |-> NULL]]
      BY DEF Restored
    <2>1. DOMAIN live = {}
      OBVIOUS
    <2>2. \A a \in Blocks : hdr[a].is_free
      BY <2>1 DEF IInv, Honoured
    <2>3. \A a \in Blocks : hdr[a].next = NULL /\ End(a) = HeapEnd
      <3>1. \A a \in Blocks : hdr[a].next # NULL => hdr[a].next \in Blocks
        BY BlockFacts DEF IInv
      <3>2. \A a \in Blocks : hdr[a].next = NULL
        BY <2>2, <3>1 DEF IInv, Coalesced, NeighboursFree
      <3>3. QED
        BY <3>2, BlockFacts DEF IInv
    <2>4. Blocks = {HeapStart}
      <3>1. \A a \in Blocks : a \in Nat /\ a >= HeapStart /\ a < HeapEnd
        BY BlockFacts DEF IInv
      <3>2. HeapStart \in Blocks /\ HeapEnd \in Nat /\ HeapStart \in Nat
        BY HeapAssumption DEF IInv, TypeOK, HeapEnd
      <3>3. \A a \in Blocks : ~ (HeapStart < a)
        BY <2>3, <3>1, <3>2 DEF IInv, Tiling
      <3>4. \A a \in Blocks : a = HeapStart
        BY <3>1, <3>2, <3>3
      <3>5. QED
        BY <3>2, <3>4
    <2>5. hdr[HeapStart].size = HeapMaxSize - HeaderSize
      <3>1. HeapStart \in Blocks /\ hdr[HeapStart].size \in Nat
        BY <2>4, BlockFacts DEF IInv
      <3>2. HeapStart + HeaderSize + hdr[HeapStart].size = HeapStart + HeapMaxSize
        BY <2>3, <3>1 DEF End, HeapEnd
      <3>3. QED
        BY <3>1, <3>2, HeapAssumption
    <2>6. hdr[HeapStart] \in [size : Nat, is_free : BOOLEAN, next : Blocks \cup {NULL}]
      BY <2>4 DEF IInv, TypeOK
    <2>7. hdr = [a \in {HeapStart} |-> hdr[a]]
      BY <2>4 DEF IInv, TypeOK, Blocks
    <2>8. hdr[HeapStart] = [size |-> HeapMaxSize - HeaderSize, is_free |-> TRUE, next |-> NULL]
      BY <2>2, <2>3, <2>4, <2>5, <2>6
    <2>9. QED
      BY <2>7, <2>8
  <1>2. QED
    BY <1>1, Invariance, PTL

\* No byte that a caller asked for is another caller's or a header's, so that
\* whatever callers write the list stays whole (heap.c:24-38 and 48-62).
THEOREM SeparatesCallers == Spec => []Separate
  <1>1. IInv => Separate
    <2> SUFFICES ASSUME IInv, NEW p \in DOMAIN live
                 PROVE  /\ Held(p) \subseteq HeapStart .. HeapEnd - 1
                        /\ \A q \in DOMAIN live \ {p} : Held(p) \cap Held(q) = {}
                        /\ \A a \in Blocks : Held(p) \cap Header(a) = {}
      BY DEF Separate
    <2>1. ASSUME NEW q \in DOMAIN live
          PROVE  /\ q - HeaderSize \in Blocks /\ ~hdr[q - HeaderSize].is_free
                 /\ q \in Nat /\ live[q] \in Nat
                 /\ q - HeaderSize >= HeapStart
                 /\ q + live[q] <= End(q - HeaderSize) /\ End(q - HeaderSize) <= HeapEnd
      <3>1. PICK b \in Blocks : q = b + HeaderSize /\ ~hdr[b].is_free
        BY DEF IInv, Honoured
      <3>2. /\ b \in Nat /\ b >= HeapStart /\ hdr[b].size \in Nat
            /\ End(b) = b + HeaderSize + hdr[b].size /\ End(b) <= HeapEnd
        BY BlockFacts DEF IInv
      <3>3. q - HeaderSize = b /\ q \in Nat
        BY <3>1, <3>2, HeapAssumption
      <3>4. hdr[q - HeaderSize].size >= live[q] /\ live[q] \in Nat
        BY DEF IInv, Honoured, TypeOK
      <3>5. QED
        BY <3>1, <3>2, <3>3, <3>4, HeapAssumption
    <2>2. HeapStart \in Nat /\ HeaderSize \in Nat /\ HeaderSize > 0 /\ HeapEnd \in Nat
      BY HeapAssumption DEF HeapEnd
    <2>3. Held(p) \subseteq HeapStart .. HeapEnd - 1
      <3>1. End(p - HeaderSize) \in Nat
        BY <2>1, BlockFacts DEF IInv
      <3>2. p \in Nat /\ live[p] \in Nat /\ p >= HeapStart /\ p + live[p] <= HeapEnd
        BY <2>1, <2>2, <3>1
      <3>3. QED
        BY <2>2, <3>2 DEF Held
    <2>4. ASSUME NEW a \in Blocks, a # p - HeaderSize
          PROVE  End(p - HeaderSize) <= a \/ End(a) <= p - HeaderSize
      <3>1. \A a1, b1 \in Blocks : a1 < b1 => End(a1) <= b1
        BY DEF IInv, Tiling
      <3>2. p - HeaderSize \in Blocks
        BY <2>1
      <3>3. a \in Nat /\ p - HeaderSize \in Nat
        BY <3>2, BlockFacts DEF IInv
      <3>4. CASE a < p - HeaderSize
        BY <3>1, <3>2, <3>4
      <3>5. CASE p - HeaderSize < a
        BY <3>1, <3>2, <3>5
      <3>6. QED
        BY <2>4, <3>3, <3>4, <3>5
    <2>5. ASSUME NEW q \in DOMAIN live \ {p} PROVE Held(p) \cap Held(q) = {}
      <3>1. q - HeaderSize # p - HeaderSize
        BY <2>1, <2>2
      <3>2. End(p - HeaderSize) <= q - HeaderSize \/ End(q - HeaderSize) <= p - HeaderSize
        BY <2>1, <2>4, <3>1
      <3>3. p + live[p] <= q \/ q + live[q] <= p
        BY <2>1, <2>2, <3>2, BlockFacts DEF IInv
      <3>4. QED
        BY <2>1, <3>3 DEF Held
    <2>6. ASSUME NEW a \in Blocks PROVE Held(p) \cap Header(a) = {}
      <3>1. a \in Nat /\ End(a) \in Nat /\ a + HeaderSize <= End(a)
        BY <2>2, BlockFacts DEF IInv
      <3>2. CASE a = p - HeaderSize
        BY <2>1, <2>2, <3>1, <3>2 DEF Held, Header
      <3>3. CASE a # p - HeaderSize
        <4>1. p + live[p] <= a \/ a + HeaderSize <= p
          BY <2>1, <2>2, <2>4, <3>1, <3>3, BlockFacts DEF IInv
        <4>2. QED
          BY <2>1, <2>2, <3>1, <4>1 DEF Held, Header
      <3>4. QED
        BY <3>2, <3>3
    <2>7. QED
      BY <2>3, <2>5, <2>6
  <1>2. QED
    BY <1>1, Invariance, PTL

-----------------------------------------------------------------------------
(* The loops end.                                                          *)

\* Where a block and the one after it end.
LEMMA NextEnds ==
  ASSUME IInv, NEW a \in Blocks, hdr[a].next # NULL
  PROVE  /\ hdr[a].next \in Blocks /\ hdr[a].next = End(a) /\ hdr[a].next > a
         /\ End(hdr[a].next) \in Nat /\ End(hdr[a].next) > End(a)
         /\ End(hdr[a].next) <= HeapEnd
  BY BlockFacts DEF IInv

\* A bound on what is left is a number, 0 only outside the list.
LEMMA LeftIs ==
  ASSUME IInv
  PROVE  /\ Left \in Nat
         /\ curr # NULL => /\ curr \in Blocks
                           /\ Left = 1 + (HeapEnd - curr) + (HeapEnd - End(curr))
                           /\ Left > 0
         /\ curr = NULL => Left = 0
  <1>1. HeapEnd \in Nat
    BY HeapAssumption DEF HeapEnd
  <1>2. CASE curr = NULL
    BY <1>2 DEF Left
  <1>3. CASE curr # NULL
    <2>1. curr \in Blocks
      BY <1>3 DEF IInv, TypeOK
    <2>2. curr \in Nat /\ curr < HeapEnd /\ End(curr) \in Nat /\ End(curr) <= HeapEnd
      BY <2>1, BlockFacts DEF IInv
    <2>3. QED
      BY <1>1, <1>3, <2>1, <2>2 DEF Left
  <1>4. QED
    BY <1>2, <1>3

LEMMA MoveOn ==
  ASSUME IInv, curr # NULL, curr' = hdr[curr].next, hdr' = hdr
  PROVE  Left' \in 0 .. Left - 1
  <1>1. /\ Left \in Nat /\ curr \in Blocks /\ Left > 0
        /\ Left = 1 + (HeapEnd - curr) + (HeapEnd - End(curr))
    BY LeftIs
  <1>2. CASE hdr[curr].next = NULL
    BY <1>1, <1>2 DEF Left
  <1>3. CASE hdr[curr].next # NULL
    <2> DEFINE n == hdr[curr].next
    <2>1. n \in Blocks /\ n > curr /\ n \in Nat /\ n < HeapEnd
          /\ End(n) \in Nat /\ End(n) > End(curr) /\ End(n) <= HeapEnd
          /\ curr \in Nat /\ End(curr) \in Nat /\ HeapEnd \in Nat
      BY <1>1, <1>3, NextEnds, BlockFacts, HeapAssumption DEF IInv, HeapEnd
    <2>2. Left' = 1 + (HeapEnd - n) + (HeapEnd - End(n))
      BY <1>3 DEF Left, End, HeapEnd
    <2> HIDE DEF n
    <2>3. QED
      BY <1>1, <2>1, <2>2
  <1>4. QED
    BY <1>2, <1>3

LEMMA MergeOn == ASSUME IInv, Merge PROVE Left' \in 0 .. Left - 1
  <1>1. curr # NULL /\ curr \in Blocks /\ hdr[curr].next # NULL /\ curr' = curr
    BY DEF Merge, AtEnd, IInv, Progress, TypeOK
  <1> DEFINE after == hdr[curr].next
  <1>2. /\ after \in Blocks /\ after = End(curr) /\ after > curr
        /\ End(after) \in Nat /\ End(after) > End(curr) /\ End(after) <= HeapEnd
    BY <1>1, NextEnds
  <1>3. /\ curr \in Nat /\ curr < HeapEnd /\ hdr[curr].size \in Nat
        /\ hdr[after].size \in Nat /\ End(curr) \in Nat
        /\ HeapEnd \in Nat /\ HeaderSize \in Nat
    BY <1>1, <1>2, BlockFacts, HeapAssumption DEF IInv, HeapEnd
  <1>4. End(curr)' = End(after)
    <2>1. hdr'[curr].size = hdr[curr].size + HeaderSize + hdr[after].size
      BY <1>1, <1>2, <1>3 DEF Merge, MergeList, Blocks
    <2>2. QED
      BY <1>1, <1>2, <1>3, <2>1 DEF End
  <1>5. Left' = 1 + (HeapEnd - curr) + (HeapEnd - End(after))
    BY <1>1, <1>4 DEF Left, HeapEnd
  <1>6. Left = 1 + (HeapEnd - curr) + (HeapEnd - End(curr))
    BY <1>1, LeftIs
  <1> HIDE DEF after
  <1>7. QED
    BY <1>2, <1>3, <1>5, <1>6

\* Every turn of kmalloc's and kfree's loop brings the call nearer to its end, so
\* a call that is given turns returns (heap.c:24-41 and 54-62).
THEOREM LoopsEnd == Spec => LoopsAdvance
  <1> DEFINE Advances == op # "idle" => op' = "idle" \/ (op' = op /\ Left' \in 0 .. Left - 1)
  <1>1. IInv /\ [Next]_vars => [Advances]_vars
    <2> SUFFICES ASSUME IInv, Next, op # "idle" PROVE Advances
      OBVIOUS
    <2>1. Step
      BY DEF Next, CallKmalloc, CallKfree
    <2>2. CASE Take \/ OutOfMemory \/ EndKfree
      BY <2>2 DEF Take, OutOfMemory, EndKfree, Return
    <2>3. CASE Skip
      BY <2>3, MoveOn DEF Skip
    <2>4. CASE Merge
      BY <2>4, MergeOn DEF Merge
    <2>5. CASE Advance
      BY <2>5, MoveOn DEF Advance, IInv, Progress
    <2>6. QED
      BY <2>1, <2>2, <2>3, <2>4, <2>5 DEF Step
  <1>2. QED
    BY <1>1, Invariance, PTL DEF Spec, LoopsAdvance

-----------------------------------------------------------------------------
(* Heap implements Allocator.                                              *)

\* A kmalloc that finds a block grants the data of that block.
LEMMA GrantStep ==
  ASSUME IInv, Take,
         NEW c, c = curr, NEW q, q = c + HeaderSize, NEW s, s = hdr'[c].size
  PROVE  A!Grant(q, s) /\ q \in 1 .. HeapEnd /\ s \in 1 .. HeapEnd
  <1> USE HeapAssumption DEF Take, Fits, Return, IInv
  <1>1. /\ c \in Blocks /\ c \in Nat /\ c # NULL /\ q \in Nat
        /\ hdr[c].is_free /\ hdr[c].size \in Nat /\ hdr[c].size >= size
        /\ size \in Nat /\ size > 0
    BY BlockFacts DEF TypeOK, Progress
  <1>2. s \in Nat /\ s >= size /\ s <= hdr[c].size /\ s < size + HeaderSize + SplitSlack
    <2>1. CASE Splits
      BY <1>1, <2>1 DEF Blocks, SplitList
    <2>2. CASE ~Splits
      <3>1. hdr' = WholeList
        BY <2>2
      <3>2. hdr'[c].size = hdr[c].size
        <4>1. hdr \in [Blocks -> [size : Nat, is_free : BOOLEAN, next : Blocks \cup {NULL}]]
          BY DEF TypeOK
        <4>2. QED
          BY <1>1, <3>1, <4>1 DEF WholeList
      <3>3. QED
        BY <1>1, <2>2, <3>2, SplitsExact
    <2>3. QED
      BY <2>1, <2>2
  <1>3. \A p \in DOMAIN live :
          /\ p - HeaderSize \in Blocks /\ p - HeaderSize # c /\ p \in Nat
          /\ hdr'[p - HeaderSize].size = hdr[p - HeaderSize].size
    <2> SUFFICES ASSUME NEW p \in DOMAIN live, NEW b, b = p - HeaderSize
                 PROVE  b \in Blocks /\ b # c /\ p \in Nat /\ hdr'[b].size = hdr[b].size
      OBVIOUS
    <2>1. b \in Blocks /\ ~hdr[b].is_free /\ p \in Nat
      BY LiveFacts
    <2>2. b # c
      BY <1>1, <2>1
    <2>3. c + HeaderSize + size \notin Blocks \/ ~Splits
      <3> SUFFICES ASSUME Splits, c + HeaderSize + size \in Blocks PROVE FALSE
        OBVIOUS
      <3>1. hdr[c].size >= size + HeaderSize + SplitSlack
        BY <1>1, SplitsExact
      <3>2. End(c) = c + HeaderSize + hdr[c].size
        BY DEF End
      <3>3. End(c) <= c + HeaderSize + size
        BY <1>1 DEF Tiling
      <3>4. QED
        BY <1>1, <3>1, <3>2, <3>3
    <2>4. CASE Splits
      BY <1>1, <2>1, <2>2, <2>3, <2>4 DEF Blocks, SplitList
    <2>5. CASE ~Splits
      BY <1>1, <2>1, <2>2, <2>5 DEF Blocks, WholeList
    <2>6. QED
      BY <2>1, <2>2, <2>4, <2>5
  <1>4. A!Unused(q - HeaderSize, q + s)
    <2>1. q - HeaderSize = c /\ q + s <= End(c) /\ End(c) <= HeapEnd /\ c >= HeapStart
          /\ End(c) \in Nat
      BY <1>1, <1>2, BlockFacts DEF End
    <2>2. ASSUME NEW p \in DOMAIN live
          PROVE  q + s <= p - HeaderSize \/ c >= p + hdr[p - HeaderSize].size
      <3>1. PICK b : b = p - HeaderSize
        OBVIOUS
      <3>2. /\ b \in Blocks /\ b # c /\ p \in Nat /\ b \in Nat /\ hdr[b].size \in Nat
            /\ End(b) = p + hdr[b].size
        BY <1>3, <3>1, BlockFacts DEF End
      <3>3. (c < b => End(c) <= b) /\ (b < c => End(b) <= c)
        BY <1>1, <3>2 DEF Tiling
      <3>4. QED
        BY <1>1, <1>2, <2>1, <3>1, <3>2, <3>3
    <2>3. q - HeaderSize >= HeapStart /\ q + s <= HeapEnd
      BY <1>1, <1>2, <2>1 DEF HeapEnd
    <2>4. ASSUME NEW p \in DOMAIN [r \in DOMAIN live |-> hdr[r - HeaderSize].size]
          PROVE  \/ q + s <= p - HeaderSize
                 \/ q - HeaderSize >= p + [r \in DOMAIN live |-> hdr[r - HeaderSize].size][p]
      BY <2>1, <2>2
    <2>5. QED
      BY <2>3, <2>4 DEF A!Unused
  <1>5. [p \in DOMAIN live |-> hdr[p - HeaderSize].size]'
          = [p \in DOMAIN live \cup {q} |->
               IF p = q THEN s ELSE hdr[p - HeaderSize].size]
    <2>1. DOMAIN live' = DOMAIN live \cup {q}
      OBVIOUS
    <2>2. q - HeaderSize = c
      BY <1>1
    <2>3. \A p \in DOMAIN live \cup {q} :
            hdr'[p - HeaderSize].size = IF p = q THEN s ELSE hdr[p - HeaderSize].size
      BY <1>3, <2>2
    <2>4. QED
      BY <2>1, <2>3
  <1>6. q \in 1 .. HeapEnd /\ s \in 1 .. HeapEnd
    BY <1>1, <1>2, BlockFacts DEF End, HeapEnd
  <1>7. QED
    BY <1>1, <1>2, <1>4, <1>5, <1>6 DEF A!Grant

\* kmalloc reaches the end of the list only when no gap in the arena, however it
\* is made up, could hold a header and the bytes asked for.
LEMMA DenyStep == ASSUME IInv, OutOfMemory PROVE A!Deny
  <1> USE HeapAssumption DEF OutOfMemory, Return, IInv
  <1>1. size \in Nat /\ size > 0 /\ curr = NULL
    BY DEF Progress, TypeOK
  <1>2. \A a \in Blocks : hdr[a].is_free => hdr[a].size < size
    BY <1>1, BlockFacts DEF Progress
  <1>3. ASSUME NEW lo \in HeapStart .. HeapEnd,
               A!Unused(lo, lo + HeaderSize + size)
        PROVE  FALSE
    <2> DEFINE hi == lo + HeaderSize + size
    <2>1. lo \in Nat /\ lo >= HeapStart /\ hi <= HeapEnd /\ lo < HeapEnd /\ HeapEnd \in Nat
      BY <1>1, <1>3 DEF A!Unused, HeapEnd
    <2>2. \A p \in DOMAIN live : hi <= p - HeaderSize \/ lo >= p + hdr[p - HeaderSize].size
      BY <1>3 DEF A!Unused
    \* A block that meets the gap is free, since the regions held lie outside it.
    <2>3. ASSUME NEW a \in Blocks, a < hi, lo < End(a)
          PROVE  hdr[a].is_free
      <3> SUFFICES ASSUME ~hdr[a].is_free PROVE FALSE
        OBVIOUS
      <3>1. a + HeaderSize \in DOMAIN live
        BY DEF Honoured
      <3>2. a \in Nat /\ hdr[a].size \in Nat /\ End(a) = a + HeaderSize + hdr[a].size
            /\ (a + HeaderSize) - HeaderSize = a
        BY BlockFacts
      <3>3. hi <= a \/ lo >= a + HeaderSize + hdr[a].size
        BY <2>2, <3>1, <3>2
      <3>4. QED
        BY <1>1, <2>1, <2>3, <3>2, <3>3
    <2>4. PICK a \in Blocks : a <= lo /\ lo < End(a)
      <3>1. lo \in HeapStart .. HeapEnd - 1
        BY <2>1
      <3>2. QED
        BY <3>1 DEF Tiling
    <2>5. /\ a \in Nat /\ End(a) \in Nat /\ hdr[a].size \in Nat
          /\ End(a) = a + HeaderSize + hdr[a].size
          /\ hdr[a].next = NULL => End(a) = HeapEnd
          /\ hdr[a].next # NULL => hdr[a].next = End(a) /\ hdr[a].next \in Blocks
      BY BlockFacts
    <2>6. hdr[a].is_free
      BY <1>1, <2>1, <2>3, <2>4, <2>5
    \* The free block at lo ends inside the gap, for it is too small...
    <2>7. End(a) < hi
      BY <1>1, <1>2, <2>1, <2>4, <2>5, <2>6
    \* ... so the next block meets the gap as well and is free: two neighbours.
    <2>8. PICK b \in Blocks : b = hdr[a].next /\ b = End(a) /\ hdr[a].next # NULL
      BY <1>1, <2>1, <2>5, <2>7
    <2>9. b \in Nat /\ End(b) > b /\ End(b) \in Nat
      BY BlockFacts
    <2>10. hdr[b].is_free
      BY <2>1, <2>3, <2>4, <2>5, <2>7, <2>8, <2>9
    <2>11. NeighboursFree(a)
      BY <2>6, <2>8, <2>10 DEF NeighboursFree
    <2>12. QED
      BY <2>11 DEF Coalesced
  <1>4. [p \in DOMAIN live |-> hdr[p - HeaderSize].size]'
          = [p \in DOMAIN live |-> hdr[p - HeaderSize].size]
    OBVIOUS
  <1>5. QED
    BY <1>1, <1>3, <1>4 DEF A!Deny

\* Merging moves no region that is still held.
LEMMA MergeKeepsGranted ==
  ASSUME IInv, Merge PROVE UNCHANGED A!vars
  <1> USE DEF Merge, MergeList, AtEnd, BothFree, IInv
  <1>1. /\ hdr[curr].is_free /\ hdr[hdr[curr].next].is_free
    OBVIOUS
  <1>2. ASSUME NEW p \in DOMAIN live
        PROVE  hdr'[p - HeaderSize] = hdr[p - HeaderSize]
    <2> DEFINE b == p - HeaderSize
    <2>1. b \in Blocks /\ ~hdr[b].is_free
      BY <1>2, LiveFacts
    <2>2. b # curr /\ b # hdr[curr].next
      BY <1>1, <2>1
    <2>3. QED
      BY <2>1, <2>2 DEF Blocks
  <1>3. live' = live /\ size' = size
    OBVIOUS
  <1>4. \A p \in DOMAIN live : hdr'[p - HeaderSize].size = hdr[p - HeaderSize].size
    BY <1>2
  <1>5. QED
    BY ONLY <1>3, <1>4 DEF A!vars

\* kfree gives up the one region the caller names.
LEMMA ReleaseStep ==
  ASSUME IInv, NEW p \in DOMAIN live, CallKfree(p) PROVE A!Release(p)
  <1> USE DEF CallKfree, IInv
  <1>1. size = 0
    BY DEF Progress, TypeOK
  <1>2. p - HeaderSize \in Blocks /\ p \in Nat
    BY LiveFacts
  <1>3. hdr \in [Blocks -> [size : Nat, is_free : BOOLEAN, next : Blocks \cup {NULL}]]
    BY DEF TypeOK
  <1>4. ASSUME NEW q \in DOMAIN live PROVE hdr'[q - HeaderSize].size = hdr[q - HeaderSize].size
    <2>1. q - HeaderSize \in Blocks
      BY LiveFacts
    <2>2. QED
      BY <1>2, <1>3, <2>1
  <1>5. [r \in DOMAIN live |-> hdr[r - HeaderSize].size]'
          = [q \in DOMAIN live \ {p} |-> hdr[q - HeaderSize].size]
    BY <1>4
  <1>6. QED
    BY <1>1, <1>5 DEF A!Release

\* Every step of the loops is a step of the abstract allocator or changes
\* nothing a caller can see.
LEMMA StepRefines ==
  ASSUME IInv, [Next]_vars PROVE [A!Next]_(A!vars)
  <1>1. CASE UNCHANGED vars
    BY <1>1 DEF vars, A!vars
  <1>2. ASSUME NEW n \in Sizes, CallKmalloc(n) PROVE A!Request(n)
    <2>1. n \in Nat /\ n > 0 /\ size = 0
      BY <1>2, HeapAssumption DEF CallKmalloc, IInv, Progress, TypeOK
    <2>2. [p \in DOMAIN live |-> hdr[p - HeaderSize].size]'
            = [p \in DOMAIN live |-> hdr[p - HeaderSize].size]
      BY <1>2 DEF CallKmalloc
    <2>3. QED
      BY <1>2, <2>1, <2>2 DEF A!Request, CallKmalloc
  <1>3. ASSUME NEW p \in DOMAIN live, CallKfree(p)
        PROVE  p \in DOMAIN [r \in DOMAIN live |-> hdr[r - HeaderSize].size] /\ A!Release(p)
    BY <1>3, ReleaseStep
  <1>4. CASE Take
    BY <1>4, GrantStep DEF A!Next
  <1>5. CASE Skip \/ Advance \/ EndKfree
    <2>1. UNCHANGED <<hdr, live, size>>
      BY <1>5 DEF Skip, Advance, EndKfree, Return, IInv, Progress, TypeOK
    <2>2. QED
      BY <2>1 DEF A!vars
  <1>6. CASE OutOfMemory
    BY <1>6, DenyStep DEF A!Next
  <1>7. CASE Merge
    BY <1>7, MergeKeepsGranted
  <1>8. QED
    BY <1>1, <1>2, <1>3, <1>4, <1>5, <1>6, <1>7 DEF Next, Step, A!Next

\* kmalloc and kfree keep the promise of Allocator: grants are disjoint, large
\* enough and stay put, and a refusal means that no gap could hold the request.
THEOREM ImplementsAllocator == Spec => RefinesAllocator
  <1>1. Init => A!Init
    BY DEF Init, A!Init
  <1>2. IInv /\ [Next]_vars => [A!Next]_(A!vars)
    BY StepRefines
  <1>3. QED
    BY <1>1, <1>2, Invariance, PTL DEF Spec, RefinesAllocator, A!Spec
=============================================================================
