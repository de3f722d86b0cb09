-------------------------------- MODULE Heap --------------------------------
(***************************************************************************)
(* The kernel heap of kernel/heap.c: a list of blocks in address order,    *)
(* each a header followed by its data, allocated first-fit and merged by   *)
(* kfree.  One step is one turn of a loop in kmalloc or kfree, so the list *)
(* is walked, split and merged pointer by pointer as the code does it.     *)
(***************************************************************************)
EXTENDS Integers

CONSTANTS
  HeapStart,    \* HEAP_START
  HeapMaxSize,  \* HEAP_MAX_SIZE
  HeaderSize,   \* sizeof(heap_block_t)
  SplitSlack,   \* the 16 of "size + sizeof(heap_block_t) + 16"
  SizeMod,      \* 2^32: size_t arithmetic wraps at this value
  Sizes         \* the sizes callers pass to kmalloc

ASSUME HeapAssumption ==
  /\ HeapStart \in Nat /\ HeapStart > 0
  /\ HeaderSize \in Nat /\ HeaderSize > 0
  /\ SplitSlack \in Nat
  /\ HeapMaxSize \in Nat /\ HeapMaxSize > HeaderSize
  /\ SizeMod \in Nat /\ HeapStart + HeapMaxSize + SplitSlack < SizeMod
  /\ Sizes \subseteq 0 .. SizeMod - 1

VARIABLES
  hdr,    \* the headers on the list, by address; its head is HeapStart
  live,   \* what the callers hold: data pointer -> size they asked for
  op,     \* the call in progress: "kmalloc", "kfree" or "idle"
  curr,   \* curr of that call's loop, NULL outside one
  size    \* the argument of kmalloc, 0 outside it

vars == <<hdr, live, op, curr, size>>

NULL == 0
HeapEnd == HeapStart + HeapMaxSize
Blocks == DOMAIN hdr
End(a) == a + HeaderSize + hdr[a].size

Init ==  \* init_heap
  /\ hdr = [a \in {HeapStart} |->
              [size |-> HeapMaxSize - HeaderSize, is_free |-> TRUE, next |-> NULL]]
  /\ live = [p \in {} |-> 0]
  /\ op = "idle" /\ curr = NULL /\ size = 0

Return == op' = "idle" /\ curr' = NULL /\ size' = 0

-----------------------------------------------------------------------------
(* kmalloc: size 0 returns NULL at once and changes nothing.               *)

\* Fault: the search starts at the second block.
CallKmallocSecond(n) ==
  /\ op = "idle" /\ n # 0
  /\ op' = "kmalloc" /\ curr' = hdr[HeapStart].next /\ size' = n
  /\ UNCHANGED <<hdr, live>>

CallKmalloc(n) ==
  /\ op = "idle" /\ n # 0
  /\ op' = "kmalloc" /\ curr' = HeapStart /\ size' = n
  /\ UNCHANGED <<hdr, live>>

\* Fault: the size of a free block is not compared.
FitsAny == hdr[curr].is_free

Fits == hdr[curr].is_free /\ hdr[curr].size >= size

Splits == hdr[curr].size >= (size + HeaderSize + SplitSlack) % SizeMod

\* The list after curr keeps size bytes and the rest becomes a free block.
SplitList ==
  LET new_block == curr + HeaderSize + size
  IN  [a \in Blocks \cup {new_block} |->
        IF a = new_block
        THEN [size |-> hdr[curr].size - size - HeaderSize, is_free |-> TRUE,
              next |-> hdr[curr].next]
        ELSE IF a = curr THEN [size |-> size, is_free |-> FALSE, next |-> new_block]
        ELSE hdr[a]]

WholeList == [hdr EXCEPT ![curr].is_free = FALSE]

Take ==
  /\ op = "kmalloc" /\ curr # NULL /\ Fits
  /\ hdr' = IF Splits THEN SplitList ELSE WholeList
  /\ live' = [p \in DOMAIN live \cup {curr + HeaderSize} |->
                IF p = curr + HeaderSize THEN size ELSE live[p]]
  /\ Return

Skip ==
  /\ op = "kmalloc" /\ curr # NULL /\ ~Fits
  /\ curr' = hdr[curr].next
  /\ UNCHANGED <<hdr, live, op, size>>

OutOfMemory ==
  /\ op = "kmalloc" /\ curr = NULL
  /\ Return
  /\ UNCHANGED <<hdr, live>>

-----------------------------------------------------------------------------
(* kfree: callers pass a pointer they hold.                                *)

\* Fault: the merging pass starts at the block freed, not at the head.
CallKfreeFromBlock(p) ==
  /\ op = "idle"
  /\ hdr' = [hdr EXCEPT ![p - HeaderSize].is_free = TRUE]
  /\ live' = [q \in DOMAIN live \ {p} |-> live[q]]
  /\ op' = "kfree" /\ curr' = p - HeaderSize
  /\ UNCHANGED size

CallKfree(p) ==
  /\ op = "idle"
  /\ hdr' = [hdr EXCEPT ![p - HeaderSize].is_free = TRUE]
  /\ live' = [q \in DOMAIN live \ {p} |-> live[q]]
  /\ op' = "kfree" /\ curr' = HeapStart
  /\ UNCHANGED size

AtEnd == IF curr = NULL THEN TRUE ELSE hdr[curr].next = NULL
BothFree == hdr[curr].is_free /\ hdr[hdr[curr].next].is_free

\* Fault: the header of the block merged is not counted.
MergeListNoHeader ==
  LET after == hdr[curr].next
  IN  [a \in Blocks \ {after} |->
        IF a = curr
        THEN [size |-> hdr[a].size + hdr[after].size,
              is_free |-> TRUE, next |-> hdr[after].next]
        ELSE hdr[a]]

\* Fault: the block merged stays linked.
MergeListStaleNext ==
  LET after == hdr[curr].next
  IN  [a \in Blocks \ {after} |->
        IF a = curr
        THEN [hdr[a] EXCEPT !.size = @ + HeaderSize + hdr[after].size]
        ELSE hdr[a]]

\* The list with the block after curr joined to it.
MergeList ==
  LET after == hdr[curr].next
  IN  [a \in Blocks \ {after} |->
        IF a = curr
        THEN [size |-> hdr[a].size + HeaderSize + hdr[after].size,
              is_free |-> TRUE, next |-> hdr[after].next]
        ELSE hdr[a]]

\* Fault: the pass moves on after a merge.
MergeAndAdvance ==
  /\ op = "kfree" /\ ~AtEnd /\ BothFree
  /\ hdr' = MergeList
  /\ curr' = hdr[hdr[curr].next].next
  /\ UNCHANGED <<live, op, size>>

Merge ==
  /\ op = "kfree" /\ ~AtEnd /\ BothFree
  /\ hdr' = MergeList
  /\ UNCHANGED <<live, op, curr, size>>

\* Fault: the pass starts again instead of moving on.
AdvanceToHead ==
  /\ op = "kfree" /\ ~AtEnd /\ ~BothFree
  /\ curr' = HeapStart
  /\ UNCHANGED <<hdr, live, op, size>>

Advance ==
  /\ op = "kfree" /\ ~AtEnd /\ ~BothFree
  /\ curr' = hdr[curr].next
  /\ UNCHANGED <<hdr, live, op, size>>

EndKfree ==
  /\ op = "kfree" /\ AtEnd
  /\ Return
  /\ UNCHANGED <<hdr, live>>

Step == Take \/ Skip \/ OutOfMemory \/ Merge \/ Advance \/ EndKfree

Next ==
  \/ \E n \in Sizes : CallKmalloc(n)
  \/ \E p \in DOMAIN live : CallKfree(p)
  \/ Step

Spec == Init /\ [][Next]_vars

\* A call runs to its end: nothing in its loops waits for anything.
FairSpec == Spec /\ WF_vars(Step)

-----------------------------------------------------------------------------
(* Properties.                                                             *)

TypeOK ==
  /\ hdr \in [Blocks -> [size : Nat, is_free : BOOLEAN, next : Blocks \cup {NULL}]]
  /\ HeapStart \in Blocks /\ Blocks \subseteq HeapStart .. HeapEnd - 1
  /\ live \in [DOMAIN live -> Nat \ {0}] /\ DOMAIN live \subseteq Nat
  /\ op \in {"idle", "kmalloc", "kfree"}
  /\ curr \in Blocks \cup {NULL}
  /\ size \in 0 .. SizeMod - 1

\* The headers on the list cut the arena into adjoining blocks: next is the
\* byte after a block, the last block ends at HeapEnd, no two overlap and no
\* byte is lost, whatever was split and merged (heap.c:27-33 and 57-58).
Tiling ==
  /\ \A a \in Blocks : hdr[a].next = IF End(a) = HeapEnd THEN NULL ELSE End(a)
  /\ \A a, b \in Blocks : a < b => End(a) <= b
  /\ \A x \in HeapStart .. HeapEnd - 1 : \E a \in Blocks : a <= x /\ x < End(a)

NeighboursFree(a) ==
  hdr[a].next # NULL /\ hdr[a].is_free /\ hdr[hdr[a].next].is_free

\* Outside kfree no two neighbouring blocks are free: one pass of the loop of
\* heap.c:54-62 merges every pair, and a split never creates one.
Coalesced == op # "kfree" => \A a \in Blocks : ~NeighboursFree(a)

\* Every pointer a caller holds has a block of its own that is marked used and
\* holds the size asked for, wasting less than a header and SplitSlack bytes;
\* every used block is held by a caller (heap.c:24-38 and 50-51).
Honoured ==
  /\ {a + HeaderSize : a \in {b \in Blocks : ~hdr[b].is_free}} = DOMAIN live
  /\ \A p \in DOMAIN live :
       /\ hdr[p - HeaderSize].size >= live[p]
       /\ hdr[p - HeaderSize].size < live[p] + HeaderSize + SplitSlack

\* When the callers have freed everything the list is the one block init_heap
\* made, so no sequence of calls wears the heap out.
Restored ==
  op = "idle" /\ live = [p \in {} |-> 0] =>
    hdr = [a \in {HeapStart} |->
             [size |-> HeapMaxSize - HeaderSize, is_free |-> TRUE, next |-> NULL]]

\* The bytes a caller may use, and those of a header.
Held(p) == p .. p + live[p] - 1
Header(a) == a .. a + HeaderSize - 1

\* Callers may write all they asked for: it lies in the arena, apart from what
\* other callers hold and from every header on the list, those of the blocks
\* split off and merged since included (heap.c:27-33 and 54-62).
Separate ==
  \A p \in DOMAIN live :
    /\ Held(p) \subseteq HeapStart .. HeapEnd - 1
    /\ \A q \in DOMAIN live \ {p} : Held(p) \cap Held(q) = {}
    /\ \A a \in Blocks : Held(p) \cap Header(a) = {}

\* How far the loop of the call in progress may still go: the bytes from curr to
\* the arena's end, and those behind its block.
Left == IF curr = NULL THEN 0 ELSE 1 + (HeapEnd - curr) + (HeapEnd - End(curr))

\* Each turn of the two loops ends the call or brings it nearer to its end, so
\* neither walks in a circle or merges for ever (heap.c:24-41 and 54-62).
LoopsAdvance ==
  [][op # "idle" => op' = "idle" \/ (op' = op /\ Left' \in 0 .. Left - 1)]_vars

\* The loop of kmalloc has passed only blocks that do not fit, and the loop of
\* kfree only pairs it need not merge.
Progress ==
  /\ op = "idle" => curr = NULL
  /\ op = "kmalloc" <=> size > 0
  /\ op = "kmalloc" => \A a \in Blocks :
       curr = NULL \/ a < curr => ~(hdr[a].is_free /\ hdr[a].size >= size)
  /\ op = "kfree" => curr # NULL /\ \A a \in Blocks : a < curr => ~NeighboursFree(a)

\* The inductive invariant of the proofs.
IInv == TypeOK /\ Tiling /\ Coalesced /\ Honoured /\ Progress

\* kmalloc and kfree implement the promise of Allocator; in particular kmalloc
\* returns NULL only when no run of unused bytes could hold the block.
A == INSTANCE Allocator WITH
       Lo <- HeapStart, Hi <- HeapEnd, Overhead <- HeaderSize,
       Slack <- HeaderSize + SplitSlack,
       granted <- [p \in DOMAIN live |-> hdr[p - HeaderSize].size],
       request <- size

RefinesAllocator == A!Spec

\* Every kmalloc and kfree returns: the list never closes on itself and merging
\* cannot go on for ever.
CallsReturn == op # "idle" ~> op = "idle"
=============================================================================
