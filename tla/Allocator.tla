------------------------------ MODULE Allocator ------------------------------
(***************************************************************************)
(* What kmalloc and kfree promise their callers, with no list of blocks:   *)
(* a granted region holds at least the bytes asked for, shares no byte     *)
(* with another one, and keeps its place and size until it is released;    *)
(* and a request is refused only when no run of unused bytes could hold it.*)
(* Heap implements this specification (Heap!RefinesAllocator).             *)
(***************************************************************************)
EXTENDS Integers

CONSTANTS
  Lo, Hi,      \* the arena is the bytes Lo .. Hi - 1
  Overhead,    \* bookkeeping bytes in front of every region
  Slack,       \* a region may exceed its request by less than Slack bytes
  Sizes        \* the sizes a caller may ask for

VARIABLES
  granted,     \* regions held by callers: first data byte -> bytes reserved
  request      \* size being asked for, 0 when no request is pending

vars == <<granted, request>>

\* Bytes lo .. hi - 1 lie in the arena, outside every region and its overhead.
Unused(lo, hi) ==
  /\ lo >= Lo /\ hi <= Hi
  /\ \A p \in DOMAIN granted : hi <= p - Overhead \/ lo >= p + granted[p]

Init == granted = [p \in {} |-> 0] /\ request = 0

Request(n) ==
  /\ request = 0 /\ n > 0
  /\ request' = n
  /\ UNCHANGED granted

Grant(p, s) ==
  /\ request > 0
  /\ s >= request /\ s < request + Slack
  /\ Unused(p - Overhead, p + s)
  /\ granted' = [q \in DOMAIN granted \cup {p} |-> IF q = p THEN s ELSE granted[q]]
  /\ request' = 0

Deny ==
  /\ request > 0
  /\ ~ \E lo \in Lo .. Hi : Unused(lo, lo + Overhead + request)
  /\ request' = 0
  /\ UNCHANGED granted

Release(p) ==
  /\ request = 0
  /\ granted' = [q \in DOMAIN granted \ {p} |-> granted[q]]
  /\ UNCHANGED request

Next ==
  \/ \E n \in Sizes : Request(n)
  \/ \E p, s \in 1 .. Hi : Grant(p, s)
  \/ Deny
  \/ \E p \in DOMAIN granted : Release(p)

Spec == Init /\ [][Next]_vars
==============================================================================
