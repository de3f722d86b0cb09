------------------------------ MODULE FileStore ------------------------------
(***************************************************************************)
(* What the file system promises, with no table of nodes and no memory: a  *)
(* bounded set of files with distinct names, each holding the text last    *)
(* written to it.  Vfs implements this specification, for the names as its *)
(* nodes cut them (Vfs!RefinesFileStore).                                  *)
(***************************************************************************)
EXTENDS Integers, FiniteSets

CONSTANTS
  MaxFiles,   \* how many files there may be
  Names,      \* the names of files
  Texts       \* what can be written to a file

VARIABLE store   \* name -> text

Init == store = [n \in {} |-> <<>>]

Create(n, t) ==
  /\ n \notin DOMAIN store /\ Cardinality(DOMAIN store) < MaxFiles
  /\ store' = [m \in DOMAIN store \cup {n} |-> IF m = n THEN t ELSE store[m]]

Write(n, t) ==
  /\ n \in DOMAIN store
  /\ store' = [store EXCEPT ![n] = t]

Next == \E n \in Names, t \in Texts : Create(n, t) \/ Write(n, t)

Spec == Init /\ [][Next]_store
==============================================================================
