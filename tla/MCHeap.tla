------------------------------- MODULE MCHeap -------------------------------
(* Heap on an arena of a few bytes, every size_t value offered as a size. *)
EXTENDS Heap

MCSizes == 0 .. SizeMod - 1
=============================================================================
