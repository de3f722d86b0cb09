-------------------------------- MODULE MCPmm --------------------------------
(* Pmm with blocks of four bytes, and a bitmap of two-bit bytes and words of two. *)
EXTENDS Pmm

\* Low memory and memory above a hole, with ends inside a block and beyond the
\* memory's size.
MCMaps ==
  {{[base |-> 0, length |-> low], [base |-> above, length |-> high]} :
     low \in {6, 22}, above \in {16, 24}, high \in {11, 20, 47}}

MCMemSizes == {48, 55, 64}
MCKernelEnds == {5, 9}
=============================================================================
