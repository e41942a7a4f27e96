------------------------------- MODULE MCHeap -------------------------------
(* The machine of MCPmm with a heap.                                       *)
EXTENDS Heap, MCPmm
=============================================================================
